------------------------------ MODULE EventQueue ------------------------------
(***************************************************************************)
(* What the run loop expects of whatever keeps its timed events            *)
(* (push_event and the drain of engine/core.rs): an event that was pushed   *)
(* is pending until the drain of some time takes it, once, neither before   *)
(* the time it was pushed for nor more than Slack time units late.          *)
(*                                                                         *)
(* Nothing is said of how events are stored.  The queue fixes the latest    *)
(* time of an event when it is pushed; the timing wheel fixes it by the     *)
(* bucket it files the event in.                                            *)
(***************************************************************************)
EXTENDS Naturals

CONSTANTS
  Event,      \* the events pushed in a run
  MaxTime,    \* bound: the last time
  MaxOffset,  \* bound: the largest delay pushed
  Slack       \* how late an event may be taken

VARIABLES
  now,        \* the time of the last drain
  pending,    \* the events still to be taken, each with its window of times
  taken       \* the events already taken

queue == <<now, pending, taken>>

Windows == [due : Nat, latest : Nat]

Later(t) == IF t > now THEN t ELSE now

Init ==
  /\ now = 0
  /\ pending = [e \in {} |-> 0]
  /\ taken = {}

\* A new event for time t; a time already reached counts from now on.
Push(e, t) ==
  /\ e \notin DOMAIN pending \cup taken
  /\ \E l \in (now + 1)..(Later(t) + Slack) :
       /\ t <= l
       /\ pending' = [f \in DOMAIN pending \cup {e} |->
                        IF f = e THEN [due |-> t, latest |-> l] ELSE pending[f]]
  /\ UNCHANGED <<now, taken>>

\* The drain of time t takes the events S: only events that are due, and every
\* event whose latest time has come.
Take(S, t) ==
  /\ \A e \in S : pending[e].due <= t
  /\ \A e \in DOMAIN pending \ S : t < pending[e].latest
  /\ now' = t
  /\ pending' = [e \in DOMAIN pending \ S |-> pending[e]]
  /\ taken' = taken \cup S

Drain(t) == \E S \in SUBSET DOMAIN pending : Take(S, t)

Advance ==
  /\ now < MaxTime
  /\ Drain(now + 1)

Clear ==
  /\ now' = 0
  /\ pending' = [e \in {} |-> 0]
  /\ taken' = {}

Next ==
  \/ \E e \in Event, t \in 0..(now + MaxOffset) : Push(e, t)
  \/ Advance
  \/ Drain(now)
  \/ Clear

Spec == Init /\ [][Next]_queue
=============================================================================
