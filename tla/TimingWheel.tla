----------------------------- MODULE TimingWheel -----------------------------
(***************************************************************************)
(* The hierarchical timing wheel of the simulation engine                  *)
(* (engine/scheduler/timing_wheel.rs): three levels of W buckets, a bucket  *)
(* of level n covering W^n time units.  The run loop of engine/core.rs      *)
(* drives it: push_event files an event of a future time with add_event,    *)
(* and every simulated time starts with advance(time), which moves the      *)
(* pointer, cascades higher levels down and drains one level-0 bucket.      *)
(*                                                                         *)
(* The code keeps, per bucket, a Vec of (remainder, event).  Every pushed   *)
(* event is an identity of its own here, so the same data is the function   *)
(* `slot' from events to the bucket that holds them: its level, its index,  *)
(* the stored remainder and the position in the Vec.                        *)
(***************************************************************************)
EXTENDS Naturals, FiniteSets

CONSTANTS
  Event,      \* the identities of the RegionEvents pushed in a run
  W,          \* WHEEL_SIZE, the buckets of a level (256 in the code)
  MaxTime,    \* bound: the last simulated time
  MaxOffset   \* bound: the largest delay handed to add_event

ASSUME WheelAssumption ==
  /\ IsFiniteSet(Event)
  /\ W \in Nat /\ W >= 2
  /\ MaxTime \in Nat
  /\ MaxOffset \in Nat

\* "Total coverage: 256 * 256 * 256 time units without overflow": a delay that
\* long would alias with a bucket of an earlier turn of level 2.
ASSUME HorizonAssumption == MaxOffset < W * W * W

VARIABLES
  slot,          \* levels: where each event is filed, or Nowhere
  current_time,  \* the pointer, an absolute time
  total_events,  \* the counter total_events() returns
  due,           \* history: the time each event was added for
  stamp,         \* history: the order in which events were added
  entry,         \* history: the level a future event was first filed in
  firedAt        \* history: the time at which advance returned each event

wheel == <<slot, current_time, total_events>>
history == <<due, stamp, entry, firedAt>>
vars == <<slot, current_time, total_events, due, stamp, entry, firedAt>>

Levels == 0..2
NotAhead == 3    \* the entry of an event that was not added for a future time
Nowhere == [lvl |-> 3, idx |-> 0, rem |-> 0, pos |-> 0]
Never == MaxTime + MaxOffset + W * W * W + 1   \* no event is due or fired then
-----------------------------------------------------------------------------
(* add_event: the level follows from the distance, the bucket and the       *)
(* remainder from the absolute time.                                        *)

InclusiveLevelFor(offset) ==   \* mutant: W itself still counts as level 0
  IF offset <= W THEN 0 ELSE IF offset < W * W THEN 1 ELSE 2

LevelFor(offset) ==
  IF offset < W THEN 0 ELSE IF offset < W * W THEN 1 ELSE 2

UnmaskedIdxFor(lvl, time) ==   \* mutant: the level-1 index is not masked
  IF lvl = 1 THEN time \div W ELSE IF lvl = 0 THEN time % W ELSE (time \div (W * W)) % W

IdxFor(lvl, time) ==
  CASE lvl = 0 -> time % W
    [] lvl = 1 -> (time \div W) % W
    [] lvl = 2 -> (time \div (W * W)) % W

RemFor(lvl, time) ==
  CASE lvl = 0 -> 0
    [] lvl = 1 -> time % W
    [] lvl = 2 -> time % (W * W)

Bucket(lvl, idx) == {e \in Event : slot[e].lvl = lvl /\ slot[e].idx = idx}

Filed(lvl, idx, rem) ==
  [lvl |-> lvl, idx |-> idx, rem |-> rem, pos |-> Cardinality(Bucket(lvl, idx)) + 1]

\* Files event e for a time that is not in the past.
AddAhead(e, time) ==
  LET lvl == LevelFor(time - current_time)
  IN  /\ time >= current_time
      /\ slot' = [slot EXCEPT ![e] = Filed(lvl, IdxFor(lvl, time), RemFor(lvl, time))]
      /\ entry' = [entry EXCEPT ![e] = IF time > current_time THEN lvl ELSE NotAhead]

\* An event of the past goes to bucket 0 of level 0, whatever the pointer is.
AddPast(e, time) ==
  /\ time < current_time
  /\ slot' = [slot EXCEPT ![e] = Filed(0, 0, 0)]
  /\ entry' = [entry EXCEPT ![e] = NotAhead]

AddEvent(e, time) ==
  /\ due[e] = Never
  /\ AddAhead(e, time) \/ AddPast(e, time)
  /\ total_events' = total_events + 1
  /\ due' = [due EXCEPT ![e] = time]
  /\ stamp' = [stamp EXCEPT ![e] = Cardinality({f \in Event : due[f] # Never}) + 1]
  /\ UNCHANGED <<current_time, firedAt>>
-----------------------------------------------------------------------------
(* advance(current_time + 1): leaving a multiple of W cascades one bucket   *)
(* of level 1, then leaving a multiple of W^2 one of level 2, then the      *)
(* pointer moves and its level-0 bucket is drained.                         *)

LeavesL1Boundary == current_time > 0 /\ current_time % W = 0
LeavesL2Boundary == current_time > 0 /\ current_time % (W * W) = 0

\* cascade_l1_to_l0 and cascade_l2_to_l1 empty the bucket of the pointer.
CascadedL1 ==
  IF LeavesL1Boundary THEN Bucket(1, IdxFor(1, current_time)) ELSE {}
CascadedL2 ==
  IF LeavesL2Boundary THEN Bucket(2, IdxFor(2, current_time)) ELSE {}

\* The bucket the remainder of an event selects one level down.
LowerIdx(e) == IF slot[e].lvl = 1 THEN slot[e].rem ELSE (slot[e].rem \div W) % W
NoLowerRem(e) == 0   \* mutant: the remainder is dropped on the way down

LowerRem(e) == IF slot[e].lvl = 1 THEN 0 ELSE slot[e].rem % W

\* The events of the target bucket that stay in it: cascade_l1_to_l0 has
\* already emptied its own bucket when cascade_l2_to_l1 fills level 1.
Occupants(lvl, idx) == Bucket(lvl, idx) \ CascadedL1

ReversedBefore(e, moved) ==   \* mutant: the bucket is popped from the back
  {f \in moved : LowerIdx(f) = LowerIdx(e) /\ slot[f].pos > slot[e].pos}

\* The events of the cascaded bucket pushed to e's new bucket before e.
Before(e, moved) ==
  {f \in moved : LowerIdx(f) = LowerIdx(e) /\ slot[f].pos < slot[e].pos}

\* Entries keep their order and are pushed behind the target's occupants.
Lowered(e, moved) ==
  LET lvl == slot[e].lvl - 1
  IN  [lvl |-> lvl, idx |-> LowerIdx(e), rem |-> LowerRem(e),
       pos |-> Cardinality(Occupants(lvl, LowerIdx(e))) + Cardinality(Before(e, moved)) + 1]

DroppingCascaded(e) ==   \* mutant: the events taken from level 2 are not pushed again
  IF e \in CascadedL1 THEN Lowered(e, CascadedL1)
  ELSE IF e \in CascadedL2 THEN Nowhere ELSE slot[e]

Cascaded(e) ==
  IF e \in CascadedL1 THEN Lowered(e, CascadedL1)
  ELSE IF e \in CascadedL2 THEN Lowered(e, CascadedL2)
  ELSE slot[e]

\* The events advance(time) returns, given where they are filed by then.
Drained(filed, time) ==
  {e \in Event : filed[e].lvl = 0 /\ filed[e].idx = time % W}

Drain(filed, time) ==
  LET out == Drained(filed, time)
  IN  /\ slot' = [e \in Event |-> IF e \in out THEN Nowhere ELSE filed[e]]
      /\ total_events' = total_events - Cardinality(out)
      /\ firedAt' = [e \in Event |-> IF e \in out THEN time ELSE firedAt[e]]

\* The run loop moves one time unit at a time ...
Tick ==
  /\ current_time < MaxTime
  /\ current_time' = current_time + 1
  /\ Drain([e \in Event |-> Cascaded(e)], current_time + 1)
  /\ UNCHANGED <<due, stamp, entry>>

\* ... and drains the present time again when it starts or resumes there.
Redrain ==
  /\ Drain(slot, current_time)
  /\ UNCHANGED <<current_time, due, stamp, entry>>

ForgetHistory ==
  /\ due' = [e \in Event |-> Never]
  /\ stamp' = [e \in Event |-> 0]
  /\ entry' = [e \in Event |-> NotAhead]
  /\ firedAt' = [e \in Event |-> Never]

\* clear(): every bucket emptied, pointer and counter back to zero.
Clear ==
  /\ slot' = [e \in Event |-> Nowhere]
  /\ current_time' = 0
  /\ total_events' = 0
  /\ ForgetHistory
-----------------------------------------------------------------------------
Init ==
  /\ slot = [e \in Event |-> Nowhere]
  /\ current_time = 0
  /\ total_events = 0
  /\ due = [e \in Event |-> Never]
  /\ stamp = [e \in Event |-> 0]
  /\ entry = [e \in Event |-> NotAhead]
  /\ firedAt = [e \in Event |-> Never]

AddTimes == 0..(current_time + MaxOffset)

Next ==
  \/ \E e \in Event, t \in AddTimes : AddEvent(e, t)
  \/ Tick
  \/ Redrain
  \/ Clear

Spec == Init /\ [][Next]_vars
-----------------------------------------------------------------------------
Slot ==
  {Nowhere} \cup [lvl : Levels, idx : 0..(W - 1), rem : 0..(W * W - 1), pos : Nat \ {0}]

\* Every field holds what the code's types and masks allow; a bucket index is
\* below WHEEL_SIZE and a remainder below WHEEL_SIZE squared.
TypeOK ==
  /\ slot \in [Event -> Slot]
  /\ current_time \in 0..MaxTime
  /\ total_events \in Nat
  /\ due \in [Event -> Nat]
  /\ stamp \in [Event -> Nat]
  /\ entry \in [Event -> 0..3]
  /\ firedAt \in [Event -> Nat]

Stored == {e \in Event : slot[e] # Nowhere}
Fired(e) == firedAt[e] # Never

\* The counter behind total_events() is the number of events in the buckets of
\* all three levels.
CounterExact == total_events = Cardinality(Stored)

\* An event that was added is in one bucket until advance returns it.
NothingLost == \A e \in Event : (e \in Stored) <=> (due[e] # Never /\ ~Fired(e))

\* add_event, the cascades and the drains keep the counter in step with the
\* buckets, and an event is returned once: no cascade drops it or leaves a copy
\* behind.
StoredExact == CounterExact /\ NothingLost

\* A bucket is cascaded when the pointer leaves its first time unit, after that
\* unit was drained, so an event due exactly then waits for the next turn of
\* level 0; and level 1 is cascaded before level 2, so an event that comes from
\* level 2 into the level-1 bucket of the pointer waits for the next turn of
\* level 1.
OnL1Boundary(e) == entry[e] \in {1, 2} /\ due[e] % W = 0
OnL2Boundary(e) == entry[e] = 2 /\ (due[e] \div W) % W = 0
OnBoundary(e) == OnL1Boundary(e) \/ OnL2Boundary(e)

\* The time for which an event was added is the time at which it is returned.
OnTime(e) ==
  /\ Fired(e) => firedAt[e] = due[e]
  /\ e \in Stored => current_time < due[e]

\* Every event added for a future time is returned at its time, neither early
\* nor late: a cascade "preserves exact timing" (add_event, advance).  The code
\* breaks this for events on a cascade boundary.
ExactTime == \A e \in Event : entry[e] # NotAhead => OnTime(e)

\* An event added for a future time that is not on a cascade boundary is
\* returned exactly at its time, through whatever levels it comes down (the
\* remainders of add_event and of the cascades).  Boundaries are what ExactTime
\* is violated by.
OnSchedule ==
  \A e \in Event : entry[e] # NotAhead /\ ~OnBoundary(e) => OnTime(e)

\* Two events of one time that entered the wheel at one level sit in one bucket,
\* the first added before the other, at every level they pass through.
SameLevelFifo ==
  \A e, f \in Stored :
    (due[e] = due[f] /\ entry[e] = entry[f] /\ entry[e] # NotAhead /\ stamp[e] < stamp[f])
      => /\ slot[e].lvl = slot[f].lvl /\ slot[e].idx = slot[f].idx
         /\ slot[e].pos < slot[f].pos
-----------------------------------------------------------------------------
(* The wheel implements the queue of timed events the run loop needs.       *)

\* How late the wheel returns an event that sits on a boundary.
Lateness(e) ==
  (IF OnL1Boundary(e) THEN W ELSE 0) + (IF OnL2Boundary(e) THEN W * W ELSE 0)

\* The first time after the present one whose level-0 bucket is idx.
NextDrain(idx) ==
  LET turn == current_time - (current_time % W)
  IN  IF idx > current_time % W THEN turn + idx ELSE turn + W + idx

LatestDrain(e) ==
  IF entry[e] = NotAhead THEN NextDrain(slot[e].idx) ELSE due[e] + Lateness(e)

WindowOf(e) == [due |-> due[e], latest |-> LatestDrain(e)]

Queue == INSTANCE EventQueue WITH
  Slack <- W + W * W,
  now <- current_time,
  pending <- [e \in Stored |-> WindowOf(e)],
  taken <- {e \in Event : Fired(e)}

\* Seen from the run loop the wheel is such a queue: add_event makes an event
\* pending, advance takes pending events only, once, none before its time and
\* none more than a turn of level 0 and one of level 1 late, an event of the
\* past or of the present no later than a turn of level 0; clear forgets all.
ImplementsEventQueue == Queue!Spec
=============================================================================
