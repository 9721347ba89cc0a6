---------------------------- MODULE BoundedBuffer -----------------------------
(***************************************************************************)
(* What processes expect of a buffer they share: first in, first out, never  *)
(* more than its bound, and nobody is left asking for ever for what the      *)
(* buffer could give.  How a process that asks is put to sleep and woken is  *)
(* not said.                                                                *)
(***************************************************************************)
EXTENDS Naturals, Sequences

CONSTANTS Process, Item, None

VARIABLES
  bound,    \* how many items fit; 0 for any number
  items,    \* the items in the buffer, oldest first
  request   \* what each process is asking for

shared == <<bound, items, request>>

Ask(op, arg) == [op |-> op, arg |-> arg]
Idle == Ask("none", None)
Requests == {Ask("get", None), Ask("peek", None)} \cup {Ask("put", i) : i \in Item}

Room == bound = 0 \/ Len(items) < bound

Init ==
  /\ bound \in Nat
  /\ items = <<>>
  /\ request = [p \in Process |-> Idle]

\* p asks for something the buffer cannot do now.
Request(p, r) ==
  /\ request[p] = Idle
  /\ IF r.op = "put" THEN ~Room ELSE items = <<>>
  /\ request' = [request EXCEPT ![p] = r]
  /\ UNCHANGED <<bound, items>>

\* p is served, whether it had to ask or not.
Served(p, r) ==
  /\ request[p] \in {Idle, r}
  /\ request' = [request EXCEPT ![p] = Idle]
  /\ UNCHANGED bound

Put(p, i) == Room /\ items' = Append(items, i) /\ Served(p, Ask("put", i))
Get(p) == items # <<>> /\ items' = Tail(items) /\ Served(p, Ask("get", None))
Peek(p) == items # <<>> /\ UNCHANGED items /\ Served(p, Ask("peek", None))

Flush == items' = <<>> /\ UNCHANGED <<bound, request>>

Next ==
  \/ \E p \in Process :
       \/ \E r \in Requests : Request(p, r)
       \/ \E i \in Item : Put(p, i)
       \/ Get(p) \/ Peek(p)
  \/ Flush

Spec == Init /\ [][Next]_shared

\* The buffer could give p what it asks for.
Servable(p) ==
  \/ request[p].op = "put" /\ Room
  \/ request[p].op \in {"get", "peek"} /\ items # <<>>

\* Nobody keeps asking for what could be given.
NobodyStranded == \A p \in Process : []<>~Servable(p)
=============================================================================
