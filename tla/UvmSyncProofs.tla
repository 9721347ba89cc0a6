---------------------------- MODULE UvmSyncProofs -----------------------------
(***************************************************************************)
(* For any number of processes, items, sizes and thresholds: the types, no   *)
(* lost wakeup, the barrier, finish_item, and that FIFO and mailbox          *)
(* implement a bounded buffer (its safety; that nobody is stranded is        *)
(* liveness and left to TLC).                                               *)
(*                                                                         *)
(* Each theorem rests on Inv, proved action group by action group.           *)
(***************************************************************************)
EXTENDS UvmSync, TLAPS, FiniteSetTheorems

(* Typing, split by module so that a step needs to look at one part only.   *)

WaitersType ==
  /\ mode \in [Process -> {"running", "blocked", "woken"}]
  /\ stmt \in [Process -> Statements \cup {NoStmt}]
  /\ \A p \in Process : mode[p] = "running" <=> stmt[p] = NoStmt

BufferType ==
  /\ size \in Nat /\ queue \in Seq(Item)
  /\ design \in FifoDesigns => Len(queue) <= Capacity
  /\ design = "mailbox" /\ size > 0 => Len(queue) <= size

ConditionsType ==
  /\ triggered \in BOOLEAN /\ on \in BOOLEAN
  /\ threshold \in Nat \ {0} /\ count \in Nat
  /\ config \subseteq Path \cup {Wildcard}

SequencerType ==
  /\ connected \in BOOLEAN /\ item_queue \in Seq(Item)
  /\ current_item \in Item \cup {None}
  /\ open \in [Process -> Item \cup {None}] /\ done \subseteq Item

LEMMA TypeParts ==
  TypeOK <=> design \in Designs /\ WaitersType /\ BufferType /\ ConditionsType /\ SequencerType
BY DEF TypeOK, WaitersType, BufferType, ConditionsType, SequencerType

LEMMA NoStmtIsNone == NoStmt \notin Statements
BY DEF NoStmt, Statements, Call

\* The three ways the waiters change keep a process suspended iff it has a
\* statement.
LEMMA SuspendsTyped ==
  ASSUME WaitersType, NEW p \in Process, NEW s \in Statements, Suspends(p, s)
  PROVE  WaitersType'
BY NoStmtIsNone DEF WaitersType, Suspends

LEMMA WakesTyped ==
  ASSUME WaitersType, NEW p \in Process, NEW W,
         \A q \in W : q \in Process /\ mode[q] = "blocked", Wakes(p, W)
  PROVE  WaitersType'
BY DEF WaitersType, Wakes

LEMMA ReleasesTyped ==
  ASSUME WaitersType, NEW p \in Process, NEW W, Releases(p, W)
  PROVE  WaitersType'
BY DEF WaitersType, Releases

LEMMA WaitersBlocked ==
  ASSUME NEW ops PROVE \A q \in Waiters(ops) : q \in Process /\ mode[q] = "blocked"
BY DEF Waiters

LEMMA CallsAreStatements ==
  /\ \A i \in Item : Call("put", i) \in Statements /\ Call("finish_item", i) \in Statements
  /\ \A n \in Thresholds : Call("wait_for_count", n) \in Statements
  /\ \A path \in Path : Call("wait_modified", path) \in Statements
  /\ \A op \in {"get", "peek", "wait_trigger", "wait_on", "wait_for", "get_next_item"} :
       Call(op, None) \in Statements
BY DEF Statements

LEMMA FifoPushTyped ==
  ASSUME TypeOK, design \in FifoDesigns, NEW p \in Process, NEW i \in Item, FifoPush(p, i)
  PROVE  WaitersType' /\ (UNCHANGED design => BufferType')
<1>1. WaitersType'
  BY WakesTyped, WaitersBlocked, TypeParts DEF FifoPush, FifoGetters
<1>2. ASSUME UNCHANGED design PROVE BufferType'
  <2>1. queue' = Append(queue, i) /\ size' = size /\ Len(queue) < Capacity
    BY DEF FifoPush, FifoRoom
  <2>2. design # "mailbox"
    BY DEF FifoDesigns
  <2>3. queue \in Seq(Item) /\ size \in Nat /\ Capacity \in Nat
    BY DEF TypeOK, Capacity
  <2>4. queue' \in Seq(Item) /\ Len(queue') = Len(queue) + 1 /\ Len(queue) \in Nat
    BY <2>1, <2>3
  <2> QED BY <1>2, <2>1, <2>2, <2>3, <2>4 DEF BufferType, Capacity
<1> QED BY <1>1, <1>2

LEMMA PopShrinks ==
  ASSUME NEW S, NEW s \in Seq(S), s # <<>>
  PROVE  Tail(s) \in Seq(S) /\ Len(Tail(s)) = Len(s) - 1 /\ Len(s) \in Nat /\ Len(s) > 0
OBVIOUS

LEMMA FifoTyped ==
  ASSUME TypeOK, UNCHANGED design, NEW p \in Process, FifoStep(p)
  PROVE  WaitersType' /\ BufferType'
<1>1. design \in FifoDesigns /\ WaitersType /\ BufferType
  BY TypeParts DEF FifoStep
<1>2. CASE \E i \in Item : FifoPush(p, i)
  BY <1>1, <1>2, FifoPushTyped
<1>3. CASE FifoPop(p)
  <2>1. WaitersType'
    BY <1>1, <1>3, WakesTyped, WaitersBlocked DEF FifoPop, FifoPutters
  <2>2. queue' = Tail(queue) /\ size' = size /\ queue # <<>> /\ queue \in Seq(Item)
    BY <1>1, <1>3 DEF FifoPop, BufferType
  <2>3. design # "mailbox"
    BY <1>1 DEF FifoDesigns
  <2> QED BY <1>1, <2>1, <2>2, <2>3, PopShrinks DEF BufferType, Capacity
<1>4. ASSUME UNCHANGED buffer, NEW s \in Statements, Suspends(p, s) PROVE WaitersType' /\ BufferType'
  <2>1. WaitersType'
    BY <1>1, <1>4, SuspendsTyped
  <2> QED BY <1>1, <1>4, <2>1 DEF BufferType, buffer, Capacity
<1>5. ASSUME UNCHANGED buffer, Wakes(p, {}) PROVE WaitersType' /\ BufferType'
  <2>1. WaitersType'
    BY <1>1, <1>5, WakesTyped
  <2> QED BY <1>1, <1>5, <2>1 DEF BufferType, buffer, Capacity
<1>6. CASE FifoFlush(p)
  <2>1. queue' = <<>> /\ UNCHANGED <<size, waiting>>
    BY <1>6 DEF FifoFlush
  <2>2. WaitersType'
    BY <1>1, <2>1 DEF WaitersType, waiting
  <2>3. Len(queue') = 0 /\ queue' \in Seq(Item)
    BY <2>1
  <2> QED BY <1>1, <2>1, <2>2, <2>3 DEF BufferType, Capacity
<1> QED
  BY <1>2, <1>3, <1>4, <1>5, <1>6, CallsAreStatements
  DEF FifoStep, FifoPut, FifoGet, FifoPeek, FifoTryPut, FifoTryGet

LEMMA MailboxTyped ==
  ASSUME TypeOK, UNCHANGED design, NEW p \in Process, MailboxStep(p)
  PROVE  WaitersType' /\ BufferType'
<1>1. design = "mailbox" /\ design \notin FifoDesigns /\ WaitersType /\ BufferType
  BY TypeParts DEF MailboxStep, FifoDesigns
<1>2. ASSUME NEW i \in Item, MailboxPush(p, i) PROVE WaitersType' /\ BufferType'
  <2>1. WaitersType'
    BY <1>1, <1>2, WakesTyped, WaitersBlocked DEF MailboxPush
  <2>2. queue' = Append(queue, i) /\ size' = size /\ (size = 0 \/ Len(queue) < size)
    BY <1>2 DEF MailboxPush, MailboxRoom
  <2>3. queue \in Seq(Item) /\ size \in Nat
    BY <1>1 DEF BufferType
  <2>4. queue' \in Seq(Item) /\ Len(queue') = Len(queue) + 1 /\ Len(queue) \in Nat
    BY <2>2, <2>3
  <2> QED BY <1>1, <2>1, <2>2, <2>3, <2>4 DEF BufferType
<1>3. CASE MailboxPop(p)
  <2>1. WaitersType'
    BY <1>1, <1>3, WakesTyped, WaitersBlocked DEF MailboxPop
  <2>2. queue' = Tail(queue) /\ size' = size /\ queue # <<>> /\ queue \in Seq(Item)
    BY <1>1, <1>3 DEF MailboxPop, BufferType
  <2> QED BY <1>1, <2>1, <2>2, PopShrinks DEF BufferType
<1>4. ASSUME UNCHANGED buffer, NEW s \in Statements, Suspends(p, s) PROVE WaitersType' /\ BufferType'
  <2>1. WaitersType'
    BY <1>1, <1>4, SuspendsTyped
  <2> QED BY <1>1, <1>4, <2>1 DEF BufferType, buffer
<1> QED
  BY <1>2, <1>3, <1>4, CallsAreStatements
  DEF MailboxStep, MailboxPut, MailboxGet, MailboxTryPut, MailboxTryGet

LEMMA EventTyped ==
  ASSUME TypeOK, NEW p \in Process, EventStep(p)
  PROVE  WaitersType' /\ ConditionsType'
<1>1. WaitersType /\ ConditionsType
  BY TypeParts
<1>2. CASE Trigger(p)
  BY <1>1, <1>2, ReleasesTyped DEF Trigger, ConditionsType, barrier
<1>3. CASE ResetEvent(p) \/ \E v \in BOOLEAN : OnOff(p, v)
  <2>1. WaitersType'
    BY <1>1, <1>3 DEF ResetEvent, OnOff, WaitersType, waiting
  <2> QED BY <1>1, <1>3, <2>1 DEF ResetEvent, OnOff, ConditionsType, barrier
<1>4. CASE WaitTrigger(p) \/ WaitOn(p)
  <2>1. WaitersType' /\ UNCHANGED conditions
    BY <1>1, <1>4, SuspendsTyped, CallsAreStatements DEF WaitTrigger, WaitOn
  <2> QED BY <1>1, <2>1 DEF ConditionsType, conditions
<1> QED BY <1>2, <1>3, <1>4 DEF EventStep

LEMMA BarrierTyped ==
  ASSUME TypeOK, NEW p \in Process, BarrierStep(p)
  PROVE  WaitersType' /\ ConditionsType'
<1>1. WaitersType /\ ConditionsType
  BY TypeParts
<1>2. CASE WaitFor(p)
  <2>1. WaitersType'
    BY <1>1, <1>2, ReleasesTyped, SuspendsTyped, CallsAreStatements DEF WaitFor
  <2> QED BY <1>1, <1>2, <2>1 DEF WaitFor, ConditionsType, event
<1>3. CASE \E n \in Thresholds : WaitForCount(p, n)
  <2>1. WaitersType' /\ UNCHANGED conditions
    BY <1>1, <1>3, ReleasesTyped, SuspendsTyped, CallsAreStatements DEF WaitForCount
  <2> QED BY <1>1, <2>1 DEF ConditionsType, conditions
<1>4. CASE ResetBarrier(p) \/ \E n \in Thresholds : SetThreshold(p, n)
  <2>1. WaitersType'
    BY <1>1, <1>4 DEF ResetBarrier, SetThreshold, WaitersType, waiting
  <2> QED BY <1>1, <1>4, <2>1, SyncAssumption DEF ResetBarrier, SetThreshold, AtLeastOne, ConditionsType, event
<1> QED BY <1>2, <1>3, <1>4 DEF BarrierStep

LEMMA ConfigTyped ==
  ASSUME TypeOK, NEW p \in Process, ConfigStep(p)
  PROVE  WaitersType' /\ ConditionsType'
<1>1. WaitersType /\ ConditionsType
  BY TypeParts
<1>2. ASSUME NEW key \in Path \cup {Wildcard}, ConfigSet(p, key) PROVE WaitersType' /\ ConditionsType'
  <2>1. WaitersType'
    BY <1>1, <1>2, WakesTyped, WaitersBlocked DEF ConfigSet
  <2> QED BY <1>1, <1>2, <2>1 DEF ConfigSet, ConditionsType, event, barrier
<1>3. ASSUME NEW path \in Path, WaitModified(p, path) PROVE WaitersType' /\ ConditionsType'
  <2>1. WaitersType' /\ UNCHANGED conditions
    BY <1>1, <1>3, WakesTyped, SuspendsTyped, CallsAreStatements DEF WaitModified
  <2> QED BY <1>1, <2>1 DEF ConditionsType, conditions
<1> QED BY <1>2, <1>3 DEF ConfigStep

LEMMA SequenceTyped ==
  ASSUME TypeOK, NEW p \in Process, SequenceStep(p)
  PROVE  WaitersType' /\ SequencerType'
<1>1. WaitersType /\ SequencerType
  BY TypeParts
<1>2. ASSUME NEW i \in Item, StartItem(p, i) PROVE WaitersType' /\ SequencerType'
  <2>1. WaitersType'
    BY <1>1, <1>2, WakesTyped, WaitersBlocked DEF StartItem, ItemGetters
  <2> QED BY <1>1, <1>2, <2>1 DEF StartItem, SequencerType
<1>3. ASSUME NEW i \in Item, FinishItem(p, i) PROVE WaitersType' /\ SequencerType'
  <2>1. WaitersType'
    BY <1>1, <1>3, WakesTyped, SuspendsTyped, CallsAreStatements DEF FinishItem
  <2> QED BY <1>1, <1>3, <2>1 DEF FinishItem, SequencerType, sequencer
<1>4. CASE GetNextItem(p)
  <2>1. WaitersType'
    BY <1>1, <1>4, WakesTyped, SuspendsTyped, CallsAreStatements DEF GetNextItem
  <2>2. item_queue # <<>> => Tail(item_queue) \in Seq(Item) /\ Head(item_queue) \in Item
    BY <1>1 DEF SequencerType
  <2> QED BY <1>1, <1>4, <2>1, <2>2 DEF GetNextItem, SequencerType
<1>5. CASE ShowNextItem(p)
  <2>1. WaitersType'
    BY <1>1, <1>5 DEF ShowNextItem, WaitersType, waiting
  <2>2. item_queue # <<>> => Head(item_queue) \in Item
    BY <1>1 DEF SequencerType
  <2> QED BY <1>1, <1>5, <2>1, <2>2 DEF ShowNextItem, SequencerType
<1>6. CASE ItemDone(p)
  <2>1. WaitersType'
    BY <1>1, <1>6, WakesTyped, WaitersBlocked DEF ItemDone, Finishers
  <2>2. item_queue # <<>> => Tail(item_queue) \in Seq(Item)
    BY <1>1 DEF SequencerType
  <2> QED BY <1>1, <1>6, <2>1, <2>2 DEF ItemDone, SequencerType
<1> QED BY <1>2, <1>3, <1>4, <1>5, <1>6 DEF SequenceStep

LEMMA TypeOKInductive ==
  ASSUME TypeOK, [Next]_vars PROVE TypeOK'
<1>1. design \in Designs /\ WaitersType /\ BufferType /\ ConditionsType /\ SequencerType
  BY TypeParts
<1>2. UNCHANGED design /\ UNCHANGED conditions => ConditionsType'
  BY <1>1 DEF ConditionsType, conditions
<1>3. UNCHANGED design /\ UNCHANGED buffer => BufferType'
  BY <1>1 DEF BufferType, buffer, Capacity
<1>4. UNCHANGED sequencing => SequencerType'
  BY <1>1 DEF SequencerType, sequencing
<1>5. ASSUME NEW p \in Process, Step(p)
      PROVE  design' = design /\ WaitersType' /\ BufferType' /\ ConditionsType' /\ SequencerType'
  <2>1. UNCHANGED design
    BY <1>5 DEF Step
  <2>2. CASE FifoStep(p)
    BY <1>2, <1>4, <2>1, <2>2, FifoTyped DEF FifoStep
  <2>3. CASE MailboxStep(p)
    BY <1>2, <1>4, <2>1, <2>3, MailboxTyped DEF MailboxStep
  <2>4. CASE EventStep(p)
    BY <1>3, <1>4, <2>1, <2>4, EventTyped DEF EventStep
  <2>5. CASE BarrierStep(p)
    BY <1>3, <1>4, <2>1, <2>5, BarrierTyped DEF BarrierStep
  <2>6. CASE ConfigStep(p)
    BY <1>3, <1>4, <2>1, <2>6, ConfigTyped DEF ConfigStep
  <2>7. CASE SequenceStep(p)
    BY <1>2, <1>3, <2>1, <2>7, SequenceTyped DEF SequenceStep
  <2> QED BY <1>5, <2>1, <2>2, <2>3, <2>4, <2>5, <2>6, <2>7 DEF Step
<1>6. CASE UNCHANGED vars
  BY <1>6 DEF vars, TypeOK, buffer, conditions, sequencing, Capacity
<1>7. CASE Next
  BY <1>1, <1>5, <1>7 DEF Next, TypeOK, WaitersType, BufferType, ConditionsType, SequencerType
<1> QED BY <1>6, <1>7

LEMMA InitTyped == Init => TypeOK
<1> SUFFICES ASSUME Init PROVE TypeOK
  OBVIOUS
<1>1. Len(queue) = 0 /\ queue \in Seq(Item) /\ size \in Nat
  BY SyncAssumption DEF Init, InitBuffer
<1>2. threshold \in Nat \ {0}
  BY SyncAssumption DEF Init, InitConditions, AtLeastOne
<1>3. WaitersType
  BY DEF Init, InitWaiters, WaitersType
<1>4. BufferType
  BY <1>1 DEF BufferType, Init, InitBuffer, Capacity
<1>5. ConditionsType
  BY <1>2 DEF Init, InitConditions, ConditionsType
<1>6. SequencerType
  BY DEF Init, InitSequencer, SequencerType
<1> QED BY <1>3, <1>4, <1>5, <1>6, TypeParts DEF Init

\* Types and bounds, for every number of processes and every size.
THEOREM TypeCorrect == Spec => []TypeOK
<1>1. TypeOK /\ [Next]_vars => TypeOK'
  BY TypeOKInductive
<1> QED BY InitTyped, <1>1, PTL DEF Spec
-----------------------------------------------------------------------------
(* No lost wakeup.  A step leaves a process q asleep only if it was asleep in *)
(* the same statement and not among those woken, or suspends it.             *)

LEMMA SuspendsKeeps ==
  ASSUME WaitersType, NEW p \in Process, NEW s, Suspends(p, s), NEW q \in Process, mode'[q] = "blocked"
  PROVE  (q = p /\ stmt'[q] = s) \/ (mode[q] = "blocked" /\ stmt'[q] = stmt[q])
BY DEF WaitersType, Suspends

LEMMA WakesKeeps ==
  ASSUME WaitersType, NEW p \in Process, NEW W, Wakes(p, W), NEW q \in Process, mode'[q] = "blocked"
  PROVE  q \notin W /\ mode[q] = "blocked" /\ stmt'[q] = stmt[q]
BY DEF WaitersType, Wakes

LEMMA ReleasesKeeps ==
  ASSUME WaitersType, NEW p \in Process, NEW W, Releases(p, W), NEW q \in Process, mode'[q] = "blocked"
  PROVE  q \notin W /\ mode[q] = "blocked" /\ stmt'[q] = stmt[q]
BY DEF WaitersType, Releases

\* What a statement waits for, per part of the state.
BufferReady(s) ==
  \/ s.op \in {"get", "peek"} /\ queue # <<>>
  \/ s.op = "put" /\ (IF design = "mailbox" THEN MailboxRoom ELSE FifoRoom)

ConditionReady(s) ==
  \/ s.op = "wait_trigger" /\ triggered
  \/ s.op = "wait_on" /\ on
  \/ s.op = "wait_for" /\ Full(count)
  \/ s.op = "wait_for_count" /\ count >= s.arg
  \/ s.op = "wait_modified" /\ Exists(s.arg)

ItemReady(s) ==
  \/ s.op = "get_next_item" /\ item_queue # <<>>
  \/ s.op = "finish_item" /\ ~FinishBlocks(s.arg)

LEMMA ReadyParts == \A s : WouldGoOn(s) <=> BufferReady(s) \/ ConditionReady(s) \/ ItemReady(s)
BY DEF WouldGoOn, BufferReady, ConditionReady, ItemReady

LEMMA UntouchedParts ==
  /\ UNCHANGED <<buffer, design>> => \A s : BufferReady(s)' <=> BufferReady(s)
  /\ UNCHANGED conditions => \A s : ConditionReady(s)' <=> ConditionReady(s)
  /\ UNCHANGED sequencing => \A s : ItemReady(s)' <=> ItemReady(s)
BY DEF BufferReady, ConditionReady, ItemReady, buffer, conditions, sequencing, MailboxRoom,
       FifoRoom, Capacity, Full, Exists, FinishBlocks, Queued

LEMMA FifoWakes ==
  ASSUME TypeOK, NoLostWakeup, UNCHANGED design, NEW p \in Process, FifoStep(p),
         NEW q \in Process, NEW s, mode'[q] = "blocked", stmt'[q] = s, BufferReady(s)'
  PROVE  design = "fifo, flush" /\ s.op = "put"
<1>1. /\ design \in FifoDesigns /\ design # "mailbox" /\ WaitersType /\ size \in Nat
      /\ queue \in Seq(Item) /\ Capacity \in Nat
  BY TypeParts DEF FifoStep, FifoDesigns, BufferType, Capacity
<1>2. mode[q] = "blocked" /\ BufferReady(stmt[q]) => design = "fifo, flush" /\ stmt[q].op = "put"
  BY <1>1, ReadyParts DEF NoLostWakeup, Overlooked, BufferReady
<1>3. CASE \E i \in Item : FifoPush(p, i)
  <2>1. PICK i \in Item : queue' = Append(queue, i) /\ size' = size /\ Wakes(p, FifoGetters)
    BY <1>3 DEF FifoPush
  <2>2. mode[q] = "blocked" /\ stmt'[q] = stmt[q] /\ stmt[q].op \notin {"get", "peek"}
    BY <1>1, <2>1, WakesKeeps DEF FifoGetters, Waiters
  <2>3. Len(queue') = Len(queue) + 1 /\ Len(queue) \in Nat /\ Capacity' = Capacity
    BY <1>1, <2>1 DEF Capacity
  <2>4. BufferReady(stmt[q])
    BY <1>1, <2>2, <2>3 DEF BufferReady, FifoRoom
  <2> QED BY <1>2, <2>2, <2>4
<1>4. CASE FifoPop(p)
  <2>1. Wakes(p, FifoPutters) /\ queue # <<>>
    BY <1>4 DEF FifoPop
  <2>2. mode[q] = "blocked" /\ stmt'[q] = stmt[q] /\ stmt[q].op # "put"
    BY <1>1, <2>1, WakesKeeps DEF FifoPutters, Waiters
  <2>3. BufferReady(stmt[q])
    BY <2>1, <2>2 DEF BufferReady
  <2> QED BY <1>2, <2>2, <2>3
<1>5. ASSUME UNCHANGED buffer, NEW c, Suspends(p, c), ~BufferReady(c)
      PROVE  design = "fifo, flush" /\ s.op = "put"
  <2>1. BufferReady(s)
    BY <1>5, UntouchedParts
  <2> QED BY <1>1, <1>2, <1>5, <2>1, SuspendsKeeps
<1>6. CASE UNCHANGED buffer /\ Wakes(p, {})
  <2>1. BufferReady(s)
    BY <1>6, UntouchedParts
  <2> QED BY <1>1, <1>2, <1>6, <2>1, WakesKeeps
<1>7. CASE FifoFlush(p) /\ design = "fifo, flush"
  BY <1>1, <1>7 DEF FifoFlush, BufferReady, waiting
<1> QED
  <2>1. /\ \A i \in Item : ~FifoRoom => ~BufferReady(Call("put", i))
        /\ queue = <<>> => ~BufferReady(Call("get", None)) /\ ~BufferReady(Call("peek", None))
    BY <1>1 DEF BufferReady, Call
  <2> QED
    BY <1>3, <1>4, <1>5, <1>6, <1>7, <2>1
    DEF FifoStep, FifoPut, FifoGet, FifoPeek, FifoTryPut, FifoTryGet

LEMMA EventWakes ==
  ASSUME TypeOK, NoLostWakeup, UNCHANGED design, NEW p \in Process, EventStep(p),
         NEW q \in Process, NEW s, mode'[q] = "blocked", stmt'[q] = s, ConditionReady(s)'
  PROVE  Overlooked(s)'
<1>1. design \in EventDesigns /\ WaitersType /\ ConditionsType /\ config' = config
  BY TypeParts DEF EventStep, Trigger, ResetEvent, OnOff, WaitTrigger, WaitOn, conditions
<1>2. Overlooked(s) => Overlooked(s)'
  BY <1>1 DEF Overlooked
<1>3. mode[q] = "blocked" /\ stmt[q] = s /\ ConditionReady(s) => Overlooked(s)
  BY ReadyParts DEF NoLostWakeup
<1>4. CASE Trigger(p)
  <2>1. mode[q] = "blocked" /\ stmt[q] = s /\ s.op \notin {"wait_trigger", "wait_on"}
    BY <1>1, <1>4, ReleasesKeeps DEF Trigger, EventWaiters, Waiters
  <2>2. ConditionReady(s)
    BY <1>4, <2>1 DEF Trigger, ConditionReady, Full, Exists, barrier
  <2> QED BY <1>2, <1>3, <2>1, <2>2
<1>5. CASE ResetEvent(p)
  BY <1>2, <1>3, <1>5 DEF ResetEvent, ConditionReady, Full, Exists, barrier, waiting
<1>6. CASE design = "event, on_off" /\ \E v \in BOOLEAN : OnOff(p, v)
  <2>1. s.op = "wait_on" => Overlooked(s)
    BY <1>6 DEF Overlooked
  <2>2. mode[q] = "blocked" /\ stmt[q] = s
    BY <1>6 DEF OnOff, waiting
  <2>3. UNCHANGED <<triggered, threshold, count, config>>
    BY <1>6 DEF OnOff, barrier
  <2>4. s.op # "wait_on" => ConditionReady(s)
    BY <2>3 DEF ConditionReady, Full, Exists
  <2> QED BY <1>2, <1>3, <2>1, <2>2, <2>4
<1>7. ASSUME UNCHANGED conditions, NEW c, Suspends(p, c), ~ConditionReady(c) PROVE Overlooked(s)'
  <2>1. ConditionReady(s)
    BY <1>7, UntouchedParts
  <2> QED BY <1>1, <1>2, <1>3, <1>7, <2>1, SuspendsKeeps
<1> QED
  <2>1. /\ ~triggered => ~ConditionReady(Call("wait_trigger", None))
        /\ ~on => ~ConditionReady(Call("wait_on", None))
    BY DEF ConditionReady, Call
  <2> QED BY <1>4, <1>5, <1>6, <1>7, <2>1 DEF EventStep, WaitTrigger, WaitOn

LEMMA BarrierWakes ==
  ASSUME TypeOK, NoLostWakeup, UNCHANGED design, NEW p \in Process, BarrierStep(p),
         NEW q \in Process, NEW s, mode'[q] = "blocked", stmt'[q] = s, ConditionReady(s)'
  PROVE  Overlooked(s)'
<1>1. /\ WaitersType /\ ConditionsType /\ config' = config
      /\ count \in Nat /\ threshold \in Nat \ {0}
  BY TypeParts DEF BarrierStep, WaitFor, ResetBarrier, SetThreshold, WaitForCount, conditions, ConditionsType
<1>2. Overlooked(s) => Overlooked(s)'
  BY <1>1 DEF Overlooked
<1>3. mode[q] = "blocked" /\ stmt[q] = s /\ ConditionReady(s) => Overlooked(s)
  BY ReadyParts DEF NoLostWakeup
<1>4. s.op = "wait_for_count" => Overlooked(s)
  BY DEF Overlooked
<1>5. CASE WaitFor(p)
  <2>1. triggered' = triggered /\ on' = on /\ threshold' = threshold
    BY <1>5 DEF WaitFor, event
  <2>2. CASE Full(count + 1) /\ Releases(p, BarrierWaiters)
    <3>1. mode[q] = "blocked" /\ stmt[q] = s /\ s.op \notin {"wait_for", "wait_for_count"}
      BY <1>1, <2>2, ReleasesKeeps DEF BarrierWaiters, Waiters
    <3>2. ConditionReady(s)
      BY <1>1, <2>1, <3>1 DEF ConditionReady, Exists
    <3> QED BY <1>2, <1>3, <3>1, <3>2
  <2>3. CASE ~Full(count + 1) /\ count' = count + 1 /\ Suspends(p, Call("wait_for", None))
    <3>1. s.op # "wait_for"
      BY <2>1, <2>3 DEF ConditionReady, Full
    <3>2. mode[q] = "blocked" /\ stmt[q] = s
      BY <1>1, <2>3, <3>1, SuspendsKeeps DEF Call
    <3>3. s.op # "wait_for_count" => ConditionReady(s)
      BY <1>1, <2>1, <3>1 DEF ConditionReady, Exists
    <3> QED BY <1>2, <1>3, <1>4, <3>2, <3>3
  <2> QED BY <1>5, <2>2, <2>3 DEF WaitFor
<1>6. CASE \E n \in Thresholds : WaitForCount(p, n)
  <2>1. UNCHANGED conditions
    BY <1>6 DEF WaitForCount
  <2>2. ConditionReady(s)
    BY <2>1, UntouchedParts
  <2>3. (mode[q] = "blocked" /\ stmt[q] = s) \/ s.op = "wait_for_count"
    BY <1>1, <1>6, ReleasesKeeps, SuspendsKeeps DEF WaitForCount, Call
  <2> QED BY <1>2, <1>3, <1>4, <2>2, <2>3
<1>7. CASE ResetBarrier(p)
  <2>1. mode[q] = "blocked" /\ stmt[q] = s
    BY <1>7 DEF ResetBarrier, waiting
  <2>2. s.op # "wait_for"
    BY <1>1, <1>7 DEF ResetBarrier, ConditionReady, Full
  <2>3. s.op # "wait_for_count" => ConditionReady(s)
    BY <1>1, <1>7, <2>2 DEF ResetBarrier, ConditionReady, Exists, event
  <2> QED BY <1>2, <1>3, <1>4, <2>1, <2>3
<1>8. CASE design = "barrier, set_threshold" /\ \E n \in Thresholds : SetThreshold(p, n)
  <2>1. mode[q] = "blocked" /\ stmt[q] = s
    BY <1>8 DEF SetThreshold, waiting
  <2>2. s.op = "wait_for" => Overlooked(s)
    BY <1>8 DEF Overlooked
  <2>3. UNCHANGED <<triggered, on, count, config>>
    BY <1>8 DEF SetThreshold, event
  <2>4. s.op # "wait_for" => ConditionReady(s)
    BY <2>3 DEF ConditionReady, Exists
  <2> QED BY <1>2, <1>3, <2>1, <2>2, <2>4
<1> QED BY <1>5, <1>6, <1>7, <1>8 DEF BarrierStep

LEMMA ConfigWakes ==
  ASSUME TypeOK, NoLostWakeup, UNCHANGED design, NEW p \in Process, ConfigStep(p),
         NEW q \in Process, NEW s, mode'[q] = "blocked", stmt'[q] = s, ConditionReady(s)'
  PROVE  Overlooked(s)'
<1>1. WaitersType /\ design = "config_db" /\ UNCHANGED <<event, barrier>>
  BY TypeParts DEF ConfigStep, ConfigSet, WaitModified, conditions, event, barrier
<1>2. mode[q] = "blocked" /\ stmt[q] = s /\ ConditionReady(s) => Overlooked(s)
  BY ReadyParts DEF NoLostWakeup
<1>3. CASE \E key \in Path \cup {Wildcard} : ConfigSet(p, key)
  <2>1. PICK key \in Path \cup {Wildcard} : ConfigSet(p, key)
    BY <1>3
  <2>2. /\ mode[q] = "blocked" /\ stmt[q] = s
        /\ ~(s.op = "wait_modified" /\ s.arg = key)
    BY <1>1, <2>1, WakesKeeps DEF ConfigSet, Waiters
  <2>3. CASE s.op = "wait_modified" /\ s.arg \notin config
    BY <2>1, <2>2, <2>3 DEF ConfigSet, Overlooked
  <2>4. CASE ~(s.op = "wait_modified" /\ s.arg \notin config)
    <3>1. ConditionReady(s)
      BY <1>1, <2>1, <2>4 DEF ConfigSet, ConditionReady, Exists, Full, event, barrier
    <3>2. s.op = "wait_for_count"
      BY <1>1, <1>2, <2>2, <2>4, <3>1 DEF Overlooked
    <3> QED BY <3>2 DEF Overlooked
  <2> QED BY <2>3, <2>4
<1>4. CASE \E path \in Path : WaitModified(p, path)
  <2>1. PICK path \in Path : WaitModified(p, path)
    BY <1>4
  <2>2. UNCHANGED conditions
    BY <2>1 DEF WaitModified
  <2>3. ConditionReady(s) /\ (Overlooked(s) => Overlooked(s)')
    BY <2>2, UntouchedParts DEF Overlooked, conditions
  <2>4. ~Exists(path) => ~ConditionReady(Call("wait_modified", path))
    BY DEF ConditionReady, Call
  <2>5. mode[q] = "blocked" /\ stmt[q] = s
    BY <1>1, <2>1, <2>3, <2>4, WakesKeeps, SuspendsKeeps DEF WaitModified
  <2> QED BY <1>2, <2>3, <2>5
<1> QED BY <1>3, <1>4 DEF ConfigStep

LEMMA SequenceWakes ==
  ASSUME TypeOK, NoLostWakeup, UNCHANGED design, NEW p \in Process, SequenceStep(p),
         NEW q \in Process, NEW s, mode'[q] = "blocked", stmt'[q] = s, ItemReady(s)'
  PROVE  FALSE
<1>1. /\ WaitersType /\ SequencerType /\ design = "sequencer"
      /\ item_queue \in Seq(Item) /\ connected' = connected
  BY TypeParts DEF SequenceStep, SequencerType, StartItem, FinishItem, sequencer, GetNextItem, ShowNextItem, ItemDone
<1>2. mode[q] = "blocked" /\ stmt[q] = s => ~ItemReady(s)
  BY <1>1, ReadyParts DEF NoLostWakeup, Overlooked, ItemReady
<1>3. s.op = "finish_item" /\ stmt'[q] = s => s.arg \in Item
  <2>1. WaitersType'
    BY SequenceTyped
  <2> QED BY <2>1 DEF WaitersType, Statements, NoStmt, Call
<1>4. CASE \E i \in Item : StartItem(p, i)
  <2>1. PICK i \in Item : StartItem(p, i)
    BY <1>4
  <2>2. mode[q] = "blocked" /\ stmt[q] = s /\ s.op # "get_next_item"
    BY <1>1, <2>1, WakesKeeps DEF StartItem, ItemGetters, Waiters
  <2>3. Queued \subseteq Queued'
    BY <1>1, <2>1 DEF StartItem, Queued
  <2>4. ItemReady(s)
    BY <1>1, <2>1, <2>2, <2>3 DEF StartItem, ItemReady, FinishBlocks
  <2> QED BY <1>2, <2>2, <2>4
<1>5. CASE \E i \in Item : FinishItem(p, i)
  <2>1. PICK i \in Item : FinishItem(p, i)
    BY <1>5
  <2>2. ItemReady(s)
    BY <2>1 DEF FinishItem, sequencer, ItemReady, FinishBlocks, Queued
  <2>3. FinishBlocks(i) => ~ItemReady(Call("finish_item", i))
    BY DEF ItemReady, Call
  <2> QED BY <1>1, <1>2, <2>1, <2>2, <2>3, WakesKeeps, SuspendsKeeps DEF FinishItem
<1>6. CASE GetNextItem(p)
  <2>1. CASE /\ item_queue # <<>>
             /\ item_queue' = Tail(item_queue) /\ current_item' = Head(item_queue)
             /\ Wakes(p, {})
    <3>1. \A i \in Queued : i \in Queued' \/ i = current_item'
      BY <1>1, <2>1 DEF Queued
    <3>2. ItemReady(s)
      BY <1>1, <1>3, <1>6, <2>1, <3>1, SyncAssumption DEF GetNextItem, ItemReady, FinishBlocks
    <3> QED BY <1>1, <1>2, <2>1, <3>2, WakesKeeps
  <2>2. CASE /\ item_queue = <<>> /\ Suspends(p, Call("get_next_item", None))
             /\ UNCHANGED <<item_queue, current_item>>
    <3>1. ItemReady(s)
      BY <1>1, <2>2 DEF ItemReady, FinishBlocks, Queued
    <3>2. ~ItemReady(Call("get_next_item", None))
      BY <2>2 DEF ItemReady, Call
    <3> QED BY <1>1, <1>2, <2>2, <3>1, <3>2, SuspendsKeeps
  <2> QED BY <1>6, <2>1, <2>2 DEF GetNextItem
<1>7. CASE ShowNextItem(p)
  <2>1. UNCHANGED <<waiting, item_queue>> /\ current_item = None
    BY <1>7 DEF ShowNextItem
  <2>2. ItemReady(s)
    BY <1>1, <1>3, <2>1, SyncAssumption DEF ItemReady, FinishBlocks, Queued, waiting
  <2> QED BY <1>2, <2>1, <2>2 DEF waiting
<1>8. CASE ItemDone(p)
  <2>1. /\ mode[q] = "blocked" /\ stmt[q] = s
        /\ ~(s.op = "finish_item" /\ s.arg = current_item)
    BY <1>1, <1>8, WakesKeeps DEF ItemDone, Finishers, Waiters
  <2>2. \A i \in Queued : i \in Queued' \/ i = current_item
    <3>1. CASE item_queue' = item_queue
      BY <3>1 DEF Queued
    <3>2. CASE item_queue # <<>> /\ Head(item_queue) = current_item /\ item_queue' = Tail(item_queue)
      BY <1>1, <3>2 DEF Queued
    <3> QED BY <1>8, <3>1, <3>2 DEF ItemDone
  <2>3. item_queue' # <<>> => item_queue # <<>>
    BY <1>1, <1>8 DEF ItemDone
  <2>4. ItemReady(s)
    BY <1>1, <2>1, <2>2, <2>3 DEF ItemReady, FinishBlocks
  <2> QED BY <1>2, <2>1, <2>4
<1> QED BY <1>4, <1>5, <1>6, <1>7, <1>8 DEF SequenceStep

BufferOps == {"put", "get", "peek"}
ConditionOps == {"wait_trigger", "wait_on", "wait_for", "wait_for_count", "wait_modified"}
ItemOps == {"get_next_item", "finish_item"}

\* A process is asleep as it was, or in a statement of the object it called.
LEMMA BufferKeeps ==
  ASSUME WaitersType, NEW p \in Process, FifoStep(p) \/ MailboxStep(p), NEW q \in Process, mode'[q] = "blocked"
  PROVE  (mode[q] = "blocked" /\ stmt'[q] = stmt[q]) \/ stmt'[q].op \in BufferOps
<1>1. ASSUME NEW W, Wakes(p, W) PROVE mode[q] = "blocked" /\ stmt'[q] = stmt[q]
  BY <1>1, WakesKeeps
<1>2. ASSUME NEW op \in BufferOps, NEW arg, Suspends(p, Call(op, arg))
      PROVE  (mode[q] = "blocked" /\ stmt'[q] = stmt[q]) \/ stmt'[q].op \in BufferOps
  BY <1>2, SuspendsKeeps DEF Call
<1>3. CASE FifoStep(p)
  BY <1>1, <1>2, <1>3 DEF FifoStep, FifoPut, FifoGet, FifoPeek, FifoTryPut, FifoTryGet, FifoFlush,
     FifoPush, FifoPop, BufferOps, waiting
<1>4. CASE MailboxStep(p)
  BY <1>1, <1>2, <1>4 DEF MailboxStep, MailboxPut, MailboxGet, MailboxTryPut, MailboxTryGet,
     MailboxPush, MailboxPop, BufferOps
<1> QED BY <1>3, <1>4

LEMMA ConditionKeeps ==
  ASSUME WaitersType, NEW p \in Process, EventStep(p) \/ BarrierStep(p) \/ ConfigStep(p),
         NEW q \in Process, mode'[q] = "blocked"
  PROVE  (mode[q] = "blocked" /\ stmt'[q] = stmt[q]) \/ stmt'[q].op \in ConditionOps
<1>1. ASSUME NEW W, Wakes(p, W) \/ Releases(p, W) PROVE mode[q] = "blocked" /\ stmt'[q] = stmt[q]
  BY <1>1, WakesKeeps, ReleasesKeeps
<1>2. ASSUME NEW op \in ConditionOps, NEW arg, Suspends(p, Call(op, arg))
      PROVE  (mode[q] = "blocked" /\ stmt'[q] = stmt[q]) \/ stmt'[q].op \in ConditionOps
  BY <1>2, SuspendsKeeps DEF Call
<1>3. CASE EventStep(p)
  BY <1>1, <1>2, <1>3 DEF EventStep, Trigger, ResetEvent, OnOff, WaitTrigger, WaitOn, ConditionOps, waiting
<1>4. CASE BarrierStep(p)
  BY <1>1, <1>2, <1>4 DEF BarrierStep, WaitFor, WaitForCount, ResetBarrier, SetThreshold, ConditionOps, waiting
<1>5. CASE ConfigStep(p)
  BY <1>1, <1>2, <1>5 DEF ConfigStep, ConfigSet, WaitModified, ConditionOps
<1> QED BY <1>3, <1>4, <1>5

LEMMA ItemKeeps ==
  ASSUME WaitersType, NEW p \in Process, SequenceStep(p), NEW q \in Process, mode'[q] = "blocked"
  PROVE  (mode[q] = "blocked" /\ stmt'[q] = stmt[q]) \/ stmt'[q].op \in ItemOps
<1>1. ASSUME NEW W, Wakes(p, W) PROVE mode[q] = "blocked" /\ stmt'[q] = stmt[q]
  BY <1>1, WakesKeeps
<1>2. ASSUME NEW op \in ItemOps, NEW arg, Suspends(p, Call(op, arg))
      PROVE  (mode[q] = "blocked" /\ stmt'[q] = stmt[q]) \/ stmt'[q].op \in ItemOps
  BY <1>2, SuspendsKeeps DEF Call
<1> QED
  BY <1>1, <1>2 DEF SequenceStep, StartItem, FinishItem, GetNextItem, ShowNextItem, ItemDone, ItemOps, waiting

LEMMA StatementNow ==
  ASSUME NEW q, NEW s, stmt'[q] = s
  PROVE  (WouldGoOn(stmt[q])' <=> WouldGoOn(s)') /\ (Overlooked(stmt[q])' <=> Overlooked(s)')
BY DEF WouldGoOn, Overlooked, Exists, FinishBlocks

LEMMA NoLostWakeupInductive ==
  ASSUME TypeOK, NoLostWakeup, [Next]_vars PROVE NoLostWakeup'
<1>1. WaitersType
  BY TypeParts
<1>2. CASE UNCHANGED vars
  BY <1>2 DEF vars, buffer, conditions, sequencing, NoLostWakeup, WouldGoOn, Overlooked, MailboxRoom,
     FifoRoom, Capacity, Full, Exists, FinishBlocks, Queued
<1>3. ASSUME NEW p \in Process, Step(p), NEW q \in Process, NEW s,
             mode'[q] = "blocked", stmt'[q] = s, WouldGoOn(s)'
      PROVE  Overlooked(s)'
  <2>1. UNCHANGED design
    BY <1>3 DEF Step
  <2>2. BufferReady(s)' \/ ConditionReady(s)' \/ ItemReady(s)'
    BY <1>3 DEF WouldGoOn, BufferReady, ConditionReady, ItemReady
  <2>3. /\ BufferReady(s)' => s.op \in BufferOps
        /\ ConditionReady(s)' => s.op \in ConditionOps
        /\ ItemReady(s)' => s.op \in ItemOps
    BY DEF BufferReady, ConditionReady, ItemReady, BufferOps, ConditionOps, ItemOps
  <2>4. mode[q] = "blocked" /\ stmt[q] = s /\ WouldGoOn(s) => Overlooked(s)
    BY DEF NoLostWakeup
  <2>5. BufferOps \cap ConditionOps = {} /\ BufferOps \cap ItemOps = {} /\ ConditionOps \cap ItemOps = {}
    BY DEF BufferOps, ConditionOps, ItemOps
  <2>6. CASE FifoStep(p)
    <3>1. UNCHANGED <<conditions, sequencing>>
      BY <2>6 DEF FifoStep
    <3>2. Overlooked(s) => Overlooked(s)'
      BY <2>1, <3>1 DEF Overlooked, conditions
    <3>3. CASE BufferReady(s)'
      <4>1. design = "fifo, flush" /\ s.op = "put"
        BY <1>3, <2>1, <2>6, <3>3, FifoWakes
      <4> QED BY <2>1, <4>1 DEF Overlooked
    <3>4. CASE ~BufferReady(s)'
      <4>1. (ConditionReady(s) \/ ItemReady(s)) /\ s.op \notin BufferOps
        BY <2>1, <2>2, <2>3, <2>5, <3>1, <3>4, UntouchedParts
      <4>2. mode[q] = "blocked" /\ stmt[q] = s
        BY <1>1, <1>3, <2>6, <4>1, BufferKeeps
      <4> QED BY <2>4, <3>2, <4>1, <4>2, ReadyParts
    <3> QED BY <3>3, <3>4
  <2>7. CASE MailboxStep(p)
    BY <2>1, <2>7 DEF MailboxStep, Overlooked
  <2>8. CASE EventStep(p) \/ BarrierStep(p) \/ ConfigStep(p)
    <3>1. UNCHANGED <<buffer, sequencing>>
      BY <2>8 DEF EventStep, BarrierStep, ConfigStep
    <3>2. CASE ConditionReady(s)'
      BY <1>3, <2>1, <2>8, <3>2, EventWakes, BarrierWakes, ConfigWakes
    <3>3. CASE ~ConditionReady(s)'
      <4>1. (BufferReady(s) \/ ItemReady(s)) /\ s.op \notin ConditionOps
        BY <2>1, <2>2, <2>3, <2>5, <3>1, <3>3, UntouchedParts
      <4>2. mode[q] = "blocked" /\ stmt[q] = s
        BY <1>1, <1>3, <2>8, <4>1, ConditionKeeps
      <4>3. Overlooked(s)
        BY <2>4, <4>1, <4>2, ReadyParts
      <4> QED BY <2>1, <4>1, <4>3 DEF Overlooked, ConditionOps
    <3> QED BY <3>2, <3>3
  <2>9. CASE SequenceStep(p)
    <3>1. UNCHANGED <<buffer, conditions>>
      BY <2>9 DEF SequenceStep
    <3>2. Overlooked(s) => Overlooked(s)'
      BY <2>1, <3>1 DEF Overlooked, conditions
    <3>3. ~ItemReady(s)'
      BY <1>3, <2>1, <2>9, SequenceWakes
    <3>4. (BufferReady(s) \/ ConditionReady(s)) /\ s.op \notin ItemOps
      BY <2>1, <2>2, <2>3, <2>5, <3>1, <3>3, UntouchedParts
    <3>5. mode[q] = "blocked" /\ stmt[q] = s
      BY <1>1, <1>3, <2>9, <3>4, ItemKeeps
    <3> QED BY <2>4, <3>2, <3>4, <3>5, ReadyParts
  <2> QED BY <1>3, <2>6, <2>7, <2>8, <2>9 DEF Step
<1>4. ASSUME NEW p \in Process, Step(p) PROVE NoLostWakeup'
  <2> SUFFICES ASSUME NEW q \in Process, mode'[q] = "blocked", WouldGoOn(stmt[q])'
               PROVE  Overlooked(stmt[q])'
    BY DEF NoLostWakeup
  <2>1. PICK s : stmt'[q] = s
    OBVIOUS
  <2> QED BY <1>3, <1>4, <2>1, StatementNow
<1> QED BY <1>2, <1>4 DEF Next

\* A process that sleeps could not go on, but for what the code overlooks: for
\* every number of processes and in every order of their calls.
THEOREM WakeupSafety == Spec => []NoLostWakeup
<1>1. Init => NoLostWakeup
  BY DEF Init, InitWaiters, NoLostWakeup
<1>2. TypeOK /\ NoLostWakeup /\ [Next]_vars => NoLostWakeup'
  BY NoLostWakeupInductive
<1> QED BY <1>1, <1>2, TypeCorrect, PTL DEF Spec
-----------------------------------------------------------------------------
(* The barrier.  Whoever waits in wait_for is blocked, and what has been      *)
(* counted is still there: a count without its waiters would let a later      *)
(* arrival through alone.                                                    *)

Met == \A p \in Process : stmt[p].op = "wait_for" => mode[p] = "blocked"
Arriving == design # "barrier, wait_for_count"
Counted == Arriving => count <= Cardinality(InWaitFor)

\* Who goes on, goes to sleep or is woken elsewhere does not wait in wait_for.
LEMMA WakesMet ==
  ASSUME WaitersType, Met, NEW p \in Process, mode[p] # "blocked", NEW W,
         \A q \in W : stmt[q].op # "wait_for", Wakes(p, W) \/ Releases(p, W)
  PROVE  Met' /\ InWaitFor' = InWaitFor
BY DEF WaitersType, Met, InWaitFor, Wakes, Releases, NoStmt, Call

LEMMA SuspendsMet ==
  ASSUME WaitersType, Met, NEW p \in Process, mode[p] # "blocked", NEW s, s.op # "wait_for", Suspends(p, s)
  PROVE  Met' /\ InWaitFor' = InWaitFor
BY DEF WaitersType, Met, InWaitFor, Suspends

LEMMA OtherWaiters ==
  ASSUME NEW ops, "wait_for" \notin ops PROVE \A q \in Waiters(ops) : stmt[q].op # "wait_for"
BY DEF Waiters

LEMMA CallOps == \A op, arg : Call(op, arg).op = op
BY DEF Call

LEMMA AwakeCaller ==
  ASSUME NEW p, NEW s PROVE Calls(p) \/ Executes(p, s) => mode[p] # "blocked"
BY DEF Calls, Executes

LEMMA ElsewhereMet ==
  ASSUME WaitersType, Met, NEW p \in Process,
         FifoStep(p) \/ MailboxStep(p) \/ EventStep(p) \/ ConfigStep(p) \/ SequenceStep(p)
  PROVE  Met' /\ InWaitFor' = InWaitFor
<1>1. UNCHANGED waiting => Met' /\ InWaitFor' = InWaitFor
  BY DEF Met, InWaitFor, waiting
<1>2. ASSUME mode[p] # "blocked", NEW ops, "wait_for" \notin ops, NEW W \in SUBSET Waiters(ops),
             Wakes(p, W) \/ Releases(p, W)
      PROVE  Met' /\ InWaitFor' = InWaitFor
  BY <1>2, WakesMet, OtherWaiters
<1>3. ASSUME mode[p] # "blocked", Wakes(p, {}) PROVE Met' /\ InWaitFor' = InWaitFor
  BY <1>3, WakesMet
<1>4. ASSUME mode[p] # "blocked", NEW op, op # "wait_for", NEW arg, Suspends(p, Call(op, arg))
      PROVE  Met' /\ InWaitFor' = InWaitFor
  BY <1>4, SuspendsMet, CallOps
<1>5. CASE FifoStep(p)
  BY <1>1, <1>2, <1>3, <1>4, <1>5, AwakeCaller DEF FifoStep, FifoPut, FifoGet, FifoPeek, FifoTryPut,
     FifoTryGet, FifoFlush, FifoPush, FifoPop, FifoGetters, FifoPutters
<1>6. CASE MailboxStep(p)
  BY <1>2, <1>4, <1>6, AwakeCaller DEF MailboxStep, MailboxPut, MailboxGet, MailboxTryPut, MailboxTryGet,
     MailboxPush, MailboxPop
<1>7. CASE EventStep(p)
  BY <1>1, <1>2, <1>4, <1>7, AwakeCaller DEF EventStep, Trigger, ResetEvent, OnOff, WaitTrigger, WaitOn,
     EventWaiters
<1>8. CASE ConfigStep(p)
  BY <1>2, <1>3, <1>4, <1>8, AwakeCaller DEF ConfigStep, ConfigSet, WaitModified
<1>9. CASE SequenceStep(p)
  BY <1>1, <1>2, <1>3, <1>4, <1>9, AwakeCaller DEF SequenceStep, StartItem, FinishItem, GetNextItem,
     ShowNextItem, ItemDone, ItemGetters, Finishers
<1> QED BY <1>5, <1>6, <1>7, <1>8, <1>9

LEMMA InWaitForFinite == IsFiniteSet(InWaitFor) /\ Cardinality(InWaitFor) \in Nat
BY SyncAssumption, FS_Subset, FS_CardinalityType DEF InWaitFor

\* The arrival that does not fill the barrier joins those who wait.
LEMMA Joins ==
  ASSUME WaitersType, Met, NEW p \in Process, Calls(p), Suspends(p, Call("wait_for", None))
  PROVE  Met' /\ InWaitFor' = InWaitFor \cup {p} /\ Cardinality(InWaitFor') = Cardinality(InWaitFor) + 1
<1>1. stmt[p] = NoStmt
  BY DEF Calls, WaitersType
<1>2. p \notin InWaitFor
  BY <1>1 DEF InWaitFor, NoStmt, Call
<1>3. InWaitFor' = InWaitFor \cup {p}
  BY DEF InWaitFor, Suspends, WaitersType, Call
<1>4. Met'
  BY DEF Met, Suspends, WaitersType, Call
<1> QED BY <1>2, <1>3, <1>4, InWaitForFinite, FS_AddElement

\* The arrival that fills it takes everybody along.
LEMMA Empties ==
  ASSUME WaitersType, Met, NEW p \in Process, Releases(p, BarrierWaiters)
  PROVE  Met' /\ InWaitFor' = {}
BY DEF WaitersType, Met, InWaitFor, Releases, BarrierWaiters, Waiters, NoStmt, Call

LEMMA ArrivingStays == UNCHANGED design => Arriving' = Arriving
BY DEF Arriving

LEMMA MeetingStep ==
  ASSUME TypeOK, Met, Counted, [Next]_vars
  PROVE  /\ Met' /\ Counted'
         /\ Arriving /\ InWaitFor \ InWaitFor' # {} =>
              Cardinality(InWaitFor) + 1 >= threshold
<1>1. WaitersType /\ count \in Nat /\ threshold \in Nat
  BY TypeParts DEF ConditionsType
<1>2. Cardinality(InWaitFor) \in Nat
  BY InWaitForFinite
<1>3. ASSUME UNCHANGED design, Met', InWaitFor' = InWaitFor, count' = count \/ count' = 0
      PROVE  Met' /\ Counted'
  BY <1>1, <1>2, <1>3, ArrivingStays DEF Counted
<1>4. CASE UNCHANGED vars
  <2>1. UNCHANGED <<design, mode, stmt, count>>
    BY <1>4 DEF vars, conditions
  <2>2. Met' /\ InWaitFor' = InWaitFor
    BY <2>1 DEF Met, InWaitFor
  <2> QED BY <1>3, <2>1, <2>2
<1>5. ASSUME NEW p \in Process, Step(p), ~BarrierStep(p)
      PROVE  UNCHANGED design /\ Met' /\ InWaitFor' = InWaitFor /\ count' = count
  <2>1. FifoStep(p) \/ MailboxStep(p) \/ EventStep(p) \/ ConfigStep(p) \/ SequenceStep(p)
    BY <1>5 DEF Step
  <2>2. Met' /\ InWaitFor' = InWaitFor
    BY <1>1, <2>1, ElsewhereMet
  <2>3. count' = count
    BY <2>1 DEF FifoStep, MailboxStep, EventStep, ConfigStep, SequenceStep, conditions, Trigger, ResetEvent,
       OnOff, WaitTrigger, WaitOn, ConfigSet, WaitModified, barrier
  <2> QED BY <1>5, <2>2, <2>3 DEF Step
<1>6. ASSUME NEW p \in Process, BarrierStep(p), UNCHANGED design
      PROVE  /\ Met' /\ Counted'
             /\ Arriving /\ InWaitFor \ InWaitFor' # {} =>
                  Cardinality(InWaitFor) + 1 >= threshold
  <2>1. CASE WaitFor(p) /\ Full(count + 1)
    <3>1. count' = 0 /\ Releases(p, BarrierWaiters)
      BY <2>1 DEF WaitFor
    <3>2. Met' /\ InWaitFor' = {}
      BY <1>1, <3>1, Empties
    <3>3. Cardinality(InWaitFor') = 0
      BY <3>2, FS_EmptySet
    <3>4. Counted'
      BY <3>1, <3>3 DEF Counted
    <3> QED BY <1>1, <1>2, <2>1, <3>2, <3>4 DEF Counted, Full
  <2>2. CASE WaitFor(p) /\ ~Full(count + 1)
    <3>1. count' = count + 1 /\ Calls(p) /\ Suspends(p, Call("wait_for", None))
      BY <2>2 DEF WaitFor
    <3>2. Met' /\ InWaitFor' = InWaitFor \cup {p} /\ Cardinality(InWaitFor') = Cardinality(InWaitFor) + 1
      BY <1>1, <3>1, Joins
    <3> QED BY <1>1, <1>2, <1>6, <3>1, <3>2, ArrivingStays DEF Counted
  <2>3. CASE ResetBarrier(p) \/ \E n \in Thresholds : SetThreshold(p, n)
    <3>1. UNCHANGED <<mode, stmt>> /\ (count' = count \/ count' = 0)
      BY <2>3 DEF ResetBarrier, SetThreshold, waiting
    <3>2. Met' /\ InWaitFor' = InWaitFor
      BY <3>1 DEF Met, InWaitFor
    <3> QED BY <1>3, <1>6, <3>1, <3>2
  <2>4. CASE \E n \in Thresholds : WaitForCount(p, n) /\ design = "barrier, wait_for_count"
    <3>1. ~Arriving /\ ~Arriving'
      BY <1>6, <2>4 DEF Arriving
    <3>4. PICK n \in Thresholds : WaitForCount(p, n)
      BY <2>4
    <3>2. CASE Releases(p, BarrierWaiters)
      BY <1>1, <3>1, <3>2, Empties DEF Counted
    <3>3. CASE Suspends(p, Call("wait_for_count", n))
      BY <1>1, <3>1, <3>3, <3>4, SuspendsMet, CallOps, AwakeCaller DEF Counted, WaitForCount
    <3> QED BY <3>2, <3>3, <3>4 DEF WaitForCount
  <2> QED BY <1>6, <2>1, <2>2, <2>3, <2>4 DEF BarrierStep
<1> QED BY <1>3, <1>4, <1>5, <1>6 DEF Next, Step, vars

\* Where nobody calls wait_for_count (which releases everybody, sync.rs), a barrier
\* lets nobody through wait_for before as many as its threshold have met, whatever
\* the resets and changes of the threshold.
THEOREM BarrierSafety == Spec => BarrierMeets
<1>1. Init => Met /\ Counted
  <2> SUFFICES ASSUME Init PROVE Met /\ Counted
    OBVIOUS
  <2>1. InWaitFor = {}
    BY DEF Init, InitWaiters, InWaitFor, NoStmt, Call
  <2>2. Cardinality(InWaitFor) = 0
    BY <2>1, FS_EmptySet
  <2> QED BY <2>1, <2>2 DEF Init, InitConditions, Met, Counted, InWaitFor
<1>2. TypeOK /\ Met /\ Counted /\ [Next]_vars => (Met /\ Counted)'
  BY MeetingStep
<1>3. TypeOK /\ Met /\ Counted /\ [Next]_vars =>
        [Arriving /\ InWaitFor \ InWaitFor' # {} =>
           Cardinality(InWaitFor) + 1 >= threshold]_vars
  BY MeetingStep
<1> QED BY <1>1, <1>2, <1>3, TypeCorrect, PTL DEF Spec, BarrierMeets, LetGo, ThresholdMet, Arriving
-----------------------------------------------------------------------------
(* The handshake.  An item a sequence has open is in the queue, or with the   *)
(* driver, or done.                                                          *)

Held == connected => \A p \in Process : open[p] # None => FinishBlocks(open[p]) \/ open[p] \in done

LEMMA QueuedNow == ASSUME NEW s \in Seq(Item), s # <<>>
  PROVE {s[k] : k \in 1..Len(s)} = {Head(s)} \cup {Tail(s)[k] : k \in 1..Len(Tail(s))}
<1>1. /\ Len(Tail(s)) = Len(s) - 1 /\ Head(s) = s[1] /\ Len(s) \in Nat \ {0}
      /\ \A k \in 1..Len(Tail(s)) : Tail(s)[k] = s[k + 1]
  OBVIOUS
<1>2. ASSUME NEW k \in 1..Len(s), k # 1 PROVE k - 1 \in 1..Len(Tail(s)) /\ Tail(s)[k - 1] = s[k]
  <2>1. k - 1 \in 1..Len(Tail(s)) /\ (k - 1) + 1 = k
    BY <1>1, <1>2
  <2> QED BY <1>1, <2>1
<1>3. ASSUME NEW k \in 1..Len(Tail(s)) PROVE k + 1 \in 1..Len(s)
  BY <1>1, <1>3
<1>4. 1 \in 1..Len(s)
  BY <1>1
<1>5. ASSUME NEW x, x \in {s[k] : k \in 1..Len(s)}
      PROVE  x \in {Head(s)} \cup {Tail(s)[k] : k \in 1..Len(Tail(s))}
  <2>1. PICK k \in 1..Len(s) : x = s[k]
    BY <1>5
  <2> QED BY <1>1, <1>2, <2>1
<1>6. ASSUME NEW x, x \in {Head(s)} \cup {Tail(s)[k] : k \in 1..Len(Tail(s))}
      PROVE  x \in {s[k] : k \in 1..Len(s)}
  BY <1>1, <1>3, <1>4, <1>6
<1> QED BY <1>5, <1>6

LEMMA QueuedLater == ASSUME NEW s \in Seq(Item), NEW i \in Item
  PROVE {Append(s, i)[k] : k \in 1..Len(Append(s, i))} = {s[k] : k \in 1..Len(s)} \cup {i}
<1>1. /\ Len(Append(s, i)) = Len(s) + 1 /\ Len(s) \in Nat
      /\ \A k \in 1..Len(s) : Append(s, i)[k] = s[k]
      /\ Append(s, i)[Len(s) + 1] = i
  OBVIOUS
<1>2. 1..(Len(s) + 1) = (1..Len(s)) \cup {Len(s) + 1}
  BY <1>1
<1> QED BY <1>1, <1>2

LEMMA HeldStep ==
  ASSUME TypeOK, Held, NEW p \in Process, SequenceStep(p)
  PROVE  Held'
<1>1. SequencerType
  BY TypeParts
<1>2. connected' = connected
  BY DEF SequenceStep, StartItem, FinishItem, GetNextItem, ShowNextItem, ItemDone, sequencer
<1> SUFFICES ASSUME connected, NEW q \in Process, NEW j, open'[q] = j, j # None
             PROVE  FinishBlocks(j)' \/ j \in done'
  BY <1>2 DEF Held, FinishBlocks
<1>3. open[q] = j => FinishBlocks(j) \/ j \in done
  BY DEF Held
<1>4. item_queue \in Seq(Item) /\ current_item \in Item \cup {None}
  BY <1>1 DEF SequencerType
<1>5. ASSUME NEW i \in Item, StartItem(p, i) PROVE FinishBlocks(j)' \/ j \in done'
  <2>1. Queued' = Queued \cup {i}
    BY <1>4, <1>5, QueuedLater DEF StartItem, Queued
  <2>2. CASE q = p
    BY <1>1, <1>2, <1>5, <2>1, <2>2 DEF StartItem, FinishBlocks, SequencerType
  <2>3. CASE q # p
    <3>1. open'[q] = open[q] /\ open[q] # i /\ done' = done \ {i} /\ current_item' = current_item
      BY <1>1, <1>5, <2>3 DEF StartItem, SequencerType
    <3> QED BY <1>2, <1>3, <2>1, <3>1 DEF FinishBlocks
  <2> QED BY <2>2, <2>3
<1>6. ASSUME NEW i \in Item, FinishItem(p, i) PROVE FinishBlocks(j)' \/ j \in done'
  <2>1. open'[q] = open[q] /\ UNCHANGED <<sequencer, done>>
    BY <1>1, <1>6 DEF FinishItem, SequencerType
  <2> QED BY <1>3, <2>1 DEF FinishBlocks, Queued, sequencer
<1>7. CASE GetNextItem(p)
  <2>1. open' = open /\ done' = done /\ current_item = None
    BY <1>7 DEF GetNextItem
  <2>2. CASE item_queue # <<>> /\ item_queue' = Tail(item_queue) /\ current_item' = Head(item_queue)
    <3>1. Queued = {current_item'} \cup Queued'
      BY <1>4, <2>2, QueuedNow DEF Queued
    <3> QED BY <1>2, <1>3, <2>1, <3>1 DEF FinishBlocks
  <2>3. CASE UNCHANGED <<item_queue, current_item>>
    BY <1>2, <1>3, <2>1, <2>3 DEF FinishBlocks, Queued
  <2> QED BY <1>7, <2>2, <2>3 DEF GetNextItem
<1>8. CASE ShowNextItem(p)
  <2>1. open' = open /\ done' = done /\ item_queue' = item_queue /\ current_item = None
    BY <1>8 DEF ShowNextItem
  <2>2. Queued' = Queued
    BY <2>1 DEF Queued
  <2> QED BY <1>2, <1>3, <2>1, <2>2 DEF FinishBlocks
<1>9. CASE ItemDone(p)
  <2>1. open' = open /\ done' = done \cup {current_item}
    BY <1>9 DEF ItemDone
  <2>2. \A i \in Queued : i \in Queued' \/ i = current_item
    <3>1. CASE item_queue' = item_queue
      BY <3>1 DEF Queued
    <3>2. CASE item_queue # <<>> /\ Head(item_queue) = current_item /\ item_queue' = Tail(item_queue)
      BY <1>4, <3>2, QueuedNow DEF Queued
    <3> QED BY <1>9, <3>1, <3>2 DEF ItemDone
  <2> QED BY <1>2, <1>3, <2>1, <2>2 DEF FinishBlocks
<1> QED BY <1>5, <1>6, <1>7, <1>8, <1>9 DEF SequenceStep

LEMMA FinishedWasDone ==
  ASSUME TypeOK, Held, NEW p \in Process, SequenceStep(p), connected,
         NEW q \in Process, open[q] # None, open'[q] = None
  PROVE  open[q] \in done
<1>1. SequencerType
  BY TypeParts
<1>2. ASSUME NEW i \in Item, StartItem(p, i) PROVE FALSE
  BY <1>1, <1>2, SyncAssumption DEF StartItem, SequencerType
<1>3. PICK i \in Item : FinishItem(p, i)
  BY <1>2 DEF SequenceStep, GetNextItem, ShowNextItem, ItemDone
<1>4. open[q] = i /\ ~FinishBlocks(i)
  BY <1>1, <1>3, SyncAssumption DEF FinishItem, SequencerType
<1> QED BY <1>4 DEF Held

LEMMA HeldInductive ==
  ASSUME TypeOK, Held, [Next]_vars
  PROVE  /\ Held'
         /\ connected => \A p \in Process : open[p] # None /\ open'[p] = None => open[p] \in done
<1>1. ASSUME UNCHANGED sequencing
      PROVE  /\ Held'
             /\ connected => \A p \in Process : open[p] # None /\ open'[p] = None => open[p] \in done
  BY <1>1 DEF Held, FinishBlocks, Queued, sequencing
<1>2. CASE \E p \in Process : SequenceStep(p)
  BY <1>2, HeldStep, FinishedWasDone
<1>3. CASE UNCHANGED vars
  BY <1>1, <1>3 DEF vars
<1>4. CASE \E p \in Process : Step(p) /\ ~SequenceStep(p)
  BY <1>1, <1>4 DEF Step, FifoStep, MailboxStep, EventStep, BarrierStep, ConfigStep
<1> QED BY <1>2, <1>3, <1>4 DEF Next, Step

\* finish_item returns after item_done of that very item, for any number of
\* sequences and items.
THEOREM FinishSafety == Spec => FinishSound
<1>1. Init => Held
  BY DEF Init, InitSequencer, Held
<1>2. TypeOK /\ Held /\ [Next]_vars => Held'
  BY HeldInductive
<1>3. TypeOK /\ Held /\ [Next]_vars =>
        [connected => \A p \in Process : open[p] # None /\ open'[p] = None => open[p] \in done]_vars
  BY HeldInductive
<1> QED BY <1>1, <1>2, <1>3, TypeCorrect, PTL DEF Spec, FinishSound
-----------------------------------------------------------------------------
(* The buffer.  What BoundedBuffer sees of a state, and of a step.           *)

request == [p \in Process |-> IF Buffering THEN stmt[p] ELSE NoStmt]
bound == IF design \in FifoDesigns THEN Capacity ELSE size

LEMMA RequestKept ==
  ASSUME UNCHANGED design, stmt' = stmt \/ ~Buffering PROVE request' = request
BY DEF request, Buffering

LEMMA BoundKept == ASSUME UNCHANGED <<design, size>> PROVE bound' = bound
BY DEF bound, Capacity

\* A step without effect on the requests and the items is none.
LEMMA Unseen ==
  ASSUME UNCHANGED <<design, size, queue>>, request' = request PROVE UNCHANGED Buffer!shared
BY BoundKept DEF Buffer!shared, bound, request

\* A process that goes on was running or asked for what it gets now.
LEMMA ServedSeen ==
  ASSUME WaitersType, Buffering, UNCHANGED <<design, size>>, NEW p \in Process, NEW s,
         mode[p] = "running" \/ stmt[p] = s, NEW W, Wakes(p, W)
  PROVE  Buffer!Served(p, s)
<1>1. request[p] \in {NoStmt, s}
  BY DEF WaitersType, request
<1>2. request' = [request EXCEPT ![p] = NoStmt]
  BY DEF request, Wakes, WaitersType, Buffering
<1>3. Buffer!Idle = NoStmt
  BY DEF Buffer!Idle, Buffer!Ask, NoStmt, Call
<1> QED BY <1>1, <1>2, <1>3, BoundKept DEF Buffer!Served, request, bound

\* A process that goes to sleep asks; one that tried in vain keeps asking.
LEMMA AskedSeen ==
  ASSUME WaitersType, Buffering, UNCHANGED <<design, size, queue>>, NEW p \in Process, NEW s \in Buffer!Requests,
         Executes(p, s), Suspends(p, s), IF s.op = "put" THEN ~Buffer!Room ELSE queue = <<>>
  PROVE  Buffer!Request(p, s) \/ UNCHANGED Buffer!shared
<1>1. request' = [request EXCEPT ![p] = s]
  BY DEF request, Suspends, WaitersType, Buffering
<1>2. CASE mode[p] = "running"
  <2>1. request[p] = NoStmt
    BY <1>2 DEF WaitersType, request
  <2>2. Buffer!Idle = NoStmt
    BY DEF Buffer!Idle, Buffer!Ask, NoStmt, Call
  <2> QED BY <1>1, <2>1, <2>2, BoundKept DEF Buffer!Request, request, bound
<1>3. CASE stmt[p] = s
  <2>1. request' = request
    BY <1>1, <1>3 DEF request
  <2> QED BY <2>1, Unseen
<1> QED BY <1>2, <1>3 DEF Executes

LEMMA SameCalls == \A op, arg : Buffer!Ask(op, arg) = Call(op, arg)
BY DEF Buffer!Ask, Call

LEMMA Askable ==
  /\ Call("get", None) \in Buffer!Requests /\ Call("peek", None) \in Buffer!Requests
  /\ \A i \in Item : Call("put", i) \in Buffer!Requests
BY SameCalls DEF Buffer!Requests

LEMMA RoomSeen ==
  ASSUME TypeOK
  PROVE  /\ design \in FifoDesigns => (Buffer!Room <=> FifoRoom)
         /\ design = "mailbox" => (Buffer!Room <=> MailboxRoom)
<1>1. size \in Nat /\ Capacity \in Nat \ {0} /\ Len(queue) \in Nat
  BY DEF TypeOK, Capacity
<1>2. "mailbox" \notin FifoDesigns
  BY DEF FifoDesigns
<1> QED BY <1>1, <1>2 DEF Buffer!Room, FifoRoom, MailboxRoom

LEMMA FifoRefines ==
  ASSUME TypeOK, UNCHANGED design, NEW p \in Process, FifoStep(p)
  PROVE  Buffer!Next \/ UNCHANGED Buffer!shared
<1>1. WaitersType /\ design \in FifoDesigns /\ Buffering
  BY TypeParts DEF FifoStep, Buffering
<1>2. ASSUME NEW i \in Item, Executes(p, Call("put", i)), FifoPush(p, i) PROVE Buffer!Put(p, i)
  <2>1. Buffer!Served(p, Call("put", i))
    BY <1>1, <1>2, ServedSeen DEF FifoPush, Executes
  <2> QED BY <1>1, <1>2, <2>1, RoomSeen, SameCalls DEF Buffer!Put, FifoPush
<1>3. ASSUME Executes(p, Call("get", None)), FifoPop(p) PROVE Buffer!Get(p)
  <2>1. Buffer!Served(p, Call("get", None))
    BY <1>1, <1>3, ServedSeen DEF FifoPop, Executes
  <2> QED BY <1>3, <2>1, SameCalls DEF Buffer!Get, FifoPop
<1>4. ASSUME Executes(p, Call("peek", None)), queue # <<>>, Wakes(p, {}), UNCHANGED buffer PROVE Buffer!Peek(p)
  <2>1. Buffer!Served(p, Call("peek", None))
    BY <1>1, <1>4, ServedSeen DEF Executes, buffer
  <2> QED BY <1>4, <2>1, SameCalls DEF Buffer!Peek, buffer
<1>5. CASE FifoFlush(p)
  <2>1. request' = request /\ bound' = bound
    BY <1>5, RequestKept, BoundKept DEF FifoFlush, waiting
  <2>2. Buffer!Flush
    BY <1>5, <2>1 DEF Buffer!Flush, FifoFlush, request, bound
  <2> QED BY <2>2 DEF Buffer!Next
<1>6. CASE \E i \in Item : FifoPut(p, i)
  <2>1. PICK i \in Item : FifoPut(p, i)
    BY <1>6
  <2>2. CASE FifoPush(p, i)
    BY <1>2, <2>1, <2>2 DEF FifoPut, Buffer!Next
  <2>3. CASE ~FifoRoom /\ Suspends(p, Call("put", i)) /\ UNCHANGED buffer
    <3>1. ~Buffer!Room /\ Call("put", i).op = "put"
      BY <1>1, <2>3, RoomSeen, CallOps
    <3>2. Buffer!Request(p, Call("put", i)) \/ UNCHANGED Buffer!shared
      BY <1>1, <2>1, <2>3, <3>1, AskedSeen, Askable DEF FifoPut, buffer
    <3> QED BY <3>2, Askable DEF Buffer!Next
  <2> QED BY <2>1, <2>2, <2>3 DEF FifoPut
<1>7. ASSUME NEW op \in {"get", "peek"}, Executes(p, Call(op, None)), queue = <<>>,
             Suspends(p, Call(op, None)), UNCHANGED buffer
      PROVE  Buffer!Next \/ UNCHANGED Buffer!shared
  <2>1. Call(op, None) \in Buffer!Requests /\ Call(op, None).op # "put"
    BY <1>7, Askable, CallOps
  <2>2. Buffer!Request(p, Call(op, None)) \/ UNCHANGED Buffer!shared
    BY <1>1, <1>7, <2>1, AskedSeen DEF buffer
  <2> QED BY <2>1, <2>2 DEF Buffer!Next
<1>8. CASE FifoGet(p)
  BY <1>3, <1>7, <1>8 DEF FifoGet, Buffer!Next
<1>9. CASE FifoPeek(p)
  BY <1>4, <1>7, <1>9 DEF FifoPeek, Buffer!Next
<1>10. CASE FifoTryGet(p) \/ \E i \in Item : FifoTryPut(p, i)
  BY <1>2, <1>3, <1>10 DEF FifoTryGet, FifoTryPut, Calls, Executes, Buffer!Next
<1> QED BY <1>5, <1>6, <1>8, <1>9, <1>10 DEF FifoStep

LEMMA MailboxRefines ==
  ASSUME TypeOK, UNCHANGED design, NEW p \in Process, MailboxStep(p)
  PROVE  Buffer!Next \/ UNCHANGED Buffer!shared
<1>1. WaitersType /\ design = "mailbox" /\ Buffering
  BY TypeParts DEF MailboxStep, Buffering
<1>2. ASSUME NEW i \in Item, Executes(p, Call("put", i)), MailboxPush(p, i) PROVE Buffer!Put(p, i)
  <2>1. Buffer!Served(p, Call("put", i))
    BY <1>1, <1>2, ServedSeen DEF MailboxPush, Executes
  <2> QED BY <1>1, <1>2, <2>1, RoomSeen, SameCalls DEF Buffer!Put, MailboxPush
<1>3. ASSUME Executes(p, Call("get", None)), MailboxPop(p) PROVE Buffer!Get(p)
  <2>1. Buffer!Served(p, Call("get", None))
    BY <1>1, <1>3, ServedSeen DEF MailboxPop, Executes
  <2> QED BY <1>3, <2>1, SameCalls DEF Buffer!Get, MailboxPop
<1>4. CASE \E i \in Item : MailboxPut(p, i)
  <2>1. PICK i \in Item : MailboxPut(p, i)
    BY <1>4
  <2>2. CASE MailboxPush(p, i)
    BY <1>2, <2>1, <2>2 DEF MailboxPut, Buffer!Next
  <2>3. CASE ~MailboxRoom /\ Suspends(p, Call("put", i)) /\ UNCHANGED buffer
    <3>1. ~Buffer!Room /\ Call("put", i).op = "put"
      BY <1>1, <2>3, RoomSeen, CallOps
    <3>2. Buffer!Request(p, Call("put", i)) \/ UNCHANGED Buffer!shared
      BY <1>1, <2>1, <2>3, <3>1, AskedSeen, Askable DEF MailboxPut, buffer
    <3> QED BY <3>2, Askable DEF Buffer!Next
  <2> QED BY <2>1, <2>2, <2>3 DEF MailboxPut
<1>5. CASE MailboxGet(p)
  <2>1. CASE MailboxPop(p)
    BY <1>3, <1>5, <2>1 DEF MailboxGet, Buffer!Next
  <2>2. CASE queue = <<>> /\ Suspends(p, Call("get", None)) /\ UNCHANGED buffer
    <3>1. Call("get", None).op # "put"
      BY CallOps
    <3>2. Buffer!Request(p, Call("get", None)) \/ UNCHANGED Buffer!shared
      BY <1>1, <1>5, <2>2, <3>1, AskedSeen, Askable DEF MailboxGet, buffer
    <3> QED BY <3>2, Askable DEF Buffer!Next
  <2> QED BY <1>5, <2>1, <2>2 DEF MailboxGet
<1>6. CASE MailboxTryGet(p) \/ \E i \in Item : MailboxTryPut(p, i)
  BY <1>2, <1>3, <1>6 DEF MailboxTryGet, MailboxTryPut, Calls, Executes, Buffer!Next
<1> QED BY <1>4, <1>5, <1>6 DEF MailboxStep

LEMMA OthersUnseen ==
  ASSUME UNCHANGED <<design, buffer>>, ~Buffering PROVE UNCHANGED Buffer!shared
BY RequestKept, Unseen DEF buffer

LEMMA KindsDiffer ==
  /\ design \in EventDesigns => ~Buffering
  /\ design \in BarrierDesigns => ~Buffering
  /\ design = "config_db" => ~Buffering
  /\ design = "sequencer" => ~Buffering
BY Zenon DEF Buffering, EventDesigns, BarrierDesigns, FifoDesigns

\* FIFO and mailbox implement a bounded buffer, whatever their size, with any
\* number of processes that sleep and are woken in any order.
THEOREM BufferRefinement == Spec => Buffer!Spec
<1>1. Init => Buffer!Init
  <2> SUFFICES ASSUME Init PROVE Buffer!Init
    OBVIOUS
  <2>1. request = [p \in Process |-> NoStmt] /\ queue = <<>>
    BY DEF Init, InitWaiters, InitBuffer, request
  <2>2. size \in Nat /\ bound \in Nat
    BY SyncAssumption DEF Init, InitBuffer, bound, Capacity
  <2>3. Buffer!Idle = NoStmt
    BY DEF Buffer!Idle, Buffer!Ask, NoStmt, Call
  <2> QED BY <2>1, <2>2, <2>3 DEF Buffer!Init, request, bound
<1>2. TypeOK /\ [Next]_vars => [Buffer!Next]_Buffer!shared
  <2> SUFFICES ASSUME TypeOK, [Next]_vars PROVE Buffer!Next \/ UNCHANGED Buffer!shared
    OBVIOUS
  <2>1. CASE UNCHANGED vars
    <3>1. UNCHANGED <<design, size, queue, stmt>>
      BY <2>1 DEF vars, buffer
    <3> QED BY <3>1, RequestKept, Unseen
  <2>2. ASSUME NEW p \in Process, Step(p) PROVE Buffer!Next \/ UNCHANGED Buffer!shared
    <3>1. UNCHANGED design
      BY <2>2 DEF Step
    <3>2. CASE FifoStep(p) \/ MailboxStep(p)
      BY <3>1, <3>2, FifoRefines, MailboxRefines
    <3>3. CASE EventStep(p) \/ BarrierStep(p) \/ ConfigStep(p) \/ SequenceStep(p)
      <4>1. UNCHANGED buffer /\ ~Buffering
        BY <3>3, KindsDiffer DEF EventStep, BarrierStep, ConfigStep, SequenceStep
      <4> QED BY <3>1, <4>1, OthersUnseen
    <3> QED BY <2>2, <3>2, <3>3 DEF Step
  <2> QED BY <2>1, <2>2 DEF Next
<1> QED BY <1>1, <1>2, TypeCorrect, PTL DEF Spec, Buffer!Spec
=============================================================================
