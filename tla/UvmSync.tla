------------------------------- MODULE UvmSync --------------------------------
(***************************************************************************)
(* Processes that synchronize through the UVM primitives.  The objects       *)
(* share the store of waiters and nothing else (it is keyed by object, and   *)
(* so are their tables), so a behaviour has one object of one kind; the      *)
(* design tells which, and whether processes use the operations after which  *)
(* the code forgets somebody.                                               *)
(***************************************************************************)
EXTENDS SyncBuffers, SyncConditions, SequenceItems, FiniteSets

CONSTANT Designs

FifoDesigns == {"fifo", "fifo, flush"}
EventDesigns == {"event", "event, on_off"}
BarrierDesigns == {"barrier", "barrier, set_threshold", "barrier, wait_for_count"}
AllDesigns == FifoDesigns \cup {"mailbox"} \cup EventDesigns \cup BarrierDesigns
                \cup {"config_db", "sequencer"}

ASSUME SyncAssumption ==
  /\ Designs \subseteq AllDesigns
  /\ Sizes \subseteq Nat /\ Thresholds \subseteq Nat /\ IsFiniteSet(Process)
  /\ None \notin Item /\ Wildcard \notin Path /\ Driver \in Process

VARIABLE design

vars == <<design, mode, stmt, buffer, conditions, sequencing>>

Buffering == design \in FifoDesigns \cup {"mailbox"}

\* What is chosen for an object that does not exist makes no difference.
Init ==
  /\ design \in Designs
  /\ InitWaiters /\ InitBuffer /\ InitConditions /\ InitSequencer
  /\ ~Buffering => size = 0
  /\ design \notin BarrierDesigns => threshold = 1
  /\ design # "sequencer" => ~connected

FifoStep(p) ==
  /\ design \in FifoDesigns
  /\ \/ \E i \in Item : FifoPut(p, i) \/ FifoTryPut(p, i)
     \/ FifoGet(p) \/ FifoTryGet(p) \/ FifoPeek(p)
     \/ design = "fifo, flush" /\ FifoFlush(p)
  /\ UNCHANGED <<conditions, sequencing>>

MailboxStep(p) ==
  /\ design = "mailbox"
  /\ \/ \E i \in Item : MailboxPut(p, i) \/ MailboxTryPut(p, i)
     \/ MailboxGet(p) \/ MailboxTryGet(p)
  /\ UNCHANGED <<conditions, sequencing>>

EventStep(p) ==
  /\ design \in EventDesigns
  /\ \/ Trigger(p) \/ ResetEvent(p) \/ WaitTrigger(p) \/ WaitOn(p)
     \/ design = "event, on_off" /\ \E v \in BOOLEAN : OnOff(p, v)
  /\ UNCHANGED <<buffer, sequencing>>

BarrierStep(p) ==
  /\ design \in BarrierDesigns
  /\ \/ WaitFor(p) \/ ResetBarrier(p)
     \/ design = "barrier, set_threshold" /\ \E n \in Thresholds : SetThreshold(p, n)
     \/ design = "barrier, wait_for_count" /\ \E n \in Thresholds : WaitForCount(p, n)
  /\ UNCHANGED <<buffer, sequencing>>

ConfigStep(p) ==
  /\ design = "config_db"
  /\ \/ \E key \in Path \cup {Wildcard} : ConfigSet(p, key)
     \/ \E path \in Path : WaitModified(p, path)
  /\ UNCHANGED <<buffer, sequencing>>

SequenceStep(p) ==
  /\ design = "sequencer"
  /\ \/ \E i \in Item : StartItem(p, i) \/ FinishItem(p, i)
     \/ GetNextItem(p) \/ ShowNextItem(p) \/ ItemDone(p)
  /\ UNCHANGED <<buffer, conditions>>

Step(p) ==
  /\ FifoStep(p) \/ MailboxStep(p) \/ EventStep(p) \/ BarrierStep(p) \/ ConfigStep(p) \/ SequenceStep(p)
  /\ UNCHANGED design

Next == \E p \in Process : Step(p)

\* A ContinueAstBlock that was scheduled is executed, and a driver never stops
\* asking for items and doing them.
Resume(p) == mode[p] = "woken" /\ Step(p)
Drive == design = "sequencer" /\ Step(Driver)

Spec == Init /\ [][Next]_vars /\ (\A p \in Process : WF_vars(Resume(p))) /\ WF_vars(Drive)
-----------------------------------------------------------------------------
Statements ==
  {Call("put", i) : i \in Item} \cup {Call("finish_item", i) : i \in Item}
    \cup {Call("wait_for_count", n) : n \in Thresholds}
    \cup {Call("wait_modified", path) : path \in Path}
    \cup {Call(op, None) : op \in {"get", "peek", "wait_trigger", "wait_on", "wait_for", "get_next_item"}}

\* Types, and: a process has a statement iff it is suspended; a FIFO holds at
\* most what it has room for, a mailbox what its bound allows; a barrier can
\* always be filled by arrivals (set_threshold, UvmBarrierData::new).
TypeOK ==
  /\ design \in Designs
  /\ mode \in [Process -> {"running", "blocked", "woken"}]
  /\ stmt \in [Process -> Statements \cup {NoStmt}]
  /\ \A p \in Process : mode[p] = "running" <=> stmt[p] = NoStmt
  /\ size \in Nat /\ queue \in Seq(Item)
  /\ design \in FifoDesigns => Len(queue) <= Capacity
  /\ design = "mailbox" /\ size > 0 => Len(queue) <= size
  /\ triggered \in BOOLEAN /\ on \in BOOLEAN
  /\ threshold \in Nat \ {0} /\ count \in Nat
  /\ config \subseteq Path \cup {Wildcard}
  /\ connected \in BOOLEAN /\ item_queue \in Seq(Item)
  /\ current_item \in Item \cup {None}
  /\ open \in [Process -> Item \cup {None}] /\ done \subseteq Item

\* The statement s would go on if it were executed now.
WouldGoOn(s) ==
  \/ s.op \in {"get", "peek"} /\ queue # <<>>
  \/ s.op = "put" /\ (IF design = "mailbox" THEN MailboxRoom ELSE FifoRoom)
  \/ s.op = "wait_trigger" /\ triggered
  \/ s.op = "wait_on" /\ on
  \/ s.op = "wait_for" /\ Full(count)
  \/ s.op = "wait_for_count" /\ count >= s.arg
  \/ s.op = "wait_modified" /\ Exists(s.arg)
  \/ s.op = "get_next_item" /\ item_queue # <<>>
  \/ s.op = "finish_item" /\ ~FinishBlocks(s.arg)

\* What the code overlooks: a mailbox resumes the wrong side; flush, on_off,
\* set_threshold and the count a wait_for adds resume nobody; a set by wildcard
\* resumes only those who wait for the wildcard.
Overlooked(s) ==
  \/ design = "mailbox"
  \/ design = "fifo, flush" /\ s.op = "put"
  \/ design = "event, on_off" /\ s.op = "wait_on"
  \/ design = "barrier, set_threshold" /\ s.op = "wait_for"
  \/ s.op = "wait_for_count"
  \/ s.op = "wait_modified" /\ s.arg \notin config

\* No lost wakeup: a process that sleeps could not go on, in whatever order the
\* others called, except for what the code overlooks (uvm_fifo_release_waiters,
\* uvm_release_waiters, uvm_seq_release_labels, config_db_release_waiters).
NoLostWakeup ==
  \A p \in Process : mode[p] = "blocked" /\ WouldGoOn(stmt[p]) => Overlooked(stmt[p])

Buffer == INSTANCE BoundedBuffer WITH
  bound <- IF design \in FifoDesigns THEN Capacity ELSE size,
  items <- queue,
  request <- [p \in Process |-> IF Buffering THEN stmt[p] ELSE NoStmt]

\* FIFO and mailbox are buffers: what is put comes out once, in order, never
\* more than the bound at a time; and with a FIFO nobody sleeps for ever over
\* an item or a room it could have (fifo.rs, mailbox of sync.rs).
ImplementsBuffer == Buffer!Spec /\ (design = "fifo" => Buffer!NobodyStranded)

InWaitFor == {p \in Process : stmt[p].op = "wait_for"}

LetGo == InWaitFor \ InWaitFor' # {}
ThresholdMet == Cardinality(InWaitFor) + 1 >= threshold

\* Where no process calls wait_for_count, who waits in wait_for is let go only
\* when as many as the threshold have met there ("when count >= threshold all
\* waiters are released", UvmBarrierData), whatever resets and changes of the
\* threshold come in between.  The design with wait_for_count is excluded, and
\* there the code does not keep the promise: wait_for_count releases the waiters of
\* wait_for too, as soon as the count is what its own caller asks for
\* (uvm_try_wait).
BarrierMeets ==
  [][design # "barrier, wait_for_count" /\ LetGo => ThresholdMet]_vars

\* A sequence gets out of finish_item only after the driver did that very item
\* (uvm_seq_finish_blocks, item_done).
FinishSound ==
  [][connected => \A p \in Process : open[p] # None /\ open'[p] = None => open[p] \in done]_vars

\* A sequence gets out of finish_item, however many others start items.
HandshakeCompletes ==
  \A p \in Process : stmt[p].op = "finish_item" /\ connected ~> stmt[p].op # "finish_item"
=============================================================================
