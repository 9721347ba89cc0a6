---------------------------- MODULE SequenceItems -----------------------------
(***************************************************************************)
(* The handshake of sequences with a driver through their sequencer          *)
(* (engine/uvm/seq.rs, component.rs, block.rs):                              *)
(*   a sequence   start_item(i); finish_item(i)                             *)
(*   the driver   forever get_next_item(i); ...; item_done()                *)
(* The driver asks for an item only when it has done the last one, and a     *)
(* sequence starts an item nobody else has open.                            *)
(***************************************************************************)
EXTENDS SyncWaiters, Sequences

CONSTANT Driver   \* the process that drives

VARIABLES
  connected,      \* a driver or a port is connected to the sequencer
  item_queue,     \* items started and not granted
  current_item,   \* the item the driver has
  open,           \* the item a sequence has started and not finished
  done            \* history: the items item_done was called for since they started

sequencer == <<connected, item_queue, current_item>>
sequencing == <<connected, item_queue, current_item, open, done>>

Queued == {item_queue[k] : k \in 1..Len(item_queue)}

InitSequencer ==
  /\ connected \in BOOLEAN
  /\ item_queue = <<>> /\ current_item = None
  /\ open = [p \in Process |-> None] /\ done = {}

NoGetters == {}   \* mutant: a driver that waits is not woken
ItemGetters == Waiters({"get_next_item"})

StartItem(p, i) ==
  /\ p # Driver /\ Calls(p) /\ open[p] = None /\ \A q \in Process : open[q] # i
  /\ Len(item_queue) < MaxQueue
  /\ item_queue' = Append(item_queue, i)
  /\ open' = [open EXCEPT ![p] = i]
  /\ done' = done \ {i}
  /\ Wakes(p, ItemGetters)
  /\ UNCHANGED <<connected, current_item>>

\* uvm_seq_finish_blocks
BlocksWhileQueued(i) == connected /\ i \in Queued   \* mutant: the granted item is forgotten
FinishBlocks(i) == connected /\ (current_item = i \/ i \in Queued)

FinishItem(p, i) ==
  /\ open[p] = i /\ Executes(p, Call("finish_item", i))
  /\ \/ ~FinishBlocks(i) /\ Wakes(p, {}) /\ open' = [open EXCEPT ![p] = None]
     \/ FinishBlocks(i) /\ Suspends(p, Call("finish_item", i)) /\ UNCHANGED open
  /\ UNCHANGED <<sequencer, done>>

\* get_next_item, and try_next_item when there is an item: uvm_seq_pop.
GetNextItem(p) ==
  /\ p = Driver /\ connected /\ current_item = None
  /\ Executes(p, Call("get_next_item", None))
  /\ \/ /\ item_queue # <<>>
        /\ item_queue' = Tail(item_queue) /\ current_item' = Head(item_queue)
        /\ Wakes(p, {})
     \/ /\ item_queue = <<>>
        /\ Suspends(p, Call("get_next_item", None))
        /\ UNCHANGED <<item_queue, current_item>>
  /\ UNCHANGED <<connected, open, done>>

\* get_next_item in an expression leaves the item in the queue.
ShowNextItem(p) ==
  /\ p = Driver /\ connected /\ current_item = None /\ Calls(p)
  /\ item_queue # <<>>
  /\ current_item' = Head(item_queue)
  /\ UNCHANGED <<waiting, connected, item_queue, open, done>>

Finishers(i) == {q \in Waiters({"finish_item"}) : stmt[q].arg = i}

ItemDone(p) ==
  /\ p = Driver /\ Calls(p) /\ current_item # None
  /\ item_queue' = IF item_queue # <<>> /\ Head(item_queue) = current_item
                   THEN Tail(item_queue) ELSE item_queue
  /\ current_item' = None
  /\ done' = done \cup {current_item}
  /\ Wakes(p, Finishers(current_item))
  /\ UNCHANGED <<connected, open>>
=============================================================================
