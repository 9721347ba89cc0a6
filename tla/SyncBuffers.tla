----------------------------- MODULE SyncBuffers ------------------------------
(***************************************************************************)
(* The two buffers of UVM code: uvm_tlm_fifo (engine/uvm/fifo.rs) and the    *)
(* SystemVerilog mailbox (engine/uvm/sync.rs), with the statements of        *)
(* block.rs that block on them.  A process uses one of the two; both keep a  *)
(* queue of item handles and the size given to new.                          *)
(***************************************************************************)
EXTENDS SyncWaiters, Sequences

CONSTANT Sizes   \* the sizes given to new

VARIABLES size, queue

buffer == <<size, queue>>

InitBuffer ==
  /\ size \in Sizes
  /\ queue = <<>>
-----------------------------------------------------------------------------
(* uvm_tlm_fifo                                                             *)

Capacity == IF size = 0 THEN 1 ELSE size
FifoRoom == Len(queue) < Capacity
FifoGetters == Waiters({"get", "peek"})
NoPutters == {}   \* mutant: room is not announced
FifoPutters == Waiters({"put"})

FifoPush(p, i) ==
  /\ FifoRoom
  /\ queue' = Append(queue, i)
  /\ Wakes(p, FifoGetters)
  /\ UNCHANGED size

FifoPop(p) ==
  /\ queue # <<>>
  /\ queue' = Tail(queue)
  /\ Wakes(p, FifoPutters)
  /\ UNCHANGED size

FifoPut(p, i) ==
  /\ Executes(p, Call("put", i))
  /\ \/ FifoPush(p, i)
     \/ ~FifoRoom /\ Suspends(p, Call("put", i)) /\ UNCHANGED buffer

FifoGet(p) ==
  /\ Executes(p, Call("get", None))
  /\ \/ FifoPop(p)
     \/ queue = <<>> /\ Suspends(p, Call("get", None)) /\ UNCHANGED buffer

FifoPeek(p) ==
  /\ Executes(p, Call("peek", None))
  /\ \/ queue # <<>> /\ Wakes(p, {})
     \/ queue = <<>> /\ Suspends(p, Call("peek", None))
  /\ UNCHANGED buffer

\* try_put, put in an expression, and write of the analysis export; a full FIFO
\* drops the item.
FifoTryPut(p, i) == Calls(p) /\ FifoPush(p, i)

\* try_get, and get in an expression.
FifoTryGet(p) == Calls(p) /\ FifoPop(p)

\* flush empties the FIFO and wakes nobody.
FifoFlush(p) ==
  /\ Calls(p) /\ queue # <<>>
  /\ queue' = <<>>
  /\ UNCHANGED <<size, waiting>>
-----------------------------------------------------------------------------
(* mailbox: size 0 is unbounded.  A put resumes the waiters of put and a get *)
(* those of get, which find the queue as full or as empty as before or more. *)

MailboxRoom == size = 0 \/ Len(queue) < size

MailboxPush(p, i) ==
  /\ MailboxRoom
  /\ size = 0 => Len(queue) < MaxQueue
  /\ queue' = Append(queue, i)
  /\ Wakes(p, Waiters({"put"}))
  /\ UNCHANGED size

MailboxPop(p) ==
  /\ queue # <<>>
  /\ queue' = Tail(queue)
  /\ Wakes(p, Waiters({"get"}))
  /\ UNCHANGED size

MailboxPut(p, i) ==
  /\ Executes(p, Call("put", i))
  /\ \/ MailboxPush(p, i)
     \/ ~MailboxRoom /\ Suspends(p, Call("put", i)) /\ UNCHANGED buffer

MailboxGet(p) ==
  /\ Executes(p, Call("get", None))
  /\ \/ MailboxPop(p)
     \/ queue = <<>> /\ Suspends(p, Call("get", None)) /\ UNCHANGED buffer

\* try_put, and put in an expression.
MailboxTryPut(p, i) == Calls(p) /\ MailboxPush(p, i)

\* try_get, and get in an expression.  On a mailbox nobody has put to yet they, and
\* num, are the error "mailbox not initialized", which ends the run: left out.
MailboxTryGet(p) == Calls(p) /\ MailboxPop(p)
=============================================================================
