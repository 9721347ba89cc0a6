----------------------------- MODULE SyncWaiters ------------------------------
(***************************************************************************)
(* Blocking statements of UVM code and the processes they suspend           *)
(* (uvm_sync_waiters, block.rs Stmt::Expr).  A statement that cannot go on   *)
(* leaves a waiter with its label behind; an operation that could let it go  *)
(* on takes waiters out of the store and schedules a ContinueAstBlock for    *)
(* each.  What the waiter kept begins with the statement itself (get, put,   *)
(* get_next_item, finish_item, wait_modified), which is then executed again, *)
(* or with the one behind it (wait_trigger, wait_on, wait_for,               *)
(* wait_for_count).                                                         *)
(*                                                                         *)
(* The order in which waiters of one operation resume is left open.          *)
(***************************************************************************)
EXTENDS Naturals

CONSTANTS
  Process,   \* the processes that execute UVM code
  Item,      \* the item handles they pass on
  MaxQueue,  \* bound: how many items wait where nothing limits them
  None       \* no argument, no item

VARIABLES
  mode,   \* "running", "blocked" in the store, or "woken": to execute stmt again
  stmt    \* the blocking statement a process is suspended in

waiting == <<mode, stmt>>

Call(op, arg) == [op |-> op, arg |-> arg]
NoStmt == Call("none", None)

InitWaiters ==
  /\ mode = [p \in Process |-> "running"]
  /\ stmt = [p \in Process |-> NoStmt]

\* The waiters with one of these labels.
Waiters(ops) == {p \in Process : mode[p] = "blocked" /\ stmt[p].op \in ops}

\* p comes to a non-blocking call.
Calls(p) == mode[p] = "running"

\* p comes to the statement s, or executes it again.
Executes(p, s) == mode[p] = "running" \/ (mode[p] = "woken" /\ stmt[p] = s)

Suspends(p, s) ==
  /\ mode' = [mode EXCEPT ![p] = "blocked"]
  /\ stmt' = [stmt EXCEPT ![p] = s]

\* p goes on; the waiters W will execute their statements again.
Wakes(p, W) ==
  /\ mode' = [q \in Process |-> IF q = p THEN "running" ELSE IF q \in W THEN "woken" ELSE mode[q]]
  /\ stmt' = [stmt EXCEPT ![p] = NoStmt]

\* p goes on, and so do the waiters W, behind their statements.
Releases(p, W) ==
  /\ mode' = [q \in Process |-> IF q \in W \cup {p} THEN "running" ELSE mode[q]]
  /\ stmt' = [q \in Process |-> IF q \in W \cup {p} THEN NoStmt ELSE stmt[q]]
=============================================================================
