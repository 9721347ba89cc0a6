---------------------------- MODULE SyncConditions ----------------------------
(***************************************************************************)
(* The conditions UVM code waits for: uvm_event and uvm_barrier              *)
(* (engine/uvm/sync.rs) and wait_modified of the configuration database      *)
(* (engine/uvm/config.rs, block.rs).                                         *)
(***************************************************************************)
EXTENDS SyncWaiters

CONSTANTS
  Thresholds,   \* the thresholds and counts given to a barrier
  Path,         \* the instance paths somebody waits for
  Wildcard      \* a pattern that matches them all

VARIABLES
  triggered, on,      \* uvm_event
  threshold, count,   \* uvm_barrier
  config              \* the keys with a value

event == <<triggered, on>>
barrier == <<threshold, count>>
conditions == <<triggered, on, threshold, count, config>>

AtLeastOne(n) == IF n = 0 THEN 1 ELSE n

InitConditions ==
  /\ triggered = FALSE /\ on = FALSE
  /\ threshold \in {AtLeastOne(n) : n \in Thresholds}
  /\ count = 0
  /\ config = {}
-----------------------------------------------------------------------------
(* uvm_event                                                                *)

TriggerWaiters == Waiters({"wait_trigger"})   \* mutant: wait_on is not released
EventWaiters == Waiters({"wait_trigger", "wait_on"})

Trigger(p) ==
  /\ Calls(p)
  /\ triggered' = TRUE /\ on' = TRUE
  /\ Releases(p, EventWaiters)
  /\ UNCHANGED <<barrier, config>>

ResetEvent(p) ==
  /\ Calls(p) /\ (triggered \/ on)
  /\ triggered' = FALSE /\ on' = FALSE
  /\ UNCHANGED <<waiting, barrier, config>>

\* on_off sets the flag wait_on looks at and releases nobody.
OnOff(p, v) ==
  /\ Calls(p) /\ on # v
  /\ on' = v
  /\ UNCHANGED <<waiting, triggered, barrier, config>>

\* A wait whose flag is set already goes on, and nothing changes.
WaitTrigger(p) ==
  /\ Calls(p) /\ ~triggered
  /\ Suspends(p, Call("wait_trigger", None))
  /\ UNCHANGED conditions

WaitOn(p) ==
  /\ Calls(p) /\ ~on
  /\ Suspends(p, Call("wait_on", None))
  /\ UNCHANGED conditions
-----------------------------------------------------------------------------
(* uvm_barrier                                                              *)

BarrierWaiters == Waiters({"wait_for", "wait_for_count"})

EarlyFull(n) == n + 1 >= threshold   \* mutant: one arrival short
Full(n) == n >= threshold

\* The arrival that fills the barrier empties it and releases every waiter.
WaitFor(p) ==
  /\ Calls(p)
  /\ \/ Full(count + 1) /\ count' = 0 /\ Releases(p, BarrierWaiters)
     \/ ~Full(count + 1) /\ count' = count + 1 /\ Suspends(p, Call("wait_for", None))
  /\ UNCHANGED <<threshold, event, config>>

\* wait_for_count arrives at nothing: it looks at the count, once.
WaitForCount(p, n) ==
  /\ Calls(p)
  /\ \/ count >= n /\ Releases(p, BarrierWaiters)
     \/ count < n /\ Suspends(p, Call("wait_for_count", n))
  /\ UNCHANGED conditions

ResetBarrier(p) ==
  /\ Calls(p) /\ count # 0
  /\ count' = 0
  /\ UNCHANGED <<waiting, threshold, event, config>>

RawThreshold(p, n) ==   \* mutant: zero is taken as it is
  /\ Calls(p) /\ threshold # n
  /\ threshold' = n
  /\ UNCHANGED <<waiting, count, event, config>>

\* set_threshold releases nobody, however many have arrived.
SetThreshold(p, n) ==
  /\ Calls(p) /\ threshold # AtLeastOne(n)
  /\ threshold' = AtLeastOne(n)
  /\ UNCHANGED <<waiting, count, event, config>>
-----------------------------------------------------------------------------
(* uvm_config_db: wait_modified goes on as soon as the path has a value.    *)

Exists(path) == path \in config \/ Wildcard \in config

\* set releases the waiters of the very key it sets.
ConfigSet(p, key) ==
  /\ Calls(p)
  /\ config' = config \cup {key}
  /\ Wakes(p, {q \in Waiters({"wait_modified"}) : stmt[q].arg = key})
  /\ UNCHANGED <<event, barrier>>

WaitModified(p, path) ==
  /\ Executes(p, Call("wait_modified", path))
  /\ \/ Exists(path) /\ Wakes(p, {})
     \/ ~Exists(path) /\ Suspends(p, Call("wait_modified", path))
  /\ UNCHANGED conditions
=============================================================================
