------------------------------ MODULE RegionLoop ------------------------------
(***************************************************************************)
(* The stratified event loop of the simulation engine: run() of             *)
(* engine/core.rs with the handlers of engine/scheduler/event.rs and the    *)
(* suspension points of engine/scheduler/block.rs, on the vector queue      *)
(* (events[t], use_timing_wheel off).                                       *)
(*                                                                         *)
(* The engine is one thread, so an action is one step of its loop: the      *)
(* drain of a region, the execution of one drained event, a commit, the     *)
(* check of one pending @ or wait, the end of a time step.  What a design    *)
(* does is a choice: a thread that runs may write the signal a, blocking or  *)
(* not, and then suspends, ends or calls $finish, within the statements of   *)
(* the class of designs (program).  Around the threads there are the usual  *)
(* processes: a clock (always #period clk = ~clk), always_comb b = a, its   *)
(* reactive twin always_comb c = a, and always @(posedge clk) bodies.       *)
(* Only Active and Inactive events are ever pushed by the code, and the     *)
(* PLI, Observed and Postponed regions, which then find nothing, are left   *)
(* out.  The events drained together run in any order.                      *)
(***************************************************************************)
EXTENDS Naturals, FiniteSets

CONSTANTS
  Initials,     \* the initial blocks
  Edges,        \* the always @(posedge clk) processes
  Designs,      \* the classes of designs, see LoopAssumption
  MaxTime,      \* bound of sim_limit
  DeltaLimit,   \* delta_limit
  ZeroCap,      \* ZERO_DELAY_EVENT_CAP
  Interval      \* QUIESCENCE_CHECK_INTERVAL

Threads == Initials \cup Edges
Process == Threads \cup {"clk", "b", "c"}
Signal == {"clk", "a", "b", "c"}
Unarmed == "none"
NoNba == 2

\* A class of designs: what a thread may assign to a (<<"none">>, <<"=", v>> or
\* <<"<=", v>>), how it may stop (<<"delay", n>>, <<"at", sig>>, <<"wait">>, <<"end">>
\* or <<"finish">>), the half periods of the clock (0: there is none), sim_limit
\* and the cycle breakpoints, with the debugger attached.
ASSUME LoopAssumption ==
  /\ Initials \cap Edges = {}
  /\ {"clk", "b", "c"} \cap Threads = {}
  /\ {MaxTime, DeltaLimit, ZeroCap, Interval} \subseteq Nat /\ Interval > 0
  /\ \A d \in Designs :
       /\ d.periods \subseteq Nat /\ d.breaks \subseteq Nat /\ d.limit \in 0..MaxTime
       /\ \A w \in d.writes : w[1] \in {"=", "<="} => w[2] \in {0, 1}
       /\ \A s \in d.stops : (s[1] = "delay" => s[2] \in Nat) /\ (s[1] = "at" => s[2] \in Signal)

VARIABLES
  program,    \* the class the design is of
  period,     \* its clock
  breaks,     \* the cycle breakpoints that are set
  pc,         \* where run() is
  time,       \* state.time
  delta,      \* delta_count
  activity,   \* the flag of the delta loop
  running,    \* cleared by $finish
  events,     \* the slots: [proc, t, region] records
  last,       \* last_processed_t
  revisits,   \* same_time_revisits
  batch,      \* the drained events, or the pending entries, not treated yet
  nba,        \* nba_pending: the last value assigned to a, or NoNba
  cur,        \* what read_signal returns, pending writes included
  com,        \* the committed values
  changed,    \* deltas: the signals the commit of this delta changed
  buffered,   \* reactive_events holds the process of c
  armed,      \* pending_events: the signal a thread is suspended on
  waiting,    \* pending_waits: the threads in wait (a)
  baseline,   \* signal_snapshot, what an @ is compared with
  zeros,      \* zero_delay_same_time
  lost,       \* history: the events a drain discarded
  owed        \* history: threads whose awaited change was committed

design == <<program, period, breaks>>
schedule == <<time, delta, activity, running, last, revisits>>
signals == <<nba, cur, com, changed, baseline>>
waits == <<armed, waiting>>
history == <<lost, owed, design>>
vars == <<program, period, breaks, pc, time, delta, activity, running, last, revisits, events, batch, nba, cur, com, changed,
          buffered, armed, waiting, baseline, zeros, lost, owed>>

ActiveEvent(p, d) ==   \* mutant: a #0 is scheduled like any delay
  [proc |-> p, t |-> time + d, region |-> "Active"]

\* push_event for time + d: #0 goes to the Inactive region of this step.
Event(p, d) ==
  [proc |-> p, t |-> time + d, region |-> IF d = 0 THEN "Inactive" ELSE "Active"]

Slot(t) == {e \in events : e.t = t}
Procs(E) == {e.proc : e \in E}

\* What initialize_time_zero pushes; edge-triggered processes are not scheduled.
TimeZeroEvents ==
  {[proc |-> p, t |-> 0, region |-> "Active"] :
     p \in Initials \cup {"b", "c"} \cup (IF period > 0 THEN {"clk"} ELSE {})}

Init ==
  /\ program \in Designs /\ period \in program.periods /\ breaks = program.breaks
  /\ pc = "Top" /\ time = 0 /\ delta = 0 /\ activity = FALSE /\ running = TRUE
  /\ last = 0 /\ revisits = 0
  /\ events = TimeZeroEvents /\ batch = {}
  /\ nba = NoNba /\ changed = {} /\ buffered = FALSE
  /\ cur = [s \in Signal |-> 0] /\ com = cur /\ baseline = cur
  /\ armed = [p \in Threads |-> Unarmed] /\ waiting = {} /\ zeros = 0
  /\ lost = {} /\ owed = {}
-----------------------------------------------------------------------------
(* Executing a thread up to its next suspension: evaluate_block_with_delay.  *)

Writes == program.writes
Suspends == program.stops
Assigned(w) == IF w[1] = "=" THEN [cur EXCEPT !["a"] = w[2]] ELSE cur
Queued(w) == IF w[1] = "<=" THEN w[2] ELSE nba   \* a later assignment wins

Suspended(p, s) ==
  /\ events' = IF s[1] = "delay" THEN events \cup {Event(p, s[2])} ELSE events
  /\ armed' = [armed EXCEPT ![p] = IF s[1] = "at" THEN s[2] ELSE Unarmed]
  /\ waiting' = IF s[1] = "wait" THEN waiting \cup {p} ELSE waiting \ {p}
  /\ running' = (running /\ s[1] /= "finish")

\* Bound on the designs: the continuation of an always body does not suspend.
Stops(p) == IF p \in Edges THEN {s \in Suspends : s[1] \in {"end", "finish"}} ELSE Suspends

UncappedExecute(p, next) ==   \* mutant: the cap on #0 does not stop the run
  \E w \in Writes, s \in Stops(p) :
    /\ cur' = Assigned(w) /\ nba' = Queued(w)
    /\ s[1] = "wait" => cur'["a"] = 0
    /\ pc' = next
    /\ Suspended(p, s)
    /\ zeros' = IF s = <<"delay", 0>> /\ zeros < ZeroCap THEN zeros + 1 ELSE zeros

\* A thread runs to its next suspension; a #0 beyond ZeroCap ends the run.
Execute(p, next) ==
  \E w \in Writes, s \in Stops(p) :
    LET churn == s = <<"delay", 0>>
    IN  /\ cur' = Assigned(w) /\ nba' = Queued(w)
        /\ s[1] = "wait" => cur'["a"] = 0
        /\ IF churn /\ zeros = ZeroCap
           THEN pc' = "Aborted" /\ UNCHANGED <<events, waits, running, zeros>>
           ELSE /\ pc' = next
                /\ Suspended(p, s)
                /\ zeros' = IF churn THEN zeros + 1 ELSE zeros

\* An always @(posedge clk) body runs in evaluate_stmt_block, where a #0 is not
\* counted; it ends, or leaves a continuation behind.
ExecuteBody(p) ==
  \E w \in Writes, s \in {x \in Suspends : x[1] \in {"delay", "end", "finish"}} :
    /\ cur' = Assigned(w) /\ nba' = Queued(w)
    /\ Suspended(p, s)

\* A process body without suspension, evaluated by EvalProcess.
Evaluated(p) ==
  IF p # "clk" THEN [cur EXCEPT ![p] = cur["a"]]
  ELSE IF time > 0 THEN [cur EXCEPT !["clk"] = 1 - cur["clk"]]
  ELSE cur

\* process_event for an event that was drained in this region.
ProcessEvent(p, next) ==
  IF p \in Threads
  THEN /\ Execute(p, next)
       /\ owed' = owed \ {p}
  ELSE /\ cur' = Evaluated(p)
       /\ events' = IF p = "clk" THEN events \cup {Event(p, period)} ELSE events
       /\ pc' = next
       /\ UNCHANGED <<nba, waits, running, zeros, owed>>
-----------------------------------------------------------------------------
(* The regions of one delta.                                                *)

LateAllows(t) == t <= program.limit + 1   \* mutant: one time step too many
Allows(t) == t <= program.limit

\* The top of the while loop ends the run, or takes the Preponed snapshot.  A
\* time that is entered again and again is given up (guard HANG-1).
StopRun ==
  /\ pc = "Top" /\ ~(running /\ Allows(time))
  /\ pc' = "Done"
  /\ UNCHANGED <<schedule, events, batch, signals, buffered, waits, zeros, history>>

StartStep ==
  /\ pc = "Top" /\ running /\ Allows(time)
  /\ last' = time
  /\ revisits' = IF time = last THEN revisits + 1 ELSE 0
  /\ pc' = IF revisits' > DeltaLimit THEN "Aborted" ELSE "Active"
  /\ delta' = 0 /\ activity' = FALSE /\ changed' = {} /\ baseline' = cur
  /\ UNCHANGED <<time, running, events, batch, nba, cur, com, buffered, waits, zeros, history>>

\* drain(..).filter(region): the slot is emptied, what is not of the region is gone.
Drain(region, run, next) ==
  LET ready == {e \in Slot(time) : e.region = region}
  IN  /\ batch' = Procs(ready)
      /\ events' = events \ Slot(time)
      /\ lost' = lost \cup (Slot(time) \ ready)
      /\ activity' = (activity \/ ready /= {})
      /\ pc' = IF ready = {} THEN next ELSE run

DrainUnchanged ==
  UNCHANGED <<design, time, last, revisits, delta, running, signals, buffered, waits, zeros, owed>>

DrainActive == pc = "Active" /\ Drain("Active", "RunActive", "Inactive") /\ DrainUnchanged
DrainInactive == pc = "Inactive" /\ Drain("Inactive", "RunInactive", "Nba") /\ DrainUnchanged

\* Active is drained once a delta, Inactive until it is empty.
RunDrained ==
  /\ pc \in {"RunActive", "RunInactive"}
  /\ \E p \in batch :
       /\ batch' = batch \ {p}
       /\ ProcessEvent(p, IF batch = {p} THEN "Inactive" ELSE pc)
  /\ UNCHANGED <<design, time, last, revisits, delta, activity, com, changed, buffered, baseline, lost>>

\* commit_nba writes the queue in order and empties it.
CommitNba ==
  /\ pc = "Nba"
  /\ cur' = IF nba = NoNba THEN cur ELSE [cur EXCEPT !["a"] = nba]
  /\ nba' = NoNba
  /\ Drain("Nba", "Nba", "Commit")
  /\ UNCHANGED <<design, time, last, revisits, delta, running, com, changed, baseline, buffered, waits, zeros, owed>>

\* The wake-ups a committed change owes: an edge for the clock, else any change.
Wakes(s, new) == s /= "clk" \/ new["clk"] = 1
Owed(C, new) == {p \in Threads : armed[p] \in C /\ Wakes(armed[p], new)}

StaleComb(C) ==   \* mutant: comb bodies read the committed value before the commit
  IF "a" \in C THEN [cur EXCEPT !["b"] = com["a"]] ELSE cur

\* The always_comb processes a change of their input runs at once.
Comb(C) == IF "a" \in C THEN [cur EXCEPT !["b"] = cur["a"]] ELSE cur

\* commit_changes, then trigger_sensitive_processes: comb bodies run at once,
\* the reactive ones are buffered, the edge-triggered ones run next.
Commit ==
  /\ pc = "Commit"
  /\ LET C == {s \in Signal : cur[s] /= com[s]}
     IN  /\ changed' = C
         /\ com' = cur
         /\ cur' = Comb(C)
         /\ buffered' = (buffered \/ "a" \in C)
         /\ batch' = IF "clk" \in C /\ cur["clk"] = 1 THEN Edges ELSE {}
         /\ activity' = (activity \/ C /= {})
         /\ owed' = owed \cup Owed(C, cur)
  /\ pc' = "Trigger"
  /\ UNCHANGED <<design, time, last, revisits, delta, running, events, nba, baseline, waits, zeros, lost>>

Trigger ==
  /\ pc = "Trigger"
  /\ \E p \in batch :
       /\ ExecuteBody(p)
       /\ batch' = batch \ {p} /\ owed' = owed \ {p}
  /\ UNCHANGED <<design, pc, time, last, revisits, delta, activity, com, changed, buffered, baseline, zeros, lost>>

\* The Reactive events of the slot (there are none) and the buffered processes.
RunReactive ==
  /\ pc = "Trigger" /\ batch = {}
  /\ LET ready == {e \in Slot(time) : e.region = "Reactive"}
     IN  /\ events' = events \ Slot(time)
         /\ lost' = lost \cup (Slot(time) \ ready)
  /\ cur' = IF buffered THEN [cur EXCEPT !["c"] = cur["a"]] ELSE cur
  /\ buffered' = FALSE
  /\ activity' = (activity \/ buffered)
  /\ pc' = "Limit"
  /\ UNCHANGED <<design, time, last, revisits, delta, running, batch, nba, com, changed, baseline, waits, zeros, owed>>
-----------------------------------------------------------------------------
(* After the regions: the delta limit, the pending waits, the pending @.     *)

FirstDeltaWaits ==   \* mutant: the waits are looked at in the first delta only
  IF "a" \in changed /\ delta = 0 THEN waiting ELSE {}

\* The entries of pending_waits that depend on a changed signal.
DueWaits == IF "a" \in changed THEN waiting ELSE {}

CheckLimit ==
  /\ pc = "Limit"
  /\ IF delta > DeltaLimit
     THEN pc' = "Aborted" /\ UNCHANGED <<delta, batch>>
     ELSE /\ pc' = "Waits"
          /\ delta' = delta + 1
          /\ batch' = DueWaits
  /\ UNCHANGED <<time, last, revisits, activity, running, events, signals, buffered, waits, zeros, history>>

\* process_pending_waits evaluates wait (a) again: the thread goes on, or waits.
ResumeWait ==
  /\ pc = "Waits"
  /\ \E p \in batch :
       /\ batch' = batch \ {p}
       /\ activity' = TRUE
       /\ IF cur["a"] = 1
          THEN Execute(p, pc) /\ owed' = owed \ {p}
          ELSE UNCHANGED <<pc, cur, nba, events, waits, running, zeros, owed>>
  /\ UNCHANGED <<design, time, last, revisits, delta, com, changed, buffered, baseline, lost>>

WaitsDone ==
  /\ pc = "Waits" /\ batch = {}
  /\ pc' = "Events"
  /\ batch' = IF changed = {} THEN {} ELSE {p \in Threads : armed[p] /= Unarmed}
  /\ UNCHANGED <<time, last, revisits, delta, activity, running, events, signals, buffered, waits, zeros, history>>

\* The change an armed thread looks for, against the snapshot, not the commit.
Fires(p) ==
  LET s == armed[p]
  IN  s \in changed /\ baseline[s] /= cur[s] /\ Wakes(s, cur)

\* process_pending_events; an @ armed meanwhile is not looked at in this pass.
ResumeEvent ==
  /\ pc = "Events"
  /\ \E p \in batch :
       /\ batch' = batch \ {p}
       /\ IF Fires(p)
          THEN Execute(p, pc) /\ activity' = TRUE /\ owed' = owed \ {p}
          ELSE UNCHANGED <<pc, activity, cur, nba, events, waits, running, zeros, owed>>
  /\ UNCHANGED <<design, time, last, revisits, delta, com, changed, buffered, baseline, lost>>

NeverSuspended == FALSE   \* mutant: the snapshot is taken once a time step
Suspensions == waiting /= {} \/ \E p \in Threads : armed[p] /= Unarmed

RemainingOnly == Slot(time) /= {} \/ nba /= NoNba   \* mutant: activity is ignored
Recirculates == activity \/ Slot(time) /= {} \/ nba /= NoNba   \* has_remaining

\* Another delta, with the snapshot that only suspended threads make necessary.
Decide ==
  /\ pc = "Events" /\ batch = {}
  /\ IF Recirculates
     THEN /\ pc' = "Active" /\ activity' = FALSE /\ changed' = {}
          /\ baseline' = IF Suspensions THEN cur ELSE baseline
     ELSE pc' = "End" /\ UNCHANGED <<activity, changed, baseline>>
  /\ UNCHANGED <<time, last, revisits, delta, running, events, batch, nba, cur, com, buffered, waits, zeros, history>>
-----------------------------------------------------------------------------
(* The end of a time step.                                                  *)

PauseInDelta ==   \* mutant: the pause does not wait for the last delta
  /\ pc = "Events" /\ batch = {} /\ time \in breaks
  /\ pc' = "Paused"
  /\ UNCHANGED <<schedule, events, batch, signals, buffered, waits, zeros, history>>

\* debug_check: the loop is left before the time advances.
Pause ==
  /\ pc = "End" /\ time \in breaks
  /\ pc' = "Paused"
  /\ UNCHANGED <<schedule, events, batch, signals, buffered, waits, zeros, history>>

\* continue_run calls run() again, which initializes time zero again.
Continue ==
  /\ pc = "Paused"
  /\ pc' = "Top"
  /\ events' = IF time = 0 THEN events \cup TimeZeroEvents ELSE events
  /\ UNCHANGED <<schedule, batch, signals, buffered, waits, zeros, history>>

ClearBreakpoints ==
  /\ pc = "Paused" /\ breaks /= {}
  /\ breaks' = {}
  /\ UNCHANGED <<program, period, pc, schedule, events, batch, signals, buffered, waits, zeros, lost, owed>>

HastyQuiescent ==   \* mutant: the slots of later times are not looked at
  /\ (time + 1) % Interval = 0
  /\ ~buffered
  /\ \A p \in Threads : armed[p] = Unarmed

Quiescent ==
  /\ (time + 1) % Interval = 0
  /\ ~buffered
  /\ \A p \in Threads : armed[p] = Unarmed
  /\ events \ Slot(time) = {}

Retired == {e \in events : e.t /= time}           \* retire_events

\* retire_events, then the next time.
Advance ==
  /\ pc = "End" /\ time \notin breaks
  /\ events' = Retired
  /\ time' = time + 1
  /\ zeros' = 0
  /\ pc' = IF Quiescent THEN "Quiesced" ELSE "Top"
  /\ UNCHANGED <<delta, activity, running, last, revisits, batch, signals, buffered, waits, history>>

Ended == pc \in {"Done", "Quiesced", "Aborted"} /\ UNCHANGED vars

Run ==
  \/ StartStep \/ StopRun \/ DrainActive \/ DrainInactive \/ RunDrained \/ CommitNba
  \/ Commit \/ Trigger \/ RunReactive \/ CheckLimit
  \/ ResumeWait \/ WaitsDone \/ ResumeEvent \/ Decide \/ Pause \/ Advance

Next == Run \/ Continue \/ ClearBreakpoints \/ Ended

Spec == Init /\ [][Next]_vars

\* run() is one thread that nothing blocks; the user may leave it paused.
FairSpec == Spec /\ WF_vars(Run)
-----------------------------------------------------------------------------
Programs == {"Top", "Active", "RunActive", "Inactive", "RunInactive", "Nba", "Commit",
             "Trigger", "Limit", "Waits", "Events", "End", "Paused", "Done", "Quiesced", "Aborted"}
EventRecord == [proc : Process, t : Nat, region : {"Active", "Inactive"}]

\* Every variable has its type, and an event waits in the region its delay asks for.
TypeOK ==
  /\ program \in Designs /\ period \in program.periods /\ breaks \in {program.breaks, {}}
  /\ pc \in Programs /\ time \in 0..MaxTime + 1 /\ delta \in 0..DeltaLimit + 1
  /\ activity \in BOOLEAN /\ running \in BOOLEAN /\ buffered \in BOOLEAN
  /\ last \in 0..MaxTime /\ revisits \in 0..DeltaLimit + 1
  /\ events \subseteq EventRecord /\ lost \subseteq EventRecord
  /\ batch \subseteq Process /\ nba \in {0, 1, NoNba}
  /\ {cur, com, baseline} \subseteq [Signal -> {0, 1}] /\ changed \subseteq Signal
  /\ armed \in [Threads -> Signal \cup {Unarmed}] /\ waiting \subseteq Threads
  /\ zeros \in 0..ZeroCap /\ owed \subseteq Threads

\* When a time step ends nothing of it is left over: every assignment is
\* committed, every event of this time and every buffered process has run.
StepComplete ==
  pc = "End" => cur = com /\ nba = NoNba /\ ~buffered /\ Slot(time) = {}

\* A delay of one or more units is kept: such an event leaves its slot only when
\* its time has come, and then it is executed; what a drain discards is a #0.
OnlyZeroDelaysLost == \A e \in lost : e.region = "Inactive"

\* Quiescence stops only what is over: nothing is scheduled, buffered, assigned
\* or uncommitted, and nobody is suspended on an @.
QuiescedIsOver ==
  pc = "Quiesced" => /\ events = {} /\ nba = NoNba /\ ~buffered /\ cur = com
                     /\ \A p \in Threads : armed[p] = Unarmed

\* Whatever the threads do, the run ends, or the user leaves it paused: the
\* loops over the Inactive region and over the deltas are cut by ZeroCap and
\* DeltaLimit, and so is continuing in the same time step.
Termination == <>(pc \in {"Done", "Quiesced", "Aborted"}) \/ <>[](pc = "Paused")

\* A time after zero that is entered again after a pause runs nothing twice.
RevisitChangesNothing ==
  [][time > 0 /\ revisits > 0 /\ time' = time => com' = com /\ events' = events]_vars

\* IEEE_1800_MATRIX.md: events re-circulate in the next pass, none disappears.
NothingLost == lost = {}

\* A synchronous design: non-blocking assignments only, no #0, and @ on the
\* clock and on a, never on an output of a comb process.
Synchronous ==
  /\ \A w \in Writes : w[1] # "="
  /\ \A s \in Suspends : (s[1] = "delay" => s[2] > 0) /\ (s[1] = "at" => s[2] \in {"clk", "a"})

\* In a synchronous design the always_comb outputs agree with their input when
\* a time step ends.
CombSettled == Synchronous /\ pc = "End" => com["b"] = com["a"] /\ com["c"] = com["a"]

\* In a synchronous design who waits for @(sig) when a change of sig is
\* committed goes on in that delta.
NoMissedEvent == Synchronous /\ pc = "Events" /\ batch = {} => owed = {}

\* In a synchronous design nobody is left in wait (a) by a time step that ends
\* with a = 1.
NoMissedWait == Synchronous /\ pc = "End" => waiting = {} \/ cur["a"] = 0
=============================================================================
