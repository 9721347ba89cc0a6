# Verification of the mivon simulator

mivon (`src/`) is a SystemVerilog RTL simulator written in Rust: a parser and
elaborator, an event-driven engine with the IEEE 1800 region loop, an incremental
compiler with an on-disk database (MICD), distributed and co-simulation front ends,
and analysis and synthesis tools. This directory holds TLA+ modules of the parts
whose correctness depends on order, interleaving and failure, the TLC runs that
check them on small instances, and TLAPS proofs of what holds for every instance.

| Module | Models | Checked by | Proved in |
|---|---|---|---|
| `TimingWheel` | the hierarchical timing wheel | `MCTimingWheel` | `TimingWheelProofs` |
| `EventQueue` | what the run loop expects of a queue of timed events (abstract) | implemented by `TimingWheel` | `TimingWheelProofs` |
| `RegionLoop` | the stratified event loop | `MCRegionLoop` | `RegionLoopProofs` |
| `ForkGroups` | fork/join accounting of the engine | `MCForkGroups` | `ForkGroupsProofs`, `FlatForksProofs` |
| `CompileCache` | the compile cache and its sessions | `MCCompileCache` | `CompileCacheProofs` |
| `UvmSync` | the UVM synchronization primitives, composed of `SyncWaiters` (suspended statements), `SyncBuffers` (FIFO, mailbox), `SyncConditions` (event, barrier, configuration database) and `SequenceItems` (sequencer) | `MCUvmSync` | `UvmSyncProofs` |
| `BoundedBuffer` | what processes expect of a shared buffer (abstract) | implemented by `UvmSync` | `UvmSyncProofs` |
| `Cosim` | the co-simulation bridge | `MCCosim` | `CosimProofs` |
| `Distributed` | master and slaves of a distributed run | `MCDistributed` | `DistributedProofs` |

To run: `tlc -workers 2 -config RegionLoop.cfg MCRegionLoop`, `tlapm TimingWheelProofs.tla`.

## 1. Inventory

Paths are relative to `src/crates/mivon-simulator/src/simulator/` (S), or
`src/crates/mivon-compiler/src/` (C).

| Part | State | Operations | What is hard | What makes it correct |
|---|---|---|---|---|
| Timing wheel (S `engine/scheduler/timing_wheel.rs`) | three levels of buckets, pointer, counter | add_event, advance (cascade, drain), clear | cascade boundaries; paths of different length to one bucket | every event returned once, when its time has come, in push order |
| Event loop (S `engine/core.rs`, `engine/scheduler/event.rs`) | slots of events, NBA queue, pending @ and wait, committed and current signals, snapshot | run, push_event, commit_nba, trigger, process_pending_* | events pushed while their slot is drained; baselines that go stale; quiescence; pause and continue | nothing scheduled is lost, waiters are woken, a step ends settled, the run ends and not too soon |
| Fork groups (S `engine/core.rs`, `engine/scheduler/block.rs`) | slots, free list, pending wait forks, current process | fork, branch end, join, wait fork, disable fork | calls that nest; slots reused under late branches; several handlers that resume a branch | a join neither hangs nor ends early; each thread continues once |
| Compile cache (C `micd/`, C `frontend/compile_session.rs`, `src/src/main.rs`) | metadata, objects, verification results, IR, journal, lock; per session database copy and dirty flags | open/recover, attach, compile, save (GC, objects, lock, renames), restore/store IR | sessions that overlap; crashes between the files of a save; staleness of several kinds of artefact | reuse never changes the result; what is recorded is there; one writer |
| UVM primitives (S `engine/uvm/sync.rs`, `fifo.rs`, `config.rs`, `seq.rs`) | events, barriers, mailboxes, FIFOs, configuration keys, item queues, the store of waiters | put, get, try_*, wait_*, trigger, reset, start_item, item_done | lost wake-ups; several waiters for one item; what a woken process finds when it runs | no waiter sleeps while it could proceed; items come out once, in order; barrier and finish_item let go when they may |
| Task scheduler (C `scheduler/`) | queue, pending counter, dependency graph | submit, run, complete, initial_ready | a task that panics; counters read without the queue | each task runs once; workers stop when all is done |
| Distributed simulation (S `distributed/`) | connections, faulty set, rounds | accept, assign, delta sync, collect, notify; report, close | a slave that dies anywhere; a connection closed behind a report | only what is gone is given up; a round waits for all; everybody ends |
| Co-simulation (S `cosim/`) | server thread, shared buffers, one connection | connect, outputs, Sync, updates; exchange at the end of a step | updates overwritten before they are taken; a round cut short; both sides waiting | rounds arrive whole; outputs in time; nobody waits for ever |

How they interact: the engine owns the queue (the wheel or, by default, a vector of
slots) and calls it at every time step; fork groups live inside the handlers of the
event loop; UVM primitives suspend statements of the same loop and resume them by
events; the run command opens the compile cache before it parses, saves it after the
parse and again after the elaboration, and only then starts the engine.

The remaining parts (parser, elaborator, value arithmetic, optimizers, synthesis,
formal engine, emulator, language server, tools) are functions of their input or
front ends; `PROJECT.json` lists each with the reason it is not modelled.

## 2. Timing wheel

State: `slot[e]` is the bucket of event e (level, index, stored remainder, position);
the code keeps the inverse, a Vec of (remainder, event) per bucket. Actions:
`AddEvent` (add_event, with its past and future branches), `Tick` (the run loop's
advance(t+1): level-1 cascade, level-2 cascade, pointer, drain), `Redrain` (the second
advance of a time step, core.rs:1014), `Clear`. `due`, `entry`, `stamp`, `firedAt` are
history.

- `timing_wheel` checks that every added event is stored until it is returned, once, and
  total_events() counts the stored ones (`StoredExact`); that `advance` returns a future
  event that is not on a cascade boundary exactly at its time (`OnSchedule`); that events
  which enter at one level leave in push order (`SameLevelFifo`); and that the wheel is an
  `EventQueue` (`ImplementsEventQueue`). Bounds: W = 2 buckets a level (the code has 256),
  so the wheel covers eight units and every kind of boundary is met before MaxTime = 13;
  two events are enough for order.
- `timing_wheel_exact`: `ExactTime`, the same without the exclusion, is what the comments
  promise (timing_wheel.rs:22-25, :37-38, :219), and it fails. An event due on a multiple of
  256 that entered above level 0 is returned 256 units late (65536 for a multiple of 65536
  that entered at level 2), because its bucket is drained before the cascade files it there.

The wheel is off by default (`use_timing_wheel`). An event of the past goes to bucket 0
(timing_wheel.rs:131), "at current time" according to the comment and at the next
wrap-around according to the test (:452-474); the code does the latter, and the run loop
files no past event.

`EventQueue` says what the run loop needs: an event is taken once, not before its time,
and not after a latest time that is fixed when it is pushed. In the refinement mapping
`pending` is the stored events, and the window of an event ends at its time, plus the
`Lateness` of a boundary if it is on one, or, for an event of the past, at the next drain
of its bucket. So what the refinement adds is that an event is taken once, never early,
and that its latest time is fixed when it is pushed.

`TimingWheelProofs` proves, for every wheel size W >= 2, any finite set of events and
any horizon: `TypeOK`, `StoredExact`, `OnSchedule` and `SameLevelFifo`. The invariant `IInv` adds
to them where each stored event is: its bucket is determined by its due time and its
level, and the pointer has not yet passed the moment at which that bucket is moved down
(`PlacedAt`), and when it leaves, boundaries included (`FiredOnSchedule`, `NothingOverdue`),
from which `OnSchedule` follows. `OnSchedule` alone is not inductive: nothing in it says
that the drained bucket holds only events of that turn. `SameLevelFifo` needs more: two events of one time
that entered at one level are in one bucket, in push order (`Ordered`), because a cascade
moves whole buckets and, when the second is added, the first cannot have left the level
at which it entered (`Descended`). The refinement, `Spec => ImplementsEventQueue`, maps every step of
the wheel to a step of the queue or to a stutter. Assumptions: W >= 2 and
MaxOffset < W^3 (`HorizonAssumption`: core.rs drops events beyond MAX_EVENT_SPAN).

## 3. Event loop

State and actions follow `run()`: `pc` is the place in its loop; `StartStep` (Preponed
snapshot), `DrainActive`/`DrainInactive`/`RunDrained` (one drained event, executed by
`Execute`), `CommitNba`, `Commit`, `Trigger`, `RunReactive`, `CheckLimit`, `ResumeWait`,
`ResumeEvent`, `Decide`, `Pause`, `Advance` (retire_events and the quiescence check),
`Continue` and `ClearBreakpoints` by the user. `cur` is what read_signal returns, `com`
what is committed, `baseline` the snapshot @ compares with. A design is a choice: each
time a thread runs it may write the signal a, blocking or not, then stop at #0, #1,
@, wait, the end, or $finish. Around the threads run a clock, always_comb b = a, a
reactive twin c = a and always @(posedge clk) bodies.

A class of designs (`program`) says which of these statements it may use, the half periods
its clock may have, its time limit and its breakpoints.

- `region_loop`: two classes, any such design and a synchronous one in the debugger. In both
  a step ends with everything committed and executed (`StepComplete`); what a drain
  discards is a #0, never a later event (`OnlyZeroDelaysLost`); quiescence stops only what
  is over (`QuiescedIsOver`); the run ends, or the user leaves it paused (`Termination`);
  and a step after time 0 that is entered again after a pause changes nothing
  (`RevisitChangesNothing`). In a synchronous design (`Synchronous`: non-blocking writes,
  no #0, no @ on a combinational output) comb outputs settle (`CombSettled`) and no @ or
  wait is missed (`NoMissedEvent`, `NoMissedWait`).
- `region_loop_lost`: `NothingLost` fails in general. `drain_region` empties the whole
  slot and then filters, so a #0 pushed after the Inactive region of its delta is
  discarded by the next drain of Active.

Outside synchronous designs `NoMissedEvent` fails as well: the refreshed snapshot is read
through pending writes, so a write older than it is invisible to @. No sentence of the
repository promises otherwise, so there is no run for it.

Bounds: one or two initial blocks and one clocked body, times to 3 (to 1 for any design),
delta limit 3 (the code: 10000), ZERO_DELAY_EVENT_CAP 1 or 2 (the code: 4096). The
limits are reached in the runs, and lost or missed events need two deltas of one step.
Fairness: `FairSpec` is weak fairness of the loop's own steps; the engine is one thread that
never blocks. The user's Continue is not fair: a run may stay paused for ever.

`RegionLoopProofs` proves, for any threads and any classes of designs (statements, clocks,
breakpoints and limits), `TypeOK`, `StepComplete`, `OnlyZeroDelaysLost`, `QuiescedIsOver`
and `RevisitChangesNothing`, and `CombSettled`, `NoMissedEvent` and `NoMissedWait`, which
speak of the synchronous designs among them. The first invariant follows a delta: behind the Active region the slot of this time
holds only #0 events (`Regions`: that is why a drain can discard nothing else), a delta
without activity has left committed and current values equal (`Settled`: the flag alone
decides whether another delta follows), and a time entered again starts with nothing to
drain, commit or look at (`Rerun`). For synchronous designs `SyncInv` adds what their
restrictions buy: signals change in a commit only, so what a comb process, a
snapshot or a wait has read stays true until the next commit, whose trigger looks at all
three again (`Values`, `Compared`, `Due`, `Watched`), and nothing is pushed for the
present time, so the first delta is the only one that drains events (`FirstDelta`). `Termination` (liveness) is model-checked.

Abstractions: two-valued signals, one written signal; events drained together run in
any order (the code: push order), which over-approximates; the PLI, Observed and
Postponed regions find nothing and are left out; the last NBA wins. Left out: the
oscillation hash above 1000 deltas, AST statements of tasks and methods, wait_order,
SDF, the timing wheel as queue, parallel evaluation, co-simulation writes, step mode,
reverse execution.

Met while reading, without a run: an always_comb evaluated in a delta keeps the pending
value of a write that is reverted later in it (IEEE_1800_MATRIX.md:131); wait (a) misses
a glitch (:164); a breakpoint at time 0 followed by continue initializes time zero again
(core.rs:2187, matrix :147); a cycle breakpoint is hit again at every continue until
same_time_revisits exceeds the delta limit and the run aborts (core.rs:1661); a
co-simulation write made before the step starts is in the snapshot, so @ on it never
fires; the wheel drains one bucket in arrival order, not push order, when cascades are
involved (timing_wheel.rs:605).

## 4. Fork groups

State: `groups` are the slots of fork_groups with `remaining`, `fired`, `reclaimable`,
`disabled`, the spawner and the continuation; `fork_free` the retired slots; `stack` the
frames of the nested calls (a branch that ends runs the statements behind its join from
inside fork_finish, where a fork may start again); `ret` the Boolean the last call
returned. Actions: `Statement` (the next statement of the running thread: `Suspend`,
`Wait`, `WaitFork`, `DisableFork`, `Fork`, `End`), `Return` (the frames: `StartBranch`,
`BranchEnd`, `Joined`, `Close`, `Finished`, `ResumeWaitFork`, ...), `ResumeDelay`,
`ResumeAt`, `ResumeWait`, `StartProcess`.

- `fork_groups`: a join continues only when its condition holds and always when it
  does (`JoinSound`, `JoinCompletes`); a thread is active at most once
  (`OneActivation`); no branch counts in a slot that was given to another fork, and the
  groups of a process count its open branches (`GroupsExact`);
  wait fork ends when it may (`WaitForkSound`); a branch that disable fork has
  terminated executes nothing after its delay (`DisableSound`).
- `fork_groups_nested`: with a fork inside a branch, `JoinSound` fails: the handler
  returns Ok(true), which its caller takes for a finished branch.

Bounds: two symmetric processes of three statements, two forks of two branches in all,
so slots are reused and two groups are open at a time; two classes of designs (see
`MCForkGroups`), so that delays with wait fork and disable fork, and @ with wait, are
each explored fully. Delays and events may end in any order, which over-approximates.
The runs have no fairness: the properties say where everybody is, not that time passes.

Met while reading, without a run: after @ or wait, current_process_name is that of the
process which ran before (event.rs:236, :334), so the groups of a resumed process bear
another name; disable fork does not stop branches suspended in @ (block.rs:358 says all
children); a wait in a branch returns Ok(true) as a fork does; a fork inside begin-end
runs the statements behind the block at once and again behind the join (block.rs:64,
:942); join_any may run its continuation before later branches have started. Left out:
AST statements, empty branches, process::await.

`ForkGroupsProofs` proves, for any processes, branches, statements and classes of designs,
`TypeCorrect`, `ActivatedOnce` (`OneActivation`), `JoinsComplete` (`JoinCompletes`) and
`BranchesRemember`. One inductive invariant `IInv` carries them: the slots and their counters
(`Counts`, `Pool`, `Identified`, `Continues`, `Blocking`); the nested calls in progress,
frame by frame (`ShapeAt`, `References`, `Live`, `Owned`, `Remembered`), with the account
that `remaining` is the number of branches that have yet to end (`Account`); and one place
for each thread (`OnePlace`, `Unstarted`).

`FlatForksProofs` adds, for designs whose branches only wait for time or an event (`Flat`):

- `JoinsSound` (`JoinSound`), from `FlatInv` = `Lists`, `Calls`, `Ends`, `Kept`: what each call
  returns is what its caller takes it for. `fork_groups_nested` shows that the hypothesis
  is needed.
- `GroupsTell` (`GroupsExact`), from `NameInv`: the calls in progress belong to one process
  and the engine has its name, so that a group is entered under its own process.
- `WaitForksSound` (`WaitForkSound`), from `WaitInv`: a pending wait fork waits for active
  groups of its process, and for every unfinished branch that counts.
- `DisablesSound` (`DisableSound`), from `DoomInv`: a branch that was terminated has ended or
  is suspended in a group marked as disabled.

The last three assume more of the designs, because behind an @ the engine has the wrong
name (see above). `GroupsTell`: processes without @ and wait have no @ in their branches
either (`NamesKnown`; with @ or wait in the processes `GroupsExact` says nothing of the
name). `WaitForksSound` and `DisablesSound`: a design with wait fork, or disable fork, uses
only delays besides (`OnlyDelays`). With two processes and forks of two branches TLC
violates the properties without these hypotheses: `GroupsExact` and `DisableSound` when
branches contain @ and processes only delays, `WaitForkSound` when processes contain @.

## 5. Compile cache

State: `meta`, `obj`, `verify`, `ir`, `journal`, `lock` are the files of a project's
database (metadata.mdb, `.ast` and `.preproc` objects, verify.mdb, the pipeline cache's
IR, journal, lockfile); `sess[s]` is what a process holds (its copy of the database, its
AST cache, designs, dirty flags, the IR index read at open). Actions in the order of
run_fast: `Open` (with recovery; without a metadata.mdb, `meta = None`, it drops the
other stores and all objects), `Compile` (attach_micd, the parse of what may not be
reused, the bookkeeping of save_micd), `Save` (GC, objects written and swept, before the
lock), `Acquire` / `SeeStale` / `RemoveStale` / `SaveFails` (the lock), `RenameMetadata`
and `Finish` (the transaction), then `CompileOnly`, `RestoreIr`, `Elaborate`,
`ElaborationFails` or `Recovered` (analysis mode), a second save, `StoreIr`. Sources are
edited (`Edit`) and processes die (`Crash`) at any step.

The helpers are named for the functions they stand for: `DepsUnchanged` and `AstAt`
(get_ast) decide `Reusable`; `Recompiled` and `Cached` are what record_file and
cache_ast leave; `Evict`, `Reachable` and `Collected` are run_gc; `Written` and `Swept`
the objects; `Released`, `Marked` and `Pruned` the second half of a run.

A text stands for its hash; an AST is the text it was parsed from and the header it
included. `clean`, `calm`, `orphan` and `died` record what has happened so far and are
the preconditions of the properties:

- `compile_cache`: with the header left alone, a session always works with the ASTs a
  full parse would give (`CompileCurrent`), whatever sessions, crashes and evictions
  made of the cache; after an undisturbed save every recorded file can be reused
  (`WarmHit`); in calm use the restored IR is that of the sources (`IrCurrent`); two
  sessions commit at a time only if an owner of the lock has died (`SoleWriter`).
- `compile_cache_header`: with header edits `CompileCurrent` fails for single sessions
  without a fault. Objects are named by the source text; the metadata gets the new
  header's hash while the object that exists is kept. --recompile does not repair it.
- `compile_cache_ir`: without the precondition `IrCurrent` fails: run, edit,
  --compile-only, run restores the IR of the sources before the edit.

Bounds: two files of which one text includes the header, two texts, two sessions, three
runs, one edit, one crash or eviction. Two runs overlap while the third observes;
between them they reach the takeover of a stale lock and sweeps of another session's
objects. No fairness: all properties are safety.

Assumptions and omissions: sources are not edited between the parse of a session and
the hashes it records (`Compile` is one step); every file is written whole (the code
writes objects without fsync); a waiter judges a lock stale only if its owner is dead
(an owner slower than the stale limit would be robbed); command-line flags select
another database and are constant; names that other files declare, libfiles, snapshots,
precompiled modules and --cache-clear are left out.

`CompileCacheProofs` proves, for any files, texts, sessions, modes and bounds:

- `LockSafe`, from the invariant that, while nobody died owning the lock, nobody thinks
  it stale and every writer owns it;
- `TypeCorrect`, from `TypeInv`: past its parse a session has an AST for every file,
  which is why what `StoreIr` writes is never a released cache;
- `CacheSound`: `CompileCurrent`, if the header is not editable. The invariant
  `Faithful`: every object is what parsing its text gives, and every cached entry what
  parsing its recorded hash gives. The hypothesis is the one the run
  `compile_cache_header` shows to be needed. Stale locks and lost updates do not matter
  to it: that is the content-addressed design at work.
- `WarmRunHits`: `WarmHit`, header edits included. The invariant follows a session that
  has been alone since it opened (`Alone`, `AloneInv`: nobody else is at work, and its
  records are those of metadata.mdb or about to be written): behind its parse it has an AST
  for every file and either marks the objects dirty or finds them all there (`CachedAll`),
  behind its save every file it names has its object (`Complete`); and at any time the
  metadata is complete or a save is under way that will say whether it was clean
  (`CleanKept`).
- `IrSound`: `IrCurrent`, if the header is not editable (TLC violates it otherwise, with
  one session). The invariant `IrKept`: the IR on disk is that of the records on disk if
  nobody is at work; an open session's IR fits the records it read, and still does after
  the parse if it will be looked up; `WorkFresh`: past the parse the records of a session
  and the ASTs it works with say the same.

They use one more assumption, that "none" is no record of the database.

## 6. UVM synchronization

A blocking statement that cannot go on leaves a waiter with its label in the store
(`uvm_sync_waiters`); an operation takes waiters with certain labels out of it and
schedules a continuation for each, one time unit later. `SyncWaiters` models that:
`mode[p]` is running, blocked (in the store) or woken (scheduled), `stmt[p]` the statement
to execute again; `Suspends`, `Wakes` and `Releases` are the three ways it changes (a
released process goes on behind its statement, without looking at the condition again).
Each call of UVM code is an action: `FifoPut/Get/Peek/TryPut/TryGet/Flush`,
`MailboxPut/Get/TryPut/TryGet` (`SyncBuffers`), `Trigger`, `ResetEvent`, `OnOff`,
`WaitTrigger`, `WaitOn`, `WaitFor`, `WaitForCount`, `ResetBarrier`, `SetThreshold`,
`ConfigSet`, `WaitModified` (`SyncConditions`), `StartItem`, `FinishItem`, `GetNextItem`,
`ShowNextItem`, `ItemDone` (`SequenceItems`). `UvmSync` composes them: all objects share
the store, which is keyed by object, so a behaviour has one object; `design` tells which.

- `uvm_sync`: nobody sleeps who could go on (`NoLostWakeup`), with six exceptions that
  are what the code overlooks, each of them reachable: a mailbox resumes the waiters of
  the same side (sync.rs:365: a put wakes putters); a put asleep when flush empties the
  FIFO; wait_on after on_off; wait_for after set_threshold lowers the bar; wait_for_count,
  which a wait_for that arrives does not wake; wait_modified of a path after a set by
  wildcard. FIFO and mailbox implement `BoundedBuffer`, and over a FIFO nobody starves
  (`ImplementsBuffer`); at a barrier nobody calls wait_for_count at, wait_for lets go only
  when enough have met (`BarrierMeets`);
  finish_item returns only after item_done for that very item (`FinishSound`), and always
  returns (`HandshakeCompletes`).

`BarrierMeets` excludes the design with wait_for_count because the code does not keep the
promise there: types.rs:320-328 says that waiters are released when the count reaches the
threshold, and sync.rs:279-281 releases all of them, those of wait_for included, as soon as
the count is what a wait_for_count asks for (one process in wait_for at a barrier of three,
another calls wait_for_count(1): both go on).

Bounds: four processes, two items, sizes 0 to 2, thresholds 0 to 3, two paths: two waiters
of one operation and one of the other meet, and a woken process finds its item gone.
Fairness: a scheduled continuation is executed (`WF(Resume(p))`: it is an event of the
next time unit), and a driver keeps asking for items and doing them (`WF(Drive)`: UVM's
`forever` loop). No other process has to do anything. Waiters of one operation resume in
any order, which over-approximates.

`UvmSyncProofs` proves for any number of processes, items, sizes and thresholds: types,
`NoLostWakeup`, `BarrierMeets` (with its exclusion), `FinishSound` and the refinement of `BoundedBuffer`
(`Buffer!Spec`; the starvation half of `ImplementsBuffer` and `HandshakeCompletes` are
liveness and stay with TLC). `NoLostWakeup` is inductive with the types. `BarrierMeets`
needs that who waits in wait_for is asleep and the count does not exceed those who wait
(`Met`, `Counted`); `FinishSound` that an open item is in the queue, with the driver, or
done (`Held`).

Left out: semaphores (their get never blocks in this code), process handles (every
caller of process::self gets the same one) and the error "mailbox not initialized", with
which get, try_get or num in an expression ends a run that has put nothing yet
(sync.rs:369-387, :417-425).

## 7. Co-simulation

`Cosim` has three actors. The engine: `Exchange` (end of a time step: publish outputs and
time, take what has been stored), `EnterRun`. The server thread: the handler of one
connection, a lock region, a read or a write per action (`ReadConnect`, `SendOutputs`,
`SendSync`, `ReadAck`, `ReadUpdate`, `EndUpdates`, `ConnectionLost`, `ReadTimeout`). The
client, which is external: it answers a Sync with updates, then ends its round by any
message the handler takes for the end, or by none, or leaves, or dies. The value of a
signal is the step or the round that produced it, which is what "lost", "whole" and "in
time" are about.

- `cosim`: values that were stored reach the engine unless a round is stored over one not
  yet taken (server.rs:161 assigns, it does not append: `overrun`), a round reaches the
  engine whole and only if the client ended it, outputs are never newer than the Sync
  behind them (`ExchangeSound`); a client that waits gets a message or is let go
  (`NoMutualWait`).

The flow in server.rs:14-22 has no message that ends the updates: a client that follows
it waits for the next Sync while the server waits for another update, and is dropped after
the read timeout of 30 s. `NoMutualWait` holds because of that timeout alone (its mutant
removes it). Values shorter than 8 bytes are read as 0 (core.rs:1696); the model has no
bytes. Fairness: `WF(Serve)`, since the thread runs and its reads return at the latest by
their timeout; nothing is assumed of engine and client. Bounds: three time steps, three
rounds and two signals, so a round can be stored over another, and cut short after one of
two updates.

`CosimProofs` proves `TypeOK` and `ExchangeSound` for any inputs, steps and rounds. The
invariant follows a round through the connection: while the server is `Talking` the
updates of the round are collected or on their way (`Coming`), nothing but updates comes
before its end (`Lockstep`), and what is stored is whole and newer than what the engine
has (`Stored`).

## 8. Distributed simulation

`Distributed` has the master (`Accept`, `ReadAck`, `AllConnected`, `StartRound`,
`SendSync`, `Collect`, `Notify`, `Timeout`) and slaves (`Connect`, `ReadAssign`, `Report`,
`Close`, `LoseMaster`) that may `Crash` between any two steps. Reads of the master have no
timeout: they end with a message or with the connection; a connection that is reset may
lose what has not been read.

- `distributed`: only a slave whose connection is gone is marked as faulty
  (`FaultyIsGone`); behind the first round every partition has reported or is gone
  (`RoundsWaitForAll`); the master and the slaves that have connected come to an end
  (`EverybodyEnds`).

That the run completes is not among them, though master.rs:84 promises to "Coordinate
delta cycles" and "Collect results" and :359 takes the end of the loop for "All slaves
completed or disconnected — done". Each slave reports once and closes its connection; the
second round takes that for a fault, and master.rs:229 aborts the third, so the model
reaches no complete run of more than two rounds, even if nothing fails. A shorter one can
end in an error too: the last notice is written to slaves that have closed over a DeltaSync
they never read (master.rs:366). So there is no class of runs for which completion could be
checked, and no property claims it.

Fairness: the master runs on, and a slave that has connected simulates to its end. A slave
whose host stops without closing its connection is outside the model: the master would
wait for it for ever, having no read timeout. Bounds: three slaves for two partitions (one
too many), up to four rounds (two suffice for a slave to be taken for faulty after its
report, three for the abort).

Noted while reading: the partitioner never fills the signal and process lists of its
partitions (partitioner.rs:133-142), so each slave simulates the whole design; the
master's branches for SignalExchange and Heartbeat never run, since no slave sends these
(one of them, master.rs:326, indexes by position rather than by slave).

`DistributedProofs` proves the three safety properties for any number of slaves,
partitions and rounds by counting messages: a slave sends PartitionAck and PartitionDone,
the handshake takes the one and the first round that hears it the other (`Messages`), so
the first round hears or loses every slave (`Rounds`).

## 9. Proofs, in general

Constants have named assumptions in the modules that declare them, evaluated by every
run. Each theorem is the usual three facts (Init, step, consequence); the step lemmas go
action by action. Type invariants are split where they mix Booleans and numbers (`Flags`,
`Typed`), which no backend takes together. 

Model-checked only: all liveness (`Termination`, `NobodyStranded`, `HandshakeCompletes`,
`NoMutualWait`, `EverybodyEnds`), which rests on fairness and ENABLED. Every safety property
of a passing run is a theorem; a theorem on fork groups or on the cache may carry a
hypothesis on the designs or the sources, named in its section, and the run checks it where
that holds. Of the refinement `ImplementsBuffer` the safety half is a theorem
(`BufferRefinement`), `NobodyStranded` is not.

## 10. Not modelled, and what could follow

- Functions of their input: lexer, parser, preprocessor, elaborator, HIR and MIR passes,
  synthesis, timing, formal engine, four-state arithmetic, transpiler, waveforms and
  reports. Most of the code is of this kind. What matters in it is the result for each
  input, over data far too large for TLC, and it is covered by the repository's own tests.
  The compile cache takes parser and elaborator as functions.
- Front ends and services (GUI, language server, tools, emulator): drivers over the
  components above, without protocols of their own.
- The task scheduler (C `scheduler/`): outside its tests no task is submitted (the
  environment's runtime only waits for it at shutdown), and the compile session adds nodes
  and edges to the dependency graph from one thread. What a model would show no caller
  reaches today: a task that panics keeps `pending` above zero, so the other workers spin
  (the loop of work_stealing.rs:129), and `complete` and `initial_ready` take the same
  locks in opposite orders (dag.rs:74, dag.rs:100).
- Reverse execution of the debugger: it restores signals and time but neither slots nor
  suspended threads (debugger/mod.rs:288). It would extend `RegionLoop` by a history.
- Parallel and DAG evaluation (core.rs:1221): it evaluates in another order than the
  queue; the model would have to say which processes are independent.
- Within modelled components: see the notes of each in `PROJECT.json`, and the omissions
  named in the sections above.
