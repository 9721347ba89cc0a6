--------------------------- MODULE RegionLoopProofs ---------------------------
(***************************************************************************)
(* The stratified event loop, for any threads, any statements they may run,   *)
(* any clock, breakpoints and limits.  The argument follows a delta: what a   *)
(* drain finds is decided by the region it comes after, and a delta without    *)
(* activity leaves the committed values and the slot as they are.             *)
(***************************************************************************)
EXTENDS RegionLoop, TLAPS

Delta == {"Active", "RunActive", "Inactive", "RunInactive", "Nba", "Commit", "Trigger", "Limit", "Waits", "Events"}
Stopped == {"Done", "Quiesced", "Aborted"}

\* TypeOK in two: no prover takes Booleans and arithmetic in one step.
Flags == activity \in BOOLEAN /\ running \in BOOLEAN /\ buffered \in BOOLEAN
Typed ==
  /\ program \in Designs /\ period \in program.periods /\ breaks \in {program.breaks, {}}
  /\ pc \in Programs /\ time \in 0..MaxTime + 1 /\ delta \in 0..DeltaLimit + 1
  /\ last \in 0..MaxTime /\ revisits \in 0..DeltaLimit + 1
  /\ events \subseteq EventRecord /\ lost \subseteq EventRecord
  /\ batch \subseteq Process /\ nba \in {0, 1, NoNba}
  /\ {cur, com, baseline} \subseteq [Signal -> {0, 1}] /\ changed \subseteq Signal
  /\ armed \in [Threads -> Signal \cup {Unarmed}] /\ waiting \subseteq Threads
  /\ zeros \in 0..ZeroCap /\ owed \subseteq Threads

\* The time of the loop.
Clock ==
  /\ pc \notin {"Top", "Done", "Quiesced"} => time <= MaxTime
  /\ pc \in Delta \cup {"End", "Paused"} => last = time
  /\ pc # "Aborted" => revisits <= DeltaLimit

\* Behind the Active region the slot holds only #0 events.
OnlyZeros == \A e \in Slot(time) : e.region = "Inactive"
Regions == pc \in (Delta \ {"Active"}) \cup {"End", "Paused"} => OnlyZeros

\* Nothing of the time step is left over.
Calm == nba = NoNba /\ cur = com /\ Slot(time) = {} /\ batch = {}

\* A delta without activity has changed nothing.
Settled ==
  /\ pc \in {"Trigger", "Limit", "Waits", "Events"} /\ ~activity => cur = com /\ ~buffered /\ (pc = "Trigger" => batch = {})
  /\ pc # "Trigger" => ~buffered
  /\ pc \in {"End", "Paused"} => Calm

\* The process bodies and pending entries to look at are those of threads.
Body == pc \in {"Trigger", "Waits", "Events"} => batch \subseteq Threads

\* A time that is entered again after a pause.
Entered == time > 0 /\ time = last
Again == time > 0 /\ revisits > 0
Rerun ==
  /\ pc = "Top" /\ Entered => Calm
  /\ pc \in Delta /\ Again => Calm /\ ~activity /\ changed = {}

IInv == Flags /\ Typed /\ Clock /\ Regions /\ Settled /\ Body /\ Rerun /\ OnlyZeroDelaysLost /\ QuiescedIsOver
-----------------------------------------------------------------------------
LEMMA DesignFacts ==
  ASSUME program \in Designs
  PROVE  /\ \A w \in Writes : w[1] \in {"=", "<="} => w[2] \in {0, 1}
         /\ \A s \in Suspends : (s[1] = "delay" => s[2] \in Nat) /\ (s[1] = "at" => s[2] \in Signal)
         /\ program.periods \subseteq Nat /\ program.limit \in 0..MaxTime
  BY LoopAssumption DEF Writes, Suspends

LEMMA TypeFacts ==
  ASSUME Typed
  PROVE  /\ time \in Nat /\ last \in Nat /\ revisits \in Nat /\ delta \in Nat /\ period \in Nat
         /\ MaxTime \in Nat /\ DeltaLimit \in Nat /\ ZeroCap \in Nat
         /\ cur \in [Signal -> {0, 1}] /\ com \in [Signal -> {0, 1}] /\ baseline \in [Signal -> {0, 1}]
         /\ \A e \in events : e \in EventRecord
  BY LoopAssumption, DesignFacts DEF Typed

LEMMA EventFacts ==
  ASSUME Typed, NEW p \in Process, NEW d \in Nat
  PROVE  /\ Event(p, d) \in EventRecord /\ Event(p, d).t >= time
         /\ Event(p, d).t = time => Event(p, d).region = "Inactive"
  BY TypeFacts DEF Event, EventRecord

LEMMA TimeZeroTyped == ASSUME NEW e \in TimeZeroEvents PROVE e \in EventRecord
  BY DEF TimeZeroEvents, EventRecord, Process, Threads

LEMMA InitIInv == Init => IInv
<1> SUFFICES ASSUME Init PROVE IInv
  OBVIOUS
<1>1. cur \in [Signal -> {0, 1}] /\ com = cur /\ baseline = cur
  BY DEF Init
<1>2. time \in 0..MaxTime + 1 /\ delta \in 0..DeltaLimit + 1 /\ last \in 0..MaxTime /\ revisits \in 0..DeltaLimit + 1
      /\ zeros \in 0..ZeroCap
  BY LoopAssumption DEF Init
<1>3. events \subseteq EventRecord
  BY TimeZeroTyped DEF Init
<1>4. Typed
  BY <1>1, <1>2, <1>3 DEF Init, Typed, Programs
<1>5. Clock
  BY LoopAssumption DEF Init, Clock, Delta
<1>6. Flags /\ OnlyZeroDelaysLost /\ QuiescedIsOver
  BY DEF Init, Flags, OnlyZeroDelaysLost, QuiescedIsOver
<1>7. Regions /\ Settled /\ Body
  BY DEF Init, Regions, Settled, Body, Delta
<1>8. Rerun
  <2>1. ~Entered
    BY DEF Init, Entered
  <2> QED BY <2>1 DEF Init, Rerun, Delta
<1> QED BY <1>4, <1>5, <1>6, <1>7, <1>8 DEF IInv
-----------------------------------------------------------------------------
(* Running a thread.                                                         *)

\* Nothing but events of later times and #0 events has been added.
Grown ==
  /\ events' \subseteq EventRecord
  /\ \A e \in events' : e \in events \/ (e.t >= time /\ (e.t = time => e.region = "Inactive"))

LEMMA GrownKeeps ==
  ASSUME Typed, Grown, OnlyZeros, time' = time PROVE OnlyZeros'
  BY DEF Grown, OnlyZeros, Slot

LEMMA SuspendedFacts ==
  ASSUME Typed, NEW p \in Threads, NEW s \in Suspends, Suspended(p, s)
  PROVE  Grown /\ armed' \in [Threads -> Signal \cup {Unarmed}] /\ waiting' \subseteq Threads
<1>1. p \in Process
  BY DEF Process
<1>2. Grown
  <2>1. CASE s[1] = "delay"
    <3>1. s[2] \in Nat /\ events' = events \cup {Event(p, s[2])}
      BY <2>1, DesignFacts DEF Suspended, Typed
    <3> QED BY <1>1, <3>1, EventFacts, TypeFacts DEF Grown
  <2>2. CASE s[1] # "delay"
    BY <2>2, TypeFacts DEF Suspended, Grown
  <2> QED BY <2>1, <2>2
<1>3. armed' \in [Threads -> Signal \cup {Unarmed}]
  BY DesignFacts DEF Suspended, Typed
<1>4. waiting' \subseteq Threads
  BY DEF Suspended, Typed
<1> QED BY <1>2, <1>3, <1>4

LEMMA WriteFacts ==
  ASSUME Typed, NEW w \in Writes, cur' = Assigned(w), nba' = Queued(w)
  PROVE  cur' \in [Signal -> {0, 1}] /\ nba' \in {0, 1, NoNba}
<1>1. w[1] \in {"=", "<="} => w[2] \in {0, 1}
  BY DesignFacts DEF Typed
<1>2. cur \in [Signal -> {0, 1}] /\ nba \in {0, 1, NoNba}
  BY TypeFacts DEF Typed
<1> QED BY <1>1, <1>2 DEF Assigned, Queued

LEMMA ExecuteFacts ==
  ASSUME Typed, Flags, NEW p \in Threads, NEW next, Execute(p, next)
  PROVE  /\ cur' \in [Signal -> {0, 1}] /\ nba' \in {0, 1, NoNba} /\ Grown
         /\ armed' \in [Threads -> Signal \cup {Unarmed}] /\ waiting' \subseteq Threads
         /\ zeros' \in 0..ZeroCap /\ pc' \in {next, "Aborted"} /\ running' \in BOOLEAN
<1>1. PICK w \in Writes, s \in Stops(p) :
        /\ cur' = Assigned(w) /\ nba' = Queued(w)
        /\ IF s = <<"delay", 0>> /\ zeros = ZeroCap
           THEN pc' = "Aborted" /\ UNCHANGED <<events, waits, running, zeros>>
           ELSE /\ pc' = next
                /\ Suspended(p, s)
                /\ zeros' = IF s = <<"delay", 0>> THEN zeros + 1 ELSE zeros
  BY DEF Execute
<1>2. s \in Suspends
  BY DEF Stops
<1>3. cur' \in [Signal -> {0, 1}] /\ nba' \in {0, 1, NoNba}
  BY <1>1, WriteFacts
<1>4. CASE s = <<"delay", 0>> /\ zeros = ZeroCap
  <2>1. pc' = "Aborted" /\ events' = events /\ armed' = armed /\ waiting' = waiting /\ running' = running /\ zeros' = zeros
    BY <1>1, <1>4 DEF waits
  <2>2. Grown
    BY <2>1, TypeFacts DEF Grown
  <2>3. running' \in BOOLEAN
    BY <2>1 DEF Flags
  <2> QED BY <1>3, <2>1, <2>2, <2>3 DEF Typed
<1>5. CASE ~(s = <<"delay", 0>> /\ zeros = ZeroCap)
  <2>1. pc' = next /\ Suspended(p, s) /\ zeros' = IF s = <<"delay", 0>> THEN zeros + 1 ELSE zeros
    BY <1>1, <1>5
  <2>2. zeros' \in 0..ZeroCap
    BY <1>5, <2>1, LoopAssumption DEF Typed
  <2>3. running' \in BOOLEAN
    BY <2>1 DEF Suspended
  <2> QED BY <1>2, <1>3, <2>1, <2>2, <2>3, SuspendedFacts
<1> QED BY <1>4, <1>5

\* What a step within a delta leaves alone.
LEMMA InDelta ==
  ASSUME Clock, pc \in Delta, pc' \in Delta \cup {"End", "Aborted"}, UNCHANGED <<time, last, revisits>>
  PROVE  /\ Clock' /\ QuiescedIsOver' /\ (Again' <=> Again)
         /\ pc' # "Top" /\ pc # "End" /\ pc # "Paused" /\ pc' # "Paused"
<1>1. Clock'
  BY DEF Clock, Delta
<1>2. Again' <=> Again
  BY DEF Again
<1>3. QuiescedIsOver'
  BY DEF QuiescedIsOver, Delta
<1> QED BY <1>1, <1>2, <1>3 DEF Delta
-----------------------------------------------------------------------------
(* The regions.                                                              *)

LEMMA DrainFacts ==
  ASSUME IInv, NEW region \in {"Active", "Inactive", "Nba"}, NEW run, NEW next, Drain(region, run, next),
         region = "Active" \/ OnlyZeros, UNCHANGED time
  PROVE  /\ events' \subseteq EventRecord /\ events' \subseteq events /\ Slot(time)' = {}
         /\ lost' \subseteq EventRecord /\ OnlyZeroDelaysLost' /\ batch' \subseteq Process
         /\ activity' \in BOOLEAN /\ pc' \in {run, next}
         /\ Slot(time) = {} => batch' = {} /\ pc' = next /\ activity' = activity
         /\ OnlyZeros'
<1> DEFINE ready == {e \in Slot(time) : e.region = region}
<1>1. /\ batch' = Procs(ready) /\ events' = events \ Slot(time) /\ lost' = lost \cup (Slot(time) \ ready)
      /\ activity' = (activity \/ ready # {}) /\ pc' = IF ready = {} THEN next ELSE run
  BY DEF Drain
<1>2. Slot(time) \subseteq events /\ ready \subseteq Slot(time) /\ events \subseteq EventRecord /\ lost \subseteq EventRecord
  BY DEF Slot, IInv, Typed
<1>3. Slot(time)' = {}
  BY <1>1 DEF Slot
<1>4. \A e \in Slot(time) \ ready : e.region = "Inactive"
  <2> SUFFICES ASSUME NEW e \in Slot(time) \ ready PROVE e.region = "Inactive"
    OBVIOUS
  <2>1. e.region \in {"Active", "Inactive"} /\ e.region # region
    BY <1>2 DEF EventRecord
  <2> QED BY <2>1 DEF OnlyZeros
<1>5. OnlyZeroDelaysLost'
  BY <1>1, <1>4 DEF IInv, OnlyZeroDelaysLost
<1>6. batch' \subseteq Process
  BY <1>1, <1>2 DEF Procs, EventRecord
<1>7. Slot(time) = {} => batch' = {} /\ pc' = next /\ activity' = activity
  <2>1. Slot(time) = {} => ready = {}
    BY <1>2
  <2> HIDE DEF ready
  <2>2. ready = {} => batch' = {}
    BY <1>1 DEF Procs
  <2>3. activity \in BOOLEAN
    BY DEF IInv, Flags
  <2> QED BY <1>1, <2>1, <2>2, <2>3
<1>8. activity' \in BOOLEAN
  BY <1>1
<1> QED BY <1>1, <1>2, <1>3, <1>5, <1>6, <1>7, <1>8 DEF OnlyZeros

\* A drain of Active or Inactive.
LEMMA DrainKeeps == ASSUME IInv, DrainActive \/ DrainInactive PROVE IInv'
<1>1. /\ UNCHANGED <<program, period, breaks, time, last, revisits, delta, running, nba, cur, com, changed, baseline>>
      /\ UNCHANGED <<buffered, armed, waiting, zeros, owed>>
  BY DEF DrainActive, DrainInactive, DrainUnchanged, design, signals, waits
<1>2. PICK next \in {"Inactive", "Nba"}, run \in {"RunActive", "RunInactive"}, region \in {"Active", "Inactive"} :
        Drain(region, run, next) /\ pc = region
  BY DEF DrainActive, DrainInactive
<1>3. region = "Active" \/ OnlyZeros
  BY <1>2 DEF IInv, Regions, Delta
<1>4. /\ events' \subseteq EventRecord /\ events' \subseteq events /\ Slot(time)' = {}
      /\ lost' \subseteq EventRecord /\ OnlyZeroDelaysLost' /\ batch' \subseteq Process
      /\ activity' \in BOOLEAN /\ pc' \in {run, next}
      /\ Slot(time) = {} => batch' = {} /\ pc' = next /\ activity' = activity
      /\ OnlyZeros'
  BY <1>1, <1>2, <1>3, DrainFacts
<1>5. Flags'
  BY <1>1, <1>4 DEF IInv, Flags
<1>6. Typed'
  BY <1>1, <1>4 DEF IInv, Typed, Programs
<1>7. pc \in Delta /\ pc' \in Delta \ {"Trigger", "Limit", "Waits", "Events"}
  BY <1>2, <1>4 DEF Delta
<1>8. Clock' /\ QuiescedIsOver' /\ (Again' <=> Again) /\ pc' # "Top" /\ pc' # "End" /\ pc' # "Paused"
  BY <1>1, <1>7, InDelta DEF IInv, Delta
<1>9. Regions'
  BY <1>4 DEF Regions
<1>10. Settled' /\ Body'
  BY <1>1, <1>2, <1>7, <1>8 DEF IInv, Settled, Body
<1>11. Rerun'
  BY <1>1, <1>4, <1>7, <1>8 DEF IInv, Rerun, Calm
<1> QED BY <1>4, <1>5, <1>6, <1>8, <1>9, <1>10, <1>11 DEF IInv

LEMMA CommitNbaKeeps == ASSUME IInv, CommitNba PROVE IInv'
<1>1. /\ pc = "Nba" /\ Drain("Nba", "Nba", "Commit") /\ nba' = NoNba
      /\ cur' = IF nba = NoNba THEN cur ELSE [cur EXCEPT !["a"] = nba]
      /\ UNCHANGED <<program, period, breaks, time, last, revisits, delta, running, com, changed, baseline>>
      /\ UNCHANGED <<buffered, armed, waiting, zeros, owed>>
  BY DEF CommitNba, design, waits
<1>2. OnlyZeros
  BY <1>1 DEF IInv, Regions, Delta
<1>3. /\ events' \subseteq EventRecord /\ events' \subseteq events /\ Slot(time)' = {}
      /\ lost' \subseteq EventRecord /\ OnlyZeroDelaysLost' /\ batch' \subseteq Process
      /\ activity' \in BOOLEAN /\ pc' \in {"Nba", "Commit"}
      /\ Slot(time) = {} => batch' = {} /\ pc' = "Commit" /\ activity' = activity
      /\ OnlyZeros'
  BY <1>1, <1>2, DrainFacts
<1>4. cur' \in [Signal -> {0, 1}]
  BY <1>1 DEF IInv, Typed
<1>5. Flags'
  BY <1>1, <1>3 DEF IInv, Flags
<1>6. Typed'
  BY <1>1, <1>3, <1>4 DEF IInv, Typed, Programs
<1>7. pc \in Delta /\ pc' \in Delta \ {"Trigger", "Limit", "Waits", "Events"}
  BY <1>1, <1>3 DEF Delta
<1>8. Clock' /\ QuiescedIsOver' /\ (Again' <=> Again) /\ pc' # "Top" /\ pc' # "End" /\ pc' # "Paused"
  BY <1>1, <1>7, InDelta DEF IInv, Delta
<1>9. Regions'
  BY <1>3 DEF Regions
<1>10. Settled' /\ Body'
  BY <1>1, <1>7, <1>8 DEF IInv, Settled, Body
<1>11. Rerun'
  BY <1>1, <1>3, <1>7, <1>8 DEF IInv, Rerun, Calm
<1> QED BY <1>3, <1>5, <1>6, <1>8, <1>9, <1>10, <1>11 DEF IInv

LEMMA ProcessEventFacts ==
  ASSUME Typed, Flags, NEW p \in Process, NEW next, ProcessEvent(p, next)
  PROVE  /\ cur' \in [Signal -> {0, 1}] /\ nba' \in {0, 1, NoNba} /\ Grown
         /\ armed' \in [Threads -> Signal \cup {Unarmed}] /\ waiting' \subseteq Threads
         /\ zeros' \in 0..ZeroCap /\ owed' \subseteq Threads /\ pc' \in {next, "Aborted"}
         /\ running' \in BOOLEAN
<1>1. CASE p \in Threads
  BY <1>1, ExecuteFacts DEF ProcessEvent, Typed
<1>2. CASE p \notin Threads
  <2>1. /\ cur' = Evaluated(p) /\ pc' = next /\ UNCHANGED <<nba, armed, waiting, running, zeros, owed>>
        /\ events' = IF p = "clk" THEN events \cup {Event(p, period)} ELSE events
    BY <1>2 DEF ProcessEvent, waits
  <2>2. Grown
    BY <2>1, EventFacts, TypeFacts DEF Grown
  <2>3. p \in {"clk", "b", "c"}
    BY <1>2 DEF Process
  <2>4. cur' \in [Signal -> {0, 1}]
    BY <2>1, <2>3, TypeFacts DEF Evaluated, Signal
  <2>5. running' \in BOOLEAN
    BY <2>1 DEF Flags
  <2> QED BY <2>1, <2>2, <2>4, <2>5 DEF Typed
<1> QED BY <1>1, <1>2

LEMMA RunDrainedKeeps == ASSUME IInv, RunDrained PROVE IInv'
<1>1. PICK p \in batch :
        batch' = batch \ {p} /\ ProcessEvent(p, IF batch = {p} THEN "Inactive" ELSE pc)
  BY DEF RunDrained
<1>2. /\ pc \in {"RunActive", "RunInactive"}
      /\ UNCHANGED <<program, period, breaks, time, last, revisits, delta, activity, com, changed, buffered, baseline, lost>>
  BY DEF RunDrained, design
<1>3. /\ cur' \in [Signal -> {0, 1}] /\ nba' \in {0, 1, NoNba} /\ Grown
      /\ armed' \in [Threads -> Signal \cup {Unarmed}] /\ waiting' \subseteq Threads
      /\ zeros' \in 0..ZeroCap /\ owed' \subseteq Threads /\ running' \in BOOLEAN
      /\ pc' \in {"Inactive", "RunActive", "RunInactive", "Aborted"}
  <2>1. p \in Process
    BY DEF IInv, Typed
  <2>2. pc' \in {IF batch = {p} THEN "Inactive" ELSE pc, "Aborted"}
    BY <1>1, <2>1, ProcessEventFacts DEF IInv
  <2> QED BY <1>1, <1>2, <2>1, <2>2, ProcessEventFacts DEF IInv
<1>4. Flags'
  BY <1>2, <1>3 DEF IInv, Flags
<1>5. Typed'
  BY <1>1, <1>2, <1>3 DEF IInv, Typed, Programs, Grown
<1>6. Clock' /\ QuiescedIsOver' /\ (Again' <=> Again) /\ pc' # "Top" /\ pc' # "End" /\ pc' # "Paused"
  BY <1>2, <1>3, InDelta DEF IInv, Delta
<1>7. OnlyZeros /\ OnlyZeroDelaysLost' /\ ~Again
  BY <1>2 DEF IInv, Regions, Delta, OnlyZeroDelaysLost, Rerun, Calm
<1>8. Regions'
  BY <1>2, <1>3, <1>7, GrownKeeps DEF IInv, Regions
<1>9. Settled' /\ Body' /\ Rerun'
  BY <1>2, <1>3, <1>6, <1>7 DEF IInv, Settled, Body, Rerun
<1> QED BY <1>4, <1>5, <1>6, <1>7, <1>8, <1>9 DEF IInv

LEMMA CommitKeeps == ASSUME IInv, Commit PROVE IInv'
<1> DEFINE C == {s \in Signal : cur[s] # com[s]}
<1>1. /\ pc = "Commit" /\ pc' = "Trigger"
      /\ changed' = C /\ com' = cur /\ cur' = Comb(C)
      /\ buffered' = (buffered \/ "a" \in C) /\ activity' = (activity \/ C # {})
      /\ batch' = IF "clk" \in C /\ cur["clk"] = 1 THEN Edges ELSE {}
      /\ owed' = owed \cup Owed(C, cur)
      /\ UNCHANGED <<program, period, breaks, time, last, revisits, delta, running, events, nba, baseline>>
      /\ UNCHANGED <<armed, waiting, zeros, lost>>
  BY DEF Commit, design, waits
<1>2. C \subseteq Signal /\ cur \in [Signal -> {0, 1}] /\ com \in [Signal -> {0, 1}]
  BY TypeFacts DEF IInv
<1>3. Comb(C) \in [Signal -> {0, 1}]
  BY <1>2 DEF Comb, Signal
<1>4. batch' \subseteq Process /\ Owed(C, cur) \subseteq Threads
  BY <1>1 DEF Process, Threads, Owed
<1>5. C = {} => cur = com
  <2> SUFFICES ASSUME C = {} PROVE cur = com
    OBVIOUS
  <2>1. \A s \in Signal : cur[s] = com[s]
    OBVIOUS
  <2> QED BY <1>2, <2>1
<1>6. cur = com => C = {}
  OBVIOUS
<1> HIDE DEF C
<1>7. C = {} => cur' = cur /\ batch' = {} /\ activity' = activity /\ buffered' = buffered
  BY <1>1 DEF Comb, IInv, Flags
<1>8. Flags'
  BY <1>1 DEF IInv, Flags
<1>9. Typed'
  BY <1>1, <1>2, <1>3, <1>4 DEF IInv, Typed, Programs
<1>10. Clock' /\ QuiescedIsOver' /\ (Again' <=> Again) /\ pc' # "Top" /\ pc' # "End" /\ pc' # "Paused"
  BY <1>1, InDelta DEF IInv, Delta
<1>11. Regions'
  BY <1>1 DEF IInv, Regions, Delta, OnlyZeros, Slot
<1>12. Settled' /\ Body'
  BY <1>1, <1>5, <1>7, <1>10 DEF IInv, Settled, Body, Threads
<1>13. Rerun'
  <2>1. Again => Calm /\ ~activity
    BY <1>1 DEF IInv, Rerun, Delta
  <2>2. Again => C = {}
    BY <1>6, <2>1 DEF Calm
  <2> QED BY <1>1, <1>7, <1>10, <2>1, <2>2 DEF Rerun, Calm, Slot
<1> QED BY <1>1, <1>8, <1>9, <1>10, <1>11, <1>12, <1>13 DEF IInv, OnlyZeroDelaysLost

LEMMA TriggerKeeps == ASSUME IInv, Trigger PROVE IInv'
<1>1. PICK p \in batch : ExecuteBody(p) /\ batch' = batch \ {p} /\ owed' = owed \ {p}
  BY DEF Trigger
<1>2. /\ pc = "Trigger" /\ pc' = "Trigger"
      /\ UNCHANGED <<program, period, breaks, time, last, revisits, delta, activity, com, changed, buffered, baseline>>
      /\ UNCHANGED <<zeros, lost>>
  BY DEF Trigger, design
<1>3. PICK w \in Writes, s \in Suspends : cur' = Assigned(w) /\ nba' = Queued(w) /\ Suspended(p, s)
  BY <1>1 DEF ExecuteBody
<1>4. cur' \in [Signal -> {0, 1}] /\ nba' \in {0, 1, NoNba} /\ running' \in BOOLEAN
  BY <1>3, WriteFacts DEF IInv, Suspended
<1>5. activity /\ ~Again
  <2>1. activity
    BY <1>1, <1>2 DEF IInv, Settled, Flags
  <2> QED BY <1>2, <2>1 DEF IInv, Rerun, Delta
\* Only the edge-triggered processes are in batch here.
<1>6. p \in Threads => Grown /\ armed' \in [Threads -> Signal \cup {Unarmed}] /\ waiting' \subseteq Threads
  BY <1>3, SuspendedFacts DEF IInv
<1>7. p \in Threads
  BY <1>1, <1>2 DEF IInv, Body
<1>8. Flags'
  BY <1>2, <1>4 DEF IInv, Flags
<1>9. Typed'
  BY <1>1, <1>2, <1>4, <1>6, <1>7 DEF IInv, Typed, Programs, Grown
<1>10. Clock' /\ QuiescedIsOver' /\ (Again' <=> Again) /\ pc' # "Top" /\ pc' # "End" /\ pc' # "Paused"
  BY <1>2, InDelta DEF IInv, Delta
<1>11. Regions'
  <2>1. OnlyZeros
    BY <1>2 DEF IInv, Regions, Delta
  <2>2. OnlyZeros'
    BY <1>2, <1>6, <1>7, <2>1, GrownKeeps DEF IInv
  <2> QED BY <2>2 DEF Regions
<1>12. Settled' /\ Rerun'
  BY <1>2, <1>5, <1>10 DEF Settled, Rerun
<1>13. Body' /\ OnlyZeroDelaysLost'
  BY <1>1, <1>2 DEF IInv, Body, OnlyZeroDelaysLost
<1> QED BY <1>8, <1>9, <1>10, <1>11, <1>12, <1>13 DEF IInv

LEMMA RunReactiveKeeps == ASSUME IInv, RunReactive PROVE IInv'
<1>1. /\ pc = "Trigger" /\ batch = {} /\ pc' = "Limit" /\ buffered' = FALSE /\ activity' = (activity \/ buffered)
      /\ cur' = IF buffered THEN [cur EXCEPT !["c"] = cur["a"]] ELSE cur
      /\ events' = events \ Slot(time) /\ lost' \subseteq lost \cup Slot(time)
      /\ UNCHANGED <<program, period, breaks, time, last, revisits, delta, running, batch, nba, com, changed, baseline>>
      /\ UNCHANGED <<armed, waiting, zeros, owed>>
  BY DEF RunReactive, design, waits
<1>2. OnlyZeros
  BY <1>1 DEF IInv, Regions, Delta
<1>3. Slot(time) \subseteq EventRecord
  BY DEF Slot, IInv, Typed
<1>4. OnlyZeroDelaysLost'
  BY <1>1, <1>2 DEF IInv, OnlyZeroDelaysLost, OnlyZeros
<1>5. cur' \in [Signal -> {0, 1}]
  BY <1>1, TypeFacts DEF IInv, Signal
<1>6. Flags'
  BY <1>1 DEF IInv, Flags
<1>7. Typed'
  BY <1>1, <1>3, <1>5 DEF IInv, Typed, Programs
<1>8. Clock' /\ QuiescedIsOver' /\ (Again' <=> Again) /\ pc' # "Top" /\ pc' # "End" /\ pc' # "Paused"
  BY <1>1, InDelta DEF IInv, Delta
<1>9. Slot(time)' = {}
  BY <1>1 DEF Slot
<1>10. Regions'
  BY <1>9 DEF Regions, OnlyZeros
<1>11. ~activity' => cur' = com' /\ ~buffered /\ ~activity
  BY <1>1 DEF IInv, Settled
<1>12. Settled' /\ Body'
  BY <1>1, <1>8, <1>11 DEF Settled, Body
<1>13. Rerun'
  <2>1. Again => Calm /\ ~activity /\ changed = {} /\ ~buffered
    BY <1>1 DEF IInv, Rerun, Settled, Delta
  <2> QED BY <1>1, <1>8, <1>9, <2>1 DEF Rerun, Calm
<1> QED BY <1>4, <1>6, <1>7, <1>8, <1>10, <1>12, <1>13 DEF IInv
-----------------------------------------------------------------------------
(* Behind the regions.                                                       *)

LEMMA CheckLimitKeeps == ASSUME IInv, CheckLimit PROVE IInv'
<1>1. /\ pc = "Limit" /\ pc' \in {"Aborted", "Waits"}
      /\ pc' = "Aborted" => batch' = batch
      /\ pc' = "Waits" => batch' = DueWaits
      /\ UNCHANGED <<program, period, breaks, time, last, revisits, activity, running, events, nba, cur, com, changed>>
      /\ UNCHANGED <<baseline, buffered, armed, waiting, zeros, lost, owed>>
  BY DEF CheckLimit, history, design, signals, waits
<1>2. delta' \in 0..DeltaLimit + 1
  BY LoopAssumption DEF CheckLimit, IInv, Typed
<1>3. DueWaits \subseteq Threads /\ (changed = {} => DueWaits = {})
  BY DEF DueWaits, IInv, Typed
<1>4. Flags'
  BY <1>1 DEF IInv, Flags
<1>5. Typed'
  BY <1>1, <1>2, <1>3 DEF IInv, Typed, Programs, Process
<1>6. Clock' /\ QuiescedIsOver' /\ (Again' <=> Again) /\ pc' # "Top" /\ pc' # "End" /\ pc' # "Paused"
  BY <1>1, InDelta DEF IInv, Delta
<1>7. Regions'
  BY <1>1 DEF IInv, Regions, Delta, OnlyZeros, Slot
<1>8. Settled' /\ Body'
  BY <1>1, <1>3, <1>6 DEF IInv, Settled, Body
<1>9. Rerun'
  BY <1>1, <1>3, <1>6 DEF IInv, Rerun, Calm, Slot, Delta
<1> QED BY <1>1, <1>4, <1>5, <1>6, <1>7, <1>8, <1>9 DEF IInv, OnlyZeroDelaysLost

\* One pending entry is looked at, and its thread may run.
LEMMA ResumeKeeps == ASSUME IInv, ResumeWait \/ ResumeEvent PROVE IInv'
<1>1. PICK p \in batch :
        /\ batch' = batch \ {p}
        /\ \/ Execute(p, pc) /\ activity' = TRUE /\ owed' = owed \ {p}
           \/ /\ activity' \in {activity, TRUE}
              /\ UNCHANGED <<pc, cur, nba, events, waits, running, zeros, owed>>
  BY DEF ResumeWait, ResumeEvent
<1>2. /\ pc \in {"Waits", "Events"}
      /\ UNCHANGED <<program, period, breaks, time, last, revisits, delta, com, changed, buffered, baseline, lost>>
  BY DEF ResumeWait, ResumeEvent, design
<1>3. p \in Threads /\ ~Again
  BY <1>2 DEF IInv, Body, Rerun, Calm, Delta
<1>4. /\ cur' \in [Signal -> {0, 1}] /\ nba' \in {0, 1, NoNba} /\ Grown
      /\ armed' \in [Threads -> Signal \cup {Unarmed}] /\ waiting' \subseteq Threads
      /\ zeros' \in 0..ZeroCap /\ owed' \subseteq Threads
      /\ pc' \in {pc, "Aborted"}
  <2>1. CASE Execute(p, pc) /\ owed' = owed \ {p}
    BY <1>3, <2>1, ExecuteFacts DEF IInv, Typed
  <2>2. CASE UNCHANGED <<pc, cur, nba, events, waits, running, zeros, owed>>
    <3>1. UNCHANGED <<pc, cur, nba, events, armed, waiting, zeros, owed>>
      BY <2>2 DEF waits
    <3>2. Grown
      BY <3>1, TypeFacts DEF IInv, Grown
    <3> QED BY <3>1, <3>2 DEF IInv, Typed
  <2> QED BY <1>1, <2>1, <2>2
<1>5. running' \in BOOLEAN /\ activity' \in BOOLEAN
  <2>1. CASE Execute(p, pc)
    BY <1>1, <1>3, <2>1, ExecuteFacts DEF IInv, Flags
  <2>2. CASE UNCHANGED <<pc, cur, nba, events, waits, running, zeros, owed>>
    BY <1>1, <2>2 DEF IInv, Flags
  <2> QED BY <1>1, <2>1, <2>2
<1>6. ~activity' => ~activity /\ cur' = cur
  <2>1. activity \in BOOLEAN
    BY DEF IInv, Flags
  <2> QED BY <1>1, <2>1
<1>7. Flags'
  BY <1>2, <1>5 DEF IInv, Flags
<1>8. Typed'
  BY <1>1, <1>2, <1>4 DEF IInv, Typed, Programs, Grown
<1>9. Clock' /\ QuiescedIsOver' /\ (Again' <=> Again) /\ pc' # "Top" /\ pc' # "End" /\ pc' # "Paused"
  BY <1>2, <1>4, InDelta DEF IInv, Delta
<1>10. Regions'
  <2>1. OnlyZeros
    BY <1>2 DEF IInv, Regions, Delta
  <2>2. OnlyZeros'
    BY <1>2, <1>4, <2>1, GrownKeeps DEF IInv
  <2> QED BY <2>2 DEF Regions
<1>11. Settled'
  BY <1>2, <1>4, <1>6, <1>9 DEF IInv, Settled
<1>12. Body' /\ Rerun' /\ OnlyZeroDelaysLost'
  BY <1>1, <1>2, <1>3, <1>4, <1>9 DEF IInv, Body, Rerun, OnlyZeroDelaysLost
<1> QED BY <1>7, <1>8, <1>9, <1>10, <1>11, <1>12 DEF IInv

LEMMA WaitsDoneKeeps == ASSUME IInv, WaitsDone PROVE IInv'
<1>1. /\ pc = "Waits" /\ batch = {} /\ pc' = "Events" /\ batch' \subseteq Threads /\ (changed = {} => batch' = {})
      /\ UNCHANGED <<program, period, breaks, time, delta, last, revisits, activity, running, events, nba, cur, com, changed>>
      /\ UNCHANGED <<baseline, buffered, armed, waiting, zeros, lost, owed>>
  BY DEF WaitsDone, history, design, signals, waits
<1>2. Flags'
  BY <1>1 DEF IInv, Flags
<1>3. Typed'
  BY <1>1 DEF IInv, Typed, Programs, Process
<1>4. Clock' /\ QuiescedIsOver' /\ (Again' <=> Again) /\ pc' # "Top" /\ pc' # "End" /\ pc' # "Paused"
  BY <1>1, InDelta DEF IInv, Delta
<1>5. Regions'
  BY <1>1 DEF IInv, Regions, Delta, OnlyZeros, Slot
<1>6. Settled' /\ Body'
  BY <1>1, <1>4 DEF IInv, Settled, Body
<1>7. Rerun'
  BY <1>1, <1>4 DEF IInv, Rerun, Calm, Slot, Delta
<1> QED BY <1>1, <1>2, <1>3, <1>4, <1>5, <1>6, <1>7 DEF IInv, OnlyZeroDelaysLost

LEMMA DecideKeeps == ASSUME IInv, Decide PROVE IInv'
<1>1. /\ pc = "Events" /\ batch = {}
      /\ \/ pc' = "Active" /\ activity' = FALSE /\ changed' = {} /\ baseline' \in {cur, baseline} /\ Recirculates
         \/ pc' = "End" /\ ~Recirculates /\ UNCHANGED <<activity, changed, baseline>>
      /\ UNCHANGED <<program, period, breaks, time, delta, last, revisits, running, events, batch, nba, cur, com>>
      /\ UNCHANGED <<buffered, armed, waiting, zeros, lost, owed>>
  BY DEF Decide, history, design, waits
<1>2. Flags'
  BY <1>1 DEF IInv, Flags
<1>3. baseline' \in [Signal -> {0, 1}] /\ changed' \subseteq Signal
  BY <1>1, TypeFacts DEF IInv, Typed
<1>4. Typed'
  BY <1>1, <1>3 DEF IInv, Typed, Programs
<1>5. Clock' /\ QuiescedIsOver' /\ (Again' <=> Again) /\ pc' # "Top" /\ pc' # "Paused"
  BY <1>1, InDelta DEF IInv, Delta
<1>6. Regions'
  BY <1>1 DEF IInv, Regions, Delta, OnlyZeros, Slot
<1>7. ~Recirculates => Calm
  BY <1>1 DEF Recirculates, Calm, IInv, Settled
<1>8. Settled' /\ Body'
  BY <1>1, <1>5, <1>7 DEF IInv, Settled, Body, Calm, Slot
\* A second delta of a time that is entered again: there is none.
<1>9. Again => ~Recirculates
  BY <1>1 DEF IInv, Rerun, Delta, Calm, Recirculates
<1>10. Rerun'
  BY <1>1, <1>5, <1>9 DEF Rerun, Delta
<1> QED BY <1>1, <1>2, <1>4, <1>5, <1>6, <1>8, <1>10 DEF IInv, OnlyZeroDelaysLost
-----------------------------------------------------------------------------
(* The time steps.                                                           *)

LEMMA StopRunKeeps == ASSUME IInv, StopRun PROVE IInv'
<1>1. /\ pc = "Top" /\ pc' = "Done"
      /\ UNCHANGED <<program, period, breaks, time, delta, last, revisits, activity, running, events, batch, nba, cur, com>>
      /\ UNCHANGED <<changed, baseline, buffered, armed, waiting, zeros, lost, owed>>
  BY DEF StopRun, schedule, signals, waits, history, design
<1>2. Flags' /\ OnlyZeroDelaysLost'
  BY <1>1 DEF IInv, Flags, OnlyZeroDelaysLost
<1>3. Typed'
  BY <1>1 DEF IInv, Typed, Programs
<1>4. Clock' /\ Regions' /\ Body' /\ Rerun' /\ QuiescedIsOver'
  BY <1>1 DEF IInv, Clock, Regions, Body, Rerun, QuiescedIsOver, Delta
<1>5. Settled'
  BY <1>1 DEF IInv, Settled
<1> QED BY <1>2, <1>3, <1>4, <1>5 DEF IInv

LEMMA StartStepKeeps == ASSUME IInv, StartStep PROVE IInv'
<1>1. /\ pc = "Top" /\ running /\ Allows(time) /\ last' = time
      /\ revisits' = IF time = last THEN revisits + 1 ELSE 0
      /\ pc' = IF revisits' > DeltaLimit THEN "Aborted" ELSE "Active"
      /\ delta' = 0 /\ activity' = FALSE /\ changed' = {} /\ baseline' = cur
      /\ UNCHANGED <<program, period, breaks, time, running, events, batch, nba, cur, com>>
      /\ UNCHANGED <<buffered, armed, waiting, zeros, lost, owed>>
  BY DEF StartStep, waits, history, design
<1>2. Flags' /\ OnlyZeroDelaysLost'
  BY <1>1 DEF IInv, Flags, OnlyZeroDelaysLost
<1>3. time \in 0..MaxTime /\ revisits' \in 0..DeltaLimit + 1
  BY <1>1, TypeFacts, DesignFacts DEF IInv, Clock, Typed, Allows
<1>4. pc' \in {"Aborted", "Active"} /\ (pc' # "Aborted" => revisits' <= DeltaLimit)
  BY <1>1, <1>3, LoopAssumption
<1>5. Typed'
  BY <1>1, <1>3, <1>4, TypeFacts DEF IInv, Typed, Programs
<1>6. Clock'
  BY <1>1, <1>3, <1>4, TypeFacts DEF Clock, Delta
<1>7. Regions' /\ Body' /\ QuiescedIsOver'
  BY <1>4 DEF Regions, Body, QuiescedIsOver, Delta
<1>8. Settled'
  BY <1>1, <1>4 DEF IInv, Settled
\* A time entered again was left calm.
<1>9. Again' => Calm
  BY <1>1, TypeFacts DEF Again, IInv, Rerun, Entered
<1>10. Rerun'
  BY <1>1, <1>4, <1>9 DEF Rerun, Calm, Slot
<1> QED BY <1>2, <1>5, <1>6, <1>7, <1>8, <1>10 DEF IInv

\* Pause, Continue and ClearBreakpoints.
LEMMA DebuggerKeeps == ASSUME IInv, Pause \/ Continue \/ ClearBreakpoints PROVE IInv'
<1>1. /\ pc \in {"End", "Paused"} /\ pc' \in {"Paused", "Top"}
      /\ events' = IF time = 0 /\ pc' = "Top" THEN events \cup TimeZeroEvents ELSE events
      /\ breaks' \in {breaks, {}}
      /\ UNCHANGED <<program, period, time, delta, last, revisits, activity, running, batch, nba, cur, com>>
      /\ UNCHANGED <<changed, baseline, buffered, armed, waiting, zeros, lost, owed>>
  BY DEF Pause, Continue, ClearBreakpoints, schedule, signals, waits, history, design
<1>2. Flags' /\ OnlyZeroDelaysLost'
  BY <1>1 DEF IInv, Flags, OnlyZeroDelaysLost
<1>3. events' \subseteq EventRecord
  BY <1>1, TimeZeroTyped DEF IInv, Typed
<1>4. Typed'
  BY <1>1, <1>3 DEF IInv, Typed, Programs
<1>5. Calm
  BY <1>1 DEF IInv, Settled
<1>6. pc' = "Paused" \/ time # 0 => Calm'
  BY <1>1, <1>5 DEF Calm, Slot
<1>7. Clock' /\ Body' /\ QuiescedIsOver'
  BY <1>1, LoopAssumption DEF IInv, Clock, Body, QuiescedIsOver, Delta
<1>8. Regions'
  BY <1>1, <1>6 DEF Regions, OnlyZeros, Calm, Delta
<1>9. Settled'
  BY <1>1, <1>6 DEF IInv, Settled
<1>10. Rerun'
  <2>1. Entered' => time # 0
    BY <1>1, TypeFacts DEF Entered, IInv
  <2> QED BY <1>1, <1>6, <2>1 DEF Rerun, Delta
<1> QED BY <1>2, <1>4, <1>7, <1>8, <1>9, <1>10 DEF IInv

LEMMA AdvanceKeeps == ASSUME IInv, Advance PROVE IInv'
<1>1. /\ pc = "End" /\ events' = Retired /\ time' = time + 1 /\ zeros' = 0
      /\ pc' = IF Quiescent THEN "Quiesced" ELSE "Top"
      /\ UNCHANGED <<program, period, breaks, delta, last, revisits, activity, running, batch, nba, cur, com>>
      /\ UNCHANGED <<changed, baseline, buffered, armed, waiting, lost, owed>>
  BY DEF Advance, signals, waits, history, design
<1>2. Flags' /\ OnlyZeroDelaysLost'
  BY <1>1 DEF IInv, Flags, OnlyZeroDelaysLost
<1>3. time' \in 0..MaxTime + 1 /\ last = time
  BY <1>1, TypeFacts DEF IInv, Clock, Delta
<1>4. Typed'
  BY <1>1, <1>3, LoopAssumption DEF IInv, Typed, Programs, Retired
<1>5. pc' \in {"Quiesced", "Top"} /\ Calm
  BY <1>1 DEF IInv, Settled
<1>6. QuiescedIsOver'
  <2> SUFFICES ASSUME Quiescent PROVE QuiescedIsOver'
    BY <1>1 DEF QuiescedIsOver
  <2>1. events' = {}
    BY <1>1 DEF Quiescent, Retired, Slot
  <2> QED BY <1>1, <1>5, <2>1 DEF QuiescedIsOver, Quiescent, Calm
<1>7. Clock'
  BY <1>1, <1>5 DEF IInv, Clock, Delta
<1>8. Regions' /\ Body' /\ Settled'
  BY <1>1, <1>5 DEF IInv, Regions, Body, Settled, Delta
<1>9. Rerun'
  <2>1. ~Entered'
    BY <1>1, <1>3, TypeFacts DEF IInv, Entered
  <2> QED BY <1>5, <2>1 DEF Rerun, Delta
<1> QED BY <1>2, <1>4, <1>6, <1>7, <1>8, <1>9 DEF IInv

LEMMA StutterKeeps == ASSUME IInv, UNCHANGED vars PROVE IInv'
<1>1. /\ UNCHANGED <<program, period, breaks, pc, time, delta, last, revisits, activity, running, events, batch, nba, cur, com>>
      /\ UNCHANGED <<changed, baseline, buffered, armed, waiting, zeros, lost, owed>>
  BY DEF vars
<1>2. Flags' /\ OnlyZeroDelaysLost' /\ Typed'
  BY <1>1 DEF IInv, Flags, OnlyZeroDelaysLost, Typed
<1>3. Clock' /\ Regions' /\ Body' /\ QuiescedIsOver'
  BY <1>1 DEF IInv, Clock, Regions, OnlyZeros, Slot, Body, QuiescedIsOver
<1>4. Settled' /\ Rerun'
  BY <1>1 DEF IInv, Settled, Rerun, Calm, Slot, Entered, Again
<1> QED BY <1>2, <1>3, <1>4 DEF IInv
-----------------------------------------------------------------------------
(* The run.                                                                  *)

LEMMA StepKeeps == IInv /\ [Next]_vars => IInv'
<1> SUFFICES ASSUME IInv, [Next]_vars PROVE IInv'
  OBVIOUS
<1>1. CASE StartStep \/ StopRun
  BY <1>1, StartStepKeeps, StopRunKeeps
<1>2. CASE DrainActive \/ DrainInactive \/ RunDrained \/ CommitNba
  BY <1>2, DrainKeeps, RunDrainedKeeps, CommitNbaKeeps
<1>3. CASE Commit \/ Trigger \/ RunReactive
  BY <1>3, CommitKeeps, TriggerKeeps, RunReactiveKeeps
<1>4. CASE CheckLimit \/ ResumeWait \/ WaitsDone \/ ResumeEvent \/ Decide
  BY <1>4, CheckLimitKeeps, ResumeKeeps, WaitsDoneKeeps, DecideKeeps
<1>5. CASE Pause \/ Continue \/ ClearBreakpoints
  BY <1>5, DebuggerKeeps
<1>6. CASE Advance
  BY <1>6, AdvanceKeeps
<1>7. CASE Ended \/ UNCHANGED vars
  BY <1>7, StutterKeeps DEF Ended
<1> QED BY <1>1, <1>2, <1>3, <1>4, <1>5, <1>6, <1>7 DEF Next, Run

LEMMA AlwaysIInv == Spec => []IInv
BY InitIInv, StepKeeps, PTL DEF Spec

\* Every variable of the loop of engine/core.rs keeps its type, whatever the
\* threads do: no time beyond the limit is entered, no count passes its cap.
THEOREM TypeCorrect == Spec => []TypeOK
<1>1. IInv => TypeOK
  BY DEF IInv, Flags, Typed, TypeOK
<1> QED BY <1>1, AlwaysIInv, PTL

\* The delta loop of run() (core.rs) leaves nothing of a time step behind: the
\* step ends committed, with its slot, its NBA queue and its buffer empty.
THEOREM StepsEnd == Spec => []StepComplete
<1>1. IInv => StepComplete
  BY DEF IInv, Settled, Calm, StepComplete
<1> QED BY <1>1, AlwaysIInv, PTL

\* The drains that filter a slot (core.rs, drain(..).filter) discard no event with
\* a delay: behind the Active region the slot holds only #0 events.
THEOREM DelaysKept == Spec => []OnlyZeroDelaysLost
<1>1. IInv => OnlyZeroDelaysLost
  BY DEF IInv
<1> QED BY <1>1, AlwaysIInv, PTL

\* The quiescence check of run() stops only a design in which nothing can happen.
THEOREM QuiescenceSafe == Spec => []QuiescedIsOver
<1>1. IInv => QuiescedIsOver
  BY DEF IInv
<1> QED BY <1>1, AlwaysIInv, PTL

\* A delta of a time that is entered again finds an empty slot and nothing to commit.
LEMMA RevisitStep ==
  IInv /\ [Next]_vars => [time > 0 /\ revisits > 0 /\ time' = time => com' = com /\ events' = events]_vars
<1> SUFFICES ASSUME IInv, Next, Again, time' = time PROVE com' = com /\ events' = events
  BY DEF Again
<1>1. pc \in Delta => Calm /\ ~activity /\ changed = {}
  BY DEF IInv, Rerun
<1>2. CASE StartStep \/ StopRun \/ ClearBreakpoints \/ Pause \/ Ended
  BY <1>2 DEF StartStep, StopRun, ClearBreakpoints, Pause, Ended, vars, signals
<1>3. CASE DrainActive \/ DrainInactive
  <2>1. pc \in Delta /\ com' = com /\ events' = events \ Slot(time)
    BY <1>3 DEF DrainActive, DrainInactive, Drain, DrainUnchanged, signals, Delta
  <2> QED BY <1>1, <2>1 DEF Calm
<1>4. CASE CommitNba
  <2>1. pc \in Delta /\ com' = com /\ events' = events \ Slot(time)
    BY <1>4 DEF CommitNba, Drain, Delta
  <2> QED BY <1>1, <2>1 DEF Calm
<1>5. CASE Commit
  <2>1. pc \in Delta /\ com' = cur /\ events' = events
    BY <1>5 DEF Commit, Delta
  <2> QED BY <1>1, <2>1 DEF Calm
<1>6. CASE RunReactive
  <2>1. pc \in Delta /\ com' = com /\ events' = events \ Slot(time)
    BY <1>6 DEF RunReactive, Delta
  <2> QED BY <1>1, <2>1 DEF Calm
<1>7. CASE RunDrained \/ Trigger \/ ResumeWait \/ ResumeEvent
  <2>1. pc \in Delta /\ batch # {}
    BY <1>7 DEF RunDrained, Trigger, ResumeWait, ResumeEvent, Delta
  <2> QED BY <1>1, <2>1 DEF Calm
<1>8. CASE CheckLimit \/ WaitsDone \/ Decide
  BY <1>8 DEF CheckLimit, WaitsDone, Decide, signals
<1>9. CASE Continue
  BY <1>9, TypeFacts DEF Continue, signals, Again
<1>10. CASE Advance
  BY <1>10, TypeFacts DEF Advance, IInv
<1> QED BY <1>2, <1>3, <1>4, <1>5, <1>6, <1>7, <1>8, <1>9, <1>10 DEF Next, Run

\* After continue_run (debugger) the paused time is run again; only time zero is
\* initialized anew, a later one commits nothing and schedules nothing.
THEOREM RevisitSafety == Spec => RevisitChangesNothing
<1>1. IInv /\ [Next]_vars => [time > 0 /\ revisits > 0 /\ time' = time => com' = com /\ events' = events]_vars
  BY RevisitStep
<1> QED BY <1>1, AlwaysIInv, PTL DEF Spec, RevisitChangesNothing
-----------------------------------------------------------------------------
(* Synchronous designs: a is assigned by <= only, no thread runs #0, and no @   *)
(* waits for the output of a comb process.  The threads of a time step then run *)
(* in its first delta or are woken by a commit, so what a waiter is compared    *)
(* with is what was committed last.                                            *)

Before == {"Active", "RunActive", "Inactive", "RunInactive", "Nba"}
After == {"Trigger", "Limit", "Waits", "Events"}
Rest == {"Top", "End", "Paused"}

\* Events of the present time run in the first delta; without a clock there is none.
FirstDelta ==
  /\ pc \in Delta /\ (delta > 0 \/ pc # "Active") => Slot(time) = {}
  /\ pc # "RunInactive"
  /\ pc = "RunActive" => delta = 0
  /\ pc \in {"Waits", "Events"} => delta > 0
  /\ period = 0 => "clk" \notin batch /\ \A e \in events : e.proc # "clk"

\* The comb outputs follow a, which only commit_nba moves away from its committed value.
Values ==
  /\ pc \in Before => cur["a"] = com["a"] /\ cur["b"] = cur["a"] /\ cur["c"] = cur["a"]
  /\ pc = "Commit" /\ cur["a"] = com["a"] => cur["b"] = cur["a"] /\ cur["c"] = cur["a"]
  /\ pc \in After \cup Rest =>
       /\ cur["a"] = com["a"] /\ cur["clk"] = com["clk"] /\ cur["b"] = cur["a"]
       /\ ~buffered => cur["c"] = cur["a"]

\* A baseline that is out of date has nobody to compare.
Fresh == baseline["a"] = com["a"] /\ baseline["clk"] = com["clk"]
Compared ==
  /\ \A p \in Threads : armed[p] \in {"clk", "a", Unarmed}
  /\ pc \in Before \cup {"Commit"} => Fresh \/ (delta > 0 /\ \A p \in Threads : armed[p] = Unarmed)

\* Who is owed a wake-up will get it.
Due ==
  /\ pc \in Before \cup {"Commit"} \cup Rest => owed = {}
  /\ pc \in After => \A p \in owed : Fires(p)
  /\ pc = "Events" => owed \subseteq batch

\* Who waits for a = 1 will see it.
Watched ==
  /\ pc \in Before \cup Rest \cup {"Events"} => waiting = {} \/ cur["a"] = 0
  /\ pc = "Commit" => waiting = {} \/ cur["a"] = 0 \/ cur["a"] # com["a"]
  /\ pc \in {"Trigger", "Limit"} => waiting = {} \/ cur["a"] = 0 \/ "a" \in changed
  /\ pc = "Waits" => waiting \subseteq batch \/ cur["a"] = 0

SyncInv == FirstDelta /\ Values /\ Compared /\ Due /\ Watched
LEMMA ValueFacts ==
  ASSUME Typed
  PROVE  /\ DOMAIN cur = Signal /\ {"clk", "a", "b", "c"} = Signal
         /\ \A s \in Signal : cur[s] \in {0, 1} /\ com[s] \in {0, 1} /\ baseline[s] \in {0, 1}
  BY TypeFacts DEF Signal

LEMMA InitSyncInv == Synchronous /\ Init => SyncInv
<1> SUFFICES ASSUME Synchronous, Init PROVE SyncInv
  OBVIOUS
<1>1. FirstDelta
  <2>1. period \in Nat
    BY DesignFacts DEF Init
  <2>2. \A e \in events : e.proc = "clk" => period > 0
    BY <2>1, LoopAssumption DEF Init, TimeZeroEvents, Threads
  <2> QED BY <2>1, <2>2 DEF Init, FirstDelta, Delta
<1>2. Values /\ Compared /\ Due /\ Watched
  BY DEF Init, Values, Compared, Due, Watched, Before, After, Rest, Signal
<1> QED BY <1>1, <1>2 DEF SyncInv

\* What a thread of a synchronous design does when it runs.
Ran(p) ==
  /\ cur' = cur
  /\ \A e \in events' : e \in events \/ (e.t > time /\ e.proc = p)
  /\ \A q \in Threads : q # p => armed'[q] = armed[q]
  /\ armed'[p] \in {"clk", "a", Unarmed}
  /\ waiting' \subseteq waiting \cup {p}

LEMMA SyncSuspended ==
  ASSUME Synchronous, Typed, NEW p \in Threads, NEW w \in Writes, NEW s \in Suspends,
         cur' = Assigned(w), Suspended(p, s)
  PROVE  Ran(p) /\ (s[1] # "wait" => p \notin waiting')
<1>1. cur' = cur
  BY DEF Synchronous, Assigned
<1>2. armed \in [Threads -> Signal \cup {Unarmed}]
  BY DEF Typed
<1>3. \A e \in events' : e \in events \/ (e.t > time /\ e.proc = p)
  <2>1. CASE s[1] = "delay"
    <3>1. s[2] \in Nat /\ s[2] > 0 /\ events' = events \cup {Event(p, s[2])}
      BY <2>1, DesignFacts DEF Suspended, Synchronous, Typed
    <3>2. Event(p, s[2]).t = time + s[2] /\ Event(p, s[2]).proc = p
      BY DEF Event
    <3> QED BY <3>1, <3>2, TypeFacts
  <2>2. CASE s[1] # "delay"
    BY <2>2 DEF Suspended
  <2> QED BY <2>1, <2>2
<1>4. armed'[p] \in {"clk", "a", Unarmed} /\ \A q \in Threads : q # p => armed'[q] = armed[q]
  BY <1>2 DEF Suspended, Synchronous
<1> QED BY <1>1, <1>3, <1>4 DEF Suspended, Ran

LEMMA SyncExecute ==
  ASSUME Synchronous, Typed, NEW p \in Threads, NEW next, Execute(p, next)
  PROVE  Ran(p) /\ pc' = next /\ (p \in waiting' => cur["a"] = 0)
<1>1. PICK w \in Writes, s \in Stops(p) :
        /\ cur' = Assigned(w) /\ nba' = Queued(w)
        /\ s[1] = "wait" => cur'["a"] = 0
        /\ IF s = <<"delay", 0>> /\ zeros = ZeroCap
           THEN pc' = "Aborted" /\ UNCHANGED <<events, waits, running, zeros>>
           ELSE /\ pc' = next
                /\ Suspended(p, s)
                /\ zeros' = IF s = <<"delay", 0>> THEN zeros + 1 ELSE zeros
  BY DEF Execute
<1>2. s \in Suspends
  BY DEF Stops
<1>3. s # <<"delay", 0>>
  <2> SUFFICES ASSUME s = <<"delay", 0>> PROVE FALSE
    OBVIOUS
  <2>1. s[1] = "delay" /\ s[2] = 0
    OBVIOUS
  <2> QED BY <1>2, <2>1 DEF Synchronous
<1>4. pc' = next /\ Suspended(p, s)
  BY <1>1, <1>3
<1>5. Ran(p) /\ (s[1] # "wait" => p \notin waiting')
  BY <1>1, <1>2, <1>4, SyncSuspended
<1>6. p \in waiting' => cur["a"] = 0
  BY <1>1, <1>5 DEF Ran
<1> QED BY <1>4, <1>5, <1>6
-----------------------------------------------------------------------------
(* The steps of a synchronous design.                                        *)

LEMMA SyncStart == ASSUME IInv, SyncInv, StartStep PROVE SyncInv'
<1>1. /\ pc = "Top" /\ pc' \in {"Aborted", "Active"} /\ delta' = 0 /\ changed' = {} /\ baseline' = cur
      /\ UNCHANGED <<period, time, events, batch, cur, com, buffered, armed, waiting, owed>>
  BY DEF StartStep, waits, history, design
<1>2. ~buffered
  BY <1>1 DEF IInv, Settled
<1>3. FirstDelta'
  BY <1>1 DEF SyncInv, FirstDelta, Delta, Slot
<1>4. Values'
  BY <1>1, <1>2 DEF SyncInv, Values, Before, After, Rest
<1>5. Compared' /\ Due' /\ Watched'
  BY <1>1 DEF SyncInv, Values, Compared, Fresh, Due, Watched, Before, After, Rest
<1> QED BY <1>3, <1>4, <1>5 DEF SyncInv

LEMMA SyncDrain == ASSUME IInv, SyncInv, DrainActive \/ DrainInactive PROVE SyncInv'
<1>1. UNCHANGED <<period, time, delta, cur, com, changed, baseline, buffered, armed, waiting, owed>>
  BY DEF DrainActive, DrainInactive, DrainUnchanged, design, signals, waits
<1>2. PICK next \in {"Inactive", "Nba"}, run \in {"RunActive", "RunInactive"}, region \in {"Active", "Inactive"} :
        Drain(region, run, next) /\ pc = region /\ (region = "Inactive" => next = "Nba")
                                 /\ (region = "Active" => run = "RunActive")
  BY DEF DrainActive, DrainInactive
<1>3. region = "Active" \/ OnlyZeros
  BY <1>2 DEF IInv, Regions, Delta
<1>4. /\ events' \subseteq events /\ Slot(time)' = {} /\ pc' \in {run, next}
      /\ Slot(time) = {} => batch' = {} /\ pc' = next
  BY <1>1, <1>2, <1>3, DrainFacts
<1>5. batch' \subseteq Procs(events)
  BY <1>2 DEF Drain, Procs, Slot
<1>6. pc' = run => pc = "Active" /\ delta = 0 /\ pc' = "RunActive"
  <2>1. delta > 0 \/ pc # "Active" => Slot(time) = {}
    BY <1>2 DEF SyncInv, FirstDelta, Delta
  <2>2. delta > 0 \/ delta = 0
    BY TypeFacts DEF IInv
  <2> QED BY <1>2, <1>4, <2>1, <2>2
<1>7. pc \in {"Active", "Inactive"} /\ pc' \in {"RunActive", "Inactive", "Nba"}
  BY <1>2, <1>4, <1>6
<1>8. FirstDelta'
  <2>1. period' = 0 => "clk" \notin batch' /\ \A e \in events' : e.proc # "clk"
    BY <1>1, <1>4, <1>5 DEF SyncInv, FirstDelta, Procs
  <2> QED BY <1>1, <1>2, <1>4, <1>6, <1>7, <2>1 DEF FirstDelta
<1>9. Values' /\ Compared' /\ Due' /\ Watched'
  BY <1>1, <1>7 DEF SyncInv, Values, Compared, Fresh, Due, Watched, Before, After, Rest
<1> QED BY <1>8, <1>9 DEF SyncInv

\* A clock, a comb process or a thread runs.
LEMMA SyncRunDrained == ASSUME Synchronous, IInv, SyncInv, RunDrained PROVE SyncInv'
<1>1. PICK p \in batch :
        batch' = batch \ {p} /\ ProcessEvent(p, IF batch = {p} THEN "Inactive" ELSE pc)
  BY DEF RunDrained
<1>2. /\ pc = "RunActive" /\ delta = 0
      /\ UNCHANGED <<period, time, delta, com, changed, buffered, baseline>>
  BY DEF RunDrained, design, SyncInv, FirstDelta
<1>3. p \in Process
  BY DEF IInv, Typed
<1>4. Slot(time) = {} /\ owed = {}
  BY <1>2 DEF SyncInv, FirstDelta, Due, Delta, Before
<1>5. Fresh
  BY <1>2, TypeFacts DEF SyncInv, Compared, Before
<1>6. /\ \A e \in events' : e \in events \/ (e.t > time /\ (e.proc = "clk" => period # 0))
      /\ cur'["a"] = cur["a"] /\ cur'["b"] \in {cur["b"], cur["a"]} /\ cur'["c"] \in {cur["c"], cur["a"]}
      /\ \A q \in Threads : armed'[q] \in {"clk", "a", Unarmed}
      /\ waiting' \subseteq waiting \/ cur["a"] = 0
      /\ pc' \in {"RunActive", "Inactive"} /\ owed' = {}
  <2>1. CASE p \in Threads
    <3>1. Ran(p) /\ pc' = (IF batch = {p} THEN "Inactive" ELSE pc) /\ (p \in waiting' => cur["a"] = 0)
          /\ owed' = {} /\ p # "clk"
      BY <1>1, <1>4, <2>1, SyncExecute, LoopAssumption DEF ProcessEvent, IInv
    <3>2. \A q \in Threads : armed'[q] \in {"clk", "a", Unarmed}
      BY <3>1 DEF Ran, SyncInv, Compared
    <3> QED BY <1>2, <3>1, <3>2 DEF Ran
  <2>2. CASE p \notin Threads
    <3>1. /\ cur' = Evaluated(p) /\ pc' = (IF batch = {p} THEN "Inactive" ELSE pc)
          /\ UNCHANGED <<armed, waiting, owed>>
          /\ events' = IF p = "clk" THEN events \cup {Event(p, period)} ELSE events
      BY <1>1, <2>2 DEF ProcessEvent, waits
    <3>2. p \in {"clk", "b", "c"}
      BY <1>3, <2>2 DEF Process
    <3>3. cur'["a"] = cur["a"] /\ cur'["b"] \in {cur["b"], cur["a"]} /\ cur'["c"] \in {cur["c"], cur["a"]}
      BY <3>1, <3>2, ValueFacts DEF Evaluated, IInv
    <3>4. p = "clk" => period # 0 /\ period \in Nat
      BY TypeFacts DEF SyncInv, FirstDelta, IInv
    <3>5. \A e \in events' : e \in events \/ (e.t > time /\ (e.proc = "clk" => period # 0))
      <4>1. CASE p = "clk"
        <5>1. Event(p, period).t = time + period /\ time + period > time
          BY <3>4, <4>1, TypeFacts DEF Event, IInv
        <5> QED BY <3>1, <3>4, <4>1, <5>1
      <4> QED BY <3>1, <4>1
    <3>6. \A q \in Threads : armed'[q] \in {"clk", "a", Unarmed}
      BY <3>1 DEF SyncInv, Compared
    <3> QED BY <1>2, <1>4, <3>1, <3>3, <3>5, <3>6
  <2> QED BY <2>1, <2>2
<1>7. Slot(time)' = {}
  BY <1>2, <1>4, <1>6, TypeFacts DEF Slot, IInv
<1>8. FirstDelta'
  BY <1>1, <1>2, <1>6, <1>7 DEF SyncInv, FirstDelta
<1>9. Values'
  BY <1>2, <1>6 DEF SyncInv, Values, Before, After, Rest
<1>10. Compared' /\ Due'
  BY <1>2, <1>5, <1>6 DEF Compared, Fresh, Due, Before, After, Rest
<1>11. Watched'
  BY <1>2, <1>6 DEF SyncInv, Watched, Before, Rest
<1> QED BY <1>8, <1>9, <1>10, <1>11 DEF SyncInv

LEMMA SyncCommitNba == ASSUME IInv, SyncInv, CommitNba PROVE SyncInv'
<1>1. /\ pc = "Nba" /\ Drain("Nba", "Nba", "Commit")
      /\ cur' = IF nba = NoNba THEN cur ELSE [cur EXCEPT !["a"] = nba]
      /\ UNCHANGED <<period, time, delta, com, changed, baseline, buffered, armed, waiting, owed>>
  BY DEF CommitNba, design, waits
<1>2. OnlyZeros /\ Slot(time) = {}
  BY <1>1 DEF IInv, Regions, Delta, SyncInv, FirstDelta
<1>3. events' \subseteq events /\ Slot(time)' = {} /\ batch' = {} /\ pc' = "Commit"
  BY <1>1, <1>2, DrainFacts
<1>4. /\ cur'["clk"] = cur["clk"] /\ cur'["b"] = cur["b"] /\ cur'["c"] = cur["c"]
      /\ cur'["a"] \in {0, 1} /\ cur["a"] \in {0, 1}
  BY <1>1, ValueFacts DEF IInv, Typed
<1>5. FirstDelta'
  BY <1>1, <1>3 DEF SyncInv, FirstDelta
<1>6. Values' /\ Compared' /\ Due' /\ Watched'
  BY <1>1, <1>3, <1>4 DEF SyncInv, Values, Compared, Fresh, Due, Watched, Before, After, Rest
<1> QED BY <1>5, <1>6 DEF SyncInv

\* The commit owes wake-ups, and the baseline of whom it owes one is the value before.
LEMMA SyncCommit == ASSUME IInv, SyncInv, Commit PROVE SyncInv'
<1> DEFINE C == {s \in Signal : cur[s] # com[s]}
<1>1. /\ pc = "Commit" /\ pc' = "Trigger"
      /\ changed' = C /\ com' = cur /\ cur' = Comb(C)
      /\ buffered' = (buffered \/ "a" \in C)
      /\ batch' = IF "clk" \in C /\ cur["clk"] = 1 THEN Edges ELSE {}
      /\ owed' = owed \cup Owed(C, cur)
      /\ UNCHANGED <<period, time, delta, events, baseline, armed, waiting>>
  BY DEF Commit, design, waits
<1>2. /\ "a" \in C <=> cur["a"] # com["a"]
      /\ "clk" \in C <=> cur["clk"] # com["clk"]
  BY DEF Signal
<1>3. /\ cur'["a"] = cur["a"] /\ cur'["clk"] = cur["clk"] /\ cur'["c"] = cur["c"]
      /\ cur'["b"] = IF "a" \in C THEN cur["a"] ELSE cur["b"]
  BY <1>1, ValueFacts DEF Comb, IInv
<1>4. owed = {} /\ ~buffered
  BY <1>1 DEF SyncInv, Due, IInv, Settled
<1> HIDE DEF C
<1>5. FirstDelta'
  <2>1. "clk" \notin batch'
    BY <1>1, LoopAssumption DEF Threads
  <2> QED BY <1>1, <2>1 DEF SyncInv, FirstDelta, Slot, Delta
<1>6. Values'
  BY <1>1, <1>2, <1>3, <1>4 DEF SyncInv, Values, Before, After, Rest
<1>7. Compared'
  BY <1>1 DEF SyncInv, Compared, Before
<1>8. Due'
  <2> SUFFICES ASSUME NEW p \in owed' PROVE Fires(p)'
    BY <1>1 DEF Due, Before, Rest
  <2>1. p \in Threads /\ armed[p] \in C /\ Wakes(armed[p], cur)
    BY <1>1, <1>4 DEF Owed
  <2>2. armed[p] \in {"clk", "a"} /\ armed[p] # Unarmed
    <3>1. Unarmed \notin C
      BY DEF C, Signal, Unarmed
    <3> QED BY <2>1, <3>1 DEF SyncInv, Compared
  <2>3. Fresh
    BY <1>1, <2>1, <2>2 DEF SyncInv, Compared
  <2>4. baseline[armed[p]] # cur[armed[p]]
    BY <1>2, <2>1, <2>2, <2>3 DEF Fresh
  <2>5. Wakes(armed[p], cur')
    BY <1>3, <2>1 DEF Wakes
  <2>6. /\ armed'[p] = armed[p] /\ changed' = C /\ baseline' = baseline
        /\ cur'[armed[p]] = cur[armed[p]]
    BY <1>1, <1>3, <2>2
  <2> QED BY <2>1, <2>4, <2>5, <2>6 DEF Fires
<1>9. Watched'
  BY <1>1, <1>2, <1>3 DEF SyncInv, Watched, Before, Rest
<1> QED BY <1>5, <1>6, <1>7, <1>8, <1>9 DEF SyncInv

\* Behind the commit a thread that runs takes its own wake-up only.
LEMMA RanKeepsDue ==
  ASSUME NEW p \in Threads, Ran(p), owed' = owed \ {p}, UNCHANGED <<changed, baseline>>,
         \A q \in owed : Fires(q), owed \subseteq Threads
  PROVE  \A q \in owed' : Fires(q)'
  BY DEF Ran, Fires, Wakes

LEMMA SyncTrigger == ASSUME Synchronous, IInv, SyncInv, Trigger PROVE SyncInv'
<1>1. PICK p \in batch : ExecuteBody(p) /\ batch' = batch \ {p} /\ owed' = owed \ {p}
  BY DEF Trigger
<1>2. /\ pc = "Trigger" /\ pc' = "Trigger"
      /\ UNCHANGED <<period, time, delta, com, changed, buffered, baseline>>
  BY DEF Trigger, design
<1>3. PICK w \in Writes, s \in Suspends : cur' = Assigned(w) /\ Suspended(p, s) /\ s[1] # "wait"
  BY <1>1 DEF ExecuteBody
<1>4. p \in Threads /\ owed \subseteq Threads
  BY <1>2 DEF IInv, Body, Typed
<1>5. Ran(p) /\ waiting' \subseteq waiting /\ p # "clk"
  BY <1>3, <1>4, SyncSuspended, LoopAssumption DEF IInv, Ran
<1>6. FirstDelta'
  BY <1>1, <1>2, <1>5, TypeFacts DEF SyncInv, FirstDelta, Ran, Slot, Delta, IInv
<1>7. Values' /\ Watched'
  BY <1>2, <1>5 DEF SyncInv, Values, Watched, Ran, Before, After, Rest
<1>8. Compared'
  BY <1>2, <1>5 DEF SyncInv, Compared, Ran, Before
<1>9. Due'
  <2>1. \A q \in owed : Fires(q)
    BY <1>2 DEF SyncInv, Due, After
  <2>2. \A q \in owed' : Fires(q)'
    BY <1>1, <1>2, <1>4, <1>5, <2>1, RanKeepsDue
  <2> QED BY <1>2, <2>2 DEF Due, Before, Rest
<1> QED BY <1>6, <1>7, <1>8, <1>9 DEF SyncInv

LEMMA SyncReactive == ASSUME IInv, SyncInv, RunReactive PROVE SyncInv'
<1>1. /\ pc = "Trigger" /\ batch = {} /\ pc' = "Limit" /\ buffered' = FALSE
      /\ cur' = IF buffered THEN [cur EXCEPT !["c"] = cur["a"]] ELSE cur
      /\ events' = events \ Slot(time)
      /\ UNCHANGED <<period, time, delta, batch, com, changed, baseline, armed, waiting, owed>>
  BY DEF RunReactive, design, waits
<1>2. /\ cur'["a"] = cur["a"] /\ cur'["b"] = cur["b"] /\ cur'["clk"] = cur["clk"]
      /\ cur'["c"] = IF buffered THEN cur["a"] ELSE cur["c"]
  BY <1>1, ValueFacts DEF IInv
<1>3. FirstDelta'
  BY <1>1 DEF SyncInv, FirstDelta, Slot
<1>4. Values'
  BY <1>1, <1>2 DEF SyncInv, Values, Before, After, Rest
<1>5. Compared' /\ Watched'
  BY <1>1, <1>2 DEF SyncInv, Compared, Watched, Before, Rest
<1>6. Due'
  <2> SUFFICES ASSUME NEW p \in owed PROVE Fires(p)'
    BY <1>1 DEF Due, Before, Rest
  <2>1. Fires(p) /\ armed[p] \in {"clk", "a", Unarmed} /\ armed[p] \in Signal
    BY <1>1 DEF SyncInv, Due, Compared, After, IInv, Typed, Fires
  <2>2. cur'[armed[p]] = cur[armed[p]]
    BY <1>2, <2>1 DEF Signal, Unarmed
  <2> QED BY <1>1, <1>2, <2>1, <2>2 DEF Fires, Wakes
<1> QED BY <1>3, <1>4, <1>5, <1>6 DEF SyncInv

LEMMA SyncLimit == ASSUME IInv, SyncInv, CheckLimit PROVE SyncInv'
<1>1. /\ pc = "Limit" /\ pc' \in {"Aborted", "Waits"}
      /\ pc' = "Aborted" => batch' = batch /\ delta' = delta
      /\ pc' = "Waits" => batch' = DueWaits /\ delta' = delta + 1
      /\ UNCHANGED <<period, time, events, cur, com, changed, baseline, buffered, armed, waiting, owed>>
  BY DEF CheckLimit, history, design, signals, waits
<1>2. DueWaits \subseteq Threads
  BY DEF DueWaits, IInv, Typed
<1>3. FirstDelta'
  <2>1. period' = 0 => "clk" \notin batch' /\ \A e \in events' : e.proc # "clk"
    BY <1>1, <1>2, LoopAssumption DEF SyncInv, FirstDelta
  <2> QED BY <1>1, <2>1, TypeFacts DEF SyncInv, FirstDelta, Slot, Delta, IInv
<1>4. Values' /\ Compared'
  BY <1>1 DEF SyncInv, Values, Compared, Before, After, Rest
<1>5. Due'
  BY <1>1 DEF SyncInv, Due, Before, After, Rest, Fires, Wakes
<1>6. Watched'
  BY <1>1 DEF SyncInv, Watched, Before, Rest, DueWaits
<1> QED BY <1>3, <1>4, <1>5, <1>6 DEF SyncInv

LEMMA SyncResumeWait == ASSUME Synchronous, IInv, SyncInv, ResumeWait PROVE SyncInv'
<1>1. PICK p \in batch :
        /\ batch' = batch \ {p}
        /\ IF cur["a"] = 1
           THEN Execute(p, pc) /\ owed' = owed \ {p}
           ELSE UNCHANGED <<pc, cur, nba, events, waits, running, zeros, owed>>
  BY DEF ResumeWait
<1>2. pc = "Waits" /\ UNCHANGED <<period, time, delta, com, changed, buffered, baseline>>
  BY DEF ResumeWait, design
<1>3. p \in Threads /\ p # "clk" /\ owed \subseteq Threads /\ cur["a"] \in {0, 1}
  BY <1>2, ValueFacts, LoopAssumption DEF IInv, Body, Typed
<1>4. CASE cur["a"] = 1
  <2>1. Ran(p) /\ pc' = pc /\ p \notin waiting' /\ owed' = owed \ {p}
    BY <1>1, <1>3, <1>4, SyncExecute DEF IInv
  <2>2. FirstDelta'
    BY <1>1, <1>2, <1>3, <2>1, TypeFacts DEF SyncInv, FirstDelta, Ran, Slot, Delta, IInv
  <2>3. Values' /\ Watched'
    BY <1>1, <1>2, <2>1, <1>4 DEF SyncInv, Values, Watched, Ran, Before, After, Rest
  <2>4. Compared'
    BY <1>2, <2>1 DEF SyncInv, Compared, Ran, Before
  <2>5. Due'
    <3>1. \A q \in owed : Fires(q)
      BY <1>2 DEF SyncInv, Due, After
    <3>2. \A q \in owed' : Fires(q)'
      BY <1>2, <1>3, <2>1, <3>1, RanKeepsDue
    <3> QED BY <1>2, <2>1, <3>2 DEF Due, Before, Rest
  <2> QED BY <2>2, <2>3, <2>4, <2>5 DEF SyncInv
<1>5. CASE cur["a"] # 1
  <2>1. UNCHANGED <<pc, cur, events, armed, waiting, owed>>
    BY <1>1, <1>5 DEF waits
  <2>2. FirstDelta' /\ Values' /\ Compared'
    BY <1>1, <1>2, <2>1 DEF SyncInv, FirstDelta, Slot, Values, Compared, Fresh
  <2>3. Due' /\ Watched'
    BY <1>2, <1>3, <1>5, <2>1 DEF SyncInv, Due, Fires, Wakes, Watched, Before, After, Rest
  <2> QED BY <2>2, <2>3 DEF SyncInv
<1> QED BY <1>4, <1>5

LEMMA SyncWaitsDone == ASSUME IInv, SyncInv, WaitsDone PROVE SyncInv'
<1>1. /\ pc = "Waits" /\ batch = {} /\ pc' = "Events"
      /\ batch' = IF changed = {} THEN {} ELSE {p \in Threads : armed[p] # Unarmed}
      /\ UNCHANGED <<period, time, delta, events, cur, com, changed, baseline, buffered, armed, waiting, owed>>
  BY DEF WaitsDone, history, design, signals, waits
<1>2. "clk" \notin batch'
  BY <1>1, LoopAssumption
<1>3. FirstDelta' /\ Values' /\ Compared'
  BY <1>1, <1>2 DEF SyncInv, FirstDelta, Slot, Delta, Values, Compared, Before, After, Rest
<1>4. \A p \in owed : Fires(p)
  BY <1>1 DEF SyncInv, Due, After
<1>5. owed' \subseteq batch'
  <2> SUFFICES ASSUME NEW p \in owed PROVE p \in batch'
    BY <1>1
  <2>1. armed[p] \in changed /\ changed \subseteq Signal /\ p \in Threads
    BY <1>4 DEF Fires, IInv, Typed
  <2>2. armed[p] # Unarmed /\ changed # {}
    BY <2>1 DEF Signal, Unarmed
  <2> QED BY <1>1, <2>1, <2>2
<1>6. Due' /\ Watched'
  BY <1>1, <1>4, <1>5 DEF SyncInv, Due, Fires, Wakes, Watched, Before, After, Rest
<1> QED BY <1>3, <1>6 DEF SyncInv

LEMMA SyncResumeEvent == ASSUME Synchronous, IInv, SyncInv, ResumeEvent PROVE SyncInv'
<1>1. PICK p \in batch :
        /\ batch' = batch \ {p}
        /\ IF Fires(p)
           THEN Execute(p, pc) /\ owed' = owed \ {p}
           ELSE UNCHANGED <<pc, cur, nba, events, waits, running, zeros, owed>>
  BY DEF ResumeEvent
<1>2. pc = "Events" /\ UNCHANGED <<period, time, delta, com, changed, buffered, baseline>>
  BY DEF ResumeEvent, design
<1>3. p \in Threads /\ p # "clk" /\ owed \subseteq Threads
  BY <1>2, LoopAssumption DEF IInv, Body, Typed
<1>4. \A q \in owed : Fires(q) /\ q \in batch
  BY <1>2 DEF SyncInv, Due, After
<1>5. CASE Fires(p)
  <2>1. Ran(p) /\ pc' = pc /\ (p \in waiting' => cur["a"] = 0) /\ owed' = owed \ {p}
    BY <1>1, <1>3, <1>5, SyncExecute DEF IInv
  <2>2. FirstDelta'
    BY <1>1, <1>2, <1>3, <2>1, TypeFacts DEF SyncInv, FirstDelta, Ran, Slot, Delta, IInv
  <2>3. Values' /\ Watched'
    BY <1>2, <2>1 DEF SyncInv, Values, Watched, Ran, Before, After, Rest
  <2>4. Compared'
    BY <1>2, <2>1 DEF SyncInv, Compared, Ran, Before
  <2>5. Due'
    <3>1. \A q \in owed' : Fires(q)'
      BY <1>2, <1>3, <1>4, <2>1, RanKeepsDue
    <3> QED BY <1>1, <1>2, <1>4, <2>1, <3>1 DEF Due, Before, Rest
  <2> QED BY <2>2, <2>3, <2>4, <2>5 DEF SyncInv
<1>6. CASE ~Fires(p)
  <2>1. UNCHANGED <<pc, cur, events, armed, waiting, owed>>
    BY <1>1, <1>6 DEF waits
  <2>2. FirstDelta' /\ Values' /\ Compared' /\ Watched'
    BY <1>1, <1>2, <2>1 DEF SyncInv, FirstDelta, Slot, Values, Compared, Fresh, Watched
  <2>3. Due'
    BY <1>1, <1>2, <1>4, <1>6, <2>1 DEF Due, Fires, Wakes, Before, After, Rest
  <2> QED BY <2>2, <2>3 DEF SyncInv
<1> QED BY <1>5, <1>6

LEMMA SyncDecide == ASSUME IInv, SyncInv, Decide PROVE SyncInv'
<1>1. /\ pc = "Events" /\ batch = {} /\ pc' \in {"Active", "End"}
      /\ pc' = "Active" => changed' = {} /\ baseline' = IF Suspensions THEN cur ELSE baseline
      /\ UNCHANGED <<period, time, delta, events, batch, cur, com, buffered, armed, waiting, owed>>
  BY DEF Decide, history, design, waits
<1>2. ~buffered /\ owed = {}
  BY <1>1 DEF IInv, Settled, SyncInv, Due
<1>3. FirstDelta'
  BY <1>1 DEF SyncInv, FirstDelta, Slot, Delta
<1>4. Values' /\ Due' /\ Watched'
  BY <1>1, <1>2 DEF SyncInv, Values, Due, Watched, Before, After, Rest
<1>5. Compared'
  <2>1. CASE Suspensions
    BY <1>1, <2>1 DEF SyncInv, Compared, Values, Fresh, Before, After
  <2>2. CASE ~Suspensions
    BY <1>1, <2>2 DEF SyncInv, Compared, FirstDelta, Suspensions, Before
  <2> QED BY <2>1, <2>2
<1> QED BY <1>3, <1>4, <1>5 DEF SyncInv

\* Between the steps nothing of what the invariant reads is touched but events and time.
LEMMA SyncBetween ==
  ASSUME IInv, SyncInv, StopRun \/ Pause \/ Continue \/ ClearBreakpoints \/ Advance
  PROVE  SyncInv'
<1>1. /\ pc \in Rest /\ pc' \in Rest \cup {"Done", "Quiesced"}
      /\ UNCHANGED <<period, delta, batch, cur, com, baseline, buffered, armed, waiting, owed>>
  BY DEF StopRun, Pause, Continue, ClearBreakpoints, Advance, schedule, signals, waits, history, design, Rest
<1>2. events' \subseteq events \cup TimeZeroEvents
  BY DEF StopRun, Pause, Continue, ClearBreakpoints, Advance, Retired, schedule
<1>3. period = 0 => \A e \in TimeZeroEvents : e.proc # "clk"
  BY LoopAssumption DEF TimeZeroEvents, Threads
<1>4. FirstDelta'
  BY <1>1, <1>2, <1>3 DEF SyncInv, FirstDelta, Rest, Delta
<1>5. Values' /\ Compared' /\ Due' /\ Watched'
  BY <1>1 DEF SyncInv, Values, Compared, Due, Watched, Before, After, Rest
<1> QED BY <1>4, <1>5 DEF SyncInv

LEMMA SyncStutter == ASSUME SyncInv, UNCHANGED vars PROVE SyncInv'
<1>1. UNCHANGED <<period, pc, time, delta, events, batch, cur, com, changed, baseline, buffered, armed, waiting, owed>>
  BY DEF vars
<1>2. FirstDelta' /\ Values' /\ Compared' /\ Watched'
  BY <1>1 DEF SyncInv, FirstDelta, Slot, Values, Compared, Fresh, Watched
<1>3. Due'
  BY <1>1 DEF SyncInv, Due, Fires, Wakes
<1> QED BY <1>2, <1>3 DEF SyncInv

LEMMA SyncStep == ASSUME Synchronous, IInv, SyncInv, [Next]_vars PROVE SyncInv'
<1>1. CASE StartStep \/ DrainActive \/ DrainInactive \/ RunDrained \/ CommitNba
  BY <1>1, SyncStart, SyncDrain, SyncRunDrained, SyncCommitNba
<1>2. CASE Commit \/ Trigger \/ RunReactive \/ CheckLimit
  BY <1>2, SyncCommit, SyncTrigger, SyncReactive, SyncLimit
<1>3. CASE ResumeWait \/ WaitsDone \/ ResumeEvent \/ Decide
  BY <1>3, SyncResumeWait, SyncWaitsDone, SyncResumeEvent, SyncDecide
<1>4. CASE StopRun \/ Pause \/ Continue \/ ClearBreakpoints \/ Advance
  BY <1>4, SyncBetween
<1>5. CASE Ended \/ UNCHANGED vars
  BY <1>5, SyncStutter DEF Ended
<1> QED BY <1>1, <1>2, <1>3, <1>4, <1>5 DEF Next, Run

\* No step changes the class of the design.
LEMMA ProgramFixed == ASSUME [Next]_vars PROVE program' = program
<1>1. CASE DrainActive \/ DrainInactive \/ RunDrained \/ CommitNba \/ Commit \/ Trigger \/ RunReactive
  BY <1>1 DEF DrainActive, DrainInactive, DrainUnchanged, RunDrained, CommitNba, Commit, Trigger, RunReactive, design
<1>2. CASE StartStep \/ StopRun \/ CheckLimit \/ ResumeWait \/ WaitsDone \/ ResumeEvent \/ Decide
  BY <1>2 DEF StartStep, StopRun, CheckLimit, ResumeWait, WaitsDone, ResumeEvent, Decide, history, design
<1>3. CASE Pause \/ Continue \/ ClearBreakpoints \/ Advance
  BY <1>3 DEF Pause, Continue, ClearBreakpoints, Advance, history, design
<1>4. CASE Ended \/ UNCHANGED vars
  BY <1>4 DEF Ended, vars
<1> QED BY <1>1, <1>2, <1>3, <1>4 DEF Next, Run

IfSync == Synchronous => SyncInv
LEMMA AlwaysSyncInv == Spec => []IfSync
<1>1. Init => IfSync
  BY InitSyncInv DEF IfSync
<1>2. IInv /\ IfSync /\ [Next]_vars => IfSync'
  <2> SUFFICES ASSUME IInv, IfSync, [Next]_vars, Synchronous' PROVE SyncInv'
    BY DEF IfSync
  <2>1. Synchronous
    BY ProgramFixed DEF Synchronous, Writes, Suspends
  <2> QED BY <2>1, SyncStep DEF IfSync
<1> QED BY <1>1, <1>2, AlwaysIInv, PTL DEF Spec

\* The always_comb outputs, evaluated at the commit (trigger_sensitive_processes) and
\* from the reactive buffer, agree with their input when a time step of a
\* synchronous design ends.
THEOREM CombSettles == Spec => []CombSettled
<1>1. IInv /\ IfSync => CombSettled
  <2> SUFFICES ASSUME IInv, SyncInv, pc = "End" PROVE com["b"] = com["a"] /\ com["c"] = com["a"]
    BY DEF CombSettled, IfSync
  <2>1. cur = com /\ ~buffered
    BY DEF IInv, Settled, Calm
  <2> QED BY <2>1 DEF SyncInv, Values, Rest
<1> QED BY <1>1, AlwaysIInv, AlwaysSyncInv, PTL

\* process_pending_events resumes every thread of a synchronous design whose @ a
\* commit of the delta has fulfilled: no baseline in use is out of date.
THEOREM EventsSeen == Spec => []NoMissedEvent
<1>1. IfSync => NoMissedEvent
  BY DEF IfSync, SyncInv, Due, NoMissedEvent
<1> QED BY <1>1, AlwaysSyncInv, PTL

\* process_pending_waits leaves nobody in a wait whose condition a time step of a
\* synchronous design has made true.
THEOREM WaitsSeen == Spec => []NoMissedWait
<1>1. IfSync => NoMissedWait
  BY DEF IfSync, SyncInv, Watched, Rest, NoMissedWait
<1> QED BY <1>1, AlwaysSyncInv, PTL
=============================================================================
