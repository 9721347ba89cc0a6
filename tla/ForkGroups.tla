------------------------------ MODULE ForkGroups ------------------------------
(***************************************************************************)
(* fork ... join / join_any / join_none, wait fork and disable fork, as the *)
(* engine accounts for them: the slots of fork_groups with their reuse      *)
(* (engine/core.rs), the IrStmt::Fork handler (engine/scheduler/block.rs)    *)
(* and the resumption of suspended branches (engine/scheduler/event.rs).    *)
(*                                                                         *)
(* Execution is one thread of calls that nest: a branch that ends runs the   *)
(* statements behind its join from inside fork_finish, where another fork    *)
(* may start.  stack holds the frames of these calls, one per step still to  *)
(* be done, and ret the Boolean the last call returned (all_consumed).       *)
(* What the threads of a design do is a choice among the statements of its   *)
(* class; a delay and an event may end at any time.                          *)
(***************************************************************************)
EXTENDS Naturals, Sequences, FiniteSets

CONSTANTS
  Processes,   \* the top-level processes
  Branches,    \* how many branch threads may be forked
  Width,       \* the branches of a fork
  Length,      \* how many statements a process has; a branch has one
  Designs      \* classes of designs: [top, branch] sets of statement kinds

ASSUME ForkAssumption ==
  /\ {Branches, Width, Length} \subseteq Nat /\ Width > 0
  /\ Processes \cap (0..Branches) = {}

Thread == Processes \cup 1..Branches
Slots == 1..(Branches \div Width)   \* every fork takes Width branches
None == 0   \* no slot, no thread
Kinds == {"join", "any", "all"}   \* "all" is join_none

VARIABLES
  design,      \* the class of the design
  groups,      \* fork_groups: a record per slot, with the fork it stands for
  used,        \* fork_groups.len()
  fork_free,   \* the retired slots, reused from the end
  stack, ret,  \* the calls in progress, and the last result
  name,        \* current_process_name
  suspended,   \* the delays and @ pending: [th, fid, on, proc]
  waits,       \* pending_waits
  wait_forks,  \* pending_wait_forks: [th, fids, proc]
  left,        \* the statements each thread may still execute
  forkOf,      \* history: the fork a branch belongs to
  forks,       \* history: [parent, kind] of each fork
  blocked,     \* history: the fork a thread is blocked in, or 0
  ended,       \* history: the threads that have executed their last statement
  doomed       \* history: the branches a disable fork terminates

engine == <<groups, used, fork_free, name, suspended, waits, wait_forks>>
history == <<left, forkOf, forks, blocked, ended, doomed>>
vars == <<design, groups, used, fork_free, stack, ret, name, suspended, waits, wait_forks,
          left, forkOf, forks, blocked, ended, doomed>>

Top == stack[Len(stack)]
Below == SubSeq(stack, 1, Len(stack) - 1)
Run(t, f) == [k |-> "run", th |-> t, fid |-> f]
Frame(k, f) == [k |-> k, fid |-> f]

Init ==
  /\ design \in Designs
  /\ groups = [f \in Slots |->
       [active |-> FALSE, remaining |-> 0, fired |-> FALSE, reclaimable |-> FALSE,
        spawner |-> None, disabled |-> FALSE, cont |-> None, no |-> 0]]
  /\ used = 0 /\ fork_free = <<>>
  /\ stack = <<>> /\ ret = TRUE /\ name = None
  /\ suspended = {} /\ waits = {} /\ wait_forks = {}
  /\ left = [t \in Thread |-> IF t \in Processes THEN Length ELSE 1]
  /\ forkOf = [t \in Thread |-> 0] /\ forks = <<>>
  /\ blocked = [t \in Thread |-> 0] /\ ended = {} /\ doomed = {}
-----------------------------------------------------------------------------
(* The bookkeeping of core.rs on a table of groups.                         *)

\* alloc_fork_group: the slot retired last, else a new one.
NextSlot == IF fork_free # <<>> THEN fork_free[Len(fork_free)] ELSE used + 1

AnyReclaimable(kind) == TRUE   \* mutant: the slot of a join_any is reused like any other
Reclaimable(kind) == kind # "any"

\* fork_finish on the table g: nothing while a branch is missing; the first time
\* the statements behind the join run, each time the frame "finished" follows.
RefiringFinish(g, f) ==   \* mutant: nothing stops a second run of the continuation
  IF ~g[f].active \/ g[f].remaining > 0 THEN [g |-> g, push |-> <<>>]
  ELSE [g |-> [g EXCEPT ![f].fired = TRUE],
        push |-> IF g[f].cont = None THEN <<Frame("finished", f)>>
                 ELSE <<Frame("finished", f), Run(g[f].cont, None)>>]

Finish(g, f) ==
  IF ~g[f].active \/ g[f].remaining > 0 THEN [g |-> g, push |-> <<>>]
  ELSE [g |-> [g EXCEPT ![f].fired = TRUE, ![f].cont = None],
        push |-> IF g[f].fired \/ g[f].cont = None THEN <<Frame("finished", f)>>
                 ELSE <<Frame("finished", f), Run(g[f].cont, None)>>]

UnguardedDecrement(g, f) ==   \* mutant: a late branch counts below zero
  IF ~g[f].active THEN [g |-> g, push |-> <<>>]
  ELSE Finish([g EXCEPT ![f].remaining = @ - 1], f)

\* fork_decrement: one branch less, and fork_finish.
Decrement(g, f) ==
  IF ~g[f].active THEN [g |-> g, push |-> <<>>]
  ELSE Finish([g EXCEPT ![f].remaining = IF @ > 0 THEN @ - 1 ELSE 0], f)

\* Call r, which pushes frames on base and changes the groups.
Perform(r, base) == groups' = r.g /\ stack' = base \o r.push

\* Who goes on with the statements of a thread is no longer blocked in a fork.
Unblocked(r) ==
  blocked' = [t \in Thread |->
    IF \E i \in DOMAIN r.push : r.push[i] = Run(t, None) THEN 0 ELSE blocked[t]]

\* active_fork_groups_for_current_process
ActiveGroups == {f \in Slots : groups[f].active /\ groups[f].remaining > 0 /\ groups[f].spawner = name}
-----------------------------------------------------------------------------
(* A thread executes statements: evaluate_block_with_delay_fork.             *)

Allowed(t) == IF t \in Processes THEN design.top ELSE design.branch
Executes(kind) ==
  /\ stack # <<>> /\ Top.k = "run" /\ left[Top.th] > 0
  /\ kind \in Allowed(Top.th)
  /\ left' = [left EXCEPT ![Top.th] = @ - 1]

\* The last statement was consumed.
End ==
  /\ stack # <<>> /\ Top.k = "run"
  /\ ended' = ended \cup {Top.th}
  /\ stack' = Below /\ ret' = TRUE
  /\ UNCHANGED <<design, engine, left, forkOf, forks, blocked, doomed>>

LosingSuspend(on) ==   \* mutant: the continuation forgets its branch
  /\ Executes(on)
  /\ suspended' = suspended \cup {[th |-> Top.th, fid |-> None, on |-> on, proc |-> name]}
  /\ stack' = Below /\ ret' = FALSE
  /\ UNCHANGED <<design, groups, used, fork_free, name, waits, wait_forks, forkOf, forks, blocked, ended, doomed>>

\* #n or @(sig): a continuation that remembers its branch is left behind.
Suspend(on) ==
  /\ Executes(on)
  /\ suspended' = suspended \cup {[th |-> Top.th, fid |-> Top.fid, on |-> on, proc |-> name]}
  /\ stack' = Below /\ ret' = FALSE
  /\ UNCHANGED <<design, groups, used, fork_free, name, waits, wait_forks, forkOf, forks, blocked, ended, doomed>>

\* wait (c): what is left of the block is pending, or executed here; the call
\* returns true in both cases.
Wait ==
  /\ Executes("wait")
  /\ \/ waits' = waits \cup {Top.th} /\ stack' = Below /\ ret' = TRUE
     \/ stack' = Below \o <<Frame("true", None), Top>> /\ UNCHANGED <<waits, ret>>
  /\ UNCHANGED <<design, groups, used, fork_free, name, suspended, wait_forks, forkOf, forks, blocked, ended, doomed>>

\* wait fork: pending if a group of this process is active.
WaitFork ==
  /\ Executes("wait fork")
  /\ IF ActiveGroups = {}
     THEN stack' = Below \o <<Frame("true", None), Top>> /\ UNCHANGED <<wait_forks, ret>>
     ELSE /\ wait_forks' = wait_forks \cup {[th |-> Top.th, fids |-> ActiveGroups, proc |-> name]}
          /\ stack' = Below /\ ret' = TRUE
  /\ UNCHANGED <<design, groups, used, fork_free, name, suspended, waits, forkOf, forks, blocked, ended, doomed>>

Children(t) == {c \in 1..Branches : forkOf[c] # 0 /\ forks[forkOf[c]].parent = t}
Counted(t) == {c \in Children(t) : forks[forkOf[c]].kind # "any"}

\* disable fork: every active group of this process is marked.
DisableFork ==
  /\ Executes("disable fork")
  /\ groups' = [f \in Slots |-> IF f \in ActiveGroups THEN [groups[f] EXCEPT !.disabled = TRUE]
                                ELSE groups[f]]
  /\ doomed' = doomed \cup (Counted(Top.th) \ ended)
  /\ UNCHANGED <<design, stack, ret, used, fork_free, name, suspended, waits, wait_forks, forkOf, forks, blocked, ended>>

Unborn == {c \in 1..Branches : forkOf[c] = 0}

\* fork: a group for its branches, which the frame "fork" then starts.
Fork(kind) ==
  LET f == NextSlot
      no == Len(forks) + 1
  IN \E born \in SUBSET Unborn :
     /\ Cardinality(born) = Width /\ \A b \in born, c \in Unborn \ born : b < c
     /\ Executes("fork")
     /\ groups' = [groups EXCEPT ![f] =
          [active |-> TRUE, remaining |-> IF kind = "any" THEN 1 ELSE Width, fired |-> FALSE,
           reclaimable |-> Reclaimable(kind), spawner |-> name, disabled |-> FALSE,
           cont |-> IF kind = "all" THEN None ELSE Top.th, no |-> no]]
     /\ used' = IF fork_free # <<>> THEN used ELSE used + 1
     /\ fork_free' = IF fork_free # <<>> THEN SubSeq(fork_free, 1, Len(fork_free) - 1) ELSE fork_free
     /\ forkOf' = [c \in Thread |-> IF c \in born THEN no ELSE forkOf[c]]
     /\ forks' = Append(forks, [parent |-> Top.th, kind |-> kind])
     /\ blocked' = [blocked EXCEPT ![Top.th] = IF kind = "all" THEN 0 ELSE no]
     /\ stack' = Below \o <<Frame("true", None),
          [k |-> "fork", fid |-> f, kind |-> kind, parent |-> Top.th, todo |-> born,
           cur |-> None, any |-> FALSE]>>
     /\ UNCHANGED <<design, ret, name, suspended, waits, wait_forks, ended, doomed>>

Statement ==
  \/ End \/ Wait \/ WaitFork \/ DisableFork
  \/ \E on \in {"delay", "at"} : Suspend(on)
  \/ \E kind \in Kinds : Fork(kind)
-----------------------------------------------------------------------------
(* The calls that are not finished yet.                                     *)

AtTop(k) == stack # <<>> /\ Top.k = k

\* The call below returned: a handler whose result is always true ...
ReturnTrue ==
  /\ AtTop("true")
  /\ stack' = Below /\ ret' = TRUE
  /\ UNCHANGED <<design, engine, history>>

\* ... and the handlers of a resumed branch: process_event, process_pending_events.
BranchResumed ==
  /\ AtTop("branch")
  /\ LET r == IF ret THEN Decrement(groups, Top.fid) ELSE [g |-> groups, push |-> <<>>]
     IN Perform(r, Below) /\ Unblocked(r)
  /\ UNCHANGED <<design, ret, used, fork_free, name, suspended, waits, wait_forks, left, forkOf, forks, ended, doomed>>

\* The loop over the branches: start one, ...
StartBranch ==
  /\ AtTop("fork") /\ Top.cur = None
  /\ \E c \in Top.todo :
       /\ \A d \in Top.todo : c <= d
       /\ stack' = Below \o <<[Top EXCEPT !.cur = c, !.todo = @ \ {c}], Run(c, Top.fid)>>
  /\ UNCHANGED <<design, ret, engine, history>>

EagerBranchEnd ==   \* mutant: a branch that suspends counts as finished
  /\ AtTop("fork") /\ Top.cur # None
  /\ LET r == Decrement(groups, Top.fid)
     IN /\ Perform(r, Append(Below, [Top EXCEPT !.cur = None, !.any = @ \/ ret]))
        /\ Unblocked(r)
  /\ UNCHANGED <<design, ret, used, fork_free, name, suspended, waits, wait_forks, left, forkOf, forks, ended, doomed>>

\* ... fork_branch_end when it returned, ...
BranchEnd ==
  /\ AtTop("fork") /\ Top.cur # None
  /\ LET r == IF ret THEN Decrement(groups, Top.fid) ELSE [g |-> groups, push |-> <<>>]
     IN /\ Perform(r, Append(Below, [Top EXCEPT !.cur = None, !.any = @ \/ ret]))
        /\ Unblocked(r)
  /\ UNCHANGED <<design, ret, used, fork_free, name, suspended, waits, wait_forks, left, forkOf, forks, ended, doomed>>

\* ... and what each kind of join does behind the loop.
Joined ==
  /\ AtTop("fork") /\ Top.cur = None /\ Top.todo = {}
  /\ \/ /\ Top.kind = "join"
        /\ LET r == Finish(groups, Top.fid) IN Perform(r, Below) /\ Unblocked(r)
     \/ /\ Top.kind = "any"
        /\ LET r == IF Top.any THEN Decrement(groups, Top.fid) ELSE [g |-> groups, push |-> <<>>]
           IN Perform(r, Append(Below, Frame("close", Top.fid))) /\ Unblocked(r)
     \/ /\ Top.kind = "all"
        /\ groups' = [groups EXCEPT ![Top.fid].fired = TRUE]
        /\ stack' = Below \o <<Frame("close", Top.fid), Run(Top.parent, None)>>
        /\ UNCHANGED blocked
  /\ UNCHANGED <<design, ret, used, fork_free, name, suspended, waits, wait_forks, left, forkOf, forks, ended, doomed>>

Close ==
  /\ AtTop("close")
  /\ LET r == Finish(groups, Top.fid) IN Perform(r, Below) /\ Unblocked(r)
  /\ UNCHANGED <<design, ret, used, fork_free, name, suspended, waits, wait_forks, left, forkOf, forks, ended, doomed>>

HastyResumable(f) == {w \in wait_forks : f \in w.fids}   \* mutant: the first group is enough
Resumable(f) == {w \in wait_forks : w.fids \ {f} = {}}

\* check_wait_forks at the end of fork_finish: the threads that need not wait any
\* longer are resumed one by one, then the slot is retired.
Finished ==
  /\ AtTop("finished")
  /\ LET R == Resumable(Top.fid)
         close == IF groups[Top.fid].reclaimable THEN <<Frame("retire", Top.fid)>> ELSE <<>>
     IN /\ wait_forks' = {[w EXCEPT !.fids = @ \ {Top.fid}] : w \in wait_forks \ R}
        /\ stack' = Below \o close \o <<[k |-> "resumed", rest |-> R]>>
  /\ UNCHANGED <<design, ret, groups, used, fork_free, name, suspended, waits, history>>

ResumeWaitFork ==
  /\ AtTop("resumed")
  /\ \/ Top.rest = {} /\ stack' = Below /\ UNCHANGED name
     \/ \E w \in Top.rest :
          /\ stack' = Below \o <<[Top EXCEPT !.rest = @ \ {w}], Run(w.th, None)>>
          /\ name' = w.proc
  /\ UNCHANGED <<design, ret, groups, used, fork_free, suspended, waits, wait_forks, history>>

\* retire_fork_group, idempotent.
Retire ==
  /\ AtTop("retire")
  /\ stack' = Below
  /\ IF groups[Top.fid].active
     THEN /\ groups' = [groups EXCEPT ![Top.fid].active = FALSE, ![Top.fid].fired = TRUE,
                                      ![Top.fid].remaining = 0, ![Top.fid].cont = None]
          /\ fork_free' = Append(fork_free, Top.fid)
     ELSE UNCHANGED <<groups, fork_free>>
  /\ UNCHANGED <<design, ret, used, name, suspended, waits, wait_forks, history>>

Return == \/ ReturnTrue \/ BranchResumed \/ StartBranch \/ BranchEnd \/ Joined \/ Close
          \/ Finished \/ ResumeWaitFork \/ Retire
-----------------------------------------------------------------------------
(* The event loop, when no call is in progress.                             *)

StartProcess(p) ==
  /\ stack = <<>>
  /\ left[p] = Length /\ p \notin ended
  /\ stack' = <<Run(p, None)>>
  /\ name' = p
  /\ UNCHANGED <<design, ret, groups, used, fork_free, suspended, waits, wait_forks, history>>

Handlers(s) ==
  IF s.fid = None THEN <<Run(s.th, None)>>
  ELSE <<[k |-> "branch", fid |-> s.fid, cur |-> s.th], Run(s.th, s.fid)>>

HeedlessResumeDelay(s) ==   \* mutant: a disabled branch goes on
  /\ stack = <<>> /\ s.on = "delay"
  /\ suspended' = suspended \ {s}
  /\ name' = s.proc /\ stack' = Handlers(s)
  /\ UNCHANGED <<design, ret, groups, used, fork_free, waits, wait_forks, history>>

\* process_event for a continuation: a branch of a disabled group is skipped.
ResumeDelay(s) ==
  /\ stack = <<>> /\ s.on = "delay"
  /\ suspended' = suspended \ {s}
  /\ IF s.fid # None /\ groups[s.fid].disabled
     THEN /\ LET r == Decrement(groups, s.fid) IN Perform(r, <<>>) /\ Unblocked(r)
          /\ ended' = ended \cup {s.th}
          /\ UNCHANGED <<name, left, forkOf, forks, doomed>>
     ELSE /\ name' = s.proc /\ stack' = Handlers(s)
          /\ UNCHANGED <<groups, history>>
  /\ UNCHANGED <<design, ret, used, fork_free, waits, wait_forks>>

\* process_pending_events restores no process name and asks for no disable.
ResumeAt(s) ==
  /\ stack = <<>> /\ s.on = "at"
  /\ suspended' = suspended \ {s}
  /\ stack' = Handlers(s)
  /\ UNCHANGED <<design, ret, groups, used, fork_free, name, waits, wait_forks, history>>

\* process_pending_waits
ResumeWait(t) ==
  /\ stack = <<>>
  /\ waits' = waits \ {t}
  /\ stack' = <<Run(t, None)>>
  /\ UNCHANGED <<design, ret, groups, used, fork_free, name, suspended, wait_forks, history>>

Idle ==   \* nothing is scheduled any more
  /\ stack = <<>> /\ suspended = {} /\ waits = {}
  /\ \A p \in Processes : left[p] < Length \/ p \in ended
  /\ UNCHANGED vars

Next ==
  \/ Statement \/ Return \/ Idle
  \/ \E p \in Processes : StartProcess(p)
  \/ \E s \in suspended : ResumeDelay(s) \/ ResumeAt(s)
  \/ \E t \in waits : ResumeWait(t)

Spec == Init /\ [][Next]_vars
-----------------------------------------------------------------------------
(* Properties.                                                              *)

\* Slots, counters and threads keep their ranges: a late branch of a join_any, or
\* one that is skipped, must not count a group below zero.
TypeOK ==
  /\ used \in 0..Cardinality(Slots) /\ Len(forks) <= Cardinality(Slots)
  /\ \A i \in DOMAIN fork_free : fork_free[i] \in 1..used /\ ~groups[fork_free[i]].active
  /\ \A f \in Slots :
       /\ groups[f].remaining \in 0..Width
       /\ groups[f].cont \in Thread \cup {None}
       /\ groups[f].spawner \in Processes \cup {None}
  /\ \A s \in suspended : s.th \in Thread /\ s.fid \in Slots \cup {None}
  /\ waits \subseteq Thread /\ ended \subseteq Thread /\ doomed \subseteq Thread

\* The statements behind a join run only when all its branches have ended, those
\* behind a join_any when one has (fork_decrement, fork_branch_end).
Of(n) == {c \in 1..Branches : forkOf[c] = n}
Complete(n) == IF forks[n].kind = "any" THEN Of(n) \cap ended # {} ELSE Of(n) \subseteq ended
JoinSound ==
  \A n \in DOMAIN forks :
    forks[n].kind # "all" /\ blocked[forks[n].parent] # n => Complete(n)

\* Nobody stays blocked in a fork that is complete once the calls have returned:
\* a join may not hang because a branch suspended and was resumed elsewhere.
JoinCompletes ==
  stack = <<>> => \A t \in Thread : blocked[t] # 0 => ~Complete(blocked[t])

\* A thread is activated at most once: running, suspended, pending in a wait or in
\* a wait fork, blocked in a fork, or ended.  (fired, and the cleared continuation.)
Activations(t) ==
  Cardinality({i \in DOMAIN stack : stack[i].k = "run" /\ stack[i].th = t})
  + Cardinality({s \in suspended : s.th = t}) + Cardinality({w \in wait_forks : w.th = t})
  + Cardinality({i \in DOMAIN stack : stack[i].k = "resumed" /\ \E w \in stack[i].rest : w.th = t})
  + Cardinality({t} \cap waits) + Cardinality({t} \cap ended) + (IF blocked[t] = 0 THEN 0 ELSE 1)
OneActivation == \A t \in Thread : Activations(t) <= 1

\* A suspended branch belongs to the fork that now holds its slot: slots are
\* reused, and the branches a join_any leaves behind must not count in another fork.
NoStaleBranch ==
  \A s \in suspended : s.fid # None => groups[s.fid].active /\ groups[s.fid].no = forkOf[s.th]

\* Between two events every unfinished branch of a join or join_none is accounted
\* for once, in an active group of its process: what wait fork and disable fork
\* look up is the truth.  (A process resumed from @ or wait forks under the name of
\* the process that ran before it, so its groups may bear another name.)
Accounted ==
  stack = <<>> => \A n \in DOMAIN forks :
    LET open == Of(n) \ ended
    IN forks[n].kind # "any" /\ open # {} =>
         \E f \in Slots :
           /\ groups[f].active /\ groups[f].no = n
           /\ groups[f].remaining = Cardinality(open)
           /\ groups[f].spawner = forks[n].parent \/ {"at", "wait"} \cap design.top # {}

\* The groups tell the truth about the branches, unfinished and suspended ones.
GroupsExact == NoStaleBranch /\ Accounted

\* A pending wait fork is over only when every branch its process had forked with
\* join or join_none has ended (check_wait_forks).
WaitForkSound ==
  [][\A w \in wait_forks : (\A v \in wait_forks' : v.th # w.th) => Counted(w.th) \subseteq ended]_vars

\* A branch that disable fork terminates executes nothing any more, whether its
\* delay ends before or after (process_event skips it).
DisableSound ==
  \A i \in DOMAIN stack : stack[i].k = "run" => stack[i].th \notin doomed
=============================================================================
