--------------------------- MODULE ForkGroupsProofs ---------------------------
(***************************************************************************)
(* What the accounting of forks keeps, for any number of processes, branches *)
(* and statements and for every class of designs: a thread is in one place   *)
(* at most; the counter of an active group is the number of its branches     *)
(* that have not returned; and whoever remembers a slot - a suspended        *)
(* branch, a call in progress - finds there the group it was started for.    *)
(* What joins promise in designs whose branches only delay or wait for       *)
(* events is in FlatForksProofs.                                             *)
(***************************************************************************)
EXTENDS ForkGroups, FiniteSetTheorems, SequenceTheorems, TLAPS

Branch == 1..Branches

Group ==
  [active : BOOLEAN, remaining : 0..Width, fired : BOOLEAN, reclaimable : BOOLEAN,
   spawner : Processes \cup {None}, disabled : BOOLEAN, cont : Thread \cup {None}, no : Nat]
Suspension ==
  [th : Thread, fid : Slots \cup {None}, on : {"delay", "at"}, proc : Processes \cup {None}]
Waiter == [th : Thread, fids : SUBSET Slots, proc : Processes \cup {None}]

RunFrame == [k : {"run"}, th : Thread, fid : Slots \cup {None}]
TrueFrame == [k : {"true"}, fid : {None}]
ForkFrame ==
  [k : {"fork"}, fid : Slots, kind : Kinds, parent : Thread, todo : SUBSET Branch,
   cur : Branch \cup {None}, any : BOOLEAN]
BranchFrame == [k : {"branch"}, fid : Slots, cur : Branch]
SlotFrame == [k : {"close", "finished", "retire"}, fid : Slots]
ResumedFrame == [k : {"resumed"}, rest : SUBSET Waiter]
Frames == RunFrame \cup TrueFrame \cup ForkFrame \cup BranchFrame \cup SlotFrame \cup ResumedFrame

\* The ranges of the variables.
Typed ==
  /\ design \in Designs
  /\ groups \in [Slots -> Group]
  /\ used \in Nat
  /\ fork_free \in Seq(Slots)
  /\ stack \in Seq(Frames)
  /\ ret \in BOOLEAN
  /\ name \in Processes \cup {None}
  /\ suspended \subseteq Suspension
  /\ waits \subseteq Thread
  /\ wait_forks \subseteq Waiter
  /\ left \in [Thread -> Nat]
  /\ forkOf \in [Thread -> Nat]
  /\ forks \in Seq([parent : Thread, kind : Kinds])
  /\ blocked \in [Thread -> Nat]
  /\ ended \subseteq Thread
  /\ doomed \subseteq Thread

LEMMA Basics ==
  /\ Branches \in Nat /\ Width \in Nat /\ Length \in Nat /\ Width > 0
  /\ Slots \subseteq Nat \ {0} /\ None = 0 /\ None \notin Slots
  /\ Branch \subseteq Nat \ {0} /\ None \notin Branch /\ None \notin Processes /\ None \notin Thread
  /\ Processes \cap Branch = {} /\ Thread = Processes \cup Branch
  /\ IsFiniteSet(Branch) /\ Cardinality(Branch) = Branches
<1>1. Branches \in Nat /\ Width \in Nat /\ Length \in Nat /\ Width > 0 /\ Processes \cap (0..Branches) = {}
  BY ForkAssumption
<1>2. 0 \in 0..Branches /\ Branch \subseteq 0..Branches
  BY <1>1 DEF Branch
<1>3. Slots \subseteq Nat \ {0}
  BY DEF Slots
<1>4. IsFiniteSet(Branch) /\ Cardinality(Branch) = Branches
  BY <1>1, FS_Interval DEF Branch
<1> QED BY <1>1, <1>2, <1>3, <1>4 DEF None, Thread, Branch

\* A frame has the fields of its kind.
LEMMA FrameFacts ==
  ASSUME NEW x \in Frames
  PROVE  /\ x.k = "run" => x.th \in Thread /\ x.fid \in Slots \cup {None}
         /\ x.k = "fork" => /\ x \in ForkFrame /\ x.fid \in Slots /\ x.kind \in Kinds
                            /\ x.parent \in Thread /\ x.todo \subseteq Branch
                            /\ x.cur \in Branch \cup {None} /\ x.any \in BOOLEAN
         /\ x.k = "branch" => x.fid \in Slots /\ x.cur \in Branch
         /\ x.k \in {"close", "finished", "retire"} => x.fid \in Slots
         /\ x.k = "resumed" => x \in ResumedFrame /\ x.rest \subseteq Waiter
         /\ x.k \in {"run", "true", "fork", "branch", "close", "finished", "retire", "resumed"}
<1>1. CASE x \in RunFrame \cup TrueFrame
  BY <1>1 DEF RunFrame, TrueFrame
<1>2. CASE x \in ForkFrame
  BY <1>2 DEF ForkFrame
<1>3. CASE x \in BranchFrame \cup SlotFrame
  BY <1>3 DEF BranchFrame, SlotFrame
<1>4. CASE x \in ResumedFrame
  BY <1>4 DEF ResumedFrame
<1> QED BY <1>1, <1>2, <1>3, <1>4 DEF Frames

LEMMA FrameTypes ==
  /\ \A t \in Thread, f \in Slots \cup {None} : Run(t, f) \in Frames
  /\ Frame("true", None) \in Frames
  /\ \A f \in Slots : /\ Frame("close", f) \in Frames /\ Frame("finished", f) \in Frames
                      /\ Frame("retire", f) \in Frames
  /\ \A f \in Slots, c \in Branch : [k |-> "branch", fid |-> f, cur |-> c] \in Frames
  /\ \A R \in SUBSET Waiter : [k |-> "resumed", rest |-> R] \in Frames
<1>1. \A t \in Thread, f \in Slots \cup {None} : Run(t, f) \in RunFrame
  BY DEF Run, RunFrame
<1>2. Frame("true", None) \in TrueFrame
  BY DEF Frame, TrueFrame
<1>3. \A f \in Slots : /\ Frame("close", f) \in SlotFrame /\ Frame("finished", f) \in SlotFrame
                       /\ Frame("retire", f) \in SlotFrame
  BY DEF Frame, SlotFrame
<1>4. \A f \in Slots, c \in Branch : [k |-> "branch", fid |-> f, cur |-> c] \in BranchFrame
  BY DEF BranchFrame
<1>5. \A R \in SUBSET Waiter : [k |-> "resumed", rest |-> R] \in ResumedFrame
  BY DEF ResumedFrame
<1> QED BY <1>1, <1>2, <1>3, <1>4, <1>5 DEF Frames

\* The stack without its top, and with frames put on it.
LEMMA TopFacts ==
  ASSUME NEW S, NEW s \in Seq(S), s # <<>>
  PROVE  /\ Len(s) \in Nat /\ Len(s) >= 1 /\ s[Len(s)] \in S
         /\ SubSeq(s, 1, Len(s) - 1) \in Seq(S) /\ Len(SubSeq(s, 1, Len(s) - 1)) = Len(s) - 1
         /\ \A i \in 1..(Len(s) - 1) : SubSeq(s, 1, Len(s) - 1)[i] = s[i]
<1>1. Len(s) \in Nat /\ Len(s) >= 1 /\ \A i \in 1..Len(s) : s[i] \in S
  OBVIOUS
<1> DEFINE n == Len(s) - 1
           b == SubSeq(s, 1, n)
<1>2. n \in Nat /\ 1 \in Int /\ n \in Int /\ \A i \in 1..n : s[i] \in S
  BY <1>1
<1>3. b \in Seq(S) /\ Len(b) = (IF 1 <= n THEN n - 1 + 1 ELSE 0)
  BY <1>2, SubSeqProperties
<1>4. Len(b) = n
  <2> HIDE DEF b, n
  <2> QED BY <1>2, <1>3
<1>5. ASSUME NEW i \in 1..n PROVE b[i] = s[i]
  <2>1. i \in 1..(n - 1 + 1) /\ 1 + i - 1 = i
    BY <1>2
  <2>2. b[i] = s[1 + i - 1]
    BY <1>2, <2>1, SubSeqProperties
  <2> QED BY <2>1, <2>2
<1> QED BY <1>1, <1>3, <1>4, <1>5

LEMMA Push1 ==
  ASSUME NEW S, NEW s \in Seq(S), NEW x \in S
  PROVE  /\ s \o <<x>> \in Seq(S) /\ Len(s \o <<x>>) = Len(s) + 1
         /\ \A i \in 1..Len(s) : (s \o <<x>>)[i] = s[i]
         /\ (s \o <<x>>)[Len(s) + 1] = x
  OBVIOUS

LEMMA Push2 ==
  ASSUME NEW S, NEW s \in Seq(S), NEW x \in S, NEW y \in S
  PROVE  /\ s \o <<x, y>> \in Seq(S) /\ Len(s \o <<x, y>>) = Len(s) + 2
         /\ \A i \in 1..Len(s) : (s \o <<x, y>>)[i] = s[i]
         /\ (s \o <<x, y>>)[Len(s) + 1] = x
         /\ (s \o <<x, y>>)[Len(s) + 2] = y
  OBVIOUS

LEMMA PushNone ==
  ASSUME NEW S, NEW s \in Seq(S)
  PROVE  s \o <<>> = s /\ <<>> \in Seq(S) /\ Len(<<>>) = 0
  BY ConcatEmptySeq
-----------------------------------------------------------------------------
(* The inductive invariant: slots, groups and counters.                      *)

Counts ==
  /\ used <= Len(forks)
  /\ Cardinality(Unborn) + Width * Len(forks) = Branches
  /\ \A t \in Thread : forkOf[t] <= Len(forks)
  /\ \A t \in Processes : forkOf[t] = 0 /\ left[t] <= Length
  /\ \A c \in Branch : left[c] <= 1

\* A slot in the free list is retired, and in it once.
Pool ==
  /\ \A i \in 1..Len(fork_free) : fork_free[i] <= used /\ ~groups[fork_free[i]].active
  /\ \A i, j \in 1..Len(fork_free) : fork_free[i] = fork_free[j] => i = j
  /\ \A f \in Slots : groups[f].active => f <= used

Identified(f) ==
  groups[f].active =>
    /\ groups[f].no \in 1..Len(forks)
    /\ groups[f].reclaimable <=> forks[groups[f].no].kind # "any"
    /\ \A g \in Slots : groups[g].active /\ groups[g].no = groups[f].no => g = f

\* A group that still has its continuation blocks the thread that forked.
Continues(f) ==
  groups[f].cont # None =>
    /\ groups[f].active /\ ~groups[f].fired /\ groups[f].remaining > 0
    /\ blocked[groups[f].cont] = groups[f].no
    /\ forks[groups[f].no].parent = groups[f].cont
    /\ forks[groups[f].no].kind # "all"

Blocking(t) ==
  blocked[t] # 0 =>
    \E f \in Slots : groups[f].active /\ groups[f].no = blocked[t] /\ groups[f].cont = t

GroupInv ==
  /\ \A f \in Slots : Identified(f) /\ Continues(f)
  /\ \A t \in Thread : Blocking(t)

SlotInv == Counts /\ Pool /\ GroupInv
-----------------------------------------------------------------------------
(* The inductive invariant: the calls in progress.                           *)

Busy(x) == x.k \in {"fork", "branch"} /\ x.cur # None
Refers(x) == x.k \in {"fork", "branch", "close", "finished", "retire"}

\* The branches a frame has still to hear of.
Owns(x) ==
  IF x.k = "fork" THEN x.todo \cup ({x.cur} \ {None})
  ELSE IF x.k = "branch" THEN {x.cur} ELSE {}

\* Only the top frame executes statements; the frame of a branch's call is below it.
ShapeAt(i) ==
  /\ stack[i].k = "run" => i = Len(stack) /\ (stack[i].fid # None => stack[i].th \in Branch)
  /\ stack[i].k = "run" /\ stack[i].th \in Branch /\ left[stack[i].th] > 0 =>
       i > 1 /\ Busy(stack[i - 1]) /\ stack[i - 1].cur = stack[i].th
  /\ stack[i].k = "branch" => i = 1
  /\ Busy(stack[i]) /\ i < Len(stack) =>
       \/ stack[i + 1].k = "true"
       \/ stack[i + 1].k = "run" /\ stack[i + 1].th = stack[i].cur /\ stack[i + 1].fid = stack[i].fid

\* Two frames for one slot: a stale "close" below, or a fork right below its end.
Compatible(x, y, next) ==
  Refers(x) /\ Refers(y) /\ x.fid = y.fid =>
    x.k = "close" \/ (x.k = "fork" /\ next /\ y.k \in {"finished", "retire"})
References ==
  \A i \in 1..Len(stack) : \A j \in 1..(i - 1) : Compatible(stack[j], stack[i], i = j + 1)

\* A frame that still counts branches refers to the group of their fork.
LiveFork(x, below) ==
  x.k = "fork" =>
    /\ below \/ Owns(x) # {} \/ x.kind = "any" => groups[x.fid].active
    /\ \A c \in Owns(x) : /\ forkOf[c] = groups[x.fid].no
                          /\ forks[forkOf[c]].parent = x.parent /\ forks[forkOf[c]].kind = x.kind
    /\ x.kind = "all" => groups[x.fid].cont = None
    /\ x.kind = "any" => ~groups[x.fid].reclaimable
    /\ x.kind = "any" /\ x.any => groups[x.fid].remaining = 0
LiveEnd(x) ==
  /\ x.k \in {"finished", "retire"} => groups[x.fid].active /\ groups[x.fid].remaining = 0
  /\ x.k = "retire" => groups[x.fid].reclaimable
  /\ x.k = "branch" => groups[x.fid].active /\ forkOf[x.cur] = groups[x.fid].no
Live == \A i \in 1..Len(stack) : LiveFork(stack[i], i < Len(stack)) /\ LiveEnd(stack[i])

IsSuspended(c) == \E s \in suspended : s.th = c

\* A branch is waited for by one frame, and ret says how its call returned.
OwnedAt(i) ==
  /\ \A j \in 1..Len(stack) : i # j => Owns(stack[i]) \cap Owns(stack[j]) = {}
  /\ stack[i].k = "fork" => stack[i].cur \notin stack[i].todo
  /\ \A c \in Owns(stack[i]) : IsSuspended(c) => stack[i].cur = c /\ i = Len(stack) /\ ~ret
  /\ Busy(stack[i]) /\ i = Len(stack) /\ ~ret => IsSuspended(stack[i].cur)
Owned == \A i \in 1..Len(stack) : OwnedAt(i)

\* A suspended branch remembers the group of its fork.
Remembered ==
  \A s \in suspended :
    /\ s.fid # None <=> s.th \in Branch
    /\ s.fid # None => groups[s.fid].active /\ groups[s.fid].no = forkOf[s.th]

\* A branch that has not returned, and the counter of its group.
Open(c) == IsSuspended(c) \/ \E i \in 1..Len(stack) : c \in Owns(stack[i])
Unreturned(n) == {c \in Of(n) : Open(c)}
AccountOf(f) ==
  groups[f].active =>
    /\ groups[f].reclaimable => groups[f].remaining = Cardinality(Unreturned(groups[f].no))
    /\ ~groups[f].reclaimable =>
         groups[f].remaining <= 1 /\ (groups[f].remaining > 0 => \A c \in Of(groups[f].no) : Open(c))
Account == \A f \in Slots : AccountOf(f)

CallInv ==
  /\ \A i \in 1..Len(stack) : ShapeAt(i)
  /\ References /\ Live /\ Owned /\ Remembered /\ Account
-----------------------------------------------------------------------------
(* The inductive invariant: where a thread is.                               *)

FramePlace(y, t, k, x) ==
  \/ k = "run" /\ y.k = "run" /\ y.th = t /\ x = 0
  \/ k = "resumed" /\ y.k = "resumed" /\ x \in y.rest /\ x.th = t
  \/ k = "parent" /\ y.k = "fork" /\ y.kind = "all" /\ y.parent = t /\ x = 0
  \/ k = "todo" /\ y.k = "fork" /\ t \in y.todo /\ x = 0
RestPlace(t, k, x) ==
  \/ k = "suspended" /\ x \in suspended /\ x.th = t
  \/ k = "waiting" /\ x \in wait_forks /\ x.th = t
  \/ k = "pending" /\ t \in waits /\ x = 0
  \/ k = "ended" /\ t \in ended /\ x = 0
  \/ k = "blocked" /\ blocked[t] # 0 /\ x = 0
  \/ k = "unborn" /\ t \in Unborn /\ x = 0

\* Thread t is in place k: of frame i, or, for i = 0, of the engine's lists; x is
\* the entry of the list.
Holds(t, k, i, x) ==
  \/ i \in 1..Len(stack) /\ FramePlace(stack[i], t, k, x)
  \/ i = 0 /\ RestPlace(t, k, x)

OnePlace ==
  \A t \in Thread : \A k, l, i, j, x, y :
    Holds(t, k, i, x) /\ Holds(t, l, j, y) => k = l /\ i = j /\ x = y

\* A thread that has executed nothing yet is nowhere, or about to execute.
Initial(t) == IF t \in Processes THEN Length ELSE 1
Unexecuted == {"unborn", "todo", "run", "ended"}
Unstarted ==
  \A t \in Thread : left[t] = Initial(t) =>
    \A k, i, x : Holds(t, k, i, x) => k \in Unexecuted

IInv == Typed /\ SlotInv /\ CallInv /\ OnePlace /\ Unstarted
-----------------------------------------------------------------------------
(* What a call of fork_decrement or fork_finish does.                        *)

SlotKeeps(f) ==
  /\ groups' \in [Slots -> Group]
  /\ \A g \in Slots : g # f => groups'[g] = groups[g]
  /\ groups[f].active
  /\ groups'[f].active = groups[f].active /\ groups'[f].no = groups[f].no
  /\ groups'[f].reclaimable = groups[f].reclaimable
  /\ groups'[f].spawner = groups[f].spawner /\ groups'[f].disabled = groups[f].disabled

Quiet(base) == groups' = groups /\ stack' = base /\ blocked' = blocked

\* A branch is missing still; ...
Lessens(f, base) ==
  /\ SlotKeeps(f) /\ groups[f].remaining > 1 /\ groups'[f].remaining = groups[f].remaining - 1
  /\ groups'[f].cont = groups[f].cont /\ groups'[f].fired = groups[f].fired
  /\ stack' = base /\ blocked' = blocked

\* ... the last one has returned, and nobody is blocked; ...
Announces(f, base) ==
  /\ SlotKeeps(f) /\ groups[f].remaining <= 1 /\ groups'[f].remaining = 0
  /\ groups[f].cont = None /\ groups'[f].cont = None
  /\ stack' = base \o <<Frame("finished", f)>> /\ blocked' = blocked

\* ... or the statements behind the join go on.
Continued(f, base) ==
  /\ SlotKeeps(f) /\ groups[f].remaining = 1 /\ groups'[f].remaining = 0
  /\ groups[f].cont # None /\ groups'[f].cont = None
  /\ stack' = base \o <<Frame("finished", f), Run(groups[f].cont, None)>>
  /\ blocked' = [blocked EXCEPT ![groups[f].cont] = 0]

Settles(f, base) == Lessens(f, base) \/ Announces(f, base) \/ Continued(f, base)

LEMMA GroupFields ==
  ASSUME groups \in [Slots -> Group], NEW f \in Slots
  PROVE  /\ groups[f].active \in BOOLEAN /\ groups[f].remaining \in 0..Width
         /\ groups[f].remaining \in Nat /\ groups[f].fired \in BOOLEAN
         /\ groups[f].reclaimable \in BOOLEAN /\ groups[f].spawner \in Processes \cup {None}
         /\ groups[f].disabled \in BOOLEAN /\ groups[f].cont \in Thread \cup {None}
         /\ groups[f].no \in Nat
<1>1. groups[f] \in Group
  OBVIOUS
<1>2. \A x \in 0..Width : x \in Nat
  BY Basics
<1> QED BY <1>1, <1>2 DEF Group

LEMMA RunIsNotFrame == \A k, f, t, g : Frame(k, f) # Run(t, g)
  BY DEF Frame, Run

LEMMA UnblockedNone ==
  ASSUME Typed, NEW r, r.push = <<>> \/ \E f : r.push = <<Frame("finished", f)>>, Unblocked(r)
  PROVE  blocked' = blocked
<1>1. \A t \in Thread : ~\E i \in DOMAIN r.push : r.push[i] = Run(t, None)
  BY RunIsNotFrame
<1>2. blocked' = [t \in Thread |-> blocked[t]]
  BY <1>1 DEF Unblocked
<1> QED BY <1>2 DEF Typed

LEMMA UnblockedOne ==
  ASSUME Typed, NEW r, NEW f, NEW u \in Thread,
         r.push = <<Frame("finished", f), Run(u, None)>>, Unblocked(r)
  PROVE  blocked' = [blocked EXCEPT ![u] = 0]
<1>1. ASSUME NEW t \in Thread
      PROVE  (\E i \in DOMAIN r.push : r.push[i] = Run(t, None)) <=> t = u
  <2>1. DOMAIN r.push = 1..2 /\ r.push[1] = Frame("finished", f) /\ r.push[2] = Run(u, None)
    OBVIOUS
  <2>2. Run(t, None) = Run(u, None) <=> t = u
    BY DEF Run
  <2> QED BY <2>1, <2>2, RunIsNotFrame
<1>2. blocked' = [t \in Thread |-> IF t = u THEN 0 ELSE blocked[t]]
  BY <1>1 DEF Unblocked
<1> QED BY <1>2 DEF Typed

\* fork_finish on a group whose branches have all returned before.
LEMMA FinishMoves ==
  ASSUME Typed, NEW f \in Slots, Continues(f), NEW base \in Seq(Frames),
         Perform(Finish(groups, f), base), Unblocked(Finish(groups, f))
  PROVE  Quiet(base) \/ (Announces(f, base) /\ groups[f].remaining = 0)
<1> DEFINE r == Finish(groups, f)
<1>1. CASE ~groups[f].active \/ groups[f].remaining > 0
  <2>1. r = [g |-> groups, push |-> <<>>]
    BY <1>1 DEF Finish
  <2>2. r.g = groups /\ r.push = <<>>
    BY <2>1
  <2>3. blocked' = blocked
    BY <2>2, UnblockedNone
  <2> QED BY <2>2, <2>3, PushNone DEF Perform, Quiet
<1>2. CASE groups[f].active /\ groups[f].remaining = 0
  <2>0. groups \in [Slots -> Group] /\ groups[f].cont = None
    BY <1>2 DEF Typed, Continues
  <2>1. r = [g |-> [groups EXCEPT ![f].fired = TRUE, ![f].cont = None],
             push |-> <<Frame("finished", f)>>]
    BY <1>2, <2>0 DEF Finish
  <2>2. /\ groups' = [groups EXCEPT ![f].fired = TRUE, ![f].cont = None]
        /\ stack' = base \o <<Frame("finished", f)>> /\ r.push = <<Frame("finished", f)>>
    BY <2>1 DEF Perform
  <2>3. blocked' = blocked
    BY <2>2, UnblockedNone
  <2>4. groups'[f] = [groups[f] EXCEPT !.fired = TRUE, !.cont = None]
    BY <2>0, <2>2
  <2>5. groups[f] \in Group /\ TRUE \in BOOLEAN /\ None \in Thread \cup {None}
    BY <2>0
  <2>6. groups'[f] \in Group
    BY <2>4, <2>5 DEF Group
  <2>7. groups' \in [Slots -> Group] /\ \A g \in Slots : g # f => groups'[g] = groups[g]
    BY <2>0, <2>2, <2>4, <2>6
  <2>8. /\ groups'[f].active = groups[f].active /\ groups'[f].no = groups[f].no
        /\ groups'[f].reclaimable = groups[f].reclaimable
        /\ groups'[f].spawner = groups[f].spawner /\ groups'[f].disabled = groups[f].disabled
        /\ groups'[f].remaining = groups[f].remaining /\ groups'[f].cont = None
    BY <2>4, <2>5 DEF Group
  <2>9. SlotKeeps(f)
    BY <1>2, <2>7, <2>8 DEF SlotKeeps
  <2>10. groups[f].remaining <= 1 /\ groups'[f].remaining = 0
    BY <1>2, <2>8
  <2> QED BY <1>2, <2>0, <2>2, <2>3, <2>8, <2>9, <2>10 DEF Announces
<1> QED BY <1>1, <1>2, GroupFields DEF Typed

\* fork_decrement on an active group.
LEMMA DecrementMoves ==
  ASSUME Typed, NEW f \in Slots, Continues(f), NEW base \in Seq(Frames), groups[f].active,
         Perform(Decrement(groups, f), base), Unblocked(Decrement(groups, f))
  PROVE  Settles(f, base)
<1> DEFINE r == Decrement(groups, f)
           rest == IF groups[f].remaining > 0 THEN groups[f].remaining - 1 ELSE 0
           less == [groups EXCEPT ![f].remaining = rest]
<1>1. groups \in [Slots -> Group] /\ groups[f] \in Group /\ groups[f].remaining \in 0..Width
  BY GroupFields DEF Typed
<1>2. rest \in 0..Width /\ rest \in Nat
  BY <1>1, Basics
<1>3. r = Finish(less, f)
  BY DEF Decrement
<1>4. less \in [Slots -> Group] /\ less[f] = [groups[f] EXCEPT !.remaining = rest]
  <2> HIDE DEF rest
  <2>1. [groups[f] EXCEPT !.remaining = rest] \in Group
    BY <1>1, <1>2 DEF Group
  <2> QED BY <1>1, <2>1
<1>5. /\ less[f].active = groups[f].active /\ less[f].no = groups[f].no
      /\ less[f].reclaimable = groups[f].reclaimable /\ less[f].fired = groups[f].fired
      /\ less[f].spawner = groups[f].spawner /\ less[f].disabled = groups[f].disabled
      /\ less[f].cont = groups[f].cont /\ less[f].remaining = rest
      /\ \A g \in Slots : g # f => less[g] = groups[g]
  <2> HIDE DEF rest
  <2> QED BY <1>1, <1>4 DEF Group
<1> HIDE DEF less
<1>6. CASE rest > 0
  <2>1. r = [g |-> less, push |-> <<>>]
    BY <1>3, <1>5, <1>6 DEF Finish
  <2>2. r.g = less /\ r.push = <<>>
    BY <2>1
  <2>3. blocked' = blocked
    BY <2>2, UnblockedNone
  <2>4. groups' = less /\ stack' = base
    BY <2>2, PushNone DEF Perform
  <2>5. groups[f].remaining > 1 /\ rest = groups[f].remaining - 1
    BY <1>1, <1>6, Basics
  <2>6. groups'[f].remaining = groups[f].remaining - 1
    BY <1>5, <2>4, <2>5
  <2>7. SlotKeeps(f)
    BY <1>4, <1>5, <2>4 DEF SlotKeeps
  <2> QED BY <1>5, <2>3, <2>4, <2>5, <2>6, <2>7 DEF Settles, Lessens
<1>7. CASE rest = 0
  <2>0. groups[f].remaining <= 1
    BY <1>1, <1>7, Basics
  <2> DEFINE done == [less EXCEPT ![f].fired = TRUE, ![f].cont = None]
  <2>1. /\ done \in [Slots -> Group] /\ \A g \in Slots : g # f => done[g] = groups[g]
        /\ done[f] = [less[f] EXCEPT !.fired = TRUE, !.cont = None]
    <3>1. less[f] \in Group /\ TRUE \in BOOLEAN /\ None \in Thread \cup {None}
      BY <1>4
    <3>2. [less[f] EXCEPT !.fired = TRUE, !.cont = None] \in Group
      BY <3>1 DEF Group
    <3>3. done[f] = [less[f] EXCEPT !.fired = TRUE, !.cont = None]
      BY <1>4
    <3> QED BY <1>4, <1>5, <3>2, <3>3
  <2>2. /\ done[f].active = groups[f].active /\ done[f].no = groups[f].no
        /\ done[f].reclaimable = groups[f].reclaimable /\ done[f].cont = None
        /\ done[f].spawner = groups[f].spawner /\ done[f].disabled = groups[f].disabled
        /\ done[f].remaining = 0
    <3>1. less[f] \in Group
      BY <1>4
    <3> QED BY <1>5, <1>7, <2>1, <3>1 DEF Group
  <2> HIDE DEF done
  <2>3. r.g = done
    BY <1>3, <1>5, <1>7 DEF Finish, done
  <2>4. groups' = done /\ SlotKeeps(f)
    BY <2>1, <2>2, <2>3 DEF Perform, SlotKeeps
  <2>5. CASE groups[f].cont = None
    <3>1. r.push = <<Frame("finished", f)>>
      BY <1>3, <1>5, <1>7, <2>5 DEF Finish
    <3>2. blocked' = blocked
      BY <3>1, UnblockedNone
    <3>3. stack' = base \o <<Frame("finished", f)>>
      BY <3>1 DEF Perform
    <3> QED BY <2>0, <2>2, <2>4, <2>5, <3>2, <3>3 DEF Settles, Announces
  <2>6. CASE groups[f].cont # None
    <3>0. ~groups[f].fired /\ groups[f].remaining > 0 /\ groups[f].cont \in Thread
      BY <2>6, GroupFields DEF Continues, Typed
    <3>1. r.push = <<Frame("finished", f), Run(groups[f].cont, None)>>
      BY <1>3, <1>5, <1>7, <2>6, <3>0 DEF Finish
    <3>2. blocked' = [blocked EXCEPT ![groups[f].cont] = 0]
      BY <3>0, <3>1, UnblockedOne
    <3>3. stack' = base \o <<Frame("finished", f), Run(groups[f].cont, None)>>
      BY <3>1 DEF Perform
    <3>4. groups[f].remaining = 1
      BY <1>1, <2>0, <3>0, Basics
    <3> QED BY <2>2, <2>4, <2>6, <3>2, <3>3, <3>4 DEF Settles, Continued
  <2> QED BY <2>5, <2>6
<1> HIDE DEF rest
<1> QED BY <1>2, <1>6, <1>7
-----------------------------------------------------------------------------
(* Slots and groups, for each way the groups change.                         *)

\* What the accounting reads of the groups is unchanged.
SameCore ==
  \A g \in Slots :
    /\ groups'[g].active = groups[g].active /\ groups'[g].remaining = groups[g].remaining
    /\ groups'[g].reclaimable = groups[g].reclaimable /\ groups'[g].no = groups[g].no
    /\ groups'[g].cont = groups[g].cont
    /\ groups[g].cont # None => groups'[g].fired = groups[g].fired

LEMMA GroupsUnchanged == groups' = groups => SameCore
  BY DEF SameCore

LEMMA CountsKept ==
  ASSUME Typed, Counts, UNCHANGED <<used, forkOf, forks>>,
         left' \in [Thread -> Nat], \A t \in Thread : left'[t] <= left[t]
  PROVE  Counts'
<1>0. used' = used /\ forkOf' = forkOf /\ forks' = forks
  OBVIOUS
<1>1. Unborn' = Unborn
  BY <1>0 DEF Unborn
<1>2. \A t \in Processes : left'[t] <= Length
  <2> SUFFICES ASSUME NEW t \in Processes PROVE left'[t] <= Length
    OBVIOUS
  <2>1. t \in Thread /\ left[t] <= Length /\ left'[t] <= left[t] /\ left[t] \in Nat /\ left'[t] \in Nat
    BY Basics DEF Counts, Typed
  <2> QED BY <2>1, Basics
<1>3. \A t \in Branch : left'[t] <= 1
  <2> SUFFICES ASSUME NEW t \in Branch PROVE left'[t] <= 1
    OBVIOUS
  <2>1. t \in Thread /\ left[t] <= 1 /\ left'[t] <= left[t] /\ left[t] \in Nat /\ left'[t] \in Nat
    BY Basics DEF Counts, Typed
  <2> QED BY <2>1
<1> QED BY <1>0, <1>1, <1>2, <1>3 DEF Counts

LEMMA SlotsKept ==
  ASSUME Typed, SlotInv, SameCore, UNCHANGED <<used, fork_free, forkOf, forks, blocked>>,
         left' \in [Thread -> Nat], \A t \in Thread : left'[t] <= left[t]
  PROVE  SlotInv'
<1>0. used' = used /\ fork_free' = fork_free /\ forkOf' = forkOf /\ forks' = forks /\ blocked' = blocked
  OBVIOUS
<1>1. Counts'
  BY CountsKept DEF SlotInv
<1>2. \A i \in 1..Len(fork_free) : fork_free[i] \in Slots
  BY DEF Typed
<1>3. Pool'
  BY <1>0, <1>2 DEF Pool, SameCore, SlotInv
<1>4. ASSUME NEW f \in Slots PROVE Identified(f)'
  <2>1. Identified(f)
    BY DEF SlotInv, GroupInv
  <2> QED BY <1>0, <2>1 DEF Identified, SameCore
<1>5. ASSUME NEW f \in Slots PROVE Continues(f)'
  <2>1. Continues(f)
    BY DEF SlotInv, GroupInv
  <2> QED BY <1>0, <2>1 DEF Continues, SameCore
<1>6. ASSUME NEW t \in Thread PROVE Blocking(t)'
  <2>1. Blocking(t)
    BY DEF SlotInv, GroupInv
  <2> QED BY <1>0, <2>1 DEF Blocking, SameCore
<1> QED BY <1>1, <1>3, <1>4, <1>5, <1>6 DEF SlotInv, GroupInv

LEMMA SettleFields ==
  ASSUME Typed, NEW f \in Slots, NEW base, Settles(f, base)
  PROVE  /\ SlotKeeps(f)
         /\ groups'[f].cont = None \/ (groups'[f].cont = groups[f].cont /\ groups'[f].remaining > 0
                                       /\ groups'[f].fired = groups[f].fired)
         /\ groups'[f].remaining = IF groups[f].remaining > 0 THEN groups[f].remaining - 1 ELSE 0
         /\ groups[f].cont = None \/ groups'[f].cont = groups[f].cont => blocked' = blocked
         /\ groups[f].cont # None /\ groups'[f].cont = None =>
              blocked' = [blocked EXCEPT ![groups[f].cont] = 0]
<1>0. groups[f].remaining \in Nat
  BY GroupFields DEF Typed
<1>1. CASE Lessens(f, base)
  BY <1>0, <1>1 DEF Lessens
<1>2. CASE Announces(f, base)
  <2>1. SlotKeeps(f) /\ groups[f].remaining <= 1 /\ groups'[f].remaining = 0 /\ groups'[f].cont = None
        /\ groups[f].cont = None /\ blocked' = blocked
    BY <1>2 DEF Announces
  <2>2. groups'[f].remaining = IF groups[f].remaining > 0 THEN groups[f].remaining - 1 ELSE 0
    BY <1>0, <2>1
  <2> QED BY <2>1, <2>2
<1>3. CASE Continued(f, base)
  <2>1. SlotKeeps(f) /\ groups[f].remaining = 1 /\ groups'[f].remaining = 0 /\ groups'[f].cont = None
        /\ groups[f].cont # None /\ blocked' = [blocked EXCEPT ![groups[f].cont] = 0]
    BY <1>3 DEF Continued
  <2> QED BY <2>1
<1> QED BY <1>1, <1>2, <1>3 DEF Settles

LEMMA SettleSlots ==
  ASSUME Typed, SlotInv, NEW f \in Slots, NEW base, Settles(f, base),
         UNCHANGED <<used, fork_free, left, forkOf, forks>>
  PROVE  SlotInv'
<1>0. used' = used /\ fork_free' = fork_free /\ forkOf' = forkOf /\ forks' = forks /\ left' = left
  OBVIOUS
<1>1. Counts'
  <2>1. left' \in [Thread -> Nat] /\ \A t \in Thread : left'[t] <= left[t]
    BY <1>0 DEF Typed
  <2> QED BY <2>1, CountsKept DEF SlotInv
<1>2. \A i \in 1..Len(fork_free) : fork_free[i] \in Slots
  BY DEF Typed
<1>3. /\ SlotKeeps(f)
      /\ groups'[f].cont = None \/ (groups'[f].cont = groups[f].cont /\ groups'[f].remaining > 0
                                    /\ groups'[f].fired = groups[f].fired)
      /\ groups[f].cont = None \/ groups'[f].cont = groups[f].cont => blocked' = blocked
      /\ groups[f].cont # None /\ groups'[f].cont = None =>
           blocked' = [blocked EXCEPT ![groups[f].cont] = 0]
  BY SettleFields
<1>a. /\ \A g \in Slots : groups'[g].active = groups[g].active /\ groups'[g].no = groups[g].no
                          /\ groups'[g].reclaimable = groups[g].reclaimable
      /\ \A g \in Slots : g # f => groups'[g] = groups[g]
  BY <1>3 DEF SlotKeeps
<1>4. Pool'
  BY <1>0, <1>2, <1>a DEF Pool, SlotInv
<1>5. ASSUME NEW g \in Slots PROVE Identified(g)'
  <2>1. Identified(g)
    BY DEF SlotInv, GroupInv
  <2> QED BY <1>0, <1>a, <2>1 DEF Identified
<1>6. \A g \in Slots : groups[g].cont \in Thread \cup {None}
  BY GroupFields DEF Typed
<1>7. blocked \in [Thread -> Nat]
  BY DEF Typed
<1>8. ASSUME NEW g \in Slots, groups'[g].cont # None PROVE Continues(g)'
  <2>1. Continues(g) /\ groups[g].cont = groups'[g].cont /\ groups[g].cont \in Thread
    BY <1>3, <1>6, <1>8, <1>a DEF SlotInv, GroupInv
  <2>2. groups'[g].fired = groups[g].fired /\ groups'[g].remaining > 0
    BY <1>3, <1>8, <1>a, <2>1 DEF Continues
  <2>3. blocked'[groups[g].cont] = blocked[groups[g].cont]
    <3>1. CASE groups[f].cont = None \/ groups'[f].cont = groups[f].cont
      BY <1>3, <3>1
    <3>2. CASE groups[f].cont # None /\ groups'[f].cont = None
      <4>1. blocked' = [blocked EXCEPT ![groups[f].cont] = 0] /\ g # f
        BY <1>3, <1>8, <3>2
      <4>2. Continues(f) /\ Identified(f)
        BY DEF SlotInv, GroupInv
      <4>3. groups[f].cont # groups[g].cont
        BY <1>8, <2>1, <3>2, <4>1, <4>2 DEF Continues, Identified
      <4> QED BY <1>7, <2>1, <4>1, <4>3
    <3> QED BY <1>3, <3>1, <3>2
  <2> QED BY <1>0, <1>8, <1>a, <2>1, <2>2, <2>3 DEF Continues
<1>9. ASSUME NEW t \in Thread, blocked'[t] # 0 PROVE Blocking(t)'
  <2>1. blocked[t] = blocked'[t] /\ (groups[f].cont = t => groups'[f].cont = groups[f].cont)
    BY <1>3, <1>6, <1>7, <1>9, Basics
  <2>2. PICK g \in Slots : groups[g].active /\ groups[g].no = blocked[t] /\ groups[g].cont = t
    BY <1>9, <2>1 DEF SlotInv, GroupInv, Blocking
  <2>3. groups'[g].cont = t
    BY <1>a, <2>1, <2>2
  <2> QED BY <1>a, <2>1, <2>2, <2>3 DEF Blocking
<1>10. \A g \in Slots : Continues(g)'
  BY <1>8 DEF Continues
<1>11. \A t \in Thread : Blocking(t)'
  BY <1>9 DEF Blocking
<1> QED BY <1>1, <1>4, <1>5, <1>10, <1>11 DEF SlotInv, GroupInv

\* retire_fork_group on an active group.
Retires(f) ==
  /\ groups' \in [Slots -> Group]
  /\ \A g \in Slots : g # f => groups'[g] = groups[g]
  /\ ~groups'[f].active /\ groups'[f].cont = None /\ groups'[f].remaining = 0
  /\ groups'[f].no = groups[f].no /\ groups'[f].reclaimable = groups[f].reclaimable
  /\ groups'[f].disabled = groups[f].disabled /\ groups'[f].spawner = groups[f].spawner

LEMMA RetireFields ==
  ASSUME Typed, NEW f \in Slots,
         groups' = [groups EXCEPT ![f].active = FALSE, ![f].fired = TRUE,
                                  ![f].remaining = 0, ![f].cont = None]
  PROVE  Retires(f)
<1>1. groups \in [Slots -> Group] /\ groups[f] \in Group
  BY DEF Typed
<1>2. groups'[f] = [groups[f] EXCEPT !.active = FALSE, !.fired = TRUE, !.remaining = 0, !.cont = None]
  BY <1>1
<1>3. FALSE \in BOOLEAN /\ TRUE \in BOOLEAN /\ 0 \in 0..Width /\ None \in Thread \cup {None}
  BY Basics
<1>4. groups'[f] \in Group
  BY <1>1, <1>2, <1>3 DEF Group
<1>5. groups' \in [Slots -> Group] /\ \A g \in Slots : g # f => groups'[g] = groups[g]
  BY <1>1, <1>2, <1>4
<1>6. /\ ~groups'[f].active /\ groups'[f].cont = None /\ groups'[f].remaining = 0
      /\ groups'[f].no = groups[f].no /\ groups'[f].reclaimable = groups[f].reclaimable
      /\ groups'[f].disabled = groups[f].disabled /\ groups'[f].spawner = groups[f].spawner
  BY <1>1, <1>2 DEF Group
<1> QED BY <1>5, <1>6 DEF Retires

LEMMA RetireSlots ==
  ASSUME Typed, SlotInv, NEW f \in Slots, groups[f].active, groups[f].remaining = 0, Retires(f),
         fork_free' = Append(fork_free, f), UNCHANGED <<used, left, forkOf, forks, blocked>>
  PROVE  SlotInv'
<1>0. /\ used' = used /\ forkOf' = forkOf /\ forks' = forks /\ left' = left /\ blocked' = blocked
      /\ \A g \in Slots : g # f => groups'[g] = groups[g]
      /\ ~groups'[f].active /\ groups'[f].cont = None
  BY DEF Retires
<1>1. Counts'
  <2>1. left' \in [Thread -> Nat] /\ \A t \in Thread : left'[t] <= left[t]
    BY <1>0 DEF Typed
  <2> QED BY <1>0, <2>1, CountsKept DEF SlotInv
<1>2. /\ Len(fork_free) \in Nat /\ Len(fork_free') = Len(fork_free) + 1
      /\ \A i \in 1..Len(fork_free) : fork_free'[i] = fork_free[i] /\ fork_free[i] \in Slots
      /\ fork_free'[Len(fork_free) + 1] = f
  BY DEF Typed
<1>3. \A i \in 1..Len(fork_free) : fork_free[i] # f
  BY DEF SlotInv, Pool
<1>4. f <= used
  BY DEF SlotInv, Pool
<1>5. Pool'
  <2>1. ASSUME NEW i \in 1..Len(fork_free')
        PROVE  i \in 1..Len(fork_free) \/ (i = Len(fork_free) + 1 /\ fork_free'[i] = f)
    BY <1>2
  <2>2. \A i \in 1..Len(fork_free') : fork_free'[i] <= used' /\ ~groups'[fork_free'[i]].active
    BY <1>0, <1>2, <1>3, <1>4, <2>1 DEF SlotInv, Pool
  <2>3. \A i, j \in 1..Len(fork_free') : fork_free'[i] = fork_free'[j] => i = j
    <3> SUFFICES ASSUME NEW i \in 1..Len(fork_free'), NEW j \in 1..Len(fork_free'),
                        fork_free'[i] = fork_free'[j]
                 PROVE  i = j
      OBVIOUS
    <3>1. CASE i \in 1..Len(fork_free) /\ j \in 1..Len(fork_free)
      BY <1>2, <3>1 DEF SlotInv, Pool
    <3> QED BY <1>2, <1>3, <2>1, <3>1
  <2>4. \A g \in Slots : groups'[g].active => g <= used'
    BY <1>0 DEF SlotInv, Pool
  <2> QED BY <2>2, <2>3, <2>4 DEF Pool
<1>6. ASSUME NEW g \in Slots PROVE Identified(g)'
  <2>1. Identified(g)
    BY DEF SlotInv, GroupInv
  <2>2. CASE g = f
    BY <1>0, <2>2 DEF Identified
  <2>3. CASE g # f
    BY <1>0, <2>1, <2>3 DEF Identified
  <2> QED BY <2>2, <2>3
<1>7. ASSUME NEW g \in Slots PROVE Continues(g)'
  <2>1. Continues(g)
    BY DEF SlotInv, GroupInv
  <2>2. CASE g = f
    BY <1>0, <2>2 DEF Continues
  <2>3. CASE g # f
    BY <1>0, <2>1, <2>3 DEF Continues
  <2> QED BY <2>2, <2>3
<1>8. ASSUME NEW t \in Thread, blocked[t] # 0 PROVE Blocking(t)'
  <2>1. PICK g \in Slots : groups[g].active /\ groups[g].no = blocked[t] /\ groups[g].cont = t
    BY <1>8 DEF SlotInv, GroupInv, Blocking
  <2>2. groups[g].remaining > 0
    <3>1. Continues(g) /\ t # None
      BY Basics DEF SlotInv, GroupInv
    <3> QED BY <2>1, <3>1 DEF Continues
  <2>3. g # f
    BY <2>2
  <2> QED BY <1>0, <2>1, <2>3 DEF Blocking
<1>9. \A t \in Thread : Blocking(t)'
  BY <1>0, <1>8 DEF Blocking
<1> QED BY <1>1, <1>5, <1>6, <1>7, <1>9 DEF SlotInv, GroupInv

LEMMA Quotient ==
  ASSUME NEW a \in Nat, NEW b \in Nat, b > 0, NEW k \in Nat, b * k <= a
  PROVE  k <= a \div b
<1> DEFINE q == a \div b
<1>1. q \in Nat /\ a < b * (q + 1)
  OBVIOUS
<1> HIDE DEF q
<1>2. CASE k >= q + 1
  <2>1. b * k >= b * (q + 1)
    BY <1>1, <1>2
  <2> QED BY <1>1, <2>1
<1> QED BY <1>1, <1>2

\* While branches are left, so is a slot that no active group holds.
LEMMA SlotLeft ==
  ASSUME Typed, SlotInv, NEW born \in SUBSET Unborn, Cardinality(born) = Width
  PROVE  /\ NextSlot \in Slots /\ ~groups[NextSlot].active
         /\ Width * (Len(forks) + 1) <= Branches
         /\ IsFiniteSet(Unborn) /\ Cardinality(Unborn) \in Nat
         /\ Cardinality(Unborn \ born) = Cardinality(Unborn) - Width
<1>0. Unborn \subseteq Branch /\ Len(forks) \in Nat
  BY DEF Unborn, Branch, Typed
<1>1. IsFiniteSet(Unborn)
  BY <1>0, Basics, FS_Subset
<1>2. Cardinality(Unborn) \in Nat
  BY <1>1, FS_CardinalityType
<1>3. IsFiniteSet(born) /\ Cardinality(born) <= Cardinality(Unborn)
  BY <1>1, FS_Subset
<1>4. Cardinality(Unborn) + Width * Len(forks) = Branches
  BY DEF SlotInv, Counts
<1>5. Width * (Len(forks) + 1) <= Branches
  <2> DEFINE l == Len(forks)
             u == Cardinality(Unborn)
  <2>1. l \in Nat /\ u \in Nat /\ Width \in Nat /\ Width <= u /\ u + Width * l = Branches
    BY <1>0, <1>2, <1>3, <1>4, Basics
  <2> HIDE DEF l, u
  <2>2. Width * (l + 1) = Width * l + Width
    BY <2>1
  <2>3. Width * l \in Nat
    BY <2>1
  <2> QED BY <2>1, <2>2, <2>3, Basics DEF l
<1>6. Len(forks) + 1 \in Slots
  <2>1. Len(forks) + 1 <= Branches \div Width
    BY <1>0, <1>5, Basics, Quotient
  <2>2. Branches \div Width \in Nat
    BY Basics
  <2> QED BY <1>0, <2>1, <2>2 DEF Slots
<1>7. NextSlot \in Slots /\ ~groups[NextSlot].active
  <2>1. CASE fork_free # <<>>
    <3>1. Len(fork_free) \in 1..Len(fork_free) /\ fork_free[Len(fork_free)] \in Slots
      BY <2>1 DEF Typed
    <3> QED BY <2>1, <3>1 DEF NextSlot, SlotInv, Pool
  <2>2. CASE fork_free = <<>>
    <3>1. used \in Nat /\ used <= Len(forks)
      BY DEF Typed, SlotInv, Counts
    <3>2. used + 1 \in Slots
      <4>1. Branches \div Width \in Nat
        BY Basics
      <4> QED BY <1>0, <1>6, <3>1, <4>1 DEF Slots
    <3>3. ~groups[used + 1].active
      BY <3>1, <3>2 DEF SlotInv, Pool
    <3> QED BY <2>2, <3>2, <3>3 DEF NextSlot
  <2> QED BY <2>1, <2>2
<1>8. Cardinality(Unborn \ born) = Cardinality(Unborn) - Width
  <2> DEFINE U == Unborn
             V == Unborn \ born
  <2>1. IsFiniteSet(U) /\ born \subseteq U
    BY <1>1
  <2>2. Cardinality(U \ born) = Cardinality(U) - Cardinality(U \cap born)
    <3> HIDE DEF U
    <3> QED BY <2>1, <1>3, FS_Difference
  <2>3. U \cap born = born
    BY <2>1
  <2> QED BY <2>2, <2>3
<1> QED BY <1>1, <1>2, <1>5, <1>7, <1>8

\* A fork of the running thread opens slot f for the branches born.
Opens(f, kind, parent, born) ==
  /\ f \in Slots /\ ~groups[f].active
  /\ groups' \in [Slots -> Group]
  /\ \A g \in Slots : g # f => groups'[g] = groups[g]
  /\ groups'[f].active /\ groups'[f].no = Len(forks) + 1
  /\ groups'[f].remaining = IF kind = "any" THEN 1 ELSE Width
  /\ ~groups'[f].fired /\ ~groups'[f].disabled /\ groups'[f].spawner = name
  /\ groups'[f].reclaimable <=> kind # "any"
  /\ groups'[f].cont = IF kind = "all" THEN None ELSE parent
  /\ forkOf' = [c \in Thread |-> IF c \in born THEN Len(forks) + 1 ELSE forkOf[c]]
  /\ forks' = Append(forks, [parent |-> parent, kind |-> kind])
  /\ blocked' = [blocked EXCEPT ![parent] = IF kind = "all" THEN 0 ELSE Len(forks) + 1]

LEMMA ForkFields ==
  ASSUME Typed, NEW f \in Slots, ~groups[f].active, NEW kind \in Kinds, NEW parent \in Thread, NEW born,
         groups' = [groups EXCEPT ![f] =
           [active |-> TRUE, remaining |-> IF kind = "any" THEN 1 ELSE Width, fired |-> FALSE,
            reclaimable |-> Reclaimable(kind), spawner |-> name, disabled |-> FALSE,
            cont |-> IF kind = "all" THEN None ELSE parent, no |-> Len(forks) + 1]],
         forkOf' = [c \in Thread |-> IF c \in born THEN Len(forks) + 1 ELSE forkOf[c]],
         forks' = Append(forks, [parent |-> parent, kind |-> kind]),
         blocked' = [blocked EXCEPT ![parent] = IF kind = "all" THEN 0 ELSE Len(forks) + 1]
  PROVE  Opens(f, kind, parent, born)
<1> DEFINE rem == IF kind = "any" THEN 1 ELSE Width
           cont == IF kind = "all" THEN None ELSE parent
           rec == kind # "any"
           new == [active |-> TRUE, remaining |-> rem, fired |-> FALSE,
                   reclaimable |-> rec, spawner |-> name, disabled |-> FALSE,
                   cont |-> cont, no |-> Len(forks) + 1]
<1>1. rem \in 0..Width /\ cont \in Thread \cup {None} /\ rec \in BOOLEAN
  BY Basics
<1>2. Len(forks) + 1 \in Nat /\ name \in Processes \cup {None} /\ groups \in [Slots -> Group]
  BY DEF Typed
<1>3. groups' = [groups EXCEPT ![f] = new]
  BY DEF Reclaimable
<1>4. new \in Group
  <2> HIDE DEF rem, cont, rec
  <2> QED BY <1>1, <1>2 DEF Group
<1>5. groups'[f] = new /\ groups' \in [Slots -> Group] /\ \A g \in Slots : g # f => groups'[g] = groups[g]
  <2> HIDE DEF new
  <2> QED BY <1>2, <1>3, <1>4
<1>6. /\ groups'[f].active /\ groups'[f].no = Len(forks) + 1
      /\ groups'[f].remaining = rem
      /\ ~groups'[f].fired /\ ~groups'[f].disabled /\ groups'[f].spawner = name
      /\ groups'[f].reclaimable = rec
      /\ groups'[f].cont = cont
  <2> HIDE DEF rem, cont, rec
  <2> QED BY <1>5
<1> QED BY <1>5, <1>6 DEF Opens

LEMMA ForkSlots ==
  ASSUME Typed, SlotInv, NEW kind \in Kinds, NEW parent \in Thread, blocked[parent] = 0,
         NEW born \in SUBSET Unborn, Cardinality(born) = Width, Opens(NextSlot, kind, parent, born),
         used' = IF fork_free # <<>> THEN used ELSE used + 1,
         fork_free' = IF fork_free # <<>> THEN SubSeq(fork_free, 1, Len(fork_free) - 1) ELSE fork_free,
         left' \in [Thread -> Nat], \A t \in Thread : left'[t] <= left[t]
  PROVE  SlotInv'
<1> DEFINE f == NextSlot
           no == Len(forks) + 1
<1>0. /\ f \in Slots /\ ~groups[f].active
      /\ \A g \in Slots : g # f => groups'[g] = groups[g]
      /\ groups'[f].active /\ groups'[f].no = no
      /\ groups'[f].reclaimable <=> kind # "any"
      /\ groups'[f].cont = IF kind = "all" THEN None ELSE parent
  BY DEF Opens
<1>1. /\ Len(forks) \in Nat /\ Len(forks') = no /\ no \in Nat
      /\ forks'[no] = [parent |-> parent, kind |-> kind]
      /\ \A n \in 1..Len(forks) : forks'[n] = forks[n]
  <2>1. forks' = Append(forks, [parent |-> parent, kind |-> kind])
    BY DEF Opens
  <2>2. [parent |-> parent, kind |-> kind] \in [parent : Thread, kind : Kinds]
    OBVIOUS
  <2> QED BY <2>1, <2>2 DEF Typed
<1>2. \A c \in Thread : forkOf'[c] = IF c \in born THEN no ELSE forkOf[c]
  BY DEF Opens
<1>2a. born \subseteq Branch /\ \A c \in Branch : c \in Thread
  BY Basics DEF Unborn, Branch
<1>2b. /\ fork_free \in Seq(Slots) /\ used \in Nat /\ used <= Len(forks)
       /\ \A i \in 1..Len(fork_free) : fork_free[i] <= used /\ ~groups[fork_free[i]].active
       /\ \A i, j \in 1..Len(fork_free) : fork_free[i] = fork_free[j] => i = j
  BY DEF Typed, SlotInv, Pool, Counts
<1>3. Counts'
  <2>1. used' <= Len(forks')
    BY <1>1, <1>2b
  <2>2. Unborn' = Unborn \ born
    <3>1. \A c \in Branch : forkOf'[c] = 0 <=> forkOf[c] = 0 /\ c \notin born
      BY <1>1, <1>2, <1>2a
    <3>2. Unborn' = {c \in Branch : forkOf'[c] = 0} /\ Unborn = {c \in Branch : forkOf[c] = 0}
      BY DEF Unborn, Branch
    <3> QED BY <3>1, <3>2
  <2>3. Cardinality(Unborn') + Width * Len(forks') = Branches
    <3> DEFINE l == Len(forks)
               u == Cardinality(Unborn)
    <3>1. /\ l \in Nat /\ u \in Nat /\ Width \in Nat /\ u + Width * l = Branches
          /\ Cardinality(Unborn') = u - Width /\ Len(forks') = l + 1
      BY <1>1, <2>2, SlotLeft, Basics DEF SlotInv, Counts
    <3> HIDE DEF l, u
    <3>2. Width * (l + 1) = Width * l + Width
      BY <3>1
    <3>3. Width * l \in Nat
      BY <3>1
    <3>4. u - Width + (Width * l + Width) = u + Width * l
      BY <3>1, <3>3
    <3> QED BY <3>1, <3>2, <3>4
  <2>4. \A t \in Thread : forkOf'[t] <= Len(forks')
    <3> SUFFICES ASSUME NEW t \in Thread PROVE forkOf'[t] <= Len(forks')
      OBVIOUS
    <3>1. forkOf[t] \in Nat /\ forkOf[t] <= Len(forks)
      BY DEF Typed, SlotInv, Counts
    <3> QED BY <1>1, <1>2, <3>1
  <2>5. \A t \in Processes : forkOf'[t] = 0 /\ left'[t] <= Length
    <3> SUFFICES ASSUME NEW t \in Processes PROVE forkOf'[t] = 0 /\ left'[t] <= Length
      OBVIOUS
    <3>1. t \in Thread /\ t \notin born /\ forkOf[t] = 0 /\ left[t] <= Length /\ left'[t] <= left[t]
      BY <1>2a, Basics DEF SlotInv, Counts
    <3>2. left[t] \in Nat /\ left'[t] \in Nat
      BY <3>1 DEF Typed
    <3> QED BY <1>2, <3>1, <3>2, Basics
  <2>6. \A c \in Branch : left'[c] <= 1
    <3> SUFFICES ASSUME NEW t \in Branch PROVE left'[t] <= 1
      OBVIOUS
    <3>1. t \in Thread /\ left[t] <= 1 /\ left'[t] <= left[t]
      BY Basics DEF SlotInv, Counts
    <3>2. left[t] \in Nat /\ left'[t] \in Nat
      BY <3>1 DEF Typed
    <3> QED BY <3>1, <3>2
  <2> QED BY <2>1, <2>3, <2>4, <2>5, <2>6 DEF Counts
<1> HIDE DEF f, no
<1>4. Pool'
  <2>1. CASE fork_free # <<>>
    <3>1. /\ Len(fork_free) \in Nat /\ Len(fork_free) >= 1
          /\ f = fork_free[Len(fork_free)] /\ used' = used
          /\ fork_free' \in Seq(Slots) /\ Len(fork_free') = Len(fork_free) - 1
          /\ \A i \in 1..(Len(fork_free) - 1) : fork_free'[i] = fork_free[i]
      BY <1>2b, <2>1, TopFacts DEF NextSlot, f
    <3>2. \A i \in 1..Len(fork_free') : fork_free'[i] # f /\ fork_free'[i] = fork_free[i]
                                        /\ i \in 1..Len(fork_free) /\ fork_free[i] \in Slots
      BY <1>2b, <3>1
    <3>3. f <= used'
      BY <1>2b, <3>1
    <3>4. \A i \in 1..Len(fork_free') : fork_free'[i] <= used' /\ ~groups'[fork_free'[i]].active
      <4> SUFFICES ASSUME NEW i \in 1..Len(fork_free')
                   PROVE  fork_free'[i] <= used' /\ ~groups'[fork_free'[i]].active
        OBVIOUS
      <4> DEFINE g == fork_free[i]
      <4>1. fork_free'[i] = g /\ g # f /\ g \in Slots /\ i \in 1..Len(fork_free)
        BY <3>2
      <4>2. g <= used /\ ~groups[g].active
        BY <1>2b, <4>1
      <4> HIDE DEF g
      <4> QED BY <1>0, <3>1, <4>1, <4>2
    <3>5. \A i, j \in 1..Len(fork_free') : fork_free'[i] = fork_free'[j] => i = j
      BY <1>2b, <3>1, <3>2
    <3>6. \A g \in Slots : groups'[g].active => g <= used'
      BY <1>0, <3>1, <3>3 DEF SlotInv, Pool
    <3> QED BY <3>4, <3>5, <3>6 DEF Pool
  <2>2. CASE fork_free = <<>>
    <3>1. fork_free' = <<>> /\ used' = used + 1 /\ f = used + 1
      BY <2>2 DEF NextSlot, f
    <3>2. \A g \in Slots : groups'[g].active => g <= used'
      <4> SUFFICES ASSUME NEW g \in Slots, groups'[g].active PROVE g <= used'
        OBVIOUS
      <4>1. CASE g = f
        BY <1>2b, <3>1, <4>1
      <4>2. CASE g # f
        <5>1. g <= used /\ g \in Nat
          BY <1>0, <4>2, Basics DEF SlotInv, Pool
        <5> QED BY <1>2b, <3>1, <5>1
      <4> QED BY <4>1, <4>2
    <3>3. 1..Len(fork_free') = {}
      BY <3>1
    <3> QED BY <3>2, <3>3 DEF Pool
  <2> QED BY <2>1, <2>2
<1>5. \A g \in Slots : groups[g].no \in Nat /\ groups[g].cont \in Thread \cup {None}
  BY GroupFields DEF Typed
<1>6. ASSUME NEW g \in Slots, groups'[g].active PROVE Identified(g)'
  <2>0. \A h \in Slots : Identified(h)
    BY DEF SlotInv, GroupInv
  <2>1. CASE g = f
    <3>1. \A h \in Slots : groups'[h].active /\ groups'[h].no = no => h = f
      <4> SUFFICES ASSUME NEW h \in Slots, groups'[h].active, groups'[h].no = no, h # f PROVE FALSE
        OBVIOUS
      <4>1. groups[h].no \in 1..Len(forks) /\ groups[h].no = no
        BY <1>0, <2>0 DEF Identified
      <4> QED BY <1>1, <4>1 DEF no
    <3>2. no \in 1..Len(forks')
      BY <1>1 DEF no
    <3>3. forks'[no].kind = kind
      BY <1>1
    <3> QED BY <1>0, <2>1, <3>1, <3>2, <3>3 DEF Identified
  <2>2. CASE g # f
    <3>1. /\ groups'[g] = groups[g] /\ groups[g].active /\ groups[g].no \in 1..Len(forks)
          /\ groups[g].reclaimable <=> forks[groups[g].no].kind # "any"
          /\ \A h \in Slots : groups[h].active /\ groups[h].no = groups[g].no => h = g
      BY <1>0, <1>6, <2>0, <2>2 DEF Identified
    <3>2. groups[g].no # no /\ groups[g].no \in 1..Len(forks') /\ forks'[groups[g].no] = forks[groups[g].no]
      BY <1>1, <3>1 DEF no
    <3>3. \A h \in Slots : groups'[h].active /\ groups'[h].no = groups'[g].no => h = g
      BY <1>0, <3>1, <3>2
    <3> QED BY <3>1, <3>2, <3>3 DEF Identified
  <2> QED BY <2>1, <2>2
<1>7. \A t \in Thread : blocked'[t] =
        IF t = parent THEN (IF kind = "all" THEN 0 ELSE no) ELSE blocked[t]
  BY DEF Opens, Typed, no
<1>8. ASSUME NEW g \in Slots, groups'[g].cont # None PROVE Continues(g)'
  <2>1. CASE g = f
    <3>1. kind # "all" /\ groups'[f].cont = parent /\ blocked'[parent] = no
      BY <1>0, <1>7, <1>8, <2>1
    <3>2. groups'[f].remaining > 0 /\ ~groups'[f].fired
      BY Basics DEF Opens, f
    <3>3. forks'[no].parent = parent /\ forks'[no].kind = kind
      BY <1>1
    <3> QED BY <1>0, <2>1, <3>1, <3>2, <3>3 DEF Continues
  <2>2. CASE g # f
    <3>1. groups'[g] = groups[g] /\ Continues(g) /\ Identified(g)
      BY <1>0, <2>2 DEF SlotInv, GroupInv
    <3>2. groups[g].no \in 1..Len(forks) /\ groups[g].no # 0
      BY <1>1, <1>8, <3>1 DEF Continues, Identified
    <3>3. groups[g].cont # parent /\ groups[g].cont \in Thread
      BY <1>5, <1>8, <3>1, <3>2 DEF Continues
    <3>4. blocked'[groups[g].cont] = blocked[groups[g].cont] /\ forks'[groups[g].no] = forks[groups[g].no]
      BY <1>1, <1>7, <3>2, <3>3
    <3> QED BY <1>8, <3>1, <3>4 DEF Continues
  <2> QED BY <2>1, <2>2
<1>9. ASSUME NEW t \in Thread, blocked'[t] # 0 PROVE Blocking(t)'
  <2>1. CASE t = parent
    <3>1. kind # "all" /\ blocked'[t] = no
      BY <1>7, <1>9, <2>1
    <3> QED BY <1>0, <2>1, <3>1 DEF Blocking
  <2>2. CASE t # parent
    <3>1. blocked'[t] = blocked[t]
      BY <1>7, <2>2
    <3>2. PICK g \in Slots : groups[g].active /\ groups[g].no = blocked[t] /\ groups[g].cont = t
      BY <1>9, <3>1 DEF SlotInv, GroupInv, Blocking
    <3>3. g # f
      BY <1>0, <3>2
    <3> QED BY <1>0, <3>1, <3>2, <3>3 DEF Blocking
  <2> QED BY <2>1, <2>2
<1>10. /\ \A g \in Slots : Identified(g)' /\ Continues(g)'
       /\ \A t \in Thread : Blocking(t)'
  BY <1>6, <1>8, <1>9 DEF Identified, Continues, Blocking
<1> QED BY <1>3, <1>4, <1>10 DEF SlotInv, GroupInv
-----------------------------------------------------------------------------
(* The calls in progress, for a step that replaces the top frame.            *)

\* The frames up to m stay, and what is above them, the top, goes.
Keeps(m) ==
  /\ m \in Nat /\ m <= Len(stack) /\ m <= Len(stack') /\ \A i \in 1..m : stack'[i] = stack[i]
  /\ Len(stack) = m + 1 \/ (Len(stack) = m /\ (m = 0 \/ Len(stack') = m))

LiveAt(i) == LiveFork(stack[i], i < Len(stack)) /\ LiveEnd(stack[i])

\* The groups keep their forks, and count no branch more.
Drained ==
  \A g \in Slots :
    /\ groups'[g].active = groups[g].active /\ groups'[g].no = groups[g].no
    /\ groups'[g].reclaimable = groups[g].reclaimable
    /\ groups'[g].remaining = groups[g].remaining \/ groups[g].remaining > 0
    /\ groups'[g].cont = groups[g].cont \/ groups'[g].cont = None

LEMMA ShapeStep ==
  ASSUME Typed, NEW m, Keeps(m), \A i \in 1..Len(stack) : ShapeAt(i),
         \A i \in (m + 1)..Len(stack') : ShapeAt(i)',
         \A t \in Thread : left'[t] \in Nat /\ left'[t] <= left[t],
         m > 0 /\ Busy(stack[m]) /\ Len(stack') > m =>
           \/ stack'[m + 1].k = "true"
           \/ stack'[m + 1].k = "run" /\ stack'[m + 1].th = stack[m].cur
                                      /\ stack'[m + 1].fid = stack[m].fid
  PROVE  \A i \in 1..Len(stack') : ShapeAt(i)'
<1> SUFFICES ASSUME NEW i \in 1..Len(stack') PROVE ShapeAt(i)'
  OBVIOUS
<1>1. CASE i \in (m + 1)..Len(stack')
  BY <1>1
<1>2. CASE i \in 1..m
  <2>1. /\ i \in 1..Len(stack) /\ stack'[i] = stack[i] /\ i <= m /\ m <= Len(stack')
        /\ i > 1 => stack'[i - 1] = stack[i - 1]
        /\ i < m => stack'[i + 1] = stack[i + 1]
    <3>1. /\ m \in Nat /\ m <= Len(stack) /\ m <= Len(stack') /\ \A j \in 1..m : stack'[j] = stack[j]
          /\ Len(stack) \in Nat
      BY DEF Keeps, Typed
    <3> QED BY <1>2, <3>1
  <2>2. ShapeAt(i) /\ stack[i] \in Frames /\ Len(stack) \in Nat /\ m \in Nat
    BY <2>1 DEF Typed, Keeps
  <2>3. /\ stack[i].k = "run" => i = Len(stack') /\ (stack[i].fid # None => stack[i].th \in Branch)
        /\ stack[i].k = "branch" => i = 1
    BY <2>1, <2>2 DEF ShapeAt, Keeps
  <2>4. stack[i].k = "run" /\ stack[i].th \in Branch /\ left'[stack[i].th] > 0 =>
          i > 1 /\ Busy(stack[i - 1]) /\ stack[i - 1].cur = stack[i].th
    <3> SUFFICES ASSUME stack[i].k = "run", stack[i].th \in Branch, left'[stack[i].th] > 0
                 PROVE  i > 1 /\ Busy(stack[i - 1]) /\ stack[i - 1].cur = stack[i].th
      OBVIOUS
    <3>1. stack[i].th \in Thread
      BY Basics
    <3>2. left[stack[i].th] > 0
      <4> DEFINE t == stack[i].th
      <4>1. left[t] \in Nat /\ left'[t] \in Nat /\ left'[t] <= left[t] /\ left'[t] > 0
        BY <3>1 DEF Typed
      <4> HIDE DEF t
      <4> QED BY <4>1 DEF t
    <3> QED BY <2>2, <3>2 DEF ShapeAt
  <2>5. Busy(stack[i]) /\ i < Len(stack') =>
          \/ stack'[i + 1].k = "true"
          \/ stack'[i + 1].k = "run" /\ stack'[i + 1].th = stack[i].cur /\ stack'[i + 1].fid = stack[i].fid
    <3>1. CASE i = m
      BY <1>2, <2>1, <3>1
    <3>2. CASE i < m
      BY <2>1, <2>2, <3>2 DEF ShapeAt, Keeps
    <3> QED BY <1>2, <2>2, <3>1, <3>2
  <2> QED BY <2>1, <2>3, <2>4, <2>5 DEF ShapeAt, Busy
<1>3. m \in Nat
  BY DEF Keeps
<1> QED BY <1>1, <1>2, <1>3

LEMMA ReferStep ==
  ASSUME Typed, NEW m, Keeps(m), References,
         \A i \in (m + 1)..Len(stack') :
           /\ \A j \in (m + 1)..(i - 1) : Compatible(stack'[j], stack'[i], i = j + 1)
           /\ \A j \in 1..m : Compatible(stack[j], stack'[i], i = j + 1)
  PROVE  References'
<1> SUFFICES ASSUME NEW i \in 1..Len(stack'), NEW j \in 1..(i - 1)
             PROVE  Compatible(stack'[j], stack'[i], i = j + 1)
  BY DEF References, Compatible, Refers
<1>0. m \in Nat /\ m <= Len(stack) /\ m <= Len(stack') /\ \A l \in 1..m : stack'[l] = stack[l]
  BY DEF Keeps
<1>1. CASE i \in 1..m
  <2>1. i \in 1..Len(stack) /\ stack'[i] = stack[i] /\ stack'[j] = stack[j]
    BY <1>0, <1>1 DEF Typed
  <2> QED BY <2>1 DEF References
<1>2. CASE i \in (m + 1)..Len(stack') /\ j \in 1..m
  BY <1>0, <1>2
<1>3. CASE i \in (m + 1)..Len(stack') /\ j \in (m + 1)..(i - 1)
  BY <1>3
<1> QED BY <1>0, <1>1, <1>2, <1>3

\* A frame that refers to the slot the top referred to agrees with those below.
LEMMA ReferTop ==
  ASSUME Typed, NEW m, Keeps(m), References, Len(stack) = m + 1, NEW y, NEW i \in Nat,
         Refers(stack[m + 1]), y.fid = stack[m + 1].fid, i > m,
         stack[m + 1].k \in {"finished", "retire"} => i = m + 1 /\ y.k \in {"finished", "retire"}
  PROVE  \A j \in 1..m : Compatible(stack[j], y, i = j + 1)
<1> SUFFICES ASSUME NEW j \in 1..m PROVE Compatible(stack[j], y, i = j + 1)
  OBVIOUS
<1>1. m \in Nat /\ m + 1 \in 1..Len(stack) /\ j \in 1..((m + 1) - 1)
  BY DEF Keeps
<1>2. Compatible(stack[j], stack[m + 1], m + 1 = j + 1)
  BY <1>1 DEF References
<1> QED BY <1>1, <1>2 DEF Compatible

LEMMA LiveKept ==
  ASSUME Typed, NEW m, Keeps(m), Live, Drained, NEW i \in 1..m,
         \A c \in Owns(stack[i]) : forkOf'[c] = forkOf[c] /\ forks'[forkOf[c]] = forks[forkOf[c]]
  PROVE  LiveAt(i)'
<1>1. /\ m \in Nat /\ i \in 1..Len(stack) /\ stack'[i] = stack[i]
      /\ stack[i] \in Frames
  BY DEF Keeps, Typed
<1>2. i < Len(stack') => i < Len(stack)
  BY <1>1 DEF Keeps, Typed
<1>a. PICK x : x = stack[i]
  OBVIOUS
<1>b. PICK b \in BOOLEAN : b <=> i < Len(stack')
  OBVIOUS
<1>3. LiveFork(x, i < Len(stack)) /\ LiveEnd(x)
  BY <1>1, <1>a DEF Live
<1>4. Refers(x) => x.fid \in Slots
  BY <1>1, <1>a, FrameFacts DEF Refers
<1>5. ASSUME x.k = "fork" PROVE LiveFork(x, b)'
  <2>1. x.fid \in Slots
    BY <1>4, <1>5 DEF Refers
  <2>2. b \/ Owns(x) # {} \/ x.kind = "any" => groups'[x.fid].active
    BY <1>2, <1>3, <1>5, <1>b, <2>1 DEF LiveFork, Drained
  <2>3. \A c \in Owns(x) : /\ forkOf'[c] = groups'[x.fid].no
                           /\ forks'[forkOf'[c]].parent = x.parent /\ forks'[forkOf'[c]].kind = x.kind
    BY <1>3, <1>5, <1>a, <2>1 DEF LiveFork, Drained
  <2>4. x.kind = "all" => groups'[x.fid].cont = None
    BY <1>3, <1>5, <2>1 DEF LiveFork, Drained
  <2>5. x.kind = "any" => ~groups'[x.fid].reclaimable
    BY <1>3, <1>5, <2>1 DEF LiveFork, Drained
  <2>6. x.kind = "any" /\ x.any => groups'[x.fid].remaining = 0
    BY <1>3, <1>5, <2>1 DEF LiveFork, Drained
  <2> QED BY <2>2, <2>3, <2>4, <2>5, <2>6 DEF LiveFork, Owns
<1>6. LiveEnd(x)'
  <2>1. x.k = "branch" => x.cur \in Owns(x)
    BY DEF Owns
  <2>2. ASSUME x.k \in {"finished", "retire"} PROVE groups'[x.fid].active /\ groups'[x.fid].remaining = 0
    BY <1>3, <1>4, <2>2 DEF LiveEnd, Drained, Refers
  <2>3. ASSUME x.k = "retire" PROVE groups'[x.fid].reclaimable
    BY <1>3, <1>4, <2>3 DEF LiveEnd, Drained, Refers
  <2>4. ASSUME x.k = "branch" PROVE groups'[x.fid].active /\ forkOf'[x.cur] = groups'[x.fid].no
    BY <1>3, <1>4, <1>a, <2>1, <2>4 DEF LiveEnd, Drained, Refers
  <2> QED BY <2>2, <2>3, <2>4 DEF LiveEnd
<1>7. LiveFork(x, b)'
  BY <1>5 DEF LiveFork
<1>8. x = stack'[i] /\ (b <=> i < Len(stack'))
  BY <1>1, <1>a, <1>b
<1> QED BY <1>6, <1>7, <1>8 DEF LiveAt, LiveFork, LiveEnd, Owns

LEMMA LiveStep ==
  ASSUME Typed, NEW m, Keeps(m), Live, Drained, UNCHANGED <<forkOf, forks>>,
         \A i \in (m + 1)..Len(stack') : LiveAt(i)'
  PROVE  Live'
<1>1. forkOf' = forkOf /\ forks' = forks
  OBVIOUS
<1>2. \A i \in 1..m : LiveAt(i)'
  BY <1>1, LiveKept
<1>3. m \in Nat
  BY DEF Keeps
<1>4. \A i \in 1..Len(stack') : LiveAt(i)'
  BY <1>2, <1>3
<1> QED BY <1>4 DEF Live, LiveAt

\* The counters when no branch returns, ...
LEMMA AccountSame ==
  ASSUME Typed, Account, SameCore, forkOf' = forkOf, \A c \in Branch : Open(c)' <=> Open(c)
  PROVE  Account'
<1>1. ASSUME NEW n PROVE Of(n)' = Of(n) /\ Unreturned(n)' = Unreturned(n)
  <2>1. Of(n)' = Of(n) /\ Of(n) \subseteq Branch
    BY DEF Of, Branch
  <2>2. Unreturned(n)' = {c \in Of(n)' : Open(c)'} /\ Unreturned(n) = {c \in Of(n) : Open(c)}
    BY DEF Unreturned
  <2> QED BY <2>1, <2>2
<1>2. ASSUME NEW f \in Slots PROVE AccountOf(f)'
  <2>1. PICK n : n = groups[f].no
    OBVIOUS
  <2>2. groups'[f].no = n
    BY <2>1 DEF SameCore
  <2>3. Unreturned(groups[f].no)' = Unreturned(n)' /\ Of(groups[f].no)' = Of(n)'
    BY <2>2 DEF Unreturned, Of
  <2>4. AccountOf(f) /\ \A c \in Of(n) : c \in Branch
    BY DEF Account, Of, Branch
  <2>5. groups'[f].reclaimable /\ groups'[f].active =>
          groups'[f].remaining = Cardinality(Unreturned(groups[f].no))'
    BY <1>1, <2>1, <2>3, <2>4 DEF SameCore, AccountOf
  <2>6. ~groups'[f].reclaimable /\ groups'[f].active => groups'[f].remaining <= 1
    BY <2>4 DEF SameCore, AccountOf
  <2>7. ~groups'[f].reclaimable /\ groups'[f].active /\ groups'[f].remaining > 0 =>
          \A c \in Of(groups[f].no)' : Open(c)'
    BY <1>1, <2>1, <2>3, <2>4 DEF SameCore, AccountOf
  <2> QED BY <2>5, <2>6, <2>7 DEF AccountOf
<1> QED BY <1>2 DEF Account

\* ... and when branch c returns to its group f.
LEMMA AccountDown ==
  ASSUME Typed, SlotInv, Account, NEW f \in Slots, SlotKeeps(f), forkOf' = forkOf,
         groups'[f].remaining = IF groups[f].remaining > 0 THEN groups[f].remaining - 1 ELSE 0,
         NEW c \in Branch, forkOf[c] = groups[f].no, Open(c), ~Open(c)',
         \A d \in Branch : d # c => (Open(d)' <=> Open(d))
  PROVE  Account'
<1>0. \A g \in Slots : Identified(g)
  BY DEF SlotInv, GroupInv
<1>1. ASSUME NEW n, n # forkOf[c] PROVE Of(n)' = Of(n) /\ Unreturned(n)' = Unreturned(n)
  <2>1. Of(n)' = Of(n) /\ Of(n) \subseteq Branch /\ c \notin Of(n)
    BY <1>1 DEF Of, Branch
  <2>2. Unreturned(n)' = {d \in Of(n)' : Open(d)'} /\ Unreturned(n) = {d \in Of(n) : Open(d)}
    BY DEF Unreturned
  <2>3. \A d \in Of(n) : d \in Branch /\ d # c
    BY <2>1
  <2> QED BY <2>1, <2>2, <2>3
<1>2. ASSUME NEW n, n = forkOf[c]
      PROVE  Of(n)' = Of(n) /\ c \in Of(n) /\ Unreturned(n)' = Unreturned(n) \ {c} /\ c \in Unreturned(n)
  <2>1. Of(n)' = Of(n) /\ Of(n) \subseteq Branch /\ c \in Of(n)
    BY <1>2 DEF Of, Branch
  <2>2. Unreturned(n)' = {d \in Of(n)' : Open(d)'} /\ Unreturned(n) = {d \in Of(n) : Open(d)}
    BY DEF Unreturned
  <2>3. \A d \in Of(n) : d \in Branch
    BY <2>1
  <2> QED BY <2>1, <2>2, <2>3
<1>3. ASSUME NEW g \in Slots, g # f PROVE AccountOf(g)'
  <2>1. PICK n : n = groups[g].no
    OBVIOUS
  <2>2. groups'[g] = groups[g]
    BY <1>3 DEF SlotKeeps
  <2>3. Unreturned(groups[g].no)' = Unreturned(n)' /\ Of(groups[g].no)' = Of(n)'
    BY <2>1, <2>2 DEF Unreturned, Of
  <2>4. AccountOf(g) /\ \A d \in Of(n) : d \in Branch
    BY DEF Account, Of, Branch
  <2>5. ASSUME groups[g].active PROVE n # forkOf[c]
    BY <1>0, <1>3, <2>1, <2>5 DEF Identified, SlotKeeps
  <2>6. groups'[g].active /\ groups'[g].reclaimable =>
          groups'[g].remaining = Cardinality(Unreturned(groups[g].no))'
    BY <1>1, <2>1, <2>2, <2>3, <2>4, <2>5 DEF AccountOf
  <2>7. groups'[g].active /\ ~groups'[g].reclaimable => groups'[g].remaining <= 1
    BY <2>2, <2>4 DEF AccountOf
  <2>8. ASSUME groups'[g].active, ~groups'[g].reclaimable, groups'[g].remaining > 0,
               NEW d \in Of(groups[g].no)'
        PROVE  Open(d)'
    <3>1. Of(n)' = Of(n) /\ d \in Of(n) /\ Open(d)
      BY <1>1, <2>1, <2>2, <2>3, <2>4, <2>5, <2>8 DEF AccountOf
    <3>2. d # c /\ d \in Branch
      BY <2>2, <2>4, <2>5, <2>8, <3>1 DEF Of
    <3> QED BY <3>1, <3>2
  <2> QED BY <2>6, <2>7, <2>8 DEF AccountOf
<1>4. AccountOf(f)'
  <2>1. PICK n : n = groups[f].no
    OBVIOUS
  <2>2. n = forkOf[c] /\ groups'[f].no = n
    BY <2>1 DEF SlotKeeps
  <2>3. Unreturned(groups[f].no)' = Unreturned(n)' /\ Of(groups[f].no)' = Of(n)'
    BY <2>2 DEF Unreturned, Of
  <2>4. AccountOf(f) /\ groups[f].active /\ groups'[f].reclaimable = groups[f].reclaimable
    BY DEF Account, SlotKeeps
  <2>5. groups[f].remaining \in Nat
    BY GroupFields DEF Typed
  <2>6. ASSUME groups'[f].reclaimable
        PROVE  groups'[f].remaining = Cardinality(Unreturned(groups[f].no))'
    <3>1. groups[f].remaining = Cardinality(Unreturned(n))
      BY <2>1, <2>4, <2>6 DEF AccountOf
    <3>2. IsFiniteSet(Unreturned(n))
      <4>1. Unreturned(n) \subseteq Branch
        BY DEF Unreturned, Of, Branch
      <4> QED BY <4>1, Basics, FS_Subset
    <3>3. Unreturned(n)' = Unreturned(n) \ {c} /\ c \in Unreturned(n)
      BY <1>2, <2>2
    <3>4. Cardinality(Unreturned(n) \ {c}) = Cardinality(Unreturned(n)) - 1
      <4> DEFINE S == Unreturned(n)
      <4> HIDE DEF S
      <4>1. IsFiniteSet(S) /\ c \in S
        BY <3>2, <3>3 DEF S
      <4>2. Cardinality(S \ {c}) = Cardinality(S) - 1
        BY <4>1, FS_RemoveElement
      <4> QED BY <4>2 DEF S
    <3>5. Cardinality(Unreturned(n) \ {c}) \in Nat
      <4> DEFINE S == Unreturned(n)
      <4> HIDE DEF S
      <4>1. IsFiniteSet(S \ {c})
        BY <3>2, FS_Subset DEF S
      <4>2. Cardinality(S \ {c}) \in Nat
        BY <4>1, FS_CardinalityType
      <4> QED BY <4>2 DEF S
    <3>6. Cardinality(Unreturned(n)') = Cardinality(Unreturned(n) \ {c})
      BY <3>3
    <3> DEFINE a == Cardinality(Unreturned(n))
               b == Cardinality(Unreturned(n) \ {c})
    <3>7. groups[f].remaining = a /\ b = a - 1 /\ b \in Nat /\ a \in Int
      BY <2>5, <3>1, <3>4, <3>5
    <3>8. groups'[f].remaining = b
      <4> HIDE DEF a, b
      <4> QED BY <3>7
    <3> QED BY <2>3, <3>6, <3>8
  <2>7. ASSUME ~groups'[f].reclaimable PROVE groups'[f].remaining = 0
    <3>1. groups[f].remaining <= 1
      BY <2>4, <2>7 DEF AccountOf
    <3> QED BY <2>5, <3>1
  <2> QED BY <2>6, <2>7 DEF AccountOf
<1>5. \A g \in Slots : AccountOf(g)'
  <2> SUFFICES ASSUME NEW g \in Slots PROVE AccountOf(g)'
    OBVIOUS
  <2>1. CASE g = f
    <3>1. AccountOf(f)' => AccountOf(g)'
      BY <2>1
    <3> QED BY <1>4, <3>1
  <2> QED BY <1>3, <2>1
<1> QED BY <1>5 DEF Account

LEMMA RememberSame ==
  ASSUME Typed, Remembered, suspended' \subseteq suspended, forkOf' = forkOf,
         \A g \in Slots : groups'[g].active = groups[g].active /\ groups'[g].no = groups[g].no
  PROVE  Remembered'
<1>1. \A s \in suspended' : s \in suspended /\ s.fid \in Slots \cup {None}
  BY DEF Typed, Suspension
<1> QED BY <1>1 DEF Remembered

\* Frames that wait for no branch.
Inert == {"run", "true", "close", "finished", "retire", "resumed"}

LEMMA InertFacts ==
  \A x : x.k \in Inert => Owns(x) = {} /\ ~Busy(x) /\ x.k # "fork" /\ x.k # "branch"
  BY DEF Inert, Owns, Busy

LEMMA OwnedStep ==
  ASSUME Typed, NEW m, Keeps(m), Owned, suspended' = suspended,
         \A i \in (m + 1)..Len(stack) : Owns(stack[i]) = {},
         \A i \in (m + 1)..Len(stack') : stack'[i].k \in Inert,
         Len(stack) = m => ret' = ret,
         m > 0 /\ Busy(stack[m]) /\ Len(stack') = m => ret' \/ Len(stack) = m
  PROVE  Owned' /\ \A c : Open(c)' <=> Open(c)
<1>0. /\ m \in Nat /\ m <= Len(stack) /\ m <= Len(stack') /\ \A i \in 1..m : stack'[i] = stack[i]
      /\ Len(stack) = m + 1 \/ (Len(stack) = m /\ (m = 0 \/ Len(stack') = m))
  BY DEF Keeps
<1>1. \A i \in (m + 1)..Len(stack') :
        Owns(stack'[i]) = {} /\ ~Busy(stack'[i]) /\ stack'[i].k # "fork" /\ stack'[i].k # "branch"
  BY InertFacts
<1>2. \A i \in 1..Len(stack') : i \in 1..m \/ i \in (m + 1)..Len(stack')
  BY <1>0
<1>3. \A i \in 1..Len(stack) : i \in 1..m \/ i \in (m + 1)..Len(stack)
  BY <1>0
<1>4. \A i \in 1..m : i \in 1..Len(stack) /\ i \in 1..Len(stack')
  BY <1>0 DEF Typed
<1>5. \A c : IsSuspended(c)' <=> IsSuspended(c)
  BY DEF IsSuspended
<1>6. ASSUME NEW c PROVE Open(c)' <=> Open(c)
  <2>1. Open(c)' <=> IsSuspended(c)' \/ \E i \in 1..Len(stack') : c \in Owns(stack'[i])
    BY DEF Open, Owns
  <2> QED BY <1>0, <1>1, <1>2, <1>3, <1>4, <1>5, <2>1 DEF Open
<1>7. ASSUME NEW i \in 1..Len(stack') PROVE OwnedAt(i)'
  <2>1. \A j \in 1..Len(stack') : i # j => Owns(stack'[i]) \cap Owns(stack'[j]) = {}
    BY <1>0, <1>1, <1>2, <1>4 DEF Owned, OwnedAt
  <2>2. stack'[i].k = "fork" => stack'[i].cur \notin stack'[i].todo
    BY <1>0, <1>1, <1>2, <1>4 DEF Owned, OwnedAt
  <2>3. ASSUME NEW c \in Owns(stack'[i]), IsSuspended(c)
        PROVE  stack'[i].cur = c /\ i = Len(stack') /\ ~ret'
    <3>1. i \in 1..m /\ stack'[i] = stack[i] /\ i \in 1..Len(stack)
      BY <1>0, <1>1, <1>2, <1>4, <2>3
    <3>2. stack[i].cur = c /\ i = Len(stack) /\ ~ret
      BY <2>3, <3>1 DEF Owned, OwnedAt
    <3>3. Len(stack) = m
      BY <1>0, <3>1, <3>2
    <3>4. m > 0 /\ Len(stack') = m
      BY <1>0, <3>1, <3>3
    <3> QED BY <3>1, <3>2, <3>3, <3>4
  <2>4. Busy(stack'[i]) /\ i = Len(stack') /\ ~ret' => IsSuspended(stack'[i].cur)
    <3> SUFFICES ASSUME Busy(stack'[i]), i = Len(stack'), ~ret' PROVE IsSuspended(stack'[i].cur)
      OBVIOUS
    <3>1. i \in 1..m /\ stack'[i] = stack[i] /\ i \in 1..Len(stack)
      BY <1>0, <1>1, <1>2, <1>4
    <3>2. i = m /\ m > 0
      BY <1>0, <3>1
    <3>3. Len(stack) = m
      BY <3>1, <3>2
    <3>4. ~ret
      BY <3>3
    <3> QED BY <3>1, <3>2, <3>3, <3>4 DEF Owned, OwnedAt
  <2> QED BY <1>5, <2>1, <2>2, <2>3, <2>4 DEF OwnedAt, Owns, Busy, IsSuspended
<1> QED BY <1>6, <1>7 DEF Owned

\* What a light step puts on the stack at i.
LightAt(m, i) ==
  /\ stack'[i].k \in Inert
  /\ stack'[i].k = "run" =>
       /\ i = Len(stack') /\ (stack'[i].fid # None => stack'[i].th \in Branch)
       /\ stack'[i].th \in Branch => left'[stack'[i].th] = 0
  /\ stack'[i].k \in {"finished", "retire"} =>
       groups'[stack'[i].fid].active /\ groups'[stack'[i].fid].remaining = 0
  /\ stack'[i].k = "retire" => groups'[stack'[i].fid].reclaimable
  /\ Refers(stack'[i]) =>
       /\ Len(stack) = m + 1 /\ Refers(stack[m + 1]) /\ stack'[i].fid = stack[m + 1].fid
       /\ stack[m + 1].k \in {"finished", "retire"} =>
            i = m + 1 /\ stack'[i].k \in {"finished", "retire"}
  /\ \A j \in (m + 1)..(i - 1) : Refers(stack'[j]) /\ Refers(stack'[i]) => stack'[j].k = "close"

\* A step that replaces the top, which waits for no branch, by such frames.
Light(m) ==
  /\ Keeps(m) /\ SameCore
  /\ suspended' = suspended /\ forkOf' = forkOf /\ forks' = forks
  /\ \A t \in Thread : left'[t] \in Nat /\ left'[t] <= left[t]
  /\ \A i \in (m + 1)..Len(stack) : Owns(stack[i]) = {}
  /\ \A i \in (m + 1)..Len(stack') : LightAt(m, i)
  /\ Len(stack) = m => ret' = ret
  /\ m > 0 /\ Busy(stack[m]) =>
       IF Len(stack') = m THEN ret' \/ Len(stack) = m ELSE stack'[m + 1].k = "true"

LEMMA LightStep ==
  ASSUME Typed, CallInv, NEW m, Light(m)
  PROVE  CallInv'
<1>1. /\ Keeps(m) /\ SameCore
      /\ suspended' = suspended /\ forkOf' = forkOf /\ forks' = forks
      /\ \A t \in Thread : left'[t] \in Nat /\ left'[t] <= left[t]
      /\ \A i \in (m + 1)..Len(stack) : Owns(stack[i]) = {}
      /\ \A i \in (m + 1)..Len(stack') : LightAt(m, i)
      /\ Len(stack) = m => ret' = ret
  BY DEF Light
<1>2. m > 0 /\ Busy(stack[m]) =>
        IF Len(stack') = m THEN ret' \/ Len(stack) = m ELSE stack'[m + 1].k = "true"
  BY DEF Light
<1>3. m \in Nat /\ Len(stack) \in Nat
  BY <1>1 DEF Keeps, Typed
<1>4. \A i \in 1..Len(stack') : ShapeAt(i)'
  <2>1. ASSUME NEW i \in (m + 1)..Len(stack') PROVE ShapeAt(i)'
    <3>1. LightAt(m, i)
      BY <1>1
    <3>2. stack'[i].k # "branch" /\ ~Busy(stack'[i])
      BY <3>1, InertFacts DEF LightAt
    <3>3. stack'[i].k = "run" /\ stack'[i].th \in Branch => ~(left'[stack'[i].th] > 0)
      BY <3>1 DEF LightAt
    <3>4. stack'[i].k = "run" => i = Len(stack') /\ (stack'[i].fid # None => stack'[i].th \in Branch)
      BY <3>1 DEF LightAt
    <3> QED BY <3>2, <3>3, <3>4 DEF ShapeAt, Busy
  <2> QED BY <1>1, <1>2, <2>1, ShapeStep DEF CallInv
<1>5. References'
  <2>1. ASSUME NEW i \in (m + 1)..Len(stack')
        PROVE  /\ \A j \in (m + 1)..(i - 1) : Compatible(stack'[j], stack'[i], i = j + 1)
               /\ \A j \in 1..m : Compatible(stack[j], stack'[i], i = j + 1)
    <3>1. LightAt(m, i) /\ i \in Nat /\ i > m
      BY <1>1, <1>3
    <3>2. \A j \in (m + 1)..(i - 1) : Compatible(stack'[j], stack'[i], i = j + 1)
      BY <3>1 DEF LightAt, Compatible
    <3>3. CASE Refers(stack'[i])
      <4>1. /\ Len(stack) = m + 1 /\ Refers(stack[m + 1]) /\ stack'[i].fid = stack[m + 1].fid
            /\ stack[m + 1].k \in {"finished", "retire"} =>
                 i = m + 1 /\ stack'[i].k \in {"finished", "retire"}
        BY <3>1, <3>3 DEF LightAt
      <4>2. PICK y : y = stack'[i]
        OBVIOUS
      <4>3. \A j \in 1..m : Compatible(stack[j], y, i = j + 1)
        BY <1>1, <3>1, <4>1, <4>2, ReferTop DEF CallInv
      <4> QED BY <3>2, <4>2, <4>3
    <3>4. CASE ~Refers(stack'[i])
      BY <3>2, <3>4 DEF Compatible
    <3> QED BY <3>3, <3>4
  <2> QED BY <1>1, <2>1, ReferStep DEF CallInv
<1>6. Live'
  <2>1. Drained
    BY <1>1 DEF SameCore, Drained
  <2>2. ASSUME NEW i \in (m + 1)..Len(stack') PROVE LiveAt(i)'
    <3>1. LightAt(m, i)
      BY <1>1
    <3>2. stack'[i].k # "fork" /\ stack'[i].k # "branch"
      BY <3>1, InertFacts DEF LightAt
    <3> QED BY <3>1, <3>2 DEF LiveAt, LiveFork, LiveEnd, LightAt
  <2> QED BY <1>1, <2>1, <2>2, LiveStep DEF CallInv
<1>7. Owned' /\ \A c : Open(c)' <=> Open(c)
  <2>1. \A i \in (m + 1)..Len(stack') : stack'[i].k \in Inert
    BY <1>1 DEF LightAt
  <2> QED BY <1>1, <1>2, <2>1, OwnedStep DEF CallInv
<1>8. Account'
  BY <1>1, <1>7, AccountSame DEF CallInv
<1>9. Remembered'
  BY <1>1, RememberSame DEF CallInv, SameCore
<1> QED BY <1>4, <1>5, <1>6, <1>7, <1>8, <1>9 DEF CallInv
-----------------------------------------------------------------------------
(* The places of the threads, for a step that moves some of them.            *)

Stays(t) == \A k, i, x : Holds(t, k, i, x)' => Holds(t, k, i, x)
Moves(t, K, I, X) == \A k, i, x : Holds(t, k, i, x)' => k = K /\ i = I /\ x = X

LEMMA PlaceStep ==
  ASSUME Typed, SlotInv, OnePlace, Unstarted,
         \A t \in Thread : left'[t] \in Nat /\ left'[t] <= left[t],
         \A t \in Thread :
           \/ Stays(t)
           \/ \E K, I, X : Moves(t, K, I, X) /\ (K \in Unexecuted \/ left'[t] < Initial(t))
  PROVE  OnePlace' /\ Unstarted'
<1>1. ASSUME NEW t \in Thread PROVE \A k, l, i, j, x, y :
        Holds(t, k, i, x)' /\ Holds(t, l, j, y)' => k = l /\ i = j /\ x = y
  <2>1. CASE Stays(t)
    BY <2>1 DEF Stays, OnePlace
  <2>2. CASE \E K, I, X : Moves(t, K, I, X)
    BY <2>2 DEF Moves
  <2> QED BY <2>1, <2>2
<1>2. ASSUME NEW t \in Thread, left'[t] = Initial(t)
      PROVE  \A k, i, x : Holds(t, k, i, x)' => k \in Unexecuted
  <2>0. left[t] \in Nat /\ left[t] <= Initial(t) /\ Initial(t) \in Nat
    BY Basics DEF Typed, SlotInv, Counts, Initial
  <2>1. left[t] = Initial(t) /\ ~(left'[t] < Initial(t))
    <3>1. left'[t] \in Nat /\ left'[t] <= left[t]
      OBVIOUS
    <3> DEFINE a == Initial(t)
    <3> HIDE DEF a
    <3> QED BY <1>2, <2>0, <3>1 DEF a
  <2>2. CASE Stays(t)
    BY <2>1, <2>2 DEF Stays, Unstarted
  <2>3. CASE \E K, I, X : Moves(t, K, I, X) /\ (K \in Unexecuted \/ left'[t] < Initial(t))
    BY <2>1, <2>3 DEF Moves
  <2> QED BY <2>2, <2>3
<1>3. OnePlace'
  BY <1>1 DEF OnePlace
<1>4. \A t : Initial(t)' = Initial(t)
  BY DEF Initial
<1>5. Unstarted'
  BY <1>2, <1>4 DEF Unstarted, Initial
<1> QED BY <1>3, <1>5

\* No list of the engine gains a thread, and the frames above m hold none that the
\* frame there before did not.
LEMMA NobodyMoves ==
  ASSUME Typed, NEW m, Keeps(m),
         \A t, k, x : RestPlace(t, k, x)' => RestPlace(t, k, x),
         \A i \in (m + 1)..Len(stack') : \A t, k, x :
           FramePlace(stack'[i], t, k, x) => i <= Len(stack) /\ FramePlace(stack[i], t, k, x)
  PROVE  \A t : Stays(t)
<1> SUFFICES ASSUME NEW t, NEW k, NEW i, NEW x, Holds(t, k, i, x)' PROVE Holds(t, k, i, x)
  BY DEF Stays
<1>0. m \in Nat /\ m <= Len(stack) /\ Len(stack) \in Nat /\ \A j \in 1..m : stack'[j] = stack[j]
  BY DEF Keeps, Typed
<1>1. CASE i = 0 /\ RestPlace(t, k, x)'
  BY <1>1 DEF Holds
<1>2. CASE i \in 1..m /\ FramePlace(stack'[i], t, k, x)
  BY <1>0, <1>2 DEF Holds
<1>3. CASE i \in (m + 1)..Len(stack') /\ FramePlace(stack'[i], t, k, x)
  <2>1. i \in 1..Len(stack) /\ FramePlace(stack[i], t, k, x)
    BY <1>0, <1>3
  <2> QED BY <2>1 DEF Holds
<1>4. (i \in 1..Len(stack') /\ FramePlace(stack'[i], t, k, x)) \/ (i = 0 /\ RestPlace(t, k, x)')
  BY DEF Holds, FramePlace
<1> QED BY <1>0, <1>1, <1>2, <1>3, <1>4

\* One thread, u, goes to one place, from the one it had.
LEMMA OneMoves ==
  ASSUME Typed, OnePlace, NEW m, Keeps(m), NEW u \in Thread, NEW K, NEW I, NEW X,
         \A t, k, x : RestPlace(t, k, x)' =>
           RestPlace(t, k, x) \/ (t = u /\ k = K /\ I = 0 /\ x = X),
         \A i \in (m + 1)..Len(stack') : \A t, k, x : FramePlace(stack'[i], t, k, x) =>
           (i <= Len(stack) /\ FramePlace(stack[i], t, k, x)) \/ (t = u /\ k = K /\ i = I /\ x = X),
         \/ \A k, i, x : ~Holds(u, k, i, x)
         \/ \E k, i, x : Holds(u, k, i, x) /\ ~Holds(u, k, i, x)'
  PROVE  /\ \A t : t # u => Stays(t)
         /\ Moves(u, K, I, X)
<1>0. m \in Nat /\ m <= Len(stack) /\ Len(stack) \in Nat /\ \A j \in 1..m : stack'[j] = stack[j]
  BY DEF Keeps, Typed
<1>1. ASSUME NEW t, NEW k, NEW i, NEW x, Holds(t, k, i, x)'
      PROVE  Holds(t, k, i, x) \/ (t = u /\ k = K /\ i = I /\ x = X)
  <2>1. CASE i = 0 /\ RestPlace(t, k, x)'
    BY <2>1 DEF Holds
  <2>2. CASE i \in 1..m /\ FramePlace(stack'[i], t, k, x)
    BY <1>0, <2>2 DEF Holds
  <2>3. CASE i \in (m + 1)..Len(stack') /\ FramePlace(stack'[i], t, k, x)
    <3>1. \/ i \in 1..Len(stack) /\ FramePlace(stack[i], t, k, x)
          \/ t = u /\ k = K /\ i = I /\ x = X
      <4>1. \A w, l, y : FramePlace(stack'[i], w, l, y) =>
              (i <= Len(stack) /\ FramePlace(stack[i], w, l, y)) \/ (w = u /\ l = K /\ i = I /\ y = X)
        BY <2>3
      <4>2. i \in Nat /\ i >= 1
        BY <1>0, <2>3
      <4> QED BY <1>0, <2>3, <4>1, <4>2
    <3> QED BY <3>1 DEF Holds
  <2>4. (i \in 1..Len(stack') /\ FramePlace(stack'[i], t, k, x)) \/ (i = 0 /\ RestPlace(t, k, x)')
    BY <1>1 DEF Holds, FramePlace
  <2> QED BY <1>0, <2>1, <2>2, <2>3, <2>4
<1>2. \A t : t # u => Stays(t)
  BY <1>1 DEF Stays
<1>3. ASSUME NEW k, NEW i, NEW x, Holds(u, k, i, x)' PROVE k = K /\ i = I /\ x = X
  <2>1. ~Holds(u, k, i, x)
    BY <1>3 DEF OnePlace
  <2> QED BY <1>1, <1>3, <2>1
<1> QED BY <1>2, <1>3 DEF Moves
-----------------------------------------------------------------------------
(* The stack after a step.                                                   *)

LEMMA TopFrame ==
  ASSUME Typed, stack # <<>>
  PROVE  \E m \in Nat :
           /\ Len(stack) = m + 1 /\ Top = stack[m + 1] /\ Top \in Frames /\ m + 1 \in 1..Len(stack)
           /\ Below \in Seq(Frames) /\ Len(Below) = m /\ \A i \in 1..m : Below[i] = stack[i]
<1> DEFINE m == Len(stack) - 1
<1>1. /\ Len(stack) \in Nat /\ Len(stack) >= 1 /\ stack[Len(stack)] \in Frames
      /\ Below \in Seq(Frames) /\ Len(Below) = m
      /\ \A i \in 1..m : Below[i] = stack[i]
  BY TopFacts DEF Typed, Below
<1>2. m \in Nat /\ Len(stack) = m + 1 /\ Top = stack[m + 1]
  BY <1>1 DEF Top
<1> HIDE DEF m
<1> QED BY <1>1, <1>2

LEMMA PopStack ==
  ASSUME Typed, NEW m \in Nat, Len(stack) = m + 1, Len(Below) = m, Below \in Seq(Frames),
         \A i \in 1..m : Below[i] = stack[i], stack' = Below
  PROVE  stack' \in Seq(Frames) /\ Keeps(m) /\ Len(stack') = m /\ (m + 1)..Len(stack') = {}
<1>1. stack' \in Seq(Frames) /\ Len(stack') = m /\ \A i \in 1..m : stack'[i] = stack[i]
  OBVIOUS
<1> QED BY <1>1 DEF Keeps

LEMMA PushStack1 ==
  ASSUME Typed, NEW m \in Nat, Len(stack) = m + 1, Len(Below) = m, Below \in Seq(Frames),
         \A i \in 1..m : Below[i] = stack[i], NEW x \in Frames, stack' = Below \o <<x>>
  PROVE  /\ stack' \in Seq(Frames) /\ Keeps(m) /\ Len(stack') = m + 1 /\ stack'[m + 1] = x
         /\ (m + 1)..Len(stack') = {m + 1}
<1>1. /\ stack' \in Seq(Frames) /\ Len(stack') = m + 1 /\ \A i \in 1..m : stack'[i] = stack[i]
      /\ stack'[m + 1] = x
  BY Push1
<1> QED BY <1>1 DEF Keeps

LEMMA PushStack2 ==
  ASSUME Typed, NEW m \in Nat, Len(stack) = m + 1, Len(Below) = m, Below \in Seq(Frames),
         \A i \in 1..m : Below[i] = stack[i],
         NEW x \in Frames, NEW y \in Frames, stack' = Below \o <<x, y>>
  PROVE  /\ stack' \in Seq(Frames) /\ Keeps(m) /\ Len(stack') = m + 2
         /\ stack'[m + 1] = x /\ stack'[m + 2] = y
         /\ (m + 1)..Len(stack') = {m + 1, m + 2}
<1>1. /\ stack' \in Seq(Frames) /\ Len(stack') = m + 2 /\ \A i \in 1..m : stack'[i] = stack[i]
      /\ stack'[m + 1] = x /\ stack'[m + 2] = y
  BY Push2
<1> QED BY <1>1 DEF Keeps

LEMMA RunOwnsNothing ==
  ASSUME Typed, NEW m \in Nat, Len(stack) = m + 1, stack[m + 1].k \in Inert
  PROVE  \A i \in (m + 1)..Len(stack) : Owns(stack[i]) = {}
<1>1. \A i \in (m + 1)..Len(stack) : i = m + 1
  OBVIOUS
<1> QED BY <1>1, InertFacts

-----------------------------------------------------------------------------
(* Every action keeps the invariant: the statements.                         *)

LEMMA EndKeeps ==
  ASSUME IInv, End
  PROVE  IInv'
<1>1. /\ stack # <<>> /\ Top.k = "run" /\ ended' = ended \cup {Top.th} /\ stack' = Below /\ ret' = TRUE
      /\ design' = design /\ groups' = groups /\ used' = used /\ fork_free' = fork_free
      /\ name' = name /\ suspended' = suspended /\ waits' = waits /\ wait_forks' = wait_forks
      /\ left' = left /\ forkOf' = forkOf /\ forks' = forks /\ blocked' = blocked /\ doomed' = doomed
  BY DEF End, engine
<1>2. Typed /\ SlotInv /\ CallInv /\ OnePlace /\ Unstarted
  BY DEF IInv
<1>3. PICK m \in Nat :
        /\ Len(stack) = m + 1 /\ Top = stack[m + 1] /\ Top \in Frames /\ m + 1 \in 1..Len(stack)
        /\ Below \in Seq(Frames) /\ Len(Below) = m /\ \A i \in 1..m : Below[i] = stack[i]
  BY <1>1, <1>2, TopFrame
<1>4. stack' \in Seq(Frames) /\ Keeps(m) /\ Len(stack') = m /\ (m + 1)..Len(stack') = {}
  BY <1>1, <1>2, <1>3, PopStack
<1>5. Top.th \in Thread
  BY <1>1, <1>3, FrameFacts
<1>6. Typed'
  BY <1>1, <1>2, <1>4, <1>5 DEF Typed
<1>7. \A t \in Thread : left'[t] \in Nat /\ left'[t] <= left[t]
  BY <1>1, <1>2 DEF Typed
<1>8. SlotInv'
  <2>1. left' \in [Thread -> Nat]
    BY <1>1, <1>2 DEF Typed
  <2> QED BY <1>1, <1>2, <1>7, <2>1, GroupsUnchanged, SlotsKept
<1>9. CallInv'
  <2>1. \A i \in (m + 1)..Len(stack) : Owns(stack[i]) = {}
    BY <1>1, <1>2, <1>3, RunOwnsNothing DEF Inert
  <2>2. Light(m)
    <3>1. SameCore
      BY <1>1, GroupsUnchanged
    <3>2. Len(stack) # m /\ (Len(stack') = m => ret')
      BY <1>1, <1>3
    <3> QED BY <1>1, <1>4, <1>7, <2>1, <3>1, <3>2 DEF Light
  <2> QED BY <1>2, <2>2, LightStep
<1>10. OnePlace' /\ Unstarted'
  <2>0. PICK u \in Thread : u = Top.th
    BY <1>5
  <2>1. Holds(u, "run", m + 1, 0) /\ ~Holds(u, "run", m + 1, 0)'
    BY <1>1, <1>3, <1>4, <2>0 DEF Holds, FramePlace
  <2>2. \A t, k, x : RestPlace(t, k, x)' => RestPlace(t, k, x) \/ (t = u /\ k = "ended" /\ 0 = 0 /\ x = 0)
    BY <1>1, <2>0 DEF RestPlace, Unborn
  <2>3. (\A t : t # u => Stays(t)) /\ Moves(u, "ended", 0, 0)
    <3>1. \E k, i, x : Holds(u, k, i, x) /\ ~Holds(u, k, i, x)'
      BY <2>1
    <3>2. \A i \in (m + 1)..Len(stack') : \A t, k, x : FramePlace(stack'[i], t, k, x) =>
            (i <= Len(stack) /\ FramePlace(stack[i], t, k, x)) \/ (t = u /\ k = "ended" /\ i = 0 /\ x = 0)
      BY <1>4
    <3> QED BY <1>2, <1>4, <2>2, <3>1, <3>2, OneMoves
  <2>4. "ended" \in Unexecuted
    BY DEF Unexecuted
  <2> QED BY <1>2, <1>7, <2>3, <2>4, PlaceStep
<1> QED BY <1>6, <1>8, <1>9, <1>10 DEF IInv

LEMMA ExecuteFacts ==
  ASSUME Typed, SlotInv, NEW kind, Executes(kind)
  PROVE  /\ stack # <<>> /\ Top.k = "run" /\ Top.th \in Thread /\ Top.fid \in Slots \cup {None}
         /\ left[Top.th] > 0 /\ left' \in [Thread -> Nat]
         /\ \A t \in Thread : left'[t] \in Nat /\ left'[t] <= left[t]
         /\ left'[Top.th] < Initial(Top.th)
         /\ Top.th \in Branch => left'[Top.th] = 0
<1>1. /\ stack # <<>> /\ Top.k = "run" /\ left[Top.th] > 0
      /\ left' = [left EXCEPT ![Top.th] = left[Top.th] - 1]
  BY DEF Executes
<1>2. PICK u : u = Top.th
  OBVIOUS
<1>3. u \in Thread /\ Top.fid \in Slots \cup {None}
  BY <1>1, <1>2, TopFrame, FrameFacts
<1>4. left \in [Thread -> Nat] /\ left[u] \in Nat /\ left[u] > 0
  BY <1>1, <1>2, <1>3 DEF Typed
<1>5. left' \in [Thread -> Nat] /\ left'[u] = left[u] - 1 /\ \A t \in Thread : t # u => left'[t] = left[t]
  BY <1>1, <1>2, <1>3, <1>4
<1>6. \A t \in Thread : left'[t] \in Nat /\ left'[t] <= left[t]
  BY <1>3, <1>4, <1>5
<1>7. left[u] <= Initial(u) /\ Initial(u) \in Nat
  BY <1>3, Basics DEF SlotInv, Counts, Initial
<1>8. left'[u] < Initial(u)
  <2> DEFINE a == Initial(u)
  <2> HIDE DEF a
  <2> QED BY <1>4, <1>5, <1>7 DEF a
<1>9. u \in Branch => left'[u] = 0
  <2>1. u \in Branch => left[u] <= 1
    BY DEF SlotInv, Counts
  <2> QED BY <1>4, <1>5, <2>1
<1> QED BY <1>1, <1>2, <1>3, <1>4, <1>5, <1>6, <1>8, <1>9

\* The frame below a branch that executes is the one that waits for it.
LEMMA RunningBranch ==
  ASSUME Typed, CallInv, NEW m \in Nat, Len(stack) = m + 1, stack[m + 1].k = "run"
  PROVE  /\ m > 0 /\ Busy(stack[m]) =>
              stack[m + 1].th = stack[m].cur /\ stack[m + 1].fid = stack[m].fid
         /\ stack[m + 1].th \in Branch /\ left[stack[m + 1].th] > 0 =>
              m > 0 /\ Busy(stack[m]) /\ stack[m].cur = stack[m + 1].th
         /\ stack[m + 1].th \notin Branch => stack[m + 1].fid = None
<1>1. ShapeAt(m + 1)
  BY DEF CallInv
<1>2. m > 0 => ShapeAt(m)
  BY DEF CallInv
<1>3. m + 1 > 1 => m > 0
  OBVIOUS
<1>4. stack[m + 1].th \in Branch /\ left[stack[m + 1].th] > 0 =>
        m > 0 /\ Busy(stack[m]) /\ stack[m].cur = stack[m + 1].th
  BY <1>1, <1>3 DEF ShapeAt
<1>5. stack[m + 1].th \notin Branch => stack[m + 1].fid = None
  BY <1>1 DEF ShapeAt
<1>6. m > 0 /\ Busy(stack[m]) => stack[m + 1].th = stack[m].cur /\ stack[m + 1].fid = stack[m].fid
  BY <1>2 DEF ShapeAt
<1> QED BY <1>4, <1>5, <1>6

LEMMA OwnsBranches ==
  ASSUME Typed, NEW i \in 1..Len(stack)
  PROVE  /\ Owns(stack[i]) \subseteq Branch
         /\ Busy(stack[i]) => stack[i].cur \in Owns(stack[i]) /\ stack[i].fid \in Slots
<1>1. stack[i] \in Frames
  BY DEF Typed
<1> QED BY <1>1, FrameFacts, Basics DEF Owns, Busy

LEMMA SuspendKeeps ==
  ASSUME IInv, NEW on \in {"delay", "at"}, Suspend(on)
  PROVE  IInv'
<1> DEFINE s == [th |-> Top.th, fid |-> Top.fid, on |-> on, proc |-> name]
<1>1. /\ Executes(on) /\ suspended' = suspended \cup {s} /\ stack' = Below /\ ret' = FALSE
      /\ design' = design /\ groups' = groups /\ used' = used /\ fork_free' = fork_free
      /\ name' = name /\ waits' = waits /\ wait_forks' = wait_forks
      /\ forkOf' = forkOf /\ forks' = forks /\ blocked' = blocked /\ ended' = ended /\ doomed' = doomed
  BY DEF Suspend
<1>2. Typed /\ SlotInv /\ CallInv /\ OnePlace /\ Unstarted
  BY DEF IInv
<1>5. PICK u \in Thread : u = Top.th
  BY <1>1, <1>2, ExecuteFacts
<1>6. PICK v \in Slots \cup {None} : v = Top.fid
  BY <1>1, <1>2, ExecuteFacts
<1>7. /\ stack # <<>> /\ Top.k = "run"
      /\ left[u] > 0 /\ left' \in [Thread -> Nat]
      /\ \A t \in Thread : left'[t] \in Nat /\ left'[t] <= left[t]
      /\ left'[u] < Initial(u)
  BY <1>1, <1>2, <1>5, ExecuteFacts
<1>3. PICK m \in Nat :
        /\ Len(stack) = m + 1 /\ Top = stack[m + 1] /\ Top \in Frames /\ m + 1 \in 1..Len(stack)
        /\ Below \in Seq(Frames) /\ Len(Below) = m /\ \A i \in 1..m : Below[i] = stack[i]
  BY <1>7, <1>2, TopFrame
<1>4. stack' \in Seq(Frames) /\ Keeps(m) /\ Len(stack') = m /\ (m + 1)..Len(stack') = {}
  BY <1>1, <1>2, <1>3, PopStack
<1>8. PICK z \in Suspension : z = s /\ z.th = u /\ z.fid = v
  <2>1. s \in Suspension
    BY <1>2, <1>5, <1>6 DEF Suspension, Typed
  <2> QED BY <1>5, <1>6, <2>1
<1>a. suspended' = suspended \cup {z}
  BY <1>1, <1>8
<1> HIDE DEF s
<1>9. Typed'
  <2>1. suspended' \subseteq Suspension
    BY <1>2, <1>a DEF Typed
  <2> QED BY <1>1, <1>2, <1>4, <1>7, <2>1 DEF Typed
<1>10. SlotInv'
  BY <1>1, <1>2, <1>7, GroupsUnchanged, SlotsKept
<1>11. CallInv'
  <2>1. /\ m > 0 /\ Busy(stack[m]) => u = stack[m].cur /\ v = stack[m].fid
        /\ u \in Branch => m > 0 /\ Busy(stack[m]) /\ stack[m].cur = u
        /\ u \notin Branch => v = None
    BY <1>2, <1>3, <1>5, <1>6, <1>7, RunningBranch
  <2>2. m > 0 => /\ m \in 1..Len(stack) /\ ShapeAt(m) /\ OwnedAt(m) /\ LiveFork(stack[m], m < Len(stack))
                 /\ LiveEnd(stack[m]) /\ Owns(stack[m]) \subseteq Branch
                 /\ Busy(stack[m]) => stack[m].cur \in Owns(stack[m]) /\ stack[m].fid \in Slots
    BY <1>2, <1>3, OwnsBranches DEF CallInv, Owned, Live
  <2>3. u \in Branch => v \in Slots /\ groups[v].active /\ groups[v].no = forkOf[u]
    BY <1>3, <2>1, <2>2 DEF LiveFork, LiveEnd, Busy
  <2>4. \A i \in 1..Len(stack') : ShapeAt(i)'
    BY <1>2, <1>4, <1>7, ShapeStep DEF CallInv
  <2>5. References'
    BY <1>2, <1>4, ReferStep DEF CallInv
  <2>6. Live'
    <3>1. Drained
      BY <1>1 DEF Drained
    <3> QED BY <1>1, <1>2, <1>4, <3>1, LiveStep DEF CallInv
  <2>7. \A c : IsSuspended(c)' <=> IsSuspended(c) \/ c = u
    BY <1>a, <1>8 DEF IsSuspended
  <2>8. \A i \in 1..m : stack'[i] = stack[i] /\ i \in 1..Len(stack) /\ i < Len(stack)
    BY <1>3, <1>4 DEF Keeps
  <2>9. \A i \in 1..m : OwnedAt(i) /\ Owns(stack[i]) \subseteq Branch
    BY <1>2, <2>8, OwnsBranches DEF CallInv, Owned
  <2>10. ASSUME NEW i \in 1..m PROVE OwnedAt(i)'
    <3>1. \A j \in 1..m : i # j => Owns(stack'[i]) \cap Owns(stack'[j]) = {}
      BY <2>8, <2>9 DEF OwnedAt
    <3>2. stack'[i].k = "fork" => stack'[i].cur \notin stack'[i].todo
      BY <2>8, <2>9 DEF OwnedAt
    <3>3. ASSUME NEW c \in Owns(stack'[i]), IsSuspended(c)'
          PROVE  stack'[i].cur = c /\ i = Len(stack') /\ ~ret'
      <4>1. c = u /\ u \in Branch
        BY <2>7, <2>8, <2>9, <3>3 DEF OwnedAt
      <4>2. m > 0 /\ u \in Owns(stack[m]) /\ stack[m].cur = u
        BY <2>1, <2>2, <4>1
      <4>3. i = m
        BY <2>2, <2>8, <3>3, <4>1, <4>2 DEF OwnedAt
      <4> QED BY <1>1, <1>4, <2>8, <4>1, <4>2, <4>3
    <3>4. Busy(stack'[i]) /\ i = Len(stack') /\ ~ret' => \E w \in suspended' : w.th = stack'[i].cur
      BY <1>4, <1>8, <1>a, <2>1, <2>8
    <3> QED BY <1>4, <3>1, <3>2, <3>3, <3>4 DEF OwnedAt, Owns, Busy, IsSuspended
  <2>11. Owned'
    <3>1. \A i \in 1..m : OwnedAt(i)'
      BY <2>10
    <3> QED BY <1>4, <3>1 DEF Owned
  <2>12. \A c \in Branch : Open(c)' <=> Open(c)
    <3>1. \A i \in 1..Len(stack) : i \in 1..m \/ (i = m + 1 /\ Owns(stack[i]) = {})
      BY <1>3, <1>7, InertFacts DEF Inert
    <3>2. ASSUME NEW c \in Branch PROVE Open(c)' <=> Open(c)
      <4>1. Open(c)' <=> IsSuspended(c)' \/ \E i \in 1..m : c \in Owns(stack'[i])
        BY <1>4 DEF Open, Owns
      <4>2. Open(c) <=> IsSuspended(c) \/ \E i \in 1..m : c \in Owns(stack[i])
        BY <2>8, <3>1 DEF Open
      <4>3. c = u => \E i \in 1..m : c \in Owns(stack[i])
        BY <2>1, <2>2
      <4> QED BY <2>7, <2>8, <4>1, <4>2, <4>3
    <3> QED BY <3>2
  <2>13. Account'
    BY <1>1, <1>2, <2>12, GroupsUnchanged, AccountSame DEF CallInv
  <2>14. Remembered'
    <3>1. z.fid # None <=> z.th \in Branch
      BY <1>8, <2>1, <2>3, Basics
    <3>2. z.fid # None => groups[z.fid].active /\ groups[z.fid].no = forkOf[z.th]
      BY <1>8, <2>3, <3>1
    <3>3. \A w \in suspended : (w.fid # None <=> w.th \in Branch)
                               /\ (w.fid # None => groups[w.fid].active /\ groups[w.fid].no = forkOf[w.th])
      BY <1>2 DEF CallInv, Remembered
    <3> QED BY <1>1, <1>a, <3>1, <3>2, <3>3 DEF Remembered
  <2> QED BY <2>4, <2>5, <2>6, <2>11, <2>13, <2>14 DEF CallInv
<1>12. OnePlace' /\ Unstarted'
  <2>1. Holds(u, "run", m + 1, 0) /\ ~Holds(u, "run", m + 1, 0)'
    BY <1>3, <1>4, <1>5, <1>7 DEF Holds, FramePlace
  <2>2. \A t, k, x : RestPlace(t, k, x)' => RestPlace(t, k, x) \/ (t = u /\ k = "suspended" /\ 0 = 0 /\ x = z)
    BY <1>1, <1>a, <1>8 DEF RestPlace, Unborn
  <2>3. (\A t : t # u => Stays(t)) /\ Moves(u, "suspended", 0, z)
    <3>1. \E k, i, x : Holds(u, k, i, x) /\ ~Holds(u, k, i, x)'
      BY <2>1
    <3>2. \A i \in (m + 1)..Len(stack') : \A t, k, x : FramePlace(stack'[i], t, k, x) =>
            (i <= Len(stack) /\ FramePlace(stack[i], t, k, x)) \/ (t = u /\ k = "suspended" /\ i = 0 /\ x = z)
      BY <1>4
    <3> QED BY <1>2, <1>4, <2>2, <3>1, <3>2, OneMoves
  <2> QED BY <1>2, <1>7, <2>3, PlaceStep
<1> QED BY <1>9, <1>10, <1>11, <1>12 DEF IInv

\* A statement whose condition holds: the rest of the block runs in a call of its own.
LEMMA GoesOn ==
  ASSUME IInv, NEW kind, Executes(kind), stack' = Below \o <<Frame("true", None), Top>>,
         UNCHANGED <<design, groups, used, fork_free, ret, name, suspended, waits, wait_forks,
                     forkOf, forks, blocked, ended, doomed>>
  PROVE  IInv'
<1>1. /\ design' = design /\ groups' = groups /\ used' = used /\ fork_free' = fork_free /\ ret' = ret
      /\ name' = name /\ suspended' = suspended /\ waits' = waits /\ wait_forks' = wait_forks
      /\ forkOf' = forkOf /\ forks' = forks /\ blocked' = blocked /\ ended' = ended /\ doomed' = doomed
  OBVIOUS
<1>2. Typed /\ SlotInv /\ CallInv /\ OnePlace /\ Unstarted
  BY DEF IInv
<1>3. PICK u \in Thread : u = Top.th
  BY <1>2, ExecuteFacts
<1>4. /\ stack # <<>> /\ Top.k = "run" /\ left' \in [Thread -> Nat]
      /\ \A t \in Thread : left'[t] \in Nat /\ left'[t] <= left[t]
      /\ left'[u] < Initial(u) /\ (u \in Branch => left'[u] = 0)
  BY <1>2, <1>3, ExecuteFacts
<1>5. PICK m \in Nat :
        /\ Len(stack) = m + 1 /\ Top = stack[m + 1] /\ Top \in Frames /\ m + 1 \in 1..Len(stack)
        /\ Below \in Seq(Frames) /\ Len(Below) = m /\ \A i \in 1..m : Below[i] = stack[i]
  BY <1>2, <1>4, TopFrame
<1>6. PICK y \in Frames : y = Top
  BY <1>5
<1>7. /\ stack' \in Seq(Frames) /\ Keeps(m) /\ Len(stack') = m + 2
      /\ stack'[m + 1] = Frame("true", None) /\ stack'[m + 2] = y
      /\ (m + 1)..Len(stack') = {m + 1, m + 2}
  BY <1>2, <1>5, <1>6, FrameTypes, PushStack2
<1>8. y.k = "run" /\ y.th = u /\ (y.fid # None => y.th \in Branch)
  BY <1>2, <1>3, <1>4, <1>5, <1>6, RunningBranch
<1>9. Typed'
  BY <1>1, <1>2, <1>4, <1>7 DEF Typed
<1>10. SlotInv'
  BY <1>1, <1>2, <1>4, GroupsUnchanged, SlotsKept
<1>11. CallInv'
  <2>1. \A i \in (m + 1)..Len(stack) : Owns(stack[i]) = {}
    BY <1>2, <1>4, <1>5, RunOwnsNothing DEF Inert
  <2>2. SameCore
    BY <1>1, GroupsUnchanged
  <2>3. Len(stack) # m /\ Len(stack') # m /\ stack'[m + 1].k = "true"
    BY <1>5, <1>7 DEF Frame
  <2>4. LightAt(m, m + 1)
    <3>1. stack'[m + 1].k = "true" /\ (m + 1)..((m + 1) - 1) = {}
      <4>1. (m + 1) - 1 = m /\ (m + 1)..m = {}
        OBVIOUS
      <4> QED BY <2>3, <4>1
    <3> QED BY <3>1 DEF LightAt, Inert, Refers
  <2>5. LightAt(m, m + 2)
    <3>1. stack'[m + 2].k = "run" /\ stack'[m + 2].th = u /\ m + 2 = Len(stack')
      BY <1>7, <1>8
    <3>2. stack'[m + 2].fid # None => stack'[m + 2].th \in Branch
      BY <1>7, <1>8
    <3> QED BY <1>4, <3>1, <3>2 DEF LightAt, Inert, Refers
  <2>6. Light(m)
    BY <1>1, <1>4, <1>7, <2>1, <2>2, <2>3, <2>4, <2>5 DEF Light
  <2> QED BY <1>2, <2>6, LightStep
<1>12. OnePlace' /\ Unstarted'
  <2>1. Holds(u, "run", m + 1, 0) /\ ~Holds(u, "run", m + 1, 0)'
    BY <1>3, <1>4, <1>5, <1>7 DEF Holds, FramePlace, Frame
  <2>2. \A t, k, x : RestPlace(t, k, x)' => RestPlace(t, k, x) \/ (t = u /\ k = "run" /\ m + 2 = 0 /\ x = 0)
    BY <1>1 DEF RestPlace, Unborn
  <2>3. (\A t : t # u => Stays(t)) /\ Moves(u, "run", m + 2, 0)
    <3>1. \E k, i, x : Holds(u, k, i, x) /\ ~Holds(u, k, i, x)'
      BY <2>1
    <3>2. \A i \in (m + 1)..Len(stack') : \A t, k, x : FramePlace(stack'[i], t, k, x) =>
            (i <= Len(stack) /\ FramePlace(stack[i], t, k, x)) \/ (t = u /\ k = "run" /\ i = m + 2 /\ x = 0)
      <4>1. \A t, k, x : ~FramePlace(stack'[m + 1], t, k, x)
        BY <1>7 DEF FramePlace, Frame
      <4>2. \A t, k, x : FramePlace(stack'[m + 2], t, k, x) => t = u /\ k = "run" /\ x = 0
        BY <1>7, <1>8 DEF FramePlace
      <4> QED BY <1>7, <4>1, <4>2
    <3> QED BY <1>2, <1>7, <2>2, <3>1, <3>2, OneMoves
  <2>4. "run" \in Unexecuted
    BY DEF Unexecuted
  <2> QED BY <1>2, <1>4, <2>3, <2>4, PlaceStep
<1> QED BY <1>9, <1>10, <1>11, <1>12 DEF IInv

\* A statement that has to wait: the call returns true, the thread is in a list.
LEMMA Pends ==
  ASSUME IInv, NEW kind, Executes(kind), stack' = Below, ret' = TRUE,
         UNCHANGED <<design, groups, used, fork_free, name, suspended,
                     forkOf, forks, blocked, ended, doomed>>,
         waits' \subseteq Thread, wait_forks' \subseteq Waiter, NEW K, NEW X, NEW u, u = Top.th,
         \A t, k, x : RestPlace(t, k, x)' => RestPlace(t, k, x) \/ (t = u /\ k = K /\ 0 = 0 /\ x = X)
  PROVE  IInv'
<1>1. /\ design' = design /\ groups' = groups /\ used' = used /\ fork_free' = fork_free
      /\ name' = name /\ suspended' = suspended
      /\ forkOf' = forkOf /\ forks' = forks /\ blocked' = blocked /\ ended' = ended /\ doomed' = doomed
  OBVIOUS
<1>2. Typed /\ SlotInv /\ CallInv /\ OnePlace /\ Unstarted
  BY DEF IInv
<1>4. /\ stack # <<>> /\ Top.k = "run" /\ left' \in [Thread -> Nat] /\ u \in Thread
      /\ \A t \in Thread : left'[t] \in Nat /\ left'[t] <= left[t]
      /\ left'[u] < Initial(u)
  BY <1>2, ExecuteFacts
<1>5. PICK m \in Nat :
        /\ Len(stack) = m + 1 /\ Top = stack[m + 1] /\ Top \in Frames /\ m + 1 \in 1..Len(stack)
        /\ Below \in Seq(Frames) /\ Len(Below) = m /\ \A i \in 1..m : Below[i] = stack[i]
  BY <1>2, <1>4, TopFrame
<1>7. stack' \in Seq(Frames) /\ Keeps(m) /\ Len(stack') = m /\ (m + 1)..Len(stack') = {}
  BY <1>2, <1>5, PopStack
<1>9. Typed'
  BY <1>1, <1>2, <1>4, <1>7 DEF Typed
<1>10. SlotInv'
  BY <1>1, <1>2, <1>4, GroupsUnchanged, SlotsKept
<1>11. CallInv'
  <2>1. \A i \in (m + 1)..Len(stack) : Owns(stack[i]) = {}
    BY <1>2, <1>4, <1>5, RunOwnsNothing DEF Inert
  <2>2. SameCore
    BY <1>1, GroupsUnchanged
  <2>3. Len(stack) # m /\ (Len(stack') = m => ret')
    BY <1>5
  <2>4. Light(m)
    BY <1>1, <1>4, <1>7, <2>1, <2>2, <2>3 DEF Light
  <2> QED BY <1>2, <2>4, LightStep
<1>12. OnePlace' /\ Unstarted'
  <2>1. Holds(u, "run", m + 1, 0) /\ ~Holds(u, "run", m + 1, 0)'
    BY <1>4, <1>5, <1>7 DEF Holds, FramePlace
  <2>3. (\A t : t # u => Stays(t)) /\ Moves(u, K, 0, X)
    <3>1. \E k, i, x : Holds(u, k, i, x) /\ ~Holds(u, k, i, x)'
      BY <2>1
    <3>2. \A i \in (m + 1)..Len(stack') : \A t, k, x : FramePlace(stack'[i], t, k, x) =>
            (i <= Len(stack) /\ FramePlace(stack[i], t, k, x)) \/ (t = u /\ k = K /\ i = 0 /\ x = X)
      BY <1>7
    <3> QED BY <1>2, <1>4, <1>7, <3>1, <3>2, OneMoves
  <2> QED BY <1>2, <1>4, <2>3, PlaceStep
<1> QED BY <1>9, <1>10, <1>11, <1>12 DEF IInv

LEMMA WaitKeeps ==
  ASSUME IInv, Wait
  PROVE  IInv'
<1>1. /\ Executes("wait")
      /\ UNCHANGED <<design, groups, used, fork_free, name, suspended, wait_forks, forkOf, forks,
                     blocked, ended, doomed>>
  BY DEF Wait
<1>2. Top.th \in Thread /\ waits \subseteq Thread /\ wait_forks \subseteq Waiter
  BY <1>1, ExecuteFacts DEF IInv, Typed
<1>3. CASE waits' = waits \cup {Top.th} /\ stack' = Below /\ ret' = TRUE
  <2>1. PICK u : u = Top.th
    OBVIOUS
  <2>2. \A t, k, x : RestPlace(t, k, x)' =>
          RestPlace(t, k, x) \/ (t = u /\ k = "pending" /\ 0 = 0 /\ x = 0)
    BY <1>1, <1>3, <2>1 DEF RestPlace, Unborn
  <2>3. waits' \subseteq Thread /\ wait_forks' \subseteq Waiter
    BY <1>1, <1>2, <1>3
  <2> QED BY <1>1, <1>3, <2>1, <2>2, <2>3, Pends
<1>4. CASE stack' = Below \o <<Frame("true", None), Top>> /\ UNCHANGED <<waits, ret>>
  BY <1>1, <1>4, GoesOn
<1> QED BY <1>3, <1>4 DEF Wait

LEMMA WaitForkKeeps ==
  ASSUME IInv, WaitFork
  PROVE  IInv'
<1>0. PICK kind : Executes(kind)
  BY DEF WaitFork
<1>1. /\ Executes(kind)
      /\ UNCHANGED <<design, groups, used, fork_free, name, suspended, waits, forkOf, forks,
                     blocked, ended, doomed>>
  BY <1>0 DEF WaitFork
<1>2. /\ Top.th \in Thread /\ waits \subseteq Thread /\ wait_forks \subseteq Waiter
      /\ name \in Processes \cup {None}
  BY <1>1, ExecuteFacts DEF IInv, Typed
<1>3. CASE ActiveGroups # {}
  <2>0. PICK w : w = [th |-> Top.th, fids |-> ActiveGroups, proc |-> name]
    OBVIOUS
  <2>1. PICK u : u = Top.th
    OBVIOUS
  <2>2. wait_forks' = wait_forks \cup {w} /\ stack' = Below /\ ret' = TRUE
    BY <1>3, <2>0 DEF WaitFork
  <2>3. w \in Waiter /\ w.th = u
    <3>1. ActiveGroups \in SUBSET Slots
      BY DEF ActiveGroups
    <3> QED BY <1>2, <2>0, <2>1, <3>1 DEF Waiter
  <2>4. \A t, k, x : RestPlace(t, k, x)' =>
          RestPlace(t, k, x) \/ (t = u /\ k = "waiting" /\ 0 = 0 /\ x = w)
    BY <1>1, <2>2, <2>3 DEF RestPlace, Unborn
  <2>5. waits' \subseteq Thread /\ wait_forks' \subseteq Waiter
    BY <1>1, <1>2, <2>2, <2>3
  <2> QED BY <1>1, <2>1, <2>2, <2>4, <2>5, Pends
<1>4. CASE ActiveGroups = {}
  <2>1. stack' = Below \o <<Frame("true", None), Top>> /\ UNCHANGED <<wait_forks, ret>>
    BY <1>4 DEF WaitFork
  <2> QED BY <1>1, <2>1, GoesOn
<1> QED BY <1>3, <1>4

LEMMA DisableForkKeeps ==
  ASSUME IInv, DisableFork
  PROVE  IInv'
<1>1. /\ Executes("disable fork")
      /\ groups' = [f \in Slots |-> IF f \in ActiveGroups THEN [groups[f] EXCEPT !.disabled = TRUE]
                                    ELSE groups[f]]
      /\ doomed' = doomed \cup (Counted(Top.th) \ ended)
      /\ design' = design /\ stack' = stack /\ used' = used /\ fork_free' = fork_free /\ ret' = ret
      /\ name' = name /\ suspended' = suspended /\ waits' = waits /\ wait_forks' = wait_forks
      /\ forkOf' = forkOf /\ forks' = forks /\ blocked' = blocked /\ ended' = ended
  BY DEF DisableFork
<1>2. Typed /\ SlotInv /\ CallInv /\ OnePlace /\ Unstarted
  BY DEF IInv
<1>3. PICK u \in Thread : u = Top.th
  BY <1>1, <1>2, ExecuteFacts
<1>4. /\ stack # <<>> /\ left' \in [Thread -> Nat]
      /\ \A t \in Thread : left'[t] \in Nat /\ left'[t] <= left[t]
  BY <1>1, <1>2, ExecuteFacts
<1>5. \A f \in Slots : groups[f] \in Group
  BY <1>2 DEF Typed
<1>6. ASSUME NEW f \in Slots
      PROVE  /\ groups'[f] \in Group
             /\ groups'[f].active = groups[f].active /\ groups'[f].remaining = groups[f].remaining
             /\ groups'[f].reclaimable = groups[f].reclaimable /\ groups'[f].no = groups[f].no
             /\ groups'[f].cont = groups[f].cont /\ groups'[f].fired = groups[f].fired
  <2>1. groups[f] \in Group /\ TRUE \in BOOLEAN
    BY <1>5
  <2>2. CASE f \in ActiveGroups
    <3>1. groups'[f] = [groups[f] EXCEPT !.disabled = TRUE]
      BY <1>1, <2>2
    <3> QED BY <2>1, <3>1 DEF Group
  <2>3. CASE f \notin ActiveGroups
    <3>1. groups'[f] = groups[f]
      BY <1>1, <2>3
    <3> QED BY <2>1, <3>1
  <2> QED BY <2>2, <2>3
<1>7. groups' \in [Slots -> Group]
  BY <1>1, <1>6
<1>8. SameCore
  BY <1>6 DEF SameCore
<1>9. Typed'
  <2>1. doomed' \subseteq Thread
    BY <1>1, <1>2, Basics DEF Typed, Counted, Children, Branch
  <2> QED BY <1>1, <1>2, <1>4, <1>7, <2>1 DEF Typed
<1>10. SlotInv'
  BY <1>1, <1>2, <1>4, <1>8, SlotsKept
<1>11. PICK m \in Nat : m = Len(stack)
  BY <1>2 DEF Typed
<1>12. Keeps(m) /\ (m + 1)..Len(stack') = {} /\ (m + 1)..Len(stack) = {}
  <2>1. Len(stack) = m /\ Len(stack') = m /\ m \in Nat
    BY <1>1, <1>11
  <2>2. \A i \in 1..m : stack'[i] = stack[i]
    BY <1>1
  <2> QED BY <2>1, <2>2 DEF Keeps
<1>13. CallInv'
  <2>1. Light(m)
    <3>1. \A i \in (m + 1)..Len(stack) : Owns(stack[i]) = {}
      BY <1>12
    <3>2. \A i \in (m + 1)..Len(stack') : LightAt(m, i)
      BY <1>12
    <3>3. Len(stack') = m /\ Len(stack) = m
      BY <1>1, <1>11
    <3> QED BY <1>1, <1>4, <1>8, <1>12, <3>1, <3>2, <3>3 DEF Light
  <2> QED BY <1>2, <2>1, LightStep
<1>14. OnePlace' /\ Unstarted'
  <2>1. \A t, k, x : RestPlace(t, k, x)' => RestPlace(t, k, x)
    BY <1>1 DEF RestPlace, Unborn
  <2>2. \A t : Stays(t)
    BY <1>2, <1>12, <2>1, NobodyMoves
  <2> QED BY <1>2, <1>4, <2>2, PlaceStep
<1> QED BY <1>9, <1>10, <1>13, <1>14 DEF IInv
-----------------------------------------------------------------------------
(* Every action keeps the invariant: calls that return, and are made.         *)

\* Whoever has left the threads that have executed nothing yet has no statement left
\* if it is a branch.
LEMMA Executed ==
  ASSUME Typed, SlotInv, Unstarted, NEW t \in Thread, NEW k, NEW i, NEW x,
         Holds(t, k, i, x), k \notin Unexecuted
  PROVE  left[t] < Initial(t) /\ (t \in Branch => left[t] = 0)
<1>1. left[t] # Initial(t)
  BY DEF Unstarted
<1>2. left[t] \in Nat /\ left[t] <= Initial(t) /\ Initial(t) \in Nat
  BY Basics DEF Typed, SlotInv, Counts, Initial
<1>3. t \in Branch => Initial(t) = 1
  BY Basics DEF Initial
<1> DEFINE a == Initial(t)
<1> HIDE DEF a
<1> QED BY <1>1, <1>2, <1>3 DEF a

LEMMA PushTwice ==
  ASSUME NEW S, NEW s \in Seq(S), NEW x \in S, NEW y \in S
  PROVE  (s \o <<x>>) \o <<y>> = s \o <<x, y>>
<1>1. <<x>> \in Seq(S) /\ <<y>> \in Seq(S)
  OBVIOUS
<1>a. <<x>> \o <<y>> = <<x, y>>
  <2> DEFINE a == <<x>> \o <<y>>
             b == <<x, y>>
  <2>1. a \in Seq(S) /\ Len(a) = 2 /\ a[1] = x /\ a[2] = y
    BY Push1
  <2>2. b \in Seq(S) /\ Len(b) = 2 /\ b[1] = x /\ b[2] = y
    OBVIOUS
  <2>3. \A i \in 1..2 : i = 1 \/ i = 2
    OBVIOUS
  <2> HIDE DEF a, b
  <2>4. \A i \in 1..Len(a) : a[i] = b[i]
    BY <2>1, <2>2, <2>3
  <2>5. a = b
    BY <2>1, <2>2, <2>4, SeqEqual
  <2> QED BY <2>5 DEF a, b
<1>2. (s \o <<x>>) \o <<y>> = s \o (<<x>> \o <<y>>)
  BY <1>1, ConcatAssociative
<1> QED BY <1>a, <1>2

LEMMA PushStack11 ==
  ASSUME Typed, NEW m \in Nat, Len(stack) = m + 1, Len(Below) = m, Below \in Seq(Frames),
         \A i \in 1..m : Below[i] = stack[i],
         NEW x \in Frames, NEW y \in Frames, stack' = (Below \o <<x>>) \o <<y>>
  PROVE  /\ stack' \in Seq(Frames) /\ Keeps(m) /\ Len(stack') = m + 2
         /\ stack'[m + 1] = x /\ stack'[m + 2] = y
         /\ (m + 1)..Len(stack') = {m + 1, m + 2}
<1>1. stack' = Below \o <<x, y>>
  BY PushTwice
<1> QED BY <1>1, PushStack2

\* Only a statement or a call that returns true is above a frame that waits.
LEMMA BelowOthers ==
  ASSUME Typed, CallInv, NEW m \in Nat, Len(stack) = m + 1, stack[m + 1].k \notin {"run", "true"}
  PROVE  ~(m > 0 /\ Busy(stack[m]))
<1>1. m > 0 => ShapeAt(m)
  BY DEF CallInv
<1> QED BY <1>1 DEF ShapeAt

\* A step of the bookkeeping that moves nobody and leaves the counters alone.
LEMMA QuietKeeps ==
  ASSUME IInv, NEW m, Light(m), Typed',
         UNCHANGED <<used, fork_free, waits, wait_forks, left, blocked, ended>>,
         \A i \in (m + 1)..Len(stack') : \A t, k, x : ~FramePlace(stack'[i], t, k, x)
  PROVE  IInv'
<1>1. /\ Keeps(m) /\ SameCore /\ suspended' = suspended /\ forkOf' = forkOf /\ forks' = forks
      /\ used' = used /\ fork_free' = fork_free /\ waits' = waits /\ wait_forks' = wait_forks
      /\ left' = left /\ blocked' = blocked /\ ended' = ended
  BY DEF Light
<1>2. Typed /\ SlotInv /\ CallInv /\ OnePlace /\ Unstarted
  BY DEF IInv
<1>3. left' \in [Thread -> Nat] /\ \A t \in Thread : left'[t] \in Nat /\ left'[t] <= left[t]
  BY <1>1, <1>2 DEF Typed
<1>4. SlotInv'
  BY <1>1, <1>2, <1>3, SlotsKept
<1>5. CallInv'
  BY <1>2, LightStep
<1>6. OnePlace' /\ Unstarted'
  <2>1. \A t, k, x : RestPlace(t, k, x)' => RestPlace(t, k, x)
    BY <1>1 DEF RestPlace, Unborn
  <2>2. \A t : Stays(t)
    BY <1>1, <1>2, <2>1, NobodyMoves
  <2> QED BY <1>2, <1>3, <2>2, PlaceStep
<1> QED BY <1>4, <1>5, <1>6 DEF IInv

LEMMA ReturnTrueKeeps ==
  ASSUME IInv, ReturnTrue
  PROVE  IInv'
<1>1. /\ stack # <<>> /\ Top.k = "true" /\ stack' = Below /\ ret' = TRUE
      /\ design' = design /\ groups' = groups /\ used' = used /\ fork_free' = fork_free
      /\ name' = name /\ suspended' = suspended /\ waits' = waits /\ wait_forks' = wait_forks
      /\ left' = left /\ forkOf' = forkOf /\ forks' = forks /\ blocked' = blocked
      /\ ended' = ended /\ doomed' = doomed
  BY DEF ReturnTrue, AtTop, engine, history
<1>2. Typed /\ SlotInv /\ CallInv /\ OnePlace /\ Unstarted
  BY DEF IInv
<1>3. PICK m \in Nat :
        /\ Len(stack) = m + 1 /\ Top = stack[m + 1] /\ Top \in Frames /\ m + 1 \in 1..Len(stack)
        /\ Below \in Seq(Frames) /\ Len(Below) = m /\ \A i \in 1..m : Below[i] = stack[i]
  BY <1>1, <1>2, TopFrame
<1>4. stack' \in Seq(Frames) /\ Keeps(m) /\ Len(stack') = m /\ (m + 1)..Len(stack') = {}
  BY <1>1, <1>2, <1>3, PopStack
<1>5. Typed'
  BY <1>1, <1>2, <1>4 DEF Typed
<1>6. Light(m)
  <2>1. \A i \in (m + 1)..Len(stack) : Owns(stack[i]) = {}
    BY <1>1, <1>2, <1>3, RunOwnsNothing DEF Inert
  <2>2. SameCore
    BY <1>1, GroupsUnchanged
  <2>3. Len(stack) # m /\ (Len(stack') = m => ret')
    BY <1>1, <1>3
  <2>4. \A t \in Thread : left'[t] \in Nat /\ left'[t] <= left[t]
    BY <1>1, <1>2 DEF Typed
  <2> QED BY <1>1, <1>4, <2>1, <2>2, <2>3, <2>4 DEF Light
<1> QED BY <1>1, <1>4, <1>5, <1>6, QuietKeeps

\* A call that pushes the end of group f, or nothing, on base: the frames below the
\* top, and perhaps a "close" for the same slot.
LEMMA FinishKeeps ==
  ASSUME IInv, stack # <<>>, Top.k \in {"close", "fork"}, Owns(Top) = {},
         NEW f \in Slots, f = Top.fid,
         NEW base, base = Below \/ base = Append(Below, Frame("close", f)),
         Quiet(base) \/ (Announces(f, base) /\ groups[f].remaining = 0),
         UNCHANGED <<design, ret, used, fork_free, name, suspended, waits, wait_forks,
                     left, forkOf, forks, ended, doomed>>
  PROVE  IInv'
<1>1. /\ design' = design /\ ret' = ret /\ used' = used /\ fork_free' = fork_free
      /\ name' = name /\ suspended' = suspended /\ waits' = waits /\ wait_forks' = wait_forks
      /\ left' = left /\ forkOf' = forkOf /\ forks' = forks
      /\ ended' = ended /\ doomed' = doomed
  OBVIOUS
<1>2. Typed /\ SlotInv /\ CallInv /\ OnePlace /\ Unstarted
  BY DEF IInv
<1>3. PICK m \in Nat :
        /\ Len(stack) = m + 1 /\ Top = stack[m + 1] /\ Top \in Frames /\ m + 1 \in 1..Len(stack)
        /\ Below \in Seq(Frames) /\ Len(Below) = m /\ \A i \in 1..m : Below[i] = stack[i]
  BY <1>2, TopFrame
<1>4. \A i \in (m + 1)..Len(stack) : Owns(stack[i]) = {}
  <2>1. \A i \in (m + 1)..Len(stack) : i = m + 1
    BY <1>3
  <2> QED BY <1>3, <2>1
<1>5. ~(m > 0 /\ Busy(stack[m]))
  BY <1>2, <1>3, BelowOthers
<1>6. \A t \in Thread : left'[t] \in Nat /\ left'[t] <= left[t]
  BY <1>1, <1>2 DEF Typed
<1>7. Len(stack) # m /\ Len(stack) = m + 1 /\ Refers(stack[m + 1]) /\ stack[m + 1].fid = f
      /\ stack[m + 1].k \notin {"finished", "retire"}
  BY <1>3 DEF Refers
<1>8. SameCore /\ groups' \in [Slots -> Group] /\ blocked' = blocked
  <2>1. CASE Quiet(base)
    BY <1>2, <2>1, GroupsUnchanged DEF Quiet, Typed
  <2>2. CASE Announces(f, base) /\ groups[f].remaining = 0
    BY <2>2 DEF Announces, SlotKeeps, SameCore
  <2> QED BY <2>1, <2>2
<1>9. PICK c \in Frames, e \in Frames : c = Frame("close", f) /\ e = Frame("finished", f)
  BY FrameTypes
<1>10. Append(Below, Frame("close", f)) = Below \o <<c>>
  BY <1>3, <1>9, AppendIsConcat
<1>11. ASSUME stack'[m + 1] = c PROVE LightAt(m, m + 1)
  <2>1. stack'[m + 1].k = "close" /\ stack'[m + 1].fid = f
    BY <1>9, <1>11 DEF Frame
  <2>2. (m + 1) - 1 = m /\ (m + 1)..m = {}
    OBVIOUS
  <2> QED BY <1>7, <2>1, <2>2 DEF LightAt, Inert
<1>12. ASSUME NEW i \in Nat, i > m, stack'[i] = e, Announces(f, base),
              \A j \in (m + 1)..(i - 1) : stack'[j].k = "close"
       PROVE  LightAt(m, i)
  <2>1. stack'[i].k = "finished" /\ stack'[i].fid = f
    BY <1>9, <1>12 DEF Frame
  <2>2. groups'[f].active /\ groups'[f].remaining = 0
    BY <1>12 DEF Announces, SlotKeeps
  <2> QED BY <1>7, <1>12, <2>1, <2>2 DEF LightAt, Inert
<1>13. \A x \in {c, e} : \A t, k, y : ~FramePlace(x, t, k, y)
  BY <1>9 DEF FramePlace, Frame
<1>14. ASSUME stack' \in Seq(Frames) PROVE Typed'
  BY <1>1, <1>2, <1>8, <1>14 DEF Typed
<1>15. ASSUME stack' \in Seq(Frames), Keeps(m), \A i \in (m + 1)..Len(stack') : LightAt(m, i),
              \A i \in (m + 1)..Len(stack') : stack'[i] \in {c, e}
       PROVE  IInv'
  <2>1. Light(m)
    BY <1>1, <1>4, <1>5, <1>6, <1>7, <1>8, <1>15 DEF Light
  <2>2. \A i \in (m + 1)..Len(stack') : \A t, k, y : ~FramePlace(stack'[i], t, k, y)
    BY <1>13, <1>15
  <2> QED BY <1>1, <1>8, <1>14, <1>15, <2>1, <2>2, QuietKeeps
<1>16. CASE base = Below /\ Quiet(base)
  <2>1. stack' = Below
    BY <1>16 DEF Quiet
  <2>2. stack' \in Seq(Frames) /\ Keeps(m) /\ Len(stack') = m /\ (m + 1)..Len(stack') = {}
    BY <1>2, <1>3, <2>1, PopStack
  <2> QED BY <1>15, <2>2
<1>17. CASE base = Below /\ Announces(f, base)
  <2>1. stack' = Below \o <<e>>
    BY <1>9, <1>17 DEF Announces
  <2>2. /\ stack' \in Seq(Frames) /\ Keeps(m) /\ Len(stack') = m + 1 /\ stack'[m + 1] = e
        /\ (m + 1)..Len(stack') = {m + 1}
    BY <1>2, <1>3, <2>1, PushStack1
  <2>3. (m + 1)..((m + 1) - 1) = {}
    <3>1. (m + 1) - 1 = m /\ (m + 1)..m = {}
      OBVIOUS
    <3> QED BY <3>1
  <2>4. LightAt(m, m + 1)
    <3>1. m + 1 \in Nat /\ m + 1 > m
      OBVIOUS
    <3> QED BY <1>12, <1>17, <2>2, <2>3, <3>1
  <2> QED BY <1>15, <2>2, <2>4
<1>18. CASE base = Append(Below, Frame("close", f)) /\ Quiet(base)
  <2>1. stack' = Below \o <<c>>
    BY <1>10, <1>18 DEF Quiet
  <2>2. /\ stack' \in Seq(Frames) /\ Keeps(m) /\ Len(stack') = m + 1 /\ stack'[m + 1] = c
        /\ (m + 1)..Len(stack') = {m + 1}
    BY <1>2, <1>3, <2>1, PushStack1
  <2> QED BY <1>11, <1>15, <2>2
<1>19. CASE base = Append(Below, Frame("close", f)) /\ Announces(f, base)
  <2>1. stack' = (Below \o <<c>>) \o <<e>>
    BY <1>9, <1>10, <1>19 DEF Announces
  <2>2. /\ stack' \in Seq(Frames) /\ Keeps(m) /\ Len(stack') = m + 2
        /\ stack'[m + 1] = c /\ stack'[m + 2] = e
        /\ (m + 1)..Len(stack') = {m + 1, m + 2}
    BY <1>2, <1>3, <2>1, PushStack11
  <2>3. \A j \in (m + 1)..((m + 2) - 1) : stack'[j].k = "close"
    <3>1. \A j \in (m + 1)..((m + 2) - 1) : j = m + 1
      OBVIOUS
    <3>2. c.k = "close"
      BY <1>9 DEF Frame
    <3> QED BY <2>2, <3>1, <3>2
  <2>4. LightAt(m, m + 2)
    <3>1. m + 2 \in Nat /\ m + 2 > m
      OBVIOUS
    <3> QED BY <1>12, <1>19, <2>2, <2>3, <3>1
  <2>5. LightAt(m, m + 1)
    BY <1>11, <2>2
  <2> QED BY <1>15, <2>2, <2>4, <2>5
<1> QED BY <1>16, <1>17, <1>18, <1>19

LEMMA CloseKeeps ==
  ASSUME IInv, Close
  PROVE  IInv'
<1>1. /\ stack # <<>> /\ Top.k = "close"
      /\ Perform(Finish(groups, Top.fid), Below) /\ Unblocked(Finish(groups, Top.fid))
      /\ UNCHANGED <<design, ret, used, fork_free, name, suspended, waits, wait_forks,
                     left, forkOf, forks, ended, doomed>>
  BY DEF Close, AtTop
<1>2. Typed /\ SlotInv
  BY DEF IInv
<1>3. Top \in Frames /\ Below \in Seq(Frames)
  BY <1>1, <1>2, TopFrame
<1>4. PICK f \in Slots : f = Top.fid
  BY <1>1, <1>3, FrameFacts
<1>5. Continues(f)
  BY <1>2 DEF SlotInv, GroupInv
<1>6. Quiet(Below) \/ (Announces(f, Below) /\ groups[f].remaining = 0)
  BY <1>1, <1>2, <1>3, <1>4, <1>5, FinishMoves
<1>7. Owns(Top) = {}
  BY <1>1, InertFacts DEF Inert
<1> QED BY <1>1, <1>4, <1>6, <1>7, FinishKeeps

LEMMA JoinedKeeps ==
  ASSUME IInv, Joined, Top.kind # "all"
  PROVE  IInv'
<1>1. /\ stack # <<>> /\ Top.k = "fork" /\ Top.cur = None /\ Top.todo = {}
      /\ UNCHANGED <<design, ret, used, fork_free, name, suspended, waits, wait_forks,
                     left, forkOf, forks, ended, doomed>>
  BY DEF Joined, AtTop
<1>2. Typed /\ SlotInv /\ CallInv
  BY DEF IInv
<1>3. PICK m \in Nat :
        /\ Len(stack) = m + 1 /\ Top = stack[m + 1] /\ Top \in Frames /\ m + 1 \in 1..Len(stack)
        /\ Below \in Seq(Frames) /\ Len(Below) = m
  BY <1>1, <1>2, TopFrame
<1>4. PICK f \in Slots : f = Top.fid
  BY <1>1, <1>3, FrameFacts
<1>5. Continues(f) /\ groups[f].remaining \in Nat
  BY <1>2, GroupFields DEF SlotInv, GroupInv, Typed
<1>7. Owns(Top) = {}
  BY <1>1 DEF Owns
<1>8. CASE Top.kind = "join"
  <2>1. Perform(Finish(groups, f), Below) /\ Unblocked(Finish(groups, f))
    BY <1>4, <1>8 DEF Joined
  <2>2. Quiet(Below) \/ (Announces(f, Below) /\ groups[f].remaining = 0)
    BY <1>2, <1>3, <1>5, <2>1, FinishMoves
  <2> QED BY <1>1, <1>4, <1>7, <2>2, FinishKeeps
<1>9. CASE Top.kind = "any"
  <2>0. PICK base \in Seq(Frames) : base = Append(Below, Frame("close", f))
    <3>1. Frame("close", f) \in Frames
      BY FrameTypes
    <3> QED BY <1>3, <3>1, AppendProperties
  <2>1. CASE Top.any
    <3>1. Perform(Decrement(groups, f), base) /\ Unblocked(Decrement(groups, f))
      BY <1>4, <1>9, <2>0, <2>1 DEF Joined
    <3>2. groups[f].active /\ groups[f].remaining = 0
      BY <1>1, <1>2, <1>3, <1>4, <1>9, <2>1 DEF CallInv, Live, LiveFork
    <3>3. Settles(f, base)
      BY <1>2, <1>5, <3>1, <3>2, DecrementMoves
    <3>4. Announces(f, base)
      BY <3>2, <3>3 DEF Settles, Lessens, Continued
    <3> QED BY <1>1, <1>4, <1>7, <2>0, <3>2, <3>4, FinishKeeps
  <2>2. CASE ~Top.any
    <3> DEFINE r == [g |-> groups, push |-> <<>>]
    <3>1. Perform(r, base) /\ Unblocked(r)
      BY <1>4, <1>9, <2>0, <2>2 DEF Joined
    <3>2. r.g = groups /\ r.push = <<>>
      OBVIOUS
    <3>3. blocked' = blocked
      BY <1>2, <3>1, <3>2, UnblockedNone
    <3>4. Quiet(base)
      BY <3>1, <3>2, <3>3, PushNone DEF Perform, Quiet
    <3> QED BY <1>1, <1>4, <1>7, <2>0, <3>4, FinishKeeps
  <2> QED BY <2>1, <2>2
<1> QED BY <1>8, <1>9 DEF Joined

\* join_none: the statements behind it run, and the group stays.
LEMMA JoinedAllKeeps ==
  ASSUME IInv, Joined, Top.kind = "all"
  PROVE  IInv'
<1>1. /\ stack # <<>> /\ Top.k = "fork" /\ Top.cur = None /\ Top.todo = {}
      /\ groups' = [groups EXCEPT ![Top.fid].fired = TRUE]
      /\ stack' = Below \o <<Frame("close", Top.fid), Run(Top.parent, None)>>
      /\ design' = design /\ ret' = ret /\ used' = used /\ fork_free' = fork_free
      /\ name' = name /\ suspended' = suspended /\ waits' = waits /\ wait_forks' = wait_forks
      /\ left' = left /\ forkOf' = forkOf /\ forks' = forks /\ blocked' = blocked
      /\ ended' = ended /\ doomed' = doomed
  BY DEF Joined, AtTop
<1>2. Typed /\ SlotInv /\ CallInv /\ OnePlace /\ Unstarted
  BY DEF IInv
<1>3. PICK m \in Nat :
        /\ Len(stack) = m + 1 /\ Top = stack[m + 1] /\ Top \in Frames /\ m + 1 \in 1..Len(stack)
        /\ Below \in Seq(Frames) /\ Len(Below) = m /\ \A i \in 1..m : Below[i] = stack[i]
  BY <1>1, <1>2, TopFrame
<1>4. PICK f \in Slots : f = Top.fid
  BY <1>1, <1>3, FrameFacts
<1>5. PICK u \in Thread : u = Top.parent
  BY <1>1, <1>3, FrameFacts
<1>6. PICK c \in Frames, r \in Frames : c = Frame("close", f) /\ r = Run(u, None)
  BY FrameTypes
<1>7. /\ stack' \in Seq(Frames) /\ Keeps(m) /\ Len(stack') = m + 2
      /\ stack'[m + 1] = c /\ stack'[m + 2] = r
      /\ (m + 1)..Len(stack') = {m + 1, m + 2}
  <2>1. stack' = Below \o <<c, r>>
    BY <1>1, <1>4, <1>5, <1>6
  <2> QED BY <1>2, <1>3, <2>1, PushStack2
<1>8. SameCore /\ groups' \in [Slots -> Group]
  <2>1. groups \in [Slots -> Group] /\ groups[f] \in Group /\ TRUE \in BOOLEAN
    BY <1>2 DEF Typed
  <2>2. groups'[f] = [groups[f] EXCEPT !.fired = TRUE] /\ \A g \in Slots : g # f => groups'[g] = groups[g]
    BY <1>1, <1>4, <2>1
  <2>3. groups'[f] \in Group
    BY <2>1, <2>2 DEF Group
  <2>4. groups' \in [Slots -> Group]
    BY <1>1, <1>4, <2>1, <2>2, <2>3
  <2>5. /\ groups'[f].active = groups[f].active /\ groups'[f].remaining = groups[f].remaining
        /\ groups'[f].reclaimable = groups[f].reclaimable /\ groups'[f].no = groups[f].no
        /\ groups'[f].cont = groups[f].cont
    BY <2>1, <2>2 DEF Group
  <2>6. groups[f].cont = None
    BY <1>1, <1>2, <1>3, <1>4 DEF CallInv, Live, LiveFork
  <2> QED BY <2>2, <2>4, <2>5, <2>6 DEF SameCore
<1>9. Typed'
  BY <1>1, <1>2, <1>7, <1>8 DEF Typed
<1>10. left' \in [Thread -> Nat] /\ \A t \in Thread : left'[t] \in Nat /\ left'[t] <= left[t]
  BY <1>1, <1>2 DEF Typed
<1>11. SlotInv'
  BY <1>1, <1>2, <1>8, <1>10, SlotsKept
<1>12. Holds(u, "parent", m + 1, 0)
  BY <1>1, <1>3, <1>5 DEF Holds, FramePlace
<1>13. u \in Branch => left'[u] = 0
  BY <1>1, <1>2, <1>12, Executed DEF Unexecuted
<1>14. /\ c.k = "close" /\ c.fid = f /\ r.k = "run" /\ r.th = u /\ r.fid = None
  BY <1>6 DEF Frame, Run
<1>15. CallInv'
  <2>1. \A i \in (m + 1)..Len(stack) : Owns(stack[i]) = {}
    <3>1. \A i \in (m + 1)..Len(stack) : stack[i] = Top
      BY <1>3
    <3>2. Owns(Top) = {}
      BY <1>1 DEF Owns
    <3> QED BY <3>1, <3>2
  <2>2. ~(m > 0 /\ Busy(stack[m]))
    BY <1>1, <1>2, <1>3, BelowOthers
  <2>3. LightAt(m, m + 1)
    <3>1. (m + 1) - 1 = m /\ (m + 1)..m = {}
      OBVIOUS
    <3>2. Refers(stack[m + 1]) /\ stack[m + 1].fid = f /\ stack[m + 1].k = "fork"
      BY <1>1, <1>3, <1>4 DEF Refers
    <3> QED BY <1>3, <1>7, <1>14, <3>1, <3>2 DEF LightAt, Inert
  <2>4. LightAt(m, m + 2)
    <3>1. stack'[m + 2].k = "run" /\ stack'[m + 2].th = u /\ stack'[m + 2].fid = None
      BY <1>7, <1>14
    <3> QED BY <1>7, <1>13, <3>1 DEF LightAt, Inert, Refers
  <2>5. Light(m)
    BY <1>1, <1>3, <1>7, <1>8, <1>10, <2>1, <2>2, <2>3, <2>4 DEF Light
  <2> QED BY <1>2, <2>5, LightStep
<1>16. OnePlace' /\ Unstarted'
  <2>1. ~Holds(u, "parent", m + 1, 0)'
    BY <1>7, <1>14 DEF Holds, FramePlace
  <2>0. PICK I \in Nat : I = m + 2
    OBVIOUS
  <2>2. \A t, k, x : RestPlace(t, k, x)' => RestPlace(t, k, x) \/ (t = u /\ k = "run" /\ I = 0 /\ x = 0)
    BY <1>1 DEF RestPlace, Unborn
  <2>3. (\A t : t # u => Stays(t)) /\ Moves(u, "run", I, 0)
    <3>1. \E k, i, x : Holds(u, k, i, x) /\ ~Holds(u, k, i, x)'
      BY <1>12, <2>1
    <3>2. \A i \in (m + 1)..Len(stack') : \A t, k, x : FramePlace(stack'[i], t, k, x) =>
            (i <= Len(stack) /\ FramePlace(stack[i], t, k, x)) \/ (t = u /\ k = "run" /\ i = I /\ x = 0)
      <4>1. \A t, k, x : ~FramePlace(stack'[m + 1], t, k, x)
        BY <1>7, <1>14 DEF FramePlace
      <4>2. \A t, k, x : FramePlace(stack'[m + 2], t, k, x) => t = u /\ k = "run" /\ x = 0
        BY <1>7, <1>14 DEF FramePlace
      <4> QED BY <1>7, <2>0, <4>1, <4>2
    <3> QED BY <1>2, <1>7, <2>2, <3>1, <3>2, OneMoves
  <2>4. "run" \in Unexecuted
    BY DEF Unexecuted
  <2> QED BY <1>2, <1>10, <2>3, <2>4, PlaceStep
<1> QED BY <1>9, <1>11, <1>15, <1>16 DEF IInv

\* The event loop starts or resumes a thread that is no branch at work.
LEMMA StartKeeps ==
  ASSUME IInv, stack = <<>>, NEW u \in Thread, stack' = <<Run(u, None)>>,
         u \in Branch => left[u] = 0,
         UNCHANGED <<design, ret, groups, used, fork_free, suspended, wait_forks,
                     left, forkOf, forks, blocked, ended, doomed>>,
         name' \in Processes \cup {None}, waits' \subseteq waits,
         \/ \A k, i, x : ~Holds(u, k, i, x)
         \/ u \in waits /\ u \notin waits'
  PROVE  IInv'
<1>1. /\ design' = design /\ ret' = ret /\ groups' = groups /\ used' = used /\ fork_free' = fork_free
      /\ suspended' = suspended /\ wait_forks' = wait_forks
      /\ left' = left /\ forkOf' = forkOf /\ forks' = forks /\ blocked' = blocked
      /\ ended' = ended /\ doomed' = doomed
  OBVIOUS
<1>2. Typed /\ SlotInv /\ CallInv /\ OnePlace /\ Unstarted
  BY DEF IInv
<1>3. PICK m \in Nat : m = 0
  OBVIOUS
<1>4. PICK r \in Frames : r = Run(u, None)
  BY FrameTypes
<1>5. /\ stack' \in Seq(Frames) /\ Len(stack') = 1 /\ stack'[1] = r /\ Len(stack) = 0
      /\ \A i \in (m + 1)..Len(stack') : i = 1
      /\ (m + 1)..Len(stack) = {}
  BY <1>3, <1>4
<1>6. Keeps(m)
  BY <1>3, <1>5 DEF Keeps
<1>7. r.k = "run" /\ r.th = u /\ r.fid = None
  BY <1>4 DEF Run
<1>8. Typed'
  BY <1>1, <1>2, <1>5 DEF Typed
<1>9. left' \in [Thread -> Nat] /\ \A t \in Thread : left'[t] \in Nat /\ left'[t] <= left[t]
  BY <1>1, <1>2 DEF Typed
<1>10. SlotInv'
  BY <1>1, <1>2, <1>9, GroupsUnchanged, SlotsKept
<1>11. CallInv'
  <2>1. LightAt(m, 1)
    <3>1. 1..(1 - 1) = {} /\ m + 1 = 1
      BY <1>3
    <3> QED BY <1>1, <1>5, <1>7, <3>1 DEF LightAt, Inert, Refers
  <2>2. \A i \in (m + 1)..Len(stack') : LightAt(m, i)
    BY <1>5, <2>1
  <2>3. SameCore /\ ~(m > 0)
    BY <1>1, <1>3, GroupsUnchanged
  <2>4. Light(m)
    BY <1>1, <1>5, <1>6, <1>9, <2>2, <2>3 DEF Light
  <2> QED BY <1>2, <2>4, LightStep
<1>12. OnePlace' /\ Unstarted'
  <2>1. \/ \A k, i, x : ~Holds(u, k, i, x)
        \/ \E k, i, x : Holds(u, k, i, x) /\ ~Holds(u, k, i, x)'
    <3>1. CASE u \in waits /\ u \notin waits'
      <4>1. Holds(u, "pending", 0, 0) /\ ~Holds(u, "pending", 0, 0)'
        BY <3>1 DEF Holds, RestPlace
      <4> QED BY <4>1
    <3> QED BY <3>1
  <2>2. \A t, k, x : RestPlace(t, k, x)' => RestPlace(t, k, x) \/ (t = u /\ k = "run" /\ 1 = 0 /\ x = 0)
    BY <1>1 DEF RestPlace, Unborn
  <2>3. \A i \in (m + 1)..Len(stack') : \A t, k, x : FramePlace(stack'[i], t, k, x) =>
          (i <= Len(stack) /\ FramePlace(stack[i], t, k, x)) \/ (t = u /\ k = "run" /\ i = 1 /\ x = 0)
    BY <1>5, <1>7 DEF FramePlace
  <2>4. (\A t : t # u => Stays(t)) /\ Moves(u, "run", 1, 0)
    BY <1>2, <1>6, <2>1, <2>2, <2>3, OneMoves
  <2>5. "run" \in Unexecuted
    BY DEF Unexecuted
  <2> QED BY <1>2, <1>9, <2>4, <2>5, PlaceStep
<1> QED BY <1>8, <1>10, <1>11, <1>12 DEF IInv

LEMMA StartProcessKeeps ==
  ASSUME IInv, NEW p \in Processes, StartProcess(p)
  PROVE  IInv'
<1>1. /\ stack = <<>> /\ left[p] = Length /\ p \notin ended
      /\ stack' = <<Run(p, None)>> /\ name' = p
      /\ waits' = waits
      /\ UNCHANGED <<design, ret, groups, used, fork_free, suspended, wait_forks,
                     left, forkOf, forks, blocked, ended, doomed>>
  BY DEF StartProcess, history
<1>2. p \in Thread /\ p \notin Branch
  BY Basics
<1>3. \A k, i, x : ~Holds(p, k, i, x)
  <2> SUFFICES ASSUME NEW k, NEW i, NEW x, Holds(p, k, i, x) PROVE FALSE
    OBVIOUS
  <2>1. left[p] = Initial(p)
    BY <1>1 DEF Initial
  <2>2. k \in {"unborn", "todo", "run", "ended"}
    BY <1>2, <2>1 DEF IInv, Unstarted, Unexecuted
  <2>3. Len(stack) = 0 /\ 1..0 = {}
    BY <1>1
  <2>4. i = 0 /\ RestPlace(p, k, x)
    BY <2>3 DEF Holds
  <2> QED BY <1>1, <1>2, <2>2, <2>4 DEF RestPlace, Unborn, Branch
<1>4. name' \in Processes \cup {None} /\ waits' \subseteq waits
  BY <1>1
<1> QED BY <1>1, <1>2, <1>3, <1>4, StartKeeps

LEMMA ResumeWaitKeeps ==
  ASSUME IInv, NEW t \in waits, ResumeWait(t)
  PROVE  IInv'
<1>1. /\ stack = <<>> /\ waits' = waits \ {t} /\ stack' = <<Run(t, None)>> /\ name' = name
      /\ UNCHANGED <<design, ret, groups, used, fork_free, suspended, wait_forks,
                     left, forkOf, forks, blocked, ended, doomed>>
  BY DEF ResumeWait, history
<1>2. Typed /\ SlotInv /\ Unstarted
  BY DEF IInv
<1>3. t \in Thread /\ name \in Processes \cup {None}
  BY <1>2 DEF Typed
<1>4. Holds(t, "pending", 0, 0)
  BY DEF Holds, RestPlace
<1>5. t \in Branch => left[t] = 0
  BY <1>2, <1>3, <1>4, Executed DEF Unexecuted
<1>6. name' \in Processes \cup {None} /\ waits' \subseteq waits /\ t \notin waits'
  BY <1>1, <1>3
<1> QED BY <1>1, <1>3, <1>5, <1>6, StartKeeps

Less(w, f) == [w EXCEPT !.fids = @ \ {f}]

\* The waiters that need not wait longer go to the frame "resumed", the others wait
\* for one fork less.
LEMMA WaitersMove ==
  ASSUME IInv, NEW m \in Nat, Keeps(m), NEW r \in Nat, r > m, r <= Len(stack'),
         NEW R \in SUBSET wait_forks, NEW f,
         stack'[r].k = "resumed", stack'[r].rest = R,
         \A i \in (m + 1)..Len(stack') : i = r \/ stack'[i].k = "retire",
         \A v \in wait_forks' : \E w \in wait_forks : w \notin R /\ v = Less(w, f),
         UNCHANGED <<suspended, waits, ended, blocked, forkOf, left>>
  PROVE  OnePlace' /\ Unstarted'
<1>1. /\ suspended' = suspended /\ waits' = waits /\ ended' = ended /\ blocked' = blocked
      /\ forkOf' = forkOf /\ left' = left
  OBVIOUS
<1>2. Typed /\ SlotInv /\ OnePlace /\ Unstarted
  BY DEF IInv
<1>3. \A t \in Thread : left'[t] \in Nat /\ left'[t] <= left[t]
  BY <1>1, <1>2 DEF Typed
<1>4. m <= Len(stack) /\ Len(stack) \in Nat /\ \A i \in 1..m : stack'[i] = stack[i]
  BY <1>2 DEF Keeps, Typed
<1>5. \A w \in wait_forks : w \in Waiter /\ w.th \in Thread
  BY <1>2 DEF Typed, Waiter
<1>6. ASSUME NEW x \in wait_forks' PROVE \E w \in wait_forks \ R : x = Less(w, f) /\ x.th = w.th
  <2>1. PICK w \in wait_forks \ R : x = Less(w, f)
    OBVIOUS
  <2>2. x.th = w.th
    BY <1>5, <2>1 DEF Waiter, Less
  <2> QED BY <2>1, <2>2
\* Where a thread can be found now.
<1>7. ASSUME NEW t, NEW k, NEW i, NEW x, Holds(t, k, i, x)'
      PROVE  \/ Holds(t, k, i, x) /\ k # "waiting"
             \/ k = "waiting" /\ i = 0 /\ x \in wait_forks' /\ x.th = t
             \/ k = "resumed" /\ i = r /\ x \in R /\ x.th = t
  <2>1. CASE i = 0 /\ RestPlace(t, k, x)'
    BY <1>1, <2>1 DEF Holds, RestPlace, Unborn
  <2>2. CASE i \in 1..m /\ FramePlace(stack'[i], t, k, x)
    BY <1>4, <2>2 DEF Holds, FramePlace
  <2>3. CASE i \in (m + 1)..Len(stack') /\ FramePlace(stack'[i], t, k, x)
    BY <2>3 DEF FramePlace
  <2>4. (i \in 1..Len(stack') /\ FramePlace(stack'[i], t, k, x)) \/ (i = 0 /\ RestPlace(t, k, x)')
    BY <1>7 DEF Holds, FramePlace
  <2> QED BY <2>1, <2>2, <2>3, <2>4
<1>8. ASSUME NEW t \in Thread
      PROVE  \/ Stays(t)
             \/ \E K, I, X : Moves(t, K, I, X) /\ (K \in Unexecuted \/ left'[t] < Initial(t))
  <2>1. CASE \A w \in wait_forks : w.th # t
    <3>1. Stays(t)
      BY <1>6, <1>7, <2>1 DEF Stays
    <3> QED BY <3>1
  <2>2. ASSUME NEW w \in wait_forks, w.th = t
        PROVE  \E K, I, X : Moves(t, K, I, X) /\ (K \in Unexecuted \/ left'[t] < Initial(t))
    <3>1. Holds(t, "waiting", 0, w)
      BY <2>2 DEF Holds, RestPlace
    <3>2. left'[t] < Initial(t)
      BY <1>1, <1>2, <3>1, Executed DEF Unexecuted
    <3>3. \A v \in wait_forks : v.th = t => v = w
      <4> SUFFICES ASSUME NEW v \in wait_forks, v.th = t PROVE v = w
        OBVIOUS
      <4>1. Holds(t, "waiting", 0, v)
        BY DEF Holds, RestPlace
      <4> QED BY <1>2, <3>1, <4>1 DEF OnePlace
    <3>4. \A k, i, x : Holds(t, k, i, x) => k = "waiting"
      BY <1>2, <3>1 DEF OnePlace
    <3>5. CASE w \in R
      <4>1. Moves(t, "resumed", r, w)
        <5> SUFFICES ASSUME NEW k, NEW i, NEW x, Holds(t, k, i, x)'
                     PROVE  k = "resumed" /\ i = r /\ x = w
          BY DEF Moves
        <5>1. k # "waiting"
          BY <1>6, <1>7, <3>3, <3>5
        <5>2. k = "resumed" /\ i = r /\ x \in R /\ x.th = t
          BY <1>7, <3>4, <5>1
        <5> QED BY <3>3, <5>2
      <4> QED BY <3>2, <4>1
    <3>6. CASE w \notin R
      <4>0. PICK v : v = Less(w, f)
        OBVIOUS
      <4>1. Moves(t, "waiting", 0, v)
        <5> SUFFICES ASSUME NEW k, NEW i, NEW x, Holds(t, k, i, x)'
                     PROVE  k = "waiting" /\ i = 0 /\ x = v
          BY DEF Moves
        <5>1. ~(x \in R /\ x.th = t)
          BY <3>3, <3>6
        <5>2. k = "waiting" /\ i = 0 /\ x \in wait_forks' /\ x.th = t
          BY <1>7, <3>4, <5>1
        <5> QED BY <1>6, <3>3, <4>0, <5>2
      <4> QED BY <3>2, <4>1
    <3> QED BY <3>5, <3>6
  <2> QED BY <2>1, <2>2
<1> QED BY <1>2, <1>3, <1>8, PlaceStep

LEMMA FinishedKeeps ==
  ASSUME IInv, Finished
  PROVE  IInv'
<1>0. PICK R : R = Resumable(Top.fid)
  OBVIOUS
<1>1. /\ stack # <<>> /\ Top.k = "finished"
      /\ wait_forks' = {[w EXCEPT !.fids = @ \ {Top.fid}] : w \in wait_forks \ R}
      /\ stack' = (Below \o (IF groups[Top.fid].reclaimable THEN <<Frame("retire", Top.fid)>> ELSE <<>>))
                    \o <<[k |-> "resumed", rest |-> R]>>
      /\ design' = design /\ ret' = ret /\ groups' = groups /\ used' = used /\ fork_free' = fork_free
      /\ name' = name /\ suspended' = suspended /\ waits' = waits
      /\ left' = left /\ forkOf' = forkOf /\ forks' = forks /\ blocked' = blocked
      /\ ended' = ended /\ doomed' = doomed
  BY <1>0 DEF Finished, AtTop, history
<1>2. Typed /\ SlotInv /\ CallInv
  BY DEF IInv
<1>3. PICK m \in Nat :
        /\ Len(stack) = m + 1 /\ Top = stack[m + 1] /\ Top \in Frames /\ m + 1 \in 1..Len(stack)
        /\ Below \in Seq(Frames) /\ Len(Below) = m /\ \A i \in 1..m : Below[i] = stack[i]
  BY <1>1, <1>2, TopFrame
<1>4. PICK f \in Slots : f = Top.fid
  BY <1>1, <1>3, FrameFacts
<1>5. R \in SUBSET wait_forks /\ R \in SUBSET Waiter
  BY <1>0, <1>2 DEF Resumable, Typed
<1>6. wait_forks' \subseteq Waiter
  <2>1. \A w \in wait_forks : w \in Waiter /\ w.fids \ {f} \in SUBSET Slots
    BY <1>2 DEF Typed, Waiter
  <2>2. \A w \in wait_forks : [w EXCEPT !.fids = @ \ {f}] \in Waiter
    BY <2>1 DEF Waiter
  <2> QED BY <1>1, <1>4, <2>2
<1>7. PICK e \in Frames, x \in Frames : e = Frame("retire", f) /\ x = [k |-> "resumed", rest |-> R]
  BY <1>5, FrameTypes
<1>8. /\ e.k = "retire" /\ e.fid = f /\ x.k = "resumed" /\ x.rest = R
  BY <1>7 DEF Frame
<1>9. /\ stack[m + 1].k = "finished" /\ stack[m + 1].fid = f
      /\ groups[f].active /\ groups[f].remaining = 0
  BY <1>1, <1>2, <1>3, <1>4 DEF CallInv, Live, LiveEnd
<1>10. \A i \in (m + 1)..Len(stack) : Owns(stack[i]) = {}
  BY <1>2, <1>3, <1>9, RunOwnsNothing DEF Inert
<1>11. ~(m > 0 /\ Busy(stack[m]))
  BY <1>2, <1>3, <1>9, BelowOthers
<1>12. left' \in [Thread -> Nat] /\ \A t \in Thread : left'[t] \in Nat /\ left'[t] <= left[t]
  BY <1>1, <1>2 DEF Typed
<1>13. SlotInv'
  BY <1>1, <1>2, <1>12, GroupsUnchanged, SlotsKept
<1>14. ASSUME stack' \in Seq(Frames), Keeps(m), NEW r \in {m + 1, m + 2}, Len(stack') = r, stack'[r] = x,
              r = m + 2 => groups[f].reclaimable /\ stack'[m + 1] = e
       PROVE  IInv'
  <2>1. Typed'
    BY <1>1, <1>2, <1>6, <1>14 DEF Typed
  <2>2. LightAt(m, r)
    BY <1>8, <1>14 DEF LightAt, Inert, Refers
  <2>3. r = m + 2 => LightAt(m, m + 1)
    <3>1. (m + 1) - 1 = m /\ (m + 1)..m = {}
      OBVIOUS
    <3>2. Refers(stack[m + 1])
      BY <1>9 DEF Refers
    <3>3. ASSUME r = m + 2 PROVE LightAt(m, m + 1)
      <4>1. stack'[m + 1].k = "retire" /\ stack'[m + 1].fid = f /\ groups[f].reclaimable
        BY <1>8, <1>14, <3>3
      <4>2. groups'[f].active /\ groups'[f].remaining = 0 /\ groups'[f].reclaimable
        BY <1>1, <1>9, <4>1
      <4>3. \A j \in (m + 1)..((m + 1) - 1) : FALSE
        BY <3>1
      <4> QED BY <1>3, <1>9, <3>2, <4>1, <4>2, <4>3 DEF LightAt, Inert
    <3> QED BY <3>3
  <2>4. \A i \in (m + 1)..Len(stack') : i = r \/ (r = m + 2 /\ i = m + 1)
    BY <1>14
  <2>5. Light(m)
    <3>1. SameCore /\ Len(stack) # m
      BY <1>1, <1>3, GroupsUnchanged
    <3> QED BY <1>1, <1>10, <1>11, <1>12, <1>14, <2>2, <2>3, <2>4, <3>1 DEF Light
  <2>6. CallInv'
    BY <1>2, <2>5, LightStep
  <2>7. OnePlace' /\ Unstarted'
    <3>1. r \in Nat /\ r > m /\ r <= Len(stack')
      BY <1>14
    <3>2. \A i \in (m + 1)..Len(stack') : i = r \/ stack'[i].k = "retire"
      BY <1>8, <1>14, <2>4
    <3>3. stack'[r].k = "resumed" /\ stack'[r].rest = R
      BY <1>8, <1>14
    <3>4. \A v \in wait_forks' : \E w \in wait_forks : w \notin R /\ v = Less(w, f)
      BY <1>1, <1>4 DEF Less
    <3>5. UNCHANGED <<suspended, waits, ended, blocked, forkOf, left>>
      BY <1>1
    <3>6. R \in SUBSET wait_forks /\ Keeps(m) /\ r \in Nat
      BY <1>5, <1>14, <3>1
    <3> QED BY <3>1, <3>2, <3>3, <3>4, <3>5, <3>6, WaitersMove
  <2> QED BY <1>13, <2>1, <2>6, <2>7 DEF IInv
<1>15. CASE groups[f].reclaimable
  <2>1. stack' = (Below \o <<e>>) \o <<x>>
    BY <1>1, <1>4, <1>7, <1>15
  <2>2. /\ stack' \in Seq(Frames) /\ Keeps(m) /\ Len(stack') = m + 2
        /\ stack'[m + 1] = e /\ stack'[m + 2] = x
    BY <1>2, <1>3, <2>1, PushStack11
  <2> QED BY <1>14, <1>15, <2>2
<1>16. CASE ~groups[f].reclaimable
  <2>1. stack' = (Below \o <<>>) \o <<x>>
    BY <1>1, <1>4, <1>7, <1>16
  <2>2. stack' = Below \o <<x>>
    BY <1>3, <2>1, PushNone
  <2>3. stack' \in Seq(Frames) /\ Keeps(m) /\ Len(stack') = m + 1 /\ stack'[m + 1] = x
    BY <1>2, <1>3, <2>2, PushStack1
  <2>4. m + 1 # m + 2
    OBVIOUS
  <2> QED BY <1>14, <2>3, <2>4
<1> QED BY <1>15, <1>16

LEMMA ResumeWaitForkKeeps ==
  ASSUME IInv, ResumeWaitFork
  PROVE  IInv'
<1>1. /\ stack # <<>> /\ Top.k = "resumed"
      /\ design' = design /\ ret' = ret /\ groups' = groups /\ used' = used /\ fork_free' = fork_free
      /\ suspended' = suspended /\ waits' = waits /\ wait_forks' = wait_forks
      /\ left' = left /\ forkOf' = forkOf /\ forks' = forks /\ blocked' = blocked
      /\ ended' = ended /\ doomed' = doomed
  BY DEF ResumeWaitFork, AtTop, history
<1>2. Typed /\ SlotInv /\ CallInv /\ OnePlace /\ Unstarted
  BY DEF IInv
<1>3. PICK m \in Nat :
        /\ Len(stack) = m + 1 /\ Top = stack[m + 1] /\ Top \in Frames /\ m + 1 \in 1..Len(stack)
        /\ Below \in Seq(Frames) /\ Len(Below) = m /\ \A i \in 1..m : Below[i] = stack[i]
  BY <1>1, <1>2, TopFrame
<1>4. PICK R \in SUBSET Waiter : R = Top.rest
  BY <1>1, <1>3, FrameFacts
<1>5. \A i \in (m + 1)..Len(stack) : Owns(stack[i]) = {}
  BY <1>1, <1>2, <1>3, RunOwnsNothing DEF Inert
<1>6. ~(m > 0 /\ Busy(stack[m])) /\ SameCore /\ Len(stack) # m
  BY <1>1, <1>2, <1>3, BelowOthers, GroupsUnchanged
<1>7. left' \in [Thread -> Nat] /\ \A t \in Thread : left'[t] \in Nat /\ left'[t] <= left[t]
  BY <1>1, <1>2 DEF Typed
<1>8. CASE stack' = Below /\ UNCHANGED name
  <2>1. stack' \in Seq(Frames) /\ Keeps(m) /\ Len(stack') = m /\ (m + 1)..Len(stack') = {}
    BY <1>2, <1>3, <1>8, PopStack
  <2>2. Typed'
    BY <1>1, <1>2, <1>8, <2>1 DEF Typed
  <2>3. Light(m)
    BY <1>1, <1>5, <1>6, <1>7, <2>1 DEF Light
  <2>4. UNCHANGED <<used, fork_free, waits, wait_forks, left, blocked, ended>>
    BY <1>1
  <2>5. \A i \in (m + 1)..Len(stack') : \A t, k, x : ~FramePlace(stack'[i], t, k, x)
    BY <2>1
  <2> QED BY <2>2, <2>3, <2>4, <2>5, QuietKeeps
<1>9. ASSUME NEW w \in R,
             stack' = Below \o <<[Top EXCEPT !.rest = @ \ {w}], Run(w.th, None)>>, name' = w.proc
      PROVE  IInv'
  <2>1. w \in Waiter /\ w.proc \in Processes \cup {None}
    BY DEF Waiter
  <2>2. PICK u \in Thread : u = w.th
    BY <2>1 DEF Waiter
  <2>3. Top \in ResumedFrame /\ R \ {w} \in SUBSET Waiter
    BY <1>1, <1>3, FrameFacts
  <2>4. [Top EXCEPT !.rest = @ \ {w}] = [k |-> "resumed", rest |-> R \ {w}]
    BY <1>4, <2>3 DEF ResumedFrame
  <2>5. PICK e \in Frames, r \in Frames : e = [k |-> "resumed", rest |-> R \ {w}] /\ r = Run(u, None)
    BY <2>3, FrameTypes
  <2>6. e.k = "resumed" /\ e.rest = R \ {w} /\ r.k = "run" /\ r.th = u /\ r.fid = None
    BY <2>5 DEF Run
  <2>7. stack' = Below \o <<e, r>>
    BY <1>9, <2>2, <2>4, <2>5
  <2>8. /\ stack' \in Seq(Frames) /\ Keeps(m) /\ Len(stack') = m + 2
        /\ stack'[m + 1] = e /\ stack'[m + 2] = r
        /\ (m + 1)..Len(stack') = {m + 1, m + 2}
    BY <1>2, <1>3, <2>7, PushStack2
  <2>9. Typed'
    BY <1>1, <1>2, <1>9, <2>1, <2>8 DEF Typed
  <2>10. SlotInv'
    BY <1>1, <1>2, <1>6, <1>7, SlotsKept
  <2>11. Holds(u, "resumed", m + 1, w)
    BY <1>1, <1>3, <1>4, <2>2 DEF Holds, FramePlace
  <2>12. u \in Branch => left'[u] = 0
    BY <1>1, <1>2, <2>11, Executed DEF Unexecuted
  <2>13. CallInv'
    <3>1. LightAt(m, m + 1)
      <4>1. (m + 1) - 1 = m /\ (m + 1)..m = {}
        OBVIOUS
      <4> QED BY <2>6, <2>8, <4>1 DEF LightAt, Inert, Refers
    <3>2. LightAt(m, m + 2)
      BY <2>6, <2>8, <2>12 DEF LightAt, Inert, Refers
    <3>3. Light(m)
      BY <1>1, <1>5, <1>6, <1>7, <2>8, <3>1, <3>2 DEF Light
    <3> QED BY <1>2, <3>3, LightStep
  <2>14. OnePlace' /\ Unstarted'
    <3>0. PICK I \in Nat : I = m + 2
      OBVIOUS
    <3>1. ~Holds(u, "resumed", m + 1, w)'
      BY <2>6, <2>8 DEF Holds, FramePlace
    <3>2. \A t, k, x : RestPlace(t, k, x)' => RestPlace(t, k, x) \/ (t = u /\ k = "run" /\ I = 0 /\ x = 0)
      BY <1>1 DEF RestPlace, Unborn
    <3>3. (\A t : t # u => Stays(t)) /\ Moves(u, "run", I, 0)
      <4>1. \E k, i, x : Holds(u, k, i, x) /\ ~Holds(u, k, i, x)'
        BY <2>11, <3>1
      <4>2. \A i \in (m + 1)..Len(stack') : \A t, k, x : FramePlace(stack'[i], t, k, x) =>
              (i <= Len(stack) /\ FramePlace(stack[i], t, k, x)) \/ (t = u /\ k = "run" /\ i = I /\ x = 0)
        <5>1. \A t, k, x : FramePlace(stack'[m + 1], t, k, x) => FramePlace(stack[m + 1], t, k, x)
          BY <1>1, <1>3, <1>4, <2>6, <2>8 DEF FramePlace
        <5>2. \A t, k, x : FramePlace(stack'[m + 2], t, k, x) => t = u /\ k = "run" /\ x = 0
          BY <2>6, <2>8 DEF FramePlace
        <5> QED BY <1>3, <2>8, <3>0, <5>1, <5>2
      <4> QED BY <1>2, <2>8, <3>2, <4>1, <4>2, OneMoves
    <3>4. "run" \in Unexecuted
      BY DEF Unexecuted
    <3> QED BY <1>2, <1>7, <3>3, <3>4, PlaceStep
  <2> QED BY <2>9, <2>10, <2>13, <2>14 DEF IInv
<1> QED BY <1>4, <1>8, <1>9 DEF ResumeWaitFork
-----------------------------------------------------------------------------
(* Every action keeps the invariant: the loop over the branches.              *)

\* The frame at the top gives up branches, or none.
LEMMA OwnedReplaced ==
  ASSUME Typed, Owned, NEW m \in Nat, Keeps(m), Len(stack) = m + 1, Len(stack') \in Nat,
         Len(stack') >= m + 1,
         NEW y, stack'[m + 1] = y, y.k = "fork" => y.cur \notin y.todo,
         Owns(y) \subseteq Owns(stack[m + 1]),
         \A i \in (m + 2)..Len(stack') : stack'[i].k \in Inert,
         suspended' \subseteq suspended, \A s \in suspended : s.th \notin Owns(y),
         Busy(y) => Len(stack') > m + 1
  PROVE  Owned'
<1>0. \A i \in 1..m : stack'[i] = stack[i] /\ i \in 1..Len(stack) /\ i # Len(stack)
  BY DEF Keeps
<1>1. \A i \in 1..Len(stack') : i \in 1..m \/ i = m + 1 \/ i \in (m + 2)..Len(stack')
  OBVIOUS
<1>2. \A i \in (m + 2)..Len(stack') : Owns(stack'[i]) = {} /\ ~Busy(stack'[i]) /\ stack'[i].k # "fork"
  BY InertFacts
<1>3. m + 1 \in 1..Len(stack)
  OBVIOUS
<1>4. \A i, j \in 1..Len(stack) : i # j => Owns(stack[i]) \cap Owns(stack[j]) = {}
  BY DEF Owned, OwnedAt
<1>5. ASSUME NEW i \in 1..Len(stack') PROVE OwnedAt(i)'
  <2>1. ASSUME NEW j \in 1..Len(stack'), i # j PROVE Owns(stack'[i]) \cap Owns(stack'[j]) = {}
    <3>1. CASE i \in (m + 2)..Len(stack') \/ j \in (m + 2)..Len(stack')
      BY <1>2, <3>1
    <3>2. CASE i \in 1..m /\ j \in 1..m
      BY <1>0, <1>4, <2>1, <3>2
    <3>3. CASE i \in 1..m /\ j = m + 1
      BY <1>0, <1>3, <1>4, <2>1, <3>3
    <3>4. CASE i = m + 1 /\ j \in 1..m
      BY <1>0, <1>3, <1>4, <2>1, <3>4
    <3> QED BY <1>1, <2>1, <3>1, <3>2, <3>3, <3>4
  <2>2. stack'[i].k = "fork" => stack'[i].cur \notin stack'[i].todo
    <3>1. CASE i \in 1..m
      BY <1>0, <3>1 DEF Owned, OwnedAt
    <3> QED BY <1>1, <1>2, <3>1
  <2>3. ASSUME NEW c \in Owns(stack'[i]), \E s \in suspended' : s.th = c PROVE FALSE
    <3>1. i \in 1..m
      BY <1>1, <1>2, <2>3
    <3>2. c \in Owns(stack[i]) /\ IsSuspended(c)
      BY <1>0, <2>3, <3>1 DEF IsSuspended
    <3> QED BY <1>0, <3>1, <3>2 DEF Owned, OwnedAt
  <2>4. Busy(stack'[i]) => i # Len(stack')
    <3>1. CASE i \in 1..m
      BY <3>1
    <3> QED BY <1>1, <1>2, <3>1
  <2> QED BY <2>1, <2>2, <2>3, <2>4 DEF OwnedAt, IsSuspended, Owns, Busy
<1> QED BY <1>5 DEF Owned

\* What Open says once the top frame is replaced.
LEMMA OpenReplaced ==
  ASSUME Typed, NEW m \in Nat, Keeps(m), Len(stack) = m + 1, Len(stack') \in Nat,
         Len(stack') >= m + 1, NEW y, stack'[m + 1] = y,
         \A i \in (m + 2)..Len(stack') : stack'[i].k \in Inert, NEW c
  PROVE  /\ Open(c) <=> IsSuspended(c) \/ c \in Owns(stack[m + 1]) \/ \E i \in 1..m : c \in Owns(stack[i])
         /\ Open(c)' <=> IsSuspended(c)' \/ c \in Owns(y) \/ \E i \in 1..m : c \in Owns(stack[i])
<1>0. \A i \in 1..m : stack'[i] = stack[i] /\ i \in 1..Len(stack) /\ i \in 1..Len(stack')
  BY DEF Keeps
<1>1. \A i \in 1..Len(stack') : i \in 1..m \/ i = m + 1 \/ i \in (m + 2)..Len(stack')
  OBVIOUS
<1>2. \A i \in (m + 2)..Len(stack') : Owns(stack'[i]) = {}
  BY InertFacts
<1>3. m + 1 \in 1..Len(stack) /\ m + 1 \in 1..Len(stack')
  OBVIOUS
<1>4. \A i \in 1..Len(stack) : i \in 1..m \/ i = m + 1
  OBVIOUS
<1>5. Open(c)' <=> IsSuspended(c)' \/ \E i \in 1..Len(stack') : c \in Owns(stack'[i])
  BY DEF Open, Owns
<1>6. (\E i \in 1..Len(stack') : c \in Owns(stack'[i])) <=>
        c \in Owns(y) \/ \E i \in 1..m : c \in Owns(stack[i])
  BY <1>0, <1>1, <1>2, <1>3
<1>7. (\E i \in 1..Len(stack) : c \in Owns(stack[i])) <=>
        c \in Owns(stack[m + 1]) \/ \E i \in 1..m : c \in Owns(stack[i])
  BY <1>0, <1>3, <1>4
<1> QED BY <1>5, <1>6, <1>7 DEF Open

LEMMA StartBranchKeeps ==
  ASSUME IInv, StartBranch
  PROVE  IInv'
<1>0. PICK c \in Top.todo : stack' = Below \o <<[Top EXCEPT !.cur = c, !.todo = @ \ {c}], Run(c, Top.fid)>>
  BY DEF StartBranch
<1>1. /\ stack # <<>> /\ Top.k = "fork" /\ Top.cur = None
      /\ design' = design /\ ret' = ret /\ groups' = groups /\ used' = used /\ fork_free' = fork_free
      /\ name' = name /\ suspended' = suspended /\ waits' = waits /\ wait_forks' = wait_forks
      /\ left' = left /\ forkOf' = forkOf /\ forks' = forks /\ blocked' = blocked
      /\ ended' = ended /\ doomed' = doomed
  BY DEF StartBranch, AtTop, engine, history
<1>2. Typed /\ SlotInv /\ CallInv /\ OnePlace /\ Unstarted
  BY DEF IInv
<1>3. PICK m \in Nat :
        /\ Len(stack) = m + 1 /\ Top = stack[m + 1] /\ Top \in Frames /\ m + 1 \in 1..Len(stack)
        /\ Below \in Seq(Frames) /\ Len(Below) = m /\ \A i \in 1..m : Below[i] = stack[i]
  BY <1>1, <1>2, TopFrame
<1>4. PICK x \in ForkFrame : x = Top
  BY <1>1, <1>3, FrameFacts
<1>5. PICK f \in Slots : f = x.fid
  BY DEF ForkFrame
<1>6. /\ c \in Branch /\ c \in x.todo /\ x.k = "fork" /\ x.cur = None /\ x.kind \in Kinds
      /\ x.parent \in Thread /\ x.todo \subseteq Branch /\ x.any \in BOOLEAN /\ x = stack[m + 1]
      /\ c # None
  BY <1>1, <1>3, <1>4, Basics DEF ForkFrame
<1>7. PICK y : y = [x EXCEPT !.cur = c, !.todo = @ \ {c}]
  OBVIOUS
<1>8. /\ y \in Frames /\ y.k = "fork" /\ y.fid = f /\ y.kind = x.kind /\ y.parent = x.parent
      /\ y.todo = x.todo \ {c} /\ y.cur = c /\ y.any = x.any
  <2>1. y \in ForkFrame
    BY <1>6, <1>7 DEF ForkFrame
  <2>2. /\ y.k = "fork" /\ y.fid = f /\ y.kind = x.kind /\ y.parent = x.parent
        /\ y.todo = x.todo \ {c} /\ y.cur = c /\ y.any = x.any
    BY <1>5, <1>6, <1>7 DEF ForkFrame
  <2> QED BY <2>1, <2>2 DEF Frames
<1>9. PICK r \in Frames : r = Run(c, f)
  BY <1>6, FrameTypes, Basics
<1>10. r.k = "run" /\ r.th = c /\ r.fid = f
  BY <1>9 DEF Run
<1>11. /\ stack' \in Seq(Frames) /\ Keeps(m) /\ Len(stack') = m + 2
       /\ stack'[m + 1] = y /\ stack'[m + 2] = r
       /\ (m + 1)..Len(stack') = {m + 1, m + 2}
  <2>1. stack' = Below \o <<y, r>>
    BY <1>0, <1>4, <1>5, <1>7, <1>9
  <2> QED BY <1>2, <1>3, <1>8, <2>1, PushStack2
<1>12. Typed'
  BY <1>1, <1>2, <1>11 DEF Typed
<1>13. left' \in [Thread -> Nat] /\ \A t \in Thread : left'[t] \in Nat /\ left'[t] <= left[t]
  BY <1>1, <1>2 DEF Typed
<1>14. SlotInv'
  BY <1>1, <1>2, <1>13, GroupsUnchanged, SlotsKept
<1>15. Owns(x) = x.todo /\ Owns(y) = x.todo
  BY <1>6, <1>8 DEF Owns
<1>16. CallInv'
  <2>1. ~(m > 0 /\ Busy(stack[m]))
    BY <1>2, <1>3, <1>6, BelowOthers
  <2>2. \A i \in 1..Len(stack') : ShapeAt(i)'
    <3>1. ShapeAt(m + 1)'
      BY <1>8, <1>10, <1>11 DEF ShapeAt
    <3>2. ShapeAt(m + 2)'
      <4>1. (m + 2) - 1 = m + 1 /\ m + 2 > 1
        OBVIOUS
      <4>2. Busy(y) /\ ~Busy(r)
        BY <1>6, <1>8, <1>10 DEF Busy
      <4> QED BY <1>6, <1>8, <1>10, <1>11, <4>1, <4>2 DEF ShapeAt, Busy
    <3>3. \A i \in (m + 1)..Len(stack') : ShapeAt(i)'
      <4> SUFFICES ASSUME NEW i \in (m + 1)..Len(stack') PROVE ShapeAt(i)'
        OBVIOUS
      <4>1. i = m + 1 \/ i = m + 2
        BY <1>11
      <4> QED BY <3>1, <3>2, <4>1
    <3> QED BY <1>2, <1>11, <1>13, <2>1, <3>3, ShapeStep DEF CallInv
  <2>3. References'
    <3>1. \A j \in 1..m : Compatible(stack[j], y, m + 1 = j + 1)
      <4>1. m + 1 \in Nat /\ m + 1 > m /\ Refers(stack[m + 1]) /\ y.fid = stack[m + 1].fid
            /\ stack[m + 1].k \notin {"finished", "retire"}
        BY <1>5, <1>6, <1>8 DEF Refers
      <4> QED BY <1>2, <1>3, <1>11, <4>1, ReferTop DEF CallInv
    <3>2. ~Refers(r)
      BY <1>10 DEF Refers
    <3>3. ASSUME NEW i \in (m + 1)..Len(stack')
          PROVE  /\ \A j \in (m + 1)..(i - 1) : Compatible(stack'[j], stack'[i], i = j + 1)
                 /\ \A j \in 1..m : Compatible(stack[j], stack'[i], i = j + 1)
      <4>1. CASE i = m + 1
        <5>1. \A j \in (m + 1)..(i - 1) : FALSE
          BY <4>1
        <5> QED BY <1>11, <3>1, <4>1, <5>1
      <4>2. CASE i = m + 2
        BY <1>11, <3>2, <4>2 DEF Compatible
      <4> QED BY <1>11, <4>1, <4>2
    <3> QED BY <1>2, <1>11, <3>3, ReferStep DEF CallInv
  <2>4. Live'
    <3>1. Drained
      BY <1>1 DEF Drained
    <3>2. LiveFork(x, FALSE) /\ groups[f].active
      <4>1. LiveFork(x, m + 1 < Len(stack))
        BY <1>2, <1>3, <1>6 DEF CallInv, Live
      <4> QED BY <1>3, <1>5, <1>6, <1>15, <4>1 DEF LiveFork
    <3>3. LiveAt(m + 1)'
      <4>1. \A b : LiveFork(y, b)
        BY <1>5, <1>6, <1>8, <1>15, <3>2 DEF LiveFork
      <4>2. LiveFork(y, m + 1 < Len(stack'))
        BY <4>1
      <4>3. LiveEnd(y)
        BY <1>8 DEF LiveEnd
      <4> QED BY <1>1, <1>11, <4>2, <4>3 DEF LiveAt, LiveFork, LiveEnd, Owns
    <3>4. LiveAt(m + 2)'
      BY <1>10, <1>11 DEF LiveAt, LiveFork, LiveEnd
    <3>5. \A i \in (m + 1)..Len(stack') : LiveAt(i)'
      <4> SUFFICES ASSUME NEW i \in (m + 1)..Len(stack') PROVE LiveAt(i)'
        OBVIOUS
      <4>1. i = m + 1 \/ i = m + 2
        BY <1>11
      <4> QED BY <3>3, <3>4, <4>1
    <3> QED BY <1>1, <1>2, <1>11, <3>1, <3>5, LiveStep DEF CallInv
  <2>5. \A i \in (m + 2)..Len(stack') : stack'[i].k \in Inert
    <3>1. \A i \in (m + 2)..Len(stack') : i = m + 2
      BY <1>11
    <3> QED BY <1>10, <1>11, <3>1 DEF Inert
  <2>6. Len(stack') \in Nat /\ Len(stack') >= m + 1 /\ Len(stack') > m + 1
    BY <1>11
  <2>7. Owned'
    <3>1. \A s \in suspended : s.th \notin Owns(y)
      <4> SUFFICES ASSUME NEW s \in suspended, s.th \in Owns(y) PROVE FALSE
        OBVIOUS
      <4>1. IsSuspended(s.th) /\ s.th \in Owns(x) /\ s.th # None
        BY <1>6, <1>15, Basics DEF IsSuspended
      <4>2. OwnedAt(m + 1)
        BY <1>2, <1>3 DEF CallInv, Owned
      <4>3. stack[m + 1].cur = s.th
        BY <1>6, <4>1, <4>2 DEF OwnedAt
      <4> QED BY <1>6, <4>1, <4>3
    <3>2. y.k = "fork" => y.cur \notin y.todo
      BY <1>8
    <3>3. Owns(y) \subseteq Owns(stack[m + 1]) /\ suspended' \subseteq suspended
      BY <1>1, <1>6, <1>15
    <3> QED BY <1>2, <1>3, <1>11, <2>5, <2>6, <3>1, <3>2, <3>3, OwnedReplaced DEF CallInv
  <2>8. \A d \in Branch : Open(d)' <=> Open(d)
    <3> SUFFICES ASSUME NEW d \in Branch PROVE Open(d)' <=> Open(d)
      OBVIOUS
    <3>1. IsSuspended(d)' <=> IsSuspended(d)
      BY <1>1 DEF IsSuspended
    <3>2. /\ Open(d) <=> IsSuspended(d) \/ d \in Owns(stack[m + 1]) \/ \E i \in 1..m : d \in Owns(stack[i])
          /\ Open(d)' <=> IsSuspended(d)' \/ d \in Owns(y) \/ \E i \in 1..m : d \in Owns(stack[i])
      BY <1>2, <1>3, <1>11, <2>5, <2>6, OpenReplaced
    <3> QED BY <1>6, <1>15, <3>1, <3>2
  <2>9. Account' /\ Remembered'
    BY <1>1, <1>2, <2>8, GroupsUnchanged, AccountSame, RememberSame DEF CallInv
  <2> QED BY <2>2, <2>3, <2>4, <2>7, <2>9 DEF CallInv
<1>17. OnePlace' /\ Unstarted'
  <2>0. PICK I \in Nat, J \in Nat : I = m + 2 /\ J = m + 1
    OBVIOUS
  <2>1. Holds(c, "todo", J, 0) /\ ~Holds(c, "todo", J, 0)'
    BY <1>3, <1>6, <1>8, <1>11, <2>0 DEF Holds, FramePlace
  <2>2. \A t, k, z : RestPlace(t, k, z)' => RestPlace(t, k, z) \/ (t = c /\ k = "run" /\ I = 0 /\ z = 0)
    BY <1>1 DEF RestPlace, Unborn
  <2>3. (\A t : t # c => Stays(t)) /\ Moves(c, "run", I, 0)
    <3>1. \E k, i, z : Holds(c, k, i, z) /\ ~Holds(c, k, i, z)'
      BY <2>1
    <3>2. \A i \in (m + 1)..Len(stack') : \A t, k, z : FramePlace(stack'[i], t, k, z) =>
            (i <= Len(stack) /\ FramePlace(stack[i], t, k, z)) \/ (t = c /\ k = "run" /\ i = I /\ z = 0)
      <4>1. \A t, k, z : FramePlace(stack'[m + 1], t, k, z) => FramePlace(stack[m + 1], t, k, z)
        BY <1>6, <1>8, <1>11 DEF FramePlace
      <4>2. \A t, k, z : FramePlace(stack'[m + 2], t, k, z) => t = c /\ k = "run" /\ z = 0
        BY <1>10, <1>11 DEF FramePlace
      <4> QED BY <1>3, <1>11, <2>0, <4>1, <4>2
    <3>3. c \in Thread
      BY <1>6, Basics
    <3> QED BY <1>2, <1>11, <2>2, <3>1, <3>2, <3>3, OneMoves
  <2>4. "run" \in Unexecuted
    BY DEF Unexecuted
  <2> QED BY <1>2, <1>13, <2>3, <2>4, PlaceStep
<1> QED BY <1>12, <1>14, <1>16, <1>17 DEF IInv
-----------------------------------------------------------------------------
(* Every action keeps the invariant: a branch returns to its group.           *)

\* The frame of a fork whose branch has returned.
LEMMA BranchBack ==
  ASSUME NEW x \in ForkFrame, x.cur # None, x.cur \notin x.todo,
         NEW y \in ForkFrame, y.parent = x.parent, y.kind = x.kind, y.todo = x.todo, y.cur = None
  PROVE  /\ y \in Frames /\ y.k = "fork" /\ ~Busy(y)
         /\ x.cur \in Branch /\ x.k = "fork" /\ x.fid \in Slots /\ x.todo \subseteq Branch
         /\ Owns(y) = x.todo /\ Owns(x) = x.todo \cup {x.cur} /\ y.cur \notin y.todo
         /\ \A t, k, z : FramePlace(y, t, k, z) => FramePlace(x, t, k, z)
<1>1. /\ x.k = "fork" /\ x.fid \in Slots /\ x.kind \in Kinds /\ x.parent \in Thread
      /\ x.todo \subseteq Branch /\ x.cur \in Branch /\ y.k = "fork"
  BY DEF ForkFrame
<1>2. Owns(y) = x.todo /\ Owns(x) = x.todo \cup {x.cur} /\ ~Busy(y)
  BY <1>1 DEF Owns, Busy
<1>3. \A t, k, z : FramePlace(y, t, k, z) => FramePlace(x, t, k, z)
  BY <1>1 DEF FramePlace
<1>4. y.cur \notin y.todo
  BY <1>1, Basics
<1> QED BY <1>1, <1>2, <1>3, <1>4 DEF Frames

LEMMA SettleStack ==
  ASSUME Typed, NEW f \in Slots, NEW base \in Seq(Frames), Settles(f, base)
  PROVE  /\ stack' \in Seq(Frames) /\ groups' \in [Slots -> Group] /\ blocked' \in [Thread -> Nat]
         /\ Len(stack') \in Nat /\ Len(stack') >= Len(base)
         /\ \A i \in 1..Len(base) : stack'[i] = base[i]
         /\ \A i \in (Len(base) + 1)..Len(stack') :
              \/ (i = Len(base) + 1 /\ stack'[i].k = "finished" /\ stack'[i].fid = f
                  /\ groups'[f].remaining = 0)
              \/ (i = Len(base) + 2 /\ i = Len(stack') /\ stack'[i].k = "run" /\ stack'[i].fid = None
                  /\ stack'[i].th = groups[f].cont /\ groups[f].cont \in Thread /\ Continued(f, base))
<1>1. blocked \in [Thread -> Nat] /\ groups[f].cont \in Thread \cup {None} /\ 0 \in Nat
  BY GroupFields DEF Typed
<1>2. PICK e \in Frames : e = Frame("finished", f)
  BY FrameTypes
<1>3. e.k = "finished" /\ e.fid = f
  BY <1>2 DEF Frame
<1>4. CASE Lessens(f, base)
  <2>1. stack' = base /\ groups' \in [Slots -> Group] /\ blocked' = blocked
    BY <1>4 DEF Lessens, SlotKeeps
  <2>2. Len(stack') = Len(base) /\ Len(base) \in Nat /\ (Len(base) + 1)..Len(stack') = {}
    BY <2>1
  <2> QED BY <1>1, <2>1, <2>2
<1>5. CASE Announces(f, base)
  <2>1. stack' = base \o <<e>> /\ groups' \in [Slots -> Group] /\ blocked' = blocked
        /\ groups'[f].remaining = 0
    BY <1>2, <1>5 DEF Announces, SlotKeeps
  <2>2. /\ stack' \in Seq(Frames) /\ Len(stack') = Len(base) + 1 /\ Len(base) \in Nat
        /\ \A i \in 1..Len(base) : stack'[i] = base[i]
        /\ stack'[Len(base) + 1] = e
    BY <2>1, Push1
  <2>3. \A i \in (Len(base) + 1)..Len(stack') : i = Len(base) + 1
    BY <2>2
  <2> QED BY <1>1, <1>3, <2>1, <2>2, <2>3
<1>6. CASE Continued(f, base)
  <2>1. /\ groups[f].cont # None /\ groups' \in [Slots -> Group] /\ groups'[f].remaining = 0
        /\ blocked' = [blocked EXCEPT ![groups[f].cont] = 0]
    BY <1>6 DEF Continued, SlotKeeps
  <2>2. groups[f].cont \in Thread /\ blocked' \in [Thread -> Nat]
    BY <1>1, <2>1
  <2>3. PICK r \in Frames : r = Run(groups[f].cont, None)
    BY <2>2, FrameTypes
  <2>4. r.k = "run" /\ r.th = groups[f].cont /\ r.fid = None
    BY <2>3 DEF Run
  <2>5. stack' = base \o <<e, r>>
    BY <1>2, <1>6, <2>3 DEF Continued
  <2>6. /\ stack' \in Seq(Frames) /\ Len(stack') = Len(base) + 2 /\ Len(base) \in Nat
        /\ \A i \in 1..Len(base) : stack'[i] = base[i]
        /\ stack'[Len(base) + 1] = e /\ stack'[Len(base) + 2] = r
    BY <2>5, Push2
  <2>7. \A i \in (Len(base) + 1)..Len(stack') : i = Len(base) + 1 \/ (i = Len(base) + 2 /\ i = Len(stack'))
    BY <2>6
  <2> QED BY <1>3, <1>6, <2>1, <2>2, <2>4, <2>6, <2>7
<1> QED BY <1>4, <1>5, <1>6 DEF Settles

\* The thread behind a join has executed its statements up to there.
LEMMA ContinuedThread ==
  ASSUME Typed, SlotInv, Unstarted, NEW f \in Slots, NEW base, Continued(f, base), NEW u,
         u = groups[f].cont
  PROVE  /\ u \in Thread /\ blocked[u] # 0 /\ blocked'[u] = 0
         /\ Holds(u, "blocked", 0, 0) /\ (u \in Branch => left[u] = 0)
<1>1. u # None /\ u \in Thread /\ blocked \in [Thread -> Nat] /\ blocked' = [blocked EXCEPT ![u] = 0]
  BY GroupFields DEF Typed, Continued
<1>2. Continues(f) /\ Identified(f)
  BY DEF SlotInv, GroupInv
<1>3. groups[f].active /\ blocked[u] = groups[f].no /\ groups[f].no \in 1..Len(forks)
  BY <1>1, <1>2 DEF Continues, Identified
<1>4. blocked[u] # 0
  BY <1>3
<1>5. Holds(u, "blocked", 0, 0)
  BY <1>4 DEF Holds, RestPlace
<1>6. u \in Branch => left[u] = 0
  BY <1>1, <1>5, Executed DEF Unexecuted
<1> QED BY <1>1, <1>4, <1>5, <1>6

\* The calls after fork_decrement, given the owners and the counters.
LEMMA SettleCall ==
  ASSUME Typed, SlotInv, CallInv, Unstarted, NEW f \in Slots, NEW base \in Seq(Frames),
         Settles(f, base), NEW m \in Nat, Keeps(m), m > 0 => ~Busy(stack[m]),
         \/ (Len(base) = m /\ m = 0)
         \/ (Len(base) = m + 1 /\ Len(stack) = m + 1 /\ stack[m + 1].k = "fork"
             /\ stack[m + 1].fid = f /\ base[m + 1].k = "fork" /\ base[m + 1].fid = f
             /\ ~Busy(base[m + 1]) /\ LiveFork(base[m + 1], TRUE)'),
         left' = left, forkOf' = forkOf, forks' = forks, suspended' \subseteq suspended,
         Owned', Account'
  PROVE  CallInv'
<1>1. /\ Len(stack') \in Nat /\ Len(stack') >= Len(base) /\ Len(base) \in Nat
      /\ \A i \in 1..Len(base) : stack'[i] = base[i]
      /\ \A i \in (Len(base) + 1)..Len(stack') :
              \/ (i = Len(base) + 1 /\ stack'[i].k = "finished" /\ stack'[i].fid = f
                  /\ groups'[f].remaining = 0)
              \/ (i = Len(base) + 2 /\ i = Len(stack') /\ stack'[i].k = "run" /\ stack'[i].fid = None
                  /\ stack'[i].th = groups[f].cont /\ groups[f].cont \in Thread /\ Continued(f, base))
  BY SettleStack
<1>2. /\ SlotKeeps(f)
      /\ groups'[f].cont = None \/ groups'[f].cont = groups[f].cont
      /\ groups'[f].remaining = IF groups[f].remaining > 0 THEN groups[f].remaining - 1 ELSE 0
  BY SettleFields
<1>3. groups[f].remaining \in Nat /\ groups'[f].active
  BY <1>2, GroupFields DEF Typed, SlotKeeps
<1>4. Drained
  <2>1. groups'[f].remaining = groups[f].remaining \/ groups[f].remaining > 0
    BY <1>2, <1>3
  <2> QED BY <1>2, <2>1 DEF Drained, SlotKeeps
<1>a. (Len(base) = m /\ m = 0) \/ Len(base) = m + 1
  OBVIOUS
<1>b. Len(base) = m + 1 =>
        /\ Len(stack) = m + 1 /\ stack[m + 1].k = "fork" /\ stack[m + 1].fid = f
        /\ base[m + 1].k = "fork" /\ base[m + 1].fid = f /\ ~Busy(base[m + 1])
        /\ stack'[m + 1] = base[m + 1]
  <2>1. Len(base) = m + 1 => m + 1 \in 1..Len(base) /\ Len(base) # m
    OBVIOUS
  <2> QED BY <1>1, <2>1
<1>5. \A i \in (m + 1)..Len(stack') :
        (i = m + 1 /\ Len(base) = m + 1) \/ i \in (Len(base) + 1)..Len(stack')
  <2>1. CASE Len(base) = m
    BY <2>1
  <2>2. CASE Len(base) = m + 1
    BY <1>1, <2>2
  <2> QED BY <1>a, <2>1, <2>2
<1>6. ASSUME NEW i \in (m + 1)..Len(stack')
      PROVE  ShapeAt(i)' /\ LiveAt(i)'
  <2>1. CASE i = m + 1 /\ Len(base) = m + 1
    <3>1. ShapeAt(i)'
      BY <1>b, <2>1 DEF ShapeAt, Busy
    <3>2. PICK y : y = base[m + 1]
      OBVIOUS
    <3>3. PICK b \in BOOLEAN : b <=> i < Len(stack')
      OBVIOUS
    <3>4. LiveFork(y, TRUE)' /\ groups'[y.fid].active /\ y.k = "fork"
      <4>1. Len(base) # m
        BY <2>1
      <4> QED BY <1>b, <1>3, <2>1, <3>2, <4>1
    <3>5. LiveFork(y, b)' /\ LiveEnd(y)'
      BY <3>4 DEF LiveFork, LiveEnd, Owns
    <3> QED BY <1>b, <2>1, <3>1, <3>2, <3>3, <3>5 DEF LiveAt, LiveFork, LiveEnd, Owns
  <2>2. CASE i = Len(base) + 1 /\ stack'[i].k = "finished" /\ stack'[i].fid = f
             /\ groups'[f].remaining = 0
    <3>1. ShapeAt(i)'
      BY <2>2 DEF ShapeAt, Busy
    <3> QED BY <1>3, <2>2, <3>1 DEF LiveAt, LiveFork, LiveEnd
  <2>3. CASE i = Len(stack') /\ stack'[i].k = "run" /\ stack'[i].fid = None
             /\ stack'[i].th = groups[f].cont /\ Continued(f, base)
    <3>1. PICK u : u = groups[f].cont
      OBVIOUS
    <3>2. u \in Branch => left[u] = 0
      BY <2>3, <3>1, ContinuedThread
    <3>3. stack'[i].th \in Branch => ~(left'[stack'[i].th] > 0)
      BY <2>3, <3>1, <3>2
    <3>4. ShapeAt(i)'
      BY <2>3, <3>3 DEF ShapeAt, Busy
    <3> QED BY <2>3, <3>4 DEF LiveAt, LiveFork, LiveEnd
  <2> QED BY <1>1, <1>5, <2>1, <2>2, <2>3
<1>7. \A i \in 1..Len(stack') : ShapeAt(i)'
  <2>1. \A t \in Thread : left'[t] \in Nat /\ left'[t] <= left[t]
    BY DEF Typed
  <2>2. \A i \in (m + 1)..Len(stack') : ShapeAt(i)'
    BY <1>6
  <2> QED BY <2>1, <2>2, ShapeStep DEF CallInv
<1>8. Live'
  <2>1. \A i \in (m + 1)..Len(stack') : LiveAt(i)'
    BY <1>6
  <2>2. UNCHANGED <<forkOf, forks>>
    OBVIOUS
  <2> QED BY <1>4, <2>1, <2>2, LiveStep DEF CallInv
<1>9. References'
  <2>1. ASSUME NEW i \in (m + 1)..Len(stack')
        PROVE  /\ \A j \in (m + 1)..(i - 1) : Compatible(stack'[j], stack'[i], i = j + 1)
               /\ \A j \in 1..m : Compatible(stack[j], stack'[i], i = j + 1)
    <3>1. CASE i = Len(base) + 2 /\ stack'[i].k = "run"
      BY <3>1 DEF Compatible, Refers
    <3>2. CASE Len(base) = m /\ m = 0 /\ i = Len(base) + 1
      <4>1. \A j \in (m + 1)..(i - 1) : FALSE
        BY <3>2
      <4> QED BY <3>2, <4>1
    <3>3. CASE Len(base) = m + 1 /\ i = m + 1
      <4>1. \A j \in (m + 1)..(i - 1) : FALSE
        BY <3>3
      <4>2. PICK y : y = base[m + 1]
        OBVIOUS
      <4>3. m + 1 \in Nat /\ m + 1 > m /\ Refers(stack[m + 1]) /\ y.fid = stack[m + 1].fid
            /\ Len(stack) = m + 1 /\ stack[m + 1].k \notin {"finished", "retire"}
        BY <1>b, <3>3, <4>2 DEF Refers
      <4>4. \A j \in 1..m : Compatible(stack[j], y, m + 1 = j + 1)
        BY <4>3, ReferTop DEF CallInv
      <4> QED BY <1>b, <3>3, <4>1, <4>2, <4>4
    <3>4. CASE Len(base) = m + 1 /\ i = m + 2 /\ stack'[i].k = "finished" /\ stack'[i].fid = f
      <4>1. \A j \in (m + 1)..(i - 1) : j = m + 1 /\ i = j + 1
        BY <3>4
      <4>2. stack'[m + 1] = base[m + 1]
        BY <1>1, <3>4
      <4>3. \A j \in (m + 1)..(i - 1) : Compatible(stack'[j], stack'[i], i = j + 1)
        BY <1>b, <3>4, <4>1, <4>2 DEF Compatible
      <4>4. PICK y : y = stack'[i]
        OBVIOUS
      <4>5. i \in Nat /\ i > m /\ Refers(stack[m + 1]) /\ y.fid = stack[m + 1].fid
            /\ Len(stack) = m + 1 /\ stack[m + 1].k \notin {"finished", "retire"}
        BY <1>b, <3>4, <4>4 DEF Refers
      <4>6. \A j \in 1..m : Compatible(stack[j], y, i = j + 1)
        BY <4>5, ReferTop DEF CallInv
      <4> QED BY <4>3, <4>4, <4>6
    <3>5. \/ (i = m + 1 /\ Len(base) = m + 1)
          \/ (i = Len(base) + 1 /\ stack'[i].k = "finished" /\ stack'[i].fid = f)
          \/ (i = Len(base) + 2 /\ stack'[i].k = "run")
      BY <1>1, <1>5
    <3>6. (Len(base) = m /\ m = 0) \/ Len(base) = m + 1
      OBVIOUS
    <3>7. Len(base) = m + 1 => Len(base) + 1 = m + 2
      OBVIOUS
    <3> QED BY <3>1, <3>2, <3>3, <3>4, <3>5, <3>6, <3>7
  <2> QED BY <2>1, ReferStep DEF CallInv
<1>10. Remembered'
  BY <1>2, RememberSame DEF CallInv, SlotKeeps
<1> QED BY <1>7, <1>8, <1>9, <1>10 DEF CallInv

\* The places of the threads after fork_decrement; e is a branch that is skipped, or nobody.
LEMMA SettlePlaces ==
  ASSUME Typed, SlotInv, OnePlace, Unstarted, NEW f \in Slots, NEW base \in Seq(Frames),
         Settles(f, base), NEW m \in Nat, Keeps(m),
         \/ Len(base) = m
         \/ (Len(base) = m + 1 /\ Len(stack) = m + 1 /\
             \A t, k, x : FramePlace(base[m + 1], t, k, x) => FramePlace(stack[m + 1], t, k, x)),
         left' = left, forkOf' = forkOf, waits' = waits, wait_forks' = wait_forks, NEW e,
         suspended' \subseteq suspended, ended' \subseteq ended \cup {e},
         e \in Thread => \E s \in suspended : s.th = e /\ s \notin suspended'
  PROVE  OnePlace' /\ Unstarted'
<1>1. /\ Len(stack') \in Nat /\ Len(stack') >= Len(base) /\ Len(base) \in Nat
      /\ \A i \in 1..Len(base) : stack'[i] = base[i]
      /\ \A i \in (Len(base) + 1)..Len(stack') :
              \/ (i = Len(base) + 1 /\ stack'[i].k = "finished" /\ stack'[i].fid = f
                  /\ groups'[f].remaining = 0)
              \/ (i = Len(base) + 2 /\ i = Len(stack') /\ stack'[i].k = "run" /\ stack'[i].fid = None
                  /\ stack'[i].th = groups[f].cont /\ groups[f].cont \in Thread /\ Continued(f, base))
  BY SettleStack
<1>2. m <= Len(stack) /\ m <= Len(stack') /\ Len(stack) \in Nat /\ \A i \in 1..m : stack'[i] = stack[i]
  <2>1. Len(stack) \in Nat
    BY DEF Typed
  <2>2. Keeps(m)
    OBVIOUS
  <2> QED BY <2>1, <2>2 DEF Keeps
<1>3. PICK u : u = groups[f].cont
  OBVIOUS
<1>4. PICK I \in Nat : I = Len(base) + 2
  BY <1>1
<1>5. Continued(f, base) =>
        u \in Thread /\ blocked[u] # 0 /\ blocked'[u] = 0 /\ Holds(u, "blocked", 0, 0)
  BY <1>3, ContinuedThread
<1>6. \A t \in Thread : blocked'[t] # 0 => blocked[t] # 0
  <2>1. blocked \in [Thread -> Nat] /\ groups[f].cont \in Thread \cup {None}
    BY GroupFields DEF Typed
  <2>2. \/ blocked' = blocked
        \/ blocked' = [blocked EXCEPT ![groups[f].cont] = 0] /\ groups[f].cont # None
    BY SettleFields
  <2> QED BY <2>1, <2>2
<1>7. ASSUME NEW t \in Thread, NEW k, NEW x, RestPlace(t, k, x)'
      PROVE  RestPlace(t, k, x) \/ (t = e /\ k = "ended" /\ x = 0)
  <2>1. \/ k = "suspended" /\ x \in suspended /\ x.th = t
        \/ k = "waiting" /\ x \in wait_forks /\ x.th = t
        \/ k = "pending" /\ t \in waits /\ x = 0
        \/ k = "ended" /\ t \in ended \cup {e} /\ x = 0
        \/ k = "blocked" /\ blocked[t] # 0 /\ x = 0
        \/ k = "unborn" /\ t \in Unborn /\ x = 0
    BY <1>6, <1>7 DEF RestPlace, Unborn
  <2> QED BY <2>1 DEF RestPlace
<1>8. ASSUME NEW t \in Thread, NEW k, NEW i, NEW x, Holds(t, k, i, x)'
      PROVE  \/ Holds(t, k, i, x)
             \/ (t = e /\ k = "ended" /\ i = 0 /\ x = 0)
             \/ (Continued(f, base) /\ t = u /\ k = "run" /\ i = I /\ x = 0)
  <2>1. (i \in 1..Len(stack') /\ FramePlace(stack'[i], t, k, x)) \/ (i = 0 /\ RestPlace(t, k, x)')
    BY <1>8 DEF Holds, FramePlace
  <2>2. CASE i = 0 /\ RestPlace(t, k, x)'
    BY <1>7, <2>2 DEF Holds
  <2>3. CASE i \in 1..m /\ FramePlace(stack'[i], t, k, x)
    <3>1. i \in 1..Len(stack) /\ stack'[i] = stack[i]
      BY <1>2, <2>3
    <3> QED BY <2>3, <3>1 DEF Holds
  <2>4. CASE i = m + 1 /\ Len(base) = m + 1 /\ FramePlace(stack'[i], t, k, x)
    <3>1. i \in 1..Len(stack) /\ FramePlace(stack[i], t, k, x)
      <4>1. Len(base) # m /\ m + 1 \in 1..Len(base)
        BY <2>4
      <4>2. Len(stack) = m + 1 /\ stack'[i] = base[m + 1] /\ i \in 1..Len(stack)
        BY <1>1, <2>4, <4>1
      <4> QED BY <2>4, <4>1, <4>2
    <3> QED BY <3>1 DEF Holds
  <2>5. CASE i \in (Len(base) + 1)..Len(stack') /\ FramePlace(stack'[i], t, k, x)
    <3>1. \/ stack'[i].k = "finished"
          \/ i = I /\ stack'[i].k = "run" /\ stack'[i].th = u /\ Continued(f, base)
      BY <1>1, <1>3, <1>4, <2>5
    <3> QED BY <2>5, <3>1 DEF FramePlace
  <2>6. i \in 1..Len(stack') => i \in 1..m \/ (i = m + 1 /\ Len(base) = m + 1) \/ i \in (Len(base) + 1)..Len(stack')
    <3>1. CASE Len(base) = m
      BY <1>1, <3>1
    <3>2. CASE Len(base) = m + 1
      BY <1>1, <3>2
    <3> QED BY <3>1, <3>2
  <2> QED BY <2>1, <2>2, <2>3, <2>4, <2>5, <2>6
<1>9. ASSUME NEW t \in Thread
      PROVE  \/ Stays(t)
             \/ \E K, J, X : Moves(t, K, J, X) /\ (K \in Unexecuted \/ left'[t] < Initial(t))
  <2>1. CASE t = e
    <3>1. PICK s \in suspended : s.th = t /\ s \notin suspended'
      BY <2>1
    <3>2. Holds(t, "suspended", 0, s) /\ ~Holds(t, "suspended", 0, s)'
      BY <3>1 DEF Holds, RestPlace
    <3>3. ~(Continued(f, base) /\ t = u)
      <4>1. Continued(f, base) /\ t = u => Holds(t, "blocked", 0, 0)
        BY <1>5
      <4> QED BY <3>2, <4>1 DEF OnePlace
    <3>4. ASSUME NEW k, NEW i, NEW x, Holds(t, k, i, x)' PROVE k = "ended" /\ i = 0 /\ x = 0
      <4>1. ~Holds(t, k, i, x)
        BY <3>2, <3>4 DEF OnePlace
      <4> QED BY <1>8, <3>3, <3>4, <4>1
    <3>5. Moves(t, "ended", 0, 0) /\ "ended" \in Unexecuted
      BY <3>4 DEF Moves, Unexecuted
    <3> QED BY <3>5
  <2>2. CASE t # e /\ Continued(f, base) /\ t = u
    <3>1. Holds(t, "blocked", 0, 0)
      BY <1>5, <2>2
    <3>2. ~Holds(t, "blocked", 0, 0)'
      <4>1. blocked'[t] = 0 /\ ~(0 \in 1..Len(stack'))
        BY <1>1, <1>5, <2>2
      <4> QED BY <4>1 DEF Holds, RestPlace
    <3>3. ASSUME NEW k, NEW i, NEW x, Holds(t, k, i, x)' PROVE k = "run" /\ i = I /\ x = 0
      <4>1. ~Holds(t, k, i, x)
        BY <3>1, <3>2, <3>3 DEF OnePlace
      <4> QED BY <1>8, <2>2, <3>3, <4>1
    <3>4. Moves(t, "run", I, 0) /\ "run" \in Unexecuted
      BY <3>3 DEF Moves, Unexecuted
    <3> QED BY <3>4
  <2>3. CASE t # e /\ ~(Continued(f, base) /\ t = u)
    BY <1>8, <2>3 DEF Stays
  <2> QED BY <2>1, <2>2, <2>3
<1>10. \A t \in Thread : left'[t] \in Nat /\ left'[t] <= left[t]
  BY DEF Typed
<1> QED BY <1>9, <1>10, PlaceStep

\* fork_branch_end in the loop over the branches.
LEMMA BranchEndKeeps ==
  ASSUME IInv, BranchEnd
  PROVE  IInv'
<1>1. /\ stack # <<>> /\ Top.k = "fork" /\ Top.cur # None
      /\ design' = design /\ ret' = ret /\ used' = used /\ fork_free' = fork_free
      /\ name' = name /\ suspended' = suspended /\ waits' = waits /\ wait_forks' = wait_forks
      /\ left' = left /\ forkOf' = forkOf /\ forks' = forks
      /\ ended' = ended /\ doomed' = doomed
  BY DEF BranchEnd, AtTop
<1>2. Typed /\ SlotInv /\ CallInv /\ OnePlace /\ Unstarted
  BY DEF IInv
<1>3. PICK m \in Nat :
        /\ Len(stack) = m + 1 /\ Top = stack[m + 1] /\ Top \in Frames /\ m + 1 \in 1..Len(stack)
        /\ Below \in Seq(Frames) /\ Len(Below) = m /\ \A i \in 1..m : Below[i] = stack[i]
  BY <1>1, <1>2, TopFrame
<1>4. PICK x \in ForkFrame : x = Top
  BY <1>1, <1>3, FrameFacts
<1>5. PICK f \in Slots : f = x.fid
  BY DEF ForkFrame
<1>a. ret \in BOOLEAN /\ x.any \in BOOLEAN
  BY <1>2 DEF Typed, ForkFrame
<1>b. PICK a \in BOOLEAN : a = (x.any \/ ret)
  BY <1>a
<1>6. PICK y : y = [x EXCEPT !.cur = None, !.any = a]
  OBVIOUS
<1>7. OwnedAt(m + 1) /\ LiveFork(x, FALSE) /\ x = stack[m + 1]
  <2>1. OwnedAt(m + 1) /\ LiveFork(stack[m + 1], m + 1 < Len(stack))
    BY <1>2, <1>3 DEF CallInv, Owned, Live
  <2>2. ~(m + 1 < Len(stack))
    BY <1>3
  <2>3. LiveFork(x, FALSE)
    BY <1>3, <1>4, <2>1, <2>2 DEF LiveFork
  <2> QED BY <1>3, <1>4, <2>1, <2>3
<1>8. x.cur # None /\ x.cur \notin x.todo
  BY <1>1, <1>4, <1>7 DEF OwnedAt, ForkFrame
<1>9. /\ y \in Frames /\ y.k = "fork" /\ y.fid = x.fid /\ y.kind = x.kind /\ y.parent = x.parent
      /\ y.todo = x.todo /\ y.cur = None /\ y.any = a /\ ~Busy(y)
      /\ x.cur \in Branch /\ x.k = "fork" /\ x.fid \in Slots /\ x.todo \subseteq Branch
      /\ Owns(y) = x.todo /\ Owns(x) = x.todo \cup {x.cur} /\ y.cur \notin y.todo
      /\ \A t, k, z : FramePlace(y, t, k, z) => FramePlace(x, t, k, z)
  <2>1. x \in ForkFrame /\ a \in BOOLEAN /\ None \in Branch \cup {None}
    BY <1>4, <1>b
  <2>2. y \in ForkFrame
    BY <1>6, <2>1 DEF ForkFrame
  <2>3. /\ y.fid = x.fid /\ y.kind = x.kind /\ y.parent = x.parent
        /\ y.todo = x.todo /\ y.cur = None /\ y.any = a
    BY <1>6, <2>1 DEF ForkFrame
  <2> QED BY <1>8, <2>1, <2>2, <2>3, BranchBack
<1>10. PICK c \in Branch : c = x.cur
  BY <1>9
<1>11. groups[f].active /\ forkOf[c] = groups[f].no
  BY <1>5, <1>7, <1>9, <1>10 DEF LiveFork
<1>12. PICK base \in Seq(Frames) : base = Below \o <<y>>
  BY <1>3, <1>9, Push1
<1>13. base = Append(Below, [Top EXCEPT !.cur = None, !.any = @ \/ ret])
  <2>1. base = Append(Below, y)
    BY <1>3, <1>9, <1>12, AppendIsConcat
  <2>2. y = [Top EXCEPT !.cur = None, !.any = @ \/ ret]
    BY <1>4, <1>6, <1>a, <1>b
  <2> QED BY <2>1, <2>2
<1>14. /\ Len(base) = m + 1 /\ base[m + 1] = y /\ \A i \in 1..m : base[i] = stack[i]
  BY <1>3, <1>9, <1>12, Push1
<1>15. ~(m > 0 /\ Busy(stack[m]))
  BY <1>1, <1>2, <1>3, BelowOthers
<1>16. Busy(x) /\ Refers(x)
  BY <1>8, <1>9 DEF Busy, Refers
<1>17. \A s \in suspended : s.th \in x.todo => FALSE
  <2> SUFFICES ASSUME NEW s \in suspended, s.th \in x.todo PROVE FALSE
    OBVIOUS
  <2>1. IsSuspended(s.th) /\ s.th \in Owns(stack[m + 1])
    BY <1>7, <1>9 DEF IsSuspended
  <2>2. stack[m + 1].cur = s.th
    BY <1>7, <2>1 DEF OwnedAt
  <2> QED BY <1>7, <1>8, <2>2
<1>18. left' \in [Thread -> Nat] /\ \A t \in Thread : left'[t] \in Nat /\ left'[t] <= left[t]
  BY <1>1, <1>2 DEF Typed
<1>19. ASSUME Keeps(m), Len(stack') \in Nat, Len(stack') >= m + 1, stack'[m + 1] = y,
              \A i \in (m + 2)..Len(stack') : stack'[i].k \in Inert
       PROVE  /\ Owned'
              /\ \A d \in Branch : d # c => (Open(d)' <=> Open(d))
              /\ Open(c) /\ (Open(c)' <=> IsSuspended(c))
  <2>1. Owned'
    <3>1. y.k = "fork" => y.cur \notin y.todo
      BY <1>9
    <3>2. Owns(y) \subseteq Owns(stack[m + 1]) /\ suspended' \subseteq suspended
      BY <1>1, <1>7, <1>9
    <3>3. (\A s \in suspended : s.th \notin Owns(y)) /\ (Busy(y) => Len(stack') > m + 1)
      BY <1>9, <1>17
    <3> QED BY <1>2, <1>3, <1>19, <3>1, <3>2, <3>3, OwnedReplaced DEF CallInv
  <2>2. ASSUME NEW d
        PROVE  /\ Open(d) <=> IsSuspended(d) \/ d \in Owns(x) \/ \E i \in 1..m : d \in Owns(stack[i])
               /\ Open(d)' <=> IsSuspended(d)' \/ d \in Owns(y) \/ \E i \in 1..m : d \in Owns(stack[i])
    BY <1>2, <1>3, <1>7, <1>19, OpenReplaced
  <2>3. \A d : IsSuspended(d)' <=> IsSuspended(d)
    BY <1>1 DEF IsSuspended
  <2>4. \A i \in 1..m : c \notin Owns(stack[i])
    <3> SUFFICES ASSUME NEW i \in 1..m PROVE c \notin Owns(stack[i])
      OBVIOUS
    <3>1. i \in 1..Len(stack) /\ i # m + 1
      BY <1>3
    <3>2. Owns(stack[m + 1]) \cap Owns(stack[i]) = {}
      BY <1>7, <3>1 DEF OwnedAt
    <3> QED BY <1>7, <1>9, <1>10, <3>2
  <2>5. c \in Owns(x) /\ c \notin Owns(y)
    BY <1>8, <1>9, <1>10
  <2>6. \A d \in Branch : d # c => (Open(d)' <=> Open(d))
    BY <1>9, <1>10, <2>2, <2>3
  <2>7. Open(c) /\ (Open(c)' <=> IsSuspended(c))
    BY <2>2, <2>3, <2>4, <2>5
  <2> QED BY <2>1, <2>6, <2>7
<1>20. CASE ~ret
  <2> DEFINE r == [g |-> groups, push |-> <<>>]
  <2>1. Perform(r, base) /\ Unblocked(r)
    BY <1>13, <1>20 DEF BranchEnd
  <2>2. r.g = groups /\ r.push = <<>>
    OBVIOUS
  <2>3. blocked' = blocked
    BY <1>2, <2>1, <2>2, UnblockedNone
  <2>4. groups' = groups /\ stack' = Below \o <<y>>
    BY <1>12, <2>1, <2>2, PushNone DEF Perform
  <2> HIDE DEF r
  <2>5. /\ stack' \in Seq(Frames) /\ Keeps(m) /\ Len(stack') = m + 1 /\ stack'[m + 1] = y
        /\ (m + 1)..Len(stack') = {m + 1}
    BY <1>2, <1>3, <1>9, <2>4, PushStack1
  <2>6. Typed'
    BY <1>1, <1>2, <2>3, <2>4, <2>5 DEF Typed
  <2>7. SlotInv'
    BY <1>1, <1>2, <1>18, <2>3, <2>4, GroupsUnchanged, SlotsKept
  <2>8. /\ Owned'
        /\ \A d \in Branch : d # c => (Open(d)' <=> Open(d))
        /\ Open(c) /\ (Open(c)' <=> IsSuspended(c))
    <3>1. \A i \in (m + 2)..Len(stack') : FALSE
      BY <2>5
    <3>2. Len(stack') \in Nat /\ Len(stack') >= m + 1
      BY <2>5
    <3> QED BY <1>19, <2>5, <3>1, <3>2
  <2>9. \A d \in Branch : Open(d)' <=> Open(d)
    <3>1. IsSuspended(c)
      BY <1>3, <1>7, <1>10, <1>16, <1>20 DEF OwnedAt
    <3> QED BY <2>8, <3>1
  <2>10. \A i \in 1..Len(stack') : ShapeAt(i)'
    <3>1. ShapeAt(m + 1)'
      BY <1>9, <2>5 DEF ShapeAt, Busy
    <3>2. \A i \in (m + 1)..Len(stack') : ShapeAt(i)'
      <4> SUFFICES ASSUME NEW i \in (m + 1)..Len(stack') PROVE ShapeAt(i)'
        OBVIOUS
      <4>1. i = m + 1
        BY <2>5
      <4> QED BY <3>1, <4>1
    <3> QED BY <1>2, <1>15, <1>18, <2>5, <3>2, ShapeStep DEF CallInv
  <2>11. References'
    <3>1. m + 1 \in Nat /\ m + 1 > m /\ Refers(stack[m + 1]) /\ y.fid = stack[m + 1].fid
          /\ stack[m + 1].k \notin {"finished", "retire"}
      BY <1>7, <1>9, <1>16
    <3>2. \A j \in 1..m : Compatible(stack[j], y, m + 1 = j + 1)
      BY <1>2, <1>3, <2>5, <3>1, ReferTop DEF CallInv
    <3>3. ASSUME NEW i \in (m + 1)..Len(stack')
          PROVE  /\ \A j \in (m + 1)..(i - 1) : Compatible(stack'[j], stack'[i], i = j + 1)
                 /\ \A j \in 1..m : Compatible(stack[j], stack'[i], i = j + 1)
      <4>1. i = m + 1 /\ \A j \in (m + 1)..(i - 1) : FALSE
        BY <2>5
      <4> QED BY <2>5, <3>2, <4>1
    <3> QED BY <1>2, <2>5, <3>3, ReferStep DEF CallInv
  <2>12. Live'
    <3>1. Drained
      BY <2>4 DEF Drained
    <3>2. \A b : LiveFork(y, b)
      BY <1>7, <1>9, <1>11, <1>5, <1>20, <1>a, <1>b DEF LiveFork
    <3>3. LiveAt(m + 1)'
      <4>1. LiveFork(y, m + 1 < Len(stack')) /\ LiveEnd(y)
        BY <1>9, <3>2 DEF LiveEnd
      <4>2. groups' = groups /\ forkOf' = forkOf /\ forks' = forks
        BY <1>1, <2>4
      <4> QED BY <2>5, <4>1, <4>2 DEF LiveAt, LiveFork, LiveEnd, Owns
    <3>4. \A i \in (m + 1)..Len(stack') : LiveAt(i)'
      <4> SUFFICES ASSUME NEW i \in (m + 1)..Len(stack') PROVE LiveAt(i)'
        OBVIOUS
      <4>1. i = m + 1
        BY <2>5
      <4> QED BY <3>3, <4>1
    <3> QED BY <1>1, <1>2, <2>5, <3>1, <3>4, LiveStep DEF CallInv
  <2>13. Account' /\ Remembered'
    BY <1>1, <1>2, <2>4, <2>9, GroupsUnchanged, AccountSame, RememberSame DEF CallInv
  <2>14. OnePlace' /\ Unstarted'
    <3>1. \A t, k, z : RestPlace(t, k, z)' => RestPlace(t, k, z)
      BY <1>1, <2>3 DEF RestPlace, Unborn
    <3>2. \A i \in (m + 1)..Len(stack') : \A t, k, z :
            FramePlace(stack'[i], t, k, z) => i <= Len(stack) /\ FramePlace(stack[i], t, k, z)
      BY <1>3, <1>7, <1>9, <2>5
    <3>3. \A t : Stays(t)
      BY <1>2, <2>5, <3>1, <3>2, NobodyMoves
    <3> QED BY <1>2, <1>18, <3>3, PlaceStep
  <2> QED BY <2>6, <2>7, <2>8, <2>10, <2>11, <2>12, <2>13, <2>14 DEF IInv, CallInv
<1>21. CASE ret
  <2>1. Perform(Decrement(groups, f), base) /\ Unblocked(Decrement(groups, f))
    BY <1>4, <1>5, <1>13, <1>21 DEF BranchEnd
  <2>2. Settles(f, base)
    <3>1. Continues(f)
      BY <1>2 DEF SlotInv, GroupInv
    <3> QED BY <1>2, <1>11, <2>1, <3>1, DecrementMoves
  <2>3. /\ stack' \in Seq(Frames) /\ groups' \in [Slots -> Group] /\ blocked' \in [Thread -> Nat]
        /\ Len(stack') \in Nat /\ Len(stack') >= m + 1
        /\ \A i \in 1..(m + 1) : stack'[i] = base[i]
        /\ \A i \in (m + 2)..Len(stack') : stack'[i].k \in Inert
    <3>1. (m + 1) + 1 = m + 2
      OBVIOUS
    <3> QED BY <1>2, <1>14, <2>2, <3>1, SettleStack DEF Inert
  <2>4. stack'[m + 1] = y /\ Keeps(m)
    BY <1>3, <1>14, <2>3 DEF Keeps
  <2>5. Typed'
    BY <1>1, <1>2, <2>3 DEF Typed
  <2>6. SlotInv'
    BY <1>1, <1>2, <2>2, SettleSlots
  <2>7. /\ SlotKeeps(f)
        /\ groups'[f].cont = None \/ groups'[f].cont = groups[f].cont
        /\ groups'[f].remaining = IF groups[f].remaining > 0 THEN groups[f].remaining - 1 ELSE 0
    BY <1>2, <2>2, SettleFields
  <2>8. /\ Owned'
        /\ \A d \in Branch : d # c => (Open(d)' <=> Open(d))
        /\ Open(c) /\ (Open(c)' <=> IsSuspended(c))
    BY <1>19, <2>3, <2>4
  <2>9. ~Open(c)'
    <3>1. c \in Owns(stack[m + 1])
      BY <1>7, <1>9, <1>10
    <3>2. ~IsSuspended(c)
      BY <1>7, <1>21, <3>1 DEF OwnedAt
    <3> QED BY <2>8, <3>2
  <2>10. Account'
    BY <1>1, <1>2, <1>11, <2>7, <2>8, <2>9, AccountDown DEF CallInv
  <2>11. LiveFork(y, TRUE)'
    <3>1. groups'[f].active /\ groups'[f].no = groups[f].no /\ groups'[f].reclaimable = groups[f].reclaimable
      BY <2>7 DEF SlotKeeps
    <3>2. \A d \in Owns(y) : /\ forkOf[d] = groups[f].no
                             /\ forks[forkOf[d]].parent = y.parent /\ forks[forkOf[d]].kind = y.kind
      BY <1>5, <1>7, <1>9 DEF LiveFork
    <3>3. y.kind = "all" => groups'[f].cont = None
      BY <1>5, <1>7, <1>9, <2>7 DEF LiveFork
    <3>4. y.kind = "any" => ~groups'[f].reclaimable
      BY <1>5, <1>7, <1>9, <3>1 DEF LiveFork
    <3>5. y.kind = "any" => groups'[f].remaining = 0
      <4> SUFFICES ASSUME y.kind = "any" PROVE groups'[f].remaining = 0
        OBVIOUS
      <4>1. ~groups[f].reclaimable
        BY <3>1, <3>4
      <4>2. groups[f].remaining <= 1 /\ groups[f].remaining \in Nat
        BY <1>2, <1>11, <4>1, GroupFields DEF CallInv, Account, AccountOf, Typed
      <4> QED BY <2>7, <4>2
    <3> QED BY <1>1, <1>5, <1>9, <3>1, <3>2, <3>3, <3>4, <3>5 DEF LiveFork, Owns
  <2>12. CallInv'
    <3>1. m > 0 => ~Busy(stack[m])
      BY <1>15
    <3>2. PICK z : z = base[m + 1]
      OBVIOUS
    <3>3. z = y /\ LiveFork(z, TRUE)'
      BY <1>14, <2>11, <3>2
    <3>4. /\ Len(base) = m + 1 /\ Len(stack) = m + 1 /\ stack[m + 1].k = "fork"
          /\ stack[m + 1].fid = f /\ base[m + 1].k = "fork" /\ base[m + 1].fid = f
          /\ ~Busy(base[m + 1])
      BY <1>3, <1>5, <1>7, <1>9, <1>14
    <3>5. LiveFork(base[m + 1], TRUE)'
      BY <3>2, <3>3
    <3>6. suspended' \subseteq suspended
      BY <1>1
    <3> QED BY <1>1, <1>2, <2>2, <2>4, <2>8, <2>10, <3>1, <3>4, <3>5, <3>6, SettleCall
  <2>13. OnePlace' /\ Unstarted'
    <3>1. /\ Len(base) = m + 1 /\ Len(stack) = m + 1
          /\ \A t, k, z : FramePlace(base[m + 1], t, k, z) => FramePlace(stack[m + 1], t, k, z)
      BY <1>3, <1>7, <1>9, <1>14
    <3>2. None \notin Thread /\ suspended' \subseteq suspended /\ ended' \subseteq ended \cup {None}
      BY <1>1, Basics
    <3> QED BY <1>1, <1>2, <2>2, <2>4, <3>1, <3>2, SettlePlaces
  <2> QED BY <2>5, <2>6, <2>12, <2>13 DEF IInv
<1> QED BY <1>20, <1>21

\* When no frame waits for a branch, only the suspended ones have not returned.
LEMMA InertStack ==
  ASSUME \A i \in 1..Len(stack') : stack'[i].k \in Inert
  PROVE  Owned' /\ \A c : Open(c)' <=> IsSuspended(c)'
<1>1. \A i \in 1..Len(stack') :
        Owns(stack'[i]) = {} /\ ~Busy(stack'[i]) /\ stack'[i].k # "fork" /\ stack'[i].k # "branch"
  BY InertFacts
<1>2. ASSUME NEW i \in 1..Len(stack') PROVE OwnedAt(i)'
  BY <1>1 DEF OwnedAt, Owns, Busy
<1>3. ASSUME NEW c PROVE Open(c)' <=> IsSuspended(c)'
  <2>1. Open(c)' <=> IsSuspended(c)' \/ \E i \in 1..Len(stack') : c \in Owns(stack'[i])
    BY DEF Open, Owns
  <2> QED BY <1>1, <2>1
<1> QED BY <1>2, <1>3 DEF Owned

\* process_event and process_pending_events behind a resumed branch.
LEMMA BranchResumedKeeps ==
  ASSUME IInv, BranchResumed
  PROVE  IInv'
<1>1. /\ stack # <<>> /\ Top.k = "branch"
      /\ design' = design /\ ret' = ret /\ used' = used /\ fork_free' = fork_free
      /\ name' = name /\ suspended' = suspended /\ waits' = waits /\ wait_forks' = wait_forks
      /\ left' = left /\ forkOf' = forkOf /\ forks' = forks
      /\ ended' = ended /\ doomed' = doomed
  BY DEF BranchResumed, AtTop
<1>2. Typed /\ SlotInv /\ CallInv /\ OnePlace /\ Unstarted
  BY DEF IInv
<1>3. PICK m \in Nat :
        /\ Len(stack) = m + 1 /\ Top = stack[m + 1] /\ Top \in Frames /\ m + 1 \in 1..Len(stack)
        /\ Below \in Seq(Frames) /\ Len(Below) = m /\ \A i \in 1..m : Below[i] = stack[i]
  BY <1>1, <1>2, TopFrame
<1>4. ShapeAt(m + 1) /\ OwnedAt(m + 1) /\ LiveEnd(stack[m + 1])
  BY <1>2, <1>3 DEF CallInv, Owned, Live
<1>5. m = 0
  <2>1. m + 1 = 1
    BY <1>1, <1>3, <1>4 DEF ShapeAt
  <2> QED BY <1>3, <2>1
<1>6. PICK c \in Branch, f \in Slots : c = Top.cur /\ f = Top.fid
  BY <1>1, <1>3, FrameFacts
<1>7. groups[f].active /\ forkOf[c] = groups[f].no /\ Busy(stack[m + 1]) /\ Owns(stack[m + 1]) = {c}
  BY <1>1, <1>3, <1>4, <1>6, Basics DEF LiveEnd, Busy, Owns
<1>8. PICK base \in Seq(Frames) : base = Below /\ Len(base) = 0
  BY <1>3, <1>5
<1>9. Open(c) /\ \A d : Open(d) <=> IsSuspended(d) \/ d = c
  <2>1. \A i \in 1..Len(stack) : i = m + 1
    BY <1>3, <1>5
  <2> QED BY <1>3, <1>7, <2>1 DEF Open
<1>10. \A d : IsSuspended(d)' <=> IsSuspended(d)
  BY <1>1 DEF IsSuspended
<1>11. left' \in [Thread -> Nat] /\ \A t \in Thread : left'[t] \in Nat /\ left'[t] <= left[t]
  BY <1>1, <1>2 DEF Typed
<1>12. CASE ~ret
  <2> DEFINE r == [g |-> groups, push |-> <<>>]
  <2>1. Perform(r, base) /\ Unblocked(r)
    BY <1>8, <1>12 DEF BranchResumed
  <2>2. r.g = groups /\ r.push = <<>>
    OBVIOUS
  <2>3. blocked' = blocked
    BY <1>2, <2>1, <2>2, UnblockedNone
  <2>4. groups' = groups /\ stack' = Below
    BY <1>8, <2>1, <2>2, PushNone DEF Perform
  <2> HIDE DEF r
  <2>5. stack' \in Seq(Frames) /\ Keeps(m) /\ Len(stack') = m /\ (m + 1)..Len(stack') = {}
    BY <1>2, <1>3, <2>4, PopStack
  <2>6. Typed'
    BY <1>1, <1>2, <2>3, <2>4, <2>5 DEF Typed
  <2>7. SlotInv'
    BY <1>1, <1>2, <1>11, <2>3, <2>4, GroupsUnchanged, SlotsKept
  <2>8. \A i \in 1..Len(stack') : FALSE
    BY <1>5, <2>5
  <2>9. Owned' /\ \A d : Open(d)' <=> Open(d)
    <3>1. Owned' /\ \A d : Open(d)' <=> IsSuspended(d)'
      BY <2>8, InertStack
    <3>2. IsSuspended(c)
      BY <1>3, <1>4, <1>6, <1>7, <1>12 DEF OwnedAt
    <3> QED BY <1>9, <1>10, <3>1, <3>2
  <2>10. (\A i \in 1..Len(stack') : ShapeAt(i)') /\ References' /\ Live'
    BY <2>8 DEF References, Live
  <2>11. Account' /\ Remembered'
    BY <1>1, <1>2, <2>4, <2>9, GroupsUnchanged, AccountSame, RememberSame DEF CallInv
  <2>12. OnePlace' /\ Unstarted'
    <3>1. \A t, k, z : RestPlace(t, k, z)' => RestPlace(t, k, z)
      BY <1>1, <2>3 DEF RestPlace, Unborn
    <3>2. \A t : Stays(t)
      BY <1>2, <2>5, <3>1, NobodyMoves
    <3> QED BY <1>2, <1>11, <3>2, PlaceStep
  <2> QED BY <2>6, <2>7, <2>9, <2>10, <2>11, <2>12 DEF IInv, CallInv
<1>13. CASE ret
  <2>1. Perform(Decrement(groups, f), base) /\ Unblocked(Decrement(groups, f))
    BY <1>6, <1>8, <1>13 DEF BranchResumed
  <2>2. Settles(f, base)
    <3>1. Continues(f)
      BY <1>2 DEF SlotInv, GroupInv
    <3> QED BY <1>2, <1>7, <2>1, <3>1, DecrementMoves
  <2>3. /\ stack' \in Seq(Frames) /\ groups' \in [Slots -> Group] /\ blocked' \in [Thread -> Nat]
        /\ Len(stack') \in Nat
        /\ \A i \in 1..Len(stack') : stack'[i].k \in Inert
    <3>1. Len(base) + 1 = 1
      BY <1>8
    <3> QED BY <1>2, <2>2, <3>1, SettleStack DEF Inert
  <2>4. Keeps(m)
    BY <1>3, <1>5, <2>3 DEF Keeps
  <2>5. Typed'
    BY <1>1, <1>2, <2>3 DEF Typed
  <2>6. SlotInv'
    BY <1>1, <1>2, <2>2, SettleSlots
  <2>7. /\ SlotKeeps(f)
        /\ groups'[f].remaining = IF groups[f].remaining > 0 THEN groups[f].remaining - 1 ELSE 0
    BY <1>2, <2>2, SettleFields
  <2>8. Owned' /\ \A d : Open(d)' <=> IsSuspended(d)'
    BY <2>3, InertStack
  <2>9. ~IsSuspended(c)
    BY <1>4, <1>7, <1>13 DEF OwnedAt
  <2>10. ~Open(c)' /\ \A d \in Branch : d # c => (Open(d)' <=> Open(d))
    BY <1>9, <1>10, <2>8, <2>9
  <2>11. Account'
    BY <1>1, <1>2, <1>7, <1>9, <2>7, <2>10, AccountDown DEF CallInv
  <2>12. suspended' \subseteq suspended /\ (m > 0 => ~Busy(stack[m])) /\ Len(base) = m /\ m = 0
    BY <1>1, <1>5, <1>8
  <2>13. CallInv'
    BY <1>1, <1>2, <2>2, <2>4, <2>8, <2>11, <2>12, SettleCall
  <2>14. OnePlace' /\ Unstarted'
    <3>1. None \notin Thread /\ ended' \subseteq ended \cup {None}
      BY <1>1, Basics
    <3> QED BY <1>1, <1>2, <2>2, <2>4, <2>12, <3>1, SettlePlaces
  <2> QED BY <2>5, <2>6, <2>13, <2>14 DEF IInv
<1> QED BY <1>12, <1>13

\* What is known of a suspended thread.
LEMMA SuspendedThread ==
  ASSUME Typed, Remembered, OnePlace, NEW s \in suspended
  PROVE  /\ s \in Suspension /\ s.th \in Thread /\ s.fid \in Slots \cup {None}
         /\ s.proc \in Processes \cup {None}
         /\ s.fid # None <=> s.th \in Branch
         /\ s.fid # None => s.fid \in Slots /\ groups[s.fid].active /\ groups[s.fid].no = forkOf[s.th]
         /\ Holds(s.th, "suspended", 0, s)
         /\ \A w \in suspended : w.th = s.th => w = s
<1>1. /\ s \in Suspension /\ s.th \in Thread /\ s.fid \in Slots \cup {None}
      /\ s.proc \in Processes \cup {None}
  BY DEF Typed, Suspension
<1>2. \A w \in suspended : Holds(w.th, "suspended", 0, w)
  BY DEF Holds, RestPlace
<1>3. \A w \in suspended : w.th = s.th => w = s
  BY <1>1, <1>2 DEF OnePlace
<1> QED BY <1>1, <1>2, <1>3 DEF Remembered

\* process_event skips a branch of a disabled group.
LEMMA SkipKeeps ==
  ASSUME IInv, NEW s \in suspended, stack = <<>>, suspended' = suspended \ {s}, s.fid # None,
         Perform(Decrement(groups, s.fid), <<>>), Unblocked(Decrement(groups, s.fid)),
         ended' = ended \cup {s.th},
         UNCHANGED <<design, ret, used, fork_free, name, waits, wait_forks, left, forkOf, forks, doomed>>
  PROVE  IInv'
<1>1. /\ design' = design /\ ret' = ret /\ used' = used /\ fork_free' = fork_free
      /\ name' = name /\ waits' = waits /\ wait_forks' = wait_forks
      /\ left' = left /\ forkOf' = forkOf /\ forks' = forks /\ doomed' = doomed
  OBVIOUS
<1>2. Typed /\ SlotInv /\ CallInv /\ OnePlace /\ Unstarted
  BY DEF IInv
<1>3. PICK f \in Slots, c \in Branch : f = s.fid /\ c = s.th
  BY <1>2, SuspendedThread DEF CallInv
<1>4. /\ groups[f].active /\ forkOf[c] = groups[f].no /\ c \in Thread
      /\ \A w \in suspended : w.th = c => w = s
  BY <1>2, <1>3, SuspendedThread DEF CallInv
<1>5. PICK base \in Seq(Frames) : base = <<>> /\ Len(base) = 0
  <2>1. <<>> \in Seq(Frames) /\ Len(<<>>) = 0
    OBVIOUS
  <2> QED BY <2>1
<1>6. PICK m \in Nat : m = 0
  OBVIOUS
<1>7. Perform(Decrement(groups, f), base) /\ Unblocked(Decrement(groups, f))
  BY <1>3, <1>5
<1>8. Settles(f, base)
  <2>1. Continues(f)
    BY <1>2 DEF SlotInv, GroupInv
  <2> QED BY <1>2, <1>4, <1>7, <2>1, DecrementMoves
<1>9. /\ stack' \in Seq(Frames) /\ groups' \in [Slots -> Group] /\ blocked' \in [Thread -> Nat]
      /\ Len(stack') \in Nat
      /\ \A i \in 1..Len(stack') : stack'[i].k \in Inert
  <2>1. Len(base) + 1 = 1
    BY <1>5
  <2> QED BY <1>2, <1>8, <2>1, SettleStack DEF Inert
<1>10. Keeps(m) /\ Len(stack) = 0
  BY <1>6, <1>9 DEF Keeps
<1>11. suspended' \subseteq suspended /\ ended' = ended \cup {c}
  BY <1>3
<1>12. Typed'
  BY <1>1, <1>2, <1>4, <1>9, <1>11 DEF Typed
<1>13. SlotInv'
  BY <1>1, <1>2, <1>8, SettleSlots
<1>14. /\ SlotKeeps(f)
       /\ groups'[f].remaining = IF groups[f].remaining > 0 THEN groups[f].remaining - 1 ELSE 0
  BY <1>2, <1>8, SettleFields
<1>15. Owned' /\ \A d : Open(d)' <=> IsSuspended(d)'
  BY <1>9, InertStack
<1>16. \A d : Open(d) <=> IsSuspended(d)
  BY <1>10 DEF Open
<1>17. IsSuspended(c) /\ ~IsSuspended(c)' /\ \A d : d # c => (IsSuspended(d)' <=> IsSuspended(d))
  BY <1>3, <1>4 DEF IsSuspended
<1>18. Open(c) /\ ~Open(c)' /\ \A d \in Branch : d # c => (Open(d)' <=> Open(d))
  BY <1>15, <1>16, <1>17
<1>19. Account'
  BY <1>1, <1>2, <1>4, <1>14, <1>18, AccountDown DEF CallInv
<1>20. (m > 0 => ~Busy(stack[m])) /\ Len(base) = m /\ m = 0
  BY <1>5, <1>6
<1>21. CallInv'
  BY <1>1, <1>2, <1>8, <1>10, <1>11, <1>15, <1>19, <1>20, SettleCall
<1>22. OnePlace' /\ Unstarted'
  <2>1. ended' \subseteq ended \cup {c} /\ \E w \in suspended : w.th = c /\ w \notin suspended'
    BY <1>3
  <2> QED BY <1>1, <1>2, <1>8, <1>10, <1>11, <1>20, <2>1, SettlePlaces
<1> QED BY <1>12, <1>13, <1>21, <1>22 DEF IInv

\* The event loop resumes a suspended thread.
LEMMA HandlersKeep ==
  ASSUME IInv, NEW s \in suspended, stack = <<>>, suspended' = suspended \ {s},
         stack' = Handlers(s), name' \in Processes \cup {None},
         UNCHANGED <<design, ret, groups, used, fork_free, waits, wait_forks,
                     left, forkOf, forks, blocked, ended, doomed>>
  PROVE  IInv'
<1>1. /\ design' = design /\ ret' = ret /\ groups' = groups /\ used' = used /\ fork_free' = fork_free
      /\ waits' = waits /\ wait_forks' = wait_forks
      /\ left' = left /\ forkOf' = forkOf /\ forks' = forks /\ blocked' = blocked
      /\ ended' = ended /\ doomed' = doomed
  OBVIOUS
<1>2. Typed /\ SlotInv /\ CallInv /\ OnePlace /\ Unstarted
  BY DEF IInv
<1>3. PICK u \in Thread, f \in Slots \cup {None} : u = s.th /\ f = s.fid
  BY <1>2, SuspendedThread DEF CallInv
<1>4. /\ f # None <=> u \in Branch
      /\ f # None => f \in Slots /\ groups[f].active /\ groups[f].no = forkOf[u]
      /\ Holds(u, "suspended", 0, s)
      /\ \A w \in suspended : w.th = u => w = s
  BY <1>2, <1>3, SuspendedThread DEF CallInv
<1>5. PICK m \in Nat : m = 0
  OBVIOUS
<1>6. PICK r \in Frames : r = Run(u, f)
  BY <1>3, FrameTypes
<1>7. r.k = "run" /\ r.th = u /\ r.fid = f
  BY <1>6 DEF Run
<1>8. left' \in [Thread -> Nat] /\ \A t \in Thread : left'[t] \in Nat /\ left'[t] <= left[t]
  BY <1>1, <1>2 DEF Typed
<1>9. ~IsSuspended(u)' /\ \A d : d # u => (IsSuspended(d)' <=> IsSuspended(d))
  BY <1>3, <1>4 DEF IsSuspended
<1>10. Len(stack) = 0 /\ (\A d : Open(d) <=> IsSuspended(d)) /\ IsSuspended(u)
  BY <1>3 DEF Open, IsSuspended
<1>11. SlotInv' /\ Remembered'
  BY <1>1, <1>2, <1>8, GroupsUnchanged, SlotsKept, RememberSame DEF CallInv
<1>12. ASSUME stack' \in Seq(Frames), NEW I \in Nat, I > 0,
              \A i \in 1..Len(stack') : \A t, k, x :
                FramePlace(stack'[i], t, k, x) => t = u /\ k = "run" /\ i = I /\ x = 0
       PROVE  Typed' /\ OnePlace' /\ Unstarted'
  <2>1. Typed'
    BY <1>1, <1>2, <1>12 DEF Typed
  <2>2. Keeps(m) /\ m + 1 = 1
    BY <1>5, <1>10, <1>12 DEF Keeps
  <2>3. ~Holds(u, "suspended", 0, s)'
    BY DEF Holds, RestPlace
  <2>4. \A t, k, x : RestPlace(t, k, x)' => RestPlace(t, k, x) \/ (t = u /\ k = "run" /\ I = 0 /\ x = 0)
    BY <1>1 DEF RestPlace, Unborn
  <2>5. (\A t : t # u => Stays(t)) /\ Moves(u, "run", I, 0)
    <3>1. \E k, i, x : Holds(u, k, i, x) /\ ~Holds(u, k, i, x)'
      BY <1>4, <2>3
    <3>2. \A i \in (m + 1)..Len(stack') : \A t, k, x : FramePlace(stack'[i], t, k, x) =>
            (i <= Len(stack) /\ FramePlace(stack[i], t, k, x)) \/ (t = u /\ k = "run" /\ i = I /\ x = 0)
      BY <1>12, <2>2
    <3> QED BY <1>2, <2>2, <2>4, <3>1, <3>2, OneMoves
  <2>6. "run" \in Unexecuted
    BY DEF Unexecuted
  <2> QED BY <1>2, <1>8, <2>1, <2>5, <2>6, PlaceStep
<1>13. CASE f = None
  <2>1. stack' = <<r>>
    BY <1>3, <1>6, <1>13 DEF Handlers
  <2>2. stack' \in Seq(Frames) /\ Len(stack') = 1 /\ stack'[1] = r /\ \A i \in 1..Len(stack') : i = 1
    BY <2>1
  <2>3. Typed' /\ OnePlace' /\ Unstarted'
    <3>1. \A i \in 1..Len(stack') : \A t, k, x :
            FramePlace(stack'[i], t, k, x) => t = u /\ k = "run" /\ i = 1 /\ x = 0
      BY <1>7, <2>2 DEF FramePlace
    <3> QED BY <1>12, <2>2, <3>1
  <2>4. \A i \in 1..Len(stack') : stack'[i].k \in Inert
    BY <1>7, <2>2 DEF Inert
  <2>5. Owned' /\ \A c \in Branch : Open(c)' <=> Open(c)
    BY <1>4, <1>9, <1>10, <1>13, <2>4, InertStack
  <2>6. Account'
    BY <1>1, <1>2, <2>5, GroupsUnchanged, AccountSame DEF CallInv
  <2>7. \A i \in 1..Len(stack') : ShapeAt(i)'
    BY <1>4, <1>7, <1>13, <2>2 DEF ShapeAt, Busy
  <2>8. References' /\ Live'
    BY <1>7, <2>2 DEF References, Compatible, Refers, Live, LiveFork, LiveEnd
  <2> QED BY <1>11, <2>3, <2>5, <2>6, <2>7, <2>8 DEF IInv, CallInv
<1>14. CASE f # None
  <2>0. f \in Slots /\ u \in Branch /\ u # None
    BY <1>4, <1>14, Basics
  <2>1. PICK b \in Frames : b = [k |-> "branch", fid |-> f, cur |-> u]
    BY <2>0, FrameTypes
  <2>2. b.k = "branch" /\ b.fid = f /\ b.cur = u
    BY <2>1
  <2>3. stack' = <<b, r>>
    BY <1>3, <1>6, <1>14, <2>1 DEF Handlers
  <2>4. /\ stack' \in Seq(Frames) /\ Len(stack') = 2 /\ stack'[1] = b /\ stack'[2] = r
        /\ \A i \in 1..Len(stack') : i = 1 \/ i = 2
    BY <2>3
  <2>5. Typed' /\ OnePlace' /\ Unstarted'
    <3>1. \A i \in 1..Len(stack') : \A t, k, x :
            FramePlace(stack'[i], t, k, x) => t = u /\ k = "run" /\ i = 2 /\ x = 0
      BY <1>7, <2>2, <2>4 DEF FramePlace
    <3> QED BY <1>12, <2>4, <3>1
  <2>6. Owns(b) = {u} /\ Owns(r) = {} /\ Busy(b) /\ ~Busy(r) /\ ~Refers(r)
    BY <1>7, <2>0, <2>2 DEF Owns, Busy, Refers
  <2>7. \A c : Open(c)' <=> Open(c)
    <3> SUFFICES ASSUME NEW c PROVE Open(c)' <=> Open(c)
      OBVIOUS
    <3>1. Open(c)' <=> IsSuspended(c)' \/ \E i \in 1..Len(stack') : c \in Owns(stack'[i])
      BY DEF Open, Owns
    <3>2. (\E i \in 1..Len(stack') : c \in Owns(stack'[i])) <=> c = u
      <4>1. 1 \in 1..Len(stack')
        BY <2>4
      <4> QED BY <2>4, <2>6, <4>1
    <3> QED BY <1>9, <1>10, <3>1, <3>2
  <2>8. Owned'
    <3>1. OwnedAt(1)'
      BY <1>9, <2>2, <2>4, <2>6 DEF OwnedAt, Owns, Busy, IsSuspended
    <3>2. OwnedAt(2)'
      BY <1>7, <2>4, <2>6 DEF OwnedAt, Owns, Busy, IsSuspended
    <3>3. \A i \in 1..Len(stack') : OwnedAt(i)'
      <4> SUFFICES ASSUME NEW i \in 1..Len(stack') PROVE OwnedAt(i)'
        OBVIOUS
      <4>1. i = 1 \/ i = 2
        BY <2>4
      <4> QED BY <3>1, <3>2, <4>1
    <3> QED BY <3>3 DEF Owned
  <2>9. Account'
    BY <1>1, <1>2, <2>7, GroupsUnchanged, AccountSame DEF CallInv
  <2>10. \A i \in 1..Len(stack') : ShapeAt(i)'
    <3>1. ShapeAt(1)'
      <4>1. 1 + 1 = 2
        OBVIOUS
      <4> QED BY <1>7, <2>2, <2>4, <4>1 DEF ShapeAt, Busy
    <3>2. ShapeAt(2)'
      <4>1. 2 - 1 = 1 /\ 2 > 1
        OBVIOUS
      <4> QED BY <1>7, <2>0, <2>2, <2>4, <4>1 DEF ShapeAt, Busy
    <3> SUFFICES ASSUME NEW i \in 1..Len(stack') PROVE ShapeAt(i)'
      OBVIOUS
    <3>3. i = 1 \/ i = 2
      BY <2>4
    <3> QED BY <3>1, <3>2, <3>3
  <2>11. References'
    <3>1. \A i \in 1..Len(stack') : \A j \in 1..(i - 1) : i = 2
      BY <2>4
    <3> QED BY <1>7, <2>4, <3>1 DEF References, Compatible, Refers
  <2>12. Live'
    <3>1. \A i \in 1..Len(stack') : stack'[i].k # "fork" /\
            (stack'[i].k = "branch" => stack'[i].fid = f /\ stack'[i].cur = u) /\
            stack'[i].k \notin {"finished", "retire"}
      BY <1>7, <2>2, <2>4
    <3> QED BY <1>1, <1>4, <1>14, <3>1 DEF Live, LiveFork, LiveEnd
  <2> QED BY <1>11, <2>5, <2>8, <2>9, <2>10, <2>11, <2>12 DEF IInv, CallInv
<1> QED BY <1>13, <1>14

LEMMA ResumeDelayKeeps ==
  ASSUME IInv, NEW s \in suspended, ResumeDelay(s)
  PROVE  IInv'
<1>1. /\ stack = <<>> /\ suspended' = suspended \ {s}
      /\ UNCHANGED <<design, ret, used, fork_free, waits, wait_forks>>
  BY DEF ResumeDelay
<1>2. CASE s.fid # None /\ groups[s.fid].disabled
  <2>1. /\ Perform(Decrement(groups, s.fid), <<>>) /\ Unblocked(Decrement(groups, s.fid))
        /\ ended' = ended \cup {s.th} /\ UNCHANGED <<name, left, forkOf, forks, doomed>>
    BY <1>2 DEF ResumeDelay
  <2> QED BY <1>1, <1>2, <2>1, SkipKeeps
<1>3. CASE ~(s.fid # None /\ groups[s.fid].disabled)
  <2>1. name' = s.proc /\ stack' = Handlers(s)
        /\ UNCHANGED <<groups, left, forkOf, forks, blocked, ended, doomed>>
    BY <1>3 DEF ResumeDelay, history
  <2>2. s.proc \in Processes \cup {None}
    BY SuspendedThread DEF IInv, CallInv
  <2> QED BY <1>1, <2>1, <2>2, HandlersKeep
<1> QED BY <1>2, <1>3

LEMMA ResumeAtKeeps ==
  ASSUME IInv, NEW s \in suspended, ResumeAt(s)
  PROVE  IInv'
<1>1. /\ stack = <<>> /\ suspended' = suspended \ {s} /\ stack' = Handlers(s) /\ name' = name
      /\ UNCHANGED <<design, ret, groups, used, fork_free, waits, wait_forks,
                     left, forkOf, forks, blocked, ended, doomed>>
  BY DEF ResumeAt, history
<1>2. name' \in Processes \cup {None}
  BY <1>1 DEF IInv, Typed
<1> QED BY <1>1, <1>2, HandlersKeep
-----------------------------------------------------------------------------
(* Every action keeps the invariant: a slot is retired, and taken again.      *)

\* A branch that has not returned belongs to a fork.
LEMMA OpenBorn ==
  ASSUME Typed, SlotInv, CallInv, NEW c \in Branch, Open(c)
  PROVE  forkOf[c] \in 1..Len(forks) /\ c \notin Unborn
<1>0. \A g \in Slots : groups[g].active => groups[g].no \in 1..Len(forks)
  BY DEF SlotInv, GroupInv, Identified
<1>1. CASE IsSuspended(c)
  <2>1. PICK s \in suspended : s.th = c
    BY <1>1 DEF IsSuspended
  <2>2. s.fid # None /\ s.fid \in Slots \cup {None}
    BY <2>1 DEF CallInv, Remembered, Typed, Suspension
  <2>3. groups[s.fid].active /\ groups[s.fid].no = forkOf[c]
    BY <2>1, <2>2 DEF CallInv, Remembered
  <2> QED BY <1>0, <2>2, <2>3 DEF Unborn
<1>2. CASE \E i \in 1..Len(stack) : c \in Owns(stack[i])
  <2>1. PICK i \in 1..Len(stack) : c \in Owns(stack[i])
    BY <1>2
  <2>2. PICK x \in Frames : x = stack[i]
    BY DEF Typed
  <2>3. LiveFork(x, i < Len(stack)) /\ LiveEnd(x)
    BY <2>2 DEF CallInv, Live
  <2>4. x.k = "fork" \/ (x.k = "branch" /\ x.cur = c)
    BY <2>1, <2>2 DEF Owns
  <2>5. x.fid \in Slots
    BY <2>4, FrameFacts
  <2>6. groups[x.fid].active /\ forkOf[c] = groups[x.fid].no
    BY <2>1, <2>2, <2>3, <2>4 DEF LiveFork, LiveEnd
  <2> QED BY <1>0, <2>5, <2>6 DEF Unborn
<1> QED BY <1>1, <1>2 DEF Open

\* A group of join or join_none whose counter is zero has no branch left.
LEMMA NoneOpen ==
  ASSUME Typed, CallInv, NEW f \in Slots, groups[f].active, groups[f].reclaimable,
         groups[f].remaining = 0, NEW c \in Branch, forkOf[c] = groups[f].no
  PROVE  ~Open(c)
<1>1. PICK n : n = groups[f].no
  OBVIOUS
<1> DEFINE S == Unreturned(n)
<1>2. Cardinality(S) = 0
  BY <1>1 DEF CallInv, Account, AccountOf
<1>3. IsFiniteSet(S)
  <2>1. S \subseteq Branch
    BY DEF Unreturned, Of, Branch
  <2> QED BY <2>1, Basics, FS_Subset
<1>4. S = {}
  <2> HIDE DEF S
  <2> QED BY <1>2, <1>3, FS_EmptySet
<1>5. c \in Of(n)
  BY <1>1 DEF Of, Branch
<1> QED BY <1>4, <1>5 DEF Unreturned

LEMMA RetireKeeps ==
  ASSUME IInv, Retire
  PROVE  IInv'
<1>1. /\ stack # <<>> /\ Top.k = "retire" /\ stack' = Below
      /\ design' = design /\ ret' = ret /\ used' = used
      /\ name' = name /\ suspended' = suspended /\ waits' = waits /\ wait_forks' = wait_forks
      /\ left' = left /\ forkOf' = forkOf /\ forks' = forks /\ blocked' = blocked
      /\ ended' = ended /\ doomed' = doomed
  BY DEF Retire, AtTop, history
<1>2. Typed /\ SlotInv /\ CallInv /\ OnePlace /\ Unstarted
  BY DEF IInv
<1>3. PICK m \in Nat :
        /\ Len(stack) = m + 1 /\ Top = stack[m + 1] /\ Top \in Frames /\ m + 1 \in 1..Len(stack)
        /\ Below \in Seq(Frames) /\ Len(Below) = m /\ \A i \in 1..m : Below[i] = stack[i]
  BY <1>1, <1>2, TopFrame
<1>4. PICK f \in Slots : f = Top.fid
  BY <1>1, <1>3, FrameFacts
<1>5. groups[f].active /\ groups[f].remaining = 0 /\ groups[f].reclaimable
  BY <1>1, <1>2, <1>3, <1>4 DEF CallInv, Live, LiveEnd
<1>6. /\ groups' = [groups EXCEPT ![f].active = FALSE, ![f].fired = TRUE,
                                  ![f].remaining = 0, ![f].cont = None]
      /\ fork_free' = Append(fork_free, f)
  BY <1>4, <1>5 DEF Retire
<1>7. Retires(f)
  BY <1>2, <1>6, RetireFields
<1>8. SlotInv'
  <2>1. UNCHANGED <<used, left, forkOf, forks, blocked>>
    BY <1>1
  <2> QED BY <1>2, <1>5, <1>6, <1>7, <2>1, RetireSlots
<1>9. stack' \in Seq(Frames) /\ Keeps(m) /\ Len(stack') = m /\ (m + 1)..Len(stack') = {}
  BY <1>1, <1>2, <1>3, PopStack
<1>10. Typed'
  <2>1. fork_free' \in Seq(Slots)
    BY <1>2, <1>6 DEF Typed
  <2>2. groups' \in [Slots -> Group]
    BY <1>7 DEF Retires
  <2> QED BY <1>1, <1>2, <1>9, <2>1, <2>2 DEF Typed
<1>11. left' \in [Thread -> Nat] /\ \A t \in Thread : left'[t] \in Nat /\ left'[t] <= left[t]
  BY <1>1, <1>2 DEF Typed
<1>12. ~(m > 0 /\ Busy(stack[m]))
  BY <1>1, <1>2, <1>3, BelowOthers
<1>13. \A i \in 1..m : stack'[i] = stack[i] /\ i \in 1..Len(stack) /\ i < Len(stack)
  BY <1>3, <1>9 DEF Keeps
<1>14. \A g \in Slots : g # f => groups'[g] = groups[g]
  BY <1>7 DEF Retires
<1>15. (\A i \in 1..Len(stack') : ShapeAt(i)') /\ References'
  <2>1. \A i \in 1..Len(stack') : ShapeAt(i)'
    BY <1>2, <1>9, <1>11, <1>12, ShapeStep DEF CallInv
  <2>2. References'
    BY <1>2, <1>9, ReferStep DEF CallInv
  <2> QED BY <2>1, <2>2
<1>16. Owned' /\ \A c : Open(c)' <=> Open(c)
  <2>1. \A i \in (m + 1)..Len(stack) : Owns(stack[i]) = {}
    BY <1>1, <1>2, <1>3, RunOwnsNothing DEF Inert
  <2>2. Len(stack) # m
    BY <1>3
  <2> QED BY <1>1, <1>2, <1>9, <1>12, <2>1, <2>2, OwnedStep DEF CallInv
<1>17. Live'
  <2>1. ASSUME NEW i \in 1..m PROVE LiveAt(i)'
    <3>1. PICK x \in Frames : x = stack[i] /\ x = stack'[i]
      BY <1>2, <1>13 DEF Typed
    <3>2. PICK b \in BOOLEAN : b <=> i < Len(stack')
      OBVIOUS
    <3>3. LiveFork(x, TRUE) /\ LiveEnd(x)
      <4>1. LiveFork(stack[i], i < Len(stack)) /\ i < Len(stack)
        BY <1>2, <1>13 DEF CallInv, Live
      <4>2. LiveEnd(stack[i])
        BY <1>2, <1>13 DEF CallInv, Live
      <4> QED BY <3>1, <4>1, <4>2 DEF LiveFork
    <3>4. Refers(x) => x.fid \in Slots
      BY <3>1, FrameFacts DEF Refers
    <3>5. forkOf' = forkOf /\ forks' = forks
      BY <1>1
    <3>6. CASE ~Refers(x)
      <4>1. LiveFork(x, b)' /\ LiveEnd(x)'
        BY <3>6 DEF LiveFork, LiveEnd, Refers
      <4> QED BY <3>1, <3>2, <4>1 DEF LiveAt, LiveFork, LiveEnd, Owns
    <3>7. CASE Refers(x) /\ x.fid # f
      <4>1. groups'[x.fid] = groups[x.fid]
        BY <1>14, <3>4, <3>7
      <4>2. LiveFork(x, b)' /\ LiveEnd(x)'
        BY <3>3, <3>5, <4>1 DEF LiveFork, LiveEnd, Owns
      <4> QED BY <3>1, <3>2, <4>2 DEF LiveAt, LiveFork, LiveEnd, Owns
    <3>8. CASE Refers(x) /\ x.fid = f
      <4>1. Compatible(stack[i], stack[m + 1], m + 1 = i + 1)
        <5>1. i \in 1..((m + 1) - 1)
          OBVIOUS
        <5> QED BY <1>2, <1>3, <5>1 DEF CallInv, References
      <4>2. x.k = "close" \/ (x.k = "fork" /\ i = m)
        BY <1>1, <1>3, <1>4, <3>1, <3>8, <4>1 DEF Compatible, Refers
      <4>3. CASE x.k = "close"
        <5>1. LiveFork(x, b)' /\ LiveEnd(x)'
          BY <4>3 DEF LiveFork, LiveEnd
        <5> QED BY <3>1, <3>2, <5>1 DEF LiveAt, LiveFork, LiveEnd, Owns
      <4>4. CASE x.k = "fork" /\ i = m
        <5>1. ~b
          BY <1>9, <3>2, <4>4
        <5>2. Owns(x) = {}
          <6> SUFFICES ASSUME NEW c \in Owns(x) PROVE FALSE
            OBVIOUS
          <6>1. c \in Branch
            BY <1>2, <1>13, <3>1, OwnsBranches
          <6>2. forkOf[c] = groups[f].no
            BY <3>3, <3>8, <4>4 DEF LiveFork
          <6>3. ~Open(c)
            BY <1>2, <1>5, <6>1, <6>2, NoneOpen
          <6> QED BY <1>13, <3>1, <6>3 DEF Open
        <5>3. x.kind # "any"
          BY <1>5, <3>3, <3>8, <4>4 DEF LiveFork
        <5>4. groups'[f].cont = None
          BY <1>7 DEF Retires
        <5>5. LiveFork(x, b)' /\ LiveEnd(x)'
          BY <3>8, <4>4, <5>1, <5>2, <5>3, <5>4 DEF LiveFork, LiveEnd, Owns
        <5> QED BY <3>1, <3>2, <5>5 DEF LiveAt, LiveFork, LiveEnd, Owns
      <4> QED BY <4>2, <4>3, <4>4
    <3> QED BY <3>6, <3>7, <3>8
  <2>2. \A i \in 1..Len(stack') : LiveAt(i)'
    BY <1>9, <2>1
  <2> QED BY <2>2 DEF Live, LiveAt
<1>18. Remembered'
  <2> SUFFICES ASSUME NEW s \in suspended
               PROVE  /\ s.fid # None <=> s.th \in Branch
                      /\ s.fid # None => groups'[s.fid].active /\ groups'[s.fid].no = forkOf'[s.th]
    BY <1>1 DEF Remembered
  <2>1. /\ s.fid # None <=> s.th \in Branch
        /\ s.fid # None => s.fid \in Slots /\ groups[s.fid].active /\ groups[s.fid].no = forkOf[s.th]
    BY <1>2, SuspendedThread DEF CallInv
  <2>2. s.fid # f
    <3> SUFFICES ASSUME s.fid = f PROVE FALSE
      OBVIOUS
    <3>1. f # None /\ Open(s.th)
      BY Basics DEF Open, IsSuspended
    <3>2. ~Open(s.th)
      BY <1>2, <1>5, <2>1, <3>1, NoneOpen
    <3> QED BY <3>1, <3>2
  <2> QED BY <1>1, <1>14, <2>1, <2>2
<1>19. Account'
  <2> SUFFICES ASSUME NEW g \in Slots PROVE AccountOf(g)'
    BY DEF Account
  <2>1. CASE g = f
    <3>1. ~groups'[g].active
      BY <1>7, <2>1 DEF Retires
    <3> QED BY <3>1 DEF AccountOf
  <2>2. CASE g # f
    <3>1. groups'[g] = groups[g] /\ AccountOf(g)
      BY <1>2, <1>14, <2>2 DEF CallInv, Account
    <3>2. PICK n : n = groups[g].no
      OBVIOUS
    <3>3. Unreturned(groups[g].no)' = Unreturned(n)' /\ Of(groups[g].no)' = Of(n)'
      BY <3>1, <3>2 DEF Unreturned, Of
    <3>4. Of(n)' = Of(n)
      BY <1>1 DEF Of
    <3>5. Unreturned(n)' = Unreturned(n)
      <4>1. Unreturned(n)' = {c \in Of(n)' : Open(c)'} /\ Unreturned(n) = {c \in Of(n) : Open(c)}
        BY DEF Unreturned
      <4> QED BY <1>16, <3>4, <4>1
    <3>6. groups'[g].active /\ groups'[g].reclaimable =>
            groups'[g].remaining = Cardinality(Unreturned(groups[g].no))'
      BY <3>1, <3>2, <3>3, <3>5 DEF AccountOf
    <3>7. groups'[g].active /\ ~groups'[g].reclaimable =>
            groups'[g].remaining <= 1
            /\ (groups'[g].remaining > 0 => \A c \in Of(groups[g].no)' : Open(c)')
      BY <1>16, <3>1, <3>2, <3>3, <3>4 DEF AccountOf
    <3> QED BY <3>6, <3>7 DEF AccountOf
  <2> QED BY <2>1, <2>2
<1>20. OnePlace' /\ Unstarted'
  <2>1. \A t, k, z : RestPlace(t, k, z)' => RestPlace(t, k, z)
    BY <1>1 DEF RestPlace, Unborn
  <2>2. \A t : Stays(t)
    BY <1>2, <1>9, <2>1, NobodyMoves
  <2> QED BY <1>2, <1>11, <2>2, PlaceStep
<1> QED BY <1>8, <1>10, <1>15, <1>16, <1>17, <1>18, <1>19, <1>20 DEF IInv, CallInv

\* A fork, with what Opens says of its group.
LEMMA ForkKeeps ==
  ASSUME IInv, NEW kind \in Kinds, Fork(kind)
  PROVE  IInv'
<1>0. PICK born \in SUBSET Unborn :
        /\ Cardinality(born) = Width
        /\ Executes("fork")
        /\ groups' = [groups EXCEPT ![NextSlot] =
             [active |-> TRUE, remaining |-> IF kind = "any" THEN 1 ELSE Width, fired |-> FALSE,
              reclaimable |-> Reclaimable(kind), spawner |-> name, disabled |-> FALSE,
              cont |-> IF kind = "all" THEN None ELSE Top.th, no |-> Len(forks) + 1]]
        /\ used' = IF fork_free # <<>> THEN used ELSE used + 1
        /\ fork_free' = IF fork_free # <<>> THEN SubSeq(fork_free, 1, Len(fork_free) - 1) ELSE fork_free
        /\ forkOf' = [c \in Thread |-> IF c \in born THEN Len(forks) + 1 ELSE forkOf[c]]
        /\ forks' = Append(forks, [parent |-> Top.th, kind |-> kind])
        /\ blocked' = [blocked EXCEPT ![Top.th] = IF kind = "all" THEN 0 ELSE Len(forks) + 1]
        /\ stack' = Below \o <<Frame("true", None),
             [k |-> "fork", fid |-> NextSlot, kind |-> kind, parent |-> Top.th, todo |-> born,
              cur |-> None, any |-> FALSE]>>
        /\ UNCHANGED <<design, ret, name, suspended, waits, wait_forks, ended, doomed>>
  BY DEF Fork
<1>1. /\ design' = design /\ ret' = ret /\ name' = name /\ suspended' = suspended
      /\ waits' = waits /\ wait_forks' = wait_forks /\ ended' = ended /\ doomed' = doomed
  BY <1>0
<1>2. Typed /\ SlotInv /\ CallInv /\ OnePlace /\ Unstarted
  BY DEF IInv
<1>a. Executes("fork") /\ Cardinality(born) = Width
  BY <1>0
<1>3. PICK u \in Thread : u = Top.th
  BY <1>2, <1>a, ExecuteFacts
<1>4. /\ stack # <<>> /\ Top.k = "run" /\ left' \in [Thread -> Nat]
      /\ \A t \in Thread : left'[t] \in Nat /\ left'[t] <= left[t]
      /\ left'[u] < Initial(u)
  BY <1>2, <1>3, <1>a, ExecuteFacts
<1>5. PICK m \in Nat :
        /\ Len(stack) = m + 1 /\ Top = stack[m + 1] /\ Top \in Frames /\ m + 1 \in 1..Len(stack)
        /\ Below \in Seq(Frames) /\ Len(Below) = m /\ \A i \in 1..m : Below[i] = stack[i]
  BY <1>2, <1>4, TopFrame
<1>6. PICK f \in Slots : f = NextSlot /\ ~groups[f].active
  BY <1>2, <1>a, SlotLeft
<1>7. PICK no \in Nat : no = Len(forks) + 1
  BY <1>2 DEF Typed
<1>8. Opens(f, kind, u, born)
  BY <1>0, <1>2, <1>3, <1>6, ForkFields
<1>9. Holds(u, "run", m + 1, 0) /\ blocked[u] = 0 /\ u \notin born
  <2>1. Holds(u, "run", m + 1, 0)
    BY <1>3, <1>4, <1>5 DEF Holds, FramePlace
  <2>2. ~Holds(u, "blocked", 0, 0) /\ ~Holds(u, "unborn", 0, 0)
    BY <1>2, <2>1 DEF OnePlace
  <2> QED BY <2>1, <2>2 DEF Holds, RestPlace
<1>10. SlotInv'
  <2>1. Opens(NextSlot, kind, u, born)
    BY <1>6, <1>8
  <2> QED BY <1>0, <1>2, <1>4, <1>9, <2>1, ForkSlots
<1>11. /\ \A g \in Slots : g # f => groups'[g] = groups[g]
       /\ groups'[f].active /\ groups'[f].no = no
       /\ groups'[f].remaining = IF kind = "any" THEN 1 ELSE Width
       /\ groups'[f].reclaimable <=> kind # "any"
       /\ groups'[f].cont = IF kind = "all" THEN None ELSE u
       /\ groups' \in [Slots -> Group]
  BY <1>7, <1>8 DEF Opens
<1>12. /\ Len(forks) \in Nat /\ Len(forks') = no
       /\ forks'[no].parent = u /\ forks'[no].kind = kind
       /\ \A n \in 1..Len(forks) : forks'[n] = forks[n]
       /\ forks' \in Seq([parent : Thread, kind : Kinds])
  <2>1. PICK new : new = [parent |-> u, kind |-> kind]
    OBVIOUS
  <2>2. new \in [parent : Thread, kind : Kinds] /\ new.parent = u /\ new.kind = kind
    BY <2>1
  <2>3. forks' = Append(forks, new)
    BY <1>8, <2>1 DEF Opens
  <2>4. forks \in Seq([parent : Thread, kind : Kinds])
    BY <1>2 DEF Typed
  <2> QED BY <1>7, <2>2, <2>3, <2>4
<1>13. \A c \in Thread : forkOf'[c] = IF c \in born THEN no ELSE forkOf[c]
  BY <1>7, <1>8 DEF Opens
<1>14. born \subseteq Branch /\ Branch \subseteq Thread /\ \A c \in born : forkOf[c] = 0
  BY Basics DEF Unborn, Branch
<1>15. blocked \in [Thread -> Nat] /\
       blocked' = [blocked EXCEPT ![u] = IF kind = "all" THEN 0 ELSE no]
  BY <1>2, <1>7, <1>8 DEF Opens, Typed
<1>16. PICK x \in Frames : x = Frame("true", None)
  BY FrameTypes
<1>17. PICK y : y = [k |-> "fork", fid |-> f, kind |-> kind, parent |-> u, todo |-> born,
                     cur |-> None, any |-> FALSE]
  OBVIOUS
<1>18. /\ y \in Frames /\ y.k = "fork" /\ y.fid = f /\ y.kind = kind /\ y.parent = u /\ y.todo = born
       /\ y.cur = None /\ y.any = FALSE
  <2>1. y \in ForkFrame
    BY <1>14, <1>17 DEF ForkFrame
  <2> QED BY <1>17, <2>1 DEF Frames
<1>19. x.k = "true" /\ Owns(x) = {} /\ ~Busy(x) /\ ~Refers(x)
  BY <1>16 DEF Frame, Owns, Busy, Refers
<1>20. Owns(y) = born /\ ~Busy(y) /\ Refers(y)
  BY <1>18 DEF Owns, Busy, Refers
<1>21. /\ stack' \in Seq(Frames) /\ Keeps(m) /\ Len(stack') = m + 2
       /\ stack'[m + 1] = x /\ stack'[m + 2] = y
       /\ (m + 1)..Len(stack') = {m + 1, m + 2}
  <2>1. stack' = Below \o <<x, y>>
    BY <1>0, <1>3, <1>6, <1>16, <1>17
  <2> QED BY <1>2, <1>5, <1>18, <2>1, PushStack2
<1>22. Typed'
  <2>1. used' \in Nat
    BY <1>0, <1>2 DEF Typed
  <2>2. fork_free' \in Seq(Slots)
    <3>1. fork_free \in Seq(Slots)
      BY <1>2 DEF Typed
    <3>2. CASE fork_free = <<>>
      BY <1>0, <3>1, <3>2
    <3>3. CASE fork_free # <<>>
      BY <1>0, <3>1, <3>3, TopFacts
    <3> QED BY <3>2, <3>3
  <2>3. forkOf' \in [Thread -> Nat] /\ blocked' \in [Thread -> Nat]
    <3>1. forkOf' = [c \in Thread |-> IF c \in born THEN no ELSE forkOf[c]]
      BY <1>7, <1>8 DEF Opens
    <3>2. forkOf \in [Thread -> Nat]
      BY <1>2 DEF Typed
    <3> QED BY <1>15, <3>1, <3>2
  <2> QED BY <1>1, <1>2, <1>4, <1>11, <1>12, <1>21, <2>1, <2>2, <2>3 DEF Typed
<1>23. \A i \in 1..m : stack'[i] = stack[i] /\ i \in 1..Len(stack) /\ i < Len(stack)
  BY <1>5, <1>21 DEF Keeps
<1>24. \A c \in Branch : Open(c) => forkOf[c] \in 1..Len(forks) /\ c \notin born
  BY <1>2, OpenBorn
<1>25. ASSUME NEW i \in 1..m, Refers(stack[i]), stack[i].fid = f PROVE stack[i].k = "close"
  <2>1. LiveFork(stack[i], i < Len(stack)) /\ i < Len(stack) /\ LiveEnd(stack[i])
    BY <1>2, <1>23 DEF CallInv, Live
  <2> QED BY <1>6, <1>25, <2>1 DEF LiveFork, LiveEnd, Refers
<1>26. \A i \in 1..Len(stack') : ShapeAt(i)'
  <2>1. ShapeAt(m + 1)' /\ ShapeAt(m + 2)'
    BY <1>18, <1>19, <1>20, <1>21 DEF ShapeAt, Busy
  <2>2. \A i \in (m + 1)..Len(stack') : ShapeAt(i)'
    <3> SUFFICES ASSUME NEW i \in (m + 1)..Len(stack') PROVE ShapeAt(i)'
      OBVIOUS
    <3>1. i = m + 1 \/ i = m + 2
      BY <1>21
    <3> QED BY <2>1, <3>1
  <2>3. stack'[m + 1].k = "true"
    BY <1>19, <1>21
  <2> QED BY <1>2, <1>4, <1>21, <2>2, <2>3, ShapeStep DEF CallInv
<1>27. References'
  <2>1. ASSUME NEW i \in (m + 1)..Len(stack')
        PROVE  /\ \A j \in (m + 1)..(i - 1) : Compatible(stack'[j], stack'[i], i = j + 1)
               /\ \A j \in 1..m : Compatible(stack[j], stack'[i], i = j + 1)
    <3>1. CASE i = m + 1
      <4>1. ~Refers(stack'[i])
        BY <1>19, <1>21, <3>1
      <4> QED BY <4>1 DEF Compatible
    <3>2. CASE i = m + 2
      <4>1. \A j \in (m + 1)..(i - 1) : j = m + 1
        BY <3>2
      <4>2. \A j \in 1..m : Compatible(stack[j], stack'[i], i = j + 1)
        BY <1>18, <1>21, <1>25, <3>2 DEF Compatible
      <4> QED BY <1>19, <1>21, <4>1, <4>2 DEF Compatible
    <3> QED BY <1>21, <3>1, <3>2
  <2> QED BY <1>2, <1>21, <2>1, ReferStep DEF CallInv
<1>28. Live'
  <2>1. ASSUME NEW i \in 1..m PROVE LiveAt(i)'
    <3>1. PICK w \in Frames : w = stack[i] /\ w = stack'[i]
      BY <1>2, <1>23 DEF Typed
    <3>2. PICK b \in BOOLEAN : b <=> i < Len(stack')
      OBVIOUS
    <3>3. LiveFork(w, TRUE) /\ LiveEnd(w)
      <4>1. LiveFork(stack[i], i < Len(stack)) /\ i < Len(stack)
        BY <1>2, <1>23 DEF CallInv, Live
      <4>2. LiveEnd(stack[i])
        BY <1>2, <1>23 DEF CallInv, Live
      <4> QED BY <3>1, <4>1, <4>2 DEF LiveFork
    <3>4. Refers(w) => w.fid \in Slots
      BY <3>1, FrameFacts DEF Refers
    <3>5. Refers(w) /\ w.fid = f => w.k = "close"
      BY <1>25, <3>1
    <3>6. CASE ~Refers(w) \/ w.k = "close"
      <4>1. LiveFork(w, b)' /\ LiveEnd(w)'
        BY <3>6 DEF LiveFork, LiveEnd, Refers
      <4> QED BY <3>1, <3>2, <4>1 DEF LiveAt, LiveFork, LiveEnd, Owns
    <3>7. CASE Refers(w) /\ w.fid # f
      <4>1. groups'[w.fid] = groups[w.fid]
        BY <1>11, <3>4, <3>7
      <4>2. \A c \in Owns(w) : forkOf'[c] = forkOf[c] /\ forks'[forkOf[c]] = forks[forkOf[c]]
        <5> SUFFICES ASSUME NEW c \in Owns(w)
                     PROVE  forkOf'[c] = forkOf[c] /\ forks'[forkOf[c]] = forks[forkOf[c]]
          OBVIOUS
        <5>1. c \in Branch /\ Open(c)
          BY <1>2, <1>23, <3>1, OwnsBranches DEF Open
        <5> QED BY <1>12, <1>13, <1>14, <1>24, <5>1
      <4>3. LiveFork(w, b)'
        BY <3>3, <4>1, <4>2 DEF LiveFork, Owns
      <4>4. w.k = "branch" => w.cur \in Owns(w)
        BY DEF Owns
      <4>5. LiveEnd(w)'
        BY <3>3, <4>1, <4>2, <4>4 DEF LiveEnd
      <4> QED BY <3>1, <3>2, <4>3, <4>5 DEF LiveAt, LiveFork, LiveEnd, Owns
    <3> QED BY <3>5, <3>6, <3>7
  <2>2. LiveAt(m + 1)'
    BY <1>19, <1>21 DEF LiveAt, LiveFork, LiveEnd
  <2>3. LiveAt(m + 2)'
    <3>1. PICK b \in BOOLEAN : b <=> m + 2 < Len(stack')
      OBVIOUS
    <3>2. \A c \in Owns(y) : /\ forkOf'[c] = groups'[f].no
                             /\ forks'[forkOf'[c]].parent = u /\ forks'[forkOf'[c]].kind = kind
      BY <1>11, <1>12, <1>13, <1>14, <1>20
    <3>3. LiveFork(y, b)' /\ LiveEnd(y)'
      BY <1>11, <1>18, <3>2 DEF LiveFork, LiveEnd, Owns
    <3> QED BY <1>21, <3>1, <3>3 DEF LiveAt, LiveFork, LiveEnd, Owns
  <2>4. \A i \in 1..Len(stack') : LiveAt(i)'
    <3> SUFFICES ASSUME NEW i \in 1..Len(stack') PROVE LiveAt(i)'
      OBVIOUS
    <3>1. i \in 1..m \/ i = m + 1 \/ i = m + 2
      BY <1>21
    <3> QED BY <2>1, <2>2, <2>3, <3>1
  <2> QED BY <2>4 DEF Live, LiveAt
<1>29. ASSUME NEW i \in 1..Len(stack') PROVE i \in 1..m \/ i = m + 1 \/ i = m + 2
  BY <1>21
<1>30. \A d : IsSuspended(d)' <=> IsSuspended(d)
  BY <1>1 DEF IsSuspended
<1>31. \A d \in born : ~IsSuspended(d)
  <2> SUFFICES ASSUME NEW d \in born, IsSuspended(d) PROVE FALSE
    OBVIOUS
  <2>1. Open(d) /\ d \in Branch
    BY <1>14 DEF Open
  <2> QED BY <1>24, <2>1
<1>32. Owned'
  <2>1. ASSUME NEW i \in 1..m, NEW c \in Owns(stack[i]) PROVE c \notin born
    <3>1. c \in Branch /\ Open(c)
      BY <1>2, <1>23, OwnsBranches DEF Open
    <3> QED BY <1>24, <3>1
  <2>2. \A i \in 1..m : OwnedAt(i)
    BY <1>2, <1>23 DEF CallInv, Owned
  <2>3. ASSUME NEW i \in 1..Len(stack') PROVE OwnedAt(i)'
    <3>1. ASSUME NEW j \in 1..Len(stack'), i # j PROVE Owns(stack'[i]) \cap Owns(stack'[j]) = {}
      <4>1. CASE i = m + 1 \/ j = m + 1
        BY <1>19, <1>21, <4>1
      <4>2. CASE i \in 1..m /\ j \in 1..m
        BY <1>23, <2>2, <3>1, <4>2 DEF OwnedAt
      <4>3. CASE (i \in 1..m /\ j = m + 2) \/ (i = m + 2 /\ j \in 1..m)
        BY <1>20, <1>21, <1>23, <2>1, <4>3
      <4> QED BY <1>29, <3>1, <4>1, <4>2, <4>3
    <3>2. stack'[i].k = "fork" => stack'[i].cur \notin stack'[i].todo
      <4>1. CASE i \in 1..m
        BY <1>23, <2>2, <4>1 DEF OwnedAt
      <4>2. y.cur \notin y.todo /\ x.k # "fork"
        BY <1>14, <1>18, <1>19, Basics
      <4> QED BY <1>21, <1>29, <4>1, <4>2
    <3>3. ASSUME NEW c \in Owns(stack'[i]), IsSuspended(c) PROVE FALSE
      <4>1. CASE i \in 1..m
        BY <1>23, <2>2, <3>3, <4>1 DEF OwnedAt
      <4> QED BY <1>19, <1>20, <1>21, <1>29, <1>31, <3>3, <4>1
    <3>4. ~(Busy(stack'[i]) /\ i = Len(stack'))
      <4>1. m + 2 = Len(stack') /\ \A j \in 1..m : j # m + 2
        BY <1>21
      <4> QED BY <1>19, <1>20, <1>21, <1>29, <4>1
    <3> QED BY <1>30, <3>1, <3>2, <3>3, <3>4 DEF OwnedAt, Owns, Busy, IsSuspended
  <2> QED BY <2>3 DEF Owned
<1>33. ASSUME NEW d PROVE Open(d)' <=> Open(d) \/ d \in born
  <2>1. Open(d)' <=> IsSuspended(d)' \/ \E i \in 1..Len(stack') : d \in Owns(stack'[i])
    BY DEF Open, Owns
  <2>2. (\E i \in 1..Len(stack') : d \in Owns(stack'[i])) <=> d \in born \/ \E i \in 1..m : d \in Owns(stack[i])
    <3>1. m + 2 \in 1..Len(stack') /\ \A i \in 1..m : i \in 1..Len(stack')
      BY <1>21
    <3> QED BY <1>19, <1>20, <1>21, <1>23, <1>29, <3>1
  <2>3. (\E i \in 1..Len(stack) : d \in Owns(stack[i])) <=> \E i \in 1..m : d \in Owns(stack[i])
    <3>1. \A i \in 1..Len(stack) : i \in 1..m \/ i = m + 1
      BY <1>5
    <3>2. Owns(stack[m + 1]) = {}
      BY <1>4, <1>5, InertFacts DEF Inert
    <3> QED BY <1>23, <3>1, <3>2
  <2> QED BY <1>30, <2>1, <2>2, <2>3 DEF Open
<1>34. Account'
  <2> SUFFICES ASSUME NEW g \in Slots, groups'[g].active PROVE AccountOf(g)'
    BY DEF Account, AccountOf
  <2>1. CASE g = f
    <3>1. Of(no)' = born
      <4>1. Of(no)' = {c \in Branch : forkOf'[c] = no}
        BY DEF Of, Branch
      <4>2. ASSUME NEW c \in Branch PROVE forkOf'[c] = no <=> c \in born
        <5>1. forkOf[c] \in Nat /\ forkOf[c] <= Len(forks) /\ c \in Thread
          BY <1>2, <1>14 DEF SlotInv, Counts, Typed
        <5> QED BY <1>7, <1>12, <1>13, <5>1
      <4> QED BY <1>14, <4>1, <4>2
    <3>2. Unreturned(no)' = born
      <4>1. Unreturned(no)' = {c \in Of(no)' : Open(c)'}
        BY DEF Unreturned
      <4> QED BY <1>33, <3>1, <4>1
    <3>3. Unreturned(groups[g].no)' = born /\ Of(groups[g].no)' = born
      BY <1>11, <2>1, <3>1, <3>2 DEF Unreturned, Of
    <3>4. groups'[g].reclaimable => groups'[g].remaining = Cardinality(Unreturned(groups[g].no))'
      BY <1>11, <1>a, <2>1, <3>3
    <3>5. ~groups'[g].reclaimable =>
            groups'[g].remaining <= 1 /\ \A c \in Of(groups[g].no)' : Open(c)'
      BY <1>11, <1>33, <2>1, <3>3
    <3> QED BY <3>4, <3>5 DEF AccountOf
  <2>2. CASE g # f
    <3>1. groups'[g] = groups[g] /\ AccountOf(g) /\ Identified(g)
      BY <1>2, <1>11, <2>2 DEF CallInv, Account, SlotInv, GroupInv
    <3>2. PICK n : n = groups[g].no
      OBVIOUS
    <3>3. n \in 1..Len(forks) /\ n # no /\ n # 0
      BY <1>7, <1>12, <2>2, <3>1, <3>2 DEF Identified
    <3>4. Unreturned(groups[g].no)' = Unreturned(n)' /\ Of(groups[g].no)' = Of(n)'
      BY <3>1, <3>2 DEF Unreturned, Of
    <3>5. Of(n)' = Of(n) /\ \A c \in Of(n) : c \notin born
      <4>1. Of(n)' = {c \in Branch : forkOf'[c] = n} /\ Of(n) = {c \in Branch : forkOf[c] = n}
        BY DEF Of, Branch
      <4> QED BY <1>13, <1>14, <3>3, <4>1
    <3>6. Unreturned(n)' = Unreturned(n)
      <4>1. Unreturned(n)' = {c \in Of(n)' : Open(c)'} /\ Unreturned(n) = {c \in Of(n) : Open(c)}
        BY DEF Unreturned
      <4> QED BY <1>33, <3>5, <4>1
    <3>7. groups'[g].active /\ groups'[g].reclaimable =>
            groups'[g].remaining = Cardinality(Unreturned(groups[g].no))'
      BY <3>1, <3>2, <3>4, <3>6 DEF AccountOf
    <3>8. groups'[g].active /\ ~groups'[g].reclaimable =>
            groups'[g].remaining <= 1
            /\ (groups'[g].remaining > 0 => \A c \in Of(groups[g].no)' : Open(c)')
      BY <1>33, <3>1, <3>2, <3>4, <3>5 DEF AccountOf
    <3> QED BY <3>7, <3>8 DEF AccountOf
  <2> QED BY <2>1, <2>2
<1>35. Remembered'
  <2> SUFFICES ASSUME NEW s \in suspended
               PROVE  /\ s.fid # None <=> s.th \in Branch
                      /\ s.fid # None => groups'[s.fid].active /\ groups'[s.fid].no = forkOf'[s.th]
    BY <1>1 DEF Remembered
  <2>1. /\ s.fid # None <=> s.th \in Branch
        /\ s.fid # None => s.fid \in Slots /\ groups[s.fid].active /\ groups[s.fid].no = forkOf[s.th]
    BY <1>2, SuspendedThread DEF CallInv
  <2>2. s.th \notin born
    BY <1>31 DEF IsSuspended
  <2>3. s.fid # None => s.th \in Thread /\ s.fid # f
    BY <1>6, <1>14, <2>1
  <2> QED BY <1>11, <1>13, <2>1, <2>2, <2>3
<1>36. OnePlace' /\ Unstarted'
  <2>0. PICK I \in Nat : I = m + 2
    OBVIOUS
  <2>1. ASSUME NEW t \in Thread, NEW k, NEW i, NEW z, Holds(t, k, i, z)'
        PROVE  \/ Holds(t, k, i, z)
               \/ (t \in born /\ k = "todo" /\ i = I /\ z = 0)
               \/ (t = u /\ k = "blocked" /\ kind # "all" /\ i = 0 /\ z = 0)
               \/ (t = u /\ k = "parent" /\ kind = "all" /\ i = I /\ z = 0)
    <3>1. (i \in 1..Len(stack') /\ FramePlace(stack'[i], t, k, z)) \/ (i = 0 /\ RestPlace(t, k, z)')
      BY <2>1 DEF Holds, FramePlace
    <3>2. CASE i = 0 /\ RestPlace(t, k, z)'
      <4>1. blocked'[t] # 0 => (t = u /\ kind # "all") \/ blocked[t] # 0
        BY <1>15
      <4>2. t \in Unborn' => t \in Unborn
        <5>1. t \in Branch /\ forkOf'[t] = 0 => forkOf[t] = 0
          BY <1>7, <1>12, <1>13
        <5> QED BY <5>1 DEF Unborn, Branch
      <4>3. \/ k = "suspended" /\ z \in suspended /\ z.th = t
            \/ k = "waiting" /\ z \in wait_forks /\ z.th = t
            \/ k = "pending" /\ t \in waits /\ z = 0
            \/ k = "ended" /\ t \in ended /\ z = 0
            \/ k = "blocked" /\ blocked'[t] # 0 /\ z = 0
            \/ k = "unborn" /\ t \in Unborn' /\ z = 0
        BY <1>1, <3>2 DEF RestPlace
      <4> QED BY <3>2, <4>1, <4>2, <4>3 DEF Holds, RestPlace
    <3>3. CASE i \in 1..m /\ FramePlace(stack'[i], t, k, z)
      BY <1>23, <3>3 DEF Holds
    <3>4. CASE i = m + 1 /\ FramePlace(stack'[i], t, k, z)
      BY <1>19, <1>21, <3>4 DEF FramePlace
    <3>5. CASE i = m + 2 /\ FramePlace(stack'[i], t, k, z)
      <4>1. FramePlace(y, t, k, z) /\ i = I
        BY <1>21, <2>0, <3>5
      <4> QED BY <1>18, <4>1 DEF FramePlace
    <3> QED BY <1>29, <3>1, <3>2, <3>3, <3>4, <3>5
  <2>2. ASSUME NEW t \in Thread
        PROVE  \/ Stays(t)
               \/ \E K, J, X : Moves(t, K, J, X) /\ (K \in Unexecuted \/ left'[t] < Initial(t))
    <3>1. CASE t \in born
      <4>1. Holds(t, "unborn", 0, 0) /\ t # u
        BY <1>9, <3>1 DEF Holds, RestPlace
      <4>2. ~Holds(t, "unborn", 0, 0)'
        <5>1. forkOf'[t] # 0 /\ ~(0 \in 1..Len(stack'))
          BY <1>7, <1>12, <1>13, <1>21, <3>1
        <5> QED BY <5>1 DEF Holds, RestPlace, Unborn
      <4>3. ASSUME NEW k, NEW i, NEW z, Holds(t, k, i, z)' PROVE k = "todo" /\ i = I /\ z = 0
        <5>1. ~Holds(t, k, i, z)
          BY <1>2, <4>1, <4>2, <4>3 DEF OnePlace
        <5> QED BY <2>1, <4>1, <4>3, <5>1
      <4>4. Moves(t, "todo", I, 0) /\ "todo" \in Unexecuted
        BY <4>3 DEF Moves, Unexecuted
      <4> QED BY <4>4
    <3>2. CASE t = u
      <4>1. ~Holds(u, "run", m + 1, 0)'
        BY <1>19, <1>21 DEF Holds, FramePlace
      <4>2. \E J : Moves(t, IF kind = "all" THEN "parent" ELSE "blocked", J, 0)
        <5>1. ASSUME NEW k, NEW i, NEW z, Holds(t, k, i, z)'
              PROVE  \/ (k = "blocked" /\ kind # "all" /\ i = 0 /\ z = 0)
                     \/ (k = "parent" /\ kind = "all" /\ i = I /\ z = 0)
          <6>1. ~Holds(t, k, i, z)
            BY <1>2, <1>9, <3>2, <4>1, <5>1 DEF OnePlace
          <6> QED BY <1>9, <2>1, <3>2, <5>1, <6>1
        <5>2. CASE kind = "all"
          BY <5>1, <5>2 DEF Moves
        <5>3. CASE kind # "all"
          BY <5>1, <5>3 DEF Moves
        <5> QED BY <5>2, <5>3
      <4> QED BY <1>4, <3>2, <4>2
    <3>3. CASE t \notin born /\ t # u
      BY <2>1, <3>3 DEF Stays
    <3> QED BY <3>1, <3>2, <3>3
  <2> QED BY <1>2, <1>4, <2>2, PlaceStep
<1> QED BY <1>10, <1>22, <1>26, <1>27, <1>28, <1>32, <1>34, <1>35, <1>36 DEF IInv, CallInv
-----------------------------------------------------------------------------
(* The invariant holds initially, and every step keeps it.                   *)

LEMMA InitHolds == Init => IInv
<1> SUFFICES ASSUME Init PROVE IInv
  OBVIOUS
<1>0. PICK dead :
        dead = [active |-> FALSE, remaining |-> 0, fired |-> FALSE, reclaimable |-> FALSE,
                spawner |-> None, disabled |-> FALSE, cont |-> None, no |-> 0]
  OBVIOUS
<1>a. dead \in Group
  BY <1>0, Basics DEF Group
<1>1. /\ design \in Designs /\ groups = [f \in Slots |-> dead]
      /\ used = 0 /\ fork_free = <<>> /\ stack = <<>> /\ ret = TRUE /\ name = None
      /\ suspended = {} /\ waits = {} /\ wait_forks = {}
      /\ left = [t \in Thread |-> IF t \in Processes THEN Length ELSE 1]
      /\ forkOf = [t \in Thread |-> 0] /\ forks = <<>>
      /\ blocked = [t \in Thread |-> 0] /\ ended = {} /\ doomed = {}
  BY <1>0 DEF Init
<1>2. Len(stack) = 0 /\ Len(forks) = 0 /\ Len(fork_free) = 0 /\ 1..0 = {}
  BY <1>1
<1>3. \A f \in Slots : groups[f] = dead
  BY <1>1
<1>4. ~dead.active /\ dead.cont = None
  BY <1>0
<1>5. \A t \in Thread : blocked[t] = 0 /\ forkOf[t] = 0
  BY <1>1
<1>6. Typed
  <2>1. left \in [Thread -> Nat] /\ forkOf \in [Thread -> Nat] /\ blocked \in [Thread -> Nat]
    BY <1>1, Basics
  <2>2. groups \in [Slots -> Group]
    BY <1>a, <1>1
  <2>3. stack \in Seq(Frames) /\ fork_free \in Seq(Slots)
        /\ forks \in Seq([parent : Thread, kind : Kinds])
    BY <1>1
  <2> QED BY <1>1, <2>1, <2>2, <2>3 DEF Typed
<1>7. Counts
  <2>1. Unborn = Branch
    BY <1>5, Basics DEF Unborn, Branch
  <2>2. Width * Len(forks) = 0 /\ Cardinality(Unborn) = Branches /\ Branches + 0 = Branches
    BY <1>2, <2>1, Basics
  <2>3. \A t \in Processes : left[t] = Length
    BY <1>1, Basics
  <2>4. \A c \in Branch : left[c] = 1
    BY <1>1, Basics
  <2> QED BY <1>1, <1>2, <1>5, <2>2, <2>3, <2>4, Basics DEF Counts
<1>8. Pool /\ GroupInv
  BY <1>2, <1>3, <1>4, <1>5 DEF Pool, GroupInv, Identified, Continues, Blocking
<1>9. CallInv
  BY <1>1, <1>2, <1>3, <1>4 DEF CallInv, References, Live, Owned, Remembered, Account, AccountOf
<1>10. ASSUME NEW t \in Thread, NEW k, NEW i, NEW x, Holds(t, k, i, x)
       PROVE  k = "unborn" /\ i = 0 /\ x = 0
  BY <1>1, <1>2, <1>5, <1>10 DEF Holds, RestPlace
<1>11. OnePlace /\ Unstarted
  BY <1>10 DEF OnePlace, Unstarted, Unexecuted
<1> QED BY <1>6, <1>7, <1>8, <1>9, <1>11 DEF IInv, SlotInv

LEMMA StutterKeeps == IInv /\ UNCHANGED vars => IInv'
<1> SUFFICES ASSUME IInv, UNCHANGED vars PROVE IInv'
  OBVIOUS
<1>1. /\ design' = design /\ groups' = groups /\ used' = used /\ fork_free' = fork_free
      /\ stack' = stack /\ ret' = ret /\ name' = name /\ suspended' = suspended /\ waits' = waits
      /\ wait_forks' = wait_forks /\ left' = left /\ forkOf' = forkOf /\ forks' = forks
      /\ blocked' = blocked /\ ended' = ended /\ doomed' = doomed
  BY DEF vars
<1>2. Typed'
  BY <1>1 DEF IInv, Typed
<1>3. SlotInv'
  <2>1. Counts'
    BY <1>1 DEF IInv, SlotInv, Counts, Unborn
  <2>2. Pool' /\ GroupInv'
    BY <1>1 DEF IInv, SlotInv, Pool, GroupInv, Identified, Continues, Blocking
  <2> QED BY <2>1, <2>2 DEF SlotInv
<1>4. CallInv'
  <2>1. (\A i \in 1..Len(stack) : ShapeAt(i))'
    BY <1>1 DEF IInv, CallInv, ShapeAt
  <2>2. References' /\ Remembered'
    BY <1>1 DEF IInv, CallInv, References, Remembered
  <2>3. Live'
    BY <1>1 DEF IInv, CallInv, Live, LiveFork, LiveEnd
  <2>4. Owned'
    BY <1>1 DEF IInv, CallInv, Owned, OwnedAt, IsSuspended
  <2>5. Account'
    BY <1>1 DEF IInv, CallInv, Account, AccountOf, Unreturned, Of, Open, IsSuspended
  <2> QED BY <2>1, <2>2, <2>3, <2>4, <2>5 DEF CallInv
<1>5. OnePlace' /\ Unstarted'
  BY <1>1 DEF IInv, OnePlace, Unstarted, Holds, RestPlace, Unborn
<1> QED BY <1>2, <1>3, <1>4, <1>5 DEF IInv

LEMMA NextKeeps == IInv /\ [Next]_vars => IInv'
<1> SUFFICES ASSUME IInv, [Next]_vars PROVE IInv'
  OBVIOUS
<1>1. CASE Statement
  BY <1>1, EndKeeps, WaitKeeps, WaitForkKeeps, DisableForkKeeps, SuspendKeeps, ForkKeeps DEF Statement
<1>2. CASE Return
  <2>1. CASE Joined
    BY <2>1, JoinedKeeps, JoinedAllKeeps
  <2> QED BY <1>2, <2>1, ReturnTrueKeeps, BranchResumedKeeps, StartBranchKeeps, BranchEndKeeps,
             CloseKeeps, FinishedKeeps, ResumeWaitForkKeeps, RetireKeeps DEF Return
<1>3. CASE \E p \in Processes : StartProcess(p)
  BY <1>3, StartProcessKeeps
<1>4. CASE \E s \in suspended : ResumeDelay(s) \/ ResumeAt(s)
  BY <1>4, ResumeDelayKeeps, ResumeAtKeeps
<1>5. CASE \E t \in waits : ResumeWait(t)
  BY <1>5, ResumeWaitKeeps
<1>6. CASE Idle \/ UNCHANGED vars
  BY <1>6, StutterKeeps DEF Idle
<1> QED BY <1>1, <1>2, <1>3, <1>4, <1>5, <1>6 DEF Next

\* The bookkeeping is never out of step with the calls in progress: types, counters,
\* slots, frames and places, whatever the processes and the branches do.
THEOREM Invariance == Spec => []IInv
BY InitHolds, NextKeeps, PTL DEF Spec
-----------------------------------------------------------------------------
(* What the invariant says to a reader of the code.                          *)

LEMMA InvariantTypes == IInv => TypeOK
<1> SUFFICES ASSUME IInv PROVE TypeOK
  OBVIOUS
<1>1. Typed /\ Counts /\ Pool
  BY DEF IInv, SlotInv
<1>2. Len(forks) <= Cardinality(Slots)
  <2> DEFINE l == Len(forks)
             u == Cardinality(Unborn)
             q == Branches \div Width
  <2>1. l \in Nat /\ q \in Nat /\ Branches \in Nat /\ Width \in Nat /\ Width > 0
    <3>1. Len(forks) \in Nat
      BY <1>1 DEF Typed
    <3>2. Branches \div Width \in Nat
      BY Basics
    <3> QED BY <3>1, <3>2, Basics
  <2>2. u \in Nat
    <3>1. Unborn \subseteq Branch
      BY DEF Unborn, Branch
    <3> QED BY <3>1, Basics, FS_Subset, FS_CardinalityType
  <2>3. u + Width * l = Branches
    BY <1>1 DEF Counts
  <2>4. Width * l <= Branches
    <3>1. Width * l \in Nat
      BY <2>1
    <3> HIDE DEF l, u
    <3> QED BY <2>1, <2>2, <2>3, <3>1
  <2>5. l <= q
    BY <2>1, <2>4, Quotient
  <2>6. Cardinality(Slots) = q
    <3>1. Slots = 1..q
      BY DEF Slots
    <3> HIDE DEF q
    <3>2. 1 \in Int /\ q \in Int
      BY <2>1
    <3>3. Cardinality(1..q) = IF 1 > q THEN 0 ELSE q - 1 + 1
      BY <3>2, FS_Interval
    <3> QED BY <2>1, <3>1, <3>3
  <2> QED BY <2>5, <2>6
<1>3. used \in 0..Cardinality(Slots)
  <2>1. Cardinality(Slots) \in Nat
    <3>1. Branches \div Width \in Int /\ Slots = 1..(Branches \div Width)
      BY Basics DEF Slots
    <3> QED BY <3>1, FS_Interval, FS_CardinalityType
  <2>2. used \in Nat /\ Len(forks) \in Nat /\ used <= Len(forks)
    BY <1>1 DEF Typed, Counts
  <2> QED BY <1>2, <2>1, <2>2
<1>4. \A i \in DOMAIN fork_free : fork_free[i] \in 1..used /\ ~groups[fork_free[i]].active
  <2> TAKE i \in DOMAIN fork_free
  <2>1. i \in 1..Len(fork_free) /\ fork_free[i] \in Slots /\ used \in Nat
    BY <1>1 DEF Typed
  <2>2. fork_free[i] <= used
    BY <1>1, <2>1 DEF Pool
  <2>3. ~groups[fork_free[i]].active
    BY <1>1, <2>1 DEF Pool
  <2>4. fork_free[i] \in Nat \ {0}
    BY <2>1, Basics
  <2>5. fork_free[i] \in 1..used
    BY <2>1, <2>2, <2>4
  <2> QED BY <2>3, <2>5
<1>5. \A f \in Slots :
        /\ groups[f].remaining \in 0..Width
        /\ groups[f].cont \in Thread \cup {None}
        /\ groups[f].spawner \in Processes \cup {None}
  BY <1>1 DEF Typed, Group
<1>6. \A s \in suspended : s.th \in Thread /\ s.fid \in Slots \cup {None}
  BY <1>1 DEF Typed, Suspension
<1>7. waits \subseteq Thread /\ ended \subseteq Thread /\ doomed \subseteq Thread
  BY <1>1 DEF Typed
<1> QED BY <1>2, <1>3, <1>4, <1>5, <1>6, <1>7 DEF TypeOK

LEMMA AtMostOne ==
  ASSUME NEW S, \A x, y \in S : x = y
  PROVE  Cardinality(S) = 0 \/ (Cardinality(S) = 1 /\ S # {})
<1>1. CASE S = {}
  BY <1>1, FS_EmptySet
<1>2. CASE S # {}
  <2>1. PICK x : S = {x}
    BY <1>2
  <2> QED BY <2>1, FS_Singleton
<1> QED BY <1>1, <1>2

LEMMA OnePlaceActivates == IInv => OneActivation
<1> SUFFICES ASSUME IInv, NEW t \in Thread PROVE Activations(t) <= 1
  BY DEF OneActivation
<1> DEFINE Mark(k) == \E i, x : Holds(t, k, i, x)
           R == {i \in DOMAIN stack : stack[i].k = "run" /\ stack[i].th = t}
           S == {s \in suspended : s.th = t}
           W == {w \in wait_forks : w.th = t}
           F == {i \in DOMAIN stack : stack[i].k = "resumed" /\ \E w \in stack[i].rest : w.th = t}
           P == {t} \cap waits
           E == {t} \cap ended
           B == IF blocked[t] = 0 THEN 0 ELSE 1
<1>0. DOMAIN stack = 1..Len(stack)
  BY DEF IInv, Typed
<1>1. \A k, l, i, j, x, y : Holds(t, k, i, x) /\ Holds(t, l, j, y) => k = l /\ i = j /\ x = y
  BY DEF IInv, OnePlace
<1>2. \A k, l : Mark(k) /\ Mark(l) => k = l
  BY <1>1
<1>3. \A i \in R : Holds(t, "run", i, 0)
  BY <1>0 DEF Holds, FramePlace
<1>4. \A s \in S : Holds(t, "suspended", 0, s)
  BY DEF Holds, RestPlace
<1>5. \A w \in W : Holds(t, "waiting", 0, w)
  BY DEF Holds, RestPlace
<1>6. \A i \in F : \E w : Holds(t, "resumed", i, w)
  BY <1>0 DEF Holds, FramePlace
<1>7. /\ P # {} => Holds(t, "pending", 0, 0)
      /\ E # {} => Holds(t, "ended", 0, 0)
      /\ B # 0 => Holds(t, "blocked", 0, 0)
  BY DEF Holds, RestPlace
<1>8. Cardinality(R) = 0 \/ (Cardinality(R) = 1 /\ Mark("run"))
  BY <1>1, <1>3, AtMostOne
<1>9. Cardinality(S) = 0 \/ (Cardinality(S) = 1 /\ Mark("suspended"))
  BY <1>1, <1>4, AtMostOne
<1>10. Cardinality(W) = 0 \/ (Cardinality(W) = 1 /\ Mark("waiting"))
  BY <1>1, <1>5, AtMostOne
<1>11. Cardinality(F) = 0 \/ (Cardinality(F) = 1 /\ Mark("resumed"))
  BY <1>1, <1>6, AtMostOne
<1>12. Cardinality(P) = 0 \/ (Cardinality(P) = 1 /\ Mark("pending"))
  BY <1>7, AtMostOne
<1>13. Cardinality(E) = 0 \/ (Cardinality(E) = 1 /\ Mark("ended"))
  BY <1>7, AtMostOne
<1>14. B = 0 \/ (B = 1 /\ Mark("blocked"))
  BY <1>7
<1>15. Activations(t) = Cardinality(R) + Cardinality(S) + Cardinality(W) + Cardinality(F)
                        + Cardinality(P) + Cardinality(E) + B
  BY DEF Activations
<1>16. PICK r, s, w, f, p, e, b :
         /\ r = Cardinality(R) /\ s = Cardinality(S) /\ w = Cardinality(W) /\ f = Cardinality(F)
         /\ p = Cardinality(P) /\ e = Cardinality(E) /\ b = B
  OBVIOUS
<1> HIDE DEF Mark, R, S, W, F, P, E, B
<1>17. /\ r = 0 \/ (s = 0 /\ w = 0 /\ f = 0 /\ p = 0 /\ e = 0 /\ b = 0)
       /\ s = 0 \/ (w = 0 /\ f = 0 /\ p = 0 /\ e = 0 /\ b = 0)
       /\ w = 0 \/ (f = 0 /\ p = 0 /\ e = 0 /\ b = 0)
       /\ f = 0 \/ (p = 0 /\ e = 0 /\ b = 0)
       /\ p = 0 \/ (e = 0 /\ b = 0)
       /\ e = 0 \/ b = 0
  BY <1>2, <1>8, <1>9, <1>10, <1>11, <1>12, <1>13, <1>14, <1>16
<1>18. r \in {0, 1} /\ s \in {0, 1} /\ w \in {0, 1} /\ f \in {0, 1} /\ p \in {0, 1} /\ e \in {0, 1} /\ b \in {0, 1}
  BY <1>8, <1>9, <1>10, <1>11, <1>12, <1>13, <1>14, <1>16
<1>19. Activations(t) = r + s + w + f + p + e + b
  BY <1>15, <1>16
<1> QED BY <1>17, <1>18, <1>19

LEMMA InvariantJoins == IInv => JoinCompletes
<1> SUFFICES ASSUME IInv, stack = <<>>, NEW t \in Thread, blocked[t] # 0, Complete(blocked[t])
             PROVE  FALSE
  BY DEF JoinCompletes
<1>0. PICK n : n = blocked[t]
  OBVIOUS
<1>1. PICK f \in Slots : groups[f].active /\ groups[f].no = n /\ groups[f].cont = t
  BY <1>0 DEF IInv, SlotInv, GroupInv, Blocking
<1>2. groups[f].remaining > 0 /\ forks[n].kind # "all"
      /\ (groups[f].reclaimable <=> forks[n].kind # "any")
  <2>1. Identified(f) /\ Continues(f)
    BY DEF IInv, SlotInv, GroupInv
  <2> QED BY <1>1, <2>1, Basics DEF Identified, Continues
<1>3. \A c \in Of(n) : Open(c) => c \notin ended
  <2> SUFFICES ASSUME NEW c \in Of(n), Open(c), c \in ended PROVE FALSE
    OBVIOUS
  <2>1. c \in Thread /\ Len(stack) = 0
    BY Basics DEF Of, Branch
  <2>2. PICK s \in suspended : s.th = c
    BY <2>1 DEF Open, IsSuspended
  <2>3. Holds(c, "suspended", 0, s) /\ Holds(c, "ended", 0, 0)
    BY <2>2 DEF Holds, RestPlace
  <2> QED BY <2>1, <2>3 DEF IInv, OnePlace
<1>4. AccountOf(f)
  BY DEF IInv, CallInv, Account
<1>5. CASE forks[n].kind = "any"
  <2>1. \A c \in Of(n) : Open(c)
    BY <1>1, <1>2, <1>4, <1>5 DEF AccountOf
  <2> QED BY <1>0, <1>3, <1>5, <2>1 DEF Complete
<1>6. CASE forks[n].kind # "any"
  <2>1. Cardinality(Unreturned(n)) > 0
    BY <1>1, <1>2, <1>4, <1>6 DEF AccountOf
  <2>2. Unreturned(n) # {}
    <3>1. Cardinality({}) = 0
      BY FS_EmptySet
    <3>2. ~(0 > 0)
      OBVIOUS
    <3> QED BY <2>1, <3>1, <3>2
  <2>3. PICK c \in Of(n) : Open(c)
    BY <2>2 DEF Unreturned
  <2> QED BY <1>0, <1>3, <1>6, <2>3 DEF Complete
<1> QED BY <1>5, <1>6

\* Slots, counters and threads keep their ranges, whatever the processes and the
\* branches do: no late, skipped or nested branch counts a group below zero, and
\* the free list holds retired slots only (alloc_fork_group, fork_decrement).
THEOREM TypeCorrect == Spec => []TypeOK
BY Invariance, InvariantTypes, PTL

\* A thread is never activated twice: the statements behind a join run once, and
\* no continuation is both pending and running (fork_finish, check_wait_forks).
THEOREM ActivatedOnce == Spec => []OneActivation
BY Invariance, OnePlaceActivates, PTL

\* A complete fork blocks nobody once the calls have returned: the branch that
\* ends last runs the statements behind the join, wherever it was resumed
\* (fork_branch_end, process_event, process_pending_events).
THEOREM JoinsComplete == Spec => []JoinCompletes
BY Invariance, InvariantJoins, PTL

\* A suspended branch finds the group of its own fork in the slot it remembers,
\* however often the slot has been reused (retire_fork_group).
THEOREM BranchesRemember == Spec => []NoStaleBranch
<1>1. IInv => NoStaleBranch
  BY DEF IInv, CallInv, Remembered, NoStaleBranch
<1> QED BY <1>1, Invariance, PTL
===============================================================================
