--------------------------- MODULE FlatForksProofs ----------------------------
(***************************************************************************)
(* What fork, wait fork and disable fork promise to a design whose branches  *)
(* only delay or wait for events: for the other designs they do not keep it. *)
(* First joins; then, for designs in which nobody is resumed under the name  *)
(* of another process, what the groups say about the unfinished branches,    *)
(* and the two statements that read it, wait fork and disable fork.          *)
(***************************************************************************)
EXTENDS ForkGroupsProofs

\* The branches of a design execute neither a fork nor a wait.
Flat == \A d \in Designs : d.branch \subseteq {"delay", "at"}

\* Branches are in none of the lists that only processes get into.
Lists ==
  /\ waits \subseteq Processes
  /\ \A t \in Thread : blocked[t] # 0 => t \in Processes
  /\ \A w \in wait_forks : w.th \in Processes

FrameFlat(x) ==
  /\ x.k = "fork" => x.parent \in Processes
  /\ x.k = "resumed" => \A w \in x.rest : w.th \in Processes

\* The call of a branch is right above the frame that started it, and a branch whose
\* call returns true has ended.
CallAt(i) ==
  /\ FrameFlat(stack[i])
  /\ stack[i].k = "run" /\ stack[i].th \in Branch => i > 1 /\ Busy(stack[i - 1])
  /\ Busy(stack[i]) /\ i < Len(stack) => stack[i + 1].k = "run"
  /\ Busy(stack[i]) /\ i = Len(stack) /\ ret => stack[i].cur \in ended
Calls == \A i \in 1..Len(stack) : CallAt(i)

\* A branch that has returned has ended, and so have those of a retired group.
Ends == \A c \in Branch : forkOf[c] # 0 => c \in ended \/ Open(c)
Kept ==
  \A n \in 1..Len(forks) : forks[n].kind # "any" =>
    (\E f \in Slots : groups[f].active /\ groups[f].no = n) \/ Of(n) \subseteq ended

FlatInv == Lists /\ Calls /\ Ends /\ Kept /\ JoinSound
-----------------------------------------------------------------------------
(* How the parts of the invariant are kept.                                  *)

PlainFrame(x) ==
  /\ x.k \in {"run", "true", "fork", "close", "finished", "retire", "resumed"}
  /\ x.k = "run" => x.th \in Processes
  /\ x.k = "fork" => x.cur = None /\ x.parent \in Processes
  /\ x.k = "resumed" => \A w \in x.rest : w.th \in Processes

LEMMA PlainCall ==
  ASSUME NEW i, PlainFrame(stack'[i])
  PROVE  CallAt(i)'
<1>1. FrameFlat(stack'[i]) /\ ~Busy(stack'[i])
  BY DEF PlainFrame, FrameFlat, Busy
<1>2. ~(stack'[i].k = "run" /\ stack'[i].th \in Branch)
  BY Basics DEF PlainFrame
<1> QED BY <1>1, <1>2 DEF CallAt, FrameFlat, Busy

LEMMA CallsStep ==
  ASSUME Calls, NEW m \in Nat, Keeps(m), Len(stack') \in Nat, Len(stack') >= m,
         \A i \in (m + 1)..Len(stack') : CallAt(i)',
         m > 0 /\ Busy(stack[m]) =>
           m < Len(stack) /\ Len(stack') = m /\ (ret' => stack[m].cur \in ended')
  PROVE  Calls'
<1>0. \A i \in 1..m : stack'[i] = stack[i] /\ i \in 1..Len(stack)
  BY DEF Keeps
<1>1. ASSUME NEW i \in 1..m PROVE CallAt(i)'
  <2>0. CallAt(i) /\ stack'[i] = stack[i]
    BY <1>0 DEF Calls
  <2>1. FrameFlat(stack'[i])
    BY <2>0 DEF CallAt
  <2>2. stack'[i].k = "run" /\ stack'[i].th \in Branch => i > 1 /\ Busy(stack'[i - 1])
    <3>1. i > 1 => i - 1 \in 1..m
      OBVIOUS
    <3> QED BY <1>0, <2>0, <3>1 DEF CallAt
  <2>3. CASE i < m
    <3>1. i + 1 \in 1..m /\ i < Len(stack) /\ i # Len(stack')
      BY <1>0, <2>3
    <3>2. Busy(stack'[i]) => stack'[i + 1].k = "run"
      BY <1>0, <2>0, <3>1 DEF CallAt
    <3> QED BY <2>1, <2>2, <3>1, <3>2 DEF CallAt, FrameFlat, Busy
  <2>4. CASE i = m
    <3>1. Busy(stack'[i]) => Len(stack') = m /\ (ret' => stack'[i].cur \in ended')
      BY <2>0, <2>4
    <3>2. Busy(stack'[i]) => ~(i < Len(stack'))
      BY <2>4, <3>1
    <3> QED BY <2>1, <2>2, <3>1, <3>2 DEF CallAt, FrameFlat, Busy
  <2> QED BY <2>3, <2>4
<1>2. \A i \in 1..Len(stack') : i \in 1..m \/ i \in (m + 1)..Len(stack')
  OBVIOUS
<1> QED BY <1>1, <1>2 DEF Calls

\* Frames that are popped leave none of their branches behind unended.
LEMMA EndsStep ==
  ASSUME Ends, NEW m \in Nat, Keeps(m), Len(stack') \in Nat, Len(stack') >= m,
         forkOf' = forkOf, ended \subseteq ended',
         \A c \in Branch : IsSuspended(c) => Open(c)' \/ c \in ended',
         \A i \in (m + 1)..Len(stack) : \A c \in Owns(stack[i]) : Open(c)' \/ c \in ended'
  PROVE  Ends'
<1>0. \A i \in 1..m : stack'[i] = stack[i] /\ i \in 1..Len(stack')
  BY DEF Keeps
<1>1. ASSUME NEW c \in Branch, Open(c) PROVE Open(c)' \/ c \in ended'
  <2>1. CASE IsSuspended(c)
    BY <2>1
  <2>2. CASE \E i \in 1..Len(stack) : c \in Owns(stack[i])
    <3>1. PICK i \in 1..Len(stack) : c \in Owns(stack[i])
      BY <2>2
    <3>2. CASE i \in 1..m
      <4>1. c \in Owns(stack'[i]) /\ i \in 1..Len(stack')
        BY <1>0, <3>1, <3>2
      <4> QED BY <4>1 DEF Open, Owns
    <3>3. CASE i \in (m + 1)..Len(stack)
      BY <3>1, <3>3
    <3>4. Len(stack) \in Nat => (i \in 1..m \/ i \in (m + 1)..Len(stack))
      OBVIOUS
    <3>5. Len(stack) \in Nat
      BY DEF Keeps
    <3> QED BY <3>2, <3>3, <3>4, <3>5
  <2> QED BY <1>1, <2>1, <2>2 DEF Open
<1> QED BY <1>1 DEF Ends

LEMMA KeptStep ==
  ASSUME Kept, forkOf' = forkOf, forks' = forks, ended \subseteq ended',
         \A g \in Slots : groups'[g].active = groups[g].active /\ groups'[g].no = groups[g].no
  PROVE  Kept'
BY DEF Kept, Of

LEMMA JoinsStep ==
  ASSUME JoinSound, forkOf' = forkOf, forks' = forks, ended \subseteq ended', blocked' = blocked
  PROVE  JoinSound'
BY DEF JoinSound, Complete, Of

LEMMA FlatStep ==
  ASSUME FlatInv, NEW m \in Nat, Keeps(m), Len(stack') \in Nat, Len(stack') >= m,
         \A i \in (m + 1)..Len(stack') : CallAt(i)',
         m > 0 /\ Busy(stack[m]) =>
           m < Len(stack) /\ Len(stack') = m /\ (ret' => stack[m].cur \in ended'),
         forkOf' = forkOf, forks' = forks, blocked' = blocked, ended \subseteq ended',
         \A c \in Branch : IsSuspended(c) => Open(c)' \/ c \in ended',
         \A i \in (m + 1)..Len(stack) : \A c \in Owns(stack[i]) : Open(c)' \/ c \in ended',
         \A g \in Slots : groups'[g].active = groups[g].active /\ groups'[g].no = groups[g].no,
         Lists'
  PROVE  FlatInv'
<1>0. Calls /\ Ends /\ Kept /\ JoinSound
  BY DEF FlatInv
<1>1. Calls'
  BY <1>0, CallsStep
<1>2. Ends'
  BY <1>0, EndsStep
<1>3. Kept' /\ JoinSound'
  BY <1>0, KeptStep, JoinsStep
<1> QED BY <1>1, <1>2, <1>3 DEF FlatInv

LEMMA StillSuspended ==
  ASSUME suspended \subseteq suspended'
  PROVE  \A c : IsSuspended(c) => Open(c)'
BY DEF Open, IsSuspended

\* No frame waits right below the call of a process.
LEMMA BelowProcess ==
  ASSUME Typed, CallInv, NEW m \in Nat, Len(stack) = m + 1, stack[m + 1].k = "run",
         stack[m + 1].th \in Processes
  PROVE  ~(m > 0 /\ Busy(stack[m]))
<1>1. m > 0 => m \in 1..Len(stack)
  OBVIOUS
<1>2. m > 0 /\ Busy(stack[m]) => stack[m].cur \in Branch
  BY <1>1, OwnsBranches
<1>3. m > 0 /\ Busy(stack[m]) => stack[m + 1].th = stack[m].cur
  BY RunningBranch
<1> QED BY <1>2, <1>3, Basics

LEMMA ProcessExecutes ==
  ASSUME Flat, Typed, NEW kind, Executes(kind), kind \notin {"delay", "at"}, Top.th \in Thread
  PROVE  Top.th \in Processes
<1>1. kind \in Allowed(Top.th) /\ design.branch \subseteq {"delay", "at"}
  BY DEF Flat, Typed, Executes
<1> QED BY <1>1 DEF Allowed

\* The statement of a thread is the last of its call, or a process goes on.
LEMMA StatementStep ==
  ASSUME IInv, FlatInv, stack # <<>>, Top.k = "run", Typed',
         \/ (stack' = Below /\ (Top.th \in Branch /\ ret' => Top.th \in ended'))
         \/ (stack' = Below \o <<Frame("true", None), Top>> /\ Top.th \in Processes),
         forkOf' = forkOf, forks' = forks, blocked' = blocked, ended \subseteq ended',
         suspended \subseteq suspended', groups' = groups, Lists'
  PROVE  FlatInv'
<1>2. Typed /\ CallInv
  BY DEF IInv
<1>3. PICK m \in Nat :
        /\ Len(stack) = m + 1 /\ Top = stack[m + 1] /\ Top \in Frames /\ m + 1 \in 1..Len(stack)
        /\ Below \in Seq(Frames) /\ Len(Below) = m /\ \A i \in 1..m : Below[i] = stack[i]
  BY <1>2, TopFrame
<1>4. PICK y \in Frames : y = Top
  BY <1>3
<1>5. \A i \in (m + 1)..Len(stack) : \A c \in Owns(stack[i]) : Open(c)' \/ c \in ended'
  BY <1>2, <1>3, RunOwnsNothing DEF Inert
<1>6. \A c \in Branch : IsSuspended(c) => Open(c)' \/ c \in ended'
  BY StillSuspended
<1>7. m > 0 /\ Busy(stack[m]) => Top.th = stack[m].cur /\ Top.th \in Branch
  <2>1. m > 0 /\ Busy(stack[m]) => Top.th = stack[m].cur
    BY <1>2, <1>3, RunningBranch
  <2>2. m > 0 /\ Busy(stack[m]) => stack[m].cur \in Branch
    <3>1. m > 0 => m \in 1..Len(stack)
      BY <1>3
    <3> QED BY <1>2, <3>1, OwnsBranches
  <2> QED BY <2>1, <2>2
<1>8. CASE stack' = Below /\ (Top.th \in Branch /\ ret' => Top.th \in ended')
  <2>1. Keeps(m) /\ Len(stack') = m /\ (m + 1)..Len(stack') = {}
    BY <1>2, <1>3, <1>8, PopStack
  <2>2. m > 0 /\ Busy(stack[m]) =>
          m < Len(stack) /\ Len(stack') = m /\ (ret' => stack[m].cur \in ended')
    BY <1>3, <1>7, <1>8, <2>1
  <2>3. Len(stack') \in Nat /\ Len(stack') >= m
    BY <2>1
  <2>4. \A i \in (m + 1)..Len(stack') : CallAt(i)'
    BY <2>1
  <2> QED BY <1>5, <1>6, <2>1, <2>2, <2>3, <2>4, FlatStep
<1>9. CASE stack' = Below \o <<Frame("true", None), Top>> /\ Top.th \in Processes
  <2>1. /\ Keeps(m) /\ Len(stack') = m + 2 /\ stack'[m + 1] = Frame("true", None) /\ stack'[m + 2] = y
        /\ (m + 1)..Len(stack') = {m + 1, m + 2}
    BY <1>2, <1>3, <1>4, <1>9, FrameTypes, PushStack2
  <2>2. ~(m > 0 /\ Busy(stack[m]))
    BY <1>7, <1>9, Basics
  <2>3. PlainFrame(stack'[m + 1]) /\ PlainFrame(stack'[m + 2])
    BY <1>4, <1>9, <2>1 DEF PlainFrame, Frame
  <2>4. \A i \in (m + 1)..Len(stack') : CallAt(i)'
    BY <2>1, <2>3, PlainCall
  <2>5. Len(stack') \in Nat /\ Len(stack') >= m
    BY <2>1
  <2> QED BY <1>5, <1>6, <2>1, <2>2, <2>4, <2>5, FlatStep
<1> QED BY <1>8, <1>9

LEMMA ListsKept ==
  ASSUME Lists, UNCHANGED <<waits, blocked, wait_forks>>
  PROVE  Lists'
BY DEF Lists
-----------------------------------------------------------------------------
(* Every action keeps the invariant: the statements.                         *)

LEMMA EndFlat ==
  ASSUME IInv, FlatInv, IInv', End
  PROVE  FlatInv'
<1>1. /\ stack # <<>> /\ Top.k = "run" /\ ended' = ended \cup {Top.th} /\ stack' = Below
      /\ groups' = groups /\ forkOf' = forkOf /\ forks' = forks /\ blocked' = blocked
      /\ suspended' = suspended /\ waits' = waits /\ wait_forks' = wait_forks
  BY DEF End, engine
<1>2. Lists' /\ Typed'
  BY <1>1, ListsKept DEF FlatInv, IInv
<1>3. Top.th \in ended' /\ ended \subseteq ended'
  BY <1>1
<1> QED BY <1>1, <1>2, <1>3, StatementStep

LEMMA SuspendFlat ==
  ASSUME IInv, FlatInv, IInv', NEW on \in {"delay", "at"}, Suspend(on)
  PROVE  FlatInv'
<1>1. /\ Executes(on) /\ stack' = Below /\ ret' = FALSE /\ suspended \subseteq suspended'
      /\ groups' = groups /\ forkOf' = forkOf /\ forks' = forks /\ blocked' = blocked
      /\ waits' = waits /\ wait_forks' = wait_forks /\ ended' = ended
  BY DEF Suspend
<1>2. Lists' /\ Typed'
  BY <1>1, ListsKept DEF FlatInv, IInv
<1>3. stack # <<>> /\ Top.k = "run"
  BY <1>1 DEF Executes
<1> QED BY <1>1, <1>2, <1>3, StatementStep

LEMMA WaitFlat ==
  ASSUME Flat, IInv, FlatInv, IInv', Wait
  PROVE  FlatInv'
<1>1. /\ Executes("wait") /\ suspended' = suspended
      /\ groups' = groups /\ forkOf' = forkOf /\ forks' = forks /\ blocked' = blocked
      /\ wait_forks' = wait_forks /\ ended' = ended
  BY DEF Wait
<1>2. stack # <<>> /\ Top.k = "run" /\ Top.th \in Thread /\ Typed /\ Typed' /\ Lists
  BY <1>1, ExecuteFacts DEF IInv, FlatInv
<1>3. Top.th \in Processes
  BY <1>1, <1>2, ProcessExecutes
<1>4. Lists'
  BY <1>1, <1>2, <1>3 DEF Lists, Wait
<1>5. \/ (stack' = Below /\ (Top.th \in Branch /\ ret' => Top.th \in ended'))
      \/ (stack' = Below \o <<Frame("true", None), Top>> /\ Top.th \in Processes)
  BY <1>3, Basics DEF Wait
<1> QED BY <1>1, <1>2, <1>4, <1>5, StatementStep

LEMMA WaitForkFlat ==
  ASSUME Flat, IInv, FlatInv, IInv', WaitFork
  PROVE  FlatInv'
<1>0. PICK kind : Executes(kind) /\ kind = "wait fork"
  BY DEF WaitFork
<1>1. /\ suspended' = suspended
      /\ groups' = groups /\ forkOf' = forkOf /\ forks' = forks /\ blocked' = blocked
      /\ waits' = waits /\ ended' = ended
  BY DEF WaitFork
<1>2. stack # <<>> /\ Top.k = "run" /\ Top.th \in Thread /\ Typed /\ Typed' /\ Lists
  BY <1>0, ExecuteFacts DEF IInv, FlatInv
<1>3. Top.th \in Processes
  <2>1. kind \notin {"delay", "at"}
    BY <1>0
  <2> HIDE <1>0
  <2> QED BY <1>0, <1>2, <2>1, ProcessExecutes
<1>4. Lists'
  <2>1. \/ wait_forks' = wait_forks
        \/ wait_forks' = wait_forks \cup {[th |-> Top.th, fids |-> ActiveGroups, proc |-> name]}
    BY DEF WaitFork
  <2> QED BY <1>1, <1>2, <1>3, <2>1 DEF Lists
<1>5. \/ (stack' = Below /\ (Top.th \in Branch /\ ret' => Top.th \in ended'))
      \/ (stack' = Below \o <<Frame("true", None), Top>> /\ Top.th \in Processes)
  BY <1>3, Basics DEF WaitFork
<1> QED BY <1>1, <1>2, <1>4, <1>5, StatementStep

LEMMA DisableForkFlat ==
  ASSUME Flat, IInv, FlatInv, IInv', DisableFork
  PROVE  FlatInv'
<1>0. PICK kind : Executes(kind) /\ kind = "disable fork"
  BY DEF DisableFork
<1>1. /\ suspended' = suspended /\ forkOf' = forkOf /\ forks' = forks /\ blocked' = blocked
      /\ waits' = waits /\ wait_forks' = wait_forks /\ ended' = ended /\ stack' = stack /\ ret' = ret
      /\ groups' = [f \in Slots |-> IF f \in ActiveGroups THEN [groups[f] EXCEPT !.disabled = TRUE]
                                    ELSE groups[f]]
  BY DEF DisableFork
<1>2. Typed /\ Lists /\ Ends /\ Kept /\ Calls /\ JoinSound
  BY DEF IInv, FlatInv
<1>3. \A g \in Slots : groups'[g].active = groups[g].active /\ groups'[g].no = groups[g].no
  <2> TAKE g \in Slots
  <2>1. groups[g] \in Group
    BY <1>2 DEF Typed
  <2> QED BY <1>1, <2>1 DEF Group
<1>4. Kept' /\ JoinSound' /\ Lists'
  BY <1>1, <1>2, <1>3, KeptStep, JoinsStep, ListsKept
<1>5. Calls'
  BY <1>1, <1>2 DEF Calls, CallAt
<1>6. Ends'
  BY <1>1, <1>2 DEF Ends, Open, IsSuspended
<1> QED BY <1>4, <1>5, <1>6 DEF FlatInv
-----------------------------------------------------------------------------
(* The frames that a step puts in the place of the top frame.                *)

Succeeds(x) ==
  \/ x = Top
  \/ x.k = "true" /\ Top.k = "run"
  \/ /\ x.k \in {"close", "finished", "retire"} /\ Refers(Top) /\ x.fid = Top.fid
     /\ x.k = "close" => Top.k = "fork"
     /\ x.k = "retire" => Top.k = "finished"
  \/ /\ x.k = "run"
     /\ \/ Top.k \in {"fork", "branch"} /\ x.th = groups[Top.fid].cont /\ x.th # None
        \/ Top.k = "fork" /\ x.th = Top.parent
        \/ Top.k = "fork" /\ Top.cur = None /\ x.th \in Top.todo
        \/ Top.k = "resumed" /\ \E w \in Top.rest : x.th = w.th
  \/ /\ x.k = "resumed"
     /\ \/ Top.k = "resumed" /\ x.rest \subseteq Top.rest
        \/ Top.k = "finished" /\ x.rest = Resumable(Top.fid)
  \/ /\ x.k = "fork"
     /\ \/ /\ Top.k = "fork" /\ x.parent = Top.parent /\ x.fid = Top.fid
           /\ x.cur = None \/ (Top.cur = None /\ x.cur \in Top.todo)
        \/ Top.k = "run" /\ x.parent = Top.th /\ x.cur = None /\ ~groups[x.fid].active

SucceedsAt(m) ==
  /\ Keeps(m) /\ Len(stack) = m + 1 /\ Top = stack[m + 1] /\ Top \in Frames
  /\ Len(stack') \in Nat /\ Len(stack') >= m
  /\ \A i \in (m + 1)..Len(stack') : Succeeds(stack'[i])
Succession == \E m \in Nat : SucceedsAt(m)

LEMMA Succession0 ==
  ASSUME Typed, stack # <<>>, stack' = Below
  PROVE  Succession
<1>1. PICK m \in Nat :
        /\ Len(stack) = m + 1 /\ Top = stack[m + 1] /\ Top \in Frames
        /\ Below \in Seq(Frames) /\ Len(Below) = m /\ \A i \in 1..m : Below[i] = stack[i]
  BY TopFrame
<1>2. Keeps(m) /\ Len(stack') = m /\ (m + 1)..Len(stack') = {}
  BY <1>1, PopStack
<1>3. SucceedsAt(m)
  BY <1>1, <1>2 DEF SucceedsAt
<1> QED BY <1>3 DEF Succession

LEMMA Succession1 ==
  ASSUME Typed, stack # <<>>, NEW x \in Frames, stack' = Below \o <<x>>, Succeeds(x)
  PROVE  Succession
<1>1. PICK m \in Nat :
        /\ Len(stack) = m + 1 /\ Top = stack[m + 1] /\ Top \in Frames
        /\ Below \in Seq(Frames) /\ Len(Below) = m /\ \A i \in 1..m : Below[i] = stack[i]
  BY TopFrame
<1>2. Keeps(m) /\ Len(stack') = m + 1 /\ stack'[m + 1] = x /\ (m + 1)..Len(stack') = {m + 1}
  BY <1>1, PushStack1
<1>3. \A i \in (m + 1)..Len(stack') : Succeeds(stack'[i])
  BY <1>2
<1>4. SucceedsAt(m)
  BY <1>1, <1>2, <1>3 DEF SucceedsAt
<1> QED BY <1>4 DEF Succession

LEMMA Succession2 ==
  ASSUME Typed, stack # <<>>, NEW x \in Frames, NEW y \in Frames, stack' = Below \o <<x, y>>,
         Succeeds(x), Succeeds(y)
  PROVE  Succession
<1>1. PICK m \in Nat :
        /\ Len(stack) = m + 1 /\ Top = stack[m + 1] /\ Top \in Frames
        /\ Below \in Seq(Frames) /\ Len(Below) = m /\ \A i \in 1..m : Below[i] = stack[i]
  BY TopFrame
<1>2. /\ Keeps(m) /\ Len(stack') = m + 2 /\ stack'[m + 1] = x /\ stack'[m + 2] = y
      /\ (m + 1)..Len(stack') = {m + 1, m + 2}
  BY <1>1, PushStack2
<1>3. \A i \in (m + 1)..Len(stack') : Succeeds(stack'[i])
  BY <1>2
<1>4. SucceedsAt(m)
  BY <1>1, <1>2, <1>3 DEF SucceedsAt
<1> QED BY <1>4 DEF Succession

\* fork_decrement and fork_finish for the group of the top frame, which y has
\* replaced, or nothing.
LEMMA SuccessionSettles ==
  ASSUME Typed, stack # <<>>, Refers(Top), NEW f \in Slots, f = Top.fid,
         NEW base \in Seq(Frames), Quiet(base) \/ Settles(f, base),
         Continued(f, base) => Top.k \in {"fork", "branch"},
         base = Below \/ \E y \in Frames : base = Below \o <<y>> /\ Succeeds(y)
  PROVE  Succession
<1>1. PICK m \in Nat :
        /\ Len(stack) = m + 1 /\ Top = stack[m + 1] /\ Top \in Frames
        /\ Below \in Seq(Frames) /\ Len(Below) = m /\ \A i \in 1..m : Below[i] = stack[i]
  BY TopFrame
<1>2. /\ Len(stack') \in Nat /\ Len(stack') >= Len(base)
      /\ \A i \in 1..Len(base) : stack'[i] = base[i]
      /\ \A i \in (Len(base) + 1)..Len(stack') :
              \/ (i = Len(base) + 1 /\ stack'[i].k = "finished" /\ stack'[i].fid = f
                  /\ groups'[f].remaining = 0)
              \/ (i = Len(base) + 2 /\ i = Len(stack') /\ stack'[i].k = "run" /\ stack'[i].fid = None
                  /\ stack'[i].th = groups[f].cont /\ groups[f].cont \in Thread /\ Continued(f, base))
  <2>1. CASE Quiet(base)
    BY <2>1 DEF Quiet
  <2>2. CASE Settles(f, base)
    BY <2>2, SettleStack
  <2> QED BY <2>1, <2>2
<1>3. \A i \in (Len(base) + 1)..Len(stack') : Succeeds(stack'[i])
  <2> SUFFICES ASSUME NEW i \in (Len(base) + 1)..Len(stack') PROVE Succeeds(stack'[i])
    OBVIOUS
  <2>1. CASE stack'[i].k = "finished" /\ stack'[i].fid = f
    BY <2>1 DEF Succeeds, Refers
  <2>2. CASE /\ stack'[i].k = "run" /\ stack'[i].th = groups[f].cont /\ groups[f].cont \in Thread
             /\ Continued(f, base)
    BY <2>2, Basics DEF Succeeds
  <2> QED BY <1>2, <2>1, <2>2
<1>4. CASE base = Below
  <2>1. Len(base) = m /\ \A i \in 1..m : stack'[i] = stack[i]
    BY <1>1, <1>2, <1>4
  <2>2. Keeps(m) /\ Len(stack') >= m
    BY <1>1, <1>2, <2>1 DEF Keeps
  <2>3. SucceedsAt(m)
    BY <1>1, <1>2, <1>3, <2>1, <2>2 DEF SucceedsAt
  <2> QED BY <2>3 DEF Succession
<1>5. ASSUME NEW y \in Frames, base = Below \o <<y>>, Succeeds(y) PROVE Succession
  <2>1. Len(base) = m + 1 /\ base[m + 1] = y /\ \A i \in 1..m : base[i] = stack[i]
    BY <1>1, <1>5, Push1
  <2>2. /\ m <= Len(stack') /\ Len(stack') >= m + 1 /\ stack'[m + 1] = y
        /\ \A i \in 1..m : stack'[i] = stack[i]
    BY <1>2, <2>1
  <2>3. Keeps(m)
    BY <1>1, <2>2 DEF Keeps
  <2>4. \A i \in (m + 1)..Len(stack') : Succeeds(stack'[i])
    <3> SUFFICES ASSUME NEW i \in (m + 1)..Len(stack') PROVE Succeeds(stack'[i])
      OBVIOUS
    <3>1. i = m + 1 \/ i \in (Len(base) + 1)..Len(stack')
      BY <1>2, <2>1
    <3> QED BY <1>3, <1>5, <2>2, <3>1
  <2>5. SucceedsAt(m)
    BY <1>1, <1>2, <2>2, <2>3, <2>4 DEF SucceedsAt
  <2> QED BY <2>5 DEF Succession
<1> QED BY <1>4, <1>5

LEMMA StatementSucceeds ==
  ASSUME IInv, Statement
  PROVE  Succession
<1>1. Typed /\ SlotInv
  BY DEF IInv
<1>2. CASE End \/ \E on \in {"delay", "at"} : Suspend(on)
  <2>1. stack # <<>> /\ stack' = Below
    BY <1>2 DEF End, Suspend, Executes
  <2> QED BY <1>1, <2>1, Succession0
<1>3. CASE Wait \/ WaitFork
  <2>1. stack # <<>> /\ Top.k = "run"
    BY <1>3 DEF Wait, WaitFork, Executes
  <2>2. stack' = Below \/ stack' = Below \o <<Frame("true", None), Top>>
    BY <1>3 DEF Wait, WaitFork
  <2>3. CASE stack' = Below \o <<Frame("true", None), Top>>
    <3>1. PICK x \in Frames, y \in Frames : x = Frame("true", None) /\ y = Top
      BY <1>1, <2>1, FrameTypes, TopFrame
    <3>2. Succeeds(x) /\ Succeeds(y)
      BY <2>1, <3>1 DEF Succeeds, Frame
    <3>3. stack' = Below \o <<x, y>>
      BY <2>3, <3>1
    <3> QED BY <1>1, <2>1, <3>2, <3>3, Succession2
  <2> QED BY <1>1, <2>1, <2>2, <2>3, Succession0
<1>4. CASE DisableFork
  <2>1. stack # <<>> /\ stack' = stack
    BY <1>4 DEF DisableFork, Executes
  <2>2. PICK m \in Nat :
          /\ Len(stack) = m + 1 /\ Top = stack[m + 1] /\ Top \in Frames /\ m + 1 \in 1..Len(stack)
          /\ Below \in Seq(Frames) /\ Len(Below) = m /\ \A i \in 1..m : Below[i] = stack[i]
    BY <1>1, <2>1, TopFrame
  <2>3. Keeps(m)
    BY <2>1, <2>2 DEF Keeps
  <2>4. \A i \in (m + 1)..Len(stack') : stack'[i] = Top
    BY <2>1, <2>2
  <2>5. \A i \in (m + 1)..Len(stack') : Succeeds(stack'[i])
    BY <2>4 DEF Succeeds
  <2>6. SucceedsAt(m)
    BY <2>1, <2>2, <2>3, <2>5 DEF SucceedsAt
  <2> QED BY <2>6 DEF Succession
<1>5. ASSUME NEW kind \in Kinds, Fork(kind) PROVE Succession
  <2>1. PICK born \in SUBSET Unborn :
          /\ Cardinality(born) = Width /\ Executes("fork")
          /\ stack' = Below \o <<Frame("true", None),
               [k |-> "fork", fid |-> NextSlot, kind |-> kind, parent |-> Top.th, todo |-> born,
                cur |-> None, any |-> FALSE]>>
    BY <1>5 DEF Fork
  <2>2. stack # <<>> /\ Top.k = "run" /\ Top.th \in Thread
    BY <1>1, <2>1, ExecuteFacts
  <2>3. NextSlot \in Slots /\ ~groups[NextSlot].active
    BY <1>1, <2>1, SlotLeft
  <2>4. PICK x \in Frames : x = Frame("true", None)
    BY FrameTypes
  <2>5. PICK y : y = [k |-> "fork", fid |-> NextSlot, kind |-> kind, parent |-> Top.th, todo |-> born,
                      cur |-> None, any |-> FALSE]
    OBVIOUS
  <2>6. y \in Frames
    <3>1. born \subseteq Branch
      BY DEF Unborn, Branch
    <3>2. y \in ForkFrame
      BY <2>2, <2>3, <2>5, <3>1 DEF ForkFrame
    <3> QED BY <3>2 DEF Frames
  <2>7. Succeeds(x) /\ Succeeds(y)
    BY <2>2, <2>3, <2>4, <2>5 DEF Succeeds, Frame
  <2>8. stack' = Below \o <<x, y>>
    BY <2>1, <2>4, <2>5
  <2> QED BY <1>1, <2>2, <2>6, <2>7, <2>8, Succession2
<1> QED BY <1>2, <1>3, <1>4, <1>5 DEF Statement
-----------------------------------------------------------------------------
(* Every action keeps the invariant: a branch returns to its group.           *)

\* The same of the next state.
LEMMA NoneOpenNext ==
  ASSUME Typed', CallInv', NEW f \in Slots, groups'[f].active, groups'[f].reclaimable,
         groups'[f].remaining = 0, NEW c \in Branch, forkOf'[c] = groups'[f].no
  PROVE  ~Open(c)'
<1>1. PICK n : n = groups'[f].no
  OBVIOUS
<1>2. PICK S : S = {d \in Of(n)' : Open(d)'}
  OBVIOUS
<1>3. Cardinality(S) = 0
  BY <1>1, <1>2 DEF CallInv, Account, AccountOf, Unreturned, Of, Open
<1>4. IsFiniteSet(S)
  <2>1. S \subseteq Branch
    BY <1>2 DEF Of, Branch
  <2> QED BY <2>1, Basics, FS_Subset
<1>5. S = {}
  BY <1>3, <1>4, FS_EmptySet
<1>6. c \in Of(n)'
  BY <1>1 DEF Of, Branch
<1> QED BY <1>2, <1>5, <1>6

\* When the statements behind a join go on, its fork is complete.
LEMMA JoinSettles ==
  ASSUME IInv, IInv', JoinSound, Ends', NEW f \in Slots, NEW base, Continued(f, base),
         forkOf' = forkOf, forks' = forks, ended \subseteq ended',
         Of(groups[f].no) \cap ended' # {}
  PROVE  JoinSound'
<1>1. Typed /\ SlotInv /\ Typed' /\ CallInv'
  BY DEF IInv
<1>2. PICK u \in Thread, n \in Nat : u = groups[f].cont /\ n = groups[f].no
  BY <1>1, GroupFields DEF Typed, Continued
<1>3. /\ SlotKeeps(f) /\ groups'[f].remaining = 0 /\ blocked' = [blocked EXCEPT ![u] = 0]
      /\ u # None
  BY <1>2 DEF Continued
<1>4. /\ groups[f].active /\ groups'[f].active /\ groups'[f].no = n
      /\ groups'[f].reclaimable = groups[f].reclaimable
  BY <1>2, <1>3 DEF SlotKeeps
<1>5. blocked[u] = n /\ n \in 1..Len(forks) /\ (groups[f].reclaimable <=> forks[n].kind # "any")
  BY <1>1, <1>2, <1>3, <1>4 DEF SlotInv, GroupInv, Continues, Identified
<1>6. Complete(n)'
  <2>1. CASE forks[n].kind = "any"
    BY <1>2, <2>1 DEF Complete, Of
  <2>2. CASE forks[n].kind # "any"
    <3>1. ASSUME NEW c \in Branch, forkOf[c] = n PROVE c \in ended'
      <4>1. groups'[f].reclaimable /\ forkOf'[c] = groups'[f].no
        BY <1>4, <1>5, <2>2, <3>1
      <4>2. ~Open(c)'
        BY <1>1, <1>3, <1>4, <4>1, NoneOpenNext
      <4>3. forkOf'[c] # 0
        BY <1>5, <3>1
      <4> QED BY <4>2, <4>3 DEF Ends
    <3> QED BY <2>2, <3>1 DEF Complete, Of, Branch
  <2> QED BY <2>1, <2>2
<1>7. ASSUME NEW l \in DOMAIN forks', forks'[l].kind # "all", blocked'[forks'[l].parent] # l
      PROVE  Complete(l)'
  <2>1. l \in DOMAIN forks /\ forks[l].parent \in Thread
    <3>1. l \in DOMAIN forks
      BY <1>7
    <3>2. forks \in Seq([parent : Thread, kind : Kinds])
      BY <1>1 DEF Typed
    <3>3. forks[l] \in [parent : Thread, kind : Kinds]
      <4>1. DOMAIN forks = 1..Len(forks)
        BY <3>2
      <4>2. PICK F : F = [parent : Thread, kind : Kinds]
        OBVIOUS
      <4> QED BY <3>1, <3>2, <4>1, <4>2, ElementOfSeq
    <3> QED BY <3>1, <3>3
  <2>2. CASE blocked[forks[l].parent] # l
    <3>1. Complete(l)
      BY <1>7, <2>1, <2>2 DEF JoinSound
    <3> QED BY <3>1 DEF Complete, Of
  <2>3. CASE blocked[forks[l].parent] = l
    <3>1. forks[l].parent = u
      BY <1>1, <1>3, <1>7, <2>1, <2>3 DEF Typed
    <3>2. l = n
      BY <1>5, <2>3, <3>1
    <3> QED BY <1>6, <3>2
  <2> QED BY <2>2, <2>3
<1> QED BY <1>7 DEF JoinSound

\* fork_decrement and fork_finish keep it, wherever they are called.
LEMMA SettleFlat ==
  ASSUME IInv, FlatInv, IInv', NEW f \in Slots, NEW base \in Seq(Frames),
         Quiet(base) \/ Settles(f, base), NEW m \in Nat, Keeps(m),
         Len(base) = m \/ (Len(base) = m + 1 /\ PlainFrame(base[m + 1])),
         m > 0 => ~Busy(stack[m]),
         UNCHANGED <<forkOf, forks, waits, wait_forks>>, ended \subseteq ended',
         \A c \in Branch : IsSuspended(c) => Open(c)' \/ c \in ended',
         \A i \in (m + 1)..Len(stack) : \A c \in Owns(stack[i]) : Open(c)' \/ c \in ended',
         Continued(f, base) => Of(groups[f].no) \cap ended' # {}
  PROVE  FlatInv'
<1>1. Typed /\ SlotInv /\ Lists /\ Calls /\ Ends /\ Kept /\ JoinSound
  BY DEF IInv, FlatInv
<1>2. forkOf' = forkOf /\ forks' = forks /\ waits' = waits /\ wait_forks' = wait_forks
  OBVIOUS
<1>3. groups[f].cont \in Thread \cup {None} /\ blocked \in [Thread -> Nat] /\ Len(base) \in Nat
  BY <1>1, GroupFields DEF Typed
<1>4. /\ Len(stack') \in Nat /\ Len(stack') >= Len(base) /\ \A i \in 1..Len(base) : stack'[i] = base[i]
      /\ \A i \in (Len(base) + 1)..Len(stack') :
           stack'[i].k = "finished" \/ (stack'[i].k = "run" /\ stack'[i].th \in Processes)
  <2>1. CASE Quiet(base)
    <3>1. stack' = base /\ (Len(base) + 1)..Len(stack') = {}
      BY <1>3, <2>1 DEF Quiet
    <3> QED BY <1>3, <3>1
  <2>2. CASE Settles(f, base)
    <3>1. ASSUME Continued(f, base) PROVE groups[f].cont \in Processes
      <4>1. PICK u \in Thread : u = groups[f].cont
        BY <1>3, <3>1 DEF Continued
      <4>2. blocked[u] # 0
        BY <1>1, <3>1, <4>1, ContinuedThread DEF IInv
      <4> QED BY <1>1, <4>1, <4>2 DEF Lists
    <3> QED BY <1>1, <2>2, <3>1, SettleStack
  <2> QED BY <2>1, <2>2
<1>5. \A g \in Slots : groups'[g].active = groups[g].active /\ groups'[g].no = groups[g].no
  <2>1. groups' = groups \/ SlotKeeps(f)
    BY DEF Quiet, Settles, Lessens, Announces, Continued
  <2> QED BY <2>1 DEF SlotKeeps
<1>6. Lists'
  <2>1. \A t \in Thread : blocked'[t] # 0 => blocked[t] # 0
    <3>1. \/ blocked' = blocked
          \/ blocked' = [blocked EXCEPT ![groups[f].cont] = 0] /\ groups[f].cont # None
      BY DEF Quiet, Settles, Lessens, Announces, Continued
    <3> QED BY <1>3, <3>1
  <2> QED BY <1>1, <1>2, <2>1 DEF Lists
<1>7. Len(stack') >= m /\ \A i \in (m + 1)..Len(stack') : PlainFrame(stack'[i])
  <2>1. CASE Len(base) = m
    BY <1>4, <2>1 DEF PlainFrame
  <2>2. CASE Len(base) = m + 1
    <3> SUFFICES ASSUME NEW i \in (m + 1)..Len(stack') PROVE Len(stack') >= m /\ PlainFrame(stack'[i])
      BY <1>4, <2>2
    <3>1. i = m + 1 \/ i \in (Len(base) + 1)..Len(stack')
      BY <1>4, <2>2
    <3>2. CASE i = m + 1
      <4>1. stack'[i] = base[m + 1] /\ PlainFrame(base[m + 1])
        BY <1>4, <2>2, <3>2
      <4> QED BY <1>4, <2>2, <4>1
    <3>3. CASE i \in (Len(base) + 1)..Len(stack')
      BY <1>4, <2>2, <3>3 DEF PlainFrame
    <3> QED BY <3>1, <3>2, <3>3
  <2> QED BY <2>1, <2>2
<1>8. Calls'
  <2>1. \A i \in (m + 1)..Len(stack') : CallAt(i)'
    BY <1>7, PlainCall
  <2> QED BY <1>1, <1>4, <1>7, <2>1, CallsStep
<1>9. Ends' /\ Kept'
  BY <1>1, <1>2, <1>4, <1>5, <1>7, EndsStep, KeptStep
<1>10. JoinSound'
  <2>1. blocked' = blocked \/ Continued(f, base)
    BY DEF Quiet, Settles, Lessens, Announces
  <2> QED BY <1>1, <1>2, <1>9, <2>1, JoinsStep, JoinSettles
<1> QED BY <1>6, <1>8, <1>9, <1>10 DEF FlatInv

\* What BranchEnd does: the branch has returned, and the frame of its fork waits no more.
LEMMA BranchEndMoves ==
  ASSUME IInv, BranchEnd
  PROVE  \E f \in Slots, c \in Branch, y \in Frames, base \in Seq(Frames), x \in ForkFrame :
           /\ x = Top /\ f = x.fid /\ c = x.cur /\ base = Below \o <<y>>
           /\ y.k = "fork" /\ y.fid = f /\ y.parent = x.parent /\ y.cur = None /\ y.todo = x.todo
           /\ Owns(y) = x.todo /\ Owns(x) = x.todo \cup {c}
           /\ groups[f].active /\ forkOf[c] = groups[f].no
           /\ \/ ~ret /\ Quiet(base) /\ IsSuspended(c)
              \/ ret /\ Settles(f, base)
<1>1. stack # <<>> /\ Top.k = "fork" /\ Top.cur # None
  BY DEF BranchEnd, AtTop
<1>2. Typed /\ SlotInv /\ CallInv
  BY DEF IInv
<1>3. PICK m \in Nat :
        /\ Len(stack) = m + 1 /\ Top = stack[m + 1] /\ Top \in Frames /\ m + 1 \in 1..Len(stack)
        /\ Below \in Seq(Frames) /\ Len(Below) = m /\ \A i \in 1..m : Below[i] = stack[i]
  BY <1>1, <1>2, TopFrame
<1>4. PICK x \in ForkFrame : x = Top
  BY <1>1, <1>3, FrameFacts
<1>5. PICK f \in Slots : f = x.fid
  BY DEF ForkFrame
<1>a. ret \in BOOLEAN /\ x.any \in BOOLEAN
  BY <1>2 DEF Typed, ForkFrame
<1>b. PICK a \in BOOLEAN : a = (x.any \/ ret)
  BY <1>a
<1>6. PICK y : y = [x EXCEPT !.cur = None, !.any = a]
  OBVIOUS
<1>7. OwnedAt(m + 1) /\ LiveFork(x, FALSE) /\ x = stack[m + 1]
  <2>1. OwnedAt(m + 1) /\ LiveFork(stack[m + 1], m + 1 < Len(stack))
    BY <1>2, <1>3 DEF CallInv, Owned, Live
  <2>2. ~(m + 1 < Len(stack))
    BY <1>3
  <2>3. LiveFork(x, FALSE)
    BY <1>3, <1>4, <2>1, <2>2 DEF LiveFork
  <2> QED BY <1>3, <1>4, <2>1, <2>3
<1>8. x.cur # None /\ x.cur \notin x.todo
  BY <1>1, <1>4, <1>7 DEF OwnedAt, ForkFrame
<1>9. /\ y \in Frames /\ y.k = "fork" /\ y.fid = x.fid /\ y.parent = x.parent
      /\ y.todo = x.todo /\ y.cur = None /\ x.cur \in Branch /\ x.k = "fork"
      /\ Owns(y) = x.todo /\ Owns(x) = x.todo \cup {x.cur}
  <2>1. x \in ForkFrame /\ a \in BOOLEAN /\ None \in Branch \cup {None}
    BY <1>4, <1>b
  <2>2. y \in ForkFrame
    BY <1>6, <2>1 DEF ForkFrame
  <2>3. y.fid = x.fid /\ y.kind = x.kind /\ y.parent = x.parent /\ y.todo = x.todo /\ y.cur = None
    BY <1>6, <2>1 DEF ForkFrame
  <2> QED BY <1>8, <2>1, <2>2, <2>3, BranchBack
<1>10. PICK c \in Branch : c = x.cur
  BY <1>9
<1>11. groups[f].active /\ forkOf[c] = groups[f].no
  BY <1>5, <1>7, <1>9, <1>10 DEF LiveFork
<1>12. PICK base \in Seq(Frames) : base = Below \o <<y>>
  BY <1>3, <1>9, Push1
<1>13. base = Append(Below, [Top EXCEPT !.cur = None, !.any = @ \/ ret])
  <2>1. base = Append(Below, y)
    BY <1>3, <1>9, <1>12, AppendIsConcat
  <2>2. y = [Top EXCEPT !.cur = None, !.any = @ \/ ret]
    BY <1>4, <1>6, <1>a, <1>b
  <2> QED BY <2>1, <2>2
<1>14. CASE ~ret
  <2> DEFINE r == [g |-> groups, push |-> <<>>]
  <2>1. Perform(r, base) /\ Unblocked(r)
    BY <1>13, <1>14 DEF BranchEnd
  <2>2. r.g = groups /\ r.push = <<>>
    OBVIOUS
  <2>3. blocked' = blocked
    BY <1>2, <2>1, <2>2, UnblockedNone
  <2>4. Quiet(base)
    BY <2>1, <2>2, <2>3, PushNone DEF Perform, Quiet
  <2>5. IsSuspended(c)
    <3>1. Busy(x) /\ m + 1 = Len(stack)
      BY <1>3, <1>8, <1>9 DEF Busy
    <3> QED BY <1>7, <1>10, <1>14, <3>1 DEF OwnedAt
  <2> QED BY <1>4, <1>5, <1>9, <1>10, <1>11, <1>12, <1>14, <2>4, <2>5
<1>15. CASE ret
  <2>1. Perform(Decrement(groups, f), base) /\ Unblocked(Decrement(groups, f))
    BY <1>4, <1>5, <1>13, <1>15 DEF BranchEnd
  <2>2. Settles(f, base)
    <3>1. Continues(f)
      BY <1>2 DEF SlotInv, GroupInv
    <3> QED BY <1>2, <1>11, <2>1, <3>1, DecrementMoves
  <2> QED BY <1>4, <1>5, <1>9, <1>10, <1>11, <1>12, <1>15, <2>2
<1> QED BY <1>14, <1>15

LEMMA BranchEndFlat ==
  ASSUME IInv, FlatInv, IInv', BranchEnd
  PROVE  FlatInv'
<1>1. /\ stack # <<>> /\ Top.k = "fork" /\ suspended' = suspended /\ ended' = ended /\ ret' = ret
      /\ waits' = waits /\ wait_forks' = wait_forks /\ forkOf' = forkOf /\ forks' = forks
  BY DEF BranchEnd, AtTop
<1>2. Typed /\ CallInv /\ Calls
  BY DEF IInv, FlatInv
<1>3. PICK m \in Nat :
        /\ Len(stack) = m + 1 /\ Top = stack[m + 1] /\ Top \in Frames /\ m + 1 \in 1..Len(stack)
        /\ Below \in Seq(Frames) /\ Len(Below) = m /\ \A i \in 1..m : Below[i] = stack[i]
  BY <1>1, <1>2, TopFrame
<1>4. PICK f \in Slots, c \in Branch, y \in Frames, base \in Seq(Frames), x \in ForkFrame :
        /\ x = Top /\ f = x.fid /\ c = x.cur /\ base = Below \o <<y>>
        /\ y.k = "fork" /\ y.fid = f /\ y.parent = x.parent /\ y.cur = None /\ y.todo = x.todo
        /\ Owns(y) = x.todo /\ Owns(x) = x.todo \cup {c}
        /\ groups[f].active /\ forkOf[c] = groups[f].no
        /\ \/ ~ret /\ Quiet(base) /\ IsSuspended(c)
           \/ ret /\ Settles(f, base)
  BY BranchEndMoves
<1>5. Len(base) = m + 1 /\ base[m + 1] = y /\ \A i \in 1..m : base[i] = stack[i]
  BY <1>3, <1>4, Push1
<1>6. /\ Len(stack') \in Nat /\ Len(stack') >= m + 1 /\ \A i \in 1..(m + 1) : stack'[i] = base[i]
  <2>1. CASE Quiet(base)
    BY <1>5, <2>1 DEF Quiet
  <2>2. CASE Settles(f, base)
    BY <1>2, <1>5, <2>2, SettleStack
  <2> QED BY <1>4, <2>1, <2>2
<1>7. Keeps(m) /\ stack'[m + 1] = y
  BY <1>3, <1>5, <1>6 DEF Keeps
<1>8. CallAt(m + 1) /\ Busy(x) /\ x = stack[m + 1]
  BY <1>1, <1>2, <1>3, <1>4, Basics DEF Calls, Busy
<1>9. x.parent \in Processes /\ (ret => c \in ended)
  BY <1>1, <1>3, <1>4, <1>8 DEF CallAt, FrameFlat
<1>10. PlainFrame(base[m + 1])
  BY <1>4, <1>5, <1>9 DEF PlainFrame
<1>11. m > 0 => ~Busy(stack[m])
  BY <1>1, <1>2, <1>3, BelowOthers
<1>12. \A d \in Branch : IsSuspended(d) => Open(d)' \/ d \in ended'
  BY <1>1, StillSuspended
<1>13. \A i \in (m + 1)..Len(stack) : \A d \in Owns(stack[i]) : Open(d)' \/ d \in ended'
  <2> SUFFICES ASSUME NEW d \in Owns(stack[m + 1]) PROVE Open(d)' \/ d \in ended'
    BY <1>3
  <2>1. CASE d \in x.todo
    <3>1. d \in Owns(stack'[m + 1]) /\ m + 1 \in 1..Len(stack')
      BY <1>4, <1>6, <1>7, <2>1
    <3> QED BY <3>1 DEF Open, Owns
  <2>2. CASE d = c
    BY <1>1, <1>4, <1>9, <1>12, <2>2
  <2> QED BY <1>4, <1>8, <2>1, <2>2
<1>14. Continued(f, base) => Of(groups[f].no) \cap ended' # {}
  <2>1. ASSUME Continued(f, base), ~ret PROVE FALSE
    BY <1>4, <2>1 DEF Quiet, Continued, SlotKeeps
  <2>2. c \in Of(groups[f].no)
    BY <1>4 DEF Of, Branch
  <2> QED BY <1>1, <1>9, <2>1, <2>2
<1>15. UNCHANGED <<forkOf, forks, waits, wait_forks>> /\ ended \subseteq ended'
  BY <1>1
<1>16. Quiet(base) \/ Settles(f, base)
  BY <1>4
<1> QED BY <1>5, <1>7, <1>10, <1>11, <1>12, <1>13, <1>14, <1>15, <1>16, SettleFlat

\* What BranchResumed does.
LEMMA BranchResumedMoves ==
  ASSUME IInv, BranchResumed
  PROVE  /\ Len(stack) = 1 /\ Top = stack[1]
         /\ \E f \in Slots, c \in Branch, base \in Seq(Frames) :
              /\ f = Top.fid /\ c = Top.cur /\ base = Below /\ Len(base) = 0
              /\ groups[f].active /\ forkOf[c] = groups[f].no /\ Owns(Top) = {c} /\ Busy(Top)
              /\ \/ ~ret /\ Quiet(base) /\ IsSuspended(c)
                 \/ ret /\ Settles(f, base)
<1>1. stack # <<>> /\ Top.k = "branch"
  BY DEF BranchResumed, AtTop
<1>2. Typed /\ SlotInv /\ CallInv
  BY DEF IInv
<1>3. PICK m \in Nat :
        /\ Len(stack) = m + 1 /\ Top = stack[m + 1] /\ Top \in Frames /\ m + 1 \in 1..Len(stack)
        /\ Below \in Seq(Frames) /\ Len(Below) = m /\ \A i \in 1..m : Below[i] = stack[i]
  BY <1>1, <1>2, TopFrame
<1>4. ShapeAt(m + 1) /\ OwnedAt(m + 1) /\ LiveEnd(stack[m + 1])
  BY <1>2, <1>3 DEF CallInv, Owned, Live
<1>5. m = 0
  <2>1. m + 1 = 1
    BY <1>1, <1>3, <1>4 DEF ShapeAt
  <2> QED BY <1>3, <2>1
<1>6. PICK c \in Branch, f \in Slots : c = Top.cur /\ f = Top.fid
  BY <1>1, <1>3, FrameFacts
<1>7. groups[f].active /\ forkOf[c] = groups[f].no /\ Busy(stack[m + 1]) /\ Owns(stack[m + 1]) = {c}
  BY <1>1, <1>3, <1>4, <1>6, Basics DEF LiveEnd, Busy, Owns
<1>8. PICK base \in Seq(Frames) : base = Below /\ Len(base) = 0
  BY <1>3, <1>5
<1>c. /\ Len(stack) = 1 /\ Top = stack[1] /\ f = Top.fid /\ c = Top.cur /\ base = Below /\ Len(base) = 0
      /\ groups[f].active /\ forkOf[c] = groups[f].no /\ Owns(Top) = {c} /\ Busy(Top)
  BY <1>3, <1>5, <1>6, <1>7, <1>8
<1>9. CASE ~ret
  <2> DEFINE r == [g |-> groups, push |-> <<>>]
  <2>1. Perform(r, base) /\ Unblocked(r)
    BY <1>8, <1>9 DEF BranchResumed
  <2>2. r.g = groups /\ r.push = <<>>
    OBVIOUS
  <2>3. blocked' = blocked
    BY <1>2, <2>1, <2>2, UnblockedNone
  <2>4. Quiet(base)
    BY <2>1, <2>2, <2>3, PushNone DEF Perform, Quiet
  <2>5. IsSuspended(c)
    BY <1>3, <1>4, <1>6, <1>7, <1>9 DEF OwnedAt
  <2> QED BY <1>c, <1>9, <2>4, <2>5
<1>10. CASE ret
  <2>1. Perform(Decrement(groups, f), base) /\ Unblocked(Decrement(groups, f))
    BY <1>6, <1>8, <1>10 DEF BranchResumed
  <2>2. Settles(f, base)
    <3>1. Continues(f)
      BY <1>2 DEF SlotInv, GroupInv
    <3> QED BY <1>2, <1>7, <2>1, <3>1, DecrementMoves
  <2> QED BY <1>c, <1>10, <2>2
<1> QED BY <1>9, <1>10

LEMMA KeepsNothing ==
  ASSUME Typed, NEW f \in Slots, NEW base \in Seq(Frames), Quiet(base) \/ Settles(f, base),
         NEW m \in Nat, m = 0, Len(stack) \in {0, 1}
  PROVE  Keeps(m)
<1>1. Len(stack) \in Nat /\ Len(stack') \in Nat
  <2>1. CASE Quiet(base)
    BY <2>1 DEF Quiet, Typed
  <2>2. CASE Settles(f, base)
    BY <2>2, SettleStack DEF Typed
  <2> QED BY <2>1, <2>2
<1> QED BY <1>1 DEF Keeps

LEMMA BranchResumedFlat ==
  ASSUME IInv, FlatInv, IInv', BranchResumed
  PROVE  FlatInv'
<1>1. /\ stack # <<>> /\ Top.k = "branch" /\ suspended' = suspended /\ ended' = ended /\ ret' = ret
      /\ waits' = waits /\ wait_forks' = wait_forks /\ forkOf' = forkOf /\ forks' = forks
  BY DEF BranchResumed, AtTop
<1>2. Typed /\ CallInv /\ Calls
  BY DEF IInv, FlatInv
<1>3. PICK f \in Slots, c \in Branch, base \in Seq(Frames) :
        /\ f = Top.fid /\ c = Top.cur /\ base = Below /\ Len(base) = 0
        /\ groups[f].active /\ forkOf[c] = groups[f].no /\ Owns(Top) = {c} /\ Busy(Top)
        /\ \/ ~ret /\ Quiet(base) /\ IsSuspended(c)
           \/ ret /\ Settles(f, base)
  BY BranchResumedMoves
<1>4. PICK m \in Nat : m = 0
  OBVIOUS
<1>5. Len(stack) = 1 /\ Top = stack[1]
  BY BranchResumedMoves
<1>6. Quiet(base) \/ Settles(f, base)
  BY <1>3
<1>7. Keeps(m)
  BY <1>2, <1>4, <1>5, <1>6, KeepsNothing
<1>8. ret => c \in ended
  <2>1. CallAt(1)
    BY <1>2, <1>5 DEF Calls
  <2> QED BY <1>3, <1>5, <2>1 DEF CallAt
<1>12. \A d \in Branch : IsSuspended(d) => Open(d)' \/ d \in ended'
  BY <1>1, StillSuspended
<1>13. \A i \in (m + 1)..Len(stack) : \A d \in Owns(stack[i]) : Open(d)' \/ d \in ended'
  <2> SUFFICES ASSUME NEW d \in Owns(stack[1]) PROVE Open(d)' \/ d \in ended'
    BY <1>4, <1>5
  <2> QED BY <1>1, <1>3, <1>5, <1>8, <1>12
<1>14. Continued(f, base) => Of(groups[f].no) \cap ended' # {}
  <2>1. ASSUME Continued(f, base), ~ret PROVE FALSE
    BY <1>3, <2>1 DEF Quiet, Continued, SlotKeeps
  <2>2. c \in Of(groups[f].no)
    BY <1>3 DEF Of, Branch
  <2> QED BY <1>1, <1>8, <2>1, <2>2
<1>15. UNCHANGED <<forkOf, forks, waits, wait_forks>> /\ ended \subseteq ended'
  BY <1>1
<1>16. Len(base) = m /\ ~(m > 0)
  BY <1>3, <1>4
<1> QED BY <1>6, <1>7, <1>12, <1>13, <1>14, <1>15, <1>16, SettleFlat

LEMMA SkipFlat ==
  ASSUME IInv, FlatInv, IInv', NEW s \in suspended, stack = <<>>, suspended' = suspended \ {s},
         s.fid # None,
         Perform(Decrement(groups, s.fid), <<>>), Unblocked(Decrement(groups, s.fid)),
         ended' = ended \cup {s.th}, UNCHANGED <<waits, wait_forks, forkOf, forks>>
  PROVE  FlatInv'
<1>1. waits' = waits /\ wait_forks' = wait_forks /\ forkOf' = forkOf /\ forks' = forks
  OBVIOUS
<1>2. Typed /\ SlotInv /\ CallInv /\ OnePlace
  BY DEF IInv
<1>3. PICK f \in Slots, c \in Branch : f = s.fid /\ c = s.th
  BY <1>2, SuspendedThread DEF CallInv
<1>4. groups[f].active /\ forkOf[c] = groups[f].no
  BY <1>2, <1>3, SuspendedThread DEF CallInv
<1>5. PICK base \in Seq(Frames) : base = <<>> /\ Len(base) = 0
  <2>1. <<>> \in Seq(Frames) /\ Len(<<>>) = 0
    OBVIOUS
  <2> QED BY <2>1
<1>6. PICK m \in Nat : m = 0
  OBVIOUS
<1>7. Perform(Decrement(groups, f), base) /\ Unblocked(Decrement(groups, f))
  BY <1>3, <1>5
<1>8. Settles(f, base)
  <2>1. Continues(f)
    BY <1>2 DEF SlotInv, GroupInv
  <2> QED BY <1>2, <1>4, <1>7, <2>1, DecrementMoves
<1>9. Keeps(m)
  <2>1. Len(stack) = 0
    OBVIOUS
  <2> QED BY <1>2, <1>6, <1>8, <2>1, KeepsNothing
<1>10. \A d \in Branch : IsSuspended(d) => Open(d)' \/ d \in ended'
  BY <1>3 DEF IsSuspended, Open
<1>11. Len(base) = m /\ ~(m > 0) /\ Len(stack) = 0 /\ (m + 1)..Len(stack) = {}
  BY <1>5, <1>6
<1>12. \A i \in (m + 1)..Len(stack) : \A d \in Owns(stack[i]) : Open(d)' \/ d \in ended'
  BY <1>11
<1>13. Continued(f, base) => Of(groups[f].no) \cap ended' # {}
  <2>1. c \in Of(groups[f].no)
    BY <1>4 DEF Of, Branch
  <2> QED BY <1>3, <2>1
<1> QED BY <1>1, <1>8, <1>9, <1>10, <1>11, <1>12, <1>13, SettleFlat
-----------------------------------------------------------------------------
(* Every action keeps the invariant: the other calls that are not finished.   *)

\* The frame "close", and that of a join or join_any whose branches are all started.
LEMMA FinishFlat ==
  ASSUME IInv, FlatInv, IInv', stack # <<>>, Top.k \in {"close", "fork"}, Owns(Top) = {},
         NEW f \in Slots, NEW base \in Seq(Frames),
         base = Below \/ base = Append(Below, Frame("close", f)),
         Quiet(base) \/ Announces(f, base),
         UNCHANGED <<suspended, waits, wait_forks, forkOf, forks, ended>>
  PROVE  FlatInv'
<1>1. Typed /\ CallInv
  BY DEF IInv
<1>2. PICK m \in Nat :
        /\ Len(stack) = m + 1 /\ Top = stack[m + 1] /\ Top \in Frames /\ m + 1 \in 1..Len(stack)
        /\ Below \in Seq(Frames) /\ Len(Below) = m /\ \A i \in 1..m : Below[i] = stack[i]
  BY <1>1, TopFrame
<1>3. PICK c \in Frames : c = Frame("close", f)
  BY FrameTypes
<1>4. /\ \A i \in 1..m : base[i] = stack[i]
      /\ Len(base) = m \/ (Len(base) = m + 1 /\ PlainFrame(base[m + 1]))
  <2>1. CASE base = Below
    BY <1>2, <2>1
  <2>2. CASE base = Append(Below, Frame("close", f))
    <3>1. base = Below \o <<c>>
      BY <1>2, <1>3, <2>2, AppendIsConcat
    <3>2. PlainFrame(c)
      BY <1>3 DEF PlainFrame, Frame
    <3> QED BY <1>2, <3>1, <3>2, Push1
  <2> QED BY <2>1, <2>2
<1>5. /\ Len(stack') \in Nat /\ Len(stack') >= Len(base) /\ \A i \in 1..Len(base) : stack'[i] = base[i]
  <2>1. CASE Quiet(base)
    BY <2>1 DEF Quiet
  <2>2. CASE Announces(f, base)
    BY <1>1, <2>2, SettleStack DEF Settles
  <2> QED BY <2>1, <2>2
<1>6. Keeps(m)
  <2>1. \A i \in 1..m : i \in 1..Len(base)
    BY <1>4
  <2>2. m <= Len(stack') /\ \A i \in 1..m : stack'[i] = stack[i]
    BY <1>4, <1>5, <2>1
  <2> QED BY <1>2, <2>2 DEF Keeps
<1>7. m > 0 => ~Busy(stack[m])
  BY <1>1, <1>2, BelowOthers
<1>8. \A d \in Branch : IsSuspended(d) => Open(d)' \/ d \in ended'
  BY StillSuspended
<1>9. \A i \in (m + 1)..Len(stack) : \A d \in Owns(stack[i]) : Open(d)' \/ d \in ended'
  BY <1>2
<1>10. ~Continued(f, base)
  BY DEF Quiet, Announces, Continued
<1>11. Quiet(base) \/ Settles(f, base)
  BY DEF Settles
<1>12. UNCHANGED <<forkOf, forks, waits, wait_forks>> /\ ended \subseteq ended'
  OBVIOUS
<1> QED BY <1>4, <1>6, <1>7, <1>8, <1>9, <1>10, <1>11, <1>12, SettleFlat

LEMMA CloseMoves ==
  ASSUME IInv, Close
  PROVE  \E f \in Slots, base \in Seq(Frames) :
           f = Top.fid /\ base = Below /\ (Quiet(base) \/ Announces(f, base)) /\ Owns(Top) = {}
<1>1. /\ stack # <<>> /\ Top.k = "close"
      /\ Perform(Finish(groups, Top.fid), Below) /\ Unblocked(Finish(groups, Top.fid))
  BY DEF Close, AtTop
<1>2. Typed /\ SlotInv
  BY DEF IInv
<1>3. Top \in Frames /\ Below \in Seq(Frames)
  BY <1>1, <1>2, TopFrame
<1>4. PICK f \in Slots : f = Top.fid
  BY <1>1, <1>3, FrameFacts
<1>5. Continues(f)
  BY <1>2 DEF SlotInv, GroupInv
<1>6. Quiet(Below) \/ (Announces(f, Below) /\ groups[f].remaining = 0)
  BY <1>1, <1>2, <1>3, <1>4, <1>5, FinishMoves
<1>7. Owns(Top) = {}
  BY <1>1, InertFacts DEF Inert
<1> QED BY <1>3, <1>4, <1>6, <1>7

LEMMA JoinedMoves ==
  ASSUME IInv, Joined, Top.kind # "all"
  PROVE  \E f \in Slots, base \in Seq(Frames) :
           /\ f = Top.fid /\ (base = Below \/ base = Append(Below, Frame("close", f)))
           /\ Quiet(base) \/ Announces(f, base)
           /\ Owns(Top) = {}
<1>1. stack # <<>> /\ Top.k = "fork" /\ Top.cur = None /\ Top.todo = {}
  BY DEF Joined, AtTop
<1>2. Typed /\ SlotInv /\ CallInv
  BY DEF IInv
<1>3. PICK m \in Nat :
        /\ Len(stack) = m + 1 /\ Top = stack[m + 1] /\ Top \in Frames /\ m + 1 \in 1..Len(stack)
        /\ Below \in Seq(Frames) /\ Len(Below) = m
  BY <1>1, <1>2, TopFrame
<1>4. PICK f \in Slots : f = Top.fid
  BY <1>1, <1>3, FrameFacts
<1>5. Continues(f) /\ groups[f].remaining \in Nat
  BY <1>2, GroupFields DEF SlotInv, GroupInv, Typed
<1>6. Owns(Top) = {}
  BY <1>1 DEF Owns
<1>7. CASE Top.kind = "join"
  <2>1. Perform(Finish(groups, f), Below) /\ Unblocked(Finish(groups, f))
    BY <1>4, <1>7 DEF Joined
  <2>2. Quiet(Below) \/ (Announces(f, Below) /\ groups[f].remaining = 0)
    BY <1>2, <1>3, <1>5, <2>1, FinishMoves
  <2> QED BY <1>3, <1>4, <1>6, <2>2
<1>8. CASE Top.kind = "any"
  <2>0. PICK base \in Seq(Frames) : base = Append(Below, Frame("close", f))
    <3>1. Frame("close", f) \in Frames
      BY FrameTypes
    <3> QED BY <1>3, <3>1, AppendProperties
  <2>1. CASE Top.any
    <3>1. Perform(Decrement(groups, f), base) /\ Unblocked(Decrement(groups, f))
      BY <1>4, <1>8, <2>0, <2>1 DEF Joined
    <3>2. groups[f].active /\ groups[f].remaining = 0
      BY <1>1, <1>2, <1>3, <1>4, <1>8, <2>1 DEF CallInv, Live, LiveFork
    <3>3. Settles(f, base)
      BY <1>2, <1>5, <3>1, <3>2, DecrementMoves
    <3>4. Announces(f, base)
      BY <3>2, <3>3 DEF Settles, Lessens, Continued
    <3> QED BY <1>4, <1>6, <2>0, <3>4
  <2>2. CASE ~Top.any
    <3> DEFINE r == [g |-> groups, push |-> <<>>]
    <3>1. Perform(r, base) /\ Unblocked(r)
      BY <1>4, <1>8, <2>0, <2>2 DEF Joined
    <3>2. r.g = groups /\ r.push = <<>>
      OBVIOUS
    <3>3. blocked' = blocked
      BY <1>2, <3>1, <3>2, UnblockedNone
    <3>4. Quiet(base)
      BY <3>1, <3>2, <3>3, PushNone DEF Perform, Quiet
    <3> QED BY <1>4, <1>6, <2>0, <3>4
  <2> QED BY <2>1, <2>2
<1> QED BY <1>7, <1>8 DEF Joined

LEMMA CloseFlat ==
  ASSUME IInv, FlatInv, IInv', Close
  PROVE  FlatInv'
<1>1. PICK f \in Slots, base \in Seq(Frames) :
        f = Top.fid /\ base = Below /\ (Quiet(base) \/ Announces(f, base)) /\ Owns(Top) = {}
  BY CloseMoves
<1>2. stack # <<>> /\ Top.k = "close" /\ UNCHANGED <<suspended, waits, wait_forks, forkOf, forks, ended>>
  BY DEF Close, AtTop
<1> QED BY <1>1, <1>2, FinishFlat

LEMMA JoinedFlat ==
  ASSUME IInv, FlatInv, IInv', Joined, Top.kind # "all"
  PROVE  FlatInv'
<1>1. PICK f \in Slots, base \in Seq(Frames) :
        /\ f = Top.fid /\ (base = Below \/ base = Append(Below, Frame("close", f)))
        /\ Quiet(base) \/ Announces(f, base)
        /\ Owns(Top) = {}
  BY JoinedMoves
<1>2. stack # <<>> /\ Top.k = "fork" /\ UNCHANGED <<suspended, waits, wait_forks, forkOf, forks, ended>>
  BY DEF Joined, AtTop
<1> QED BY <1>1, <1>2, FinishFlat

\* The frames that succeed one that waits for no branch and starts none are plain.
Plain(x) == x.k \in {"true", "close", "finished", "resumed"} \/ (x.k = "fork" /\ Owns(x) = {})

LEMMA SuccessorPlain ==
  ASSUME Typed, SlotInv, FlatInv, stack # <<>>, Plain(Top), NEW x, Succeeds(x)
  PROVE  PlainFrame(x)
<1>1. Lists /\ Calls
  BY DEF FlatInv
<1>2. PICK m \in Nat :
        /\ Len(stack) = m + 1 /\ Top = stack[m + 1] /\ Top \in Frames /\ m + 1 \in 1..Len(stack)
  BY TopFrame
<1>3. FrameFlat(Top)
  BY <1>1, <1>2 DEF Calls, CallAt, FrameFlat
<1>4. Top.k = "fork" => /\ Top.cur = None /\ Top.todo = {} /\ Top.parent \in Processes
                        /\ Top.fid \in Slots
  BY <1>2, <1>3, FrameFacts DEF Plain, Owns, FrameFlat
<1>5. \A f \in Slots : groups[f].cont # None => groups[f].cont \in Processes
  <2> SUFFICES ASSUME NEW f \in Slots, groups[f].cont # None PROVE groups[f].cont \in Processes
    OBVIOUS
  <2>1. groups[f].cont \in Thread
    BY GroupFields DEF Typed
  <2>2. blocked[groups[f].cont] = groups[f].no /\ groups[f].no \in 1..Len(forks)
    BY DEF SlotInv, GroupInv, Identified, Continues
  <2> QED BY <1>1, <2>1, <2>2 DEF Lists
<1>6. CASE x.k = "true" \/ x = Top \/ x.k \in {"close", "finished", "retire"}
  BY <1>3, <1>4, <1>6 DEF Plain, PlainFrame, FrameFlat
<1>7. CASE x.k = "run" /\ x # Top
  BY <1>3, <1>4, <1>5, <1>7 DEF Plain, PlainFrame, FrameFlat, Succeeds
<1>8. CASE x.k = "resumed" /\ x # Top
  BY <1>1, <1>3, <1>8 DEF Plain, PlainFrame, FrameFlat, Succeeds, Resumable, Lists
<1>9. CASE x.k = "fork" /\ x # Top
  BY <1>4, <1>9 DEF Plain, PlainFrame, Succeeds
<1> QED BY <1>6, <1>7, <1>8, <1>9 DEF Succeeds

LEMMA PlainFlat ==
  ASSUME IInv, FlatInv, stack # <<>>, Plain(Top), Succession,
         UNCHANGED <<suspended, waits, forkOf, forks, blocked, ended>>,
         \A g \in Slots : groups'[g].active = groups[g].active /\ groups'[g].no = groups[g].no,
         Lists'
  PROVE  FlatInv'
<1>1. Typed /\ SlotInv /\ CallInv
  BY DEF IInv
<1>2. PICK m \in Nat : SucceedsAt(m)
  BY DEF Succession
<1>3. /\ Keeps(m) /\ Len(stack) = m + 1 /\ Top = stack[m + 1] /\ Len(stack') \in Nat /\ Len(stack') >= m
      /\ \A i \in (m + 1)..Len(stack') : Succeeds(stack'[i])
  BY <1>2 DEF SucceedsAt
<1>4. \A i \in (m + 1)..Len(stack') : CallAt(i)'
  <2> SUFFICES ASSUME NEW i \in (m + 1)..Len(stack') PROVE CallAt(i)'
    OBVIOUS
  <2>1. PlainFrame(stack'[i])
    BY <1>1, <1>3, SuccessorPlain
  <2> QED BY <2>1, PlainCall
<1>5. ~(m > 0 /\ Busy(stack[m]))
  <2>1. m > 0 => CallAt(m)
    BY <1>3 DEF FlatInv, Calls
  <2> QED BY <1>3, <2>1 DEF CallAt, Plain
<1>6. \A d \in Branch : IsSuspended(d) => Open(d)' \/ d \in ended'
  BY StillSuspended
<1>7. \A i \in (m + 1)..Len(stack) : \A d \in Owns(stack[i]) : Open(d)' \/ d \in ended'
  BY <1>3 DEF Plain, Owns
<1>8. forkOf' = forkOf /\ forks' = forks /\ blocked' = blocked /\ ended \subseteq ended'
  OBVIOUS
<1> QED BY <1>3, <1>4, <1>5, <1>6, <1>7, <1>8, FlatStep

LEMMA JoinedAllMoves ==
  ASSUME IInv, Joined, Top.kind = "all"
  PROVE  /\ stack # <<>> /\ Plain(Top) /\ Succession
         /\ UNCHANGED <<name, suspended, waits, wait_forks, forkOf, forks, blocked, ended>>
         /\ \A g \in Slots : /\ groups'[g].active = groups[g].active /\ groups'[g].no = groups[g].no
                             /\ groups'[g].spawner = groups[g].spawner
                             /\ groups'[g].disabled = groups[g].disabled
                             /\ groups'[g].cont = groups[g].cont
<1>1. /\ stack # <<>> /\ Top.k = "fork" /\ Top.cur = None /\ Top.todo = {}
      /\ groups' = [groups EXCEPT ![Top.fid].fired = TRUE]
      /\ stack' = Below \o <<Frame("close", Top.fid), Run(Top.parent, None)>>
      /\ UNCHANGED <<name, suspended, waits, wait_forks, forkOf, forks, blocked, ended>>
  BY DEF Joined, AtTop
<1>2. Typed
  BY DEF IInv
<1>3. PICK f \in Slots, u \in Thread : f = Top.fid /\ u = Top.parent
  BY <1>1, <1>2, TopFrame, FrameFacts
<1>4. PICK c \in Frames, r \in Frames : c = Frame("close", f) /\ r = Run(u, None)
  BY FrameTypes
<1>5. Succeeds(c) /\ Succeeds(r)
  BY <1>1, <1>3, <1>4 DEF Succeeds, Refers, Frame, Run
<1>6. stack' = Below \o <<c, r>>
  BY <1>1, <1>3, <1>4
<1>7. Succession
  BY <1>1, <1>2, <1>5, <1>6, Succession2
<1>8. Plain(Top)
  BY <1>1 DEF Plain, Owns
<1>9. \A g \in Slots : /\ groups'[g].active = groups[g].active /\ groups'[g].no = groups[g].no
                       /\ groups'[g].spawner = groups[g].spawner
                       /\ groups'[g].disabled = groups[g].disabled
                       /\ groups'[g].cont = groups[g].cont
  <2> TAKE g \in Slots
  <2>1. groups[g] \in Group /\ groups \in [Slots -> Group]
    BY <1>2 DEF Typed
  <2>2. groups'[g] = groups[g] \/ groups'[g] = [groups[g] EXCEPT !.fired = TRUE]
    BY <1>1, <1>3, <2>1
  <2> QED BY <2>1, <2>2 DEF Group
<1> QED BY <1>1, <1>7, <1>8, <1>9

LEMMA JoinedAllFlat ==
  ASSUME IInv, FlatInv, IInv', Joined, Top.kind = "all"
  PROVE  FlatInv'
<1>1. /\ stack # <<>> /\ Plain(Top) /\ Succession
      /\ UNCHANGED <<name, suspended, waits, wait_forks, forkOf, forks, blocked, ended>>
      /\ \A g \in Slots : groups'[g].active = groups[g].active /\ groups'[g].no = groups[g].no
  BY JoinedAllMoves
<1>2. Lists'
  BY <1>1, ListsKept DEF FlatInv
<1> QED BY <1>1, <1>2, PlainFlat

LEMMA ReturnTrueFlat ==
  ASSUME IInv, FlatInv, IInv', ReturnTrue
  PROVE  FlatInv'
<1>1. /\ stack # <<>> /\ Top.k = "true" /\ stack' = Below
      /\ UNCHANGED <<groups, suspended, waits, wait_forks, forkOf, forks, blocked, ended>>
  BY DEF ReturnTrue, AtTop, engine, history
<1>2. Succession /\ Plain(Top)
  BY <1>1, Succession0 DEF Plain, IInv
<1>3. Lists'
  BY <1>1, ListsKept DEF FlatInv
<1> QED BY <1>1, <1>2, <1>3, PlainFlat

LEMMA FinishedMoves ==
  ASSUME IInv, Finished
  PROVE  /\ stack # <<>> /\ Top.k = "finished" /\ Succession /\ Resumable(Top.fid) \subseteq wait_forks
         /\ Top.fid \in Slots
         /\ wait_forks' = {Less(w, Top.fid) : w \in wait_forks \ Resumable(Top.fid)}
         /\ UNCHANGED <<groups, name, suspended, waits, left, forkOf, forks, blocked, ended, doomed>>
<1> DEFINE R == Resumable(Top.fid)
<1>1. /\ stack # <<>> /\ Top.k = "finished"
      /\ wait_forks' = {Less(w, Top.fid) : w \in wait_forks \ R}
      /\ UNCHANGED <<groups, name, suspended, waits, left, forkOf, forks, blocked, ended, doomed>>
  BY DEF Finished, AtTop, history, Less
<1>2. Typed /\ R \subseteq wait_forks
  BY DEF IInv, Resumable
<1>3. PICK f \in Slots : f = Top.fid
  BY <1>1, <1>2, TopFrame, FrameFacts
<1>4. PICK y : y = [k |-> "resumed", rest |-> R]
  OBVIOUS
<1>5. y \in Frames /\ Succeeds(y)
  <2>1. y.k = "resumed" /\ y.rest = R /\ R \in SUBSET Waiter
    BY <1>2, <1>4 DEF Typed
  <2>2. y \in Frames
    BY <1>4, <2>1, FrameTypes
  <2> QED BY <1>1, <2>1, <2>2 DEF Succeeds
<1>6. Below \in Seq(Frames)
  BY <1>1, <1>2, TopFrame
<1>7. CASE groups[f].reclaimable
  <2>1. PICK x \in Frames : x = Frame("retire", f)
    BY FrameTypes
  <2>2. Succeeds(x)
    BY <1>1, <1>3, <2>1 DEF Succeeds, Refers, Frame
  <2>3. stack' = (Below \o <<x>>) \o <<y>>
    BY <1>3, <1>4, <1>7, <2>1 DEF Finished
  <2>4. stack' = Below \o <<x, y>>
    BY <1>5, <1>6, <2>3, PushTwice
  <2>5. Succession
    BY <1>1, <1>2, <1>5, <2>2, <2>4, Succession2
  <2> QED BY <1>1, <1>2, <1>3, <2>5
<1>8. CASE ~groups[f].reclaimable
  <2>1. stack' = (Below \o <<>>) \o <<y>>
    BY <1>3, <1>4, <1>8 DEF Finished
  <2>2. stack' = Below \o <<y>>
    BY <1>6, <2>1, PushNone
  <2>3. Succession
    BY <1>1, <1>2, <1>5, <2>2, Succession1
  <2> QED BY <1>1, <1>2, <1>3, <2>3
<1> QED BY <1>7, <1>8

LEMMA FinishedFlat ==
  ASSUME IInv, FlatInv, IInv', Finished
  PROVE  FlatInv'
<1>1. /\ stack # <<>> /\ Top.k = "finished" /\ Succession
      /\ wait_forks' = {Less(w, Top.fid) : w \in wait_forks \ Resumable(Top.fid)}
      /\ UNCHANGED <<groups, name, suspended, waits, left, forkOf, forks, blocked, ended, doomed>>
  BY FinishedMoves
<1>2. Plain(Top)
  BY <1>1 DEF Plain
<1>3. Lists'
  <2>1. Lists /\ wait_forks \subseteq Waiter
    BY DEF FlatInv, IInv, Typed
  <2>2. \A w \in wait_forks : Less(w, Top.fid).th = w.th
    BY <2>1 DEF Less, Waiter
  <2> QED BY <1>1, <2>1, <2>2 DEF Lists
<1> QED BY <1>1, <1>2, <1>3, PlainFlat

LEMMA ResumeWaitForkMoves ==
  ASSUME IInv, ResumeWaitFork
  PROVE  /\ stack # <<>> /\ Top.k = "resumed" /\ Succession
         /\ UNCHANGED <<groups, suspended, waits, wait_forks, left, forkOf, forks, blocked, ended, doomed>>
<1>1. /\ stack # <<>> /\ Top.k = "resumed"
      /\ UNCHANGED <<groups, suspended, waits, wait_forks, left, forkOf, forks, blocked, ended, doomed>>
  BY DEF ResumeWaitFork, AtTop, history
<1>2. Typed
  BY DEF IInv
<1>3. Top \in Frames /\ Top \in ResumedFrame /\ Top.rest \subseteq Waiter
  BY <1>1, <1>2, TopFrame, FrameFacts
<1>4. CASE stack' = Below
  BY <1>1, <1>2, <1>4, Succession0
<1>5. ASSUME NEW w \in Top.rest,
             stack' = Below \o <<[Top EXCEPT !.rest = @ \ {w}], Run(w.th, None)>>
      PROVE  Succession
  <2>1. PICK R : R = Top.rest \ {w}
    OBVIOUS
  <2>2. PICK x : x = [Top EXCEPT !.rest = R]
    OBVIOUS
  <2>3. x = [k |-> "resumed", rest |-> R]
    BY <1>3, <2>2 DEF ResumedFrame
  <2>4. R \in SUBSET Waiter /\ R \subseteq Top.rest
    BY <1>3, <2>1
  <2>5. x \in Frames
    BY <2>3, <2>4, FrameTypes
  <2>6. w.th \in Thread
    BY <1>3 DEF Waiter
  <2>7. PICK r \in Frames : r = Run(w.th, None)
    BY <2>6, FrameTypes
  <2>8. Succeeds(x) /\ Succeeds(r)
    BY <1>1, <2>3, <2>4, <2>7 DEF Succeeds, Run
  <2>9. stack' = Below \o <<x, r>>
    BY <1>5, <2>1, <2>2, <2>7
  <2> QED BY <1>1, <1>2, <2>5, <2>8, <2>9, Succession2
<1> QED BY <1>1, <1>4, <1>5 DEF ResumeWaitFork

LEMMA ResumeWaitForkFlat ==
  ASSUME IInv, FlatInv, IInv', ResumeWaitFork
  PROVE  FlatInv'
<1>1. /\ stack # <<>> /\ Top.k = "resumed" /\ Succession
      /\ UNCHANGED <<groups, suspended, waits, wait_forks, left, forkOf, forks, blocked, ended, doomed>>
  BY ResumeWaitForkMoves
<1>2. Plain(Top)
  BY <1>1 DEF Plain
<1>3. Lists'
  BY <1>1, ListsKept DEF FlatInv
<1> QED BY <1>1, <1>2, <1>3, PlainFlat
-----------------------------------------------------------------------------
(* Every action keeps the invariant: a branch starts, a slot is retired, a     *)
(* thread forks.                                                             *)

LEMMA StartBranchFlat ==
  ASSUME IInv, FlatInv, IInv', StartBranch
  PROVE  FlatInv'
<1>0. PICK c \in Top.todo : stack' = Below \o <<[Top EXCEPT !.cur = c, !.todo = @ \ {c}], Run(c, Top.fid)>>
  BY DEF StartBranch
<1>1. /\ stack # <<>> /\ Top.k = "fork" /\ Top.cur = None
      /\ groups' = groups /\ suspended' = suspended /\ waits' = waits /\ wait_forks' = wait_forks
      /\ forkOf' = forkOf /\ forks' = forks /\ blocked' = blocked /\ ended' = ended
  BY DEF StartBranch, AtTop, engine, history
<1>2. Typed /\ CallInv /\ Calls /\ Lists
  BY DEF IInv, FlatInv
<1>3. PICK m \in Nat :
        /\ Len(stack) = m + 1 /\ Top = stack[m + 1] /\ Top \in Frames /\ m + 1 \in 1..Len(stack)
        /\ Below \in Seq(Frames) /\ Len(Below) = m /\ \A i \in 1..m : Below[i] = stack[i]
  BY <1>1, <1>2, TopFrame
<1>4. PICK x \in ForkFrame : x = Top
  BY <1>1, <1>3, FrameFacts
<1>5. PICK f \in Slots : f = x.fid
  BY DEF ForkFrame
<1>6. /\ c \in Branch /\ c \in x.todo /\ x.k = "fork" /\ x.cur = None /\ x.todo \subseteq Branch
      /\ x = stack[m + 1] /\ c # None
  BY <1>1, <1>3, <1>4, Basics DEF ForkFrame
<1>7. PICK y : y = [x EXCEPT !.cur = c, !.todo = @ \ {c}]
  OBVIOUS
<1>8. /\ y \in Frames /\ y.k = "fork" /\ y.fid = f /\ y.parent = x.parent
      /\ y.todo = x.todo \ {c} /\ y.cur = c
  <2>1. y \in ForkFrame
    BY <1>6, <1>7 DEF ForkFrame
  <2>2. y.k = "fork" /\ y.fid = f /\ y.parent = x.parent /\ y.todo = x.todo \ {c} /\ y.cur = c
    BY <1>5, <1>6, <1>7 DEF ForkFrame
  <2> QED BY <2>1, <2>2 DEF Frames
<1>9. PICK r \in Frames : r = Run(c, f)
  BY <1>6, FrameTypes, Basics
<1>10. r.k = "run" /\ r.th = c /\ r.fid = f
  BY <1>9 DEF Run
<1>11. /\ Keeps(m) /\ Len(stack') = m + 2 /\ stack'[m + 1] = y /\ stack'[m + 2] = r
       /\ (m + 1)..Len(stack') = {m + 1, m + 2}
  <2>1. stack' = Below \o <<y, r>>
    BY <1>0, <1>4, <1>5, <1>7, <1>9
  <2> QED BY <1>2, <1>3, <1>8, <2>1, PushStack2
<1>12. Owns(x) = x.todo /\ Owns(y) = x.todo /\ Busy(y)
  BY <1>6, <1>8 DEF Owns, Busy
<1>13. x.parent \in Processes
  BY <1>2, <1>3, <1>6 DEF Calls, CallAt, FrameFlat
<1>14. CallAt(m + 1)'
  <2>1. m + 1 # Len(stack') /\ stack'[(m + 1) + 1].k = "run"
    BY <1>10, <1>11
  <2> QED BY <1>8, <1>11, <1>13, <2>1 DEF CallAt, FrameFlat
<1>15. CallAt(m + 2)'
  <2>1. (m + 2) - 1 = m + 1 /\ m + 2 > 1
    OBVIOUS
  <2>2. Busy(stack'[(m + 2) - 1])
    BY <1>11, <1>12, <2>1
  <2>3. stack'[m + 2].k = "run" /\ ~Busy(stack'[m + 2])
    BY <1>10, <1>11 DEF Busy
  <2> QED BY <2>1, <2>2, <2>3 DEF CallAt, FrameFlat, Busy
<1>16. \A i \in (m + 1)..Len(stack') : CallAt(i)'
  <2> SUFFICES ASSUME NEW i \in (m + 1)..Len(stack') PROVE CallAt(i)'
    OBVIOUS
  <2>1. i = m + 1 \/ i = m + 2
    BY <1>11
  <2> QED BY <1>14, <1>15, <2>1
<1>17. ~(m > 0 /\ Busy(stack[m]))
  BY <1>2, <1>3, <1>6, BelowOthers
<1>18. \A d \in Branch : IsSuspended(d) => Open(d)' \/ d \in ended'
  BY <1>1, StillSuspended
<1>19. \A i \in (m + 1)..Len(stack) : \A d \in Owns(stack[i]) : Open(d)' \/ d \in ended'
  <2> SUFFICES ASSUME NEW d \in Owns(stack[m + 1]) PROVE Open(d)'
    BY <1>3
  <2>1. d \in Owns(stack'[m + 1]) /\ m + 1 \in 1..Len(stack')
    BY <1>6, <1>11, <1>12
  <2> QED BY <2>1 DEF Open, Owns
<1>20. Lists'
  BY <1>1, <1>2, ListsKept
<1>21. \A g \in Slots : groups'[g].active = groups[g].active /\ groups'[g].no = groups[g].no
  BY <1>1
<1>22. Len(stack') \in Nat /\ Len(stack') >= m /\ ended \subseteq ended'
  BY <1>1, <1>11
<1> QED BY <1>1, <1>11, <1>16, <1>17, <1>18, <1>19, <1>20, <1>21, <1>22, FlatStep

\* What Retire does.
LEMMA RetireMoves ==
  ASSUME IInv, Retire
  PROVE  /\ stack # <<>> /\ Top.k = "retire" /\ Succession /\ stack' = Below
         /\ UNCHANGED <<name, suspended, waits, wait_forks, left, forkOf, forks, blocked, ended, doomed>>
         /\ \E f \in Slots : /\ f = Top.fid /\ Retires(f)
                             /\ groups[f].active /\ groups[f].remaining = 0 /\ groups[f].reclaimable
<1>1. /\ stack # <<>> /\ Top.k = "retire" /\ stack' = Below
      /\ UNCHANGED <<name, suspended, waits, wait_forks, left, forkOf, forks, blocked, ended, doomed>>
  BY DEF Retire, AtTop, history
<1>2. Typed /\ CallInv
  BY DEF IInv
<1>3. PICK m \in Nat : Top = stack[m + 1] /\ Top \in Frames /\ m + 1 \in 1..Len(stack)
  BY <1>1, <1>2, TopFrame
<1>4. PICK f \in Slots : f = Top.fid
  BY <1>1, <1>3, FrameFacts
<1>5. groups[f].active /\ groups[f].remaining = 0 /\ groups[f].reclaimable
  BY <1>1, <1>2, <1>3, <1>4 DEF CallInv, Live, LiveEnd
<1>6. groups' = [groups EXCEPT ![f].active = FALSE, ![f].fired = TRUE,
                               ![f].remaining = 0, ![f].cont = None]
  BY <1>4, <1>5 DEF Retire
<1>7. Retires(f)
  BY <1>2, <1>6, RetireFields
<1>8. Succession
  BY <1>1, <1>2, Succession0
<1> QED BY <1>1, <1>4, <1>5, <1>7, <1>8

LEMMA RetireFlat ==
  ASSUME IInv, FlatInv, IInv', Retire
  PROVE  FlatInv'
<1>1. /\ stack # <<>> /\ Top.k = "retire" /\ stack' = Below
      /\ UNCHANGED <<name, suspended, waits, wait_forks, left, forkOf, forks, blocked, ended, doomed>>
  BY RetireMoves
<1>2. PICK f \in Slots : /\ f = Top.fid /\ Retires(f)
                         /\ groups[f].active /\ groups[f].remaining = 0 /\ groups[f].reclaimable
  BY RetireMoves
<1>3. Typed /\ SlotInv /\ CallInv /\ Lists /\ Calls /\ Ends /\ Kept /\ JoinSound
  BY DEF IInv, FlatInv
<1>4. PICK m \in Nat :
        /\ Len(stack) = m + 1 /\ Top = stack[m + 1] /\ Top \in Frames /\ m + 1 \in 1..Len(stack)
        /\ Below \in Seq(Frames) /\ Len(Below) = m /\ \A i \in 1..m : Below[i] = stack[i]
  BY <1>1, <1>3, TopFrame
<1>5. Keeps(m) /\ Len(stack') = m /\ (m + 1)..Len(stack') = {}
  BY <1>1, <1>3, <1>4, PopStack
<1>6. Lists' /\ JoinSound'
  BY <1>1, <1>3, ListsKept, JoinsStep
<1>7. Calls'
  <2>1. ~(m > 0 /\ Busy(stack[m]))
    BY <1>1, <1>3, <1>4, BelowOthers
  <2>2. \A i \in (m + 1)..Len(stack') : CallAt(i)'
    BY <1>5
  <2>3. Len(stack') \in Nat /\ Len(stack') >= m
    BY <1>5
  <2> QED BY <1>3, <1>5, <2>1, <2>2, <2>3, CallsStep
<1>8. Ends'
  <2>1. \A i \in (m + 1)..Len(stack) : Owns(stack[i]) = {}
    BY <1>1, <1>3, <1>4, RunOwnsNothing DEF Inert
  <2>2. \A d \in Branch : IsSuspended(d) => Open(d)' \/ d \in ended'
    BY <1>1, StillSuspended
  <2>3. Len(stack') \in Nat /\ Len(stack') >= m
    BY <1>5
  <2> QED BY <1>1, <1>3, <1>5, <2>1, <2>2, <2>3, EndsStep
<1>9. Kept'
  <2> SUFFICES ASSUME NEW n \in 1..Len(forks), forks[n].kind # "any", ~(Of(n) \subseteq ended)
               PROVE  \E g \in Slots : groups'[g].active /\ groups'[g].no = n
    BY <1>1 DEF Kept, Of
  <2>1. PICK g \in Slots : groups[g].active /\ groups[g].no = n
    BY <1>3 DEF Kept
  <2>2. CASE g # f
    BY <1>2, <2>1, <2>2 DEF Retires
  <2>3. CASE g = f
    <3>1. PICK d \in Branch : forkOf[d] = n /\ d \notin ended
      BY DEF Of, Branch
    <3>2. ~Open(d)
      BY <1>2, <1>3, <2>1, <2>3, <3>1, NoneOpen
    <3>3. forkOf[d] # 0
      BY <3>1
    <3> QED BY <1>3, <3>1, <3>2, <3>3 DEF Ends
  <2> QED BY <2>2, <2>3
<1> QED BY <1>6, <1>7, <1>8, <1>9 DEF FlatInv

\* What Fork does.
ForkMove(f, u, no, kind, born, m, y) ==
  /\ stack # <<>> /\ Top.k = "run" /\ Top.th = u /\ u \notin born /\ blocked[u] = 0
  /\ f = NextSlot /\ ~groups[f].active /\ Opens(f, kind, u, born) /\ no = Len(forks) + 1
  /\ born \subseteq Branch /\ \A c \in born : forkOf[c] = 0
  /\ \A c \in Thread : forkOf'[c] = IF c \in born THEN no ELSE forkOf[c]
  /\ Len(forks) \in Nat /\ Len(forks') = no /\ forks'[no].parent = u /\ forks'[no].kind = kind
  /\ \A n \in 1..Len(forks) : forks'[n] = forks[n]
  /\ blocked \in [Thread -> Nat]
  /\ blocked' = [blocked EXCEPT ![u] = IF kind = "all" THEN 0 ELSE no]
  /\ \A g \in Slots : g # f => groups'[g] = groups[g]
  /\ groups'[f].active /\ groups'[f].no = no
  /\ Len(stack) = m + 1 /\ stack[m + 1] = Top /\ Keeps(m) /\ Len(stack') = m + 2
  /\ stack'[m + 1].k = "true" /\ stack'[m + 2] = y /\ (m + 1)..Len(stack') = {m + 1, m + 2}
  /\ y.k = "fork" /\ y.fid = f /\ y.kind = kind /\ y.parent = u /\ y.todo = born /\ y.cur = None
  /\ UNCHANGED <<name, suspended, waits, wait_forks, ended, doomed>>

LEMMA ForkMoves ==
  ASSUME IInv, NEW kind \in Kinds, Fork(kind)
  PROVE  /\ Executes("fork")
         /\ \E f \in Slots, u \in Thread, no \in Nat, born \in SUBSET Unborn, m \in Nat, y \in Frames :
              ForkMove(f, u, no, kind, born, m, y)
<1>0. PICK born \in SUBSET Unborn :
        /\ Cardinality(born) = Width
        /\ Executes("fork")
        /\ groups' = [groups EXCEPT ![NextSlot] =
             [active |-> TRUE, remaining |-> IF kind = "any" THEN 1 ELSE Width, fired |-> FALSE,
              reclaimable |-> Reclaimable(kind), spawner |-> name, disabled |-> FALSE,
              cont |-> IF kind = "all" THEN None ELSE Top.th, no |-> Len(forks) + 1]]
        /\ forkOf' = [c \in Thread |-> IF c \in born THEN Len(forks) + 1 ELSE forkOf[c]]
        /\ forks' = Append(forks, [parent |-> Top.th, kind |-> kind])
        /\ blocked' = [blocked EXCEPT ![Top.th] = IF kind = "all" THEN 0 ELSE Len(forks) + 1]
        /\ stack' = Below \o <<Frame("true", None),
             [k |-> "fork", fid |-> NextSlot, kind |-> kind, parent |-> Top.th, todo |-> born,
              cur |-> None, any |-> FALSE]>>
        /\ UNCHANGED <<design, ret, name, suspended, waits, wait_forks, ended, doomed>>
  BY DEF Fork
<1>2. Typed /\ SlotInv /\ CallInv /\ OnePlace /\ Unstarted
  BY DEF IInv
<1>a. Executes("fork") /\ Cardinality(born) = Width
  BY <1>0
<1>3. PICK u \in Thread : u = Top.th
  BY <1>2, <1>a, ExecuteFacts
<1>4. stack # <<>> /\ Top.k = "run"
  BY <1>2, <1>a, ExecuteFacts
<1>5. PICK m \in Nat :
        /\ Len(stack) = m + 1 /\ Top = stack[m + 1] /\ Top \in Frames /\ m + 1 \in 1..Len(stack)
        /\ Below \in Seq(Frames) /\ Len(Below) = m /\ \A i \in 1..m : Below[i] = stack[i]
  BY <1>2, <1>4, TopFrame
<1>6. PICK f \in Slots : f = NextSlot /\ ~groups[f].active
  BY <1>2, <1>a, SlotLeft
<1>7. PICK no \in Nat : no = Len(forks) + 1
  BY <1>2 DEF Typed
<1>8. Opens(f, kind, u, born)
  BY <1>0, <1>2, <1>3, <1>6, ForkFields
<1>9. blocked[u] = 0 /\ u \notin born
  <2>1. Holds(u, "run", m + 1, 0)
    BY <1>3, <1>4, <1>5 DEF Holds, FramePlace
  <2>2. ~Holds(u, "blocked", 0, 0) /\ ~Holds(u, "unborn", 0, 0)
    BY <1>2, <2>1 DEF OnePlace
  <2> QED BY <2>1, <2>2 DEF Holds, RestPlace
<1>11. /\ \A g \in Slots : g # f => groups'[g] = groups[g]
       /\ groups'[f].active /\ groups'[f].no = no
  BY <1>7, <1>8 DEF Opens
<1>12. /\ Len(forks) \in Nat /\ Len(forks') = no
       /\ forks'[no].parent = u /\ forks'[no].kind = kind
       /\ \A n \in 1..Len(forks) : forks'[n] = forks[n]
  <2>1. PICK new : new = [parent |-> u, kind |-> kind]
    OBVIOUS
  <2>2. new \in [parent : Thread, kind : Kinds] /\ new.parent = u /\ new.kind = kind
    BY <2>1
  <2>3. forks' = Append(forks, new)
    BY <1>8, <2>1 DEF Opens
  <2>4. forks \in Seq([parent : Thread, kind : Kinds])
    BY <1>2 DEF Typed
  <2> QED BY <1>7, <2>2, <2>3, <2>4
<1>13. \A c \in Thread : forkOf'[c] = IF c \in born THEN no ELSE forkOf[c]
  BY <1>7, <1>8 DEF Opens
<1>14. born \subseteq Branch /\ \A c \in born : forkOf[c] = 0
  BY DEF Unborn, Branch
<1>15. blocked \in [Thread -> Nat] /\
       blocked' = [blocked EXCEPT ![u] = IF kind = "all" THEN 0 ELSE no]
  BY <1>2, <1>7, <1>8 DEF Opens, Typed
<1>16. PICK x \in Frames : x = Frame("true", None)
  BY FrameTypes
<1>17. PICK y : y = [k |-> "fork", fid |-> f, kind |-> kind, parent |-> u, todo |-> born,
                     cur |-> None, any |-> FALSE]
  OBVIOUS
<1>18. /\ y \in Frames /\ y.k = "fork" /\ y.fid = f /\ y.kind = kind /\ y.parent = u /\ y.todo = born
       /\ y.cur = None
  <2>1. y \in ForkFrame
    BY <1>14, <1>17 DEF ForkFrame
  <2> QED BY <1>17, <2>1 DEF Frames
<1>19. x.k = "true"
  BY <1>16 DEF Frame
<1>21. /\ Keeps(m) /\ Len(stack') = m + 2
       /\ stack'[m + 1] = x /\ stack'[m + 2] = y
       /\ (m + 1)..Len(stack') = {m + 1, m + 2}
  <2>1. stack' = Below \o <<x, y>>
    BY <1>0, <1>3, <1>6, <1>16, <1>17
  <2> QED BY <1>2, <1>5, <1>18, <2>1, PushStack2
<1>22. UNCHANGED <<name, suspended, waits, wait_forks, ended, doomed>>
  BY <1>0
<1>23. ForkMove(f, u, no, kind, born, m, y)
  BY <1>3, <1>4, <1>5, <1>6, <1>7, <1>8, <1>9, <1>11, <1>12, <1>13, <1>14, <1>15, <1>18, <1>19, <1>21,
     <1>22 DEF ForkMove
<1> QED BY <1>a, <1>18, <1>23

LEMMA ForkFlat ==
  ASSUME Flat, IInv, FlatInv, IInv', NEW kind \in Kinds, Fork(kind)
  PROVE  FlatInv'
<1>1. Executes("fork")
  BY ForkMoves
<1>2. PICK f \in Slots, u \in Thread, no \in Nat, born \in SUBSET Unborn, m \in Nat, y \in Frames :
        ForkMove(f, u, no, kind, born, m, y)
  BY ForkMoves
<1>3. Typed /\ CallInv /\ Lists /\ Calls /\ Ends /\ Kept /\ JoinSound
  BY DEF IInv, FlatInv
<1>4. u \in Processes
  <2>1. PICK e : e = "fork"
    OBVIOUS
  <2>2. Executes(e) /\ e \notin {"delay", "at"} /\ Top.th = u
    BY <1>1, <1>2, <2>1 DEF ForkMove
  <2> HIDE <2>1
  <2> QED BY <1>3, <2>2, ProcessExecutes
<1>5. Lists'
  <2>1. /\ blocked \in [Thread -> Nat] /\ waits' = waits /\ wait_forks' = wait_forks
        /\ blocked' = [blocked EXCEPT ![u] = IF kind = "all" THEN 0 ELSE no]
    BY <1>2 DEF ForkMove
  <2> QED BY <1>3, <1>4, <2>1 DEF Lists
<1>6. /\ Keeps(m) /\ Len(stack) = m + 1 /\ Len(stack') = m + 2 /\ stack'[m + 2] = y
      /\ stack'[m + 1].k = "true" /\ (m + 1)..Len(stack') = {m + 1, m + 2}
      /\ y.k = "fork" /\ y.parent = u /\ y.cur = None /\ y.todo = born
      /\ stack[m + 1].k = "run" /\ stack[m + 1].th = u
  BY <1>2 DEF ForkMove
<1>7. Calls'
  <2>1. ~(m > 0 /\ Busy(stack[m]))
    BY <1>3, <1>4, <1>6, BelowProcess
  <2>2. PlainFrame(stack'[m + 1]) /\ PlainFrame(stack'[m + 2])
    BY <1>4, <1>6 DEF PlainFrame
  <2>3. \A i \in (m + 1)..Len(stack') : CallAt(i)'
    BY <1>6, <2>2, PlainCall
  <2>4. Len(stack') \in Nat /\ Len(stack') >= m
    BY <1>6
  <2> QED BY <1>3, <1>6, <2>1, <2>3, <2>4, CallsStep
<1>8. \A c \in Branch : Open(c) \/ c \in born => Open(c)'
  <2>1. \A i \in 1..m : stack'[i] = stack[i] /\ i \in 1..Len(stack')
    BY <1>6 DEF Keeps
  <2>2. Owns(stack[m + 1]) = {} /\ \A i \in 1..Len(stack) : i \in 1..m \/ i = m + 1
    BY <1>6 DEF Owns
  <2>3. suspended' = suspended
    BY <1>2 DEF ForkMove
  <2>4. Owns(stack'[m + 2]) = born /\ m + 2 \in 1..Len(stack')
    BY <1>6 DEF Owns
  <2> SUFFICES ASSUME NEW c \in Branch, Open(c) \/ c \in born PROVE Open(c)'
    OBVIOUS
  <2>5. IsSuspended(c) \/ \E i \in 1..Len(stack') : c \in Owns(stack'[i])
    BY <2>1, <2>2, <2>4 DEF Open
  <2> QED BY <2>3, <2>5 DEF Open, Owns, IsSuspended
<1>9. Branch \subseteq Thread /\ \A c \in Thread : forkOf'[c] = IF c \in born THEN no ELSE forkOf[c]
  BY <1>2, Basics DEF ForkMove
<1>10. Ends'
  <2>1. ended' = ended
    BY <1>2 DEF ForkMove
  <2> QED BY <1>3, <1>8, <1>9, <2>1 DEF Ends
<1>11. \A n \in 1..Len(forks) : Of(n)' = Of(n) /\ n # no /\ forks'[n] = forks[n]
  <2> TAKE n \in 1..Len(forks)
  <2>1. n # no /\ n # 0 /\ forks'[n] = forks[n]
    BY <1>2 DEF ForkMove
  <2>2. \A c \in born : forkOf[c] = 0
    BY <1>2 DEF ForkMove
  <2> QED BY <1>9, <2>1, <2>2 DEF Of, Branch
<1>12. Len(forks') = no /\ no = Len(forks) + 1 /\ Len(forks) \in Nat /\ ended' = ended
  BY <1>2 DEF ForkMove
<1>13. \A n \in 1..Len(forks') : n = no \/ n \in 1..Len(forks)
  BY <1>12
<1>14. Kept'
  <2> SUFFICES ASSUME NEW n \in 1..Len(forks'), forks'[n].kind # "any"
               PROVE  (\E g \in Slots : groups'[g].active /\ groups'[g].no = n) \/ Of(n)' \subseteq ended'
    BY DEF Kept, Of
  <2>1. CASE n = no
    BY <1>2, <2>1 DEF ForkMove
  <2>2. CASE n \in 1..Len(forks)
    <3>1. (\E g \in Slots : groups[g].active /\ groups[g].no = n) \/ Of(n) \subseteq ended
      BY <1>3, <1>11, <2>2 DEF Kept
    <3>2. \A g \in Slots : groups[g].active => groups'[g] = groups[g]
      BY <1>2 DEF ForkMove
    <3> QED BY <1>11, <1>12, <2>2, <3>1, <3>2
  <2> QED BY <1>13, <2>1, <2>2
<1>15. JoinSound'
  <2>1. DOMAIN forks = 1..Len(forks) /\ DOMAIN forks' = 1..Len(forks')
    <3>1. forks' \in Seq([parent : Thread, kind : Kinds]) /\ forks \in Seq([parent : Thread, kind : Kinds])
      BY DEF IInv, Typed
    <3> QED BY <3>1
  <2>a. /\ blocked \in [Thread -> Nat] /\ blocked[u] = 0
        /\ blocked' = [blocked EXCEPT ![u] = IF kind = "all" THEN 0 ELSE no]
        /\ forks'[no].parent = u /\ forks'[no].kind = kind
    BY <1>2 DEF ForkMove
  <2> SUFFICES ASSUME NEW n \in 1..Len(forks'), forks'[n].kind # "all", blocked'[forks'[n].parent] # n
               PROVE  Complete(n)'
    BY <2>1 DEF JoinSound
  <2>2. CASE n = no
    BY <2>a, <2>2
  <2>3. CASE n \in 1..Len(forks)
    <3>1. forks[n].parent \in Thread
      <4>1. PICK F : F = [parent : Thread, kind : Kinds]
        OBVIOUS
      <4>2. forks \in Seq(F)
        BY <1>3, <4>1 DEF Typed
      <4>3. forks[n] \in F
        BY <2>3, <4>2, ElementOfSeq
      <4> QED BY <4>1, <4>3
    <3>2. n # 0 /\ forks'[n] = forks[n]
      BY <1>11, <2>3
    <3>3. blocked[forks[n].parent] # n
      BY <2>a, <3>1, <3>2
    <3>4. Complete(n)
      BY <1>3, <2>1, <2>3, <3>2, <3>3 DEF JoinSound
    <3> QED BY <1>11, <1>12, <2>3, <3>4 DEF Complete
  <2> QED BY <1>13, <2>2, <2>3
<1> QED BY <1>5, <1>7, <1>10, <1>14, <1>15 DEF FlatInv
-----------------------------------------------------------------------------
(* Every action keeps the invariant: the event loop.                         *)

\* No call is in progress: those of stack' are new.
LEMMA LoopFlat ==
  ASSUME FlatInv, stack = <<>>, Typed', \A i \in 1..Len(stack') : CallAt(i)',
         UNCHANGED <<forkOf, forks, blocked, ended, groups, wait_forks>>, waits' \subseteq waits,
         \A c \in Branch : IsSuspended(c) => Open(c)'
  PROVE  FlatInv'
<1>1. PICK m \in Nat : m = 0
  OBVIOUS
<1>2. Len(stack') \in Nat /\ Len(stack) = 0 /\ (m + 1)..Len(stack) = {} /\ m + 1 = 1
  BY <1>1 DEF Typed
<1>3. Keeps(m)
  BY <1>1, <1>2 DEF Keeps
<1>4. Lists'
  BY DEF FlatInv, Lists
<1>5. \A i \in (m + 1)..Len(stack') : CallAt(i)'
  BY <1>2
<1>6. ~(m > 0) /\ Len(stack') >= m
  BY <1>1, <1>2
<1>7. forkOf' = forkOf /\ forks' = forks /\ blocked' = blocked /\ ended \subseteq ended' /\ groups' = groups
  OBVIOUS
<1>8. \A c \in Branch : IsSuspended(c) => Open(c)' \/ c \in ended'
  OBVIOUS
<1> QED BY <1>2, <1>3, <1>4, <1>5, <1>6, <1>7, <1>8, FlatStep

LEMMA ProcessFlat ==
  ASSUME FlatInv, stack = <<>>, Typed', NEW u \in Processes, stack' = <<Run(u, None)>>,
         UNCHANGED <<forkOf, forks, blocked, ended, groups, wait_forks>>, waits' \subseteq waits,
         \A c \in Branch : IsSuspended(c) => IsSuspended(c)'
  PROVE  FlatInv'
<1>1. PICK r \in Frames : r = Run(u, None)
  BY FrameTypes, Basics
<1>2. Len(stack') = 1 /\ stack'[1] = r
  BY <1>1
<1>3. r.k = "run" /\ r.th \in Processes
  BY <1>1 DEF Run
<1>4. \A i \in 1..Len(stack') : PlainFrame(stack'[i])
  BY <1>2, <1>3 DEF PlainFrame
<1>5. \A i \in 1..Len(stack') : CallAt(i)'
  BY <1>4, PlainCall
<1>6. \A c \in Branch : IsSuspended(c) => Open(c)'
  BY DEF Open, IsSuspended
<1> QED BY <1>5, <1>6, LoopFlat

LEMMA StartProcessFlat ==
  ASSUME IInv, FlatInv, IInv', NEW p \in Processes, StartProcess(p)
  PROVE  FlatInv'
<1>1. /\ stack = <<>> /\ stack' = <<Run(p, None)>> /\ suspended' = suspended /\ waits' = waits
      /\ UNCHANGED <<forkOf, forks, blocked, ended, groups, wait_forks>>
  BY DEF StartProcess, history
<1>2. (\A c \in Branch : IsSuspended(c) => IsSuspended(c)') /\ waits' \subseteq waits /\ Typed'
  BY <1>1 DEF IsSuspended, IInv
<1> QED BY <1>1, <1>2, ProcessFlat

LEMMA ResumeWaitFlat ==
  ASSUME IInv, FlatInv, IInv', NEW t \in waits, ResumeWait(t)
  PROVE  FlatInv'
<1>1. /\ stack = <<>> /\ stack' = <<Run(t, None)>> /\ suspended' = suspended /\ waits' = waits \ {t}
      /\ UNCHANGED <<forkOf, forks, blocked, ended, groups, wait_forks>>
  BY DEF ResumeWait, history
<1>2. (\A c \in Branch : IsSuspended(c) => IsSuspended(c)') /\ waits' \subseteq waits /\ Typed'
  BY <1>1 DEF IsSuspended, IInv
<1>3. t \in Processes
  BY DEF FlatInv, Lists
<1> QED BY <1>1, <1>2, <1>3, ProcessFlat

LEMMA HandlersFlat ==
  ASSUME IInv, FlatInv, IInv', NEW s \in suspended, stack = <<>>, suspended' = suspended \ {s},
         stack' = Handlers(s),
         UNCHANGED <<forkOf, forks, blocked, ended, groups, wait_forks, waits>>
  PROVE  FlatInv'
<1>1. Typed /\ Typed' /\ CallInv /\ OnePlace
  BY DEF IInv
<1>2. PICK u \in Thread, f \in Slots \cup {None} : u = s.th /\ f = s.fid
  BY <1>1, SuspendedThread DEF CallInv
<1>3. (f # None <=> u \in Branch) /\ \A w \in suspended : w.th = u => w = s
  BY <1>1, <1>2, SuspendedThread DEF CallInv
<1>4. \A d : d # u => (IsSuspended(d) => IsSuspended(d)')
  BY <1>2 DEF IsSuspended
<1>5. CASE f = None
  <2>1. u \in Processes /\ u \notin Branch
    BY <1>3, <1>5, Basics
  <2>2. stack' = <<Run(u, None)>>
    BY <1>2, <1>5 DEF Handlers
  <2>3. \A c \in Branch : IsSuspended(c) => IsSuspended(c)'
    BY <1>4, <2>1
  <2> QED BY <1>1, <2>1, <2>2, <2>3, ProcessFlat
<1>6. CASE f # None
  <2>1. u \in Branch /\ u # None /\ f \in Slots
    BY <1>3, <1>6, Basics
  <2>2. PICK b \in Frames, r \in Frames : b = [k |-> "branch", fid |-> f, cur |-> u] /\ r = Run(u, f)
    BY <2>1, FrameTypes
  <2>3. b.k = "branch" /\ b.cur = u /\ r.k = "run" /\ r.th = u
    BY <2>2 DEF Run
  <2>4. Len(stack') = 2 /\ stack'[1] = b /\ stack'[2] = r
    BY <1>2, <1>6, <2>2 DEF Handlers
  <2>5. CallAt(1)'
    <3>1. 1 + 1 = 2
      OBVIOUS
    <3> QED BY <2>3, <2>4, <3>1 DEF CallAt, FrameFlat
  <2>6. CallAt(2)'
    <3>1. 2 - 1 = 1 /\ 2 > 1
      OBVIOUS
    <3>2. Busy(stack'[2 - 1]) /\ ~Busy(stack'[2])
      BY <2>1, <2>3, <2>4, <3>1 DEF Busy
    <3> QED BY <2>3, <2>4, <3>1, <3>2 DEF CallAt, FrameFlat, Busy
  <2>7. \A i \in 1..Len(stack') : CallAt(i)'
    <3> SUFFICES ASSUME NEW i \in 1..Len(stack') PROVE CallAt(i)'
      OBVIOUS
    <3>1. i = 1 \/ i = 2
      BY <2>4
    <3> QED BY <2>5, <2>6, <3>1
  <2>8. \A c \in Branch : IsSuspended(c) => Open(c)'
    <3> SUFFICES ASSUME NEW c \in Branch, IsSuspended(c) PROVE Open(c)'
      OBVIOUS
    <3>1. CASE c # u
      BY <1>4, <3>1 DEF Open, IsSuspended
    <3>2. CASE c = u
      <4>1. c \in Owns(stack'[1]) /\ 1 \in 1..Len(stack')
        BY <2>3, <2>4, <3>2 DEF Owns
      <4> QED BY <4>1 DEF Open, Owns
    <3> QED BY <3>1, <3>2
  <2> QED BY <1>1, <2>7, <2>8, LoopFlat
<1> QED BY <1>5, <1>6

LEMMA ResumeDelayFlat ==
  ASSUME IInv, FlatInv, IInv', NEW s \in suspended, ResumeDelay(s)
  PROVE  FlatInv'
<1>1. stack = <<>> /\ suspended' = suspended \ {s} /\ UNCHANGED <<waits, wait_forks>>
  BY DEF ResumeDelay
<1>2. CASE s.fid # None /\ groups[s.fid].disabled
  <2>1. /\ Perform(Decrement(groups, s.fid), <<>>) /\ Unblocked(Decrement(groups, s.fid))
        /\ ended' = ended \cup {s.th} /\ UNCHANGED <<waits, wait_forks, forkOf, forks>>
    BY <1>2 DEF ResumeDelay
  <2> QED BY <1>1, <1>2, <2>1, SkipFlat
<1>3. CASE ~(s.fid # None /\ groups[s.fid].disabled)
  <2>1. /\ stack' = Handlers(s)
        /\ UNCHANGED <<forkOf, forks, blocked, ended, groups, wait_forks, waits>>
    BY <1>3 DEF ResumeDelay, history
  <2> QED BY <1>1, <2>1, HandlersFlat
<1> QED BY <1>2, <1>3

LEMMA ResumeAtFlat ==
  ASSUME IInv, FlatInv, IInv', NEW s \in suspended, ResumeAt(s)
  PROVE  FlatInv'
<1>1. /\ stack = <<>> /\ suspended' = suspended \ {s} /\ stack' = Handlers(s)
      /\ UNCHANGED <<forkOf, forks, blocked, ended, groups, wait_forks, waits>>
  BY DEF ResumeAt, history
<1> QED BY <1>1, HandlersFlat

LEMMA FlatInit == Init => FlatInv
<1> SUFFICES ASSUME Init PROVE FlatInv
  OBVIOUS
<1>1. /\ waits = {} /\ wait_forks = {} /\ stack = <<>> /\ forks = <<>>
      /\ forkOf = [t \in Thread |-> 0] /\ blocked = [t \in Thread |-> 0]
  BY DEF Init
<1>2. Lists
  BY <1>1 DEF Lists
<1>3. Calls /\ Kept /\ JoinSound
  BY <1>1 DEF Calls, Kept, JoinSound
<1>4. Ends
  BY <1>1, Basics DEF Ends
<1> QED BY <1>2, <1>3, <1>4 DEF FlatInv

LEMMA FlatStutters == FlatInv /\ UNCHANGED vars => FlatInv'
<1> SUFFICES ASSUME FlatInv, UNCHANGED vars PROVE FlatInv'
  OBVIOUS
<1>1. /\ groups' = groups /\ stack' = stack /\ ret' = ret /\ suspended' = suspended /\ waits' = waits
      /\ wait_forks' = wait_forks /\ forkOf' = forkOf /\ forks' = forks /\ blocked' = blocked
      /\ ended' = ended
  BY DEF vars
<1>2. Lists' /\ JoinSound' /\ Kept'
  BY <1>1, ListsKept, JoinsStep, KeptStep DEF FlatInv
<1>3. Calls' /\ Ends'
  BY <1>1 DEF FlatInv, Calls, CallAt, Ends, Open, IsSuspended
<1> QED BY <1>2, <1>3 DEF FlatInv

LEMMA FlatNext ==
  ASSUME Flat
  PROVE  IInv /\ IInv' /\ FlatInv /\ [Next]_vars => FlatInv'
<1> SUFFICES ASSUME IInv, IInv', FlatInv, [Next]_vars PROVE FlatInv'
  OBVIOUS
<1>1. CASE Statement
  BY <1>1, EndFlat, WaitFlat, WaitForkFlat, DisableForkFlat, SuspendFlat, ForkFlat DEF Statement
<1>2. CASE Return
  <2>1. Joined => FlatInv'
    BY JoinedFlat, JoinedAllFlat
  <2> QED BY <1>2, <2>1, ReturnTrueFlat, BranchResumedFlat, StartBranchFlat, BranchEndFlat, CloseFlat,
             FinishedFlat, ResumeWaitForkFlat, RetireFlat DEF Return
<1>3. CASE Idle \/ UNCHANGED vars
  BY <1>3, FlatStutters DEF Idle
<1>4. ASSUME NEW p \in Processes, StartProcess(p) PROVE FlatInv'
  BY <1>4, StartProcessFlat
<1>5. ASSUME NEW s \in suspended, ResumeDelay(s) \/ ResumeAt(s) PROVE FlatInv'
  BY <1>5, ResumeDelayFlat, ResumeAtFlat
<1>6. ASSUME NEW t \in waits, ResumeWait(t) PROVE FlatInv'
  BY <1>6, ResumeWaitFlat
<1> QED BY <1>1, <1>2, <1>3, <1>4, <1>5, <1>6 DEF Next

\* The invariant of the designs whose branches only delay or wait for events.
THEOREM FlatInvariance ==
  ASSUME Flat
  PROVE  Spec => [](IInv /\ FlatInv)
<1>1. Init => FlatInv
  BY FlatInit
<1>2. IInv /\ IInv' /\ FlatInv /\ [Next]_vars => FlatInv'
  BY FlatNext
<1> QED BY <1>1, <1>2, Invariance, PTL DEF Spec

\* In those designs the statements behind a join run only when all its branches have
\* ended, those behind a join_any when one has (fork_decrement, fork_branch_end).
THEOREM JoinsSound ==
  ASSUME Flat
  PROVE  Spec => []JoinSound
<1>1. FlatInv => JoinSound
  BY DEF FlatInv
<1> QED BY <1>1, FlatInvariance, PTL
-----------------------------------------------------------------------------
(* Designs without @ and wait: no process is resumed under the name of another. *)

Delayed == design.branch \subseteq {"delay"} /\ {"at", "wait"} \cap design.top = {}

\* The process that executes a thread, or has forked it.
Owner(t) == IF t \in Processes THEN t ELSE forks[forkOf[t]].parent

\* Frame x runs or waits for statements of process o.
Belongs(x, o) ==
  /\ x.k = "run" => Owner(x.th) = o
  /\ x.k = "fork" => x.parent = o
  /\ Refers(x) /\ groups[x.fid].active => groups[x.fid].spawner = o
  /\ x.k = "resumed" => \A w \in x.rest : w.th = o /\ w.proc = o

\* The calls in progress are those of one process, and the engine has its name, except
\* where a skipped branch ends its group: the name is set before a statement follows.
Silent(x) == x.k \in {"finished", "retire", "resumed"}
CallsOf(o) ==
  /\ \A i \in 1..Len(stack) : Belongs(stack[i], o)
  /\ name = o \/ \A i \in 1..Len(stack) : Silent(stack[i])

Parents == \A n \in 1..Len(forks) : forks[n].parent \in Processes
Spawned == \A f \in Slots : groups[f].active => groups[f].spawner = forks[groups[f].no].parent
Resumptions == \A s \in suspended : s.on = "delay" /\ s.proc = Owner(s.th)
NameInv ==
  /\ waits = {} /\ Parents /\ Spawned /\ Resumptions
  /\ stack # <<>> => \E o \in Processes : CallsOf(o)

\* A pending wait fork waits for groups of its process that will be finished yet, and
\* for the group of every branch that it must not leave behind.
NotRetired(f) == \A i \in 1..Len(stack) : ~(stack[i].k = "retire" /\ stack[i].fid = f)
Awaits(w) ==
  /\ w.proc = w.th /\ w.fids # {}
  /\ \A f \in w.fids : groups[f].active /\ groups[f].spawner = w.th /\ NotRetired(f)
  /\ \A c \in Counted(w.th) \ ended : \E f \in w.fids : groups[f].active /\ groups[f].no = forkOf[c]
WaitInv == \A w \in wait_forks : Awaits(w)

\* A group with a continuation is not disabled, since its process is blocked; who is
\* to be terminated is suspended in a disabled group.
Skipped(c) == \E s \in suspended : s.th = c /\ s.fid # None /\ groups[s.fid].disabled
DoomInv ==
  /\ \A f \in Slots : groups[f].active /\ groups[f].cont # None => ~groups[f].disabled
  /\ \A c \in doomed : c \in ended \/ Skipped(c)

ProcessInv == NameInv /\ WaitInv /\ DoomInv
-----------------------------------------------------------------------------
(* How the parts of this invariant are kept.                                 *)

LEMMA OwnersSame ==
  ASSUME forks' = forks, forkOf' = forkOf
  PROVE  \A t : Owner(t)' = Owner(t)
BY DEF Owner

LEMMA BelongsKept ==
  ASSUME NEW x, NEW o \in Processes, Belongs(x, o), Refers(x) => x.fid \in Slots,
         x.k = "run" => forks' = forks /\ forkOf' = forkOf,
         \A g \in Slots : groups'[g].active =>
            (groups[g].active /\ groups'[g].spawner = groups[g].spawner) \/ groups'[g].spawner = o
  PROVE  Belongs(x, o)'
<1>1. x.k = "run" => Owner(x.th)' = o
  BY OwnersSame DEF Belongs
<1> QED BY <1>1 DEF Belongs, Refers

\* The thread that a group lets go on is the process that forked it.
LEMMA ContinuesSpawner ==
  ASSUME IInv, FlatInv, NameInv, NEW f \in Slots, groups[f].cont # None
  PROVE  groups[f].active /\ groups[f].cont \in Processes /\ groups[f].spawner = groups[f].cont
<1>1. groups[f].cont \in Thread
  BY GroupFields DEF IInv, Typed
<1>2. /\ groups[f].active /\ groups[f].no \in 1..Len(forks)
      /\ blocked[groups[f].cont] = groups[f].no /\ forks[groups[f].no].parent = groups[f].cont
  BY DEF IInv, SlotInv, GroupInv, Continues, Identified
<1>3. groups[f].cont \in Processes
  BY <1>1, <1>2 DEF FlatInv, Lists
<1> QED BY <1>2, <1>3 DEF NameInv, Spawned

\* The frames that a step leaves belong to the same process.
LEMMA SuccessorBelongs ==
  ASSUME IInv, FlatInv, NameInv, WaitInv, stack # <<>>, NEW o \in Processes, CallsOf(o),
         NEW x \in Frames, Succeeds(x), FrameFlat(x)
  PROVE  Belongs(x, o)
<1>1. Typed /\ CallInv /\ Calls
  BY DEF IInv, FlatInv
<1>2. PICK m \in Nat :
        /\ Len(stack) = m + 1 /\ Top = stack[m + 1] /\ Top \in Frames /\ m + 1 \in 1..Len(stack)
  BY <1>1, TopFrame
<1>3. Belongs(Top, o) /\ FrameFlat(Top)
  BY <1>1, <1>2 DEF CallsOf, Calls, CallAt
<1>4. Refers(Top) => Top.fid \in Slots
  BY <1>2, FrameFacts DEF Refers
<1>5. x.k \in {"run", "true", "fork", "branch", "close", "finished", "retire", "resumed"}
  BY FrameFacts
<1>6. CASE x = Top
  BY <1>3, <1>6
<1>7. CASE x.k = "true" /\ x # Top
  BY <1>7 DEF Belongs, Refers
<1>8. CASE x.k \in {"close", "finished", "retire"} /\ x # Top
  BY <1>3, <1>8 DEF Belongs, Refers, Succeeds
<1>9. CASE x.k = "run" /\ x # Top
  <2>1. ASSUME x.th \in Processes, x.th = o PROVE Belongs(x, o)
    BY <1>9, <2>1 DEF Belongs, Refers, Owner
  <2>2. CASE Top.k \in {"fork", "branch"} /\ x.th = groups[Top.fid].cont /\ x.th # None
    <3>1. Top.fid \in Slots /\ Refers(Top)
      BY <1>4, <2>2 DEF Refers
    <3>2. groups[Top.fid].active /\ x.th \in Processes /\ groups[Top.fid].spawner = x.th
      BY <2>2, <3>1, ContinuesSpawner
    <3> QED BY <1>3, <2>1, <3>1, <3>2 DEF Belongs
  <2>3. CASE Top.k = "fork" /\ x.th = Top.parent
    BY <1>3, <2>1, <2>3 DEF Belongs, FrameFlat
  <2>4. CASE Top.k = "fork" /\ Top.cur = None /\ x.th \in Top.todo
    <3>1. x.th \in Owns(Top) /\ x.th \in Branch
      BY <1>2, <2>4, FrameFacts DEF Owns
    <3>2. forks[forkOf[x.th]].parent = Top.parent
      BY <1>1, <1>2, <2>4, <3>1 DEF CallInv, Live, LiveFork
    <3>3. x.th \notin Processes
      BY <3>1, Basics
    <3> QED BY <1>3, <1>9, <2>4, <3>2, <3>3 DEF Belongs, Refers, Owner
  <2>5. CASE Top.k = "resumed" /\ \E w \in Top.rest : x.th = w.th
    BY <1>3, <2>1, <2>5 DEF Belongs, FrameFlat
  <2> QED BY <1>9, <2>2, <2>3, <2>4, <2>5 DEF Succeeds
<1>10. CASE x.k = "resumed" /\ x # Top
  <2>1. ASSUME NEW w \in x.rest PROVE w.th = o /\ w.proc = o
    <3>1. CASE Top.k = "resumed" /\ x.rest \subseteq Top.rest
      BY <1>3, <2>1, <3>1 DEF Belongs
    <3>2. CASE Top.k = "finished" /\ x.rest = Resumable(Top.fid)
      <4>1. w \in wait_forks /\ w.fids \ {Top.fid} = {} /\ Awaits(w)
        BY <2>1, <3>2 DEF Resumable, WaitInv
      <4>2. groups[Top.fid].active /\ groups[Top.fid].spawner = w.th /\ w.proc = w.th
        BY <4>1 DEF Awaits
      <4> QED BY <1>3, <3>2, <4>2 DEF Belongs, Refers
    <3> QED BY <1>10, <3>1, <3>2 DEF Succeeds
  <2> QED BY <1>10, <2>1 DEF Belongs, Refers
<1>11. CASE x.k = "fork" /\ x # Top
  <2>1. CASE Top.k = "fork" /\ x.parent = Top.parent /\ x.fid = Top.fid
    BY <1>3, <1>11, <2>1 DEF Belongs, Refers
  <2>2. CASE Top.k = "run" /\ x.parent = Top.th /\ x.cur = None /\ ~groups[x.fid].active
    <3>1. x.parent \in Processes
      BY <1>11 DEF FrameFlat
    <3> QED BY <1>3, <1>11, <2>2, <3>1 DEF Belongs, Refers, Owner
  <2> QED BY <1>11, <2>1, <2>2 DEF Succeeds
<1>12. CASE x.k = "branch" /\ x # Top
  BY <1>12 DEF Succeeds
<1> QED BY <1>5, <1>6, <1>7, <1>8, <1>9, <1>10, <1>11, <1>12

LEMMA CallsStepOf ==
  ASSUME IInv, FlatInv, NameInv, WaitInv, IInv', FlatInv', stack # <<>>, Succession,
         (forks' = forks /\ forkOf' = forkOf) \/ \A i \in 1..Len(stack') : stack'[i].k # "run",
         \A g \in Slots : groups'[g].active =>
            \/ groups[g].active /\ groups'[g].spawner = groups[g].spawner
            \/ groups'[g].spawner = name /\ ~Silent(Top),
         \/ name' = name /\ (Top.k # "resumed" \/ stack' = Below)
         \/ Top.k = "resumed" /\ \E w \in Top.rest : name' = w.proc
  PROVE  \E o \in Processes : CallsOf(o)'
<1>1. Typed /\ Typed' /\ CallInv /\ Calls'
  BY DEF IInv, FlatInv
<1>2. PICK m \in Nat :
        /\ Keeps(m) /\ Len(stack) = m + 1 /\ Top = stack[m + 1] /\ Top \in Frames
        /\ Len(stack') \in Nat /\ Len(stack') >= m /\ \A i \in (m + 1)..Len(stack') : Succeeds(stack'[i])
  BY DEF Succession, SucceedsAt
<1>3. PICK o \in Processes : CallsOf(o)
  BY DEF NameInv
<1>4. \A i \in 1..Len(stack') : stack'[i] \in Frames /\ FrameFlat(stack'[i])
  BY <1>1 DEF Typed, Calls, CallAt, FrameFlat
<1>5. name = o \/ Silent(Top)
  BY <1>2, <1>3 DEF CallsOf
<1>6. \A g \in Slots : groups'[g].active =>
        (groups[g].active /\ groups'[g].spawner = groups[g].spawner) \/ groups'[g].spawner = o
  BY <1>5
<1>7. ASSUME NEW i \in 1..Len(stack') PROVE Belongs(stack[i], o)'
  <2>1. PICK x \in Frames : x = stack'[i]
    BY <1>4
  <2>2. Refers(x) => x.fid \in Slots
    BY FrameFacts DEF Refers
  <2>3. CASE i \in 1..m
    <3>1. x = stack[i] /\ i \in 1..Len(stack) /\ i # Len(stack)
      BY <1>2, <2>1, <2>3 DEF Keeps
    <3>2. Belongs(x, o)
      BY <1>3, <3>1 DEF CallsOf
    <3>3. x.k # "run"
      BY <1>1, <3>1 DEF CallInv, ShapeAt
    <3>4. Belongs(x, o)'
      BY <1>6, <2>2, <3>2, <3>3, BelongsKept
    <3> QED BY <2>1, <3>4 DEF Belongs, Refers, Owner
  <2>4. CASE i \in (m + 1)..Len(stack')
    <3>1. Succeeds(x) /\ FrameFlat(x)
      BY <1>2, <1>4, <2>1, <2>4
    <3>2. Belongs(x, o)
      BY <1>3, <3>1, SuccessorBelongs
    <3>3. x.k = "run" => forks' = forks /\ forkOf' = forkOf
      BY <2>1
    <3>4. Belongs(x, o)'
      BY <1>6, <2>2, <3>2, <3>3, BelongsKept
    <3> QED BY <2>1, <3>4 DEF Belongs, Refers, Owner
  <2>5. i \in 1..m \/ i \in (m + 1)..Len(stack')
    BY <1>2
  <2> QED BY <2>3, <2>4, <2>5
<1>8. name' = o \/ \A i \in 1..Len(stack') : Silent(stack'[i])
  <2>1. CASE name = o /\ name' = name
    BY <2>1
  <2>2. CASE Top.k = "resumed" /\ \E w \in Top.rest : name' = w.proc
    <3>1. Belongs(Top, o)
      BY <1>2, <1>3 DEF CallsOf
    <3> QED BY <2>2, <3>1 DEF Belongs
  <2>3. CASE name # o /\ name' = name /\ (Top.k # "resumed" \/ stack' = Below)
    <3>1. \A i \in 1..Len(stack) : Silent(stack[i])
      BY <1>3, <2>3 DEF CallsOf
    <3>2. ASSUME NEW i \in (m + 1)..Len(stack') PROVE Silent(stack'[i])
      <4>1. CASE Top.k # "resumed"
        <5>1. Succeeds(stack'[i]) /\ Silent(Top)
          BY <1>2, <1>5, <2>3
        <5> QED BY <4>1, <5>1 DEF Succeeds, Silent
      <4>2. CASE stack' = Below
        <5>1. Len(Below) = m
          BY <1>1, <1>2, TopFrame
        <5> QED BY <1>2, <4>2, <5>1
      <4> QED BY <2>3, <4>1, <4>2
    <3>3. \A i \in 1..m : stack'[i] = stack[i] /\ i \in 1..Len(stack)
      BY <1>2 DEF Keeps
    <3>4. \A i \in 1..Len(stack') : i \in 1..m \/ i \in (m + 1)..Len(stack')
      BY <1>2
    <3> QED BY <3>1, <3>2, <3>3, <3>4
  <2> QED BY <1>5, <2>1, <2>2, <2>3
<1>9. CallsOf(o)'
  BY <1>7, <1>8 DEF CallsOf, Silent
<1> QED BY <1>9

LEMMA NotRetiredStep ==
  ASSUME Typed, Succession, stack # <<>>, NEW f, NotRetired(f), ~(Top.k = "finished" /\ Top.fid = f)
  PROVE  NotRetired(f)'
<1>1. PICK m \in Nat :
        /\ Keeps(m) /\ Len(stack) = m + 1 /\ Top = stack[m + 1]
        /\ Len(stack') \in Nat /\ Len(stack') >= m /\ \A i \in (m + 1)..Len(stack') : Succeeds(stack'[i])
  BY DEF Succession, SucceedsAt
<1>2. \A i \in 1..m : ~(stack'[i].k = "retire" /\ stack'[i].fid = f)
  BY <1>1 DEF Keeps, NotRetired
<1>3. ASSUME NEW i \in (m + 1)..Len(stack'), stack'[i].k = "retire", stack'[i].fid = f PROVE FALSE
  <2>1. Succeeds(stack'[i])
    BY <1>1
  <2>2. CASE stack'[i] = Top
    BY <1>1, <1>3, <2>2 DEF NotRetired
  <2>3. CASE Top.k = "finished" /\ Top.fid = f
    BY <2>3
  <2> QED BY <1>3, <2>1, <2>2, <2>3 DEF Succeeds
<1>4. \A i \in 1..Len(stack') : i \in 1..m \/ i \in (m + 1)..Len(stack')
  BY <1>1
<1> QED BY <1>2, <1>3, <1>4 DEF NotRetired

\* A wait fork that stays as it is.
LEMMA AwaitsKept ==
  ASSUME NEW w, Awaits(w), ended \subseteq ended',
         \A c \in Branch : c \in Counted(w.th)' => c \in Counted(w.th) /\ forkOf'[c] = forkOf[c],
         \A f \in w.fids : /\ groups'[f].active /\ groups'[f].no = groups[f].no
                           /\ groups'[f].spawner = groups[f].spawner /\ NotRetired(f)'
  PROVE  Awaits(w)'
<1>1. \A f \in w.fids : groups'[f].active /\ groups'[f].spawner = w.th /\ NotRetired(f)'
  BY DEF Awaits
<1>2. ASSUME NEW c \in Branch, c \in Counted(w.th)', c \notin ended'
      PROVE  \E f \in w.fids : groups'[f].active /\ groups'[f].no = forkOf'[c]
  <2>1. c \in Counted(w.th) \ ended /\ forkOf'[c] = forkOf[c]
    BY <1>2
  <2>2. PICK f \in w.fids : groups[f].active /\ groups[f].no = forkOf[c]
    BY <2>1 DEF Awaits
  <2> QED BY <2>1, <2>2
<1>3. \A c : c \in Counted(w.th)' => c \in Branch
  BY DEF Counted, Children, Branch
<1>4. w.proc = w.th /\ w.fids # {}
  BY DEF Awaits
<1> QED BY <1>1, <1>2, <1>3, <1>4 DEF Awaits

LEMMA CountedSame ==
  ASSUME forks' = forks, forkOf' = forkOf
  PROVE  \A t : Counted(t)' = Counted(t)
BY DEF Counted, Children

LEMMA SkippedKept ==
  ASSUME \A g \in Slots : groups'[g].disabled = groups[g].disabled, Typed, NEW c,
         Skipped(c), \A s \in suspended : s.th = c => s \in suspended'
  PROVE  Skipped(c)'
<1>1. PICK s \in suspended : s.th = c /\ s.fid # None /\ groups[s.fid].disabled
  BY DEF Skipped
<1>2. s.fid \in Slots
  BY <1>1 DEF Typed, Suspension
<1> QED BY <1>1, <1>2 DEF Skipped

LEMMA DoomKept ==
  ASSUME Typed, DoomInv, doomed' = doomed, ended \subseteq ended',
         \A s \in suspended : s \in suspended' \/ s.th \in ended',
         \A g \in Slots : /\ groups'[g].disabled = groups[g].disabled
                          /\ groups'[g].active => groups[g].active
                          /\ groups'[g].cont # None => groups[g].cont # None
  PROVE  DoomInv'
<1>1. \A f \in Slots : groups'[f].active /\ groups'[f].cont # None => ~groups'[f].disabled
  BY DEF DoomInv
<1>2. ASSUME NEW c \in doomed PROVE c \in ended' \/ Skipped(c)'
  <2>1. CASE c \in ended
    BY <2>1
  <2>2. CASE c \notin ended' /\ Skipped(c)
    BY <2>2, SkippedKept
  <2> QED BY <2>1, <2>2 DEF DoomInv
<1> QED BY <1>1, <1>2 DEF DoomInv, Skipped

\* Groups as most steps leave them: some are finished, none is opened, retired or disabled.
SameForks ==
  \A g \in Slots : /\ groups'[g].active = groups[g].active /\ groups'[g].no = groups[g].no
                   /\ groups'[g].spawner = groups[g].spawner
SameMarks ==
  SameForks /\ \A g \in Slots : /\ groups'[g].disabled = groups[g].disabled
                                /\ groups'[g].cont # None => groups[g].cont # None

\* The name of the current process is kept, or set for a thread that had waited.
NameStep ==
  \/ name' = name /\ (Top.k # "resumed" \/ stack' = Below)
  \/ Top.k = "resumed" /\ \E w \in Top.rest : name' = w.proc

LEMMA NamesKept ==
  ASSUME IInv, FlatInv, NameInv, WaitInv, IInv', FlatInv', stack # <<>>, Succession, SameForks,
         UNCHANGED <<waits, forks, forkOf>>, NameStep, Resumptions'
  PROVE  NameInv'
<1>1. waits' = waits /\ forks' = forks /\ forkOf' = forkOf
  OBVIOUS
<1>2. \A g \in Slots : groups'[g].active =>
        \/ groups[g].active /\ groups'[g].spawner = groups[g].spawner
        \/ groups'[g].spawner = name /\ ~Silent(Top)
  BY DEF SameForks
<1>3. \E o \in Processes : CallsOf(o)'
  BY <1>1, <1>2, CallsStepOf DEF NameStep
<1>4. Parents' /\ Spawned'
  BY <1>1 DEF NameInv, Parents, Spawned, SameForks
<1> QED BY <1>1, <1>3, <1>4 DEF NameInv

LEMMA AwaitsStep ==
  ASSUME Typed, WaitInv, stack # <<>>, Succession, Top.k # "finished", SameForks,
         UNCHANGED <<forks, forkOf>>, ended \subseteq ended', NEW w \in wait_forks
  PROVE  Awaits(w)'
<1>1. forks' = forks /\ forkOf' = forkOf
  OBVIOUS
<1>2. Awaits(w) /\ w.fids \subseteq Slots
  BY DEF WaitInv, Typed, Waiter
<1>3. \A f \in w.fids : /\ groups'[f].active /\ groups'[f].no = groups[f].no
                        /\ groups'[f].spawner = groups[f].spawner /\ NotRetired(f)'
  <2> TAKE f \in w.fids
  <2>1. groups[f].active /\ NotRetired(f)
    BY <1>2 DEF Awaits
  <2>2. NotRetired(f)'
    BY <2>1, NotRetiredStep
  <2> QED BY <1>2, <2>1, <2>2 DEF SameForks
<1>4. \A c \in Branch : c \in Counted(w.th)' => c \in Counted(w.th) /\ forkOf'[c] = forkOf[c]
  BY <1>1, CountedSame
<1> QED BY <1>2, <1>3, <1>4, AwaitsKept

\* A step of a call that adds to no list.
LEMMA CallKeeps ==
  ASSUME IInv, FlatInv, ProcessInv, IInv', FlatInv', stack # <<>>, Succession, Top.k # "finished",
         SameMarks, NameStep, UNCHANGED <<suspended, waits, wait_forks, forks, forkOf, doomed>>,
         ended \subseteq ended'
  PROVE  ProcessInv'
<1>1. NameInv /\ WaitInv /\ DoomInv /\ Typed
  BY DEF ProcessInv, IInv
<1>2. /\ suspended' = suspended /\ waits' = waits /\ wait_forks' = wait_forks
      /\ forks' = forks /\ forkOf' = forkOf /\ doomed' = doomed
  OBVIOUS
<1>3. Resumptions'
  BY <1>1, <1>2, OwnersSame DEF NameInv, Resumptions
<1>4. NameInv'
  BY <1>1, <1>2, <1>3, NamesKept DEF SameMarks
<1>5. WaitInv'
  BY <1>1, <1>2, AwaitsStep DEF WaitInv, SameMarks
<1>6. DoomInv'
  BY <1>1, <1>2, DoomKept DEF SameMarks, SameForks
<1> QED BY <1>4, <1>5, <1>6 DEF ProcessInv

LEMMA MarksUnchanged == groups' = groups => SameMarks
BY DEF SameMarks, SameForks

LEMMA MarksSettle ==
  ASSUME NEW f \in Slots, NEW base, Quiet(base) \/ Settles(f, base)
  PROVE  SameMarks
<1>1. groups' = groups \/ (SlotKeeps(f) /\ (groups'[f].cont = None \/ groups'[f].cont = groups[f].cont))
  BY DEF Quiet, Settles, Lessens, Announces, Continued
<1> QED BY <1>1 DEF SlotKeeps, SameMarks, SameForks
-----------------------------------------------------------------------------
(* Every action keeps it: the calls that are not finished.                   *)

LEMMA ReturnTrueNames ==
  ASSUME IInv, FlatInv, ProcessInv, IInv', FlatInv', ReturnTrue
  PROVE  ProcessInv'
<1>1. /\ stack # <<>> /\ Top.k = "true" /\ stack' = Below
      /\ UNCHANGED <<groups, name, suspended, waits, wait_forks, forkOf, forks, ended, doomed>>
  BY DEF ReturnTrue, AtTop, engine, history
<1>2. Succession /\ SameMarks /\ NameStep
  BY <1>1, Succession0, MarksUnchanged DEF IInv, NameStep
<1> QED BY <1>1, <1>2, CallKeeps

LEMMA BranchEndNames ==
  ASSUME IInv, FlatInv, ProcessInv, IInv', FlatInv', BranchEnd
  PROVE  ProcessInv'
<1>1. /\ stack # <<>> /\ Top.k = "fork"
      /\ UNCHANGED <<name, suspended, waits, wait_forks, forkOf, forks, ended, doomed>>
  BY DEF BranchEnd, AtTop
<1>2. Typed
  BY DEF IInv
<1>3. PICK f \in Slots, c \in Branch, y \in Frames, base \in Seq(Frames), x \in ForkFrame :
        /\ x = Top /\ f = x.fid /\ c = x.cur /\ base = Below \o <<y>>
        /\ y.k = "fork" /\ y.fid = f /\ y.parent = x.parent /\ y.cur = None /\ y.todo = x.todo
        /\ Owns(y) = x.todo /\ Owns(x) = x.todo \cup {c}
        /\ groups[f].active /\ forkOf[c] = groups[f].no
        /\ \/ ~ret /\ Quiet(base) /\ IsSuspended(c)
           \/ ret /\ Settles(f, base)
  BY BranchEndMoves
<1>4. Succeeds(y) /\ f = Top.fid /\ Refers(Top)
  BY <1>1, <1>3 DEF Succeeds, Refers
<1>5. Succession
  BY <1>1, <1>2, <1>3, <1>4, SuccessionSettles
<1>6. SameMarks /\ NameStep
  BY <1>1, <1>3, MarksSettle DEF NameStep
<1> QED BY <1>1, <1>5, <1>6, CallKeeps

LEMMA BranchResumedNames ==
  ASSUME IInv, FlatInv, ProcessInv, IInv', FlatInv', BranchResumed
  PROVE  ProcessInv'
<1>1. /\ stack # <<>> /\ Top.k = "branch"
      /\ UNCHANGED <<name, suspended, waits, wait_forks, forkOf, forks, ended, doomed>>
  BY DEF BranchResumed, AtTop
<1>2. Typed
  BY DEF IInv
<1>3. PICK f \in Slots, c \in Branch, base \in Seq(Frames) :
        /\ f = Top.fid /\ c = Top.cur /\ base = Below /\ Len(base) = 0
        /\ groups[f].active /\ forkOf[c] = groups[f].no /\ Owns(Top) = {c} /\ Busy(Top)
        /\ \/ ~ret /\ Quiet(base) /\ IsSuspended(c)
           \/ ret /\ Settles(f, base)
  BY BranchResumedMoves
<1>4. Refers(Top)
  BY <1>1 DEF Refers
<1>5. Succession
  BY <1>1, <1>2, <1>3, <1>4, SuccessionSettles
<1>6. SameMarks /\ NameStep
  BY <1>1, <1>3, MarksSettle DEF NameStep
<1> QED BY <1>1, <1>5, <1>6, CallKeeps

LEMMA CloseNames ==
  ASSUME IInv, FlatInv, ProcessInv, IInv', FlatInv', Close
  PROVE  ProcessInv'
<1>1. /\ stack # <<>> /\ Top.k = "close"
      /\ UNCHANGED <<name, suspended, waits, wait_forks, forkOf, forks, ended, doomed>>
  BY DEF Close, AtTop
<1>2. PICK f \in Slots, base \in Seq(Frames) :
        f = Top.fid /\ base = Below /\ (Quiet(base) \/ Announces(f, base)) /\ Owns(Top) = {}
  BY CloseMoves
<1>3. /\ Quiet(base) \/ Settles(f, base)
      /\ ~Continued(f, base) /\ Refers(Top) /\ Typed
  BY <1>1, <1>2 DEF Settles, Announces, Continued, Quiet, Refers, IInv
<1>4. Succession
  BY <1>1, <1>2, <1>3, SuccessionSettles
<1>5. SameMarks /\ NameStep
  BY <1>1, <1>3, MarksSettle DEF NameStep
<1> QED BY <1>1, <1>4, <1>5, CallKeeps

LEMMA JoinedNames ==
  ASSUME IInv, FlatInv, ProcessInv, IInv', FlatInv', Joined
  PROVE  ProcessInv'
<1>1. /\ stack # <<>> /\ Top.k = "fork" /\ Top.cur = None
      /\ UNCHANGED <<name, suspended, waits, wait_forks, forkOf, forks, ended, doomed>>
  BY DEF Joined, AtTop
<1>2. Typed
  BY DEF IInv
<1>3. CASE Top.kind = "all"
  <2>1. Succession /\ SameMarks
    BY <1>3, JoinedAllMoves DEF SameMarks, SameForks
  <2> QED BY <1>1, <2>1, CallKeeps DEF NameStep
<1>4. CASE Top.kind # "all"
  <2>1. PICK f \in Slots, base \in Seq(Frames) :
          /\ f = Top.fid /\ (base = Below \/ base = Append(Below, Frame("close", f)))
          /\ Quiet(base) \/ Announces(f, base)
          /\ Owns(Top) = {}
    BY <1>4, JoinedMoves
  <2>2. /\ Quiet(base) \/ Settles(f, base)
        /\ Refers(Top)
    BY <1>1, <2>1 DEF Settles, Refers
  <2>3. base = Below \/ \E y \in Frames : base = Below \o <<y>> /\ Succeeds(y)
    <3>1. PICK y \in Frames : y = Frame("close", f)
      BY FrameTypes
    <3>2. Below \in Seq(Frames)
      BY <1>1, <1>2, TopFrame
    <3>3. base = Append(Below, y) => base = Below \o <<y>>
      BY <3>1, <3>2, AppendIsConcat
    <3>4. Succeeds(y)
      BY <1>1, <2>1, <2>2, <3>1 DEF Succeeds, Frame
    <3> QED BY <2>1, <3>1, <3>3, <3>4
  <2>4. Succession
    BY <1>1, <1>2, <2>1, <2>2, <2>3, SuccessionSettles
  <2>5. SameMarks /\ NameStep
    BY <1>1, <2>2, MarksSettle DEF NameStep
  <2> QED BY <1>1, <2>4, <2>5, CallKeeps
<1> QED BY <1>3, <1>4

LEMMA StartBranchNames ==
  ASSUME IInv, FlatInv, ProcessInv, IInv', FlatInv', StartBranch
  PROVE  ProcessInv'
<1>0. PICK c \in Top.todo : stack' = Below \o <<[Top EXCEPT !.cur = c, !.todo = @ \ {c}], Run(c, Top.fid)>>
  BY DEF StartBranch
<1>1. /\ stack # <<>> /\ Top.k = "fork" /\ Top.cur = None
      /\ UNCHANGED <<groups, name, suspended, waits, wait_forks, forkOf, forks, ended, doomed>>
  BY DEF StartBranch, AtTop, engine, history
<1>2. Typed
  BY DEF IInv
<1>3. PICK x \in ForkFrame : x = Top
  BY <1>1, <1>2, TopFrame, FrameFacts
<1>4. /\ c \in Branch /\ c \in x.todo /\ x.fid \in Slots /\ c \in Thread
  BY <1>3, Basics DEF ForkFrame
<1>5. PICK y : y = [x EXCEPT !.cur = c, !.todo = @ \ {c}]
  OBVIOUS
<1>6. /\ y \in Frames /\ y.k = "fork" /\ y.fid = x.fid /\ y.parent = x.parent /\ y.cur = c
  <2>1. y \in ForkFrame
    BY <1>4, <1>5 DEF ForkFrame
  <2>2. y.k = "fork" /\ y.fid = x.fid /\ y.parent = x.parent /\ y.cur = c
    BY <1>4, <1>5 DEF ForkFrame
  <2> QED BY <2>1, <2>2 DEF Frames
<1>7. PICK r \in Frames : r = Run(c, x.fid)
  BY <1>4, FrameTypes
<1>8. Succeeds(y) /\ Succeeds(r)
  BY <1>1, <1>3, <1>4, <1>6, <1>7 DEF Succeeds, Run
<1>9. stack' = Below \o <<y, r>>
  BY <1>0, <1>3, <1>5, <1>7
<1>10. Succession
  BY <1>1, <1>2, <1>6, <1>8, <1>9, Succession2
<1>11. SameMarks /\ NameStep
  BY <1>1, MarksUnchanged DEF NameStep
<1> QED BY <1>1, <1>10, <1>11, CallKeeps

LEMMA ResumeWaitForkNames ==
  ASSUME IInv, FlatInv, ProcessInv, IInv', FlatInv', ResumeWaitFork
  PROVE  ProcessInv'
<1>1. /\ stack # <<>> /\ Top.k = "resumed" /\ Succession
      /\ UNCHANGED <<groups, suspended, waits, wait_forks, forkOf, forks, ended, doomed>>
  BY ResumeWaitForkMoves
<1>2. NameStep
  BY <1>1 DEF ResumeWaitFork, NameStep
<1> QED BY <1>1, <1>2, MarksUnchanged, CallKeeps

LEMMA EndNames ==
  ASSUME IInv, FlatInv, ProcessInv, IInv', FlatInv', End
  PROVE  ProcessInv'
<1>1. /\ stack # <<>> /\ Top.k = "run" /\ ended \subseteq ended'
      /\ UNCHANGED <<groups, name, suspended, waits, wait_forks, forkOf, forks, doomed>>
  BY DEF End, engine
<1>2. Succession
  BY StatementSucceeds DEF Statement
<1> QED BY <1>1, <1>2, MarksUnchanged, CallKeeps DEF NameStep
-----------------------------------------------------------------------------
(* Every action keeps it: the statements.                                    *)

\* The process that executes a statement, itself or in a branch, is the current one.
LEMMA RunningName ==
  ASSUME Typed, NameInv, stack # <<>>, Top.k = "run"
  PROVE  name \in Processes /\ name = Owner(Top.th) /\ CallsOf(name)
<1>1. PICK m \in Nat : Top = stack[m + 1] /\ m + 1 \in 1..Len(stack)
  BY TopFrame
<1>2. PICK o \in Processes : CallsOf(o)
  BY DEF NameInv
<1> QED BY <1>1, <1>2 DEF CallsOf, Belongs, Silent

LEMMA DelayedExecutes ==
  ASSUME Delayed, Typed, SlotInv, NEW kind, Executes(kind)
  PROVE  /\ kind # "delay" => Top.th \in Processes
         /\ kind # "at" /\ kind # "wait"
<1>1. kind \in Allowed(Top.th)
  BY DEF Executes
<1> QED BY <1>1 DEF Delayed, Allowed

\* An unfinished branch of a join or join_none is counted by a group of its process.
LEMMA OpenGroup ==
  ASSUME IInv, FlatInv, NameInv, NEW c \in Branch, forkOf[c] # 0, forks[forkOf[c]].kind # "any",
         c \notin ended
  PROVE  /\ Open(c)
         /\ \E f \in Slots : /\ groups[f].active /\ groups[f].no = forkOf[c] /\ groups[f].remaining > 0
                            /\ groups[f].reclaimable /\ groups[f].spawner = forks[forkOf[c]].parent
<1>1. Open(c)
  BY DEF FlatInv, Ends
<1>2. PICK n : n = forkOf[c]
  OBVIOUS
<1>3. n \in 1..Len(forks) /\ c \in Of(n)
  <2>1. n \in Nat /\ n <= Len(forks)
    BY <1>2, Basics DEF IInv, Typed, SlotInv, Counts
  <2>2. Len(forks) \in Nat
    BY DEF IInv, Typed
  <2> QED BY <1>2, <2>1, <2>2 DEF Of, Branch
<1>4. PICK f \in Slots : groups[f].active /\ groups[f].no = n
  BY <1>2, <1>3 DEF FlatInv, Kept
<1>5. groups[f].reclaimable
  BY <1>2, <1>4 DEF IInv, SlotInv, GroupInv, Identified
<1>6. groups[f].remaining # 0
  BY <1>1, <1>2, <1>4, <1>5, NoneOpen DEF IInv
<1>7. groups[f].remaining > 0
  BY <1>6, GroupFields DEF IInv, Typed
<1>8. groups[f].spawner = forks[n].parent
  BY <1>4 DEF NameInv, Spawned
<1> QED BY <1>1, <1>2, <1>4, <1>5, <1>7, <1>8

LEMMA SuspendNames ==
  ASSUME Delayed, IInv, FlatInv, ProcessInv, IInv', FlatInv', NEW on \in {"delay", "at"}, Suspend(on)
  PROVE  ProcessInv'
<1>1. /\ Executes(on)
      /\ suspended' = suspended \cup {[th |-> Top.th, fid |-> Top.fid, on |-> on, proc |-> name]}
      /\ groups' = groups /\ name' = name /\ waits' = waits /\ wait_forks' = wait_forks
      /\ forkOf' = forkOf /\ forks' = forks /\ ended' = ended /\ doomed' = doomed
  BY DEF Suspend
<1>2. NameInv /\ WaitInv /\ DoomInv /\ Typed /\ SlotInv
  BY DEF ProcessInv, IInv
<1>3. stack # <<>> /\ Top.k = "run"
  BY <1>1, <1>2, ExecuteFacts
<1>4. on = "delay"
  BY <1>1, <1>2, DelayedExecutes
<1>5. name = Owner(Top.th)
  BY <1>2, <1>3, RunningName
<1>6. Resumptions'
  BY <1>1, <1>2, <1>4, <1>5, OwnersSame DEF NameInv, Resumptions
<1>7. Succession /\ SameMarks /\ NameStep
  BY <1>1, <1>3, StatementSucceeds, MarksUnchanged DEF Statement, NameStep
<1>8. NameInv'
  BY <1>1, <1>2, <1>3, <1>6, <1>7, NamesKept DEF SameMarks
<1>9. WaitInv'
  BY <1>1, <1>2, <1>3, <1>7, AwaitsStep DEF WaitInv, SameMarks
<1>10. DoomInv'
  BY <1>1, <1>2, <1>7, DoomKept DEF SameMarks, SameForks
<1> QED BY <1>8, <1>9, <1>10 DEF ProcessInv

LEMMA WaitForkNames ==
  ASSUME Delayed, IInv, FlatInv, ProcessInv, IInv', FlatInv', WaitFork
  PROVE  ProcessInv'
<1>0. PICK kind : kind = "wait fork"
  OBVIOUS
<1>1. /\ Executes(kind) /\ kind # "delay"
      /\ groups' = groups /\ name' = name /\ suspended' = suspended /\ waits' = waits
      /\ forkOf' = forkOf /\ forks' = forks /\ ended' = ended /\ doomed' = doomed
  BY <1>0 DEF WaitFork
<1> HIDE <1>0
<1>2. NameInv /\ WaitInv /\ DoomInv /\ Typed /\ SlotInv
  BY DEF ProcessInv, IInv
<1>3. stack # <<>> /\ Top.k = "run"
  BY <1>1, <1>2, ExecuteFacts
<1>4. PICK u \in Processes : u = Top.th
  BY <1>1, <1>2, DelayedExecutes
<1>5. name = u
  BY <1>2, <1>3, <1>4, RunningName DEF Owner
<1>6. Succession /\ SameMarks /\ NameStep
  BY <1>1, <1>3, StatementSucceeds, MarksUnchanged DEF Statement, NameStep
<1>7. CASE ActiveGroups = {}
  <2>1. wait_forks' = wait_forks
    BY <1>7 DEF WaitFork
  <2> QED BY <1>1, <1>3, <1>6, <2>1, CallKeeps
<1>8. CASE ActiveGroups # {}
  <2>1. PICK v : v = [th |-> u, fids |-> ActiveGroups, proc |-> u]
    OBVIOUS
  <2>2. v.th = u /\ v.proc = u /\ v.fids = ActiveGroups /\ wait_forks' = wait_forks \cup {v}
    BY <1>4, <1>5, <1>8, <2>1 DEF WaitFork
  <2>3. \A f \in ActiveGroups :
          f \in Slots /\ groups[f].active /\ groups[f].remaining > 0 /\ groups[f].spawner = u
    BY <1>5 DEF ActiveGroups
  <2>4. \A f \in ActiveGroups : NotRetired(f)'
    <3> SUFFICES ASSUME NEW f \in ActiveGroups, NEW i \in 1..Len(stack'),
                        stack'[i].k = "retire", stack'[i].fid = f
                 PROVE  FALSE
      BY DEF NotRetired
    <3>1. groups'[stack'[i].fid].remaining = 0
      BY DEF IInv, CallInv, Live, LiveEnd
    <3> QED BY <1>1, <2>3, <3>1
  <2>5. ASSUME NEW c \in Counted(u) \ ended
        PROVE  \E f \in ActiveGroups : groups[f].active /\ groups[f].no = forkOf[c]
    <3>1. /\ c \in Branch /\ forkOf[c] # 0 /\ forks[forkOf[c]].kind # "any" /\ c \notin ended
          /\ forks[forkOf[c]].parent = u
      BY <2>5 DEF Counted, Children, Branch
    <3>2. PICK f \in Slots : /\ groups[f].active /\ groups[f].no = forkOf[c] /\ groups[f].remaining > 0
                             /\ groups[f].spawner = u
      BY <1>2, <3>1, OpenGroup
    <3> QED BY <1>5, <3>2 DEF ActiveGroups
  <2>6. Awaits(v)'
    <3>1. Counted(u)' = Counted(u)
      BY <1>1, CountedSame
    <3>2. \A f \in v.fids : groups'[f].active /\ groups'[f].spawner = v.th /\ NotRetired(f)'
      BY <1>1, <2>2, <2>3, <2>4
    <3>3. \A c \in Counted(v.th)' \ ended' : \E f \in v.fids : groups'[f].active /\ groups'[f].no = forkOf'[c]
      BY <1>1, <2>2, <2>5, <3>1
    <3> QED BY <1>8, <2>2, <3>2, <3>3 DEF Awaits
  <2>7. \A w \in wait_forks : Awaits(w)'
    BY <1>1, <1>2, <1>3, <1>6, AwaitsStep DEF SameMarks
  <2>8. WaitInv'
    BY <2>2, <2>6, <2>7 DEF WaitInv, Awaits
  <2>9. Resumptions'
    BY <1>1, <1>2, OwnersSame DEF NameInv, Resumptions
  <2>10. NameInv'
    BY <1>1, <1>2, <1>3, <1>6, <2>9, NamesKept DEF SameMarks
  <2>11. DoomInv'
    BY <1>1, <1>2, <1>6, DoomKept DEF SameMarks, SameForks
  <2> QED BY <2>8, <2>10, <2>11 DEF ProcessInv
<1> QED BY <1>7, <1>8

LEMMA RunningUnblocked ==
  ASSUME Typed, OnePlace, stack # <<>>, Top.k = "run"
  PROVE  blocked[Top.th] = 0 /\ \A i \in 1..Len(stack) : stack[i].k = "fork" /\ stack[i].kind = "all" =>
                                                        stack[i].parent # Top.th
<1>1. PICK m \in Nat : Top = stack[m + 1] /\ m + 1 \in 1..Len(stack) /\ Top \in Frames
  BY TopFrame
<1>2. PICK u \in Thread : u = Top.th
  BY <1>1, FrameFacts
<1>3. Holds(u, "run", m + 1, 0)
  BY <1>1, <1>2 DEF Holds, FramePlace
<1>4. ASSUME blocked[u] # 0 PROVE FALSE
  <2>1. Holds(u, "blocked", 0, 0)
    BY <1>4 DEF Holds, RestPlace
  <2> QED BY <1>3, <2>1 DEF OnePlace
<1>5. ASSUME NEW i \in 1..Len(stack), stack[i].k = "fork", stack[i].kind = "all", stack[i].parent = u
      PROVE  FALSE
  <2>1. Holds(u, "parent", i, 0)
    BY <1>5 DEF Holds, FramePlace
  <2> QED BY <1>3, <2>1 DEF OnePlace
<1> QED BY <1>2, <1>4, <1>5

\* When a process executes a statement, the unfinished branches that it has to wait
\* for are suspended.
LEMMA AllSuspended ==
  ASSUME IInv, FlatInv, NameInv, stack # <<>>, Top.k = "run", Top.th \in Processes,
         NEW c \in Counted(Top.th) \ ended
  PROVE  IsSuspended(c)
<1>1. /\ c \in Branch /\ forkOf[c] # 0 /\ forks[forkOf[c]].kind # "any" /\ c \notin ended
      /\ forks[forkOf[c]].parent = Top.th
  BY DEF Counted, Children, Branch
<1>2. Open(c)
  BY <1>1, OpenGroup
<1>3. Typed /\ CallInv /\ OnePlace /\ Calls /\ JoinSound
  BY DEF IInv, FlatInv
<1>4. PICK m \in Nat : Len(stack) = m + 1 /\ Top = stack[m + 1] /\ m + 1 \in 1..Len(stack)
  BY <1>3, TopFrame
<1>5. ASSUME NEW i \in 1..Len(stack), c \in Owns(stack[i]) PROVE FALSE
  <2>1. stack[i] \in Frames
    BY <1>3 DEF Typed
  <2>2. stack[i].k \in {"fork", "branch"}
    BY <1>5 DEF Owns
  <2>3. CASE stack[i].k = "fork"
    <3>1. stack[i].parent = Top.th /\ stack[i].kind = forks[forkOf[c]].kind
      BY <1>1, <1>3, <1>5, <2>3 DEF CallInv, Live, LiveFork
    <3>2. stack[i].kind # "all"
      BY <1>3, <2>3, <3>1, RunningUnblocked
    <3>3. PICK n : n = forkOf[c]
      OBVIOUS
    <3>4. n \in DOMAIN forks /\ n # 0 /\ c \in Of(n)
      <4>1. n \in Nat /\ n <= Len(forks) /\ n # 0 /\ Len(forks) \in Nat
        BY <1>1, <3>3, Basics DEF IInv, Typed, SlotInv, Counts
      <4>2. DOMAIN forks = 1..Len(forks)
        <5>1. forks \in Seq([parent : Thread, kind : Kinds])
          BY <1>3 DEF Typed
        <5> QED BY <5>1
      <4> QED BY <1>1, <3>3, <4>1, <4>2 DEF Of, Branch
    <3>5. blocked[forks[n].parent] # n
      BY <1>1, <1>3, <3>3, <3>4, RunningUnblocked
    <3>6. Complete(n)
      BY <1>3, <3>1, <3>2, <3>3, <3>4, <3>5 DEF JoinSound
    <3> QED BY <1>1, <3>3, <3>4, <3>6 DEF Complete
  <2>4. CASE stack[i].k = "branch"
    <3>1. i = 1 /\ Busy(stack[i])
      BY <1>3, <2>1, <2>4, FrameFacts, Basics DEF CallInv, ShapeAt, Busy
    <3>2. i # Len(stack)
      BY <1>4, <2>4
    <3>3. i < Len(stack)
      BY <1>4, <3>2
    <3>4. stack[i + 1].k = "run" /\ i + 1 \in 1..Len(stack)
      BY <1>3, <1>4, <3>1, <3>3 DEF Calls, CallAt
    <3>5. i + 1 = m + 1
      BY <1>3, <1>4, <3>4 DEF CallInv, ShapeAt
    <3>6. stack[i + 1].th = stack[i].cur
      BY <1>3, <3>1, <3>3, <3>4 DEF CallInv, ShapeAt
    <3>7. stack[i].cur \in Branch
      BY <2>1, <2>4, FrameFacts
    <3> QED BY <1>4, <3>5, <3>6, <3>7, Basics
  <2> QED BY <2>2, <2>3, <2>4
<1> QED BY <1>2, <1>5 DEF Open

LEMMA DisableForkNames ==
  ASSUME Delayed, IInv, FlatInv, ProcessInv, IInv', FlatInv', DisableFork
  PROVE  ProcessInv'
<1>0. PICK kind : kind = "disable fork"
  OBVIOUS
<1>1. /\ Executes(kind) /\ kind # "delay"
      /\ groups' = [f \in Slots |-> IF f \in ActiveGroups THEN [groups[f] EXCEPT !.disabled = TRUE]
                                    ELSE groups[f]]
      /\ doomed' = doomed \cup (Counted(Top.th) \ ended)
      /\ name' = name /\ suspended' = suspended /\ waits' = waits /\ wait_forks' = wait_forks
      /\ forkOf' = forkOf /\ forks' = forks /\ ended' = ended
  BY <1>0 DEF DisableFork
<1> HIDE <1>0
<1>2. NameInv /\ WaitInv /\ DoomInv /\ Typed /\ SlotInv /\ CallInv /\ OnePlace
  BY DEF ProcessInv, IInv
<1>3. stack # <<>> /\ Top.k = "run"
  BY <1>1, <1>2, ExecuteFacts
<1>4. PICK u \in Processes : u = Top.th
  BY <1>1, <1>2, DelayedExecutes
<1>5. name = u
  BY <1>2, <1>3, <1>4, RunningName DEF Owner
<1>6. \A f \in Slots :
        /\ groups'[f].active = groups[f].active /\ groups'[f].no = groups[f].no
        /\ groups'[f].spawner = groups[f].spawner /\ groups'[f].cont = groups[f].cont
        /\ groups'[f].disabled = (f \in ActiveGroups \/ groups[f].disabled)
  <2> TAKE f \in Slots
  <2>1. groups[f] \in Group
    BY <1>2 DEF Typed
  <2>2. CASE f \in ActiveGroups
    <3>1. groups'[f] = [groups[f] EXCEPT !.disabled = TRUE]
      BY <1>1, <2>2
    <3> QED BY <2>1, <2>2, <3>1 DEF Group
  <2>3. CASE f \notin ActiveGroups
    <3>1. groups'[f] = groups[f]
      BY <1>1, <2>3
    <3>2. groups[f].disabled = (f \in ActiveGroups \/ groups[f].disabled)
      <4>1. groups[f].disabled \in BOOLEAN
        BY <2>1 DEF Group
      <4> QED BY <2>3, <4>1, Zenon
    <3> QED BY <3>1, <3>2
  <2> QED BY <2>2, <2>3
<1>7. Succession /\ NameStep /\ SameForks
  BY <1>1, <1>3, <1>6, StatementSucceeds DEF Statement, NameStep, SameForks
<1>8. Resumptions'
  BY <1>1, <1>2, OwnersSame DEF NameInv, Resumptions
<1>9. NameInv'
  BY <1>1, <1>2, <1>3, <1>7, <1>8, NamesKept
<1>10. WaitInv'
  BY <1>1, <1>2, <1>3, <1>7, AwaitsStep DEF WaitInv
<1>11. ASSUME NEW f \in Slots, groups'[f].active, groups'[f].cont # None PROVE ~groups'[f].disabled
  <2>1. groups[f].active /\ groups[f].cont # None /\ ~groups[f].disabled
    BY <1>2, <1>6, <1>11 DEF DoomInv
  <2>2. groups[f].spawner = groups[f].cont
    BY <1>2, <2>1, ContinuesSpawner
  <2>3. blocked[groups[f].cont] = groups[f].no /\ groups[f].no \in 1..Len(forks)
    BY <1>2, <2>1 DEF SlotInv, GroupInv, Continues, Identified
  <2>4. blocked[u] = 0
    BY <1>2, <1>3, <1>4, RunningUnblocked
  <2>5. f \notin ActiveGroups
    BY <1>5, <2>2, <2>3, <2>4 DEF ActiveGroups
  <2> QED BY <1>6, <2>1, <2>5
<1>12. ASSUME NEW c \in doomed' PROVE c \in ended' \/ Skipped(c)'
  <2>1. CASE c \in ended
    BY <1>1, <2>1
  <2>2. CASE Skipped(c)
    <3>1. PICK s \in suspended : s.th = c /\ s.fid # None /\ groups[s.fid].disabled
      BY <2>2 DEF Skipped
    <3>2. s.fid \in Slots
      BY <1>2, <3>1 DEF Typed, Suspension
    <3> QED BY <1>1, <1>6, <3>1, <3>2 DEF Skipped
  <2>3. CASE c \in Counted(u) \ ended
    <3>1. PICK s \in suspended : s.th = c
      BY <1>2, <1>3, <1>4, <2>3, AllSuspended DEF IsSuspended
    <3>2. /\ c \in Branch /\ forkOf[c] # 0 /\ forks[forkOf[c]].kind # "any" /\ c \notin ended
          /\ forks[forkOf[c]].parent = u
      BY <2>3 DEF Counted, Children, Branch
    <3>3. PICK f \in Slots : /\ groups[f].active /\ groups[f].no = forkOf[c] /\ groups[f].remaining > 0
                             /\ groups[f].spawner = u
      BY <1>2, <3>2, OpenGroup
    <3>4. s.fid # None /\ s.fid \in Slots /\ groups[s.fid].active /\ groups[s.fid].no = forkOf[c]
      BY <1>2, <3>1, <3>2, SuspendedThread DEF CallInv
    <3>5. s.fid = f
      BY <1>2, <3>3, <3>4 DEF SlotInv, GroupInv, Identified
    <3>6. f \in ActiveGroups
      BY <1>5, <3>3 DEF ActiveGroups
    <3> QED BY <1>1, <1>6, <3>1, <3>4, <3>5, <3>6 DEF Skipped
  <2> QED BY <1>1, <1>2, <1>4, <2>1, <2>2, <2>3 DEF DoomInv
<1>13. DoomInv'
  BY <1>11, <1>12 DEF DoomInv, Skipped
<1> QED BY <1>9, <1>10, <1>13 DEF ProcessInv
-----------------------------------------------------------------------------
(* Every action keeps it: a group ends.                                      *)

LEMMA FinishedNames ==
  ASSUME IInv, FlatInv, ProcessInv, IInv', FlatInv', Finished
  PROVE  ProcessInv'
<1>1. /\ stack # <<>> /\ Top.k = "finished" /\ Succession
      /\ wait_forks' = {Less(w, Top.fid) : w \in wait_forks \ Resumable(Top.fid)}
      /\ groups' = groups /\ name' = name /\ suspended' = suspended /\ waits' = waits
      /\ forkOf' = forkOf /\ forks' = forks /\ ended' = ended /\ doomed' = doomed
  BY FinishedMoves
<1>2. NameInv /\ WaitInv /\ DoomInv /\ Typed /\ SlotInv /\ CallInv /\ Ends
  BY DEF ProcessInv, IInv, FlatInv
<1>3. PICK f \in Slots : f = Top.fid
  BY FinishedMoves
<1>4. NameStep /\ SameMarks /\ Resumptions'
  BY <1>1, <1>2, MarksUnchanged, OwnersSame DEF NameStep, NameInv, Resumptions
<1>5. NameInv'
  BY <1>1, <1>2, <1>4, NamesKept DEF SameMarks
<1>6. DoomInv'
  BY <1>1, <1>2, <1>4, DoomKept DEF SameMarks, SameForks
<1>7. groups[f].active /\ groups[f].remaining = 0
  <2>1. PICK m \in Nat : Top = stack[m + 1] /\ m + 1 \in 1..Len(stack)
    BY <1>1, <1>2, TopFrame
  <2> QED BY <1>1, <1>2, <1>3, <2>1 DEF CallInv, Live, LiveEnd
<1>8. ASSUME NEW w \in wait_forks, w \notin Resumable(f), NEW v, v = Less(w, f) PROVE Awaits(v)'
  <2>1. w \in Waiter /\ Awaits(w) /\ w.fids \ {f} # {} /\ w.fids \subseteq Slots
    BY <1>2, <1>8 DEF Typed, WaitInv, Resumable, Waiter
  <2>2. v.th = w.th /\ v.proc = w.proc /\ v.fids = w.fids \ {f}
    BY <1>8, <2>1 DEF Less, Waiter
  <2>3. \A g \in v.fids : groups'[g].active /\ groups'[g].spawner = w.th /\ NotRetired(g)'
    <3> TAKE g \in v.fids
    <3>1. groups[g].active /\ groups[g].spawner = w.th /\ NotRetired(g) /\ g # f
      BY <2>1, <2>2 DEF Awaits
    <3>2. NotRetired(g)'
      BY <1>1, <1>2, <1>3, <3>1, NotRetiredStep
    <3> QED BY <1>1, <3>1, <3>2
  <2>4. ASSUME NEW c \in Counted(w.th) \ ended
        PROVE  \E g \in v.fids : groups[g].active /\ groups[g].no = forkOf[c]
    <3>1. /\ c \in Branch /\ forkOf[c] # 0 /\ forks[forkOf[c]].kind # "any" /\ c \notin ended
      BY <2>4 DEF Counted, Children, Branch
    <3>2. PICK g \in w.fids : groups[g].active /\ groups[g].no = forkOf[c]
      BY <2>1 DEF Awaits
    <3>3. CASE g # f
      BY <2>2, <3>2, <3>3
    <3>4. CASE g = f
      <4>1. groups[f].reclaimable
        BY <1>2, <1>7, <3>1, <3>2, <3>4 DEF SlotInv, GroupInv, Identified
      <4>2. ~Open(c)
        BY <1>2, <1>7, <3>1, <3>2, <3>4, <4>1, NoneOpen
      <4> QED BY <1>2, <3>1, <4>2 DEF Ends
    <3> QED BY <3>3, <3>4
  <2>5. Counted(w.th)' = Counted(w.th)
    BY <1>1, CountedSame
  <2>6. \A c \in Counted(v.th)' \ ended' : \E g \in v.fids : groups'[g].active /\ groups'[g].no = forkOf'[c]
    BY <1>1, <2>2, <2>4, <2>5
  <2>7. v.proc = v.th /\ v.fids # {}
    BY <2>1, <2>2 DEF Awaits
  <2> QED BY <2>2, <2>3, <2>6, <2>7 DEF Awaits
<1>9. WaitInv'
  BY <1>1, <1>3, <1>8 DEF WaitInv, Awaits
<1> QED BY <1>5, <1>6, <1>9 DEF ProcessInv

LEMMA RetireNames ==
  ASSUME IInv, FlatInv, ProcessInv, IInv', FlatInv', Retire
  PROVE  ProcessInv'
<1>1. /\ stack # <<>> /\ Top.k = "retire" /\ Succession
      /\ name' = name /\ suspended' = suspended /\ waits' = waits /\ wait_forks' = wait_forks
      /\ forkOf' = forkOf /\ forks' = forks /\ ended' = ended /\ doomed' = doomed
  BY RetireMoves
<1>2. PICK f \in Slots : f = Top.fid /\ Retires(f)
  BY RetireMoves
<1>3. NameInv /\ WaitInv /\ DoomInv /\ Typed
  BY DEF ProcessInv, IInv
<1>4. /\ \A g \in Slots : g # f => groups'[g] = groups[g]
      /\ ~groups'[f].active /\ groups'[f].cont = None /\ groups'[f].disabled = groups[f].disabled
  BY <1>2 DEF Retires
<1>5. \E o \in Processes : CallsOf(o)'
  <2>1. \A g \in Slots : groups'[g].active => groups[g].active /\ groups'[g].spawner = groups[g].spawner
    BY <1>4
  <2>2. \A g \in Slots : groups'[g].active =>
          \/ groups[g].active /\ groups'[g].spawner = groups[g].spawner
          \/ groups'[g].spawner = name /\ ~Silent(Top)
    BY <2>1
  <2> QED BY <1>1, <1>3, <2>2, CallsStepOf
<1>6. Parents' /\ Spawned' /\ Resumptions'
  BY <1>1, <1>3, <1>4, OwnersSame DEF NameInv, Parents, Spawned, Resumptions
<1>7. NameInv'
  BY <1>1, <1>3, <1>5, <1>6 DEF NameInv
<1>8. ASSUME NEW w \in wait_forks PROVE Awaits(w)'
  <2>1. Awaits(w) /\ w.fids \subseteq Slots
    BY <1>3 DEF WaitInv, Typed, Waiter
  <2>2. ~NotRetired(f)
    <3>1. PICK m \in Nat : Top = stack[m + 1] /\ m + 1 \in 1..Len(stack)
      BY <1>1, <1>3, TopFrame
    <3> QED BY <1>1, <1>2, <3>1 DEF NotRetired
  <2>3. \A g \in w.fids : /\ groups'[g].active /\ groups'[g].no = groups[g].no
                          /\ groups'[g].spawner = groups[g].spawner /\ NotRetired(g)'
    <3> TAKE g \in w.fids
    <3>1. groups[g].active /\ NotRetired(g) /\ g # f
      BY <2>1, <2>2 DEF Awaits
    <3>2. NotRetired(g)'
      BY <1>1, <1>3, <3>1, NotRetiredStep
    <3> QED BY <1>4, <2>1, <3>1, <3>2
  <2>4. \A c \in Branch : c \in Counted(w.th)' => c \in Counted(w.th) /\ forkOf'[c] = forkOf[c]
    BY <1>1, CountedSame
  <2>5. ended \subseteq ended'
    BY <1>1
  <2> QED BY <2>1, <2>3, <2>4, <2>5, AwaitsKept
<1>9. WaitInv'
  BY <1>1, <1>8 DEF WaitInv
<1>10. DoomInv'
  <2>1. \A g \in Slots : /\ groups'[g].disabled = groups[g].disabled
                         /\ groups'[g].active => groups[g].active
                         /\ groups'[g].cont # None => groups[g].cont # None
    BY <1>4
  <2> QED BY <1>1, <1>3, <2>1, DoomKept
<1> QED BY <1>7, <1>9, <1>10 DEF ProcessInv
-----------------------------------------------------------------------------
(* Every action keeps it: a process forks.                                   *)

LEMMA ForkNames ==
  ASSUME Delayed, IInv, FlatInv, ProcessInv, IInv', FlatInv', NEW kind \in Kinds, Fork(kind)
  PROVE  ProcessInv'
<1>1. PICK e : e = "fork" /\ Executes(e)
  BY ForkMoves
<1>2. PICK f \in Slots, u \in Thread, no \in Nat, born \in SUBSET Unborn, m \in Nat, y \in Frames :
        ForkMove(f, u, no, kind, born, m, y)
  BY ForkMoves
<1>3. NameInv /\ WaitInv /\ DoomInv /\ Typed /\ SlotInv /\ CallInv /\ OnePlace
  BY DEF ProcessInv, IInv
<1>4. /\ stack # <<>> /\ Top.k = "run" /\ Top.th = u /\ ~groups[f].active
      /\ no = Len(forks) + 1 /\ Len(forks) \in Nat /\ Len(forks') = no /\ forks'[no].parent = u
      /\ \A n \in 1..Len(forks) : forks'[n] = forks[n]
      /\ \A c \in born : forkOf[c] = 0
      /\ \A c \in Thread : forkOf'[c] = IF c \in born THEN no ELSE forkOf[c]
      /\ \A g \in Slots : g # f => groups'[g] = groups[g]
      /\ groups'[f].active /\ groups'[f].no = no /\ groups'[f].spawner = name /\ ~groups'[f].disabled
      /\ name' = name /\ suspended' = suspended /\ waits' = waits /\ wait_forks' = wait_forks
      /\ ended' = ended /\ doomed' = doomed
  BY <1>2 DEF ForkMove, Opens
<1>5. u \in Processes
  <2>1. e # "delay"
    BY <1>1
  <2> QED BY <1>1, <1>3, <1>4, <2>1, DelayedExecutes
<1>6. name = u
  BY <1>3, <1>4, <1>5, RunningName DEF Owner
<1>7. Succession
  BY StatementSucceeds DEF Statement
<1>8. \A i \in 1..Len(stack') : stack'[i].k # "run"
  <2>1. /\ Keeps(m) /\ Len(stack) = m + 1 /\ Len(stack') = m + 2 /\ stack'[m + 1].k = "true"
        /\ stack'[m + 2] = y /\ y.k = "fork"
    BY <1>2 DEF ForkMove
  <2>2. ASSUME NEW i \in 1..m PROVE stack'[i].k # "run"
    <3>1. stack'[i] = stack[i] /\ i \in 1..Len(stack) /\ i # Len(stack)
      BY <2>1 DEF Keeps
    <3> QED BY <1>3, <3>1 DEF CallInv, ShapeAt
  <2>3. \A i \in 1..Len(stack') : i \in 1..m \/ i = m + 1 \/ i = m + 2
    BY <2>1
  <2> QED BY <2>1, <2>2, <2>3
<1>9. \E o \in Processes : CallsOf(o)'
  <2>1. \A g \in Slots : groups'[g].active =>
          \/ groups[g].active /\ groups'[g].spawner = groups[g].spawner
          \/ groups'[g].spawner = name /\ ~Silent(Top)
    BY <1>4 DEF Silent
  <2>2. name' = name /\ Top.k # "resumed"
    BY <1>4
  <2> QED BY <1>3, <1>4, <1>7, <1>8, <2>1, <2>2, CallsStepOf
<1>10. Parents'
  <2>1. \A n \in 1..Len(forks') : n = no \/ n \in 1..Len(forks)
    BY <1>4
  <2> QED BY <1>3, <1>4, <1>5, <2>1 DEF NameInv, Parents
<1>11. ASSUME NEW c \in Thread, forkOf[c] # 0
       PROVE  forkOf'[c] = forkOf[c] /\ forks'[forkOf[c]] = forks[forkOf[c]] /\ forkOf[c] \in 1..Len(forks)
  <2>1. forkOf[c] \in Nat /\ forkOf[c] <= Len(forks)
    BY <1>3 DEF Typed, SlotInv, Counts
  <2>2. forkOf[c] \in 1..Len(forks)
    BY <1>4, <1>11, <2>1
  <2> QED BY <1>4, <1>11, <2>2
<1>12. ASSUME NEW g \in Slots, groups[g].active
       PROVE  g # f /\ groups'[g] = groups[g] /\ groups[g].no \in 1..Len(forks)
  BY <1>3, <1>4, <1>12 DEF SlotInv, GroupInv, Identified
<1>13. Spawned'
  <2> SUFFICES ASSUME NEW g \in Slots, groups'[g].active
               PROVE  groups'[g].spawner = forks'[groups'[g].no].parent
    BY DEF Spawned
  <2>1. CASE g = f
    BY <1>4, <1>6, <2>1
  <2>2. CASE g # f
    <3>1. groups'[g] = groups[g] /\ groups[g].active
      BY <1>4, <2>2
    <3>2. forks'[groups[g].no] = forks[groups[g].no]
      BY <1>4, <1>12, <3>1
    <3> QED BY <1>3, <3>1, <3>2 DEF NameInv, Spawned
  <2> QED BY <2>1, <2>2
<1>14. Resumptions'
  <2> SUFFICES ASSUME NEW s \in suspended PROVE s.on = "delay" /\ s.proc = Owner(s.th)'
    BY <1>4 DEF Resumptions, Owner
  <2>1. s.on = "delay" /\ s.proc = Owner(s.th)
    BY <1>3 DEF NameInv, Resumptions
  <2>2. CASE s.th \in Processes
    BY <2>1, <2>2 DEF Owner
  <2>3. CASE s.th \notin Processes
    <3>1. s.th \in Thread /\ s.th \in Branch
      BY <1>3, <2>3, SuspendedThread, Basics DEF CallInv
    <3>2. s.fid \in Slots /\ groups[s.fid].active /\ groups[s.fid].no = forkOf[s.th]
      BY <1>3, <3>1, SuspendedThread DEF CallInv
    <3>3. forkOf[s.th] \in 1..Len(forks)
      BY <1>12, <3>2
    <3>4. forkOf[s.th] # 0
      BY <3>3
    <3>5. forkOf'[s.th] = forkOf[s.th] /\ forks'[forkOf[s.th]] = forks[forkOf[s.th]]
      BY <1>11, <3>1, <3>4
    <3> QED BY <2>1, <2>3, <3>5 DEF Owner
  <2> QED BY <2>2, <2>3
<1>15. NameInv'
  BY <1>3, <1>4, <1>9, <1>10, <1>13, <1>14 DEF NameInv
<1>16. ASSUME NEW w \in wait_forks PROVE Awaits(w)'
  <2>1. Awaits(w) /\ w.fids \subseteq Slots /\ w.th \in Thread
    BY <1>3 DEF WaitInv, Typed, Waiter
  <2>2. w.th # u
    <3>1. PICK n \in Nat : Top = stack[n + 1] /\ n + 1 \in 1..Len(stack)
      BY <1>3, <1>4, TopFrame
    <3>2. Holds(u, "run", n + 1, 0) /\ Holds(w.th, "waiting", 0, w)
      BY <1>4, <3>1 DEF Holds, FramePlace, RestPlace
    <3> QED BY <1>3, <3>2 DEF OnePlace
  <2>3. \A g \in w.fids : /\ groups'[g].active /\ groups'[g].no = groups[g].no
                          /\ groups'[g].spawner = groups[g].spawner /\ NotRetired(g)'
    <3> TAKE g \in w.fids
    <3>1. g \in Slots /\ groups[g].active /\ NotRetired(g)
      BY <2>1 DEF Awaits
    <3>2. groups'[g] = groups[g]
      BY <1>12, <3>1
    <3>3. NotRetired(g)'
      BY <1>3, <1>4, <1>7, <3>1, NotRetiredStep
    <3> QED BY <3>1, <3>2, <3>3
  <2>4. ASSUME NEW c \in Branch, c \in Counted(w.th)'
        PROVE  c \in Counted(w.th) /\ forkOf'[c] = forkOf[c]
    <3>1. c \in Thread
      BY Basics
    <3>2. /\ forkOf'[c] # 0 /\ forks'[forkOf'[c]].parent = w.th /\ forks'[forkOf'[c]].kind # "any"
      BY <2>4 DEF Counted, Children
    <3>3. forkOf'[c] # no
      BY <1>4, <2>2, <3>2
    <3>4. forkOf'[c] = forkOf[c]
      BY <1>4, <3>1, <3>3
    <3>5. forks'[forkOf[c]] = forks[forkOf[c]]
      BY <1>11, <3>1, <3>2, <3>4
    <3> QED BY <3>2, <3>4, <3>5 DEF Counted, Children, Branch
  <2>5. ended \subseteq ended'
    BY <1>4
  <2> QED BY <2>1, <2>3, <2>4, <2>5, AwaitsKept
<1>17. WaitInv'
  BY <1>4, <1>16 DEF WaitInv
<1>18. \A g \in Slots : groups'[g].active /\ groups'[g].cont # None => ~groups'[g].disabled
  BY <1>3, <1>4 DEF DoomInv
<1>19. ASSUME NEW c \in doomed PROVE c \in ended' \/ Skipped(c)'
  <2>1. CASE c \in ended
    BY <1>4, <2>1
  <2>2. CASE Skipped(c)
    <3>1. PICK s \in suspended : s.th = c /\ s.fid # None /\ groups[s.fid].disabled
      BY <2>2 DEF Skipped
    <3>2. s.fid \in Slots /\ groups[s.fid].active
      BY <1>3, <3>1, SuspendedThread DEF CallInv
    <3>3. groups'[s.fid] = groups[s.fid]
      BY <1>12, <3>2
    <3> QED BY <1>4, <3>1, <3>3 DEF Skipped
  <2> QED BY <1>3, <2>1, <2>2 DEF DoomInv
<1>20. DoomInv'
  BY <1>4, <1>18, <1>19 DEF DoomInv, Skipped
<1> QED BY <1>15, <1>17, <1>20 DEF ProcessInv
-----------------------------------------------------------------------------
(* Every action keeps it: the event loop.                                    *)

LEMMA LoopAwaits ==
  ASSUME Typed, WaitInv, SameForks, UNCHANGED <<forks, forkOf, wait_forks>>, ended \subseteq ended',
         \A i \in 1..Len(stack') : stack'[i].k # "retire"
  PROVE  WaitInv'
<1>1. forks' = forks /\ forkOf' = forkOf /\ wait_forks' = wait_forks
  OBVIOUS
<1>2. ASSUME NEW w \in wait_forks PROVE Awaits(w)'
  <2>1. Awaits(w) /\ w.fids \subseteq Slots
    BY DEF WaitInv, Typed, Waiter
  <2>2. \A g \in w.fids : /\ groups'[g].active /\ groups'[g].no = groups[g].no
                          /\ groups'[g].spawner = groups[g].spawner /\ NotRetired(g)'
    BY <2>1 DEF Awaits, SameForks, NotRetired
  <2>3. \A c \in Branch : c \in Counted(w.th)' => c \in Counted(w.th) /\ forkOf'[c] = forkOf[c]
    BY <1>1, CountedSame
  <2> QED BY <2>1, <2>2, <2>3, AwaitsKept
<1> QED BY <1>1, <1>2 DEF WaitInv

\* The event loop calls into process o.
LEMMA LoopNames ==
  ASSUME Typed, ProcessInv, NEW o \in Processes, CallsOf(o)',
         \A i \in 1..Len(stack') : stack'[i].k # "retire",
         UNCHANGED <<groups, forks, forkOf, waits, wait_forks, ended, doomed>>,
         suspended' \subseteq suspended,
         \A s \in suspended : s \in suspended' \/ ~(s.fid # None /\ groups[s.fid].disabled)
  PROVE  ProcessInv'
<1>1. /\ groups' = groups /\ forks' = forks /\ forkOf' = forkOf /\ waits' = waits
      /\ wait_forks' = wait_forks /\ ended' = ended /\ doomed' = doomed
  OBVIOUS
<1>2. NameInv /\ WaitInv /\ DoomInv
  BY DEF ProcessInv
<1>3. Resumptions'
  BY <1>1, <1>2, OwnersSame DEF NameInv, Resumptions
<1>4. Parents' /\ Spawned'
  BY <1>1, <1>2 DEF NameInv, Parents, Spawned
<1>5. NameInv'
  BY <1>1, <1>2, <1>3, <1>4 DEF NameInv
<1>6. WaitInv'
  BY <1>1, <1>2, LoopAwaits DEF SameForks
<1>7. \A c : Skipped(c) => Skipped(c)'
  BY <1>1 DEF Skipped
<1>8. DoomInv'
  BY <1>1, <1>2, <1>7 DEF DoomInv
<1> QED BY <1>5, <1>6, <1>8 DEF ProcessInv

LEMMA StartProcessNames ==
  ASSUME IInv, ProcessInv, NEW p \in Processes, StartProcess(p)
  PROVE  ProcessInv'
<1>1. /\ stack' = <<Run(p, None)>> /\ name' = p /\ suspended' = suspended
      /\ UNCHANGED <<groups, forks, forkOf, waits, wait_forks, ended, doomed>>
  BY DEF StartProcess, history
<1>2. PICK r : r = Run(p, None)
  OBVIOUS
<1>3. r.k = "run" /\ r.th = p
  BY <1>2 DEF Run
<1>4. Len(stack') = 1 /\ stack'[1] = r
  BY <1>1, <1>2
<1>5. \A i \in 1..Len(stack') : stack'[i] = r
  BY <1>4
<1>6. CallsOf(p)'
  BY <1>1, <1>3, <1>5 DEF CallsOf, Belongs, Refers, Owner
<1> QED BY <1>1, <1>3, <1>5, <1>6, LoopNames DEF IInv

\* A suspended thread is resumed under the name of the process that owns it.
LEMMA ResumedOwner ==
  ASSUME IInv, NameInv, NEW s \in suspended
  PROVE  /\ s.proc \in Processes /\ Owner(s.th) = s.proc
         /\ s.fid # None => /\ s.fid \in Slots /\ groups[s.fid].active
                            /\ groups[s.fid].spawner = s.proc
<1>1. Typed /\ SlotInv /\ CallInv /\ OnePlace
  BY DEF IInv
<1>2. Owner(s.th) = s.proc
  BY DEF NameInv, Resumptions
<1>3. CASE s.fid = None
  <2>1. s.th \in Processes
    BY <1>1, <1>3, SuspendedThread, Basics DEF CallInv
  <2> QED BY <1>2, <1>3, <2>1 DEF Owner
<1>4. CASE s.fid # None
  <2>1. s.th \notin Processes /\ s.fid \in Slots /\ groups[s.fid].active /\ groups[s.fid].no = forkOf[s.th]
    BY <1>1, <1>4, SuspendedThread, Basics DEF CallInv
  <2>2. groups[s.fid].no \in 1..Len(forks)
    BY <1>1, <2>1 DEF SlotInv, GroupInv, Identified
  <2>3. forks[groups[s.fid].no].parent \in Processes
    BY <2>2 DEF NameInv, Parents
  <2>4. groups[s.fid].spawner = forks[groups[s.fid].no].parent
    BY <2>1 DEF NameInv, Spawned
  <2> QED BY <1>2, <2>1, <2>3, <2>4 DEF Owner
<1> QED BY <1>3, <1>4

LEMMA HandlersNames ==
  ASSUME IInv, ProcessInv, NEW s \in suspended, suspended' = suspended \ {s},
         name' = s.proc, stack' = Handlers(s), ~(s.fid # None /\ groups[s.fid].disabled),
         UNCHANGED <<groups, forks, forkOf, waits, wait_forks, ended, doomed>>
  PROVE  ProcessInv'
<1>1. groups' = groups /\ forks' = forks /\ forkOf' = forkOf
  OBVIOUS
<1>2. NameInv /\ Typed
  BY DEF ProcessInv, IInv
<1>3. PICK o \in Processes : o = s.proc
  BY <1>2, ResumedOwner
<1>4. PICK u : u = s.th
  OBVIOUS
<1>5. Owner(u)' = o
  BY <1>1, <1>2, <1>3, <1>4, ResumedOwner, OwnersSame
<1>6. PICK f : f = s.fid
  OBVIOUS
<1>7. PICK r, b : r = Run(u, f) /\ b = [k |-> "branch", fid |-> f, cur |-> u]
  OBVIOUS
<1>8. r.k = "run" /\ r.th = u /\ b.k = "branch" /\ b.fid = f
  BY <1>7 DEF Run
<1>9. (f = None /\ stack' = <<r>>) \/ (f # None /\ stack' = <<b, r>>)
  BY <1>4, <1>6, <1>7 DEF Handlers
<1>10. \A i \in 1..Len(stack') : stack'[i] = r \/ (stack'[i] = b /\ f # None)
  <2>1. CASE stack' = <<r>>
    <3>1. Len(stack') = 1 /\ stack'[1] = r
      BY <2>1
    <3> QED BY <3>1
  <2>2. CASE stack' = <<b, r>> /\ f # None
    <3>1. Len(stack') = 2 /\ stack'[1] = b /\ stack'[2] = r
      BY <2>2
    <3>2. \A i \in 1..Len(stack') : i = 1 \/ i = 2
      BY <3>1
    <3> QED BY <2>2, <3>1, <3>2
  <2> QED BY <1>9, <2>1, <2>2
<1>11. f # None => groups[f].spawner = o
  BY <1>2, <1>3, <1>6, ResumedOwner
<1>12. \A i \in 1..Len(stack') : Belongs(stack[i], o)'
  BY <1>1, <1>5, <1>8, <1>10, <1>11 DEF Belongs, Refers, Owner
<1>13. CallsOf(o)'
  BY <1>3, <1>12 DEF CallsOf
<1>14. \A i \in 1..Len(stack') : stack'[i].k # "retire"
  BY <1>8, <1>10
<1>15. \A v \in suspended : v \in suspended' \/ ~(v.fid # None /\ groups[v.fid].disabled)
  OBVIOUS
<1> QED BY <1>2, <1>13, <1>14, <1>15, LoopNames

\* A branch of a disabled group is skipped: nobody goes on.
LEMMA SkipNames ==
  ASSUME IInv, ProcessInv, NEW s \in suspended, stack = <<>>, suspended' = suspended \ {s},
         s.fid # None, groups[s.fid].disabled,
         Perform(Decrement(groups, s.fid), <<>>), Unblocked(Decrement(groups, s.fid)),
         ended' = ended \cup {s.th}, UNCHANGED <<name, waits, wait_forks, forkOf, forks, doomed>>
  PROVE  ProcessInv'
<1>1. /\ name' = name /\ waits' = waits /\ wait_forks' = wait_forks /\ forkOf' = forkOf
      /\ forks' = forks /\ doomed' = doomed /\ ended \subseteq ended'
  OBVIOUS
<1>2. NameInv /\ WaitInv /\ DoomInv /\ Typed /\ SlotInv
  BY DEF ProcessInv, IInv
<1>3. PICK f \in Slots : f = s.fid
  BY <1>2, ResumedOwner
<1>4. groups[f].active /\ groups[f].spawner = s.proc /\ s.proc \in Processes /\ groups[f].disabled
  BY <1>2, <1>3, ResumedOwner
<1>5. PICK base \in Seq(Frames) : base = <<>>
  <2>1. <<>> \in Seq(Frames)
    OBVIOUS
  <2> QED BY <2>1
<1>6. Settles(f, base)
  <2>1. Continues(f)
    BY <1>2 DEF SlotInv, GroupInv
  <2>2. Perform(Decrement(groups, f), base) /\ Unblocked(Decrement(groups, f))
    BY <1>3, <1>5
  <2> QED BY <1>2, <1>4, <2>1, <2>2, DecrementMoves
<1>7. groups[f].cont = None
  BY <1>2, <1>4 DEF DoomInv
<1>8. SameMarks
  BY <1>6, MarksSettle
<1>9. PICK x : x = Frame("finished", f)
  OBVIOUS
<1>10. x.k = "finished" /\ x.fid = f
  BY <1>9 DEF Frame
<1>11. stack' = <<>> \/ stack' = <<x>>
  BY <1>5, <1>6, <1>7, <1>9 DEF Settles, Lessens, Announces, Continued
<1>12. \A i \in 1..Len(stack') : stack'[i] = x
  <2>1. CASE stack' = <<>>
    BY <2>1
  <2>2. CASE stack' = <<x>>
    <3>1. Len(stack') = 1 /\ stack'[1] = x
      BY <2>2
    <3> QED BY <3>1
  <2> QED BY <1>11, <2>1, <2>2
<1>13. groups'[f].spawner = s.proc
  BY <1>4, <1>8 DEF SameMarks, SameForks
<1>14. \A i \in 1..Len(stack') : Belongs(stack[i], s.proc)' /\ Silent(stack'[i])
  BY <1>10, <1>12, <1>13 DEF Belongs, Refers, Silent
<1>15. CallsOf(s.proc)'
  BY <1>14 DEF CallsOf, Silent
<1>16. Parents' /\ Spawned' /\ Resumptions'
  BY <1>1, <1>2, <1>8, OwnersSame DEF NameInv, Parents, Spawned, Resumptions, SameMarks, SameForks
<1>17. NameInv'
  BY <1>1, <1>2, <1>4, <1>15, <1>16 DEF NameInv
<1>18. WaitInv'
  <2>1. \A i \in 1..Len(stack') : stack'[i].k # "retire"
    BY <1>10, <1>12
  <2> QED BY <1>1, <1>2, <1>8, <2>1, LoopAwaits DEF SameMarks
<1>19. DoomInv'
  <2>1. \A v \in suspended : v \in suspended' \/ v.th \in ended'
    OBVIOUS
  <2> QED BY <1>1, <1>2, <1>8, <2>1, DoomKept DEF SameMarks, SameForks
<1> QED BY <1>17, <1>18, <1>19 DEF ProcessInv

LEMMA ResumeDelayNames ==
  ASSUME IInv, ProcessInv, NEW s \in suspended, ResumeDelay(s)
  PROVE  ProcessInv'
<1>1. stack = <<>> /\ suspended' = suspended \ {s} /\ UNCHANGED <<waits, wait_forks>>
  BY DEF ResumeDelay
<1>2. CASE s.fid # None /\ groups[s.fid].disabled
  <2>1. /\ Perform(Decrement(groups, s.fid), <<>>) /\ Unblocked(Decrement(groups, s.fid))
        /\ ended' = ended \cup {s.th} /\ UNCHANGED <<name, waits, wait_forks, forkOf, forks, doomed>>
    BY <1>2 DEF ResumeDelay
  <2> QED BY <1>1, <1>2, <2>1, SkipNames
<1>3. CASE ~(s.fid # None /\ groups[s.fid].disabled)
  <2>1. /\ stack' = Handlers(s) /\ name' = s.proc
        /\ UNCHANGED <<groups, forks, forkOf, waits, wait_forks, ended, doomed>>
    BY <1>3 DEF ResumeDelay, history
  <2> QED BY <1>1, <1>3, <2>1, HandlersNames
<1> QED BY <1>2, <1>3

LEMMA ProcessStutters == ProcessInv /\ UNCHANGED vars => ProcessInv'
<1> SUFFICES ASSUME ProcessInv, UNCHANGED vars PROVE ProcessInv'
  OBVIOUS
<1>1. /\ groups' = groups /\ stack' = stack /\ name' = name /\ suspended' = suspended /\ waits' = waits
      /\ wait_forks' = wait_forks /\ forkOf' = forkOf /\ forks' = forks /\ ended' = ended
      /\ doomed' = doomed
  BY DEF vars
<1>2. NameInv'
  BY <1>1 DEF ProcessInv, NameInv, Parents, Spawned, Resumptions, CallsOf, Belongs, Owner
<1>3. WaitInv'
  BY <1>1 DEF ProcessInv, WaitInv, Awaits, NotRetired, Counted, Children
<1>4. DoomInv'
  BY <1>1 DEF ProcessInv, DoomInv, Skipped
<1> QED BY <1>2, <1>3, <1>4 DEF ProcessInv

LEMMA ProcessNext ==
  Delayed /\ IInv /\ FlatInv /\ ProcessInv /\ IInv' /\ FlatInv' /\ [Next]_vars => ProcessInv'
<1> SUFFICES ASSUME Delayed, IInv, FlatInv, ProcessInv, IInv', FlatInv', [Next]_vars PROVE ProcessInv'
  OBVIOUS
<1>1. Typed /\ SlotInv /\ waits = {} /\ Resumptions
  BY DEF IInv, ProcessInv, NameInv
<1>2. CASE Statement
  <2>1. ~Wait
    BY <1>1, DelayedExecutes DEF Wait
  <2> QED BY <1>2, <2>1, EndNames, WaitForkNames, DisableForkNames, SuspendNames, ForkNames DEF Statement
<1>3. CASE Return
  BY <1>3, ReturnTrueNames, BranchResumedNames, StartBranchNames, BranchEndNames, JoinedNames, CloseNames,
     FinishedNames, ResumeWaitForkNames, RetireNames DEF Return
<1>4. CASE Idle \/ UNCHANGED vars
  BY <1>4, ProcessStutters DEF Idle
<1>5. ASSUME NEW p \in Processes, StartProcess(p) PROVE ProcessInv'
  BY <1>5, StartProcessNames
<1>6. ASSUME NEW s \in suspended, ResumeDelay(s) \/ ResumeAt(s) PROVE ProcessInv'
  <2>1. ~ResumeAt(s)
    BY <1>1 DEF ResumeAt, Resumptions
  <2> QED BY <1>6, <2>1, ResumeDelayNames
<1> QED BY <1>1, <1>2, <1>3, <1>4, <1>5, <1>6 DEF Next

LEMMA ProcessInit == Init => ProcessInv
<1> SUFFICES ASSUME Init PROVE ProcessInv
  OBVIOUS
<1>1. /\ waits = {} /\ wait_forks = {} /\ stack = <<>> /\ forks = <<>> /\ suspended = {} /\ doomed = {}
      /\ groups = [f \in Slots |->
           [active |-> FALSE, remaining |-> 0, fired |-> FALSE, reclaimable |-> FALSE,
            spawner |-> None, disabled |-> FALSE, cont |-> None, no |-> 0]]
  BY DEF Init
<1>2. \A f \in Slots : ~groups[f].active
  BY <1>1
<1>3. Len(forks) = 0
  BY <1>1
<1>4. NameInv
  BY <1>1, <1>2, <1>3 DEF NameInv, Parents, Spawned, Resumptions
<1>5. WaitInv /\ DoomInv
  BY <1>1, <1>2 DEF WaitInv, DoomInv
<1> QED BY <1>4, <1>5 DEF ProcessInv

\* A design without wait fork has no pending one, one without disable fork dooms nobody.
Unused ==
  /\ "wait fork" \notin design.top \cup design.branch => wait_forks = {}
  /\ "disable fork" \notin design.top \cup design.branch => doomed = {}

LEMMA DesignKept == [Next]_vars => design' = design
<1> SUFFICES ASSUME [Next]_vars PROVE design' = design
  OBVIOUS
<1>1. Statement => design' = design
  BY DEF Statement, End, Wait, WaitFork, DisableFork, Suspend, Fork
<1>2. Return => design' = design
  BY DEF Return, ReturnTrue, BranchResumed, StartBranch, BranchEnd, Joined, Close, Finished,
         ResumeWaitFork, Retire
<1>3. Idle \/ UNCHANGED vars => design' = design
  BY DEF Idle, vars
<1>4. \A p \in Processes : StartProcess(p) => design' = design
  BY DEF StartProcess
<1>5. \A s \in suspended : ResumeDelay(s) \/ ResumeAt(s) => design' = design
  BY DEF ResumeDelay, ResumeAt
<1>6. \A t \in waits : ResumeWait(t) => design' = design
  BY DEF ResumeWait
<1> QED BY <1>1, <1>2, <1>3, <1>4, <1>5, <1>6 DEF Next

LEMMA UnusedNext == Unused /\ [Next]_vars => Unused'
<1> SUFFICES ASSUME Unused, [Next]_vars PROVE Unused'
  OBVIOUS
<1>1. design' = design
  BY DesignKept
<1>2. \A kind : Executes(kind) => kind \in design.top \cup design.branch
  BY DEF Executes, Allowed
<1>3. WaitFork \/ wait_forks' = wait_forks \/ Finished
  <2>1. Statement => WaitFork \/ wait_forks' = wait_forks
    BY DEF Statement, End, Wait, DisableFork, Suspend, Fork, engine
  <2>2. Return => Finished \/ wait_forks' = wait_forks
    BY DEF Return, ReturnTrue, BranchResumed, StartBranch, BranchEnd, Joined, Close,
           ResumeWaitFork, Retire, engine
  <2>3. Idle \/ UNCHANGED vars => wait_forks' = wait_forks
    BY DEF Idle, vars
  <2>4. \A p \in Processes : StartProcess(p) => wait_forks' = wait_forks
    BY DEF StartProcess
  <2>5. \A s \in suspended : ResumeDelay(s) \/ ResumeAt(s) => wait_forks' = wait_forks
    BY DEF ResumeDelay, ResumeAt
  <2>6. \A t \in waits : ResumeWait(t) => wait_forks' = wait_forks
    BY DEF ResumeWait
  <2> QED BY <2>1, <2>2, <2>3, <2>4, <2>5, <2>6 DEF Next
<1>4. DisableFork \/ doomed' = doomed
  <2>1. Statement => DisableFork \/ doomed' = doomed
    BY DEF Statement, End, Wait, WaitFork, Suspend, Fork
  <2>2. Return => doomed' = doomed
    BY DEF Return, ReturnTrue, BranchResumed, StartBranch, BranchEnd, Joined, Close, Finished,
           ResumeWaitFork, Retire, history
  <2>3. Idle \/ UNCHANGED vars => doomed' = doomed
    BY DEF Idle, vars
  <2>4. \A p \in Processes : StartProcess(p) => doomed' = doomed
    BY DEF StartProcess, history
  <2>5. \A s \in suspended : ResumeDelay(s) \/ ResumeAt(s) => doomed' = doomed
    BY DEF ResumeDelay, ResumeAt, history
  <2>6. \A t \in waits : ResumeWait(t) => doomed' = doomed
    BY DEF ResumeWait, history
  <2> QED BY <2>1, <2>2, <2>3, <2>4, <2>5, <2>6 DEF Next
<1>5. "wait fork" \notin design.top \cup design.branch => wait_forks' = {}
  <2>1. WaitFork => "wait fork" \in design.top \cup design.branch
    BY <1>2 DEF WaitFork
  <2>2. Finished /\ wait_forks = {} => wait_forks' = {}
    BY DEF Finished
  <2> QED BY <1>3, <2>1, <2>2 DEF Unused
<1>6. "disable fork" \notin design.top \cup design.branch => doomed' = {}
  <2>1. DisableFork => "disable fork" \in design.top \cup design.branch
    BY <1>2 DEF DisableFork
  <2> QED BY <1>4, <2>1 DEF Unused
<1> QED BY <1>1, <1>5, <1>6 DEF Unused

NamesHold == IInv /\ FlatInv /\ Unused /\ (Delayed => ProcessInv)

LEMMA NamesInvariance ==
  ASSUME Flat
  PROVE  Spec => []NamesHold
<1>1. Init => Unused /\ ProcessInv
  BY ProcessInit DEF Init, Unused
<1>2. Unused /\ [Next]_vars => Unused'
  BY UnusedNext
<1>3. IInv /\ FlatInv /\ (Delayed => ProcessInv) /\ IInv' /\ FlatInv' /\ [Next]_vars
        => (Delayed => ProcessInv)'
  BY ProcessNext, DesignKept DEF Delayed
<1> QED BY <1>1, <1>2, <1>3, FlatInvariance, PTL DEF Spec, NamesHold
-----------------------------------------------------------------------------
(* What the groups are good for.                                             *)

\* The designs in which processes neither wait for events nor for conditions: there
\* the engine always has the name of the process that executes.
NamesKnown == \A d \in Designs : {"at", "wait"} \cap d.top = {} => "at" \notin d.branch

LEMMA BetweenEvents ==
  ASSUME Flat, NamesKnown, NamesHold
  PROVE  GroupsExact
<1>1. Typed /\ SlotInv /\ CallInv /\ OnePlace /\ Ends /\ Kept /\ Calls
  BY DEF NamesHold, IInv, FlatInv
<1>2. NoStaleBranch
  BY <1>1 DEF NoStaleBranch, CallInv, Remembered
<1>3. ASSUME stack = <<>>, NEW n \in DOMAIN forks, forks[n].kind # "any", Of(n) \ ended # {}
      PROVE  \E f \in Slots :
               /\ groups[f].active /\ groups[f].no = n
               /\ groups[f].remaining = Cardinality(Of(n) \ ended)
               /\ groups[f].spawner = forks[n].parent \/ {"at", "wait"} \cap design.top # {}
  <2>1. n \in 1..Len(forks)
    <3>1. forks \in Seq([parent : Thread, kind : Kinds])
      BY <1>1 DEF Typed
    <3> QED BY <1>3, <3>1
  <2>2. PICK f \in Slots : groups[f].active /\ groups[f].no = n
    BY <1>1, <1>3, <2>1 DEF Kept
  <2>3. groups[f].reclaimable
    BY <1>1, <1>3, <2>2 DEF SlotInv, GroupInv, Identified
  <2>4. groups[f].remaining = Cardinality(Unreturned(n))
    BY <1>1, <2>2, <2>3 DEF CallInv, Account, AccountOf
  <2>5. Unreturned(n) = Of(n) \ ended
    <3>1. \A c : Open(c) <=> IsSuspended(c)
      BY <1>3 DEF Open
    <3>2. ASSUME NEW c \in Of(n), c \notin ended PROVE Open(c)
      <4>1. c \in Branch /\ forkOf[c] # 0
        BY <2>1, <3>2 DEF Of, Branch
      <4> QED BY <1>1, <3>2, <4>1 DEF Ends
    <3>3. ASSUME NEW c \in Of(n), c \in ended, Open(c) PROVE FALSE
      <4>1. PICK s \in suspended : s.th = c
        BY <3>1, <3>3 DEF IsSuspended
      <4>2. Holds(c, "suspended", 0, s) /\ Holds(c, "ended", 0, 0) /\ c \in Thread
        BY <1>1, <3>3, <4>1 DEF Holds, RestPlace, Typed
      <4> QED BY <1>1, <4>2 DEF OnePlace
    <3> QED BY <3>2, <3>3 DEF Unreturned
  <2>6. ASSUME {"at", "wait"} \cap design.top = {} PROVE groups[f].spawner = forks[n].parent
    <3>1. design \in Designs
      BY <1>1 DEF Typed
    <3>2. Delayed
      BY <2>6, <3>1 DEF Delayed, Flat, NamesKnown
    <3> QED BY <2>2, <3>2 DEF NamesHold, ProcessInv, NameInv, Spawned
  <2> QED BY <2>2, <2>4, <2>5, <2>6
<1>4. Accounted
  BY <1>3 DEF Accounted
<1> QED BY <1>2, <1>4 DEF GroupsExact

\* Designs with wait fork, or disable fork, whose processes and branches only delay
\* besides: no other process is resumed under their name.
OnlyDelays(kind) ==
  \A d \in Designs : kind \in d.top => d.branch \subseteq {"delay"} /\ {"at", "wait"} \cap d.top = {}

LEMMA DelayedOr ==
  ASSUME Flat, NEW kind, OnlyDelays(kind), kind \notin {"delay", "at"}, NamesHold
  PROVE  (Delayed /\ ProcessInv) \/ kind \notin design.top \cup design.branch
<1>1. design \in Designs
  BY DEF NamesHold, IInv, Typed
<1> QED BY <1>1 DEF Flat, OnlyDelays, Delayed, NamesHold

LEMMA WaitForkEnds ==
  ASSUME NamesHold, Delayed, ProcessInv, [Next]_vars, NEW w \in wait_forks,
         \A v \in wait_forks' : v.th # w.th
  PROVE  Counted(w.th) \subseteq ended
<1>1. Typed /\ SlotInv /\ CallInv /\ Ends /\ Awaits(w) /\ IInv
  BY DEF NamesHold, IInv, FlatInv, ProcessInv, WaitInv
<1>2. ~(wait_forks \subseteq wait_forks')
  OBVIOUS
<1>3. Finished
  <2>1. Statement => wait_forks \subseteq wait_forks'
    BY DEF Statement, End, Wait, WaitFork, DisableFork, Suspend, Fork, engine
  <2>2. Return => Finished \/ wait_forks' = wait_forks
    BY DEF Return, ReturnTrue, BranchResumed, StartBranch, BranchEnd, Joined, Close,
           ResumeWaitFork, Retire, engine
  <2>3. Idle \/ UNCHANGED vars => wait_forks' = wait_forks
    BY DEF Idle, vars
  <2>4. \A p \in Processes : StartProcess(p) => wait_forks' = wait_forks
    BY DEF StartProcess
  <2>5. \A s \in suspended : ResumeDelay(s) \/ ResumeAt(s) => wait_forks' = wait_forks
    BY DEF ResumeDelay, ResumeAt
  <2>6. \A t \in waits : ResumeWait(t) => wait_forks' = wait_forks
    BY DEF ResumeWait
  <2> QED BY <1>2, <2>1, <2>2, <2>3, <2>4, <2>5, <2>6 DEF Next
<1>4. PICK f \in Slots : f = Top.fid
  BY <1>1, <1>3, FinishedMoves
<1>5. /\ stack # <<>> /\ Top.k = "finished"
      /\ wait_forks' = {Less(v, f) : v \in wait_forks \ Resumable(f)}
  BY <1>1, <1>3, <1>4, FinishedMoves
<1>6. groups[f].active /\ groups[f].remaining = 0
  <2>1. PICK m \in Nat : Top = stack[m + 1] /\ m + 1 \in 1..Len(stack)
    BY <1>1, <1>5, TopFrame
  <2> QED BY <1>1, <1>4, <1>5, <2>1 DEF CallInv, Live, LiveEnd
<1>7. w.fids \ {f} = {}
  <2>1. CASE w \notin Resumable(f)
    <3>1. w \in Waiter
      BY <1>1 DEF Typed
    <3>2. Less(w, f) \in wait_forks' /\ Less(w, f).th = w.th
      BY <1>5, <2>1, <3>1 DEF Less, Waiter
    <3> QED BY <3>2
  <2>2. CASE w \in Resumable(f)
    BY <2>2 DEF Resumable
  <2> QED BY <2>1, <2>2
<1>8. ASSUME NEW c \in Counted(w.th), c \notin ended PROVE FALSE
  <2>1. /\ c \in Branch /\ forkOf[c] # 0 /\ forks[forkOf[c]].kind # "any"
    BY <1>8 DEF Counted, Children, Branch
  <2>2. PICK g \in w.fids : groups[g].active /\ groups[g].no = forkOf[c]
    BY <1>1, <1>8 DEF Awaits
  <2>3. g = f
    BY <1>7, <2>2
  <2>4. groups[f].reclaimable
    BY <1>1, <1>6, <2>1, <2>2, <2>3 DEF SlotInv, GroupInv, Identified
  <2>5. ~Open(c)
    BY <1>1, <1>6, <2>1, <2>2, <2>3, <2>4, NoneOpen
  <2> QED BY <1>1, <1>8, <2>1, <2>5 DEF Ends
<1> QED BY <1>8

LEMMA DoomedStops ==
  ASSUME NamesHold, ProcessInv
  PROVE  DisableSound
<1>1. Typed /\ OnePlace /\ DoomInv
  BY DEF NamesHold, IInv, ProcessInv
<1> SUFFICES ASSUME NEW i \in DOMAIN stack, stack[i].k = "run", stack[i].th \in doomed PROVE FALSE
  BY DEF DisableSound
<1>2. i \in 1..Len(stack)
  BY <1>1 DEF Typed
<1>3. PICK c \in Thread : c = stack[i].th
  BY <1>1 DEF Typed
<1>4. Holds(c, "run", i, 0)
  BY <1>2, <1>3 DEF Holds, FramePlace
<1>5. CASE c \in ended
  <2>1. Holds(c, "ended", 0, 0)
    BY <1>5 DEF Holds, RestPlace
  <2> QED BY <1>1, <1>4, <2>1 DEF OnePlace
<1>6. CASE Skipped(c)
  <2>1. PICK s \in suspended : s.th = c
    BY <1>6 DEF Skipped
  <2>2. Holds(c, "suspended", 0, s)
    BY <2>1 DEF Holds, RestPlace
  <2> QED BY <1>1, <1>4, <2>2 DEF OnePlace
<1> QED BY <1>1, <1>3, <1>5, <1>6 DEF DoomInv

\* Between two events the groups tell the truth: a suspended branch remembers the group
\* of its fork, and the unfinished branches of a join or join_none are counted, once, in
\* an active group; it bears the name of the process that forked them, in designs whose
\* processes only delay (alloc_fork_group, active_fork_groups_for_current_process).
THEOREM GroupsTell ==
  ASSUME Flat, NamesKnown
  PROVE  Spec => []GroupsExact
<1>1. NamesHold => GroupsExact
  BY BetweenEvents
<1> QED BY <1>1, NamesInvariance, PTL

\* In designs of delays a wait fork is over only when every branch that its process has
\* forked with join or join_none has ended (check_wait_forks).
THEOREM WaitForksSound ==
  ASSUME Flat, OnlyDelays("wait fork")
  PROVE  Spec => WaitForkSound
<1> DEFINE Over == \A w \in wait_forks :
                     (\A v \in wait_forks' : v.th # w.th) => Counted(w.th) \subseteq ended
<1>1. NamesHold /\ [Next]_vars => [Over]_vars
  <2> SUFFICES ASSUME NamesHold, [Next]_vars PROVE Over
    OBVIOUS
  <2>1. PICK kind : kind = "wait fork"
    OBVIOUS
  <2>2. kind \notin {"delay", "at"} /\ OnlyDelays(kind)
    BY <2>1
  <2>3. (Delayed /\ ProcessInv) \/ kind \notin design.top \cup design.branch
    BY <2>2, DelayedOr
  <2>4. CASE kind \notin design.top \cup design.branch
    BY <2>1, <2>4 DEF NamesHold, Unused
  <2>5. CASE Delayed /\ ProcessInv
    BY <2>5, WaitForkEnds
  <2> QED BY <2>3, <2>4, <2>5
<1> QED BY <1>1, NamesInvariance, PTL DEF Spec, WaitForkSound

\* In designs of delays a branch that disable fork terminates executes nothing any more:
\* it is suspended in a disabled group, and skipped when its delay ends (process_event).
THEOREM DisablesSound ==
  ASSUME Flat, OnlyDelays("disable fork")
  PROVE  Spec => []DisableSound
<1>1. NamesHold => DisableSound
  <2> SUFFICES ASSUME NamesHold PROVE DisableSound
    OBVIOUS
  <2>1. PICK kind : kind = "disable fork"
    OBVIOUS
  <2>2. kind \notin {"delay", "at"} /\ OnlyDelays(kind)
    BY <2>1
  <2>3. (Delayed /\ ProcessInv) \/ kind \notin design.top \cup design.branch
    BY <2>2, DelayedOr
  <2>4. CASE kind \notin design.top \cup design.branch
    BY <2>1, <2>4 DEF NamesHold, Unused, DisableSound
  <2> QED BY <2>3, <2>4, DoomedStops
<1> QED BY <1>1, NamesInvariance, PTL
===============================================================================
