------------------------ MODULE CompileCacheProofs ------------------------
(* Theorems about CompileCache, for every value of its constants.          *)
EXTENDS CompileCache, FiniteSetTheorems, TLAPS

-----------------------------------------------------------------------------
(* The writer lock.                                                        *)

(* As long as no owner has died, nobody thinks the lock is stale and every  *)
(* writer owns it.                                                          *)
LockInv ==
  /\ pc \in [Sessions -> PCs]
  /\ died \in BOOLEAN
  /\ ~died => /\ lock # Dead
              /\ \A s \in Sessions : pc[s] # "stale"
              /\ \A s \in Sessions : Writing(s) => lock = s

LEMMA LockInit == Init => LockInv
  BY DeadAssumption DEF Init, LockInv, PCs, Writing

LEMMA LockStep == LockInv /\ [Next]_vars => LockInv'
<1> SUFFICES ASSUME LockInv, [Next]_vars PROVE LockInv'
  OBVIOUS
<1> USE NoneAssumption, DeadAssumption DEF LockInv, Writing, PCs
<1>1. CASE Edit
  BY <1>1 DEF Edit, history
<1>2. ASSUME NEW s \in Sessions, Crash(s) PROVE LockInv'
  BY <1>2 DEF Crash, End
<1>3. ASSUME NEW s \in Sessions, Run(s) PROVE LockInv'
  <2>1. CASE Open(s) BY <2>1 DEF Open, Recover
  <2>2. CASE Compile(s) BY <2>2 DEF Compile, history
  <2>3. CASE Save(s) BY <2>3 DEF Save, history
  <2>4. CASE SaveFails(s) BY <2>4 DEF SaveFails, Behind
  <2>5. CASE Acquire(s) BY <2>5 DEF Acquire, history
  <2>6. CASE SeeStale(s) BY <2>6 DEF SeeStale, history
  <2>7. CASE RemoveStale(s) BY <2>7 DEF RemoveStale, history
  <2>8. CASE RenameMetadata(s) BY <2>8 DEF RenameMetadata, history
  <2>9. CASE Finish(s) BY <2>9 DEF Finish, Behind, Release
  <2>10. CASE CompileOnly(s) BY <2>10 DEF CompileOnly, End
  <2>11. CASE RestoreIr(s) BY <2>11 DEF RestoreIr, history
  <2>12. CASE Elaborate(s) BY <2>12 DEF Elaborate, history
  <2>13. CASE ElaborationFails(s) BY <2>13 DEF ElaborationFails, End
  <2>14. CASE Recovered(s) BY <2>14 DEF Recovered
  <2>15. CASE StoreIr(s) BY <2>15 DEF StoreIr, End
  <2> QED BY <1>3, <2>1, <2>2, <2>3, <2>4, <2>5, <2>6, <2>7, <2>8, <2>9, <2>10,
             <2>11, <2>12, <2>13, <2>14, <2>15 DEF Run
<1>4. CASE UNCHANGED vars
  BY <1>4 DEF vars, history
<1> QED BY <1>1, <1>2, <1>3, <1>4 DEF Next

(* Two sessions never commit at a time unless the owner of the lock has     *)
(* died: the wait for a free lock is enough, the timeout does no harm.      *)
THEOREM LockSafe == Spec => []SoleWriter
<1>1. LockInv => SoleWriter
  BY DEF LockInv, SoleWriter
<1> QED BY LockInit, LockStep, <1>1, PTL DEF Spec

-----------------------------------------------------------------------------
(* Type correctness. Past the parse a session knows the AST of every file.  *)
WorkKnown ==
  \A s \in Sessions : pc[s] \notin {"idle", "opened"} => sess[s].work \in [Files -> Asts]
TypeInv == TypeOK /\ WorkKnown

LEMMA ParseType ==
  ASSUME TypeOK, NEW f \in Files
  PROVE  Parse(f) \in Asts /\ Parse(f).header \in Texts \cup {None}
  BY DEF TypeOK, Parse, Ast, Asts

LEMMA KnownType == TypeOK => Known \in [Files -> Option(FileMeta)]
  BY DEF TypeOK, Known, Nothing, Option

LEMMA LoadedType == TypeOK => Loaded \in [Files -> Option(Entry)]
<1> SUFFICES ASSUME TypeOK, NEW f \in Files, Known[f] # None, obj[Known[f].hash] # None
             PROVE  [hash |-> Known[f].hash, ast |-> obj[Known[f].hash]] \in Entry
  BY DEF Loaded, Option
<1>1. Known[f].hash \in Texts
  BY KnownType DEF Option, FileMeta
<1>2. obj[Known[f].hash] \in Asts
  BY <1>1 DEF TypeOK, Option
<1> QED BY <1>1, <1>2 DEF Entry

LEMMA BlankType == Blank \in Session /\ Nothing \in [Files -> Option(FileMeta)]
  BY DEF Blank, Nothing, Session, Option, Phases

LEMMA HashesType == ASSUME NEW db \in [Files -> Option(FileMeta)] PROVE Hashes(db) \subseteq Texts
  BY DEF Hashes, Option, FileMeta

LEMMA EvictedType ==
  ASSUME NEW e \in SUBSET Files, NEW n \in 0..MaxFaults, n + Cardinality(e) <= MaxFaults
  PROVE  n + Cardinality(e) \in 0..MaxFaults
<1>1. IsFiniteSet(e)
  BY FilesAssumption, FS_Subset
<1>2. Cardinality(e) \in Nat
  BY <1>1, FS_CardinalityType
<1> QED BY <1>2, BoundsAssumption

LEMMA TypeInit == Init => TypeInv
<1> SUFFICES ASSUME Init PROVE TypeInv
  OBVIOUS
<1>1. sess \in [Sessions -> Session]
  BY BlankType DEF Init
<1>2. meta \in Option([Files -> Option(FileMeta)]) /\ obj \in [Texts -> Option(Asts)]
  BY DEF Init, NoObjects, Option
<1>3. verify \subseteq Texts /\ ir \in Option([Files -> Asts])
  BY DEF Init, Option
<1>4. lock \in Sessions \cup {None, Dead} /\ pc \in [Sessions -> PCs]
  BY DEF Init, PCs
<1>5. opens \in 0..MaxOpens /\ edits \in 0..MaxEdits /\ faults \in 0..MaxFaults
  BY BoundsAssumption DEF Init
<1>6. src \in [Files \cup {Header} -> Texts] /\ journal \in BOOLEAN
      /\ {clean, calm, orphan, died} \subseteq BOOLEAN
  BY DEF Init
<1>7. WorkKnown
  BY DEF Init, WorkKnown
<1> QED BY <1>1, <1>2, <1>3, <1>4, <1>5, <1>6, <1>7 DEF TypeInv, TypeOK

(* The parse of a session, in types.                                        *)
LEMMA CompileType ==
  ASSUME TypeInv, NEW s \in Sessions, Compile(s)
  PROVE  sess' \in [Sessions -> Session] /\ sess'[s].work \in [Files -> Asts]
<1> DEFINE d == sess[s]
           kept == Restored(d)
           work == [f \in Files |-> IF f \in kept THEN d.cache[f].ast ELSE Parse(f)]
           db == [f \in Files |-> IF f \in kept THEN Unchanged(d.db[f]) ELSE Recompiled(f)]
           cache == [f \in Files |-> IF f \in kept THEN d.cache[f] ELSE Cached(f)]
           found == Verified(d, db)
           dirty == Dirtied(d, db, cache)
           new == [d EXCEPT !.work = work, !.db = db, !.cache = cache, !.restored = kept,
                            !.verify = found, !.dirty = dirty]
<1>1. d \in Session
  BY DEF TypeInv, TypeOK
<1>2. kept \subseteq Files
  BY DEF Restored, Reusable
<1>3. \A f \in kept : d.db[f] \in FileMeta /\ d.cache[f] \in Entry
  BY <1>1 DEF Session, Option, Restored, Reusable, DepsUnchanged, AstAt
<1>4. work \in [Files -> Asts]
  <2> SUFFICES ASSUME NEW f \in Files PROVE work[f] \in Asts
    OBVIOUS
  <2> QED BY <1>3, ParseType DEF Entry, TypeInv
<1>5. db \in [Files -> Option(FileMeta)]
  <2> SUFFICES ASSUME NEW f \in Files PROVE db[f] \in FileMeta
    BY DEF Option
  <2>1. CASE f \in kept
    BY <2>1, <1>3 DEF FileMeta, Status, Unchanged
  <2>2. CASE f \notin kept
    <3>1. src[f] \in Texts /\ Parse(f).header \in Texts \cup {None}
      BY ParseType DEF TypeInv, TypeOK
    <3> QED BY <2>2, <3>1 DEF FileMeta, Status, Recompiled
  <2> QED BY <2>1, <2>2
<1>6. cache \in [Files -> Option(Entry)]
  <2> SUFFICES ASSUME NEW f \in Files PROVE cache[f] \in Entry
    BY DEF Option
  <2>1. CASE f \in kept
    BY <2>1, <1>3
  <2>2. CASE f \notin kept
    <3>1. src[f] \in Texts /\ Parse(f) \in Asts
      BY ParseType DEF TypeInv, TypeOK
    <3> QED BY <2>2, <3>1 DEF Entry, Cached
  <2> QED BY <2>1, <2>2
<1>7. found \subseteq Texts
  <2>1. d.verify \subseteq Texts
    BY <1>1 DEF Session
  <2> QED BY <2>1, <1>5, HashesType DEF Verified
<1>8. dirty \subseteq Stores
  BY DEF Stores, Dirtied
<1>9. sess' = [sess EXCEPT ![s] = new]
  BY DEF Compile
<1>10. work \in [Files -> Option(Asts)]
  BY <1>4 DEF Option
<1> HIDE DEF kept, work, db, cache, found, dirty
<1>11. new \in Session /\ new.work = work
  BY <1>1, <1>2, <1>5, <1>6, <1>7, <1>8, <1>10 DEF Session
<1> HIDE DEF new
<1> QED BY <1>4, <1>9, <1>11 DEF TypeInv, TypeOK

(* A step of one session preserves the types of sessions when its own do.   *)
LEMMA SessionStep ==
  ASSUME TypeInv, NEW s \in Sessions, NEW new \in Session, NEW p \in PCs,
         p \notin {"idle", "opened"} => new.work \in [Files -> Asts],
         sess' = [sess EXCEPT ![s] = new], pc' = [pc EXCEPT ![s] = p]
  PROVE  sess' \in [Sessions -> Session] /\ pc' \in [Sessions -> PCs] /\ WorkKnown'
  BY DEF TypeInv, TypeOK, WorkKnown

(* The same when only the control moves.                                    *)
LEMMA ControlStep ==
  ASSUME TypeInv, NEW s \in Sessions, NEW p \in PCs, pc[s] \notin {"idle", "opened"},
         UNCHANGED sess, pc' = [pc EXCEPT ![s] = p]
  PROVE  sess' \in [Sessions -> Session] /\ pc' \in [Sessions -> PCs] /\ WorkKnown'
  BY DEF TypeInv, TypeOK, WorkKnown

LEMMA BehindType == ASSUME NEW s \in Sessions PROVE Behind(s) \in PCs
  BY DEF Behind, PCs

LEMMA EndStep ==
  ASSUME TypeInv, NEW s \in Sessions, End(s)
  PROVE  sess' \in [Sessions -> Session] /\ pc' \in [Sessions -> PCs] /\ WorkKnown'
<1>1. "idle" \in PCs /\ Blank \in Session
  BY BlankType DEF PCs
<1> QED BY <1>1, SessionStep DEF End

(* The end of a save, kept or given up.                                     *)
LEMMA BehindStep ==
  ASSUME TypeInv, NEW s \in Sessions, pc[s] \notin {"idle", "opened"}, NEW new \in Session,
         new.work = sess[s].work, pc' = [pc EXCEPT ![s] = Behind(s)],
         sess' = [sess EXCEPT ![s] = IF Behind(s) = "idle" THEN Blank ELSE new]
  PROVE  sess' \in [Sessions -> Session] /\ pc' \in [Sessions -> PCs] /\ WorkKnown'
<1> DEFINE last == IF Behind(s) = "idle" THEN Blank ELSE new
<1>1. last \in Session
  BY BlankType
<1>2. Behind(s) \notin {"idle", "opened"} => last.work \in [Files -> Asts]
  BY DEF TypeInv, WorkKnown
<1> HIDE DEF last
<1>3. sess' = [sess EXCEPT ![s] = last]
  BY DEF last
<1> QED BY <1>1, <1>2, <1>3, BehindType, SessionStep

LEMMA OpenType ==
  ASSUME TypeInv, NEW s \in Sessions, Open(s)
  PROVE  TypeInv'
<1>1. PICK mode \in Modes : sess' = [r \in Sessions |->
         IF r = s
         THEN [Blank EXCEPT !.mode = mode, !.db = Known, !.cache = Loaded,
                            !.verify = verify', !.ir = ir, !.good = (Active = {})]
         ELSE [sess[r] EXCEPT !.good = FALSE]]
  BY DEF Open
<1> DEFINE alone == Active = {}
           new == [Blank EXCEPT !.mode = mode, !.db = Known, !.cache = Loaded,
                                !.verify = verify', !.ir = ir, !.good = alone]
<1>2. new \in Session
  <2>1. Loaded \in [Files -> Option(Entry)] /\ Known \in [Files -> Option(FileMeta)]
        /\ verify' \in SUBSET Texts /\ ir \in Option([Files -> Asts]) /\ alone \in BOOLEAN
        /\ mode \in Option(Modes)
    BY LoadedType, KnownType DEF TypeInv, TypeOK, Option, Open, DropWithoutMetadata
  <2> HIDE DEF alone
  <2> QED BY <2>1, BlankType DEF Session
<1> HIDE DEF new
<1>3. sess' = [r \in Sessions |-> IF r = s THEN new ELSE [sess[r] EXCEPT !.good = FALSE]]
  BY <1>1 DEF new
<1>4. \A r \in Sessions : [sess[r] EXCEPT !.good = FALSE] \in Session
                           /\ [sess[r] EXCEPT !.good = FALSE].work = sess[r].work
  BY DEF TypeInv, TypeOK, Session
<1>5. sess' \in [Sessions -> Session]
  BY <1>2, <1>3, <1>4
<1>6. pc' = [pc EXCEPT ![s] = "opened"] /\ pc \in [Sessions -> PCs]
  BY DEF Open, TypeInv, TypeOK
<1>7. WorkKnown'
  BY <1>3, <1>4, <1>6 DEF TypeInv, WorkKnown
<1>8. opens' \in 0..MaxOpens
  <2>1. opens \in 0..MaxOpens /\ opens < MaxOpens /\ opens' = opens + 1
    BY DEF Open, TypeInv, TypeOK
  <2> QED BY <2>1, BoundsAssumption
<1>9. pc' \in [Sessions -> PCs]
  BY <1>6 DEF PCs
<1>10. {clean, calm, orphan, died}' \subseteq BOOLEAN /\ journal' \in BOOLEAN
  BY DEF Open, Recover, TypeInv, TypeOK
<1>11. obj' \in [Texts -> Option(Asts)] /\ verify' \subseteq Texts
  BY DEF Open, DropWithoutMetadata, NoObjects, Option, TypeInv, TypeOK
<1> QED BY <1>5, <1>7, <1>8, <1>9, <1>10, <1>11 DEF Open, TypeInv, TypeOK


LEMMA EditType ==
  ASSUME TypeInv, Edit
  PROVE  TypeInv'
<1>1. edits \in 0..MaxEdits /\ edits < MaxEdits /\ edits' = edits + 1
  BY DEF Edit, TypeInv, TypeOK
<1>2. edits' \in 0..MaxEdits
  BY <1>1, BoundsAssumption
<1>3. src' \in [Files \cup {Header} -> Texts]
  BY SourcesAssumption DEF Edit, TypeInv, TypeOK
<1> QED BY <1>2, <1>3 DEF Edit, TypeInv, TypeOK, WorkKnown, disk, history

LEMMA CrashType ==
  ASSUME TypeInv, NEW s \in Sessions, Crash(s)
  PROVE  TypeInv'
<1>1. faults \in 0..MaxFaults /\ faults < MaxFaults /\ faults' = faults + 1
  BY DEF Crash, TypeInv, TypeOK
<1>2. faults' \in 0..MaxFaults
  BY <1>1, BoundsAssumption
<1>3. lock' \in Sessions \cup {None, Dead} /\ {clean, calm, orphan, died}' \subseteq BOOLEAN
  BY DEF Crash, TypeInv, TypeOK
<1>4. End(s)
  BY DEF Crash
<1> QED BY <1>2, <1>3, <1>4, EndStep DEF Crash, TypeInv, TypeOK, disk

LEMMA SaveType ==
  ASSUME TypeInv, NEW s \in Sessions, Save(s)
  PROVE  TypeInv'
<1> DEFINE d == sess[s]
<1>1. PICK evicted \in SUBSET {f \in Files : d.cache[f] # None} :
          /\ faults + Cardinality(evicted) <= MaxFaults
          /\ faults' = faults + Cardinality(evicted)
          /\ sess' = [sess EXCEPT ![s] =
               [d EXCEPT !.cache = Evict(d.cache, evicted), !.verify = Reachable(d),
                         !.dirty = Collected(d, evicted), !.good = d.good /\ evicted = {}]]
          /\ IF "objects" \in Collected(d, evicted)
             THEN obj' \in {o \in [Texts -> Option(Asts)] :
                              \A h \in Texts : o[h] \in Written(Evict(d.cache, evicted), h)}
             ELSE obj' = obj
  BY DEF Save
<1> DEFINE cache == Evict(d.cache, evicted)
           live == Reachable(d)
           dirty == Collected(d, evicted)
           good == d.good /\ evicted = {}
           new == [d EXCEPT !.cache = cache, !.verify = live, !.dirty = dirty, !.good = good]
<1>2. d \in Session /\ pc[s] = "saving"
  BY DEF TypeInv, TypeOK, Save
<1>3. cache \in [Files -> Option(Entry)]
  BY <1>2 DEF Session, Option, Evict
<1>4. live \in SUBSET Texts /\ dirty \in SUBSET Stores
  BY <1>2 DEF Session, Stores, Reachable, Collected
<1>5. obj' \in [Texts -> Option(Asts)]
  <2>1. obj' = obj \/ obj' \in {o \in [Texts -> Option(Asts)] :
                                 \A h \in Texts : o[h] \in Written(cache, h)}
    BY <1>1
  <2> HIDE DEF cache
  <2> QED BY <2>1 DEF TypeInv, TypeOK
<1>6. faults' \in 0..MaxFaults
  <2>1. faults' = faults + Cardinality(evicted) /\ faults + Cardinality(evicted) <= MaxFaults
    BY <1>1
  <2>2. evicted \in SUBSET Files /\ faults \in 0..MaxFaults
    BY DEF TypeInv, TypeOK
  <2> QED BY <2>1, <2>2, EvictedType
<1>7. good \in BOOLEAN
  OBVIOUS
<1>8. sess' = [sess EXCEPT ![s] = new]
  BY <1>1
<1> HIDE DEF cache, live, dirty, good
<1>9. new \in Session /\ new.work = d.work
  BY <1>2, <1>3, <1>4, <1>7 DEF Session
<1> HIDE DEF new
<1>10. new.work \in [Files -> Asts]
  BY <1>2, <1>9 DEF TypeInv, WorkKnown
<1>11. pc' = [pc EXCEPT ![s] = "locking"] /\ "locking" \in PCs
  BY DEF Save, PCs
<1>12. sess' \in [Sessions -> Session] /\ pc' \in [Sessions -> PCs] /\ WorkKnown'
  BY <1>8, <1>9, <1>10, <1>11, SessionStep
<1>13. UNCHANGED <<src, meta, verify, ir, journal, lock, opens, edits, history>>
  BY DEF Save
<1> QED BY <1>5, <1>6, <1>12, <1>13 DEF TypeInv, TypeOK, history


LEMMA FinishType ==
  ASSUME TypeInv, NEW s \in Sessions, Finish(s)
  PROVE  TypeInv'
<1> DEFINE new == [sess[s] EXCEPT !.dirty = {}]
<1>1. sess[s] \in Session /\ pc[s] = "finishing"
  BY DEF Finish, TypeInv, TypeOK
<1>2. new \in Session /\ new.work = sess[s].work
  BY <1>1 DEF Session
<1>3. sess' = [sess EXCEPT ![s] = IF Behind(s) = "idle" THEN Blank ELSE new]
      /\ pc' = [pc EXCEPT ![s] = Behind(s)]
  BY DEF Finish
<1> HIDE DEF new
<1>4. sess' \in [Sessions -> Session] /\ pc' \in [Sessions -> PCs] /\ WorkKnown'
  BY <1>1, <1>2, <1>3, BehindStep
<1>5. verify' \subseteq Texts /\ ir' \in Option([Files -> Asts]) /\ clean' \in BOOLEAN
  BY <1>1 DEF Finish, Index, TypeInv, TypeOK, Session, Option
<1>6. UNCHANGED <<src, meta, obj, bounds, calm, orphan, died>> /\ journal' = FALSE /\ lock' = None
  BY DEF Finish, Release
<1> QED BY <1>4, <1>5, <1>6 DEF TypeInv, TypeOK, bounds

LEMMA SaveFailsType ==
  ASSUME TypeInv, NEW s \in Sessions, SaveFails(s)
  PROVE  TypeInv'
<1> DEFINE new == [sess[s] EXCEPT !.good = FALSE]
<1>1. sess[s] \in Session /\ pc[s] = "locking"
  BY DEF SaveFails, TypeInv, TypeOK
<1>2. new \in Session /\ new.work = sess[s].work
  BY <1>1 DEF Session
<1>3. sess' = [sess EXCEPT ![s] = IF Behind(s) = "idle" THEN Blank ELSE new]
      /\ pc' = [pc EXCEPT ![s] = Behind(s)]
  BY DEF SaveFails
<1> HIDE DEF new
<1>4. sess' \in [Sessions -> Session] /\ pc' \in [Sessions -> PCs] /\ WorkKnown'
  BY <1>1, <1>2, <1>3, BehindStep
<1>5. UNCHANGED <<src, disk, journal, lock, bounds, orphan, died>>
      /\ clean' = FALSE /\ calm' = FALSE
  BY DEF SaveFails
<1> QED BY <1>4, <1>5 DEF TypeInv, TypeOK, bounds, disk

LEMMA ReleasedType ==
  ASSUME NEW d \in Session
  PROVE  Released(d) \in Session /\ Released(d).work = d.work
<1> DEFINE dirty == IF LooksUp(d) THEN d.dirty \cup {"layer"} ELSE d.dirty
           index == IF LooksUp(d) /\ ~IrFound(d) THEN None ELSE d.ir
<1>1. dirty \in SUBSET Stores /\ index \in Option([Files -> Asts])
      /\ Nothing \in [Files -> Option(Entry)]
  BY DEF Session, Stores, Nothing, Option
<1>2. Released(d) = [d EXCEPT !.cache = Nothing, !.dirty = dirty, !.ir = index]
  BY DEF Released
<1> HIDE DEF dirty, index
<1> QED BY <1>1, <1>2 DEF Session

LEMMA MarkedType ==
  ASSUME NEW d \in Session, NEW phase \in Phases
  PROVE  Marked(d, phase) \in Session /\ Marked(d, phase).work = d.work
  BY DEF Session, Marked, Stores

LEMMA PrunedType ==
  ASSUME NEW d \in Session
  PROVE  Pruned(d, {}) \in Session /\ Pruned(d, {}).work = d.work
<1> DEFINE db == [f \in Files |-> IF f \in {} THEN d.db[f] ELSE None]
           dirty == d.dirty \cup {"metadata", "objects"}
<1>1. db \in [Files -> Option(FileMeta)] /\ dirty \in SUBSET Stores /\ "recovered" \in Phases
  BY DEF Session, Stores, Phases, Option
<1>2. Pruned(d, {}) = [d EXCEPT !.phase = "recovered", !.dirty = dirty, !.db = db]
  BY DEF Pruned
<1> HIDE DEF db, dirty
<1> QED BY <1>1, <1>2 DEF Session

(* RestoreIr, Elaborate and Recovered take the session to its second save.  *)
LEMMA SecondSaveType ==
  ASSUME TypeInv, NEW s \in Sessions, RestoreIr(s) \/ Elaborate(s) \/ Recovered(s)
  PROVE  TypeInv'
<1>1. sess[s] \in Session /\ pc[s] = "saved" /\ "saving" \in PCs
  BY DEF RestoreIr, Elaborate, Recovered, TypeInv, TypeOK, PCs
<1>2. sess[s].work \in [Files -> Asts]
  BY <1>1 DEF TypeInv, WorkKnown
<1>3. Released(sess[s]) \in Session /\ Released(sess[s]).work = sess[s].work
  BY <1>1, ReleasedType
<1>4. PICK new \in Session : new.work = sess[s].work /\ sess' = [sess EXCEPT ![s] = new]
  <2> DEFINE d == Released(sess[s])
  <2>1. Marked(d, "hit") \in Session /\ Marked(d, "hit").work = sess[s].work
    BY <1>3, MarkedType DEF Phases
  <2>2. Marked(d, "clean") \in Session /\ Marked(d, "clean").work = sess[s].work
    BY <1>3, MarkedType DEF Phases
  <2>3. Pruned(d, {}) \in Session /\ Pruned(d, {}).work = sess[s].work
    BY <1>3, PrunedType
  <2> QED BY <2>1, <2>2, <2>3 DEF RestoreIr, Elaborate, Recovered
<1>5. pc' = [pc EXCEPT ![s] = "saving"]
  BY DEF RestoreIr, Elaborate, Recovered
<1>6. sess' \in [Sessions -> Session] /\ pc' \in [Sessions -> PCs] /\ WorkKnown'
  BY <1>1, <1>2, <1>4, <1>5, SessionStep
<1>7. UNCHANGED <<src, meta, verify, ir, journal, lock, bounds, clean, calm, died>>
      /\ orphan' \in {TRUE, orphan} /\ obj' \in {obj, Swept(Live(Nothing))}
  BY DEF RestoreIr, Elaborate, Recovered, disk, history
<1>8. obj' \in [Texts -> Option(Asts)] /\ orphan' \in BOOLEAN
  BY <1>7 DEF TypeInv, TypeOK, Option, Swept
<1> QED BY <1>6, <1>7, <1>8 DEF TypeInv, TypeOK, bounds

LEMMA TypeStep == TypeInv /\ [Next]_vars => TypeInv'
<1> SUFFICES ASSUME TypeInv, [Next]_vars PROVE TypeInv'
  OBVIOUS
<1>1. CASE UNCHANGED vars
  BY <1>1 DEF vars, disk, bounds, history, TypeInv, TypeOK, WorkKnown
<1>2. ASSUME NEW s \in Sessions, Run(s) PROVE TypeInv'
  <2>1. CASE Compile(s)
    <3> DEFINE new == sess'[s]
    <3>1. sess' \in [Sessions -> Session] /\ new \in Session /\ new.work \in [Files -> Asts]
      BY <2>1, CompileType
    <3>2. pc' = [pc EXCEPT ![s] = "saving"] /\ "saving" \in PCs
      BY <2>1 DEF Compile, PCs
    <3>3. \A r \in Sessions : r # s => sess'[r] = sess[r]
      BY <2>1 DEF Compile, TypeInv, TypeOK
    <3>4. WorkKnown' /\ pc' \in [Sessions -> PCs]
      BY <3>1, <3>2, <3>3 DEF TypeInv, TypeOK, WorkKnown
    <3>5. UNCHANGED <<src, disk, journal, lock, bounds, history>>
      BY <2>1 DEF Compile
    <3> QED BY <3>1, <3>4, <3>5 DEF TypeInv, TypeOK, disk, bounds, history
  <2>2. CASE Acquire(s) \/ SeeStale(s) \/ RemoveStale(s) \/ RenameMetadata(s)
    <3>1. pc[s] \in {"locking", "stale", "renaming"} /\ UNCHANGED sess
          /\ \E p \in {"renaming", "stale", "locking", "finishing"} : pc' = [pc EXCEPT ![s] = p]
      BY <2>2 DEF Acquire, SeeStale, RemoveStale, RenameMetadata
    <3>2. sess' \in [Sessions -> Session] /\ pc' \in [Sessions -> PCs] /\ WorkKnown'
      BY <3>1, ControlStep DEF PCs
    <3>3. lock' \in {lock, s, None} /\ journal' \in {journal, TRUE} /\ meta' \in {meta, sess[s].db}
      BY <2>2 DEF Acquire, SeeStale, RemoveStale, RenameMetadata, disk
    <3>4. meta' \in Option([Files -> Option(FileMeta)])
      BY <3>3 DEF TypeInv, TypeOK, Session, Option
    <3>5. UNCHANGED <<src, obj, verify, ir, bounds, history>>
      BY <2>2 DEF Acquire, SeeStale, RemoveStale, RenameMetadata, disk
    <3> QED BY <3>2, <3>3, <3>4, <3>5 DEF TypeInv, TypeOK, bounds, history
  <2>3. CASE CompileOnly(s) \/ ElaborationFails(s) \/ StoreIr(s)
    <3>1. End(s) /\ UNCHANGED <<src, meta, obj, verify, journal, lock, bounds, clean, calm, died>>
          /\ orphan' \in BOOLEAN
      BY <2>3 DEF CompileOnly, ElaborationFails, StoreIr, disk
    <3>2. ir' \in Option([Files -> Asts])
      <4>1. CASE StoreIr(s)
        <5>1. pc[s] = "storing" /\ ir' = sess[s].work
          BY <4>1 DEF StoreIr
        <5> QED BY <5>1 DEF TypeInv, WorkKnown, Option
      <4>2. CASE ir' = ir
        BY <4>2 DEF TypeInv, TypeOK
      <4> QED BY <2>3, <4>1, <4>2 DEF CompileOnly, ElaborationFails, disk
    <3> QED BY <3>1, <3>2, EndStep DEF TypeInv, TypeOK, bounds
  <2> QED BY <1>2, <2>1, <2>2, <2>3, OpenType, SaveType, SaveFailsType, FinishType,
             SecondSaveType DEF Run
<1> QED BY <1>1, <1>2, EditType, CrashType DEF Next

(* Every variable keeps its type; in particular what StoreIr writes is the  *)
(* AST of every file, never a released cache.                               *)
THEOREM TypeCorrect == Spec => []TypeOK
<1>1. TypeInv => TypeOK
  BY DEF TypeInv
<1> QED BY TypeInit, TypeStep, <1>1, PTL DEF Spec


-----------------------------------------------------------------------------
(* Reuse. While the header stays as it is, every object and every cached    *)
(* entry is what parsing its text would give.                               *)
Fresh(text) == Ast(text, src[Header])
ObjFresh == \A t \in Texts : obj[t] # None => obj[t] = Fresh(t)
FreshIn(cache) == \A f \in Files : cache[f] # None => cache[f].ast = Fresh(cache[f].hash)
CacheFresh == \A s \in Sessions : FreshIn(sess[s].cache)
Faithful == TypeInv /\ ObjFresh /\ CacheFresh

(* Past the parse the caches are empty.                                     *)
LEMMA ReleasedCache ==
  ASSUME NEW d \in Session
  PROVE  /\ \A phase \in Phases : Marked(Released(d), phase).cache = Nothing
         /\ Pruned(Released(d), {}).cache = Nothing
         /\ {"hit", "clean"} \subseteq Phases
<1>1. Released(d) \in Session /\ Released(d).cache = Nothing
  BY ReleasedType DEF Released, Session
<1> DEFINE e == Released(d)
<1> HIDE DEF e
<1>2. e \in Session /\ e.cache = Nothing
  BY <1>1 DEF e
<1>3. \A phase \in Phases : Marked(e, phase).cache = Nothing
  BY <1>2 DEF Marked, Session
<1>4. Pruned(e, {}).cache = Nothing
  BY <1>2 DEF Pruned, Session
<1> QED BY <1>3, <1>4 DEF e, Phases

LEMMA NothingFresh == FreshIn(Nothing) /\ FreshIn(Blank.cache)
  BY DEF FreshIn, Nothing, Blank

LEMMA FaithfulInit == Init => Faithful
  BY TypeInit, NothingFresh DEF Init, NoObjects, Faithful, ObjFresh, CacheFresh

LEMMA LoadedFresh == ASSUME TypeInv, ObjFresh PROVE FreshIn(Loaded)
<1> SUFFICES ASSUME NEW f \in Files, Known[f] # None, obj[Known[f].hash] # None
             PROVE  obj[Known[f].hash] = Fresh(Known[f].hash)
  BY DEF FreshIn, Loaded
<1>1. Known[f].hash \in Texts
  BY KnownType DEF TypeInv, Option, FileMeta
<1> QED BY <1>1 DEF ObjFresh

(* What the parse of a session works with, and what it caches.              *)
LEMMA CompileFresh ==
  ASSUME Faithful, NEW s \in Sessions, Compile(s)
  PROVE  sess'[s].work = [f \in Files |-> Parse(f)] /\ FreshIn(sess'[s].cache)
<1> DEFINE d == sess[s]
           kept == Restored(d)
           work == [f \in Files |-> IF f \in kept THEN d.cache[f].ast ELSE Parse(f)]
           cache == [f \in Files |-> IF f \in kept THEN d.cache[f] ELSE Cached(f)]
<1>1. \A f \in kept : f \in Files /\ d.cache[f] # None /\ d.cache[f].hash = src[f]
  BY DEF Restored, Reusable, AstAt
<1>2. \A f \in kept : d.cache[f].ast = Parse(f)
  BY <1>1 DEF Faithful, CacheFresh, FreshIn, Fresh, Parse
<1>3. \A f \in Files : work[f] = Parse(f)
  BY <1>2
<1>4. FreshIn(cache)
  <2> SUFFICES ASSUME NEW f \in Files PROVE cache[f].ast = Fresh(cache[f].hash)
    BY DEF FreshIn
  <2>1. CASE f \in kept
    BY <2>1, <1>1, <1>2 DEF Fresh, Parse
  <2>2. CASE f \notin kept
    <3> HIDE DEF kept
    <3> QED BY <2>2 DEF Cached, Fresh, Parse
  <2> QED BY <2>1, <2>2
<1>5. sess'[s].work = work /\ sess'[s].cache = cache
  BY DEF Compile, Faithful, TypeInv, TypeOK, Session
<1>6. work = [f \in Files |-> Parse(f)]
  BY <1>3
<1> HIDE DEF work, cache
<1> QED BY <1>4, <1>5, <1>6


(* A save writes only what is cached, or leaves what is there.              *)
LEMMA SaveFresh ==
  ASSUME Faithful, NEW s \in Sessions, Save(s)
  PROVE  ObjFresh' /\ CacheFresh'
<1> DEFINE d == sess[s]
<1>1. PICK evicted \in SUBSET {f \in Files : d.cache[f] # None} :
          /\ faults + Cardinality(evicted) <= MaxFaults
          /\ faults' = faults + Cardinality(evicted)
          /\ sess' = [sess EXCEPT ![s] =
               [d EXCEPT !.cache = Evict(d.cache, evicted), !.verify = Reachable(d),
                         !.dirty = Collected(d, evicted), !.good = d.good /\ evicted = {}]]
          /\ IF "objects" \in Collected(d, evicted)
             THEN obj' \in {o \in [Texts -> Option(Asts)] :
                              \A h \in Texts : o[h] \in Written(Evict(d.cache, evicted), h)}
             ELSE obj' = obj
  BY DEF Save
<1> DEFINE cache == Evict(d.cache, evicted)
<1>2. FreshIn(cache)
  BY DEF Faithful, CacheFresh, FreshIn, Evict
<1>3. obj' = obj \/ \A h \in Texts : obj'[h] \in Written(cache, h)
  BY <1>1
<1>4. sess'[s].cache = cache /\ \A r \in Sessions : r # s => sess'[r] = sess[r]
  BY <1>1 DEF Faithful, TypeInv, TypeOK, Session
<1>5. src' = src
  BY DEF Save
<1> HIDE DEF cache
<1>6. ObjFresh'
  <2> SUFFICES ASSUME NEW h \in Texts, obj'[h] # None PROVE obj'[h] = Fresh(h)
    BY <1>5 DEF ObjFresh, Fresh
  <2>1. CASE obj' = obj
    BY <2>1 DEF Faithful, ObjFresh
  <2>2. CASE obj'[h] \in Written(cache, h)
    <3>1. obj'[h] = obj[h]
          \/ \E f \in Files : cache[f] # None /\ cache[f].hash = h /\ obj'[h] = cache[f].ast
      BY <2>2 DEF Written, Live
    <3> QED BY <3>1, <1>2 DEF FreshIn, Faithful, ObjFresh
  <2> QED BY <1>3, <2>1, <2>2
<1>7. CacheFresh'
  BY <1>2, <1>4, <1>5 DEF Faithful, CacheFresh, FreshIn, Fresh
<1> QED BY <1>6, <1>7

(* As long as the header is not edited, so does every step.                 *)
LEMMA FaithfulStep ==
  ASSUME Header \notin Editable, Faithful, [Next]_vars
  PROVE  Faithful'
<1>1. TypeInv'
  BY TypeStep DEF Faithful
<1>2. CASE UNCHANGED vars
  BY <1>1, <1>2 DEF vars, disk, Faithful, ObjFresh, CacheFresh, FreshIn, Fresh
<1>3. CASE Edit
  <2>1. src'[Header] = src[Header]
    BY <1>3 DEF Edit, Faithful, TypeInv, TypeOK
  <2> QED BY <1>1, <1>3, <2>1 DEF Edit, disk, Faithful, ObjFresh, CacheFresh, FreshIn, Fresh, Ast
<1>4. ASSUME NEW s \in Sessions, Run(s) \/ Crash(s) PROVE Faithful'
  <2>1. src' = src
    BY <1>4 DEF Run, Crash, Open, Compile, Save, SaveFails, Acquire, SeeStale, RemoveStale,
       RenameMetadata, Finish, CompileOnly, RestoreIr, Elaborate, ElaborationFails, Recovered,
       StoreIr
  <2>2. CASE Save(s)
    BY <1>1, <2>2, SaveFresh DEF Faithful
  <2>3. ObjFresh' \/ Save(s)
    <3>1. obj' \in {obj, NoObjects, Swept(Live(Nothing))} \/ Save(s)
      BY <1>4 DEF Run, Crash, Open, Compile, SaveFails, Acquire, SeeStale, RemoveStale,
         RenameMetadata, Finish, CompileOnly, RestoreIr, Elaborate, ElaborationFails,
         Recovered, StoreIr, DropWithoutMetadata, disk
    <3> QED BY <2>1, <3>1 DEF Faithful, ObjFresh, Fresh, NoObjects, Swept
  <2>4. CacheFresh' \/ Save(s)
    <3> SUFFICES ASSUME ~Save(s), NEW r \in Sessions PROVE FreshIn(sess'[r].cache)
      BY <2>1 DEF CacheFresh, FreshIn, Fresh
    <3>1. CASE Compile(s)
      BY <3>1, CompileFresh DEF Compile, Faithful, CacheFresh, TypeInv, TypeOK
    <3>2. CASE Open(s)
      <4>1. PICK mode \in Modes : sess' = [q \in Sessions |->
              IF q = s
              THEN [Blank EXCEPT !.mode = mode, !.db = Known, !.cache = Loaded,
                                 !.verify = verify', !.ir = ir, !.good = (Active = {})]
              ELSE [sess[q] EXCEPT !.good = FALSE]]
        BY <3>2 DEF Open
      <4>2. CASE r = s
        <5>1. sess'[r].cache = Loaded
          BY <4>1, <4>2 DEF Blank
        <5> QED BY <5>1, LoadedFresh DEF Faithful
      <4>3. CASE r # s
        <5>1. sess[r] \in Session /\ sess'[r] = [sess[r] EXCEPT !.good = FALSE]
          BY <4>1, <4>3 DEF Faithful, TypeInv, TypeOK
        <5>2. sess'[r].cache = sess[r].cache
          BY <5>1 DEF Session
        <5> QED BY <5>2 DEF Faithful, CacheFresh
      <4> QED BY <4>2, <4>3
    <3>3. sess'[r].cache \in {sess[r].cache, Nothing} \/ Compile(s) \/ Open(s)
      <4>1. sess \in [Sessions -> Session] /\ sess[s] \in Session
        BY DEF Faithful, TypeInv, TypeOK
      <4>2. Blank.cache = Nothing
        BY DEF Blank
      <4>3. CASE Crash(s) \/ CompileOnly(s) \/ ElaborationFails(s) \/ StoreIr(s)
        <5>1. sess' = [sess EXCEPT ![s] = Blank]
          BY <4>3 DEF Crash, CompileOnly, ElaborationFails, StoreIr, End
        <5> QED BY <4>1, <4>2, <5>1
      <4>4. CASE SaveFails(s)
        <5> DEFINE d == [sess[s] EXCEPT !.good = FALSE]
        <5>1. d.cache = sess[s].cache
          BY <4>1 DEF Session
        <5>2. sess' = [sess EXCEPT ![s] = IF Behind(s) = "idle" THEN Blank ELSE d]
          BY <4>4 DEF SaveFails
        <5> HIDE DEF d
        <5> QED BY <4>1, <4>2, <5>1, <5>2
      <4>5. CASE Finish(s)
        <5> DEFINE d == [sess[s] EXCEPT !.dirty = {}]
        <5>1. d.cache = sess[s].cache
          BY <4>1 DEF Session
        <5>2. sess' = [sess EXCEPT ![s] = IF Behind(s) = "idle" THEN Blank ELSE d]
          BY <4>5 DEF Finish
        <5> HIDE DEF d
        <5> QED BY <4>1, <4>2, <5>1, <5>2
      <4>6. CASE RestoreIr(s)
        BY <4>1, <4>6, ReleasedCache DEF RestoreIr
      <4>7. CASE Elaborate(s)
        BY <4>1, <4>7, ReleasedCache DEF Elaborate
      <4>8. CASE Recovered(s)
        BY <4>1, <4>8, ReleasedCache DEF Recovered
      <4>9. CASE Acquire(s) \/ SeeStale(s) \/ RemoveStale(s) \/ RenameMetadata(s)
        BY <4>9 DEF Acquire, SeeStale, RemoveStale, RenameMetadata
      <4> QED BY <1>4, <4>3, <4>4, <4>5, <4>6, <4>7, <4>8, <4>9 DEF Run
    <3> QED BY <3>1, <3>2, <3>3, NothingFresh DEF Faithful, CacheFresh
  <2> QED BY <1>1, <2>2, <2>3, <2>4 DEF Faithful
<1> QED BY <1>2, <1>3, <1>4 DEF Next

(* While the header is not edited, whatever sessions, crashes, evictions    *)
(* and edits of the files wrote the cache, a session works with the ASTs    *)
(* that parsing every file now would give.                                  *)
THEOREM CacheSound == ASSUME Header \notin Editable PROVE Spec => CompileCurrent
<1>1. Faithful /\ [Next]_vars =>
        [\A s \in Sessions : pc[s] = "opened" /\ pc'[s] = "saving"
           => sess'[s].work = [f \in Files |-> Parse(f)]]_vars
  <2> SUFFICES ASSUME Faithful, Next, NEW s \in Sessions, pc[s] = "opened", pc'[s] = "saving"
               PROVE  Compile(s)
    BY CompileFresh
  <2>1. pc \in [Sessions -> PCs]
    BY DEF Faithful, TypeInv, TypeOK
  <2>2. PICK r \in Sessions : Run(r) \/ Crash(r)
    BY DEF Next, Edit
  <2>3. r = s
    BY <2>1, <2>2 DEF Run, Crash, Open, Compile, Save, SaveFails, Acquire, SeeStale,
       RemoveStale, RenameMetadata, Finish, CompileOnly, RestoreIr, Elaborate,
       ElaborationFails, Recovered, StoreIr, End
  <2> QED BY <2>1, <2>2, <2>3 DEF Run, Crash, Open, Compile, Save, SaveFails, Acquire,
       SeeStale, RemoveStale, RenameMetadata, Finish, CompileOnly, RestoreIr, Elaborate,
       ElaborationFails, Recovered, StoreIr, End
<1>2. Faithful /\ [Next]_vars => Faithful'
  BY FaithfulStep
<1> QED BY FaithfulInit, <1>1, <1>2, PTL DEF Spec, CompileCurrent

-----------------------------------------------------------------------------
(* What the actions of a session do to it, field by field.                  *)

LEMMA OpenEffect ==
  ASSUME TypeInv, NEW s \in Sessions, Open(s)
  PROVE  /\ pc[s] = "idle" /\ pc'[s] = "opened"
         /\ sess'[s].phase = "parse" /\ sess'[s].db = Known /\ sess'[s].cache = Loaded
         /\ sess'[s].ir = ir
         /\ sess'[s].good => Active = {}
<1>1. PICK mode \in Modes : sess' = [r \in Sessions |->
         IF r = s
         THEN [Blank EXCEPT !.mode = mode, !.db = Known, !.cache = Loaded,
                            !.verify = verify', !.ir = ir, !.good = (Active = {})]
         ELSE [sess[r] EXCEPT !.good = FALSE]]
  BY DEF Open
<1> DEFINE alone == Active = {}
<1>2. sess'[s] = [Blank EXCEPT !.mode = mode, !.db = Known, !.cache = Loaded,
                            !.verify = verify', !.ir = ir, !.good = alone]
  BY <1>1
<1>3. pc[s] = "idle" /\ pc'[s] = "opened"
  BY DEF Open, TypeInv, TypeOK
<1> HIDE DEF alone
<1>4. /\ sess'[s].phase = "parse" /\ sess'[s].db = Known /\ sess'[s].cache = Loaded
      /\ sess'[s].ir = ir
  BY <1>2 DEF Blank
<1>5. sess'[s].good = alone
  BY <1>2 DEF Blank
<1> QED BY <1>3, <1>4, <1>5 DEF alone

LEMMA CompileEffect ==
  ASSUME TypeInv, NEW s \in Sessions, Compile(s)
  PROVE  /\ pc[s] = "opened" /\ pc'[s] = "saving"
         /\ sess'[s].phase = sess[s].phase /\ sess'[s].ir = sess[s].ir
         /\ sess'[s].mode = sess[s].mode
         /\ sess'[s].good => sess[s].good
         /\ sess'[s].restored = Restored(sess[s])
         /\ \A f \in Restored(sess[s]) :
              sess'[s].db[f] = Unchanged(sess[s].db[f]) /\ sess'[s].cache[f] = sess[s].cache[f]
         /\ \A f \in Files \ Restored(sess[s]) :
              sess'[s].db[f] = Recompiled(f) /\ sess'[s].cache[f] = Cached(f)
         /\ "metadata" \in sess'[s].dirty \/ sess'[s].db = sess[s].db
         /\ "objects" \in sess'[s].dirty \/ sess'[s].cache = sess[s].cache
<1> DEFINE d == sess[s]
           kept == Restored(d)
           work == [f \in Files |-> IF f \in kept THEN d.cache[f].ast ELSE Parse(f)]
           db == [f \in Files |-> IF f \in kept THEN Unchanged(d.db[f]) ELSE Recompiled(f)]
           cache == [f \in Files |-> IF f \in kept THEN d.cache[f] ELSE Cached(f)]
           found == Verified(d, db)
           dirty == Dirtied(d, db, cache)
           new == [d EXCEPT !.work = work, !.db = db, !.cache = cache, !.restored = kept,
                            !.verify = found, !.dirty = dirty]
<1>1. d \in Session /\ pc[s] = "opened" /\ pc'[s] = "saving"
  BY DEF Compile, TypeInv, TypeOK
<1>2. sess'[s] = new
  BY DEF Compile, TypeInv, TypeOK
<1>3. \A f \in kept : f \in Files /\ db[f] = Unchanged(d.db[f]) /\ cache[f] = d.cache[f]
  BY DEF Restored, Reusable
<1>4. \A f \in Files \ kept : db[f] = Recompiled(f) /\ cache[f] = Cached(f)
  OBVIOUS
<1>5. ("metadata" \in dirty \/ db = d.db) /\ ("objects" \in dirty \/ cache = d.cache)
  <2> HIDE DEF db, cache
  <2> QED BY DEF Dirtied
<1> HIDE DEF kept, work, db, cache, found, dirty
<1>6. /\ new.phase = d.phase /\ new.ir = d.ir /\ new.mode = d.mode /\ new.restored = kept
      /\ new.db = db /\ new.cache = cache /\ new.dirty = dirty
  BY <1>1 DEF Session
<1>7. new.good = d.good
  BY <1>1 DEF Session
<1> HIDE DEF new
<1> QED BY <1>1, <1>2, <1>3, <1>4, <1>5, <1>6, <1>7 DEF kept

LEMMA SaveEffect ==
  ASSUME TypeInv, NEW s \in Sessions, Save(s)
  PROVE  /\ pc[s] = "saving" /\ pc'[s] = "locking"
         /\ sess'[s].phase = sess[s].phase /\ sess'[s].ir = sess[s].ir
         /\ sess'[s].mode = sess[s].mode /\ sess'[s].restored = sess[s].restored
         /\ sess'[s].db = sess[s].db /\ sess'[s].work = sess[s].work
         /\ sess[s].dirty \subseteq sess'[s].dirty
         /\ sess'[s].good => sess[s].good
         /\ sess'[s].good /\ "objects" \notin sess[s].dirty => obj' = obj
         /\ sess'[s].good /\ "objects" \in sess[s].dirty =>
              \A h \in Texts : obj'[h] \in Written(sess[s].cache, h)
<1> DEFINE d == sess[s]
<1>1. PICK evicted \in SUBSET {f \in Files : d.cache[f] # None} :
          /\ faults + Cardinality(evicted) <= MaxFaults
          /\ faults' = faults + Cardinality(evicted)
          /\ sess' = [sess EXCEPT ![s] =
               [d EXCEPT !.cache = Evict(d.cache, evicted), !.verify = Reachable(d),
                         !.dirty = Collected(d, evicted), !.good = d.good /\ evicted = {}]]
          /\ IF "objects" \in Collected(d, evicted)
             THEN obj' \in {o \in [Texts -> Option(Asts)] :
                              \A h \in Texts : o[h] \in Written(Evict(d.cache, evicted), h)}
             ELSE obj' = obj
  BY DEF Save
<1> DEFINE cache == Evict(d.cache, evicted)
           live == Reachable(d)
           dirty == Collected(d, evicted)
           good == d.good /\ evicted = {}
           new == [d EXCEPT !.cache = cache, !.verify = live, !.dirty = dirty, !.good = good]
<1>2. d \in Session /\ pc[s] = "saving" /\ pc'[s] = "locking"
  BY DEF TypeInv, TypeOK, Save
<1>3. sess'[s] = new
  BY <1>1 DEF TypeInv, TypeOK
<1>4. d.dirty \subseteq dirty
  BY DEF Collected
<1>5. good => d.good /\ evicted = {}
  OBVIOUS
<1>6. evicted = {} => cache = d.cache
  BY <1>2 DEF Evict, Session
<1>7. evicted = {} => ("objects" \in dirty <=> "objects" \in d.dirty)
  BY DEF Collected
<1>8. IF "objects" \in dirty THEN \A h \in Texts : obj'[h] \in Written(cache, h)
                             ELSE obj' = obj
  BY <1>1
<1> HIDE DEF cache, live, dirty, good
<1>9. /\ new.phase = d.phase /\ new.ir = d.ir /\ new.mode = d.mode /\ new.restored = d.restored
      /\ new.db = d.db /\ new.work = d.work /\ new.dirty = dirty
  BY <1>2 DEF Session
<1>10. new.good = good
  BY <1>2 DEF Session
<1> HIDE DEF new
<1>11. /\ sess'[s].phase = sess[s].phase /\ sess'[s].ir = sess[s].ir
       /\ sess'[s].mode = sess[s].mode /\ sess'[s].restored = sess[s].restored
       /\ sess'[s].db = sess[s].db /\ sess'[s].work = sess[s].work
       /\ sess[s].dirty \subseteq sess'[s].dirty
  BY <1>3, <1>4, <1>9
<1>12. sess'[s].good => sess[s].good /\ evicted = {}
  BY <1>3, <1>5, <1>10
<1>13. evicted = {} /\ "objects" \notin sess[s].dirty => obj' = obj
  BY <1>7, <1>8
<1>14. evicted = {} /\ "objects" \in sess[s].dirty =>
         \A h \in Texts : obj'[h] \in Written(sess[s].cache, h)
  BY <1>6, <1>7, <1>8
<1> QED BY <1>2, <1>11, <1>12, <1>13, <1>14

(* A save given up or done: the process ends, or goes on behind it.         *)
LEMMA BehindEffect ==
  ASSUME TypeInv, NEW s \in Sessions, SaveFails(s) \/ Finish(s)
  PROVE  /\ pc'[s] = Behind(s)
         /\ pc'[s] = "idle" => sess'[s] = Blank
         /\ pc'[s] # "idle" =>
              /\ sess'[s].phase = sess[s].phase /\ sess'[s].ir = sess[s].ir
              /\ sess'[s].mode = sess[s].mode /\ sess'[s].restored = sess[s].restored
              /\ sess'[s].db = sess[s].db /\ sess'[s].work = sess[s].work
         /\ Finish(s) /\ pc'[s] # "idle" => sess'[s].dirty = {}
         /\ sess'[s].good => sess[s].good /\ Finish(s)
<1>1. sess[s] \in Session /\ pc'[s] = Behind(s)
  BY DEF SaveFails, Finish, TypeInv, TypeOK
<1>2. ~Blank.good
  BY DEF Blank
<1>3. CASE SaveFails(s)
  <2> DEFINE d == [sess[s] EXCEPT !.good = FALSE]
  <2>1. sess'[s] = IF Behind(s) = "idle" THEN Blank ELSE d
    BY <1>3 DEF SaveFails, TypeInv, TypeOK
  <2>2. /\ d.phase = sess[s].phase /\ d.ir = sess[s].ir /\ d.mode = sess[s].mode
        /\ d.restored = sess[s].restored /\ d.db = sess[s].db /\ d.work = sess[s].work
    BY <1>1 DEF Session
  <2>3. ~d.good
    BY <1>1 DEF Session
  <2>4. ~Finish(s)
    BY <1>3 DEF SaveFails, Finish
  <2> HIDE DEF d
  <2> QED BY <1>1, <1>2, <2>1, <2>2, <2>3, <2>4
<1>4. CASE Finish(s)
  <2> DEFINE d == [sess[s] EXCEPT !.dirty = {}]
  <2>1. sess'[s] = IF Behind(s) = "idle" THEN Blank ELSE d
    BY <1>4 DEF Finish, TypeInv, TypeOK
  <2>2. /\ d.phase = sess[s].phase /\ d.ir = sess[s].ir /\ d.mode = sess[s].mode
        /\ d.restored = sess[s].restored /\ d.db = sess[s].db /\ d.work = sess[s].work
        /\ d.dirty = {}
    BY <1>1 DEF Session
  <2>3. d.good = sess[s].good
    BY <1>1 DEF Session
  <2> HIDE DEF d
  <2> QED BY <1>1, <1>2, <1>4, <2>1, <2>2, <2>3
<1> QED BY <1>3, <1>4

LEMMA ReleasedEffect ==
  ASSUME NEW d \in Session
  PROVE  LET e == Released(d)
         IN /\ e \in Session /\ e.cache = Nothing
            /\ e.db = d.db /\ e.work = d.work /\ e.mode = d.mode /\ e.restored = d.restored
            /\ d.dirty \subseteq e.dirty /\ e.dirty \subseteq d.dirty \cup {"layer"}
            /\ e.ir = IF LooksUp(d) /\ ~IrFound(d) THEN None ELSE d.ir
            /\ e.good => d.good
<1> DEFINE dirty == IF LooksUp(d) THEN d.dirty \cup {"layer"} ELSE d.dirty
           index == IF LooksUp(d) /\ ~IrFound(d) THEN None ELSE d.ir
           e == [d EXCEPT !.cache = Nothing, !.dirty = dirty, !.ir = index]
<1>1. Released(d) = e /\ e \in Session
  BY ReleasedType DEF Released
<1>2. d.dirty \subseteq dirty /\ dirty \subseteq d.dirty \cup {"layer"}
  OBVIOUS
<1> HIDE DEF dirty, index
<1>3. /\ e.cache = Nothing /\ e.db = d.db /\ e.work = d.work /\ e.mode = d.mode
      /\ e.restored = d.restored /\ e.dirty = dirty /\ e.ir = index
  BY DEF Session
<1>4. e.good = d.good
  BY DEF Session
<1> HIDE DEF e
<1> QED BY <1>1, <1>2, <1>3, <1>4 DEF index

LEMMA MarkedEffect ==
  ASSUME TypeInv, NEW s \in Sessions, RestoreIr(s) \/ Elaborate(s)
  PROVE  /\ pc[s] = "saved" /\ pc'[s] = "saving"
         /\ sess'[s].phase = IF RestoreIr(s) THEN "hit" ELSE "clean"
         /\ sess'[s].cache = Nothing
         /\ sess'[s].db = sess[s].db /\ sess'[s].work = sess[s].work
         /\ sess'[s].mode = sess[s].mode /\ sess'[s].restored = sess[s].restored
         /\ sess'[s].dirty \subseteq sess[s].dirty \cup {"layer", "verify"}
         /\ sess'[s].ir \in {sess[s].ir, None}
         /\ RestoreIr(s) => IrHit(s) /\ sess'[s].ir = sess[s].ir
         /\ sess'[s].good => sess[s].good
<1> DEFINE d == sess[s]
           e == Released(d)
           phase == IF RestoreIr(s) THEN "hit" ELSE "clean"
           dirty == e.dirty \cup {"verify"}
           new == [e EXCEPT !.phase = phase, !.dirty = dirty]
<1>1. d \in Session /\ pc[s] = "saved" /\ pc'[s] = "saving"
  BY DEF RestoreIr, Elaborate, TypeInv, TypeOK
<1>2. RestoreIr(s) => IrHit(s)
  BY DEF RestoreIr
<1>3. Elaborate(s) => ~RestoreIr(s)
  BY DEF RestoreIr, Elaborate
<1>4. sess'[s] = new
  <2>1. RestoreIr(s) => sess'[s] = Marked(e, "hit")
    BY DEF RestoreIr, TypeInv, TypeOK
  <2>2. Elaborate(s) => sess'[s] = Marked(e, "clean")
    BY DEF Elaborate, TypeInv, TypeOK
  <2> QED BY <1>3, <2>1, <2>2 DEF Marked
<1>5. /\ e \in Session /\ e.cache = Nothing
      /\ e.db = d.db /\ e.work = d.work /\ e.mode = d.mode /\ e.restored = d.restored
      /\ e.dirty \subseteq d.dirty \cup {"layer"}
      /\ e.ir = IF LooksUp(d) /\ ~IrFound(d) THEN None ELSE d.ir
  BY <1>1, ReleasedEffect
<1>6. e.good => d.good
  BY <1>1, ReleasedEffect
<1>7. IrHit(s) => e.ir = d.ir
  BY <1>5 DEF IrHit
<1> HIDE DEF e, phase
<1>8. dirty \subseteq d.dirty \cup {"layer", "verify"}
  BY <1>5
<1> HIDE DEF dirty
<1>9. /\ new.phase = phase /\ new.cache = e.cache /\ new.db = e.db /\ new.work = e.work
      /\ new.mode = e.mode /\ new.restored = e.restored /\ new.dirty = dirty /\ new.ir = e.ir
  BY <1>5 DEF Session
<1>10. new.good = e.good
  BY <1>5 DEF Session
<1> HIDE DEF new
<1>11. sess'[s].good => d.good
  BY <1>4, <1>6, <1>10
<1>12. sess'[s].phase = IF RestoreIr(s) THEN "hit" ELSE "clean"
  BY <1>4, <1>9 DEF phase
<1>13. sess'[s].ir \in {d.ir, None} /\ (RestoreIr(s) => sess'[s].ir = d.ir)
  BY <1>2, <1>4, <1>5, <1>7, <1>9
<1> QED BY <1>1, <1>2, <1>4, <1>5, <1>8, <1>9, <1>11, <1>12, <1>13

LEMMA RecoveredEffect ==
  ASSUME TypeInv, NEW s \in Sessions, Recovered(s)
  PROVE  /\ pc[s] = "saved" /\ pc'[s] = "saving"
         /\ sess'[s].phase = "recovered" /\ sess'[s].cache = Nothing /\ sess'[s].db = Nothing
         /\ "metadata" \in sess'[s].dirty
         /\ sess'[s].good => sess[s].good
<1> DEFINE d == sess[s]
           e == Released(d)
           db == [f \in Files |-> IF f \in {} THEN e.db[f] ELSE None]
           dirty == e.dirty \cup {"metadata", "objects"}
           new == [e EXCEPT !.phase = "recovered", !.dirty = dirty, !.db = db]
<1>1. d \in Session /\ pc[s] = "saved" /\ pc'[s] = "saving"
  BY DEF Recovered, TypeInv, TypeOK
<1>2. sess'[s] = new
  BY DEF Recovered, Pruned, TypeInv, TypeOK
<1>3. e \in Session /\ e.cache = Nothing
  BY <1>1, ReleasedEffect
<1>4. e.good => d.good
  BY <1>1, ReleasedEffect
<1>5. db = Nothing /\ "metadata" \in dirty
  BY DEF Nothing
<1> HIDE DEF e, db, dirty
<1>6. /\ new.phase = "recovered" /\ new.cache = e.cache /\ new.db = db /\ new.dirty = dirty
  BY <1>3 DEF Session
<1>7. new.good = e.good
  BY <1>3 DEF Session
<1> HIDE DEF new
<1>8. sess'[s].good => d.good
  BY <1>2, <1>4, <1>7
<1> QED BY <1>1, <1>2, <1>3, <1>5, <1>6, <1>8

LEMMA EndEffect ==
  ASSUME TypeInv, NEW s \in Sessions,
         Crash(s) \/ CompileOnly(s) \/ ElaborationFails(s) \/ StoreIr(s)
  PROVE  pc'[s] = "idle" /\ sess'[s] = Blank /\ pc[s] # "idle"
  BY DEF Crash, CompileOnly, ElaborationFails, StoreIr, End, TypeInv, TypeOK

LEMMA ControlEffect ==
  ASSUME TypeInv, NEW s \in Sessions,
         Acquire(s) \/ SeeStale(s) \/ RemoveStale(s) \/ RenameMetadata(s)
  PROVE  /\ sess' = sess /\ obj' = obj /\ ir' = ir
         /\ pc[s] \in {"locking", "stale", "renaming"}
         /\ pc'[s] \in {"locking", "stale", "renaming", "finishing"}
         /\ pc'[s] = "finishing" <=> RenameMetadata(s)
         /\ ~RenameMetadata(s) => meta' = meta
  BY DEF Acquire, SeeStale, RemoveStale, RenameMetadata, disk, TypeInv, TypeOK

-----------------------------------------------------------------------------
(* A session on its own. Alone: no two runs ever overlapped, or this one    *)
(* has been undisturbed since it opened. What it knows of metadata.mdb is   *)
(* then what the file says, or what its save is about to write.             *)
Alone(s) == calm \/ sess[s].good
Sole ==
  \A r, s \in Sessions : pc[r] # "idle" /\ pc[s] # "idle" /\ Alone(s) => r = s

MetaAt(s) ==
  /\ pc[s] = "opened" => sess[s].db = Known
  /\ pc[s] \in {"saving", "locking", "stale", "renaming"} =>
       "metadata" \in sess[s].dirty \/ sess[s].db = Known
  /\ pc[s] \in {"finishing", "saved", "storing"} => sess[s].db = Known
MetaKept == \A s \in Sessions : Alone(s) => MetaAt(s)

PhaseOf(s) ==
  /\ pc[s] \in {"idle", "opened", "saved"} => sess[s].phase = "parse"
  /\ pc[s] = "storing" => sess[s].phase = "clean"
PhasesKept == \A s \in Sessions : PhaseOf(s)
AloneInv == TypeInv /\ Sole /\ MetaKept /\ PhasesKept

LEMMA AloneInit == Init => AloneInv
  BY TypeInit DEF Init, AloneInv, Sole, MetaKept, MetaAt, PhasesKept, PhaseOf, Blank

(* What a step of one session leaves of another.                            *)
LEMMA OthersStep ==
  ASSUME TypeInv, NEW s \in Sessions, NEW r \in Sessions, r # s, Run(s) \/ Crash(s)
  PROVE  /\ pc'[r] = pc[r]
         /\ ~Open(s) => sess'[r] = sess[r]
         /\ Open(s) => /\ sess'[r].phase = sess[r].phase
                       /\ sess'[r].db = sess[r].db /\ sess'[r].work = sess[r].work
                       /\ ~sess'[r].good
         /\ calm' => calm
         /\ calm' /\ Open(s) => Active = {}
         /\ pc[s] = "idle" => Open(s)
<1>1. pc'[r] = pc[r]
  BY DEF Run, Crash, Open, Compile, Save, SaveFails, Acquire, SeeStale, RemoveStale,
     RenameMetadata, Finish, CompileOnly, RestoreIr, Elaborate, ElaborationFails, Recovered,
     StoreIr, End, TypeInv, TypeOK
<1>2. CASE Open(s)
  <2>1. PICK mode \in Modes : sess' = [q \in Sessions |->
          IF q = s
          THEN [Blank EXCEPT !.mode = mode, !.db = Known, !.cache = Loaded,
                             !.verify = verify', !.ir = ir, !.good = (Active = {})]
          ELSE [sess[q] EXCEPT !.good = FALSE]]
    BY <1>2 DEF Open
  <2>2. sess[r] \in Session /\ sess'[r] = [sess[r] EXCEPT !.good = FALSE]
    BY <2>1 DEF TypeInv, TypeOK
  <2>3. sess'[r].phase = sess[r].phase /\ sess'[r].db = sess[r].db /\ sess'[r].work = sess[r].work
    BY <2>2 DEF Session
  <2>4. ~sess'[r].good
    BY <2>2 DEF Session
  <2>5. calm' = (calm /\ Active = {})
    BY <1>2 DEF Open
  <2> QED BY <1>1, <1>2, <2>3, <2>4, <2>5
<1>3. CASE ~Open(s)
  <2>1. sess'[r] = sess[r]
    BY <1>3 DEF Run, Crash, Compile, Save, SaveFails, Acquire, SeeStale, RemoveStale,
       RenameMetadata, Finish, CompileOnly, RestoreIr, Elaborate, ElaborationFails, Recovered,
       StoreIr, End, TypeInv, TypeOK
  <2>2. pc[s] # "idle"
    BY <1>3 DEF Run, Crash, Compile, Save, SaveFails, Acquire, SeeStale, RemoveStale,
       RenameMetadata, Finish, CompileOnly, RestoreIr, Elaborate, ElaborationFails, Recovered,
       StoreIr
  <2>3. calm' => calm
    BY <1>3 DEF Run, Crash, Compile, Save, SaveFails, Acquire, SeeStale, RemoveStale,
       RenameMetadata, Finish, CompileOnly, RestoreIr, Elaborate, ElaborationFails, Recovered,
       StoreIr, disk, history
  <2> QED BY <1>1, <1>3, <2>1, <2>2, <2>3
<1> QED BY <1>2, <1>3

(* While a session that stays alone is at work, nobody else takes a step.   *)
LEMMA AloneStep ==
  ASSUME AloneInv, NEW s \in Sessions, NEW r \in Sessions, r # s, Run(s) \/ Crash(s),
         Alone(r)'
  PROVE  pc'[r] = "idle"
<1>1. CASE Open(s)
  <2>1. calm' \/ sess'[r].good
    BY DEF Alone
  <2>2. Active = {}
    BY <1>1, <2>1, OthersStep DEF AloneInv
  <2> QED BY <2>2, OthersStep DEF AloneInv, Active
<1>2. CASE ~Open(s)
  <2>1. calm' \/ sess'[r].good
    BY DEF Alone
  <2>2. Alone(r) /\ pc[s] # "idle"
    BY <1>2, <2>1, OthersStep DEF AloneInv, Alone
  <2> QED BY <2>2, OthersStep DEF AloneInv, Sole
<1> QED BY <1>1, <1>2

(* A session that is alone after its step was so before, or nobody was      *)
(* there when it opened.                                                    *)
LEMMA StillAlone ==
  ASSUME TypeInv, NEW s \in Sessions, Run(s) \/ Crash(s), Alone(s)'
  PROVE  IF Open(s) THEN Active = {} ELSE pc'[s] = "idle" \/ Alone(s)
<1>1. calm' \/ sess'[s].good
  BY DEF Alone
<1>2. CASE Open(s)
  BY <1>1, <1>2, OpenEffect DEF Open
<1>3. CASE ~Open(s)
  <2>1. calm' => calm
    BY <1>3 DEF Run, Crash, Compile, Save, SaveFails, Acquire, SeeStale, RemoveStale,
       RenameMetadata, Finish, CompileOnly, RestoreIr, Elaborate, ElaborationFails, Recovered,
       StoreIr, disk, history
  <2>2. sess'[s].good => pc'[s] = "idle" \/ sess[s].good
    BY <1>3, CompileEffect, SaveEffect, BehindEffect, MarkedEffect, RecoveredEffect, EndEffect,
       ControlEffect DEF Run
  <2> QED BY <1>1, <1>3, <2>1, <2>2 DEF Alone
<1> QED BY <1>2, <1>3

LEMMA SoleStep ==
  ASSUME AloneInv, NEW s \in Sessions, Run(s) \/ Crash(s)
  PROVE  Sole'
<1> SUFFICES ASSUME NEW r \in Sessions, NEW q \in Sessions, r # q,
                    pc'[r] # "idle", pc'[q] # "idle", Alone(q)'
             PROVE  FALSE
  BY DEF Sole
<1>1. q = s
  BY AloneStep
<1>2. pc[r] # "idle"
  BY <1>1, OthersStep DEF AloneInv
<1>3. CASE Open(s)
  BY <1>1, <1>2, <1>3, StillAlone DEF AloneInv, Active
<1>4. CASE ~Open(s)
  <2>1. Alone(s)
    BY <1>1, <1>4, StillAlone DEF AloneInv
  <2>2. pc[s] # "idle"
    BY <1>1, <1>2, <1>4, OthersStep DEF AloneInv
  <2> QED BY <1>1, <1>2, <2>1, <2>2 DEF AloneInv, Sole
<1> QED BY <1>3, <1>4

LEMMA PhasesStep ==
  ASSUME AloneInv, NEW s \in Sessions, Run(s) \/ Crash(s)
  PROVE  PhasesKept'
<1> SUFFICES ASSUME NEW r \in Sessions PROVE PhaseOf(r)'
  BY DEF PhasesKept
<1>1. TypeInv /\ \A q \in Sessions : PhaseOf(q)
  BY DEF AloneInv, PhasesKept
<1>2. CASE r # s
  <2>1. pc'[r] = pc[r] /\ sess'[r].phase = sess[r].phase
    BY <1>1, <1>2, OthersStep
  <2> QED BY <1>1, <2>1 DEF PhaseOf
<1>3. CASE r = s
  <2>1. Blank.phase = "parse"
    BY DEF Blank
  <2>2. CASE SaveFails(s) \/ Finish(s)
    <3>1. Behind(s) = IF sess[s].phase = "parse" THEN "saved"
                      ELSE IF sess[s].phase = "clean" THEN "storing" ELSE "idle"
      BY DEF Behind
    <3> QED BY <1>1, <1>3, <2>1, <2>2, <3>1, BehindEffect DEF PhaseOf
  <2>3. CASE Acquire(s) \/ SeeStale(s) \/ RemoveStale(s) \/ RenameMetadata(s)
    BY <1>1, <1>3, <2>3, ControlEffect DEF PhaseOf
  <2> QED BY <1>1, <1>3, <2>1, <2>2, <2>3, OpenEffect, CompileEffect, SaveEffect, MarkedEffect,
             RecoveredEffect, EndEffect DEF PhaseOf, Run
<1> QED BY <1>2, <1>3

LEMMA MetaStep ==
  ASSUME AloneInv, NEW s \in Sessions, Run(s) \/ Crash(s)
  PROVE  MetaKept'
<1> SUFFICES ASSUME NEW r \in Sessions, Alone(r)' PROVE MetaAt(r)'
  BY DEF MetaKept
<1> USE DEF MetaAt
<1>1. TypeInv
  BY DEF AloneInv
<1>2. CASE pc'[r] = "idle"
  BY <1>2
<1>3. CASE pc'[r] # "idle"
  <2>1. r = s
    BY <1>3, AloneStep
  <2>2. ~Open(s) => MetaAt(s)
    BY <1>1, <1>3, <2>1, StillAlone DEF AloneInv, MetaKept
  <2>3. Known' = Known \/ RenameMetadata(s)
    <3>1. meta' = meta \/ RenameMetadata(s)
      BY DEF Run, Crash, Open, Compile, Save, SaveFails, Acquire, SeeStale, RemoveStale,
         Finish, CompileOnly, RestoreIr, Elaborate, ElaborationFails, Recovered, StoreIr, disk
    <3> QED BY <3>1 DEF Known
  <2>4. CASE Open(s)
    BY <1>1, <2>1, <2>3, <2>4, OpenEffect, ControlEffect
  <2>5. CASE Compile(s)
    <3>1. Known' = Known
      BY <2>5 DEF Compile, disk, Known
    <3> QED BY <1>1, <2>1, <2>2, <2>5, <3>1, CompileEffect, OpenEffect
  <2>6. CASE Save(s)
    <3>1. Known' = Known /\ ~Open(s)
      BY <2>6 DEF Save, Open, Known
    <3> QED BY <1>1, <2>1, <2>2, <2>6, <3>1, SaveEffect
  <2>7. CASE SaveFails(s)
    <3>1. ~calm' /\ ~Finish(s)
      BY <2>7 DEF SaveFails, Finish
    <3>2. ~sess'[s].good
      BY <1>1, <2>7, <3>1, BehindEffect
    <3> QED BY <2>1, <3>1, <3>2 DEF Alone
  <2>8. CASE Finish(s)
    <3>1. Known' = Known /\ ~Open(s) /\ pc[s] = "finishing"
      BY <2>8 DEF Finish, Open, Known
    <3>2. pc'[s] \in {"saved", "storing", "idle"}
      BY <1>1, <2>8, BehindEffect DEF Behind
    <3> QED BY <1>1, <1>3, <2>1, <2>2, <2>8, <3>1, <3>2, BehindEffect
  <2>9. CASE RestoreIr(s) \/ Elaborate(s)
    <3>1. Known' = Known /\ ~Open(s)
      BY <2>9 DEF RestoreIr, Elaborate, Open, Known, disk
    <3> QED BY <1>1, <2>1, <2>2, <2>9, <3>1, MarkedEffect
  <2>10. CASE Recovered(s)
    BY <1>1, <2>1, <2>10, RecoveredEffect
  <2>11. CASE Crash(s) \/ CompileOnly(s) \/ ElaborationFails(s) \/ StoreIr(s)
    BY <1>1, <1>3, <2>1, <2>11, EndEffect
  <2>12. CASE Acquire(s) \/ SeeStale(s) \/ RemoveStale(s)
    <3>1. Known' = Known /\ ~Open(s) /\ ~RenameMetadata(s)
      BY <2>12 DEF Acquire, SeeStale, RemoveStale, RenameMetadata, Open, Known, disk
    <3> QED BY <1>1, <2>1, <2>2, <2>12, <3>1, ControlEffect
  <2>13. CASE RenameMetadata(s)
    <3>1. ~Open(s) /\ pc[s] = "renaming"
          /\ meta' = IF "metadata" \in sess[s].dirty THEN sess[s].db ELSE meta
      BY <2>13 DEF RenameMetadata, Open
    <3>2. sess[s].db # None
      BY <1>1, AbsentAssumption DEF TypeInv, TypeOK, Session
    <3>3. Known' = sess[s].db
      BY <2>2, <3>1, <3>2 DEF Known
    <3> QED BY <1>1, <2>1, <2>13, <3>3, ControlEffect
  <2> QED BY <2>4, <2>5, <2>6, <2>7, <2>8, <2>9, <2>10, <2>11, <2>12, <2>13 DEF Run
<1> QED BY <1>2, <1>3

LEMMA AloneInvStep == AloneInv /\ [Next]_vars => AloneInv'
<1> SUFFICES ASSUME AloneInv, [Next]_vars PROVE AloneInv'
  OBVIOUS
<1>1. TypeInv'
  BY TypeStep DEF AloneInv
<1>2. CASE Edit \/ UNCHANGED vars
  <2>1. UNCHANGED <<meta, pc, sess, calm>>
    BY <1>2 DEF Edit, vars, disk, history
  <2> QED BY <1>1, <2>1 DEF AloneInv, Sole, Alone, MetaKept, MetaAt, Known, PhasesKept, PhaseOf
<1>3. ASSUME NEW s \in Sessions, Run(s) \/ Crash(s) PROVE AloneInv'
  BY <1>1, <1>3, SoleStep, MetaStep, PhasesStep DEF AloneInv
<1> QED BY <1>2, <1>3 DEF Next

-----------------------------------------------------------------------------
(* A warm run. What an undisturbed session knows of the objects: after its  *)
(* parse it has an AST for every file, and saves what is not there yet;     *)
(* behind the save every file it names has its object.                      *)
Complete(db) == \A f \in Files : db[f] # None => obj[db[f].hash] # None
CachedAll(d) ==
  \A f \in Files : /\ d.cache[f] # None /\ d.db[f] # None
                   /\ d.cache[f].hash = d.db[f].hash
                   /\ "objects" \in d.dirty \/ obj[d.cache[f].hash] # None
Gathering(s) == pc[s] = "saving" /\ sess[s].phase = "parse"
WarmAt(s) ==
  /\ pc[s] = "opened" => sess[s].cache = Loaded
  /\ Gathering(s) => CachedAll(sess[s])
  /\ pc[s] = "saving" /\ ~Gathering(s) =>
       sess[s].cache = Nothing /\ ("objects" \notin sess[s].dirty \/ sess[s].db = Nothing)
  /\ pc[s] = "saved" => sess[s].dirty = {}
  /\ pc[s] \notin {"idle", "opened"} /\ ~Gathering(s) => Complete(sess[s].db)
WarmKept == \A s \in Sessions : sess[s].good => WarmAt(s)

(* A session in the middle of a save will say whether it was a clean one.   *)
InSave(s) == pc[s] \in {"saving", "locking", "stale", "renaming", "finishing"}
CleanKept == clean => Complete(Known) \/ \E s \in Sessions : InSave(s)
WarmInv == AloneInv /\ WarmKept /\ CleanKept

LEMMA WarmInit == Init => WarmInv
  BY AloneInit DEF Init, WarmInv, WarmKept, Blank, CleanKept

LEMMA LoadedThere ==
  ASSUME NEW f \in Files, Loaded[f] # None
  PROVE  Known[f] # None /\ Loaded[f].hash = Known[f].hash /\ obj[Loaded[f].hash] # None
  BY DEF Loaded

LEMMA OpenLoads ==
  ASSUME NEW s \in Sessions, Open(s)
  PROVE  Loaded' = Loaded /\ Known' = Known /\ (Complete(Known) => Complete(Known)')
<1>1. meta' = meta /\ Known' = Known
  BY DEF Open, Known
<1>2. obj' = IF meta = None THEN NoObjects ELSE obj
  BY DEF Open, DropWithoutMetadata
<1>3. CASE meta = None
  <2>1. \A f \in Files : Known[f] = None
    BY <1>3 DEF Known, Nothing
  <2> QED BY <1>1, <2>1 DEF Loaded, Complete
<1>4. CASE meta # None
  BY <1>1, <1>2, <1>4 DEF Loaded, Complete
<1> QED BY <1>3, <1>4, <1>1

LEMMA CompileCaches ==
  ASSUME TypeInv, NEW s \in Sessions, Compile(s), sess[s].cache = Loaded
  PROVE  CachedAll(sess[s])'
<1> DEFINE d == sess[s]
           e == sess'[s]
           kept == Restored(d)
<1>1. /\ e.db \in [Files -> Option(FileMeta)]
      /\ "objects" \in e.dirty \/ e.cache = d.cache
      /\ \A f \in kept : e.db[f] = Unchanged(d.db[f]) /\ e.cache[f] = d.cache[f]
      /\ \A f \in Files \ kept : e.db[f] = Recompiled(f) /\ e.cache[f] = Cached(f)
  BY CompileEffect, CompileType DEF Session
<1>2. d \in Session /\ obj' = obj /\ src \in [Files \cup {Header} -> Texts]
  BY DEF TypeInv, TypeOK, Compile, disk
<1> SUFFICES ASSUME NEW f \in Files
             PROVE  /\ e.cache[f] # None /\ e.db[f] # None
                    /\ e.cache[f].hash = e.db[f].hash
                    /\ "objects" \in e.dirty \/ obj[e.cache[f].hash] # None
  BY <1>2 DEF CachedAll
<1>3. e.cache[f] # None /\ e.db[f] # None /\ e.cache[f].hash = e.db[f].hash
  <2>1. CASE f \in kept
    <3>1. /\ d.db[f] \in FileMeta /\ d.db[f].hash = src[f]
          /\ d.cache[f] # None /\ d.cache[f].hash = src[f]
      BY <1>2, <2>1 DEF Restored, Reusable, DepsUnchanged, AstAt, Session, Option
    <3>2. Unchanged(d.db[f]) \in FileMeta /\ Unchanged(d.db[f]).hash = src[f]
      BY <3>1 DEF Unchanged, FileMeta, Status
    <3> HIDE DEF kept
    <3> QED BY <1>1, <2>1, <3>1, <3>2, AbsentAssumption
  <2>2. CASE f \notin kept
    <3>1. Parse(f) \in Asts /\ Parse(f).header \in Texts \cup {None} /\ src[f] \in Texts
      BY <1>2, ParseType DEF TypeInv
    <3>2. Recompiled(f) \in FileMeta /\ Recompiled(f).hash = src[f]
      BY <3>1 DEF Recompiled, FileMeta, Status
    <3>3. Cached(f) \in Entry /\ Cached(f).hash = src[f]
      BY <3>1 DEF Cached, Entry
    <3> HIDE DEF kept
    <3> QED BY <1>1, <2>2, <3>2, <3>3, AbsentAssumption
  <2> QED BY <2>1, <2>2
<1>4. "objects" \in e.dirty \/ obj[e.cache[f].hash] # None
  <2>1. "objects" \in e.dirty \/ e.cache = Loaded
    BY <1>1
  <2> HIDE DEF e, kept
  <2> QED BY <1>3, <2>1, LoadedThere
<1> QED BY <1>3, <1>4

LEMMA SaveCompletes ==
  ASSUME TypeInv, NEW s \in Sessions, Save(s), sess'[s].good, WarmAt(s)
  PROVE  Complete(sess[s].db)'
<1> DEFINE d == sess[s]
<1>1. /\ d \in Session /\ pc[s] = "saving" /\ sess'[s].db = d.db
      /\ "objects" \notin d.dirty => obj' = obj
      /\ "objects" \in d.dirty => \A h \in Texts : obj'[h] \in Written(d.cache, h)
  BY SaveEffect DEF TypeInv, TypeOK
<1> SUFFICES ASSUME NEW f \in Files, d.db[f] # None PROVE obj'[d.db[f].hash] # None
  BY <1>1 DEF Complete
<1> DEFINE h == d.db[f].hash
<1>2. h \in Texts
  BY <1>1 DEF Session, Option, FileMeta
<1>3. CASE Gathering(s)
  <2>1. d.cache[f] # None /\ d.cache[f].hash = h /\ ("objects" \in d.dirty \/ obj[h] # None)
    BY <1>3 DEF WarmAt, CachedAll
  <2>2. CASE "objects" \in d.dirty
    <3>1. obj'[h] \in Written(d.cache, h) /\ h \in Live(d.cache)
      BY <1>1, <1>2, <2>1, <2>2 DEF Live
    <3>2. obj[h] # None => obj'[h] # None
      BY <3>1 DEF Written
    <3>3. obj[h] = None => \E g \in Files : d.cache[g] # None /\ obj'[h] = d.cache[g].ast
      BY <3>1 DEF Written
    <3>4. \A g \in Files : d.cache[g] # None => d.cache[g].ast # None
      BY <1>1, AbsentAssumption DEF Session, Option, Entry
    <3> QED BY <3>2, <3>3, <3>4
  <2> QED BY <1>1, <2>1, <2>2
<1>4. CASE ~Gathering(s)
  <2>1. Complete(d.db) /\ ("objects" \notin d.dirty \/ d.db = Nothing)
    BY <1>1, <1>4 DEF WarmAt
  <2>2. d.db # Nothing
    BY DEF Nothing
  <2> QED BY <1>1, <2>1, <2>2 DEF Complete
<1> QED BY <1>3, <1>4

LEMMA WarmKeptStep ==
  ASSUME WarmInv, NEW s \in Sessions, Run(s) \/ Crash(s)
  PROVE  WarmKept'
<1> SUFFICES ASSUME NEW r \in Sessions, sess'[r].good PROVE WarmAt(r)'
  BY DEF WarmKept
<1>1. TypeInv /\ AloneInv
  BY DEF WarmInv, AloneInv
<1>2. CASE pc'[r] = "idle"
  BY <1>2 DEF WarmAt, Gathering
<1>3. CASE pc'[r] # "idle"
  <2>1. r = s
    BY <1>1, <1>3, AloneStep DEF Alone
  <2>2. ~Open(s) => sess[s].good
    BY <1>1, <1>3, <2>1, CompileEffect, SaveEffect, BehindEffect, MarkedEffect, RecoveredEffect,
       EndEffect, ControlEffect DEF Run
  <2>3. ~Open(s) => WarmAt(s)
    BY <2>2 DEF WarmInv, WarmKept
  <2>4. CASE Open(s)
    BY <1>1, <2>1, <2>4, OpenEffect, OpenLoads DEF WarmAt, Gathering
  <2>5. CASE Compile(s)
    <3>1. pc[s] = "opened" /\ pc'[s] = "saving" /\ sess'[s].phase = sess[s].phase
      BY <1>1, <2>5, CompileEffect
    <3>2. sess[s].phase = "parse" /\ sess[s].cache = Loaded
      BY <2>3, <2>5, <3>1 DEF AloneInv, WarmInv, PhasesKept, PhaseOf, WarmAt, Open
    <3>3. CachedAll(sess[s])'
      BY <1>1, <2>5, <3>2, CompileCaches
    <3> QED BY <2>1, <3>1, <3>2, <3>3 DEF WarmAt, Gathering
  <2>6. CASE Save(s)
    <3>1. pc'[s] = "locking" /\ ~Open(s)
      BY <1>1, <2>6, SaveEffect DEF Open, Save
    <3>2. Complete(sess[s].db)'
      BY <1>1, <2>1, <2>3, <2>6, <3>1, SaveCompletes
    <3> QED BY <2>1, <3>1, <3>2 DEF WarmAt, Gathering
  <2>7. CASE SaveFails(s) \/ Finish(s)
    <3>1. Finish(s)
      BY <1>1, <2>1, <2>7, BehindEffect
    <3>2. pc[s] = "finishing" /\ ~Open(s) /\ obj' = obj
      BY <3>1 DEF Finish, Open
    <3>3. pc'[s] \in {"saved", "storing"} /\ sess'[s].db = sess[s].db /\ sess'[s].dirty = {}
      BY <1>1, <1>3, <2>1, <3>1, BehindEffect DEF Behind
    <3>4. Complete(sess[s].db)
      BY <2>3, <3>2 DEF WarmAt, Gathering
    <3>5. Complete(sess[s].db)'
      BY <3>2, <3>3, <3>4 DEF Complete
    <3> QED BY <2>1, <3>3, <3>5 DEF WarmAt, Gathering
  <2>8. CASE RestoreIr(s) \/ Elaborate(s)
    <3>1. obj' = obj /\ ~Open(s)
      BY <2>8 DEF RestoreIr, Elaborate, Open, disk
    <3>2. /\ pc[s] = "saved" /\ pc'[s] = "saving" /\ sess'[s].phase \in {"hit", "clean"}
          /\ sess'[s].cache = Nothing /\ sess'[s].db = sess[s].db
          /\ sess'[s].dirty \subseteq sess[s].dirty \cup {"layer", "verify"}
      BY <1>1, <2>8, MarkedEffect
    <3>3. Complete(sess[s].db) /\ sess[s].dirty = {}
      BY <2>3, <3>1, <3>2 DEF WarmAt, Gathering
    <3>4. Complete(sess[s].db)' /\ "objects" \notin sess'[s].dirty
      BY <3>1, <3>2, <3>3 DEF Complete
    <3> QED BY <2>1, <3>2, <3>4 DEF WarmAt, Gathering
  <2>9. CASE Recovered(s)
    <3>1. /\ pc'[s] = "saving" /\ sess'[s].phase = "recovered"
          /\ sess'[s].cache = Nothing /\ sess'[s].db = Nothing
      BY <1>1, <2>9, RecoveredEffect
    <3>2. Complete(sess[s].db)'
      BY <3>1 DEF Complete, Nothing
    <3>3. Nothing' = Nothing
      BY DEF Nothing
    <3> QED BY <2>1, <3>1, <3>2, <3>3 DEF WarmAt, Gathering
  <2>10. CASE Crash(s) \/ CompileOnly(s) \/ ElaborationFails(s) \/ StoreIr(s)
    BY <1>1, <1>3, <2>1, <2>10, EndEffect
  <2>11. CASE Acquire(s) \/ SeeStale(s) \/ RemoveStale(s) \/ RenameMetadata(s)
    <3>1. /\ sess' = sess /\ obj' = obj /\ ~Open(s)
          /\ pc[s] \in {"locking", "stale", "renaming"}
          /\ pc'[s] \in {"locking", "stale", "renaming", "finishing"}
      BY <1>1, <2>11, ControlEffect DEF Open
    <3>2. Complete(sess[s].db)
      BY <2>3, <3>1 DEF WarmAt, Gathering
    <3>3. Complete(sess[s].db)'
      BY <3>1, <3>2 DEF Complete
    <3> QED BY <2>1, <3>1, <3>3 DEF WarmAt, Gathering
  <2> QED BY <2>4, <2>5, <2>6, <2>7, <2>8, <2>9, <2>10, <2>11 DEF Run
<1> QED BY <1>2, <1>3

LEMMA CleanKeptStep ==
  ASSUME WarmInv, NEW s \in Sessions, Run(s) \/ Crash(s)
  PROVE  CleanKept'
<1> SUFFICES ASSUME clean' PROVE Complete(Known)' \/ \E r \in Sessions : InSave(r)'
  BY DEF CleanKept
<1>1. TypeInv
  BY DEF WarmInv, AloneInv
<1>2. CASE InSave(s)'
  BY <1>2
<1>3. CASE ~InSave(s)'
  <2>1. CASE Finish(s)
    <3>1. sess[s].good /\ pc[s] = "finishing" /\ obj' = obj /\ meta' = meta
      BY <2>1 DEF Finish
    <3>2. Complete(sess[s].db) /\ sess[s].db = Known
      BY <3>1 DEF WarmInv, WarmKept, WarmAt, Gathering, AloneInv, MetaKept, MetaAt, Alone
    <3> QED BY <3>1, <3>2 DEF Complete, Known
  <2>2. CASE SaveFails(s) \/ Crash(s)
    BY <2>2 DEF SaveFails, Crash
  <2>3. CASE Open(s) \/ CompileOnly(s) \/ ElaborationFails(s) \/ StoreIr(s)
    <3>1. clean' = clean /\ ~InSave(s) /\ (Open(s) \/ (obj' = obj /\ meta' = meta))
      BY <2>3 DEF Open, CompileOnly, ElaborationFails, StoreIr, InSave, disk
    <3>2. Complete(Known) => Complete(Known)'
      BY <3>1, OpenLoads DEF Complete, Known
    <3>3. \A r \in Sessions : InSave(r) => InSave(r)'
      BY <1>1, <3>1, OthersStep DEF InSave
    <3> QED BY <3>1, <3>2, <3>3 DEF WarmInv, CleanKept
  <2> QED BY <1>1, <1>3, <2>1, <2>2, <2>3, CompileEffect, SaveEffect, MarkedEffect, RecoveredEffect,
             ControlEffect DEF Run, InSave
<1> QED BY <1>2, <1>3

LEMMA WarmStep == WarmInv /\ [Next]_vars => WarmInv'
<1> SUFFICES ASSUME WarmInv, [Next]_vars PROVE WarmInv'
  OBVIOUS
<1>1. AloneInv'
  BY AloneInvStep DEF WarmInv
<1>2. CASE Edit \/ UNCHANGED vars
  <2>1. UNCHANGED <<meta, obj, pc, sess, clean>>
    BY <1>2 DEF Edit, vars, disk, history
  <2> QED BY <1>1, <2>1 DEF WarmInv, WarmKept, WarmAt, Gathering, CachedAll, Complete, Loaded,
             Known, CleanKept, InSave
<1>3. ASSUME NEW s \in Sessions, Run(s) \/ Crash(s) PROVE WarmInv'
  BY <1>1, <1>3, WarmKeptStep, CleanKeptStep DEF WarmInv
<1> QED BY <1>2, <1>3 DEF Next

(* After the save of a session that was alone, whatever crashes, evictions  *)
(* and other sessions did to the directory before, a run on unchanged       *)
(* sources finds the AST of every file the metadata names.                  *)
THEOREM WarmRunHits == Spec => []WarmHit
<1>1. WarmInv => WarmHit
  <2> SUFFICES ASSUME WarmInv, clean, Active = {}, NEW f \in Files, DepsUnchanged(f, Known[f])
               PROVE  f \in Reusable(Known, Loaded)
    BY DEF WarmHit
  <2>1. Complete(Known)
    BY DEF WarmInv, CleanKept, InSave, Active
  <2>2. Known[f] # None /\ Known[f].hash = src[f] /\ obj[Known[f].hash] # None
    BY <2>1 DEF DepsUnchanged, Complete
  <2>3. Known[f].hash \in Texts /\ obj[Known[f].hash] \in Asts
    BY <2>2, KnownType DEF WarmInv, AloneInv, TypeInv, TypeOK, Option, FileMeta
  <2>4. Loaded[f] \in Entry /\ Loaded[f].hash = src[f]
    BY <2>2, <2>3 DEF Loaded, Entry
  <2> QED BY <2>4, AbsentAssumption DEF Reusable, AstAt
<1> QED BY WarmInit, WarmStep, <1>1, PTL DEF Spec

-----------------------------------------------------------------------------
(* The IR. What a session works with is what its records say; the IR it     *)
(* opened with is that of the records it read, as long as every run that    *)
(* saved its records has stored its IR.                                     *)
WorkOf(d) == \A f \in Files : d.db[f] # None /\ d.work[f] = Fresh(d.db[f].hash)
WorkFresh ==
  \A s \in Sessions :
    pc[s] \notin {"idle", "opened"} /\ sess[s].phase # "recovered" => WorkOf(sess[s])

Fits(i, db) ==
  i # None /\ (\A f \in Files : db[f] # None) => \A f \in Files : i[f] = Fresh(db[f].hash)
IrAt(s) ==
  /\ sess[s].phase # "recovered"
  /\ pc[s] = "opened" \/ LooksUp(sess[s]) => Fits(sess[s].ir, sess[s].db)
  /\ sess[s].phase = "hit" => sess[s].ir = ir /\ ir = sess[s].work
IrKept ==
  calm /\ ~orphan => /\ Active = {} => Fits(ir, Known)
                     /\ \A s \in Active : IrAt(s)
IrInv == Faithful /\ AloneInv /\ WorkFresh /\ IrKept

LEMMA IrInit == Init => IrInv
  BY FaithfulInit, AloneInit DEF Init, IrInv, WorkFresh, IrKept, Fits, Active

LEMMA SameHeader ==
  ASSUME TypeInv, NEW s \in Sessions, Run(s) \/ Crash(s)
  PROVE  src' = src
  BY DEF Run, Crash, Open, Compile, Save, SaveFails, Acquire, SeeStale, RemoveStale,
     RenameMetadata, Finish, CompileOnly, RestoreIr, Elaborate, ElaborationFails, Recovered,
     StoreIr

LEMMA CompileRecords ==
  ASSUME Faithful, NEW s \in Sessions, Compile(s)
  PROVE  WorkOf(sess[s])'
<1> DEFINE d == sess[s]
           e == sess'[s]
           kept == Restored(d)
<1>1. /\ e.work = [f \in Files |-> Parse(f)]
      /\ \A f \in kept : e.db[f] = Unchanged(d.db[f])
      /\ \A f \in Files \ kept : e.db[f] = Recompiled(f)
  BY CompileFresh, CompileEffect DEF Faithful
<1>2. d \in Session /\ src' = src /\ src \in [Files \cup {Header} -> Texts]
  BY SameHeader DEF Faithful, TypeInv, TypeOK, Run
<1> SUFFICES ASSUME NEW f \in Files PROVE e.db[f] # None /\ e.work[f] = Fresh(e.db[f].hash)
  BY <1>2 DEF WorkOf, Fresh
<1>3. e.db[f] \in FileMeta /\ e.db[f].hash = src[f]
  <2>1. CASE f \in kept
    <3>1. d.db[f] \in FileMeta /\ d.db[f].hash = src[f]
      BY <1>2, <2>1 DEF Restored, Reusable, DepsUnchanged, Session, Option
    <3>2. Unchanged(d.db[f]) \in FileMeta /\ Unchanged(d.db[f]).hash = src[f]
      BY <3>1 DEF Unchanged, FileMeta, Status
    <3> QED BY <1>1, <2>1, <3>2
  <2>2. CASE f \notin kept
    <3>1. Parse(f).header \in Texts \cup {None} /\ src[f] \in Texts
      BY <1>2, ParseType DEF Faithful, TypeInv
    <3>2. Recompiled(f) \in FileMeta /\ Recompiled(f).hash = src[f]
      BY <3>1 DEF Recompiled, FileMeta, Status
    <3> HIDE DEF kept
    <3> QED BY <1>1, <2>2, <3>2
  <2> QED BY <2>1, <2>2
<1> HIDE DEF e, kept
<1> QED BY <1>1, <1>3, AbsentAssumption DEF Parse, Fresh

(* A restored file has the record it had when the session opened.           *)
LEMMA CompileKeepsIr ==
  ASSUME Faithful, NEW s \in Sessions, Compile(s), Fits(sess[s].ir, sess[s].db),
         LooksUp(sess'[s])
  PROVE  Fits(sess[s].ir, sess[s].db)'
<1> DEFINE d == sess[s]
           e == sess'[s]
<1>1. /\ e.ir = d.ir /\ Restored(d) = Files
      /\ \A f \in Files : e.db[f] = Unchanged(d.db[f])
  BY CompileEffect DEF Faithful, LooksUp
<1>2. \A f \in Files : d.db[f] \in FileMeta /\ d.db[f] # None
  BY <1>1, AbsentAssumption DEF Restored, Reusable, DepsUnchanged, Session, Option,
     Faithful, TypeInv, TypeOK
<1>3. \A f \in Files : e.db[f].hash = d.db[f].hash
  BY <1>1, <1>2 DEF Unchanged, FileMeta
<1>4. src' = src
  BY SameHeader DEF Faithful, Run
<1> HIDE DEF e
<1> QED BY <1>1, <1>2, <1>3, <1>4 DEF Fits, Fresh, e

LEMMA WorkFreshStep ==
  ASSUME IrInv, NEW s \in Sessions, Run(s) \/ Crash(s)
  PROVE  WorkFresh'
<1> SUFFICES ASSUME NEW r \in Sessions, pc'[r] \notin {"idle", "opened"},
                    sess'[r].phase # "recovered"
             PROVE  WorkOf(sess[r])'
  BY DEF WorkFresh
<1>1. TypeInv /\ Faithful
  BY DEF IrInv, AloneInv
<1>2. src' = src
  BY <1>1, SameHeader
<1>3. CASE Compile(s) /\ r = s
  BY <1>1, <1>3, CompileRecords
<1>4. CASE ~(Compile(s) /\ r = s)
  <2>1. /\ pc[r] \notin {"idle", "opened"} /\ sess[r].phase # "recovered"
        /\ sess'[r].db = sess[r].db /\ sess'[r].work = sess[r].work
    <3>1. CASE r # s
      BY <1>1, <3>1, OthersStep
    <3>2. CASE r = s
      <4>1. CASE RestoreIr(s) \/ Elaborate(s)
        <5>1. pc[s] = "saved" /\ sess'[s].db = sess[s].db /\ sess'[s].work = sess[s].work
          BY <1>1, <4>1, MarkedEffect
        <5>2. sess[s].phase = "parse"
          BY <5>1 DEF IrInv, AloneInv, PhasesKept, PhaseOf
        <5> QED BY <3>2, <5>1, <5>2
      <4>2. CASE SaveFails(s) \/ Finish(s)
        <5>1. pc[s] \in {"locking", "finishing"}
          BY <4>2 DEF SaveFails, Finish
        <5> QED BY <1>1, <3>2, <4>2, <5>1, BehindEffect
      <4> QED BY <1>1, <1>4, <3>2, <4>1, <4>2, OpenEffect, SaveEffect, RecoveredEffect,
                 EndEffect, ControlEffect DEF Run
    <3> QED BY <3>1, <3>2
  <2>2. WorkOf(sess[r])
    BY <2>1 DEF IrInv, WorkFresh
  <2> QED BY <1>2, <2>1, <2>2 DEF WorkOf, Fresh
<1> QED BY <1>3, <1>4

(* The IR is stored, or kept, with the records it is of.                    *)
LEMMA WorkFits ==
  ASSUME NEW d, NEW i, WorkOf(d), i = None \/ i = d.work
  PROVE  Fits(i, d.db)
  BY DEF WorkOf, Fits

LEMMA IrKeptStep ==
  ASSUME IrInv, NEW s \in Sessions, Run(s) \/ Crash(s)
  PROVE  IrKept'
<1> SUFFICES ASSUME calm', ~orphan'
             PROVE  (Active' = {} => Fits(ir, Known)') /\ \A r \in Active' : IrAt(r)'
  BY DEF IrKept
<1>1. TypeInv /\ AloneInv /\ Faithful /\ src' = src
  BY SameHeader DEF IrInv, AloneInv
<1>2. \A r \in Sessions : pc'[r] # "idle" => r = s
  BY <1>1, AloneStep DEF Alone
<1>3. Active' \in {{}, {s}} /\ (s \in Active' <=> pc'[s] # "idle")
  <2>1. Active' = {r \in Sessions : pc'[r] # "idle"}
    BY DEF Active
  <2> QED BY <1>2, <2>1
<1>4. Alone(s)'
  BY DEF Alone
<1>5. CASE Open(s)
  <2>1. Active = {} /\ calm /\ orphan' = orphan /\ ir' = ir
    BY <1>1, <1>4, <1>5, StillAlone DEF Open
  <2>2. Fits(ir, Known)
    BY <2>1 DEF IrInv, IrKept
  <2>3. /\ pc'[s] = "opened" /\ sess'[s].phase = "parse"
        /\ sess'[s].db = Known /\ sess'[s].ir = ir
    BY <1>1, <1>5, OpenEffect
  <2>4. IrAt(s)'
    BY <1>1, <2>2, <2>3 DEF IrAt, Fits, Fresh
  <2> QED BY <1>3, <2>3, <2>4
<1>6. CASE StoreIr(s)
  <2>1. pc[s] = "storing" /\ ir' = sess[s].work /\ meta' = meta
    BY <1>6 DEF StoreIr
  <2>2. pc'[s] = "idle" /\ calm
    BY <1>1, <1>6, EndEffect DEF StoreIr
  <2>3. sess[s].db = Known /\ sess[s].phase = "clean"
    BY <1>1, <2>1, <2>2 DEF AloneInv, MetaKept, MetaAt, Alone, PhasesKept, PhaseOf
  <2>4. WorkOf(sess[s])
    BY <2>1, <2>3 DEF IrInv, WorkFresh
  <2>5. Fits(sess[s].work, Known)
    BY <2>3, <2>4, WorkFits
  <2>6. Fits(ir, Known)'
    BY <1>1, <2>1, <2>5 DEF Fits, Fresh, Known
  <2> QED BY <1>3, <2>2, <2>6
<1>7. CASE ~Open(s) /\ ~StoreIr(s)
  <2>1. calm /\ ~orphan /\ pc[s] # "idle"
    <3>1. pc[s] # "idle"
      BY <1>7 DEF Run, Crash, Compile, Save, SaveFails, Acquire, SeeStale, RemoveStale,
         RenameMetadata, Finish, CompileOnly, RestoreIr, Elaborate, ElaborationFails, Recovered
    <3>2. calm
      BY <1>7 DEF Run, Crash, Compile, Save, SaveFails, Acquire, SeeStale, RemoveStale,
         RenameMetadata, Finish, CompileOnly, RestoreIr, Elaborate, ElaborationFails, Recovered,
         history
    <3>3. ~orphan
      BY <1>7 DEF Run, Crash, Compile, Save, SaveFails, Acquire, SeeStale, RemoveStale,
         RenameMetadata, Finish, CompileOnly, RestoreIr, Elaborate, ElaborationFails, Recovered,
         history
    <3> QED BY <3>1, <3>2, <3>3
  <2>2. IrAt(s)
    BY <2>1 DEF IrInv, IrKept, Active
  <2>3. CASE Finish(s)
    <3>1. /\ pc[s] = "finishing" /\ meta' = meta
          /\ ir' = Index(sess[s])
      BY <2>3 DEF Finish
    <3>2. sess[s].phase # "recovered" /\ (sess[s].phase = "hit" => ir = sess[s].work)
      BY <2>2 DEF IrAt
    <3>3. ir' \in {ir, None}
      BY <3>1 DEF Index
    <3>4. CASE pc'[s] = "idle"
      <4>1. sess[s].phase \notin {"parse", "clean"} /\ sess[s] \in Session
        BY <1>1, <2>3, <3>4, BehindEffect DEF Behind, TypeInv, TypeOK
      <4>2. sess[s].phase = "hit"
        BY <3>2, <4>1 DEF Session, Phases
      <4>3. sess[s].db = Known
        BY <1>1, <2>1, <3>1 DEF AloneInv, MetaKept, MetaAt, Alone
      <4>4. WorkOf(sess[s])
        BY <3>1, <3>2 DEF IrInv, WorkFresh
      <4>5. Fits(ir', Known)
        BY <3>2, <3>3, <4>2, <4>3, <4>4, WorkFits
      <4>6. Fits(ir, Known)'
        BY <1>1, <3>1, <4>5 DEF Fits, Fresh, Known
      <4> QED BY <1>3, <3>4, <4>6
    <3>5. CASE pc'[s] # "idle"
      <4>1. /\ sess'[s].phase = sess[s].phase /\ sess'[s].ir = sess[s].ir
            /\ sess'[s].mode = sess[s].mode /\ sess'[s].restored = sess[s].restored
            /\ sess'[s].db = sess[s].db /\ sess'[s].work = sess[s].work
            /\ pc'[s] \in {"saved", "storing"} /\ sess[s].phase # "hit"
        BY <1>1, <2>3, <3>5, BehindEffect DEF Behind
      <4>2. IrAt(s)'
        BY <1>1, <2>2, <4>1 DEF IrAt, LooksUp, Fits, Fresh
      <4> QED BY <1>3, <3>5, <4>2
    <3> QED BY <3>4, <3>5
  <2>4. CASE RestoreIr(s)
    <3>1. /\ pc[s] = "saved" /\ pc'[s] = "saving" /\ sess'[s].phase = "hit"
          /\ sess'[s].db = sess[s].db /\ sess'[s].work = sess[s].work
          /\ sess'[s].mode = sess[s].mode /\ sess'[s].restored = sess[s].restored
          /\ IrHit(s) /\ sess'[s].ir = sess[s].ir
      BY <1>1, <2>4, MarkedEffect
    <3>2. LooksUp(sess[s]) /\ ir # None /\ sess[s].ir = ir /\ ir' = ir
      BY <2>4, <3>1 DEF IrHit, IrFound, RestoreIr, disk
    <3>3. WorkOf(sess[s]) /\ Fits(ir, sess[s].db)
      BY <1>1, <2>2, <3>1, <3>2 DEF IrAt, IrInv, WorkFresh, AloneInv, PhasesKept, PhaseOf
    <3>4. \A f \in Files : ir[f] = sess[s].work[f]
      BY <3>2, <3>3 DEF WorkOf, Fits
    <3>5. ir \in [Files -> Asts] /\ sess[s].work \in [Files -> Asts]
      BY <1>1, <3>1, <3>2 DEF TypeInv, TypeOK, WorkKnown, Option
    <3>6. ir = sess[s].work
      BY <3>4, <3>5
    <3>7. IrAt(s)'
      BY <1>1, <3>1, <3>2, <3>3, <3>6 DEF IrAt, Fits, Fresh
    <3> QED BY <1>3, <3>1, <3>7
  <2>5. CASE Elaborate(s)
    <3>1. /\ pc'[s] = "saving" /\ sess'[s].phase = "clean" /\ sess'[s].db = sess[s].db
          /\ sess'[s].mode = sess[s].mode /\ sess'[s].restored = sess[s].restored
          /\ sess'[s].ir \in {sess[s].ir, None}
      BY <1>1, <2>5, MarkedEffect DEF RestoreIr, Elaborate
    <3>2. IrAt(s)'
      BY <1>1, <2>2, <3>1 DEF IrAt, LooksUp, Fits, Fresh
    <3> QED BY <1>3, <3>1, <3>2
  <2>6. CASE Compile(s)
    <3>1. /\ pc[s] = "opened" /\ pc'[s] = "saving" /\ sess'[s].phase = sess[s].phase
          /\ sess'[s].ir = sess[s].ir
      BY <1>1, <2>6, CompileEffect
    <3>2. sess[s].phase = "parse" /\ Fits(sess[s].ir, sess[s].db)
      BY <1>1, <2>2, <3>1 DEF AloneInv, PhasesKept, PhaseOf, IrAt
    <3>3. LooksUp(sess'[s]) => Fits(sess[s].ir, sess[s].db)'
      BY <1>1, <2>6, <3>2, CompileKeepsIr
    <3>4. IrAt(s)'
      BY <3>1, <3>2, <3>3 DEF IrAt, LooksUp
    <3> QED BY <1>3, <3>1, <3>4
  <2>7. CASE Save(s)
    <3>1. /\ pc'[s] = "locking" /\ sess'[s].phase = sess[s].phase /\ sess'[s].ir = sess[s].ir
          /\ sess'[s].mode = sess[s].mode /\ sess'[s].restored = sess[s].restored
          /\ sess'[s].db = sess[s].db /\ sess'[s].work = sess[s].work
      BY <1>1, <2>7, SaveEffect
    <3>2. ir' = ir
      BY <2>7 DEF Save
    <3>3. IrAt(s)'
      BY <1>1, <2>2, <3>1, <3>2 DEF IrAt, LooksUp, Fits, Fresh
    <3> QED BY <1>3, <3>1, <3>3
  <2>8. CASE Acquire(s) \/ SeeStale(s) \/ RemoveStale(s) \/ RenameMetadata(s)
    <3>1. sess' = sess /\ ir' = ir /\ pc'[s] \in {"locking", "stale", "renaming", "finishing"}
      BY <1>1, <2>8, ControlEffect
    <3>2. IrAt(s)'
      BY <1>1, <2>2, <3>1 DEF IrAt, LooksUp, Fits, Fresh
    <3> QED BY <1>3, <3>1, <3>2
  <2>9. CASE SaveFails(s) \/ Crash(s) \/ CompileOnly(s) \/ ElaborationFails(s) \/ Recovered(s)
    BY <2>9 DEF SaveFails, Crash, CompileOnly, ElaborationFails, Recovered
  <2> QED BY <1>7, <2>3, <2>4, <2>5, <2>6, <2>7, <2>8, <2>9 DEF Run
<1> QED BY <1>5, <1>6, <1>7

LEMMA IrStep ==
  ASSUME Header \notin Editable, IrInv, [Next]_vars
  PROVE  IrInv'
<1>1. Faithful' /\ AloneInv'
  BY FaithfulStep, AloneInvStep DEF IrInv
<1>2. CASE Edit \/ UNCHANGED vars
  <2>1. UNCHANGED <<meta, ir, pc, sess, calm, orphan>> /\ src'[Header] = src[Header]
    BY <1>2 DEF Edit, vars, disk, history, IrInv, AloneInv, TypeInv, TypeOK
  <2> QED BY <1>1, <2>1 DEF IrInv, WorkFresh, WorkOf, IrKept, IrAt, LooksUp, Fits, Fresh, Ast,
             Active, Known
<1>3. ASSUME NEW s \in Sessions, Run(s) \/ Crash(s) PROVE IrInv'
  BY <1>1, <1>3, WorkFreshStep, IrKeptStep DEF IrInv
<1> QED BY <1>2, <1>3 DEF Next

(* As long as every run that saves its parse stores its IR, and runs do not *)
(* overlap, crash or give up, an IR that is reused is the IR of the sources *)
(* the session has compiled, if the header is not edited.                   *)
THEOREM IrSound == ASSUME Header \notin Editable PROVE Spec => []IrCurrent
<1>1. IrInv => IrCurrent
  <2> SUFFICES ASSUME IrInv, calm, ~orphan, NEW s \in Sessions, sess[s].phase = "hit"
               PROVE  sess[s].ir = sess[s].work
    BY DEF IrCurrent, IrAlwaysCurrent, IrFits
  <2>1. s \in Active
    BY DEF Active, IrInv, AloneInv, PhasesKept, PhaseOf
  <2> QED BY <2>1 DEF IrInv, IrKept, IrAt
<1>2. IrInv /\ [Next]_vars => IrInv'
  BY IrStep
<1> QED BY IrInit, <1>1, <1>2, PTL DEF Spec

=============================================================================
