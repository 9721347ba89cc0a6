---------------------------- MODULE CompileCache ----------------------------
(* The MICD compile cache (mivon-compiler/src/micd, frontend/                *)
(* compile_session.rs) as the run command drives it (src/main.rs run_fast). *)
(* A session opens the database of its project, restores the ASTs it may    *)
(* reuse, parses the other files, saves, then restores the IR or elaborates *)
(* and stores it. Sessions of one project share the directory with no more  *)
(* protection than the writer lock and atomic renames; sources are edited   *)
(* in between and processes die.                                            *)
(*                                                                          *)
(* A text stands for its hash. All files may include one header; which      *)
(* texts do is a constant. An AST is what it was parsed from.               *)
EXTENDS Naturals, FiniteSets

CONSTANTS Files, Header, Texts, Including, Sessions,
          Editable,               \* the sources that may be edited
          Modes, Outcomes,        \* command lines; how an elaboration ends
          MaxOpens, MaxEdits, MaxFaults,   \* runs; edits; crashes and evictions
          Dead, None

ASSUME NoneAssumption == None \notin Texts /\ None \notin Sessions
ASSUME DeadAssumption == Dead \notin Sessions /\ Dead # None
ASSUME BoundsAssumption == MaxOpens \in Nat /\ MaxEdits \in Nat /\ MaxFaults \in Nat
ASSUME FilesAssumption == IsFiniteSet(Files)
ASSUME SourcesAssumption == Editable \subseteq Files \cup {Header}
ASSUME HeaderAssumption == Header \notin Files

VARIABLES
  src,                                          \* the sources on disk
  meta, obj, verify, ir, journal, lock,         \* the project's directory
  pc, sess,                                     \* the sessions
  opens, edits, faults,                        \* bounds
  clean, calm, orphan, died                     \* history, see below

disk == <<meta, obj, verify, ir>>
bounds == <<opens, edits, faults>>
history == <<clean, calm, orphan, died>>
vars == <<src, disk, journal, lock, pc, sess, bounds, history>>

Ast(text, header) ==
  [text |-> text, header |-> IF text \in Including THEN header ELSE None]
Parse(f) == Ast(src[f], src[Header])

Status == {"Recompiled", "Unchanged"}
Asts == [text : Texts, header : Texts \cup {None}]
FileMeta == [hash : Texts, inc : Texts \cup {None}, status : Status]
Entry == [hash : Texts, ast : Asts]
Option(S) == S \cup {None}
Stores == {"metadata", "objects", "verify", "layer"}
Phases == {"parse", "clean", "hit", "recovered"}
PCs == {"idle", "opened", "saving", "locking", "stale", "renaming",
        "finishing", "saved", "storing"}

(* What a session holds: its command line, the save it is in, db.files,     *)
(* ast_cache, the designs it works with, micd_restored_paths, the dirty     *)
(* flags, the verification results, the IR index it loaded, and whether it  *)
(* has been alone and undisturbed since it opened.                          *)
Session == [mode : Option(Modes), phase : Phases, db : [Files -> Option(FileMeta)],
            cache : [Files -> Option(Entry)], work : [Files -> Option(Asts)],
            restored : SUBSET Files, dirty : SUBSET Stores, verify : SUBSET Texts,
            ir : Option([Files -> Asts]), good : BOOLEAN]

Nothing == [f \in Files |-> None]
NoObjects == [t \in Texts |-> None]

(* None is no record and no table of the database.                          *)
ASSUME AbsentAssumption ==
  None \notin Asts \cup FileMeta \cup Entry \cup [Files -> Option(FileMeta)]
Blank == [mode |-> None, phase |-> "parse", db |-> Nothing, cache |-> Nothing,
          work |-> Nothing, restored |-> {}, dirty |-> {}, verify |-> {},
          ir |-> None, good |-> FALSE]

TypeOK ==
  /\ src \in [Files \cup {Header} -> Texts]
  /\ meta \in Option([Files -> Option(FileMeta)])
  /\ obj \in [Texts -> Option(Asts)]
  /\ verify \subseteq Texts
  /\ ir \in Option([Files -> Asts])
  /\ journal \in BOOLEAN
  /\ lock \in Sessions \cup {None, Dead}
  /\ pc \in [Sessions -> PCs]
  /\ sess \in [Sessions -> Session]
  /\ opens \in 0..MaxOpens /\ edits \in 0..MaxEdits /\ faults \in 0..MaxFaults
  /\ {clean, calm, orphan, died} \subseteq BOOLEAN

Init ==
  /\ src \in [Files \cup {Header} -> Texts]
  /\ src[Header] = (CHOOSE t \in Texts : TRUE)
  /\ meta = None /\ obj = NoObjects
  /\ verify = {} /\ ir = None
  /\ journal = FALSE /\ lock = None
  /\ pc = [s \in Sessions |-> "idle"] /\ sess = [s \in Sessions |-> Blank]
  /\ opens = 0 /\ edits = 0 /\ faults = 0
  /\ clean = FALSE /\ calm = TRUE /\ orphan = FALSE /\ died = FALSE

-----------------------------------------------------------------------------
Active == {s \in Sessions : pc[s] # "idle"}
Hashes(files) == {files[f].hash : f \in {g \in Files : files[g] # None}}

(* The process ends: what it holds in memory is gone.                       *)
End(s) ==
  /\ pc' = [pc EXCEPT ![s] = "idle"]
  /\ sess' = [sess EXCEPT ![s] = Blank]

(* A source is edited. Assumed: not between the parse of a session and the  *)
(* hashes it takes for the metadata, which Compile does in one step.        *)
Edit ==
  /\ edits < MaxEdits
  /\ \E x \in Editable, t \in Texts :
       /\ t # src[x]
       /\ src' = [src EXCEPT ![x] = t]
  /\ edits' = edits + 1
  /\ UNCHANGED <<disk, journal, lock, pc, sess, opens, faults, history>>

(* The process dies: its lockfile and its journal stay behind.              *)
Crash(s) ==
  /\ faults < MaxFaults
  /\ pc[s] # "idle"
  /\ End(s)
  /\ lock' = IF lock = s THEN Dead ELSE lock
  /\ died' = (died \/ lock = s)
  /\ clean' = FALSE /\ calm' = FALSE
  /\ faults' = faults + 1
  /\ UNCHANGED <<src, disk, journal, opens, edits, orphan>>

-----------------------------------------------------------------------------
(* The files of metadata.mdb; none if the file is not there (meta = None).  *)
Known == IF meta = None THEN Nothing ELSE meta

(* The AST objects found for the files of the metadata.                     *)
Loaded ==
  [f \in Files |->
     IF Known[f] # None /\ obj[Known[f].hash] # None
     THEN [hash |-> Known[f].hash, ast |-> obj[Known[f].hash]]
     ELSE None]

(* Recovery: what an unfinished transaction left is valid file by file, so  *)
(* the stores are kept and only the journal goes, whosever it is.           *)
Recover == journal' = FALSE

(* Without a metadata.mdb of this schema the other stores and the objects   *)
(* are dropped, those a session is about to commit too.                     *)
DropWithoutMetadata ==
  /\ obj' = IF meta = None THEN NoObjects ELSE obj
  /\ verify' = IF meta = None THEN {} ELSE verify

(* open_with_pid, then what the session has in memory.                      *)
Open(s) ==
  /\ opens < MaxOpens
  /\ pc[s] = "idle"
  /\ Recover
  /\ DropWithoutMetadata
  /\ pc' = [pc EXCEPT ![s] = "opened"]
  /\ \E mode \in Modes :
       sess' = [r \in Sessions |->
         IF r = s
         THEN [Blank EXCEPT !.mode = mode, !.db = Known, !.cache = Loaded,
                            !.verify = verify', !.ir = ir, !.good = (Active = {})]
         ELSE [sess[r] EXCEPT !.good = FALSE]]
  /\ calm' = (calm /\ Active = {})
  /\ opens' = opens + 1
  /\ UNCHANGED <<src, meta, ir, lock, edits, faults, clean, orphan, died>>

(* deps_unchanged: the text and the header are those of the record.         *)
DepsUnchanged(f, m) == m # None /\ m.hash = src[f] /\ m.inc \in {None, src[Header]}

(* get_ast: the cached AST is there, for this text.                         *)
AstAt(f, entry) == entry # None /\ entry.hash = src[f]

(* Mutant: the metadata is trusted without a look at the text.              *)
TrustingReusable(db, cache) ==
  {f \in Files : db[f] # None /\ db[f].inc \in {None, src[Header]} /\ cache[f] # None}

(* The files attach_micd restores.                                          *)
Reusable(db, cache) == {f \in Files : DepsUnchanged(f, db[f]) /\ AstAt(f, cache[f])}

(* built_changed > 0: a text is not the recorded one.                       *)
Grown(db) == \E f \in Files : db[f] = None \/ db[f].hash # src[f]

(* attach_micd, or open_micd_no_restore under --recompile.                  *)
Restored(d) == IF d.mode = "recompile" THEN {} ELSE Reusable(d.db, d.cache)

(* record_file of a file the session has parsed, or restored.               *)
Recompiled(f) == [hash |-> src[f], inc |-> Parse(f).header, status |-> "Recompiled"]
Unchanged(m) == [m EXCEPT !.status = "Unchanged"]

(* cache_ast of a file the session has parsed.                              *)
Cached(f) == [hash |-> src[f], ast |-> Parse(f)]

(* set_verify for every file, if a text changed.                            *)
Verified(d, db) == IF Grown(d.db) THEN d.verify \cup Hashes(db) ELSE d.verify

(* What record_file, cache_ast, set_verify and the pipeline cache mark. The *)
(* statuses differ from those read unless every file was restored twice.    *)
Dirtied(d, db, cache) ==
  (IF db # d.db \/ d.mode = "recompile" THEN {"metadata"} ELSE {})
    \cup (IF cache # d.cache THEN {"metadata", "objects"} ELSE {})
    \cup (IF Grown(d.db) THEN {"verify", "layer"} ELSE {})

(* The parse, and what save_micd gathers and applies.                       *)
Compile(s) ==
  LET d == sess[s]
      kept == Restored(d)
      work == [f \in Files |-> IF f \in kept THEN d.cache[f].ast ELSE Parse(f)]
      db == [f \in Files |-> IF f \in kept THEN Unchanged(d.db[f]) ELSE Recompiled(f)]
      cache == [f \in Files |-> IF f \in kept THEN d.cache[f] ELSE Cached(f)]
  IN /\ pc[s] = "opened"
     /\ pc' = [pc EXCEPT ![s] = "saving"]
     /\ sess' = [sess EXCEPT ![s] =
          [d EXCEPT !.work = work, !.db = db, !.cache = cache, !.restored = kept,
                    !.verify = Verified(d, db), !.dirty = Dirtied(d, db, cache)]]
     /\ UNCHANGED <<src, disk, journal, lock, bounds, history>>

-----------------------------------------------------------------------------
(* What is left of the cache once the garbage collection has evicted files  *)
(* by age or by budget.                                                     *)
Evict(cache, files) == [f \in Files |-> IF f \in files THEN None ELSE cache[f]]

(* compact_unreachable: a result of no file is dropped.                     *)
Reachable(d) == d.verify \cap Hashes(d.db)

(* What run_gc marks.                                                       *)
Collected(d, evicted) ==
  d.dirty \cup (IF evicted # {} THEN {"metadata", "objects"} ELSE {})
          \cup (IF Reachable(d) # d.verify THEN {"metadata", "verify"} ELSE {})

(* sweep_objects keeps what a cached entry names.                           *)
Live(cache) == {cache[f].hash : f \in {g \in Files : cache[g] # None}}
Swept(live) == [h \in Texts |-> IF h \in live THEN obj[h] ELSE None]

(* write_ast_objects: an object that exists is not written again.           *)
Written(cache, h) ==
  IF h \notin Live(cache) THEN {None}
  ELSE IF obj[h] # None THEN {obj[h]}
  ELSE {cache[f].ast : f \in {g \in Files : cache[g] # None /\ cache[g].hash = h}}

(* save up to its lock.                                                     *)
Save(s) ==
  /\ pc[s] = "saving"
  /\ \E evicted \in SUBSET {f \in Files : sess[s].cache[f] # None} :
       LET d == sess[s]
           cache == Evict(d.cache, evicted)
       IN /\ faults + Cardinality(evicted) <= MaxFaults
          /\ faults' = faults + Cardinality(evicted)
          /\ sess' = [sess EXCEPT ![s] =
               [d EXCEPT !.cache = cache, !.verify = Reachable(d),
                         !.dirty = Collected(d, evicted), !.good = d.good /\ evicted = {}]]
          /\ IF "objects" \in Collected(d, evicted)
             THEN obj' \in {o \in [Texts -> Option(Asts)] :
                              \A h \in Texts : o[h] \in Written(cache, h)}
             ELSE obj' = obj
  /\ pc' = [pc EXCEPT ![s] = "locking"]
  /\ UNCHANGED <<src, meta, verify, ir, journal, lock, opens, edits, history>>

(* Where a session goes on after a save.                                    *)
Behind(s) ==
  IF sess[s].phase = "parse" THEN "saved"
  ELSE IF sess[s].phase = "clean" THEN "storing" ELSE "idle"

(* Five seconds without the lock: the save is given up, its flags stay.     *)
SaveFails(s) ==
  /\ pc[s] = "locking"
  /\ lock # None
  /\ pc' = [pc EXCEPT ![s] = Behind(s)]
  /\ sess' = [sess EXCEPT ![s] =
       IF Behind(s) = "idle" THEN Blank ELSE [sess[s] EXCEPT !.good = FALSE]]
  /\ clean' = FALSE /\ calm' = FALSE
  /\ UNCHANGED <<src, disk, journal, lock, bounds, orphan, died>>

(* acquire_write_lock creates the lockfile, write_journal the journal.      *)
Acquire(s) ==
  /\ pc[s] = "locking"
  /\ lock = None
  /\ lock' = s
  /\ journal' = TRUE
  /\ pc' = [pc EXCEPT ![s] = "renaming"]
  /\ UNCHANGED <<src, disk, sess, bounds, history>>

(* Mutant: a lock is broken while its owner lives.                          *)
ImpatientSeeStale(s) ==
  /\ pc[s] = "locking"
  /\ lock # None
  /\ pc' = [pc EXCEPT ![s] = "stale"]
  /\ UNCHANGED <<src, disk, journal, lock, sess, bounds, history>>

(* The lockfile is older than a writer ever lives, so its owner must be     *)
(* dead. Another waiter may see the same before either removes it.          *)
SeeStale(s) ==
  /\ pc[s] = "locking"
  /\ lock = Dead
  /\ pc' = [pc EXCEPT ![s] = "stale"]
  /\ UNCHANGED <<src, disk, journal, lock, sess, bounds, history>>

RemoveStale(s) ==
  /\ pc[s] = "stale"
  /\ lock' = None
  /\ pc' = [pc EXCEPT ![s] = "locking"]
  /\ UNCHANGED <<src, disk, journal, sess, bounds, history>>

(* commit_tmp of metadata.mdb, the first of the stores.                     *)
RenameMetadata(s) ==
  /\ pc[s] = "renaming"
  /\ meta' = IF "metadata" \in sess[s].dirty THEN sess[s].db ELSE meta
  /\ pc' = [pc EXCEPT ![s] = "finishing"]
  /\ UNCHANGED <<src, obj, verify, ir, journal, lock, sess, bounds, history>>

(* The lock's guard removes the lockfile, whosever it is by now.            *)
Release == lock' = None

(* The pipeline cache is written with the IR index read at open; the object *)
(* it names is gone if another session has replaced it since.               *)
Index(d) == IF "layer" \in d.dirty /\ d.ir # ir THEN None ELSE ir

(* commit_tmp of verify.mdb, the journal's removal, the pipeline cache.     *)
Finish(s) ==
  /\ pc[s] = "finishing"
  /\ verify' = IF "verify" \in sess[s].dirty THEN sess[s].verify ELSE verify
  /\ journal' = FALSE
  /\ ir' = Index(sess[s])
  /\ Release
  /\ pc' = [pc EXCEPT ![s] = Behind(s)]
  /\ sess' = [sess EXCEPT ![s] =
       IF Behind(s) = "idle" THEN Blank ELSE [sess[s] EXCEPT !.dirty = {}]]
  /\ clean' = sess[s].good
  /\ UNCHANGED <<src, meta, obj, bounds, calm, orphan, died>>

-----------------------------------------------------------------------------
(* The command ends after the save of the parse (--compile-only).           *)
CompileOnly(s) ==
  /\ pc[s] = "saved"
  /\ sess[s].mode = "compile-only"
  /\ End(s)
  /\ orphan' = TRUE
  /\ UNCHANGED <<src, disk, journal, lock, bounds, clean, calm, died>>

(* Mutant: one restored file is enough.                                     *)
EagerLooksUp(d) == d.mode # "recompile" /\ d.restored # {}

(* The IR is looked for when nothing was parsed.                            *)
LooksUp(d) == d.mode # "recompile" /\ d.restored = Files

(* restore_elaborate_ir: the index has an IR and its object is there.       *)
IrFound(d) == d.ir # None /\ d.ir = ir
IrHit(s) == LooksUp(sess[s]) /\ IrFound(sess[s])

(* release_parse_cache, and what the look at the pipeline cache leaves: a   *)
(* hit and a miss both count as a change, and a miss drops the entry.       *)
Released(d) ==
  [d EXCEPT !.cache = Nothing,
            !.dirty = IF LooksUp(d) THEN d.dirty \cup {"layer"} ELSE d.dirty,
            !.ir = IF LooksUp(d) /\ ~IrFound(d) THEN None ELSE d.ir]

(* mark_elaborated, at the end of a run that simulates.                     *)
Marked(d, phase) == [d EXCEPT !.phase = phase, !.dirty = d.dirty \cup {"verify"}]

(* The IR is reused.                                                        *)
RestoreIr(s) ==
  /\ pc[s] = "saved"
  /\ sess[s].mode # "compile-only"
  /\ IrHit(s)
  /\ pc' = [pc EXCEPT ![s] = "saving"]
  /\ sess' = [sess EXCEPT ![s] = Marked(Released(sess[s]), "hit")]
  /\ UNCHANGED <<src, disk, journal, lock, bounds, history>>

(* The elaborator runs, without an error.                                   *)
Elaborate(s) ==
  /\ pc[s] = "saved"
  /\ sess[s].mode # "compile-only"
  /\ ~IrHit(s)
  /\ "clean" \in Outcomes
  /\ pc' = [pc EXCEPT ![s] = "saving"]
  /\ sess' = [sess EXCEPT ![s] = Marked(Released(sess[s]), "clean")]
  /\ UNCHANGED <<src, disk, journal, lock, bounds, history>>

(* The parse or the elaborator reports errors.                              *)
ElaborationFails(s) ==
  /\ pc[s] = "saved"
  /\ sess[s].mode # "compile-only"
  /\ ~IrHit(s)
  /\ "failed" \in Outcomes
  /\ End(s)
  /\ orphan' = TRUE
  /\ UNCHANGED <<src, disk, journal, lock, bounds, clean, calm, died>>

(* Mutant: the objects are swept but the files are kept.                    *)
HalfPruned(d, active) ==
  [d EXCEPT !.phase = "recovered", !.dirty = d.dirty \cup {"metadata", "objects"}]

(* prune_stale: the files without a design are dropped, whatever is not     *)
(* cached is swept.                                                         *)
Pruned(d, active) ==
  [d EXCEPT !.phase = "recovered", !.dirty = d.dirty \cup {"metadata", "objects"},
            !.db = [f \in Files |-> IF f \in active THEN d.db[f] ELSE None]]

(* No unique top: save_micd runs again, with the designs released, so every *)
(* file is pruned and every object swept.                                   *)
Recovered(s) ==
  /\ pc[s] = "saved"
  /\ sess[s].mode # "compile-only"
  /\ ~IrHit(s)
  /\ "recovered" \in Outcomes
  /\ pc' = [pc EXCEPT ![s] = "saving"]
  /\ sess' = [sess EXCEPT ![s] = Pruned(Released(sess[s]), {})]
  /\ obj' = Swept(Live(Nothing))
  /\ orphan' = TRUE
  /\ UNCHANGED <<src, meta, verify, ir, journal, lock, bounds, clean, calm, died>>

(* Mutant: what is stored has been released before.                         *)
ReleasedStoreIr(s) ==
  /\ pc[s] = "storing"
  /\ ir' = sess[s].cache
  /\ End(s)
  /\ orphan' = FALSE
  /\ UNCHANGED <<src, meta, obj, verify, journal, lock, bounds, clean, calm, died>>

(* save_elaborate_cache.                                                    *)
StoreIr(s) ==
  /\ pc[s] = "storing"
  /\ ir' = sess[s].work
  /\ End(s)
  /\ orphan' = FALSE
  /\ UNCHANGED <<src, meta, obj, verify, journal, lock, bounds, clean, calm, died>>

Run(s) ==
  \/ Open(s) \/ Compile(s) \/ Save(s) \/ SaveFails(s) \/ Acquire(s) \/ SeeStale(s)
  \/ RemoveStale(s) \/ RenameMetadata(s) \/ Finish(s) \/ CompileOnly(s) \/ RestoreIr(s)
  \/ Elaborate(s) \/ ElaborationFails(s) \/ Recovered(s) \/ StoreIr(s)

Next == Edit \/ \E s \in Sessions : Run(s) \/ Crash(s)
Spec == Init /\ [][Next]_vars

-----------------------------------------------------------------------------
(* The histories. clean: the last save was that of a session alone and      *)
(* undisturbed, and nothing has crashed since. calm: no two sessions ever   *)
(* overlapped, none crashed, no save was given up. orphan: a run that saved *)
(* its parse has ended without storing the IR of it, and none has since.    *)
(* died: the owner of the lock crashed once.                                *)

(* A session works with the ASTs that parsing every file now would give,    *)
(* whatever mixture of sessions, crashes, evictions and edits wrote the     *)
(* cache (deps_unchanged and get_ast against record_file, cache_ast and the *)
(* content-addressed objects).                                              *)
CompileCurrent ==
  [][\A s \in Sessions : pc[s] = "opened" /\ pc'[s] = "saving"
       => sess'[s].work = [f \in Files |-> Parse(f)]]_vars

(* An IR that is reused is the IR of the sources the session has compiled   *)
(* (restore_elaborate_ir knows only the top's name).                        *)
IrFits(s) == sess[s].phase = "hit" => sess[s].ir = sess[s].work
IrAlwaysCurrent == \A s \in Sessions : IrFits(s)

(* The same, as long as every run that saves its parse stores its IR and    *)
(* runs do not overlap, crash or give up.                                   *)
IrCurrent == calm /\ ~orphan => IrAlwaysCurrent

(* After the save of a session that was alone, whatever was wrong with the  *)
(* directory before, a run on unchanged sources parses nothing: all that    *)
(* the metadata names is there (record_file, write_ast_objects, sweeps).    *)
WarmHit ==
  clean /\ Active = {} =>
    \A f \in Files : DepsUnchanged(f, Known[f]) => f \in Reusable(Known, Loaded)

(* Unless a writer died and left its lock, no two sessions are between      *)
(* their journal and its removal (acquire_write_lock).                      *)
Writing(s) == pc[s] \in {"renaming", "finishing"}
SoleWriter ==
  ~died => \A r, s \in Sessions : Writing(r) /\ Writing(s) => r = s
=============================================================================
