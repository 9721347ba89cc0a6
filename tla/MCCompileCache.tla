--------------------------- MODULE MCCompileCache ---------------------------
(* Small instances of CompileCache for TLC.                                 *)
EXTENDS CompileCache, TLC

CONSTANTS f1, f2, h, t1, t2, s1, s2

MCFiles == {f1, f2}
MCSources == {f1, f2, h}
MCTexts == {t1, t2}
MCIncluding == {t1}
MCSessions == {s1, s2}
MCOneSession == {s1}
Symmetry == Permutations(MCFiles) \cup Permutations(MCSessions)
SymmetryFiles == Permutations(MCFiles)
=============================================================================
