---------------------------- MODULE MCOmtScheduler ----------------------------
(***************************************************************************)
(* OmtScheduler for TLC: every plan over the given tasks is an initial     *)
(* state, up to renaming of the tasks.                                     *)
(***************************************************************************)
EXTENDS OmtScheduler, TLC

CONSTANTS a, b, c

TwoTasks   == {a, b}
ThreeTasks == {a, b, c}

Symmetry2 == Permutations(TwoTasks)
Symmetry3 == Permutations(ThreeTasks)

SymmetryD == Permutations(TwoTasks) \cup Permutations(Detector)
=============================================================================
