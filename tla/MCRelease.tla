----------------------------- MODULE MCRelease -----------------------------
(* A library and one that links it, for TLC.                               *)
EXTENDS Release, TLC

MCDependsOn == [d \in Dep |-> IF d = "opusfile" THEN Dep \ {d} ELSE {}]

\* Runs are alike, and so are the contents of a recipe.
MCSymmetry == Permutations(Run) \cup Permutations(Content)
=============================================================================
