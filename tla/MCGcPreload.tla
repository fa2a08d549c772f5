---------------------------- MODULE MCGcPreload -----------------------------
(* Model-checking instance of GcPreload: the workers are interchangeable.   *)
EXTENDS GcPreload, TLC

Symmetry == Permutations(Worker)
=============================================================================
