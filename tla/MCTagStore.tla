----------------------------- MODULE MCTagStore -----------------------------
(* Model-checking instance of TagStore: threads are interchangeable, and so *)
(* are objects.                                                             *)
EXTENDS TagStore, TLC

Symmetry == Permutations(Thread) \cup Permutations(Object)
=============================================================================
