----------------------------- MODULE MCAddrMap ------------------------------
(* Model-checking instance of AddrMap: objects are interchangeable.         *)
EXTENDS AddrMap, TLC

Symmetry == Permutations(Object)
=============================================================================
