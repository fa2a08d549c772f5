--------------------------- MODULE MCFieldValues ---------------------------
(* Model-checking instance of FieldValues: strings are interchangeable. *)
EXTENDS FieldValues

StrSymmetry == Permutations(Str)
=============================================================================
