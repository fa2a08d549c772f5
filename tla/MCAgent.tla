------------------------------ MODULE MCAgent -------------------------------
(* Model-checking instance of Agent: a and b are classes of one name from  *)
(* two loaders, c has a name of its own; the cfg makes a a class the       *)
(* server leaves alone and b one that is not modifiable.                   *)
EXTENDS Agent, TLC

CONSTANTS a, b, c

NameOfClass(x) == IF x = b THEN a ELSE x
=============================================================================
