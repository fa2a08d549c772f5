----------------------------- MODULE MCPipeline -----------------------------
(* One container that is filled and got from, and one with room to spare   *)
(* that is only added to and used in a field; the tag of the first is the  *)
(* id of the second.                                                       *)
EXTENDS Pipeline

MCTrace == << [holder |-> 1, op |-> "add", size |-> 1, time |-> 3],
              [holder |-> 2, op |-> "add", size |-> 1, time |-> 1],
              [holder |-> 1, op |-> "get", size |-> 1, time |-> 4],
              [holder |-> 2, op |-> "use", size |-> 0, time |-> 5] >>
MCClassOf == <<0, 1>>
MCTag == <<2, 3>>
MCNewTime == <<0, 2>>
MCLoad == << [from |-> "NEW", no |-> 1], [from |-> "gc", no |-> 0],
             [from |-> "use", no |-> 4], [from |-> "NEW", no |-> 2] >>
MC_INIT_SIZE == <<1, 2>>
=============================================================================
