------------------------------ MODULE TraceLog ------------------------------
(***************************************************************************)
(* What the per-thread trace files of CINST promise, without buffers, file *)
(* names or thread ids.  A record stream belongs to one thread and one     *)
(* record kind (NEW, Use, Map, ...).  Its records are numbered in the      *)
(* order of the add() calls, so a stream is two counters: how many records *)
(* were added and how many of them, always the first ones, are in a file.  *)
(***************************************************************************)
EXTENDS Naturals

CONSTANTS
  Thread,     \* threads of the traced JVM
  Kind,       \* record kinds, one Recorder and one file prefix each
  Limit       \* records a Recorder holds in memory

VARIABLES
  written,    \* written[t][k]: records thread t added to its stream k
  stored,     \* stored[t][k]: how many of them a reader finds on disk
  status      \* status[t]: unborn, running, exited or killed

logVars == <<written, stored, status>>

LogInit ==
  /\ written = [t \in Thread |-> [k \in Kind |-> 0]]
  /\ stored  = [t \in Thread |-> [k \in Kind |-> 0]]
  /\ status  = [t \in Thread |-> "unborn"]

Begin(t) ==
  /\ status[t] = "unborn"
  /\ status' = [status EXCEPT ![t] = "running"]
  /\ UNCHANGED <<written, stored>>

(***************************************************************************)
(* The threads whose stream k may vanish when t first stores records of    *)
(* that kind: at most one thread that has ended, because t was given its   *)
(* kernel id.  t itself stands for "none".                                 *)
(***************************************************************************)
MayLose(t, k) ==
  {t} \cup (IF stored[t][k] = 0 THEN {u \in Thread : status[u] = "exited"} ELSE {})

(***************************************************************************)
(* One more record.  Either nothing moves to disk, which is only allowed   *)
(* while fewer than Limit records are missing there, or everything added   *)
(* before this record does.                                                *)
(***************************************************************************)
Record(t, k) ==
  /\ status[t] = "running"
  /\ written' = [written EXCEPT ![t][k] = @ + 1]
  /\ \/ /\ written[t][k] - stored[t][k] < Limit
        /\ UNCHANGED stored
     \/ \E u \in MayLose(t, k) :
          stored' = [stored EXCEPT ![u][k] = 0, ![t][k] = written[t][k]]
  /\ UNCHANGED status

(***************************************************************************)
(* A thread that ends leaves nothing behind in memory.                     *)
(***************************************************************************)
Finish(t) ==
  /\ status[t] = "running"
  /\ \E lost \in [Kind -> Thread] :
       /\ \A k \in Kind : lost[k] \in MayLose(t, k)
       /\ stored' = [u \in Thread |->
                       IF u = t THEN written[t]
                       ELSE [k \in Kind |-> IF u = lost[k] THEN 0 ELSE stored[u][k]]]
  /\ status' = [status EXCEPT ![t] = "exited"]
  /\ UNCHANGED written

(***************************************************************************)
(* The process ends: whatever is not on disk is gone.                      *)
(***************************************************************************)
Kill ==
  /\ \E t \in Thread : status[t] \in {"unborn", "running"}
  /\ status' = [t \in Thread |-> IF status[t] = "exited" THEN "exited" ELSE "killed"]
  /\ UNCHANGED <<written, stored>>

LogNext ==
  \/ \E t \in Thread : Begin(t) \/ Finish(t)
  \/ \E t \in Thread, k \in Kind : Record(t, k)
  \/ Kill

LogSpec == LogInit /\ [][LogNext]_logVars
=============================================================================
