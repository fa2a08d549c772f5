------------------------------ MODULE Recorder ------------------------------
(***************************************************************************)
(* The template class Recorder<Record> of native/recorder.hpp and its use  *)
(* as thread_local objects in native/native.cpp.                           *)
(*                                                                         *)
(* Every thread owns one Recorder per record kind.  add() fills a buffer   *)
(* of Limit records, sync() writes it to data-<pid>/<prefix>-<tid>-<pid>,  *)
(* a file opened on the first sync with ios::out, which empties a file of  *)
(* that name left by an earlier thread with the same id.  The destructor,  *)
(* run when a thread ends, syncs what is left; the end of the process runs *)
(* no destructor of a thread that still lives.                             *)
(***************************************************************************)
EXTENDS Integers, Sequences

CONSTANTS
  Thread,     \* threads that ever run in the traced JVM
  Tid,        \* ids the kernel hands out; an id is free again after its thread
  NoTid,      \* "has no id yet"
  NoThread,   \* writer of a file that does not exist
  Kind,       \* record kinds: one Recorder and one file prefix each
  Limit,      \* LIMIT, records per buffer
  MaxAdds     \* bound: add() calls per thread and kind

ASSUME LimitAssumption   == Limit \in Nat \ {0}
ASSUME MaxAddsAssumption == MaxAdds \in Nat
ASSUME NoTidAssumption   == NoTid \notin Tid
ASSUME NoThreadAssumption == NoThread \notin Thread

VARIABLES
  status,     \* status[t]: unborn, running, exited or killed
  tid,        \* tid[t]: kernel id of thread t, _tid of its Recorders
  buffer,     \* buffer[t][k]: _buffer up to _pos
  fout,       \* fout[t][k]: the Recorder has opened its file
  file,       \* file[k][n]: the file <k>-<n>-<pid>: its writer and its records
  added       \* added[t][k]: add() calls so far; numbers the records

vars == <<status, tid, buffer, fout, file, added>>

(***************************************************************************)
(* The n-th record a thread adds to one of its streams.  Payloads are      *)
(* abstracted to this identity: the Recorder never looks at them.          *)
(***************************************************************************)
Rec(t, n) == <<t, n>>

(* Records a+1 .. b of thread t, in the order of the add() calls. *)
Recs(t, a, b) == [i \in 1..(b - a) |-> Rec(t, a + i)]

NoFile == [by |-> NoThread, recs |-> << >>]

Files == [by : Thread \cup {NoThread}, recs : Seq(Thread \X Nat)]

Init ==
  /\ status = [t \in Thread |-> "unborn"]
  /\ tid    = [t \in Thread |-> NoTid]
  /\ buffer = [t \in Thread |-> [k \in Kind |-> << >>]]
  /\ fout   = [t \in Thread |-> [k \in Kind |-> FALSE]]
  /\ file   = [k \in Kind |-> [n \in Tid |-> NoFile]]
  /\ added  = [t \in Thread |-> [k \in Kind |-> 0]]

Running(t) == status[t] = "running"

(* Slips a change to the class could make; each breaks a property below. *)
Synced_Appends(t, k) ==     \* opened with ios::app
  [by |-> t, recs |-> file[k][tid[t]].recs \o buffer[t][k]]

Synced_Reopens(t, k) ==     \* opened, and so emptied, by every sync
  [by |-> t, recs |-> buffer[t][k]]

(***************************************************************************)
(* The file after sync_bin: opened, and so emptied, on the first call, and *)
(* extended by the buffer.                                                 *)
(***************************************************************************)
Synced(t, k) ==
  [by   |-> t,
   recs |-> (IF fout[t][k] THEN file[k][tid[t]].recs ELSE << >>) \o buffer[t][k]]

Construct_NoTid(t, n) ==    \* _tid is never set
  /\ status[t] = "unborn"
  /\ status' = [status EXCEPT ![t] = "running"]
  /\ UNCHANGED <<tid, buffer, fout, file, added>>

(***************************************************************************)
(* A thread first uses a recorder: the thread_local objects are built with *)
(* the id the kernel gave it, any id no other running thread has.          *)
(***************************************************************************)
Construct(t, n) ==
  /\ status[t] = "unborn"
  /\ \A u \in Thread : Running(u) => tid[u] # n
  /\ status' = [status EXCEPT ![t] = "running"]
  /\ tid'    = [tid EXCEPT ![t] = n]
  /\ UNCHANGED <<buffer, fout, file, added>>

(* add() when the buffer is full: sync() comes first. *)
AddFull(t, k) ==
  /\ Len(buffer[t][k]) >= Limit
  /\ file'   = [file EXCEPT ![k][tid[t]] = Synced(t, k)]
  /\ fout'   = [fout EXCEPT ![t][k] = TRUE]
  /\ buffer' = [buffer EXCEPT ![t][k] = <<Rec(t, added[t][k] + 1)>>]

AddRoom_OffByOne(t, k) ==   \* _pos > LIMIT instead of _pos >= LIMIT
  /\ Len(buffer[t][k]) <= Limit
  /\ buffer' = [buffer EXCEPT ![t][k] = Append(@, Rec(t, added[t][k] + 1))]
  /\ UNCHANGED <<fout, file>>

(* add() when there is room. *)
AddRoom(t, k) ==
  /\ Len(buffer[t][k]) < Limit
  /\ buffer' = [buffer EXCEPT ![t][k] = Append(@, Rec(t, added[t][k] + 1))]
  /\ UNCHANGED <<fout, file>>

Add(t, k) ==
  /\ Running(t)
  /\ added[t][k] < MaxAdds
  /\ AddFull(t, k) \/ AddRoom(t, k)
  /\ added' = [added EXCEPT ![t][k] = @ + 1]
  /\ UNCHANGED <<status, tid>>

Destroy_OpenOnly(t) ==      \* the destructor syncs only what is already open
  /\ Running(t)
  /\ file' = [k \in Kind |->
                IF fout[t][k]
                THEN [file[k] EXCEPT ![tid[t]] = Synced(t, k)]
                ELSE file[k]]
  /\ buffer' = [buffer EXCEPT ![t] = [k \in Kind |-> << >>]]
  /\ fout'   = [fout EXCEPT ![t] = [k \in Kind |-> FALSE]]
  /\ status' = [status EXCEPT ![t] = "exited"]
  /\ UNCHANGED <<tid, added>>

(***************************************************************************)
(* The thread ends and its Recorders are destroyed: each one whose buffer  *)
(* is not empty syncs, every open file is closed.                          *)
(***************************************************************************)
Destroy(t) ==
  /\ Running(t)
  /\ file' = [k \in Kind |->
                IF buffer[t][k] # << >>
                THEN [file[k] EXCEPT ![tid[t]] = Synced(t, k)]
                ELSE file[k]]
  /\ buffer' = [buffer EXCEPT ![t] = [k \in Kind |-> << >>]]
  /\ fout'   = [fout EXCEPT ![t] = [k \in Kind |-> FALSE]]
  /\ status' = [status EXCEPT ![t] = "exited"]
  /\ UNCHANGED <<tid, added>>

(***************************************************************************)
(* The process ends (System.exit, a fatal signal) with threads running:    *)
(* their thread_local objects are never destroyed.                         *)
(***************************************************************************)
ProcessExit ==
  /\ \E t \in Thread : status[t] \in {"unborn", "running"}
  /\ status' = [t \in Thread |-> IF status[t] = "exited" THEN "exited" ELSE "killed"]
  /\ buffer' = [t \in Thread |-> [k \in Kind |-> << >>]]
  /\ fout'   = [t \in Thread |-> [k \in Kind |-> FALSE]]
  /\ UNCHANGED <<tid, file, added>>

Next ==
  \/ \E t \in Thread, n \in Tid : Construct(t, n)
  \/ \E t \in Thread, k \in Kind : Add(t, k)
  \/ \E t \in Thread : Destroy(t)
  \/ ProcessExit

Spec == Init /\ [][Next]_vars

-----------------------------------------------------------------------------

TypeOK ==
  /\ status \in [Thread -> {"unborn", "running", "exited", "killed"}]
  /\ tid \in [Thread -> Tid \cup {NoTid}]
  /\ \A t \in Thread : Running(t) => tid[t] \in Tid
  /\ buffer \in [Thread -> [Kind -> Seq(Thread \X Nat)]]
  /\ fout \in [Thread -> [Kind -> BOOLEAN]]
  /\ file \in [Kind -> [Tid -> Files]]
  /\ added \in [Thread -> [Kind -> Nat]]

(* The file of kind k that holds records of t, if it still does. *)
Owns(t, k) == tid[t] \in Tid /\ file[k][tid[t]].by = t

(* How many records of t a reader of the trace finds. *)
OnDisk(t, k) == IF Owns(t, k) THEN Len(file[k][tid[t]].recs) ELSE 0

(* How many records the Recorder of t has written since it opened its file. *)
Flushed(t, k) == IF fout[t][k] THEN Len(file[k][tid[t]].recs) ELSE 0

(***************************************************************************)
(* Safety: every trace file is the beginning of one thread's stream.  No   *)
(* record is missing in the middle, repeated, out of order or of another   *)
(* thread, however often sync() ran, whatever id reuse did, and whenever   *)
(* the process ended.                                                      *)
(***************************************************************************)
FilesArePrefixes ==
  \A k \in Kind, n \in Tid :
    file[k][n].by \in Thread =>
      LET t == file[k][n].by
          m == Len(file[k][n].recs)
      IN  m <= added[t][k] /\ file[k][n].recs = Recs(t, 0, m)

(***************************************************************************)
(* Safety: the records of a running thread are all in its file or in its   *)
(* buffer, in order, so a sync or a destructor never leaves a gap.         *)
(***************************************************************************)
NothingInBetween ==
  \A t \in Thread, k \in Kind :
    Running(t) =>
      /\ fout[t][k] => Owns(t, k)
      /\ Flushed(t, k) <= added[t][k]
      /\ buffer[t][k] = Recs(t, Flushed(t, k), added[t][k])

(***************************************************************************)
(* Safety: a thread that ended left its whole stream on disk, and the only *)
(* thing that can take it away is a later thread with the same kernel id   *)
(* that wrote records of the same kind.                                    *)
(***************************************************************************)
ExitedIsComplete ==
  \A t \in Thread, k \in Kind :
    status[t] = "exited" /\ added[t][k] > 0 =>
      \/ Owns(t, k) /\ file[k][tid[t]].recs = Recs(t, 0, added[t][k])
      \/ \E u \in Thread \ {t} : Owns(u, k) /\ tid[u] = tid[t]

(***************************************************************************)
(* Safety: the end of the process costs a running thread at most one       *)
(* buffer of records per kind.                                             *)
(***************************************************************************)
LossBounded ==
  \A t \in Thread, k \in Kind :
    status[t] \in {"running", "killed"} => added[t][k] - OnDisk(t, k) <= Limit

(***************************************************************************)
(* The inductive invariant behind the four: they only hold together, with  *)
(* the kernel's promise that running threads have different ids (nobody    *)
(* truncates or extends a file of a running thread), the bound on _pos     *)
(* that keeps _buffer[_pos++] inside the array, and what a thread looks    *)
(* like before it starts and after the process is gone.                    *)
(***************************************************************************)
DistinctTids ==
  \A t, u \in Thread : Running(t) /\ Running(u) /\ tid[t] = tid[u] => t = u

BufferBounded ==
  \A t \in Thread, k \in Kind : Len(buffer[t][k]) <= Limit

FreshThreads ==
  \A t \in Thread : status[t] = "unborn" =>
    /\ tid[t] = NoTid
    /\ \A k \in Kind : ~fout[t][k] /\ buffer[t][k] = << >> /\ added[t][k] = 0

ProcessGone ==
  (\E t \in Thread : status[t] = "killed") =>
    \A t \in Thread : status[t] \in {"killed", "exited"}

IInv ==
  /\ TypeOK
  /\ DistinctTids
  /\ BufferBounded
  /\ FreshThreads
  /\ ProcessGone
  /\ FilesArePrefixes
  /\ NothingInBetween
  /\ ExitedIsComplete
  /\ LossBounded

(* The writer of a file has at most added records to it. *)
Grows(old, new) ==
  new.by = old.by =>
    /\ Len(old.recs) <= Len(new.recs)
    /\ \A i \in 1..Len(old.recs) : new.recs[i] = old.recs[i]

(***************************************************************************)
(* Action property: bytes in a trace file are never rewritten by the       *)
(* thread that wrote them; a file is only extended, or taken over by       *)
(* another thread.                                                         *)
(***************************************************************************)
FilesOnlyGrow ==
  [][\A k \in Kind, n \in Tid : Grows(file[k][n], file'[k][n])]_vars

(***************************************************************************)
(* Refinement: the buffers and files implement TraceLog.                   *)
(***************************************************************************)
Log == INSTANCE TraceLog WITH
  written <- added,
  stored  <- [t \in Thread |-> [k \in Kind |-> OnDisk(t, k)]],
  status  <- status

ImplementsTraceLog == Log!LogSpec

=============================================================================
