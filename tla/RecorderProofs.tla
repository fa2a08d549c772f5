--------------------------- MODULE RecorderProofs ---------------------------
(***************************************************************************)
(* Proofs about Recorder, for every set of threads, ids and kinds, every   *)
(* buffer size and any number of records.                                  *)
(***************************************************************************)
EXTENDS Recorder, SequenceTheorems, TLAPS

-----------------------------------------------------------------------------
(* Numbered records *)

(* An interval from 1 determines its upper end. *)
LEMMA IntervalEnd ==
  ASSUME NEW m \in Nat, NEW n \in Nat, 1..m = 1..n
  PROVE  m = n
<1>1. m > 0 => m <= n
  <2>1. m > 0 => m \in 1..n
    OBVIOUS
  <2>. QED
    BY <2>1
<1>2. n > 0 => n <= m
  <2>1. n > 0 => n \in 1..m
    OBVIOUS
  <2>. QED
    BY <2>1
<1>. QED
  BY <1>1, <1>2

(* The records a+1..b of a thread form a sequence of b-a records. *)
LEMMA RecsType ==
  ASSUME NEW t \in Thread, NEW a \in Nat, NEW b \in Nat, a <= b
  PROVE  /\ Recs(t, a, b) \in Seq(Thread \X Nat)
         /\ Len(Recs(t, a, b)) = b - a
         /\ \A i \in 1..(b - a) : Recs(t, a, b)[i] = Rec(t, a + i)
<1>1. b - a \in Nat
  OBVIOUS
<1>2. Recs(t, a, b) \in [1..(b - a) -> Thread \X Nat]
  BY DEF Recs, Rec
<1>3. Recs(t, a, b) \in Seq(Thread \X Nat)
  BY <1>1, <1>2, SeqDef
<1>4. DOMAIN Recs(t, a, b) = 1..(b - a)
  BY DEF Recs
<1>5. Len(Recs(t, a, b)) = b - a
  <2>1. /\ Len(Recs(t, a, b)) \in Nat
        /\ DOMAIN Recs(t, a, b) = 1..Len(Recs(t, a, b))
    BY <1>3, LenProperties
  <2>. QED
    BY <2>1, <1>1, <1>4, IntervalEnd
<1>6. \A i \in 1..(b - a) : Recs(t, a, b)[i] = Rec(t, a + i)
  BY DEF Recs
<1>. QED
  BY <1>3, <1>5, <1>6

(* What sync() appends continues what is in the file. *)
LEMMA RecsConcat ==
  ASSUME NEW t \in Thread, NEW a \in Nat, NEW b \in Nat, a <= b
  PROVE  Recs(t, 0, a) \o Recs(t, a, b) = Recs(t, 0, b)
<1>. DEFINE s == Recs(t, 0, a)
            u == Recs(t, a, b)
            v == Recs(t, 0, b)
<1>1. /\ s \in Seq(Thread \X Nat) /\ Len(s) = a
      /\ u \in Seq(Thread \X Nat) /\ Len(u) = b - a
      /\ v \in Seq(Thread \X Nat) /\ Len(v) = b
  <2>0. 0 \in Nat /\ 0 <= a /\ 0 <= b
    OBVIOUS
  <2>1. s \in Seq(Thread \X Nat) /\ Len(s) = a - 0
    BY <2>0, RecsType, Zenon
  <2>2. u \in Seq(Thread \X Nat) /\ Len(u) = b - a
    BY RecsType, Zenon
  <2>3. v \in Seq(Thread \X Nat) /\ Len(v) = b - 0
    BY <2>0, RecsType, Zenon
  <2>. QED
    BY <2>1, <2>2, <2>3
<1>2. /\ \A i \in 1..a : s[i] = Rec(t, i)
      /\ \A i \in 1..(b - a) : u[i] = Rec(t, a + i)
      /\ \A i \in 1..b : v[i] = Rec(t, i)
  BY DEF Recs
<1>. HIDE DEF s, u, v
<1>3. /\ s \o u \in Seq(Thread \X Nat)
      /\ Len(s \o u) = b
      /\ \A i \in 1..b : (s \o u)[i] = IF i <= a THEN s[i] ELSE u[i - a]
  BY <1>1, ConcatProperties
<1>4. \A i \in 1..b : (s \o u)[i] = v[i]
  <2>. TAKE i \in 1..b
  <2>1. CASE i <= a
    <3>1. i \in 1..a
      BY <2>1
    <3>2. (s \o u)[i] = s[i]
      BY <2>1, <1>3
    <3>. QED
      BY <3>1, <3>2, <1>2
  <2>2. CASE ~(i <= a)
    <3>1. i - a \in 1..(b - a) /\ a + (i - a) = i
      BY <2>2
    <3>2. (s \o u)[i] = u[i - a]
      BY <2>2, <1>3
    <3>3. u[i - a] = Rec(t, i)
      BY <3>1, <1>2
    <3>. QED
      BY <3>2, <3>3, <1>2
  <2>. QED
    BY <2>1, <2>2
<1>. QED
  BY <1>1, <1>3, <1>4, SeqEqual DEF s, u, v

(* A record added to a buffer with room. *)
LEMMA RecsAppend ==
  ASSUME NEW t \in Thread, NEW a \in Nat, NEW b \in Nat, a <= b
  PROVE  Append(Recs(t, a, b), Rec(t, b + 1)) = Recs(t, a, b + 1)
<1>. DEFINE s == Recs(t, a, b)
            v == Recs(t, a, b + 1)
            r == Rec(t, b + 1)
<1>1. /\ s \in Seq(Thread \X Nat) /\ Len(s) = b - a
      /\ v \in Seq(Thread \X Nat) /\ Len(v) = b + 1 - a
      /\ r \in Thread \X Nat
  <2>1. s \in Seq(Thread \X Nat) /\ Len(s) = b - a
    BY RecsType, Zenon
  <2>2. b + 1 \in Nat /\ a <= b + 1
    OBVIOUS
  <2>3. v \in Seq(Thread \X Nat) /\ Len(v) = (b + 1) - a
    BY <2>2, RecsType, Zenon
  <2>. QED
    BY <2>1, <2>3 DEF Rec
<1>2. /\ \A i \in 1..(b - a) : s[i] = Rec(t, a + i)
      /\ \A i \in 1..(b + 1 - a) : v[i] = Rec(t, a + i)
      /\ r = Rec(t, a + (b + 1 - a))
  BY DEF Recs
<1>. HIDE DEF s, v, r
<1>3. /\ Append(s, r) \in Seq(Thread \X Nat)
      /\ Len(Append(s, r)) = b + 1 - a
      /\ \A i \in 1..(b - a) : Append(s, r)[i] = s[i]
      /\ Append(s, r)[b + 1 - a] = r
  BY <1>1
<1>4. \A i \in 1..(b + 1 - a) : Append(s, r)[i] = v[i]
  <2>. TAKE i \in 1..(b + 1 - a)
  <2>1. CASE i \in 1..(b - a)
    <3>1. Append(s, r)[i] = s[i] /\ s[i] = Rec(t, a + i)
      BY <2>1, <1>2, <1>3
    <3>. QED
      BY <3>1, <1>2
  <2>2. CASE i \notin 1..(b - a)
    <3>0. i = b + 1 - a
      BY <2>2
    <3>1. Append(s, r)[i] = Rec(t, a + i)
      BY <3>0, <1>2, <1>3
    <3>. QED
      BY <3>1, <1>2
  <2>. QED
    BY <2>1, <2>2
<1>. QED
  BY <1>1, <1>3, <1>4, SeqEqual DEF s, v, r

(* No records, and a single one. *)
LEMMA RecsSmall ==
  ASSUME NEW t \in Thread, NEW a \in Nat
  PROVE  /\ Recs(t, a, a) = << >>
         /\ Recs(t, a, a + 1) = <<Rec(t, a + 1)>>
<1>1. Recs(t, a, a) = << >>
  BY RecsType, EmptySeq
<1>2. Append(Recs(t, a, a), Rec(t, a + 1)) = Recs(t, a, a + 1)
  BY RecsAppend
<1>. QED
  BY <1>1, <1>2

-----------------------------------------------------------------------------
(* What sync() writes *)

(* The file that holds the whole stream k of t. *)
Full(t, k) == [by |-> t, recs |-> Recs(t, 0, added[t][k])]

(* After sync() the file of a running thread holds all it has added. *)
LEMMA SyncWritesAll ==
  ASSUME IInv, NEW t \in Thread, NEW k \in Kind, Running(t)
  PROVE  Synced(t, k) = Full(t, k)
<1>. DEFINE b == added[t][k]
            m == IF fout[t][k] THEN Len(file[k][tid[t]].recs) ELSE 0
<1>1. /\ fout[t][k] => Owns(t, k)
      /\ m <= b
      /\ buffer[t][k] = Recs(t, m, b)
  BY DEF IInv, NothingInBetween, Flushed
<1>2. tid[t] \in Tid /\ b \in Nat /\ file[k][tid[t]] \in Files
  BY DEF IInv, TypeOK
<1>3. CASE fout[t][k]
  <2>1. file[k][tid[t]].by = t
    BY <1>1, <1>3 DEF Owns
  <2>2. file[k][tid[t]].recs = Recs(t, 0, m)
    BY <2>1, <1>2, <1>3 DEF IInv, FilesArePrefixes
  <2>3. m \in Nat
    BY <1>2, <1>3, LenProperties DEF Files
  <2>4. Recs(t, 0, m) \o Recs(t, m, b) = Recs(t, 0, b)
    BY <2>3, <1>1, <1>2, RecsConcat, Zenon
  <2>. QED
    BY <2>2, <2>4, <1>1, <1>3 DEF Synced, Full
<1>4. CASE ~fout[t][k]
  <2>1. buffer[t][k] = Recs(t, 0, b)
    BY <1>1, <1>4
  <2>2. buffer[t][k] \in Seq(Thread \X Nat)
    BY DEF IInv, TypeOK
  <2>3. << >> \o buffer[t][k] = buffer[t][k]
    BY <2>2, ConcatEmptySeq
  <2>. QED
    BY <2>1, <2>3, <1>4 DEF Synced, Full
<1>. QED
  BY <1>3, <1>4

(* ... and it has the right type and length. *)
LEMMA FullType ==
  ASSUME TypeOK, NEW t \in Thread, NEW k \in Kind
  PROVE  /\ Full(t, k) \in Files
         /\ Full(t, k).by = t
         /\ Full(t, k).recs = Recs(t, 0, added[t][k])
         /\ Len(Full(t, k).recs) = added[t][k]
<1>1. added[t][k] \in Nat /\ 0 \in Nat /\ 0 <= added[t][k]
  BY DEF TypeOK
<1>2. /\ Recs(t, 0, added[t][k]) \in Seq(Thread \X Nat)
      /\ Len(Recs(t, 0, added[t][k])) = added[t][k] - 0
  BY <1>1, RecsType, Zenon
<1>. QED
  BY <1>1, <1>2 DEF Full, Files

-----------------------------------------------------------------------------
(* Steps that write files *)

(* Thread t writes its whole stream into its files of the kinds W. *)
Writes(t, W) ==
  /\ file' \in [Kind -> [Tid -> Files]]
  /\ \A k \in Kind, n \in Tid :
       file'[k][n] = IF k \in W /\ n = tid[t] THEN Full(t, k) ELSE file[k][n]

(* add() on a full buffer writes the file of its kind. *)
LEMMA AddFullWrites ==
  ASSUME IInv, NEW t \in Thread, NEW k \in Kind, Running(t), AddFull(t, k)
  PROVE  Writes(t, {k})
<1>1. Synced(t, k) = Full(t, k)
  BY SyncWritesAll
<1>2. Full(t, k) \in Files /\ tid[t] \in Tid
  BY FullType DEF IInv, TypeOK
<1>3. file \in [Kind -> [Tid -> Files]]
  BY DEF IInv, TypeOK
<1>4. file' = [file EXCEPT ![k][tid[t]] = Full(t, k)]
  BY <1>1 DEF AddFull
<1>. QED
  BY <1>2, <1>3, <1>4 DEF Writes

(* The destructors write the files of the kinds with a non-empty buffer. *)
LEMMA DestroyWrites ==
  ASSUME IInv, NEW t \in Thread, Destroy(t)
  PROVE  Writes(t, {k \in Kind : buffer[t][k] # << >>})
<1>0. Running(t)
  BY DEF Destroy
<1>1. \A k \in Kind : Synced(t, k) = Full(t, k)
  BY <1>0, SyncWritesAll
<1>2. tid[t] \in Tid /\ \A k \in Kind : Full(t, k) \in Files
  BY <1>0, FullType DEF IInv, TypeOK
<1>3. file \in [Kind -> [Tid -> Files]]
  BY DEF IInv, TypeOK
<1>4. file' = [k \in Kind |-> IF buffer[t][k] # << >>
                              THEN [file[k] EXCEPT ![tid[t]] = Full(t, k)]
                              ELSE file[k]]
  BY <1>1 DEF Destroy
<1>. QED
  BY <1>2, <1>3, <1>4 DEF Writes

(* Such a step keeps every file the beginning of one stream. *)
LEMMA WritesPrefixes ==
  ASSUME IInv, NEW t \in Thread, NEW W \in SUBSET Kind, Writes(t, W),
         added' \in [Thread -> [Kind -> Nat]],
         \A u \in Thread, k \in Kind : added[u][k] <= added'[u][k]
  PROVE  FilesArePrefixes'
<1>. SUFFICES ASSUME NEW k \in Kind, NEW n \in Tid, file'[k][n].by \in Thread
              PROVE  LET u == file'[k][n].by
                         m == Len(file'[k][n].recs)
                     IN  m <= added'[u][k] /\ file'[k][n].recs = Recs(u, 0, m)
  BY DEF FilesArePrefixes
<1>1. CASE k \in W /\ n = tid[t]
  <2>1. file'[k][n] = Full(t, k)
    BY <1>1 DEF Writes
  <2>2. added[t][k] <= added'[t][k]
    OBVIOUS
  <2>. QED
    BY <2>1, <2>2, FullType DEF IInv
<1>2. CASE ~(k \in W /\ n = tid[t])
  <2>1. file'[k][n] = file[k][n]
    BY <1>2 DEF Writes
  <2>. DEFINE u == file[k][n].by
              m == Len(file[k][n].recs)
  <2>2. u \in Thread /\ m <= added[u][k] /\ file[k][n].recs = Recs(u, 0, m)
    BY <2>1 DEF IInv, FilesArePrefixes
  <2>3. m \in Nat /\ added[u][k] \in Nat /\ added'[u][k] \in Nat
    BY <2>2, LenProperties DEF IInv, TypeOK, Files
  <2>4. added[u][k] <= added'[u][k]
    BY <2>2
  <2>5. m <= added'[u][k]
    BY <2>2, <2>3, <2>4
  <2>. QED
    BY <2>1, <2>2, <2>5
<1>. QED
  BY <1>1, <1>2

(* It can cost an ended thread its file only to the thread that writes. *)
LEMMA WritesExited ==
  ASSUME IInv, NEW t \in Thread, NEW W \in SUBSET Kind, Writes(t, W),
         Running(t), tid' = tid,
         NEW u \in Thread, u # t, NEW k \in Kind,
         status[u] = "exited", added[u][k] > 0, added'[u][k] = added[u][k]
  PROVE  \/ Owns(u, k)' /\ file'[k][tid[u]].recs = Recs(u, 0, added'[u][k])
         \/ \E v \in Thread \ {u} : Owns(v, k)' /\ tid'[v] = tid'[u]
<1>1. \/ Owns(u, k) /\ file[k][tid[u]].recs = Recs(u, 0, added[u][k])
      \/ \E v \in Thread \ {u} : Owns(v, k) /\ tid[v] = tid[u]
  BY DEF IInv, ExitedIsComplete
<1>2. tid[u] \in Tid
  BY <1>1 DEF Owns
<1>3. CASE k \in W /\ tid[u] = tid[t]
  <2>1. file'[k][tid[t]] = Full(t, k)
    BY <1>2, <1>3 DEF Writes
  <2>2. Owns(t, k)' /\ tid'[t] = tid'[u]
    BY <2>1, <1>2, <1>3, FullType DEF Owns, IInv
  <2>. QED
    BY <2>2
<1>4. CASE ~(k \in W /\ tid[u] = tid[t])
  <2>1. file'[k][tid[u]] = file[k][tid[u]]
    BY <1>2, <1>4 DEF Writes
  <2>. QED
    BY <1>1, <2>1 DEF Owns
<1>. QED
  BY <1>3, <1>4

-----------------------------------------------------------------------------
(* The inductive invariant, action by action *)

(* It holds before the first thread starts. *)
LEMMA InitIInv == Init => IInv
<1>. SUFFICES ASSUME Init PROVE IInv
  OBVIOUS
<1>. USE DEF Init
<1>1. TypeOK
  <2>1. << >> \in Seq(Thread \X Nat)
    BY EmptySeq
  <2>2. NoFile \in Files
    BY <2>1 DEF NoFile, Files
  <2>. QED
    BY <2>1, <2>2 DEF TypeOK, Running
<1>2. DistinctTids /\ FreshThreads /\ ProcessGone /\ NothingInBetween /\ ExitedIsComplete
  BY DEF DistinctTids, FreshThreads, ProcessGone, NothingInBetween, ExitedIsComplete, Running
<1>3. BufferBounded
  BY LimitAssumption, EmptySeq DEF BufferBounded
<1>4. FilesArePrefixes
  BY NoThreadAssumption DEF FilesArePrefixes, NoFile
<1>5. LossBounded
  BY DEF LossBounded
<1>. QED
  BY <1>1, <1>2, <1>3, <1>4, <1>5 DEF IInv

(* A thread starts: it has no file yet, whoever had its id before. *)
LEMMA ConstructIInv ==
  ASSUME IInv, NEW t \in Thread, NEW n \in Tid, Construct(t, n)
  PROVE  IInv'
<1>. USE DEF Construct, Running
<1>0. /\ status[t] = "unborn" /\ tid[t] = NoTid
      /\ \A k \in Kind : ~fout[t][k] /\ buffer[t][k] = << >> /\ added[t][k] = 0
  BY DEF IInv, FreshThreads
<1>1. TypeOK'
  BY DEF IInv, TypeOK
<1>2. DistinctTids'
  BY DEF IInv, TypeOK, DistinctTids
<1>3. BufferBounded'
  BY DEF IInv, BufferBounded
<1>4. FreshThreads'
  BY DEF IInv, TypeOK, FreshThreads
<1>5. ProcessGone'
  BY DEF IInv, TypeOK, ProcessGone
<1>6. FilesArePrefixes'
  BY DEF IInv, FilesArePrefixes
<1>7. NothingInBetween'
  <2>. SUFFICES ASSUME NEW u \in Thread, NEW k \in Kind, Running(u)'
                PROVE  /\ fout[u][k] => Owns(u, k)'
                       /\ Flushed(u, k)' <= added[u][k]
                       /\ buffer[u][k] = Recs(u, Flushed(u, k)', added[u][k])
    BY DEF NothingInBetween
  <2>1. CASE u = t
    <3>1. Flushed(u, k)' = 0
      BY <2>1, <1>0 DEF Flushed
    <3>. QED
      BY <3>1, <2>1, <1>0, RecsSmall
  <2>2. CASE u # t
    <3>1. Running(u) /\ tid'[u] = tid[u]
      BY <2>2 DEF IInv, TypeOK
    <3>2. (Owns(u, k)' <=> Owns(u, k)) /\ Flushed(u, k)' = Flushed(u, k)
      BY <3>1 DEF Owns, Flushed
    <3>. QED
      BY <3>1, <3>2 DEF IInv, NothingInBetween
  <2>. QED
    BY <2>1, <2>2
<1>8. ExitedIsComplete'
  <2>1. \A u \in Thread : status'[u] = "exited" => status[u] = "exited" /\ u # t
    BY DEF IInv, TypeOK
  <2>2. \A u \in Thread : u # t => tid'[u] = tid[u]
    BY DEF IInv, TypeOK
  <2>3. \A u \in Thread, k \in Kind : u # t => (Owns(u, k)' <=> Owns(u, k))
    BY <2>2 DEF Owns
  <2>4. \A k \in Kind : ~Owns(t, k)
    BY <1>0, NoTidAssumption DEF Owns
  <2>. QED
    BY <2>1, <2>2, <2>3, <2>4 DEF IInv, ExitedIsComplete
<1>9. LossBounded'
  <2>. SUFFICES ASSUME NEW u \in Thread, NEW k \in Kind,
                       status'[u] \in {"running", "killed"}
                PROVE  added[u][k] - OnDisk(u, k)' <= Limit
    BY DEF LossBounded
  <2>1. CASE u = t
    <3>1. OnDisk(u, k)' \in Nat
      BY LenProperties DEF IInv, TypeOK, OnDisk, Owns, Files
    <3>. QED
      BY <3>1, <2>1, <1>0, LimitAssumption
  <2>2. CASE u # t
    <3>1. tid'[u] = tid[u] /\ status'[u] = status[u]
      BY <2>2 DEF IInv, TypeOK
    <3>2. OnDisk(u, k)' = OnDisk(u, k)
      BY <3>1 DEF OnDisk, Owns
    <3>. QED
      BY <3>1, <3>2 DEF IInv, LossBounded
  <2>. QED
    BY <2>1, <2>2
<1>. QED
  BY <1>1, <1>2, <1>3, <1>4, <1>5, <1>6, <1>7, <1>8, <1>9 DEF IInv

(* The process ends: what was on disk stays there. *)
LEMMA ProcessExitIInv ==
  ASSUME IInv, ProcessExit
  PROVE  IInv'
<1>. USE DEF ProcessExit, Running
<1>0. \A t \in Thread : status'[t] \in {"killed", "exited"}
  OBVIOUS
<1>1. TypeOK'
  <2>1. << >> \in Seq(Thread \X Nat)
    BY EmptySeq
  <2>. QED
    BY <2>1, <1>0 DEF IInv, TypeOK
<1>2. DistinctTids' /\ FreshThreads' /\ ProcessGone' /\ NothingInBetween'
  BY <1>0 DEF DistinctTids, FreshThreads, ProcessGone, NothingInBetween
<1>3. BufferBounded'
  BY LimitAssumption, EmptySeq DEF BufferBounded
<1>4. FilesArePrefixes'
  BY DEF IInv, FilesArePrefixes
<1>5. ExitedIsComplete'
  <2>1. \A u \in Thread : status'[u] = "exited" => status[u] = "exited"
    OBVIOUS
  <2>2. \A u \in Thread, k \in Kind : Owns(u, k)' <=> Owns(u, k)
    BY DEF Owns
  <2>. QED
    BY <2>1, <2>2 DEF IInv, ExitedIsComplete
<1>6. LossBounded'
  <2>. SUFFICES ASSUME NEW u \in Thread, NEW k \in Kind, status[u] # "exited"
                PROVE  added[u][k] - OnDisk(u, k) <= Limit
    <3>1. \A u \in Thread, k \in Kind : OnDisk(u, k)' = OnDisk(u, k)
      BY DEF OnDisk, Owns
    <3>. QED
      BY <3>1 DEF LossBounded
  <2>1. CASE status[u] = "unborn"
    <3>1. added[u][k] = 0 /\ OnDisk(u, k) = 0
      BY <2>1, NoTidAssumption DEF IInv, FreshThreads, OnDisk, Owns
    <3>. QED
      BY <3>1, LimitAssumption
  <2>2. CASE status[u] # "unborn"
    BY <2>2 DEF IInv, TypeOK, LossBounded
  <2>. QED
    BY <2>1, <2>2
<1>. QED
  BY <1>1, <1>2, <1>3, <1>4, <1>5, <1>6 DEF IInv

(* What NothingInBetween says of a running thread, with its numbers. *)
LEMMA Split ==
  ASSUME IInv, NEW t \in Thread, NEW k \in Kind, Running(t)
  PROVE  /\ tid[t] \in Tid /\ added[t][k] \in Nat
         /\ Flushed(t, k) \in Nat /\ Flushed(t, k) <= added[t][k]
         /\ fout[t][k] => Owns(t, k)
         /\ buffer[t][k] = Recs(t, Flushed(t, k), added[t][k])
         /\ Len(buffer[t][k]) = added[t][k] - Flushed(t, k)
<1>1. tid[t] \in Tid /\ added[t][k] \in Nat /\ file[k][tid[t]] \in Files
  BY DEF IInv, TypeOK
<1>2. Flushed(t, k) \in Nat
  BY <1>1, LenProperties DEF Files, Flushed
<1>3. /\ fout[t][k] => Owns(t, k)
      /\ Flushed(t, k) <= added[t][k]
      /\ buffer[t][k] = Recs(t, Flushed(t, k), added[t][k])
  BY DEF IInv, NothingInBetween
<1>4. Len(Recs(t, Flushed(t, k), added[t][k])) = added[t][k] - Flushed(t, k)
  BY <1>1, <1>2, <1>3, RecsType, Zenon
<1>. QED
  BY <1>1, <1>2, <1>3, <1>4

(* A running thread and one that is running or killed have different ids. *)
LEMMA OthersUntouched ==
  ASSUME IInv, NEW t \in Thread, Running(t), NEW u \in Thread, u # t,
         status[u] \in {"running", "killed"}
  PROVE  Running(u) /\ tid[u] # tid[t]
<1>1. status[u] # "killed"
  BY DEF IInv, ProcessGone, Running
<1>. QED
  BY <1>1 DEF IInv, DistinctTids, Running

(* What add() leaves alone, and the types of what it changes. *)
LEMMA AddFrame ==
  ASSUME IInv, NEW t \in Thread, NEW k \in Kind, Add(t, k)
  PROVE  /\ Running(t) /\ status' = status /\ tid' = tid
         /\ added' \in [Thread -> [Kind -> Nat]]
         /\ fout' \in [Thread -> [Kind -> BOOLEAN]]
         /\ buffer' \in [Thread -> [Kind -> Seq(Thread \X Nat)]]
         /\ added'[t][k] = added[t][k] + 1
         /\ \A u \in Thread, l \in Kind : u # t \/ l # k =>
              /\ added'[u][l] = added[u][l]
              /\ fout'[u][l] = fout[u][l]
              /\ buffer'[u][l] = buffer[u][l]
<1>1. Running(t) /\ status' = status /\ tid' = tid
  BY DEF Add
<1>2. /\ added' \in [Thread -> [Kind -> Nat]]
      /\ added'[t][k] = added[t][k] + 1
      /\ \A u \in Thread, l \in Kind : u # t \/ l # k => added'[u][l] = added[u][l]
  BY DEF Add, IInv, TypeOK
<1>3. Rec(t, added[t][k] + 1) \in Thread \X Nat
  BY DEF Rec, IInv, TypeOK
<1>4. /\ fout' \in [Thread -> [Kind -> BOOLEAN]]
      /\ \A u \in Thread, l \in Kind : u # t \/ l # k => fout'[u][l] = fout[u][l]
  <2>0. fout \in [Thread -> [Kind -> BOOLEAN]]
    BY DEF IInv, TypeOK
  <2>1. CASE fout' = fout
    BY <2>0, <2>1
  <2>2. CASE fout' = [fout EXCEPT ![t][k] = TRUE]
    <3>1. fout' \in [Thread -> [Kind -> BOOLEAN]]
      BY <2>0, <2>2
    <3>2. \A u \in Thread, l \in Kind : u # t \/ l # k => fout'[u][l] = fout[u][l]
      BY <2>0, <2>2
    <3>. QED
      BY <3>1, <3>2
  <2>. QED
    BY <2>1, <2>2 DEF Add, AddFull, AddRoom
<1>5. /\ buffer' \in [Thread -> [Kind -> Seq(Thread \X Nat)]]
      /\ \A u \in Thread, l \in Kind : u # t \/ l # k => buffer'[u][l] = buffer[u][l]
  <2>0. buffer \in [Thread -> [Kind -> Seq(Thread \X Nat)]]
    BY DEF IInv, TypeOK
  <2>1. CASE AddFull(t, k)
    <3>1. <<Rec(t, added[t][k] + 1)>> \in Seq(Thread \X Nat)
      BY <1>3
    <3>. QED
      BY <2>0, <2>1, <3>1 DEF AddFull
  <2>2. CASE AddRoom(t, k)
    <3>1. Append(buffer[t][k], Rec(t, added[t][k] + 1)) \in Seq(Thread \X Nat)
      BY <1>3, <2>0
    <3>. QED
      BY <2>0, <2>2, <3>1 DEF AddRoom
  <2>. QED
    BY <2>1, <2>2 DEF Add
<1>. QED
  BY <1>1, <1>2, <1>4, <1>5

(* The new split of the stream between file and buffer. *)
LEMMA AddSplit ==
  ASSUME IInv, NEW t \in Thread, NEW k \in Kind, Add(t, k)
  PROVE  /\ \E W \in SUBSET {k} : Writes(t, W)
         /\ fout'[t][k] => Owns(t, k)'
         /\ Flushed(t, k)' \in Nat
         /\ Flushed(t, k)' <= added[t][k]
         /\ buffer'[t][k] = Recs(t, Flushed(t, k)', added[t][k] + 1)
         /\ added[t][k] + 1 - Flushed(t, k)' <= Limit
<1>0. Running(t) /\ tid' = tid /\ buffer \in [Thread -> [Kind -> Seq(Thread \X Nat)]]
      /\ fout \in [Thread -> [Kind -> BOOLEAN]]
  BY AddFrame DEF IInv, TypeOK
<1>1. /\ tid[t] \in Tid /\ added[t][k] \in Nat
      /\ Flushed(t, k) \in Nat /\ Flushed(t, k) <= added[t][k]
      /\ fout[t][k] => Owns(t, k)
      /\ buffer[t][k] = Recs(t, Flushed(t, k), added[t][k])
      /\ Len(buffer[t][k]) = added[t][k] - Flushed(t, k)
  BY <1>0, Split, Zenon
<1>2. CASE AddFull(t, k)
  <2>1. Writes(t, {k})
    BY <1>0, <1>2, AddFullWrites
  <2>2. file'[k][tid[t]] = Full(t, k)
    BY <2>1, <1>1 DEF Writes
  <2>3. fout'[t][k]
    BY <1>0, <1>2 DEF AddFull
  <2>4. Len(file'[k][tid[t]].recs) = added[t][k] /\ file'[k][tid[t]].by = t
    BY <2>2, FullType DEF IInv
  <2>5. Flushed(t, k)' = added[t][k] /\ Owns(t, k)'
    BY <2>3, <2>4, <1>0, <1>1 DEF Flushed, Owns
  <2>6. buffer'[t][k] = <<Rec(t, added[t][k] + 1)>>
    BY <1>0, <1>2 DEF AddFull
  <2>7. <<Rec(t, added[t][k] + 1)>> = Recs(t, added[t][k], added[t][k] + 1)
    BY <1>1, RecsSmall, Zenon
  <2>8. added[t][k] + 1 - added[t][k] <= Limit
    BY <1>1, LimitAssumption
  <2>9. added[t][k] <= added[t][k] /\ {k} \in SUBSET {k}
    BY <1>1
  <2>. QED
    BY <2>1, <2>5, <2>6, <2>7, <2>8, <2>9, <1>1, Zenon
<1>3. CASE AddRoom(t, k)
  <2>1. file' = file /\ fout' = fout
    BY <1>3 DEF AddRoom
  <2>2. Writes(t, {}) /\ {} \in SUBSET {k}
    BY <2>1 DEF Writes, IInv, TypeOK
  <2>3. Flushed(t, k)' = Flushed(t, k) /\ (Owns(t, k)' <=> Owns(t, k))
    BY <2>1, <1>0 DEF Flushed, Owns
  <2>4. buffer'[t][k] = Append(buffer[t][k], Rec(t, added[t][k] + 1))
    BY <1>0, <1>3 DEF AddRoom
  <2>5. Append(Recs(t, Flushed(t, k), added[t][k]), Rec(t, added[t][k] + 1))
          = Recs(t, Flushed(t, k), added[t][k] + 1)
    BY <1>1, RecsAppend, Zenon
  <2>6. added[t][k] + 1 - Flushed(t, k) <= Limit
    <3>1. Len(buffer[t][k]) < Limit
      BY <1>3 DEF AddRoom
    <3>. QED
      BY <3>1, <1>1, LimitAssumption
  <2>7. buffer'[t][k] = Recs(t, Flushed(t, k), added[t][k] + 1)
    BY <2>4, <2>5, <1>1
  <2>8. fout'[t][k] => Owns(t, k)'
    BY <2>1, <2>3, <1>1
  <2>. QED
    BY <2>2, <2>3, <2>6, <2>7, <2>8, <1>1, Zenon
<1>. QED
  BY <1>2, <1>3 DEF Add

(* One record is added and goes to the buffer, after a sync() if needed. *)
LEMMA AddIInv ==
  ASSUME IInv, NEW t \in Thread, NEW k \in Kind, Add(t, k)
  PROVE  IInv'
<1>0. /\ Running(t) /\ status' = status /\ tid' = tid
      /\ added' \in [Thread -> [Kind -> Nat]]
      /\ fout' \in [Thread -> [Kind -> BOOLEAN]]
      /\ buffer' \in [Thread -> [Kind -> Seq(Thread \X Nat)]]
      /\ added'[t][k] = added[t][k] + 1
      /\ \A u \in Thread, l \in Kind : u # t \/ l # k =>
           /\ added'[u][l] = added[u][l]
           /\ fout'[u][l] = fout[u][l]
           /\ buffer'[u][l] = buffer[u][l]
  BY AddFrame, Zenon
<1>1. /\ fout'[t][k] => Owns(t, k)'
      /\ Flushed(t, k)' \in Nat
      /\ Flushed(t, k)' <= added[t][k]
      /\ buffer'[t][k] = Recs(t, Flushed(t, k)', added[t][k] + 1)
      /\ added[t][k] + 1 - Flushed(t, k)' <= Limit
  BY AddSplit, Zenon
<1>2. PICK W \in SUBSET {k} : Writes(t, W)
  BY AddSplit, Zenon
<1>3. added[t][k] \in Nat /\ added[t][k] + 1 \in Nat /\ Flushed(t, k)' <= added[t][k] + 1
  BY <1>1 DEF IInv, TypeOK
<1>4. \A u \in Thread, l \in Kind : added[u][l] <= added'[u][l]
  <2>. TAKE u \in Thread, l \in Kind
  <2>1. CASE u = t /\ l = k
    BY <2>1, <1>0, <1>3
  <2>2. CASE ~(u = t /\ l = k)
    BY <2>2, <1>0
  <2>. QED
    BY <2>1, <2>2
<1>6. TypeOK'
  BY <1>0, <1>2 DEF IInv, TypeOK, Writes, Running
<1>7. DistinctTids' /\ ProcessGone'
  BY <1>0 DEF IInv, DistinctTids, ProcessGone, Running
<1>8. FreshThreads'
  <2>. SUFFICES ASSUME NEW u \in Thread, status[u] = "unborn"
                PROVE  /\ tid[u] = NoTid
                       /\ \A l \in Kind : ~fout'[u][l] /\ buffer'[u][l] = << >> /\ added'[u][l] = 0
    BY <1>0 DEF FreshThreads
  <2>1. u # t
    BY <1>0 DEF Running
  <2>2. /\ tid[u] = NoTid
        /\ \A l \in Kind : ~fout[u][l] /\ buffer[u][l] = << >> /\ added[u][l] = 0
    BY DEF IInv, FreshThreads
  <2>. QED
    BY <2>1, <2>2, <1>0, Zenon
<1>9. BufferBounded'
  <2>. SUFFICES ASSUME NEW u \in Thread, NEW l \in Kind
                PROVE  Len(buffer'[u][l]) <= Limit
    BY DEF BufferBounded
  <2>1. CASE u = t /\ l = k
    <3>1. Len(Recs(t, Flushed(t, k)', added[t][k] + 1)) = (added[t][k] + 1) - Flushed(t, k)'
      BY <1>1, <1>3, RecsType, Zenon
    <3>2. Len(buffer'[t][k]) = (added[t][k] + 1) - Flushed(t, k)'
      BY <3>1, <1>1
    <3>3. (added[t][k] + 1) - Flushed(t, k)' <= Limit
      BY <1>1, <1>3
    <3>. QED
      BY <3>2, <3>3, <2>1
  <2>2. CASE ~(u = t /\ l = k)
    <3>1. buffer'[u][l] = buffer[u][l]
      BY <2>2, <1>0
    <3>. QED
      BY <3>1 DEF IInv, BufferBounded
  <2>. QED
    BY <2>1, <2>2
<1>10. FilesArePrefixes'
  <2>1. W \in SUBSET Kind
    OBVIOUS
  <2>. QED
    BY <2>1, <1>0, <1>2, <1>4, WritesPrefixes
(* Files of other streams of running or killed threads do not change. *)
<1>11. ASSUME NEW u \in Thread, NEW l \in Kind, ~(u = t /\ l = k),
              status[u] \in {"running", "killed"}, tid[u] \in Tid
       PROVE  file'[l][tid[u]] = file[l][tid[u]]
  <2>1. CASE u # t
    BY <1>11, <2>1, <1>0, <1>2, OthersUntouched DEF Writes
  <2>2. CASE l # k
    BY <1>11, <2>2, <1>2 DEF Writes
  <2>. QED
    BY <1>11, <2>1, <2>2
<1>12. NothingInBetween'
  <2>. SUFFICES ASSUME NEW u \in Thread, NEW l \in Kind, Running(u)
                PROVE  /\ fout'[u][l] => Owns(u, l)'
                       /\ Flushed(u, l)' <= added'[u][l]
                       /\ buffer'[u][l] = Recs(u, Flushed(u, l)', added'[u][l])
    BY <1>0 DEF NothingInBetween, Running
  <2>1. CASE u = t /\ l = k
    BY <2>1, <1>0, <1>1, <1>3
  <2>2. CASE ~(u = t /\ l = k)
    <3>1. tid[u] \in Tid
      BY DEF IInv, TypeOK
    <3>2. file'[l][tid[u]] = file[l][tid[u]]
      BY <2>2, <3>1, <1>11 DEF Running
    <3>3. fout'[u][l] = fout[u][l] /\ buffer'[u][l] = buffer[u][l] /\ added'[u][l] = added[u][l]
      BY <2>2, <1>0
    <3>4. (Owns(u, l)' <=> Owns(u, l)) /\ Flushed(u, l)' = Flushed(u, l)
      BY <3>2, <3>3, <1>0 DEF Owns, Flushed
    <3>5. /\ fout[u][l] => Owns(u, l)
          /\ Flushed(u, l) <= added[u][l]
          /\ buffer[u][l] = Recs(u, Flushed(u, l), added[u][l])
      BY DEF IInv, NothingInBetween
    <3>. QED
      BY <3>3, <3>4, <3>5
  <2>. QED
    BY <2>1, <2>2
<1>13. ExitedIsComplete'
  <2>. SUFFICES ASSUME NEW u \in Thread, NEW l \in Kind,
                       status[u] = "exited", added'[u][l] > 0
                PROVE  \/ Owns(u, l)' /\ file'[l][tid[u]].recs = Recs(u, 0, added'[u][l])
                       \/ \E v \in Thread \ {u} : Owns(v, l)' /\ tid'[v] = tid'[u]
    BY <1>0 DEF ExitedIsComplete
  <2>1. u # t /\ W \in SUBSET Kind
    BY <1>0 DEF Running
  <2>2. added'[u][l] = added[u][l] /\ added[u][l] > 0
    BY <2>1, <1>0
  <2>3. Running(t) /\ tid' = tid /\ Writes(t, W)
    BY <1>0, <1>2
  <2>. QED
    BY <2>1, <2>2, <2>3, WritesExited
<1>14. LossBounded'
  <2>. SUFFICES ASSUME NEW u \in Thread, NEW l \in Kind,
                       status[u] \in {"running", "killed"}
                PROVE  added'[u][l] - OnDisk(u, l)' <= Limit
    BY <1>0 DEF LossBounded
  <2>1. CASE u = t /\ l = k
    <3>1. OnDisk(t, k)' \in Nat
      BY <1>6, LenProperties DEF TypeOK, OnDisk, Owns, Files
    <3>2. Flushed(t, k)' <= OnDisk(t, k)'
      BY <3>1, <1>1 DEF OnDisk, Flushed
    <3>. QED
      BY <2>1, <3>1, <3>2, <1>0, <1>1, <1>3, LimitAssumption
  <2>2. CASE ~(u = t /\ l = k)
    <3>0. tid[u] \in Tid => file'[l][tid[u]] = file[l][tid[u]]
      BY <2>2, <1>11
    <3>1. OnDisk(u, l)' = OnDisk(u, l)
      BY <3>0, <1>0 DEF OnDisk, Owns
    <3>2. added'[u][l] = added[u][l]
      BY <2>2, <1>0
    <3>. QED
      BY <3>1, <3>2 DEF IInv, LossBounded
  <2>. QED
    BY <2>1, <2>2
<1>. QED
  BY <1>6, <1>7, <1>8, <1>9, <1>10, <1>12, <1>13, <1>14 DEF IInv

(* A thread ends: what was in its buffers goes to its files. *)
LEMMA DestroyIInv ==
  ASSUME IInv, NEW t \in Thread, Destroy(t)
  PROVE  IInv'
<1>. DEFINE W == {k \in Kind : buffer[t][k] # << >>}
<1>0. /\ Running(t) /\ tid' = tid /\ added' = added
      /\ status' = [status EXCEPT ![t] = "exited"]
      /\ buffer' = [buffer EXCEPT ![t] = [k \in Kind |-> << >>]]
      /\ fout'   = [fout EXCEPT ![t] = [k \in Kind |-> FALSE]]
  BY DEF Destroy
<1>1. Writes(t, W) /\ W \in SUBSET Kind
  BY DestroyWrites
<1>2. /\ status'[t] = "exited"
      /\ \A u \in Thread : u # t => status'[u] = status[u]
      /\ \A k \in Kind : buffer'[t][k] = << >> /\ ~fout'[t][k]
      /\ \A u \in Thread, k \in Kind : u # t =>
           buffer'[u][k] = buffer[u][k] /\ fout'[u][k] = fout[u][k]
  BY <1>0 DEF IInv, TypeOK
<1>3. /\ added \in [Thread -> [Kind -> Nat]]
      /\ \A u \in Thread, k \in Kind : added[u][k] <= added'[u][k]
  BY <1>0 DEF IInv, TypeOK
<1>. HIDE DEF W
<1>6. TypeOK'
  <2>1. << >> \in Seq(Thread \X Nat)
    BY EmptySeq
  <2>2. buffer' \in [Thread -> [Kind -> Seq(Thread \X Nat)]]
    <3>1. [k \in Kind |-> << >>] \in [Kind -> Seq(Thread \X Nat)]
      BY <2>1
    <3>. QED
      BY <3>1, <1>0 DEF IInv, TypeOK
  <2>3. fout' \in [Thread -> [Kind -> BOOLEAN]]
    <3>1. fout \in [Thread -> [Kind -> BOOLEAN]] /\ [k \in Kind |-> FALSE] \in [Kind -> BOOLEAN]
      BY DEF IInv, TypeOK
    <3>. QED
      BY <3>1, <1>0
  <2>4. \A u \in Thread : Running(u)' => Running(u)
    BY <1>2 DEF Running
  <2>5. status' \in [Thread -> {"unborn", "running", "exited", "killed"}]
    BY <1>0 DEF IInv, TypeOK
  <2>. QED
    BY <2>2, <2>3, <2>4, <2>5, <1>0, <1>1 DEF IInv, TypeOK, Writes
<1>7. DistinctTids' /\ ProcessGone'
  <2>1. DistinctTids'
    BY <1>0, <1>2 DEF IInv, DistinctTids, Running
  <2>2. ProcessGone'
    BY <1>0, <1>2 DEF IInv, ProcessGone, Running
  <2>. QED
    BY <2>1, <2>2
<1>8. FreshThreads'
  <2>. SUFFICES ASSUME NEW u \in Thread, status'[u] = "unborn"
                PROVE  /\ tid[u] = NoTid
                       /\ \A l \in Kind : ~fout'[u][l] /\ buffer'[u][l] = << >> /\ added[u][l] = 0
    BY <1>0 DEF FreshThreads
  <2>1. u # t /\ status[u] = "unborn"
    BY <1>2
  <2>2. /\ tid[u] = NoTid
        /\ \A l \in Kind : ~fout[u][l] /\ buffer[u][l] = << >> /\ added[u][l] = 0
    BY <2>1 DEF IInv, FreshThreads
  <2>. QED
    BY <2>1, <2>2, <1>2, Zenon
<1>9. BufferBounded'
  <2>1. Len(<< >>) <= Limit
    BY LimitAssumption, EmptySeq
  <2>. QED
    BY <2>1, <1>2 DEF IInv, BufferBounded
<1>10. FilesArePrefixes'
  BY <1>0, <1>1, <1>3, WritesPrefixes
<1>11. ASSUME NEW u \in Thread, NEW l \in Kind, u # t,
              status[u] \in {"running", "killed"}, tid[u] \in Tid
       PROVE  file'[l][tid[u]] = file[l][tid[u]]
  BY <1>11, <1>0, <1>1, OthersUntouched DEF Writes
<1>12. NothingInBetween'
  <2>. SUFFICES ASSUME NEW u \in Thread, NEW l \in Kind, Running(u)'
                PROVE  /\ fout'[u][l] => Owns(u, l)'
                       /\ Flushed(u, l)' <= added[u][l]
                       /\ buffer'[u][l] = Recs(u, Flushed(u, l)', added[u][l])
    BY <1>0 DEF NothingInBetween
  <2>1. u # t /\ Running(u)
    BY <1>2 DEF Running
  <2>2. tid[u] \in Tid
    BY <2>1 DEF IInv, TypeOK
  <2>3. file'[l][tid[u]] = file[l][tid[u]]
    BY <2>1, <2>2, <1>11 DEF Running
  <2>4. fout'[u][l] = fout[u][l] /\ buffer'[u][l] = buffer[u][l]
    BY <2>1, <1>2
  <2>5. (Owns(u, l)' <=> Owns(u, l)) /\ Flushed(u, l)' = Flushed(u, l)
    BY <2>3, <2>4, <1>0 DEF Owns, Flushed
  <2>6. /\ fout[u][l] => Owns(u, l)
        /\ Flushed(u, l) <= added[u][l]
        /\ buffer[u][l] = Recs(u, Flushed(u, l), added[u][l])
    BY <2>1 DEF IInv, NothingInBetween
  <2>. QED
    BY <2>4, <2>5, <2>6
<1>13. ExitedIsComplete'
  <2>. SUFFICES ASSUME NEW u \in Thread, NEW l \in Kind,
                       status'[u] = "exited", added[u][l] > 0
                PROVE  \/ Owns(u, l)' /\ file'[l][tid[u]].recs = Recs(u, 0, added[u][l])
                       \/ \E v \in Thread \ {u} : Owns(v, l)' /\ tid'[v] = tid'[u]
    BY <1>0 DEF ExitedIsComplete
  <2>1. CASE u # t
    <3>1. status[u] = "exited" /\ added'[u][l] = added[u][l]
      BY <2>1, <1>0, <1>2
    <3>2. \/ Owns(u, l)' /\ file'[l][tid[u]].recs = Recs(u, 0, added'[u][l])
          \/ \E v \in Thread \ {u} : Owns(v, l)' /\ tid'[v] = tid'[u]
      BY <2>1, <3>1, <1>0, <1>1, WritesExited
    <3>. QED
      BY <3>1, <3>2
  <2>2. CASE u = t
    <3>0. /\ tid[t] \in Tid /\ added[t][l] \in Nat
          /\ Flushed(t, l) \in Nat /\ Flushed(t, l) <= added[t][l]
          /\ fout[t][l] => Owns(t, l)
          /\ buffer[t][l] = Recs(t, Flushed(t, l), added[t][l])
          /\ Len(buffer[t][l]) = added[t][l] - Flushed(t, l)
      BY <1>0, Split, Zenon
    <3>1. CASE l \in W
      <4>1. file'[l][tid[t]] = Full(t, l)
        BY <3>0, <3>1, <1>1 DEF Writes
      <4>2. file'[l][tid[t]].by = t /\ file'[l][tid[t]].recs = Recs(t, 0, added[t][l])
        BY <4>1, FullType DEF IInv
      <4>. QED
        BY <4>2, <3>0, <2>2, <1>0 DEF Owns
    <3>2. CASE l \notin W
      <4>1. buffer[t][l] = << >>
        BY <3>2 DEF W
      <4>2. added[t][l] = Flushed(t, l)
        BY <4>1, <3>0, EmptySeq
      <4>3. fout[t][l] /\ Flushed(t, l) = Len(file[l][tid[t]].recs)
        BY <4>2, <2>2 DEF Flushed
      <4>4. file[l][tid[t]].by = t
        BY <4>3, <3>0 DEF Owns
      <4>5. file[l][tid[t]].recs = Recs(t, 0, added[t][l])
        BY <4>2, <4>3, <4>4, <3>0 DEF IInv, FilesArePrefixes
      <4>6. file'[l][tid[t]] = file[l][tid[t]]
        BY <3>0, <3>2, <1>1 DEF Writes
      <4>. QED
        BY <4>4, <4>5, <4>6, <3>0, <2>2, <1>0 DEF Owns
    <3>. QED
      BY <3>1, <3>2
  <2>. QED
    BY <2>1, <2>2
<1>14. LossBounded'
  <2>. SUFFICES ASSUME NEW u \in Thread, NEW l \in Kind,
                       status'[u] \in {"running", "killed"}
                PROVE  added[u][l] - OnDisk(u, l)' <= Limit
    BY <1>0 DEF LossBounded
  <2>1. u # t /\ status[u] \in {"running", "killed"}
    BY <1>2
  <2>2. OnDisk(u, l)' = OnDisk(u, l)
    BY <2>1, <1>0, <1>11 DEF OnDisk, Owns
  <2>. QED
    BY <2>1, <2>2 DEF IInv, LossBounded
<1>. QED
  BY <1>6, <1>7, <1>8, <1>9, <1>10, <1>12, <1>13, <1>14 DEF IInv

-----------------------------------------------------------------------------
(* The theorems *)

(***************************************************************************)
(* The Recorder's invariant holds in every reachable state, for any number *)
(* of threads, ids, kinds and records and any buffer size.                 *)
(***************************************************************************)
THEOREM Invariance == Spec => []IInv
<1>1. IInv /\ [Next]_vars => IInv'
  <2>. SUFFICES ASSUME IInv, [Next]_vars PROVE IInv'
    OBVIOUS
  <2>1. ASSUME NEW t \in Thread, NEW n \in Tid, Construct(t, n) PROVE IInv'
    BY <2>1, ConstructIInv
  <2>2. ASSUME NEW t \in Thread, NEW k \in Kind, Add(t, k) PROVE IInv'
    BY <2>2, AddIInv
  <2>3. ASSUME NEW t \in Thread, Destroy(t) PROVE IInv'
    BY <2>3, DestroyIInv
  <2>4. CASE ProcessExit
    BY <2>4, ProcessExitIInv
  <2>5. CASE UNCHANGED vars
    BY <2>5 DEF vars, IInv, TypeOK, DistinctTids, BufferBounded, FreshThreads,
       ProcessGone, FilesArePrefixes, NothingInBetween, ExitedIsComplete,
       LossBounded, Running, Owns, OnDisk, Flushed
  <2>. QED
    BY <2>1, <2>2, <2>3, <2>4, <2>5 DEF Next
<1>. QED
  BY InitIInv, <1>1, PTL DEF Spec

(***************************************************************************)
(* Every Recorder keeps its types; in particular a running thread has a    *)
(* kernel id, so the name of its files is determined.                      *)
(***************************************************************************)
THEOREM TypeCorrect == Spec => []TypeOK
<1>1. IInv => TypeOK
  BY DEF IInv
<1>. QED
  BY Invariance, <1>1, PTL

(***************************************************************************)
(* Every trace file is at all times a prefix of one thread's stream: add() *)
(* and sync() never lose, repeat or reorder a record in the middle.        *)
(***************************************************************************)
THEOREM FilesPrefix == Spec => []FilesArePrefixes
<1>1. IInv => FilesArePrefixes
  BY DEF IInv
<1>. QED
  BY Invariance, <1>1, PTL

(***************************************************************************)
(* The destructor leaves the whole stream of an ended thread on disk, and  *)
(* only a later thread with the same kernel id can truncate it.            *)
(***************************************************************************)
THEOREM ExitedComplete == Spec => []ExitedIsComplete
<1>1. IInv => ExitedIsComplete
  BY DEF IInv
<1>. QED
  BY Invariance, <1>1, PTL

(***************************************************************************)
(* A process that ends without running destructors loses at most one       *)
(* buffer of records per stream.                                           *)
(***************************************************************************)
THEOREM LossIsBounded == Spec => []LossBounded
<1>1. IInv => LossBounded
  BY DEF IInv
<1>. QED
  BY Invariance, <1>1, PTL

(* A file that is not touched, or that a writer completes, grows. *)
LEMMA WritesGrow ==
  ASSUME IInv, NEW t \in Thread, NEW W \in SUBSET Kind, Writes(t, W),
         NEW k \in Kind, NEW n \in Tid
  PROVE  Grows(file[k][n], file'[k][n])
<1>0. file[k][n] \in Files
  BY DEF IInv, TypeOK
<1>1. CASE ~(k \in W /\ n = tid[t])
  <2>1. file'[k][n] = file[k][n]
    BY <1>1 DEF Writes
  <2>2. Len(file[k][n].recs) \in Nat
    BY <1>0, LenProperties DEF Files
  <2>. QED
    BY <2>1, <2>2 DEF Grows
<1>2. CASE k \in W /\ n = tid[t]
  <2>. SUFFICES ASSUME file'[k][n].by = file[k][n].by
                PROVE  /\ Len(file[k][n].recs) <= Len(file'[k][n].recs)
                       /\ \A i \in 1..Len(file[k][n].recs) :
                            file'[k][n].recs[i] = file[k][n].recs[i]
    BY DEF Grows
  <2>. DEFINE m == Len(file[k][n].recs)
              a == added[t][k]
  <2>1. file'[k][n] = Full(t, k)
    BY <1>2 DEF Writes
  <2>2. /\ file[k][n].by = t
        /\ file'[k][n].recs = Recs(t, 0, a)
        /\ Len(file'[k][n].recs) = a
    BY <2>1, FullType DEF IInv
  <2>3. m <= a /\ file[k][n].recs = Recs(t, 0, m)
    BY <2>2 DEF IInv, FilesArePrefixes
  <2>4. m \in Nat /\ a \in Nat
    BY <1>0, LenProperties DEF Files, IInv, TypeOK
  <2>. HIDE DEF m, a
  <2>5. /\ \A i \in 1..m : Recs(t, 0, m)[i] = Rec(t, 0 + i)
        /\ \A i \in 1..m : Recs(t, 0, a)[i] = Rec(t, 0 + i)
    BY <2>3, <2>4 DEF Recs
  <2>6. \A i \in 1..m : file'[k][n].recs[i] = file[k][n].recs[i]
    BY <2>2, <2>3, <2>5
  <2>. QED
    BY <2>2, <2>3, <2>6 DEF m
<1>. QED
  BY <1>1, <1>2

(***************************************************************************)
(* No step of any thread shortens or rewrites a file its owner goes on     *)
(* writing: what a sync() or a destructor writes extends what is there.    *)
(***************************************************************************)
THEOREM FilesGrow == Spec => FilesOnlyGrow
<1>. DEFINE Grow == \A k \in Kind, n \in Tid : Grows(file[k][n], file'[k][n])
<1>1. IInv /\ [Next]_vars => [Grow]_vars
  <2>. SUFFICES ASSUME IInv, Next PROVE Grow
    OBVIOUS
  <2>0. CASE file' = file
    <3>1. \A k \in Kind, n \in Tid : Len(file[k][n].recs) \in Nat
      BY LenProperties DEF IInv, TypeOK, Files
    <3>. QED
      BY <3>1, <2>0 DEF Grows
  <2>1. ASSUME NEW t \in Thread, NEW k \in Kind, Add(t, k) PROVE Grow
    <3>1. PICK W \in SUBSET {k} : Writes(t, W)
      BY <2>1, AddSplit, Zenon
    <3>2. W \in SUBSET Kind
      OBVIOUS
    <3>. QED
      BY <3>1, <3>2, WritesGrow
  <2>2. ASSUME NEW t \in Thread, Destroy(t) PROVE Grow
    <3>1. Writes(t, {k \in Kind : buffer[t][k] # << >>})
      BY <2>2, DestroyWrites
    <3>2. {k \in Kind : buffer[t][k] # << >>} \in SUBSET Kind
      OBVIOUS
    <3>. QED
      BY <3>1, <3>2, WritesGrow
  <2>. QED
    BY <2>0, <2>1, <2>2 DEF Next, Construct, ProcessExit
<1>. QED
  BY Invariance, <1>1, PTL DEF FilesOnlyGrow, Spec

-----------------------------------------------------------------------------
(* The refinement of TraceLog *)

(* stored of TraceLog: what a reader of the trace files finds. *)
Stored == [t \in Thread |-> [k \in Kind |-> OnDisk(t, k)]]

(* A stream has at most its records on disk, and a new thread has none. *)
LEMMA OnDiskBounds ==
  ASSUME IInv, NEW t \in Thread, NEW k \in Kind
  PROVE  OnDisk(t, k) \in Nat /\ OnDisk(t, k) <= added[t][k]
<1>1. added[t][k] \in Nat
  BY DEF IInv, TypeOK
<1>2. CASE Owns(t, k)
  <2>1. tid[t] \in Tid /\ file[k][tid[t]] \in Files /\ file[k][tid[t]].by = t
    BY <1>2 DEF Owns, IInv, TypeOK
  <2>2. Len(file[k][tid[t]].recs) <= added[t][k]
    BY <2>1 DEF IInv, FilesArePrefixes
  <2>3. Len(file[k][tid[t]].recs) \in Nat
    BY <2>1, LenProperties DEF Files
  <2>. QED
    BY <1>2, <2>2, <2>3 DEF OnDisk
<1>3. CASE ~Owns(t, k)
  BY <1>1, <1>3 DEF OnDisk
<1>. QED
  BY <1>2, <1>3

(* The thread whose stream k a sync() of t truncates, or t if there is none. *)
Victim(t, k) ==
  IF \E u \in Thread \ {t} : Owns(u, k) /\ tid[u] = tid[t]
  THEN CHOOSE u \in Thread \ {t} : Owns(u, k) /\ tid[u] = tid[t]
  ELSE t

(* Only an ended thread is truncated, and only by a first sync(). *)
LEMMA VictimExited ==
  ASSUME IInv, NEW t \in Thread, NEW k \in Kind, Running(t)
  PROVE  /\ Victim(t, k) \in Thread
         /\ Victim(t, k) # t => status[Victim(t, k)] = "exited" /\ OnDisk(t, k) = 0
         /\ \A u \in Thread : u # t /\ u # Victim(t, k) /\ Owns(u, k) => tid[u] # tid[t]
         /\ Victim(t, k) # t => Owns(Victim(t, k), k) /\ tid[Victim(t, k)] = tid[t]
<1>1. CASE \E u \in Thread \ {t} : Owns(u, k) /\ tid[u] = tid[t]
  <2>. DEFINE v == Victim(t, k)
  <2>1. v \in Thread \ {t} /\ Owns(v, k) /\ tid[v] = tid[t]
    BY <1>1 DEF Victim
  <2>. HIDE DEF v
  <2>2. tid[v] \in Tid /\ file[k][tid[t]].by = v
    BY <2>1 DEF Owns
  <2>3. status[v] \notin {"running", "killed"}
    BY <2>1, OthersUntouched
  <2>4. status[v] # "unborn"
    BY <2>1, <2>2, NoTidAssumption DEF IInv, FreshThreads
  <2>5. status[v] = "exited"
    BY <2>1, <2>3, <2>4 DEF IInv, TypeOK
  <2>6. OnDisk(t, k) = 0
    BY <2>1, <2>2 DEF OnDisk, Owns
  <2>7. \A u \in Thread : u # t /\ u # v /\ Owns(u, k) => tid[u] # tid[t]
    BY <2>2 DEF Owns
  <2>. QED
    BY <2>1, <2>5, <2>6, <2>7 DEF v
<1>2. CASE ~\E u \in Thread \ {t} : Owns(u, k) /\ tid[u] = tid[t]
  <2>1. Victim(t, k) = t
    BY <1>2 DEF Victim
  <2>. QED
    BY <2>1, <1>2
<1>. QED
  BY <1>1, <1>2

(* What a step that writes the files of the kinds W does to the disk. *)
LEMMA WritesStored ==
  ASSUME IInv, NEW t \in Thread, Running(t), NEW W \in SUBSET Kind, Writes(t, W),
         tid' = tid, NEW u \in Thread, NEW k \in Kind
  PROVE  OnDisk(u, k)' = IF k \notin W THEN OnDisk(u, k)
                         ELSE IF u = t THEN added[t][k]
                         ELSE IF u = Victim(t, k) THEN 0
                         ELSE OnDisk(u, k)
<1>0. tid[t] \in Tid
  BY DEF IInv, TypeOK
<1>1. CASE k \notin W
  <2>1. \A n \in Tid : file'[k][n] = file[k][n]
    BY <1>1 DEF Writes
  <2>. QED
    BY <1>1, <2>1 DEF OnDisk, Owns
<1>2. CASE k \in W /\ u = t
  <2>1. file'[k][tid[t]] = Full(t, k)
    BY <1>0, <1>2 DEF Writes
  <2>2. file'[k][tid[t]].by = t /\ Len(file'[k][tid[t]].recs) = added[t][k]
    BY <2>1, FullType DEF IInv
  <2>. QED
    BY <1>0, <1>2, <2>2 DEF OnDisk, Owns
<1>3. CASE k \in W /\ u # t /\ tid[u] = tid[t]
  <2>1. file'[k][tid[u]] = Full(t, k)
    BY <1>0, <1>3 DEF Writes
  <2>2. file'[k][tid[u]].by = t
    BY <2>1, FullType DEF IInv
  <2>3. OnDisk(u, k)' = 0
    BY <2>2, <1>3 DEF OnDisk, Owns
  <2>4. u # Victim(t, k) => OnDisk(u, k) = 0
    BY <1>3, VictimExited DEF OnDisk
  <2>. QED
    BY <1>3, <2>3, <2>4
<1>4. CASE k \in W /\ u # t /\ tid[u] # tid[t]
  <2>1. tid[u] \in Tid => file'[k][tid[u]] = file[k][tid[u]]
    BY <1>4 DEF Writes
  <2>2. OnDisk(u, k)' = OnDisk(u, k)
    BY <2>1 DEF OnDisk, Owns
  <2>3. u # Victim(t, k)
    BY <1>4, VictimExited
  <2>. QED
    BY <1>4, <2>2, <2>3
<1>. QED
  BY <1>1, <1>2, <1>3, <1>4

(* At the start nothing is on disk. *)
LEMMA RefinesInit == Init => Log!LogInit
<1>. SUFFICES ASSUME Init PROVE Log!LogInit
  OBVIOUS
<1>1. \A t \in Thread, k \in Kind : OnDisk(t, k) = 0
  BY NoTidAssumption DEF Init, OnDisk, Owns
<1>. QED
  BY <1>1 DEF Init, Log!LogInit

(* A thread that starts changes nothing on disk. *)
LEMMA ConstructRefines ==
  ASSUME IInv, NEW t \in Thread, NEW n \in Tid, Construct(t, n)
  PROVE  Log!Begin(t)
<1>1. \A u \in Thread, k \in Kind : OnDisk(u, k)' = OnDisk(u, k)
  <2>. TAKE u \in Thread, k \in Kind
  <2>1. CASE u = t
    <3>1. added[t][k] = 0 /\ file' = file /\ tid'[t] \in Tid
      BY DEF Construct, IInv, FreshThreads, TypeOK
    <3>2. OnDisk(t, k) = 0
      BY <3>1, OnDiskBounds
    <3>3. ASSUME Owns(t, k)' PROVE Len(file'[k][tid'[t]].recs) = 0
      <4>1. file[k][tid'[t]] \in Files /\ file[k][tid'[t]].by = t
        BY <3>1, <3>3 DEF Owns, IInv, TypeOK
      <4>2. Len(file[k][tid'[t]].recs) <= added[t][k]
        BY <4>1, <3>1 DEF IInv, FilesArePrefixes
      <4>3. Len(file[k][tid'[t]].recs) \in Nat
        BY <4>1, LenProperties DEF Files
      <4>. QED
        BY <4>2, <4>3, <3>1
    <3>4. OnDisk(t, k)' = 0
      BY <3>3 DEF OnDisk
    <3>. QED
      BY <2>1, <3>2, <3>4
  <2>2. CASE u # t
    <3>1. tid'[u] = tid[u] /\ file' = file
      BY <2>2 DEF Construct, IInv, TypeOK
    <3>. QED
      BY <3>1 DEF OnDisk, Owns
  <2>. QED
    BY <2>1, <2>2
<1>. QED
  BY <1>1 DEF Construct, Log!Begin

(* add() is one Record: it stores nothing, or all that came before. *)
LEMMA AddRefines ==
  ASSUME IInv, NEW t \in Thread, NEW k \in Kind, Add(t, k)
  PROVE  Log!Record(t, k)
<1>0. Running(t) /\ status' = status /\ tid' = tid /\ added \in [Thread -> [Kind -> Nat]]
  BY AddFrame DEF IInv, TypeOK
<1>1. /\ status[t] = "running"
      /\ added' = [added EXCEPT ![t][k] = @ + 1]
  BY <1>0 DEF Add, Running
<1>2. \A u \in Thread, l \in Kind : Stored[u][l] = OnDisk(u, l)
  BY DEF Stored
<1>3. CASE AddRoom(t, k)
  <2>1. \A u \in Thread, l \in Kind : OnDisk(u, l)' = OnDisk(u, l)
    BY <1>0, <1>3 DEF AddRoom, OnDisk, Owns
  <2>2. Stored' = Stored
    BY <2>1 DEF Stored
  <2>3. added[t][k] - Flushed(t, k) < Limit /\ Flushed(t, k) \in Nat
    BY <1>0, <1>3, Split DEF AddRoom
  <2>4. Flushed(t, k) <= OnDisk(t, k)
    <3>1. fout[t][k] => Owns(t, k)
      BY <1>0, Split
    <3>2. CASE fout[t][k]
      BY <3>1, <3>2, <2>3 DEF Flushed, OnDisk
    <3>3. CASE ~fout[t][k]
      BY <3>3, OnDiskBounds DEF Flushed
    <3>. QED
      BY <3>2, <3>3
  <2>5. added[t][k] - OnDisk(t, k) < Limit
    BY <2>3, <2>4, <1>0, OnDiskBounds, LimitAssumption
  <2>. QED
    BY <1>0, <1>1, <1>2, <2>2, <2>5 DEF Log!Record, Stored
<1>4. CASE AddFull(t, k)
  <2>. DEFINE v == Victim(t, k)
  <2>1. Writes(t, {k}) /\ {k} \in SUBSET Kind
    BY <1>0, <1>4, AddFullWrites
  <2>2. \A u \in Thread, l \in Kind :
          OnDisk(u, l)' = IF l \notin {k} THEN OnDisk(u, l)
                          ELSE IF u = t THEN added[t][l]
                          ELSE IF u = Victim(t, l) THEN 0
                          ELSE OnDisk(u, l)
    BY <1>0, <2>1, WritesStored
  <2>3. v \in Thread /\ (v # t => status[v] = "exited" /\ OnDisk(t, k) = 0)
    BY <1>0, VictimExited
  <2>. HIDE DEF v
  <2>4. \A u \in Thread, l \in Kind :
          Stored'[u][l] = IF l = k /\ u = t THEN added[t][k]
                          ELSE IF l = k /\ u = v THEN 0 ELSE Stored[u][l]
    BY <2>2 DEF Stored, v
  <2>5. Stored' = [Stored EXCEPT ![v][k] = 0, ![t][k] = added[t][k]]
    <3>. DEFINE R == [Stored EXCEPT ![v][k] = 0, ![t][k] = added[t][k]]
    <3>1. /\ Stored = [u \in Thread |-> [l \in Kind |-> Stored[u][l]]]
          /\ Stored' = [u \in Thread |-> [l \in Kind |-> Stored'[u][l]]]
      BY DEF Stored
    <3>2. R = [u \in Thread |-> [l \in Kind |-> R[u][l]]]
      BY <3>1, <2>3
    <3>3. \A u \in Thread, l \in Kind :
            R[u][l] = IF l = k /\ u = t THEN added[t][k]
                      ELSE IF l = k /\ u = v THEN 0 ELSE Stored[u][l]
      <4>. DEFINE Q == [Stored EXCEPT ![v][k] = 0]
      <4>0. Stored \in [Thread -> [Kind -> Nat]]
        BY OnDiskBounds DEF Stored
      <4>1. /\ Q \in [Thread -> [Kind -> Nat]]
            /\ \A u \in Thread, l \in Kind :
                 Q[u][l] = IF l = k /\ u = v THEN 0 ELSE Stored[u][l]
        BY <4>0, <2>3
      <4>2. R = [Q EXCEPT ![t][k] = added[t][k]]
        OBVIOUS
      <4>. HIDE DEF Q, R
      <4>3. \A u \in Thread, l \in Kind :
              R[u][l] = IF l = k /\ u = t THEN added[t][k] ELSE Q[u][l]
        BY <4>1, <4>2
      <4>. QED
        BY <4>1, <4>3
    <3>. HIDE DEF R
    <3>4. \A u \in Thread, l \in Kind : Stored'[u][l] = R[u][l]
      BY <2>4, <3>3
    <3>5. Stored' = R
      BY <3>1, <3>2, <3>4
    <3>. QED
      BY <3>5 DEF R
  <2>6. v \in Log!MayLose(t, k)
    BY <2>3, <1>2 DEF Log!MayLose, Stored
  <2>. QED
    BY <1>0, <1>1, <2>5, <2>6 DEF Log!Record, Stored
<1>. QED
  BY <1>3, <1>4 DEF Add

(* The destructors of a thread are one Finish. *)
LEMMA DestroyRefines ==
  ASSUME IInv, NEW t \in Thread, Destroy(t)
  PROVE  Log!Finish(t)
<1>. DEFINE W == {k \in Kind : buffer[t][k] # << >>}
            lost == [k \in Kind |-> IF k \in W THEN Victim(t, k) ELSE t]
<1>0. Running(t) /\ tid' = tid /\ added' = added /\ added \in [Thread -> [Kind -> Nat]]
  BY DEF Destroy, IInv, TypeOK
<1>1. Writes(t, W) /\ W \in SUBSET Kind
  BY DestroyWrites
<1>2. \A k \in Kind : k \in W <=> buffer[t][k] # << >>
  OBVIOUS
<1>. HIDE DEF W
<1>3. \A u \in Thread, k \in Kind :
        OnDisk(u, k)' = IF k \notin W THEN OnDisk(u, k)
                        ELSE IF u = t THEN added[t][k]
                        ELSE IF u = Victim(t, k) THEN 0
                        ELSE OnDisk(u, k)
  BY <1>0, <1>1, WritesStored
<1>4. \A k \in Kind : k \notin W => OnDisk(t, k) = added[t][k]
  <2>. SUFFICES ASSUME NEW k \in Kind, k \notin W
                PROVE  OnDisk(t, k) = added[t][k]
    OBVIOUS
  <2>1. buffer[t][k] = << >>
    BY <1>2
  <2>2. /\ added[t][k] \in Nat /\ Flushed(t, k) \in Nat
        /\ fout[t][k] => Owns(t, k)
        /\ Len(buffer[t][k]) = added[t][k] - Flushed(t, k)
    BY <1>0, Split
  <2>3. added[t][k] = Flushed(t, k)
    BY <2>1, <2>2, EmptySeq
  <2>4. CASE fout[t][k]
    BY <2>2, <2>3, <2>4 DEF Flushed, OnDisk
  <2>5. CASE ~fout[t][k]
    BY <2>3, <2>5, OnDiskBounds DEF Flushed
  <2>. QED
    BY <2>4, <2>5
<1>5. \A k \in Kind : /\ Victim(t, k) \in Thread
                      /\ Victim(t, k) # t => /\ status[Victim(t, k)] = "exited"
                                             /\ OnDisk(t, k) = 0
  BY <1>0, VictimExited
<1>6. lost \in [Kind -> Thread]
  BY <1>5
<1>7. \A k \in Kind : lost[k] \in Log!MayLose(t, k)
  BY <1>5 DEF Log!MayLose
<1>8. Stored' = [u \in Thread |->
                   IF u = t THEN added[t]
                   ELSE [k \in Kind |-> IF u = lost[k] THEN 0 ELSE Stored[u][k]]]
  <2>1. \A u \in Thread, k \in Kind :
          OnDisk(u, k)' = IF u = t THEN added[t][k]
                          ELSE IF u = lost[k] THEN 0 ELSE OnDisk(u, k)
    BY <1>3, <1>4
  <2>. HIDE DEF lost
  <2>2. added[t] = [k \in Kind |-> added[t][k]]
    BY <1>0
  <2>3. \A u \in Thread, k \in Kind : Stored[u][k] = OnDisk(u, k)
    BY DEF Stored
  <2>4. Stored' = [u \in Thread |-> [k \in Kind |-> OnDisk(u, k)']]
    BY DEF Stored
  <2>. QED
    BY <2>1, <2>2, <2>3, <2>4
<1>9. status[t] = "running" /\ status' = [status EXCEPT ![t] = "exited"]
  BY DEF Destroy, Running
<1>. HIDE DEF lost
<1>. QED
  BY <1>0, <1>6, <1>7, <1>8, <1>9 DEF Log!Finish, Stored

(* The end of the process leaves the disk alone. *)
LEMMA ProcessExitRefines ==
  ASSUME ProcessExit
  PROVE  Log!Kill
<1>1. \A u \in Thread, k \in Kind : OnDisk(u, k)' = OnDisk(u, k)
  BY DEF ProcessExit, OnDisk, Owns
<1>. QED
  BY <1>1 DEF ProcessExit, Log!Kill

(***************************************************************************)
(* The buffers and files of Recorder implement TraceLog: seen through what *)
(* a reader finds on disk, every add() stores nothing or everything before *)
(* it, a destructor stores everything, an exit stores nothing, and a       *)
(* stream is only ever taken away from an ended thread whose kernel id was *)
(* given to the thread that writes.                                        *)
(***************************************************************************)
THEOREM Refinement == Spec => ImplementsTraceLog
<1>1. IInv /\ [Next]_vars => [Log!LogNext]_(Log!logVars)
  <2>. SUFFICES ASSUME IInv, [Next]_vars PROVE [Log!LogNext]_(Log!logVars)
    OBVIOUS
  <2>1. ASSUME NEW t \in Thread, NEW n \in Tid, Construct(t, n) PROVE Log!LogNext
    BY <2>1, ConstructRefines DEF Log!LogNext
  <2>2. ASSUME NEW t \in Thread, NEW k \in Kind, Add(t, k) PROVE Log!LogNext
    BY <2>2, AddRefines DEF Log!LogNext
  <2>3. ASSUME NEW t \in Thread, Destroy(t) PROVE Log!LogNext
    BY <2>3, DestroyRefines DEF Log!LogNext
  <2>4. CASE ProcessExit
    BY <2>4, ProcessExitRefines DEF Log!LogNext
  <2>5. CASE UNCHANGED vars
    BY <2>5 DEF vars, Log!logVars, OnDisk, Owns
  <2>. QED
    BY <2>1, <2>2, <2>3, <2>4, <2>5 DEF Next
<1>. QED
  BY Invariance, RefinesInit, <1>1, PTL DEF Spec, ImplementsTraceLog, Log!LogSpec
=============================================================================
