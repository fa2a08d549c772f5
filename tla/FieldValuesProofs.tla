------------------------- MODULE FieldValuesProofs -------------------------
(***************************************************************************)
(* Proofs about FieldValues, for every set of strings, any widths of ids   *)
(* and values, any buffer size and any number of callbacks and threads.    *)
(***************************************************************************)
EXTENDS FieldValues, FiniteSetTheorems, SequenceTheorems, TLAPS

-----------------------------------------------------------------------------
(* The parts of the inductive invariant *)

Row == [by : Nat, id : Nat, str : Str]
NumberRecords == [by : Nat, data : Int, of : Int]
StringRecords == [by : Nat, data : Int, of : Str, id : Nat]
AnyRecord == NumberRecords \cup StringRecords

Memory == [buffer : Seq(AnyRecord), fout : BOOLEAN, pending : Seq(Row), fstrout : BOOLEAN]
Files  == [records : [by : Nat, rows : Seq(AnyRecord)], strings : [by : Nat, rows : Seq(Row)]]

Shapes ==
  /\ thread \in 1..MaxThreads
  /\ status \in {"running", "exited", "killed"}
  /\ DOMAIN stringMap \subseteq Str /\ IsFiniteSet(DOMAIN stringMap)
  /\ memory \in [Streams -> Memory]
  /\ disk \in [Streams -> Files]
  /\ adds \in 0..MaxAdds

(* The records of a stream, and its rows in the order they were added. *)
Kept(s) == ToSet(disk[s].records.rows) \cup ToSet(memory[s].buffer)
Table(s) == disk[s].strings.rows \o memory[s].pending
Written == UNION {ToSet(Table(s)) : s \in StringStreams}

BuffersFit == \A s \in Streams : Len(memory[s].buffer) <= Limit

(* A record of a number holds what decodes to the number. *)
NumberKept(s, r) ==
  /\ r.data \in 0 .. 2 * Sign(s.wide) - 1
  /\ Decoded(s, r.data) = r.of

NumbersKept == \A s \in Streams \ StringStreams : \A r \in Kept(s) : NumberKept(s, r)

(* A record of a string keeps the low bits of the id. *)
IdsKept ==
  \A s \in StringStreams : \A r \in Kept(s) : r \in StringRecords /\ r.data = r.id % IdSpace

(* Ids count the strings the thread has met. *)
IdsDense ==
  /\ \A x \in DOMAIN stringMap : stringMap[x] \in 0 .. Cardinality(DOMAIN stringMap) - 1
  /\ \A x, y \in DOMAIN stringMap : stringMap[x] = stringMap[y] => x = y

(* What the records and the rows say of ids. *)
RowOf(r) == [by |-> r.by, id |-> r.id, str |-> r.of]
Met == Written \cup UNION {{RowOf(r) : r \in Kept(s)} : s \in StringStreams}

(* While the thread runs, they say what its stringMap says. *)
MetRight ==
  \A p \in Met :
    /\ p.by \in 0..thread
    /\ status = "running" /\ p.by = thread =>
         p.str \in DOMAIN stringMap /\ stringMap[p.str] = p.id

(* ... so they agree, those of earlier threads too. *)
MetAgree == \A p, q \in Met : p.by = q.by => (p.id = q.id <=> p.str = q.str)

(* A row is in one file, once. *)
OncePlaced ==
  \A s, z \in StringStreams : \A i \in DOMAIN Table(s), j \in DOMAIN Table(z) :
    Table(s)[i] = Table(z)[j] => s = z /\ i = j

(* The string file of a stream is the thread's once it was opened. *)
Opened ==
  \A s \in Streams :
    /\ disk[s].strings.by \in 0..thread
    /\ memory[s].fstrout => status = "running" /\ disk[s].strings.by = thread
    /\ memory[s].buffer # << >> => status = "running"
    /\ ~memory[s].fstrout =>
         /\ memory[s].pending = << >>
         /\ status = "running" /\ s \in StringStreams =>
              \A row \in ToSet(disk[s].strings.rows) : row.by < thread
    /\ \A row \in ToSet(memory[s].pending) : row.by = thread

(* The strings a running thread has met have their rows. *)
RowsWritten ==
  /\ status # "running" => DOMAIN stringMap = {}
  /\ \A x \in DOMAIN stringMap : [by |-> thread, id |-> stringMap[x], str |-> x] \in Written

(* A record has its row, a later thread emptied a file, or the row is lost *)
(* with the thread that held it back.                                      *)
HasRow(r) ==
  \/ RowOf(r) \in Written
  \/ \E z \in StringStreams : disk[z].strings.by > r.by
  \/ status = "killed" /\ r.by = thread

AllHaveRows == \A s \in StringStreams : \A r \in Kept(s) : HasRow(r)

IInv ==
  /\ Shapes
  /\ BuffersFit
  /\ NumbersKept
  /\ IdsKept
  /\ IdsDense
  /\ MetRight
  /\ MetAgree
  /\ OncePlaced
  /\ Opened
  /\ RowsWritten
  /\ AllHaveRows

-----------------------------------------------------------------------------
(* Sequences, streams and steps *)

(* The elements of sequences. *)
LEMMA Elements ==
  ASSUME NEW S
  PROVE  /\ ToSet(<< >>) = {}
         /\ \A x \in S : ToSet(<<x>>) = {x}
         /\ \A q \in Seq(S) : ToSet(q) \subseteq S
         /\ \A q \in Seq(S) : q \o << >> = q /\ << >> \o q = q
         /\ \A q \in Seq(S), x \in S : ToSet(Append(q, x)) = ToSet(q) \cup {x}
         /\ \A p, q \in Seq(S) : ToSet(p \o q) = ToSet(p) \cup ToSet(q)
<1>1. ToSet(<< >>) = {} /\ \A x \in S : ToSet(<<x>>) = {x}
  BY DEF ToSet
<1>2. \A q \in Seq(S) : ToSet(q) \subseteq S
  BY DEF ToSet
<1>3. \A q \in Seq(S) : q \o << >> = q /\ << >> \o q = q
  BY ConcatEmptySeq
<1>4. ASSUME NEW q \in Seq(S), NEW x \in S
      PROVE  ToSet(Append(q, x)) = ToSet(q) \cup {x}
  <2>1. /\ DOMAIN q = 1..Len(q) /\ Len(q) \in Nat
        /\ DOMAIN Append(q, x) = 1..(Len(q) + 1)
        /\ \A i \in 1..Len(q) : Append(q, x)[i] = q[i]
        /\ Append(q, x)[Len(q) + 1] = x
    BY AppendProperties, LenProperties
  <2>2. ASSUME NEW y PROVE y \in ToSet(Append(q, x)) <=> y \in ToSet(q) \cup {x}
    <3>1. y \in ToSet(Append(q, x)) <=> \E i \in 1..(Len(q) + 1) : y = Append(q, x)[i]
      BY <2>1 DEF ToSet
    <3>2. y \in ToSet(q) <=> \E i \in 1..Len(q) : y = q[i]
      BY <2>1 DEF ToSet
    <3>3. \A i \in 1..(Len(q) + 1) : i \in 1..Len(q) \/ i = Len(q) + 1
      BY <2>1
    <3>4. Len(q) + 1 \in 1..(Len(q) + 1) /\ 1..Len(q) \subseteq 1..(Len(q) + 1)
      BY <2>1
    <3>. QED
      BY <2>1, <3>1, <3>2, <3>3, <3>4
  <2>. QED
    BY <2>2
<1>5. ASSUME NEW p \in Seq(S), NEW q \in Seq(S)
      PROVE  ToSet(p \o q) = ToSet(p) \cup ToSet(q)
  <2>1. /\ DOMAIN p = 1..Len(p) /\ Len(p) \in Nat
        /\ DOMAIN q = 1..Len(q) /\ Len(q) \in Nat
        /\ DOMAIN (p \o q) = 1..(Len(p) + Len(q))
        /\ \A i \in 1..(Len(p) + Len(q)) :
             (p \o q)[i] = IF i <= Len(p) THEN p[i] ELSE q[i - Len(p)]
    BY ConcatProperties, LenProperties
  <2>2. ASSUME NEW y PROVE y \in ToSet(p \o q) <=> y \in ToSet(p) \cup ToSet(q)
    <3>1. y \in ToSet(p \o q) <=> \E i \in 1..(Len(p) + Len(q)) : y = (p \o q)[i]
      BY <2>1 DEF ToSet
    <3>2. /\ y \in ToSet(p) <=> \E i \in 1..Len(p) : y = p[i]
          /\ y \in ToSet(q) <=> \E i \in 1..Len(q) : y = q[i]
      BY <2>1 DEF ToSet
    <3>3. ASSUME NEW i \in 1..(Len(p) + Len(q)), y = (p \o q)[i]
          PROVE  y \in ToSet(p) \cup ToSet(q)
      <4>1. CASE i <= Len(p)
        BY <2>1, <3>2, <3>3, <4>1
      <4>2. CASE ~(i <= Len(p))
        <5>1. i - Len(p) \in 1..Len(q)
          BY <2>1, <4>2
        <5>. QED
          BY <2>1, <3>2, <3>3, <4>2, <5>1
      <4>. QED
        BY <4>1, <4>2
    <3>4. ASSUME NEW i \in 1..Len(p), y = p[i] PROVE y \in ToSet(p \o q)
      <4>1. i \in 1..(Len(p) + Len(q)) /\ i <= Len(p)
        BY <2>1
      <4>. QED
        BY <2>1, <3>1, <3>4, <4>1
    <3>5. ASSUME NEW i \in 1..Len(q), y = q[i] PROVE y \in ToSet(p \o q)
      <4>1. PICK j : j = Len(p) + i
        OBVIOUS
      <4>2. j \in 1..(Len(p) + Len(q)) /\ ~(j <= Len(p)) /\ j - Len(p) = i
        BY <2>1, <4>1
      <4>. QED
        BY <2>1, <3>1, <3>5, <4>2
    <3>. QED
      BY <3>1, <3>2, <3>3, <3>4, <3>5
  <2>. QED
    BY <2>2
<1>. QED
  BY <1>1, <1>2, <1>3, <1>4, <1>5

(* Appending to a part of a sequence. *)
LEMMA ConcatAppend ==
  ASSUME NEW S, NEW p \in Seq(S), NEW q \in Seq(S), NEW x \in S
  PROVE  p \o Append(q, x) = Append(p \o q, x)
OBVIOUS

(* What a stream of numbers is given. *)
RangeOf(s) ==
  IF s.float THEN 0 .. 2 * Sign(s.wide) - 1 ELSE -Sign(s.wide) .. Sign(s.wide) - 1

(* Streams tell strings from numbers, and numbers by width and kind. *)
LEMMA StreamParts ==
  /\ \A static, put \in BOOLEAN : Stream(static, put, "Jstring") \in StringStreams
  /\ \A static, put \in BOOLEAN, type \in Types :
       /\ Stream(static, put, type) \in Streams \ StringStreams
       /\ Values(type) = RangeOf(Stream(static, put, type))
<1>1. \A static, put \in BOOLEAN : Stream(static, put, "Jstring") \in StringStreams
  <2>. SUFFICES ASSUME NEW static \in BOOLEAN, NEW put \in BOOLEAN
                PROVE  Stream(static, put, "Jstring") \in StringStreams
    OBVIOUS
  <2>1. Stream(static, put, "Jstring") \in Streams
    BY DEF Streams
  <2>2. Stream(static, put, "Jstring").string = TRUE
    BY DEF Stream
  <2>. QED
    BY <2>1, <2>2 DEF StringStreams
<1>2. ASSUME NEW static \in BOOLEAN, NEW put \in BOOLEAN, NEW type \in Types
      PROVE  /\ Stream(static, put, type) \in Streams \ StringStreams
             /\ Values(type) = RangeOf(Stream(static, put, type))
  <2>1. Stream(static, put, type) \in Streams
    BY DEF Streams
  <2>2. type # "Jstring"
    BY DEF Types
  <2>3. /\ Stream(static, put, type).string = FALSE
        /\ Stream(static, put, type).wide = Wide(type)
        /\ Stream(static, put, type).float = (type \in {"Jfloat", "Jdouble"})
    BY <2>2 DEF Stream
  <2>. QED
    BY <2>1, <2>3 DEF StringStreams, Values, RangeOf
<1>. QED
  BY <1>1, <1>2

(* Half of a word is a number. *)
LEMMA SignType ==
  ASSUME NEW wide
  PROVE  Sign(wide) \in Nat \ {0}
BY HalfAssumption DEF Sign

(* A stored number decodes to itself. *)
LEMMA Decodes ==
  ASSUME NEW s, NEW v \in RangeOf(s)
  PROVE  /\ v \in Int
         /\ Stored(s, v) \in 0 .. 2 * Sign(s.wide) - 1
         /\ Decoded(s, Stored(s, v)) = v
<1>1. PICK h \in Nat \ {0} : h = Sign(s.wide)
  BY SignType
<1>2. v \in Int
  BY <1>1 DEF RangeOf
<1>3. v % (2 * h) \in 0 .. 2 * h - 1
  BY <1>1, <1>2
<1>4. CASE s.float
  <2>1. v \in 0 .. 2 * h - 1
    BY <1>1, <1>4 DEF RangeOf
  <2>2. v % (2 * h) = v
    BY <1>1, <2>1
  <2>. QED
    BY <1>1, <1>2, <1>3, <1>4, <2>2 DEF Stored, Decoded
<1>5. CASE ~s.float
  <2>1. v \in -h .. h - 1
    BY <1>1, <1>5 DEF RangeOf
  <2>2. v % (2 * h) = IF v >= 0 THEN v ELSE v + 2 * h
    BY <1>1, <2>1
  <2>3. (IF v % (2 * h) >= h THEN (v % (2 * h)) - 2 * h ELSE v % (2 * h)) = v
    BY <1>1, <2>1, <2>2
  <2>. QED
    BY <1>1, <1>2, <1>3, <1>5, <2>3 DEF Stored, Decoded
<1>. QED
  BY <1>4, <1>5

(* The steps of the system, as the proofs below tell them apart. *)
LEMMA StepCases ==
  ASSUME [Next]_vars
  PROVE  \/ \E s \in Streams \ StringStreams : \E v \in RangeOf(s) : AddNumber(s, v)
         \/ \E s \in StringStreams, str \in Str : KnownString(s, str)
         \/ \E s \in StringStreams, str \in Str, fits \in BOOLEAN : NewString(s, str, fits)
         \/ ThreadExit \/ NextThread \/ ProcessExit
         \/ UNCHANGED vars
BY StreamParts
   DEF Next, addFieldValueRecord, addStaticFieldValueRecord,
       addFieldValueRecordJstring, addStaticFieldValueRecordJstring

-----------------------------------------------------------------------------
(* What the operations do to memory and files *)

(* add() adds the record, and may drop those of an earlier thread. *)
LEMMA AddParts ==
  ASSUME NEW m \in Memory, NEW d \in Files, NEW rec \in AnyRecord, thread \in Nat
  PROVE  /\ Added(m, rec) \in Memory /\ Synced(d, m) \in Files
         /\ Added(m, rec).pending = m.pending /\ Added(m, rec).fstrout = m.fstrout
         /\ Len(Added(m, rec).buffer) <= Limit
         /\ Synced(d, m).strings = d.strings
         /\ ToSet(Synced(d, m).records.rows) \cup ToSet(Added(m, rec).buffer)
              \subseteq ToSet(d.records.rows) \cup ToSet(m.buffer) \cup {rec}
<1>0. /\ m.buffer \in Seq(AnyRecord) /\ d.records.rows \in Seq(AnyRecord)
      /\ d.records \in [by : Nat, rows : Seq(AnyRecord)] /\ m.fout \in BOOLEAN
      /\ << >> \in Seq(AnyRecord)
  BY DEF Memory, Files
<1>1. CASE Full(m)
  <2>1. <<rec>> \in Seq(AnyRecord) /\ Len(<<rec>>) = 1
    OBVIOUS
  <2>2. Added(m, rec) = [m EXCEPT !.buffer = <<rec>>, !.fout = TRUE]
    BY <1>1 DEF Added, Memory
  <2>3. PICK rows \in Seq(AnyRecord) :
          /\ rows = (IF m.fout THEN d.records.rows ELSE << >>) \o m.buffer
          /\ ToSet(rows) \subseteq ToSet(d.records.rows) \cup ToSet(m.buffer)
    <3>1. d.records.rows \o m.buffer \in Seq(AnyRecord) /\ << >> \o m.buffer = m.buffer
      BY <1>0, ConcatProperties, Elements
    <3>2. ToSet(d.records.rows \o m.buffer) = ToSet(d.records.rows) \cup ToSet(m.buffer)
      BY <1>0, Elements
    <3>. QED
      BY <1>0, <3>1, <3>2
  <2>4. Synced(d, m) = [d EXCEPT !.records = [by |-> thread, rows |-> rows]]
    BY <1>1, <2>3 DEF Synced, Extended
  <2>5. ToSet(<<rec>>) = {rec}
    BY Elements
  <2>6. /\ Added(m, rec) \in Memory /\ Added(m, rec).buffer = <<rec>>
        /\ Added(m, rec).pending = m.pending /\ Added(m, rec).fstrout = m.fstrout
    BY <2>1, <2>2 DEF Memory
  <2>7. /\ Synced(d, m) \in Files /\ Synced(d, m).strings = d.strings
        /\ Synced(d, m).records.rows = rows
    <3>1. PICK f \in [by : Nat, rows : Seq(AnyRecord)] : f = [by |-> thread, rows |-> rows]
      BY <2>3
    <3>2. f.rows = rows /\ Synced(d, m) = [d EXCEPT !.records = f]
      BY <2>4, <3>1
    <3>. QED
      BY <3>2 DEF Files
  <2>8. Len(Added(m, rec).buffer) <= Limit
    BY <2>1, <2>6, LimitAssumption
  <2>. QED
    BY <2>3, <2>5, <2>6, <2>7, <2>8
<1>2. CASE ~Full(m)
  <2>1. /\ Append(m.buffer, rec) \in Seq(AnyRecord)
        /\ Len(Append(m.buffer, rec)) = Len(m.buffer) + 1 /\ Len(m.buffer) \in Nat
    BY <1>0, AppendProperties, LenProperties
  <2>2. Added(m, rec) = [m EXCEPT !.buffer = Append(m.buffer, rec)]
    BY <1>0, <1>2 DEF Added, Memory
  <2>3. Synced(d, m) = d
    BY <1>2 DEF Synced, Files
  <2>4. ToSet(Append(m.buffer, rec)) = ToSet(m.buffer) \cup {rec}
    BY <1>0, Elements
  <2>5. /\ Added(m, rec) \in Memory /\ Added(m, rec).buffer = Append(m.buffer, rec)
        /\ Added(m, rec).pending = m.pending /\ Added(m, rec).fstrout = m.fstrout
    BY <2>1, <2>2 DEF Memory
  <2>6. Len(Added(m, rec).buffer) <= Limit
    BY <1>2, <2>1, <2>5, LimitAssumption DEF Full
  <2>. QED
    BY <2>3, <2>4, <2>5, <2>6
<1>. QED
  BY <1>1, <1>2

(* n and e are m and d with one row more, without those of earlier threads. *)
RowAdded(m, d, row, n, e) ==
  /\ n \in Memory /\ e \in Files
  /\ n.buffer = m.buffer /\ n.fstrout = TRUE
  /\ e.records = d.records /\ e.strings.by = thread
  /\ ToSet(n.pending) \subseteq ToSet(m.pending) \cup {row}
  /\ e.strings.rows \o n.pending =
       IF m.fstrout THEN Append(d.strings.rows \o m.pending, row) ELSE <<row>>

(* addString() adds the row, and drops the rows of an earlier thread. *)
LEMMA RowParts ==
  ASSUME NEW m \in Memory, NEW d \in Files, NEW row \in Row, NEW fits, thread \in Nat,
         ~m.fstrout => m.pending = << >>
  PROVE  RowAdded(m, d, row, WithRow(m, row, fits), RowSynced(d, m, row, fits))
<1>0. /\ m.pending \in Seq(Row) /\ d.strings.rows \in Seq(Row) /\ m.fstrout \in BOOLEAN
      /\ d.strings \in [by : Nat, rows : Seq(Row)]
      /\ << >> \in Seq(Row) /\ <<row>> \in Seq(Row)
  BY DEF Memory, Files
<1>1. PICK p \in Seq(Row) : p = IF fits THEN Append(m.pending, row) ELSE << >>
  BY <1>0, AppendProperties
<1>2. PICK w \in Seq(Row) : w = IF fits THEN << >> ELSE Append(m.pending, row)
  BY <1>0, AppendProperties
<1>3. PICK old \in Seq(Row) : old = IF m.fstrout THEN d.strings.rows ELSE << >>
  BY <1>0
<1>4. old \o w \in Seq(Row)
  BY ConcatProperties
<1>5. /\ WithRow(m, row, fits) \in Memory
      /\ WithRow(m, row, fits).buffer = m.buffer /\ WithRow(m, row, fits).fstrout = TRUE
      /\ WithRow(m, row, fits).pending = p
  BY <1>1 DEF WithRow, Memory
<1>6. RowSynced(d, m, row, fits) = [d EXCEPT !.strings = [by |-> thread, rows |-> old \o w]]
  BY <1>2, <1>3 DEF RowSynced, Extended
<1>7. /\ RowSynced(d, m, row, fits) \in Files
      /\ RowSynced(d, m, row, fits).records = d.records
      /\ RowSynced(d, m, row, fits).strings.by = thread
      /\ RowSynced(d, m, row, fits).strings.rows = old \o w
  <2>1. PICK f \in [by : Nat, rows : Seq(Row)] : f = [by |-> thread, rows |-> old \o w]
    BY <1>4
  <2>2. /\ f.by = thread /\ f.rows = old \o w
        /\ RowSynced(d, m, row, fits) = [d EXCEPT !.strings = f]
    BY <1>6, <2>1
  <2>. QED
    BY <2>2 DEF Files
<1>8. ToSet(p) \subseteq ToSet(m.pending) \cup {row}
  BY <1>0, <1>1, Elements
<1>9. (old \o w) \o p = Append(old \o m.pending, row)
  <2>2. (old \o w) \o p = old \o Append(m.pending, row)
    <3>1. /\ old \o << >> = old
          /\ (old \o Append(m.pending, row)) \o << >> = old \o Append(m.pending, row)
      BY <1>0, ConcatEmptySeq, ConcatProperties, AppendProperties
    <3>. QED
      BY <1>1, <1>2, <3>1
  <2>3. old \o Append(m.pending, row) = Append(old \o m.pending, row)
    BY <1>0, ConcatAppend
  <2>. QED
    BY <2>2, <2>3
<1>10. ~m.fstrout => Append(old \o m.pending, row) = <<row>>
  <2>1. << >> \o << >> = << >> /\ Append(<< >>, row) = <<row>>
    OBVIOUS
  <2>. QED
    BY <1>3, <2>1
<1>. QED
  BY <1>3, <1>5, <1>7, <1>8, <1>9, <1>10 DEF RowAdded

(* A record is added to stream s; its rows stay. *)
Adds(s, rec) ==
  /\ memory' \in [Streams -> Memory] /\ disk' \in [Streams -> Files]
  /\ BuffersFit'
  /\ \A z \in Streams :
       /\ z # s => memory'[z] = memory[z] /\ disk'[z] = disk[z]
       /\ Kept(z)' \subseteq IF z = s THEN Kept(z) \cup {rec} ELSE Kept(z)

KeepsRows ==
  \A z \in Streams :
    /\ memory'[z].pending = memory[z].pending /\ memory'[z].fstrout = memory[z].fstrout
    /\ disk'[z].strings = disk[z].strings

(* What add() does to the stream it is called for, and to the others. *)
LEMMA AddEffect ==
  ASSUME IInv, NEW s \in Streams, NEW rec \in AnyRecord,
         memory' = [memory EXCEPT ![s] = Added(@, rec)],
         disk' = [disk EXCEPT ![s] = Synced(@, memory[s])]
  PROVE  Adds(s, rec) /\ KeepsRows
<1>0. /\ memory \in [Streams -> Memory] /\ disk \in [Streams -> Files] /\ thread \in Nat
      /\ BuffersFit
  BY DEF IInv, Shapes
<1>1. PICK m, d : m = Added(memory[s], rec) /\ d = Synced(disk[s], memory[s])
  OBVIOUS
<1>2. /\ m \in Memory /\ d \in Files
      /\ m.pending = memory[s].pending /\ m.fstrout = memory[s].fstrout
      /\ Len(m.buffer) <= Limit
      /\ d.strings = disk[s].strings
      /\ ToSet(d.records.rows) \cup ToSet(m.buffer) \subseteq Kept(s) \cup {rec}
  BY <1>0, <1>1, AddParts DEF Kept
<1>3. memory' = [memory EXCEPT ![s] = m] /\ disk' = [disk EXCEPT ![s] = d]
  BY <1>1
<1>4. /\ memory' \in [Streams -> Memory] /\ disk' \in [Streams -> Files]
      /\ memory'[s] = m /\ disk'[s] = d
      /\ \A z \in Streams : z # s => memory'[z] = memory[z] /\ disk'[z] = disk[z]
  BY <1>0, <1>2, <1>3
<1>5. BuffersFit'
  BY <1>0, <1>2, <1>4 DEF BuffersFit
<1>6. \A z \in Streams : Kept(z)' \subseteq IF z = s THEN Kept(z) \cup {rec} ELSE Kept(z)
  BY <1>2, <1>4 DEF Kept
<1>. QED
  BY <1>2, <1>4, <1>5, <1>6 DEF Adds, KeepsRows

(* The record of a string. *)
LEMMA StringRecordParts ==
  ASSUME NEW str \in Str, NEW id \in Nat, thread \in Nat
  PROVE  /\ StringRecord(str, id) \in StringRecords
         /\ StringRecord(str, id).data = id % IdSpace
         /\ StringRecord(str, id).by = thread
         /\ StringRecord(str, id).id = id /\ StringRecord(str, id).of = str
         /\ RowOf(StringRecord(str, id)) = [by |-> thread, id |-> id, str |-> str]
<1>1. id % IdSpace \in Int
  BY IdSpaceAssumption
<1>. QED
  BY <1>1 DEF StringRecord, StringRecords, RowOf

(* A number is recorded. *)
LEMMA NumberEffect ==
  ASSUME IInv, NEW s \in Streams \ StringStreams, NEW v \in RangeOf(s), AddNumber(s, v)
  PROVE  \E rec \in AnyRecord : Adds(s, rec) /\ KeepsRows /\ NumberKept(s, rec)
<1>. DEFINE rec == [by |-> thread, data |-> Stored(s, v), of |-> v]
<1>0. thread \in Nat
  BY DEF IInv, Shapes
<1>1. /\ v \in Int /\ Stored(s, v) \in 0 .. 2 * Sign(s.wide) - 1
      /\ Decoded(s, Stored(s, v)) = v
  BY Decodes
<1>2. Stored(s, v) \in Int
  BY <1>1, SignType
<1>3. rec \in AnyRecord /\ rec.data = Stored(s, v) /\ rec.of = v
  BY <1>0, <1>1, <1>2 DEF AnyRecord, NumberRecords
<1>4. /\ memory' = [memory EXCEPT ![s] = Added(@, rec)]
      /\ disk' = [disk EXCEPT ![s] = Synced(@, memory[s])]
  BY DEF AddNumber
<1>. HIDE DEF rec
<1>5. Adds(s, rec) /\ KeepsRows
  BY <1>3, <1>4, AddEffect
<1>. QED
  BY <1>1, <1>3, <1>5 DEF NumberKept

(* A string that was met before is recorded. *)
LEMMA KnownEffect ==
  ASSUME IInv, NEW s \in StringStreams, NEW str \in Str, KnownString(s, str)
  PROVE  \E rec \in StringRecords :
           /\ Adds(s, rec) /\ KeepsRows
           /\ rec.data = rec.id % IdSpace /\ rec.by = thread
           /\ RowOf(rec) = [by |-> thread, id |-> stringMap[str], str |-> str]
<1>1. str \in DOMAIN stringMap /\ thread \in Nat
  BY DEF KnownString, IInv, Shapes
<1>2. Cardinality(DOMAIN stringMap) \in Nat
  BY FS_CardinalityType DEF IInv, Shapes
<1>3. stringMap[str] \in Nat
  BY <1>1, <1>2 DEF IInv, IdsDense
<1>4. PICK rec : rec = StringRecord(str, stringMap[str])
  OBVIOUS
<1>5. /\ rec \in StringRecords
      /\ rec.data = rec.id % IdSpace /\ rec.by = thread
      /\ RowOf(rec) = [by |-> thread, id |-> stringMap[str], str |-> str]
  BY <1>1, <1>3, <1>4, StringRecordParts
<1>6. rec \in AnyRecord /\ s \in Streams
  BY <1>5 DEF AnyRecord, StringStreams
<1>7. /\ memory' = [memory EXCEPT ![s] = Added(@, rec)]
      /\ disk' = [disk EXCEPT ![s] = Synced(@, memory[s])]
  BY <1>4 DEF KnownString
<1>8. Adds(s, rec) /\ KeepsRows
  BY <1>6, <1>7, AddEffect
<1>. QED
  BY <1>5, <1>8

(* A string that was not met before is recorded, with its row. *)
LEMMA NewEffect ==
  ASSUME IInv, NEW s \in StringStreams, NEW str \in Str, NEW fits \in BOOLEAN,
         NewString(s, str, fits)
  PROVE  LET row == [by |-> thread, id |-> Cardinality(DOMAIN stringMap), str |-> str]
         IN  /\ str \notin DOMAIN stringMap /\ row \in Row
             /\ stringMap' = Remember(str, Cardinality(DOMAIN stringMap))
             /\ \E rec \in StringRecords :
                  /\ Adds(s, rec)
                  /\ rec.data = rec.id % IdSpace /\ rec.by = thread
                  /\ RowOf(rec) = row
             /\ memory'[s].fstrout /\ disk'[s].strings.by = thread
             /\ ToSet(memory'[s].pending) \subseteq ToSet(memory[s].pending) \cup {row}
             /\ Table(s)' = IF memory[s].fstrout THEN Append(Table(s), row) ELSE <<row>>
<1>0. /\ memory \in [Streams -> Memory] /\ disk \in [Streams -> Files] /\ thread \in Nat
      /\ BuffersFit /\ s \in Streams
      /\ ~memory[s].fstrout => memory[s].pending = << >>
  BY DEF IInv, Shapes, StringStreams, Opened
<1>1. PICK id \in Nat : id = Cardinality(DOMAIN stringMap)
  BY FS_CardinalityType DEF IInv, Shapes
<1>2. PICK row \in Row : row = [by |-> thread, id |-> id, str |-> str]
  BY <1>0 DEF Row
<1>3. PICK rec : rec = StringRecord(str, id)
  OBVIOUS
<1>4. /\ rec \in StringRecords
      /\ rec.data = rec.id % IdSpace /\ rec.by = thread
      /\ RowOf(rec) = row
  BY <1>0, <1>2, <1>3, StringRecordParts
<1>5. PICK m, d : m = WithRow(memory[s], row, fits) /\ d = RowSynced(disk[s], memory[s], row, fits)
  OBVIOUS
<1>6. /\ m \in Memory /\ d \in Files
      /\ m.buffer = memory[s].buffer /\ m.fstrout = TRUE
      /\ d.records = disk[s].records /\ d.strings.by = thread
      /\ ToSet(m.pending) \subseteq ToSet(memory[s].pending) \cup {row}
      /\ d.strings.rows \o m.pending =
           IF memory[s].fstrout THEN Append(Table(s), row) ELSE <<row>>
  <2>1. PICK u \in Memory, e \in Files : u = memory[s] /\ e = disk[s]
    BY <1>0
  <2>2. ~u.fstrout => u.pending = << >>
    BY <1>0, <2>1
  <2>3. m = WithRow(u, row, fits) /\ d = RowSynced(e, u, row, fits)
    BY <1>5, <2>1
  <2>4. RowAdded(u, e, row, m, d)
    BY <1>0, <2>2, <2>3, RowParts
  <2>. QED
    BY <2>1, <2>4 DEF Table, RowAdded
<1>7. PICK n, e : n = Added(m, rec) /\ e = Synced(d, m)
  OBVIOUS
<1>8. /\ n \in Memory /\ e \in Files
      /\ n.pending = m.pending /\ n.fstrout = m.fstrout
      /\ Len(n.buffer) <= Limit
      /\ e.strings = d.strings
      /\ ToSet(e.records.rows) \cup ToSet(n.buffer) \subseteq Kept(s) \cup {rec}
  <2>1. rec \in AnyRecord
    BY <1>4 DEF AnyRecord
  <2>. QED
    BY <1>0, <1>6, <1>7, <2>1, AddParts DEF Kept
<1>9. /\ str \notin DOMAIN stringMap
      /\ memory' = [memory EXCEPT ![s] = n] /\ disk' = [disk EXCEPT ![s] = e]
      /\ stringMap' = Remember(str, id)
  BY <1>1, <1>2, <1>3, <1>5, <1>7 DEF NewString, NextId
<1>10. /\ memory' \in [Streams -> Memory] /\ disk' \in [Streams -> Files]
       /\ memory'[s] = n /\ disk'[s] = e
       /\ \A z \in Streams : z # s => memory'[z] = memory[z] /\ disk'[z] = disk[z]
  BY <1>0, <1>8, <1>9
<1>11. BuffersFit'
  BY <1>0, <1>8, <1>10 DEF BuffersFit
<1>12. \A z \in Streams : Kept(z)' \subseteq IF z = s THEN Kept(z) \cup {rec} ELSE Kept(z)
  BY <1>8, <1>10 DEF Kept
<1>13. Adds(s, rec)
  BY <1>10, <1>11, <1>12 DEF Adds
<1>14. Table(s)' = IF memory[s].fstrout THEN Append(Table(s), row) ELSE <<row>>
  BY <1>6, <1>8, <1>10 DEF Table
<1>15. /\ memory'[s].fstrout /\ disk'[s].strings.by = thread
       /\ ToSet(memory'[s].pending) \subseteq ToSet(memory[s].pending) \cup {row}
  BY <1>6, <1>8, <1>10
<1>. QED
  BY <1>1, <1>2, <1>4, <1>9, <1>13, <1>14, <1>15

(* No stream has anything in memory. *)
Forgotten ==
  \A z \in Streams :
    /\ memory'[z].buffer = << >> /\ memory'[z].pending = << >>
    /\ ~memory'[z].fstrout /\ ~memory'[z].fout

(* A thread that ends leaves all rows in the files. *)
LEMMA ExitEffect ==
  ASSUME IInv, ThreadExit
  PROVE  /\ memory' \in [Streams -> Memory] /\ disk' \in [Streams -> Files]
         /\ Forgotten
         /\ \A z \in Streams :
              /\ Kept(z)' \subseteq Kept(z)
              /\ Table(z)' = Table(z) /\ disk'[z].strings.by = disk[z].strings.by
<1>0. /\ memory \in [Streams -> Memory] /\ disk \in [Streams -> Files] /\ thread \in Nat
      /\ Opened
  BY DEF IInv, Shapes
<1>1. memory' \in [Streams -> Memory] /\ Forgotten
  <2>1. memory' = Fresh
    BY DEF ThreadExit
  <2>2. << >> \in Seq(AnyRecord) /\ << >> \in Seq(Row)
    OBVIOUS
  <2>. QED
    BY <2>1, <2>2 DEF Fresh, Memory, Forgotten
<1>2. disk' = [z \in Streams |-> Closed(disk[z], memory[z])]
  BY DEF ThreadExit
<1>3. ASSUME NEW z \in Streams
      PROVE  /\ Closed(disk[z], memory[z]) \in Files
             /\ ToSet(Closed(disk[z], memory[z]).records.rows) \subseteq Kept(z)
             /\ Closed(disk[z], memory[z]).strings.rows = Table(z)
             /\ Closed(disk[z], memory[z]).strings.by = disk[z].strings.by
  <2>1. PICK d \in Files, m \in Memory : d = disk[z] /\ m = memory[z]
    BY <1>0
  <2>2. /\ m.buffer \in Seq(AnyRecord) /\ d.records.rows \in Seq(AnyRecord)
        /\ d.records \in [by : Nat, rows : Seq(AnyRecord)]
        /\ m.pending \in Seq(Row) /\ d.strings.rows \in Seq(Row)
        /\ d.strings \in [by : Nat, rows : Seq(Row)]
        /\ << >> \in Seq(AnyRecord)
    BY DEF Memory, Files
  <2>3. PICK f \in [by : Nat, rows : Seq(AnyRecord)] :
          /\ f = IF m.buffer # << >> THEN Extended(d.records, m.fout, m.buffer) ELSE d.records
          /\ ToSet(f.rows) \subseteq ToSet(d.records.rows) \cup ToSet(m.buffer)
    <3>1. PICK rows \in Seq(AnyRecord) :
            /\ rows = (IF m.fout THEN d.records.rows ELSE << >>) \o m.buffer
            /\ ToSet(rows) \subseteq ToSet(d.records.rows) \cup ToSet(m.buffer)
      <4>1. d.records.rows \o m.buffer \in Seq(AnyRecord) /\ << >> \o m.buffer = m.buffer
        BY <2>2, ConcatProperties, Elements
      <4>2. ToSet(d.records.rows \o m.buffer) = ToSet(d.records.rows) \cup ToSet(m.buffer)
        BY <2>2, Elements
      <4>. QED
        BY <2>2, <4>1, <4>2
    <3>2. Extended(d.records, m.fout, m.buffer) = [by |-> thread, rows |-> rows]
      BY <3>1 DEF Extended
    <3>3. PICK x \in [by : Nat, rows : Seq(AnyRecord)] : x = [by |-> thread, rows |-> rows]
      BY <1>0
    <3>4. x.rows = rows /\ Extended(d.records, m.fout, m.buffer) = x
      BY <3>2, <3>3
    <3>. QED
      BY <2>2, <3>1, <3>4
  <2>4. PICK g \in [by : Nat, rows : Seq(Row)] :
          /\ g = IF m.fstrout THEN Extended(d.strings, TRUE, m.pending) ELSE d.strings
          /\ g.rows = d.strings.rows \o m.pending /\ g.by = d.strings.by
    <3>1. CASE m.fstrout
      <4>1. d.strings.rows \o m.pending \in Seq(Row)
        BY <2>2, ConcatProperties
      <4>2. Extended(d.strings, TRUE, m.pending) = [by |-> thread, rows |-> d.strings.rows \o m.pending]
        BY DEF Extended
      <4>3. d.strings.by = thread
        BY <1>0, <2>1, <3>1 DEF Opened
      <4>4. PICK x \in [by : Nat, rows : Seq(Row)] :
              x = [by |-> thread, rows |-> d.strings.rows \o m.pending]
        BY <1>0, <4>1
      <4>5. /\ x.rows = d.strings.rows \o m.pending /\ x.by = thread
            /\ Extended(d.strings, TRUE, m.pending) = x
        BY <4>2, <4>4
      <4>. QED
        BY <3>1, <4>3, <4>5
    <3>2. CASE ~m.fstrout
      <4>1. m.pending = << >>
        BY <1>0, <2>1, <3>2 DEF Opened
      <4>2. d.strings.rows \o << >> = d.strings.rows
        BY <2>2, Elements
      <4>. QED
        BY <2>2, <3>2, <4>1, <4>2
    <3>. QED
      BY <3>1, <3>2
  <2>5. Closed(d, m) = [records |-> f, strings |-> g]
    BY <2>3, <2>4 DEF Closed
  <2>6. Closed(d, m) \in Files /\ Closed(d, m).records = f /\ Closed(d, m).strings = g
    BY <2>5 DEF Files
  <2>. QED
    BY <2>1, <2>3, <2>4, <2>6 DEF Kept, Table
<1>4. disk' \in [Streams -> Files]
  BY <1>2, <1>3
<1>5. ASSUME NEW z \in Streams
      PROVE  /\ Kept(z)' \subseteq Kept(z)
             /\ Table(z)' = Table(z) /\ disk'[z].strings.by = disk[z].strings.by
  <2>1. disk'[z] = Closed(disk[z], memory[z])
    BY <1>2
  <2>2. disk'[z].strings.rows = Table(z) /\ disk'[z].strings.rows \in Seq(Row)
    BY <1>3, <1>4, <2>1 DEF Files
  <2>3. Table(z)' = disk'[z].strings.rows \o << >>
    BY <1>1 DEF Table, Forgotten
  <2>4. Kept(z)' = ToSet(disk'[z].records.rows) \cup ToSet(<< >>)
    BY <1>1 DEF Kept, Forgotten
  <2>. QED
    BY <1>3, <2>1, <2>2, <2>3, <2>4, Elements
<1>. QED
  BY <1>1, <1>4, <1>5

(* A process that ends leaves the files as they are. *)
LEMMA KillEffect ==
  ASSUME IInv, ProcessExit
  PROVE  /\ memory' \in [Streams -> Memory] /\ disk' = disk
         /\ Forgotten
         /\ \A z \in Streams :
              Kept(z)' \subseteq Kept(z) /\ Table(z)' = disk[z].strings.rows
<1>0. disk \in [Streams -> Files]
  BY DEF IInv, Shapes
<1>1. memory' \in [Streams -> Memory] /\ Forgotten
  <2>1. memory' = Fresh
    BY DEF ProcessExit
  <2>2. << >> \in Seq(AnyRecord) /\ << >> \in Seq(Row)
    OBVIOUS
  <2>. QED
    BY <2>1, <2>2 DEF Fresh, Memory, Forgotten
<1>2. disk' = disk
  BY DEF ProcessExit
<1>3. ASSUME NEW z \in Streams
      PROVE  Kept(z)' \subseteq Kept(z) /\ Table(z)' = disk[z].strings.rows
  <2>1. disk[z].strings.rows \in Seq(Row)
    BY <1>0 DEF Files
  <2>2. Table(z)' = disk[z].strings.rows \o << >>
    BY <1>1, <1>2 DEF Table, Forgotten
  <2>3. Kept(z)' = ToSet(disk[z].records.rows) \cup ToSet(<< >>)
    BY <1>1, <1>2 DEF Kept, Forgotten
  <2>. QED
    BY <2>1, <2>2, <2>3, Elements DEF Kept
<1>. QED
  BY <1>1, <1>2, <1>3

-----------------------------------------------------------------------------
(* The invariant, part by part *)

(* Variables keep their types, and buffers their bound. *)
LEMMA ShapesStep ==
  ASSUME IInv, [Next]_vars
  PROVE  Shapes' /\ BuffersFit'
<1>0. Shapes /\ BuffersFit
  BY DEF IInv
<1>1. ASSUME NEW s \in Streams \ StringStreams, NEW v \in RangeOf(s), AddNumber(s, v)
      PROVE  Shapes' /\ BuffersFit'
  <2>1. memory' \in [Streams -> Memory] /\ disk' \in [Streams -> Files] /\ BuffersFit'
    BY <1>1, NumberEffect DEF Adds
  <2>. QED
    BY <1>0, <1>1, <2>1, BoundsAssumption DEF AddNumber, Callback, Shapes
<1>2. ASSUME NEW s \in StringStreams, NEW str \in Str, KnownString(s, str)
      PROVE  Shapes' /\ BuffersFit'
  <2>1. memory' \in [Streams -> Memory] /\ disk' \in [Streams -> Files] /\ BuffersFit'
    BY <1>2, KnownEffect DEF Adds
  <2>. QED
    BY <1>0, <1>2, <2>1, BoundsAssumption DEF KnownString, Callback, Shapes
<1>3. ASSUME NEW s \in StringStreams, NEW str \in Str, NEW fits \in BOOLEAN,
             NewString(s, str, fits)
      PROVE  Shapes' /\ BuffersFit'
  <2>1. memory' \in [Streams -> Memory] /\ disk' \in [Streams -> Files] /\ BuffersFit'
    BY <1>3, NewEffect DEF Adds
  <2>2. DOMAIN stringMap' = DOMAIN stringMap \cup {str}
    <3>1. stringMap' = Remember(str, Cardinality(DOMAIN stringMap))
      BY <1>3, NewEffect
    <3>. QED
      BY <3>1 DEF Remember
  <2>3. DOMAIN stringMap' \subseteq Str /\ IsFiniteSet(DOMAIN stringMap')
    BY <1>0, <2>2, FS_AddElement DEF Shapes
  <2>4. UNCHANGED <<thread, status>> /\ adds' \in 0..MaxAdds
    BY <1>0, <1>3, BoundsAssumption DEF NewString, Callback, Shapes
  <2>. QED
    BY <1>0, <2>1, <2>3, <2>4 DEF Shapes
<1>4. CASE ThreadExit \/ ProcessExit
  <2>1. memory' \in [Streams -> Memory] /\ disk' \in [Streams -> Files]
    BY <1>0, <1>4, ExitEffect, KillEffect DEF Shapes
  <2>2. \A z \in Streams : memory'[z].buffer = << >>
    BY <1>4, ExitEffect, KillEffect DEF Forgotten
  <2>3. BuffersFit'
    BY <2>2, LimitAssumption DEF BuffersFit
  <2>4. DOMAIN stringMap' = {} /\ IsFiniteSet({})
    BY <1>4, FS_EmptySet DEF ThreadExit, ProcessExit
  <2>. QED
    BY <1>0, <1>4, <2>1, <2>3, <2>4 DEF ThreadExit, ProcessExit, Shapes
<1>5. CASE NextThread
  BY <1>0, <1>5, BoundsAssumption DEF NextThread, Shapes, BuffersFit
<1>6. CASE UNCHANGED vars
  BY <1>0, <1>6 DEF vars, Shapes, BuffersFit
<1>. QED
  BY <1>1, <1>2, <1>3, <1>4, <1>5, <1>6, StepCases

(* Records of numbers keep their numbers. *)
LEMMA NumbersStep ==
  ASSUME IInv, [Next]_vars
  PROVE  NumbersKept'
<1>0. NumbersKept
  BY DEF IInv
<1>1. ASSUME NEW s \in Streams \ StringStreams, NEW v \in RangeOf(s), AddNumber(s, v)
      PROVE  NumbersKept'
  <2>1. PICK rec \in AnyRecord : Adds(s, rec) /\ NumberKept(s, rec)
    BY <1>1, NumberEffect
  <2>. QED
    BY <1>0, <2>1 DEF NumbersKept, Adds, NumberKept, Decoded
<1>2. ASSUME NEW s \in StringStreams, NEW rec, Adds(s, rec)
      PROVE  NumbersKept'
  BY <1>0, <1>2 DEF NumbersKept, Adds, NumberKept, Decoded
<1>3. ASSUME \A z \in Streams : Kept(z)' \subseteq Kept(z)
      PROVE  NumbersKept'
  BY <1>0, <1>3 DEF NumbersKept, NumberKept, Decoded
<1>4. ASSUME NEW s \in StringStreams, NEW str \in Str, NEW fits \in BOOLEAN,
             NewString(s, str, fits)
      PROVE  NumbersKept'
  BY <1>2, <1>4, NewEffect
<1>5. ASSUME NEW s \in StringStreams, NEW str \in Str, KnownString(s, str)
      PROVE  NumbersKept'
  BY <1>2, <1>5, KnownEffect
<1>6. CASE ThreadExit \/ ProcessExit
  BY <1>3, <1>6, ExitEffect, KillEffect
<1>7. CASE NextThread \/ UNCHANGED vars
  BY <1>0, <1>7 DEF NextThread, vars, NumbersKept, NumberKept, Kept
<1>. QED
  BY <1>1, <1>4, <1>5, <1>6, <1>7, StepCases

(* Records of strings keep the low bits of their ids. *)
LEMMA IdsKeptStep ==
  ASSUME IInv, [Next]_vars
  PROVE  IdsKept'
<1>0. IdsKept /\ StringStreams \subseteq Streams
  BY DEF IInv, StringStreams
<1>1. ASSUME NEW s \in Streams \ StringStreams, NEW v \in RangeOf(s), AddNumber(s, v)
      PROVE  IdsKept'
  <2>1. PICK rec \in AnyRecord : Adds(s, rec)
    BY <1>1, NumberEffect
  <2>. QED
    BY <1>0, <2>1 DEF IdsKept, Adds
<1>2. ASSUME NEW s \in StringStreams, NEW rec \in StringRecords, Adds(s, rec),
             rec.data = rec.id % IdSpace
      PROVE  IdsKept'
  BY <1>0, <1>2 DEF IdsKept, Adds
<1>3. ASSUME \A z \in Streams : Kept(z)' \subseteq Kept(z)
      PROVE  IdsKept'
  BY <1>0, <1>3 DEF IdsKept
<1>4. ASSUME NEW s \in StringStreams, NEW str \in Str, NEW fits \in BOOLEAN,
             NewString(s, str, fits)
      PROVE  IdsKept'
  BY <1>2, <1>4, NewEffect
<1>5. ASSUME NEW s \in StringStreams, NEW str \in Str, KnownString(s, str)
      PROVE  IdsKept'
  BY <1>2, <1>5, KnownEffect
<1>6. CASE ThreadExit \/ ProcessExit
  BY <1>3, <1>6, ExitEffect, KillEffect
<1>7. CASE NextThread \/ UNCHANGED vars
  BY <1>0, <1>7 DEF NextThread, vars, IdsKept, Kept
<1>. QED
  BY <1>1, <1>4, <1>5, <1>6, <1>7, StepCases

(* Ids go on counting strings. *)
LEMMA DenseStep ==
  ASSUME IInv, [Next]_vars
  PROVE  IdsDense'
<1>0. IdsDense /\ IsFiniteSet(DOMAIN stringMap)
  BY DEF IInv, Shapes
<1>1. CASE stringMap' = stringMap
  BY <1>0, <1>1 DEF IdsDense
<1>2. CASE stringMap' = << >>
  <2>1. DOMAIN stringMap' = {}
    BY <1>2
  <2>. QED
    BY <2>1 DEF IdsDense
<1>3. ASSUME NEW s \in StringStreams, NEW str \in Str, NEW fits \in BOOLEAN,
             NewString(s, str, fits)
      PROVE  IdsDense'
  <2>1. PICK n \in Nat : n = Cardinality(DOMAIN stringMap)
    BY <1>0, FS_CardinalityType
  <2>2. str \notin DOMAIN stringMap /\ stringMap' = Remember(str, n)
    BY <1>3, <2>1, NewEffect
  <2>3. /\ DOMAIN stringMap' = DOMAIN stringMap \cup {str}
        /\ \A x \in DOMAIN stringMap : stringMap'[x] = stringMap[x]
        /\ stringMap'[str] = n
    BY <2>2 DEF Remember
  <2>4. Cardinality(DOMAIN stringMap') = n + 1
    BY <1>0, <2>1, <2>2, <2>3, FS_AddElement
  <2>5. \A x \in DOMAIN stringMap : stringMap[x] \in 0 .. n - 1
    BY <1>0, <2>1 DEF IdsDense
  <2>6. \A x \in DOMAIN stringMap' : stringMap'[x] \in 0 .. (n + 1) - 1
    BY <2>3, <2>5
  <2>7. \A x, y \in DOMAIN stringMap' : stringMap'[x] = stringMap'[y] => x = y
    BY <1>0, <2>3, <2>5 DEF IdsDense
  <2>. QED
    BY <2>4, <2>6, <2>7 DEF IdsDense
<1>. QED
  BY <1>1, <1>2, <1>3, StepCases
     DEF AddNumber, KnownString, ThreadExit, NextThread, ProcessExit, vars

(* Tables have rows. *)
LEMMA TableType ==
  ASSUME Shapes, NEW z \in Streams
  PROVE  /\ disk[z].strings.rows \in Seq(Row) /\ memory[z].pending \in Seq(Row)
         /\ Table(z) \in Seq(Row)
         /\ ToSet(Table(z)) = ToSet(disk[z].strings.rows) \cup ToSet(memory[z].pending)
<1>1. disk[z].strings.rows \in Seq(Row) /\ memory[z].pending \in Seq(Row)
  BY DEF Shapes, Memory, Files
<1>. QED
  BY <1>1, ConcatProperties, Elements DEF Table

(* What happens to the tables. *)
TablesStay == \A z \in StringStreams : Table(z)' = Table(z)

(* Tables that stay hold the rows they held. *)
LEMMA WrittenStays ==
  /\ KeepsRows => TablesStay
  /\ TablesStay => Written' = Written
<1>1. KeepsRows => TablesStay
  BY DEF KeepsRows, TablesStay, Table, StringStreams
<1>2. TablesStay => Written' = Written
  BY DEF TablesStay, Written
<1>. QED
  BY <1>1, <1>2

(* A new row is added to one table, and the rows of this thread stay. *)
LEMMA NewWritten ==
  ASSUME IInv, NEW s \in StringStreams, NEW str \in Str, NEW fits \in BOOLEAN,
         NewString(s, str, fits),
         NEW row, row = [by |-> thread, id |-> Cardinality(DOMAIN stringMap), str |-> str]
  PROVE  /\ Written' \subseteq Written \cup {row} /\ row \in Written'
         /\ \A p \in Written : p.by = thread => p \in Written'
         /\ \A p \in Written : p \in Written' \/ p.by < thread
<1>0. Shapes /\ Opened /\ MetRight /\ StringStreams \subseteq Streams
  BY DEF IInv, StringStreams
<1>1. row \in Row /\ Table(s)' = IF memory[s].fstrout THEN Append(Table(s), row) ELSE <<row>>
  BY NewEffect
<1>2. \A z \in StringStreams : z # s => Table(z)' = Table(z)
  <2>1. PICK rec : Adds(s, rec)
    BY NewEffect
  <2>. QED
    BY <1>0, <2>1 DEF Adds, Table
<1>3. Table(s) \in Seq(Row)
  BY <1>0, TableType
<1>4. /\ ToSet(Append(Table(s), row)) = ToSet(Table(s)) \cup {row}
      /\ ToSet(<<row>>) = {row}
  BY <1>1, <1>3, Elements
<1>5. /\ ToSet(Table(s)') \subseteq ToSet(Table(s)) \cup {row}
      /\ row \in ToSet(Table(s)')
      /\ memory[s].fstrout => ToSet(Table(s)) \subseteq ToSet(Table(s)')
  BY <1>1, <1>4
<1>6. ~memory[s].fstrout => \A p \in ToSet(Table(s)) : p.by < thread
  <2>1. CASE ~memory[s].fstrout
    <3>1. status = "running"
      BY DEF NewString, Callback
    <3>2. /\ memory[s].pending = << >>
          /\ \A p \in ToSet(disk[s].strings.rows) : p.by < thread
      BY <1>0, <2>1, <3>1 DEF Opened
    <3>3. ToSet(Table(s)) = ToSet(disk[s].strings.rows) \cup ToSet(<< >>)
      BY <1>0, <3>2, TableType
    <3>. QED
      BY <3>2, <3>3, Elements
  <2>. QED
    BY <2>1
<1>7. \A p : p \in Written <=> \E z \in StringStreams : p \in ToSet(Table(z))
  BY DEF Written
<1>8. \A p : p \in Written' <=> \E z \in StringStreams : p \in ToSet(Table(z)')
  BY DEF Written
<1>9. Written' \subseteq Written \cup {row} /\ row \in Written'
  BY <1>2, <1>5, <1>7, <1>8
<1>10. \A p \in Written : p \in Written' \/ p.by < thread
  BY <1>2, <1>5, <1>6, <1>7, <1>8
<1>11. ASSUME NEW p \in Written, p.by = thread
       PROVE  p \in Written'
  <2>1. thread \in Nat
    BY <1>0 DEF Shapes
  <2>. QED
    BY <1>10, <1>11, <2>1
<1>. QED
  BY <1>9, <1>10, <1>11

(* What a step adds to what records and rows say of ids. *)
LEMMA MetCases ==
  ASSUME IInv, [Next]_vars
  PROVE  \/ Met' \subseteq Met /\ UNCHANGED <<stringMap, thread, status>>
         \/ /\ status = "running" /\ UNCHANGED <<thread, status>>
            /\ \A x \in DOMAIN stringMap : x \in DOMAIN stringMap' /\ stringMap'[x] = stringMap[x]
            /\ \E row : /\ Met' \subseteq Met \cup {row} /\ row.by = thread
                        /\ row.str \in DOMAIN stringMap' /\ stringMap'[row.str] = row.id
         \/ Met' \subseteq Met /\ status' # "running" /\ thread' = thread
         \/ Met' \subseteq Met /\ thread' = thread + 1
<1>0. StringStreams \subseteq Streams /\ Shapes
  BY DEF IInv, StringStreams
<1>1. ASSUME NEW s \in Streams \ StringStreams, NEW v \in RangeOf(s), AddNumber(s, v)
      PROVE  Met' \subseteq Met /\ UNCHANGED <<stringMap, thread, status>>
  <2>1. PICK rec : Adds(s, rec) /\ KeepsRows
    BY <1>1, NumberEffect
  <2>2. Written' = Written /\ \A z \in StringStreams : Kept(z)' \subseteq Kept(z)
    BY <1>0, <2>1, WrittenStays DEF Adds
  <2>. QED
    BY <1>1, <2>2 DEF Met, AddNumber, Callback, RowOf
<1>2. ASSUME NEW s \in StringStreams, NEW str \in Str, KnownString(s, str)
      PROVE  /\ status = "running" /\ UNCHANGED <<thread, status, stringMap>>
             /\ \E row : /\ Met' \subseteq Met \cup {row} /\ row.by = thread
                         /\ row.str \in DOMAIN stringMap /\ stringMap[row.str] = row.id
  <2>1. PICK rec : /\ Adds(s, rec) /\ KeepsRows
                   /\ RowOf(rec) = [by |-> thread, id |-> stringMap[str], str |-> str]
    BY <1>2, KnownEffect
  <2>2. /\ Written' = Written
        /\ \A z \in StringStreams : Kept(z)' \subseteq Kept(z) \cup {rec}
    BY <1>0, <2>1, WrittenStays DEF Adds
  <2>3. PICK row : row = RowOf(rec)
    OBVIOUS
  <2>4. row.by = thread /\ row.str = str /\ stringMap[row.str] = row.id
    BY <2>1, <2>3
  <2>5. ASSUME NEW p \in Met' PROVE p \in Met \cup {row}
    <3>1. p \in Written \/ \E z \in StringStreams : \E r \in Kept(z)' : p = RowOf(r)
      BY <2>2, <2>5 DEF Met, RowOf
    <3>. QED
      BY <2>2, <2>3, <3>1 DEF Met
  <2>. QED
    BY <1>2, <2>4, <2>5 DEF KnownString, Callback
<1>3. ASSUME NEW s \in StringStreams, NEW str \in Str, NEW fits \in BOOLEAN,
             NewString(s, str, fits)
      PROVE  /\ status = "running" /\ UNCHANGED <<thread, status>>
             /\ \A x \in DOMAIN stringMap : x \in DOMAIN stringMap' /\ stringMap'[x] = stringMap[x]
             /\ \E row : /\ Met' \subseteq Met \cup {row} /\ row.by = thread
                         /\ row.str \in DOMAIN stringMap' /\ stringMap'[row.str] = row.id
  <2>1. PICK row : row = [by |-> thread, id |-> Cardinality(DOMAIN stringMap), str |-> str]
    OBVIOUS
  <2>2. /\ str \notin DOMAIN stringMap
        /\ stringMap' = Remember(str, Cardinality(DOMAIN stringMap))
    BY <1>3, NewEffect
  <2>3. PICK rec : Adds(s, rec) /\ RowOf(rec) = row
    BY <1>3, <2>1, NewEffect
  <2>4. Written' \subseteq Written \cup {row}
    BY <1>3, <2>1, NewWritten
  <2>5. \A z \in StringStreams : Kept(z)' \subseteq Kept(z) \cup {rec}
    BY <1>0, <2>3 DEF Adds
  <2>6. ASSUME NEW p \in Met' PROVE p \in Met \cup {row}
    <3>1. p \in Written' \/ \E z \in StringStreams : \E r \in Kept(z)' : p = RowOf(r)
      BY <2>6 DEF Met, RowOf
    <3>. QED
      BY <2>3, <2>4, <2>5, <3>1 DEF Met
  <2>7. /\ DOMAIN stringMap' = DOMAIN stringMap \cup {str}
        /\ \A x \in DOMAIN stringMap : stringMap'[x] = stringMap[x]
        /\ stringMap'[str] = Cardinality(DOMAIN stringMap)
    BY <2>2 DEF Remember
  <2>8. row.by = thread /\ row.str = str /\ stringMap'[row.str] = row.id
    BY <2>1, <2>7
  <2>. QED
    BY <1>3, <2>6, <2>7, <2>8 DEF NewString, Callback
<1>4. CASE ThreadExit
  <2>1. TablesStay /\ \A z \in StringStreams : Kept(z)' \subseteq Kept(z)
    BY <1>0, <1>4, ExitEffect DEF TablesStay
  <2>2. Met' \subseteq Met
    BY <2>1, WrittenStays DEF Met, RowOf
  <2>. QED
    BY <1>4, <2>2 DEF ThreadExit
<1>5. CASE ProcessExit
  <2>1. \A z \in StringStreams : /\ Kept(z)' \subseteq Kept(z)
                                 /\ ToSet(Table(z)') \subseteq ToSet(Table(z))
    BY <1>0, <1>5, KillEffect, TableType
  <2>2. Met' \subseteq Met
    BY <2>1 DEF Met, Written, RowOf
  <2>. QED
    BY <1>5, <2>2 DEF ProcessExit
<1>6. CASE NextThread
  BY <1>6 DEF NextThread, Met, Written, Table, Kept
<1>7. CASE UNCHANGED vars
  BY <1>7 DEF vars, Met, Written, Table, Kept
<1>. QED
  BY <1>1, <1>2, <1>3, <1>4, <1>5, <1>6, <1>7, StepCases

(* Records and rows go on agreeing about ids. *)
LEMMA MetStep ==
  ASSUME IInv, [Next]_vars
  PROVE  MetRight' /\ MetAgree'
<1>0. MetRight /\ MetAgree /\ IdsDense' /\ thread \in Nat
  BY DenseStep DEF IInv, Shapes
<1>1. CASE Met' \subseteq Met /\ UNCHANGED <<stringMap, thread, status>>
  BY <1>0, <1>1 DEF MetRight, MetAgree
<1>2. CASE /\ status = "running" /\ UNCHANGED <<thread, status>>
           /\ \A x \in DOMAIN stringMap : x \in DOMAIN stringMap' /\ stringMap'[x] = stringMap[x]
           /\ \E row : /\ Met' \subseteq Met \cup {row} /\ row.by = thread
                       /\ row.str \in DOMAIN stringMap' /\ stringMap'[row.str] = row.id
  <2>1. PICK row : /\ Met' \subseteq Met \cup {row} /\ row.by = thread
                   /\ row.str \in DOMAIN stringMap' /\ stringMap'[row.str] = row.id
    BY <1>2
  <2>2. \A p \in Met' : /\ p.by \in 0..thread
                        /\ p.by = thread => p.str \in DOMAIN stringMap' /\ stringMap'[p.str] = p.id
    BY <1>0, <1>2, <2>1 DEF MetRight
  <2>3. ASSUME NEW p \in Met', NEW q \in Met', p.by = q.by
        PROVE  p.id = q.id <=> p.str = q.str
    <3>1. CASE p.by = thread
      BY <1>0, <2>2, <2>3, <3>1 DEF IdsDense
    <3>2. CASE p.by # thread
      BY <1>0, <2>1, <2>3, <3>2 DEF MetAgree
    <3>. QED
      BY <3>1, <3>2
  <2>. QED
    BY <1>2, <2>2, <2>3 DEF MetRight, MetAgree
<1>3. CASE Met' \subseteq Met /\ status' # "running" /\ thread' = thread
  BY <1>0, <1>3 DEF MetRight, MetAgree
<1>4. CASE Met' \subseteq Met /\ thread' = thread + 1
  BY <1>0, <1>4 DEF MetRight, MetAgree
<1>. QED
  BY <1>1, <1>2, <1>3, <1>4, MetCases

(* A row goes to one place. *)
LEMMA PlacedStep ==
  ASSUME IInv, [Next]_vars
  PROVE  OncePlaced'
<1>0. OncePlaced /\ Shapes /\ MetRight /\ StringStreams \subseteq Streams
  BY DEF IInv, StringStreams
<1>1. CASE TablesStay
  BY <1>0, <1>1 DEF TablesStay, OncePlaced
<1>2. ASSUME NEW s \in StringStreams, NEW str \in Str, NEW fits \in BOOLEAN,
             NewString(s, str, fits)
      PROVE  OncePlaced'
  <2>1. PICK row : row = [by |-> thread, id |-> Cardinality(DOMAIN stringMap), str |-> str]
    OBVIOUS
  <2>2. /\ str \notin DOMAIN stringMap /\ row \in Row
        /\ Table(s)' = IF memory[s].fstrout THEN Append(Table(s), row) ELSE <<row>>
    BY <1>2, <2>1, NewEffect
  <2>3. \A z \in StringStreams : z # s => Table(z)' = Table(z)
    <3>1. PICK rec : Adds(s, rec)
      BY <1>2, NewEffect
    <3>. QED
      BY <1>0, <3>1 DEF Adds, Table
  <2>4. row \notin Written
    <3>1. row.by = thread /\ row.str = str /\ status = "running"
      BY <1>2, <2>1 DEF NewString, Callback
    <3>. QED
      BY <1>0, <2>2, <3>1 DEF MetRight, Met
  <2>5. \A z \in StringStreams : \A i \in DOMAIN Table(z) : Table(z)[i] # row
    BY <2>4 DEF Written, ToSet
  <2>6. Table(s) \in Seq(Row) /\ DOMAIN Table(s) = 1..Len(Table(s)) /\ Len(Table(s)) \in Nat
    BY <1>0, TableType, LenProperties
  <2>7. PICK n \in Nat : /\ DOMAIN Table(s)' = 1..(n + 1) /\ Table(s)'[n + 1] = row
                         /\ \A i \in 1..n : i \in DOMAIN Table(s) /\ Table(s)'[i] = Table(s)[i]
    <3>1. CASE memory[s].fstrout
      <4>1. /\ DOMAIN Append(Table(s), row) = 1..(Len(Table(s)) + 1)
            /\ Append(Table(s), row)[Len(Table(s)) + 1] = row
            /\ \A i \in 1..Len(Table(s)) : Append(Table(s), row)[i] = Table(s)[i]
        BY <2>2, <2>6, AppendProperties, LenProperties
      <4>. QED
        BY <2>2, <2>6, <3>1, <4>1
    <3>2. CASE ~memory[s].fstrout
      <4>1. DOMAIN <<row>> = 1..(0 + 1) /\ <<row>>[0 + 1] = row
        OBVIOUS
      <4>2. \A i \in 1..0 : i \in DOMAIN Table(s) /\ Table(s)'[i] = Table(s)[i]
        OBVIOUS
      <4>. QED
        BY <2>2, <3>2, <4>1, <4>2
    <3>. QED
      BY <3>1, <3>2
  <2>8. ASSUME NEW u \in StringStreams, NEW z \in StringStreams,
               NEW i \in DOMAIN Table(u)', NEW j \in DOMAIN Table(z)',
               Table(u)'[i] = Table(z)'[j]
        PROVE  u = z /\ i = j
    <3>1. \/ u = s /\ i = n + 1 /\ Table(u)'[i] = row
          \/ i \in DOMAIN Table(u) /\ Table(u)'[i] = Table(u)[i]
      BY <2>3, <2>7
    <3>2. \/ z = s /\ j = n + 1 /\ Table(z)'[j] = row
          \/ j \in DOMAIN Table(z) /\ Table(z)'[j] = Table(z)[j]
      BY <2>3, <2>7
    <3>. QED
      BY <1>0, <2>5, <2>8, <3>1, <3>2 DEF OncePlaced
  <2>. QED
    BY <2>8 DEF OncePlaced
<1>3. CASE ProcessExit
  <2>1. \A z \in StringStreams : /\ DOMAIN Table(z)' \subseteq DOMAIN Table(z)
                                 /\ \A i \in DOMAIN Table(z)' : Table(z)'[i] = Table(z)[i]
    <3>. TAKE z \in StringStreams
    <3>1. PICK p \in Seq(Row), q \in Seq(Row) : p = disk[z].strings.rows /\ q = memory[z].pending
      BY <1>0, TableType
    <3>2. Table(z)' = p /\ Table(z) = p \o q
      BY <1>0, <1>3, <3>1, KillEffect DEF Table
    <3>3. /\ DOMAIN p = 1..Len(p) /\ DOMAIN (p \o q) = 1..(Len(p) + Len(q))
          /\ Len(p) \in Nat /\ Len(q) \in Nat
          /\ \A i \in 1..Len(p) : (p \o q)[i] = p[i]
      BY ConcatProperties, LenProperties
    <3>. QED
      BY <3>2, <3>3
  <2>. QED
    BY <1>0, <2>1 DEF OncePlaced
<1>4. ASSUME NEW s \in Streams \ StringStreams, NEW v \in RangeOf(s), AddNumber(s, v)
      PROVE  TablesStay
  BY <1>4, NumberEffect, WrittenStays
<1>5. ASSUME NEW s \in StringStreams, NEW str \in Str, KnownString(s, str)
      PROVE  TablesStay
  BY <1>5, KnownEffect, WrittenStays
<1>6. CASE ThreadExit
  BY <1>0, <1>1, <1>6, ExitEffect DEF TablesStay
<1>7. CASE NextThread \/ UNCHANGED vars
  BY <1>1, <1>7 DEF NextThread, vars, TablesStay, Table
<1>. QED
  BY <1>1, <1>2, <1>3, <1>4, <1>5, <1>6, <1>7, StepCases

(* A string file that was opened is this thread's. *)
LEMMA OpenedStep ==
  ASSUME IInv, [Next]_vars
  PROVE  Opened'
<1>0. Opened /\ Shapes /\ thread \in Nat /\ MetRight /\ StringStreams \subseteq Streams
  BY DEF IInv, Shapes, StringStreams
<1>1. CASE KeepsRows /\ status = "running" /\ UNCHANGED <<thread, status>>
  BY <1>0, <1>1 DEF KeepsRows, Opened
<1>2. ASSUME NEW s \in StringStreams, NEW str \in Str, NEW fits \in BOOLEAN,
             NewString(s, str, fits)
      PROVE  Opened'
  <2>1. status = "running" /\ UNCHANGED <<thread, status>>
    BY <1>2 DEF NewString, Callback
  <2>2. PICK row : row = [by |-> thread, id |-> Cardinality(DOMAIN stringMap), str |-> str]
    OBVIOUS
  <2>3. PICK rec : Adds(s, rec)
    BY <1>2, NewEffect
  <2>4. /\ memory'[s].fstrout /\ disk'[s].strings.by = thread
        /\ ToSet(memory'[s].pending) \subseteq ToSet(memory[s].pending) \cup {row}
    BY <1>2, <2>2, NewEffect
  <2>5. \A z \in Streams : z # s => memory'[z] = memory[z] /\ disk'[z] = disk[z]
    BY <2>3 DEF Adds
  <2>6. row.by = thread
    BY <2>2
  <2>. QED
    BY <1>0, <2>1, <2>4, <2>5, <2>6 DEF Opened
<1>3. CASE ThreadExit \/ ProcessExit
  <2>1. status' # "running" /\ thread' = thread
    BY <1>3 DEF ThreadExit, ProcessExit
  <2>2. Forgotten /\ \A z \in Streams : disk'[z].strings.by = disk[z].strings.by
    BY <1>3, ExitEffect, KillEffect
  <2>3. ToSet(<< >>) = {}
    BY Elements
  <2>. QED
    BY <1>0, <2>1, <2>2, <2>3 DEF Opened, Forgotten
<1>4. CASE NextThread
  <2>1. status = "exited" /\ thread' = thread + 1 /\ UNCHANGED <<memory, disk>>
    BY <1>4 DEF NextThread
  <2>2. \A s \in Streams : ~memory[s].fstrout /\ memory[s].pending = << >> /\ memory[s].buffer = << >>
    BY <1>0, <2>1 DEF Opened
  <2>3. ASSUME NEW s \in StringStreams, NEW row \in ToSet(disk[s].strings.rows)
        PROVE  row.by < thread'
    <3>1. row \in Met
      BY <1>0, <2>3, TableType DEF Met, Written
    <3>. QED
      BY <1>0, <2>1, <3>1 DEF MetRight
  <2>4. ToSet(<< >>) = {}
    BY Elements
  <2>. QED
    BY <1>0, <2>1, <2>2, <2>3, <2>4 DEF Opened
<1>5. CASE UNCHANGED vars
  BY <1>0, <1>5 DEF vars, Opened
<1>6. ASSUME NEW s \in Streams \ StringStreams, NEW v \in RangeOf(s), AddNumber(s, v)
      PROVE  KeepsRows /\ status = "running" /\ UNCHANGED <<thread, status>>
  BY <1>6, NumberEffect DEF AddNumber, Callback
<1>7. ASSUME NEW s \in StringStreams, NEW str \in Str, KnownString(s, str)
      PROVE  KeepsRows /\ status = "running" /\ UNCHANGED <<thread, status>>
  BY <1>7, KnownEffect DEF KnownString, Callback
<1>. QED
  BY <1>1, <1>2, <1>3, <1>4, <1>5, <1>6, <1>7, StepCases

(* The rows of a running thread are kept. *)
LEMMA RowsStep ==
  ASSUME IInv, [Next]_vars
  PROVE  RowsWritten'
<1>0. RowsWritten /\ StringStreams \subseteq Streams
  BY DEF IInv, StringStreams
<1>1. CASE TablesStay /\ UNCHANGED <<stringMap, thread, status>>
  BY <1>0, <1>1, WrittenStays DEF RowsWritten
<1>2. ASSUME NEW s \in StringStreams, NEW str \in Str, NEW fits \in BOOLEAN,
             NewString(s, str, fits)
      PROVE  RowsWritten'
  <2>1. PICK row : row = [by |-> thread, id |-> Cardinality(DOMAIN stringMap), str |-> str]
    OBVIOUS
  <2>2. row \in Written' /\ \A p \in Written : p.by = thread => p \in Written'
    BY <1>2, <2>1, NewWritten
  <2>3. /\ str \notin DOMAIN stringMap
        /\ stringMap' = Remember(str, Cardinality(DOMAIN stringMap))
    BY <1>2, NewEffect
  <2>4. /\ DOMAIN stringMap' = DOMAIN stringMap \cup {str}
        /\ \A x \in DOMAIN stringMap : stringMap'[x] = stringMap[x]
        /\ stringMap'[str] = Cardinality(DOMAIN stringMap)
    BY <2>3 DEF Remember
  <2>5. status' = "running" /\ thread' = thread
    BY <1>2 DEF NewString, Callback
  <2>6. ASSUME NEW x \in DOMAIN stringMap'
        PROVE  [by |-> thread, id |-> stringMap'[x], str |-> x] \in Written'
    <3>1. CASE x = str
      BY <2>1, <2>2, <2>4, <3>1
    <3>2. CASE x # str
      BY <1>0, <2>2, <2>4, <3>2 DEF RowsWritten
    <3>. QED
      BY <3>1, <3>2
  <2>. QED
    BY <2>5, <2>6 DEF RowsWritten
<1>3. CASE ThreadExit \/ ProcessExit
  <2>1. DOMAIN stringMap' = {}
    BY <1>3 DEF ThreadExit, ProcessExit
  <2>. QED
    BY <2>1 DEF RowsWritten
<1>4. CASE NextThread
  <2>1. DOMAIN stringMap' = {}
    BY <1>0, <1>4 DEF NextThread, RowsWritten
  <2>. QED
    BY <2>1 DEF RowsWritten
<1>5. ASSUME NEW s \in Streams \ StringStreams, NEW v \in RangeOf(s), AddNumber(s, v)
      PROVE  TablesStay /\ UNCHANGED <<stringMap, thread, status>>
  BY <1>5, NumberEffect, WrittenStays DEF AddNumber, Callback
<1>6. ASSUME NEW s \in StringStreams, NEW str \in Str, KnownString(s, str)
      PROVE  TablesStay /\ UNCHANGED <<stringMap, thread, status>>
  BY <1>6, KnownEffect, WrittenStays DEF KnownString, Callback
<1>7. CASE UNCHANGED vars
  BY <1>1, <1>7 DEF vars, TablesStay, Table
<1>. QED
  BY <1>1, <1>2, <1>3, <1>4, <1>5, <1>6, <1>7, StepCases

(* Every record of a string keeps its row, or a reason to have lost it. *)
LEMMA HaveRowsStep ==
  ASSUME IInv, [Next]_vars
  PROVE  AllHaveRows'
<1>0. /\ AllHaveRows /\ Shapes /\ MetRight /\ Opened /\ RowsWritten /\ thread \in Nat
      /\ StringStreams \subseteq Streams
  BY DEF IInv, Shapes, StringStreams
<1>1. ASSUME NEW z \in StringStreams, NEW r \in Kept(z)
      PROVE  HasRow(r) /\ r.by \in 0..thread
  <2>1. RowOf(r) \in Met /\ RowOf(r).by = r.by
    BY <1>1 DEF Met, RowOf
  <2>. QED
    BY <1>0, <1>1, <2>1 DEF AllHaveRows, MetRight
<1>2. ASSUME NEW s \in Streams \ StringStreams, NEW v \in RangeOf(s), AddNumber(s, v)
      PROVE  AllHaveRows'
  <2>1. PICK rec : Adds(s, rec) /\ KeepsRows
    BY <1>2, NumberEffect
  <2>2. Written' = Written /\ \A z \in StringStreams : Kept(z)' \subseteq Kept(z)
    BY <1>0, <2>1, WrittenStays DEF Adds
  <2>3. UNCHANGED <<thread, status>> /\ \A z \in StringStreams : disk'[z].strings = disk[z].strings
    BY <1>0, <1>2, <2>1 DEF AddNumber, Callback, KeepsRows
  <2>. QED
    BY <1>1, <2>2, <2>3 DEF AllHaveRows, HasRow, RowOf
<1>3. ASSUME NEW s \in StringStreams, NEW str \in Str, KnownString(s, str)
      PROVE  AllHaveRows'
  <2>1. PICK rec : /\ Adds(s, rec) /\ KeepsRows
                   /\ RowOf(rec) = [by |-> thread, id |-> stringMap[str], str |-> str]
    BY <1>3, KnownEffect
  <2>2. /\ Written' = Written
        /\ \A z \in StringStreams : Kept(z)' \subseteq Kept(z) \cup {rec}
    BY <1>0, <2>1, WrittenStays DEF Adds
  <2>3. UNCHANGED <<thread, status>> /\ \A z \in StringStreams : disk'[z].strings = disk[z].strings
    BY <1>0, <1>3, <2>1 DEF KnownString, Callback, KeepsRows
  <2>4. RowOf(rec) \in Written
    BY <1>0, <1>3, <2>1 DEF RowsWritten, KnownString
  <2>5. \A z \in StringStreams : \A r \in Kept(z)' : HasRow(r)
    BY <1>1, <2>2, <2>4 DEF HasRow
  <2>. QED
    BY <2>2, <2>3, <2>5 DEF AllHaveRows, HasRow, RowOf
<1>4. ASSUME NEW s \in StringStreams, NEW str \in Str, NEW fits \in BOOLEAN,
             NewString(s, str, fits)
      PROVE  AllHaveRows'
  <2>1. PICK row : row = [by |-> thread, id |-> Cardinality(DOMAIN stringMap), str |-> str]
    OBVIOUS
  <2>2. PICK rec : Adds(s, rec) /\ RowOf(rec) = row
    BY <1>4, <2>1, NewEffect
  <2>3. row \in Written' /\ \A p \in Written : p \in Written' \/ p.by < thread
    BY <1>4, <2>1, NewWritten
  <2>4. disk'[s].strings.by = thread /\ UNCHANGED <<thread, status>> /\ status = "running"
    BY <1>4, NewEffect DEF NewString, Callback
  <2>5. \A z \in StringStreams : /\ Kept(z)' \subseteq Kept(z) \cup {rec}
                                 /\ z # s => disk'[z] = disk[z]
    BY <1>0, <2>2 DEF Adds
  <2>6. ASSUME NEW z \in StringStreams, NEW r \in Kept(z)'
        PROVE  \/ RowOf(r) \in Written'
               \/ \E u \in StringStreams : disk'[u].strings.by > r.by
    <3>1. CASE r = rec
      BY <2>2, <2>3, <3>1
    <3>2. CASE r \in Kept(z)
      <4>1. HasRow(r) /\ r.by \in 0..thread /\ RowOf(r).by = r.by
        BY <1>1, <3>2 DEF RowOf
      <4>2. CASE RowOf(r) \in Written
        BY <1>0, <2>3, <2>4, <4>1, <4>2
      <4>3. ASSUME NEW u \in StringStreams, disk[u].strings.by > r.by
            PROVE  disk'[u].strings.by > r.by
        <5>1. disk[u].strings.by \in 0..thread
          BY <1>0 DEF Opened
        <5>. QED
          BY <1>0, <2>4, <2>5, <4>1, <4>3, <5>1
      <4>. QED
        BY <2>4, <4>1, <4>2, <4>3 DEF HasRow
    <3>. QED
      BY <2>5, <2>6, <3>1, <3>2
  <2>. QED
    BY <2>6 DEF AllHaveRows, HasRow, RowOf
<1>5. CASE ThreadExit
  <2>1. /\ TablesStay
        /\ \A z \in StringStreams : /\ Kept(z)' \subseteq Kept(z)
                                    /\ disk'[z].strings.by = disk[z].strings.by
    BY <1>0, <1>5, ExitEffect DEF TablesStay
  <2>2. Written' = Written /\ status = "running" /\ thread' = thread
    BY <1>5, <2>1, WrittenStays DEF ThreadExit
  <2>. QED
    BY <1>1, <2>1, <2>2 DEF AllHaveRows, HasRow, RowOf
<1>6. CASE ProcessExit
  <2>1. /\ disk' = disk /\ status = "running" /\ status' = "killed" /\ thread' = thread
        /\ \A z \in Streams : Kept(z)' \subseteq Kept(z) /\ Table(z)' = disk[z].strings.rows
    BY <1>6, KillEffect DEF ProcessExit
  <2>2. ASSUME NEW p \in Written, p.by # thread
        PROVE  p \in Written'
    <3>1. PICK z \in StringStreams : p \in ToSet(Table(z))
      BY <2>2 DEF Written
    <3>2. p \in ToSet(disk[z].strings.rows) \cup ToSet(memory[z].pending)
      BY <1>0, <3>1, TableType
    <3>3. p \in ToSet(disk[z].strings.rows)
      BY <1>0, <2>2, <3>2 DEF Opened
    <3>. QED
      BY <1>0, <2>1, <3>3 DEF Written
  <2>3. ASSUME NEW z \in StringStreams, NEW r \in Kept(z)'
        PROVE  \/ RowOf(r) \in Written'
               \/ \E u \in StringStreams : disk[u].strings.by > r.by
               \/ r.by = thread
    <3>1. HasRow(r) /\ RowOf(r).by = r.by
      BY <1>0, <1>1, <2>1, <2>3 DEF RowOf
    <3>. QED
      BY <2>1, <2>2, <3>1 DEF HasRow
  <2>. QED
    BY <2>1, <2>3 DEF AllHaveRows, HasRow, RowOf
<1>7. CASE NextThread
  <2>1. status = "exited" /\ UNCHANGED <<memory, disk>>
    BY <1>7 DEF NextThread
  <2>2. Written' = Written /\ \A z \in StringStreams : Kept(z)' = Kept(z)
    BY <2>1 DEF Written, Table, Kept
  <2>. QED
    BY <1>1, <2>1, <2>2 DEF AllHaveRows, HasRow, RowOf
<1>8. CASE UNCHANGED vars
  BY <1>0, <1>8 DEF vars, AllHaveRows, HasRow, RowOf, Written, Table, Kept
<1>. QED
  BY <1>2, <1>3, <1>4, <1>5, <1>6, <1>7, <1>8, StepCases

-----------------------------------------------------------------------------
(* The results *)

(* The invariant holds at the start. *)
LEMMA InitIInv ==
  ASSUME Init
  PROVE  IInv
<1>0. /\ << >> \in Seq(AnyRecord) /\ << >> \in Seq(Row) /\ ToSet(<< >>) = {}
      /\ << >> \o << >> = << >> /\ Len(<< >>) = 0
  BY Elements
<1>1. memory \in [Streams -> Memory] /\ disk \in [Streams -> Files]
  <2>1. memory = Fresh /\ disk = [s \in Streams |-> [records |-> NoFile, strings |-> NoFile]]
    BY DEF Init
  <2>2. Fresh \in [Streams -> Memory]
    BY <1>0 DEF Fresh, Memory
  <2>3. NoFile \in [by : Nat, rows : Seq(AnyRecord)] /\ NoFile \in [by : Nat, rows : Seq(Row)]
    BY <1>0 DEF NoFile
  <2>. QED
    BY <2>1, <2>2, <2>3 DEF Files
<1>2. \A s \in Streams :
        /\ memory[s].buffer = << >> /\ memory[s].pending = << >> /\ ~memory[s].fstrout
        /\ disk[s].strings.by = 0 /\ disk[s].strings.rows = << >>
        /\ disk[s].records.rows = << >>
  BY DEF Init, Fresh, NoFile
<1>3. DOMAIN stringMap = {} /\ IsFiniteSet({})
  BY FS_EmptySet DEF Init
<1>4. \A s \in Streams : Kept(s) = {} /\ Table(s) = << >>
  BY <1>0, <1>2 DEF Kept, Table
<1>5. Written = {} /\ Met = {} /\ StringStreams \subseteq Streams
  BY <1>0, <1>4 DEF Written, Met, StringStreams
<1>6. Shapes
  BY <1>1, <1>3, BoundsAssumption DEF Init, Shapes
<1>7. BuffersFit
  BY <1>0, <1>2, LimitAssumption DEF BuffersFit
<1>8. NumbersKept /\ IdsKept /\ MetRight /\ MetAgree /\ AllHaveRows
  BY <1>4, <1>5 DEF NumbersKept, IdsKept, MetRight, MetAgree, AllHaveRows
<1>9. IdsDense /\ RowsWritten
  BY <1>3 DEF IdsDense, RowsWritten
<1>10. OncePlaced
  BY <1>4, <1>5 DEF OncePlaced
<1>11. Opened
  BY <1>0, <1>2 DEF Opened, Init
<1>. QED
  BY <1>6, <1>7, <1>8, <1>9, <1>10, <1>11 DEF IInv

(***************************************************************************)
(* IInv is an invariant: what buffers, files, rows and stringMap hold      *)
(* about the values and the strings of a thread and of those before it.    *)
(***************************************************************************)
THEOREM Invariance == Spec => []IInv
<1>1. Init => IInv
  BY InitIInv
<1>2. IInv /\ [Next]_vars => IInv'
  BY ShapesStep, NumbersStep, IdsKeptStep, DenseStep, MetStep, PlacedStep, OpenedStep,
     RowsStep, HaveRowsStep DEF IInv
<1>. QED
  BY <1>1, <1>2, PTL DEF Spec

(* Stored values fit their fields and buffers their bound, always. *)
THEOREM TypeCorrect == Spec => []TypeOK
<1>1. IInv => TypeOK
  <2>. SUFFICES ASSUME IInv PROVE TypeOK
    OBVIOUS
  <2>1. ASSUME NEW s \in Streams, NEW r \in Kept(s)
        PROVE  r.data \in 0 .. (IF s.string THEN IdSpace ELSE 2 * Sign(s.wide)) - 1
    <3>1. CASE s.string
      <4>1. s \in StringStreams
        BY <3>1 DEF StringStreams
      <4>2. r.id \in Nat /\ r.data = r.id % IdSpace
        BY <2>1, <4>1 DEF IInv, IdsKept, StringRecords
      <4>3. r.data \in 0 .. IdSpace - 1
        BY <4>2, IdSpaceAssumption
      <4>. QED
        BY <3>1, <4>3
    <3>2. CASE ~s.string
      <4>1. s \in Streams \ StringStreams
        BY <3>2 DEF StringStreams
      <4>2. r.data \in 0 .. 2 * Sign(s.wide) - 1
        BY <2>1, <4>1 DEF IInv, NumbersKept, NumberKept
      <4>. QED
        BY <3>2, <4>2
    <3>. QED
      BY <3>1, <3>2
  <2>. QED
    BY <2>1 DEF IInv, Shapes, BuffersFit, TypeOK, Kept, Records
<1>. QED
  BY <1>1, Invariance, PTL

(***************************************************************************)
(* A reader who knows the prefix of a file gets every number back, for     *)
(* every width of the values.                                              *)
(***************************************************************************)
THEOREM Survival == Spec => []NumbersSurvive
<1>1. IInv => NumbersSurvive
  BY DEF IInv, NumbersKept, NumberKept, NumbersSurvive, Records, Kept
<1>. QED
  BY <1>1, Invariance, PTL

(***************************************************************************)
(* An id below 2^16 resolves to the string it was given for and no row is  *)
(* written twice, however threads with one kernel id follow each other.    *)
(***************************************************************************)
THEOREM Resolution == Spec => []IdsResolve
<1>1. IInv => IdsResolve
  <2>. SUFFICES ASSUME IInv PROVE IdsResolve
    OBVIOUS
  <2>0. Shapes /\ StringStreams \subseteq Streams
    BY DEF IInv, StringStreams
  <2>1. \A s \in StringStreams : ToSet(disk[s].strings.rows) \subseteq ToSet(Table(s))
    BY <2>0, TableType
  <2>2. Rows \subseteq Met
    BY <2>1 DEF Rows, Met, Written
  <2>3. \A p, q \in Rows : p.by = q.by => (p.id = q.id <=> p.str = q.str)
    BY <2>2 DEF IInv, MetAgree
  <2>4. ASSUME NEW s \in StringStreams, NEW r \in Records(s), NEW row \in Rows,
               r.id < IdSpace, row.by = r.by, row.id = r.data
        PROVE  row.str = r.of
    <3>1. r \in Kept(s)
      BY DEF Records, Kept
    <3>2. r.id \in Nat /\ r.data = r.id % IdSpace
      BY <3>1 DEF IInv, IdsKept, StringRecords
    <3>3. r.data = r.id
      BY <2>4, <3>2, IdSpaceAssumption
    <3>4. /\ RowOf(r) \in Met
          /\ RowOf(r).by = r.by /\ RowOf(r).id = r.id /\ RowOf(r).str = r.of
      BY <3>1 DEF Met, RowOf
    <3>. QED
      BY <2>2, <2>4, <3>3, <3>4 DEF IInv, MetAgree
  <2>5. ASSUME NEW s \in StringStreams, NEW z \in StringStreams,
               NEW i \in DOMAIN disk[s].strings.rows, NEW j \in DOMAIN disk[z].strings.rows,
               disk[s].strings.rows[i] = disk[z].strings.rows[j]
        PROVE  s = z /\ i = j
    <3>1. ASSUME NEW u \in StringStreams, NEW k \in DOMAIN disk[u].strings.rows
          PROVE  k \in DOMAIN Table(u) /\ Table(u)[k] = disk[u].strings.rows[k]
      <4>1. PICK p \in Seq(Row), q \in Seq(Row) : p = disk[u].strings.rows /\ q = memory[u].pending
        BY <2>0, TableType
      <4>2. Table(u) = p \o q
        BY <4>1 DEF Table
      <4>3. /\ DOMAIN p = 1..Len(p) /\ DOMAIN (p \o q) = 1..(Len(p) + Len(q))
            /\ Len(p) \in Nat /\ Len(q) \in Nat
            /\ \A l \in 1..Len(p) : (p \o q)[l] = p[l]
        BY ConcatProperties, LenProperties
      <4>4. k \in 1..Len(p)
        BY <4>1, <4>3
      <4>5. k \in 1..(Len(p) + Len(q))
        BY <4>3, <4>4
      <4>6. k \in DOMAIN (p \o q) /\ (p \o q)[k] = p[k]
        BY <4>3, <4>4, <4>5
      <4>. QED
        BY <4>1, <4>2, <4>6
    <3>. QED
      BY <2>5, <3>1 DEF IInv, OncePlaced
  <2>. QED
    BY <2>3, <2>4, <2>5 DEF IdsResolve
<1>. QED
  BY <1>1, Invariance, PTL

(***************************************************************************)
(* A thread that has ended left the row of every string it recorded,       *)
(* unless a later thread with its kernel id has emptied a string file.     *)
(***************************************************************************)
THEOREM Completeness == Spec => []TablesComplete
<1>1. IInv => TablesComplete
  <2>. SUFFICES ASSUME IInv, NEW s \in StringStreams, NEW r \in Records(s),
                       r.by < thread \/ status = "exited"
                PROVE  \/ RowOf(r) \in Rows
                       \/ \E z \in StringStreams : disk[z].strings.by > r.by
    BY DEF TablesComplete, RowOf
  <2>0. Shapes /\ Opened /\ StringStreams \subseteq Streams /\ thread \in Nat
    BY DEF IInv, StringStreams, Shapes
  <2>1. r \in Kept(s) /\ RowOf(r).by = r.by
    BY DEF Records, Kept, RowOf
  <2>2. HasRow(r)
    BY <2>1 DEF IInv, AllHaveRows
  <2>3. ASSUME RowOf(r) \in Written PROVE RowOf(r) \in Rows
    <3>1. PICK z \in StringStreams : RowOf(r) \in ToSet(Table(z))
      BY <2>3 DEF Written
    <3>2. CASE RowOf(r) \in ToSet(disk[z].strings.rows)
      BY <3>2 DEF Rows
    <3>3. CASE RowOf(r) \in ToSet(memory[z].pending)
      <4>1. RowOf(r).by = thread
        BY <2>0, <3>3 DEF Opened
      <4>2. status = "exited"
        BY <2>0, <2>1, <4>1
      <4>3. memory[z].pending = << >>
        BY <2>0, <4>2 DEF Opened
      <4>. QED
        BY <3>3, <4>3, Elements
    <3>. QED
      BY <2>0, <3>1, <3>2, <3>3, TableType
  <2>. QED
    BY <2>0, <2>2, <2>3 DEF HasRow
<1>. QED
  BY <1>1, Invariance, PTL
=============================================================================
