---------------------------- MODULE FieldValues ----------------------------
(***************************************************************************)
(* Value mode: the addFieldValueRecord... and addStaticFieldValueRecord... *)
(* callbacks of native/native.cpp, the string table stringMap, and the     *)
(* record and string files the Recorders of native/recorder.hpp write.     *)
(*                                                                         *)
(* All of it is thread_local and files are named after the kernel id of    *)
(* the thread, so threads meet only in the files of one id: the model has  *)
(* the threads that get this id, one after the other.  One stringMap gives *)
(* ids to the strings of four streams, but the row (id, string) goes to    *)
(* the string file of the stream that met the string first.                *)
(***************************************************************************)
EXTENDS Integers, Sequences, SequencesExt

CONSTANTS
  Str,         \* contents of strings, told apart by equality only
  IdSpace,     \* 2^16, the values of the uint16_t string_id
  Half,        \* 2^31, half the values of 32 bits
  Limit,       \* LIMIT, records per buffer
  MaxAdds,     \* bound: callbacks in the life of the process
  MaxThreads   \* bound: threads that get this kernel id

ASSUME IdSpaceAssumption == IdSpace \in Nat \ {0}
ASSUME HalfAssumption    == Half \in Nat \ {0}
ASSUME LimitAssumption   == Limit \in Nat \ {0}
ASSUME BoundsAssumption  == MaxAdds \in Nat /\ MaxThreads \in Nat \ {0}

VARIABLES
  thread,      \* the thread that has the id, counted from 1
  status,      \* running, exited or killed
  stringMap,   \* stringMap: a function from the strings met to their ids
  memory,      \* memory[s]: buffer and streams of the Recorder of stream s
  disk,        \* disk[s]: the record file and the string file of stream s
  adds         \* callbacks so far

vars == <<thread, status, stringMap, memory, disk, adds>>

Types == {"Jint", "Jlong", "Jfloat", "Jdouble"}

(* 2^31 or, for 64 bits, 2^63: where the negative numbers begin. *)
Sign(wide) == IF wide THEN 2 * Half * Half ELSE Half

Wide(type) == type \in {"Jlong", "Jdouble"}

(***************************************************************************)
(* What a callback can be given: a whole number in two's complement range, *)
(* or the bit pattern of a floating point number.                          *)
(***************************************************************************)
Values(type) ==
  IF type \in {"Jfloat", "Jdouble"}
  THEN 0 .. 2 * Sign(Wide(type)) - 1
  ELSE -Sign(Wide(type)) .. Sign(Wide(type)) - 1

Stream_Narrow(static, put, type) ==   \* jlong goes to the 32 bit recorder
  [static |-> static, put |-> put, wide |-> type = "Jdouble",
   float |-> type \in {"Jfloat", "Jdouble"}, string |-> type = "Jstring"]

(***************************************************************************)
(* The stream a callback records in; concate() turns these five flags into *)
(* the prefix of the file name, all a reader knows about the records.      *)
(***************************************************************************)
Stream(static, put, type) ==
  [static |-> static, put |-> put, wide |-> Wide(type),
   float |-> type \in {"Jfloat", "Jdouble"}, string |-> type = "Jstring"]

Streams == {Stream(static, put, type) :
              static \in BOOLEAN, put \in BOOLEAN, type \in Types \cup {"Jstring"}}

StringStreams == {s \in Streams : s.string}

(* val_t is unsigned: the assignment keeps the low bits. *)
Stored(s, v) == v % (2 * Sign(s.wide))

NoFile == [by |-> 0, rows |-> << >>]

Fresh == [s \in Streams |->
           [buffer |-> << >>, fout |-> FALSE, pending |-> << >>, fstrout |-> FALSE]]

Init ==
  /\ thread = 1
  /\ status = "running"
  /\ stringMap = << >>
  /\ memory = Fresh
  /\ disk = [s \in Streams |-> [records |-> NoFile, strings |-> NoFile]]
  /\ adds = 0

(***************************************************************************)
(* The file after a write of `rows'.  Opening it, which the first write of *)
(* a thread does, empties what an earlier thread with the same id left.    *)
(***************************************************************************)
Extended(file, opened, rows) ==
  [by |-> thread, rows |-> (IF opened THEN file.rows ELSE << >>) \o rows]

Full(m) == Len(m.buffer) >= Limit

(***************************************************************************)
(* add(), in memory and on disk: a full buffer goes to the file first. Its *)
(* 4096 records are more than std::ofstream holds back.                    *)
(***************************************************************************)
Added(m, rec) ==
  [m EXCEPT !.buffer = IF Full(m) THEN <<rec>> ELSE Append(@, rec),
            !.fout = @ \/ Full(m)]

Synced(d, m) ==
  [d EXCEPT !.records = IF Full(m) THEN Extended(@, m.fout, m.buffer) ELSE @]

(***************************************************************************)
(* addString(), in memory and on disk: the row goes to a std::ofstream,    *)
(* opened by the first row, which holds it back or, when it would not fit, *)
(* writes everything it holds.                                             *)
(***************************************************************************)
WithRow(m, row, fits) ==
  [m EXCEPT !.pending = IF fits THEN Append(@, row) ELSE << >>,
            !.fstrout = TRUE]

RowSynced(d, m, row, fits) ==
  [d EXCEPT !.strings =
     Extended(@, m.fstrout, IF fits THEN << >> ELSE Append(m.pending, row))]

Callback ==
  /\ status = "running"
  /\ adds < MaxAdds
  /\ adds' = adds + 1
  /\ UNCHANGED <<thread, status>>

(* A record keeps what it was made of beside what the file holds of it. *)
AddNumber(s, v) ==
  LET rec == [by |-> thread, data |-> Stored(s, v), of |-> v]
  IN  /\ Callback
      /\ memory' = [memory EXCEPT ![s] = Added(@, rec)]
      /\ disk'   = [disk EXCEPT ![s] = Synced(@, memory[s])]
      /\ UNCHANGED stringMap

(* The callbacks for numbers in fields of objects. *)
addFieldValueRecord(put, type, v) == AddNumber(Stream(FALSE, put, type), v)

(* The same for static fields. *)
addStaticFieldValueRecord(put, type, v) == AddNumber(Stream(TRUE, put, type), v)

StringRecord(str, id) ==
  [by |-> thread, data |-> id % IdSpace, of |-> str, id |-> id]

(* The callbacks for a string this thread has met before. *)
KnownString(s, str) ==
  /\ Callback
  /\ str \in DOMAIN stringMap
  /\ memory' = [memory EXCEPT ![s] = Added(@, StringRecord(str, stringMap[str]))]
  /\ disk'   = [disk EXCEPT ![s] = Synced(@, memory[s])]
  /\ UNCHANGED stringMap

NextId_PerStream(s) ==      \* counts the rows of this stream only
  Len(memory[s].pending)
    + (IF memory[s].fstrout THEN Len(disk[s].strings.rows) ELSE 0)

(* The id of a new string: how many strings the thread has met. *)
NextId(s) == Cardinality(DOMAIN stringMap)

Remember(str, id) ==
  [x \in DOMAIN stringMap \cup {str} |-> IF x = str THEN id ELSE stringMap[x]]

(* The callbacks for a new string: its row first, then the record. *)
NewString(s, str, fits) ==
  LET id  == NextId(s)
      row == [by |-> thread, id |-> id, str |-> str]
      m   == WithRow(memory[s], row, fits)
      d   == RowSynced(disk[s], memory[s], row, fits)
  IN  /\ Callback
      /\ str \notin DOMAIN stringMap
      /\ memory' = [memory EXCEPT ![s] = Added(m, StringRecord(str, id))]
      /\ disk'   = [disk EXCEPT ![s] = Synced(d, m)]
      /\ stringMap' = Remember(str, id)

(* The string callback for fields of objects. *)
addFieldValueRecordJstring(put, str) ==
  LET s == Stream(FALSE, put, "Jstring")
  IN  KnownString(s, str) \/ \E fits \in BOOLEAN : NewString(s, str, fits)

(***************************************************************************)
(* The same for static fields.  It assigns stringMap before it calls       *)
(* addString instead of after, which nobody can see.                       *)
(***************************************************************************)
addStaticFieldValueRecordJstring(put, str) ==
  LET s == Stream(TRUE, put, "Jstring")
  IN  KnownString(s, str) \/ \E fits \in BOOLEAN : NewString(s, str, fits)

Closed_KeepsRows(d, m) ==   \* fstrout is never closed
  [d EXCEPT !.records = IF m.buffer # << >> THEN Extended(@, m.fout, m.buffer) ELSE @]

(* The files of a stream after its Recorder was destroyed. *)
Closed(d, m) ==
  [records |-> IF m.buffer # << >> THEN Extended(d.records, m.fout, m.buffer)
                                   ELSE d.records,
   strings |-> IF m.fstrout THEN Extended(d.strings, TRUE, m.pending)
                            ELSE d.strings]

ThreadExit ==
  /\ status = "running"
  /\ status' = "exited"
  /\ disk' = [s \in Streams |-> Closed(disk[s], memory[s])]
  /\ memory' = Fresh
  /\ stringMap' = << >>
  /\ UNCHANGED <<thread, adds>>

(* The kernel gives the id to a new thread. *)
NextThread ==
  /\ status = "exited"
  /\ thread < MaxThreads
  /\ thread' = thread + 1
  /\ status' = "running"
  /\ UNCHANGED <<stringMap, memory, disk, adds>>

(* The process ends with the thread running; a null string does that too. *)
ProcessExit ==
  /\ status = "running"
  /\ status' = "killed"
  /\ memory' = Fresh
  /\ stringMap' = << >>
  /\ UNCHANGED <<thread, disk, adds>>

Next ==
  \/ \E put \in BOOLEAN, type \in Types : \E v \in Values(type) :
       \/ addFieldValueRecord(put, type, v)
       \/ addStaticFieldValueRecord(put, type, v)
  \/ \E put \in BOOLEAN, str \in Str :
       \/ addFieldValueRecordJstring(put, str)
       \/ addStaticFieldValueRecordJstring(put, str)
  \/ ThreadExit
  \/ NextThread
  \/ ProcessExit

Spec == Init /\ [][Next]_vars

-----------------------------------------------------------------------------

Records(s) == ToSet(disk[s].records.rows)

(* What a reader who knows the prefix of a file makes of stored bits. *)
Decoded(s, b) ==
  IF ~s.float /\ b >= Sign(s.wide) THEN b - 2 * Sign(s.wide) ELSE b

Rows == UNION {ToSet(disk[s].strings.rows) : s \in StringStreams}

(***************************************************************************)
(* Types: with the widths of the stored fields and the bound of _buffer.   *)
(***************************************************************************)
TypeOK ==
  /\ thread \in 1..MaxThreads
  /\ status \in {"running", "exited", "killed"}
  /\ DOMAIN stringMap \subseteq Str
  /\ adds \in 0..MaxAdds
  /\ \A s \in Streams :
       /\ Len(memory[s].buffer) <= Limit
       /\ \A r \in Records(s) \cup ToSet(memory[s].buffer) :
            r.data \in 0 .. (IF s.string THEN IdSpace ELSE 2 * Sign(s.wide)) - 1

(***************************************************************************)
(* Safety: the number a reader decodes from a record, knowing only the     *)
(* prefix of the file, is the number the callback was given, sign, width   *)
(* and bit pattern included.                                               *)
(***************************************************************************)
NumbersSurvive ==
  \A s \in Streams \ StringStreams : \A r \in Records(s) : Decoded(s, r.data) = r.of

(***************************************************************************)
(* Safety: a string id is never resolved to a wrong string, in whichever   *)
(* of the four string files the row is found, unless the thread had met    *)
(* more than IdSpace strings or the row is of another thread with its id.  *)
(* A thread writes one row per string, across the four files, and never    *)
(* two rows with one id, even after ids have wrapped around in the records.*)
(***************************************************************************)
IdsResolve ==
  /\ \A s \in StringStreams : \A r \in Records(s), row \in Rows :
       r.id < IdSpace /\ row.by = r.by /\ row.id = r.data => row.str = r.of
  /\ \A p, q \in Rows : p.by = q.by => (p.id = q.id <=> p.str = q.str)
  /\ \A s, z \in StringStreams :
       \A i \in DOMAIN disk[s].strings.rows, j \in DOMAIN disk[z].strings.rows :
         disk[s].strings.rows[i] = disk[z].strings.rows[j] => s = z /\ i = j

(***************************************************************************)
(* Safety: once a thread has ended, every string record it left on disk    *)
(* has its row in one of the four files, unless a later thread with the    *)
(* same kernel id has emptied one of them.                                 *)
(***************************************************************************)
TablesComplete ==
  \A s \in StringStreams : \A r \in Records(s) :
    r.by < thread \/ status = "exited" =>
      \/ \E row \in Rows : row = [by |-> r.by, id |-> r.id, str |-> r.of]
      \/ \E z \in StringStreams : disk[z].strings.by > r.by

=============================================================================
