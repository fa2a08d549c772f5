----------------------------- MODULE RecordFile -----------------------------
(***************************************************************************)
(* One trace file between the tracer and the database, word by word:       *)
(* RecordReader<T>::transform_local of include/record_reader.hpp, with     *)
(* which addr2id rewrites the addresses of a file in place, and the loop   *)
(* of load_timeline in csv2db.cpp, which reads the result.                 *)
(*                                                                         *)
(* The file may end in a part of a record, when the traced process was     *)
(* killed or the disk was full during a write, and the rewriting may be    *)
(* killed.                                                                 *)
(***************************************************************************)
EXTENDS Integers, Sequences

CONSTANTS
  Size,          \* sizeof(T), in words
  AddrWord,      \* the words of a record that hold addresses
  Buffer,        \* _buffer_size, records per block
  MaxRecords     \* bound: records in the file

ASSUME SizeAssumption   == Size \in Nat \ {0} /\ AddrWord \subseteq 1..Size
ASSUME BufferAssumption == Buffer \in Nat \ {0} /\ MaxRecords \in Nat

VARIABLES
  count,     \* whole records the tracer left in the file
  tail,      \* words of a last record that is not whole
  file,      \* the words of the file
  pos,       \* position of f
  _buffer,   \* words of the records read
  eof,
  pc,        \* read, write, done or loaded
  killed,    \* the rewriting was killed
  rows       \* records load_timeline found

fileVars == <<count, tail, file, pos, _buffer, eof, pc, killed, rows>>

-----------------------------------------------------------------------------

Word(r, w, new) == [rec |-> r, word |-> w, new |-> new]

(* The n words a file starts with, its addresses replaced up to word k. *)
Words(n, k) ==
  [i \in 1..n |-> LET w == ((i - 1) % Size) + 1
                  IN  Word(((i - 1) \div Size) + 1, w, i <= k /\ w \in AddrWord)]

FileInit ==
  /\ count \in 0..MaxRecords
  /\ tail \in 0..(Size - 1)
  /\ file = Words(count * Size + tail, 0)
  /\ pos = 0
  /\ _buffer = << >>
  /\ eof = FALSE
  /\ pc = "read" /\ killed = FALSE
  /\ rows = << >>

(* Whole records from the position on, at most n of them. *)
Available(n) == IF Len(file) - pos >= n * Size THEN n ELSE (Len(file) - pos) \div Size

(* The transformers work on the words that are addresses in a T. *)
Transformed(words) ==
  [i \in DOMAIN words |-> IF ((i - 1) % Size) + 1 \in AddrWord
                          THEN [words[i] EXCEPT !.new = TRUE] ELSE words[i]]

(* Slips a change to the code could make; each breaks a property below. *)
Read_Short ==               \* eof when a block is not full
  /\ pc = "read"
  /\ LET n == Available(Buffer)
     IN  /\ eof' = (n <= Buffer)
         /\ pos' = pos + n * Size
         /\ _buffer' = Transformed(SubSeq(file, pos + 1, pos + n * Size))
  /\ pc' = "write"
  /\ UNCHANGED <<count, tail, file, killed, rows>>

(* fread and the transformers.  A read that meets the end of the file sets *)
(* its flag and has consumed the part of a record at the end too.          *)
Read ==
  /\ pc = "read"
  /\ LET n == Available(Buffer)
     IN  /\ eof' = (n < Buffer)
         /\ pos' = IF n < Buffer THEN Len(file) ELSE pos + n * Size
         /\ _buffer' = Transformed(SubSeq(file, pos + 1, pos + n * Size))
  /\ pc' = "write"
  /\ UNCHANGED <<count, tail, file, killed, rows>>

(* The file with words in place of those from position p + 1 on. *)
Overwritten(p, words) ==
  [i \in DOMAIN file |-> IF i \in (p + 1)..(p + Len(words)) THEN words[i - p] ELSE file[i]]

Write_NoSeek ==             \* the block is written where the read ended
  /\ pc = "write"
  /\ file' = [i \in 1..(pos + Len(_buffer)) |->
                IF i > pos THEN _buffer[i - pos] ELSE file[i]]
  /\ pc' = IF eof THEN "done" ELSE "read"
  /\ UNCHANGED <<count, tail, pos, _buffer, eof, killed, rows>>

Write_Rewinds ==            \* the position is left at the start of the block
  /\ pc = "write"
  /\ file' = Overwritten(pos - Len(_buffer), _buffer)
  /\ pos' = pos - Len(_buffer)
  /\ pc' = IF eof THEN "done" ELSE "read"
  /\ UNCHANGED <<count, tail, _buffer, eof, killed, rows>>

(* fseek back by the records read, fwrite, fflush. *)
Write ==
  /\ pc = "write"
  /\ file' = Overwritten(pos - Len(_buffer), _buffer)
  /\ pc' = IF eof THEN "done" ELSE "read"
  /\ UNCHANGED <<count, tail, pos, _buffer, eof, killed, rows>>

transform_local == Read \/ Write

(* Killed while the stream writes a block: k words of it have arrived. *)
Killed(k) ==
  /\ pc = "write"
  /\ k \in 0..Len(_buffer)
  /\ file' = Overwritten(pos - Len(_buffer), SubSeq(_buffer, 1, k))
  /\ pc' = "done" /\ killed' = TRUE
  /\ UNCHANGED <<count, tail, pos, _buffer, eof, rows>>

(* load_timeline takes whole records until fread finds none. *)
load_timeline ==
  /\ pc = "done"
  /\ rows' = [i \in 1..(Len(file) \div Size) |-> SubSeq(file, (i - 1) * Size + 1, i * Size)]
  /\ pc' = "loaded"
  /\ UNCHANGED <<count, tail, file, pos, _buffer, eof, killed>>

FileNext == transform_local \/ load_timeline \/ \E k \in 0..(Buffer * Size) : Killed(k)

FileSpec == FileInit /\ [][FileNext]_fileVars /\ WF_fileVars(transform_local)

-----------------------------------------------------------------------------

WordType == [rec : 1..(MaxRecords + 1), word : 1..Size, new : BOOLEAN]

(* Types, a position inside the file and a buffer that is not overrun. *)
FileTypeOK ==
  /\ count \in 0..MaxRecords /\ tail \in 0..(Size - 1)
  /\ file \in Seq(WordType) /\ _buffer \in Seq(WordType)
  /\ pos \in 0..Len(file) /\ Len(_buffer) <= Buffer * Size
  /\ eof \in BOOLEAN /\ killed \in BOOLEAN
  /\ pc \in {"read", "write", "done", "loaded"}
  /\ rows \in Seq(Seq(WordType))

(* Words of the blocks that are full. *)
FullBlocks == (count \div Buffer) * Buffer * Size

(***************************************************************************)
(* Safety: at every moment, so also where the tool is killed, a file of    *)
(* whole records has its addresses replaced up to some word and is         *)
(* untouched behind it: no record is skipped, written twice, moved or cut. *)
(* A part of a record at the end costs nothing in the blocks before the    *)
(* last one, although the last one is then written out of place.           *)
(***************************************************************************)
ReplacedUpTo ==
  /\ Len(file) = count * Size + tail
  /\ \E k \in 0..Len(file) :
       LET n == IF tail = 0 THEN Len(file) ELSE FullBlocks
       IN  SubSeq(file, 1, n) = SubSeq(Words(Len(file), k), 1, n)

(***************************************************************************)
(* Safety: what reaches the database.  Unless the rewriting was killed     *)
(* there is one row for each whole record the tracer left, in order and    *)
(* with all its addresses replaced, except that a part of a record at the  *)
(* end spoils the rows of a last block that is not full.                   *)
(***************************************************************************)
RowsRight ==
  pc = "loaded" /\ ~killed =>
    /\ Len(rows) = count
    /\ \A i \in 1..count :
         tail = 0 \/ i * Size <= FullBlocks =>
           rows[i] = SubSeq(Words(Len(file), Len(file)), (i - 1) * Size + 1, i * Size)

(***************************************************************************)
(* Liveness: the loop ends for every length of the file, multiples of the  *)
(* buffer included, where the last read finds nothing.                     *)
(***************************************************************************)
TransformEnds == <>(pc \in {"done", "loaded"})
=============================================================================
