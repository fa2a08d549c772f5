---------------------------- MODULE Addr2idProofs ----------------------------
(***************************************************************************)
(* Proofs about addr2id: RecordFile, how it rewrites one trace file, for   *)
(* every record layout, every buffer, every length of the file and every   *)
(* word at which it is killed, and AddrMap, what it writes there, for all  *)
(* numbers of objects, addresses, files, records, moves and runs.          *)
(***************************************************************************)
EXTENDS AddrMap, RecordFile, TLAPS, SequenceTheorems, FiniteSetTheorems, WellFoundedInduction

-----------------------------------------------------------------------------
(* RecordFile: the parts of the inductive invariant *)

(* Word i of the file, as the tracer wrote it and with its address replaced. *)
RecOf(i)   == ((i - 1) \div Size) + 1
PlaceOf(i) == ((i - 1) % Size) + 1
Old(i)     == Word(RecOf(i), PlaceOf(i), FALSE)
New(i)     == Word(RecOf(i), PlaceOf(i), PlaceOf(i) \in AddrWord)

Length == count * Size + tail

(* The first n words of the file are replaced up to word k. *)
UpTo(k, n) == \A i \in 1..n : file[i] = IF i <= k THEN New(i) ELSE Old(i)

(* Words that are rewritten in place, whatever the file ends in. *)
Sound == IF tail = 0 THEN Length ELSE FullBlocks

(* The buffer holds the n words behind position p, replaced. *)
Holds(p, n) ==
  /\ _buffer \in [1..n -> WordType]
  /\ \A i \in 1..n : _buffer[i] = New(p + i)

WordShapes ==
  /\ count \in 0..MaxRecords /\ tail \in 0..(Size - 1)
  /\ file \in [1..Length -> WordType] /\ _buffer \in Seq(WordType)
  /\ pos \in 0..Length /\ Len(_buffer) <= Buffer * Size
  /\ eof \in BOOLEAN /\ killed \in BOOLEAN
  /\ pc \in {"read", "write", "done", "loaded"}
  /\ rows \in Seq(Seq(WordType))

(* Before a read m blocks have been rewritten and nothing behind them. *)
BeforeRead(m) ==
  m * Buffer <= count /\ pos = (m * Buffer) * Size /\ UpTo(pos, Length)

(* Before a write the next block is in the buffer: a full one, or the rest *)
(* of the whole records, when the position is behind a part of a record.   *)
BeforeWrite(m) ==
  /\ m * Buffer <= count /\ UpTo((m * Buffer) * Size, Length)
  /\ \/ /\ ~eof /\ (m + 1) * Buffer <= count
        /\ pos = (m * Buffer) * Size + Buffer * Size
        /\ Holds((m * Buffer) * Size, Buffer * Size)
     \/ /\ eof /\ count < (m + 1) * Buffer
        /\ pos = Length
        /\ Holds((m * Buffer) * Size, (count - m * Buffer) * Size)

Progress ==
  /\ pc \in {"read", "write"} => ~killed
  /\ pc = "read" => \E m \in Nat : BeforeRead(m)
  /\ pc = "write" => \E m \in Nat : BeforeWrite(m)
  /\ pc \in {"done", "loaded"} => \E k \in 0..Length : UpTo(k, Sound)
  /\ pc \in {"done", "loaded"} /\ ~killed => UpTo(Length, Sound)

(* What was loaded is the whole records of the file. *)
Loaded ==
  pc = "loaded" =>
    rows = [i \in 1..count |-> SubSeq(file, (i - 1) * Size + 1, i * Size)]

FileIInv == WordShapes /\ Progress /\ Loaded

-----------------------------------------------------------------------------
(* Arithmetic *)

(* Products of natural numbers, and their order. *)
LEMMA Products ==
  ASSUME NEW a \in Nat, NEW b \in Nat, NEW c \in Nat
  PROVE  /\ a * c \in Nat /\ (a + b) * c = a * c + b * c
         /\ a <= b => a * c <= b * c
         /\ a < b => a * c + c <= b * c
OBVIOUS

(* Division has one result. *)
LEMMA Division ==
  ASSUME NEW d \in Nat \ {0}, NEW q \in Nat, NEW r \in 0..(d - 1)
  PROVE  (q * d + r) \div d = q /\ (q * d + r) % d = r
OBVIOUS

(* What division says of a number. *)
LEMMA Quotient ==
  ASSUME NEW d \in Nat \ {0}, NEW a \in Nat
  PROVE  \E q \in Nat, r \in 0..(d - 1) : q = a \div d /\ r = a % d /\ a = q * d + r
<1>1. a = d * (a \div d) + (a % d) /\ a \div d \in Int /\ a % d \in 0..(d - 1)
  OBVIOUS
<1>2. a \div d >= 0
  OBVIOUS
<1>3. PICK e \in Nat, r \in 0..(d - 1) : e = a \div d /\ r = a % d
  BY <1>1, <1>2
<1>4. a = d * e + r
  BY <1>1, <1>3
<1>5. a = e * d + r
  BY <1>4
<1>. QED
  BY <1>3, <1>5

(* A multiple of d does not change the remainder. *)
LEMMA Remainder ==
  ASSUME NEW d \in Nat \ {0}, NEW q \in Nat, NEW a \in Nat
  PROVE  (q * d + a) % d = a % d
<1>2. PICK e \in Nat, r \in 0..(d - 1) : e = a \div d /\ r = a % d /\ a = e * d + r
  BY Quotient
<1>3. q * d + a = (q + e) * d + r
  BY <1>2
<1>4. ((q + e) * d + r) % d = r
  BY Division
<1>. QED
  BY <1>2, <1>3, <1>4

(* Of numbers below c * d + d the quotient is at most c. *)
LEMMA QuotientBound ==
  ASSUME NEW d \in Nat \ {0}, NEW c \in Nat, NEW a \in Nat, a < c * d + d
  PROVE  a \div d <= c
<1>2. PICK e \in Nat, r \in 0..(d - 1) : e = a \div d /\ r = a % d /\ a = e * d + r
  BY Quotient
<1>3. e * d <= a
  BY <1>2
<1>4. c < e => c * d + d <= e * d
  BY Products
<1>5. c * d \in Nat /\ e * d \in Nat
  BY Products
<1>. QED
  BY <1>2, <1>3, <1>4, <1>5

-----------------------------------------------------------------------------
(* Words *)

(* A file with its addresses replaced up to word k, word by word. *)
LEMMA WordsAt ==
  ASSUME NEW n \in Nat, NEW k \in Nat, NEW i \in 1..n
  PROVE  Words(n, k)[i] = IF i <= k THEN New(i) ELSE Old(i)
<1>1. Words(n, k)[i] = Word(RecOf(i), PlaceOf(i), i <= k /\ PlaceOf(i) \in AddrWord)
  BY DEF Words, RecOf, PlaceOf
<1>2. CASE i <= k
  <2>1. (i <= k /\ PlaceOf(i) \in AddrWord) = (PlaceOf(i) \in AddrWord)
    BY <1>2
  <2>. QED
    BY <1>1, <1>2, <2>1, Zenon DEF New
<1>3. CASE ~(i <= k)
  <2>1. (i <= k /\ PlaceOf(i) \in AddrWord) = FALSE
    BY <1>3, Zenon
  <2>. QED
    BY <1>1, <1>3, <2>1, Zenon DEF Old
<1>. QED
  BY <1>2, <1>3

(* Words of a file of at most MaxRecords records and a part of one. *)
LEMMA WordsType ==
  ASSUME NEW c \in 0..MaxRecords, NEW t \in 0..(Size - 1), NEW i \in 1..(c * Size + t)
  PROVE  Old(i) \in WordType /\ New(i) \in WordType
<1>. USE SizeAssumption, BufferAssumption
<1>1. i - 1 \in Nat /\ i - 1 < c * Size + Size
  BY Products
<1>2. (i - 1) \div Size <= c /\ (i - 1) \div Size \in Nat /\ (i - 1) % Size \in 0..(Size - 1)
  BY <1>1, QuotientBound, Quotient
<1>3. RecOf(i) \in 1..(MaxRecords + 1) /\ PlaceOf(i) \in 1..Size
  BY <1>2 DEF RecOf, PlaceOf
<1>4. (PlaceOf(i) \in AddrWord) \in BOOLEAN /\ FALSE \in BOOLEAN
  OBVIOUS
<1>. QED
  BY <1>3, <1>4, Zenon DEF Old, New, Word, WordType

(* The other fields of a word are left alone. *)
LEMMA Replaced ==
  ASSUME NEW r, NEW w, NEW a, NEW b
  PROVE  [[rec |-> r, word |-> w, new |-> a] EXCEPT !.new = b] = [rec |-> r, word |-> w, new |-> b]
OBVIOUS

(* The transformers on a word of the file. *)
LEMMA Transforms ==
  ASSUME NEW i \in Nat \ {0}
  PROVE  New(i) = IF PlaceOf(i) \in AddrWord THEN [Old(i) EXCEPT !.new = TRUE] ELSE Old(i)
<1>1. CASE PlaceOf(i) \in AddrWord
  <2>1. (PlaceOf(i) \in AddrWord) = TRUE
    BY <1>1, Zenon
  <2>2. New(i) = [rec |-> RecOf(i), word |-> PlaceOf(i), new |-> TRUE]
    BY <2>1, Zenon DEF New, Word
  <2>3. [Old(i) EXCEPT !.new = TRUE] = [rec |-> RecOf(i), word |-> PlaceOf(i), new |-> TRUE]
    BY Replaced, Zenon DEF Old, Word
  <2>. QED
    BY <1>1, <2>2, <2>3, Zenon
<1>2. CASE PlaceOf(i) \notin AddrWord
  <2>1. (PlaceOf(i) \in AddrWord) = FALSE
    BY <1>2
  <2>2. New(i) = Old(i)
    BY <2>1, Zenon DEF New, Old
  <2>. QED
    BY <1>2, <2>2
<1>. QED
  BY <1>1, <1>2

-----------------------------------------------------------------------------
(* The steps *)

(* The constants and the lengths. *)
LEMMA Sizes ==
  ASSUME count \in 0..MaxRecords, tail \in 0..(Size - 1)
  PROVE  /\ Size \in Nat \ {0} /\ Buffer \in Nat \ {0}
         /\ count \in Nat /\ tail \in Nat /\ count * Size \in Nat
         /\ Length \in Nat /\ Length = count * Size + tail
         /\ FullBlocks \in 0..(count * Size)
         /\ Length \div Size = count
<1>. USE SizeAssumption, BufferAssumption
<1>1. count * Size \in Nat /\ count \in Nat
  BY Products
<1>2. PICK m \in Nat : m = count \div Buffer /\ m * Buffer <= count
  <2>1. PICK m \in Nat, r \in 0..(Buffer - 1) :
          m = count \div Buffer /\ r = count % Buffer /\ count = m * Buffer + r
    BY <1>1, Quotient
  <2>2. m * Buffer \in Nat
    BY Products
  <2>. QED
    BY <2>1, <2>2
<1>3. m * Buffer \in Nat /\ (m * Buffer) * Size \in Nat
      /\ (m * Buffer) * Size <= count * Size
  BY <1>1, <1>2, Products
<1>4. FullBlocks = (m * Buffer) * Size
  BY <1>2 DEF FullBlocks
<1>5. Length \div Size = count
  BY <1>1, Division DEF Length
<1>. QED
  BY <1>1, <1>3, <1>4, <1>5 DEF Length

(* What is rewritten in place is a part of the file. *)
LEMMA SoundPart ==
  ASSUME count \in 0..MaxRecords, tail \in 0..(Size - 1)
  PROVE  Sound \in 0..Length /\ Sound \in Nat /\ Length \in Nat
<1>1. PICK c \in Nat : c = count * Size /\ FullBlocks \in 0..c /\ Length = c + tail
  BY Sizes
<1>2. tail \in Nat
  BY SizeAssumption
<1>. QED
  BY <1>1, <1>2 DEF Sound

(* The full blocks, found from both sides. *)
LEMMA Blocks ==
  ASSUME count \in 0..MaxRecords, tail \in 0..(Size - 1),
         NEW m \in Nat, m * Buffer <= count, count < (m + 1) * Buffer
  PROVE  FullBlocks = (m * Buffer) * Size
<1>. USE SizeAssumption, BufferAssumption
<1>1. count \in Nat /\ m * Buffer \in Nat
  BY Products
<1>2. (m + 1) * Buffer = m * Buffer + Buffer
  OBVIOUS
<1>3. PICK r \in 0..(Buffer - 1) : count = m * Buffer + r
  BY <1>1, <1>2
<1>4. count \div Buffer = m
  BY <1>3, Division
<1>. QED
  BY <1>4 DEF FullBlocks

(* Words in place of those from position p on. *)
LEMMA OverwrittenAt ==
  ASSUME NEW n \in Nat, NEW p \in Nat, NEW l \in Nat, p + l <= n,
         file \in [1..n -> WordType], NEW words \in [1..l -> WordType]
  PROVE  /\ Overwritten(p, words) \in [1..n -> WordType]
         /\ \A i \in 1..n : Overwritten(p, words)[i] =
              IF i > p /\ i <= p + l THEN words[i - p] ELSE file[i]
<1>1. words \in Seq(WordType) /\ Len(words) = l
  OBVIOUS
<1>2. DOMAIN file = 1..n
  OBVIOUS
<1>3. Overwritten(p, words) =
        [i \in 1..n |-> IF i \in (p + 1)..(p + l) THEN words[i - p] ELSE file[i]]
  BY <1>1, <1>2 DEF Overwritten
<1>4. ASSUME NEW i \in 1..n
      PROVE  /\ i \in (p + 1)..(p + l) <=> i > p /\ i <= p + l
             /\ i > p /\ i <= p + l => words[i - p] \in WordType
             /\ file[i] \in WordType
  OBVIOUS
<1>. QED
  BY <1>3, <1>4

(* The words of a file from position p on. *)
LEMMA Part ==
  ASSUME NEW n \in Nat, NEW f \in [1..n -> WordType], NEW p \in Nat, NEW l \in Nat, p + l <= n
  PROVE  /\ SubSeq(f, p + 1, p + l) \in Seq(WordType)
         /\ Len(SubSeq(f, p + 1, p + l)) = l
         /\ \A i \in 1..l : SubSeq(f, p + 1, p + l)[i] = f[p + i]
<1>1. \A i \in (p + 1)..(p + l) : f[i] \in WordType
  OBVIOUS
<1>2. p + 1 \in Int /\ p + l \in Int
  OBVIOUS
<1>3. /\ SubSeq(f, p + 1, p + l) \in Seq(WordType)
      /\ Len(SubSeq(f, p + 1, p + l)) = IF p + 1 <= p + l THEN p + l - (p + 1) + 1 ELSE 0
      /\ \A i \in 1..(p + l - (p + 1) + 1) : SubSeq(f, p + 1, p + l)[i] = f[p + 1 + i - 1]
  BY <1>1, <1>2, SubSeqProperties
<1>4. p + l - (p + 1) + 1 = l /\ (p + 1 <= p + l <=> l # 0)
  OBVIOUS
<1>5. Len(SubSeq(f, p + 1, p + l)) = l
  BY <1>3, <1>4
<1>6. \A i \in 1..l : p + 1 + i - 1 = p + i
  OBVIOUS
<1>. QED
  BY <1>3, <1>4, <1>5, <1>6

(* What reading and transforming n words from a block's start gives. *)
LEMMA TransformedAt ==
  ASSUME count \in 0..MaxRecords, tail \in 0..(Size - 1),
         file \in [1..Length -> WordType], NEW p \in Nat, NEW n \in Nat,
         NEW q \in Nat, p = q * Size, p + n <= Length, UpTo(p, Length)
  PROVE  LET words == Transformed(SubSeq(file, p + 1, p + n))
         IN  /\ words \in [1..n -> WordType]
             /\ \A i \in 1..n : words[i] = New(p + i)
<1>0. Size \in Nat \ {0} /\ Length \in Nat /\ Length = count * Size + tail
  BY Sizes
<1>1. PICK s \in Seq(WordType) : s = SubSeq(file, p + 1, p + n) /\ Len(s) = n
                                /\ \A i \in 1..n : s[i] = file[p + i]
  <2>1. Length \in Nat
    BY <1>0
  <2>2. /\ SubSeq(file, p + 1, p + n) \in Seq(WordType)
        /\ Len(SubSeq(file, p + 1, p + n)) = n
        /\ \A i \in 1..n : SubSeq(file, p + 1, p + n)[i] = file[p + i]
    BY <2>1, Part
  <2>. QED
    BY <2>2, Zenon
<1>2. DOMAIN s = 1..n
  BY <1>1, LenProperties
<1>3. ASSUME NEW i \in 1..n
      PROVE  /\ p + i \in 1..Length
             /\ s[i] = Old(p + i)
             /\ ((i - 1) % Size) + 1 = PlaceOf(p + i)
  <2>1. p + i \in 1..Length /\ ~(p + i <= p) /\ i - 1 \in Nat /\ p + i - 1 = p + (i - 1)
    BY <1>0
  <2>2. s[i] = Old(p + i)
    BY <1>1, <2>1 DEF UpTo
  <2>3. (p + (i - 1)) % Size = (i - 1) % Size
    BY <1>0, <2>1, Remainder
  <2>. QED
    BY <2>1, <2>2, <2>3 DEF PlaceOf
<1>4. Transformed(s) =
        [i \in 1..n |-> IF ((i - 1) % Size) + 1 \in AddrWord
                        THEN [s[i] EXCEPT !.new = TRUE] ELSE s[i]]
  BY <1>2 DEF Transformed
<1>5. ASSUME NEW i \in 1..n
      PROVE  Transformed(s)[i] = New(p + i) /\ New(p + i) \in WordType
  <2>1. New(p + i) = IF PlaceOf(p + i) \in AddrWord
                     THEN [Old(p + i) EXCEPT !.new = TRUE] ELSE Old(p + i)
    <3>1. p + i \in Nat \ {0}
      BY <1>0, <1>3
    <3>. QED
      BY <3>1, Transforms
  <2>2. New(p + i) \in WordType
    BY <1>0, <1>3, WordsType
  <2>. QED
    BY <1>3, <1>4, <2>1, <2>2, Zenon
<1>6. Transformed(s) \in [1..n -> WordType]
  BY <1>4, <1>5
<1>. QED
  BY <1>1, <1>5, <1>6

(* A file with its addresses replaced up to word k has words. *)
LEMMA WordsFile ==
  ASSUME count \in 0..MaxRecords, tail \in 0..(Size - 1), NEW k \in Nat
  PROVE  /\ Words(Length, k) \in [1..Length -> WordType]
         /\ \A i \in 1..Length : Words(Length, k)[i] = IF i <= k THEN New(i) ELSE Old(i)
<1>1. Length \in Nat /\ Length = count * Size + tail
  BY Sizes
<1>2. \A i \in 1..Length : Words(Length, k)[i] = IF i <= k THEN New(i) ELSE Old(i)
  BY <1>1, WordsAt
<1>3. \A i \in 1..Length : Old(i) \in WordType /\ New(i) \in WordType
  BY <1>1, WordsType
<1>4. \A i \in 1..Length : Words(Length, k)[i] \in WordType
  BY <1>2, <1>3
<1>5. Words(Length, k) = [i \in 1..Length |-> Words(Length, k)[i]]
  BY DEF Words
<1>. QED
  BY <1>2, <1>4, <1>5

(* The tracer's file. *)
LEMMA InitInv == FileInit => FileIInv
<1>. SUFFICES ASSUME FileInit PROVE FileIInv
  OBVIOUS
<1>1. count \in 0..MaxRecords /\ tail \in 0..(Size - 1) /\ file = Words(Length, 0)
  BY DEF FileInit, Length
<1>2. Length \in Nat /\ Size \in Nat \ {0} /\ Buffer \in Nat \ {0} /\ count \in Nat
  BY <1>1, Sizes
<1>3. file \in [1..Length -> WordType] /\ UpTo(0, Length)
  BY <1>1, WordsFile DEF UpTo
<1>4. 0 * Buffer = 0 /\ 0 * Size = 0 /\ Buffer * Size \in Nat
  BY <1>2, Products
<1>5. WordShapes
  <2>1. _buffer \in Seq(WordType) /\ Len(_buffer) = 0 /\ rows \in Seq(Seq(WordType))
    BY EmptySeq DEF FileInit
  <2>2. pos \in 0..Length /\ Len(_buffer) <= Buffer * Size
    BY <1>2, <1>4, <2>1 DEF FileInit
  <2>. QED
    BY <1>1, <1>3, <2>1, <2>2 DEF FileInit, WordShapes
<1>6. BeforeRead(0)
  BY <1>2, <1>3, <1>4 DEF FileInit, BeforeRead
<1>7. Progress /\ Loaded
  BY <1>6 DEF FileInit, Progress, Loaded
<1>. QED
  BY <1>5, <1>7 DEF FileIInv

(* What is left behind the first m blocks. *)
LEMMA Rest ==
  ASSUME count \in 0..MaxRecords, tail \in 0..(Size - 1),
         NEW m \in Nat, m * Buffer <= count
  PROVE  \E p \in Nat, c \in Nat, s \in Nat, b \in Nat :
           /\ p = (m * Buffer) * Size /\ c = count - m * Buffer
           /\ s = c * Size /\ b = Buffer * Size /\ b # 0
           /\ p + s + tail = Length
           /\ count < (m + 1) * Buffer <=> c < Buffer
           /\ c < Buffer => s + tail < b /\ s <= b /\ FullBlocks = p
           /\ c >= Buffer => s >= b
           /\ ((m + 1) * Buffer) * Size = p + b
<1>. USE SizeAssumption, BufferAssumption
<1>1. count \in Nat /\ tail \in Nat /\ m * Buffer \in Nat /\ tail < Size
  BY Products
<1>2. PICK n \in Nat : n = m * Buffer
  BY <1>1
<1>3. PICK c \in Nat : c = count - n
  BY <1>1, <1>2
<1>4. PICK p \in Nat, s \in Nat, b \in Nat : p = n * Size /\ s = c * Size /\ b = Buffer * Size
  BY <1>2, <1>3, Products
<1>5. count * Size = p + s
  <2>1. count = n + c
    BY <1>1, <1>2, <1>3
  <2>2. (n + c) * Size = n * Size + c * Size
    BY Products
  <2>. QED
    BY <2>1, <2>2, <1>4
<1>6. p + s + tail = Length
  BY <1>5, <1>4 DEF Length
<1>7. (m + 1) * Buffer = n + Buffer
  <2>1. (m + 1) * Buffer = m * Buffer + Buffer
    OBVIOUS
  <2>. QED
    BY <2>1, <1>2
<1>8. count < (m + 1) * Buffer <=> c < Buffer
  BY <1>1, <1>2, <1>3, <1>7
<1>9. (c < Buffer => s + Size <= b) /\ (Buffer <= c => b <= s)
  BY <1>4, Products
<1>10. c < Buffer => FullBlocks = p
  BY <1>1, <1>2, <1>4, <1>8, Blocks
<1>11. ((m + 1) * Buffer) * Size = p + b
  <2>1. (n + Buffer) * Size = n * Size + Buffer * Size
    BY <1>2, Products
  <2>. QED
    BY <2>1, <1>4, <1>7
<1>12. b # 0
  <2>1. 0 < Buffer => 0 * Size + Size <= Buffer * Size
    BY Products
  <2>. QED
    BY <2>1, <1>4
<1>13. c < Buffer => s + tail < b /\ s <= b
  BY <1>1, <1>4, <1>9
<1>14. c >= Buffer => s >= b
  BY <1>3, <1>9
<1>. QED
  BY <1>2, <1>3, <1>4, <1>6, <1>8, <1>10, <1>11, <1>12, <1>13, <1>14

(* A block is read and transformed. *)
LEMMA ReadStep ==
  ASSUME FileIInv, Read
  PROVE  FileIInv'
<1>1. WordShapes /\ pc = "read" /\ ~killed
  BY DEF FileIInv, Progress, Read
<1>2. count \in 0..MaxRecords /\ tail \in 0..(Size - 1) /\ file \in [1..Length -> WordType]
  BY <1>1 DEF WordShapes
<1>3. PICK m \in Nat : BeforeRead(m)
  BY <1>1 DEF FileIInv, Progress
<1>4. /\ Length \in Nat /\ tail \in Nat /\ Size \in Nat \ {0} /\ Buffer \in Nat \ {0}
      /\ tail < Size /\ count \in Nat
  BY <1>2, Sizes
<1>5. m * Buffer <= count /\ pos = (m * Buffer) * Size /\ UpTo(pos, Length)
  BY <1>3 DEF BeforeRead
<1>6. PICK p \in Nat, c \in Nat, s \in Nat, b \in Nat :
        /\ p = (m * Buffer) * Size /\ c = count - m * Buffer
        /\ s = c * Size /\ b = Buffer * Size /\ b # 0
        /\ p + s + tail = Length
        /\ count < (m + 1) * Buffer <=> c < Buffer
        /\ c < Buffer => s + tail < b /\ s <= b /\ FullBlocks = p
        /\ c >= Buffer => s >= b
        /\ ((m + 1) * Buffer) * Size = p + b
  BY <1>2, <1>5, Rest
<1>7. Len(file) = Length
  BY <1>2, <1>4
<1>8. UNCHANGED <<count, tail, file, killed, rows>> /\ pc' = "write"
  BY DEF Read
<1>9. UNCHANGED Length
  BY <1>8 DEF Length
<1>. DEFINE n == Available(Buffer)
<1>10. /\ eof' = (n < Buffer)
       /\ pos' = IF n < Buffer THEN Length ELSE p + n * Size
       /\ _buffer' = Transformed(SubSeq(file, p + 1, p + n * Size))
  BY <1>5, <1>6, <1>7 DEF Read
<1>11. m * Buffer \in Nat
  BY <1>4, Products
<1>12. ASSUME NEW l \in Nat, p + l <= Length, l <= b,
              _buffer' = Transformed(SubSeq(file, p + 1, p + l))
       PROVE  /\ Holds(p, l)' /\ _buffer' \in Seq(WordType) /\ Len(_buffer') <= Buffer * Size
  <2>1. /\ _buffer' \in [1..l -> WordType]
        /\ \A i \in 1..l : _buffer'[i] = New(p + i)
    <3>1. PICK q \in Nat : p = q * Size
      BY <1>6, <1>11
    <3>2. UpTo(p, Length)
      BY <1>5, <1>6
    <3>. QED
      BY <1>2, <1>12, <3>1, <3>2, TransformedAt
  <2>2. _buffer' \in Seq(WordType) /\ Len(_buffer') = l
    BY <2>1
  <2>. QED
    BY <1>6, <1>12, <2>1, <2>2 DEF Holds
<1>13. UpTo(p, Length)'
  BY <1>5, <1>6, <1>8, <1>9 DEF UpTo
<1>14. CASE c >= Buffer
  <2>1. n = Buffer
    <3>1. Len(file) - pos >= b
      BY <1>5, <1>6, <1>7, <1>14, <1>4
    <3>. QED
      BY <3>1, <1>6 DEF Available
  <2>2. eof' = FALSE /\ pos' = p + b /\ _buffer' = Transformed(SubSeq(file, p + 1, p + b))
    <3>1. ~(n < Buffer) /\ n * Size = b
      BY <2>1, <1>4, <1>6
    <3>2. eof' = FALSE
      <4>1. (n < Buffer) = FALSE
        BY <3>1
      <4>. QED
        BY <4>1, <1>10
    <3>3. pos' = p + n * Size /\ _buffer' = Transformed(SubSeq(file, p + 1, p + n * Size))
      BY <3>1, <1>10
    <3>. QED
      BY <3>1, <3>2, <3>3
  <2>3. p + b <= Length /\ p + b \in 0..Length
    BY <1>4, <1>6, <1>14
  <2>4. Holds(p, b)' /\ _buffer' \in Seq(WordType) /\ Len(_buffer') <= Buffer * Size
    BY <2>2, <2>3, <1>12
  <2>5. (m + 1) * Buffer <= count
    BY <1>4, <1>6, <1>14
  <2>6. BeforeWrite(m)'
    BY <1>5, <1>6, <1>8, <1>13, <2>2, <2>4, <2>5 DEF BeforeWrite
  <2>7. WordShapes'
    BY <1>1, <1>4, <1>8, <1>9, <2>2, <2>3, <2>4 DEF WordShapes
  <2>. QED
    BY <1>1, <1>8, <2>6, <2>7 DEF FileIInv, Progress, Loaded
<1>15. CASE c < Buffer
  <2>1. n = c
    <3>1. Len(file) - pos = s + tail /\ ~(Len(file) - pos >= b)
      BY <1>5, <1>6, <1>7, <1>15, <1>4
    <3>2. (c * Size + tail) \div Size = c
      BY <1>2, <1>4, Division
    <3>3. n = (s + tail) \div Size
      BY <3>1, <1>6 DEF Available
    <3>. QED
      BY <3>2, <3>3, <1>6
  <2>2. eof' = TRUE /\ pos' = Length /\ _buffer' = Transformed(SubSeq(file, p + 1, p + s))
    <3>1. n < Buffer /\ n * Size = s
      BY <2>1, <1>6, <1>15
    <3>. QED
      BY <3>1, <1>10
  <2>3. p + s <= Length /\ s <= b
    BY <1>4, <1>6, <1>15
  <2>4. Holds(p, s)' /\ _buffer' \in Seq(WordType) /\ Len(_buffer') <= Buffer * Size
    BY <2>2, <2>3, <1>12
  <2>5. count < (m + 1) * Buffer
    BY <1>6, <1>15
  <2>6. BeforeWrite(m)'
    BY <1>5, <1>6, <1>8, <1>9, <1>13, <2>2, <2>4, <2>5 DEF BeforeWrite
  <2>7. WordShapes'
    BY <1>1, <1>4, <1>8, <1>9, <2>2, <2>4 DEF WordShapes
  <2>. QED
    BY <1>1, <1>8, <2>6, <2>7 DEF FileIInv, Progress, Loaded
<1>. QED
  BY <1>4, <1>6, <1>14, <1>15

(* The block, or the part of it that arrives, in the file: where it lands, *)
(* and what is then replaced.  The block is in its place unless the file   *)
(* ends in a part of a record and the block is the last.                   *)
LEMMA Lands ==
  ASSUME WordShapes, NEW m \in Nat, BeforeWrite(m), NEW k \in Nat, k <= Len(_buffer),
         NEW words \in [1..k -> WordType], \A i \in 1..k : words[i] = _buffer[i],
         file' = Overwritten(pos - Len(_buffer), words),
         UNCHANGED <<count, tail, pos>>
  PROVE  /\ file' \in [1..Length -> WordType]
         /\ \E j \in 0..Length : UpTo(j, Sound)'
         /\ ~eof /\ k = Len(_buffer) => BeforeRead(m + 1)'
         /\ eof /\ k = Len(_buffer) => UpTo(Length, Sound)'
<1>1. count \in 0..MaxRecords /\ tail \in 0..(Size - 1) /\ file \in [1..Length -> WordType]
  BY DEF WordShapes
<1>2. /\ Length \in Nat /\ tail \in Nat /\ Size \in Nat \ {0} /\ Buffer \in Nat \ {0}
      /\ tail < Size /\ count \in Nat
  BY <1>1, Sizes
<1>3. m * Buffer <= count /\ UpTo((m * Buffer) * Size, Length)
  BY DEF BeforeWrite
<1>4. PICK p \in Nat, c \in Nat, s \in Nat, b \in Nat :
        /\ p = (m * Buffer) * Size /\ c = count - m * Buffer
        /\ s = c * Size /\ b = Buffer * Size /\ b # 0
        /\ p + s + tail = Length
        /\ count < (m + 1) * Buffer <=> c < Buffer
        /\ c < Buffer => s + tail < b /\ s <= b /\ FullBlocks = p
        /\ c >= Buffer => s >= b
        /\ ((m + 1) * Buffer) * Size = p + b
  BY <1>1, <1>3, Rest
<1>5. UpTo(p, Length)
  BY <1>3, <1>4
<1>6. Length' = Length /\ Sound' = Sound
  BY DEF Length, Sound, FullBlocks
<1>7. Sound \in 0..Length
  BY <1>1, <1>2, Sizes DEF Sound
<1>8. ASSUME NEW l \in Nat, NEW a \in Nat, k <= l, a + l <= Length,
             file' = Overwritten(a, words)
      PROVE  /\ file' \in [1..Length -> WordType]
             /\ \A i \in 1..Length : file'[i] = IF i > a /\ i <= a + k THEN words[i - a] ELSE file[i]
  <2>1. a + k <= Length
    BY <1>2, <1>8
  <2>. QED
    BY <1>1, <1>2, <1>8, <2>1, OverwrittenAt
<1>9. ASSUME NEW l \in Nat, Len(_buffer) = l, p + l <= Length, Holds(p, l),
             file' = Overwritten(p, words)
      PROVE  UpTo(p + k, Length)' /\ file' \in [1..Length -> WordType]
  <2>1. /\ file' \in [1..Length -> WordType]
        /\ \A i \in 1..Length : file'[i] = IF i > p /\ i <= p + k THEN words[i - p] ELSE file[i]
    BY <1>8, <1>9
  <2>2. ASSUME NEW i \in 1..Length
        PROVE  file'[i] = IF i <= p + k THEN New(i) ELSE Old(i)
    <3>1. CASE i > p /\ i <= p + k
      <4>1. i - p \in 1..k /\ i - p \in 1..l /\ p + (i - p) = i
        BY <1>2, <1>9, <3>1
      <4>2. words[i - p] = New(p + (i - p))
        BY <1>9, <4>1 DEF Holds
      <4>. QED
        BY <2>1, <3>1, <4>1, <4>2
    <3>2. CASE ~(i > p)
      BY <2>1, <3>2, <1>2, <1>5 DEF UpTo
    <3>3. CASE ~(i <= p + k)
      BY <2>1, <3>3, <1>2, <1>5 DEF UpTo
    <3>. QED
      BY <3>1, <3>2, <3>3
  <2>. QED
    BY <2>1, <2>2, <1>6 DEF UpTo
<1>10. ASSUME UpTo(p + k, Length)', p + k \in 0..Length
       PROVE  \E j \in 0..Length : UpTo(j, Sound)'
  <2>1. UpTo(p + k, Sound)'
    BY <1>2, <1>6, <1>7, <1>10 DEF UpTo
  <2>. QED
    BY <2>1, <1>10
<1>11. CASE ~eof
  <2>1. (m + 1) * Buffer <= count /\ pos = p + b /\ Holds(p, b)
    BY <1>4, <1>11 DEF BeforeWrite
  <2>2. Len(_buffer) = b
    BY <2>1 DEF Holds
  <2>3. p + b <= Length
    <3>1. c >= Buffer
      BY <1>2, <1>4, <2>1
    <3>. QED
      BY <1>2, <1>4, <3>1
  <2>4. file' = Overwritten(p, words)
    BY <1>4, <2>1, <2>2
  <2>5. UpTo(p + k, Length)' /\ file' \in [1..Length -> WordType]
    BY <1>4, <1>9, <2>1, <2>2, <2>3, <2>4
  <2>6. p + k \in 0..Length
    BY <1>2, <2>2, <2>3
  <2>7. k = Len(_buffer) => BeforeRead(m + 1)'
    <3>1. pos = p + b
      BY <2>1
    <3>. QED
      BY <3>1, <1>4, <1>6, <2>1, <2>2, <2>5 DEF BeforeRead
  <2>. QED
    BY <1>10, <1>11, <2>5, <2>6, <2>7
<1>12. CASE eof
  <2>1. count < (m + 1) * Buffer /\ pos = Length /\ Holds(p, s)
    BY <1>4, <1>12 DEF BeforeWrite
  <2>2. Len(_buffer) = s
    BY <2>1 DEF Holds
  <2>3. pos - Len(_buffer) = p + tail /\ p + tail + s <= Length /\ p + tail \in Nat
    BY <1>2, <1>4, <2>1, <2>2
  <2>4. file' = Overwritten(p + tail, words)
    BY <2>3
  <2>5. CASE tail = 0
    <3>1. p + tail = p /\ p + s = Length
      BY <1>4, <2>5
    <3>2. UpTo(p + k, Length)' /\ file' \in [1..Length -> WordType]
      BY <1>2, <1>9, <2>1, <2>2, <2>4, <3>1
    <3>3. p + k \in 0..Length
      BY <1>2, <2>2, <3>1
    <3>4. k = Len(_buffer) => p + k = Length
      BY <2>2, <3>1
    <3>5. k = Len(_buffer) => UpTo(Length, Sound)'
      BY <1>2, <1>6, <1>7, <3>2, <3>4 DEF UpTo
    <3>. QED
      BY <1>10, <1>12, <3>2, <3>3, <3>5
  <2>6. CASE tail # 0
    <3>1. Sound = p
      BY <1>4, <2>1, <2>6 DEF Sound
    <3>2. /\ file' \in [1..Length -> WordType]
          /\ \A i \in 1..Length : file'[i] = IF i > p + tail /\ i <= p + tail + k
                                             THEN words[i - (p + tail)] ELSE file[i]
      BY <1>4, <1>8, <2>2, <2>3, <2>4
    <3>3. ASSUME NEW i \in 1..p
          PROVE  file'[i] = New(i) /\ i <= p /\ i <= Length
      <4>1. i \in 1..Length /\ ~(i > p + tail) /\ i <= p
        BY <1>2, <1>4
      <4>. QED
        BY <3>2, <4>1, <1>5 DEF UpTo
    <3>4. UpTo(Length, Sound)'
      BY <3>1, <3>3, <1>6 DEF UpTo
    <3>5. PICK j \in 0..Length : j = Length
      BY <1>2
    <3>6. UpTo(j, Sound)'
      BY <3>4, <3>5, <1>6 DEF UpTo
    <3>. QED
      BY <1>12, <3>2, <3>4, <3>6
  <2>. QED
    BY <2>5, <2>6
<1>. QED
  BY <1>11, <1>12

(* A block is written, or a part of it when the tool is killed. *)
LEMMA WriteStep ==
  ASSUME FileIInv, Write \/ \E k \in 0..(Buffer * Size) : Killed(k)
  PROVE  FileIInv'
<1>1. WordShapes /\ pc = "write" /\ ~killed
  BY DEF FileIInv, Progress, Write, Killed
<1>2. PICK m \in Nat : BeforeWrite(m)
  BY <1>1 DEF FileIInv, Progress
<1>3. UNCHANGED <<count, tail, pos, _buffer, eof, rows>> /\ UNCHANGED Length
  BY DEF Write, Killed, Length
<1>4. PICK l \in Nat : l = Len(_buffer) /\ _buffer \in [1..l -> WordType]
  <2>1. _buffer \in Seq(WordType)
    BY <1>1 DEF WordShapes
  <2>. QED
    BY <2>1, LenProperties
<1>5. CASE Write
  <2>1. file' = Overwritten(pos - Len(_buffer), _buffer) /\ killed' = killed
        /\ pc' = IF eof THEN "done" ELSE "read"
    BY <1>5 DEF Write
  <2>2. l <= Len(_buffer)
    BY <1>4
  <2>3. /\ file' \in [1..Length -> WordType]
        /\ \E j \in 0..Length : UpTo(j, Sound)'
        /\ ~eof => BeforeRead(m + 1)'
        /\ eof => UpTo(Length, Sound)'
    BY <1>1, <1>2, <1>3, <1>4, <2>1, <2>2, Lands
  <2>4. WordShapes'
    BY <1>1, <1>3, <2>1, <2>3 DEF WordShapes
  <2>5. m + 1 \in Nat
    OBVIOUS
  <2>6. Progress'
    <3>1. CASE eof
      <4>1. pc' = "done"
        BY <2>1, <3>1
      <4>. QED
        BY <4>1, <3>1, <1>3, <2>3 DEF Progress
    <3>2. CASE ~eof
      <4>1. pc' = "read" /\ ~killed'
        BY <2>1, <3>2, <1>1
      <4>. QED
        BY <4>1, <3>2, <2>3, <2>5 DEF Progress
    <3>. QED
      BY <3>1, <3>2
  <2>7. Loaded'
    BY <2>1 DEF Loaded
  <2>. QED
    BY <2>4, <2>6, <2>7 DEF FileIInv
<1>6. ASSUME NEW k \in 0..(Buffer * Size), Killed(k)
      PROVE  FileIInv'
  <2>1. /\ file' = Overwritten(pos - Len(_buffer), SubSeq(_buffer, 1, k))
        /\ k \in 0..l /\ pc' = "done" /\ killed' = TRUE
    BY <1>4, <1>6 DEF Killed
  <2>2. k \in Nat /\ k <= Len(_buffer)
    BY <1>4, <2>1
  <2>3. PICK words \in [1..k -> WordType] :
          words = SubSeq(_buffer, 1, k) /\ \A i \in 1..k : words[i] = _buffer[i]
    <3>1. 0 + k <= l /\ 0 + 1 = 1 /\ 0 + k = k
      BY <2>1
    <3>2. /\ SubSeq(_buffer, 0 + 1, 0 + k) \in Seq(WordType)
          /\ Len(SubSeq(_buffer, 0 + 1, 0 + k)) = k
          /\ \A i \in 1..k : SubSeq(_buffer, 0 + 1, 0 + k)[i] = _buffer[0 + i]
      BY <1>4, <2>2, <3>1, Part
    <3>3. /\ SubSeq(_buffer, 1, k) \in Seq(WordType) /\ Len(SubSeq(_buffer, 1, k)) = k
          /\ \A i \in 1..k : SubSeq(_buffer, 1, k)[i] = _buffer[i]
      BY <3>1, <3>2
    <3>4. SubSeq(_buffer, 1, k) \in [1..k -> WordType]
      BY <3>3, LenProperties
    <3>. QED
      BY <3>3, <3>4
  <2>4. /\ file' \in [1..Length -> WordType]
        /\ \E j \in 0..Length : UpTo(j, Sound)'
    BY <1>1, <1>2, <1>3, <2>1, <2>2, <2>3, Lands
  <2>5. WordShapes'
    BY <1>1, <1>3, <2>1, <2>4 DEF WordShapes
  <2>6. Progress' /\ Loaded'
    BY <1>3, <2>1, <2>4 DEF Progress, Loaded
  <2>. QED
    BY <2>5, <2>6 DEF FileIInv
<1>. QED
  BY <1>5, <1>6

(* A record of the file is some of its words. *)
LEMMA RecordOf ==
  ASSUME count \in 0..MaxRecords, tail \in 0..(Size - 1),
         NEW f \in [1..Length -> WordType], NEW i \in 1..count
  PROVE  \E p \in Nat : /\ p = (i - 1) * Size /\ i * Size = p + Size /\ p + Size <= Length
                        /\ SubSeq(f, (i - 1) * Size + 1, i * Size) \in Seq(WordType)
                        /\ Len(SubSeq(f, (i - 1) * Size + 1, i * Size)) = Size
                        /\ \A w \in 1..Size :
                             SubSeq(f, (i - 1) * Size + 1, i * Size)[w] = f[p + w]
<1>1. Size \in Nat \ {0} /\ Length \in Nat /\ count \in Nat /\ tail \in Nat
      /\ Length = count * Size + tail /\ count * Size \in Nat
  BY Sizes
<1>2. PICK j \in Nat : j = i - 1 /\ i = j + 1 /\ j < count
  BY <1>1
<1>3. PICK p \in Nat : p = j * Size
  BY <1>1, Products
<1>4. i * Size = p + Size
  <2>1. (j + 1) * Size = j * Size + Size
    BY <1>1
  <2>. QED
    BY <1>2, <1>3, <2>1
<1>5. p + Size <= Length
  <2>1. j < count => j * Size + Size <= count * Size
    BY <1>1, Products
  <2>. QED
    BY <1>1, <1>2, <1>3, <2>1
<1>6. /\ SubSeq(f, p + 1, p + Size) \in Seq(WordType)
      /\ Len(SubSeq(f, p + 1, p + Size)) = Size
      /\ \A w \in 1..Size : SubSeq(f, p + 1, p + Size)[w] = f[p + w]
  <2>1. Size \in Nat /\ Length \in Nat
    BY <1>1
  <2>. QED
    BY <1>5, <2>1, Part
<1>7. (i - 1) * Size + 1 = p + 1 /\ i * Size = p + Size
  BY <1>2, <1>3, <1>4
<1>. QED
  BY <1>2, <1>3, <1>4, <1>5, <1>6, <1>7

(* The loader takes the whole records. *)
LEMMA LoadStep ==
  ASSUME FileIInv, load_timeline
  PROVE  FileIInv'
<1>1. WordShapes /\ Progress /\ pc = "done" /\ pc' = "loaded"
      /\ UNCHANGED <<count, tail, file, pos, _buffer, eof, killed>>
  BY DEF FileIInv, load_timeline
<1>2. count \in 0..MaxRecords /\ tail \in 0..(Size - 1) /\ file \in [1..Length -> WordType]
  BY <1>1 DEF WordShapes
<1>3. Length \in Nat /\ count \in Nat /\ Length \div Size = count
  BY <1>2, Sizes
<1>4. Len(file) = Length
  BY <1>2, <1>3
<1>5. rows' = [i \in 1..count |-> SubSeq(file, (i - 1) * Size + 1, i * Size)]
  BY <1>3, <1>4 DEF load_timeline
<1>6. \A i \in 1..count : SubSeq(file, (i - 1) * Size + 1, i * Size) \in Seq(WordType)
  BY <1>2, RecordOf
<1>7. rows' \in [1..count -> Seq(WordType)]
  BY <1>5, <1>6
<1>8. rows' \in Seq(Seq(WordType))
  BY <1>3, <1>7
<1>9. UNCHANGED <<Length, Sound>>
  BY <1>1 DEF Length, Sound, FullBlocks
<1>10. WordShapes'
  BY <1>1, <1>8, <1>9 DEF WordShapes
<1>11. Progress'
  BY <1>1, <1>9 DEF Progress, UpTo
<1>12. Loaded'
  BY <1>1, <1>5 DEF Loaded
<1>. QED
  BY <1>10, <1>11, <1>12 DEF FileIInv

-----------------------------------------------------------------------------
(* The theorems *)

(***************************************************************************)
(* The invariant is inductive.                                             *)
(***************************************************************************)
THEOREM FileInvariance == FileSpec => []FileIInv
<1>1. FileIInv /\ [FileNext]_fileVars => FileIInv'
  <2>. SUFFICES ASSUME FileIInv, [FileNext]_fileVars PROVE FileIInv'
    OBVIOUS
  <2>1. CASE UNCHANGED fileVars
    BY <2>1 DEF fileVars, FileIInv, WordShapes, Progress, Loaded, BeforeRead, BeforeWrite, Holds, UpTo,
       Length, Sound, FullBlocks
  <2>. QED
    BY <2>1, ReadStep, WriteStep, LoadStep DEF FileNext, transform_local
<1>. QED
  BY <1>1, InitInv, PTL DEF FileSpec

(***************************************************************************)
(* Every variable keeps its kind, the position stays inside the file and   *)
(* the buffer is not overrun.                                              *)
(***************************************************************************)
THEOREM FileTypeCorrect == FileSpec => []FileTypeOK
<1>1. FileIInv => FileTypeOK
  <2>. SUFFICES ASSUME FileIInv PROVE FileTypeOK
    OBVIOUS
  <2>1. WordShapes /\ Length \in Nat
    BY Sizes DEF FileIInv, WordShapes
  <2>2. file \in Seq(WordType) /\ Len(file) = Length
    BY <2>1 DEF WordShapes
  <2>. QED
    BY <2>1, <2>2 DEF WordShapes, FileTypeOK
<1>. QED
  BY <1>1, FileInvariance, PTL

(***************************************************************************)
(* At every moment, killed or not, the addresses of a file of whole        *)
(* records are replaced up to some word and untouched behind it; of any    *)
(* other file this is so in the blocks that are full.                      *)
(***************************************************************************)
THEOREM Rewritten == FileSpec => []ReplacedUpTo
<1>1. FileIInv => ReplacedUpTo
  <2>. SUFFICES ASSUME FileIInv PROVE ReplacedUpTo
    OBVIOUS
  <2>1. count \in 0..MaxRecords /\ tail \in 0..(Size - 1) /\ file \in [1..Length -> WordType]
        /\ pc \in {"read", "write", "done", "loaded"} /\ pos \in 0..Length
    BY DEF FileIInv, WordShapes
  <2>2. Length \in Nat /\ Sound \in 0..Length /\ Sound \in Nat /\ Len(file) = Length
    <3>1. Length \in Nat /\ Sound \in 0..Length /\ Sound \in Nat
      BY <2>1, SoundPart
    <3>. QED
      BY <2>1, <3>1
  <2>3. PICK k \in 0..Length : UpTo(k, Sound)
    <3>1. CASE pc = "read"
      <4>1. UpTo(pos, Length)
        BY <3>1 DEF FileIInv, Progress, BeforeRead
      <4>2. UpTo(pos, Sound)
        BY <2>2, <4>1 DEF UpTo
      <4>. QED
        BY <2>1, <4>2
    <3>2. CASE pc = "write"
      <4>1. PICK m \in Nat : m * Buffer <= count /\ UpTo((m * Buffer) * Size, Length)
        BY <3>2 DEF FileIInv, Progress, BeforeWrite
      <4>2. PICK p \in Nat : p = (m * Buffer) * Size /\ p <= Length
        BY <2>1, <2>2, <4>1, Rest
      <4>3. p \in 0..Length /\ UpTo(p, Sound)
        BY <2>2, <4>1, <4>2 DEF UpTo
      <4>. QED
        BY <4>3
    <3>3. CASE pc \in {"done", "loaded"}
      BY <3>3 DEF FileIInv, Progress
    <3>. QED
      BY <2>1, <3>1, <3>2, <3>3
  <2>4. PICK f \in [1..Length -> WordType] :
          f = Words(Length, k) /\ \A i \in 1..Sound : f[i] = file[i]
    <3>1. k \in Nat
      BY <2>2
    <3>2. /\ Words(Length, k) \in [1..Length -> WordType]
          /\ \A i \in 1..Length : Words(Length, k)[i] = IF i <= k THEN New(i) ELSE Old(i)
      BY <2>1, <3>1, WordsFile
    <3>. QED
      BY <2>2, <2>3, <3>2 DEF UpTo
  <2>5. ASSUME NEW g \in [1..Length -> WordType]
        PROVE  /\ SubSeq(g, 1, Sound) \in Seq(WordType) /\ Len(SubSeq(g, 1, Sound)) = Sound
               /\ \A i \in 1..Sound : SubSeq(g, 1, Sound)[i] = g[i]
    <3>1. 0 + Sound <= Length /\ 0 + 1 = 1 /\ 0 + Sound = Sound /\ \A i \in 1..Sound : 0 + i = i
      BY <2>2
    <3>2. /\ SubSeq(g, 0 + 1, 0 + Sound) \in Seq(WordType)
          /\ Len(SubSeq(g, 0 + 1, 0 + Sound)) = Sound
          /\ \A i \in 1..Sound : SubSeq(g, 0 + 1, 0 + Sound)[i] = g[0 + i]
      BY <2>2, <3>1, Part
    <3>. QED
      BY <3>1, <3>2
  <2>6. SubSeq(file, 1, Sound) = SubSeq(f, 1, Sound)
    BY <2>1, <2>2, <2>4, <2>5, SeqEqual
  <2>7. Len(file) = count * Size + tail
    BY <2>2 DEF Length
  <2>8. k \in 0..Len(file) /\ SubSeq(file, 1, Sound) = SubSeq(Words(Len(file), k), 1, Sound)
    BY <2>2, <2>4, <2>6
  <2>9. Sound = IF tail = 0 THEN Len(file) ELSE FullBlocks
    BY <2>2 DEF Sound
  <2>. QED
    BY <2>7, <2>8, <2>9 DEF ReplacedUpTo
<1>. QED
  BY <1>1, FileInvariance, PTL

(***************************************************************************)
(* The loader gets one row for every whole record the tracer left, in      *)
(* order and with its addresses replaced, unless the rewriting was killed; *)
(* a part of a record at the end spoils only a last block that is not full. *)
(***************************************************************************)
THEOREM RowsLoaded == FileSpec => []RowsRight
<1>1. FileIInv => RowsRight
  <2>. SUFFICES ASSUME FileIInv, pc = "loaded", ~killed
                PROVE  /\ Len(rows) = count
                       /\ \A i \in 1..count :
                            tail = 0 \/ i * Size <= FullBlocks =>
                              rows[i] = SubSeq(Words(Len(file), Len(file)),
                                               (i - 1) * Size + 1, i * Size)
    BY DEF RowsRight
  <2>1. count \in 0..MaxRecords /\ tail \in 0..(Size - 1) /\ file \in [1..Length -> WordType]
    BY DEF FileIInv, WordShapes
  <2>2. Length \in Nat /\ Len(file) = Length /\ count \in Nat
        /\ Sound \in 0..Length /\ Size \in Nat
    <3>1. Length \in Nat /\ Sound \in 0..Length
      BY <2>1, SoundPart
    <3>2. count \in Nat /\ Size \in Nat
      BY <2>1, SizeAssumption, BufferAssumption
    <3>. QED
      BY <2>1, <3>1, <3>2
  <2>3. rows = [i \in 1..count |-> SubSeq(file, (i - 1) * Size + 1, i * Size)]
    BY DEF FileIInv, Loaded
  <2>4. Len(rows) = count
    BY <2>2, <2>3
  <2>5. UpTo(Length, Sound)
    BY DEF FileIInv, Progress
  <2>6. PICK f \in [1..Length -> WordType] :
          f = Words(Length, Length) /\ \A i \in 1..Sound : f[i] = file[i]
    <3>1. /\ Words(Length, Length) \in [1..Length -> WordType]
          /\ \A i \in 1..Length : Words(Length, Length)[i] = IF i <= Length THEN New(i) ELSE Old(i)
      BY <2>1, <2>2, WordsFile
    <3>. QED
      BY <2>2, <2>5, <3>1 DEF UpTo
  <2>7. ASSUME NEW i \in 1..count, tail = 0 \/ i * Size <= FullBlocks
        PROVE  SubSeq(file, (i - 1) * Size + 1, i * Size)
                 = SubSeq(f, (i - 1) * Size + 1, i * Size)
    <3>. DEFINE s == SubSeq(file, (i - 1) * Size + 1, i * Size)
                t == SubSeq(f, (i - 1) * Size + 1, i * Size)
    <3>1. PICK p \in Nat : /\ p = (i - 1) * Size /\ i * Size = p + Size /\ p + Size <= Length
                           /\ s \in Seq(WordType) /\ Len(s) = Size
                           /\ \A w \in 1..Size : s[w] = file[p + w]
      BY <2>1, RecordOf
    <3>2. /\ t \in Seq(WordType) /\ Len(t) = Size
          /\ \A w \in 1..Size : t[w] = f[p + w]
      BY <2>1, <3>1, RecordOf
    <3>3. p + Size <= Sound
      BY <2>7, <3>1 DEF Sound
    <3>4. \A w \in 1..Size : p + w \in 1..Sound
      BY <2>2, <3>3
    <3>5. \A w \in 1..Size : s[w] = t[w]
      BY <2>6, <3>1, <3>2, <3>4
    <3>. HIDE DEF s, t
    <3>6. s = t
      BY <3>1, <3>2, <3>5, SeqEqual
    <3>. QED
      BY <3>6 DEF s, t
  <2>. QED
    BY <2>2, <2>3, <2>4, <2>6, <2>7
<1>. QED
  BY <1>1, FileInvariance, PTL

-----------------------------------------------------------------------------
(* AddrMap: the parts of the inductive invariant *)

(* The objects of the NEW records up to record i of file f, in the order   *)
(* in which they are read, and with it the id the record gets.             *)
ObjsTo(rec, f, i) ==
  {o \in Object : \E g \in NewFile : \E j \in 1..Len(rec[g]) :
     rec[g][j].obj = o /\ (g < f \/ (g = f /\ j <= i))}
Id(rec, f, i) == Cardinality(ObjsTo(rec, f, i))

RecordType == [obj : Object, addr : Int, raw : HeapAddress \cup Tag, time : Nat, still : BOOLEAN]
MoveType   == [org : HeapAddress, new : HeapAddress, time : Nat]

HeapShapes ==
  /\ clock \in Nat \ {0} /\ moves \in 0..MaxMoves
  /\ tagged \in BOOLEAN /\ where \in [Object -> Address \cup {Nowhere}]
  /\ seen \subseteq Object /\ moved \subseteq seen

FileShapes ==
  /\ newRec \in [NewFile -> Seq(RecordType)]
  /\ gcRec \in [GcFile -> Seq(MoveType)]
  /\ events \subseteq RecordType
  /\ \A n \in AllNew \cup events : n.raw \in Address /\ n.addr >= NoId

ToolShapes ==
  /\ runs \in 0..MaxRuns /\ kills \in 0..runs
  /\ phase \in {"trace", "build", "gc", "data", "NEW", "done", "killed"}
  /\ phase \in {"build", "gc", "data", "NEW"} => kills < runs
  /\ at \in (Nat \ {0}) \X (Nat \ {0})
  /\ am = [map |-> am.map, cur_id |-> am.cur_id] /\ am.cur_id \in Nat
  /\ \A a \in DOMAIN am.map : am.map[a].entries # {}
  /\ DOMAIN newId \subseteq Object

MapShapes == HeapShapes /\ FileShapes /\ ToolShapes

(* What the tracer wrote, apart from the addresses that addr2id replaces:  *)
(* times before those of the collector, no NEW record twice, one address   *)
(* for the records of an object that was not moved, and no later owner of  *)
(* that address before the last of them.                                   *)
Times ==
  /\ \A n \in AllNew \cup events : n.time \in 1..(clock - 1) /\ n.time < Epoch
  /\ \A r \in AllGc : r.time > Epoch

Distinct ==
  \A f, g \in NewFile : \A i \in 1..Len(newRec[f]), j \in 1..Len(newRec[g]) :
    newRec[f][i].obj = newRec[g][j].obj \/ newRec[f][i].time = newRec[g][j].time
      => f = g /\ i = j

Stayed ==
  \A n \in AllNew, e \in events : n.obj = e.obj /\ n.still /\ e.still => n.raw = e.raw

Owned ==
  \A n, m \in AllNew, e \in events :
    /\ n.still /\ e.still /\ e.obj = n.obj
    /\ m.obj # n.obj /\ m.raw = n.raw /\ m.time > n.time
    => e.time < m.time

TagsStay == tagged => AllGc = {}

Written == Times /\ Distinct /\ Stayed /\ Owned /\ TagsStay

(* While the program runs: no two objects at one address, and an object    *)
(* that is where it was allocated has an address no later record of        *)
(* another object has.                                                     *)
Tracing ==
  phase = "trace" =>
    /\ kills = 0
    /\ \A o, p \in Object : where[o] = where[p] /\ where[o] # Nowhere => o = p
    /\ \A o \in Object : where[o] # Nowhere => o \in seen
    /\ \A n \in AllNew \cup events :
         /\ n.obj \in seen /\ n.addr = n.raw
         /\ n.obj \notin moved /\ where[n.obj] # Nowhere => n.raw = where[n.obj]
    /\ \A n, m \in AllNew :
         n.obj \notin moved /\ where[n.obj] # Nowhere /\ m.obj # n.obj /\ m.raw = n.raw
           => m.time < n.time

(* The address in a NEW record is the one the tracer wrote, or its id. *)
AllRaw == \A n \in AllNew : n.addr = n.raw
AllIds == \A f \in NewFile : \A i \in 1..Len(newRec[f]) : newRec[f][i].addr = Id(newRec, f, i)

NewForms ==
  /\ \A f \in NewFile : \A i \in 1..Len(newRec[f]) :
       newRec[f][i].addr \in {newRec[f][i].raw, Id(newRec, f, i)}
  /\ phase = "done" => AllIds

(* The record of an object that the files can name. *)
Names(n, e) == e.still /\ n.obj = e.obj /\ n.still /\ (n.time <= e.time \/ OneOwner(n))

Unwritten(e) == phase \notin {"NEW", "done"} /\ AllRaw /\ e.addr = e.raw

EventForms ==
  \A e \in events : \A f \in NewFile : \A i \in 1..Len(newRec[f]) :
    Names(newRec[f][i], e) =>
      /\ kills = 0 =>
           Unwritten(e) \/ (e.addr = Id(newRec, f, i) /\ (phase = "NEW" \/ AllIds))
      /\ ~tagged => Unwritten(e) \/ e.addr \in {NoId, Id(newRec, f, i)}

(* The map while it is built and used: an entry for each NEW record that   *)
(* was read, and no other entries than those and the ones of moves.        *)
Building == phase \in {"build", "gc", "data", "NEW"}
WasRead(f, i) == phase = "build" => f < at[1] \/ (f = at[1] /\ i < at[2])

Entry(f, i) == [time |-> newRec[f][i].time, id |-> Id(newRec, f, i)]

EntryOf(a, d) ==
  \/ a = 0 /\ d = [time |-> 0, id |-> 0]
  \/ \E f \in NewFile : \E i \in 1..Len(newRec[f]) :
       WasRead(f, i) /\ newRec[f][i].addr = a /\ d = Entry(f, i)
  \/ \E r \in AllGc : r.new = a /\ d.time = r.time /\ d.id \in Nat

Shared(a) ==
  \/ \E r \in AllGc : r.new = a
  \/ \E f, g \in NewFile : \E i \in 1..Len(newRec[f]), j \in 1..Len(newRec[g]) :
       ~(f = g /\ i = j) /\ newRec[f][i].addr = a /\ newRec[g][j].addr = a

MapRight ==
  Building =>
    /\ phase = "build" => am.cur_id = 1 + Cardinality(ObjsTo(newRec, at[1], at[2] - 1))
    /\ \A f \in NewFile : \A i \in 1..Len(newRec[f]) :
         WasRead(f, i) => /\ newRec[f][i].addr \in DOMAIN am.map
                          /\ Entry(f, i) \in am.map[newRec[f][i].addr].entries
    /\ \A a \in DOMAIN am.map :
         /\ \A d \in am.map[a].entries : EntryOf(a, d)
         /\ am.map[a].unique => \A c, d \in am.map[a].entries : c = d
         /\ ~am.map[a].unique => Shared(a)

(* addr-id.dat has the ids of the NEW records that were read. *)
IdsPrinted ==
  Building \/ phase = "done" =>
    /\ \A f \in NewFile : \A i \in 1..Len(newRec[f]) :
         WasRead(f, i) => newRec[f][i].obj \in DOMAIN newId
    /\ \A o \in DOMAIN newId : \E f \in NewFile : \E i \in 1..Len(newRec[f]) :
         newRec[f][i].obj = o /\ WasRead(f, i) /\ newId[o] = Id(newRec, f, i)

MapIInv == MapShapes /\ Written /\ Tracing /\ NewForms /\ EventForms /\ MapRight /\ IdsPrinted

-----------------------------------------------------------------------------
(* AddrMap: least numbers, ids and queries *)

(* A set of natural numbers has a least element. *)
LEMMA Least ==
  ASSUME NEW T, T \subseteq Nat, T # {}
  PROVE  \E x \in T : \A y \in T : x <= y
<1>. DEFINE R == {ss \in Nat \X Nat : ss[1] < ss[2]}
<1>1. IsWellFoundedOn(R, Nat)
  BY NatLessThanWellFounded, Zenon DEF OpToRel
<1>. HIDE DEF R
<1>2. PICK x \in T : \A y \in T : ~(<<y, x>> \in R)
  BY <1>1, WFMin
<1>3. ASSUME NEW y \in T PROVE x <= y
  <2>1. ~(<<y, x>> \in R)
    BY <1>2
  <2>. QED
    BY <2>1, Z3 DEF R
<1>. QED
  BY <1>3

(* A bounded set of natural numbers has a greatest element. *)
LEMMA Greatest ==
  ASSUME NEW T, T \subseteq Nat, T # {}, NEW b \in Nat, \A t \in T : t <= b
  PROVE  \E x \in T : \A y \in T : y <= x
<1>. DEFINE U == {n \in Nat : \E t \in T : n = b - t}
<1>1. U \subseteq Nat /\ U # {}
  <2>1. PICK t \in T : TRUE
    OBVIOUS
  <2>2. b - t \in U
    BY <2>1
  <2>. QED
    BY <2>2
<1>. HIDE DEF U
<1>2. PICK u \in U : \A v \in U : u <= v
  BY <1>1, Least
<1>3. PICK x \in T : u = b - x
  BY DEF U
<1>4. ASSUME NEW y \in T PROVE y <= x
  <2>1. b - y \in U
    BY DEF U
  <2>. QED
    BY <1>2, <1>3, <2>1
<1>. QED
  BY <1>4

(* Ids are numbers up to the number of objects. *)
LEMMA IdType ==
  ASSUME NEW rec, NEW f, NEW i
  PROVE  /\ IsFiniteSet(ObjsTo(rec, f, i))
         /\ Id(rec, f, i) \in Nat /\ Id(rec, f, i) <= Cardinality(Object)
<1>1. ObjsTo(rec, f, i) \in SUBSET Object
  BY DEF ObjsTo
<1>2. /\ IsFiniteSet(ObjsTo(rec, f, i))
      /\ Cardinality(ObjsTo(rec, f, i)) <= Cardinality(Object)
  BY <1>1, ObjectAssumption, FS_Subset
<1>3. Cardinality(ObjsTo(rec, f, i)) \in Nat
  BY <1>2, FS_CardinalityType
<1>. QED
  BY <1>2, <1>3 DEF Id

(* The id of a record is not 0, the id of null. *)
LEMMA IdPositive ==
  ASSUME NEW rec, NEW f \in NewFile, NEW i \in 1..Len(rec[f]), rec[f][i].obj \in Object
  PROVE  Id(rec, f, i) > 0
<1>1. rec[f][i].obj \in ObjsTo(rec, f, i)
  BY DEF ObjsTo
<1>2. Cardinality(ObjsTo(rec, f, i)) # 0
  BY <1>1, IdType, FS_EmptySet
<1>. QED
  BY <1>2, IdType DEF Id

(* A record that is read later has another id. *)
LEMMA IdsGrow ==
  ASSUME NEW rec, NEW f \in NewFile, NEW i \in 1..Len(rec[f]),
         NEW g \in NewFile, NEW j \in 1..Len(rec[g]),
         \A h \in NewFile : Len(rec[h]) \in Nat,
         g < f \/ (g = f /\ j < i),
         rec[f][i].obj \in Object,
         \A h \in NewFile : \A k \in 1..Len(rec[h]) :
           rec[h][k].obj = rec[f][i].obj => h = f /\ k = i
  PROVE  Id(rec, g, j) # Id(rec, f, i)
<1>0. f \in Int /\ g \in Int /\ i \in Int /\ j \in Int /\ NewFile \subseteq Int
  BY DEF NewFile
<1>1. ObjsTo(rec, g, j) \in SUBSET ObjsTo(rec, f, i)
  <2>. SUFFICES ASSUME NEW o \in ObjsTo(rec, g, j) PROVE o \in ObjsTo(rec, f, i)
    OBVIOUS
  <2>1. PICK h \in NewFile : \E k \in 1..Len(rec[h]) :
          rec[h][k].obj = o /\ (h < g \/ (h = g /\ k <= j))
    BY DEF ObjsTo
  <2>2. PICK k \in 1..Len(rec[h]) : rec[h][k].obj = o /\ (h < g \/ (h = g /\ k <= j))
    BY <2>1
  <2>3. h < f \/ (h = f /\ k <= i)
    BY <1>0, <2>2
  <2>4. o \in Object
    BY DEF ObjsTo
  <2>. QED
    BY <2>2, <2>3, <2>4 DEF ObjsTo
<1>2. rec[f][i].obj \in ObjsTo(rec, f, i)
  BY DEF ObjsTo
<1>3. rec[f][i].obj \notin ObjsTo(rec, g, j)
  BY <1>0 DEF ObjsTo
<1>4. ObjsTo(rec, g, j) # ObjsTo(rec, f, i)
  BY <1>2, <1>3
<1>. QED
  BY <1>1, <1>4, IdType, FS_Subset DEF Id

(* Records of files in which every object has one record have ids of their *)
(* own.                                                                    *)
LEMMA IdsDiffer ==
  ASSUME NEW rec, NEW f \in NewFile, NEW i \in 1..Len(rec[f]),
         NEW g \in NewFile, NEW j \in 1..Len(rec[g]),
         \A h \in NewFile : Len(rec[h]) \in Nat /\ \A k \in 1..Len(rec[h]) : rec[h][k].obj \in Object,
         \A h, l \in NewFile : \A k \in 1..Len(rec[h]), m \in 1..Len(rec[l]) :
           rec[h][k].obj = rec[l][m].obj => h = l /\ k = m,
         Id(rec, f, i) = Id(rec, g, j)
  PROVE  f = g /\ i = j
<1>0. f \in Int /\ g \in Int /\ i \in Int /\ j \in Int
  BY DEF NewFile
<1>1. ~(g < f \/ (g = f /\ j < i))
  BY IdsGrow
<1>2. ~(f < g \/ (f = g /\ i < j))
  BY IdsGrow
<1>. QED
  BY <1>0, <1>1, <1>2

(* The ids depend on the objects of the records only. *)
LEMMA IdsSame ==
  ASSUME NEW rec, NEW rew, NEW f, NEW i,
         \A g \in NewFile : /\ Len(rew[g]) = Len(rec[g])
                            /\ \A j \in 1..Len(rec[g]) : rew[g][j].obj = rec[g][j].obj
  PROVE  ObjsTo(rew, f, i) = ObjsTo(rec, f, i) /\ Id(rew, f, i) = Id(rec, f, i)
<1>1. ObjsTo(rew, f, i) = ObjsTo(rec, f, i)
  BY DEF ObjsTo
<1>. QED
  BY <1>1 DEF Id

(* The entry that AtTime finds. *)
LEMMA AtTimeRight ==
  ASSUME NEW entries, NEW time \in Nat, NEW own \in entries, own.time \in Nat, own.time <= time,
         \A d \in entries : d.time \in Nat,
         \A d \in entries : d.time <= time => d.time < own.time \/ d = own
  PROVE  AtTime(entries, time) = own.id
<1>. DEFINE before == {e \in entries : e.time <= time}
            best == CHOOSE e \in before : \A d \in before : d.time <= e.time
<1>1. own \in before /\ before # {}
  OBVIOUS
<1>2. \A d \in before : d.time <= own.time
  OBVIOUS
<1>3. best \in before /\ \A d \in before : d.time <= best.time
  BY <1>1, <1>2
<1>4. best = own
  BY <1>1, <1>2, <1>3
<1>. QED
  BY <1>1, <1>4 DEF AtTime

(* AtTime finds an entry, or none. *)
LEMMA AtTimeType ==
  ASSUME NEW entries, NEW time \in Nat, \A d \in entries : d.time \in Nat
  PROVE  AtTime(entries, time) = NoId \/ \E d \in entries : AtTime(entries, time) = d.id
<1>. DEFINE before == {e \in entries : e.time <= time}
            best == CHOOSE e \in before : \A d \in before : d.time <= e.time
            T == {t \in Nat : \E d \in before : d.time = t}
<1>1. CASE before = {}
  BY <1>1 DEF AtTime
<1>2. CASE before # {}
  <2>1. T # {} /\ T \subseteq Nat /\ \A t \in T : t <= time
    BY <1>2
  <2>. HIDE DEF T
  <2>2. PICK x \in T : \A y \in T : y <= x
    BY <2>1, Greatest
  <2>3. PICK e \in before : e.time = x
    BY <2>2 DEF T
  <2>4. \A d \in before : d.time <= e.time
    BY <2>2, <2>3 DEF T
  <2>5. best \in before
    BY <2>3, <2>4
  <2>6. AtTime(entries, time) = best.id
    BY <1>2 DEF AtTime
  <2>. QED
    BY <2>5, <2>6
<1>. QED
  BY <1>1, <1>2

(* A query finds the entry that is the only one, or the youngest that is   *)
(* not after the time.                                                     *)
LEMMA QueryRight ==
  ASSUME NEW m, NEW a \in DOMAIN m.map, NEW time \in Nat, NEW own \in m.map[a].entries,
         \A d \in m.map[a].entries : d.time \in Nat,
         m.map[a].unique => \A c, d \in m.map[a].entries : c = d,
         ~m.map[a].unique =>
           /\ own.time <= time
           /\ \A d \in m.map[a].entries : d.time <= time => d.time < own.time \/ d = own
  PROVE  query(m, a, time) = own.id
<1>1. CASE m.map[a].unique
  <2>1. (CHOOSE e \in m.map[a].entries : TRUE) = own
    BY <1>1
  <2>. QED
    BY <1>1, <2>1 DEF query
<1>2. CASE ~m.map[a].unique
  BY <1>2, AtTimeRight DEF query
<1>. QED
  BY <1>1, <1>2

(* A query finds the id of an entry of the address, or none. *)
LEMMA QueryType ==
  ASSUME NEW m, NEW a, NEW time \in Nat,
         a \in DOMAIN m.map => /\ m.map[a].entries # {}
                               /\ \A d \in m.map[a].entries : d.time \in Nat
  PROVE  \/ query(m, a, time) = NoId
         \/ a \in DOMAIN m.map /\ \E d \in m.map[a].entries : query(m, a, time) = d.id
<1>1. CASE a \notin DOMAIN m.map
  BY <1>1 DEF query
<1>2. CASE a \in DOMAIN m.map /\ m.map[a].unique
  BY <1>2 DEF query
<1>3. CASE a \in DOMAIN m.map /\ ~m.map[a].unique
  BY <1>3, AtTimeType DEF query
<1>. QED
  BY <1>1, <1>2, <1>3

(* The map w is m with an entry more at addr, unless it had one of that    *)
(* time.                                                                   *)
Inserted(m, w, addr, time, id) ==
  /\ w = [map |-> w.map, cur_id |-> m.cur_id] /\ w.cur_id = m.cur_id
  /\ DOMAIN w.map = DOMAIN m.map \cup {addr}
  /\ \A a \in DOMAIN m.map : a # addr => w.map[a] = m.map[a]
  /\ addr \notin DOMAIN m.map =>
       /\ w.map[addr].unique
       /\ w.map[addr].entries = {[time |-> time, id |-> id]}
  /\ addr \in DOMAIN m.map =>
       /\ ~w.map[addr].unique
       /\ m.map[addr].entries \subseteq w.map[addr].entries
       /\ w.map[addr].entries \subseteq m.map[addr].entries \cup {[time |-> time, id |-> id]}
       /\ (\A e \in m.map[addr].entries : e.time # time) =>
            [time |-> time, id |-> id] \in w.map[addr].entries

(* What insert_with_id changes. *)
LEMMA InsertEffect ==
  ASSUME NEW m, m = [map |-> m.map, cur_id |-> m.cur_id],
         \A a \in DOMAIN m.map : m.map[a].entries # {},
         NEW addr, NEW time, NEW id
  PROVE  Inserted(m, insert_with_id(m, addr, time, id), addr, time, id)
<1>. DEFINE w == insert_with_id(m, addr, time, id)
<1>. DEFINE old == IF addr \in DOMAIN m.map THEN m.map[addr].entries ELSE {}
            new == IF \E e \in old : e.time = time THEN {} ELSE {[time |-> time, id |-> id]}
            v == [unique |-> old = {}, entries |-> old \cup new]
            M == Put(m.map, addr, v)
<1>1. w = [m EXCEPT !.map = M]
  BY DEF insert_with_id
<1>. HIDE DEF w
<1>2. M = [x \in DOMAIN m.map \cup {addr} |-> IF x = addr THEN v ELSE m.map[x]]
  BY DEF Put
<1>. HIDE DEF M
<1>3. w = [map |-> M, cur_id |-> m.cur_id]
  BY <1>1
<1>4. w.map = M /\ w.cur_id = m.cur_id
  BY <1>3
<1>. HIDE DEF v
<1>5. /\ DOMAIN M = DOMAIN m.map \cup {addr} /\ M[addr] = v
      /\ \A a \in DOMAIN m.map : a # addr => M[a] = m.map[a]
  BY <1>2
<1>6. v.unique = (old = {}) /\ v.entries = old \cup new
  BY Zenon DEF v
<1>7. ASSUME addr \notin DOMAIN m.map PROVE Inserted(m, w, addr, time, id)
  <2>1. old = {} /\ new = {[time |-> time, id |-> id]}
    BY <1>7
  <2>2. v.unique /\ v.entries = {[time |-> time, id |-> id]}
    BY <1>6, <2>1
  <2>. QED
    BY <1>3, <1>4, <1>5, <1>7, <2>2 DEF Inserted
<1>8. ASSUME addr \in DOMAIN m.map PROVE Inserted(m, w, addr, time, id)
  <2>1. old = m.map[addr].entries /\ old # {}
    BY <1>8
  <2>2. ~v.unique
    BY <1>6, <2>1
  <2>3. /\ m.map[addr].entries \subseteq v.entries
        /\ v.entries \subseteq m.map[addr].entries \cup {[time |-> time, id |-> id]}
        /\ (\A e \in m.map[addr].entries : e.time # time) => [time |-> time, id |-> id] \in v.entries
    BY <1>6, <2>1
  <2>. QED
    BY <1>3, <1>4, <1>5, <1>8, <2>2, <2>3 DEF Inserted
<1>. QED
  BY <1>7, <1>8 DEF w

-----------------------------------------------------------------------------
(* AddrMap: the traced program *)

(* The records of the NEW files, by their places. *)
NewsAre ==
  \A n : n \in AllNew <=> \E f \in NewFile : \E i \in 1..Len(newRec[f]) : n = newRec[f][i]

(* AllNew is what the places of the NEW files hold. *)
LEMMA NewAt == newRec \in [NewFile -> Seq(RecordType)] => NewsAre
<1>. SUFFICES ASSUME newRec \in [NewFile -> Seq(RecordType)], NEW n
              PROVE  n \in AllNew <=> \E f \in NewFile : \E i \in 1..Len(newRec[f]) : n = newRec[f][i]
  BY DEF NewsAre
<1>1. \A f \in NewFile : DOMAIN newRec[f] = 1..Len(newRec[f])
  OBVIOUS
<1>2. \A f \in NewFile : n \in ToSet(newRec[f]) <=> \E i \in 1..Len(newRec[f]) : n = newRec[f][i]
  BY <1>1 DEF ToSet
<1>. QED
  BY <1>2 DEF AllNew

(* The records of the files, one by one. *)
LEMMA FilesAre ==
  FileShapes =>
    /\ NewsAre
    /\ \A n \in AllNew \cup events : n \in RecordType
    /\ \A f \in NewFile : /\ Len(newRec[f]) \in Nat /\ DOMAIN newRec[f] = 1..Len(newRec[f])
                           /\ \A i \in 1..Len(newRec[f]) : newRec[f][i] \in AllNew
    /\ \A r \in AllGc : r \in MoveType
<1>. SUFFICES ASSUME FileShapes
              PROVE  /\ NewsAre
                     /\ \A n \in AllNew \cup events : n \in RecordType
                     /\ \A f \in NewFile : /\ Len(newRec[f]) \in Nat /\ DOMAIN newRec[f] = 1..Len(newRec[f])
                                            /\ \A i \in 1..Len(newRec[f]) : newRec[f][i] \in AllNew
                     /\ \A r \in AllGc : r \in MoveType
  OBVIOUS
<1>1. newRec \in [NewFile -> Seq(RecordType)] /\ gcRec \in [GcFile -> Seq(MoveType)]
  BY DEF FileShapes
<1>2. NewsAre
  BY <1>1, NewAt
<1>3. \A f \in NewFile : /\ Len(newRec[f]) \in Nat /\ DOMAIN newRec[f] = 1..Len(newRec[f])
                         /\ \A i \in 1..Len(newRec[f]) : newRec[f][i] \in RecordType
  BY <1>1
<1>4. \A n \in AllNew \cup events : n \in RecordType
  BY <1>2, <1>3 DEF NewsAre, FileShapes
<1>5. \A f \in NewFile : \A i \in 1..Len(newRec[f]) : newRec[f][i] \in AllNew
  BY <1>2 DEF NewsAre
<1>6. \A g \in GcFile : \A i \in DOMAIN gcRec[g] : gcRec[g][i] \in MoveType
  BY <1>1
<1>7. \A r \in AllGc : r \in MoveType
  BY <1>6 DEF AllGc, ToSet
<1>. QED
  BY <1>2, <1>3, <1>4, <1>5, <1>7

(* The empty map: null is at address 0. *)
LEMMA EmptyRight ==
  /\ Empty = [map |-> Empty.map, cur_id |-> Empty.cur_id] /\ Empty.cur_id = 1
  /\ DOMAIN Empty.map = {0} /\ Empty.map[0].unique
  /\ Empty.map[0].entries = {[time |-> 0, id |-> 0]}
<1>. DEFINE m == [map |-> << >>, cur_id |-> 1]
<1>1. m = [map |-> m.map, cur_id |-> m.cur_id] /\ DOMAIN m.map = {} /\ m.cur_id = 1
  OBVIOUS
<1>. HIDE DEF m
<1>2. Empty = insert_with_id(m, 0, 0, 0)
  BY DEF Empty, m
<1>3. Inserted(m, Empty, 0, 0, 0)
  BY <1>1, <1>2, InsertEffect
<1>. QED
  BY <1>1, <1>3 DEF Inserted

(* While the program runs there is nothing to say of the tool. *)
LEMMA TraceForms ==
  phase = "trace" /\ MapShapes /\ Tracing => NewForms /\ EventForms /\ MapRight /\ IdsPrinted
<1>. SUFFICES ASSUME phase = "trace", MapShapes, Tracing
              PROVE  NewForms /\ EventForms /\ MapRight /\ IdsPrinted
  OBVIOUS
<1>1. AllRaw
  BY DEF Tracing, AllRaw
<1>2. \A f \in NewFile : \A i \in 1..Len(newRec[f]) : newRec[f][i] \in AllNew
  BY FilesAre DEF MapShapes
<1>3. NewForms
  BY <1>1, <1>2 DEF NewForms, AllRaw
<1>4. EventForms
  BY <1>1 DEF EventForms, Unwritten, Tracing
<1>5. MapRight /\ IdsPrinted
  BY DEF MapRight, IdsPrinted, Building
<1>. QED
  BY <1>3, <1>4, <1>5

(* The first state. *)
LEMMA MapInit == Init => MapIInv
<1>. SUFFICES ASSUME Init PROVE MapIInv
  OBVIOUS
<1>1. newRec \in [NewFile -> Seq(RecordType)] /\ gcRec \in [GcFile -> Seq(MoveType)]
  BY DEF Init
<1>2. AllNew = {}
  <2>1. \A f \in NewFile : Len(newRec[f]) = 0
    BY DEF Init
  <2>. QED
    BY <1>1, <2>1, NewAt DEF NewsAre
<1>3. AllGc = {}
  BY DEF Init, AllGc, ToSet
<1>4. MapShapes
  <2>1. am = [map |-> am.map, cur_id |-> am.cur_id] /\ am.cur_id \in Nat
    BY EmptyRight DEF Init
  <2>2. \A a \in DOMAIN am.map : am.map[a].entries # {}
    BY EmptyRight DEF Init
  <2>3. DOMAIN newId \subseteq Object
    BY DEF Init
  <2>. QED
    BY <1>1, <1>2, <2>1, <2>2, <2>3, BoundsAssumption DEF Init, MapShapes, HeapShapes, FileShapes, ToolShapes
<1>5. Written
  <2>1. Distinct
    BY DEF Init, Distinct
  <2>. QED
    BY <1>2, <1>3, <2>1 DEF Init, Written, Times, Stayed, Owned, TagsStay
<1>6. Tracing
  BY <1>2 DEF Init, Tracing
<1>7. phase = "trace"
  BY DEF Init
<1>. QED
  BY <1>4, <1>5, <1>6, <1>7, TraceForms DEF MapIInv

(* What the parts of the invariant for the trace come to. *)
LEMMA TraceKept ==
  ASSUME phase' = "trace", MapShapes', Written', Tracing'
  PROVE  MapIInv'
<1>1. (phase = "trace" /\ MapShapes /\ Tracing)' =>
        (NewForms /\ EventForms /\ MapRight /\ IdsPrinted)'
  BY TraceForms, PTL
<1>. QED
  BY <1>1 DEF MapIInv

(* The program places an object: no file and no record changes. *)
LEMMA AllocateKeeps ==
  ASSUME MapIInv, NEW o \in Object, NEW a \in Address, Allocate(o, a)
  PROVE  MapIInv'
<1>. USE DEF Allocate, toolVars
<1>1. AllNew' = AllNew /\ AllGc' = AllGc /\ Address' = Address
  BY DEF AllNew, AllGc, Address
<1>2. a # Nowhere
  BY AddressAssumption DEF Address
<1>3. MapShapes'
  BY <1>1 DEF MapIInv, MapShapes, HeapShapes, FileShapes, ToolShapes
<1>4. Written'
  BY <1>1 DEF MapIInv, Written, Times, Distinct, Stayed, Owned, TagsStay
<1>5. where \in [Object -> Address \cup {Nowhere}]
  BY DEF MapIInv, MapShapes, HeapShapes
<1>6. \A n \in AllNew \cup events : n.obj \in Object /\ n.obj # o
  BY FilesAre DEF MapIInv, MapShapes, Tracing, RecordType
<1>7. Tracing'
  BY <1>1, <1>2, <1>5, <1>6 DEF MapIInv, Tracing, Free
<1>. QED
  BY <1>3, <1>4, <1>7, TraceKept

(* An object dies: its address is free, what was written stays. *)
LEMMA CollectKeeps ==
  ASSUME MapIInv, NEW o \in Object, Collect(o)
  PROVE  MapIInv'
<1>. USE DEF Collect, toolVars
<1>1. AllNew' = AllNew /\ AllGc' = AllGc /\ Address' = Address
  BY DEF AllNew, AllGc, Address
<1>3. MapShapes'
  BY <1>1 DEF MapIInv, MapShapes, HeapShapes, FileShapes, ToolShapes
<1>4. Written'
  BY <1>1 DEF MapIInv, Written, Times, Distinct, Stayed, Owned, TagsStay
<1>5. where \in [Object -> Address \cup {Nowhere}]
  BY DEF MapIInv, MapShapes, HeapShapes
<1>6. \A n \in AllNew \cup events : n.obj \in Object
  BY FilesAre DEF MapIInv, MapShapes, RecordType
<1>7. Tracing'
  BY <1>1, <1>5, <1>6 DEF MapIInv, Tracing
<1>. QED
  BY <1>3, <1>4, <1>7, TraceKept

(* A move is appended to the file of its GC thread. *)
LEMMA MemmoveKeeps ==
  ASSUME MapIInv, NEW o \in Object, NEW a \in Address, NEW g \in GcFile, memmove(g, o, a)
  PROVE  MapIInv'
<1>. USE DEF memmove, toolVars
<1>1. AllNew' = AllNew /\ Address' = Address
  BY DEF AllNew, Address
<1>2. a # Nowhere
  BY AddressAssumption DEF Address
<1>5. where \in [Object -> Address \cup {Nowhere}]
  BY DEF MapIInv, MapShapes, HeapShapes
<1>6. \A n \in AllNew \cup events : n.obj \in Object
  BY FilesAre DEF MapIInv, MapShapes, RecordType
<1>. DEFINE r == [org |-> where[o], new |-> a, time |-> Epoch + clock]
<1>8. r \in MoveType /\ r.time > Epoch
  BY <1>5, BoundsAssumption DEF MapIInv, MapShapes, HeapShapes, MoveType, Address
<1>. HIDE DEF r
<1>9. /\ gcRec \in [GcFile -> Seq(MoveType)] /\ gcRec' \in [GcFile -> Seq(MoveType)]
      /\ gcRec' = [gcRec EXCEPT ![g] = Append(gcRec[g], r)]
  BY <1>8 DEF MapIInv, MapShapes, FileShapes, r
<1>10. \A d \in AllGc' : d \in AllGc \/ d = r
  <2>1. \A h \in GcFile : \A i \in DOMAIN gcRec'[h] :
          gcRec'[h][i] = r \/ (i \in DOMAIN gcRec[h] /\ gcRec'[h][i] = gcRec[h][i])
    BY <1>8, <1>9
  <2>. QED
    BY <2>1 DEF AllGc, ToSet
<1>3. MapShapes'
  <2>1. HeapShapes'
    <3>1. o \in seen
      BY DEF MapIInv, Tracing
    <3>. QED
      BY <1>1, <3>1, BoundsAssumption DEF MapIInv, MapShapes, HeapShapes
  <2>2. FileShapes' /\ ToolShapes'
    BY <1>1, <1>9 DEF MapIInv, MapShapes, FileShapes, ToolShapes
  <2>. QED
    BY <2>1, <2>2 DEF MapShapes
<1>4. Written'
  <2>1. Times'
    BY <1>1, <1>8, <1>10 DEF MapIInv, MapShapes, HeapShapes, Written, Times
  <2>2. Distinct' /\ Stayed' /\ Owned' /\ TagsStay'
    BY <1>1 DEF MapIInv, Written, Distinct, Stayed, Owned, TagsStay
  <2>. QED
    BY <2>1, <2>2 DEF Written
<1>7. Tracing'
  BY <1>1, <1>2, <1>5, <1>6 DEF MapIInv, Tracing, Free
<1>. QED
  BY <1>3, <1>4, <1>7, TraceKept

(* A record of another stream names an object by its address, tag or null. *)
LEMMA AddRecordKeeps ==
  ASSUME MapIInv, NEW o \in Object, addRecord(o)
  PROVE  MapIInv'
<1>. USE DEF addRecord, toolVars
<1>1. AllNew' = AllNew /\ AllGc' = AllGc /\ Address' = Address
  BY DEF AllNew, AllGc, Address
<1>5. /\ where \in [Object -> Address \cup {Nowhere}]
      /\ where[o] \in Address /\ where[o] \in Nat /\ where[o] \in HeapAddress \cup Tag
  BY AddressAssumption DEF MapIInv, MapShapes, HeapShapes, Address
<1>. DEFINE r == [obj |-> o, addr |-> where[o], raw |-> where[o], time |-> clock, still |-> o \notin moved]
<1>2. /\ r.obj = o /\ r.addr = where[o] /\ r.raw = where[o] /\ r.time = clock
      /\ r.still = (o \notin moved) /\ r.still \in BOOLEAN
  BY Zenon
<1>6. r \in RecordType
  <2>1. clock \in Nat
    BY DEF MapIInv, MapShapes, HeapShapes
  <2>2. where[o] \in Int /\ where[o] \in HeapAddress \cup Tag
    BY <1>5
  <2>3. (o \notin moved) \in BOOLEAN
    OBVIOUS
  <2>. QED
    BY <2>1, <2>2, <2>3, Zenon DEF RecordType
<1>8. events' = events \cup {r}
  BY Zenon
<1>. HIDE DEF r
<1>9. \A n \in AllNew \cup events : n.obj \in Object /\ n.time \in Nat /\ n.time < clock
  BY FilesAre DEF MapIInv, MapShapes, HeapShapes, RecordType, Written, Times
<1>3. MapShapes'
  <2>1. HeapShapes' /\ ToolShapes'
    BY <1>1 DEF MapIInv, MapShapes, HeapShapes, ToolShapes
  <2>2. FileShapes'
    BY <1>1, <1>2, <1>5, <1>6, <1>8 DEF MapIInv, MapShapes, FileShapes, NoId
  <2>. QED
    BY <2>1, <2>2 DEF MapShapes
<1>4. Written'
  <2>1. Times'
    BY <1>1, <1>2, <1>8 DEF MapIInv, MapShapes, HeapShapes, Written, Times
  <2>2. Distinct' /\ TagsStay'
    BY <1>1 DEF MapIInv, Written, Distinct, TagsStay
  <2>3. Stayed'
    <3>. SUFFICES ASSUME NEW n \in AllNew, NEW e \in events', n.obj = e.obj, n.still, e.still
                  PROVE  n.raw = e.raw
      BY <1>1 DEF Stayed
    <3>1. CASE e \in events
      BY <3>1 DEF MapIInv, Written, Stayed
    <3>2. CASE e = r
      <4>1. n.obj = o /\ o \notin moved
        BY <1>2, <3>2
      <4>. QED
        BY <1>2, <3>2, <4>1 DEF MapIInv, Tracing
    <3>. QED
      BY <1>8, <3>1, <3>2
  <2>4. Owned'
    <3>. SUFFICES ASSUME NEW n \in AllNew, NEW m \in AllNew, NEW e \in events',
                         n.still, e.still, e.obj = n.obj,
                         m.obj # n.obj, m.raw = n.raw, m.time > n.time
                  PROVE  e.time < m.time
      BY <1>1 DEF Owned
    <3>1. CASE e \in events
      BY <3>1 DEF MapIInv, Written, Owned
    <3>2. CASE e = r
      <4>1. n.obj = o /\ o \notin moved
        BY <1>2, <3>2
      <4>2. m.time < n.time
        BY <4>1 DEF MapIInv, Tracing
      <4>. QED
        BY <4>2, <1>9
    <3>. QED
      BY <1>8, <3>1, <3>2
  <2>. QED
    BY <2>1, <2>2, <2>3, <2>4 DEF Written
<1>7. Tracing'
  BY <1>1, <1>2, <1>8 DEF MapIInv, Tracing
<1>. QED
  BY <1>3, <1>4, <1>7, TraceKept

(* The NEW record of an object: the first word of it, and later than the placing. *)
LEMMA AddNewRecordKeeps ==
  ASSUME MapIInv, NEW o \in Object, NEW f \in NewFile, addNewRecord(f, o)
  PROVE  MapIInv'
<1>. USE DEF addNewRecord, toolVars
<1>1. AllGc' = AllGc /\ Address' = Address
  BY DEF AllGc, Address
<1>5. /\ where \in [Object -> Address \cup {Nowhere}]
      /\ where[o] \in Address /\ where[o] \in Nat /\ where[o] \in HeapAddress \cup Tag
  BY AddressAssumption DEF MapIInv, MapShapes, HeapShapes, Address
<1>. DEFINE r == [obj |-> o, addr |-> where[o], raw |-> where[o], time |-> clock, still |-> o \notin moved]
<1>2. /\ r.obj = o /\ r.addr = where[o] /\ r.raw = where[o] /\ r.time = clock
      /\ r.still = (o \notin moved) /\ r.still \in BOOLEAN
  BY Zenon
<1>6. r \in RecordType
  <2>1. clock \in Nat
    BY DEF MapIInv, MapShapes, HeapShapes
  <2>2. where[o] \in Int /\ where[o] \in HeapAddress \cup Tag
    BY <1>5
  <2>3. (o \notin moved) \in BOOLEAN
    OBVIOUS
  <2>. QED
    BY <2>1, <2>2, <2>3, Zenon DEF RecordType
<1>8. newRec' = [newRec EXCEPT ![f] = Append(newRec[f], r)]
  BY Zenon
<1>. HIDE DEF r
<1>9. \A n \in AllNew \cup events : n.obj \in Object /\ n.time \in Nat /\ n.time < clock
  BY FilesAre DEF MapIInv, MapShapes, HeapShapes, RecordType, Written, Times
<1>10. newRec \in [NewFile -> Seq(RecordType)] /\ newRec' \in [NewFile -> Seq(RecordType)]
  BY <1>6, <1>8 DEF MapIInv, MapShapes, FileShapes
<1>11. /\ \A g \in NewFile : g # f => newRec'[g] = newRec[g]
       /\ Len(newRec'[f]) = Len(newRec[f]) + 1 /\ newRec'[f][Len(newRec[f]) + 1] = r
       /\ \A i \in 1..Len(newRec[f]) : newRec'[f][i] = newRec[f][i]
  BY <1>6, <1>8, <1>10
<1>12. \A g \in NewFile : \A i \in 1..Len(newRec'[g]) :
         \/ g = f /\ i = Len(newRec[f]) + 1 /\ newRec'[g][i] = r
         \/ i \in 1..Len(newRec[g]) /\ newRec'[g][i] = newRec[g][i]
  BY <1>10, <1>11
<1>13. \A g \in NewFile : \A i \in 1..Len(newRec[g]) : newRec[g][i] \in AllNew
  BY <1>10, NewAt DEF NewsAre
<1>14. \A n \in AllNew' : n \in AllNew \/ n = r
  <2>1. \A n \in AllNew' : \E g \in NewFile : \E i \in 1..Len(newRec'[g]) : n = newRec'[g][i]
    <3>1. (newRec \in [NewFile -> Seq(RecordType)])' => NewsAre'
      BY NewAt, PTL
    <3>. QED
      BY <1>10, <3>1 DEF NewsAre
  <2>. QED
    BY <1>12, <1>13, <2>1
<1>15. \A n \in AllNew : n.obj # o
  <2>1. \A n \in AllNew : \E g \in NewFile : \E i \in 1..Len(newRec[g]) : n = newRec[g][i]
    BY <1>10, NewAt DEF NewsAre
  <2>2. \A g \in NewFile : DOMAIN newRec[g] = 1..Len(newRec[g])
    BY <1>10
  <2>. QED
    BY <2>1, <2>2 DEF Recorded
<1>3. MapShapes'
  <2>1. HeapShapes' /\ ToolShapes'
    BY <1>1 DEF MapIInv, MapShapes, HeapShapes, ToolShapes
  <2>2. FileShapes'
    BY <1>1, <1>2, <1>5, <1>10, <1>14 DEF MapIInv, MapShapes, FileShapes, NoId
  <2>. QED
    BY <2>1, <2>2 DEF MapShapes
<1>4. Written'
  <2>1. Times'
    BY <1>1, <1>2, <1>14 DEF MapIInv, MapShapes, HeapShapes, Written, Times
  <2>2. TagsStay'
    BY <1>1 DEF MapIInv, Written, TagsStay
  <2>3. Stayed'
    <3>. SUFFICES ASSUME NEW n \in AllNew', NEW e \in events, n.obj = e.obj, n.still, e.still
                  PROVE  n.raw = e.raw
      BY DEF Stayed
    <3>1. CASE n \in AllNew
      BY <3>1 DEF MapIInv, Written, Stayed
    <3>2. CASE n = r
      <4>1. e.obj = o /\ o \notin moved
        BY <1>2, <3>2
      <4>. QED
        BY <1>2, <3>2, <4>1 DEF MapIInv, Tracing
    <3>. QED
      BY <1>14, <3>1, <3>2
  <2>4. Owned'
    <3>. SUFFICES ASSUME NEW n \in AllNew', NEW m \in AllNew', NEW e \in events,
                         n.still, e.still, e.obj = n.obj,
                         m.obj # n.obj, m.raw = n.raw, m.time > n.time
                  PROVE  e.time < m.time
      BY DEF Owned
    <3>1. CASE n \in AllNew /\ m \in AllNew
      BY <3>1 DEF MapIInv, Written, Owned
    <3>2. CASE m = r
      BY <3>2, <1>2, <1>9
    <3>3. CASE n = r /\ m \in AllNew
      BY <3>3, <1>2, <1>9 DEF MapIInv, MapShapes, HeapShapes
    <3>. QED
      BY <1>14, <3>1, <3>2, <3>3
  <2>5. Distinct'
    <3>. SUFFICES ASSUME NEW g \in NewFile, NEW h \in NewFile,
                         NEW i \in 1..Len(newRec'[g]), NEW j \in 1..Len(newRec'[h]),
                         \/ newRec'[g][i].obj = newRec'[h][j].obj
                         \/ newRec'[g][i].time = newRec'[h][j].time
                  PROVE  g = h /\ i = j
      BY Zenon DEF Distinct
    <3>0. clock \in Nat
      BY DEF MapIInv, MapShapes, HeapShapes
    <3>1. \A k \in NewFile : \A l \in 1..Len(newRec[k]) :
            newRec[k][l].obj # o /\ newRec[k][l].time # clock
      BY <1>9, <1>13, <1>15, <3>0
    <3>2. CASE i \in 1..Len(newRec[g]) /\ newRec'[g][i] = newRec[g][i]
      <4>1. newRec'[h][j] # r
        BY <3>1, <3>2, <1>2
      <4>2. j \in 1..Len(newRec[h]) /\ newRec'[h][j] = newRec[h][j]
        BY <1>12, <4>1
      <4>. QED
        BY <3>2, <4>2 DEF MapIInv, Written, Distinct
    <3>3. CASE g = f /\ i = Len(newRec[f]) + 1 /\ newRec'[g][i] = r
      <4>1. ~(j \in 1..Len(newRec[h]) /\ newRec'[h][j] = newRec[h][j])
        BY <3>1, <3>3, <1>2
      <4>. QED
        BY <1>12, <4>1, <3>3
    <3>. QED
      BY <1>12, <3>2, <3>3
  <2>. QED
    BY <2>1, <2>2, <2>3, <2>4, <2>5 DEF Written
<1>7. Tracing'
  <2>. SUFFICES /\ \A n \in AllNew' \cup events :
                     /\ n.obj \in seen /\ n.addr = n.raw
                     /\ n.obj \notin moved /\ where[n.obj] # Nowhere => n.raw = where[n.obj]
                /\ \A n, m \in AllNew' :
                     n.obj \notin moved /\ where[n.obj] # Nowhere /\ m.obj # n.obj /\ m.raw = n.raw
                       => m.time < n.time
    BY DEF MapIInv, Tracing
  <2>1. \A n \in AllNew' \cup events :
          /\ n.obj \in seen /\ n.addr = n.raw
          /\ n.obj \notin moved /\ where[n.obj] # Nowhere => n.raw = where[n.obj]
    BY <1>2, <1>14 DEF MapIInv, Tracing
  <2>2. ASSUME NEW n \in AllNew', NEW m \in AllNew',
               n.obj \notin moved, where[n.obj] # Nowhere, m.obj # n.obj, m.raw = n.raw
        PROVE  m.time < n.time
    <3>1. CASE n \in AllNew /\ m \in AllNew
      BY <2>2, <3>1 DEF MapIInv, Tracing
    <3>2. CASE n = r /\ m \in AllNew
      BY <3>2, <1>2, <1>9
    <3>3. CASE n \in AllNew /\ m = r
      <4>1. n.raw = where[n.obj] /\ n.obj \in Object
        BY <2>1, <2>2, <1>9, <3>3
      <4>2. where[n.obj] = where[o]
        BY <4>1, <2>2, <3>3, <1>2
      <4>. QED
        BY <4>1, <4>2, <2>2, <3>3, <1>2 DEF MapIInv, Tracing
    <3>. QED
      BY <1>14, <2>2, <3>1, <3>2, <3>3
  <2>. QED
    BY <2>1, <2>2
<1>. QED
  BY <1>3, <1>4, <1>7, TraceKept

-----------------------------------------------------------------------------
(* AddrMap: what the map answers *)

(* The numbers in the map, and its addresses. *)
LEMMA EntriesRight ==
  ASSUME MapIInv, Building, NEW a \in DOMAIN am.map
  PROVE  a \in Nat /\ \A d \in am.map[a].entries : d.time \in Nat /\ d.id \in Nat
<1>1. ASSUME NEW d, EntryOf(a, d) PROVE a \in Nat /\ d.time \in Nat /\ d.id \in Nat
  <2>1. CASE a = 0 /\ d = [time |-> 0, id |-> 0]
    BY <2>1
  <2>2. CASE \E f \in NewFile : \E i \in 1..Len(newRec[f]) :
               WasRead(f, i) /\ newRec[f][i].addr = a /\ d = Entry(f, i)
    <3>1. PICK f \in NewFile : \E i \in 1..Len(newRec[f]) : newRec[f][i].addr = a /\ d = Entry(f, i)
      BY <2>2
    <3>2. PICK i \in 1..Len(newRec[f]) : newRec[f][i].addr = a /\ d = Entry(f, i)
      BY <3>1
    <3>3. newRec[f][i] \in RecordType
      BY FilesAre DEF MapIInv, MapShapes
    <3>4. newRec[f][i].raw \in Nat /\ newRec[f][i].time \in Nat
      BY <3>3, AddressAssumption DEF RecordType
    <3>5. newRec[f][i].addr \in {newRec[f][i].raw, Id(newRec, f, i)}
      BY DEF MapIInv, NewForms
    <3>6. Id(newRec, f, i) \in Nat
      BY IdType
    <3>. QED
      BY <3>2, <3>4, <3>5, <3>6 DEF Entry
  <2>3. CASE \E r \in AllGc : r.new = a /\ d.time = r.time /\ d.id \in Nat
    <3>1. PICK r \in AllGc : r.new = a /\ d.time = r.time /\ d.id \in Nat
      BY <2>3
    <3>2. r.new \in HeapAddress /\ r.time \in Nat
      BY FilesAre DEF MapIInv, MapShapes, MoveType
    <3>. QED
      BY <3>1, <3>2, AddressAssumption
  <2>. QED
    BY <1>1, <2>1, <2>2, <2>3 DEF EntryOf
<1>2. \A d \in am.map[a].entries : EntryOf(a, d)
  BY DEF MapIInv, MapRight
<1>3. am.map[a].entries # {}
  BY DEF MapIInv, MapShapes, ToolShapes
<1>. QED
  BY <1>1, <1>2, <1>3

(* A query answers with a number, and with no id for what is no address. *)
LEMMA QueryNumber ==
  ASSUME MapIInv, Building, NEW a, NEW time \in Nat
  PROVE  /\ query(am, a, time) \in Nat \cup {NoId}
         /\ a = NoId => query(am, a, time) = NoId
<1>1. a \in DOMAIN am.map =>
        /\ a \in Nat /\ am.map[a].entries # {}
        /\ \A d \in am.map[a].entries : d.time \in Nat /\ d.id \in Nat
  BY EntriesRight DEF MapIInv, MapShapes, ToolShapes
<1>2. \/ query(am, a, time) = NoId
      \/ a \in DOMAIN am.map /\ \E d \in am.map[a].entries : query(am, a, time) = d.id
  BY <1>1, QueryType
<1>3. NoId \notin Nat
  BY DEF NoId
<1>. QED
  BY <1>1, <1>2, <1>3

(* The address of a NEW record is not that of null. *)
LEMMA NewAddressNotNull ==
  ASSUME MapIInv, NEW f \in NewFile, NEW i \in 1..Len(newRec[f])
  PROVE  /\ newRec[f][i].addr # 0 /\ newRec[f][i].raw # 0 /\ newRec[f][i].obj \in Object
         /\ Id(newRec, f, i) > 0 /\ newRec[f][i].raw \in Address
<1>1. newRec[f][i] \in RecordType /\ newRec[f][i] \in AllNew
  BY FilesAre DEF MapIInv, MapShapes
<1>2. newRec[f][i].raw # 0 /\ newRec[f][i].obj \in Object
  BY <1>1, AddressAssumption DEF RecordType
<1>3. Id(newRec, f, i) > 0
  BY <1>2, IdPositive
<1>4. newRec[f][i].addr \in {newRec[f][i].raw, Id(newRec, f, i)}
  BY DEF MapIInv, NewForms
<1>5. newRec[f][i].raw \in Address
  BY <1>1 DEF MapIInv, MapShapes, FileShapes
<1>. QED
  BY <1>2, <1>3, <1>4, <1>5

(* Two NEW records have two ids. *)
LEMMA NewIdsDiffer ==
  ASSUME MapIInv, NEW f \in NewFile, NEW i \in 1..Len(newRec[f]),
         NEW g \in NewFile, NEW j \in 1..Len(newRec[g]),
         Id(newRec, f, i) = Id(newRec, g, j)
  PROVE  f = g /\ i = j
<1>1. \A h \in NewFile : Len(newRec[h]) \in Nat /\ \A k \in 1..Len(newRec[h]) : newRec[h][k].obj \in Object
  BY FilesAre, NewAddressNotNull DEF MapIInv, MapShapes
<1>2. \A h, l \in NewFile : \A k \in 1..Len(newRec[h]), m \in 1..Len(newRec[l]) :
        newRec[h][k].obj = newRec[l][m].obj => h = l /\ k = m
  BY DEF MapIInv, Written, Distinct
<1>. QED
  BY <1>1, <1>2, IdsDiffer, SMTT(60)

(* The entries of an address that a NEW record was read with. *)
LEMMA EntriesOfNew ==
  ASSUME MapIInv, Building, NEW f \in NewFile, NEW i \in 1..Len(newRec[f]), WasRead(f, i),
         NEW d \in am.map[newRec[f][i].addr].entries
  PROVE  \/ \E g \in NewFile : \E j \in 1..Len(newRec[g]) :
              newRec[g][j].addr = newRec[f][i].addr /\ d = Entry(g, j)
         \/ \E r \in AllGc : r.new = newRec[f][i].addr /\ d.time = r.time /\ r.time > Epoch
<1>1. newRec[f][i].addr \in DOMAIN am.map
  BY DEF MapIInv, MapRight
<1>2. EntryOf(newRec[f][i].addr, d)
  BY <1>1 DEF MapIInv, MapRight
<1>3. \A r \in AllGc : r.time > Epoch
  BY DEF MapIInv, Written, Times
<1>. QED
  BY <1>2, <1>3, NewAddressNotNull DEF EntryOf

(* Every NEW record is resolved to its own id, whatever moves there were   *)
(* and whether its address is a heap address, a tag or an id.              *)
LEMMA NewResolved ==
  ASSUME MapIInv, phase = "NEW", NEW f \in NewFile, NEW i \in 1..Len(newRec[f])
  PROVE  query(am, newRec[f][i].addr, newRec[f][i].time) = Id(newRec, f, i)
<1>. DEFINE a == newRec[f][i].addr
            own == Entry(f, i)
<1>0. Building /\ WasRead(f, i)
  BY DEF Building, WasRead
<1>1. a \in DOMAIN am.map /\ own \in am.map[a].entries
  BY <1>0 DEF MapIInv, MapRight
<1>2. newRec[f][i] \in AllNew /\ newRec[f][i] \in RecordType
  BY FilesAre DEF MapIInv, MapShapes
<1>3. own.time = newRec[f][i].time /\ own.id = Id(newRec, f, i)
  BY DEF Entry
<1>4. newRec[f][i].time \in Nat /\ newRec[f][i].time < Epoch
  BY <1>2 DEF MapIInv, Written, Times, RecordType
<1>5. ASSUME NEW d \in am.map[a].entries, d.time <= newRec[f][i].time
      PROVE  d.time < own.time \/ d = own
  <2>1. CASE \E g \in NewFile : \E j \in 1..Len(newRec[g]) : newRec[g][j].addr = a /\ d = Entry(g, j)
    <3>1. PICK g \in NewFile : \E j \in 1..Len(newRec[g]) : d = Entry(g, j)
      BY <2>1
    <3>2. PICK j \in 1..Len(newRec[g]) : d = Entry(g, j)
      BY <3>1
    <3>3. d.time = newRec[g][j].time
      BY <3>2 DEF Entry
    <3>4. CASE d.time = newRec[f][i].time
      <4>0. newRec[f][i].time = newRec[g][j].time
        BY <3>3, <3>4
      <4>1. f = g /\ i = j
        BY <4>0 DEF MapIInv, Written, Distinct
      <4>. QED
        BY <3>2, <4>1
    <3>5. d.time \in Nat
      BY <1>0, <1>1, EntriesRight
    <3>. QED
      BY <1>3, <1>4, <1>5, <3>4, <3>5
  <2>2. CASE \E r \in AllGc : r.new = a /\ d.time = r.time /\ r.time > Epoch
    <3>1. d.time > Epoch /\ d.time \in Nat /\ Epoch \in Nat
      BY <1>0, <1>1, <2>2, EntriesRight, BoundsAssumption
    <3>. QED
      BY <3>1, <1>4, <1>5
  <2>. QED
    BY <1>0, <2>1, <2>2, EntriesOfNew
<1>6. am.map[a].unique => \A c, d \in am.map[a].entries : c = d
  BY <1>0, <1>1 DEF MapIInv, MapRight
<1>7. \A d \in am.map[a].entries : d.time \in Nat
  BY <1>0, <1>1, EntriesRight
<1>8. own.time <= newRec[f][i].time
  BY <1>3, <1>4
<1>. HIDE DEF own, a
<1>9. query(am, a, newRec[f][i].time) = own.id
  BY <1>1, <1>4, <1>5, <1>6, <1>7, <1>8, QueryRight
<1>. QED
  BY <1>3, <1>9 DEF a

(* A record that the files can name, whose address no run has replaced, is *)
(* resolved to the id of its object's NEW record.                          *)
LEMMA RawResolved ==
  ASSUME MapIInv, phase = "data", AllRaw, NEW e \in events,
         NEW f \in NewFile, NEW i \in 1..Len(newRec[f]),
         Names(newRec[f][i], e), e.addr = e.raw
  PROVE  query(am, e.addr, e.time) = Id(newRec, f, i)
<1>. DEFINE n == newRec[f][i]
            own == Entry(f, i)
<1>0. Building /\ WasRead(f, i)
  BY DEF Building, WasRead
<1>2. n \in AllNew /\ n \in RecordType /\ e \in RecordType
  BY FilesAre DEF MapIInv, MapShapes
<1>1. n.addr = e.addr /\ n.raw = e.raw /\ n.addr = n.raw
  BY <1>2 DEF MapIInv, Written, Stayed, Names, AllRaw
<1>3. n.addr \in DOMAIN am.map /\ own \in am.map[n.addr].entries
  BY <1>0 DEF MapIInv, MapRight
<1>4. own.time = n.time /\ own.id = Id(newRec, f, i)
  BY DEF Entry
<1>5. n.time \in Nat /\ e.time \in Nat /\ e.time < Epoch /\ Epoch \in Nat
  BY <1>2, BoundsAssumption DEF MapIInv, Written, Times, RecordType
<1>6. ASSUME ~am.map[n.addr].unique PROVE n.time <= e.time
  <2>1. Shared(n.addr)
    BY <1>0, <1>3, <1>6 DEF MapIInv, MapRight
  <2>2. ~OneOwner(n)
    <3>1. CASE \E r \in AllGc : r.new = n.addr
      BY <1>1, <3>1 DEF OneOwner
    <3>2. CASE \E g, h \in NewFile : \E j \in 1..Len(newRec[g]), k \in 1..Len(newRec[h]) :
                 ~(g = h /\ j = k) /\ newRec[g][j].addr = n.addr /\ newRec[h][k].addr = n.addr
      <4>1. PICK g, h \in NewFile : \E j \in 1..Len(newRec[g]), k \in 1..Len(newRec[h]) :
                   ~(g = h /\ j = k) /\ newRec[g][j].addr = n.addr /\ newRec[h][k].addr = n.addr
        BY <3>2
      <4>2. PICK j \in 1..Len(newRec[g]), k \in 1..Len(newRec[h]) :
                   ~(g = h /\ j = k) /\ newRec[g][j].addr = n.addr /\ newRec[h][k].addr = n.addr
        BY <4>1
      <4>3. newRec[g][j] \in AllNew /\ newRec[h][k] \in AllNew
        BY FilesAre DEF MapIInv, MapShapes
      <4>4. newRec[g][j].raw = n.raw /\ newRec[h][k].raw = n.raw
        BY <1>1, <4>2, <4>3 DEF AllRaw
      <4>5. newRec[g][j].obj # newRec[h][k].obj
        BY <4>2 DEF MapIInv, Written, Distinct
      <4>. QED
        BY <4>3, <4>4, <4>5 DEF OneOwner
    <3>. QED
      BY <2>1, <3>1, <3>2 DEF Shared
  <2>. QED
    BY <2>2 DEF Names
<1>7. ASSUME NEW d \in am.map[n.addr].entries, d.time <= e.time, n.time <= e.time
      PROVE  d.time < own.time \/ d = own
  <2>0. d.time \in Nat
    BY <1>0, <1>3, EntriesRight
  <2>1. CASE \E g \in NewFile : \E j \in 1..Len(newRec[g]) : newRec[g][j].addr = n.addr /\ d = Entry(g, j)
    <3>1. PICK g \in NewFile : \E j \in 1..Len(newRec[g]) : newRec[g][j].addr = n.addr /\ d = Entry(g, j)
      BY <2>1
    <3>2. PICK j \in 1..Len(newRec[g]) : newRec[g][j].addr = n.addr /\ d = Entry(g, j)
      BY <3>1
    <3>3. d.time = newRec[g][j].time /\ newRec[g][j] \in AllNew
      BY <3>2, FilesAre DEF Entry, MapIInv, MapShapes
    <3>4. newRec[g][j].raw = n.raw
      BY <1>1, <3>2, <3>3 DEF AllRaw
    <3>5. CASE newRec[g][j].obj = n.obj \/ newRec[g][j].time = n.time
      <4>1. f = g /\ i = j
        BY <3>5 DEF MapIInv, Written, Distinct
      <4>. QED
        BY <3>2, <4>1
    <3>6. CASE newRec[g][j].obj # n.obj /\ newRec[g][j].time > n.time
      <4>1. e.time < newRec[g][j].time
        BY <1>2, <3>3, <3>4, <3>6 DEF MapIInv, Written, Owned, Names
      <4>. QED
        BY <4>1, <3>3, <1>5, <1>7, <2>0
    <3>. QED
      BY <3>3, <3>5, <3>6, <1>4, <1>5, <2>0
  <2>2. CASE \E r \in AllGc : r.new = n.addr /\ d.time = r.time /\ r.time > Epoch
    BY <2>0, <2>2, <1>5, <1>7
  <2>. QED
    BY <1>0, <2>1, <2>2, EntriesOfNew
<1>8. am.map[n.addr].unique => \A c, d \in am.map[n.addr].entries : c = d
  BY <1>0, <1>3 DEF MapIInv, MapRight
<1>9. \A d \in am.map[n.addr].entries : d.time \in Nat
  BY <1>0, <1>3, EntriesRight
<1>. HIDE DEF own, n
<1>10. query(am, n.addr, e.time) = own.id
  BY <1>3, <1>4, <1>5, <1>6, <1>7, <1>8, <1>9, QueryRight
<1>. QED
  BY <1>1, <1>4, <1>10

(* An id that is looked up as an address belongs to its NEW record or, if  *)
(* that was not rewritten, to none.                                        *)
LEMMA IdResolved ==
  ASSUME MapIInv, phase = "data", NEW time \in Nat,
         NEW f \in NewFile, NEW i \in 1..Len(newRec[f]), ~tagged \/ AllIds
  PROVE  /\ query(am, Id(newRec, f, i), time) \in {NoId, Id(newRec, f, i)}
         /\ AllIds => query(am, Id(newRec, f, i), time) = Id(newRec, f, i)
<1>. DEFINE a == Id(newRec, f, i)
<1>0. Building /\ WasRead(f, i)
  BY DEF Building, WasRead
<1>1. a \in Nat /\ a > 0 /\ a <= Cardinality(Object) /\ Cardinality(Object) \in Nat
  BY IdType, NewAddressNotNull, ObjectAssumption, FS_CardinalityType
<1>2. \A b \in HeapAddress : b # a
  <2>1. \A b \in HeapAddress : b \in Nat /\ b > Cardinality(Object)
    BY AddressAssumption
  <2>. QED
    BY <1>1, <2>1
<1>3. \A r \in AllGc : r.new # a
  BY <1>2, FilesAre DEF MapIInv, MapShapes, MoveType
<1>4. ASSUME NEW g \in NewFile, NEW j \in 1..Len(newRec[g]), newRec[g][j].addr = a
      PROVE  g = f /\ j = i
  <2>1. CASE ~tagged
    <3>1. newRec[g][j].raw \in HeapAddress
      BY <2>1, NewAddressNotNull DEF Address
    <3>2. newRec[g][j].addr = Id(newRec, g, j)
      BY <1>2, <1>4, <3>1 DEF MapIInv, NewForms
    <3>3. Id(newRec, g, j) = Id(newRec, f, i)
      BY <1>4, <3>2
    <3>. HIDE DEF a
    <3>. QED
      BY <3>3, NewIdsDiffer
  <2>2. CASE AllIds
    <3>2. newRec[g][j].addr = Id(newRec, g, j)
      BY <2>2 DEF AllIds
    <3>3. Id(newRec, g, j) = Id(newRec, f, i)
      BY <1>4, <3>2
    <3>. HIDE DEF a
    <3>. QED
      BY <3>3, NewIdsDiffer
  <2>. QED
    BY <2>1, <2>2
<1>5. ASSUME a \in DOMAIN am.map
      PROVE  \A d \in am.map[a].entries : d = Entry(f, i)
  <2>1. \A d \in am.map[a].entries : EntryOf(a, d)
    BY <1>0, <1>5 DEF MapIInv, MapRight
  <2>. QED
    BY <1>1, <1>3, <1>4, <2>1 DEF EntryOf
<1>6. Entry(f, i).id = a
  BY DEF Entry
<1>7. query(am, a, time) \in {NoId, a}
  <2>1. a \in DOMAIN am.map =>
          /\ am.map[a].entries # {}
          /\ \A d \in am.map[a].entries : d.time \in Nat
    BY <1>0, EntriesRight DEF MapIInv, MapShapes, ToolShapes
  <2>. HIDE DEF a
  <2>2. \/ query(am, a, time) = NoId
        \/ a \in DOMAIN am.map /\ \E d \in am.map[a].entries : query(am, a, time) = d.id
    BY <2>1, QueryType
  <2>. QED
    BY <1>5, <1>6, <2>2
<1>8. ASSUME AllIds PROVE query(am, a, time) = a
  <2>1. newRec[f][i].addr = a
    BY <1>8 DEF AllIds
  <2>2. a \in DOMAIN am.map /\ Entry(f, i) \in am.map[a].entries
    BY <1>0, <2>1 DEF MapIInv, MapRight
  <2>3. am.map[a].unique
    <3>1. ~Shared(a)
      BY <1>3, <1>4, Zenon DEF Shared
    <3>. QED
      BY <1>0, <2>2, <3>1 DEF MapIInv, MapRight
  <2>4. \A d \in am.map[a].entries : d.time \in Nat
    BY <1>0, <2>2, EntriesRight
  <2>. HIDE DEF a
  <2>5. query(am, a, time) = Entry(f, i).id
    BY <1>5, <2>2, <2>3, <2>4, QueryRight
  <2>. QED
    BY <1>6, <2>5
<1>. QED
  BY <1>7, <1>8

-----------------------------------------------------------------------------
(* AddrMap: the runs of addr2id *)

(* A step that leaves the files alone. *)
LEMMA SameFiles ==
  ASSUME MapIInv, UNCHANGED <<newRec, gcRec, events, clock, tagged>>,
         phase' \in {"build", "gc", "data", "killed"}, phase # "NEW",
         kills' = kills \/ kills' # 0
  PROVE  /\ FileShapes' /\ Written' /\ Tracing' /\ NewForms' /\ EventForms'
         /\ AllNew' = AllNew /\ AllGc' = AllGc
<1>1. AllNew' = AllNew /\ AllGc' = AllGc /\ Address' = Address
  BY DEF AllNew, AllGc, Address
<1>2. FileShapes'
  BY <1>1 DEF MapIInv, MapShapes, FileShapes
<1>3. Written'
  BY <1>1 DEF MapIInv, Written, Times, Distinct, Stayed, Owned, TagsStay
<1>4. Tracing'
  BY DEF Tracing
<1>5. NewForms'
  BY DEF MapIInv, NewForms
<1>6. EventForms'
  <2>1. /\ AllRaw' <=> AllRaw
        /\ AllIds' <=> AllIds
        /\ \A n, e : Names(n, e)' <=> Names(n, e)
    BY <1>1 DEF AllRaw, AllIds, Names, OneOwner
  <2>2. \A e : Unwritten(e) => Unwritten(e)'
    BY <2>1 DEF Unwritten
  <2>3. ASSUME NEW e \in events, NEW f \in NewFile, NEW i \in 1..Len(newRec[f]),
               Names(newRec[f][i], e)'
        PROVE  /\ kills' = 0 => Unwritten(e)' \/ (e.addr = Id(newRec, f, i) /\ AllIds')
               /\ ~tagged => Unwritten(e)' \/ e.addr \in {NoId, Id(newRec, f, i)}
    <3>1. Names(newRec[f][i], e)
      BY <2>1, <2>3
    <3>. QED
      BY <2>1, <2>2, <3>1 DEF MapIInv, EventForms
  <2>. QED
    BY <2>3 DEF EventForms
<1>. QED
  BY <1>1, <1>2, <1>3, <1>4, <1>5, <1>6

(* A run starts with an empty map and all of the files unread. *)
LEMMA MainKeeps ==
  ASSUME MapIInv, main
  PROVE  MapIInv'
<1>1. /\ FileShapes' /\ Written' /\ Tracing' /\ NewForms' /\ EventForms'
      /\ AllNew' = AllNew /\ AllGc' = AllGc
  BY SameFiles DEF main
<1>2. HeapShapes'
  BY DEF main, MapIInv, MapShapes, HeapShapes, Address
<1>3. /\ am' = [map |-> am'.map, cur_id |-> am'.cur_id] /\ am'.cur_id = 1
      /\ DOMAIN am'.map = {0} /\ am'.map[0].unique
      /\ am'.map[0].entries = {[time |-> 0, id |-> 0]}
      /\ at' = <<1, 1>> /\ at'[1] = 1 /\ at'[2] = 1 /\ phase' = "build"
  BY EmptyRight DEF main
<1>4. DOMAIN newId' = {}
  BY DEF main
<1>5. ToolShapes'
  <2>1. /\ runs \in Nat /\ MaxRuns \in Nat /\ runs < MaxRuns /\ kills \in 0..runs
        /\ runs' = runs + 1 /\ kills' = kills
    BY BoundsAssumption DEF main, MapIInv, MapShapes, ToolShapes
  <2>2. \A a \in DOMAIN am'.map : am'.map[a].entries # {}
    BY <1>3
  <2>. QED
    BY <1>3, <1>4, <2>1, <2>2 DEF ToolShapes
<1>6. \A f \in NewFile : \A i \in 1..Len(newRec'[f]) : ~WasRead(f, i)'
  <2>1. \A f \in NewFile : f \in Int /\ f >= 1
    BY DEF NewFile
  <2>. QED
    BY <1>3, <2>1 DEF WasRead
<1>7. MapRight'
  <2>1. ObjsTo(newRec', 1, 0) = {}
    BY DEF ObjsTo, NewFile
  <2>2. am'.cur_id = 1 + Cardinality(ObjsTo(newRec', at'[1], at'[2] - 1))
    BY <1>3, <2>1, FS_EmptySet
  <2>3. EntryOf(0, [time |-> 0, id |-> 0])'
    BY DEF EntryOf
  <2>. QED
    BY <1>3, <1>6, <2>2, <2>3 DEF MapRight
<1>8. IdsPrinted'
  BY <1>4, <1>6 DEF IdsPrinted
<1>. QED
  BY <1>1, <1>2, <1>5, <1>7, <1>8 DEF MapIInv, MapShapes

(* The next record gets the next id. *)
LEMMA NextId ==
  ASSUME MapIInv, phase = "build", at[1] \in NewFile, at[2] \in 1..Len(newRec[at[1]])
  PROVE  /\ am.cur_id = Id(newRec, at[1], at[2])
         /\ am.cur_id + 1 = 1 + Cardinality(ObjsTo(newRec, at[1], at[2]))
<1>. DEFINE f == at[1]
            i == at[2]
            o == newRec[f][i].obj
<1>1. /\ f \in Int /\ i \in Int /\ NewFile \subseteq Int /\ o \in Object
      /\ \A g \in NewFile : Len(newRec[g]) \in Nat
  BY NewAddressNotNull, FilesAre DEF NewFile, MapIInv, MapShapes
<1>2. ObjsTo(newRec, f, i) = ObjsTo(newRec, f, i - 1) \cup {o}
  <2>1. ASSUME NEW p \in ObjsTo(newRec, f, i) PROVE p \in ObjsTo(newRec, f, i - 1) \cup {o}
    <3>1. PICK g \in NewFile : \E j \in 1..Len(newRec[g]) :
            newRec[g][j].obj = p /\ (g < f \/ (g = f /\ j <= i))
      BY DEF ObjsTo
    <3>2. PICK j \in 1..Len(newRec[g]) : newRec[g][j].obj = p /\ (g < f \/ (g = f /\ j <= i))
      BY <3>1
    <3>3. CASE g = f /\ j = i
      BY <3>2, <3>3
    <3>4. CASE g < f \/ (g = f /\ j <= i - 1)
      BY <3>2, <3>4 DEF ObjsTo
    <3>. QED
      BY <1>1, <3>2, <3>3, <3>4
  <2>2. ASSUME NEW p \in ObjsTo(newRec, f, i - 1) PROVE p \in ObjsTo(newRec, f, i)
    BY <1>1 DEF ObjsTo
  <2>3. o \in ObjsTo(newRec, f, i)
    BY <1>1 DEF ObjsTo
  <2>. QED
    BY <2>1, <2>2, <2>3
<1>3. o \notin ObjsTo(newRec, f, i - 1)
  <2>1. \A g \in NewFile : \A j \in 1..Len(newRec[g]) : newRec[g][j].obj = o => g = f /\ j = i
    BY DEF MapIInv, Written, Distinct
  <2>. SUFFICES ASSUME o \in ObjsTo(newRec, f, i - 1) PROVE FALSE
    OBVIOUS
  <2>2. PICK g \in NewFile : \E j \in 1..Len(newRec[g]) :
          newRec[g][j].obj = o /\ (g < f \/ (g = f /\ j <= i - 1))
    BY DEF ObjsTo
  <2>3. PICK j \in 1..Len(newRec[g]) : newRec[g][j].obj = o /\ (g < f \/ (g = f /\ j <= i - 1))
    BY <2>2
  <2>4. g = f /\ j = i
    BY <2>1, <2>3
  <2>. QED
    BY <1>1, <2>3, <2>4
<1>4. IsFiniteSet(ObjsTo(newRec, f, i - 1))
  BY IdType
<1>5. Cardinality(ObjsTo(newRec, f, i)) = Cardinality(ObjsTo(newRec, f, i - 1)) + 1
  BY <1>2, <1>3, <1>4, FS_AddElement
<1>6. am.cur_id = 1 + Cardinality(ObjsTo(newRec, f, i - 1))
  BY DEF MapIInv, MapRight, Building
<1>7. Cardinality(ObjsTo(newRec, f, i - 1)) \in Nat
  BY <1>4, FS_CardinalityType
<1>. QED
  BY <1>5, <1>6, <1>7 DEF Id

(* A NEW record enters the map with the next id. *)
LEMMA InsertNewKeeps ==
  ASSUME MapIInv, insert_new_records
  PROVE  MapIInv'
<1>0. PICK f \in NewFile, i \in 1..Len(newRec[at[1]]), r \in RecordType :
        f = at[1] /\ i = at[2] /\ r = newRec[f][i]
  <2>1. at[1] \in NewFile /\ at[2] \in 1..Len(newRec[at[1]])
    BY FilesAre DEF insert_new_records, MapIInv, MapShapes
  <2>2. newRec[at[1]][at[2]] \in RecordType
    BY <2>1, FilesAre DEF MapIInv, MapShapes
  <2>. QED
    BY <2>1, <2>2
<1>. DEFINE w == insert_with_id(am, r.addr, r.time, am.cur_id)
<1>1. /\ FileShapes' /\ Written' /\ Tracing' /\ NewForms' /\ EventForms'
      /\ AllNew' = AllNew /\ AllGc' = AllGc
  BY SameFiles DEF insert_new_records, traceVars, heapVars
<1>2. HeapShapes'
  BY DEF insert_new_records, traceVars, heapVars, MapIInv, MapShapes, HeapShapes, Address
<1>3. /\ phase = "build" /\ phase' = "build" /\ newRec' = newRec /\ runs' = runs /\ kills' = kills
      /\ f \in NewFile /\ i \in 1..Len(newRec[f]) /\ at' = <<f, i + 1>>
      /\ Building /\ Building'
  BY <1>0 DEF insert_new_records, traceVars, Building
<1>4. at'[1] = f /\ at'[2] = i + 1 /\ f \in Int /\ i \in Int /\ NewFile \subseteq Int
      /\ at' \in (Nat \ {0}) \X (Nat \ {0})
  BY <1>0, <1>3 DEF NewFile, MapIInv, MapShapes, ToolShapes
<1>5. r \in AllNew /\ r \in RecordType /\ r.obj \in Object /\ r.addr # 0
  BY <1>0, <1>3, FilesAre, NewAddressNotNull DEF MapIInv, MapShapes
<1>6. am.cur_id = Id(newRec, f, i) /\ am.cur_id + 1 = 1 + Cardinality(ObjsTo(newRec, f, i))
  BY <1>0, <1>3, NextId
<1>7. /\ am = [map |-> am.map, cur_id |-> am.cur_id] /\ am.cur_id \in Nat
      /\ \A a \in DOMAIN am.map : am.map[a].entries # {}
  BY DEF MapIInv, MapShapes, ToolShapes
<1>8. am' = [w EXCEPT !.cur_id = @ + 1] /\ newId' = Put(newId, r.obj, am.cur_id)
  BY <1>0 DEF insert_new_records, insert_new
<1>9. ~WasRead(f, i)
  BY <1>0, <1>3, <1>4 DEF WasRead
<1>10. \A g \in NewFile : \A j \in 1..Len(newRec[g]) :
         WasRead(g, j)' <=> (WasRead(g, j) \/ (g = f /\ j = i))
  BY <1>0, <1>3, <1>4 DEF WasRead
<1>11. \A g \in NewFile : \A j \in 1..Len(newRec[g]) : Entry(g, j)' = Entry(g, j)
  BY <1>3 DEF Entry
<1>12. Entry(f, i) = [time |-> r.time, id |-> am.cur_id]
  BY <1>0, <1>6 DEF Entry
<1>13. r.addr \in DOMAIN am.map => \A e \in am.map[r.addr].entries :
         /\ e.time # r.time
         /\ \/ \E g \in NewFile : \E j \in 1..Len(newRec[g]) :
                 ~(g = f /\ j = i) /\ newRec[g][j].addr = r.addr
            \/ \E d \in AllGc : d.new = r.addr
  <2>. SUFFICES ASSUME r.addr \in DOMAIN am.map, NEW e \in am.map[r.addr].entries
                PROVE  /\ e.time # r.time
                       /\ \/ \E g \in NewFile : \E j \in 1..Len(newRec[g]) :
                               ~(g = f /\ j = i) /\ newRec[g][j].addr = r.addr
                          \/ \E d \in AllGc : d.new = r.addr
    OBVIOUS
  <2>1. EntryOf(r.addr, e)
    BY <1>3 DEF MapIInv, MapRight
  <2>2. CASE \E g \in NewFile : \E j \in 1..Len(newRec[g]) :
               WasRead(g, j) /\ newRec[g][j].addr = r.addr /\ e = Entry(g, j)
    <3>1. PICK g \in NewFile : \E j \in 1..Len(newRec[g]) :
                 WasRead(g, j) /\ newRec[g][j].addr = r.addr /\ e = Entry(g, j)
      BY <2>2
    <3>2. PICK j \in 1..Len(newRec[g]) : WasRead(g, j) /\ newRec[g][j].addr = r.addr /\ e = Entry(g, j)
      BY <3>1
    <3>3. ~(g = f /\ j = i)
      BY <1>9, <3>2
    <3>4. newRec[g][j].time # r.time
      BY <1>0, <1>3, <3>3 DEF MapIInv, Written, Distinct
    <3>5. e.time = newRec[g][j].time
      BY <3>2 DEF Entry
    <3>. QED
      BY <3>2, <3>3, <3>4, <3>5
  <2>3. CASE \E d \in AllGc : d.new = r.addr /\ e.time = d.time /\ e.id \in Nat
    <3>1. PICK d \in AllGc : d.new = r.addr /\ e.time = d.time
      BY <2>3
    <3>2. d.time > Epoch /\ d.time \in Nat /\ r.time < Epoch /\ r.time \in Nat /\ Epoch \in Nat
      BY <1>5, FilesAre, BoundsAssumption DEF MapIInv, MapShapes, Written, Times, MoveType, RecordType
    <3>. QED
      BY <3>1, <3>2
  <2>. QED
    BY <1>5, <2>1, <2>2, <2>3 DEF EntryOf
<1>. HIDE DEF w
<1>14. Inserted(am, w, r.addr, r.time, am.cur_id)
  BY <1>7, InsertEffect DEF w
<1>15. /\ am'.map = w.map /\ am'.cur_id = am.cur_id + 1
       /\ am' = [map |-> am'.map, cur_id |-> am'.cur_id]
  BY <1>8, <1>14 DEF Inserted
<1>16. r.addr \in DOMAIN am.map =>
         w.map[r.addr].entries = am.map[r.addr].entries \cup {Entry(f, i)}
  BY <1>12, <1>13, <1>14 DEF Inserted
<1>17. r.addr \notin DOMAIN am.map => w.map[r.addr].entries = {Entry(f, i)}
  BY <1>12, <1>14 DEF Inserted
<1>18. MapRight'
  <2>1. am'.cur_id = 1 + Cardinality(ObjsTo(newRec', at'[1], at'[2] - 1))
    BY <1>3, <1>4, <1>6, <1>15
  <2>2. ASSUME NEW g \in NewFile, NEW j \in 1..Len(newRec[g]), WasRead(g, j)'
        PROVE  /\ newRec[g][j].addr \in DOMAIN w.map
               /\ Entry(g, j) \in w.map[newRec[g][j].addr].entries
    <3>1. CASE g = f /\ j = i
      <4>1. newRec[g][j] = r
        BY <1>0, <3>1
      <4>. QED
        BY <1>14, <1>16, <1>17, <3>1, <4>1 DEF Inserted
    <3>2. CASE WasRead(g, j)
      <4>1. /\ newRec[g][j].addr \in DOMAIN am.map
            /\ Entry(g, j) \in am.map[newRec[g][j].addr].entries
        BY <1>3, <3>2 DEF MapIInv, MapRight
      <4>2. CASE newRec[g][j].addr = r.addr
        BY <1>14, <1>16, <4>1, <4>2 DEF Inserted
      <4>3. CASE newRec[g][j].addr # r.addr
        BY <1>14, <4>1, <4>3 DEF Inserted
      <4>. QED
        BY <4>2, <4>3
    <3>. QED
      BY <1>10, <2>2, <3>1, <3>2
  <2>3. ASSUME NEW a, NEW d, EntryOf(a, d) PROVE EntryOf(a, d)'
    BY <1>1, <1>3, <1>10, <1>11, <2>3 DEF EntryOf
  <2>4. ASSUME NEW d, d = Entry(f, i) PROVE EntryOf(r.addr, d)'
    <3>1. WasRead(f, i)' /\ newRec'[f][i].addr = r.addr /\ Entry(f, i)' = Entry(f, i)
      BY <1>0, <1>3, <1>10, <1>11
    <3>. QED
      BY <1>3, <2>4, <3>1 DEF EntryOf
  <2>5. ASSUME NEW a \in DOMAIN w.map, NEW d \in w.map[a].entries
        PROVE  EntryOf(a, d)'
    <3>1. CASE a # r.addr
      <4>1. a \in DOMAIN am.map /\ d \in am.map[a].entries
        BY <1>14, <2>5, <3>1 DEF Inserted
      <4>2. EntryOf(a, d)
        BY <1>3, <4>1 DEF MapIInv, MapRight
      <4>. QED
        BY <2>3, <4>2
    <3>2. CASE a = r.addr
      <4>1. d = Entry(f, i) \/ (r.addr \in DOMAIN am.map /\ d \in am.map[r.addr].entries)
        BY <1>16, <1>17, <3>2
      <4>2. CASE d = Entry(f, i)
        BY <2>4, <3>2, <4>2
      <4>3. CASE r.addr \in DOMAIN am.map /\ d \in am.map[r.addr].entries
        <5>1. EntryOf(a, d)
          BY <1>3, <3>2, <4>3 DEF MapIInv, MapRight
        <5>. QED
          BY <2>3, <5>1
      <4>. QED
        BY <4>1, <4>2, <4>3
    <3>. QED
      BY <3>1, <3>2
  <2>6. ASSUME NEW a, Shared(a) PROVE Shared(a)'
    BY <1>1, <1>3, <2>6 DEF Shared
  <2>7. ASSUME NEW a \in DOMAIN w.map
        PROVE  /\ w.map[a].unique => \A c, d \in w.map[a].entries : c = d
               /\ ~w.map[a].unique => Shared(a)'
    <3>1. CASE a # r.addr
      <4>1. a \in DOMAIN am.map /\ w.map[a] = am.map[a]
        BY <1>14, <2>7, <3>1 DEF Inserted
      <4>. QED
        BY <1>3, <2>6, <4>1 DEF MapIInv, MapRight
    <3>2. CASE a = r.addr /\ r.addr \notin DOMAIN am.map
      BY <1>14, <1>17, <3>2 DEF Inserted
    <3>3. CASE a = r.addr /\ r.addr \in DOMAIN am.map
      <4>1. PICK e \in am.map[r.addr].entries : TRUE
        BY <1>7, <3>3
      <4>2. Shared(a)
        <5>1. CASE \E g \in NewFile : \E j \in 1..Len(newRec[g]) :
                     ~(g = f /\ j = i) /\ newRec[g][j].addr = r.addr
          <6>1. newRec[f][i].addr = a
            BY <1>0, <3>3
          <6>. QED
            BY <1>3, <3>3, <5>1, <6>1 DEF Shared
        <5>2. CASE \E d \in AllGc : d.new = r.addr
          BY <3>3, <5>2 DEF Shared
        <5>. QED
          BY <1>13, <3>3, <4>1, <5>1, <5>2
      <4>. QED
        BY <1>14, <2>6, <3>3, <4>2 DEF Inserted
    <3>. QED
      BY <3>1, <3>2, <3>3
  <2>8. \A g \in NewFile : \A j \in 1..Len(newRec'[g]) :
          WasRead(g, j)' => /\ newRec'[g][j].addr \in DOMAIN am'.map
                            /\ Entry(g, j)' \in am'.map[newRec'[g][j].addr].entries
    BY <1>3, <1>11, <1>15, <2>2
  <2>9. \A a \in DOMAIN am'.map :
          /\ \A d \in am'.map[a].entries : EntryOf(a, d)'
          /\ am'.map[a].unique => \A c, d \in am'.map[a].entries : c = d
          /\ ~am'.map[a].unique => Shared(a)'
    BY <1>15, <2>5, <2>7
  <2>. QED
    BY <2>1, <2>8, <2>9 DEF MapRight
<1>19. /\ DOMAIN newId' = DOMAIN newId \cup {r.obj}
       /\ newId'[r.obj] = am.cur_id
       /\ \A o \in DOMAIN newId : o # r.obj => newId'[o] = newId[o]
  BY <1>8 DEF Put
<1>20. ToolShapes'
  <2>1. \A a \in DOMAIN am'.map : am'.map[a].entries # {}
    BY <1>7, <1>14, <1>15, <1>16, <1>17 DEF Inserted
  <2>. QED
    BY <1>3, <1>4, <1>5, <1>7, <1>15, <1>19, <2>1 DEF MapIInv, MapShapes, ToolShapes
<1>21. IdsPrinted'
  <2>1. ASSUME NEW g \in NewFile, NEW j \in 1..Len(newRec[g]), WasRead(g, j)'
        PROVE  newRec[g][j].obj \in DOMAIN newId'
    <3>1. CASE g = f /\ j = i
      BY <1>0, <1>19, <3>1
    <3>2. CASE WasRead(g, j)
      BY <1>3, <1>19, <3>2 DEF MapIInv, IdsPrinted
    <3>. QED
      BY <1>10, <2>1, <3>1, <3>2
  <2>2. ASSUME NEW o \in DOMAIN newId'
        PROVE  \E g \in NewFile : \E j \in 1..Len(newRec[g]) :
                 newRec[g][j].obj = o /\ WasRead(g, j)' /\ newId'[o] = Id(newRec, g, j)
    <3>1. CASE o = r.obj
      <4>1. newRec[f][i].obj = o /\ WasRead(f, i)' /\ newId'[o] = Id(newRec, f, i)
        BY <1>3, <1>6, <1>10, <1>19, <3>1, <1>0
      <4>. QED
        BY <1>3, <4>1
    <3>2. CASE o # r.obj
      <4>1. o \in DOMAIN newId /\ newId'[o] = newId[o]
        BY <1>19, <2>2, <3>2
      <4>2. \E g \in NewFile : \E j \in 1..Len(newRec[g]) :
              newRec[g][j].obj = o /\ WasRead(g, j) /\ newId[o] = Id(newRec, g, j)
        BY <1>3, <4>1 DEF MapIInv, IdsPrinted
      <4>. QED
        BY <1>10, <4>1, <4>2
    <3>. QED
      BY <3>1, <3>2
  <2>. QED
    BY <1>3, <2>1, <2>2 DEF IdsPrinted
<1>. QED
  BY <1>1, <1>2, <1>18, <1>20, <1>21 DEF MapIInv, MapShapes

(* A move copies the id of the address it leaves to the one it reaches. *)
LEMMA InsertGcKeeps ==
  ASSUME MapIInv, insert_gc_records
  PROVE  MapIInv'
<1>1. /\ FileShapes' /\ Written' /\ Tracing' /\ NewForms' /\ EventForms'
      /\ AllNew' = AllNew /\ AllGc' = AllGc
  BY SameFiles DEF insert_gc_records, traceVars, heapVars
<1>2. HeapShapes'
  BY DEF insert_gc_records, traceVars, heapVars, MapIInv, MapShapes, HeapShapes, Address
<1>3. /\ phase = "gc" /\ phase' = "gc" /\ newRec' = newRec /\ runs' = runs /\ kills' = kills
      /\ newId' = newId /\ Building /\ Building'
  BY DEF insert_gc_records, traceVars, Building
<1>4. at' \in (Nat \ {0}) \X (Nat \ {0})
  BY DEF insert_gc_records, MapIInv, MapShapes, ToolShapes
<1>5. PICK r \in AllGc : am' = insert_move(am, r)
  BY DEF insert_gc_records, AllGc, ToSet
<1>6. r \in MoveType
  BY FilesAre DEF MapIInv, MapShapes
<1>7. /\ am = [map |-> am.map, cur_id |-> am.cur_id] /\ am.cur_id \in Nat
      /\ \A a \in DOMAIN am.map : am.map[a].entries # {}
  BY DEF MapIInv, MapShapes, ToolShapes
<1>8. PICK id \in Nat :
        \/ am' = insert_with_id(am, r.new, r.time, id)
        \/ am' = [insert_with_id(am, r.new, r.time, id) EXCEPT !.cur_id = @ + 1]
  <2>1. query(am, r.org, r.time) \in Nat \cup {NoId}
    BY <1>3, <1>6, QueryNumber DEF MoveType
  <2>2. am.cur_id + GC_MASK \in Nat
    BY <1>7, BoundsAssumption
  <2>. QED
    BY <1>5, <2>1, <2>2 DEF insert_move
<1>. DEFINE w == insert_with_id(am, r.new, r.time, id)
            new == [time |-> r.time, id |-> id]
<1>9. Inserted(am, w, r.new, r.time, id)
  BY <1>7, InsertEffect
<1>10. am' = w \/ am' = [w EXCEPT !.cur_id = @ + 1]
  BY <1>8
<1>. HIDE DEF w
<1>11. /\ am'.map = w.map /\ am'.cur_id \in Nat
       /\ am' = [map |-> am'.map, cur_id |-> am'.cur_id]
  BY <1>7, <1>9, <1>10 DEF Inserted
<1>12. \A f, i : WasRead(f, i)' <=> WasRead(f, i)
  BY <1>3 DEF WasRead
<1>13. \A f, i : Entry(f, i)' = Entry(f, i)
  BY <1>3 DEF Entry
<1>14. \A a, d : EntryOf(a, d) => EntryOf(a, d)'
  BY <1>1, <1>3, <1>12, <1>13 DEF EntryOf
<1>15. \A a : Shared(a) => Shared(a)'
  BY <1>1, <1>3 DEF Shared
<1>16. EntryOf(r.new, new)' /\ Shared(r.new)'
  <2>1. r \in AllGc' /\ new.time = r.time /\ new.id \in Nat
    BY <1>1
  <2>. HIDE DEF new
  <2>. QED
    BY <2>1 DEF EntryOf, Shared
<1>. HIDE DEF new
<1>17. \A a \in DOMAIN w.map : /\ a \in DOMAIN am.map \/ a = r.new
                               /\ \A d \in w.map[a].entries :
                                    \/ a = r.new /\ d = new
                                    \/ a \in DOMAIN am.map /\ d \in am.map[a].entries
  BY <1>9 DEF Inserted, new
<1>18. MapRight'
  <2>1. \A f \in NewFile : \A i \in 1..Len(newRec'[f]) :
          WasRead(f, i)' => /\ newRec'[f][i].addr \in DOMAIN am'.map
                            /\ Entry(f, i)' \in am'.map[newRec'[f][i].addr].entries
    <3>. SUFFICES ASSUME NEW f \in NewFile, NEW i \in 1..Len(newRec[f]), WasRead(f, i)
                  PROVE  /\ newRec[f][i].addr \in DOMAIN w.map
                         /\ Entry(f, i) \in w.map[newRec[f][i].addr].entries
      BY <1>3, <1>11, <1>12, <1>13
    <3>1. /\ newRec[f][i].addr \in DOMAIN am.map
          /\ Entry(f, i) \in am.map[newRec[f][i].addr].entries
      BY <1>3 DEF MapIInv, MapRight
    <3>. QED
      BY <1>9, <3>1 DEF Inserted
  <2>2. ASSUME NEW a \in DOMAIN w.map
        PROVE  /\ \A d \in w.map[a].entries : EntryOf(a, d)'
               /\ w.map[a].unique => \A c, d \in w.map[a].entries : c = d
               /\ ~w.map[a].unique => Shared(a)'
    <3>1. ASSUME NEW d \in w.map[a].entries PROVE EntryOf(a, d)'
      <4>1. CASE a = r.new /\ d = new
        BY <1>16, <4>1
      <4>2. CASE a \in DOMAIN am.map /\ d \in am.map[a].entries
        <5>1. EntryOf(a, d)
          BY <1>3, <4>2 DEF MapIInv, MapRight
        <5>. QED
          BY <1>14, <5>1
      <4>. QED
        BY <1>17, <4>1, <4>2
    <3>2. CASE a = r.new
      BY <1>9, <1>16, <3>1, <3>2 DEF Inserted
    <3>3. CASE a # r.new
      <4>1. a \in DOMAIN am.map /\ w.map[a] = am.map[a]
        BY <1>9, <1>17, <3>3 DEF Inserted
      <4>. QED
        BY <1>3, <1>15, <3>1, <4>1 DEF MapIInv, MapRight
    <3>. QED
      BY <3>2, <3>3
  <2>. QED
    BY <1>3, <1>11, <2>1, <2>2 DEF MapRight
<1>19. ToolShapes'
  <2>1. \A a \in DOMAIN am'.map : am'.map[a].entries # {}
    <3>. SUFFICES ASSUME NEW a \in DOMAIN w.map PROVE w.map[a].entries # {}
      BY <1>11
    <3>1. CASE a \in DOMAIN am.map
      BY <1>7, <1>9, <3>1 DEF Inserted
    <3>2. CASE a \notin DOMAIN am.map
      BY <1>9, <1>17, <3>2 DEF Inserted
    <3>. QED
      BY <3>1, <3>2
  <2>. QED
    BY <1>3, <1>4, <1>11, <2>1 DEF MapIInv, MapShapes, ToolShapes
<1>20. IdsPrinted'
  BY <1>3, <1>12 DEF MapIInv, IdsPrinted
<1>. QED
  BY <1>1, <1>2, <1>18, <1>19, <1>20 DEF MapIInv, MapShapes

(* A step that only moves the cursor. *)
LEMMA CursorKeeps ==
  ASSUME MapIInv, UNCHANGED <<traceVars, events, am, newId, runs, kills>>,
         at' \in (Nat \ {0}) \X (Nat \ {0}), Building,
         phase # "NEW", phase' \in {"build", "gc", "data"},
         \A f \in NewFile : \A i \in 1..Len(newRec[f]) : WasRead(f, i)' <=> WasRead(f, i),
         phase' = "build" => am.cur_id = 1 + Cardinality(ObjsTo(newRec, at'[1], at'[2] - 1))
  PROVE  MapIInv'
<1>1. /\ FileShapes' /\ Written' /\ Tracing' /\ NewForms' /\ EventForms'
      /\ AllNew' = AllNew /\ AllGc' = AllGc
  BY SameFiles DEF traceVars, heapVars
<1>2. HeapShapes' /\ ToolShapes'
  BY DEF traceVars, heapVars, MapIInv, MapShapes, HeapShapes, ToolShapes, Address, Building
<1>3. newRec' = newRec /\ am' = am /\ newId' = newId
  BY DEF traceVars
<1>4. \A f, i : Entry(f, i)' = Entry(f, i)
  BY <1>3 DEF Entry
<1>5. \A a, d : EntryOf(a, d) => EntryOf(a, d)'
  BY <1>1, <1>3, <1>4 DEF EntryOf
<1>6. \A a : Shared(a) => Shared(a)'
  BY <1>1, <1>3 DEF Shared
<1>7. MapRight'
  BY <1>3, <1>4, <1>5, <1>6 DEF MapIInv, MapRight
<1>8. IdsPrinted'
  BY <1>3 DEF MapIInv, IdsPrinted
<1>. QED
  BY <1>1, <1>2, <1>7, <1>8 DEF MapIInv, MapShapes

(* The end of a NEW file. *)
LEMMA ProcessNewFileKeeps ==
  ASSUME MapIInv, process_new_file
  PROVE  MapIInv'
<1>1. /\ phase = "build" /\ phase' = "build" /\ at[1] \in NewFile /\ at' = <<at[1] + 1, 1>>
      /\ at \in (Nat \ {0}) \X (Nat \ {0}) /\ Building
  BY DEF process_new_file, MapIInv, MapShapes, ToolShapes, Building
<1>2. /\ at[1] \in Nat \ {0} /\ at[2] \in Nat \ {0} /\ at'[1] = at[1] + 1 /\ at'[2] = 1
      /\ at' \in (Nat \ {0}) \X (Nat \ {0}) /\ NewFile \subseteq Nat
  BY <1>1 DEF NewFile
<1>3. /\ at[2] > Len(newRec[at[1]])
      /\ \A f \in NewFile : Len(newRec[f]) \in Nat
  <2>1. \A f \in NewFile : Len(newRec[f]) \in Nat /\ DOMAIN newRec[f] = 1..Len(newRec[f])
    BY FilesAre DEF MapIInv, MapShapes
  <2>. QED
    BY <1>1, <1>2, <2>1 DEF process_new_file
<1>4. \A f \in NewFile : \A i \in 1..Len(newRec[f]) : WasRead(f, i)' <=> WasRead(f, i)
  BY <1>1, <1>2, <1>3 DEF WasRead
<1>5. ObjsTo(newRec, at[1] + 1, 0) = ObjsTo(newRec, at[1], at[2] - 1)
  <2>1. \A f \in NewFile : \A i \in 1..Len(newRec[f]) :
          (f < at[1] + 1 \/ (f = at[1] + 1 /\ i <= 0)) <=>
          (f < at[1] \/ (f = at[1] /\ i <= at[2] - 1))
    BY <1>2, <1>3
  <2>. QED
    BY <2>1 DEF ObjsTo
<1>6. am.cur_id = 1 + Cardinality(ObjsTo(newRec, at[1], at[2] - 1))
  BY <1>1 DEF MapIInv, MapRight
<1>7. am.cur_id = 1 + Cardinality(ObjsTo(newRec, at'[1], at'[2] - 1))
  BY <1>2, <1>5, <1>6
<1>. QED
  BY <1>1, <1>2, <1>4, <1>7, CursorKeeps DEF process_new_file

(* The end of a gc file. *)
LEMMA ProcessGcFileKeeps ==
  ASSUME MapIInv, process_gc_file
  PROVE  MapIInv'
<1>1. /\ phase = "gc" /\ phase' = "gc" /\ at' = <<at[1] + 1, 1>>
      /\ at \in (Nat \ {0}) \X (Nat \ {0}) /\ Building
  BY DEF process_gc_file, MapIInv, MapShapes, ToolShapes, Building
<1>2. at' \in (Nat \ {0}) \X (Nat \ {0})
  BY <1>1
<1>3. \A f \in NewFile : \A i \in 1..Len(newRec[f]) : WasRead(f, i)' <=> WasRead(f, i)
  BY <1>1 DEF WasRead
<1>. QED
  BY <1>1, <1>2, <1>3, CursorKeeps DEF process_gc_file

(* The end of the NEW files, and of the gc files. *)
LEMMA BuildAddrMapKeeps ==
  ASSUME MapIInv, build_addr_map
  PROVE  MapIInv'
<1>1. /\ phase \in {"build", "gc"} /\ phase' \in {"gc", "data"} /\ at' = <<1, 1>>
      /\ at \in (Nat \ {0}) \X (Nat \ {0}) /\ Building
  BY DEF build_addr_map, MapIInv, MapShapes, ToolShapes, Building
<1>2. at' \in (Nat \ {0}) \X (Nat \ {0})
  BY <1>1
<1>3. \A f \in NewFile : \A i \in 1..Len(newRec[f]) : WasRead(f, i)' <=> WasRead(f, i)
  <2>1. \A f \in NewFile : at[1] \notin NewFile => f < at[1]
    BY <1>1, BoundsAssumption DEF NewFile
  <2>. QED
    BY <1>1, <2>1 DEF WasRead, build_addr_map
<1>. QED
  BY <1>1, <1>2, <1>3, CursorKeeps DEF build_addr_map

(* A run killed while it builds the map has written nothing. *)
LEMMA KilledReadingKeeps ==
  ASSUME MapIInv, KilledReading
  PROVE  MapIInv'
<1>1. phase' = "killed" /\ kills' # 0 /\ am' = Empty /\ at' = <<1, 1>>
  BY DEF KilledReading, MapIInv, MapShapes, ToolShapes
<1>2. FileShapes' /\ Written' /\ Tracing' /\ NewForms' /\ EventForms'
  BY <1>1, SameFiles DEF KilledReading, traceVars, heapVars
<1>3. HeapShapes'
  BY DEF KilledReading, traceVars, heapVars, MapIInv, MapShapes, HeapShapes, Address
<1>4. ToolShapes'
  <2>1. \A a \in DOMAIN am'.map : am'.map[a].entries # {}
    BY <1>1, EmptyRight
  <2>2. runs' \in 0..MaxRuns /\ kills' \in 0..runs' /\ newId' = newId
    BY DEF KilledReading, MapIInv, MapShapes, ToolShapes
  <2>3. am' = [map |-> am'.map, cur_id |-> am'.cur_id] /\ am'.cur_id \in Nat
    BY <1>1, EmptyRight
  <2>. QED
    BY <1>1, <2>1, <2>2, <2>3 DEF MapIInv, MapShapes, ToolShapes
<1>5. MapRight' /\ IdsPrinted'
  BY <1>1 DEF MapRight, IdsPrinted, Building
<1>. QED
  BY <1>2, <1>3, <1>4, <1>5 DEF MapIInv, MapShapes

-----------------------------------------------------------------------------
(* AddrMap: rewriting the files *)

(* Two versions of a record, which differ in the address at most. *)
Like(c, d) == c.obj = d.obj /\ c.raw = d.raw /\ c.time = d.time /\ c.still = d.still

(* A record with its address replaced. *)
LEMMA ResolvedRecord ==
  ASSUME MapIInv, Building, NEW r \in RecordType
  PROVE  /\ Resolved(r) \in RecordType /\ Like(Resolved(r), r)
         /\ Resolved(r).addr = query(am, r.addr, r.time) /\ Resolved(r).addr >= NoId
<1>1. query(am, r.addr, r.time) \in Nat \cup {NoId}
  BY QueryNumber DEF RecordType
<1>2. query(am, r.addr, r.time) \in Int /\ query(am, r.addr, r.time) >= NoId
  BY <1>1 DEF NoId
<1>. QED
  BY <1>2 DEF Resolved, Like, RecordType

(* What becomes of a record that the files can name. *)
LEMMA EventResolved ==
  ASSUME MapIInv, phase = "data", NEW e \in events,
         NEW f \in NewFile, NEW i \in 1..Len(newRec[f]), Names(newRec[f][i], e)
  PROVE  /\ kills = 0 => query(am, e.addr, e.time) = Id(newRec, f, i)
         /\ ~tagged => query(am, e.addr, e.time) \in {NoId, Id(newRec, f, i)}
<1>1. Building /\ e.time \in Nat
  BY FilesAre DEF Building, MapIInv, MapShapes, RecordType
<1>2. Unwritten(e) => query(am, e.addr, e.time) = Id(newRec, f, i)
  BY RawResolved DEF Unwritten
<1>3. e.addr = NoId => query(am, e.addr, e.time) = NoId
  BY <1>1, QueryNumber
<1>4. e.addr = Id(newRec, f, i) /\ AllIds => query(am, e.addr, e.time) = Id(newRec, f, i)
  BY <1>1, IdResolved
<1>5. e.addr = Id(newRec, f, i) /\ ~tagged => query(am, e.addr, e.time) \in {NoId, Id(newRec, f, i)}
  BY <1>1, IdResolved
<1>6. /\ kills = 0 => Unwritten(e) \/ (e.addr = Id(newRec, f, i) /\ AllIds)
      /\ ~tagged => Unwritten(e) \/ e.addr \in {NoId, Id(newRec, f, i)}
  BY DEF MapIInv, EventForms
<1>. QED
  BY <1>2, <1>3, <1>4, <1>5, <1>6

(* A step that rewrites records other than NEW. *)
LEMMA EventsRewritten ==
  ASSUME MapIInv, phase = "data", UNCHANGED traceVars,
         \A e \in events' : \E d \in events : e = d \/ e = Resolved(d)
  PROVE  /\ HeapShapes' /\ FileShapes' /\ Written'
         /\ AllNew' = AllNew /\ AllGc' = AllGc
         /\ \A n, e, d : Like(e, d) => (Names(n, e)' <=> Names(n, d))
<1>0. newRec' = newRec /\ gcRec' = gcRec /\ clock' = clock /\ tagged' = tagged
  BY DEF traceVars, heapVars
<1>1. AllNew' = AllNew /\ AllGc' = AllGc /\ Address' = Address
  BY <1>0 DEF AllNew, AllGc, Address
<1>2. HeapShapes'
  BY <1>1 DEF traceVars, heapVars, MapIInv, MapShapes, HeapShapes
<1>3. ASSUME NEW e \in events'
      PROVE  \E d \in events : e \in RecordType /\ Like(e, d) /\ e.addr >= NoId
  <2>1. PICK d \in events : e = d \/ e = Resolved(d)
    OBVIOUS
  <2>2. d \in RecordType /\ d.addr >= NoId
    BY DEF MapIInv, MapShapes, FileShapes
  <2>3. Resolved(d) \in RecordType /\ Like(Resolved(d), d) /\ Resolved(d).addr >= NoId
    BY <2>2, ResolvedRecord DEF Building
  <2>. QED
    BY <2>1, <2>2, <2>3 DEF Like
<1>4. FileShapes'
  BY <1>0, <1>1, <1>3 DEF MapIInv, MapShapes, FileShapes, Like
<1>5. Written'
  <2>1. Times'
    BY <1>0, <1>1, <1>3 DEF MapIInv, Written, Times, Like
  <2>2. Distinct' /\ TagsStay'
    BY <1>0, <1>1 DEF MapIInv, Written, Distinct, TagsStay
  <2>3. Stayed'
    <3>. SUFFICES ASSUME NEW n \in AllNew, NEW e \in events', n.obj = e.obj, n.still, e.still
                  PROVE  n.raw = e.raw
      BY <1>1 DEF Stayed
    <3>1. PICK d \in events : Like(e, d)
      BY <1>3
    <3>. QED
      BY <3>1 DEF MapIInv, Written, Stayed, Like
  <2>4. Owned'
    <3>. SUFFICES ASSUME NEW n \in AllNew, NEW m \in AllNew, NEW e \in events',
                         n.still, e.still, e.obj = n.obj,
                         m.obj # n.obj, m.raw = n.raw, m.time > n.time
                  PROVE  e.time < m.time
      BY <1>1 DEF Owned
    <3>1. PICK d \in events : Like(e, d)
      BY <1>3
    <3>2. d.still /\ d.obj = n.obj /\ d.time = e.time
      BY <3>1 DEF Like
    <3>. QED
      BY <3>2 DEF MapIInv, Written, Owned
  <2>. QED
    BY <2>1, <2>2, <2>3, <2>4 DEF Written
<1>6. \A n, e, d : Like(e, d) => (Names(n, e)' <=> Names(n, d))
  BY <1>1 DEF Names, OneOwner, Like
<1>. QED
  BY <1>1, <1>2, <1>4, <1>5, <1>6

(* The records of the other streams are rewritten. *)
LEMMA DataFilesKeep ==
  ASSUME MapIInv, process_all_data_file
  PROVE  MapIInv'
<1>1. /\ phase = "data" /\ phase' = "NEW" /\ newRec' = newRec /\ UNCHANGED traceVars
      /\ UNCHANGED <<at, am, newId, runs, kills, tagged>> /\ Building /\ Building'
  BY DEF process_all_data_file, Building, traceVars, heapVars
<1>2. \A e \in events' : \E d \in events : e = Resolved(d)
  BY DEF process_all_data_file
<1>3. /\ HeapShapes' /\ FileShapes' /\ Written'
      /\ AllNew' = AllNew /\ AllGc' = AllGc
      /\ \A n, e, d : Like(e, d) => (Names(n, e)' <=> Names(n, d))
  BY <1>1, <1>2, EventsRewritten
<1>4. ToolShapes' /\ Tracing' /\ NewForms'
  BY <1>1 DEF MapIInv, MapShapes, ToolShapes, Tracing, NewForms
<1>5. EventForms'
  <2>. SUFFICES ASSUME NEW e \in events', NEW f \in NewFile, NEW i \in 1..Len(newRec[f]),
                       Names(newRec[f][i], e)'
                PROVE  /\ kills = 0 => e.addr = Id(newRec, f, i)
                       /\ ~tagged => e.addr \in {NoId, Id(newRec, f, i)}
    BY <1>1 DEF EventForms
  <2>1. PICK d \in events : e = Resolved(d)
    BY <1>2
  <2>2. d \in RecordType
    BY FilesAre DEF MapIInv, MapShapes
  <2>3. Like(e, d) /\ e.addr = query(am, d.addr, d.time)
    BY <1>1, <2>1, <2>2, ResolvedRecord
  <2>4. Names(newRec[f][i], d)
    <3>1. \A n : n = newRec[f][i] => Names(n, e)'
      BY <1>1
    <3>. QED
      BY <1>1, <1>3, <2>3, <3>1
  <2>. QED
    BY <1>1, <2>3, <2>4, EventResolved
<1>6. \A f, i : (WasRead(f, i)' <=> WasRead(f, i)) /\ Entry(f, i)' = Entry(f, i)
  BY <1>1 DEF WasRead, Entry
<1>7. (\A a, d : EntryOf(a, d) => EntryOf(a, d)') /\ (\A a : Shared(a) => Shared(a)')
  BY <1>1, <1>3, <1>6 DEF EntryOf, Shared
<1>8. MapRight' /\ IdsPrinted'
  BY <1>1, <1>6, <1>7 DEF MapIInv, MapRight, IdsPrinted
<1>. QED
  BY <1>3, <1>4, <1>5, <1>8 DEF MapIInv, MapShapes

(* The shape of the tool's state when a run was killed or is done. *)
LEMMA RunEnds ==
  ASSUME MapIInv, Building, phase' \in {"done", "killed"}, am' = Empty,
         UNCHANGED <<at, newId, runs>>,
         kills' = kills \/ kills' = kills + 1
  PROVE  ToolShapes' /\ Tracing' /\ MapRight'
<1>1. \A a \in DOMAIN am'.map : am'.map[a].entries # {}
  BY EmptyRight
<1>2. am' = [map |-> am'.map, cur_id |-> am'.cur_id] /\ am'.cur_id \in Nat
  BY EmptyRight
<1>3. runs' \in 0..MaxRuns /\ kills' \in 0..runs'
  BY DEF Building, MapIInv, MapShapes, ToolShapes
<1>. QED
  BY <1>1, <1>2, <1>3 DEF MapIInv, MapShapes, ToolShapes, Tracing, MapRight, Building

(* A run killed among them has rewritten some of them. *)
LEMMA KilledInDataKeeps ==
  ASSUME MapIInv, NEW rs \in SUBSET events, KilledInData(rs)
  PROVE  MapIInv'
<1>1. /\ phase = "data" /\ phase' = "killed" /\ kills' = kills + 1 /\ am' = Empty
      /\ newRec' = newRec /\ tagged' = tagged
      /\ UNCHANGED traceVars /\ UNCHANGED <<at, newId, runs>> /\ Building
  BY DEF KilledInData, Building, traceVars, heapVars
<1>2. \A e \in events' : \E d \in events : e = d \/ e = Resolved(d)
  BY DEF KilledInData
<1>3. /\ HeapShapes' /\ FileShapes' /\ Written'
      /\ AllNew' = AllNew /\ AllGc' = AllGc
      /\ \A n, e, d : Like(e, d) => (Names(n, e)' <=> Names(n, d))
  BY <1>1, <1>2, EventsRewritten
<1>4. ToolShapes' /\ Tracing' /\ MapRight'
  BY <1>1, RunEnds
<1>5. NewForms' /\ IdsPrinted' /\ kills' # 0
  BY <1>1 DEF MapIInv, MapShapes, ToolShapes, NewForms, IdsPrinted, Building
<1>6. EventForms'
  <2>. SUFFICES ASSUME NEW e \in events', NEW f \in NewFile, NEW i \in 1..Len(newRec[f]),
                       Names(newRec[f][i], e)', ~tagged
                PROVE  Unwritten(e)' \/ e.addr \in {NoId, Id(newRec, f, i)}
    BY <1>1, <1>5 DEF EventForms
  <2>1. PICK d \in events : e = d \/ e = Resolved(d)
    BY <1>2
  <2>2. d \in RecordType
    BY FilesAre DEF MapIInv, MapShapes
  <2>3. Like(Resolved(d), d) /\ Resolved(d).addr = query(am, d.addr, d.time) /\ Like(d, d)
    BY <1>1, <2>2, ResolvedRecord DEF Like
  <2>4. Names(newRec[f][i], d)
    <3>1. \A n : n = newRec[f][i] => Names(n, e)'
      BY <1>1
    <3>. QED
      BY <1>1, <1>3, <2>1, <2>3, <3>1
  <2>5. CASE e = Resolved(d)
    BY <1>1, <2>3, <2>4, <2>5, EventResolved
  <2>6. CASE e = d
    <3>1. Unwritten(d) \/ d.addr \in {NoId, Id(newRec, f, i)}
      BY <2>4 DEF MapIInv, EventForms
    <3>2. Unwritten(d) => Unwritten(d)'
      BY <1>1, <1>3 DEF Unwritten, AllRaw
    <3>. QED
      BY <2>6, <3>1, <3>2
  <2>. QED
    BY <2>1, <2>5, <2>6
<1>. QED
  BY <1>3, <1>4, <1>5, <1>6 DEF MapIInv, MapShapes

(* A step that rewrites some of the NEW records. *)
LEMMA NewRewritten ==
  ASSUME MapIInv, phase = "NEW", UNCHANGED <<heapVars, gcRec, events>>,
         newRec' = [g \in NewFile |-> newRec'[g]],
         \A g \in NewFile : newRec'[g] = [j \in 1..Len(newRec[g]) |-> newRec'[g][j]],
         \A g \in NewFile : \A j \in 1..Len(newRec[g]) :
           newRec'[g][j] \in {newRec[g][j], Resolved(newRec[g][j])}
  PROVE  /\ HeapShapes' /\ FileShapes' /\ Written'
         /\ \A g \in NewFile :
              /\ Len(newRec'[g]) = Len(newRec[g])
              /\ \A j \in 1..Len(newRec[g]) : /\ Like(newRec'[g][j], newRec[g][j])
                                              /\ Resolved(newRec[g][j]).addr = Id(newRec, g, j)
                                              /\ newRec'[g][j].addr \in {newRec[g][j].raw, Id(newRec, g, j)}
         /\ \A g, j : Id(newRec', g, j) = Id(newRec, g, j)
         /\ \A g \in NewFile : \A j \in 1..Len(newRec[g]) : \A e :
              Names(newRec[g][j], e)' => Names(newRec[g][j], e)
<1>0. gcRec' = gcRec /\ clock' = clock /\ tagged' = tagged /\ events' = events
  BY DEF heapVars
<1>1. AllGc' = AllGc /\ Address' = Address
  BY <1>0 DEF AllGc, Address
<1>2. \A g \in NewFile : /\ Len(newRec[g]) \in Nat
                         /\ \A j \in 1..Len(newRec[g]) : newRec[g][j] \in RecordType /\ newRec[g][j] \in AllNew
  BY FilesAre DEF MapIInv, MapShapes
<1>3. ASSUME NEW g \in NewFile, NEW j \in 1..Len(newRec[g])
      PROVE  /\ newRec'[g][j] \in RecordType /\ Like(newRec'[g][j], newRec[g][j])
             /\ Resolved(newRec[g][j]).addr = Id(newRec, g, j)
             /\ newRec'[g][j].addr \in {newRec[g][j].raw, Id(newRec, g, j)}
             /\ newRec'[g][j].addr >= NoId
  <2>1. newRec[g][j] \in RecordType /\ newRec[g][j].addr >= NoId
    BY <1>2 DEF MapIInv, MapShapes, FileShapes
  <2>2. /\ Resolved(newRec[g][j]) \in RecordType /\ Like(Resolved(newRec[g][j]), newRec[g][j])
        /\ Resolved(newRec[g][j]).addr = query(am, newRec[g][j].addr, newRec[g][j].time)
        /\ Resolved(newRec[g][j]).addr >= NoId
    BY <2>1, ResolvedRecord DEF Building
  <2>3. Resolved(newRec[g][j]).addr = Id(newRec, g, j)
    BY <2>2, NewResolved
  <2>4. newRec[g][j].addr \in {newRec[g][j].raw, Id(newRec, g, j)}
    BY DEF MapIInv, NewForms
  <2>5. Like(newRec[g][j], newRec[g][j])
    BY DEF Like
  <2>6. newRec'[g][j] = newRec[g][j] \/ newRec'[g][j] = Resolved(newRec[g][j])
    OBVIOUS
  <2>. QED
    BY <2>1, <2>2, <2>3, <2>4, <2>5, <2>6
<1>4. \A g \in NewFile : newRec'[g] \in Seq(RecordType) /\ Len(newRec'[g]) = Len(newRec[g])
  <2>. SUFFICES ASSUME NEW g \in NewFile
                PROVE  newRec'[g] \in Seq(RecordType) /\ Len(newRec'[g]) = Len(newRec[g])
    OBVIOUS
  <2>1. newRec'[g] \in [1..Len(newRec[g]) -> RecordType]
    BY <1>3
  <2>. QED
    BY <1>2, <2>1
<1>5. newRec' \in [NewFile -> Seq(RecordType)]
  BY <1>4
<1>6. NewsAre /\ NewsAre'
  <2>1. (newRec \in [NewFile -> Seq(RecordType)])' => NewsAre'
    BY NewAt, PTL
  <2>. QED
    BY <1>5, <2>1, FilesAre DEF MapIInv, MapShapes
<1>7. /\ \A n \in AllNew' : \E m \in AllNew : Like(n, m) /\ n.addr >= NoId
      /\ \A m \in AllNew : \E n \in AllNew' : Like(n, m)
  <2>1. \A n \in AllNew' : \E m \in AllNew : Like(n, m) /\ n.addr >= NoId
    BY <1>2, <1>3, <1>4, <1>6 DEF NewsAre
  <2>2. \A m \in AllNew : \E n \in AllNew' : Like(n, m)
    <3>. SUFFICES ASSUME NEW m \in AllNew PROVE \E n \in AllNew' : Like(n, m)
      OBVIOUS
    <3>1. PICK g \in NewFile : \E j \in 1..Len(newRec[g]) : m = newRec[g][j]
      BY <1>6 DEF NewsAre
    <3>2. PICK j \in 1..Len(newRec[g]) : m = newRec[g][j]
      BY <3>1
    <3>3. newRec'[g][j] \in AllNew'
      BY <1>4, <1>6 DEF NewsAre
    <3>. QED
      BY <1>3, <3>2, <3>3
  <2>. QED
    BY <2>1, <2>2
<1>8. HeapShapes'
  BY <1>1 DEF heapVars, MapIInv, MapShapes, HeapShapes
<1>9. FileShapes'
  BY <1>0, <1>1, <1>5, <1>7 DEF MapIInv, MapShapes, FileShapes, Like
<1>10. Written'
  <2>1. Times'
    BY <1>0, <1>1, <1>7 DEF MapIInv, Written, Times, Like
  <2>2. TagsStay'
    BY <1>0, <1>1 DEF MapIInv, Written, TagsStay
  <2>3. Distinct'
    <3>. SUFFICES ASSUME NEW f \in NewFile, NEW g \in NewFile,
                         NEW i \in 1..Len(newRec[f]), NEW j \in 1..Len(newRec[g]),
                         \/ newRec'[f][i].obj = newRec'[g][j].obj
                         \/ newRec'[f][i].time = newRec'[g][j].time
                  PROVE  f = g /\ i = j
      BY <1>4 DEF Distinct
    <3>1. newRec[f][i].obj = newRec[g][j].obj \/ newRec[f][i].time = newRec[g][j].time
      BY <1>3 DEF Like
    <3>. QED
      BY <3>1 DEF MapIInv, Written, Distinct
  <2>4. Stayed'
    <3>. SUFFICES ASSUME NEW n \in AllNew', NEW e \in events, n.obj = e.obj, n.still, e.still
                  PROVE  n.raw = e.raw
      BY <1>0 DEF Stayed
    <3>1. PICK m \in AllNew : Like(n, m)
      BY <1>7
    <3>. QED
      BY <3>1 DEF MapIInv, Written, Stayed, Like
  <2>5. Owned'
    <3>. SUFFICES ASSUME NEW n \in AllNew', NEW m \in AllNew', NEW e \in events,
                         n.still, e.still, e.obj = n.obj,
                         m.obj # n.obj, m.raw = n.raw, m.time > n.time
                  PROVE  e.time < m.time
      BY <1>0 DEF Owned
    <3>1. PICK c \in AllNew : Like(n, c)
      BY <1>7
    <3>2. PICK d \in AllNew : Like(m, d)
      BY <1>7
    <3>3. /\ c.still /\ e.obj = c.obj /\ d.obj # c.obj /\ d.raw = c.raw /\ d.time > c.time
          /\ d.time = m.time
      BY <3>1, <3>2 DEF Like
    <3>. QED
      BY <3>3 DEF MapIInv, Written, Owned
  <2>. QED
    BY <2>1, <2>2, <2>3, <2>4, <2>5 DEF Written
<1>11. \A g, j : Id(newRec', g, j) = Id(newRec, g, j)
  <2>1. \A h \in NewFile : /\ Len(newRec'[h]) = Len(newRec[h])
                           /\ \A k \in 1..Len(newRec[h]) : newRec'[h][k].obj = newRec[h][k].obj
    BY <1>3, <1>4 DEF Like
  <2>. QED
    BY <2>1, IdsSame
<1>12. ASSUME NEW g \in NewFile, NEW j \in 1..Len(newRec[g]), NEW e, Names(newRec[g][j], e)'
       PROVE  Names(newRec[g][j], e)
  <2>1. /\ e.still /\ newRec'[g][j].obj = e.obj /\ newRec'[g][j].still
        /\ newRec'[g][j].time <= e.time \/ OneOwner(newRec[g][j])'
    BY <1>12 DEF Names
  <2>2. Like(newRec'[g][j], newRec[g][j])
    BY <1>3
  <2>3. OneOwner(newRec[g][j])' => OneOwner(newRec[g][j])
    BY <1>1, <1>7, <2>2 DEF OneOwner, Like
  <2>. QED
    BY <2>1, <2>2, <2>3 DEF Names, Like
<1>. QED
  BY <1>3, <1>4, <1>8, <1>9, <1>10, <1>11, <1>12

(* The NEW files are rewritten with their ids, last. *)
LEMMA NewFilesKeep ==
  ASSUME MapIInv, process_all_new_file
  PROVE  MapIInv'
<1>1. /\ phase = "NEW" /\ phase' = "done" /\ am' = Empty /\ kills' = kills
      /\ events' = events /\ tagged' = tagged /\ newId' = newId
      /\ UNCHANGED <<heapVars, gcRec, events>> /\ UNCHANGED <<at, newId, runs>> /\ Building
  BY DEF process_all_new_file, Building, heapVars
<1>2. \A g \in NewFile : DOMAIN newRec[g] = 1..Len(newRec[g])
  BY FilesAre DEF MapIInv, MapShapes
<1>3. newRec' = [g \in NewFile |-> [j \in 1..Len(newRec[g]) |-> Resolved(newRec[g][j])]]
  BY <1>2 DEF process_all_new_file
<1>4. /\ newRec' = [g \in NewFile |-> newRec'[g]]
      /\ \A g \in NewFile : newRec'[g] = [j \in 1..Len(newRec[g]) |-> newRec'[g][j]]
      /\ \A g \in NewFile : \A j \in 1..Len(newRec[g]) : newRec'[g][j] = Resolved(newRec[g][j])
  BY <1>3
<1>5. /\ HeapShapes' /\ FileShapes' /\ Written'
      /\ \A g \in NewFile :
           /\ Len(newRec'[g]) = Len(newRec[g])
           /\ \A j \in 1..Len(newRec[g]) : /\ Like(newRec'[g][j], newRec[g][j])
                                           /\ Resolved(newRec[g][j]).addr = Id(newRec, g, j)
      /\ \A g, j : Id(newRec', g, j) = Id(newRec, g, j)
      /\ \A g \in NewFile : \A j \in 1..Len(newRec[g]) : \A e :
           Names(newRec[g][j], e)' => Names(newRec[g][j], e)
  BY <1>1, <1>4, NewRewritten
<1>6. ToolShapes' /\ Tracing' /\ MapRight'
  BY <1>1, RunEnds
<1>7. AllIds'
  BY <1>4, <1>5 DEF AllIds
<1>8. NewForms'
  BY <1>7 DEF NewForms, AllIds
<1>9. EventForms'
  <2>. SUFFICES ASSUME NEW e \in events, NEW f \in NewFile, NEW i \in 1..Len(newRec[f]),
                       Names(newRec[f][i], e)'
                PROVE  /\ kills = 0 => e.addr = Id(newRec, f, i)
                       /\ ~tagged => e.addr \in {NoId, Id(newRec, f, i)}
    BY <1>1, <1>5, <1>7 DEF EventForms
  <2>1. Names(newRec[f][i], e)
    BY <1>5
  <2>2. ~Unwritten(e)
    BY <1>1 DEF Unwritten
  <2>. QED
    BY <2>1, <2>2 DEF MapIInv, EventForms
<1>10. IdsPrinted'
  <2>1. \A f, i : WasRead(f, i) /\ WasRead(f, i)'
    BY <1>1 DEF WasRead
  <2>. QED
    BY <1>1, <1>5, <2>1 DEF MapIInv, IdsPrinted, Like
<1>. QED
  BY <1>5, <1>6, <1>8, <1>9, <1>10 DEF MapIInv, MapShapes

(* A run killed among the NEW files has rewritten a prefix of them. *)
LEMMA KilledInNewKeeps ==
  ASSUME MapIInv, NEW f \in NewFile, NEW k \in 0..Len(newRec[f]), KilledInNew(f, k)
  PROVE  MapIInv'
<1>1. /\ phase = "NEW" /\ phase' = "killed" /\ am' = Empty /\ kills' = kills + 1
      /\ events' = events /\ tagged' = tagged
      /\ UNCHANGED <<heapVars, gcRec, events>> /\ UNCHANGED <<at, newId, runs>> /\ Building
  BY DEF KilledInNew, Building, heapVars
<1>2. \A g \in NewFile : DOMAIN newRec[g] = 1..Len(newRec[g])
  BY FilesAre DEF MapIInv, MapShapes
<1>3. newRec' = [g \in NewFile |-> [j \in 1..Len(newRec[g]) |->
        IF g < f \/ (g = f /\ j <= k) THEN Resolved(newRec[g][j]) ELSE newRec[g][j]]]
  BY <1>2 DEF KilledInNew
<1>4. /\ newRec' = [g \in NewFile |-> newRec'[g]]
      /\ \A g \in NewFile : newRec'[g] = [j \in 1..Len(newRec[g]) |-> newRec'[g][j]]
      /\ \A g \in NewFile : \A j \in 1..Len(newRec[g]) :
           newRec'[g][j] \in {newRec[g][j], Resolved(newRec[g][j])}
  BY <1>3
<1>5. /\ HeapShapes' /\ FileShapes' /\ Written'
      /\ \A g \in NewFile :
           /\ Len(newRec'[g]) = Len(newRec[g])
           /\ \A j \in 1..Len(newRec[g]) :
                /\ Like(newRec'[g][j], newRec[g][j])
                /\ newRec'[g][j].addr \in {newRec[g][j].raw, Id(newRec, g, j)}
      /\ \A g, j : Id(newRec', g, j) = Id(newRec, g, j)
      /\ \A g \in NewFile : \A j \in 1..Len(newRec[g]) : \A e :
           Names(newRec[g][j], e)' => Names(newRec[g][j], e)
  BY <1>1, <1>4, NewRewritten
<1>6. ToolShapes' /\ Tracing' /\ MapRight' /\ IdsPrinted' /\ kills' # 0
  BY <1>1, RunEnds DEF IdsPrinted, Building, MapIInv, MapShapes, ToolShapes
<1>7. NewForms'
  BY <1>1, <1>5 DEF NewForms, Like
<1>8. EventForms'
  <2>. SUFFICES ASSUME NEW e \in events, NEW g \in NewFile, NEW j \in 1..Len(newRec[g]),
                       Names(newRec[g][j], e)', ~tagged
                PROVE  e.addr \in {NoId, Id(newRec, g, j)}
    BY <1>1, <1>5, <1>6 DEF EventForms
  <2>1. Names(newRec[g][j], e)
    BY <1>5
  <2>2. ~Unwritten(e)
    BY <1>1 DEF Unwritten
  <2>. QED
    BY <2>1, <2>2 DEF MapIInv, EventForms
<1>. QED
  BY <1>5, <1>6, <1>7, <1>8 DEF MapIInv, MapShapes

-----------------------------------------------------------------------------
(* AddrMap: theorems *)

(* Every step keeps the inductive invariant. *)
LEMMA MapStep == MapIInv /\ [Next]_vars => MapIInv'
<1>. SUFFICES ASSUME MapIInv, [Next]_vars PROVE MapIInv'
  OBVIOUS
<1>1. CASE \E o \in Object, a \in Address : Allocate(o, a)
  BY <1>1, AllocateKeeps
<1>2. CASE \E o \in Object : Collect(o)
  BY <1>2, CollectKeeps
<1>3. CASE \E o \in Object : addRecord(o)
  BY <1>3, AddRecordKeeps
<1>4. CASE \E o \in Object, f \in NewFile : addNewRecord(f, o)
  BY <1>4, AddNewRecordKeeps
<1>5. CASE \E o \in Object, a \in Address, g \in GcFile : memmove(g, o, a)
  BY <1>5, MemmoveKeeps
<1>6. CASE main
  BY <1>6, MainKeeps
<1>7. CASE insert_new_records
  BY <1>7, InsertNewKeeps
<1>8. CASE process_new_file
  BY <1>8, ProcessNewFileKeeps
<1>9. CASE insert_gc_records
  BY <1>9, InsertGcKeeps
<1>10. CASE process_gc_file
  BY <1>10, ProcessGcFileKeeps
<1>11. CASE build_addr_map
  BY <1>11, BuildAddrMapKeeps
<1>12. CASE process_all_data_file
  BY <1>12, DataFilesKeep
<1>13. CASE process_all_new_file
  BY <1>13, NewFilesKeep
<1>14. CASE KilledReading
  BY <1>14, KilledReadingKeeps
<1>15. CASE \E rs \in SUBSET events : KilledInData(rs)
  BY <1>15, KilledInDataKeeps
<1>16. CASE \E f \in NewFile : \E k \in 0..Len(newRec[f]) : KilledInNew(f, k)
  BY <1>16, KilledInNewKeeps
<1>17. CASE UNCHANGED vars
  <2>1. AllNew' = AllNew /\ AllGc' = AllGc /\ Address' = Address
    BY <1>17 DEF vars, heapVars, toolVars, AllNew, AllGc, Address
  <2>2. HeapShapes' /\ FileShapes' /\ ToolShapes'
    BY <1>17, <2>1 DEF vars, heapVars, toolVars, MapIInv, MapShapes, HeapShapes, FileShapes, ToolShapes
  <2>3. Written' /\ Tracing'
    BY <1>17, <2>1 DEF vars, heapVars, toolVars, MapIInv, Written, Times, Distinct, Stayed, Owned,
                       TagsStay, Tracing
  <2>4. \A f, i : (WasRead(f, i)' <=> WasRead(f, i)) /\ Entry(f, i)' = Entry(f, i)
    BY <1>17 DEF vars, heapVars, toolVars, WasRead, Entry
  <2>5. /\ \A a, d : EntryOf(a, d) => EntryOf(a, d)'
        /\ \A a : Shared(a) => Shared(a)'
        /\ \A n, e : Names(n, e)' <=> Names(n, e)
        /\ AllRaw' <=> AllRaw
        /\ AllIds' <=> AllIds
        /\ \A e : Unwritten(e) => Unwritten(e)'
    BY <1>17, <2>1, <2>4 DEF vars, heapVars, toolVars, EntryOf, Shared, Names, OneOwner, AllRaw,
                             AllIds, Unwritten
  <2>6. NewForms'
    BY <1>17, <2>5 DEF vars, heapVars, toolVars, MapIInv, NewForms
  <2>7. MapRight' /\ IdsPrinted'
    BY <1>17, <2>4, <2>5 DEF vars, heapVars, toolVars, MapIInv, MapRight, IdsPrinted, Building
  <2>8. EventForms'
    <3>. SUFFICES ASSUME NEW e \in events, NEW f \in NewFile, NEW i \in 1..Len(newRec[f]),
                         Names(newRec[f][i], e)'
                  PROVE  /\ kills = 0 =>
                              Unwritten(e)' \/ (e.addr = Id(newRec, f, i) /\ (phase = "NEW" \/ AllIds'))
                         /\ ~tagged => Unwritten(e)' \/ e.addr \in {NoId, Id(newRec, f, i)}
      BY <1>17 DEF vars, heapVars, toolVars, EventForms
    <3>1. \A n : n = newRec[f][i] => Names(n, e)'
      BY <1>17 DEF vars
    <3>2. Names(newRec[f][i], e)
      BY <2>5, <3>1
    <3>. QED
      BY <2>5, <3>2 DEF MapIInv, EventForms
  <2>. QED
    BY <2>2, <2>3, <2>6, <2>7, <2>8 DEF MapIInv, MapShapes
<1>. QED
  BY <1>1, <1>2, <1>3, <1>4, <1>5, <1>6, <1>7, <1>8, <1>9, <1>10, <1>11, <1>12, <1>13, <1>14,
     <1>15, <1>16, <1>17 DEF Next

(* The invariant holds in every state of every behaviour. *)
THEOREM MapInvariance == Spec => []MapIInv
<1>. QED
  BY MapInit, MapStep, PTL DEF Spec

(* Type correctness of addr2id and of the records it reads and writes:     *)
(* addresses stay numbers, or the id of no object, whatever is killed.     *)
THEOREM MapTypeCorrect == Spec => []TypeOK
<1>1. MapIInv => TypeOK
  <2>. SUFFICES ASSUME MapIInv PROVE TypeOK
    OBVIOUS
  <2>1. \A r \in AllNew \cup events :
          /\ r.obj \in Object /\ r.raw \in Address /\ r.time \in Nat /\ r.still \in BOOLEAN
          /\ r.addr \in {NoId} \cup Nat
    <3>1. \A r \in AllNew \cup events : r \in RecordType /\ r.raw \in Address /\ r.addr >= NoId
      BY FilesAre DEF MapIInv, MapShapes, FileShapes
    <3>. QED
      BY <3>1 DEF RecordType, NoId
  <2>2. \A r \in AllGc : {r.org, r.new} \subseteq Address /\ r.time \in Nat
    <3>1. AllGc # {} => Address = HeapAddress
      BY DEF MapIInv, Written, TagsStay, Address
    <3>. QED
      BY <3>1, FilesAre DEF MapIInv, MapShapes, MoveType
  <2>. QED
    BY <2>1, <2>2 DEF MapIInv, MapShapes, HeapShapes, ToolShapes, TypeOK
<1>. QED
  BY <1>1, MapInvariance, PTL

(* addr-id.dat has the id of the object of a NEW record. *)
LEMMA IdOfObject ==
  ASSUME MapIInv, phase = "done", NEW f \in NewFile, NEW i \in 1..Len(newRec[f])
  PROVE  newId[newRec[f][i].obj] = Id(newRec, f, i)
<1>1. newRec[f][i].obj \in DOMAIN newId
  BY DEF MapIInv, IdsPrinted, WasRead
<1>2. PICK g \in NewFile : \E j \in 1..Len(newRec[g]) :
        newRec[g][j].obj = newRec[f][i].obj /\ newId[newRec[f][i].obj] = Id(newRec, g, j)
  BY <1>1 DEF MapIInv, IdsPrinted
<1>3. PICK j \in 1..Len(newRec[g]) :
        newRec[g][j].obj = newRec[f][i].obj /\ newId[newRec[f][i].obj] = Id(newRec, g, j)
  BY <1>2
<1>4. f = g /\ i = j
  BY <1>3 DEF MapIInv, Written, Distinct
<1>. QED
  BY <1>3, <1>4

(* A nameable record is one that some NEW record names. *)
LEMMA NameableIs ==
  ASSUME MapIInv, NEW e \in Nameable
  PROVE  /\ e \in events
         /\ \E f \in NewFile : \E i \in 1..Len(newRec[f]) :
              Names(newRec[f][i], e) /\ newRec[f][i].obj = e.obj
<1>1. PICK n \in AllNew : n.obj = e.obj /\ n.still /\ (n.time <= e.time \/ OneOwner(n))
  BY DEF Nameable
<1>2. NewsAre
  BY FilesAre DEF MapIInv, MapShapes
<1>3. Names(n, e)
  BY <1>1 DEF Names, Nameable
<1>4. PICK f \in NewFile : \E i \in 1..Len(newRec[f]) : n = newRec[f][i]
  BY <1>2 DEF NewsAre
<1>. QED
  BY <1>1, <1>3, <1>4 DEF Nameable

(* Two objects never share an id, and the rewritten NEW files agree with   *)
(* addr-id.dat, for every order of the files, every reuse of addresses,    *)
(* whatever the collector moved and whenever earlier runs were killed.     *)
THEOREM NewIdsAgreeAlways == Spec => []NewIdsAgree
<1>1. MapIInv => NewIdsAgree
  <2>. SUFFICES ASSUME MapIInv, phase = "done"
                PROVE  /\ \A n \in AllNew : n.addr = newId[n.obj]
                       /\ \A o, p \in DOMAIN newId : newId[o] = newId[p] => o = p
    BY DEF NewIdsAgree
  <2>1. ASSUME NEW n \in AllNew PROVE n.addr = newId[n.obj]
    <3>1. NewsAre
      BY FilesAre DEF MapIInv, MapShapes
    <3>2. PICK f \in NewFile : \E i \in 1..Len(newRec[f]) : n = newRec[f][i]
      BY <3>1 DEF NewsAre
    <3>3. PICK i \in 1..Len(newRec[f]) : n = newRec[f][i]
      BY <3>2
    <3>4. n.addr = Id(newRec, f, i)
      BY <3>3 DEF MapIInv, NewForms, AllIds
    <3>. QED
      BY <3>3, <3>4, IdOfObject
  <2>2. ASSUME NEW o \in DOMAIN newId, NEW p \in DOMAIN newId, newId[o] = newId[p] PROVE o = p
    <3>1. PICK f \in NewFile : \E i \in 1..Len(newRec[f]) :
            newRec[f][i].obj = o /\ newId[o] = Id(newRec, f, i)
      BY DEF MapIInv, IdsPrinted
    <3>2. PICK i \in 1..Len(newRec[f]) : newRec[f][i].obj = o /\ newId[o] = Id(newRec, f, i)
      BY <3>1
    <3>3. PICK g \in NewFile : \E j \in 1..Len(newRec[g]) :
            newRec[g][j].obj = p /\ newId[p] = Id(newRec, g, j)
      BY DEF MapIInv, IdsPrinted
    <3>4. PICK j \in 1..Len(newRec[g]) : newRec[g][j].obj = p /\ newId[p] = Id(newRec, g, j)
      BY <3>3
    <3>5. Id(newRec, f, i) = Id(newRec, g, j)
      BY <2>2, <3>2, <3>4
    <3>6. f = g /\ i = j
      BY <3>5, NewIdsDiffer
    <3>. QED
      BY <3>2, <3>4, <3>6
  <2>. QED
    BY <2>1, <2>2
<1>. QED
  BY <1>1, MapInvariance, PTL

(* After runs that were not killed every record about an object that the   *)
(* files can name holds the id of that object, also when the tool is run   *)
(* again over what it has rewritten.                                       *)
THEOREM ResolvedRightAlways == Spec => []ResolvedRight
<1>1. MapIInv => ResolvedRight
  <2>. SUFFICES ASSUME MapIInv, phase = "done", kills = 0, NEW e \in Nameable
                PROVE  e.addr = newId[e.obj]
    BY DEF ResolvedRight
  <2>1. PICK f \in NewFile : \E i \in 1..Len(newRec[f]) :
          Names(newRec[f][i], e) /\ newRec[f][i].obj = e.obj
    BY NameableIs
  <2>2. PICK i \in 1..Len(newRec[f]) : Names(newRec[f][i], e) /\ newRec[f][i].obj = e.obj
    BY <2>1
  <2>3. e \in events /\ ~Unwritten(e)
    BY NameableIs DEF Unwritten
  <2>4. e.addr = Id(newRec, f, i)
    BY <2>2, <2>3 DEF MapIInv, EventForms
  <2>. QED
    BY <2>2, <2>4, IdOfObject
<1>. QED
  BY <1>1, MapInvariance, PTL

(* With heap addresses a kill at any point costs at most the object of a   *)
(* record, never gives it the id of another one.                           *)
THEOREM KilledLosesOnlyAlways == Spec => []KilledLosesOnly
<1>1. MapIInv => KilledLosesOnly
  <2>. SUFFICES ASSUME MapIInv, phase = "done", ~tagged, NEW e \in Nameable
                PROVE  e.addr \in {NoId, newId[e.obj]}
    BY DEF KilledLosesOnly
  <2>1. PICK f \in NewFile : \E i \in 1..Len(newRec[f]) :
          Names(newRec[f][i], e) /\ newRec[f][i].obj = e.obj
    BY NameableIs
  <2>2. PICK i \in 1..Len(newRec[f]) : Names(newRec[f][i], e) /\ newRec[f][i].obj = e.obj
    BY <2>1
  <2>3. e \in events /\ ~Unwritten(e)
    BY NameableIs DEF Unwritten
  <2>4. e.addr \in {NoId, Id(newRec, f, i)}
    BY <2>2, <2>3 DEF MapIInv, EventForms
  <2>. QED
    BY <2>2, <2>4, IdOfObject
<1>. QED
  BY <1>1, MapInvariance, PTL
=============================================================================
