------------------------ MODULE ContainerTraceProofs ------------------------
(***************************************************************************)
(* Proofs about ContainerTrace, for any number of operations, any nesting, *)
(* any buffer, and a clock that may stand still.                           *)
(***************************************************************************)
EXTENDS ContainerTrace, TLAPS, SequenceTheorems

-----------------------------------------------------------------------------
(* What the records of a thread are like: lg is a log, the records of each *)
(* file in the order in which they were added.                             *)

Cont    == {"List-Set", "Map"}
LogType == [Files -> Seq(OpRecord)]

(* Each file is in the order of time. *)
Sorted(lg) ==
  \A f \in Files : \A i, j \in 1..Len(lg[f]) : i <= j => lg[f][i].time <= lg[f][j].time

(* One container record and one line info record for each operation. *)
OncePerOp(lg) ==
  /\ \A f, g \in Cont : \A i \in 1..Len(lg[f]), j \in 1..Len(lg[g]) :
       lg[f][i].op = lg[g][j].op => f = g /\ i = j
  /\ \A i, j \in 1..Len(lg["LineInfo"]) :
       lg["LineInfo"][i].op = lg["LineInfo"][j].op => i = j

(* No record was added after the one at f, i and before time t. *)
NothingBetween(lg, f, i, t) ==
  \A g \in Files : \A k \in 1..Len(lg[g]) :
    lg[g][k].time <= lg[f][i].time \/ lg[g][k].time >= t

(* Nothing comes between the two records of an operation. *)
Adjacent(lg) ==
  \A f \in Cont : \A i \in 1..Len(lg[f]), j \in 1..Len(lg["LineInfo"]) :
    lg[f][i].op = lg["LineInfo"][j].op =>
      /\ lg[f][i].time <= lg["LineInfo"][j].time
      /\ NothingBetween(lg, f, i, lg["LineInfo"][j].time)

WellLogged(lg) == Sorted(lg) /\ OncePerOp(lg) /\ Adjacent(lg)

(* The records of the thread, on disk or still in memory. *)
Log == [f \in Files |-> file[f] \o buffer[f]]

-----------------------------------------------------------------------------
(* The parts of the inductive invariant *)

Frame == [op : Nat, callee : Callees, site : BOOLEAN, exited : BOOLEAN]

Shapes ==
  /\ stack \in Seq(Frame) /\ ops \in Nat /\ clock \in Nat
  /\ enable \in BOOLEAN /\ is_sampled_container \in BOOLEAN
  /\ buffer \in LogType /\ file \in LogType
  /\ \A f \in Files : Len(buffer[f]) <= Limit
  /\ made \subseteq Nat
  /\ phase \in {"trace", "open", "for", "while", "done"}
  /\ pos \in [Files -> Nat] /\ \A f \in Files : pos[f] <= Len(file[f])
  /\ next_r1 \subseteq OpRecord /\ r1 \subseteq OpRecord
  /\ line \in Nat
  /\ rows \subseteq [rec : OpRecord, info : OpRecord]

(* The stack: operations are numbered as they start, and only the last one *)
(* can be on its way out.                                                  *)
StackOrder ==
  /\ \A i \in 1..Len(stack) : stack[i].op \in 1..ops
  /\ \A i, j \in 1..Len(stack) : stack[i].op = stack[j].op => i = j
  /\ \A i \in 1..Len(stack) : i < Len(stack) => ~stack[i].exited

(* An operation has its container record only when it has exited and its   *)
(* line info only when it is over.                                         *)
StackFresh ==
  \A n \in 1..Len(stack) :
    /\ \A j \in 1..Len(Log["LineInfo"]) : Log["LineInfo"][j].op # stack[n].op
    /\ ~stack[n].exited => \A f \in Cont : \A i \in 1..Len(Log[f]) : Log[f][i].op # stack[n].op
    /\ stack[n].exited => \A f \in Cont : \A i \in 1..Len(Log[f]) :
         Log[f][i].op = stack[n].op => NothingBetween(Log, f, i, clock + 1)

(* Records are of operations that have started, and not of the future. *)
LogPast ==
  \A f \in Files : \A i \in 1..Len(Log[f]) :
    Log[f][i].op \in 1..ops /\ Log[f][i].time <= clock

(* The flag still speaks of the operation that has just exited. *)
FlagTied ==
  \A n \in 1..Len(stack) :
    stack[n].exited /\ stack[n].callee # "plain" /\ stack[n].op \notin made =>
      ~enable \/ ~is_sampled_container

Tracing == phase = "trace" => StackOrder /\ StackFresh /\ LogPast /\ FlagTied

NotPairing ==
  phase \in {"trace", "open"} =>
    /\ pos = [f \in Files |-> 0] /\ next_r1 = {} /\ r1 = {} /\ line = 1 /\ rows = {}

OnDisk == phase # "trace" => \A f \in Files : buffer[f] = << >>
-----------------------------------------------------------------------------
(* The pairing *)

Lines   == file["LineInfo"]

(* The container records on disk, those not read yet, and those still to   *)
(* be considered, the one in hand included.                                *)
Conts  == UNION {{file[f][i] : i \in 1..Len(file[f])} : f \in Cont}
Unread == UNION {{file[f][i] : i \in (pos[f] + 1)..Len(file[f])} : f \in Cont}
Ahead  == next_r1 \cup Unread
Used   == Conts \ Ahead

(* The selector: what it has in hand is the earliest of what is left. *)
InOrder ==
  /\ next_r1 \subseteq Conts /\ next_r1 \cap Unread = {}
  /\ \A a, b \in next_r1 : a = b
  /\ next_r1 = {} => Unread = {}
  /\ \A a \in next_r1, b \in Unread : a.time <= b.time
  /\ \A a \in Used, b \in Ahead : a.time <= b.time

(* Rows are of records that were used, and of lines that are behind. *)
RowsBehind ==
  \A row \in rows :
    /\ row.rec \in Used
    /\ \E i \in 1..Len(Lines) : i < line /\ row.info = Lines[i]

(* A record is used for a line at or behind it. *)
UsedBehind(n) ==
  \A a \in Used : \E i \in 1..Len(Lines) : i <= n /\ a.time <= Lines[i].time

(* The record taken for the line in hand: the last one used, in no row yet. *)
TakenRight ==
  /\ line \in 1..Len(Lines)
  /\ \E a \in Used : r1 = {a}
  /\ \A a \in r1 : /\ a.time <= Lines[line].time
                   /\ \A row \in rows : row.rec # a
                   /\ \A b \in Used : b.time <= a.time

(* Everything still to be considered is younger than the lines behind. *)
AheadYounger ==
  NoTies =>
    \A i \in 1..Len(Lines) : i < line =>
      \A a \in (IF phase = "while" THEN Ahead \cup r1 ELSE Ahead) : Lines[i].time < a.time

(* Lines behind that have a container record have their row. *)
PairedBehind ==
  NoTies =>
    \A i \in 1..Len(Lines), a \in Conts :
      i < line /\ a.op = Lines[i].op =>
        \E row \in rows : row.rec.op = a.op /\ row.info.op = a.op

Matched ==
  phase \in {"for", "while", "done"} =>
    /\ line >= 1
    /\ InOrder /\ RowsBehind
    /\ UsedBehind(IF phase = "while" THEN line ELSE line - 1)
    /\ phase = "while" => TakenRight
    /\ AheadYounger /\ PairedBehind
    /\ RowsAreAMatching /\ OnlyStraysMispair
    /\ phase = "done" => line > Len(Lines) \/ next_r1 = {}

IInv ==
  /\ Shapes /\ WellLogged(Log) /\ OnDisk /\ Tracing /\ NotPairing /\ Matched

-----------------------------------------------------------------------------
(* Logs *)

(* lh is lg with the record r at the end of f. *)
Added(lg, lh, f, r) ==
  /\ \A g \in Files : g # f => Len(lh[g]) = Len(lg[g])
  /\ Len(lh[f]) = Len(lg[f]) + 1 /\ lh[f][Len(lg[f]) + 1] = r
  /\ \A g \in Files : \A k \in 1..Len(lg[g]) : lh[g][k] = lg[g][k]

(* Lengths and elements of a log. *)
LEMMA LogFacts ==
  ASSUME NEW lg \in LogType, NEW f \in Files
  PROVE  /\ lg[f] \in Seq(OpRecord) /\ Len(lg[f]) \in Nat
         /\ \A i \in 1..Len(lg[f]) : /\ lg[f][i] \in OpRecord
                                     /\ lg[f][i].op \in Nat /\ lg[f][i].time \in Nat
<1>1. lg[f] \in Seq(OpRecord)
  BY DEF LogType
<1>2. Len(lg[f]) \in Nat /\ \A i \in 1..Len(lg[f]) : lg[f][i] \in OpRecord
  BY <1>1, ElementOfSeq, LenProperties
<1>. QED
  BY <1>1, <1>2 DEF OpRecord

(* A record of the longer log is the new one or was there. *)
LEMMA AddedAt ==
  ASSUME NEW lg \in LogType, NEW lh, NEW f \in Files, NEW r, Added(lg, lh, f, r),
         NEW g \in Files, NEW k \in 1..Len(lh[g])
  PROVE  \/ k \in 1..Len(lg[g]) /\ lh[g][k] = lg[g][k]
         \/ g = f /\ k = Len(lg[f]) + 1 /\ lh[g][k] = r
<1>1. Len(lg[g]) \in Nat
  BY LogFacts
<1>2. CASE g = f
  BY <1>1, <1>2 DEF Added
<1>3. CASE g # f
  BY <1>1, <1>3 DEF Added
<1>. QED
  BY <1>2, <1>3

(* A new record keeps a log in order: it is not older than the others, it  *)
(* is the first of its kind of its operation, and if it is a line info     *)
(* nothing came after the container record of the operation.               *)
LEMMA AddedWell ==
  ASSUME NEW lg \in LogType, NEW lh, NEW f \in Files, NEW r \in OpRecord, Added(lg, lh, f, r),
         WellLogged(lg),
         \A g \in Files : \A k \in 1..Len(lg[g]) : lg[g][k].time <= r.time,
         \A k \in 1..Len(lg["LineInfo"]) : lg["LineInfo"][k].op # r.op,
         f \in Cont => \A g \in Cont : \A k \in 1..Len(lg[g]) : lg[g][k].op # r.op,
         f = "LineInfo" => \A g \in Cont : \A k \in 1..Len(lg[g]) :
           lg[g][k].op = r.op => NothingBetween(lg, g, k, r.time)
  PROVE  WellLogged(lh)
<1>0. /\ r.op \in Nat /\ r.time \in Nat /\ Cont \subseteq Files /\ "LineInfo" \in Files
      /\ "LineInfo" \notin Cont
  BY DEF OpRecord, Cont, Files
<1>1. Sorted(lh)
  <2>. SUFFICES ASSUME NEW g \in Files, NEW i \in 1..Len(lh[g]), NEW j \in 1..Len(lh[g]), i <= j
                PROVE  lh[g][i].time <= lh[g][j].time
    BY DEF Sorted
  <2>0. Len(lg[g]) \in Nat
    BY LogFacts
  <2>1. CASE j \in 1..Len(lg[g]) /\ lh[g][j] = lg[g][j]
    <3>1. i \in 1..Len(lg[g])
      BY <2>0, <2>1
    <3>2. lh[g][i] = lg[g][i]
      BY <3>1 DEF Added
    <3>. QED
      BY <2>1, <3>1, <3>2 DEF WellLogged, Sorted
  <2>2. CASE g = f /\ j = Len(lg[f]) + 1 /\ lh[g][j] = r
    <3>1. CASE i \in 1..Len(lg[g]) /\ lh[g][i] = lg[g][i]
      BY <2>2, <3>1
    <3>2. CASE g = f /\ i = Len(lg[f]) + 1 /\ lh[g][i] = r
      BY <2>2, <3>2, <1>0
    <3>. QED
      BY <3>1, <3>2, AddedAt
  <2>. QED
    BY <2>1, <2>2, AddedAt
<1>2. OncePerOp(lh)
  <2>1. ASSUME NEW g \in Cont, NEW h \in Cont, NEW i \in 1..Len(lh[g]), NEW j \in 1..Len(lh[h]),
               lh[g][i].op = lh[h][j].op
        PROVE  g = h /\ i = j
    <3>0. g \in Files /\ h \in Files
      BY <1>0
    <3>1. CASE i \in 1..Len(lg[g]) /\ lh[g][i] = lg[g][i]
      <4>1. CASE j \in 1..Len(lg[h]) /\ lh[h][j] = lg[h][j]
        BY <2>1, <3>1, <4>1 DEF WellLogged, OncePerOp
      <4>2. CASE h = f /\ j = Len(lg[f]) + 1 /\ lh[h][j] = r
        BY <2>1, <3>1, <4>2
      <4>. QED
        BY <3>0, <4>1, <4>2, AddedAt
    <3>2. CASE g = f /\ i = Len(lg[f]) + 1 /\ lh[g][i] = r
      <4>1. CASE j \in 1..Len(lg[h]) /\ lh[h][j] = lg[h][j]
        BY <2>1, <3>2, <4>1
      <4>2. CASE h = f /\ j = Len(lg[f]) + 1 /\ lh[h][j] = r
        BY <3>2, <4>2
      <4>. QED
        BY <3>0, <4>1, <4>2, AddedAt
    <3>. QED
      BY <3>0, <3>1, <3>2, AddedAt
  <2>2. ASSUME NEW i \in 1..Len(lh["LineInfo"]), NEW j \in 1..Len(lh["LineInfo"]),
               lh["LineInfo"][i].op = lh["LineInfo"][j].op
        PROVE  i = j
    <3>1. \/ i \in 1..Len(lg["LineInfo"]) /\ lh["LineInfo"][i] = lg["LineInfo"][i]
          \/ "LineInfo" = f /\ i = Len(lg[f]) + 1 /\ lh["LineInfo"][i] = r
      BY <1>0, AddedAt
    <3>2. \/ j \in 1..Len(lg["LineInfo"]) /\ lh["LineInfo"][j] = lg["LineInfo"][j]
          \/ "LineInfo" = f /\ j = Len(lg[f]) + 1 /\ lh["LineInfo"][j] = r
      BY <1>0, AddedAt
    <3>. QED
      BY <2>2, <3>1, <3>2 DEF WellLogged, OncePerOp
  <2>. QED
    BY <2>1, <2>2 DEF OncePerOp
<1>3. Adjacent(lh)
  <2>. SUFFICES ASSUME NEW g \in Cont, NEW i \in 1..Len(lh[g]), NEW j \in 1..Len(lh["LineInfo"]),
                       lh[g][i].op = lh["LineInfo"][j].op
                PROVE  /\ lh[g][i].time <= lh["LineInfo"][j].time
                       /\ NothingBetween(lh, g, i, lh["LineInfo"][j].time)
    BY DEF Adjacent
  <2>1. \/ i \in 1..Len(lg[g]) /\ lh[g][i] = lg[g][i]
        \/ g = f /\ i = Len(lg[f]) + 1 /\ lh[g][i] = r
    BY <1>0, AddedAt
  <2>2. \/ j \in 1..Len(lg["LineInfo"]) /\ lh["LineInfo"][j] = lg["LineInfo"][j]
        \/ "LineInfo" = f /\ j = Len(lg[f]) + 1 /\ lh["LineInfo"][j] = r
    BY <1>0, AddedAt
  <2>3. i \in 1..Len(lg[g]) /\ lh[g][i] = lg[g][i]
    <3>. SUFFICES ASSUME g = f, lh[g][i] = r PROVE FALSE
      BY <2>1
    <3>1. j \in 1..Len(lg["LineInfo"]) /\ lh["LineInfo"][j] = lg["LineInfo"][j]
      BY <2>2, <1>0
    <3>. QED
      BY <3>1
  <2>4. CASE j \in 1..Len(lg["LineInfo"]) /\ lh["LineInfo"][j] = lg["LineInfo"][j]
    <3>1. /\ lg[g][i].time <= lg["LineInfo"][j].time
          /\ NothingBetween(lg, g, i, lg["LineInfo"][j].time)
      BY <2>3, <2>4 DEF WellLogged, Adjacent
    <3>2. ASSUME NEW h \in Files, NEW k \in 1..Len(lh[h])
          PROVE  lh[h][k].time <= lh[g][i].time \/ lh[h][k].time >= lh["LineInfo"][j].time
      <4>1. CASE k \in 1..Len(lg[h]) /\ lh[h][k] = lg[h][k]
        BY <2>3, <2>4, <3>1, <4>1 DEF NothingBetween
      <4>2. CASE lh[h][k] = r
        <5>1. lg["LineInfo"][j].time <= r.time /\ lg["LineInfo"][j].time \in Nat
          BY <1>0, <2>4, LogFacts
        <5>. QED
          BY <2>4, <4>2, <5>1, <1>0
      <4>. QED
        BY <4>1, <4>2, AddedAt
    <3>. QED
      BY <2>3, <2>4, <3>1, <3>2 DEF NothingBetween
  <2>5. CASE "LineInfo" = f /\ lh["LineInfo"][j] = r
    <3>1. NothingBetween(lg, g, i, r.time) /\ lg[g][i].time <= r.time
      BY <1>0, <2>3, <2>5
    <3>2. ASSUME NEW h \in Files, NEW k \in 1..Len(lh[h])
          PROVE  lh[h][k].time <= lh[g][i].time \/ lh[h][k].time >= r.time
      <4>1. CASE k \in 1..Len(lg[h]) /\ lh[h][k] = lg[h][k]
        BY <2>3, <3>1, <4>1 DEF NothingBetween
      <4>2. CASE lh[h][k] = r
        BY <4>2, <1>0
      <4>. QED
        BY <4>1, <4>2, AddedAt
    <3>. QED
      BY <2>3, <2>5, <3>1, <3>2 DEF NothingBetween
  <2>. QED
    BY <2>2, <2>4, <2>5
<1>. QED
  BY <1>1, <1>2, <1>3 DEF WellLogged

(* What is left of a log when the ends of its files are lost. *)
LEMMA PrefixWell ==
  ASSUME NEW lg \in LogType, NEW lh \in LogType, WellLogged(lg),
         \A f \in Files : /\ Len(lh[f]) <= Len(lg[f])
                          /\ \A i \in 1..Len(lh[f]) : lh[f][i] = lg[f][i]
  PROVE  WellLogged(lh)
<1>1. \A f \in Files : \A i \in 1..Len(lh[f]) : i \in 1..Len(lg[f]) /\ lh[f][i] = lg[f][i]
  <2>. SUFFICES ASSUME NEW f \in Files, NEW i \in 1..Len(lh[f]) PROVE i \in 1..Len(lg[f])
    OBVIOUS
  <2>1. Len(lh[f]) \in Nat /\ Len(lg[f]) \in Nat
    BY LogFacts
  <2>. QED
    BY <2>1
<1>2. Cont \subseteq Files /\ "LineInfo" \in Files
  BY DEF Cont, Files
<1>3. Sorted(lh)
  BY <1>1 DEF WellLogged, Sorted
<1>4. OncePerOp(lh)
  <2>1. ASSUME NEW f \in Cont, NEW g \in Cont, NEW i \in 1..Len(lh[f]), NEW j \in 1..Len(lh[g]),
               lh[f][i].op = lh[g][j].op
        PROVE  f = g /\ i = j
    <3>1. /\ i \in 1..Len(lg[f]) /\ lh[f][i] = lg[f][i]
          /\ j \in 1..Len(lg[g]) /\ lh[g][j] = lg[g][j]
      BY <1>1, <1>2
    <3>. QED
      BY <2>1, <3>1 DEF WellLogged, OncePerOp
  <2>2. ASSUME NEW i \in 1..Len(lh["LineInfo"]), NEW j \in 1..Len(lh["LineInfo"]),
               lh["LineInfo"][i].op = lh["LineInfo"][j].op
        PROVE  i = j
    BY <1>1, <1>2, <2>2 DEF WellLogged, OncePerOp
  <2>. QED
    BY <2>1, <2>2 DEF OncePerOp
<1>5. Adjacent(lh)
  <2>. SUFFICES ASSUME NEW f \in Cont, NEW i \in 1..Len(lh[f]), NEW j \in 1..Len(lh["LineInfo"]),
                       lh[f][i].op = lh["LineInfo"][j].op
                PROVE  /\ lh[f][i].time <= lh["LineInfo"][j].time
                       /\ NothingBetween(lh, f, i, lh["LineInfo"][j].time)
    BY DEF Adjacent
  <2>1. /\ i \in 1..Len(lg[f]) /\ lh[f][i] = lg[f][i]
        /\ j \in 1..Len(lg["LineInfo"]) /\ lh["LineInfo"][j] = lg["LineInfo"][j]
    BY <1>1, <1>2
  <2>2. /\ lg[f][i].time <= lg["LineInfo"][j].time
        /\ NothingBetween(lg, f, i, lg["LineInfo"][j].time)
    BY <2>1 DEF WellLogged, Adjacent
  <2>. QED
    BY <1>1, <2>1, <2>2 DEF NothingBetween
<1>. QED
  BY <1>3, <1>4, <1>5 DEF WellLogged

-----------------------------------------------------------------------------
(* The callbacks *)

(* The log and its parts. *)
LEMMA LogParts ==
  ASSUME buffer \in LogType, file \in LogType
  PROVE  /\ Log \in LogType
         /\ \A f \in Files :
              /\ Log[f] = file[f] \o buffer[f]
              /\ Len(Log[f]) = Len(file[f]) + Len(buffer[f])
              /\ \A i \in 1..Len(file[f]) : Log[f][i] = file[f][i]
<1>1. ASSUME NEW f \in Files
      PROVE  /\ file[f] \o buffer[f] \in Seq(OpRecord)
             /\ Len(file[f] \o buffer[f]) = Len(file[f]) + Len(buffer[f])
             /\ \A i \in 1..Len(file[f]) : (file[f] \o buffer[f])[i] = file[f][i]
  <2>1. PICK p \in Seq(OpRecord), q \in Seq(OpRecord) : p = file[f] /\ q = buffer[f]
    BY DEF LogType
  <2>2. /\ p \o q \in Seq(OpRecord) /\ Len(p \o q) = Len(p) + Len(q)
        /\ \A i \in 1..(Len(p) + Len(q)) : (p \o q)[i] = IF i <= Len(p) THEN p[i] ELSE q[i - Len(p)]
    BY ConcatProperties
  <2>3. Len(p) \in Nat /\ Len(q) \in Nat
    OBVIOUS
  <2>4. \A i \in 1..Len(p) : i \in 1..(Len(p) + Len(q)) /\ i <= Len(p)
    BY <2>3
  <2>. QED
    BY <2>1, <2>2, <2>4
<1>. QED
  BY <1>1 DEF Log, LogType

(* Recorder::add puts the record at the end of the log, also when the      *)
(* buffer is full and goes to the file first.                              *)
LEMMA AddEffect ==
  ASSUME buffer \in LogType, file \in LogType, NEW f \in Files, NEW r \in OpRecord,
         \A g \in Files : Len(buffer[g]) <= Limit, add(f, r)
  PROVE  /\ buffer' \in LogType /\ file' \in LogType
         /\ \A g \in Files : Len(buffer'[g]) <= Limit
         /\ Added(Log, Log', f, r)
<1>1. PICK p \in Seq(OpRecord), q \in Seq(OpRecord) : p = file[f] /\ q = buffer[f]
  BY DEF LogType
<1>2. Len(p) \in Nat /\ Len(q) \in Nat /\ Limit \in Nat \ {0}
  BY LimitAssumption
<1>3. CASE Len(q) >= Limit
  <2>1. file' = [file EXCEPT ![f] = p \o q] /\ buffer' = [buffer EXCEPT ![f] = <<r>>]
    BY <1>1, <1>3 DEF add
  <2>2. <<r>> \in Seq(OpRecord) /\ Len(<<r>>) = 1 /\ <<r>>[1] = r /\ p \o q \in Seq(OpRecord)
    BY ConcatProperties
  <2>3. buffer' \in LogType /\ file' \in LogType
    BY <2>1, <2>2 DEF LogType
  <2>4. \A g \in Files : Len(buffer'[g]) <= Limit
    BY <2>1, <2>2, <1>2 DEF LogType
  <2>5. \A g \in Files : g # f => file'[g] = file[g] /\ buffer'[g] = buffer[g]
    BY <2>1 DEF LogType
  <2>6. /\ Log'[f] = (p \o q) \o <<r>> /\ Log[f] = p \o q
        /\ \A g \in Files : g # f => Log'[g] = Log[g]
    BY <1>1, <2>1, <2>5 DEF Log, LogType
  <2>7. PICK s \in Seq(OpRecord), t \in Seq(OpRecord) : s = p \o q /\ t = <<r>>
    BY <2>2
  <2>8. /\ Len(s \o t) = Len(s) + 1 /\ Len(s) \in Nat
        /\ \A i \in 1..(Len(s) + 1) : (s \o t)[i] = IF i <= Len(s) THEN s[i] ELSE t[i - Len(s)]
    BY <2>2, <2>7, ConcatProperties
  <2>9. (s \o t)[Len(s) + 1] = r /\ \A i \in 1..Len(s) : (s \o t)[i] = s[i]
    <3>1. Len(s) + 1 \in 1..(Len(s) + 1) /\ ~(Len(s) + 1 <= Len(s)) /\ Len(s) + 1 - Len(s) = 1
      BY <2>8
    <3>2. \A i \in 1..Len(s) : i \in 1..(Len(s) + 1) /\ i <= Len(s)
      BY <2>8
    <3>. QED
      BY <2>2, <2>7, <2>8, <3>1, <3>2
  <2>10. Added(Log, Log', f, r)
    BY <2>6, <2>7, <2>8, <2>9 DEF Added
  <2>. QED
    BY <2>3, <2>4, <2>10
<1>4. CASE ~(Len(q) >= Limit)
  <2>1. buffer' = [buffer EXCEPT ![f] = Append(q, r)] /\ file' = file
    BY <1>1, <1>4 DEF add
  <2>2. /\ Append(q, r) \in Seq(OpRecord) /\ Len(Append(q, r)) = Len(q) + 1
        /\ \A i \in 1..Len(q) : Append(q, r)[i] = q[i]
        /\ Append(q, r)[Len(q) + 1] = r
    BY AppendProperties
  <2>3. buffer' \in LogType /\ file' \in LogType
    BY <2>1, <2>2 DEF LogType
  <2>4. \A g \in Files : Len(buffer'[g]) <= Limit
    BY <2>1, <2>2, <1>2, <1>4 DEF LogType
  <2>5. \A g \in Files : g # f => file'[g] = file[g] /\ buffer'[g] = buffer[g]
    BY <2>1 DEF LogType
  <2>6. /\ Log'[f] = p \o Append(q, r) /\ Log[f] = p \o q
        /\ \A g \in Files : g # f => Log'[g] = Log[g]
    BY <1>1, <2>1, <2>5 DEF Log, LogType
  <2>7. PICK t \in Seq(OpRecord) : t = Append(q, r) /\ Len(t) = Len(q) + 1
                                   /\ t[Len(q) + 1] = r /\ \A i \in 1..Len(q) : t[i] = q[i]
    BY <2>2
  <2>8. /\ Len(p \o q) = Len(p) + Len(q)
        /\ \A i \in 1..(Len(p) + Len(q)) : (p \o q)[i] = IF i <= Len(p) THEN p[i] ELSE q[i - Len(p)]
    BY ConcatProperties
  <2>9. /\ Len(p \o t) = Len(p) + Len(t)
        /\ \A i \in 1..(Len(p) + Len(t)) : (p \o t)[i] = IF i <= Len(p) THEN p[i] ELSE t[i - Len(p)]
    BY ConcatProperties
  <2>10. Len(p \o t) = Len(p \o q) + 1 /\ (p \o t)[Len(p \o q) + 1] = r
    <3>1. /\ Len(p) + Len(q) + 1 \in 1..(Len(p) + Len(t)) /\ ~(Len(p) + Len(q) + 1 <= Len(p))
          /\ Len(p) + Len(q) + 1 - Len(p) = Len(q) + 1
          /\ Len(p) + Len(t) = Len(p) + Len(q) + 1
      BY <1>2, <2>7
    <3>2. (p \o t)[Len(p) + Len(q) + 1] = t[Len(q) + 1]
      BY <2>9, <3>1
    <3>. QED
      BY <2>7, <2>8, <2>9, <3>1, <3>2
  <2>11. ASSUME NEW i \in 1..Len(p \o q)
         PROVE  (p \o t)[i] = (p \o q)[i]
    <3>1. i \in 1..(Len(p) + Len(q)) /\ i \in 1..(Len(p) + Len(t))
      BY <1>2, <2>7, <2>8
    <3>2. CASE i <= Len(p)
      BY <2>8, <2>9, <3>1, <3>2
    <3>3. CASE ~(i <= Len(p))
      <4>1. i - Len(p) \in 1..Len(q)
        BY <1>2, <3>1, <3>3
      <4>. QED
        BY <2>7, <2>8, <2>9, <3>1, <3>3, <4>1
    <3>. QED
      BY <3>2, <3>3
  <2>12. Added(Log, Log', f, r)
    BY <2>6, <2>7, <2>10, <2>11 DEF Added
  <2>. QED
    BY <2>3, <2>4, <2>12
<1>. QED
  BY <1>1, <1>3, <1>4

(* A record of a started operation, with the time of the clock. *)
LEMMA Recorded1 ==
  ASSUME Shapes, WellLogged(Log), LogPast, NEW f \in Files, NEW n \in 1..ops,
         add(f, [op |-> n, time |-> clock]), Tick, ops' = ops,
         \A k \in 1..Len(Log["LineInfo"]) : Log["LineInfo"][k].op # n,
         f \in Cont => \A g \in Cont : \A k \in 1..Len(Log[g]) : Log[g][k].op # n,
         f = "LineInfo" => \A g \in Cont : \A k \in 1..Len(Log[g]) :
           Log[g][k].op = n => NothingBetween(Log, g, k, clock + 1)
  PROVE  /\ buffer' \in LogType /\ file' \in LogType
         /\ \A g \in Files : Len(buffer'[g]) <= Limit
         /\ Added(Log, Log', f, [op |-> n, time |-> clock])
         /\ clock' \in {clock, clock + 1} /\ clock' \in Nat
         /\ WellLogged(Log)' /\ LogPast'
<1>1. PICK r \in OpRecord : r = [op |-> n, time |-> clock] /\ r.op = n /\ r.time = clock
  BY DEF Shapes, OpRecord
<1>2. buffer \in LogType /\ file \in LogType /\ clock \in Nat
  BY DEF Shapes
<1>3. /\ buffer' \in LogType /\ file' \in LogType
      /\ \A g \in Files : Len(buffer'[g]) <= Limit
      /\ Added(Log, Log', f, r)
  BY <1>1, <1>2, AddEffect DEF Shapes
<1>4. clock' \in {clock, clock + 1} /\ clock' \in Nat
  BY <1>2 DEF Tick
<1>5. Log \in LogType
  BY <1>2, LogParts
<1>6. \A g \in Files : \A k \in 1..Len(Log[g]) : Log[g][k].time <= r.time
  BY <1>1 DEF LogPast
<1>7. ASSUME f = "LineInfo", NEW g \in Cont, NEW k \in 1..Len(Log[g]), Log[g][k].op = r.op
      PROVE  NothingBetween(Log, g, k, r.time)
  <2>1. NothingBetween(Log, g, k, clock + 1) /\ g \in Files
    BY <1>1, <1>7 DEF Cont, Files
  <2>2. ASSUME NEW h \in Files, NEW l \in 1..Len(Log[h])
        PROVE  Log[h][l].time <= Log[g][k].time
    <3>1. Log[h][l].time \in Nat /\ Log[h][l].time <= clock
      BY <1>5, LogFacts DEF LogPast
    <3>2. ~(Log[h][l].time >= clock + 1)
      BY <1>2, <3>1
    <3>. QED
      BY <2>1, <3>2 DEF NothingBetween
  <2>. QED
    BY <2>2 DEF NothingBetween
<1>8. WellLogged(Log')
  BY <1>1, <1>3, <1>5, <1>6, <1>7, AddedWell
<1>9. LogPast'
  <2>. SUFFICES ASSUME NEW g \in Files, NEW k \in 1..Len(Log'[g])
                PROVE  Log'[g][k].op \in 1..ops /\ Log'[g][k].time <= clock'
    BY DEF LogPast
  <2>1. CASE k \in 1..Len(Log[g]) /\ Log'[g][k] = Log[g][k]
    <3>1. Log[g][k].op \in 1..ops /\ Log[g][k].time <= clock /\ Log[g][k].time \in Nat
      BY <1>5, <2>1, LogFacts DEF LogPast
    <3>. QED
      BY <1>2, <1>4, <2>1, <3>1
  <2>2. CASE Log'[g][k] = r
    BY <1>1, <1>2, <1>4, <2>2
  <2>. QED
    BY <1>3, <1>5, <2>1, <2>2, AddedAt
<1>10. WellLogged(Log)'
  BY <1>8 DEF WellLogged, Sorted, OncePerOp, Adjacent, NothingBetween
<1>. QED
  BY <1>1, <1>3, <1>4, <1>9, <1>10

(* What the elements of the stack are. *)
LEMMA StackFacts ==
  ASSUME stack \in Seq(Frame)
  PROVE  /\ Len(stack) \in Nat /\ (stack # << >> <=> Len(stack) # 0)
         /\ \A i \in 1..Len(stack) : stack[i] \in Frame /\ stack[i].op \in Nat
<1>1. Len(stack) \in Nat /\ \A i \in 1..Len(stack) : stack[i] \in Frame
  BY LenProperties, ElementOfSeq
<1>2. stack # << >> <=> Len(stack) # 0
  OBVIOUS
<1>. QED
  BY <1>1, <1>2 DEF Frame

(* The stack without its last element. *)
LEMMA PopFacts ==
  ASSUME stack \in Seq(Frame), stack # << >>
  PROVE  /\ Pop \in Seq(Frame) /\ Len(Pop) = Len(stack) - 1
         /\ \A i \in 1..(Len(stack) - 1) : Pop[i] = stack[i]
<1>1. PICK n \in Nat : n = Len(stack) - 1 /\ Len(stack) = n + 1
  BY StackFacts
<1>2. \A i \in 1..n : stack[i] \in Frame
  BY <1>1, StackFacts
<1>3. /\ SubSeq(stack, 1, n) \in Seq(Frame)
      /\ Len(SubSeq(stack, 1, n)) = IF 1 <= n THEN n - 1 + 1 ELSE 0
      /\ \A i \in 1..(n - 1 + 1) : SubSeq(stack, 1, n)[i] = stack[1 + i - 1]
  BY <1>2, SubSeqProperties
<1>4. n - 1 + 1 = n /\ (IF 1 <= n THEN n - 1 + 1 ELSE 0) = n /\ \A i \in 1..n : 1 + i - 1 = i
  OBVIOUS
<1>. QED
  BY <1>1, <1>3, <1>4 DEF Pop

(* The stack with its last element marked. *)
LEMMA MarkFacts ==
  ASSUME stack \in Seq(Frame), stack # << >>,
         stack' = [stack EXCEPT ![Len(stack)].exited = TRUE]
  PROVE  /\ stack' \in Seq(Frame) /\ Len(stack') = Len(stack)
         /\ \A i \in 1..Len(stack) : /\ stack'[i].op = stack[i].op
                                     /\ stack'[i].callee = stack[i].callee
                                     /\ i < Len(stack) => stack'[i] = stack[i]
         /\ stack'[Len(stack)].exited
<1>1. PICK n \in Nat : n = Len(stack) /\ n # 0
  BY StackFacts
<1>2. PICK e \in Frame : e = stack[n]
  BY <1>1, StackFacts
<1>3. PICK d \in Frame : d = [e EXCEPT !.exited = TRUE]
  BY DEF Frame
<1>4. d.op = e.op /\ d.callee = e.callee /\ d.exited = TRUE
  BY <1>3 DEF Frame
<1>5. stack' = [stack EXCEPT ![n] = d]
  BY <1>1, <1>2, <1>3
<1>6. /\ stack' \in Seq(Frame) /\ Len(stack') = n /\ stack'[n] = d
      /\ \A i \in 1..n : i # n => stack'[i] = stack[i]
  <2>1. n \in 1..Len(stack)
    BY <1>1
  <2>2. /\ [stack EXCEPT ![n] = d] \in Seq(Frame)
        /\ Len([stack EXCEPT ![n] = d]) = Len(stack)
        /\ \A j \in 1..Len(stack) : [stack EXCEPT ![n] = d][j] = IF j = n THEN d ELSE stack[j]
    BY <2>1, ExceptSeq
  <2>. QED
    BY <1>1, <1>5, <2>1, <2>2
<1>7. ASSUME NEW i \in 1..n
      PROVE  /\ stack'[i].op = stack[i].op /\ stack'[i].callee = stack[i].callee
             /\ i < n => stack'[i] = stack[i]
  <2>1. CASE i = n
    BY <1>2, <1>4, <1>6, <2>1
  <2>2. CASE i # n
    BY <1>6, <2>2
  <2>. QED
    BY <2>1, <2>2
<1>. QED
  BY <1>1, <1>4, <1>6, <1>7

(* The parts that matter while the thread runs. *)
LEMMA TraceOn ==
  ASSUME phase = "trace", phase' = "trace", NotPairing, UNCHANGED pairVars,
         Shapes', WellLogged(Log)', (StackOrder /\ StackFresh /\ LogPast /\ FlagTied)'
  PROVE  IInv'
BY DEF IInv, OnDisk, Tracing, NotPairing, Matched, pairVars

(* A step that leaves the log and the clock alone. *)
LEMMA SameLog ==
  ASSUME UNCHANGED <<buffer, file>>
  PROVE  /\ Log' = Log
         /\ WellLogged(Log) => WellLogged(Log)'
         /\ LogPast /\ clock' = clock /\ ops' = ops => LogPast'
<1>1. Log' = Log
  BY DEF Log
<1>2. WellLogged(Log) => WellLogged(Log)'
  BY <1>1 DEF WellLogged, Sorted, OncePerOp, Adjacent, NothingBetween
<1>. QED
  BY <1>1, <1>2 DEF LogPast

(* A call. *)
LEMMA CallStep ==
  ASSUME IInv, NEW callee \in Callees, NEW site \in BOOLEAN, Call(callee, site)
  PROVE  IInv'
<1>1. /\ phase = "trace" /\ phase' = "trace" /\ ops' = ops + 1
      /\ stack # << >> => ~stack[Len(stack)].exited
      /\ UNCHANGED <<enable, is_sampled_container, clock, buffer, made, file>>
      /\ UNCHANGED pairVars
  BY DEF Call, InBody, Top
<1>2. Shapes /\ WellLogged(Log) /\ NotPairing /\ StackOrder /\ StackFresh /\ LogPast /\ FlagTied
  BY <1>1 DEF IInv, Tracing
<1>3. /\ stack \in Seq(Frame) /\ ops \in Nat /\ clock \in Nat
      /\ buffer \in LogType /\ file \in LogType
  BY <1>2 DEF Shapes
<1>4. PICK d \in Frame : /\ d = [op |-> ops + 1, callee |-> callee, site |-> site, exited |-> FALSE]
                         /\ d.op = ops + 1 /\ ~d.exited
  <2>1. ops + 1 \in Nat
    BY <1>3
  <2>2. [op |-> ops + 1, callee |-> callee, site |-> site, exited |-> FALSE] \in Frame
    BY <2>1, Zenon DEF Frame
  <2>3. PICK d \in Frame : d = [op |-> ops + 1, callee |-> callee, site |-> site, exited |-> FALSE]
    BY <2>2, Zenon
  <2>4. d.op = ops + 1
    BY <2>3
  <2>5. d.exited = FALSE
    BY <2>3
  <2>. QED
    BY <2>3, <2>4, <2>5, Zenon
<1>5. stack' = Append(stack, d)
  BY <1>4 DEF Call
<1>6. PICK n \in Nat : n = Len(stack)
  BY <1>3, StackFacts
<1>7. /\ stack' \in Seq(Frame) /\ Len(stack') = n + 1
      /\ \A i \in 1..n : stack'[i] = stack[i]
      /\ stack'[n + 1] = d
  BY <1>3, <1>5, <1>6, AppendProperties
<1>8. \A i \in 1..(n + 1) : i = n + 1 \/ i \in 1..n
  OBVIOUS
<1>9. Log' = Log /\ WellLogged(Log)'
  BY <1>1, <1>2, SameLog
<1>10. Log \in LogType
  BY <1>3, LogParts
<1>11. LogPast'
  <2>. SUFFICES ASSUME NEW f \in Files, NEW i \in 1..Len(Log[f])
                PROVE  Log[f][i].op \in 1..(ops + 1) /\ Log[f][i].time <= clock
    BY <1>1, <1>9 DEF LogPast
  <2>1. Log[f][i].op \in 1..ops /\ Log[f][i].time <= clock
    BY <1>2 DEF LogPast
  <2>. QED
    BY <2>1, <1>3
<1>12. \A i \in 1..n : stack[i].op \in 1..ops /\ ~stack[i].exited
  <2>. SUFFICES ASSUME NEW i \in 1..n PROVE stack[i].op \in 1..ops /\ ~stack[i].exited
    OBVIOUS
  <2>1. stack[i].op \in 1..ops
    BY <1>2, <1>6 DEF StackOrder
  <2>2. CASE i = n
    <3>1. stack # << >>
      BY <1>3, <1>6, <2>2, StackFacts
    <3>. QED
      BY <1>1, <1>6, <2>1, <2>2, <3>1
  <2>3. CASE i < n
    BY <1>2, <1>6, <2>1, <2>3 DEF StackOrder
  <2>. QED
    BY <2>2, <2>3
<1>13. StackOrder'
  <2>1. ASSUME NEW i \in 1..(n + 1) PROVE stack'[i].op \in 1..(ops + 1) /\ ~stack'[i].exited
    <3>1. CASE i = n + 1
      BY <1>3, <1>4, <1>7, <3>1
    <3>2. CASE i \in 1..n
      BY <1>3, <1>7, <1>12, <3>2
    <3>. QED
      BY <1>8, <3>1, <3>2
  <2>2. ASSUME NEW i \in 1..(n + 1), NEW j \in 1..(n + 1), stack'[i].op = stack'[j].op
        PROVE  i = j
    <3>1. CASE i \in 1..n /\ j \in 1..n
      BY <1>2, <1>6, <1>7, <2>2, <3>1 DEF StackOrder
    <3>2. CASE i = n + 1 /\ j \in 1..n
      BY <1>3, <1>4, <1>7, <1>12, <2>2, <3>2
    <3>3. CASE i \in 1..n /\ j = n + 1
      BY <1>3, <1>4, <1>7, <1>12, <2>2, <3>3
    <3>. QED
      BY <1>8, <3>1, <3>2, <3>3
  <2>. QED
    BY <1>1, <1>7, <2>1, <2>2 DEF StackOrder
<1>14. StackFresh'
  <2>. SUFFICES ASSUME NEW k \in 1..(n + 1)
                PROVE  /\ \A j \in 1..Len(Log["LineInfo"]) : Log["LineInfo"][j].op # stack'[k].op
                       /\ \A f \in Cont : \A i \in 1..Len(Log[f]) : Log[f][i].op # stack'[k].op
                       /\ ~stack'[k].exited
    BY <1>7, <1>9 DEF StackFresh
  <2>1. CASE k = n + 1
    <3>1. \A f \in Files : \A i \in 1..Len(Log[f]) : Log[f][i].op # ops + 1
      BY <1>2, <1>3 DEF LogPast
    <3>. QED
      BY <1>4, <1>7, <2>1, <3>1 DEF Files, Cont
  <2>2. CASE k \in 1..n
    BY <1>2, <1>6, <1>7, <1>12, <2>2 DEF StackFresh
  <2>. QED
    BY <1>8, <2>1, <2>2
<1>15. FlagTied'
  <2>. SUFFICES ASSUME NEW k \in 1..(n + 1) PROVE ~stack'[k].exited
    BY <1>7 DEF FlagTied
  <2>. QED
    BY <1>4, <1>7, <1>8, <1>12
<1>16. Shapes'
  BY <1>1, <1>2, <1>3, <1>7 DEF Shapes, pairVars
<1>. QED
  BY <1>1, <1>2, <1>9, <1>11, <1>13, <1>14, <1>15, <1>16, TraceOn

(* The stack behind its last element is in the program's code. *)
LEMMA PopOrder ==
  ASSUME stack \in Seq(Frame), stack # << >>, StackOrder, stack' = Pop, ops' = ops
  PROVE  /\ StackOrder' /\ stack' \in Seq(Frame)
         /\ \A n \in 1..Len(stack') :
              /\ n \in 1..Len(stack) /\ n < Len(stack)
              /\ stack'[n] = stack[n] /\ ~stack[n].exited
              /\ stack[n].op # stack[Len(stack)].op
<1>1. PICK l \in Nat : l = Len(stack) /\ l # 0
  BY StackFacts
<1>2. /\ stack' \in Seq(Frame) /\ Len(stack') = l - 1
      /\ \A i \in 1..(l - 1) : stack'[i] = stack[i]
  BY <1>1, PopFacts
<1>3. ASSUME NEW n \in 1..(l - 1)
      PROVE  /\ n \in 1..l /\ n < l /\ stack'[n] = stack[n] /\ ~stack[n].exited
             /\ stack[n].op # stack[l].op /\ stack[n].op \in 1..ops
  <2>1. n \in 1..l /\ n < l /\ l \in 1..l /\ n # l
    BY <1>1
  <2>. QED
    BY <1>1, <1>2, <2>1 DEF StackOrder
<1>4. \A i, j \in 1..(l - 1) : stack'[i].op = stack'[j].op => i = j
  BY <1>1, <1>3 DEF StackOrder
<1>5. StackOrder'
  BY <1>2, <1>3, <1>4 DEF StackOrder
<1>. QED
  BY <1>1, <1>2, <1>3, <1>5

(* An operation left by an exception, or one that leaves no line info. *)
LEMMA PopQuiet ==
  ASSUME IInv, phase = "trace", stack # << >>, stack' = Pop,
         UNCHANGED <<ops, enable, is_sampled_container, clock, buffer, made, file, phase>>,
         UNCHANGED pairVars
  PROVE  IInv'
<1>1. Shapes /\ WellLogged(Log) /\ NotPairing /\ StackOrder /\ StackFresh /\ LogPast /\ FlagTied
  BY DEF IInv, Tracing
<1>2. stack \in Seq(Frame)
  BY <1>1 DEF Shapes
<1>3. /\ StackOrder' /\ stack' \in Seq(Frame)
      /\ \A n \in 1..Len(stack') :
           n \in 1..Len(stack) /\ stack'[n] = stack[n] /\ ~stack[n].exited
  BY <1>1, <1>2, PopOrder
<1>4. Log' = Log /\ WellLogged(Log)' /\ LogPast'
  BY <1>1, SameLog
<1>5. StackFresh'
  BY <1>1, <1>3, <1>4 DEF StackFresh
<1>6. FlagTied'
  BY <1>3 DEF FlagTied
<1>7. Shapes'
  BY <1>1, <1>3 DEF Shapes, pairVars
<1>. QED
  BY <1>1, <1>3, <1>4, <1>5, <1>6, <1>7, TraceOn

(* The call has returned. *)
LEMMA ReturnStep ==
  ASSUME IInv, Return
  PROVE  IInv'
<1>0. /\ phase = "trace" /\ stack # << >> /\ stack' = Pop
      /\ UNCHANGED <<ops, enable, is_sampled_container, made, phase>> /\ UNCHANGED pairVars
  BY DEF Return
<1>1. CASE UNCHANGED <<clock, buffer, file>>
  BY <1>0, <1>1, PopQuiet
<1>2. CASE add("LineInfo", [op |-> Top.op, time |-> clock]) /\ Tick
  <2>1. Shapes /\ WellLogged(Log) /\ NotPairing /\ StackOrder /\ StackFresh /\ LogPast /\ FlagTied
    BY <1>0 DEF IInv, Tracing
  <2>2. stack \in Seq(Frame) /\ buffer \in LogType /\ file \in LogType
    BY <2>1 DEF Shapes
  <2>3. PICK l \in Nat : l = Len(stack) /\ l \in 1..Len(stack)
    BY <2>2, <1>0, StackFacts
  <2>4. PICK n \in 1..ops : n = stack[l].op /\ n = Top.op
    BY <2>1, <2>3 DEF StackOrder, Top
  <2>5. /\ \A k \in 1..Len(Log["LineInfo"]) : Log["LineInfo"][k].op # n
        /\ \A g \in Cont : \A k \in 1..Len(Log[g]) :
             Log[g][k].op = n => NothingBetween(Log, g, k, clock + 1)
    BY <2>1, <2>3, <2>4 DEF StackFresh
  <2>6. "LineInfo" \in Files /\ "LineInfo" \notin Cont
    BY DEF Files, Cont
  <2>7. /\ buffer' \in LogType /\ file' \in LogType
        /\ \A g \in Files : Len(buffer'[g]) <= Limit
        /\ Added(Log, Log', "LineInfo", [op |-> n, time |-> clock])
        /\ clock' \in Nat
        /\ WellLogged(Log)' /\ LogPast'
    BY <1>0, <1>2, <2>1, <2>4, <2>5, <2>6, Recorded1
  <2>8. /\ StackOrder' /\ stack' \in Seq(Frame)
        /\ \A k \in 1..Len(stack') :
             /\ k \in 1..Len(stack) /\ stack'[k] = stack[k] /\ ~stack[k].exited
             /\ stack[k].op # n
    BY <1>0, <2>1, <2>2, <2>3, <2>4, PopOrder
  <2>9. Log \in LogType
    BY <2>2, LogParts
  <2>10. StackFresh'
    <3>. SUFFICES ASSUME NEW k \in 1..Len(stack')
                  PROVE  /\ \A j \in 1..Len(Log'["LineInfo"]) : Log'["LineInfo"][j].op # stack'[k].op
                         /\ \A f \in Cont : \A i \in 1..Len(Log'[f]) : Log'[f][i].op # stack'[k].op
      BY <2>8 DEF StackFresh
    <3>1. /\ \A j \in 1..Len(Log["LineInfo"]) : Log["LineInfo"][j].op # stack'[k].op
          /\ \A f \in Cont : \A i \in 1..Len(Log[f]) : Log[f][i].op # stack'[k].op
      BY <2>1, <2>8 DEF StackFresh
    <3>2. ASSUME NEW f \in Files, NEW i \in 1..Len(Log'[f]), f \in Cont \/ f = "LineInfo"
          PROVE  Log'[f][i].op # stack'[k].op
      <4>1. CASE i \in 1..Len(Log[f]) /\ Log'[f][i] = Log[f][i]
        BY <3>1, <3>2, <4>1
      <4>2. CASE Log'[f][i] = [op |-> n, time |-> clock]
        BY <2>8, <4>2
      <4>. QED
        BY <2>6, <2>7, <2>9, <4>1, <4>2, AddedAt
    <3>. QED
      BY <3>2, <2>6 DEF Files, Cont
  <2>11. FlagTied'
    BY <2>8 DEF FlagTied
  <2>12. Shapes'
    <3>1. \A f \in Files : pos'[f] <= Len(file'[f]) /\ pos' = pos
      <4>1. pos' = pos /\ \A f \in Files : pos[f] = 0
        BY <1>0, <2>1 DEF NotPairing, pairVars
      <4>. QED
        BY <4>1, <2>7, LogFacts
    <3>. QED
      BY <1>0, <2>1, <2>7, <2>8, <3>1 DEF Shapes, pairVars
  <2>. QED
    BY <1>0, <2>1, <2>7, <2>8, <2>10, <2>11, <2>12, TraceOn
<1>. QED
  BY <1>1, <1>2 DEF Return, addContainerLineInfoRecord

(* The callee exits. *)
LEMMA ExitStep ==
  ASSUME IInv, Exit
  PROVE  IInv'
<1>0. /\ phase = "trace" /\ stack # << >> /\ ~Top.exited
      /\ stack' = [stack EXCEPT ![Len(stack)].exited = TRUE]
      /\ UNCHANGED <<ops, enable, phase>> /\ UNCHANGED pairVars
  BY DEF Exit
<1>1. Shapes /\ WellLogged(Log) /\ NotPairing /\ StackOrder /\ StackFresh /\ LogPast /\ FlagTied
  BY <1>0 DEF IInv, Tracing
<1>2. /\ stack \in Seq(Frame) /\ buffer \in LogType /\ file \in LogType /\ clock \in Nat
      /\ Log \in LogType
  BY <1>1, LogParts DEF Shapes
<1>3. PICK l \in Nat : l = Len(stack) /\ l \in 1..Len(stack)
  BY <1>2, <1>0, StackFacts
<1>4. /\ stack' \in Seq(Frame) /\ Len(stack') = l
      /\ \A i \in 1..l : /\ stack'[i].op = stack[i].op /\ stack'[i].callee = stack[i].callee
                         /\ i < l => stack'[i] = stack[i]
      /\ stack'[l].exited
  BY <1>0, <1>2, <1>3, MarkFacts
<1>5. \A i \in 1..l : i = l \/ i < l
  BY <1>3
<1>6. PICK n \in 1..ops : n = stack[l].op /\ n = Top.op
  BY <1>1, <1>3 DEF StackOrder, Top
<1>7. /\ ~stack[l].exited
      /\ \A i \in 1..l : i < l => ~stack[i].exited /\ ~stack'[i].exited /\ stack[i].op # n
  BY <1>0, <1>1, <1>3, <1>4, <1>6 DEF StackOrder, Top
<1>8. StackOrder'
  BY <1>0, <1>1, <1>3, <1>4, <1>7 DEF StackOrder
<1>9. /\ \A k \in 1..Len(Log["LineInfo"]) : Log["LineInfo"][k].op # n
      /\ \A g \in Cont : \A k \in 1..Len(Log[g]) : Log[g][k].op # n
  BY <1>1, <1>3, <1>6, <1>7 DEF StackFresh
<1>10. pos' = pos /\ \A f \in Files : pos[f] = 0
  BY <1>0, <1>1 DEF NotPairing, pairVars
<1>11. CASE UNCHANGED <<clock, buffer, file, made>> /\ is_sampled_container' \in BOOLEAN
            /\ (stack[l].callee # "plain" => ~enable \/ ~is_sampled_container')
  <2>1. Log' = Log /\ WellLogged(Log)' /\ LogPast'
    BY <1>0, <1>1, <1>11, SameLog
  <2>2. StackFresh'
    <3>. SUFFICES ASSUME NEW i \in 1..l
                  PROVE  /\ \A j \in 1..Len(Log["LineInfo"]) : Log["LineInfo"][j].op # stack'[i].op
                         /\ \A f \in Cont : \A k \in 1..Len(Log[f]) : Log[f][k].op # stack'[i].op
      BY <1>4, <2>1 DEF StackFresh
    <3>1. ~stack[i].exited
      BY <1>5, <1>7
    <3>. QED
      BY <1>1, <1>3, <1>4, <3>1 DEF StackFresh
  <2>3. FlagTied'
    <3>. SUFFICES ASSUME NEW i \in 1..l, stack'[i].exited, stack'[i].callee # "plain"
                  PROVE  ~enable' \/ ~is_sampled_container'
      BY <1>4 DEF FlagTied
    <3>1. i = l
      BY <1>5, <1>7
    <3>. QED
      BY <1>0, <1>4, <1>11, <3>1
  <2>4. Shapes'
    BY <1>0, <1>1, <1>4, <1>11 DEF Shapes, pairVars
  <2>. QED
    BY <1>0, <1>1, <1>8, <2>1, <2>2, <2>3, <2>4, TraceOn
<1>12. ASSUME NEW f \in Cont, add(f, [op |-> Top.op, time |-> clock]), Tick,
              is_sampled_container' = TRUE, made' = made \cup {Top.op}
       PROVE  IInv'
  <2>0. f \in Files /\ f # "LineInfo" /\ Cont \subseteq Files /\ "LineInfo" \in Files
    BY DEF Cont, Files
  <2>1. /\ buffer' \in LogType /\ file' \in LogType
        /\ \A g \in Files : Len(buffer'[g]) <= Limit
        /\ Added(Log, Log', f, [op |-> n, time |-> clock])
        /\ clock' \in {clock, clock + 1} /\ clock' \in Nat
        /\ WellLogged(Log)' /\ LogPast'
    BY <1>0, <1>1, <1>6, <1>9, <1>12, <2>0, Recorded1
  <2>2. StackFresh'
    <3>1. ASSUME NEW i \in 1..l, NEW g \in Files, NEW k \in 1..Len(Log'[g]), i < l
          PROVE  Log'[g][k].op # stack'[i].op
      <4>1. \A h \in Files : \A j \in 1..Len(Log[h]) : Log[h][j].op # stack[i].op
        BY <1>1, <1>3, <1>7, <3>1 DEF StackFresh, Files, Cont
      <4>2. CASE k \in 1..Len(Log[g]) /\ Log'[g][k] = Log[g][k]
        BY <1>4, <3>1, <4>1, <4>2
      <4>3. CASE Log'[g][k] = [op |-> n, time |-> clock]
        BY <1>4, <1>7, <3>1, <4>3
      <4>. QED
        BY <1>2, <2>0, <2>1, <4>2, <4>3, AddedAt
    <3>2. \A k \in 1..Len(Log'["LineInfo"]) : Log'["LineInfo"][k].op # stack'[l].op
      <4>1. \A k \in 1..Len(Log'["LineInfo"]) : Log'["LineInfo"][k].op # n
        BY <1>2, <1>9, <2>0, <2>1, AddedAt
      <4>. QED
        BY <4>1, <1>3, <1>4, <1>6
    <3>3. ASSUME NEW g \in Cont, NEW k \in 1..Len(Log'[g]), Log'[g][k].op = stack'[l].op
          PROVE  NothingBetween(Log', g, k, clock' + 1)
      <4>0. g \in Files /\ stack'[l].op = n
        BY <2>0, <1>3, <1>4, <1>6
      <4>1. Log'[g][k] = [op |-> n, time |-> clock]
        <5>1. CASE k \in 1..Len(Log[g]) /\ Log'[g][k] = Log[g][k]
          BY <1>9, <3>3, <4>0, <5>1
        <5>. QED
          BY <1>2, <2>0, <2>1, <4>0, <5>1, AddedAt
      <4>2. Log'[g][k].time = clock
        BY <4>1
      <4>3. ASSUME NEW h \in Files, NEW j \in 1..Len(Log'[h])
            PROVE  Log'[h][j].time <= clock
        <5>1. CASE j \in 1..Len(Log[h]) /\ Log'[h][j] = Log[h][j]
          BY <1>1, <5>1 DEF LogPast
        <5>2. CASE Log'[h][j] = [op |-> n, time |-> clock]
          BY <1>2, <5>2
        <5>. QED
          BY <1>2, <2>0, <2>1, <5>1, <5>2, AddedAt
      <4>. QED
        BY <4>2, <4>3 DEF NothingBetween
    <3>4. ASSUME NEW i \in 1..l
          PROVE  /\ \A j \in 1..Len(Log'["LineInfo"]) : Log'["LineInfo"][j].op # stack'[i].op
                 /\ ~stack'[i].exited => \A g \in Cont : \A k \in 1..Len(Log'[g]) :
                      Log'[g][k].op # stack'[i].op
                 /\ stack'[i].exited => \A g \in Cont : \A k \in 1..Len(Log'[g]) :
                      Log'[g][k].op = stack'[i].op => NothingBetween(Log', g, k, clock' + 1)
      <4>1. CASE i = l
        BY <1>4, <3>2, <3>3, <4>1
      <4>2. CASE i < l
        BY <1>7, <2>0, <3>1, <4>2
      <4>. QED
        BY <1>5, <4>1, <4>2
    <3>. QED
      BY <1>4, <3>4 DEF StackFresh, NothingBetween
  <2>3. FlagTied'
    <3>. SUFFICES ASSUME NEW i \in 1..l, stack'[i].exited, stack'[i].op \notin made'
                  PROVE  FALSE
      BY <1>4 DEF FlagTied
    <3>1. i = l
      BY <1>5, <1>7
    <3>. QED
      BY <1>3, <1>4, <1>6, <1>12, <3>1
  <2>4. Shapes'
    <3>1. \A g \in Files : pos'[g] <= Len(file'[g])
      BY <1>10, <2>1, LogFacts
    <3>2. made' \subseteq Nat
      <4>1. ops \in Nat /\ made \subseteq Nat
        BY <1>1 DEF Shapes
      <4>2. n \in Nat
        BY <4>1
      <4>. QED
        BY <1>6, <1>12, <4>1, <4>2
    <3>. QED
      BY <1>0, <1>1, <1>4, <1>10, <1>12, <2>1, <3>1, <3>2 DEF Shapes, pairVars
  <2>. QED
    BY <1>0, <1>1, <1>8, <2>1, <2>2, <2>3, <2>4, TraceOn
<1>13. Top = stack[l] /\ stack[l] \in Frame /\ stack[l].callee \in Callees
  BY <1>2, <1>3, StackFacts DEF Top, Frame
<1>14. CASE Top.callee # "plain" /\ enable
  <2>1. addContainerRecord(Top.op, Top.callee)
    BY <1>14 DEF Exit
  <2>2. CASE Top.callee = "unsampled"
    BY <1>11, <1>13, <2>1, <2>2 DEF addContainerRecord
  <2>3. CASE Top.callee # "unsampled"
    <3>1. Top.callee \in Cont
      BY <1>13, <1>14, <2>3 DEF Callees, Cont
    <3>. QED
      BY <1>12, <2>1, <2>3, <3>1 DEF addContainerRecord
  <2>. QED
    BY <2>2, <2>3
<1>15. CASE ~(Top.callee # "plain" /\ enable)
  <2>1. UNCHANGED <<is_sampled_container, clock, buffer, file, made>>
    BY <1>15 DEF Exit
  <2>2. is_sampled_container' \in BOOLEAN
    BY <1>1, <2>1 DEF Shapes
  <2>. QED
    BY <1>11, <1>13, <1>15, <2>1, <2>2
<1>. QED
  BY <1>14, <1>15

(* Recording is switched while the program's code runs, when no operation  *)
(* is between its two records.                                             *)
LEMMA SwitchStep ==
  ASSUME IInv, disableRecord \/ enableRecord
  PROVE  IInv'
<1>0. /\ phase = "trace" /\ phase' = "trace" /\ enable' \in BOOLEAN
      /\ stack # << >> => ~stack[Len(stack)].exited
      /\ UNCHANGED <<stack, ops, is_sampled_container, clock, buffer, made, file>>
      /\ UNCHANGED pairVars
  BY DEF disableRecord, enableRecord, InBody, Top
<1>1. Shapes /\ WellLogged(Log) /\ NotPairing /\ StackOrder /\ StackFresh /\ LogPast /\ FlagTied
  BY <1>0 DEF IInv, Tracing
<1>2. stack \in Seq(Frame)
  BY <1>1 DEF Shapes
<1>3. \A i \in 1..Len(stack) : ~stack[i].exited
  <2>. SUFFICES ASSUME NEW i \in 1..Len(stack) PROVE ~stack[i].exited
    OBVIOUS
  <2>1. PICK l \in Nat : l = Len(stack) /\ l # 0 /\ stack # << >>
    BY <1>2, StackFacts
  <2>2. i = l \/ i < l
    BY <2>1
  <2>. QED
    BY <1>0, <1>1, <2>1, <2>2 DEF StackOrder
<1>4. Log' = Log /\ WellLogged(Log)' /\ LogPast'
  BY <1>0, <1>1, SameLog
<1>5. StackOrder' /\ FlagTied'
  BY <1>0, <1>1, <1>3 DEF StackOrder, FlagTied
<1>6. StackFresh'
  BY <1>0, <1>1, <1>3, <1>4 DEF StackFresh
<1>7. Shapes'
  BY <1>0, <1>1 DEF Shapes, pairVars
<1>. QED
  BY <1>0, <1>1, <1>4, <1>5, <1>6, <1>7, TraceOn

(* The end of the trace: what is on disk is a well-ordered log, whole or   *)
(* without the ends of its files.                                          *)
LEMMA EndStep ==
  ASSUME IInv, ThreadEnds \/ ProcessExit
  PROVE  IInv'
<1>0. phase = "trace" /\ ThreadGone /\ UNCHANGED pairVars
  BY DEF ThreadEnds, ProcessExit
<1>1. Shapes /\ WellLogged(Log) /\ NotPairing
  BY DEF IInv
<1>2. buffer \in LogType /\ file \in LogType
  BY <1>1 DEF Shapes
<1>3. /\ Log \in LogType
      /\ \A f \in Files : /\ Log[f] = file[f] \o buffer[f]
                          /\ Len(Log[f]) = Len(file[f]) + Len(buffer[f])
                          /\ \A i \in 1..Len(file[f]) : Log[f][i] = file[f][i]
  BY <1>2, LogParts
<1>4. \A f \in Files : Len(file[f]) \in Nat /\ Len(buffer[f]) \in Nat
  BY <1>2, LogFacts
<1>5. file' \in LogType /\ WellLogged(file')
  <2>1. CASE ThreadEnds
    <3>1. file' = Log
      BY <2>1 DEF ThreadEnds, Log
    <3>. QED
      BY <1>1, <1>3, <3>1
  <2>2. CASE ProcessExit
    <3>1. file' = file
      BY <2>2 DEF ProcessExit
    <3>2. \A f \in Files : /\ Len(file[f]) <= Len(Log[f])
                           /\ \A i \in 1..Len(file[f]) : file[f][i] = Log[f][i]
      <4>1. \A m, n \in Nat : m <= m + n
        OBVIOUS
      <4>. QED
        BY <1>3, <1>4, <4>1
    <3>3. WellLogged(file)
      BY <1>1, <1>2, <1>3, <3>2, PrefixWell
    <3>. QED
      BY <1>2, <3>1, <3>3
  <2>. QED
    BY <2>1, <2>2
<1>6. buffer' \in LogType /\ \A f \in Files : buffer'[f] = << >>
  <2>1. buffer' = [f \in Files |-> << >>] /\ << >> \in Seq(OpRecord)
    BY <1>0, EmptySeq DEF ThreadGone
  <2>. QED
    BY <2>1 DEF LogType
<1>7. Log' = file'
  <2>1. \A f \in Files : file'[f] \in Seq(OpRecord)
    BY <1>5 DEF LogType
  <2>2. \A f \in Files : file'[f] \o << >> = file'[f]
    BY <2>1, ConcatEmptySeq
  <2>3. file' = [f \in Files |-> file'[f]]
    BY <1>5 DEF LogType
  <2>4. Log' = [f \in Files |-> file'[f] \o buffer'[f]]
    BY DEF Log
  <2>. QED
    BY <1>6, <2>2, <2>3, <2>4
<1>8. WellLogged(Log)'
  BY <1>5, <1>7 DEF WellLogged, Sorted, OncePerOp, Adjacent, NothingBetween
<1>9. NotPairing' /\ OnDisk' /\ Tracing' /\ Matched'
  BY <1>0, <1>1, <1>6 DEF ThreadGone, NotPairing, pairVars, OnDisk, Tracing, Matched
<1>10. Shapes'
  <2>1. pos' = pos /\ \A f \in Files : pos[f] = 0
    BY <1>0, <1>1 DEF NotPairing, pairVars
  <2>2. \A f \in Files : pos'[f] <= Len(file'[f])
    BY <1>5, <2>1, LogFacts
  <2>3. \A f \in Files : Len(buffer'[f]) <= Limit
    <3>1. Len(<< >>) = 0 /\ 0 <= Limit
      BY LimitAssumption
    <3>. QED
      BY <1>6, <3>1
  <2>4. /\ stack' \in Seq(Frame) /\ ops' \in Nat /\ made' \subseteq Nat /\ clock' \in Nat
        /\ enable' \in BOOLEAN /\ is_sampled_container' \in BOOLEAN /\ phase' = "open"
    BY <1>0, EmptySeq DEF ThreadGone
  <2>. QED
    BY <1>0, <1>1, <1>5, <1>6, <2>1, <2>2, <2>3, <2>4 DEF Shapes, pairVars
<1>. QED
  BY <1>8, <1>9, <1>10 DEF IInv

-----------------------------------------------------------------------------
(* The pairing *)

(* What the log says of the sets of records on disk. *)
LEMMA DiskFacts ==
  ASSUME Shapes, WellLogged(Log), OnDisk, phase # "trace"
  PROVE  /\ file \in LogType /\ WellLogged(file)
         /\ Len(Lines) \in Nat
         /\ \A j \in 1..Len(Lines) : /\ Lines[j] \in OpRecord
                                     /\ Lines[j].op \in Nat /\ Lines[j].time \in Nat
         /\ \A a \in Conts : a \in OpRecord /\ a.op \in Nat /\ a.time \in Nat
         /\ \A a, b \in Conts : a.op = b.op => a = b
         /\ \A i, j \in 1..Len(Lines) : i <= j => Lines[i].time <= Lines[j].time
         /\ \A i, j \in 1..Len(Lines) : Lines[i].op = Lines[j].op => i = j
<1>1. file \in LogType /\ buffer \in LogType
  BY DEF Shapes
<1>2. WellLogged(file)
  <2>1. \A f \in Files : file[f] \in Seq(OpRecord)
    BY <1>1 DEF LogType
  <2>2. \A f \in Files : file[f] \o << >> = file[f]
    BY <2>1, ConcatEmptySeq
  <2>3. file = [f \in Files |-> file[f]]
    BY <1>1 DEF LogType
  <2>4. Log = file
    BY <2>2, <2>3 DEF Log, OnDisk
  <2>. QED
    BY <2>4
<1>3. Cont \subseteq Files /\ "LineInfo" \in Files
  BY DEF Cont, Files
<1>4. /\ Len(Lines) \in Nat
      /\ \A j \in 1..Len(Lines) : /\ Lines[j] \in OpRecord
                                  /\ Lines[j].op \in Nat /\ Lines[j].time \in Nat
  BY <1>1, <1>3, LogFacts DEF Lines
<1>5. ASSUME NEW a \in Conts
      PROVE  \E f \in Cont : \E i \in 1..Len(file[f]) : a = file[f][i]
  BY DEF Conts
<1>6. \A a \in Conts : a \in OpRecord /\ a.op \in Nat /\ a.time \in Nat
  BY <1>1, <1>3, <1>5, LogFacts
<1>7. ASSUME NEW a \in Conts, NEW b \in Conts, a.op = b.op PROVE a = b
  <2>1. PICK f \in Cont : \E i \in 1..Len(file[f]) : a = file[f][i]
    BY <1>5
  <2>2. PICK i \in 1..Len(file[f]) : a = file[f][i]
    BY <2>1
  <2>3. PICK g \in Cont : \E j \in 1..Len(file[g]) : b = file[g][j]
    BY <1>5
  <2>4. PICK j \in 1..Len(file[g]) : b = file[g][j]
    BY <2>3
  <2>5. f = g /\ i = j
    BY <1>2, <1>7, <2>2, <2>4 DEF WellLogged, OncePerOp
  <2>. QED
    BY <2>2, <2>4, <2>5
<1>8. \A i, j \in 1..Len(Lines) : i <= j => Lines[i].time <= Lines[j].time
  BY <1>2, <1>3 DEF WellLogged, Sorted, Lines
<1>9. \A i, j \in 1..Len(Lines) : Lines[i].op = Lines[j].op => i = j
  BY <1>2 DEF WellLogged, OncePerOp, Lines
<1>. QED
  BY <1>1, <1>2, <1>4, <1>6, <1>7, <1>8, <1>9

(* The two records of an operation are neighbours on disk. *)
LEMMA Neighbours ==
  ASSUME Shapes, WellLogged(Log), OnDisk, phase # "trace",
         NEW a \in Conts, NEW j \in 1..Len(Lines), a.op = Lines[j].op
  PROVE  /\ a.time <= Lines[j].time
         /\ \A b \in Conts : b.time <= a.time \/ b.time >= Lines[j].time
         /\ \A k \in 1..Len(Lines) : Lines[k].time <= a.time \/ Lines[k].time >= Lines[j].time
<1>1. WellLogged(file) /\ Cont \subseteq Files /\ "LineInfo" \in Files
  BY DiskFacts DEF Cont, Files
<1>2. PICK f \in Cont : \E i \in 1..Len(file[f]) : a = file[f][i]
  BY DEF Conts
<1>3. PICK i \in 1..Len(file[f]) : a = file[f][i]
  BY <1>2
<1>4. a.time <= Lines[j].time /\ NothingBetween(file, f, i, Lines[j].time)
  BY <1>1, <1>3 DEF WellLogged, Adjacent, Lines
<1>5. \A b \in Conts : b.time <= a.time \/ b.time >= Lines[j].time
  BY <1>1, <1>3, <1>4 DEF NothingBetween, Conts
<1>6. \A k \in 1..Len(Lines) : Lines[k].time <= a.time \/ Lines[k].time >= Lines[j].time
  BY <1>1, <1>3, <1>4 DEF NothingBetween, Lines
<1>. QED
  BY <1>4, <1>5, <1>6

(* Different times, in the terms of these sets. *)
LEMMA NoTiesFacts ==
  ASSUME file \in LogType, NoTies
  PROVE  /\ \A a, b \in Conts : a.time = b.time => a = b
         /\ \A a \in Conts, j \in 1..Len(Lines) : a.time # Lines[j].time
         /\ \A i, j \in 1..Len(Lines) : Lines[i].time = Lines[j].time => i = j
<1>1. \A f \in Files : DOMAIN file[f] = 1..Len(file[f])
  BY LenProperties DEF LogType
<1>2. Cont \subseteq Files /\ "LineInfo" \in Files /\ "LineInfo" \notin Cont
  BY DEF Cont, Files
<1>3. ASSUME NEW f \in Files, NEW g \in Files, NEW i \in 1..Len(file[f]), NEW j \in 1..Len(file[g]),
             file[f][i].time = file[g][j].time
      PROVE  f = g /\ i = j
  BY <1>1, <1>3 DEF NoTies
<1>4. ASSUME NEW a \in Conts
      PROVE  \E f \in Cont : \E i \in 1..Len(file[f]) : a = file[f][i]
  BY DEF Conts
<1>5. ASSUME NEW a \in Conts, NEW b \in Conts, a.time = b.time PROVE a = b
  <2>1. PICK f \in Cont : \E i \in 1..Len(file[f]) : a = file[f][i]
    BY <1>4
  <2>2. PICK i \in 1..Len(file[f]) : a = file[f][i]
    BY <2>1
  <2>3. PICK g \in Cont : \E j \in 1..Len(file[g]) : b = file[g][j]
    BY <1>4
  <2>4. PICK j \in 1..Len(file[g]) : b = file[g][j]
    BY <2>3
  <2>5. f = g /\ i = j
    BY <1>2, <1>3, <1>5, <2>2, <2>4
  <2>. QED
    BY <2>2, <2>4, <2>5
<1>6. ASSUME NEW a \in Conts, NEW j \in 1..Len(Lines), a.time = Lines[j].time PROVE FALSE
  <2>1. PICK f \in Cont : \E i \in 1..Len(file[f]) : a = file[f][i]
    BY <1>4
  <2>2. PICK i \in 1..Len(file[f]) : a = file[f][i]
    BY <2>1
  <2>. QED
    BY <1>2, <1>3, <1>6, <2>2 DEF Lines
<1>7. \A i, j \in 1..Len(Lines) : Lines[i].time = Lines[j].time => i = j
  BY <1>2, <1>3 DEF Lines
<1>. QED
  BY <1>5, <1>6, <1>7

(* The selector hands out the earliest record it has not handed out. *)
LEMMA ReadEffect ==
  ASSUME Shapes, WellLogged(Log), OnDisk, phase # "trace", read, file' = file
  PROVE  /\ pos' \in [Files -> Nat] /\ \A f \in Files : pos'[f] <= Len(file[f])
         /\ \/ Unread = {} /\ next_r1' = {} /\ Unread' = {}
            \/ \E x \in Unread : /\ next_r1' = {x} /\ Unread' = Unread \ {x}
                                 /\ \A y \in Unread : x.time <= y.time
<1>1. /\ file \in LogType /\ WellLogged(file) /\ pos \in [Files -> Nat]
      /\ \A f \in Files : pos[f] <= Len(file[f])
  BY DiskFacts DEF Shapes
<1>2. \A f \in Files : Len(file[f]) \in Nat /\ pos[f] \in Nat
  BY <1>1, LogFacts
<1>3. Cont \subseteq Files /\ Left = {f \in Cont : pos[f] < Len(file[f])}
  BY DEF Cont, Files, Left
<1>4. CASE Left = {} /\ next_r1' = {} /\ UNCHANGED pos
  <2>1. \A f \in Cont : (pos[f] + 1)..Len(file[f]) = {}
    <3>. SUFFICES ASSUME NEW f \in Cont PROVE (pos[f] + 1)..Len(file[f]) = {}
      OBVIOUS
    <3>1. ~(pos[f] < Len(file[f]))
      BY <1>3, <1>4
    <3>. QED
      BY <1>2, <1>3, <3>1
  <2>2. Unread = {}
    BY <2>1 DEF Unread
  <2>3. Unread' = Unread
    BY <1>4 DEF Unread
  <2>. QED
    BY <1>1, <1>4, <2>2, <2>3
<1>5. ASSUME NEW f \in Left, Earliest(f), next_r1' = {file[f][pos[f] + 1]},
             pos' = [pos EXCEPT ![f] = @ + 1]
      PROVE  /\ pos' \in [Files -> Nat] /\ \A g \in Files : pos'[g] <= Len(file[g])
             /\ \E x \in Unread : /\ next_r1' = {x} /\ Unread' = Unread \ {x}
                                  /\ \A y \in Unread : x.time <= y.time
  <2>1. f \in Cont /\ f \in Files /\ pos[f] < Len(file[f]) /\ pos[f] + 1 \in 1..Len(file[f])
    BY <1>2, <1>3
  <2>2. PICK p \in Nat : p = pos[f] + 1
    BY <1>2, <2>1
  <2>3. pos' \in [Files -> Nat] /\ pos'[f] = p /\ \A g \in Files : g # f => pos'[g] = pos[g]
    BY <1>1, <1>5, <2>1, <2>2
  <2>4. \A g \in Files : pos'[g] <= Len(file[g])
    BY <1>1, <1>2, <2>1, <2>2, <2>3
  <2>5. PICK x \in Unread : x = file[f][p] /\ next_r1' = {x}
    <3>1. p \in (pos[f] + 1)..Len(file[f])
      BY <1>2, <2>1, <2>2
    <3>. QED
      BY <1>5, <2>1, <2>2, <3>1 DEF Unread
  <2>6. ASSUME NEW y \in Unread
        PROVE  \E g \in Cont : \E j \in (pos[g] + 1)..Len(file[g]) : y = file[g][j]
    BY DEF Unread
  <2>7. ASSUME NEW g \in Cont, NEW j \in (pos[g] + 1)..Len(file[g])
        PROVE  x.time <= file[g][j].time /\ (file[g][j] = x <=> g = f /\ j = p)
    <3>1. /\ g \in Files /\ g \in Left /\ pos[g] + 1 \in 1..Len(file[g]) /\ j \in 1..Len(file[g])
          /\ pos[g] + 1 <= j
      BY <1>2, <1>3
    <3>2. file[f][p].time <= file[g][pos[g] + 1].time
      BY <1>5, <2>2, <3>1 DEF Earliest
    <3>3. file[g][pos[g] + 1].time <= file[g][j].time
      BY <1>1, <3>1 DEF WellLogged, Sorted
    <3>4. /\ file[f][p].time \in Nat /\ file[g][pos[g] + 1].time \in Nat /\ file[g][j].time \in Nat
      BY <1>1, <2>1, <2>2, <3>1, LogFacts
    <3>5. x.time <= file[g][j].time
      BY <2>5, <3>2, <3>3, <3>4
    <3>6. file[g][j] = file[f][p] => g = f /\ j = p
      BY <1>1, <2>1, <2>2, <3>1 DEF WellLogged, OncePerOp
    <3>. QED
      BY <2>5, <3>5, <3>6
  <2>8. \A y \in Unread : x.time <= y.time
    BY <2>6, <2>7
  <2>9. Unread' = Unread \ {x}
    <3>1. Unread' = UNION {{file[g][i] : i \in (pos'[g] + 1)..Len(file[g])} : g \in Cont}
      BY DEF Unread
    <3>2. ASSUME NEW y \in Unread' PROVE y \in Unread \ {x}
      <4>1. PICK g \in Cont : \E j \in (pos'[g] + 1)..Len(file[g]) : y = file[g][j]
        BY <3>1
      <4>2. PICK j \in (pos'[g] + 1)..Len(file[g]) : y = file[g][j]
        BY <4>1
      <4>3. j \in (pos[g] + 1)..Len(file[g]) /\ ~(g = f /\ j = p)
        <5>1. CASE g = f
          BY <1>2, <2>1, <2>2, <2>3, <5>1
        <5>2. CASE g # f
          BY <1>3, <2>3, <5>2
        <5>. QED
          BY <5>1, <5>2
      <4>4. y # x
        BY <2>7, <4>2, <4>3
      <4>5. y \in Unread
        BY <4>2, <4>3 DEF Unread
      <4>. QED
        BY <4>4, <4>5
    <3>3. ASSUME NEW y \in Unread, y # x PROVE y \in Unread'
      <4>1. PICK g \in Cont : \E j \in (pos[g] + 1)..Len(file[g]) : y = file[g][j]
        BY <2>6
      <4>2. PICK j \in (pos[g] + 1)..Len(file[g]) : y = file[g][j]
        BY <4>1
      <4>3. ~(g = f /\ j = p)
        BY <2>7, <3>3, <4>2
      <4>4. j \in (pos'[g] + 1)..Len(file[g])
        <5>1. CASE g = f
          BY <1>2, <2>1, <2>2, <2>3, <4>3, <5>1
        <5>2. CASE g # f
          BY <1>3, <2>3, <5>2
        <5>. QED
          BY <5>1, <5>2
      <4>. QED
        BY <3>1, <4>2, <4>4
    <3>. QED
      BY <3>2, <3>3
  <2>. QED
    BY <2>3, <2>4, <2>5, <2>8, <2>9
<1>. QED
  BY <1>4, <1>5 DEF read

(* The pairing changes no file, and nothing that is said of the files. *)
LEMMA SameFiles ==
  ASSUME file' = file
  PROVE  /\ Lines' = Lines /\ Conts' = Conts /\ (NoTies' <=> NoTies)
         /\ Recorded' = Recorded /\ Located' = Located
<1>1. Lines' = Lines /\ Conts' = Conts
  BY DEF Lines, Conts
<1>2. NoTies' <=> NoTies
  BY DEF NoTies
<1>3. Recorded' = Recorded /\ Located' = Located
  BY DEF Recorded, Located, OpsIn, Range
<1>. QED
  BY <1>1, <1>2, <1>3

(* The operations with a record on disk, in the terms of these sets. *)
LEMMA OpsOnDisk ==
  ASSUME file \in LogType
  PROVE  /\ \A op \in Recorded : \E a \in Conts : a.op = op
         /\ \A op \in Located : \E j \in 1..Len(Lines) : Lines[j].op = op
<1>1. \A f \in Files : DOMAIN file[f] = 1..Len(file[f])
  BY LenProperties DEF LogType
<1>2. \A f \in Files : \A op \in OpsIn(f) : \E i \in 1..Len(file[f]) : file[f][i].op = op
  BY <1>1 DEF OpsIn, Range
<1>3. Cont \subseteq Files /\ "LineInfo" \in Files /\ "List-Set" \in Cont /\ "Map" \in Cont
  BY DEF Cont, Files
<1>4. \A op \in Recorded : \E a \in Conts : a.op = op
  <2>. SUFFICES ASSUME NEW op \in Recorded PROVE \E a \in Conts : a.op = op
    OBVIOUS
  <2>1. PICK f \in Cont : op \in OpsIn(f)
    BY <1>3 DEF Recorded
  <2>2. PICK i \in 1..Len(file[f]) : file[f][i].op = op
    BY <1>2, <1>3, <2>1
  <2>3. file[f][i] \in Conts
    BY DEF Conts
  <2>. QED
    BY <2>2, <2>3
<1>5. \A op \in Located : \E j \in 1..Len(Lines) : Lines[j].op = op
  BY <1>2, <1>3 DEF Located, Lines
<1>. QED
  BY <1>4, <1>5

(* What a step of the pairing has to show. *)
LEMMA PairOn ==
  ASSUME IInv, phase # "trace", phase' \in {"for", "while", "done"}, UNCHANGED <<traceVars, file>>,
         pos' \in [Files -> Nat], \A f \in Files : pos'[f] <= Len(file[f]),
         next_r1' \subseteq OpRecord, r1' \subseteq OpRecord, line' \in Nat,
         rows' \subseteq [rec : OpRecord, info : OpRecord], Matched'
  PROVE  IInv'
<1>1. Shapes /\ WellLogged(Log) /\ OnDisk
  BY DEF IInv
<1>2. UNCHANGED <<stack, ops, enable, is_sampled_container, clock, buffer, made, file>>
  BY DEF traceVars
<1>3. Shapes'
  BY <1>1, <1>2 DEF Shapes
<1>4. WellLogged(Log)'
  BY <1>1, <1>2, SameLog
<1>5. OnDisk' /\ Tracing' /\ NotPairing'
  BY <1>1, <1>2 DEF OnDisk, Tracing, NotPairing
<1>. QED
  BY <1>3, <1>4, <1>5 DEF IInv

(* The first read of the selector: no record is used yet. *)
LEMMA OpenStep ==
  ASSUME IInv, OpenFiles
  PROVE  IInv'
<1>1. /\ phase = "open" /\ phase' = "for" /\ read /\ UNCHANGED <<traceVars, file>>
      /\ r1' = r1 /\ line' = line /\ rows' = rows
  BY DEF OpenFiles
<1>2. Shapes /\ WellLogged(Log) /\ OnDisk /\ NotPairing
  BY DEF IInv
<1>3. pos = [f \in Files |-> 0] /\ next_r1 = {} /\ r1 = {} /\ line = 1 /\ rows = {}
  BY <1>1, <1>2 DEF NotPairing
<1>4. Unread = Conts
  <2>1. \A f \in Cont : pos[f] + 1 = 1
    BY <1>3 DEF Cont, Files
  <2>. QED
    BY <2>1 DEF Unread, Conts
<1>5. \A a \in Conts : a \in OpRecord
  BY <1>1, <1>2, DiskFacts
<1>6. Lines' = Lines /\ Conts' = Conts
  BY <1>1, SameFiles
<1>7. /\ pos' \in [Files -> Nat] /\ \A f \in Files : pos'[f] <= Len(file[f])
      /\ \/ Unread = {} /\ next_r1' = {} /\ Unread' = {}
         \/ \E x \in Unread : /\ next_r1' = {x} /\ Unread' = Unread \ {x}
                              /\ \A y \in Unread : x.time <= y.time
  BY <1>1, <1>2, ReadEffect
<1>8. Ahead' = Conts /\ Used' = {}
  BY <1>4, <1>6, <1>7 DEF Ahead, Used
<1>9. InOrder'
  BY <1>4, <1>6, <1>7, <1>8 DEF InOrder
<1>10. line' = 1 /\ rows' = {}
  BY <1>1, <1>3
<1>11. RowsBehind' /\ UsedBehind(line - 1)' /\ RowsAreAMatching' /\ OnlyStraysMispair'
  BY <1>8, <1>10 DEF RowsBehind, UsedBehind, RowsAreAMatching, OnlyStraysMispair
<1>12. AheadYounger' /\ PairedBehind'
  BY <1>10 DEF AheadYounger, PairedBehind
<1>13. Matched'
  BY <1>1, <1>9, <1>10, <1>11, <1>12 DEF Matched, UsedBehind
<1>14. next_r1' \subseteq OpRecord
  BY <1>4, <1>5, <1>7
<1>. QED
  BY <1>1, <1>3, <1>7, <1>13, <1>14, PairOn

(* The record in hand is taken for the line in hand, by the for or by the  *)
(* while, and the next one is read.                                        *)
LEMMA TakeStep ==
  ASSUME IInv, phase \in {"for", "while"}, phase' = "while", UNCHANGED <<traceVars, file>>,
         NEW b \in next_r1, line <= Len(Lines), b.time <= Lines[line].time,
         r1' = next_r1, read, line' = line, rows' = rows
  PROVE  IInv'
<1>1. Shapes /\ WellLogged(Log) /\ OnDisk /\ Matched /\ phase # "trace"
  BY DEF IInv
<1>2. /\ line >= 1 /\ InOrder /\ RowsBehind /\ UsedBehind(IF phase = "while" THEN line ELSE line - 1)
      /\ AheadYounger /\ PairedBehind /\ RowsAreAMatching /\ OnlyStraysMispair
  BY <1>1 DEF Matched
<1>3. /\ Lines' = Lines /\ Conts' = Conts /\ (NoTies' <=> NoTies)
      /\ Recorded' = Recorded /\ Located' = Located
  BY SameFiles
<1>4. /\ line \in Nat /\ Len(Lines) \in Nat /\ line \in 1..Len(Lines)
      /\ \A a \in Conts : a \in OpRecord /\ a.time \in Nat
      /\ \A j \in 1..Len(Lines) : Lines[j].time \in Nat
  BY <1>1, <1>2, DiskFacts DEF Shapes
<1>5. next_r1 = {b} /\ b \in Conts /\ b \notin Unread /\ b \in Ahead /\ Unread \subseteq Ahead
  BY <1>2 DEF InOrder, Ahead
<1>6. Unread \subseteq Conts
  <2>1. \A f \in Cont : Len(file[f]) \in Nat /\ pos[f] \in Nat
    BY <1>1, LogFacts DEF Shapes, Cont, Files
  <2>2. \A f \in Cont : (pos[f] + 1)..Len(file[f]) \subseteq 1..Len(file[f])
    BY <2>1
  <2>. QED
    BY <2>2 DEF Unread, Conts
<1>7. /\ pos' \in [Files -> Nat] /\ \A f \in Files : pos'[f] <= Len(file[f])
      /\ \/ Unread = {} /\ next_r1' = {} /\ Unread' = {}
         \/ \E x \in Unread : /\ next_r1' = {x} /\ Unread' = Unread \ {x}
                              /\ \A y \in Unread : x.time <= y.time
  BY <1>1, ReadEffect
<1>8. Ahead' = Unread
  BY <1>7 DEF Ahead
<1>9. Ahead = Unread \cup {b} /\ Used = Conts \ Ahead
  BY <1>5 DEF Ahead, Used
<1>10. Used' = Used \cup {b} /\ b \notin Used
  BY <1>3, <1>5, <1>6, <1>8, <1>9 DEF Used
<1>11. InOrder'
  <2>1. \A a \in Used', c \in Ahead' : a.time <= c.time
    BY <1>2, <1>5, <1>8, <1>9, <1>10 DEF InOrder
  <2>. QED
    BY <1>3, <1>6, <1>7, <2>1 DEF InOrder
<1>12. RowsBehind'
  BY <1>2, <1>3, <1>10 DEF RowsBehind
<1>13. UsedBehind(line)'
  <2>. SUFFICES ASSUME NEW a \in Used'
                PROVE  \E i \in 1..Len(Lines) : i <= line /\ a.time <= Lines[i].time
    BY <1>3 DEF UsedBehind
  <2>1. CASE a = b
    BY <1>4, <2>1
  <2>2. CASE a \in Used
    <3>1. PICK i \in 1..Len(Lines) : /\ i <= (IF phase = "while" THEN line ELSE line - 1)
                                     /\ a.time <= Lines[i].time
      BY <1>2, <2>2 DEF UsedBehind
    <3>2. i <= line
      BY <1>4, <3>1
    <3>. QED
      BY <3>1, <3>2
  <2>. QED
    BY <1>10, <2>1, <2>2
<1>14. TakenRight'
  <2>1. \A row \in rows : row.rec # b
    BY <1>2, <1>10 DEF RowsBehind
  <2>2. \A c \in Used' : c.time <= b.time
    BY <1>2, <1>4, <1>5, <1>10 DEF InOrder
  <2>3. r1' = {b} /\ b \in Used'
    BY <1>5, <1>10
  <2>. QED
    BY <1>3, <1>4, <2>1, <2>2, <2>3 DEF TakenRight
<1>15. AheadYounger'
  <2>1. Ahead' \cup r1' = Ahead
    BY <1>5, <1>8, <1>9
  <2>2. NoTies => \A i \in 1..Len(Lines) : i < line => \A a \in Ahead : Lines[i].time < a.time
    BY <1>2 DEF AheadYounger
  <2>. QED
    BY <1>3, <2>1, <2>2 DEF AheadYounger
<1>16. PairedBehind' /\ RowsAreAMatching' /\ OnlyStraysMispair'
  <2>1. PairedBehind'
    BY <1>2, <1>3 DEF PairedBehind
  <2>2. RowsAreAMatching' /\ OnlyStraysMispair'
    BY <1>2, <1>3 DEF RowsAreAMatching, OnlyStraysMispair
  <2>. QED
    BY <2>1, <2>2
<1>17. Matched'
  BY <1>2, <1>11, <1>12, <1>13, <1>14, <1>15, <1>16 DEF Matched, UsedBehind
<1>18. /\ next_r1' \subseteq OpRecord /\ r1' \subseteq OpRecord
       /\ rows' \subseteq [rec : OpRecord, info : OpRecord]
  BY <1>1, <1>4, <1>5, <1>6, <1>7 DEF Shapes
<1>. QED
  BY <1>1, <1>4, <1>7, <1>17, <1>18, PairOn

(* A line older than every record that is left is skipped: if it had a     *)
(* container record, that one was used for an earlier line, which would    *)
(* then have come between the two.                                         *)
LEMMA SkipStep ==
  ASSUME IInv, ForSkips
  PROVE  IInv'
<1>1. /\ phase = "for" /\ phase' = "for" /\ line <= Len(Lines) /\ line' = line + 1
      /\ UNCHANGED <<traceVars, file>> /\ UNCHANGED <<pos, next_r1, r1, rows>>
  BY DEF ForSkips, Lines
<1>2. PICK r \in next_r1 : r.time > Lines[line].time
  BY DEF ForSkips, r2, Lines
<1>3. Shapes /\ WellLogged(Log) /\ OnDisk /\ Matched /\ phase # "trace"
  BY <1>1 DEF IInv
<1>4. /\ line >= 1 /\ InOrder /\ RowsBehind /\ UsedBehind(line - 1)
      /\ AheadYounger /\ PairedBehind /\ RowsAreAMatching /\ OnlyStraysMispair
  BY <1>1, <1>3 DEF Matched
<1>5. /\ Lines' = Lines /\ Conts' = Conts /\ (NoTies' <=> NoTies)
      /\ Recorded' = Recorded /\ Located' = Located
  BY <1>1, SameFiles
<1>6. /\ line \in Nat /\ Len(Lines) \in Nat /\ line \in 1..Len(Lines) /\ file \in LogType
      /\ \A a \in Conts : a.time \in Nat
      /\ \A j \in 1..Len(Lines) : Lines[j].time \in Nat
      /\ \A i, j \in 1..Len(Lines) : i <= j => Lines[i].time <= Lines[j].time
  BY <1>1, <1>3, <1>4, DiskFacts DEF Shapes
<1>7. Unread' = Unread /\ Ahead' = Ahead /\ Used' = Used
  BY <1>1 DEF Unread, Ahead, Used, Conts
<1>8. r \in Conts /\ next_r1 = {r} /\ Ahead = Unread \cup {r}
  BY <1>4 DEF InOrder, Ahead
<1>9. \A a \in Ahead : a \in Conts => a.time > Lines[line].time
  BY <1>2, <1>4, <1>6, <1>8 DEF InOrder
<1>10. Ahead \subseteq Conts
  <2>1. \A f \in Cont : Len(file[f]) \in Nat /\ pos[f] \in Nat
    BY <1>3, LogFacts DEF Shapes, Cont, Files
  <2>2. \A f \in Cont : (pos[f] + 1)..Len(file[f]) \subseteq 1..Len(file[f])
    BY <2>1
  <2>. QED
    BY <1>8, <2>2 DEF Unread, Conts
<1>11. ASSUME NoTies, NEW a \in Conts, a.op = Lines[line].op PROVE FALSE
  <2>1. /\ a.time <= Lines[line].time
        /\ \A k \in 1..Len(Lines) : Lines[k].time <= a.time \/ Lines[k].time >= Lines[line].time
    BY <1>3, <1>6, <1>11, Neighbours
  <2>2. a \in Used
    BY <1>6, <1>9, <2>1 DEF Used
  <2>3. PICK i \in 1..Len(Lines) : i <= line - 1 /\ a.time <= Lines[i].time
    BY <1>4, <2>2 DEF UsedBehind
  <2>4. a.time # Lines[i].time /\ (Lines[i].time = Lines[line].time => i = line)
    BY <1>6, <1>11, NoTiesFacts
  <2>5. Lines[i].time <= Lines[line].time /\ i # line
    BY <1>6, <2>3
  <2>. QED
    BY <1>6, <2>1, <2>3, <2>4, <2>5
<1>12. ASSUME NEW i \in 1..Len(Lines), i < line + 1 PROVE i < line \/ i = line
  BY <1>6, <1>12
<1>13. AheadYounger'
  <2>. SUFFICES ASSUME NoTies, NEW i \in 1..Len(Lines), i < line + 1, NEW a \in Ahead
                PROVE  Lines[i].time < a.time
    BY <1>1, <1>5, <1>7 DEF AheadYounger
  <2>1. CASE i < line
    BY <1>1, <1>4, <2>1 DEF AheadYounger
  <2>2. CASE i = line
    BY <1>6, <1>9, <1>10, <2>2
  <2>. QED
    BY <1>12, <2>1, <2>2
<1>14. PairedBehind'
  <2>. SUFFICES ASSUME NoTies, NEW i \in 1..Len(Lines), i < line + 1, NEW a \in Conts, a.op = Lines[i].op
                PROVE  \E row \in rows : row.rec.op = a.op /\ row.info.op = a.op
    BY <1>1, <1>5 DEF PairedBehind
  <2>1. i < line
    BY <1>11, <1>12
  <2>. QED
    BY <1>4, <2>1 DEF PairedBehind
<1>15. InOrder' /\ RowsBehind' /\ UsedBehind(line - 1)'
  <2>1. InOrder'
    BY <1>1, <1>4, <1>5, <1>7 DEF InOrder
  <2>2. RowsBehind'
    <3>1. \A i \in 1..Len(Lines) : i < line => i < line + 1
      BY <1>6
    <3>. QED
      BY <1>1, <1>4, <1>5, <1>7, <3>1 DEF RowsBehind
  <2>3. UsedBehind(line - 1)'
    <3>1. \A i \in 1..Len(Lines) : i <= line - 1 => i <= line' - 1
      BY <1>1, <1>6
    <3>. QED
      BY <1>4, <1>5, <1>7, <3>1 DEF UsedBehind
  <2>. QED
    BY <2>1, <2>2, <2>3
<1>16. RowsAreAMatching' /\ OnlyStraysMispair'
  BY <1>1, <1>4, <1>5 DEF RowsAreAMatching, OnlyStraysMispair
<1>17. Matched'
  <2>1. line' >= 1
    BY <1>1, <1>6
  <2>. QED
    BY <1>1, <1>13, <1>14, <1>15, <1>16, <2>1 DEF Matched, UsedBehind
<1>18. line' \in Nat
  BY <1>1, <1>6
<1>19. /\ pos' \in [Files -> Nat] /\ \A f \in Files : pos'[f] <= Len(file[f])
       /\ next_r1' \subseteq OpRecord /\ r1' \subseteq OpRecord
       /\ rows' \subseteq [rec : OpRecord, info : OpRecord]
  BY <1>1, <1>3 DEF Shapes
<1>. QED
  BY <1>1, <1>17, <1>18, <1>19, PairOn

(* The record taken is the one nearest before the line, so it is the one   *)
(* of the line's own operation if that is on disk.                         *)
LEMMA YieldStep ==
  ASSUME IInv, Yield
  PROVE  IInv'
<1>1. /\ phase = "while" /\ phase' = "for" /\ line' = line + 1
      /\ rows' = rows \cup {[rec |-> r, info |-> Lines[line]] : r \in r1}
      /\ UNCHANGED <<traceVars, file>> /\ UNCHANGED <<pos, next_r1, r1>>
  BY DEF Yield, r2, Lines
<1>2. Shapes /\ WellLogged(Log) /\ OnDisk /\ Matched /\ phase # "trace"
  BY <1>1 DEF IInv
<1>3. /\ line >= 1 /\ InOrder /\ RowsBehind /\ UsedBehind(line) /\ TakenRight
      /\ AheadYounger /\ PairedBehind /\ RowsAreAMatching /\ OnlyStraysMispair
  BY <1>1, <1>2 DEF Matched
<1>4. /\ Lines' = Lines /\ Conts' = Conts /\ (NoTies' <=> NoTies)
      /\ Recorded' = Recorded /\ Located' = Located
  BY <1>1, SameFiles
<1>5. /\ line \in Nat /\ Len(Lines) \in Nat /\ line \in 1..Len(Lines) /\ file \in LogType
      /\ \A a \in Conts : a \in OpRecord /\ a.time \in Nat
      /\ \A a, b \in Conts : a.op = b.op => a = b
      /\ \A j \in 1..Len(Lines) : Lines[j] \in OpRecord /\ Lines[j].time \in Nat
      /\ \A i, j \in 1..Len(Lines) : i <= j => Lines[i].time <= Lines[j].time
      /\ \A i, j \in 1..Len(Lines) : Lines[i].op = Lines[j].op => i = j
  BY <1>2, <1>3, DiskFacts DEF Shapes, TakenRight
<1>6. Unread' = Unread /\ Ahead' = Ahead /\ Used' = Used
  BY <1>1 DEF Unread, Ahead, Used, Conts
<1>7. PICK a \in Used : r1 = {a}
  BY <1>3 DEF TakenRight
<1>8. /\ a \in Conts /\ a \notin Ahead /\ a.time <= Lines[line].time
      /\ \A row \in rows : row.rec # a
      /\ \A b \in Used : b.time <= a.time
  BY <1>3, <1>7 DEF TakenRight, Used
<1>9. PICK new : new = [rec |-> a, info |-> Lines[line]]
  OBVIOUS
<1>10. new.rec = a /\ new.info = Lines[line] /\ rows' = rows \cup {new}
  BY <1>1, <1>7, <1>9
<1>11. Ahead \subseteq Conts
  <2>1. \A f \in Cont : Len(file[f]) \in Nat /\ pos[f] \in Nat
    BY <1>2, LogFacts DEF Shapes, Cont, Files
  <2>2. \A f \in Cont : (pos[f] + 1)..Len(file[f]) \subseteq 1..Len(file[f])
    BY <2>1
  <2>. QED
    BY <1>3, <2>2 DEF Ahead, InOrder, Unread, Conts
<1>12. ASSUME NoTies, NEW x \in Ahead PROVE Lines[line].time < x.time
  <2>1. PICK b \in next_r1 : b.time <= x.time
    <3>1. next_r1 # {}
      BY <1>12, <1>3 DEF InOrder, Ahead
    <3>2. PICK b \in next_r1 : TRUE
      BY <3>1
    <3>3. x = b \/ x \in Unread
      BY <1>3 DEF InOrder, Ahead
    <3>. QED
      BY <1>3, <1>5, <1>11, <3>3 DEF InOrder
  <2>2. b \in Ahead /\ b \in Conts
    BY <1>3 DEF InOrder, Ahead
  <2>3. a.time <= b.time /\ a # b
    BY <1>3, <1>8, <2>2 DEF InOrder
  <2>4. a.time # b.time /\ b.time # Lines[line].time
    BY <1>5, <1>8, <1>12, <2>2, <2>3, NoTiesFacts
  <2>5. ~(Lines[line].time - a.time > Lines[line].time - b.time /\ b.time < Lines[line].time)
    <3>1. ~Closer(a, b)
      BY <1>7 DEF Yield
    <3>. QED
      BY <3>1 DEF Closer, r2, Lines
  <2>6. PICK t, u, v, w \in Nat : t = Lines[line].time /\ u = a.time /\ v = b.time /\ w = x.time
    BY <1>5, <1>8, <1>11, <2>2
  <2>. QED
    BY <2>1, <2>3, <2>4, <2>5, <2>6
<1>13. NoTies => a.time < Lines[line].time
  BY <1>5, <1>8, NoTiesFacts
<1>14. ASSUME NoTies, NEW c \in Conts, c.op = Lines[line].op PROVE c = a
  <2>1. c.time <= Lines[line].time /\ (a.time <= c.time \/ a.time >= Lines[line].time)
    BY <1>2, <1>5, <1>8, <1>14, Neighbours
  <2>2. c \notin Ahead
    BY <1>5, <1>12, <1>14, <2>1
  <2>3. c.time <= a.time
    BY <1>8, <2>2 DEF Used
  <2>4. c.time = a.time
    BY <1>5, <1>8, <1>13, <1>14, <2>1, <2>3
  <2>. QED
    BY <1>5, <1>8, <1>14, <2>4, NoTiesFacts
<1>15. ASSUME NoTies, NEW m \in 1..Len(Lines), a.op = Lines[m].op PROVE m = line
  <2>1. Lines[line].time <= a.time \/ Lines[line].time >= Lines[m].time
    BY <1>2, <1>5, <1>8, <1>15, Neighbours
  <2>2. Lines[line].time >= Lines[m].time
    BY <1>5, <1>8, <1>13, <1>15, <2>1
  <2>3. a.time <= Lines[m].time
    BY <1>2, <1>8, <1>15, Neighbours
  <2>4. ~(m < line)
    <3>1. m < line => Lines[m].time < a.time
      BY <1>1, <1>3, <1>7, <1>15 DEF AheadYounger
    <3>. QED
      BY <1>5, <1>8, <2>3, <3>1
  <2>5. /\ \A i, j \in 1..Len(Lines) : i <= j => Lines[i].time <= Lines[j].time
        /\ \A j \in 1..Len(Lines) : Lines[j].time \in Nat
    BY <1>2, DiskFacts
  <2>6. Lines[line].time <= Lines[m].time
    <3>1. line <= m /\ line \in 1..Len(Lines)
      BY <1>5, <2>4
    <3>. QED
      BY <2>5, <3>1
  <2>7. Lines[line].time = Lines[m].time
    BY <1>5, <2>2, <2>5, <2>6
  <2>. QED
    BY <1>5, <1>15, <2>7, NoTiesFacts
<1>16. ASSUME NEW i \in 1..Len(Lines), i < line + 1 PROVE i < line \/ i = line
  BY <1>5, <1>16
<1>17. AheadYounger'
  <2>. SUFFICES ASSUME NoTies, NEW i \in 1..Len(Lines), i < line + 1, NEW x \in Ahead
                PROVE  Lines[i].time < x.time
    BY <1>1, <1>4, <1>6 DEF AheadYounger
  <2>1. CASE i < line
    BY <1>1, <1>3, <2>1 DEF AheadYounger
  <2>2. CASE i = line
    BY <1>12, <2>2
  <2>. QED
    BY <1>16, <2>1, <2>2
<1>18. PairedBehind'
  <2>. SUFFICES ASSUME NoTies, NEW i \in 1..Len(Lines), i < line + 1, NEW c \in Conts, c.op = Lines[i].op
                PROVE  \E row \in rows' : row.rec.op = c.op /\ row.info.op = c.op
    BY <1>1, <1>4 DEF PairedBehind
  <2>1. CASE i < line
    BY <1>3, <1>10, <2>1 DEF PairedBehind
  <2>2. CASE i = line
    <3>1. c = a
      BY <1>14, <2>2
    <3>. QED
      BY <1>10, <2>2, <3>1
  <2>. QED
    BY <1>16, <2>1, <2>2
<1>19. InOrder' /\ RowsBehind' /\ UsedBehind(line - 1)'
  <2>1. InOrder'
    BY <1>1, <1>3, <1>4, <1>6 DEF InOrder
  <2>2. RowsBehind'
    <3>1. \A i \in 1..Len(Lines) : i < line => i < line + 1
      BY <1>5
    <3>2. line < line + 1
      BY <1>5
    <3>3. new.rec \in Used /\ \E i \in 1..Len(Lines) : i < line + 1 /\ new.info = Lines[i]
      BY <1>5, <1>10, <3>2
    <3>4. \A row \in rows : row.rec \in Used /\ \E i \in 1..Len(Lines) : i < line + 1 /\ row.info = Lines[i]
      BY <1>3, <3>1 DEF RowsBehind
    <3>. QED
      BY <1>1, <1>4, <1>6, <1>10, <3>3, <3>4 DEF RowsBehind
  <2>3. UsedBehind(line - 1)'
    <3>1. line' - 1 = line
      BY <1>1, <1>5
    <3>. QED
      BY <1>3, <1>4, <1>6, <3>1 DEF UsedBehind
  <2>. QED
    BY <2>1, <2>2, <2>3
<1>20. RowsAreAMatching'
  <2>1. ASSUME NEW row \in rows PROVE row.rec.op # new.rec.op /\ row.info.op # new.info.op
    <3>1. row.rec \in Conts /\ row.rec # a
      BY <1>3, <1>8 DEF RowsBehind, Used
    <3>2. PICK i \in 1..Len(Lines) : i < line /\ row.info = Lines[i]
      BY <1>3 DEF RowsBehind
    <3>3. i # line
      BY <1>5, <3>2
    <3>. QED
      BY <1>5, <1>8, <1>10, <3>1, <3>2, <3>3
  <2>2. new.rec.time <= new.info.time
    BY <1>8, <1>10
  <2>. QED
    BY <1>3, <1>10, <2>1, <2>2 DEF RowsAreAMatching
<1>21. OnlyStraysMispair'
  <2>. SUFFICES ASSUME NoTies, new.rec.op # new.info.op
                PROVE  new.rec.op \notin Located /\ new.info.op \notin Recorded
    BY <1>3, <1>4, <1>10 DEF OnlyStraysMispair
  <2>1. ASSUME new.rec.op \in Located PROVE FALSE
    <3>1. PICK j \in 1..Len(Lines) : Lines[j].op = a.op
      BY <1>5, <1>10, <2>1, OpsOnDisk
    <3>2. j = line
      BY <1>15, <3>1
    <3>. QED
      BY <1>10, <3>1, <3>2
  <2>2. ASSUME new.info.op \in Recorded PROVE FALSE
    <3>1. PICK c \in Conts : c.op = Lines[line].op
      BY <1>5, <1>10, <2>2, OpsOnDisk
    <3>2. c = a
      BY <1>14, <3>1
    <3>. QED
      BY <1>10, <3>1, <3>2
  <2>. QED
    BY <2>1, <2>2
<1>22. Matched'
  <2>1. line' >= 1
    BY <1>1, <1>5
  <2>. QED
    BY <1>1, <1>17, <1>18, <1>19, <1>20, <1>21, <2>1 DEF Matched, UsedBehind
<1>23. line' \in Nat
  BY <1>1, <1>5
<1>24. new \in [rec : OpRecord, info : OpRecord]
  BY <1>5, <1>8, <1>9
<1>25. /\ pos' \in [Files -> Nat] /\ \A f \in Files : pos'[f] <= Len(file[f])
       /\ next_r1' \subseteq OpRecord /\ r1' \subseteq OpRecord
       /\ rows' \subseteq [rec : OpRecord, info : OpRecord]
  BY <1>1, <1>2, <1>10, <1>24 DEF Shapes
<1>. QED
  BY <1>1, <1>2, <1>22, <1>23, <1>25, PairOn

(* The end of the for changes nothing but the phase. *)
LEMMA EndsStep ==
  ASSUME IInv, ForEnds
  PROVE  IInv'
<1>1. UNCHANGED <<traceVars, file>> /\ UNCHANGED <<pos, next_r1, r1, line, rows>>
  BY DEF ForEnds, pairVars
<1>2. Shapes /\ Matched
  BY DEF IInv
<1>3. /\ Lines' = Lines /\ Conts' = Conts /\ (NoTies' <=> NoTies)
      /\ Recorded' = Recorded /\ Located' = Located
  BY <1>1, SameFiles
<1>4. Unread' = Unread /\ Ahead' = Ahead /\ Used' = Used
  BY <1>1 DEF Unread, Ahead, Used, Conts
<1>5. phase = "for" /\ phase' = "done" /\ (line > Len(Lines) \/ next_r1 = {})
  BY DEF ForEnds, Lines
<1>6. Matched'
  <2>1. /\ line >= 1 /\ InOrder /\ RowsBehind /\ UsedBehind(line - 1)
        /\ AheadYounger /\ PairedBehind /\ RowsAreAMatching /\ OnlyStraysMispair
    BY <1>2, <1>5 DEF Matched
  <2>2. InOrder' /\ RowsBehind' /\ UsedBehind(line - 1)'
    BY <1>1, <1>3, <1>4, <2>1 DEF InOrder, RowsBehind, UsedBehind
  <2>3. AheadYounger' /\ PairedBehind'
    BY <1>1, <1>3, <1>4, <1>5, <2>1 DEF AheadYounger, PairedBehind
  <2>4. RowsAreAMatching' /\ OnlyStraysMispair'
    BY <1>1, <1>3, <2>1 DEF RowsAreAMatching, OnlyStraysMispair
  <2>. QED
    BY <1>1, <1>3, <1>5, <2>1, <2>2, <2>3, <2>4 DEF Matched, UsedBehind
<1>7. /\ pos' \in [Files -> Nat] /\ \A f \in Files : pos'[f] <= Len(file[f])
      /\ next_r1' \subseteq OpRecord /\ r1' \subseteq OpRecord /\ line' \in Nat
      /\ rows' \subseteq [rec : OpRecord, info : OpRecord]
  BY <1>1, <1>2 DEF Shapes
<1>. QED
  BY <1>1, <1>5, <1>6, <1>7, PairOn

-----------------------------------------------------------------------------
(* The results *)

(* Before the first call nothing is recorded. *)
LEMMA InitIInv == Init => IInv
<1>. SUFFICES ASSUME Init PROVE IInv
  OBVIOUS
<1>1. << >> \in Seq(OpRecord) /\ << >> \in Seq(Frame) /\ Len(<< >>) = 0
  BY EmptySeq
<1>2. buffer \in LogType /\ file \in LogType
  BY <1>1 DEF Init, LogType
<1>3. \A f \in Files : buffer[f] = << >> /\ file[f] = << >> /\ pos[f] = 0
  BY DEF Init
<1>4. \A f \in Files : Len(Log[f]) = 0
  <2>1. << >> \o << >> = << >>
    BY <1>1, ConcatEmptySeq
  <2>. QED
    BY <1>1, <1>3, <2>1 DEF Log
<1>5. WellLogged(Log)
  <2>1. Cont \subseteq Files /\ "LineInfo" \in Files /\ \A f \in Files : 1..Len(Log[f]) = {}
    BY <1>4 DEF Cont, Files
  <2>. QED
    BY <2>1 DEF WellLogged, Sorted, OncePerOp, Adjacent
<1>6. Shapes
  <2>1. 0 <= Limit /\ \A f \in Files : Len(buffer[f]) <= Limit /\ pos[f] <= Len(file[f])
    BY <1>1, <1>3, LimitAssumption
  <2>2. pos \in [Files -> Nat]
    BY DEF Init
  <2>. QED
    BY <1>1, <1>2, <2>1, <2>2 DEF Init, Shapes
<1>7. Tracing
  <2>1. 1..Len(stack) = {} /\ \A f \in Files : 1..Len(Log[f]) = {}
    BY <1>1, <1>4 DEF Init
  <2>. QED
    BY <2>1 DEF Tracing, StackOrder, StackFresh, LogPast, FlagTied
<1>8. OnDisk /\ NotPairing /\ Matched
  BY DEF Init, OnDisk, NotPairing, Matched
<1>. QED
  BY <1>5, <1>6, <1>7, <1>8 DEF IInv

(* The six parts of the invariant hold at all times: the callbacks of the  *)
(* thread keep its log in order, and records() never passes the line of a  *)
(* record it still has to pair.                                            *)
THEOREM Invariance == Spec => []IInv
<1>1. IInv /\ [Next]_vars => IInv'
  <2>. SUFFICES ASSUME IInv, [Next]_vars PROVE IInv'
    OBVIOUS
  <2>1. ASSUME NEW callee \in Callees, NEW site \in BOOLEAN, Call(callee, site) PROVE IInv'
    BY <2>1, CallStep
  <2>2. CASE Exit
    BY <2>2, ExitStep
  <2>3. CASE Return
    BY <2>3, ReturnStep
  <2>4. CASE Unwind
    BY <2>4, PopQuiet DEF Unwind
  <2>5. CASE disableRecord \/ enableRecord
    BY <2>5, SwitchStep
  <2>6. CASE ThreadEnds \/ ProcessExit
    BY <2>6, EndStep
  <2>7. CASE OpenFiles
    BY <2>7, OpenStep
  <2>8. CASE ForEnds
    BY <2>8, EndsStep
  <2>9. CASE ForSkips
    BY <2>9, SkipStep
  <2>10. CASE ForTakes
    <3>1. PICK b \in next_r1 : b.time <= Lines[line].time
      BY <2>10 DEF ForTakes, r2, Lines
    <3>2. /\ phase \in {"for", "while"} /\ phase' = "while" /\ UNCHANGED <<traceVars, file>>
          /\ line <= Len(Lines) /\ r1' = next_r1 /\ read /\ line' = line /\ rows' = rows
      BY <2>10 DEF ForTakes, Lines
    <3>. QED
      BY <3>1, <3>2, TakeStep
  <2>11. CASE WhileMoves
    <3>1. PICK a \in r1, b \in next_r1 : Closer(a, b)
      BY <2>11 DEF WhileMoves
    <3>2. /\ phase = "while" /\ phase' = "while" /\ UNCHANGED <<traceVars, file>>
          /\ r1' = next_r1 /\ read /\ line' = line /\ rows' = rows
      BY <2>11 DEF WhileMoves
    <3>3. Shapes /\ WellLogged(Log) /\ OnDisk /\ TakenRight /\ InOrder
      BY <3>2 DEF IInv, Matched
    <3>4. line \in 1..Len(Lines) /\ b.time \in Nat /\ Lines[line].time \in Nat /\ Len(Lines) \in Nat
      BY <3>2, <3>3, DiskFacts DEF TakenRight, InOrder
    <3>5. b.time <= Lines[line].time /\ line <= Len(Lines)
      BY <3>1, <3>4 DEF Closer, r2, Lines
    <3>. QED
      BY <3>2, <3>5, TakeStep
  <2>12. CASE Yield
    BY <2>12, YieldStep
  <2>13. CASE UNCHANGED vars
    <3>1. /\ UNCHANGED <<stack, ops, enable, is_sampled_container, clock, buffer, made, file, phase>>
          /\ UNCHANGED <<pos, next_r1, r1, line, rows>>
      BY <2>13 DEF vars, traceVars, pairVars
    <3>2. Shapes' /\ OnDisk' /\ NotPairing'
      BY <3>1 DEF IInv, Shapes, OnDisk, NotPairing
    <3>3. Log' = Log /\ WellLogged(Log)' /\ (LogPast => LogPast')
      BY <3>1, SameLog DEF IInv
    <3>4. Tracing'
      BY <3>1, <3>3 DEF IInv, Tracing, StackOrder, StackFresh, NothingBetween, FlagTied
    <3>5. Lines' = Lines /\ Conts' = Conts /\ (NoTies' <=> NoTies) /\ Recorded' = Recorded /\ Located' = Located
      BY <3>1, SameFiles
    <3>6. Unread' = Unread /\ Ahead' = Ahead /\ Used' = Used
      BY <3>1 DEF Unread, Ahead, Used, Conts
    <3>7. (InOrder => InOrder') /\ (RowsBehind => RowsBehind') /\ (TakenRight => TakenRight')
      BY <3>1, <3>5, <3>6 DEF InOrder, RowsBehind, TakenRight
    <3>8. (AheadYounger => AheadYounger') /\ (PairedBehind => PairedBehind')
      BY <3>1, <3>5, <3>6 DEF AheadYounger, PairedBehind
    <3>9. (RowsAreAMatching => RowsAreAMatching') /\ (OnlyStraysMispair => OnlyStraysMispair')
      BY <3>1, <3>5 DEF RowsAreAMatching, OnlyStraysMispair
    <3>10. Matched'
      BY <3>1, <3>5, <3>6, <3>7, <3>8, <3>9 DEF IInv, Matched, UsedBehind
    <3>. QED
      BY <3>2, <3>3, <3>4, <3>10 DEF IInv
  <2>. QED
    BY <2>1, <2>2, <2>3, <2>4, <2>5, <2>6, <2>7, <2>8, <2>9, <2>10, <2>11, <2>12, <2>13
       DEF Next, Pairing
<1>. QED
  BY <1>1, InitIInv, PTL DEF Spec

(* Variables keep their types: no buffer outgrows LIMIT and the selector   *)
(* never reads past the end of a file.                                     *)
THEOREM TypeCorrect == Spec => []TypeOK
<1>1. IInv => TypeOK
  BY DEF IInv, Shapes, TypeOK, LogType, Frame
<1>. QED
  BY <1>1, Invariance, PTL

(* No container record and no line info record is used by two rows, and a  *)
(* row never joins a record with an earlier line, even with equal times.   *)
THEOREM Matching == Spec => []RowsAreAMatching
<1>1. IInv => RowsAreAMatching
  <2>. SUFFICES ASSUME IInv PROVE RowsAreAMatching
    OBVIOUS
  <2>1. CASE phase \in {"trace", "open"}
    BY <2>1 DEF IInv, NotPairing, RowsAreAMatching
  <2>2. CASE phase \in {"for", "while", "done"}
    BY <2>2 DEF IInv, Matched
  <2>. QED
    BY <2>1, <2>2 DEF IInv, Shapes
<1>. QED
  BY <1>1, Invariance, PTL

(* With different time stamps, records() joins two different operations    *)
(* only if neither has its other record on disk.                           *)
THEOREM OnlyStrays == Spec => []OnlyStraysMispair
<1>1. IInv => OnlyStraysMispair
  <2>. SUFFICES ASSUME IInv PROVE OnlyStraysMispair
    OBVIOUS
  <2>1. CASE phase \in {"trace", "open"}
    BY <2>1 DEF IInv, NotPairing, OnlyStraysMispair
  <2>2. CASE phase \in {"for", "while", "done"}
    BY <2>2 DEF IInv, Matched
  <2>. QED
    BY <2>1, <2>2 DEF IInv, Shapes
<1>. QED
  BY <1>1, Invariance, PTL

(* With different time stamps, records() has found the row of every        *)
(* operation that has both its records on disk when it ends.               *)
THEOREM AllFound == Spec => []EveryPairFound
<1>1. IInv => EveryPairFound
  <2>. SUFFICES ASSUME IInv, phase = "done", NoTies, NEW op \in Recorded, op \in Located
                PROVE  \E row \in rows : row.rec.op = op /\ row.info.op = op
    BY DEF EveryPairFound
  <2>1. /\ Shapes /\ WellLogged(Log) /\ OnDisk /\ phase # "trace" /\ InOrder /\ UsedBehind(line - 1)
        /\ PairedBehind /\ (line > Len(Lines) \/ next_r1 = {})
    BY DEF IInv, Matched
  <2>2. /\ line \in Nat /\ file \in LogType /\ Len(Lines) \in Nat
        /\ \A a \in Conts : a.time \in Nat
        /\ \A j \in 1..Len(Lines) : Lines[j].time \in Nat
        /\ \A i, j \in 1..Len(Lines) : i <= j => Lines[i].time <= Lines[j].time
    BY <2>1, DiskFacts DEF Shapes
  <2>3. PICK c \in Conts : c.op = op
    BY <2>2, OpsOnDisk
  <2>4. PICK j \in 1..Len(Lines) : Lines[j].op = op
    BY <2>2, OpsOnDisk
  <2>5. j < line
    <3>. SUFFICES ASSUME ~(j < line) PROVE FALSE
      OBVIOUS
    <3>1. c \in Used
      <4>1. next_r1 = {}
        BY <2>1, <2>2
      <4>. QED
        BY <2>1, <4>1 DEF InOrder, Ahead, Used
    <3>2. PICK i \in 1..Len(Lines) : i <= line - 1 /\ c.time <= Lines[i].time
      BY <2>1, <3>1 DEF UsedBehind
    <3>3. Lines[i].time <= c.time \/ Lines[i].time >= Lines[j].time
      BY <2>1, <2>3, <2>4, Neighbours
    <3>4. c.time # Lines[i].time /\ (Lines[i].time = Lines[j].time => i = j)
      BY <2>2, NoTiesFacts
    <3>5. i < j /\ Lines[i].time <= Lines[j].time
      BY <2>2, <3>2
    <3>. QED
      BY <2>2, <3>2, <3>3, <3>4, <3>5
  <2>. QED
    BY <2>1, <2>3, <2>4, <2>5 DEF PairedBehind
<1>. QED
  BY <1>1, Invariance, PTL

(* The call of an instrumented container method that left no container     *)
(* record leaves no line info record either.                               *)
THEOREM FlagTies == Spec => LineInfoNeedsRecord
<1>1. ASSUME IInv, NEW callee \in Callees \ {"plain"}, Return, Top.callee = callee, Top.op \notin made
      PROVE  UNCHANGED <<buffer, file>>
  <2>1. phase = "trace" /\ stack # << >> /\ Top.exited
    BY <1>1 DEF Return
  <2>2. stack \in Seq(Frame) /\ FlagTied
    BY <1>1, <2>1 DEF IInv, Shapes, Tracing
  <2>3. Len(stack) \in 1..Len(stack)
    BY <2>1, <2>2, StackFacts
  <2>4. ~enable \/ ~is_sampled_container
    BY <1>1, <2>1, <2>2, <2>3 DEF FlagTied, Top
  <2>. QED
    BY <1>1, <2>4 DEF Return, addContainerLineInfoRecord
<1>2. IInv /\ [Next]_vars =>
        [\A callee \in Callees \ {"plain"} :
           Return /\ Top.callee = callee /\ Top.op \notin made => UNCHANGED <<buffer, file>>]_vars
  BY <1>1
<1>. QED
  BY <1>2, Invariance, PTL DEF Spec, LineInfoNeedsRecord

=============================================================================
