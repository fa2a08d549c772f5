--------------------------- MODULE ContainerTrace ---------------------------
(***************************************************************************)
(* Container mode, from the callbacks of one traced thread to the rows of  *)
(* table CONTAINERS.                                                       *)
(*                                                                         *)
(* native/native.cpp writes what a container operation did and where it    *)
(* was called from as two records in different files: the instrumented     *)
(* container method adds a List-Set or Map record when it exits, the       *)
(* instrumented caller adds a ContainerLineInfo record when the call has   *)
(* returned.  Nothing but their time stamps connects them.                 *)
(* scripts/build_container_db.py reads the files back and pairs them.      *)
(*                                                                         *)
(* All state of the callbacks is thread_local and files are per thread, so *)
(* one thread is the whole system here.                                    *)
(***************************************************************************)
EXTENDS Integers, Sequences, FiniteSetsExt, Functions

CONSTANTS
  MaxOps,     \* bound: container operations of the traced thread
  MaxDepth,   \* bound: operations nested in one another (HashSet.add: 2)
  MaxTies,    \* bound: readings of the clock that do not advance it
  Limit       \* LIMIT, records per buffer

ASSUME BoundsAssumption == {MaxOps, MaxDepth, MaxTies} \subseteq Nat
ASSUME LimitAssumption  == Limit \in Nat \ {0}

(***************************************************************************)
(* What the callee of an operation does on exit: add a record of one of    *)
(* two kinds, find its container is not sampled, or nothing at all (the    *)
(* actual receiver is of a class without instrumentation).                 *)
(***************************************************************************)
Callees == {"List-Set", "Map", "unsampled", "plain"}
Files   == {"List-Set", "Map", "LineInfo"}

VARIABLES
  stack,                  \* operations in progress, innermost last
  ops,                    \* operations started, numbers them
  enable,                 \* thread_local flag: recording is on
  is_sampled_container,   \* thread_local flag: last container was sampled
  clock,                  \* nanotime()
  buffer,                 \* buffer[f]: records of the Recorder in memory
  file,                   \* file[f]: records on disk
  made,                   \* operations that produced a container record
  phase,                  \* trace, for, while or done
  pos,                    \* pos[f]: records of f the selector has taken
  next_r1, r1,            \* container records in hand; a set of at most one
  line,                   \* index of the line info record in hand
  rows                    \* rows inserted into CONTAINERS

traceVars == <<stack, ops, enable, is_sampled_container, clock, buffer, made>>
pairVars  == <<pos, next_r1, r1, line, rows>>
vars == <<traceVars, file, phase, pairVars>>

Init ==
  /\ stack = << >>
  /\ ops = 0
  /\ enable = TRUE
  /\ is_sampled_container = TRUE
  /\ clock = 1
  /\ buffer = [f \in Files |-> << >>]
  /\ file = [f \in Files |-> << >>]
  /\ made = {}
  /\ phase = "trace"
  /\ pos = [f \in Files |-> 0]
  /\ next_r1 = {} /\ r1 = {}
  /\ line = 1
  /\ rows = {}

-----------------------------------------------------------------------------
(* The traced thread *)

Top == stack[Len(stack)]
Pop == SubSeq(stack, 1, Len(stack) - 1)

(* The thread runs program code, not the return path of an operation. *)
InBody == stack # << >> => ~Top.exited

(* Recorder::add: sync() first when the buffer is full. *)
add(f, r) ==
  IF Len(buffer[f]) >= Limit
  THEN /\ file' = [file EXCEPT ![f] = @ \o buffer[f]]
       /\ buffer' = [buffer EXCEPT ![f] = <<r>>]
  ELSE /\ buffer' = [buffer EXCEPT ![f] = Append(@, r)]
       /\ UNCHANGED file

(* The clock can be too coarse to tell two readings apart.  Each record    *)
(* reads it once, so what clock is behind is the number of such readings.  *)
TiesSoFar ==
  MapThenSumSet(LAMBDA f : Len(buffer[f]) + Len(file[f]), Files) - (clock - 1)

Tick ==
  \/ clock' = clock + 1
  \/ TiesSoFar < MaxTies /\ clock' = clock

(* A call of a container method, from a call site with or without callback; *)
(* calls without any callback do not matter.                                *)
Call(callee, site) ==
  /\ phase = "trace"
  /\ callee # "plain" \/ site
  /\ ops < MaxOps
  /\ Len(stack) < MaxDepth
  /\ InBody
  /\ ops' = ops + 1
  /\ stack' = Append(stack, [op |-> ops + 1, callee |-> callee, site |-> site, exited |-> FALSE])
  /\ UNCHANGED <<enable, is_sampled_container, clock, buffer, made, file, phase, pairVars>>

(* Slips a change to the code could make; each breaks a property below. *)
addContainerRecord_Sticky(op, callee) ==   \* the flag is only ever set
  IF callee = "unsampled"
  THEN UNCHANGED <<is_sampled_container, clock, buffer, file, made>>
  ELSE /\ is_sampled_container' = TRUE
       /\ add(callee, [op |-> op, time |-> clock])
       /\ made' = made \cup {op}
       /\ Tick

(* addContainerRecordList.. and addContainerRecordMap.. *)
addContainerRecord(op, callee) ==
  IF callee = "unsampled"
  THEN /\ is_sampled_container' = FALSE
       /\ UNCHANGED <<clock, buffer, file, made>>
  ELSE /\ is_sampled_container' = TRUE
       /\ add(callee, [op |-> op, time |-> clock])
       /\ made' = made \cup {op}
       /\ Tick

(* The callee exits, with its callback if it has one and recording is on. *)
Exit ==
  /\ phase = "trace"
  /\ stack # << >> /\ ~Top.exited
  /\ stack' = [stack EXCEPT ![Len(stack)].exited = TRUE]
  /\ IF Top.callee # "plain" /\ enable
     THEN addContainerRecord(Top.op, Top.callee)
     ELSE UNCHANGED <<is_sampled_container, clock, buffer, file, made>>
  /\ UNCHANGED <<ops, enable, phase, pairVars>>

addContainerLineInfoRecord(op) ==
  IF enable /\ is_sampled_container
  THEN add("LineInfo", [op |-> op, time |-> clock]) /\ Tick
  ELSE UNCHANGED <<clock, buffer, file>>

(* The call has returned; the callback of the call site comes next. *)
Return ==
  /\ phase = "trace"
  /\ stack # << >> /\ Top.exited
  /\ stack' = Pop
  /\ IF Top.site
     THEN addContainerLineInfoRecord(Top.op)
     ELSE UNCHANGED <<clock, buffer, file>>
  /\ UNCHANGED <<ops, enable, is_sampled_container, made, phase, pairVars>>

(* An exception leaves the callee and skips the callback of the call site. *)
Unwind ==
  /\ phase = "trace"
  /\ stack # << >>
  /\ stack' = Pop
  /\ UNCHANGED <<ops, enable, is_sampled_container, clock, buffer, made, file, phase, pairVars>>

(* disableRecord and enableRecord, called around addTagNewRecord. *)
disableRecord ==
  /\ phase = "trace"
  /\ enable
  /\ InBody
  /\ enable' = FALSE
  /\ UNCHANGED <<stack, ops, is_sampled_container, clock, buffer, made, file, phase, pairVars>>

enableRecord ==
  /\ phase = "trace"
  /\ ~enable
  /\ InBody
  /\ enable' = TRUE
  /\ UNCHANGED <<stack, ops, is_sampled_container, clock, buffer, made, file, phase, pairVars>>

-----------------------------------------------------------------------------
(* ContainerBufferSelector over the List-Set and the Map file *)

Left == {f \in {"List-Set", "Map"} : pos[f] < Len(file[f])}

(* min() by time; of equal ones it takes the first, List-Set. *)
Earliest(f) ==
  /\ f \in Left
  /\ \A g \in Left : file[f][pos[f] + 1].time <= file[g][pos[g] + 1].time
  /\ f = "Map" /\ "List-Set" \in Left =>
       file["Map"][pos["Map"] + 1].time < file["List-Set"][pos["List-Set"] + 1].time

read ==
  \/ /\ Left = {}
     /\ next_r1' = {}
     /\ UNCHANGED pos
  \/ \E f \in Left :
       /\ Earliest(f)
       /\ next_r1' = {file[f][pos[f] + 1]}
       /\ pos' = [pos EXCEPT ![f] = @ + 1]

-----------------------------------------------------------------------------
(* The end of the trace, and records() *)

(* Nothing of the thread is left but its files. *)
ThreadGone ==
  /\ stack' = << >> /\ ops' = 0 /\ made' = {}
  /\ enable' = TRUE /\ is_sampled_container' = TRUE /\ clock' = 1
  /\ buffer' = [f \in Files |-> << >>]
  /\ phase' = "open"

(* The thread ends: the destructors sync every buffer. *)
ThreadEnds ==
  /\ phase = "trace"
  /\ stack = << >>
  /\ file' = [f \in Files |-> file[f] \o buffer[f]]
  /\ ThreadGone
  /\ UNCHANGED pairVars

(* The process ends under the thread: the buffers are lost. *)
ProcessExit ==
  /\ phase = "trace"
  /\ ThreadGone
  /\ UNCHANGED <<file, pairVars>>

(* The first read of the selector. *)
OpenFiles ==
  /\ phase = "open"
  /\ read
  /\ phase' = "for"
  /\ UNCHANGED <<traceVars, file, r1, line, rows>>

r2 == file["LineInfo"][line]

(* No line info record is left, or no container record. *)
ForEnds ==
  /\ phase = "for"
  /\ line > Len(file["LineInfo"]) \/ next_r1 = {}
  /\ phase' = "done"
  /\ UNCHANGED <<traceVars, file, pairVars>>

ForSkips_Stops ==           \* return instead of continue
  /\ phase = "for"
  /\ line <= Len(file["LineInfo"])
  /\ \E r \in next_r1 : r.time > r2.time
  /\ phase' = "done"
  /\ UNCHANGED <<traceVars, file, pairVars>>

ForSkips_Retries ==         \* the same line is looked at again
  /\ phase = "for"
  /\ line <= Len(file["LineInfo"])
  /\ \E r \in next_r1 : r.time > r2.time
  /\ UNCHANGED vars

(* continue: the container record in hand is younger than the line. *)
ForSkips ==
  /\ phase = "for"
  /\ line <= Len(file["LineInfo"])
  /\ \E r \in next_r1 : r.time > r2.time
  /\ line' = line + 1
  /\ UNCHANGED <<traceVars, file, phase, pos, next_r1, r1, rows>>

ForTakes_Keeps ==           \* next_r1 is not read on
  /\ phase = "for"
  /\ line <= Len(file["LineInfo"])
  /\ \E r \in next_r1 : r.time <= r2.time
  /\ r1' = next_r1
  /\ phase' = "while"
  /\ UNCHANGED <<traceVars, file, line, rows, pos, next_r1>>

ForTakes ==
  /\ phase = "for"
  /\ line <= Len(file["LineInfo"])
  /\ \E r \in next_r1 : r.time <= r2.time
  /\ r1' = next_r1
  /\ read
  /\ phase' = "while"
  /\ UNCHANGED <<traceVars, file, line, rows>>

Closer_Never(a, b) == FALSE  \* the first record before the line is taken

(* The next container record is strictly closer, and still before the line. *)
Closer(a, b) == r2.time - a.time > r2.time - b.time /\ b.time < r2.time

WhileMoves ==
  /\ phase = "while"
  /\ \E a \in r1, b \in next_r1 : Closer(a, b)
  /\ r1' = next_r1
  /\ read
  /\ UNCHANGED <<traceVars, file, phase, line, rows>>

Yield ==
  /\ phase = "while"
  /\ ~\E a \in r1, b \in next_r1 : Closer(a, b)
  /\ rows' = rows \cup {[rec |-> r, info |-> r2] : r \in r1}
  /\ line' = line + 1
  /\ phase' = "for"
  /\ UNCHANGED <<traceVars, file, pos, next_r1, r1>>

Pairing == OpenFiles \/ ForEnds \/ ForSkips \/ ForTakes \/ WhileMoves \/ Yield

Next ==
  \/ \E callee \in Callees, site \in BOOLEAN : Call(callee, site)
  \/ Exit \/ Return \/ Unwind
  \/ disableRecord \/ enableRecord
  \/ ThreadEnds \/ ProcessExit
  \/ Pairing

Spec == Init /\ [][Next]_vars /\ WF_vars(Pairing)

-----------------------------------------------------------------------------

OpRecord == [op : Nat, time : Nat]

TypeOK ==
  /\ stack \in Seq([op : Nat, callee : Callees, site : BOOLEAN, exited : BOOLEAN])
  /\ ops \in Nat /\ clock \in Nat
  /\ enable \in BOOLEAN /\ is_sampled_container \in BOOLEAN
  /\ buffer \in [Files -> Seq(OpRecord)] /\ file \in [Files -> Seq(OpRecord)]
  /\ \A f \in Files : Len(buffer[f]) <= Limit /\ pos[f] <= Len(file[f])
  /\ made \subseteq Nat
  /\ phase \in {"trace", "open", "for", "while", "done"}
  /\ pos \in [Files -> Nat]
  /\ next_r1 \subseteq OpRecord /\ r1 \subseteq OpRecord
  /\ line \in Nat
  /\ rows \subseteq [rec : OpRecord, info : OpRecord]

OpsIn(f) == {r.op : r \in Range(file[f])}
Recorded == OpsIn("List-Set") \cup OpsIn("Map")   \* container record on disk
Located  == OpsIn("LineInfo")                     \* line info record on disk

(* All records on disk have time stamps of their own. *)
NoTies ==
  \A f, g \in Files : \A i \in DOMAIN file[f], j \in DOMAIN file[g] :
    file[f][i].time = file[g][j].time => f = g /\ i = j

(***************************************************************************)
(* Safety: a pairing goes wrong only between two strays: the line info of  *)
(* an operation whose container record is not on disk, and the container   *)
(* record of one whose line info is not.  Exceptions, calls from classes   *)
(* without callbacks, receivers without callbacks and buffers lost at the  *)
(* end of the process make strays, but none of them moves another          *)
(* operation to a wrong line.  Equal time stamps can.                      *)
(***************************************************************************)
OnlyStraysMispair ==
  NoTies => \A row \in rows :
    row.rec.op # row.info.op =>
      row.rec.op \notin Located /\ row.info.op \notin Recorded

(***************************************************************************)
(* Safety: when pairing ends, every operation with both records on disk    *)
(* has its row.  Warnings, skipped lines and the early return never cost   *)
(* an operation that could be paired, as long as time stamps differ.       *)
(***************************************************************************)
EveryPairFound ==
  phase = "done" /\ NoTies =>
    \A op \in Recorded \cap Located :
      \E row \in rows : row.rec.op = op /\ row.info.op = op

(***************************************************************************)
(* Safety: no record is used twice, and a row never joins an operation     *)
(* with a line that was passed before it, even when time stamps are equal. *)
(***************************************************************************)
RowsAreAMatching ==
  \A a, b \in rows :
    /\ a.rec.time <= a.info.time
    /\ a.rec.op = b.rec.op \/ a.info.op = b.info.op => a = b

(***************************************************************************)
(* Safety: the flag is_sampled_container ties the two callbacks of one     *)
(* operation together across nested operations: a call of an instrumented  *)
(* method leaves a line info record only if it left a container record.    *)
(***************************************************************************)
LineInfoNeedsRecord ==
  [][\A callee \in Callees \ {"plain"} :
       Return /\ Top.callee = callee /\ Top.op \notin made =>
         UNCHANGED <<buffer, file>>]_vars

(***************************************************************************)
(* Liveness: records() comes to an end, whatever the files hold.           *)
(***************************************************************************)
PairingTerminates == (phase = "open") ~> (phase = "done")

=============================================================================
