----------------------------- MODULE LoopDetect -----------------------------
(***************************************************************************)
(* scripts/RT_query.py: which loops over a list follow one another with    *)
(* nothing in between, and could be one loop.  The query selects get, the  *)
(* two kinds of add, addAll and remove; contains and iterator are traced   *)
(* too, but not selected, so they may lie between two loops unseen.        *)
(*                                                                         *)
(* The rows of one container come in the order of time.  A first pass      *)
(* merges calls of get with rising index from one place in the program     *)
(* into a loop and leaves of other operations in a row only the last; a    *)
(* second pass takes neighbouring long loops as a pair.  Pairs are summed  *)
(* by their two places, over all containers.                               *)
(*                                                                         *)
(* External: table CONTAINERS; its rows are chosen one by one.             *)
(***************************************************************************)
EXTENDS Integers, Sequences, FiniteSets

CONSTANTS
  Place,       \* class name and line of a call
  MaxIndex,    \* bound: largest index of a get
  MaxRows,     \* bound: rows of all containers
  MaxGroups,   \* bound: containers
  MinLoop      \* 5: gets a loop has to exceed

ASSUME LoopAssumption == Place # {} /\ {MaxIndex, MaxRows, MaxGroups, MinLoop} \subseteq Nat

LOOP_GET_OP == -2
NotTraced   == -2      \* what get_cop gives for a name that is not in the table
GetCop      == 1
OtherCop    == 2       \* add, add at, addAll, remove

VARIABLES
  get_op,      \* get_cop of get
  rows,        \* rows[g]: rows of container g
  last,        \* the operation in hand, a sequence of at most one
  out,         \* out[g]: operations the first pass has finished
  phase,       \* merge, pair or done
  hid, nth,    \* container and operation the second pass is at
  res          \* TraverseInfo by places

loopVars == <<get_op, rows, last, out, phase, hid, nth, res>>

(* get_op is a copid of the trace, or get was not traced at all. *)
LoopInit ==
  /\ get_op \in {GetCop, NotTraced}
  /\ rows = << >> /\ last = << >> /\ out = << >>
  /\ phase = "merge" /\ hid = 1 /\ nth = 1
  /\ res = << >>

-----------------------------------------------------------------------------
(* class ContainerOp *)

ContainerOp(row) == [copid |-> row.copid, v1 |-> row.v1, place |-> row.place, count |-> 1]

is_const(op) == op.copid \in {LOOP_GET_OP, get_op}

is_prev_get(prev, op) ==
  prev.v1 + 1 = op.v1 /\ op.copid = get_op /\ prev.place = op.place

add_op_for_loop(prev, op) ==
  [prev EXCEPT !.copid = LOOP_GET_OP, !.count = @ + op.count, !.v1 = @ + 1]

-----------------------------------------------------------------------------
(* The first pass *)

(* A row of the query: one of the five operations it selects, if traced. *)
Row(copid) == [copid : {copid}, v1 : IF copid = GetCop THEN 0..MaxIndex ELSE {0},
               place : IF copid = GetCop THEN Place ELSE {CHOOSE p \in Place : TRUE}]
Traced == Row(OtherCop) \cup (IF get_op = GetCop THEN Row(GetCop) ELSE {})

(* A slip a change to the script could make: other operations vanish. *)
Finished_Gets(prev, op) == is_const(prev)

(* The operation in hand is finished, unless it is swallowed by the next. *)
Finished(prev, op) == is_const(prev) \/ op.copid = get_op

Group == Len(rows)    \* the container the first pass is at
Cells == UNION {{n} \X DOMAIN rows[n] : n \in DOMAIN rows}
RowsRead == Cardinality(Cells)

(* The first row of the next container: last = None, out[hid] = []. *)
OpenGroup(row) ==
  /\ phase = "merge"
  /\ last = << >>
  /\ Group < MaxGroups /\ RowsRead < MaxRows
  /\ rows' = Append(rows, <<row>>)
  /\ out' = Append(out, << >>)
  /\ last' = <<ContainerOp(row)>>
  /\ UNCHANGED <<get_op, phase, hid, nth, res>>

MergeRow(row) ==
  /\ phase = "merge"
  /\ last # << >>
  /\ RowsRead < MaxRows
  /\ rows' = [rows EXCEPT ![Group] = Append(@, row)]
  /\ LET op == ContainerOp(row)
     IN  IF is_const(last[1]) /\ is_prev_get(last[1], op)
         THEN /\ last' = <<add_op_for_loop(last[1], op)>>
              /\ UNCHANGED out
         ELSE /\ last' = <<op>>
              /\ out' = IF Finished(last[1], op) THEN [out EXCEPT ![Group] = @ \o last] ELSE out
  /\ UNCHANGED <<get_op, phase, hid, nth, res>>

(* out[hid].append(last) *)
CloseGroup ==
  /\ phase = "merge"
  /\ last # << >>
  /\ out' = [out EXCEPT ![Group] = @ \o last]
  /\ last' = << >>
  /\ UNCHANGED <<get_op, rows, phase, hid, nth, res>>

MergeEnds ==
  /\ phase = "merge"
  /\ last = << >> /\ rows # << >>
  /\ phase' = "pair"
  /\ UNCHANGED <<get_op, rows, last, out, hid, nth, res>>

-----------------------------------------------------------------------------
(* The second pass *)

IsLoop(op) == is_const(op) /\ op.count > MinLoop

NoInfo == [prev_count |-> 0, next_count |-> 0, loop_count |-> 0]

(* res.setdefault, and the pair is added. *)
Counted(key, prev, next) ==
  LET old == IF key \in DOMAIN res THEN res[key] ELSE NoInfo
  IN  [k \in DOMAIN res \cup {key} |->
         IF k = key THEN [prev_count |-> old.prev_count + prev,
                          next_count |-> old.next_count + next,
                          loop_count |-> old.loop_count + 1]
         ELSE res[k]]

(* res with the pair a, b, if it is one. *)
Paired(a, b) ==
  IF IsLoop(a) /\ IsLoop(b) THEN Counted(<<a.place, b.place>>, a.count, b.count) ELSE res

PairOp ==
  /\ phase = "pair"
  /\ nth < Len(out[hid])
  /\ res' = Paired(out[hid][nth], out[hid][nth + 1])
  /\ nth' = nth + 1
  /\ UNCHANGED <<get_op, rows, last, out, phase, hid>>

(* Another slip: last is not set back to None. *)
NextGroup_KeepsLast ==
  /\ phase = "pair"
  /\ nth = Len(out[hid]) /\ hid < Len(out)
  /\ res' = Paired(out[hid][nth], out[hid + 1][1])
  /\ hid' = hid + 1 /\ nth' = 1
  /\ UNCHANGED <<get_op, rows, last, out, phase>>

NextGroup ==
  /\ phase = "pair"
  /\ nth = Len(out[hid]) /\ hid < Len(out)
  /\ hid' = hid + 1 /\ nth' = 1
  /\ UNCHANGED <<get_op, rows, last, out, phase, res>>

PairEnds ==
  /\ phase = "pair"
  /\ nth = Len(out[hid]) /\ hid = Len(out)
  /\ phase' = "done"
  /\ UNCHANGED <<get_op, rows, last, out, hid, nth, res>>

LoopNext ==
  \/ \E row \in Traced : OpenGroup(row) \/ MergeRow(row)
  \/ CloseGroup \/ MergeEnds \/ PairOp \/ NextGroup \/ PairEnds

LoopSpec == LoopInit /\ [][LoopNext]_loopVars

-----------------------------------------------------------------------------
(* What a loop is, said of the rows rs of a container *)

IsGet(rs, n) == rs[n].copid = GetCop

(* Row n + 1 goes on with the loop of row n. *)
GoesOn(rs, n) ==
  /\ IsGet(rs, n) /\ IsGet(rs, n + 1)
  /\ rs[n].v1 + 1 = rs[n + 1].v1
  /\ rs[n].place = rs[n + 1].place

(* From row a to row b is a loop, with nothing more to add at either end. *)
Loop(rs, a, b) ==
  /\ \A n \in a..b : IsGet(rs, n)
  /\ \A n \in a..(b - 1) : GoesOn(rs, n)
  /\ a > 1 => ~GoesOn(rs, a - 1)
  /\ b < Len(rs) => ~GoesOn(rs, b)

Loops(rs) == {ab \in (1..Len(rs)) \X (1..Len(rs)) : ab[1] <= ab[2] /\ Loop(rs, ab[1], ab[2])}
Length(ab) == ab[2] - ab[1] + 1
Long(rs)   == {ab \in Loops(rs) : Length(ab) > MinLoop}

(* Two long loops of a container with no row between them, by their places. *)
Pairs(rs, key) ==
  LET long == Long(rs)
  IN  {pq \in long \X long :
         pq[1][2] + 1 = pq[2][1] /\ key = <<rs[pq[1][1]].place, rs[pq[2][1]].place>>}

(* Those of all containers, and the gets of their first loops (side 1) or  *)
(* second loops (side 2).                                                  *)
Fusable(key) == UNION {{n} \X Pairs(rows[n], key) : n \in DOMAIN rows}
Gets(key, side) == UNION {{p} \X (p[2][side][1] .. p[2][side][2]) : p \in Fusable(key)}

(* Types, one list of operations for each container, and counts of rows. *)
LoopTypeOK ==
  /\ get_op \in {GetCop, NotTraced}
  /\ phase \in {"merge", "pair", "done"}
  /\ RowsRead <= MaxRows /\ Len(last) <= 1 /\ Len(out) = Len(rows)
  /\ \A n \in DOMAIN out : \A m \in DOMAIN out[n] :
       out[n][m].count \in 1..MaxRows /\ out[n][m].place \in Place
  /\ hid \in 1..Len(rows) \cup {1} /\ nth \in 1..MaxRows \cup {1}
  /\ DOMAIN res \subseteq Place \X Place

(* What the first pass has made of the rows of container n so far. *)
Merged(n) == IF n = Group THEN out[n] \o last ELSE out[n]

(***************************************************************************)
(* Safety: the first pass keeps every get, each in the loop it belongs to, *)
(* and keeps loops apart that something else came between: its gets are    *)
(* the maximal loops of the rows, in order, with their lengths, and two of *)
(* them are neighbours only if their rows are.                             *)
(***************************************************************************)
MergesMaximalLoops ==
  phase = "merge" => \A n \in DOMAIN rows :
    LET all   == Merged(n)
        gets  == {m \in DOMAIN all : is_const(all[m])}
        loops == Loops(rows[n])
    IN  /\ Cardinality(gets) = Cardinality(loops)
        /\ \A m \in gets : \E ab \in loops :
             /\ Cardinality({k \in gets : k < m}) =
                  Cardinality({cd \in loops : cd[2] < ab[1]})
             /\ all[m].count = Length(ab) /\ all[m].place = rows[n][ab[2]].place
             /\ m + 1 \in gets <=> ab[2] < Len(rows[n]) /\ IsGet(rows[n], ab[2] + 1)

(***************************************************************************)
(* Safety: the result is what its title says.  For every two places it     *)
(* counts exactly the pairs of long loops over one container that have no  *)
(* other of the five selected operations between them, and how many gets   *)
(* they have; no place is listed without such a pair.  That get_cop and LOOP_GET_OP share the     *)
(* value -2 makes no difference.                                           *)
(***************************************************************************)
CountsFusableLoops ==
  phase = "done" =>
    \A key \in Place \X Place :
      LET info == IF key \in DOMAIN res THEN res[key] ELSE NoInfo
      IN  /\ info.loop_count = Cardinality(Fusable(key))
          /\ info.prev_count = Cardinality(Gets(key, 1))
          /\ info.next_count = Cardinality(Gets(key, 2))
          /\ key \in DOMAIN res <=> info.loop_count > 0
=============================================================================
