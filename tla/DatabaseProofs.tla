--------------------------- MODULE DatabaseProofs ---------------------------
(***************************************************************************)
(* Proofs about Pipeline, for every trace, every list of allocations and   *)
(* classes, any number of runs and loads, and programs killed anywhere,    *)
(* and about LoopDetect, the query of the loops, for every table of        *)
(* container operations.                                                   *)
(***************************************************************************)
EXTENDS Pipeline, LoopDetect, TLAPS, SequenceTheorems, FiniteSetTheorems, FunctionTheorems,
        WellFoundedInduction

-----------------------------------------------------------------------------
(* Pipeline: the parts of the inductive invariant *)

LoadRow    == [no : 1 .. Len(Load), addr : Int]
Met        == SUBSET {"script", "addr2id"}
LoaderType == [at : 0 .. Len(Load) + 1, rows : Seq(LoadRow), met : Met]
BuildType  == [containers : [Container -> Int],
               allocations : SUBSET [id : Nat, typed : BOOLEAN],
               ended : BOOLEAN]
LoadType   == [rows : Seq(LoadRow), met : Met]

(* Every variable has a value of its kind. *)
Shapes ==
    /\ data \in [Record -> Int] /\ new \in [Object -> Nat]
    /\ \A o \in Object : new[o] \in {o, Tag[o]}
    /\ list \in [rows : 0 .. Len(ClassOf), tail : {"none", "short", "number", "absent"}]
    /\ shell \in {"idle", "addr2id", "build", "names"}
    /\ known \in [Object -> Int]
    /\ pos \in -1 .. Total
    /\ lock \in {"free", "script", "loader"}
    /\ builds \in Seq(BuildType)
    /\ names \in Seq(0 .. Classes - 1)
    /\ loader \in LoaderType
    /\ created \in BOOLEAN /\ torn \in BOOLEAN
    /\ timeline \in Seq(LoadType)
    /\ runs \in Nat /\ starts \in Nat /\ kills \in Nat

(* A run builds once and a start loads once. *)
CountedBuilds ==
    /\ Len(builds) <= runs
    /\ shell \in {"addr2id", "build"} => Len(builds) < runs
    /\ Len(timeline) <= starts
    /\ loader.at # 0 => Len(timeline) < starts

(* The lock belongs to a program that runs. *)
LockHeld ==
    /\ lock = "script" => shell \in {"build", "names"}
    /\ lock = "loader" => loader.at # 0

(* addr2id is between its first and its last look at the files. *)
Rewriting == shell = "addr2id" /\ pos >= 0

(* What addr2id has still to rewrite of the NEW files is what it read. *)
StillAsRead ==
    Rewriting => \A o \in Object : o > pos - Len(Trace) => new[o] = known[o]

(* What stands for the object o in the form f. *)
Val(f, o) == IF f = "id" THEN o ELSE Tag[o]

(* Every record on disk is in the form f. *)
Uniform(f) ==
    /\ \A r \in Record : data[r] = Val(f, Trace[r].holder)
    /\ \A o \in Object : new[o] = Val(f, o)

(* addr2id found the form f everywhere and has come to pos. *)
Advanced(f) ==
    /\ \A o \in Object : known[o] = Val(f, o)
    /\ \A r \in Record : data[r] = IF r <= pos THEN Trace[r].holder ELSE Val(f, Trace[r].holder)
    /\ \A o \in Object : new[o] = IF o <= pos - Len(Trace) THEN o ELSE Val(f, o)

(* The files are in the form f, up to the point addr2id has reached.       *)
InForm(f) == IF Rewriting THEN Advanced(f) ELSE Uniform(f)

(* Unless addr2id was killed among its rewriting, the files are in one     *)
(* form.                                                                   *)
OneForm == ~torn => \E f \in {"tag", "id"} : InForm(f)

(* After an addr2id that came to its end the scripts find everything.      *)
EndedWell ==
    shell \in {"build", "names"} /\ pos = Total =>
        /\ list = [rows |-> Len(ClassOf), tail |-> "none"]
        /\ ~torn => Uniform("id")

(* And the files hold ids from then on, whatever is killed.                *)
Settled == (\E b \in 1 .. Len(builds) : builds[b].ended) => InForm("id")

(* The first copy of the class names is in its place.                      *)
NamesInPlace ==
    names # <<>> =>
        \A c \in 0 .. Classes - 1 : c + 1 \in DOMAIN names /\ names[c + 1] = c

(* The running loader: the lock is its own from its first row on, its rows *)
(* are the last ones it came to, and it knows what it met.                 *)
LoaderRight ==
    /\ loader.at = 0 => loader.rows = <<>>
    /\ loader.rows # <<>> => lock = "loader"
    /\ loader.at # 0 => Len(loader.rows) < loader.at
    /\ \A k \in 1 .. Len(loader.rows) :
         loader.rows[k].no = loader.at - 1 - Len(loader.rows) + k
    /\ loader.at # 0 /\ lock = "script" => "script" \in loader.met
    /\ loader.at # 0 /\ "script" \notin loader.met => Len(loader.rows) = loader.at - 1

(* What it loaded is still on disk unless it met addr2id.                  *)
LoaderCurrent ==
    /\ loader.at # 0 /\ Rewriting => "addr2id" \in loader.met
    /\ "addr2id" \notin loader.met =>
         \A k \in 1 .. Len(loader.rows) : loader.rows[k].addr = ADDR0(loader.rows[k].no)

(* The rows of p that addr2id rewrites are in the form f.                  *)
RowsInForm(p, f) ==
    \A k \in 1 .. Len(p) : Load[p[k].no].from # "gc" => p[k].addr = Val(f, About(p[k].no))

(* A load that met no addr2id is in one form.                              *)
LoadedInOneForm ==
    ~torn => \A i \in 1 .. Len(timeline) :
        "addr2id" \notin timeline[i].met =>
            \E f \in {"tag", "id"} : RowsInForm(timeline[i].rows, f)

IInv ==
    /\ Shapes /\ CountedBuilds /\ LockHeld /\ StillAsRead /\ OneForm /\ EndedWell /\ Settled
    /\ NamesInPlace /\ LoaderRight /\ LoaderCurrent
    /\ RerunHeals /\ TagsOnlyAtFirst /\ LoadsAreSuffixes /\ LoadedInOneForm

-----------------------------------------------------------------------------
(* The constants *)

(* The lengths are numbers, and a record is about an object of a class.    *)
LEMMA Lengths ==
    /\ Len(Trace) \in Nat /\ Len(ClassOf) \in Nat /\ Classes \in Nat /\ Len(Load) \in Nat
    /\ Total = Len(Trace) + Len(ClassOf) /\ Total \in Nat
    /\ Object = 1 .. Len(ClassOf) /\ Record = 1 .. Len(Trace) /\ Container \subseteq Record
    /\ \A r \in Record : Trace[r].holder \in Object /\ Trace[r].time \in Nat
    /\ \A o \in Object : ClassOf[o] \in 0 .. Classes - 1
<1>1. ClassOf \in Seq(0 .. Classes - 1)
  BY PipelineAssumption
<1>. DEFINE R == [holder : 1 .. Len(ClassOf), op : {"add", "get", "use"}, size : Nat, time : Nat]
<1>2. Trace \in Seq(R)
  BY PipelineAssumption
<1>3. Classes \in Nat
  BY PipelineAssumption
<1>4. Len(ClassOf) \in Nat /\ \A o \in 1 .. Len(ClassOf) : ClassOf[o] \in 0 .. Classes - 1
  BY <1>1, LenProperties, ElementOfSeq
<1>5. /\ Len(Trace) \in Nat
      /\ \A r \in 1 .. Len(Trace) : /\ Trace[r].holder \in 1 .. Len(ClassOf)
                                     /\ Trace[r].time \in Nat
  <2>1. Len(Trace) \in Nat /\ \A r \in 1 .. Len(Trace) : Trace[r] \in R
    BY <1>2, LenProperties, ElementOfSeq
  <2>. QED
    BY <2>1
<1>6. Len(Load) \in Nat
  BY PipelineAssumption, LenProperties
<1>. QED
  BY <1>3, <1>4, <1>5, <1>6 DEF Object, Record, Container, Total

(* Tags and times of allocation tell the objects apart.                    *)
LEMMA Distinct ==
    /\ \A o \in Object : Tag[o] \in Nat /\ NewTime[o] \in Nat
    /\ Tag \in [Object -> Nat]
    /\ \A o, p \in Object : Tag[o] = Tag[p] => o = p
    /\ \A o, p \in Object : NewTime[o] = NewTime[p] => o = p
<1>1. /\ Tag \in [1 .. Len(ClassOf) -> Nat \ {0}] /\ IsInjective(Tag)
      /\ NewTime \in [1 .. Len(ClassOf) -> Nat] /\ IsInjective(NewTime)
  BY PipelineAssumption
<1>. QED
  BY <1>1 DEF IsInjective, Object

(* A loaded record is a record or an object, or none of those.             *)
LEMMA LoadedRecords ==
    ASSUME NEW i \in 1 .. Len(Load)
    PROVE  /\ Load[i].from \in {"use", "NEW", "gc"}
           /\ Load[i].from = "use" => Load[i].no \in Record
           /\ Load[i].from = "NEW" => Load[i].no \in Object
<1>. DEFINE U == { r \in 1 .. Len(Trace) : Trace[r].op = "use" }
            A == [from : {"use"}, no : U]
            B == [from : {"NEW"}, no : 1 .. Len(ClassOf)]
            C == [from : {"gc"}, no : {0}]
<1>1. Load \in Seq(A \cup B \cup C)
  BY PipelineAssumption
<1>2. Load[i] \in A \cup B \cup C
  BY <1>1, ElementOfSeq
<1>3. Load[i] \in A => Load[i].from = "use" /\ Load[i].no \in 1 .. Len(Trace)
  OBVIOUS
<1>4. Load[i] \in B => Load[i].from = "NEW" /\ Load[i].no \in 1 .. Len(ClassOf)
  OBVIOUS
<1>5. Load[i] \in C => Load[i].from = "gc"
  OBVIOUS
<1>. QED
  BY <1>2, <1>3, <1>4, <1>5 DEF Record, Object

(* What history adds to the running loader. *)
LEMMA MeetsEffect ==
    ASSUME NEW what \in {"script", "addr2id"}, loader \in LoaderType, Meets(what)
    PROVE  /\ loader' \in LoaderType
           /\ loader'.at = loader.at /\ loader'.rows = loader.rows
           /\ loader.met \subseteq loader'.met
           /\ loader.at # 0 => what \in loader'.met
           /\ loader.at = 0 => loader' = loader
BY DEF Meets, LoaderType, Met

(* There is a last one among the objects allocated by a time.              *)
LEMMA Youngest ==
    ASSUME NEW S \in SUBSET Object, S # {}, NEW time \in Nat, \A o \in S : NewTime[o] <= time
    PROVE  \E o \in S : \A p \in S : NewTime[p] <= NewTime[o]
<1>. DEFINE R == { ss \in Nat \X Nat : ss[1] < ss[2] }
            T == { time - NewTime[o] : o \in S }
<1>1. IsWellFoundedOn(R, Nat)
  BY NatLessThanWellFounded, Zenon DEF OpToRel
<1>2. \A o \in S : NewTime[o] \in Nat /\ time - NewTime[o] \in Nat
  BY Distinct
<1>3. T \subseteq Nat /\ T # {}
  BY <1>2
<1>. HIDE DEF R, T
<1>4. PICK x \in T : \A y \in T : ~(<<y, x>> \in R)
  BY <1>1, <1>3, WFMin
<1>5. PICK o \in S : x = time - NewTime[o]
  BY DEF T
<1>6. ASSUME NEW p \in S PROVE NewTime[p] <= NewTime[o]
  <2>1. time - NewTime[p] \in T
    BY DEF T
  <2>2. <<time - NewTime[p], x>> \notin R /\ x \in Nat /\ time - NewTime[p] \in Nat
    BY <1>2, <1>3, <1>4, <2>1
  <2>3. ~(time - NewTime[p] < x)
    BY <2>2 DEF R
  <2>. QED
    BY <1>2, <1>5, <2>3
<1>. QED
  BY <1>6

(* The map answers with an object or with none.                            *)
LEMMA QueryType ==
    ASSUME NEW number, NEW time \in Nat
    PROVE  query(number, time) \in Object \cup {NONE}
<1>. DEFINE of == { o \in Object : known[o] = number }
            before == { o \in of : NewTime[o] <= time }
<1>1. CASE \E o \in of : of = {o}
  BY <1>1 DEF query
<1>2. CASE ~(\E o \in of : of = {o}) /\ before = {}
  BY <1>2 DEF query
<1>3. CASE ~(\E o \in of : of = {o}) /\ before # {}
  <2>1. query(number, time) = CHOOSE o \in before : \A p \in before : NewTime[p] <= NewTime[o]
    BY <1>3 DEF query
  <2>2. before \in SUBSET Object /\ \A o \in before : NewTime[o] <= time
    OBVIOUS
  <2>. HIDE DEF before
  <2>3. \E o \in before : \A p \in before : NewTime[p] <= NewTime[o]
    BY <1>3, <2>2, Youngest
  <2>. QED
    BY <2>1, <2>2, <2>3
<1>. QED
  BY <1>1, <1>2, <1>3

(* A number that one NEW record had is of that object. *)
LEMMA QueryOnly ==
    ASSUME NEW o \in Object, NEW time, \A p \in Object : known[p] = known[o] => p = o
    PROVE  query(known[o], time) = o
<1>1. { p \in Object : known[p] = known[o] } = {o}
  OBVIOUS
<1>. QED
  BY <1>1 DEF query

(* At the time of its allocation the number of an object is its own. *)
LEMMA QueryOwn ==
    ASSUME NEW o \in Object
    PROVE  query(known[o], NewTime[o]) = o
<1>. DEFINE of == { p \in Object : known[p] = known[o] }
            before == { p \in of : NewTime[p] <= NewTime[o] }
<1>1. CASE \E p \in of : of = {p}
  <2>1. of = {o}
    BY <1>1
  <2>. QED
    BY <2>1 DEF query
<1>2. CASE ~\E p \in of : of = {p}
  <2>1. NewTime[o] \in Nat /\ o \in before
    BY Distinct
  <2>2. query(known[o], NewTime[o]) =
          CHOOSE q \in before : \A p \in before : NewTime[p] <= NewTime[q]
    BY <1>2, <2>1 DEF query
  <2>3. \A p \in before : p \in Object /\ NewTime[p] \in Nat /\ NewTime[p] <= NewTime[o]
    BY Distinct
  <2>. HIDE DEF before
  <2>4. PICK q \in before : q = query(known[o], NewTime[o]) /\ NewTime[o] <= NewTime[q]
    BY <2>1, <2>2, <2>3
  <2>5. NewTime[q] = NewTime[o]
    BY <2>1, <2>3, <2>4
  <2>. QED
    BY <2>3, <2>4, <2>5, Distinct
<1>. QED
  BY <1>1, <1>2

(* In one form no two objects have the same number. *)
LEMMA ValApart ==
    ASSUME NEW f \in {"tag", "id"}, NEW o \in Object
    PROVE  /\ Val(f, o) \in Nat /\ Val(f, o) \in {o, Tag[o]}
           /\ \A p \in Object : Val(f, p) = Val(f, o) => p = o
BY Distinct, Lengths DEF Val

-----------------------------------------------------------------------------
(* One lemma for each part of the invariant *)

(* The initial values are of their kinds. *)
LEMMA InitShapes == Init => Shapes
<1>. SUFFICES ASSUME Init PROVE Shapes
  OBVIOUS
<1>. USE Lengths
<1>1. /\ data \in [Record -> Int] /\ new \in [Object -> Nat] /\ known \in [Object -> Int]
      /\ \A o \in Object : new[o] \in {o, Tag[o]}
  BY Distinct DEF Init, NoMap, NONE
<1>2. loader \in LoaderType
  BY DEF Init, LoaderType, NotRunning, Met
<1>3. list \in [rows : 0 .. Len(ClassOf), tail : {"none", "short", "number", "absent"}]
  BY DEF Init, Absent
<1>4. builds \in Seq(BuildType) /\ names \in Seq(0 .. Classes - 1) /\ timeline \in Seq(LoadType)
  BY EmptySeq DEF Init
<1>5. -1 \in -1 .. Total
  OBVIOUS
<1>. QED
  BY <1>1, <1>2, <1>3, <1>4, <1>5 DEF Init, Shapes

(* What build_container_db.py adds. *)
NewBuild == [containers |-> [r \in Container |-> data[r]], allocations |-> Allocations,
             ended |-> pos = Total /\ ~torn]

(* What csv2db adds. *)
NewRow == [no |-> loader.at, addr |-> ADDR0(loader.at)]

(* A loaded record holds a number. *)
LEMMA ADDR0Type ==
    ASSUME Shapes, NEW i \in 1 .. Len(Load)
    PROVE  ADDR0(i) \in Int
<1>1. /\ Load[i].from \in {"use", "NEW", "gc"}
      /\ Load[i].from = "use" => Load[i].no \in Record
      /\ Load[i].from = "NEW" => Load[i].no \in Object
  BY LoadedRecords
<1>2. data \in [Record -> Int] /\ new \in [Object -> Nat]
  BY DEF Shapes
<1>. QED
  BY <1>1, <1>2 DEF ADDR0, RAW

(* Every step keeps the kinds of the values. *)
LEMMA ShapesStep ==
    ASSUME IInv, [Next]_vars
    PROVE  Shapes'
<1>. USE Lengths
<1>a. Shapes /\ StillAsRead
  BY DEF IInv
<1>1. CASE UNCHANGED vars
  BY <1>1, <1>a DEF vars, files, db, users, Shapes
<1>2. CASE build_container
  <2>1. pos' \in -1 .. Total /\ shell' = "addr2id" /\ runs' \in Nat
    BY <1>2, <1>a DEF build_container, Shapes
  <2>. QED
    BY <1>2, <1>a, <2>1 DEF build_container, files, db, Shapes
<1>3. CASE build_addr_map
  <2>1. loader' \in LoaderType
    BY <1>3, <1>a, MeetsEffect DEF build_addr_map, Shapes
  <2>2. known' \in [Object -> Int]
    BY <1>3, <1>a DEF build_addr_map, Shapes
  <2>. QED
    BY <1>3, <1>a, <2>1, <2>2 DEF build_addr_map, db, users, Shapes
<1>4. CASE RewriteData
  <2>1. loader' \in LoaderType
    BY <1>4, <1>a, MeetsEffect DEF RewriteData, Shapes
  <2>2. pos + 1 \in Record
    BY <1>4, <1>a DEF RewriteData, Shapes
  <2>3. data' \in [Record -> Int]
    <3>1. query(data[pos + 1], Trace[pos + 1].time) \in Object \cup {NONE}
      BY <2>2, QueryType
    <3>2. query(data[pos + 1], Trace[pos + 1].time) \in Int
      BY <3>1 DEF NONE
    <3>. QED
      BY <1>4, <1>a, <2>2, <3>2 DEF RewriteData, Shapes
  <2>4. pos' \in -1 .. Total
    BY <1>4, <1>a DEF RewriteData, Shapes
  <2>. QED
    BY <1>4, <1>a, <2>1, <2>3, <2>4 DEF RewriteData, db, users, Shapes
<1>5. CASE RewriteNew
  <2>1. loader' \in LoaderType
    BY <1>5, <1>a, MeetsEffect DEF RewriteNew, Shapes
  <2>2. pos - Len(Trace) + 1 \in Object /\ Rewriting /\ pos' \in -1 .. Total
    BY <1>5, <1>a DEF RewriteNew, Shapes, Rewriting
  <2>3. known[pos - Len(Trace) + 1] = new[pos - Len(Trace) + 1]
    <3>1. pos \in Int /\ pos - Len(Trace) + 1 > pos - Len(Trace)
      BY <1>a DEF Shapes
    <3>. QED
      BY <1>a, <2>2, <3>1 DEF StillAsRead
  <2>4. new' \in [Object -> Nat] /\ \A o \in Object : new'[o] \in {o, Tag[o]}
    <3>. DEFINE o == pos - Len(Trace) + 1
    <3>1. query(new[o], NewTime[o]) = o
      BY <2>2, <2>3, QueryOwn
    <3>2. new' = [new EXCEPT ![o] = o]
      BY <1>5, <3>1 DEF RewriteNew
    <3>. QED
      BY <1>a, <2>2, <3>2 DEF Shapes
  <2>. QED
    BY <1>5, <1>a, <2>1, <2>2, <2>4 DEF RewriteNew, db, users, Shapes
<1>6. CASE CloseList
  <2>1. loader' \in LoaderType
    BY <1>6, <1>a, MeetsEffect DEF CloseList, Shapes
  <2>2. known' \in [Object -> Int]
    BY <1>6 DEF CloseList, NoMap, NONE
  <2>. QED
    BY <1>6, <1>a, <2>1, <2>2 DEF CloseList, db, users, Shapes
<1>7. CASE Killed_addr2id
  <2>1. known' \in [Object -> Int]
    BY <1>7 DEF Killed_addr2id, NoMap, NONE
  <2>2. list' \in [rows : 0 .. Len(ClassOf), tail : {"none", "short", "number", "absent"}]
    BY <1>7, <1>a DEF Killed_addr2id, Shapes
  <2>3. shell' \in {"idle", "addr2id", "build", "names"} /\ kills' \in Nat /\ torn' \in BOOLEAN
    BY <1>7, <1>a DEF Killed_addr2id, Then, Shapes
  <2>. QED
    BY <1>7, <1>a, <2>1, <2>2, <2>3 DEF Killed_addr2id, db, users, Shapes
<1>8. CASE ScriptBegins
  <2>1. loader' \in LoaderType
    BY <1>8, <1>a, MeetsEffect DEF ScriptBegins, Shapes
  <2>. QED
    BY <1>8, <1>a, <2>1 DEF ScriptBegins, files, db, users, Shapes
<1>9. CASE ScriptTimesOut
  BY <1>9, <1>a DEF ScriptTimesOut, After, files, db, users, Shapes
<1>10. CASE build_container_db
  <2>1. Allocations \in SUBSET [id : Nat, typed : BOOLEAN]
    <3>. DEFINE final == list.rows + IF list.tail = "number" THEN 1 ELSE 0
    <3>1. list.rows \in Nat /\ final \in Nat
      BY <1>a DEF Shapes
    <3>2. ASSUME NEW o \in 1 .. final
          PROVE  [id |-> o, typed |-> o <= list.rows] \in [id : Nat, typed : BOOLEAN]
      <4>1. o \in Nat /\ (o <= list.rows) \in BOOLEAN
        BY <3>1
      <4>. QED
        BY <4>1, Zenon
    <3>. QED
      BY <3>2 DEF Allocations
  <2>2. NewBuild \in BuildType
    <3>1. [r \in Container |-> data[r]] \in [Container -> Int]
      BY <1>a DEF Shapes
    <3>2. (pos = Total /\ ~torn) \in BOOLEAN
      OBVIOUS
    <3>. QED
      BY <2>1, <3>1, <3>2, Zenon DEF BuildType, NewBuild
  <2>3. builds' \in Seq(BuildType)
    BY <1>10, <1>a, <2>2 DEF build_container_db, NewBuild, Shapes
  <2>. QED
    BY <1>10, <1>a, <2>3 DEF build_container_db, After, files, users, Shapes
<1>11. CASE build_container_db_Raises
  BY <1>11, <1>a DEF build_container_db_Raises, After, files, db, users, Shapes
<1>12. CASE csv2db_py
  <2>1. ClassNames \in Seq(0 .. Classes - 1)
    BY DEF ClassNames
  <2>2. names' \in Seq(0 .. Classes - 1)
    BY <1>12, <1>a, <2>1, ConcatProperties DEF csv2db_py, Shapes
  <2>. QED
    BY <1>12, <1>a, <2>2 DEF csv2db_py, After, files, users, Shapes
<1>13. CASE Killed_script
  <2>1. shell' \in {"idle", "addr2id", "build", "names"} /\ kills' \in Nat
        /\ lock' \in {"free", "script", "loader"}
    BY <1>13, <1>a DEF Killed_script, Then, After, Shapes
  <2>. QED
    BY <1>13, <1>a, <2>1 DEF Killed_script, files, db, Shapes
<1>14. CASE LoaderStarts
  <2>1. loader' \in LoaderType
    BY <1>14, <1>a DEF LoaderStarts, LoaderType, Met
  <2>. QED
    BY <1>14, <1>a, <2>1 DEF LoaderStarts, files, Shapes
<1>15. CASE LoaderRefused
  BY <1>15, <1>a DEF LoaderRefused, files, db, Shapes
<1>16. CASE load_timeline
  <2>1. loader.at \in 1 .. Len(Load) /\ NewRow \in LoadRow
    BY <1>16, <1>a, ADDR0Type DEF load_timeline, LoadRow, NewRow
  <2>2. Append(loader.rows, NewRow) \in Seq(LoadRow)
    BY <1>a, <2>1 DEF Shapes, LoaderType
  <2>3. loader.at + 1 \in 0 .. Len(Load) + 1
    BY <2>1
  <2>4. [loader EXCEPT !.at = @ + 1] \in LoaderType
    BY <1>a, <2>3 DEF LoaderType, Shapes
  <2>5. [loader EXCEPT !.at = @ + 1, !.rows = Append(@, NewRow)] \in LoaderType
    BY <1>a, <2>2, <2>3 DEF LoaderType, Shapes
  <2>6. loader' \in LoaderType /\ lock' \in {"free", "script", "loader"}
    BY <1>16, <1>a, <2>4, <2>5 DEF load_timeline, NewRow, Shapes
  <2>. QED
    BY <1>16, <1>a, <2>6 DEF load_timeline, files, db, users, Shapes
<1>17. CASE COMMIT
  <2>1. loader' \in LoaderType
    BY <1>17 DEF COMMIT, NotRunning, LoaderType, Met
  <2>2. [rows |-> loader.rows, met |-> loader.met] \in LoadType
    BY <1>a DEF Shapes, LoadType, LoaderType
  <2>3. timeline' \in Seq(LoadType)
    BY <1>17, <1>a, <2>2 DEF COMMIT, Shapes
  <2>. QED
    BY <1>17, <1>a, <2>1, <2>3 DEF COMMIT, files, users, Shapes
<1>18. CASE Killed_loader
  <2>1. loader' \in LoaderType
    BY <1>18 DEF Killed_loader, NotRunning, LoaderType, Met
  <2>. QED
    BY <1>18, <1>a, <2>1 DEF Killed_loader, files, db, Shapes
<1>. QED
  BY <1>1, <1>2, <1>3, <1>4, <1>5, <1>6, <1>7, <1>8, <1>9, <1>10, <1>11, <1>12, <1>13,
     <1>14, <1>15, <1>16, <1>17, <1>18 DEF Next, addr2id, Script, Loader

(* Runs and loads are counted, and the lock changes hands properly. *)
LEMMA CountedStep ==
    ASSUME IInv, [Next]_vars
    PROVE  CountedBuilds' /\ LockHeld'
<1>. USE Lengths
<1>a. Shapes /\ CountedBuilds /\ LockHeld
  BY DEF IInv
<1>b. /\ Len(builds) \in Nat /\ Len(timeline) \in Nat
      /\ loader \in LoaderType
  BY <1>a DEF Shapes
<1>1. CASE UNCHANGED vars
  BY <1>1, <1>a DEF vars, files, db, users, CountedBuilds, LockHeld
<1>2. CASE build_container
  BY <1>2, <1>a, <1>b DEF build_container, files, db, CountedBuilds, LockHeld, Shapes
<1>3. CASE addr2id
  <2>1. /\ loader'.at = loader.at
        /\ UNCHANGED <<lock, builds, timeline, runs, starts>>
        /\ shell = "addr2id" /\ shell' \in {"addr2id", "build"}
    BY <1>3, <1>b, MeetsEffect
       DEF addr2id, build_addr_map, RewriteData, RewriteNew, CloseList, db, users
  <2>. QED
    BY <2>1, <1>a DEF CountedBuilds, LockHeld
<1>4. CASE Killed_addr2id
  <2>1. /\ UNCHANGED <<loader, lock, builds, timeline, runs, starts>>
        /\ shell = "addr2id" /\ shell' \in {"build", "idle"}
    BY <1>4 DEF Killed_addr2id, Then, db
  <2>. QED
    BY <2>1, <1>a DEF CountedBuilds, LockHeld
<1>5. CASE ScriptBegins
  <2>1. loader'.at = loader.at
    BY <1>5, <1>b, MeetsEffect DEF ScriptBegins
  <2>. QED
    BY <2>1, <1>5, <1>a DEF ScriptBegins, db, users, CountedBuilds, LockHeld
<1>6. CASE ScriptTimesOut \/ build_container_db_Raises
  BY <1>6, <1>a DEF ScriptTimesOut, build_container_db_Raises, After, db, users, CountedBuilds, LockHeld
<1>7. CASE build_container_db
  <2>1. Len(builds') = Len(builds) + 1
    BY <1>7, <1>a DEF build_container_db, Shapes
  <2>2. runs \in Nat /\ Len(builds) < runs
    BY <1>7, <1>a DEF build_container_db, CountedBuilds, Shapes
  <2>. QED
    BY <2>1, <2>2, <1>7, <1>a, <1>b DEF build_container_db, After, users, CountedBuilds, LockHeld
<1>8. CASE csv2db_py
  BY <1>8, <1>a DEF csv2db_py, After, users, CountedBuilds, LockHeld
<1>9. CASE Killed_script
  BY <1>9, <1>a DEF Killed_script, Then, After, Writing, db, CountedBuilds, LockHeld
<1>10. CASE LoaderStarts
  <2>1. loader'.at = 1
    BY <1>10 DEF LoaderStarts
  <2>2. starts' = starts + 1 /\ UNCHANGED <<lock, shell, builds, timeline, runs>>
    BY <1>10 DEF LoaderStarts
  <2>3. starts \in Nat
    BY <1>a DEF Shapes
  <2>. QED
    BY <2>1, <2>2, <2>3, <1>a, <1>b DEF CountedBuilds, LockHeld
<1>11. CASE LoaderRefused
  <2>1. starts' = starts + 1 /\ UNCHANGED <<lock, loader, shell, builds, timeline, runs>>
    BY <1>11 DEF LoaderRefused, db
  <2>2. starts \in Nat
    BY <1>a DEF Shapes
  <2>. QED
    BY <2>1, <2>2, <1>a, <1>b DEF CountedBuilds, LockHeld
<1>12. CASE load_timeline
  <2>1. loader.at \in 1 .. Len(Load) /\ loader'.at = loader.at + 1
    BY <1>12, <1>b DEF load_timeline, LoaderType
  <2>2. loader.at # 0 /\ loader'.at # 0
    BY <2>1
  <2>. QED
    BY <2>2, <1>12, <1>a DEF load_timeline, db, users, CountedBuilds, LockHeld
<1>13. CASE COMMIT
  <2>1. loader'.at = 0 /\ loader.at # 0
    BY <1>13 DEF COMMIT, NotRunning
  <2>2. Len(timeline') = Len(timeline) + 1
    BY <1>13, <1>a DEF COMMIT, Shapes
  <2>3. starts \in Nat /\ Len(timeline) < starts
    BY <2>1, <1>a DEF CountedBuilds, Shapes
  <2>. QED
    BY <2>1, <2>2, <2>3, <1>13, <1>a, <1>b DEF COMMIT, users, CountedBuilds, LockHeld
<1>14. CASE Killed_loader
  <2>1. loader'.at = 0
    BY <1>14 DEF Killed_loader, NotRunning
  <2>. QED
    BY <2>1, <1>14, <1>a DEF Killed_loader, db, CountedBuilds, LockHeld
<1>. QED
  BY <1>1, <1>2, <1>3, <1>4, <1>5, <1>6, <1>7, <1>8, <1>9, <1>10, <1>11, <1>12, <1>13,
     <1>14 DEF Next, Script, Loader

(* What no step but those of addr2id touches. *)
Elsewhere ==
    /\ UNCHANGED <<data, new, list, torn, known>>
    /\ \/ UNCHANGED <<shell, pos>>
       \/ shell' = "addr2id" /\ pos' = -1 /\ shell = "idle"
       \/ shell \in {"build", "names"} /\ shell' \in {"names", "idle"} /\ pos' = pos

(* The other steps start addr2id, or leave it and its files alone. *)
LEMMA Others ==
    ASSUME [Next]_vars, ~addr2id, ~Killed_addr2id
    PROVE  Elsewhere
<1>1. CASE UNCHANGED vars
  BY <1>1 DEF vars, files, Elsewhere
<1>2. CASE build_container
  BY <1>2 DEF build_container, files, Elsewhere
<1>3. CASE Script
  BY <1>3 DEF Script, ScriptBegins, ScriptTimesOut, build_container_db,
              build_container_db_Raises, csv2db_py, After, files, Elsewhere
<1>4. CASE Killed_script
  BY <1>4 DEF Killed_script, Then, After, files, Elsewhere
<1>5. CASE LoaderStarts \/ LoaderRefused
  BY <1>5 DEF LoaderStarts, LoaderRefused, files, Elsewhere
<1>6. CASE Loader \/ Killed_loader
  BY <1>6 DEF Loader, load_timeline, COMMIT, Killed_loader, files, Elsewhere
<1>. QED
  BY <1>1, <1>2, <1>3, <1>4, <1>5, <1>6 DEF Next

(* At its end addr2id has turned everything into ids. *)
LEMMA AdvancedToEnd ==
    ASSUME Shapes, NEW f, Advanced(f), pos = Total
    PROVE  Uniform("id")
<1>1. \A r \in Record : r <= pos
  BY Lengths
<1>2. \A o \in Object : o <= pos - Len(Trace)
  BY Lengths
<1>. QED
  BY <1>1, <1>2 DEF Advanced, Uniform, Val

(* A form addr2id finds lasts, or becomes ids; only a killed rewriting of  *)
(* tags mixes the two.                                                     *)
LEMMA FormKept ==
    ASSUME Shapes, StillAsRead, [Next]_vars, NEW f \in {"tag", "id"}, InForm(f), ~torn' \/ f = "id"
    PROVE  \E g \in {f, "id"} : InForm(g)'
<1>. USE Lengths
<1>b. /\ data \in [Record -> Int] /\ new \in [Object -> Nat]
      /\ pos \in -1 .. Total /\ torn \in BOOLEAN
  BY DEF Shapes
<1>1. CASE Elsewhere
  <2>1. ~Rewriting' \/ (Rewriting /\ UNCHANGED <<shell, pos>>)
    BY <1>1, <1>b DEF Elsewhere, Rewriting
  <2>2. Rewriting => Rewriting'
    BY <1>1 DEF Elsewhere, Rewriting
  <2>3. CASE Rewriting
    <3>1. Advanced(f)'
      BY <1>1, <2>1, <2>2, <2>3 DEF Elsewhere, InForm, Advanced
    <3>. QED
      BY <2>2, <2>3, <3>1 DEF InForm
  <2>4. CASE ~Rewriting
    <3>1. Uniform(f)' /\ ~Rewriting'
      BY <1>1, <2>1, <2>4 DEF Elsewhere, InForm, Uniform
    <3>. QED
      BY <3>1 DEF InForm
  <2>. QED
    BY <2>3, <2>4
<1>2. CASE build_addr_map
  <2>1. Rewriting' /\ ~Rewriting /\ known' = new /\ pos' = 0
        /\ UNCHANGED <<data, new, torn, shell>> /\ shell = "addr2id"
    BY <1>2, <1>b DEF build_addr_map, Rewriting
  <2>2. Uniform(f)
    BY <2>1 DEF InForm
  <2>3. Advanced(f)'
    BY <2>1, <2>2, <1>b DEF Uniform, Advanced
  <2>. QED
    BY <2>1, <2>3 DEF InForm
<1>3. CASE RewriteData
  <2>. DEFINE r == pos + 1
              h == Trace[r].holder
  <2>1. /\ Rewriting /\ Rewriting' /\ shell = "addr2id" /\ pos' = pos + 1
        /\ UNCHANGED <<new, torn, shell, known>>
        /\ r \in Record /\ h \in Object /\ pos' <= Len(Trace)
    BY <1>3, <1>b DEF RewriteData, Rewriting
  <2>2. Advanced(f)
    BY <2>1 DEF InForm
  <2>3. data[r] = Val(f, h) /\ known[h] = Val(f, h)
    BY <2>1, <2>2, <1>b DEF Advanced
  <2>4. \A p \in Object : known[p] = known[h] => p = h
    BY <2>1, <2>2, ValApart DEF Advanced
  <2>5. query(data[r], Trace[r].time) = h
    <3>1. h \in Object /\ data[r] = known[h]
      BY <2>1, <2>3
    <3>. HIDE DEF h
    <3>2. query(known[h], Trace[r].time) = h
      BY <2>4, <3>1, QueryOnly
    <3>. QED
      BY <3>1, <3>2
  <2>6. data' = [data EXCEPT ![r] = h]
    BY <1>3, <2>5 DEF RewriteData
  <2>7. Advanced(f)'
    <3>1. \A q \in Record : data'[q] = IF q <= pos' THEN Trace[q].holder ELSE Val(f, Trace[q].holder)
      BY <2>1, <2>2, <2>6, <1>b DEF Advanced
    <3>2. \A o \in Object : ~(o <= pos' - Len(Trace)) /\ ~(o <= pos - Len(Trace))
      BY <2>1, <1>b
    <3>. QED
      BY <2>1, <2>2, <3>1, <3>2 DEF Advanced
  <2>. QED
    BY <2>1, <2>7 DEF InForm
<1>4. CASE RewriteNew
  <2>. DEFINE o == pos - Len(Trace) + 1
  <2>1. /\ Rewriting /\ Rewriting' /\ shell = "addr2id" /\ pos' = pos + 1
        /\ UNCHANGED <<data, torn, shell, known>>
        /\ o \in Object /\ pos >= Len(Trace)
    BY <1>4, <1>b DEF RewriteNew, Rewriting
  <2>2. Advanced(f)
    BY <2>1 DEF InForm
  <2>3. known[o] = new[o]
    <3>1. o > pos - Len(Trace)
      BY <1>b
    <3>. QED
      BY <2>1, <3>1 DEF StillAsRead
  <2>4. new' = [new EXCEPT ![o] = o]
    BY <1>4, <2>1, <2>3, QueryOwn DEF RewriteNew
  <2>5. Advanced(f)'
    <3>1. \A p \in Object : new'[p] = IF p <= pos' - Len(Trace) THEN p ELSE Val(f, p)
      BY <2>1, <2>2, <2>4, <1>b DEF Advanced
    <3>2. \A q \in Record : q <= pos /\ q <= pos'
      BY <2>1, <1>b
    <3>. QED
      BY <2>1, <2>2, <3>1, <3>2 DEF Advanced
  <2>. QED
    BY <2>1, <2>5 DEF InForm
<1>5. CASE CloseList
  <2>1. Rewriting /\ ~Rewriting' /\ pos = Total /\ UNCHANGED <<data, new>>
    BY <1>5, <1>b DEF CloseList, Rewriting
  <2>2. Uniform("id")
    <3>1. Advanced(f)
      BY <2>1 DEF InForm
    <3>. QED
      BY <2>1, <3>1, AdvancedToEnd
  <2>3. Uniform("id")'
    BY <2>1, <2>2 DEF Uniform
  <2>. QED
    BY <2>1, <2>3 DEF InForm
<1>6. CASE Killed_addr2id
  <2>1. /\ ~Rewriting' /\ UNCHANGED <<data, new>> /\ shell = "addr2id"
        /\ torn' = (torn \/ (pos \in 1 .. Total - 1 /\ \E o \in Object : known[o] # o))
    BY <1>6 DEF Killed_addr2id, Rewriting
  <2>2. Uniform(f) \/ Uniform("id")
    <3>1. CASE ~Rewriting
      BY <3>1 DEF InForm
    <3>2. CASE Rewriting /\ pos = 0
      BY <3>2 DEF InForm, Advanced, Uniform
    <3>3. CASE Rewriting /\ pos = Total
      BY <3>3, AdvancedToEnd DEF InForm
    <3>4. CASE Rewriting /\ pos \in 1 .. Total - 1
      <4>1. Advanced(f)
        BY <3>4 DEF InForm
      <4>2. \A o \in Object : Val(f, o) = o
        <5>1. CASE f = "id"
          BY <5>1 DEF Val
        <5>2. CASE ~torn'
          <6>1. \A o \in Object : known[o] = o
            BY <2>1, <3>4, <5>2, Zenon
          <6>. QED
            BY <4>1, <6>1 DEF Advanced
        <5>. QED
          BY <5>1, <5>2
      <4>. QED
        BY <4>1, <4>2 DEF Advanced, Uniform
    <3>. QED
      BY <3>1, <3>2, <3>3, <3>4, <1>b DEF Rewriting
  <2>3. Uniform(f)' \/ Uniform("id")'
    BY <2>1, <2>2 DEF Uniform
  <2>. QED
    BY <2>1, <2>3 DEF InForm
<1>. QED
  BY <1>1, <1>2, <1>3, <1>4, <1>5, <1>6, Others DEF addr2id

(* A torn rewriting is never forgotten. *)
LEMMA TornStays ==
    ASSUME Shapes, [Next]_vars, ~torn'
    PROVE  ~torn
<1>1. torn \in BOOLEAN
  BY DEF Shapes
<1>2. CASE addr2id
  BY <1>2 DEF addr2id, build_addr_map, RewriteData, RewriteNew, CloseList
<1>3. CASE Killed_addr2id
  <2>1. torn' = (torn \/ (pos \in 1 .. Total - 1 /\ \E o \in Object : known[o] # o))
    BY <1>3 DEF Killed_addr2id
  <2>. QED
    BY <2>1, <1>1, Zenon
<1>4. CASE Elsewhere
  BY <1>4 DEF Elsewhere
<1>. QED
  BY <1>2, <1>3, <1>4, Others

(* Every build but that of build_container_db stays as it is.              *)
LEMMA BuildsStay ==
    ASSUME [Next]_vars, ~build_container_db
    PROVE  builds' = builds
BY DEF Next, vars, db, build_container, addr2id, build_addr_map, RewriteData, RewriteNew,
   CloseList, Killed_addr2id, Script, ScriptBegins, ScriptTimesOut, csv2db_py,
   build_container_db_Raises, Killed_script, LoaderStarts, LoaderRefused, Loader,
   load_timeline, COMMIT, Killed_loader

(* A build is added behind the others. *)
LEMMA BuildAdded ==
    ASSUME Shapes, build_container_db
    PROVE  /\ Len(builds) \in Nat /\ DOMAIN builds = 1 .. Len(builds)
           /\ Len(builds') = Len(builds) + 1 /\ DOMAIN builds' = 1 .. Len(builds) + 1
           /\ \A i \in 1 .. Len(builds) : builds'[i] = builds[i]
           /\ builds'[Len(builds) + 1] = NewBuild
           /\ NewBuild.ended <=> pos = Total /\ ~torn
           /\ NewBuild.allocations = Allocations
           /\ \A r \in Container : NewBuild.containers[r] = data[r]
<1>1. builds \in Seq(BuildType) /\ builds' = Append(builds, NewBuild)
  BY DEF Shapes, build_container_db, NewBuild
<1>2. NewBuild.ended = (pos = Total /\ ~torn)
  BY Zenon DEF NewBuild
<1>3. NewBuild.allocations = Allocations /\ \A r \in Container : NewBuild.containers[r] = data[r]
  BY DEF NewBuild
<1>4. NewBuild.ended <=> pos = Total /\ ~torn
  BY <1>2, Zenon
<1>. QED
  BY <1>1, <1>3, <1>4

(* The form of the files, as far as addr2id has come. *)
LEMMA FormStep ==
    ASSUME IInv, [Next]_vars
    PROVE  StillAsRead' /\ OneForm' /\ EndedWell' /\ Settled'
<1>. USE Lengths
<1>a. Shapes /\ StillAsRead /\ OneForm /\ EndedWell /\ Settled
  BY DEF IInv
<1>b. /\ data \in [Record -> Int] /\ new \in [Object -> Nat]
      /\ pos \in -1 .. Total /\ torn \in BOOLEAN
  BY <1>a DEF Shapes
<1>1. OneForm'
  <2>. SUFFICES ASSUME ~torn' PROVE OneForm'
    BY DEF OneForm
  <2>1. PICK f \in {"tag", "id"} : InForm(f)
    BY <1>a, TornStays DEF OneForm
  <2>2. \E g \in {f, "id"} : InForm(g)'
    BY <1>a, <2>1, FormKept
  <2>. QED
    BY <2>2 DEF OneForm
<1>2. Settled'
  <2>1. CASE ~build_container_db
    <3>1. builds' = builds
      BY <2>1, BuildsStay
    <3>2. InForm("id") => InForm("id")'
      BY <1>a, FormKept
    <3>. QED
      BY <1>a, <3>1, <3>2 DEF Settled
  <2>2. CASE build_container_db
    <3>. SUFFICES ASSUME NEW b \in 1 .. Len(builds'), builds'[b].ended PROVE InForm("id")'
      BY DEF Settled
    <3>1. CASE b \in 1 .. Len(builds)
      <4>1. InForm("id")
        BY <1>a, <2>2, <3>1, BuildAdded DEF Settled
      <4>. QED
        BY <1>a, <4>1, FormKept
    <3>2. CASE b = Len(builds) + 1
      <4>1. pos = Total /\ ~torn
        BY <1>a, <2>2, <3>2, BuildAdded
      <4>2. Uniform("id")
        BY <1>a, <2>2, <4>1 DEF EndedWell, build_container_db
      <4>3. UNCHANGED <<data, new>> /\ ~Rewriting'
        BY <2>2 DEF build_container_db, files, After, Rewriting
      <4>. QED
        BY <4>2, <4>3 DEF Uniform, InForm
    <3>. QED
      BY <1>a, <2>2, <3>1, <3>2, BuildAdded
  <2>. QED
    BY <2>1, <2>2
<1>3. StillAsRead' /\ EndedWell'
  <2>1. CASE Elsewhere
    <3>1. ~Rewriting' \/ (Rewriting /\ UNCHANGED <<shell, pos>>)
      BY <2>1, <1>b DEF Elsewhere, Rewriting
    <3>2. StillAsRead'
      BY <2>1, <1>a, <3>1 DEF Elsewhere, StillAsRead
    <3>3. EndedWell'
      BY <2>1, <1>a DEF Elsewhere, EndedWell, Uniform
    <3>. QED
      BY <3>2, <3>3
  <2>2. CASE build_addr_map
    <3>1. shell' = "addr2id" /\ known' = new /\ new' = new
      BY <2>2 DEF build_addr_map
    <3>. QED
      BY <3>1 DEF StillAsRead, EndedWell
  <2>3. CASE RewriteData
    <3>1. shell' = "addr2id" /\ Rewriting /\ pos' = pos + 1 /\ UNCHANGED <<new, known>>
      BY <2>3, <1>b DEF RewriteData, Rewriting
    <3>. QED
      BY <3>1, <1>a, <1>b DEF StillAsRead, EndedWell
  <2>4. CASE RewriteNew
    <3>. DEFINE o == pos - Len(Trace) + 1
    <3>1. /\ shell' = "addr2id" /\ Rewriting /\ pos' = pos + 1 /\ known' = known
          /\ new' = [new EXCEPT ![o] = query(new[o], NewTime[o])]
      BY <2>4, <1>b DEF RewriteNew, Rewriting
    <3>2. \A p \in Object : p > pos' - Len(Trace) => p # o /\ new'[p] = new[p] /\ p > pos - Len(Trace)
      BY <3>1, <1>b
    <3>. QED
      BY <3>1, <3>2, <1>a DEF StillAsRead, EndedWell
  <2>5. CASE CloseList
    <3>1. Rewriting /\ shell' = "build" /\ pos = Total /\ UNCHANGED <<data, new, torn>>
          /\ list' = [rows |-> Len(ClassOf), tail |-> "none"]
      BY <2>5, <1>b DEF CloseList, Rewriting
    <3>2. ~torn => Uniform("id")
      BY <3>1, <1>a, AdvancedToEnd DEF OneForm, InForm
    <3>3. ~torn' => Uniform("id")'
      BY <3>1, <3>2 DEF Uniform
    <3>. QED
      BY <3>1, <3>3 DEF StillAsRead, EndedWell, Rewriting
  <2>6. CASE Killed_addr2id
    <3>1. shell' # "addr2id" /\ pos' = -1
      BY <2>6 DEF Killed_addr2id, Then
    <3>2. pos' # Total'
      BY <3>1 DEF Total
    <3>. QED
      BY <3>1, <3>2 DEF StillAsRead, EndedWell, Rewriting
  <2>. QED
    BY <2>1, <2>2, <2>3, <2>4, <2>5, <2>6, Others DEF addr2id
<1>. QED
  BY <1>1, <1>2, <1>3

(* The database and the loader *)

(* The first copy of the class names stays in its place. *)
LEMMA NamesStep ==
    ASSUME IInv, [Next]_vars
    PROVE  NamesInPlace'
<1>. USE Lengths
<1>a. names \in Seq(0 .. Classes - 1) /\ NamesInPlace
  BY DEF IInv, Shapes
<1>1. CASE csv2db_py
  <2>1. PICK p \in Seq(0 .. Classes - 1) : p = ClassNames
    <3>1. ClassNames \in Seq(0 .. Classes - 1)
      BY DEF ClassNames
    <3>. QED
      BY <3>1
  <2>2. Len(p) = Classes /\ \A i \in 1 .. Classes : p[i] = i - 1
    BY <2>1 DEF ClassNames
  <2>3. names' = names \o p
    BY <1>1, <2>1 DEF csv2db_py
  <2>4. /\ Len(names') = Len(names) + Len(p) /\ DOMAIN names' = 1 .. Len(names')
        /\ \A i \in 1 .. Len(names) + Len(p) :
             names'[i] = IF i <= Len(names) THEN names[i] ELSE p[i - Len(names)]
    BY <2>3, <1>a, ConcatProperties, LenProperties
  <2>5. ASSUME NEW c \in 0 .. Classes - 1
        PROVE  c + 1 \in DOMAIN names' /\ names'[c + 1] = c
    <3>1. CASE names = <<>>
      <4>1. Len(names) = 0
        BY <3>1
      <4>2. c + 1 \in 1 .. Len(names) + Len(p) /\ ~(c + 1 <= Len(names)) /\ c + 1 - Len(names) = c + 1
        BY <4>1, <2>2
      <4>3. names'[c + 1] = p[c + 1]
        BY <2>4, <4>2
      <4>. QED
        BY <2>2, <2>4, <4>2, <4>3
    <3>2. CASE names # <<>>
      <4>1. c + 1 \in DOMAIN names /\ names[c + 1] = c
        BY <3>2, <1>a DEF NamesInPlace
      <4>2. c + 1 \in 1 .. Len(names) /\ Len(names) \in Nat
        BY <4>1, <1>a, LenProperties
      <4>3. c + 1 \in 1 .. Len(names) + Len(p) /\ c + 1 <= Len(names)
        BY <4>2, <2>2
      <4>. QED
        BY <2>4, <4>1, <4>3
    <3>. QED
      BY <3>1, <3>2
  <2>. QED
    BY <2>5 DEF NamesInPlace
<1>2. CASE ~csv2db_py
  <2>1. names' = names
    BY <1>2 DEF Next, vars, db, build_container, addr2id, build_addr_map, RewriteData, RewriteNew,
       CloseList, Killed_addr2id, Script, ScriptBegins, ScriptTimesOut, build_container_db,
       build_container_db_Raises, Killed_script, LoaderStarts, LoaderRefused, Loader,
       load_timeline, COMMIT, Killed_loader
  <2>. QED
    BY <2>1, <1>a DEF NamesInPlace
<1>. QED
  BY <1>1, <1>2

(* A step that leaves rows, position and lock of the loader as they are. *)
Bystander ==
    /\ loader'.at = loader.at /\ loader'.rows = loader.rows
    /\ loader.met \subseteq loader'.met
    /\ lock' = "loader" <=> lock = "loader"
    /\ lock' = "script" => lock = "script" \/ loader.at = 0 \/ "script" \in loader'.met

(* The loader's own steps, and what the others do to it. *)
LEMMA LoaderStep ==
    ASSUME IInv, [Next]_vars
    PROVE  LoaderRight'
<1>. USE Lengths
<1>a. Shapes /\ LockHeld /\ LoaderRight
  BY DEF IInv
<1>b. loader \in LoaderType /\ lock \in {"free", "script", "loader"}
  BY <1>a DEF Shapes
<1>c. loader.at \in Nat /\ loader.rows \in Seq(LoadRow) /\ Len(loader.rows) \in Nat
  BY <1>b DEF LoaderType
<1>1. CASE load_timeline
  <2>1. loader.at \in 1 .. Len(Load)
    BY <1>1 DEF load_timeline
  <2>2. PICK n \in Nat : n = loader.at /\ n # 0
    BY <2>1
  <2>3. CASE lock = "script"
    <3>1. /\ loader'.at = n + 1 /\ loader'.rows = loader.rows /\ loader'.met = loader.met
          /\ lock' = lock
      BY <1>1, <1>b, <2>2, <2>3 DEF load_timeline, LoaderType
    <3>2. loader.rows = <<>> /\ "script" \in loader.met
      BY <1>a, <2>2, <2>3 DEF LoaderRight
    <3>3. Len(loader'.rows) = 0
      BY <3>1, <3>2
    <3>. QED
      BY <3>1, <3>2, <3>3, <2>2, <2>3 DEF LoaderRight
  <2>4. CASE lock # "script"
    <3>1. PICK p \in Seq(LoadRow) : p = loader.rows
      BY <1>c
    <3>2. PICK e \in LoadRow : e = NewRow /\ e.no = n
      <4>1. ADDR0(loader.at) \in Int
        BY <1>a, <2>1, ADDR0Type
      <4>2. NewRow \in LoadRow /\ NewRow.no = n
        BY <2>1, <2>2, <4>1 DEF NewRow, LoadRow
      <4>. QED
        BY <4>2
    <3>3. /\ loader'.at = n + 1 /\ loader'.rows = Append(p, e) /\ loader'.met = loader.met
          /\ lock' = "loader"
      BY <1>1, <1>b, <2>2, <2>4, <3>1, <3>2 DEF load_timeline, LoaderType, NewRow
    <3>4. /\ Len(Append(p, e)) = Len(p) + 1 /\ Len(p) \in Nat
          /\ \A k \in 1 .. Len(p) : Append(p, e)[k] = p[k]
          /\ Append(p, e)[Len(p) + 1] = e /\ e.no = n /\ Append(p, e) # <<>>
      BY <3>2, AppendProperties, LenProperties
    <3>5. /\ Len(p) < n
          /\ \A k \in 1 .. Len(p) : p[k].no = n - 1 - Len(p) + k
          /\ "script" \notin loader.met => Len(p) = n - 1
      BY <1>a, <2>2, <3>1 DEF LoaderRight
    <3>6. ASSUME NEW k \in 1 .. Len(p) + 1
          PROVE  Append(p, e)[k].no = n + 1 - 1 - (Len(p) + 1) + k
      <4>1. CASE k = Len(p) + 1
        BY <4>1, <3>4, <2>2
      <4>2. CASE k \in 1 .. Len(p)
        BY <4>2, <3>4, <3>5
      <4>. QED
        BY <4>1, <4>2, <3>4
    <3>7. /\ Len(loader'.rows) = Len(p) + 1 /\ loader'.rows # <<>>
          /\ \A k \in 1 .. Len(p) + 1 : loader'.rows[k].no = n + 1 - 1 - (Len(p) + 1) + k
      BY <3>3, <3>4, <3>6
    <3>8. Len(p) + 1 < n + 1 /\ n + 1 # 0 /\ ("script" \notin loader.met => Len(p) + 1 = n + 1 - 1)
      BY <3>4, <3>5
    <3>. QED
      BY <3>3, <3>7, <3>8 DEF LoaderRight
  <2>. QED
    BY <2>3, <2>4
<1>2. CASE COMMIT \/ Killed_loader
  <2>1. loader' = NotRunning
    BY <1>2 DEF COMMIT, Killed_loader
  <2>2. loader'.at = 0 /\ loader'.rows = <<>>
    BY <2>1 DEF NotRunning
  <2>. QED
    BY <2>2 DEF LoaderRight
<1>3. CASE LoaderStarts
  <2>1. /\ loader'.at = 1 /\ loader'.rows = <<>> /\ lock' = lock
        /\ lock = "script" => "script" \in loader'.met
    BY <1>3 DEF LoaderStarts
  <2>. QED
    BY <2>1 DEF LoaderRight
<1>4. CASE ~load_timeline /\ ~COMMIT /\ ~Killed_loader /\ ~LoaderStarts
  <2>1. Bystander
    <3>1. CASE addr2id
      BY <3>1, <1>b, MeetsEffect DEF addr2id, build_addr_map, RewriteData, RewriteNew, CloseList,
         Bystander
    <3>2. CASE ScriptBegins
      BY <3>2, <1>b, MeetsEffect DEF ScriptBegins, Bystander
    <3>3. CASE ~addr2id /\ ~ScriptBegins
      <4>1. UNCHANGED loader
        BY <1>4, <3>3 DEF Next, vars, build_container, Killed_addr2id, Script, ScriptTimesOut,
           build_container_db, build_container_db_Raises, csv2db_py, Killed_script, LoaderRefused,
           Loader
      <4>2. UNCHANGED lock \/ (lock' = "free" /\ lock = "script")
        BY <1>4, <3>3 DEF Next, vars, build_container, Killed_addr2id, Script, ScriptTimesOut,
           build_container_db, build_container_db_Raises, csv2db_py, Killed_script, LoaderRefused,
           Loader, Writing
      <4>. QED
        BY <4>1, <4>2 DEF Bystander
    <3>. QED
      BY <3>1, <3>2, <3>3
  <2>. QED
    BY <2>1, <1>a DEF Bystander, LoaderRight
<1>. QED
  BY <1>1, <1>2, <1>3, <1>4

(* What the loader has is what is on disk, unless it met addr2id. *)
LEMMA CurrentStep ==
    ASSUME IInv, [Next]_vars
    PROVE  LoaderCurrent'
<1>. USE Lengths
<1>a. Shapes /\ LoaderRight /\ LoaderCurrent
  BY DEF IInv
<1>b. loader \in LoaderType
  BY <1>a DEF Shapes
<1>c. loader.at \in Nat /\ loader.rows \in Seq(LoadRow) /\ Len(loader.rows) \in Nat
  BY <1>b DEF LoaderType
<1>1. CASE addr2id
  <2>1. /\ loader'.at = loader.at /\ loader'.rows = loader.rows
        /\ loader.at # 0 => "addr2id" \in loader'.met
    BY <1>1, <1>b, MeetsEffect DEF addr2id, build_addr_map, RewriteData, RewriteNew, CloseList
  <2>2. loader.at = 0 => Len(loader.rows) = 0
    BY <1>a DEF LoaderRight
  <2>. QED
    BY <2>1, <2>2 DEF LoaderCurrent
<1>2. CASE load_timeline
  <2>1. loader.at \in 1 .. Len(Load)
    BY <1>2 DEF load_timeline
  <2>2. PICK n \in Nat : n = loader.at /\ n # 0
    BY <2>1
  <2>3. UNCHANGED <<data, new, shell, pos>> /\ loader'.met = loader.met
    BY <1>2, <1>b DEF load_timeline, files, LoaderType
  <2>4. CASE loader'.rows = loader.rows
    BY <2>2, <2>3, <2>4, <1>a DEF LoaderCurrent, Rewriting, ADDR0
  <2>5. CASE loader'.rows = Append(loader.rows, NewRow)
    <3>1. PICK p \in Seq(LoadRow) : p = loader.rows
      BY <1>c
    <3>2. PICK e \in LoadRow : e = NewRow /\ e.addr = ADDR0(e.no)
      <4>1. ADDR0(loader.at) \in Int
        BY <1>a, <2>1, ADDR0Type
      <4>2. NewRow \in LoadRow /\ NewRow.addr = ADDR0(NewRow.no)
        BY <2>1, <4>1 DEF NewRow, LoadRow
      <4>. QED
        BY <4>2
    <3>3. /\ Len(Append(p, e)) = Len(p) + 1 /\ Len(p) \in Nat
          /\ \A k \in 1 .. Len(p) : Append(p, e)[k] = p[k]
          /\ Append(p, e)[Len(p) + 1] = e /\ e.addr = ADDR0(e.no)
      BY <3>2, AppendProperties, LenProperties
    <3>4. "addr2id" \notin loader.met => \A k \in 1 .. Len(p) : p[k].addr = ADDR0(p[k].no)
      BY <1>a, <3>1 DEF LoaderCurrent
    <3>5. ASSUME "addr2id" \notin loader.met, NEW k \in 1 .. Len(p) + 1
          PROVE  Append(p, e)[k].addr = ADDR0(Append(p, e)[k].no)
      <4>1. CASE k = Len(p) + 1
        BY <4>1, <3>3
      <4>2. CASE k \in 1 .. Len(p)
        BY <4>2, <3>3, <3>4, <3>5
      <4>. QED
        BY <4>1, <4>2, <3>3
    <3>6. loader.at # 0 /\ Rewriting' => "addr2id" \in loader.met
      BY <2>3, <1>a DEF LoaderCurrent, Rewriting
    <3>7. loader'.rows = Append(p, e)
      BY <2>5, <3>1, <3>2
    <3>8. \A i : ADDR0(i)' = ADDR0(i)
      BY <2>3 DEF ADDR0
    <3>. QED
      BY <2>2, <2>3, <3>3, <3>5, <3>6, <3>7, <3>8 DEF LoaderCurrent
  <2>6. loader'.rows \in {loader.rows, Append(loader.rows, NewRow)}
    BY <1>2, <1>b, <2>2 DEF load_timeline, LoaderType, NewRow
  <2>. QED
    BY <2>4, <2>5, <2>6
<1>3. CASE COMMIT \/ Killed_loader
  <2>1. loader' = NotRunning
    BY <1>3 DEF COMMIT, Killed_loader
  <2>2. loader'.at = 0 /\ loader'.rows = <<>>
    BY <2>1 DEF NotRunning
  <2>. QED
    BY <2>2 DEF LoaderCurrent
<1>4. CASE LoaderStarts
  <2>1. /\ loader'.rows = <<>>
        /\ Rewriting => "addr2id" \in loader'.met
        /\ Rewriting' <=> Rewriting
    BY <1>4 DEF LoaderStarts, Rewriting
  <2>. QED
    BY <2>1 DEF LoaderCurrent
<1>5. CASE ~addr2id /\ ~load_timeline /\ ~COMMIT /\ ~Killed_loader /\ ~LoaderStarts
  <2>1. /\ loader'.at = loader.at /\ loader'.rows = loader.rows
        /\ loader.met \subseteq loader'.met
    <3>1. CASE ScriptBegins
      BY <3>1, <1>b, MeetsEffect DEF ScriptBegins
    <3>2. CASE ~ScriptBegins
      BY <1>5, <3>2 DEF Next, vars, build_container, Killed_addr2id, Script, ScriptTimesOut,
         build_container_db, build_container_db_Raises, csv2db_py, Killed_script, LoaderRefused,
         Loader
    <3>. QED
      BY <3>1, <3>2
  <2>2. UNCHANGED <<data, new>> /\ (Rewriting' => Rewriting)
    <3>1. CASE Killed_addr2id
      BY <3>1 DEF Killed_addr2id, Rewriting
    <3>2. CASE Elsewhere
      BY <3>2 DEF Elsewhere, Rewriting
    <3>. QED
      BY <1>5, <3>1, <3>2, Others
  <2>3. \A i : ADDR0(i)' = ADDR0(i)
    BY <2>2 DEF ADDR0
  <2>. QED
    BY <2>1, <2>2, <2>3, <1>a DEF LoaderCurrent
<1>. QED
  BY <1>1, <1>2, <1>3, <1>4, <1>5

(* A build is complete as soon as an addr2id has ended before it, and the  *)
(* later ones hold ids too.                                                *)
LEMMA RerunStep ==
    ASSUME IInv, [Next]_vars
    PROVE  RerunHeals' /\ TagsOnlyAtFirst'
<1>. USE Lengths
<1>a. Shapes /\ OneForm /\ EndedWell /\ Settled /\ RerunHeals /\ TagsOnlyAtFirst
  BY DEF IInv
<1>1. CASE ~build_container_db
  <2>1. builds' = builds
    BY <1>1, BuildsStay
  <2>2. RerunHeals'
    BY <1>a, <2>1 DEF RerunHeals, Complete, Identified
  <2>3. TagsOnlyAtFirst'
    BY <1>a, <2>1, TornStays DEF TagsOnlyAtFirst, Identified
  <2>. QED
    BY <2>2, <2>3
<1>2. CASE build_container_db
  <2>0. PICK n \in Nat : n = Len(builds)
    BY <1>a, <1>2, BuildAdded
  <2>1. /\ DOMAIN builds = 1 .. n /\ Len(builds) = n
        /\ Len(builds') = n + 1 /\ DOMAIN builds' = 1 .. n + 1
        /\ \A i \in 1 .. n : builds'[i] = builds[i]
    BY <1>a, <1>2, <2>0, BuildAdded
  <2>2. /\ builds'[n + 1].ended <=> pos = Total /\ ~torn
        /\ builds'[n + 1].allocations = Allocations
        /\ \A r \in Container : builds'[n + 1].containers[r] = data[r]
    BY <1>a, <1>2, <2>0, BuildAdded
  <2>3. ~Rewriting /\ torn' = torn /\ shell = "build"
    BY <1>2 DEF build_container_db, Rewriting
  <2>4. \A i \in 1 .. n : (Identified(i)' <=> Identified(i)) /\ (Complete(i)' <=> Complete(i))
    BY <2>1 DEF Identified, Complete
  <2>5. Uniform("id") => Identified(n + 1)'
    BY <2>2 DEF Uniform, Val, Identified
  <2>6. builds'[n + 1].ended => Uniform("id") /\ list = [rows |-> Len(ClassOf), tail |-> "none"]
    BY <1>a, <2>2, <2>3 DEF EndedWell
  <2>7. builds'[n + 1].ended => Complete(n + 1)'
    <3>. SUFFICES ASSUME builds'[n + 1].ended PROVE Complete(n + 1)'
      OBVIOUS
    <3>1. Allocations = { [id |-> o, typed |-> o <= Len(ClassOf)] : o \in 1 .. Len(ClassOf) }
      BY <2>6 DEF Allocations
    <3>2. \A o \in 1 .. Len(ClassOf) : (o <= Len(ClassOf)) = TRUE
      OBVIOUS
    <3>3. \A o \in 1 .. Len(ClassOf) :
            [id |-> o, typed |-> o <= Len(ClassOf)] = [id |-> o, typed |-> TRUE]
      BY <3>2, Zenon
    <3>4. Allocations = { [id |-> o, typed |-> TRUE] : o \in Object }
      BY <3>1, <3>3
    <3>. QED
      BY <2>2, <2>5, <2>6, <3>4 DEF Complete
  <2>8. RerunHeals'
    <3>1. ASSUME NEW b \in 1 .. n + 1, builds'[b].ended PROVE Complete(b)'
      <4>1. CASE b = n + 1
        BY <2>7, <3>1, <4>1
      <4>2. CASE b \in 1 .. n
        BY <1>a, <2>1, <2>4, <3>1, <4>2 DEF RerunHeals
      <4>. QED
        BY <2>1, <4>1, <4>2
    <3>. QED
      BY <2>1, <3>1 DEF RerunHeals
  <2>9. ASSUME NEW b \in 1 .. n + 1, builds'[b].ended, NEW later \in b .. n + 1
        PROVE  Identified(later)'
    <3>1. CASE later \in 1 .. n
      <4>1. b \in 1 .. n /\ later \in b .. Len(builds)
        BY <2>1, <3>1
      <4>2. Identified(later)
        BY <1>a, <2>1, <2>9, <4>1 DEF TagsOnlyAtFirst
      <4>. QED
        BY <2>4, <3>1, <4>2
    <3>2. CASE later = n + 1 /\ b = n + 1
      BY <2>5, <2>6, <2>9, <3>2
    <3>3. CASE later = n + 1 /\ b \in 1 .. n
      <4>1. InForm("id")
        BY <1>a, <2>1, <2>9, <3>3 DEF Settled
      <4>. QED
        BY <2>3, <2>5, <3>3, <4>1 DEF InForm
    <3>. QED
      BY <2>1, <3>1, <3>2, <3>3
  <2>10. ASSUME NEW b \in 1 .. n + 1, ~torn'
         PROVE  Identified(b)' \/ \A r \in Container : builds'[b].containers[r] = Tag[Trace[r].holder]
    <3>1. CASE b = n + 1
      <4>1. PICK f \in {"tag", "id"} : Uniform(f)
        BY <1>a, <2>3, <2>10 DEF OneForm, InForm
      <4>2. CASE f = "id"
        BY <2>5, <3>1, <4>1, <4>2
      <4>3. CASE f = "tag"
        BY <2>2, <3>1, <4>1, <4>3 DEF Uniform, Val
      <4>. QED
        BY <4>2, <4>3
    <3>2. CASE b \in 1 .. n
      <4>1. ~torn /\ b \in DOMAIN builds /\ builds'[b] = builds[b]
        BY <2>1, <2>3, <2>10, <3>2
      <4>2. Identified(b) \/ \A r \in Container : builds[b].containers[r] = Tag[Trace[r].holder]
        BY <1>a, <4>1 DEF TagsOnlyAtFirst
      <4>. QED
        BY <2>4, <3>2, <4>1, <4>2
    <3>. QED
      BY <2>1, <3>1, <3>2
  <2>11. TagsOnlyAtFirst'
    BY <2>1, <2>9, <2>10 DEF TagsOnlyAtFirst
  <2>. QED
    BY <2>8, <2>11
<1>. QED
  BY <1>1, <1>2

(* What is committed is what the loader has at the end. *)
LEMMA LoadsStep ==
    ASSUME IInv, [Next]_vars
    PROVE  LoadsAreSuffixes' /\ LoadedInOneForm'
<1>. USE Lengths
<1>a. Shapes /\ OneForm /\ LoaderRight /\ LoaderCurrent /\ LoadsAreSuffixes /\ LoadedInOneForm
  BY DEF IInv
<1>b. /\ timeline \in Seq(LoadType) /\ Len(timeline) \in Nat
      /\ DOMAIN timeline = 1 .. Len(timeline)
  BY <1>a DEF Shapes
<1>c. loader \in LoaderType
  BY <1>a DEF Shapes
<1>1. CASE COMMIT
  <2>1. PICK p \in Seq(LoadRow), m \in Met : p = loader.rows /\ m = loader.met
    BY <1>c DEF LoaderType
  <2>2. PICK t \in LoadType : t = [rows |-> p, met |-> m]
    BY DEF LoadType
  <2>3. timeline' = Append(timeline, t) /\ loader.at = Len(Load) + 1
    BY <1>1, <2>1, <2>2 DEF COMMIT
  <2>4. /\ DOMAIN timeline' = 1 .. Len(timeline) + 1 /\ Len(timeline') = Len(timeline) + 1
        /\ \A i \in 1 .. Len(timeline) : timeline'[i] = timeline[i]
        /\ timeline'[Len(timeline) + 1] = t
        /\ t.rows = p /\ t.met = m
    BY <1>b, <2>2, <2>3
  <2>5. /\ Len(p) \in Nat /\ \A k \in 1 .. Len(p) : p[k] \in LoadRow
    BY ElementOfSeq, LenProperties
  <2>6. /\ \A k \in 1 .. Len(p) : p[k].no = Len(Load) - Len(p) + k
        /\ "script" \notin m => Len(p) = Len(Load)
    <3>1. loader.at # 0 /\ loader.at - 1 = Len(Load)
      BY <2>3
    <3>. QED
      BY <2>1, <2>5, <3>1, <1>a DEF LoaderRight
  <2>7. LoadsAreSuffixes'
    <3>1. ASSUME NEW i \in 1 .. Len(timeline) + 1
          PROVE  /\ \A k \in 1 .. Len(timeline'[i].rows) :
                      timeline'[i].rows[k].no = Len(Load) - Len(timeline'[i].rows) + k
                 /\ "script" \notin timeline'[i].met => Len(timeline'[i].rows) = Len(Load)
      <4>1. CASE i = Len(timeline) + 1
        BY <4>1, <2>4, <2>6
      <4>2. CASE i \in 1 .. Len(timeline)
        BY <4>2, <2>4, <1>a, <1>b DEF LoadsAreSuffixes
      <4>3. i = Len(timeline) + 1 \/ i \in 1 .. Len(timeline)
        BY <1>b
      <4>. QED
        BY <4>1, <4>2, <4>3
    <3>. QED
      BY <3>1, <2>4 DEF LoadsAreSuffixes
  <2>8. ASSUME ~torn', "addr2id" \notin m
        PROVE  \E f \in {"tag", "id"} : RowsInForm(p, f)
    <3>1. ~torn
      BY <2>8, <1>a, TornStays
    <3>2. ~Rewriting
      BY <2>1, <2>3, <2>8, <1>a DEF LoaderCurrent
    <3>3. PICK f \in {"tag", "id"} : Uniform(f)
      BY <3>1, <3>2, <1>a DEF OneForm, InForm
    <3>4. ASSUME NEW k \in 1 .. Len(p), Load[p[k].no].from # "gc"
          PROVE  p[k].addr = Val(f, About(p[k].no))
      <4>1. PICK i \in 1 .. Len(Load) : i = p[k].no
        BY <2>5 DEF LoadRow
      <4>2. p[k].addr = ADDR0(i)
        BY <2>1, <2>8, <1>a, <4>1 DEF LoaderCurrent
      <4>3. CASE Load[i].from = "use"
        <5>1. ADDR0(i) = data[Load[i].no] /\ About(i) = Trace[Load[i].no].holder
          BY <4>3 DEF ADDR0, About
        <5>. QED
          BY <3>3, <4>1, <4>2, <4>3, <5>1, LoadedRecords DEF Uniform
      <4>4. CASE Load[i].from = "NEW"
        <5>1. ADDR0(i) = new[Load[i].no] /\ About(i) = Load[i].no
          BY <4>4 DEF ADDR0, About
        <5>. QED
          BY <3>3, <4>1, <4>2, <4>4, <5>1, LoadedRecords DEF Uniform
      <4>. QED
        BY <3>4, <4>1, <4>3, <4>4, LoadedRecords
    <3>. QED
      BY <3>4 DEF RowsInForm
  <2>9. LoadedInOneForm'
    <3>. SUFFICES ASSUME ~torn', NEW i \in 1 .. Len(timeline) + 1,
                         "addr2id" \notin timeline'[i].met
                  PROVE  \E f \in {"tag", "id"} : RowsInForm(timeline'[i].rows, f)
      BY <2>4 DEF LoadedInOneForm, RowsInForm
    <3>1. CASE i = Len(timeline) + 1
      BY <3>1, <2>4, <2>8
    <3>2. CASE i \in 1 .. Len(timeline)
      BY <3>2, <2>4, <1>a, TornStays DEF LoadedInOneForm
    <3>. QED
      BY <3>1, <3>2, <1>b
  <2>. QED
    BY <2>7, <2>9
<1>2. CASE ~COMMIT
  <2>1. timeline' = timeline
    BY <1>2 DEF Next, vars, db, build_container, addr2id, build_addr_map, RewriteData, RewriteNew,
       CloseList, Killed_addr2id, Script, ScriptBegins, ScriptTimesOut, build_container_db,
       csv2db_py, build_container_db_Raises, Killed_script, LoaderStarts, LoaderRefused, Loader,
       load_timeline, Killed_loader
  <2>2. LoadsAreSuffixes'
    BY <2>1, <1>a DEF LoadsAreSuffixes
  <2>3. LoadedInOneForm'
    <3>. SUFFICES ASSUME ~torn', NEW i \in 1 .. Len(timeline'), "addr2id" \notin timeline'[i].met
                  PROVE  \E f \in {"tag", "id"} : RowsInForm(timeline'[i].rows, f)
      BY DEF LoadedInOneForm, RowsInForm
    <3>1. ~torn
      BY <1>a, TornStays
    <3>. QED
      BY <2>1, <3>1, <1>a DEF LoadedInOneForm
  <2>. QED
    BY <2>2, <2>3
<1>. QED
  BY <1>1, <1>2

-----------------------------------------------------------------------------
(* The theorems *)

(***************************************************************************)
(* The invariant is inductive: every program that is run, killed or run    *)
(* again keeps it.                                                         *)
(***************************************************************************)
THEOREM Invariance == Spec => []IInv
<1>1. Init => IInv
  <2>. SUFFICES ASSUME Init PROVE IInv
    OBVIOUS
  <2>. USE Lengths
  <2>1. /\ shell = "idle" /\ lock = "free" /\ pos = -1 /\ runs = 0 /\ starts = 0
        /\ builds = <<>> /\ names = <<>> /\ timeline = <<>>
        /\ loader.at = 0 /\ loader.rows = <<>>
    BY DEF Init, NotRunning
  <2>2. Len(builds) = 0 /\ Len(timeline) = 0 /\ DOMAIN builds = {} /\ DOMAIN timeline = {}
        /\ Len(loader.rows) = 0
    BY <2>1
  <2>3. Uniform("tag") /\ ~Rewriting
    BY <2>1 DEF Init, Uniform, Rewriting, Val
  <2>4. /\ CountedBuilds /\ LockHeld /\ StillAsRead /\ OneForm /\ EndedWell /\ Settled
        /\ NamesInPlace
    BY <2>1, <2>2, <2>3 DEF CountedBuilds, LockHeld, StillAsRead, OneForm, InForm, EndedWell,
       Settled, NamesInPlace
  <2>5. LoaderRight /\ LoaderCurrent
    BY <2>1, <2>2 DEF LoaderRight, LoaderCurrent
  <2>6. RerunHeals /\ TagsOnlyAtFirst /\ LoadsAreSuffixes /\ LoadedInOneForm
    BY <2>2 DEF RerunHeals, TagsOnlyAtFirst, LoadsAreSuffixes, LoadedInOneForm
  <2>. QED
    BY <2>4, <2>5, <2>6, InitShapes DEF IInv
<1>2. IInv /\ [Next]_vars => IInv'
  BY ShapesStep, CountedStep, FormStep, NamesStep, LoaderStep, CurrentStep, RerunStep, LoadsStep
     DEF IInv
<1>. QED
  BY <1>1, <1>2, PTL DEF Spec

(***************************************************************************)
(* Every variable keeps its kind, the lock is held by a program that runs, *)
(* and there are never more builds than runs nor more loads than starts.   *)
(***************************************************************************)
THEOREM TypeCorrect == Spec => []TypeOK
<1>1. IInv => TypeOK
  BY DEF IInv, Shapes, CountedBuilds, LockHeld, TypeOK, LoaderType, Met
<1>. QED
  BY <1>1, Invariance, PTL

(***************************************************************************)
(* addr2id rewrites its own input and yet may be run again, for any trace, *)
(* any number of runs and whatever else was killed: while it was never     *)
(* itself killed among its rewriting of tags, each run of it that ends     *)
(* gives a build with every holder resolved and every allocation listed.   *)
(***************************************************************************)
THEOREM Rerun == Spec => []RerunHeals
<1>1. IInv => RerunHeals
  BY DEF IInv
<1>. QED
  BY <1>1, Invariance, PTL

(***************************************************************************)
(* A load of TIMELINE is the end of the records, all of them unless a      *)
(* script wrote meanwhile; those of its rows that addr2id rewrites are all *)
(* tags or all ids unless addr2id interfered, the others stay as recorded. *)
(***************************************************************************)
THEOREM Loads == Spec => []LoadsRight
<1>1. IInv => LoadsRight
  <2>. SUFFICES ASSUME IInv PROVE LoadsRight
    OBVIOUS
  <2>1. ASSUME NEW i \in DOMAIN timeline, "addr2id" \notin timeline[i].met, ~torn
        PROVE  LET t == timeline[i]
                   rewritten == { k \in DOMAIN t.rows : Load[t.rows[k].no].from # "gc" }
               IN  \/ \A k \in rewritten : t.rows[k].addr = About(t.rows[k].no)
                   \/ \A k \in rewritten : t.rows[k].addr = Tag[About(t.rows[k].no)]
    <3>1. timeline \in Seq(LoadType) /\ i \in 1 .. Len(timeline)
      BY <2>1, LenProperties DEF IInv, Shapes
    <3>2. timeline[i].rows \in Seq(LoadRow)
      <4>1. timeline[i] \in LoadType
        BY <3>1, ElementOfSeq
      <4>. QED
        BY <4>1 DEF LoadType
    <3>3. DOMAIN timeline[i].rows = 1 .. Len(timeline[i].rows)
      BY <3>2, LenProperties
    <3>4. PICK f \in {"tag", "id"} : RowsInForm(timeline[i].rows, f)
      BY <2>1, <3>1 DEF IInv, LoadedInOneForm
    <3>. QED
      BY <3>3, <3>4 DEF RowsInForm, Val
  <2>. QED
    BY <2>1 DEF IInv, LoadsRight, LoadsInOneForm
<1>. QED
  BY <1>1, Invariance, PTL

(* The operations on the container o, as the trace has them. *)
Operations(o) == { r \in Container : Trace[r].holder = o }

(* What the queries find in a database with a complete build, and others   *)
(* whose rows name their own holders at most.                              *)
LEMMA CompleteFinds ==
    ASSUME NEW b \in DOMAIN builds, Complete(b), \A c \in DOMAIN builds : Named(c)
    PROVE  \A o \in Object : Resolved(o) = Operations(o) /\ b \in Copies(o)
<1>. TAKE o \in Object
<1>1. o # NONE
  BY Lengths DEF NONE
<1>2. ASSUME NEW r \in Container
      PROVE  (\E c \in DOMAIN builds : builds[c].containers[r] = o) <=> Trace[r].holder = o
  <2>1. builds[b].containers[r] = Trace[r].holder
    BY DEF Complete, Identified
  <2>2. \A c \in DOMAIN builds : builds[c].containers[r] \in {Trace[r].holder, NONE}
    BY DEF Named
  <2>. QED
    BY <1>1, <2>1, <2>2
<1>3. Resolved(o) = Operations(o)
  BY <1>2 DEF Resolved, Operations
<1>4. [id |-> o, typed |-> TRUE] \in builds[b].allocations
  BY DEF Complete
<1>5. [id |-> o, typed |-> TRUE].id = o
  OBVIOUS
<1>6. \E a \in builds[b].allocations : a.id = o
  BY <1>4, <1>5
<1>. QED
  BY <1>3, <1>6 DEF Copies

(* The name a query joins to an object is the one of its class.            *)
LEMMA NamesFound ==
    ASSUME NamesInPlace, names # <<>>, NEW o \in Object
    PROVE  NamedBy(o) = {ClassOf[o]}
<1>1. ClassOf[o] \in 0 .. Classes - 1
  BY Lengths
<1>2. ClassOf[o] + 1 \in DOMAIN names /\ names[ClassOf[o] + 1] = ClassOf[o]
  BY <1>1 DEF NamesInPlace
<1>. QED
  BY <1>2 DEF NamedBy

(***************************************************************************)
(* What building again does to the reports, for any trace, any tags and    *)
(* any number of builds: one complete build makes the never-get report     *)
(* right as long as no build took tags for ids, which only one before the  *)
(* first addr2id that ended, or after a torn one, does; and                *)
(* pre_waste_query.py counts everything once for every build.              *)
(***************************************************************************)
THEOREM Reports == Spec => []ReportsAfterRebuilds
<1>1. IInv => NeverGetRight
  <2>. SUFFICES ASSUME IInv, names # <<>>, NEW b \in DOMAIN builds, Complete(b),
                       \A d \in DOMAIN builds : Named(d),
                       NEW c \in 0 .. Classes - 1
                PROVE  LET mine == { o \in Object : ClassOf[o] = c }
                           ops(o) == { r \in Container : Trace[r].holder = o }
                       IN  /\ NGC_query[c].total = { o \in mine : MSIZE(ops(o)) > 0 }
                           /\ NGC_query[c].nac = { o \in NGC_query[c].total :
                                                     \A r \in ops(o) : Trace[r].op = "add" }
    BY DEF NeverGetRight
  <2>. DEFINE mine == { o \in Object : ClassOf[o] = c }
              total == { o \in Object : /\ Copies(o) # {} /\ MSIZE(Resolved(o)) > 0
                                        /\ c \in NamedBy(o) }
              nac == { o \in total : \A r \in Resolved(o) : Trace[r].op = "add" }
  <2>1. NGC_query[c] = [total |-> total, nac |-> nac]
    BY DEF NGC_query
  <2>2. \A o \in Object : /\ Resolved(o) = Operations(o) /\ Copies(o) # {}
                          /\ (c \in NamedBy(o) <=> ClassOf[o] = c)
    BY CompleteFinds, NamesFound DEF IInv
  <2>3. total = { o \in mine : MSIZE(Operations(o)) > 0 }
    BY <2>2
  <2>4. nac = { o \in total : \A r \in Operations(o) : Trace[r].op = "add" }
    BY <2>2
  <2>5. NGC_query[c].total = total /\ NGC_query[c].nac = nac
    BY <2>1
  <2>. QED
    BY <2>3, <2>4, <2>5 DEF Operations
<1>2. IInv => CountsEveryBuild
  <2>. SUFFICES ASSUME IInv, names # <<>>, builds # <<>>, \A b \in DOMAIN builds : Complete(b),
                       NEW c \in 0 .. Classes - 1
                PROVE  pre_waste_query[c] = Len(builds) *
                         Cardinality({ o \in Object :
                           LET ops == { r \in Container : Trace[r].holder = o }
                           IN  ClassOf[o] = c /\ ops # {} /\ MSIZE(ops) < INIT_SIZE[o] })
    BY DEF CountsEveryBuild
  <2>. DEFINE S == { o \in Object : /\ ClassOf[o] = c /\ Operations(o) # {}
                                    /\ MSIZE(Operations(o)) < INIT_SIZE[o] }
              T == { row \in Object \X DOMAIN builds :
                       /\ row[2] \in Copies(row[1])
                       /\ c \in NamedBy(row[1]) /\ NeverFilled(row[1]) }
  <2>1. builds \in Seq(BuildType) /\ Len(builds) \in Nat /\ DOMAIN builds = 1 .. Len(builds)
    BY LenProperties DEF IInv, Shapes
  <2>2. \A o \in Object : /\ Resolved(o) = Operations(o)
                          /\ \A b \in DOMAIN builds : b \in Copies(o)
                          /\ (c \in NamedBy(o) <=> ClassOf[o] = c)
    <3>1. 1 \in DOMAIN builds
      <4>1. Len(builds) # 0
        BY <2>1
      <4>. QED
        BY <2>1, <4>1
    <3>2. \A b \in DOMAIN builds : Named(b)
      BY DEF Complete, Identified, Named
    <3>. QED
      BY <3>1, <3>2, CompleteFinds, NamesFound DEF IInv
  <2>3. \A o \in Object, b \in DOMAIN builds :
          o \in S <=> b \in Copies(o) /\ c \in NamedBy(o) /\ NeverFilled(o)
    BY <2>2 DEF NeverFilled
  <2>4. T = S \X DOMAIN builds
    <3>1. ASSUME NEW row \in T PROVE row \in S \X DOMAIN builds
      <4>1. row \in Object \X DOMAIN builds /\ row[1] \in Object /\ row[2] \in DOMAIN builds
            /\ row = <<row[1], row[2]>>
        BY <3>1
      <4>2. row[1] \in S
        BY <2>3, <3>1, <4>1
      <4>. QED
        BY <4>1, <4>2
    <3>2. ASSUME NEW o \in S, NEW b \in DOMAIN builds PROVE <<o, b>> \in T
      <4>1. <<o, b>>[1] = o /\ <<o, b>>[2] = b /\ <<o, b>> \in Object \X DOMAIN builds
        OBVIOUS
      <4>2. b \in Copies(o) /\ c \in NamedBy(o) /\ NeverFilled(o)
        BY <2>3, <3>2
      <4>. QED
        BY <4>1, <4>2
    <3>. QED
      BY <3>1, <3>2
  <2>5. IsFiniteSet(S) /\ Cardinality(S) \in Nat
    <3>1. IsFiniteSet(Object)
      BY Lengths, FS_Interval
    <3>. QED
      BY <3>1, FS_Subset, FS_CardinalityType
  <2>6. IsFiniteSet(DOMAIN builds) /\ Cardinality(DOMAIN builds) = Len(builds)
    <3>1. /\ IsFiniteSet(1 .. Len(builds))
          /\ Cardinality(1 .. Len(builds)) = IF 1 > Len(builds) THEN 0 ELSE Len(builds) - 1 + 1
      BY <2>1, FS_Interval
    <3>. QED
      BY <2>1, <3>1
  <2>7. Cardinality(T) = Cardinality(S) * Len(builds)
    BY <2>4, <2>5, <2>6, FS_Product
  <2>8. Cardinality(T) = Len(builds) * Cardinality(S)
    BY <2>1, <2>5, <2>7
  <2>9. pre_waste_query[c] = Cardinality(T)
    BY DEF pre_waste_query
  <2>. QED
    BY <2>8, <2>9 DEF Operations
<1>3. IInv => TagsOnlyAtFirst
  BY DEF IInv
<1>. QED
  BY <1>1, <1>2, <1>3, Invariance, PTL DEF ReportsAfterRebuilds

-----------------------------------------------------------------------------
(* LoopDetect: the parts of the inductive invariant *)

RowType == [copid : {GetCop, OtherCop}, v1 : Nat, place : Place]
OpType  == [copid : {GetCop, OtherCop, LOOP_GET_OP}, v1 : Nat, place : Place, count : Nat \ {0}]
InfoType == [prev_count : Nat, next_count : Nat, loop_count : Nat]

(* Every variable has a value of its kind; without a traced get there is   *)
(* none in the rows nor in what is made of them.                           *)
LoopShapes ==
  /\ get_op \in {GetCop, NotTraced}
  /\ phase \in {"merge", "pair", "done"}
  /\ rows \in Seq(Seq(RowType)) /\ out \in Seq(Seq(OpType)) /\ last \in Seq(OpType)
  /\ Len(out) = Len(rows) /\ Len(last) <= 1
  /\ \A n \in 1..Len(rows) : Len(rows[n]) \in 1..MaxRows
  /\ RowsRead <= MaxRows
  /\ get_op = NotTraced =>
       /\ \A n \in 1..Len(rows) : \A r \in 1..Len(rows[n]) : rows[n][r].copid = OtherCop
       /\ \A n \in 1..Len(rows) : \A m \in 1..Len(out[n]) : out[n][m].copid = OtherCop
       /\ \A m \in 1..Len(last) : last[m].copid = OtherCop

(* The second pass starts when the first one is over, and has an operation *)
(* at hand until the end.                                                  *)
Passes ==
  /\ phase = "merge" => hid = 1 /\ nth = 1 /\ res = << >>
  /\ last # << >> => phase = "merge" /\ rows # << >>
  /\ phase # "merge" => hid \in 1..Len(rows) /\ nth \in 1..Len(out[hid])
  /\ phase = "done" => hid = Len(rows) /\ nth = Len(out[hid])

(* Operation op stands for the rows a to b of rs: a maximal loop of gets,  *)
(* or rows of other operations.                                            *)
StandsFor(op, rs, a, b) ==
  IF op.copid = OtherCop
  THEN op.count = 1 /\ \A r \in a..b : ~IsGet(rs, r)
  ELSE /\ Loop(rs, a, b)
       /\ op.count = b - a + 1
       /\ op.v1 = rs[b].v1
       /\ \A r \in a..b : rs[r].place = op.place

(* sp[m] is the first and the last of the rows that ops[m] stands for: one *)
(* span after the other, and no row is left out.                           *)
Spans(rs, ops, sp) ==
  /\ \A m \in 1..Len(ops) :
       /\ sp[m] \in (1..Len(rs)) \X (1..Len(rs)) /\ sp[m][1] <= sp[m][2]
       /\ StandsFor(ops[m], rs, sp[m][1], sp[m][2])
  /\ \A k, m \in 1..Len(ops) : k < m => sp[k][2] < sp[m][1]
  /\ \A m \in 1..(Len(ops) - 1) : sp[m + 1][1] = sp[m][2] + 1
  /\ Len(ops) > 0 /\ sp[1][1] = 1 /\ sp[Len(ops)][2] = Len(rs)
  /\ \A r \in 1..Len(rs) : \E m \in 1..Len(ops) : sp[m][1] <= r /\ r <= sp[m][2]

(* The operations of every container stand for all of its rows, in order. *)
SpansRight == \A n \in 1..Len(rows) : \E sp : Spans(rows[n], Merged(n), sp)

(* The row at which the operation in the hand of the second pass starts. *)
SpanOf(n) == CHOOSE sp : Spans(rows[n], out[n], sp)
Start == SpanOf(hid)[nth][1]

(* The second pass has met the pair p: its second loop was in hand. *)
Past(p) == p[1] < hid \/ (p[1] = hid /\ p[2][2][1] <= Start)
MetPairs(key) == {p \in Fusable(key) : Past(p)}
MetGets(key, side) == {q \in Gets(key, side) : Past(q[1])}

Info(key) == IF key \in DOMAIN res THEN res[key] ELSE NoInfo

(* The second pass has counted what it has met. *)
ResRight ==
  /\ DOMAIN res \subseteq Place \X Place
  /\ phase # "merge" => \A key \in Place \X Place :
       /\ Info(key) \in InfoType
       /\ Info(key).loop_count = Cardinality(MetPairs(key))
       /\ Info(key).prev_count = Cardinality(MetGets(key, 1))
       /\ Info(key).next_count = Cardinality(MetGets(key, 2))
       /\ key \in DOMAIN res <=> MetPairs(key) # {}

LoopIInv == LoopShapes /\ Passes /\ SpansRight /\ ResRight

-----------------------------------------------------------------------------
(* LoopDetect: operations and the rows they stand for *)

(* Rows that were there already are the same after one more. *)
LEMMA StandsStill ==
  ASSUME NEW rs \in Seq(RowType), NEW row \in RowType, NEW op \in OpType,
         NEW a \in 1..Len(rs), NEW b \in 1..Len(rs), StandsFor(op, rs, a, b),
         b = Len(rs) => op.copid = OtherCop \/ ~GoesOn(Append(rs, row), b)
  PROVE  StandsFor(op, Append(rs, row), a, b)
<1>. DEFINE rt == Append(rs, row)
<1>1. /\ Len(rt) = Len(rs) + 1 /\ Len(rs) \in Nat
      /\ \A r \in 1..Len(rs) : rt[r] = rs[r]
  OBVIOUS
<1>2. \A r \in a..b : r \in 1..Len(rs)
  BY <1>1
<1>3. CASE op.copid = OtherCop
  BY <1>1, <1>2, <1>3 DEF StandsFor, IsGet
<1>4. CASE op.copid # OtherCop
  <2>1. Loop(rs, a, b)
    BY <1>4 DEF StandsFor
  <2>2. \A r \in 1..(Len(rs) - 1) : GoesOn(rt, r) <=> GoesOn(rs, r)
    BY <1>1 DEF GoesOn, IsGet
  <2>3. \A r \in a..b : IsGet(rt, r)
    BY <2>1, <1>1, <1>2 DEF Loop, IsGet
  <2>4. \A r \in a..(b - 1) : GoesOn(rt, r)
    BY <2>1, <2>2, <1>1 DEF Loop
  <2>5. a > 1 => ~GoesOn(rt, a - 1)
    BY <2>1, <2>2, <1>1 DEF Loop
  <2>6. b < Len(rt) => ~GoesOn(rt, b)
    BY <2>1, <2>2, <1>1, <1>4 DEF Loop
  <2>7. Loop(rt, a, b)
    BY <2>3, <2>4, <2>5, <2>6 DEF Loop
  <2>. QED
    BY <2>7, <1>1, <1>2, <1>4 DEF StandsFor
<1>. QED
  BY <1>3, <1>4

(* An operation that does not stand for the new row starts a new span. *)
LEMMA SpanAdded ==
  ASSUME NEW rs \in Seq(RowType), NEW row \in RowType,
         NEW ops \in Seq(OpType), NEW op \in OpType, NEW sp, Spans(rs, ops, sp),
         ops[Len(ops)].copid = OtherCop \/ ~GoesOn(Append(rs, row), Len(rs)),
         StandsFor(op, Append(rs, row), Len(rs) + 1, Len(rs) + 1)
  PROVE  \E sq : Spans(Append(rs, row), Append(ops, op), sq)
<1>. DEFINE rt == Append(rs, row)
            L == Len(rs) + 1
            K == Len(ops)
            os == Append(ops, op)
            sq == [m \in 1..(K + 1) |-> IF m = K + 1 THEN <<L, L>> ELSE sp[m]]
<1>1. /\ Len(rt) = L /\ L \in Nat /\ K \in Nat /\ Len(os) = K + 1 /\ Len(rs) \in Nat
      /\ \A m \in 1..K : os[m] = ops[m] /\ ops[m] \in OpType
      /\ os[K + 1] = op
  OBVIOUS
<1>2. /\ sq[K + 1] = <<L, L>> /\ sq[K + 1][1] = L /\ sq[K + 1][2] = L
      /\ \A m \in 1..K : sq[m] = sp[m]
  BY <1>1
<1>3. \A m \in 1..K :
        /\ sp[m] \in (1..Len(rs)) \X (1..Len(rs)) /\ sp[m][1] <= sp[m][2]
        /\ sp[m][1] \in 1..Len(rs) /\ sp[m][2] \in 1..Len(rs)
        /\ StandsFor(ops[m], rs, sp[m][1], sp[m][2])
  BY DEF Spans
<1>a. \A k, m \in 1..K : k < m => sp[k][2] < sp[m][1]
  BY DEF Spans
<1>4. \A m \in 1..(K + 1) :
        /\ sq[m] \in (1..Len(rt)) \X (1..Len(rt)) /\ sq[m][1] <= sq[m][2]
        /\ StandsFor(os[m], rt, sq[m][1], sq[m][2])
  <2>. TAKE m \in 1..(K + 1)
  <2>1. CASE m = K + 1
    <3>1. sq[m] = <<L, L>> /\ os[m] = op
      BY <2>1, <1>1, <1>2
    <3>. QED
      BY <3>1, <1>1
  <2>2. CASE m \in 1..K
    <3>0. m < K => sp[m][2] < sp[K][1] /\ sp[K][1] \in 1..Len(rs)
      BY <2>2, <1>1, <1>3, <1>a
    <3>1. sp[m][2] = Len(rs) => m = K
      BY <2>2, <3>0, <1>1, <1>3
    <3>2. StandsFor(ops[m], rt, sp[m][1], sp[m][2])
      BY <2>2, <3>1, <1>1, <1>3, StandsStill
    <3>3. sq[m] = sp[m] /\ os[m] = ops[m]
      BY <2>2, <1>1, <1>2
    <3>4. sp[m] \in (1..L) \X (1..L)
      BY <2>2, <1>3, <1>1
    <3>. QED
      BY <3>2, <3>3, <3>4, <1>1, <1>3, <2>2
  <2>. QED
    BY <2>1, <2>2, <1>1
<1>5. \A k, m \in 1..(K + 1) : k < m => sq[k][2] < sq[m][1]
  <2>. SUFFICES ASSUME NEW k \in 1..(K + 1), NEW m \in 1..(K + 1), k < m
                PROVE  sq[k][2] < sq[m][1]
    OBVIOUS
  <2>1. k \in 1..K /\ sq[k] = sp[k]
    BY <1>1, <1>2
  <2>2. CASE m = K + 1
    BY <2>1, <2>2, <1>1, <1>2, <1>3
  <2>3. CASE m \in 1..K
    BY <2>1, <2>3, <1>1, <1>2 DEF Spans
  <2>. QED
    BY <2>2, <2>3, <1>1
<1>6. \A m \in 1..K : sq[m + 1][1] = sq[m][2] + 1
  <2>. TAKE m \in 1..K
  <2>1. CASE m = K
    BY <2>1, <1>1, <1>2 DEF Spans
  <2>2. CASE m \in 1..(K - 1)
    BY <2>2, <1>1, <1>2 DEF Spans
  <2>. QED
    BY <2>1, <2>2, <1>1
<1>7. K + 1 > 0 /\ sq[1][1] = 1 /\ sq[K + 1][2] = Len(rt)
  BY <1>1, <1>2 DEF Spans
<1>8. \A r \in 1..Len(rt) : \E m \in 1..(K + 1) : sq[m][1] <= r /\ r <= sq[m][2]
  <2>. TAKE r \in 1..Len(rt)
  <2>1. CASE r = L
    BY <2>1, <1>1, <1>2
  <2>2. CASE r \in 1..Len(rs)
    BY <2>2, <1>1, <1>2 DEF Spans
  <2>. QED
    BY <2>1, <2>2, <1>1
<1>9. K + 1 - 1 = K
  BY <1>1
<1>. HIDE DEF sq, rt, os, L, K
<1>10. Spans(rt, os, sq)
  BY <1>1, <1>4, <1>5, <1>6, <1>7, <1>8, <1>9 DEF Spans
<1>. QED
  BY <1>10 DEF rt, os

(* The last operation also stands for the new row. *)
LEMMA SpanExtended ==
  ASSUME NEW rs \in Seq(RowType), NEW row \in RowType,
         NEW ops \in Seq(OpType), NEW os \in Seq(OpType), NEW sp, Spans(rs, ops, sp),
         Len(os) = Len(ops), \A m \in 1..(Len(ops) - 1) : os[m] = ops[m],
         StandsFor(os[Len(ops)], Append(rs, row), sp[Len(ops)][1], Len(rs) + 1)
  PROVE  \E sq : Spans(Append(rs, row), os, sq)
<1>. DEFINE rt == Append(rs, row)
            L == Len(rs) + 1
            K == Len(ops)
            sq == [m \in 1..K |-> IF m = K THEN <<sp[K][1], L>> ELSE sp[m]]
<1>1. /\ Len(rt) = L /\ L \in Nat /\ K \in Nat /\ Len(rs) \in Nat /\ K \in 1..K
      /\ \A m \in 1..K : ops[m] \in OpType
  BY DEF Spans
<1>2. /\ sq[K] = <<sp[K][1], L>> /\ sq[K][1] = sp[K][1] /\ sq[K][2] = L
      /\ \A m \in 1..(K - 1) : sq[m] = sp[m]
      /\ \A m \in 1..K : sq[m][1] = sp[m][1]
  BY <1>1
<1>3. \A m \in 1..K :
        /\ sp[m] \in (1..Len(rs)) \X (1..Len(rs)) /\ sp[m][1] <= sp[m][2]
        /\ sp[m][1] \in 1..Len(rs) /\ sp[m][2] \in 1..Len(rs)
        /\ StandsFor(ops[m], rs, sp[m][1], sp[m][2])
  BY DEF Spans
<1>a. \A k, m \in 1..K : k < m => sp[k][2] < sp[m][1]
  BY DEF Spans
<1>4. \A m \in 1..K :
        /\ sq[m] \in (1..Len(rt)) \X (1..Len(rt)) /\ sq[m][1] <= sq[m][2]
        /\ StandsFor(os[m], rt, sq[m][1], sq[m][2])
  <2>. TAKE m \in 1..K
  <2>1. CASE m = K
    <3>1. sq[m] = <<sp[K][1], L>> /\ sq[m][1] = sp[K][1] /\ sq[m][2] = L
      BY <2>1, <1>2
    <3>. QED
      BY <3>1, <2>1, <1>1, <1>3
  <2>2. CASE m \in 1..(K - 1)
    <3>0. m < K /\ sp[m][2] < sp[K][1] /\ sp[K][1] \in 1..Len(rs)
      BY <2>2, <1>1, <1>3, <1>a
    <3>1. sp[m][2] # Len(rs)
      BY <3>0, <1>1, <1>3
    <3>2. StandsFor(ops[m], rt, sp[m][1], sp[m][2])
      BY <3>1, <1>1, <1>3, StandsStill
    <3>3. sp[m] \in (1..L) \X (1..L)
      BY <1>3, <1>1
    <3>. QED
      BY <2>2, <3>2, <3>3, <1>1, <1>2, <1>3
  <2>. QED
    BY <2>1, <2>2, <1>1
<1>5. \A k, m \in 1..K : k < m => sq[k][2] < sq[m][1]
  BY <1>1, <1>2 DEF Spans
<1>6. \A m \in 1..(K - 1) : sq[m + 1][1] = sq[m][2] + 1
  <2>. TAKE m \in 1..(K - 1)
  <2>1. m + 1 \in 1..K /\ sp[m + 1][1] = sp[m][2] + 1
    BY <1>1 DEF Spans
  <2>. QED
    BY <2>1, <1>2
<1>7. K > 0 /\ sq[1][1] = 1 /\ sq[K][2] = Len(rt)
  <2>1. 1 \in 1..K /\ sp[1][1] = 1
    BY <1>1 DEF Spans
  <2>. QED
    BY <2>1, <1>1, <1>2
<1>8. \A r \in 1..Len(rt) : \E m \in 1..K : sq[m][1] <= r /\ r <= sq[m][2]
  <2>. TAKE r \in 1..Len(rt)
  <2>1. CASE r = L
    BY <2>1, <1>1, <1>2, <1>3
  <2>2. CASE r \in 1..Len(rs)
    <3>1. PICK m \in 1..K : sp[m][1] <= r /\ r <= sp[m][2]
      BY <2>2 DEF Spans
    <3>2. CASE m = K
      BY <3>1, <3>2, <1>1, <1>2, <2>2
    <3>3. CASE m \in 1..(K - 1)
      BY <3>1, <3>3, <1>1, <1>2
    <3>. QED
      BY <3>2, <3>3, <1>1
  <2>. QED
    BY <2>1, <2>2, <1>1
<1>. HIDE DEF sq, rt, L, K
<1>9. Spans(rt, os, sq)
  BY <1>1, <1>4, <1>5, <1>6, <1>7, <1>8 DEF Spans, K
<1>. QED
  BY <1>9 DEF rt

(* Every maximal loop of the rows is one operation. *)
LEMMA LoopIsSpan ==
  ASSUME NEW rs \in Seq(RowType), NEW ops \in Seq(OpType), NEW sp, Spans(rs, ops, sp),
         NEW ab \in Loops(rs)
  PROVE  \E m \in 1..Len(ops) : sp[m] = ab /\ ops[m].copid # OtherCop
<1>1. /\ Len(rs) \in Nat /\ Len(ops) \in Nat
      /\ ab = <<ab[1], ab[2]>> /\ ab[1] \in 1..Len(rs) /\ ab[2] \in 1..Len(rs) /\ ab[1] <= ab[2]
      /\ Loop(rs, ab[1], ab[2])
  BY DEF Loops
<1>2. PICK m \in 1..Len(ops) : sp[m][1] <= ab[1] /\ ab[1] <= sp[m][2]
  BY <1>1 DEF Spans
<1>. DEFINE c == sp[m][1]
            d == sp[m][2]
<1>3. /\ sp[m] = <<c, d>> /\ c \in 1..Len(rs) /\ d \in 1..Len(rs)
      /\ StandsFor(ops[m], rs, c, d)
  BY <1>2 DEF Spans
<1>. HIDE DEF c, d
<1>4. IsGet(rs, ab[1])
  BY <1>1 DEF Loop
<1>5. ops[m].copid # OtherCop
  BY <1>1, <1>2, <1>3, <1>4 DEF StandsFor, c, d
<1>6. Loop(rs, c, d)
  BY <1>3, <1>5 DEF StandsFor
<1>7. c = ab[1]
  <2>. SUFFICES ASSUME c < ab[1] PROVE FALSE
    BY <1>1, <1>2, <1>3 DEF c, d
  <2>1. ab[1] - 1 \in c..(d - 1) /\ ab[1] > 1
    BY <1>1, <1>2, <1>3 DEF c, d
  <2>. QED
    BY <2>1, <1>1, <1>6 DEF Loop
<1>8. ~(d < ab[2])
  <2>. SUFFICES ASSUME d < ab[2] PROVE FALSE
    OBVIOUS
  <2>1. d \in ab[1]..(ab[2] - 1) /\ d < Len(rs)
    BY <1>1, <1>2, <1>3 DEF c, d
  <2>. QED
    BY <2>1, <1>1, <1>6 DEF Loop
<1>9. ~(ab[2] < d)
  <2>. SUFFICES ASSUME ab[2] < d PROVE FALSE
    OBVIOUS
  <2>1. ab[2] \in c..(d - 1) /\ ab[2] < Len(rs)
    BY <1>1, <1>2, <1>3, <1>7
  <2>. QED
    BY <2>1, <1>1, <1>6 DEF Loop
<1>10. d = ab[2]
  BY <1>1, <1>3, <1>8, <1>9
<1>11. sp[m] = ab
  BY <1>1, <1>3, <1>7, <1>10
<1>. QED
  BY <1>5, <1>11

(* Every get in the operations is a maximal loop of the rows. *)
LEMMA SpanIsLoop ==
  ASSUME NEW rs \in Seq(RowType), NEW ops \in Seq(OpType), NEW sp, Spans(rs, ops, sp),
         NEW m \in 1..Len(ops), ops[m].copid # OtherCop
  PROVE  sp[m] \in Loops(rs)
  BY DEF Spans, StandsFor, Loops

-----------------------------------------------------------------------------
(* LoopDetect: the first pass *)

(* The rows and operations of a container. *)
LEMMA LoopFacts ==
  ASSUME LoopShapes
  PROVE  /\ Len(rows) \in Nat /\ DOMAIN rows = 1..Len(rows) /\ DOMAIN out = 1..Len(rows)
         /\ Len(last) \in Nat /\ MaxRows \in Nat
         /\ \A n \in 1..Len(rows) :
              /\ rows[n] \in Seq(RowType) /\ out[n] \in Seq(OpType) /\ Merged(n) \in Seq(OpType)
              /\ Len(rows[n]) \in Nat /\ Len(out[n]) \in Nat /\ Len(Merged(n)) \in Nat
              /\ DOMAIN rows[n] = 1..Len(rows[n]) /\ DOMAIN Merged(n) = 1..Len(Merged(n))
              /\ DOMAIN out[n] = 1..Len(out[n])
<1>1. /\ Len(rows) \in Nat /\ DOMAIN rows = 1..Len(rows) /\ DOMAIN out = 1..Len(rows)
      /\ Len(last) \in Nat /\ MaxRows \in Nat
  BY LoopAssumption DEF LoopShapes
<1>. SUFFICES ASSUME NEW n \in 1..Len(rows)
              PROVE  /\ rows[n] \in Seq(RowType) /\ out[n] \in Seq(OpType) /\ Merged(n) \in Seq(OpType)
                     /\ Len(rows[n]) \in Nat /\ Len(out[n]) \in Nat /\ Len(Merged(n)) \in Nat
                     /\ DOMAIN rows[n] = 1..Len(rows[n]) /\ DOMAIN Merged(n) = 1..Len(Merged(n))
                     /\ DOMAIN out[n] = 1..Len(out[n])
  BY <1>1
<1>2. rows[n] \in Seq(RowType) /\ out[n] \in Seq(OpType)
  BY <1>1 DEF LoopShapes
<1>3. Merged(n) \in Seq(OpType)
  BY <1>2 DEF Merged, LoopShapes
<1>. QED
  BY <1>2, <1>3

(* get_cop and LOOP_GET_OP may share a value: the operations that count as *)
(* gets are those that stand for gets.                                     *)
LEMMA ConstIsGet ==
  ASSUME LoopShapes, NEW n \in 1..Len(rows), NEW m \in 1..Len(Merged(n))
  PROVE  is_const(Merged(n)[m]) <=> Merged(n)[m].copid # OtherCop
<1>1. Merged(n)[m] \in OpType
  BY LoopFacts
<1>2. CASE get_op = GetCop
  BY <1>1, <1>2 DEF is_const, OpType, LOOP_GET_OP, GetCop, OtherCop
<1>3. CASE get_op = NotTraced
  <2>1. Merged(n)[m].copid = OtherCop
    <3>1. out[n] \in Seq(OpType) /\ last \in Seq(OpType)
      BY LoopFacts DEF LoopShapes
    <3>2. \A k \in 1..Len(out[n]) : out[n][k].copid = OtherCop
      BY <1>3 DEF LoopShapes
    <3>3. \A k \in 1..Len(last) : last[k].copid = OtherCop
      BY <1>3 DEF LoopShapes
    <3>4. CASE n = Group
      <4>1. Merged(n) = out[n] \o last
        BY <3>4 DEF Merged
      <4>2. CASE m \in 1..Len(out[n])
        BY <4>1, <4>2, <3>1, <3>2
      <4>3. CASE m - Len(out[n]) \in 1..Len(last)
        BY <4>1, <4>3, <3>1, <3>3
      <4>. QED
        BY <4>1, <4>2, <4>3, <3>1
    <3>5. CASE n # Group
      BY <3>2, <3>5 DEF Merged
    <3>. QED
      BY <3>4, <3>5
  <2>. QED
    BY <2>1, <1>3 DEF is_const, LOOP_GET_OP, NotTraced, OtherCop
<1>. QED
  BY <1>2, <1>3 DEF LoopShapes

(* A row of the table, and the operation made of it. *)
LEMMA TracedRow ==
  ASSUME LoopShapes, NEW row \in Traced
  PROVE  /\ row \in RowType /\ ContainerOp(row) \in OpType
         /\ row.copid = GetCop => get_op = GetCop
         /\ ContainerOp(row).copid = row.copid /\ ContainerOp(row).v1 = row.v1
         /\ ContainerOp(row).place = row.place /\ ContainerOp(row).count = 1
         /\ row.copid # OtherCop <=> ContainerOp(row).copid = get_op
<1>0. (CHOOSE p \in Place : TRUE) \in Place /\ 0..MaxIndex \subseteq Nat /\ 0 \in Nat
  BY LoopAssumption
<1>1. Row(GetCop) \subseteq RowType /\ Row(OtherCop) \subseteq RowType
  BY <1>0 DEF Row, RowType
<1>2. row \in RowType
  BY <1>1 DEF Traced
<1>3. row.copid = GetCop => get_op = GetCop
  BY DEF Traced, Row, GetCop, OtherCop
<1>. QED
  BY <1>2, <1>3 DEF ContainerOp, OpType, RowType, LoopShapes, GetCop, OtherCop, NotTraced

(* The numbers from 1 to n. *)
LEMMA UpTo ==
  ASSUME NEW n \in Nat
  PROVE  IsFiniteSet(1..n) /\ Cardinality(1..n) = n
<1>1. /\ IsFiniteSet(1..n)
      /\ Cardinality(1..n) = IF 1 > n THEN 0 ELSE n - 1 + 1
  BY FS_Interval
<1>. QED
  BY <1>1

(* The rows read are finitely many, at least those of each container. *)
LEMMA CellsBound ==
  ASSUME LoopShapes
  PROVE  /\ IsFiniteSet(Cells) /\ RowsRead \in Nat
         /\ \A n \in 1..Len(rows) : Len(rows[n]) <= RowsRead
<1>0. IsFiniteSet(1..Len(rows)) /\ IsFiniteSet(1..MaxRows)
  BY LoopFacts, UpTo
<1>1. IsFiniteSet((1..Len(rows)) \X (1..MaxRows))
  BY <1>0, FS_Product
<1>2. Cells \subseteq (1..Len(rows)) \X (1..MaxRows)
  BY LoopFacts DEF Cells, LoopShapes
<1>3. IsFiniteSet(Cells)
  BY <1>1, <1>2, FS_Subset
<1>4. RowsRead \in Nat
  BY <1>3, FS_CardinalityType DEF RowsRead
<1>5. ASSUME NEW n \in 1..Len(rows) PROVE Len(rows[n]) <= RowsRead
  <2>1. IsFiniteSet({n}) /\ Cardinality({n}) = 1
    BY FS_Singleton
  <2>2. IsFiniteSet(1..Len(rows[n])) /\ Cardinality(1..Len(rows[n])) = Len(rows[n])
    BY LoopFacts, UpTo
  <2>3. Cardinality({n} \X (1..Len(rows[n]))) = 1 * Cardinality(1..Len(rows[n]))
    BY <2>1, <2>2, FS_Product
  <2>4. {n} \X (1..Len(rows[n])) \subseteq Cells
    BY LoopFacts DEF Cells
  <2>. QED
    BY <2>2, <2>3, <2>4, <1>3, FS_Subset, LoopFacts DEF RowsRead
<1>. QED
  BY <1>3, <1>4, <1>5

(* The operations of a container whose row in hand is finished. *)
LEMMA MergedRest ==
  ASSUME LoopShapes, NEW n \in 1..Len(rows), n # Group \/ last = << >>
  PROVE  Merged(n) = out[n]
<1>1. out[n] \in Seq(OpType)
  BY LoopFacts
<1>2. out[n] \o << >> = out[n]
  BY <1>1
<1>. QED
  BY <1>2 DEF Merged

(* One row more is read. *)
LEMMA OneRowMore ==
  ASSUME LoopShapes, RowsRead < MaxRows, NEW c, Cells' = Cells \cup {c}
  PROVE  RowsRead' <= MaxRows
<1>0. IsFiniteSet(Cells) /\ Cardinality(Cells) \in Nat
  BY CellsBound, FS_CardinalityType
<1>1. Cardinality(Cells \cup {c}) = IF c \in Cells THEN Cardinality(Cells) ELSE Cardinality(Cells) + 1
  BY <1>0, FS_AddElement
<1>2. Cardinality(Cells \cup {c}) \in Nat
  BY CellsBound, FS_AddElement, FS_CardinalityType
<1>. QED
  BY <1>0, <1>1, <1>2, LoopFacts DEF RowsRead

(* The first row of a container: an operation that stands for it. *)
LEMMA OpenGroupKeeps ==
  ASSUME LoopIInv, NEW row \in Traced, OpenGroup(row)
  PROVE  LoopIInv'
<1>0. LoopShapes /\ Passes /\ SpansRight /\ ResRight
  BY DEF LoopIInv
<1>. DEFINE G == Len(rows) + 1
            op == ContainerOp(row)
<1>1. /\ phase = "merge" /\ last = << >> /\ RowsRead < MaxRows
      /\ rows' = Append(rows, <<row>>) /\ out' = Append(out, << >>) /\ last' = <<op>>
      /\ UNCHANGED <<get_op, phase, hid, nth, res>>
  BY DEF OpenGroup
<1>2. /\ row \in RowType /\ op \in OpType /\ op.copid = row.copid /\ op.v1 = row.v1
      /\ op.place = row.place /\ op.count = 1 /\ (row.copid = GetCop => get_op = GetCop)
  BY <1>0, TracedRow
<1>. HIDE DEF op
<1>3. /\ rows \in Seq(Seq(RowType)) /\ out \in Seq(Seq(OpType)) /\ Len(out) = Len(rows)
      /\ Len(rows) \in Nat /\ <<row>> \in Seq(RowType) /\ << >> \in Seq(OpType)
      /\ <<op>> \in Seq(OpType)
  BY <1>0, <1>2, LoopFacts DEF LoopShapes
<1>4. /\ rows' \in Seq(Seq(RowType)) /\ out' \in Seq(Seq(OpType)) /\ Len(rows') = G /\ Len(out') = G
      /\ \A n \in 1..Len(rows) : rows'[n] = rows[n] /\ out'[n] = out[n]
      /\ rows'[G] = <<row>> /\ out'[G] = << >> /\ DOMAIN rows' = 1..G /\ DOMAIN rows = 1..Len(rows)
  BY <1>1, <1>3
<1>5. \A n \in 1..Len(rows') : n \in 1..Len(rows) \/ n = G
  BY <1>3, <1>4
<1>6. Cells' = Cells \cup {<<G, 1>>}
  <2>1. Cells' = UNION {{n} \X DOMAIN rows'[n] : n \in 1..G}
    BY <1>4 DEF Cells
  <2>2. DOMAIN rows'[G] = {1}
    BY <1>4
  <2>3. \A x : x \in Cells' <=> x \in Cells \/ x = <<G, 1>>
    <3>1. \A x : x \in Cells' <=> \E n \in 1..G : x \in {n} \X DOMAIN rows'[n]
      BY <2>1
    <3>2. \A x : x \in Cells <=> \E n \in 1..Len(rows) : x \in {n} \X DOMAIN rows[n]
      BY <1>4 DEF Cells
    <3>3. 1..G = 1..Len(rows) \cup {G}
      BY <1>3
    <3>4. \A x : x \in {G} \X DOMAIN rows'[G] <=> x = <<G, 1>>
      BY <2>2
    <3>. QED
      BY <3>1, <3>2, <3>3, <3>4, <1>4
  <2>. QED
    BY <2>3
<1>7. RowsRead' <= MaxRows
  BY <1>0, <1>1, <1>6, OneRowMore
<1>8. MaxRows >= 1 /\ MaxRows \in Nat
  BY <1>0, <1>1, CellsBound, LoopFacts
<1>9. LoopShapes'
  <2>1. \A n \in 1..Len(rows') : Len(rows'[n]) \in 1..MaxRows
    <3>1. \A n \in 1..Len(rows) : Len(rows'[n]) \in 1..MaxRows
      BY <1>0, <1>4 DEF LoopShapes
    <3>2. Len(rows'[G]) = 1
      BY <1>4
    <3>. TAKE n \in 1..Len(rows')
    <3>3. CASE n = G
      <4>1. rows'[n] = rows'[G]
        BY <3>3
      <4>. QED
        BY <4>1, <3>2, <1>8
    <3>. QED
      BY <3>1, <3>3, <1>5
  <2>2. last' \in Seq(OpType) /\ Len(last') = 1 /\ last'[1] = op
    BY <1>1, <1>3
  <2>3. ASSUME get_op' = NotTraced
        PROVE  /\ \A n \in 1..Len(rows') : \A r \in 1..Len(rows'[n]) : rows'[n][r].copid = OtherCop
               /\ \A n \in 1..Len(rows') : \A m \in 1..Len(out'[n]) : out'[n][m].copid = OtherCop
               /\ \A m \in 1..Len(last') : last'[m].copid = OtherCop
    <3>1. get_op = NotTraced /\ row.copid = OtherCop
      BY <2>3, <1>1, <1>2 DEF RowType, NotTraced, GetCop
    <3>2. /\ \A n \in 1..Len(rows) : \A r \in 1..Len(rows[n]) : rows[n][r].copid = OtherCop
          /\ \A n \in 1..Len(rows) : \A m \in 1..Len(out[n]) : out[n][m].copid = OtherCop
      BY <3>1, <1>0 DEF LoopShapes
    <3>3. /\ Len(rows'[G]) = 1 /\ rows'[G][1] = row /\ Len(out'[G]) = 0
          /\ \A k \in 1..1 : k = 1
      BY <1>4
    <3>4. op.copid = OtherCop
      BY <3>1, <1>2
    <3>5. \A n \in 1..Len(rows') : \A r \in 1..Len(rows'[n]) : rows'[n][r].copid = OtherCop
      <4>. TAKE n \in 1..Len(rows')
      <4>1. CASE n = G
        BY <4>1, <3>1, <3>3
      <4>2. CASE n \in 1..Len(rows)
        BY <4>2, <3>2, <1>4
      <4>. QED
        BY <4>1, <4>2, <1>5
    <3>6. \A n \in 1..Len(rows') : \A m \in 1..Len(out'[n]) : out'[n][m].copid = OtherCop
      <4>. TAKE n \in 1..Len(rows')
      <4>1. CASE n = G
        BY <4>1, <3>3
      <4>2. CASE n \in 1..Len(rows)
        BY <4>2, <3>2, <1>4
      <4>. QED
        BY <4>1, <4>2, <1>5
    <3>. QED
      BY <3>3, <3>4, <3>5, <3>6, <2>2
  <2>. QED
    BY <2>1, <2>2, <2>3, <1>0, <1>1, <1>4, <1>7 DEF LoopShapes
<1>10. Passes'
  BY <1>0, <1>1, <1>4 DEF Passes
<1>11. SpansRight'
  <2>. SUFFICES ASSUME NEW n \in 1..Len(rows') PROVE \E sp : Spans(rows'[n], Merged(n)', sp)
    BY DEF SpansRight
  <2>1. CASE n \in 1..Len(rows)
    <3>1. Merged(n) = out[n]
      BY <2>1, <1>0, <1>1, MergedRest
    <3>2. Merged(n)' = out[n]
      BY <2>1, <1>3, <1>4 DEF Merged, Group
    <3>. QED
      BY <2>1, <3>1, <3>2, <1>0, <1>4 DEF SpansRight
  <2>2. CASE n = G
    <3>0. << >> \o <<op>> = <<op>>
      BY <1>3
    <3>1. Merged(n)' = <<op>>
      BY <2>2, <3>0, <1>1, <1>4 DEF Merged, Group
    <3>2. StandsFor(op, <<row>>, 1, 1)
      BY <1>2 DEF StandsFor, Loop, IsGet, RowType, GetCop, OtherCop
    <3>. DEFINE sp == [m \in {1} |-> <<1, 1>>]
    <3>3. sp[1] = <<1, 1>> /\ sp[1][1] = 1 /\ sp[1][2] = 1
      OBVIOUS
    <3>4. Len(<<row>>) = 1 /\ Len(<<op>>) = 1 /\ <<op>>[1] = op
      OBVIOUS
    <3>. HIDE DEF sp
    <3>5. /\ \A m \in 1..Len(<<op>>) :
               /\ sp[m] \in (1..Len(<<row>>)) \X (1..Len(<<row>>)) /\ sp[m][1] <= sp[m][2]
               /\ StandsFor(<<op>>[m], <<row>>, sp[m][1], sp[m][2])
          /\ \A k, m \in 1..Len(<<op>>) : k < m => sp[k][2] < sp[m][1]
          /\ \A m \in 1..(Len(<<op>>) - 1) : sp[m + 1][1] = sp[m][2] + 1
      <4>1. \A m \in 1..1 : m = 1
        OBVIOUS
      <4>2. \A m \in 1..(1 - 1) : FALSE
        OBVIOUS
      <4>3. <<1, 1>> \in (1..1) \X (1..1) /\ 1 <= 1
        OBVIOUS
      <4>. QED
        BY <4>1, <4>2, <4>3, <3>2, <3>3, <3>4
    <3>6. \A r \in 1..Len(<<row>>) : \E m \in 1..Len(<<op>>) : sp[m][1] <= r /\ r <= sp[m][2]
      BY <3>3, <3>4
    <3>7. Spans(<<row>>, <<op>>, sp)
      BY <3>3, <3>4, <3>5, <3>6 DEF Spans
    <3>. QED
      BY <2>2, <3>1, <3>7, <1>4
  <2>. QED
    BY <2>1, <2>2, <1>5
<1>12. ResRight'
  BY <1>0, <1>1 DEF ResRight
<1>. QED
  BY <1>9, <1>10, <1>11, <1>12 DEF LoopIInv

(* One get more in the loop. *)
LEMMA LoopGrown ==
  ASSUME NEW prev \in OpType, NEW op \in OpType, op.count = 1
  PROVE  /\ add_op_for_loop(prev, op).copid = LOOP_GET_OP
         /\ add_op_for_loop(prev, op).count = prev.count + 1
         /\ add_op_for_loop(prev, op).v1 = prev.v1 + 1
         /\ add_op_for_loop(prev, op).place = prev.place
         /\ add_op_for_loop(prev, op) \in OpType
<1>1. prev.count + 1 \in Nat \ {0} /\ prev.v1 + 1 \in Nat
  BY DEF OpType
<1>. QED
  BY <1>1 DEF add_op_for_loop, OpType

(* The next row of a container goes on with the loop in hand, follows an   *)
(* operation that is finished, or swallows one of another kind.            *)
LEMMA MergeRowSpans ==
  ASSUME LoopIInv, NEW row \in Traced, NEW l \in OpType, NEW o \in Seq(OpType),
         NEW rs \in Seq(RowType), NEW sp, Spans(rs, Append(o, l), sp),
         is_const(l) <=> l.copid # OtherCop
  PROVE  LET op == ContainerOp(row)
         IN  IF is_const(l) /\ is_prev_get(l, op)
             THEN /\ add_op_for_loop(l, op) \in OpType
                  /\ get_op = GetCop
                  /\ \E sq : Spans(Append(rs, row), Append(o, add_op_for_loop(l, op)), sq)
             ELSE IF Finished(l, op)
             THEN \E sq : Spans(Append(rs, row), Append(Append(o, l), op), sq)
             ELSE \E sq : Spans(Append(rs, row), Append(o, op), sq)
<1>. DEFINE nop == ContainerOp(row)
            rt == Append(rs, row)
            L == Len(rs)
            K == Len(o) + 1
            ops == Append(o, l)
<1>1. /\ row \in RowType /\ nop \in OpType /\ nop.copid = row.copid /\ nop.v1 = row.v1
      /\ nop.place = row.place /\ nop.count = 1 /\ (row.copid = GetCop => get_op = GetCop)
      /\ row.copid # OtherCop <=> nop.copid = get_op
  BY TracedRow DEF LoopIInv
<1>. HIDE DEF nop
<1>2. /\ L \in Nat /\ rt \in Seq(RowType) /\ Len(rt) = L + 1 /\ rt[L + 1] = row
      /\ \A r \in 1..L : rt[r] = rs[r]
      /\ ops \in Seq(OpType) /\ Len(ops) = K /\ K \in Nat /\ K > 0 /\ ops[K] = l
      /\ \A m \in 1..(K - 1) : ops[m] = o[m]
  BY <1>1
<1>3. /\ sp[K][1] \in 1..L /\ sp[K][2] = L /\ L > 0
      /\ StandsFor(l, rs, sp[K][1], L)
  <2>1. K \in 1..Len(ops)
    BY <1>2
  <2>. QED
    BY <2>1, <1>2 DEF Spans
<1>. DEFINE fst == sp[K][1]
<1>. HIDE DEF rt, L, K, ops, fst
<1>4. row.copid \in {GetCop, OtherCop} /\ l.copid \in {GetCop, OtherCop, LOOP_GET_OP}
  BY <1>1 DEF RowType, OpType
<1>5. l.copid # OtherCop =>
        /\ Loop(rs, fst, L) /\ l.count = L - fst + 1 /\ l.v1 = rs[L].v1
        /\ \A r \in fst..L : rs[r].place = l.place
  BY <1>3 DEF StandsFor, fst
<1>6. GoesOn(rt, L) <=> is_const(l) /\ is_prev_get(l, nop)
  <2>1. IsGet(rt, L + 1) <=> row.copid # OtherCop
    BY <1>2, <1>4 DEF IsGet, GetCop, OtherCop
  <2>2. IsGet(rt, L) <=> l.copid # OtherCop
    <3>1. L \in fst..L /\ rt[L] = rs[L]
      BY <1>2, <1>3 DEF fst
    <3>. QED
      BY <3>1, <1>3, <1>5 DEF IsGet, StandsFor, Loop, fst
  <2>3. l.copid # OtherCop => rt[L].v1 = l.v1 /\ rt[L].place = l.place
    <3>1. L \in fst..L /\ rt[L] = rs[L]
      BY <1>2, <1>3 DEF fst
    <3>. QED
      BY <3>1, <1>5
  <2>. QED
    BY <2>1, <2>2, <2>3, <1>1, <1>2 DEF GoesOn, is_prev_get
<1>7. CASE is_const(l) /\ is_prev_get(l, nop)
  <2>. DEFINE grown == add_op_for_loop(l, nop)
  <2>1. /\ grown.copid = LOOP_GET_OP /\ grown.count = l.count + 1 /\ grown.v1 = l.v1 + 1 /\ grown.place = l.place
        /\ grown \in OpType
    BY <1>1, LoopGrown
  <2>2. get_op = GetCop
    BY <1>1, <1>4, <1>7 DEF is_prev_get, GetCop, OtherCop
  <2>. HIDE DEF grown
  <2>3. l.copid # OtherCop /\ l.v1 + 1 = row.v1 /\ l.place = row.place /\ row.copid = GetCop
    BY <1>1, <1>4, <1>7 DEF is_prev_get
  <2>4. Loop(rt, fst, L + 1)
    <3>1. Loop(rs, fst, L)
      BY <2>3, <1>5
    <3>2. fst \in 1..L
      BY <1>3 DEF fst
    <3>3. \A n \in fst..(L + 1) : IsGet(rt, n)
      <4>. TAKE n \in fst..(L + 1)
      <4>1. CASE n = L + 1
        BY <4>1, <2>3, <1>2 DEF IsGet
      <4>2. CASE n \in fst..L
        BY <4>2, <3>1, <3>2, <1>2 DEF Loop, IsGet
      <4>. QED
        BY <4>1, <4>2, <3>2, <1>2
    <3>4. \A n \in fst..L : GoesOn(rt, n)
      <4>. TAKE n \in fst..L
      <4>1. CASE n = L
        BY <4>1, <1>6, <1>7
      <4>2. CASE n \in fst..(L - 1)
        <5>1. n \in 1..L /\ n + 1 \in 1..L
          BY <4>2, <3>2, <1>2
        <5>2. rt[n] = rs[n] /\ rt[n + 1] = rs[n + 1] /\ GoesOn(rs, n)
          BY <5>1, <4>2, <3>1, <1>2 DEF Loop
        <5>. QED
          BY <5>2 DEF GoesOn, IsGet
      <4>. QED
        BY <4>1, <4>2, <3>2, <1>2
    <3>5. fst > 1 => ~GoesOn(rt, fst - 1)
      BY <3>1, <3>2, <1>2 DEF Loop, GoesOn, IsGet
    <3>6. ~(L + 1 < Len(rt))
      BY <1>2
    <3>. QED
      BY <3>3, <3>4, <3>5, <3>6, <1>2 DEF Loop
  <2>5. StandsFor(grown, rt, fst, L + 1)
    <3>1. fst \in 1..L
      BY <1>3 DEF fst
    <3>2. grown.copid # OtherCop /\ grown.count = L + 1 - fst + 1 /\ grown.v1 = rt[L + 1].v1
      BY <3>1, <2>1, <2>3, <1>2, <1>5 DEF LOOP_GET_OP, OtherCop
    <3>3. \A r \in fst..(L + 1) : rt[r].place = grown.place
      <4>. TAKE r \in fst..(L + 1)
      <4>1. CASE r = L + 1
        BY <4>1, <2>1, <2>3, <1>2
      <4>2. CASE r \in fst..L
        BY <4>2, <3>1, <2>1, <2>3, <1>2, <1>5
      <4>. QED
        BY <4>1, <4>2, <3>1, <1>2
    <3>. QED
      BY <3>1, <3>2, <3>3, <2>4, <1>2 DEF StandsFor
  <2>. DEFINE os == Append(o, grown)
  <2>6. os \in Seq(OpType) /\ Len(os) = K /\ os[K] = grown /\ \A m \in 1..(K - 1) : os[m] = ops[m]
    BY <2>1, <1>2 DEF K
  <2>. HIDE DEF os
  <2>7. \E sq : Spans(rt, os, sq)
    BY <2>5, <2>6, <1>1, <1>2, SpanExtended DEF rt, fst, L, ops
  <2>. QED
    BY <2>1, <2>2, <2>7, <1>7 DEF rt, os, grown, nop
<1>8. CASE ~(is_const(l) /\ is_prev_get(l, nop)) /\ Finished(l, nop)
  <2>1. StandsFor(nop, rt, L + 1, L + 1)
    <3>1. CASE nop.copid = OtherCop
      BY <3>1, <1>1, <1>2 DEF StandsFor, IsGet, GetCop, OtherCop
    <3>2. CASE nop.copid # OtherCop
      <4>1. IsGet(rt, L + 1)
        BY <3>2, <1>1, <1>2, <1>4 DEF IsGet
      <4>2. ~GoesOn(rt, L)
        BY <1>6, <1>8
      <4>3. Loop(rt, L + 1, L + 1)
        BY <4>1, <4>2, <1>2 DEF Loop
      <4>4. \A r \in (L + 1)..(L + 1) : r = L + 1
        BY <1>2
      <4>5. rt[L + 1].place = nop.place /\ rt[L + 1].v1 = nop.v1 /\ nop.count = L + 1 - (L + 1) + 1
        BY <1>1, <1>2
      <4>. QED
        BY <3>2, <4>3, <4>4, <4>5, <1>1, <1>2 DEF StandsFor
    <3>. QED
      BY <3>1, <3>2
  <2>2. ~GoesOn(rt, L)
    BY <1>6, <1>8
  <2>3. \E sq : Spans(rt, Append(ops, nop), sq)
    BY <2>1, <2>2, <1>1, <1>2, SpanAdded DEF rt, L, ops
  <2>. QED
    BY <2>3, <1>8 DEF rt, ops, nop
<1>9. CASE ~(is_const(l) /\ is_prev_get(l, nop)) /\ ~Finished(l, nop)
  <2>1. l.copid = OtherCop /\ nop.copid = OtherCop
    BY <1>1, <1>9 DEF Finished
  <2>2. StandsFor(nop, rt, fst, L + 1)
    <3>1. fst \in 1..L
      BY <1>3 DEF fst
    <3>2. \A r \in fst..L : ~IsGet(rs, r)
      BY <2>1, <1>3 DEF StandsFor, fst
    <3>3. \A r \in fst..(L + 1) : ~IsGet(rt, r)
      <4>. TAKE r \in fst..(L + 1)
      <4>1. CASE r = L + 1
        BY <4>1, <2>1, <1>1, <1>2 DEF IsGet, GetCop, OtherCop
      <4>2. CASE r \in fst..L
        <5>1. L \in Nat /\ fst \in 1..L /\ \A q \in 1..L : rt[q] = rs[q]
          BY <3>1, <1>2
        <5>. HIDE DEF L, fst, rt
        <5>2. r \in 1..L
          BY <4>2, <5>1
        <5>3. rt[r] = rs[r]
          BY <5>1, <5>2
        <5>. QED
          BY <4>2, <5>3, <3>2 DEF IsGet
      <4>. QED
        BY <4>1, <4>2, <3>1, <1>2
    <3>. QED
      BY <3>3, <2>1, <1>1 DEF StandsFor
  <2>. DEFINE os == Append(o, nop)
  <2>3. os \in Seq(OpType) /\ Len(os) = K /\ os[K] = nop /\ \A m \in 1..(K - 1) : os[m] = ops[m]
    BY <1>1, <1>2 DEF K
  <2>. HIDE DEF os
  <2>4. \E sq : Spans(rt, os, sq)
    BY <2>2, <2>3, <1>1, <1>2, SpanExtended DEF rt, fst, L, ops
  <2>. QED
    BY <2>4, <1>9 DEF rt, os, nop
<1>. QED
  BY <1>7, <1>8, <1>9 DEF nop, rt, ops

(* A sequence of one element. *)
LEMMA OnlyOne ==
  ASSUME NEW S, NEW s \in Seq(S), s # << >>, Len(s) <= 1
  PROVE  Len(s) = 1 /\ s[1] \in S /\ s = <<s[1]>>
<1>1. Len(s) \in Nat /\ Len(s) # 0
  BY EmptySeq
<1>2. Len(s) = 1
  BY <1>1
<1>3. s[1] \in S
  BY <1>2
<1>4. <<s[1]>> \in Seq(S) /\ Len(<<s[1]>>) = 1 /\ <<s[1]>>[1] = s[1]
  BY <1>3
<1>5. \A k \in 1..Len(s) : s[k] = <<s[1]>>[k]
  BY <1>2, <1>4
<1>. QED
  BY <1>2, <1>3, <1>4, <1>5, SeqEqual

(* A sequence of one element that is appended to another. *)
LEMMA OneAppended ==
  ASSUME NEW S, NEW s \in Seq(S), NEW x \in S
  PROVE  /\ s \o <<x>> = Append(s, x) /\ <<x>> \in Seq(S) /\ Len(<<x>>) = 1 /\ <<x>>[1] = x
         /\ Append(s, x) \in Seq(S)
  OBVIOUS

(* One element of a sequence changes. *)
LEMMA OneChanged ==
  ASSUME NEW S, NEW s \in Seq(S), NEW k \in 1..Len(s), NEW x \in S, NEW t, t = [s EXCEPT ![k] = x]
  PROVE  /\ t \in Seq(S) /\ Len(t) = Len(s) /\ t[k] = x /\ DOMAIN t = 1..Len(s)
         /\ \A n \in 1..Len(s) : n # k => t[n] = s[n]
  OBVIOUS

(* The next row of a container keeps the invariant. *)
LEMMA MergeRowKeeps ==
  ASSUME LoopIInv, NEW row \in Traced, MergeRow(row)
  PROVE  LoopIInv'
<1>0. LoopShapes /\ Passes /\ SpansRight /\ ResRight
  BY DEF LoopIInv
<1>. DEFINE G == Len(rows)
            nop == ContainerOp(row)
            l == last[1]
            swallowed == is_const(l) /\ is_prev_get(l, nop)
<1>1. /\ phase = "merge" /\ last # << >> /\ RowsRead < MaxRows
      /\ rows' = [rows EXCEPT ![G] = Append(@, row)]
      /\ UNCHANGED <<get_op, phase, hid, nth, res>>
  BY DEF MergeRow, Group
<1>2. /\ swallowed => last' = <<add_op_for_loop(l, nop)>> /\ out' = out
      /\ ~swallowed /\ Finished(l, nop) => last' = <<nop>> /\ out' = [out EXCEPT ![G] = @ \o last]
      /\ ~swallowed /\ ~Finished(l, nop) => last' = <<nop>> /\ out' = out
  BY DEF MergeRow, Group
<1>3. /\ row \in RowType /\ nop \in OpType /\ nop.copid = row.copid
      /\ (row.copid = GetCop => get_op = GetCop)
  BY <1>0, TracedRow
<1>. HIDE DEF nop, swallowed
<1>4. last \in Seq(OpType) /\ Len(last) <= 1 /\ G \in Nat /\ rows \in Seq(Seq(RowType))
  BY <1>0, LoopFacts DEF LoopShapes
<1>5. Len(last) = 1 /\ l \in OpType /\ last = <<l>>
  BY <1>1, <1>4, OnlyOne
<1>. HIDE DEF l
<1>6. rows # << >>
  BY <1>0, <1>1 DEF Passes
<1>7. G \in 1..Len(rows)
  BY <1>4, <1>6
<1>8. /\ rows[G] \in Seq(RowType) /\ out[G] \in Seq(OpType) /\ Len(rows[G]) \in Nat
      /\ DOMAIN rows = 1..G /\ DOMAIN out = 1..G
  BY <1>0, <1>7, LoopFacts
<1>. DEFINE rs == rows[G]
            o == out[G]
            os == Append(o, l)
            R == Len(rs)
<1>9. out[G] \o last = os /\ os \in Seq(OpType)
  BY <1>5, <1>8
<1>10. /\ rows' \in Seq(Seq(RowType)) /\ Len(rows') = G /\ rows'[G] = Append(rs, row) /\ DOMAIN rows' = 1..G
       /\ \A n \in 1..G : n # G => rows'[n] = rows[n]
  <2>1. Append(rs, row) \in Seq(RowType)
    BY <1>3, <1>8
  <2>2. rows' = [rows EXCEPT ![G] = Append(rs, row)]
    BY <1>1
  <2>. QED
    BY <2>1, <2>2, <1>4, <1>7, OneChanged
<1>11. /\ Append(rs, row) \in Seq(RowType) /\ Len(Append(rs, row)) = R + 1
       /\ Append(rs, row)[R + 1] = row /\ \A r \in 1..R : Append(rs, row)[r] = rs[r]
       /\ DOMAIN Append(rs, row) = 1..(R + 1)
  BY <1>3, <1>8
<1>12. out \in Seq(Seq(OpType)) /\ Len(out) = G
  BY <1>0 DEF LoopShapes
<1>13. is_const(l) <=> l.copid # OtherCop
  <2>1. Merged(G) = os
    BY <1>9 DEF Merged, Group
  <2>2. Len(os) \in 1..Len(Merged(G)) /\ os[Len(os)] = l
    BY <2>1, <1>5, <1>8
  <2>. QED
    BY <2>1, <2>2, <1>0, <1>7, ConstIsGet
<1>14. PICK sp : Spans(rs, os, sp)
  <2>1. Merged(G) = os
    BY <1>9 DEF Merged, Group
  <2>. QED
    BY <2>1, <1>0, <1>7 DEF SpansRight
<1>. HIDE DEF rs, o
<1>15. /\ swallowed => /\ add_op_for_loop(l, nop) \in OpType
                       /\ get_op = GetCop
                       /\ \E sq : Spans(Append(rs, row), Append(o, add_op_for_loop(l, nop)), sq)
       /\ ~swallowed /\ Finished(l, nop) => \E sq : Spans(Append(rs, row), Append(os, nop), sq)
       /\ ~swallowed /\ ~Finished(l, nop) => \E sq : Spans(Append(rs, row), Append(o, nop), sq)
  BY <1>5, <1>8, <1>13, <1>14, MergeRowSpans DEF nop, swallowed, rs, o
<1>16. Cells' = Cells \cup {<<G, R + 1>>}
  <2>1. \A x : x \in Cells' <=> \E n \in 1..G : x \in {n} \X DOMAIN rows'[n]
    BY <1>10 DEF Cells
  <2>2. \A x : x \in Cells <=> \E n \in 1..G : x \in {n} \X DOMAIN rows[n]
    BY <1>8 DEF Cells
  <2>3. DOMAIN rows'[G] = DOMAIN rows[G] \cup {R + 1}
    <3>1. DOMAIN rows[G] = 1..R
      BY <1>0, <1>7, LoopFacts DEF rs
    <3>2. DOMAIN rows'[G] = 1..(R + 1) /\ R \in Nat
      BY <1>8, <1>10, <1>11 DEF rs
    <3>. QED
      BY <3>1, <3>2
  <2>4. \A x : x \in {G} \X DOMAIN rows'[G] <=> x \in {G} \X DOMAIN rows[G] \/ x = <<G, R + 1>>
    BY <2>3
  <2>. QED
    BY <2>1, <2>2, <2>4, <1>7, <1>10
<1>17. RowsRead' <= MaxRows
  BY <1>0, <1>1, <1>16, OneRowMore
<1>18. R + 1 \in 1..MaxRows
  <2>1. R <= RowsRead /\ RowsRead \in Nat /\ R \in Nat /\ MaxRows \in Nat
    BY <1>0, <1>7, <1>8, CellsBound, LoopFacts DEF rs
  <2>. QED
    BY <2>1, <1>1
<1>19. /\ last' \in Seq(OpType) /\ Len(last') = 1 /\ out' \in Seq(Seq(OpType)) /\ Len(out') = G
       /\ \A n \in 1..G : n # G => out'[n] = out[n]
       /\ out'[G] \in {o, os}
       /\ get_op = NotTraced => last'[1].copid = OtherCop
  <2>0. get_op = NotTraced => nop.copid = OtherCop
    BY <1>3 DEF RowType, GetCop, NotTraced
  <2>1. /\ <<nop>> \in Seq(OpType) /\ Len(<<nop>>) = 1 /\ <<nop>>[1] = nop
        /\ out[G] = o
    BY <1>3 DEF o
  <2>2. CASE swallowed
    <3>. DEFINE x == add_op_for_loop(l, nop)
    <3>1. x \in OpType /\ get_op = GetCop
      BY <2>2, <1>15
    <3>. HIDE DEF x
    <3>2. <<x>> \in Seq(OpType) /\ Len(<<x>>) = 1 /\ get_op # NotTraced
      BY <3>1 DEF GetCop, NotTraced
    <3>3. last' = <<x>> /\ out' = out
      BY <2>2, <1>2 DEF x
    <3>. QED
      BY <3>2, <3>3, <2>1, <1>12
  <2>3. CASE ~swallowed /\ Finished(l, nop)
    <3>1. last' = <<nop>> /\ out' = [out EXCEPT ![G] = os]
      BY <2>3, <1>2, <1>9
    <3>2. G \in 1..Len(out)
      BY <1>7, <1>12
    <3>3. /\ out' \in Seq(Seq(OpType)) /\ Len(out') = Len(out) /\ out'[G] = os
          /\ \A n \in 1..Len(out) : n # G => out'[n] = out[n]
      BY <3>1, <3>2, <1>9, <1>12, OneChanged
    <3>. QED
      BY <3>1, <3>3, <2>0, <2>1, <1>12
  <2>4. CASE ~swallowed /\ ~Finished(l, nop)
    <3>1. last' = <<nop>> /\ out' = out
      BY <2>4, <1>2
    <3>. QED
      BY <3>1, <2>0, <2>1, <1>12
  <2>. QED
    BY <2>2, <2>3, <2>4
<1>20. LoopShapes'
  <2>1. \A n \in 1..Len(rows') : Len(rows'[n]) \in 1..MaxRows
    <3>. TAKE n \in 1..Len(rows')
    <3>1. CASE n = G
      <4>1. Len(rows'[n]) = R + 1
        BY <3>1, <1>10, <1>11
      <4>. QED
        BY <4>1, <1>18
    <3>2. CASE n # G
      BY <3>2, <1>0, <1>10 DEF LoopShapes
    <3>. QED
      BY <3>1, <3>2
  <2>2. ASSUME get_op' = NotTraced
        PROVE  /\ \A n \in 1..Len(rows') : \A r \in 1..Len(rows'[n]) : rows'[n][r].copid = OtherCop
               /\ \A n \in 1..Len(rows') : \A m \in 1..Len(out'[n]) : out'[n][m].copid = OtherCop
               /\ \A m \in 1..Len(last') : last'[m].copid = OtherCop
    <3>1. get_op = NotTraced /\ row.copid = OtherCop
      BY <2>2, <1>1, <1>3 DEF RowType, NotTraced, GetCop
    <3>2. /\ \A n \in 1..Len(rows) : \A r \in 1..Len(rows[n]) : rows[n][r].copid = OtherCop
          /\ \A n \in 1..Len(rows) : \A m \in 1..Len(out[n]) : out[n][m].copid = OtherCop
          /\ \A m \in 1..Len(last) : last[m].copid = OtherCop
      BY <3>1, <1>0 DEF LoopShapes
    <3>3. l.copid = OtherCop
      BY <3>2, <1>5 DEF l
    <3>4. \A r \in 1..(R + 1) : Append(rs, row)[r].copid = OtherCop
      <4>. TAKE r \in 1..(R + 1)
      <4>1. CASE r = R + 1
        BY <4>1, <3>1, <1>11
      <4>2. CASE r \in 1..R
        BY <4>2, <3>2, <1>7, <1>11 DEF rs
      <4>. QED
        BY <4>1, <4>2, <1>8 DEF rs
    <3>5. \A n \in 1..Len(rows') : \A r \in 1..Len(rows'[n]) : rows'[n][r].copid = OtherCop
      <4>. TAKE n \in 1..Len(rows')
      <4>1. CASE n = G
        <5>1. rows'[n] = Append(rs, row) /\ Len(rows'[n]) = R + 1
          BY <4>1, <1>10, <1>11
        <5>. QED
          BY <5>1, <3>4
      <4>2. CASE n # G
        BY <4>2, <3>2, <1>10
      <4>. QED
        BY <4>1, <4>2
    <3>6. \A m \in 1..Len(o) : o[m].copid = OtherCop
      BY <3>2, <1>7 DEF o
    <3>7. \A m \in 1..Len(os) : os[m].copid = OtherCop
      <4>. TAKE m \in 1..Len(os)
      <4>1. CASE m = Len(o) + 1
        BY <4>1, <3>3, <1>5, <1>8 DEF o
      <4>2. CASE m \in 1..Len(o)
        BY <4>2, <3>6, <1>5, <1>8 DEF o
      <4>. QED
        BY <4>1, <4>2, <1>5, <1>8 DEF o
    <3>8. \A n \in 1..Len(rows') : \A m \in 1..Len(out'[n]) : out'[n][m].copid = OtherCop
      <4>. TAKE n \in 1..Len(rows')
      <4>1. CASE n = G
        <5>1. out'[n] = o \/ out'[n] = os
          BY <4>1, <1>19
        <5>. QED
          BY <5>1, <3>6, <3>7
      <4>2. CASE n # G
        <5>1. out'[n] = out[n] /\ n \in 1..Len(rows)
          BY <4>2, <1>10, <1>19
        <5>. QED
          BY <5>1, <3>2
      <4>. QED
        BY <4>1, <4>2
    <3>9. \A m \in 1..Len(last') : last'[m].copid = OtherCop
      BY <3>1, <1>19
    <3>. QED
      BY <3>5, <3>8, <3>9
  <2>. QED
    BY <2>1, <2>2, <1>0, <1>1, <1>10, <1>17, <1>19 DEF LoopShapes
<1>21. Passes'
  <2>1. rows' # << >>
    <3>0. G # 0
      BY <1>4, <1>7
    <3>1. Len(rows') # 0
      BY <3>0, <1>10, Zenon
    <3>2. Len(<< >>) = 0
      OBVIOUS
    <3>. QED
      BY <3>1, <3>2, Zenon
  <2>. QED
    BY <2>1, <1>0, <1>1 DEF Passes
<1>22. SpansRight'
  <2>. SUFFICES ASSUME NEW n \in 1..Len(rows') PROVE \E sq : Spans(rows'[n], Merged(n)', sq)
    BY DEF SpansRight
  <2>1. CASE n # G
    <3>1. Merged(n) = out[n] /\ Merged(n)' = out[n]
      BY <2>1, <1>10, <1>19 DEF Merged, Group
    <3>. QED
      BY <2>1, <3>1, <1>0, <1>10 DEF SpansRight
  <2>2. CASE n = G
    <3>1. rows'[n] = Append(rs, row) /\ Merged(n)' = out'[G] \o last'
      BY <2>2, <1>10 DEF Merged, Group
    <3>2. CASE swallowed
      <4>1. out'[G] \o last' = Append(o, add_op_for_loop(l, nop))
        <5>. DEFINE x == add_op_for_loop(l, nop)
        <5>1. x \in OpType /\ o \in Seq(OpType)
          BY <3>2, <1>8, <1>15 DEF o
        <5>2. out'[G] = o /\ last' = <<x>>
          BY <3>2, <1>2 DEF o
        <5>. HIDE DEF x
        <5>3. o \o <<x>> = Append(o, x)
          BY <5>1, OneAppended
        <5>. QED
          BY <5>2, <5>3 DEF x
      <4>. QED
        BY <3>1, <3>2, <4>1, <1>15
    <3>3. CASE ~swallowed /\ Finished(l, nop)
      <4>1. out'[G] = os
        BY <3>3, <1>2, <1>7, <1>8, <1>9
      <4>2. os \o <<nop>> = Append(os, nop)
        BY <1>3, <1>9
      <4>3. out'[G] \o last' = Append(os, nop)
        BY <3>3, <4>1, <4>2, <1>2
      <4>. QED
        BY <3>1, <3>3, <4>3, <1>15
    <3>4. CASE ~swallowed /\ ~Finished(l, nop)
      <4>1. out'[G] \o last' = Append(o, nop)
        <5>1. out'[G] = o /\ last' = <<nop>> /\ o \in Seq(OpType)
          BY <3>4, <1>2, <1>8 DEF o
        <5>2. o \o <<nop>> = Append(o, nop)
          BY <5>1, <1>3, OneAppended
        <5>. QED
          BY <5>1, <5>2
      <4>. QED
        BY <3>1, <3>4, <4>1, <1>15
    <3>. QED
      BY <3>2, <3>3, <3>4
  <2>. QED
    BY <2>1, <2>2
<1>23. ResRight'
  BY <1>0, <1>1 DEF ResRight
<1>. QED
  BY <1>20, <1>21, <1>22, <1>23 DEF LoopIInv

(* The last operation of a container is written down. *)
LEMMA CloseGroupKeeps ==
  ASSUME LoopIInv, CloseGroup
  PROVE  LoopIInv'
<1>0. LoopShapes /\ Passes /\ SpansRight /\ ResRight
  BY DEF LoopIInv
<1>. DEFINE G == Len(rows)
<1>1. /\ phase = "merge" /\ last # << >> /\ last' = << >>
      /\ out' = [out EXCEPT ![G] = @ \o last]
      /\ UNCHANGED <<get_op, rows, phase, hid, nth, res>>
  BY DEF CloseGroup, Group
<1>2. rows # << >> /\ rows \in Seq(Seq(RowType)) /\ last \in Seq(OpType)
  BY <1>0, <1>1 DEF Passes, LoopShapes
<1>3. G \in 1..Len(rows)
  BY <1>2
<1>4. /\ out[G] \in Seq(OpType) /\ out \in Seq(Seq(OpType)) /\ Len(out) = G
  BY <1>0, <1>3, LoopFacts DEF LoopShapes
<1>. DEFINE os == out[G] \o last
<1>5. os \in Seq(OpType) /\ os = Merged(G)
  BY <1>2, <1>4 DEF Merged, Group
<1>6. /\ out' \in Seq(Seq(OpType)) /\ Len(out') = G /\ out'[G] = os
      /\ \A n \in 1..G : n # G => out'[n] = out[n]
  BY <1>1, <1>3, <1>4, <1>5
<1>. HIDE DEF os
<1>7. \A n \in 1..G : Merged(n)' = Merged(n)
  <2>. TAKE n \in 1..G
  <2>1. CASE n = G
    <3>1. os \o << >> = os
      BY <1>5
    <3>. QED
      BY <2>1, <3>1, <1>1, <1>5, <1>6 DEF Merged, Group
  <2>2. CASE n # G
    BY <2>2, <1>1, <1>6 DEF Merged, Group
  <2>. QED
    BY <2>1, <2>2
<1>8. LoopShapes'
  <2>0. << >> \in Seq(OpType) /\ Len(<< >>) = 0
    OBVIOUS
  <2>1. ASSUME get_op = NotTraced
        PROVE  \A n \in 1..G : \A m \in 1..Len(out'[n]) : out'[n][m].copid = OtherCop
    <3>1. /\ \A n \in 1..G : \A m \in 1..Len(out[n]) : out[n][m].copid = OtherCop
          /\ \A m \in 1..Len(last) : last[m].copid = OtherCop
      BY <2>1, <1>0 DEF LoopShapes
    <3>2. \A m \in 1..Len(os) : os[m].copid = OtherCop
      <4>. TAKE m \in 1..Len(os)
      <4>1. CASE m \in 1..Len(out[G])
        <5>1. os[m] = out[G][m]
          BY <4>1, <1>2, <1>4 DEF os
        <5>. QED
          BY <5>1, <4>1, <3>1, <1>3
      <4>2. CASE m - Len(out[G]) \in 1..Len(last)
        BY <4>2, <3>1, <1>2, <1>3, <1>4 DEF os
      <4>. QED
        BY <4>1, <4>2, <1>2, <1>4 DEF os
    <3>. QED
      BY <3>1, <3>2, <1>6
  <2>2. RowsRead' = RowsRead
    BY <1>1 DEF RowsRead, Cells
  <2>. QED
    BY <2>0, <2>1, <2>2, <1>0, <1>1, <1>6 DEF LoopShapes
<1>9. Passes'
  BY <1>0, <1>1, <1>6 DEF Passes
<1>10. SpansRight'
  BY <1>0, <1>1, <1>7 DEF SpansRight
<1>11. ResRight'
  BY <1>0, <1>1 DEF ResRight
<1>. QED
  BY <1>8, <1>9, <1>10, <1>11 DEF LoopIInv

-----------------------------------------------------------------------------
(* LoopDetect: the second pass *)

(* What the second pass reads stands for the rows. *)
LEMMA SpanOfRight ==
  ASSUME LoopIInv, phase # "merge", NEW n \in 1..Len(rows)
  PROVE  /\ Spans(rows[n], out[n], SpanOf(n))
         /\ Len(out[n]) > 0 /\ Merged(n) = out[n]
<1>1. last = << >>
  BY DEF LoopIInv, Passes
<1>2. Merged(n) = out[n]
  BY <1>1, MergedRest DEF LoopIInv
<1>3. \E sp : Spans(rows[n], out[n], sp)
  BY <1>2 DEF LoopIInv, SpansRight
<1>4. Spans(rows[n], out[n], SpanOf(n))
  BY <1>3 DEF SpanOf
<1>. QED
  BY <1>2, <1>4 DEF Spans

(* The pairs of all containers. *)
LEMMA FusableMember ==
  ASSUME LoopShapes, NEW key
  PROVE  \A p : p \in Fusable(key) <=>
           \E n \in 1..Len(rows) : \E pq \in Pairs(rows[n], key) : p = <<n, pq>>
<1>1. DOMAIN rows = 1..Len(rows)
  BY LoopFacts
<1>. QED
  BY <1>1 DEF Fusable

(* What a pair is. *)
LEMMA FusableParts ==
  ASSUME LoopShapes, NEW key, NEW p \in Fusable(key)
  PROVE  /\ p = <<p[1], p[2]>> /\ p[1] \in 1..Len(rows) /\ p[2] = <<p[2][1], p[2][2]>>
         /\ p[2][1] \in Loops(rows[p[1]]) /\ p[2][2] \in Loops(rows[p[1]])
         /\ p[2][1][2] + 1 = p[2][2][1]
         /\ \A side \in {1, 2} : p[2][side][1] \in 1..MaxRows /\ p[2][side][2] \in 1..MaxRows
<1>0. PICK n \in 1..Len(rows) : \E pq \in Pairs(rows[n], key) : p = <<n, pq>>
  BY FusableMember
<1>1. PICK pq \in Pairs(rows[n], key) : p = <<n, pq>>
  BY <1>0
<1>2. pq \in Loops(rows[n]) \X Loops(rows[n]) /\ pq[1][2] + 1 = pq[2][1]
  BY DEF Pairs, Long
<1>3. Len(rows[n]) <= MaxRows /\ Len(rows[n]) \in Nat /\ MaxRows \in Nat
  BY LoopFacts DEF LoopShapes
<1>4. \A ab \in Loops(rows[n]) : ab[1] \in 1..Len(rows[n]) /\ ab[2] \in 1..Len(rows[n])
  BY DEF Loops
<1>5. p[1] = n /\ p[2] = pq /\ pq = <<pq[1], pq[2]>> /\ pq[1] \in Loops(rows[n]) /\ pq[2] \in Loops(rows[n])
  BY <1>1, <1>2
<1>6. \A side \in {1, 2} : pq[side][1] \in 1..MaxRows /\ pq[side][2] \in 1..MaxRows
  BY <1>3, <1>4, <1>5
<1>. QED
  BY <1>1, <1>2, <1>5, <1>6

(* The gets of the loops on one side. *)
LEMMA GetsMember ==
  ASSUME NEW key, NEW side
  PROVE  \A q : q \in Gets(key, side) <=>
           \E p \in Fusable(key) : \E r \in p[2][side][1] .. p[2][side][2] : q = <<p, r>>
  BY DEF Gets

(* Pairs and gets are finitely many. *)
LEMMA FusableFinite ==
  ASSUME LoopShapes, NEW key, NEW side \in {1, 2}
  PROVE  IsFiniteSet(Fusable(key)) /\ IsFiniteSet(Gets(key, side))
<1>. DEFINE I == 1..MaxRows
            U == (1..Len(rows)) \X ((I \X I) \X (I \X I))
<1>1. IsFiniteSet(1..Len(rows)) /\ IsFiniteSet(I)
  BY LoopFacts, UpTo
<1>. HIDE DEF I
<1>2. IsFiniteSet(I \X I)
  BY <1>1, FS_Product
<1>3. IsFiniteSet((I \X I) \X (I \X I))
  BY <1>2, FS_Product
<1>4. IsFiniteSet(U)
  BY <1>1, <1>3, FS_Product
<1>5. IsFiniteSet(U \X I)
  BY <1>1, <1>4, FS_Product
<1>6. Fusable(key) \subseteq U
  <2>. SUFFICES ASSUME NEW p \in Fusable(key) PROVE p \in U
    OBVIOUS
  <2>1. /\ p = <<p[1], p[2]>> /\ p[1] \in 1..Len(rows) /\ p[2] = <<p[2][1], p[2][2]>>
        /\ p[2][1] \in Loops(rows[p[1]]) /\ p[2][2] \in Loops(rows[p[1]])
        /\ p[2][1][1] \in I /\ p[2][1][2] \in I /\ p[2][2][1] \in I /\ p[2][2][2] \in I
    BY FusableParts DEF I
  <2>2. \A ab \in Loops(rows[p[1]]) : ab = <<ab[1], ab[2]>>
    BY DEF Loops
  <2>3. p[2][1] \in I \X I /\ p[2][2] \in I \X I
    BY <2>1, <2>2
  <2>4. p[2] \in (I \X I) \X (I \X I)
    BY <2>1, <2>3
  <2>. QED
    BY <2>1, <2>4
<1>7. Gets(key, side) \subseteq U \X I
  <2>. SUFFICES ASSUME NEW q \in Gets(key, side) PROVE q \in U \X I
    OBVIOUS
  <2>0. PICK p \in Fusable(key) : \E r \in p[2][side][1] .. p[2][side][2] : q = <<p, r>>
    BY GetsMember
  <2>1. PICK r \in p[2][side][1] .. p[2][side][2] : q = <<p, r>>
    BY <2>0
  <2>2. p[2][side][1] \in I /\ p[2][side][2] \in I
    BY FusableParts DEF I
  <2>3. r \in I
    BY <2>2, LoopFacts DEF I
  <2>. QED
    BY <1>6, <2>1, <2>3
<1>. QED
  BY <1>4, <1>5, <1>6, <1>7, FS_Subset

(* The pair of the operation in hand and the next one. *)
NewPair == <<hid, <<SpanOf(hid)[nth], SpanOf(hid)[nth + 1]>>>>
IsPair(key) ==
  /\ IsLoop(out[hid][nth]) /\ IsLoop(out[hid][nth + 1])
  /\ key = <<out[hid][nth].place, out[hid][nth + 1].place>>

(* The operations n and n + 1 of the second pass. *)
LEMMA TwoSpans ==
  ASSUME LoopIInv, PairOp
  PROVE  /\ phase = "pair" /\ hid \in 1..Len(rows) /\ nth \in 1..Len(out[hid]) /\ nth + 1 \in 1..Len(out[hid])
         /\ Spans(rows[hid], out[hid], SpanOf(hid))
         /\ rows[hid] \in Seq(RowType) /\ out[hid] \in Seq(OpType)
         /\ SpanOf(hid)[nth + 1][1] = SpanOf(hid)[nth][2] + 1
         /\ \A m \in 1..Len(out[hid]) :
              /\ SpanOf(hid)[m] = <<SpanOf(hid)[m][1], SpanOf(hid)[m][2]>>
              /\ SpanOf(hid)[m][1] \in Nat \ {0} /\ SpanOf(hid)[m][2] \in Nat
              /\ SpanOf(hid)[m][1] <= SpanOf(hid)[m][2]
              /\ StandsFor(out[hid][m], rows[hid], SpanOf(hid)[m][1], SpanOf(hid)[m][2])
              /\ is_const(out[hid][m]) <=> out[hid][m].copid # OtherCop
         /\ \A k, m \in 1..Len(out[hid]) : k < m => SpanOf(hid)[k][2] < SpanOf(hid)[m][1]
<1>1. /\ phase = "pair" /\ hid \in 1..Len(rows) /\ nth \in 1..Len(out[hid]) /\ nth < Len(out[hid])
  BY DEF LoopIInv, Passes, PairOp
<1>2. /\ Spans(rows[hid], out[hid], SpanOf(hid)) /\ Merged(hid) = out[hid]
  BY <1>1, SpanOfRight
<1>3. /\ rows[hid] \in Seq(RowType) /\ out[hid] \in Seq(OpType) /\ Len(out[hid]) \in Nat
      /\ Len(rows[hid]) \in Nat
  BY <1>1, LoopFacts DEF LoopIInv
<1>4. nth + 1 \in 1..Len(out[hid]) /\ nth \in 1..(Len(out[hid]) - 1)
  BY <1>1, <1>3
<1>5. \A m \in 1..Len(out[hid]) : is_const(out[hid][m]) <=> out[hid][m].copid # OtherCop
  BY <1>1, <1>2, ConstIsGet DEF LoopIInv
<1>6. SpanOf(hid)[nth + 1][1] = SpanOf(hid)[nth][2] + 1
  BY <1>2, <1>4 DEF Spans
<1>7. \A m \in 1..Len(out[hid]) :
              /\ SpanOf(hid)[m] \in (1..Len(rows[hid])) \X (1..Len(rows[hid]))
              /\ SpanOf(hid)[m][1] <= SpanOf(hid)[m][2]
              /\ StandsFor(out[hid][m], rows[hid], SpanOf(hid)[m][1], SpanOf(hid)[m][2])
  BY <1>2 DEF Spans
<1>8. \A k, m \in 1..Len(out[hid]) : k < m => SpanOf(hid)[k][2] < SpanOf(hid)[m][1]
  BY <1>2 DEF Spans
<1>9. \A x \in (1..Len(rows[hid])) \X (1..Len(rows[hid])) :
        x = <<x[1], x[2]>> /\ x[1] \in Nat \ {0} /\ x[2] \in Nat
  BY <1>3
<1>. QED
  BY <1>1, <1>2, <1>3, <1>4, <1>5, <1>6, <1>7, <1>8, <1>9

(* It is one of the pairs to be counted exactly if the script counts it. *)
LEMMA NewPairRight ==
  ASSUME LoopIInv, PairOp, NEW key
  PROVE  NewPair \in Fusable(key) <=> IsPair(key)
<1>. DEFINE rs == rows[hid]
            sp == SpanOf(hid)
            x == out[hid][nth]
            y == out[hid][nth + 1]
<1>1. /\ hid \in 1..Len(rows) /\ nth \in 1..Len(out[hid]) /\ nth + 1 \in 1..Len(out[hid])
      /\ Spans(rs, out[hid], sp) /\ rs \in Seq(RowType) /\ out[hid] \in Seq(OpType)
      /\ sp[nth + 1][1] = sp[nth][2] + 1
      /\ sp[nth][1] \in Nat \ {0} /\ sp[nth][2] \in Nat /\ sp[nth][1] <= sp[nth][2]
      /\ sp[nth + 1][1] \in Nat \ {0} /\ sp[nth + 1][2] \in Nat /\ sp[nth + 1][1] <= sp[nth + 1][2]
      /\ StandsFor(x, rs, sp[nth][1], sp[nth][2])
      /\ StandsFor(y, rs, sp[nth + 1][1], sp[nth + 1][2])
      /\ (is_const(x) <=> x.copid # OtherCop) /\ (is_const(y) <=> y.copid # OtherCop)
  BY TwoSpans
<1>2. NewPair \in Fusable(key) <=> <<sp[nth], sp[nth + 1]>> \in Pairs(rs, key)
  <2>1. \A n, pq : NewPair = <<n, pq>> <=> n = hid /\ pq = <<sp[nth], sp[nth + 1]>>
    BY DEF NewPair
  <2>2. NewPair \in Fusable(key) <=> \E n \in 1..Len(rows) : \E pq \in Pairs(rows[n], key) : NewPair = <<n, pq>>
    BY FusableMember DEF LoopIInv
  <2>. QED
    BY <2>1, <2>2, <1>1
<1>3. sp[nth] \in Loops(rs) <=> is_const(x)
  <2>1. ASSUME is_const(x) PROVE sp[nth] \in Loops(rs)
    BY <2>1, <1>1, SpanIsLoop
  <2>2. ASSUME sp[nth] \in Loops(rs) PROVE is_const(x)
    <3>1. IsGet(rs, sp[nth][1]) /\ sp[nth][1] \in sp[nth][1] .. sp[nth][2]
      BY <2>2, <1>1 DEF Loops, Loop
    <3>. QED
      BY <3>1, <1>1 DEF StandsFor
  <2>. QED
    BY <2>1, <2>2
<1>4. sp[nth + 1] \in Loops(rs) <=> is_const(y)
  <2>1. ASSUME is_const(y) PROVE sp[nth + 1] \in Loops(rs)
    BY <2>1, <1>1, SpanIsLoop
  <2>2. ASSUME sp[nth + 1] \in Loops(rs) PROVE is_const(y)
    <3>1. IsGet(rs, sp[nth + 1][1]) /\ sp[nth + 1][1] \in sp[nth + 1][1] .. sp[nth + 1][2]
      BY <2>2, <1>1 DEF Loops, Loop
    <3>. QED
      BY <3>1, <1>1 DEF StandsFor
  <2>. QED
    BY <2>1, <2>2
<1>5. is_const(x) => x.count = Length(sp[nth]) /\ x.place = rs[sp[nth][1]].place
  <2>. SUFFICES ASSUME is_const(x) PROVE x.count = Length(sp[nth]) /\ x.place = rs[sp[nth][1]].place
    OBVIOUS
  <2>1. /\ x.count = sp[nth][2] - sp[nth][1] + 1
        /\ \A r \in sp[nth][1] .. sp[nth][2] : rs[r].place = x.place
    BY <1>1 DEF StandsFor
  <2>2. sp[nth][1] \in sp[nth][1] .. sp[nth][2]
    BY <1>1
  <2>. QED
    BY <2>1, <2>2 DEF Length
<1>6. is_const(y) => y.count = Length(sp[nth + 1]) /\ y.place = rs[sp[nth + 1][1]].place
  <2>. SUFFICES ASSUME is_const(y) PROVE y.count = Length(sp[nth + 1]) /\ y.place = rs[sp[nth + 1][1]].place
    OBVIOUS
  <2>1. /\ y.count = sp[nth + 1][2] - sp[nth + 1][1] + 1
        /\ \A r \in sp[nth + 1][1] .. sp[nth + 1][2] : rs[r].place = y.place
    BY <1>1 DEF StandsFor
  <2>2. sp[nth + 1][1] \in sp[nth + 1][1] .. sp[nth + 1][2]
    BY <1>1
  <2>. QED
    BY <2>1, <2>2 DEF Length
<1>7. sp[nth] \in Long(rs) <=> IsLoop(x)
  BY <1>3, <1>5 DEF Long, IsLoop
<1>8. sp[nth + 1] \in Long(rs) <=> IsLoop(y)
  BY <1>4, <1>6 DEF Long, IsLoop
<1>9. <<sp[nth], sp[nth + 1]>> \in Pairs(rs, key) <=>
        /\ sp[nth] \in Long(rs) /\ sp[nth + 1] \in Long(rs)
        /\ key = <<rs[sp[nth][1]].place, rs[sp[nth + 1][1]].place>>
  <2>. DEFINE u == sp[nth]
              v == sp[nth + 1]
  <2>1. u[2] + 1 = v[1]
    BY <1>1
  <2>. HIDE DEF u, v, rs
  <2>2. <<u, v>> \in Pairs(rs, key) <=>
          u \in Long(rs) /\ v \in Long(rs) /\ key = <<rs[u[1]].place, rs[v[1]].place>>
    BY <2>1 DEF Pairs
  <2>. QED
    BY <2>2 DEF u, v
<1>10. IsLoop(x) => is_const(x)
  BY DEF IsLoop
<1>11. IsLoop(y) => is_const(y)
  BY DEF IsLoop
<1>. QED
  BY <1>2, <1>5, <1>6, <1>7, <1>8, <1>9, <1>10, <1>11 DEF IsPair

(* It is the only pair that the second pass meets with this step. *)
LEMMA OnlyNewPair ==
  ASSUME LoopIInv, PairOp, NEW key, NEW p \in Fusable(key)
  PROVE  /\ Past(p)' <=> Past(p) \/ p = NewPair
         /\ p = NewPair => ~Past(p)
<1>. DEFINE rs == rows[hid]
            sp == SpanOf(hid)
<1>1. /\ hid \in 1..Len(rows) /\ nth \in 1..Len(out[hid]) /\ nth + 1 \in 1..Len(out[hid])
      /\ Spans(rs, out[hid], sp) /\ rs \in Seq(RowType) /\ out[hid] \in Seq(OpType)
      /\ sp[nth + 1][1] = sp[nth][2] + 1
      /\ \A m \in 1..Len(out[hid]) : sp[m][1] \in Nat \ {0} /\ sp[m][2] \in Nat /\ sp[m][1] <= sp[m][2]
      /\ \A k, m \in 1..Len(out[hid]) : k < m => sp[k][2] < sp[m][1]
  BY TwoSpans
<1>2. Start = sp[nth][1] /\ Start' = sp[nth + 1][1] /\ hid' = hid
  BY DEF PairOp, Start, SpanOf
<1>. HIDE DEF sp, rs
<1>3. /\ p = <<p[1], p[2]>> /\ p[1] \in 1..Len(rows) /\ p[2] = <<p[2][1], p[2][2]>>
      /\ p[2][1] \in Loops(rows[p[1]]) /\ p[2][2] \in Loops(rows[p[1]])
      /\ p[2][1][2] + 1 = p[2][2][1]
  BY FusableParts DEF LoopIInv
<1>4. Start < Start'
  BY <1>1, <1>2
<1>5. p = NewPair => p[1] = hid /\ p[2][2][1] = Start'
  BY <1>2 DEF NewPair, sp
<1>6. p = NewPair => ~Past(p) /\ Past(p)'
  BY <1>1, <1>2, <1>4, <1>5 DEF Past
<1>7. ASSUME p[1] = hid, p[2][2][1] > Start, p[2][2][1] <= Start'
      PROVE  p = NewPair
  <2>1. p[2][1] \in Loops(rs) /\ p[2][2] \in Loops(rs)
    BY <1>3, <1>7 DEF rs
  <2>2. PICK m \in 1..Len(out[hid]) : sp[m] = p[2][2]
    BY <2>1, <1>1, LoopIsSpan
  <2>3. PICK k \in 1..Len(out[hid]) : sp[k] = p[2][1]
    BY <2>1, <1>1, LoopIsSpan
  <2>a. sp[m][1] > sp[nth][1] /\ sp[m][1] <= sp[nth + 1][1] /\ sp[k][2] + 1 = sp[m][1]
    BY <2>2, <2>3, <1>2, <1>3, <1>7
  <2>b. /\ sp[m][1] \in Nat /\ sp[m][2] \in Nat /\ sp[m][1] <= sp[m][2]
        /\ sp[k][1] \in Nat /\ sp[k][2] \in Nat /\ sp[k][1] <= sp[k][2]
        /\ sp[nth][1] \in Nat /\ sp[nth][2] \in Nat /\ sp[nth][1] <= sp[nth][2]
        /\ sp[nth + 1][1] \in Nat /\ sp[nth + 1][2] \in Nat /\ sp[nth + 1][1] <= sp[nth + 1][2]
    BY <1>1
  <2>4. m = nth + 1
    <3>1. ~(m < nth + 1)
      <4>. SUFFICES ASSUME m < nth + 1 PROVE FALSE
        OBVIOUS
      <4>1. m = nth \/ m < nth
        BY <1>1
      <4>2. m < nth => sp[m][2] < sp[nth][1]
        BY <1>1
      <4>3. CASE m = nth
        BY <4>3, <2>a, <2>b
      <4>4. CASE m < nth
        BY <4>2, <4>4, <2>a, <2>b
      <4>. QED
        BY <4>1, <4>3, <4>4
    <3>2. ~(m > nth + 1)
      <4>. SUFFICES ASSUME m > nth + 1 PROVE FALSE
        OBVIOUS
      <4>1. sp[nth + 1][2] < sp[m][1]
        BY <1>1
      <4>. QED
        BY <4>1, <2>a, <2>b
    <3>. QED
      BY <3>1, <3>2, <1>1
  <2>5. sp[k][2] = sp[nth][2]
    <3>1. sp[nth + 1][1] = sp[nth][2] + 1
      BY <1>1
    <3>2. sp[k][2] + 1 = sp[nth + 1][1] /\ sp[k][2] \in Nat /\ sp[nth][2] \in Nat
      BY <2>4, <2>a, <2>b
    <3>. QED
      BY <3>1, <3>2
  <2>6. k = nth
    <3>1. ~(k < nth)
      <4>. SUFFICES ASSUME k < nth PROVE FALSE
        OBVIOUS
      <4>1. sp[k][2] < sp[nth][1]
        BY <1>1
      <4>. QED
        BY <4>1, <2>5, <1>1
    <3>2. ~(k > nth)
      <4>. SUFFICES ASSUME k > nth PROVE FALSE
        OBVIOUS
      <4>1. sp[nth][2] < sp[k][1]
        BY <1>1
      <4>. QED
        BY <4>1, <2>5, <1>1
    <3>. QED
      BY <3>1, <3>2, <1>1
  <2>. QED
    BY <2>2, <2>3, <2>4, <2>6, <1>3, <1>7 DEF NewPair, sp
<1>8. p[2][2][1] \in Int /\ Start \in Int /\ Start' \in Int
  BY <1>1, <1>2, FusableParts DEF LoopIInv
<1>9. Past(p)' <=> p[1] < hid \/ (p[1] = hid /\ p[2][2][1] <= Start')
  BY <1>2 DEF Past
<1>. QED
  BY <1>4, <1>6, <1>7, <1>8, <1>9 DEF Past

(* What the step adds to the result. *)
LEMMA InfoStep ==
  ASSUME LoopIInv, PairOp, NEW key \in Place \X Place
  PROVE  /\ IsPair(key) =>
              /\ Info(key)' = [prev_count |-> Info(key).prev_count + out[hid][nth].count,
                               next_count |-> Info(key).next_count + out[hid][nth + 1].count,
                               loop_count |-> Info(key).loop_count + 1]
              /\ key \in DOMAIN res'
         /\ ~IsPair(key) => Info(key)' = Info(key) /\ (key \in DOMAIN res' <=> key \in DOMAIN res)
<1>. DEFINE x == out[hid][nth]
            y == out[hid][nth + 1]
            k0 == <<x.place, y.place>>
            old == IF k0 \in DOMAIN res THEN res[k0] ELSE NoInfo
            more == [prev_count |-> old.prev_count + x.count,
                     next_count |-> old.next_count + y.count,
                     loop_count |-> old.loop_count + 1]
<1>1. res' = IF IsLoop(x) /\ IsLoop(y)
             THEN [k \in DOMAIN res \cup {k0} |-> IF k = k0 THEN more ELSE res[k]]
             ELSE res
  BY DEF PairOp, Paired, Counted
<1>2. IsPair(key) <=> IsLoop(x) /\ IsLoop(y) /\ key = k0
  BY DEF IsPair
<1>. HIDE DEF x, y, k0, more
<1>3. CASE IsPair(key)
  <2>1. key \in DOMAIN res' /\ res'[key] = more
    BY <1>1, <1>2, <1>3
  <2>2. old = Info(key)
    BY <1>2, <1>3 DEF Info
  <2>. QED
    BY <2>1, <2>2, <1>3 DEF Info, more, x, y
<1>4. CASE ~IsPair(key)
  BY <1>1, <1>2, <1>4 DEF Info
<1>. QED
  BY <1>3, <1>4

(* Pairs and gets met with the step. *)
LEMMA MetStep ==
  ASSUME LoopIInv, PairOp, NEW key
  PROVE  /\ IsPair(key) => MetPairs(key)' = MetPairs(key) \cup {NewPair} /\ NewPair \notin MetPairs(key)
         /\ ~IsPair(key) => MetPairs(key)' = MetPairs(key)
         /\ \A side \in {1, 2} :
              /\ IsPair(key) =>
                   /\ MetGets(key, side)' = MetGets(key, side) \cup
                        ({NewPair} \X (NewPair[2][side][1] .. NewPair[2][side][2]))
                   /\ MetGets(key, side) \cap
                        ({NewPair} \X (NewPair[2][side][1] .. NewPair[2][side][2])) = {}
              /\ ~IsPair(key) => MetGets(key, side)' = MetGets(key, side)
<1>1. Fusable(key)' = Fusable(key) /\ \A side : Gets(key, side)' = Gets(key, side)
  BY DEF PairOp, Fusable, Gets
<1>2. \A p \in Fusable(key) : (Past(p)' <=> Past(p) \/ p = NewPair) /\ (p = NewPair => ~Past(p))
  BY OnlyNewPair
<1>3. NewPair \in Fusable(key) <=> IsPair(key)
  BY NewPairRight
<1>4. MetPairs(key)' = {p \in Fusable(key) : Past(p)'}
  BY <1>1 DEF MetPairs
<1>5. ASSUME NEW side \in {1, 2}
      PROVE  /\ IsPair(key) =>
                   /\ MetGets(key, side)' = MetGets(key, side) \cup
                        ({NewPair} \X (NewPair[2][side][1] .. NewPair[2][side][2]))
                   /\ MetGets(key, side) \cap
                        ({NewPair} \X (NewPair[2][side][1] .. NewPair[2][side][2])) = {}
             /\ ~IsPair(key) => MetGets(key, side)' = MetGets(key, side)
  <2>. DEFINE gets == Gets(key, side)
  <2>1. MetGets(key, side)' = {q \in gets : Past(q[1])'}
    BY <1>1 DEF MetGets
  <2>2. \A q : q \in gets <=> \E p \in Fusable(key) : \E r \in p[2][side][1] .. p[2][side][2] : q = <<p, r>>
    BY GetsMember
  <2>. HIDE DEF gets
  <2>3. \A q \in gets : q[1] \in Fusable(key)
    BY <2>2
  <2>4. \A q \in gets : (Past(q[1])' <=> Past(q[1]) \/ q[1] = NewPair) /\ (q[1] = NewPair => ~Past(q[1]))
    BY <2>3, <1>2
  <2>5. CASE IsPair(key)
    <3>. DEFINE more == {NewPair} \X (NewPair[2][side][1] .. NewPair[2][side][2])
    <3>1. \A q : q \in more <=> q \in gets /\ q[1] = NewPair
      BY <2>2, <2>5, <1>3
    <3>2. MetGets(key, side) = {q \in gets : Past(q[1])}
      BY DEF MetGets, gets
    <3>. HIDE DEF more
    <3>3. MetGets(key, side)' = MetGets(key, side) \cup more
      BY <3>1, <3>2, <2>1, <2>4
    <3>4. MetGets(key, side) \cap more = {}
      BY <3>1, <3>2, <2>4
    <3>. QED
      BY <3>3, <3>4, <2>5 DEF more
  <2>6. CASE ~IsPair(key)
    <3>1. \A q \in gets : q[1] # NewPair
      BY <2>3, <2>6, <1>3
    <3>2. MetGets(key, side) = {q \in gets : Past(q[1])}
      BY DEF MetGets, gets
    <3>. QED
      BY <3>1, <3>2, <2>1, <2>4, <2>6
  <2>. QED
    BY <2>5, <2>6
<1>6. CASE IsPair(key)
  BY <1>2, <1>3, <1>4, <1>5, <1>6 DEF MetPairs
<1>7. CASE ~IsPair(key)
  BY <1>2, <1>3, <1>4, <1>5, <1>7 DEF MetPairs
<1>. QED
  BY <1>6, <1>7

(* Finite sets that have nothing in common. *)
LEMMA DisjointSum ==
  ASSUME NEW S, IsFiniteSet(S), NEW T, IsFiniteSet(T), \A x \in T : x \notin S
  PROVE  Cardinality(S \cup T) = Cardinality(S) + Cardinality(T)
<1>1. S \cap T = {}
  OBVIOUS
<1>2. Cardinality(S \cup T) = Cardinality(S) + Cardinality(T) - Cardinality({})
  BY <1>1, FS_Union
<1>3. Cardinality({}) = 0 /\ Cardinality(S) \in Nat /\ Cardinality(T) \in Nat
  BY FS_EmptySet, FS_CardinalityType
<1>. QED
  BY <1>2, <1>3

(* The gets of one loop of a pair. *)
LEMMA GetsOfLoop ==
  ASSUME NEW x, NEW s \in Nat, NEW t \in Nat, s <= t
  PROVE  IsFiniteSet({x} \X (s..t)) /\ Cardinality({x} \X (s..t)) = t - s + 1
<1>1. IsFiniteSet(s..t) /\ Cardinality(s..t) = t - s + 1
  BY FS_Interval
<1>2. IsFiniteSet({x}) /\ Cardinality({x}) = 1
  BY FS_Singleton
<1>3. IsFiniteSet({x} \X (s..t)) /\ Cardinality({x} \X (s..t)) = 1 * Cardinality(s..t)
  BY <1>1, <1>2, FS_Product
<1>. QED
  BY <1>1, <1>3

(* The step of the second pass. *)
LEMMA PairOpKeeps ==
  ASSUME LoopIInv, PairOp
  PROVE  LoopIInv'
<1>0. LoopShapes /\ Passes /\ SpansRight /\ ResRight
  BY DEF LoopIInv
<1>1. /\ phase = "pair" /\ nth' = nth + 1 /\ UNCHANGED <<get_op, rows, last, out, phase, hid>>
      /\ nth < Len(out[hid])
  BY DEF PairOp
<1>2. /\ hid \in 1..Len(rows) /\ nth \in 1..Len(out[hid]) /\ nth + 1 \in 1..Len(out[hid])
      /\ out[hid] \in Seq(OpType) /\ rows[hid] \in Seq(RowType)
  BY TwoSpans
<1>3. LoopShapes'
  BY <1>0, <1>1 DEF LoopShapes, RowsRead, Cells
<1>4. Passes'
  BY <1>0, <1>1, <1>2 DEF Passes
<1>5. SpansRight'
  BY <1>0, <1>1 DEF SpansRight, Merged, Group
<1>6. ASSUME NEW key \in Place \X Place
      PROVE  /\ (Info(key) \in InfoType)'
             /\ Info(key)'.loop_count = Cardinality(MetPairs(key)')
             /\ Info(key)'.prev_count = Cardinality(MetGets(key, 1)')
             /\ Info(key)'.next_count = Cardinality(MetGets(key, 2)')
             /\ key \in DOMAIN res' <=> MetPairs(key)' # {}
  <2>1. /\ Info(key) \in InfoType
        /\ Info(key).loop_count = Cardinality(MetPairs(key))
        /\ Info(key).prev_count = Cardinality(MetGets(key, 1))
        /\ Info(key).next_count = Cardinality(MetGets(key, 2))
        /\ key \in DOMAIN res <=> MetPairs(key) # {}
    BY <1>0, <1>1 DEF ResRight
  <2>2. CASE ~IsPair(key)
    BY <2>1, <2>2, InfoStep, MetStep
  <2>3. CASE IsPair(key)
    <3>. DEFINE x == out[hid][nth]
                y == out[hid][nth + 1]
                u == SpanOf(hid)[nth]
                v == SpanOf(hid)[nth + 1]
    <3>1. /\ x \in OpType /\ y \in OpType /\ x.count \in Nat /\ y.count \in Nat
      <4>1. x \in OpType /\ y \in OpType
        BY <1>2
      <4>. QED
        BY <4>1 DEF OpType
    <3>2. /\ u[1] \in Nat /\ u[2] \in Nat /\ u[1] <= u[2] /\ x.count = u[2] - u[1] + 1
          /\ v[1] \in Nat /\ v[2] \in Nat /\ v[1] <= v[2] /\ y.count = v[2] - v[1] + 1
      <4>1. is_const(x) /\ is_const(y)
        BY <2>3 DEF IsPair, IsLoop
      <4>. QED
        BY <4>1, TwoSpans DEF StandsFor
    <3>3. NewPair[2][1] = u /\ NewPair[2][2] = v
      BY DEF NewPair
    <3>. HIDE DEF x, y, u, v
    <3>4. IsFiniteSet(MetPairs(key)) /\ IsFiniteSet(MetGets(key, 1)) /\ IsFiniteSet(MetGets(key, 2))
      BY <1>0, FusableFinite, FS_Subset DEF MetPairs, MetGets
    <3>5. Cardinality(MetPairs(key)') = Cardinality(MetPairs(key)) + 1
      <4>1. MetPairs(key)' = MetPairs(key) \cup {NewPair} /\ NewPair \notin MetPairs(key)
        BY <2>3, MetStep
      <4>2. Cardinality(MetPairs(key) \cup {NewPair}) = Cardinality(MetPairs(key)) + 1
        BY <4>1, <3>4, FS_AddElement
      <4>. QED
        BY <4>1, <4>2
    <3>6. Cardinality(MetGets(key, 1)') = Cardinality(MetGets(key, 1)) + x.count
      <4>. DEFINE S == MetGets(key, 1)
                  T == {NewPair} \X (u[1] .. u[2])
      <4>1. MetGets(key, 1)' = S \cup T /\ S \cap T = {}
        BY <2>3, <3>3, MetStep
      <4>2. IsFiniteSet(S)
        BY <3>4
      <4>3. IsFiniteSet(T) /\ Cardinality(T) = u[2] - u[1] + 1
        BY <3>2, GetsOfLoop
      <4>. HIDE DEF S, T
      <4>4. Cardinality(S \cup T) = Cardinality(S) + Cardinality(T)
        BY <4>1, <4>2, <4>3, DisjointSum
      <4>. QED
        BY <4>1, <4>3, <4>4, <3>2 DEF S
    <3>7. Cardinality(MetGets(key, 2)') = Cardinality(MetGets(key, 2)) + y.count
      <4>. DEFINE S == MetGets(key, 2)
                  T == {NewPair} \X (v[1] .. v[2])
      <4>1. MetGets(key, 2)' = S \cup T /\ S \cap T = {}
        BY <2>3, <3>3, MetStep
      <4>2. IsFiniteSet(S)
        BY <3>4
      <4>3. IsFiniteSet(T) /\ Cardinality(T) = v[2] - v[1] + 1
        BY <3>2, GetsOfLoop
      <4>. HIDE DEF S, T
      <4>4. Cardinality(S \cup T) = Cardinality(S) + Cardinality(T)
        BY <4>1, <4>2, <4>3, DisjointSum
      <4>. QED
        BY <4>1, <4>3, <4>4, <3>2 DEF S
    <3>8. /\ Info(key)' = [prev_count |-> Info(key).prev_count + x.count,
                           next_count |-> Info(key).next_count + y.count,
                           loop_count |-> Info(key).loop_count + 1]
          /\ key \in DOMAIN res'
      BY <2>3, InfoStep DEF x, y
    <3>9. MetPairs(key)' # {}
      BY <2>3, MetStep
    <3>10. (Info(key) \in InfoType)'
      BY <3>1, <3>8, <2>1 DEF InfoType
    <3>. QED
      BY <3>5, <3>6, <3>7, <3>8, <3>9, <3>10, <2>1
  <2>. QED
    BY <2>2, <2>3
<1>7. DOMAIN res' \subseteq Place \X Place
  <2>. DEFINE k0 == <<out[hid][nth].place, out[hid][nth + 1].place>>
  <2>1. DOMAIN res' \subseteq DOMAIN res \cup {k0}
    BY DEF PairOp, Paired, Counted
  <2>2. out[hid][nth] \in OpType /\ out[hid][nth + 1] \in OpType
    BY <1>2
  <2>3. k0 \in Place \X Place
    BY <2>2 DEF OpType
  <2>. QED
    BY <2>1, <2>3, <1>0 DEF ResRight
<1>8. ResRight'
  BY <1>6, <1>7 DEF ResRight
<1>. QED
  BY <1>3, <1>4, <1>5, <1>8 DEF LoopIInv

(* With the first operation of a container in hand none of its pairs is met. *)
LEMMA NoneMet ==
  ASSUME LoopShapes, NEW n \in 1..Len(rows), Spans(rows[n], out[n], SpanOf(n)),
         NEW key, NEW p \in Fusable(key), p[1] = n
  PROVE  ~(p[2][2][1] <= SpanOf(n)[1][1])
<1>1. SpanOf(n)[1][1] = 1
  BY DEF Spans
<1>2. p[2][1][2] \in 1..MaxRows /\ p[2][1][2] + 1 = p[2][2][1]
  BY FusableParts
<1>3. p[2][1][2] \in Nat /\ p[2][1][2] >= 1
  BY <1>2, LoopFacts
<1>. QED
  BY <1>1, <1>2, <1>3

(* With the last one in hand all of them are. *)
LEMMA AllMet ==
  ASSUME LoopIInv, phase # "merge", nth = Len(out[hid]), NEW key, NEW p \in Fusable(key)
  PROVE  Past(p) <=> p[1] <= hid
<1>1. /\ LoopShapes /\ hid \in 1..Len(rows) /\ Spans(rows[hid], out[hid], SpanOf(hid))
      /\ Len(out[hid]) > 0
  BY SpanOfRight DEF LoopIInv, Passes
<1>2. p[1] \in 1..Len(rows) /\ p[2][2] \in Loops(rows[p[1]])
  BY <1>1, FusableParts
<1>3. Len(rows) \in Nat /\ rows[hid] \in Seq(RowType) /\ out[hid] \in Seq(OpType) /\ Len(out[hid]) \in Nat
  BY <1>1, LoopFacts
<1>4. CASE p[1] = hid
  <2>1. PICK m \in 1..Len(out[hid]) : SpanOf(hid)[m] = p[2][2]
    BY <1>1, <1>2, <1>3, <1>4, LoopIsSpan
  <2>. DEFINE sp == SpanOf(hid)
  <2>2. m = nth \/ (m < nth /\ nth \in 1..Len(out[hid]))
    BY <1>1, <1>3
  <2>3. /\ sp[m] \in (1..Len(rows[hid])) \X (1..Len(rows[hid])) /\ sp[m][1] <= sp[m][2]
        /\ m < nth => sp[m][2] < sp[nth][1]
    BY <1>1, <2>2 DEF Spans
  <2>4. nth \in 1..Len(out[hid])
    BY <1>1, <1>3
  <2>5. sp[nth] \in (1..Len(rows[hid])) \X (1..Len(rows[hid]))
    BY <1>1, <2>4 DEF Spans
  <2>6. Len(rows[hid]) \in Nat
    BY <1>3
  <2>. HIDE DEF sp
  <2>7. /\ sp[m][1] \in Nat /\ sp[m][2] \in Nat /\ sp[nth][1] \in Nat
    BY <2>3, <2>5, <2>6
  <2>8. sp[m][1] <= sp[nth][1]
    BY <2>2, <2>3, <2>7
  <2>. QED
    BY <2>1, <2>8, <1>1, <1>3, <1>4 DEF Past, Start, sp
<1>5. CASE p[1] # hid
  BY <1>1, <1>2, <1>3, <1>5 DEF Past
<1>. QED
  BY <1>4, <1>5

(* The first pass is over. *)
LEMMA MergeEndsKeeps ==
  ASSUME LoopIInv, MergeEnds
  PROVE  LoopIInv'
<1>0. LoopShapes /\ Passes /\ SpansRight /\ ResRight
  BY DEF LoopIInv
<1>1. /\ phase = "merge" /\ phase' = "pair" /\ last = << >> /\ rows # << >>
      /\ UNCHANGED <<get_op, rows, last, out, hid, nth, res>>
  BY DEF MergeEnds
<1>2. hid = 1 /\ nth = 1 /\ res = << >>
  BY <1>0, <1>1 DEF Passes
<1>3. 1 \in 1..Len(rows)
  <2>1. rows \in Seq(Seq(RowType)) /\ Len(rows) \in Nat
    BY <1>0 DEF LoopShapes
  <2>2. Len(rows) # 0
    BY <2>1, <1>1
  <2>. QED
    BY <2>1, <2>2
<1>4. Merged(1) = out[1]
  BY <1>0, <1>1, <1>3, MergedRest
<1>5. Spans(rows[1], out[1], SpanOf(1)) /\ Len(out[1]) > 0 /\ Len(out[1]) \in Nat
  <2>1. \E sp : Spans(rows[1], out[1], sp)
    BY <1>0, <1>3, <1>4 DEF SpansRight
  <2>2. Spans(rows[1], out[1], SpanOf(1))
    BY <2>1 DEF SpanOf
  <2>. QED
    BY <2>2, <1>0, <1>3, LoopFacts DEF Spans
<1>6. LoopShapes'
  BY <1>0, <1>1 DEF LoopShapes, RowsRead, Cells
<1>7. Passes'
  BY <1>1, <1>2, <1>3, <1>5 DEF Passes
<1>8. SpansRight'
  BY <1>0, <1>1 DEF SpansRight, Merged, Group
<1>9. ASSUME NEW key
      PROVE  MetPairs(key) = {} /\ MetGets(key, 1) = {} /\ MetGets(key, 2) = {}
  <2>1. \A p \in Fusable(key) : ~Past(p)
    <3>. TAKE p \in Fusable(key)
    <3>1. p[1] \in 1..Len(rows) /\ Len(rows) \in Nat
      BY <1>0, FusableParts, LoopFacts
    <3>2. ~(p[1] < 1)
      BY <3>1
    <3>3. p[1] = 1 => ~(p[2][2][1] <= SpanOf(1)[1][1])
      BY <1>0, <1>3, <1>5, NoneMet
    <3>. QED
      BY <3>2, <3>3, <1>2 DEF Past, Start
  <2>2. \A side : \A q \in Gets(key, side) : q[1] \in Fusable(key)
    BY GetsMember
  <2>. QED
    BY <2>1, <2>2 DEF MetPairs, MetGets
<1>10. \A key : MetPairs(key)' = MetPairs(key) /\ \A side : MetGets(key, side)' = MetGets(key, side)
  BY <1>1 DEF MetPairs, MetGets, Past, Start, SpanOf, Fusable, Gets
<1>11. Cardinality({}) = 0
  BY FS_EmptySet
<1>12. ASSUME NEW key PROVE key \notin DOMAIN res' /\ Info(key)' = NoInfo
  <2>1. DOMAIN res' = {}
    BY <1>1, <1>2
  <2>. QED
    BY <2>1 DEF Info
<1>13. NoInfo \in InfoType /\ NoInfo.loop_count = 0 /\ NoInfo.prev_count = 0 /\ NoInfo.next_count = 0
  BY DEF NoInfo, InfoType
<1>14. ASSUME NEW key \in Place \X Place
       PROVE  /\ (Info(key) \in InfoType)'
              /\ Info(key)'.loop_count = Cardinality(MetPairs(key)')
              /\ Info(key)'.prev_count = Cardinality(MetGets(key, 1)')
              /\ Info(key)'.next_count = Cardinality(MetGets(key, 2)')
              /\ key \in DOMAIN res' <=> MetPairs(key)' # {}
  <2>1. MetPairs(key)' = {} /\ MetGets(key, 1)' = {} /\ MetGets(key, 2)' = {}
    BY <1>9, <1>10
  <2>2. (Info(key) \in InfoType)'
    BY <1>12, <1>13 DEF InfoType
  <2>. QED
    BY <2>1, <2>2, <1>11, <1>12, <1>13
<1>15. DOMAIN res' \subseteq Place \X Place
  BY <1>12
<1>16. ResRight'
  BY <1>14, <1>15 DEF ResRight
<1>. QED
  BY <1>6, <1>7, <1>8, <1>16 DEF LoopIInv

(* The second pass goes to the next container. *)
LEMMA NextGroupKeeps ==
  ASSUME LoopIInv, NextGroup
  PROVE  LoopIInv'
<1>0. LoopShapes /\ Passes /\ SpansRight /\ ResRight
  BY DEF LoopIInv
<1>1. /\ phase = "pair" /\ nth = Len(out[hid]) /\ hid < Len(rows)
      /\ hid' = hid + 1 /\ nth' = 1 /\ UNCHANGED <<get_op, rows, last, out, phase, res>>
  BY <1>0 DEF NextGroup, LoopShapes
<1>2. hid \in 1..Len(rows) /\ hid + 1 \in 1..Len(rows) /\ Len(rows) \in Nat /\ hid \in Nat
  BY <1>0, <1>1, LoopFacts DEF Passes
<1>3. Spans(rows[hid + 1], out[hid + 1], SpanOf(hid + 1)) /\ Len(out[hid + 1]) > 0 /\ Len(out[hid + 1]) \in Nat
  BY <1>0, <1>1, <1>2, SpanOfRight, LoopFacts
<1>4. LoopShapes'
  BY <1>0, <1>1 DEF LoopShapes, RowsRead, Cells
<1>5. Passes'
  BY <1>0, <1>1, <1>2, <1>3 DEF Passes
<1>6. SpansRight'
  BY <1>0, <1>1 DEF SpansRight, Merged, Group
<1>7. ASSUME NEW key PROVE \A p \in Fusable(key) : Past(p)' <=> Past(p)
  <2>. TAKE p \in Fusable(key)
  <2>1. Past(p)' <=> p[1] < hid + 1 \/ (p[1] = hid + 1 /\ p[2][2][1] <= SpanOf(hid + 1)[1][1])
    BY <1>1 DEF Past, Start, SpanOf
  <2>2. ~(p[1] = hid + 1 /\ p[2][2][1] <= SpanOf(hid + 1)[1][1])
    BY <1>0, <1>2, <1>3, NoneMet
  <2>3. Past(p) <=> p[1] <= hid
    BY <1>1, AllMet
  <2>4. p[1] \in 1..Len(rows)
    BY <1>0, FusableParts
  <2>. QED
    BY <2>1, <2>2, <2>3, <2>4, <1>2
<1>8. \A key : Fusable(key)' = Fusable(key) /\ \A side : Gets(key, side)' = Gets(key, side)
  BY <1>1 DEF Fusable, Gets
<1>9. \A key : MetPairs(key)' = MetPairs(key) /\ \A side : MetGets(key, side)' = MetGets(key, side)
  <2>. TAKE key
  <2>1. MetPairs(key)' = MetPairs(key)
    BY <1>7, <1>8 DEF MetPairs
  <2>2. ASSUME NEW side PROVE MetGets(key, side)' = MetGets(key, side)
    <3>1. \A q \in Gets(key, side) : q[1] \in Fusable(key)
      BY GetsMember
    <3>. QED
      BY <3>1, <1>7, <1>8 DEF MetGets
  <2>. QED
    BY <2>1, <2>2
<1>10. \A key : Info(key)' = Info(key)
  BY <1>1 DEF Info
<1>11. ResRight'
  BY <1>0, <1>1, <1>9, <1>10 DEF ResRight, InfoType
<1>. QED
  BY <1>4, <1>5, <1>6, <1>11 DEF LoopIInv

(* The second pass is over; or nothing happens. *)
LEMMA PairEndsKeeps ==
  ASSUME LoopIInv, PairEnds \/ UNCHANGED loopVars
  PROVE  LoopIInv'
<1>0. LoopShapes /\ Passes /\ SpansRight /\ ResRight
  BY DEF LoopIInv
<1>1. /\ UNCHANGED <<get_op, rows, last, out, hid, nth, res>>
      /\ \/ phase = "pair" /\ phase' = "done" /\ nth = Len(out[hid]) /\ hid = Len(rows)
         \/ phase' = phase
  BY <1>0 DEF PairEnds, loopVars, LoopShapes
<1>2. LoopShapes'
  BY <1>0, <1>1 DEF LoopShapes, RowsRead, Cells
<1>3. Passes'
  BY <1>0, <1>1 DEF Passes
<1>4. SpansRight'
  BY <1>0, <1>1 DEF SpansRight, Merged, Group
<1>5. \A key : MetPairs(key)' = MetPairs(key) /\ \A side : MetGets(key, side)' = MetGets(key, side)
  BY <1>1 DEF MetPairs, MetGets, Past, Start, SpanOf, Fusable, Gets
<1>6. \A key : Info(key)' = Info(key)
  BY <1>1 DEF Info
<1>7. ResRight'
  BY <1>0, <1>1, <1>5, <1>6 DEF ResRight, InfoType
<1>. QED
  BY <1>2, <1>3, <1>4, <1>7 DEF LoopIInv

(* Before the first row. *)
LEMMA LoopInitRight ==
  ASSUME LoopInit
  PROVE  LoopIInv
<1>1. /\ rows = << >> /\ last = << >> /\ out = << >> /\ res = << >>
      /\ phase = "merge" /\ hid = 1 /\ nth = 1 /\ get_op \in {GetCop, NotTraced}
  BY DEF LoopInit
<1>2. Len(rows) = 0 /\ Len(out) = 0 /\ Len(last) = 0 /\ DOMAIN rows = {} /\ DOMAIN res = {}
  BY <1>1
<1>3. Cells = {}
  BY <1>2 DEF Cells
<1>4. RowsRead = 0
  BY <1>3, FS_EmptySet DEF RowsRead
<1>5. rows \in Seq(Seq(RowType)) /\ out \in Seq(Seq(OpType)) /\ last \in Seq(OpType)
  BY <1>1
<1>6. LoopShapes
  BY <1>1, <1>2, <1>4, <1>5, LoopAssumption DEF LoopShapes
<1>7. Passes
  BY <1>1 DEF Passes
<1>8. SpansRight
  BY <1>2 DEF SpansRight
<1>9. ResRight
  BY <1>1, <1>2 DEF ResRight
<1>. QED
  BY <1>6, <1>7, <1>8, <1>9 DEF LoopIInv

(***************************************************************************)
(* The query of the loops (RT_query.py): every operation it makes stands   *)
(* for a stretch of the rows of its container, and what it has counted are *)
(* the pairs up to the operation it is at.                                 *)
(***************************************************************************)
THEOREM LoopInvariance == LoopSpec => []LoopIInv
<1>1. LoopInit => LoopIInv
  BY LoopInitRight
<1>2. LoopIInv /\ [LoopNext]_loopVars => LoopIInv'
  <2>. SUFFICES ASSUME LoopIInv, [LoopNext]_loopVars PROVE LoopIInv'
    OBVIOUS
  <2>1. ASSUME NEW row \in Traced, OpenGroup(row) PROVE LoopIInv'
    BY <2>1, OpenGroupKeeps
  <2>2. ASSUME NEW row \in Traced, MergeRow(row) PROVE LoopIInv'
    BY <2>2, MergeRowKeeps
  <2>3. CASE CloseGroup
    BY <2>3, CloseGroupKeeps
  <2>4. CASE MergeEnds
    BY <2>4, MergeEndsKeeps
  <2>5. CASE PairOp
    BY <2>5, PairOpKeeps
  <2>6. CASE NextGroup
    BY <2>6, NextGroupKeeps
  <2>7. CASE PairEnds \/ UNCHANGED loopVars
    BY <2>7, PairEndsKeeps
  <2>. QED
    BY <2>1, <2>2, <2>3, <2>4, <2>5, <2>6, <2>7 DEF LoopNext
<1>. QED
  BY <1>1, <1>2, PTL DEF LoopSpec

-----------------------------------------------------------------------------
(* LoopDetect: the theorems *)

(* Two sets whose members correspond one to one. *)
LEMMA SameSize ==
  ASSUME NEW S, NEW T, IsFiniteSet(S), NEW f,
         \A x \in S : f[x] \in T,
         \A x, y \in S : f[x] = f[y] => x = y,
         \A y \in T : \E x \in S : f[x] = y
  PROVE  Cardinality(S) = Cardinality(T)
<1>. DEFINE h == [x \in S |-> f[x]]
<1>1. h \in [S -> T] /\ \A x \in S : h[x] = f[x]
  OBVIOUS
<1>. HIDE DEF h
<1>2. h \in Bijection(S, T)
  BY <1>1, Fun_IsBij
<1>3. ExistsBijection(S, T)
  BY <1>2, Fun_ExistsBij
<1>. QED
  BY <1>3, FS_Bijection

(* There are no more operations than rows. *)
LEMMA NoMoreSpans ==
  ASSUME NEW rs \in Seq(RowType), NEW ops \in Seq(OpType), NEW sp, Spans(rs, ops, sp)
  PROVE  Len(ops) <= Len(rs)
<1>. DEFINE h == [m \in 1..Len(ops) |-> sp[m][1]]
<1>1. Len(rs) \in Nat /\ Len(ops) \in Nat
  OBVIOUS
<1>2. \A m \in 1..Len(ops) : h[m] = sp[m][1] /\ sp[m][1] \in 1..Len(rs) /\ sp[m][2] \in 1..Len(rs) /\ sp[m][1] <= sp[m][2]
  BY DEF Spans
<1>3. h \in [1..Len(ops) -> 1..Len(rs)]
  BY <1>2
<1>. HIDE DEF h
<1>4. \A k, m \in 1..Len(ops) : h[k] = h[m] => k = m
  <2>. SUFFICES ASSUME NEW k \in 1..Len(ops), NEW m \in 1..Len(ops), k < m PROVE h[k] # h[m]
    BY <1>1
  <2>1. sp[k][2] < sp[m][1]
    BY DEF Spans
  <2>. QED
    BY <2>1, <1>2, <1>1
<1>5. h \in Injection(1..Len(ops), 1..Len(rs))
  BY <1>3, <1>4, Fun_IsInj
<1>6. Cardinality(1..Len(ops)) <= Cardinality(1..Len(rs))
  BY <1>5, <1>1, UpTo, FS_Injection
<1>. QED
  BY <1>6, <1>1, UpTo

(* An operation has as many rows as it says, at least one. *)
LEMMA CountBound ==
  ASSUME NEW rs \in Seq(RowType), NEW ops \in Seq(OpType), NEW sp, Spans(rs, ops, sp),
         NEW m \in 1..Len(ops)
  PROVE  ops[m].count \in 1..Len(rs)
<1>1. Len(rs) \in Nat /\ Len(ops) \in Nat
  OBVIOUS
<1>2. /\ sp[m][1] \in 1..Len(rs) /\ sp[m][2] \in 1..Len(rs) /\ sp[m][1] <= sp[m][2]
      /\ StandsFor(ops[m], rs, sp[m][1], sp[m][2])
  BY DEF Spans
<1>. QED
  BY <1>1, <1>2 DEF StandsFor

(* The type invariant of the query follows. *)
LEMMA LoopTypes == LoopIInv => LoopTypeOK
<1>. SUFFICES ASSUME LoopIInv PROVE LoopTypeOK
  OBVIOUS
<1>0. LoopShapes /\ Passes /\ SpansRight /\ ResRight
  BY DEF LoopIInv
<1>1. ASSUME NEW n \in 1..Len(rows)
      PROVE  /\ Len(Merged(n)) <= MaxRows /\ Len(out[n]) <= Len(Merged(n))
             /\ \A m \in 1..Len(out[n]) : out[n][m].count \in 1..MaxRows /\ out[n][m].place \in Place
  <2>1. PICK sp : Spans(rows[n], Merged(n), sp)
    BY <1>0, <1>1 DEF SpansRight
  <2>2. /\ rows[n] \in Seq(RowType) /\ out[n] \in Seq(OpType) /\ Merged(n) \in Seq(OpType)
        /\ Len(rows[n]) \in Nat /\ Len(out[n]) \in Nat /\ Len(Merged(n)) \in Nat
        /\ Len(rows[n]) <= MaxRows /\ MaxRows \in Nat
    BY <1>0, <1>1, LoopFacts DEF LoopShapes
  <2>3. /\ Len(out[n]) <= Len(Merged(n))
        /\ \A m \in 1..Len(out[n]) : Merged(n)[m] = out[n][m] /\ out[n][m] \in OpType
    <3>1. last \in Seq(OpType)
      BY <1>0 DEF LoopShapes
    <3>. QED
      BY <3>1, <2>2 DEF Merged
  <2>4. Len(Merged(n)) <= Len(rows[n])
    BY <2>1, <2>2, NoMoreSpans
  <2>5. \A m \in 1..Len(Merged(n)) : Merged(n)[m].count \in 1..Len(rows[n])
    BY <2>1, <2>2, CountBound
  <2>6. ASSUME NEW m \in 1..Len(out[n]) PROVE out[n][m].count \in 1..MaxRows /\ out[n][m].place \in Place
    <3>1. m \in 1..Len(Merged(n)) /\ Merged(n)[m] = out[n][m] /\ out[n][m] \in OpType
      BY <2>2, <2>3
    <3>2. out[n][m].place \in Place
      BY <3>1 DEF OpType
    <3>. QED
      BY <3>1, <3>2, <2>2, <2>5
  <2>. QED
    BY <2>2, <2>3, <2>4, <2>6
<1>2. DOMAIN out = 1..Len(rows) /\ (\A n \in 1..Len(rows) : DOMAIN out[n] = 1..Len(out[n]) /\ Len(out[n]) \in Nat /\ Len(Merged(n)) \in Nat)
      /\ MaxRows \in Nat
  BY <1>0, LoopFacts
<1>3. hid \in 1..Len(rows) \cup {1} /\ nth \in 1..MaxRows \cup {1}
  <2>1. CASE phase = "merge"
    BY <2>1, <1>0 DEF Passes
  <2>2. CASE phase # "merge"
    <3>1. hid \in 1..Len(rows) /\ nth \in 1..Len(out[hid])
      BY <2>2, <1>0 DEF Passes
    <3>2. Len(out[hid]) <= MaxRows
      BY <3>1, <1>1, <1>2
    <3>. QED
      BY <3>1, <3>2, <1>2
  <2>. QED
    BY <2>1, <2>2
<1>4. \A n \in DOMAIN out : \A m \in DOMAIN out[n] : out[n][m].count \in 1..MaxRows /\ out[n][m].place \in Place
  BY <1>1, <1>2
<1>5. DOMAIN res \subseteq Place \X Place
  BY <1>0 DEF ResRight
<1>. QED
  BY <1>0, <1>3, <1>4, <1>5 DEF LoopTypeOK, LoopShapes

(***************************************************************************)
(* Types of the loop query: one list of operations for each container,     *)
(* and no operation counts more rows than were read.                       *)
(***************************************************************************)
THEOREM LoopTypeCorrect == LoopSpec => []LoopTypeOK
  BY LoopInvariance, LoopTypes, PTL

(* Of the operations those in gets are the maximal loops of the rows. *)
LoopsKept(rs, ops, gets) ==
  /\ Cardinality(gets) = Cardinality(Loops(rs))
  /\ \A m \in gets : \E ab \in Loops(rs) :
       /\ Cardinality({k \in gets : k < m}) = Cardinality({cd \in Loops(rs) : cd[2] < ab[1]})
       /\ ops[m].count = Length(ab) /\ ops[m].place = rs[ab[2]].place
       /\ m + 1 \in gets <=> ab[2] < Len(rs) /\ IsGet(rs, ab[2] + 1)

(* Operations that stand for the rows are their maximal loops, in order. *)
LEMMA SpansMerge ==
  ASSUME NEW rs \in Seq(RowType), NEW ops \in Seq(OpType), NEW sp, Spans(rs, ops, sp),
         NEW gets, \A m : m \in gets <=> m \in 1..Len(ops) /\ ops[m].copid # OtherCop
  PROVE  LoopsKept(rs, ops, gets)
<1>1. Len(rs) \in Nat /\ Len(ops) \in Nat
  OBVIOUS
<1>2. \A m \in 1..Len(ops) :
        /\ sp[m] = <<sp[m][1], sp[m][2]>> /\ sp[m][1] \in 1..Len(rs) /\ sp[m][2] \in 1..Len(rs)
        /\ sp[m][1] <= sp[m][2] /\ StandsFor(ops[m], rs, sp[m][1], sp[m][2])
  BY DEF Spans
<1>3. \A k, m \in 1..Len(ops) : k < m => sp[k][2] < sp[m][1]
  BY DEF Spans
<1>4. \A m \in gets : m \in 1..Len(ops) /\ ops[m].copid # OtherCop /\ sp[m] \in Loops(rs)
  BY SpanIsLoop
<1>5. \A ab \in Loops(rs) : \E m \in gets : sp[m] = ab
  BY LoopIsSpan
<1>6. \A k, m \in gets : sp[k] = sp[m] => k = m
  <2>. SUFFICES ASSUME NEW k \in gets, NEW m \in gets, k < m PROVE sp[k] # sp[m]
    BY <1>1, <1>4
  <2>1. sp[k][2] < sp[m][1] /\ k \in 1..Len(ops) /\ m \in 1..Len(ops)
    BY <1>3, <1>4
  <2>2. sp[k][2] # sp[m][2]
    BY <2>1, <1>1, <1>2
  <2>. QED
    BY <2>2
<1>7. IsFiniteSet(gets)
  <2>1. IsFiniteSet(1..Len(ops)) /\ gets \subseteq 1..Len(ops)
    BY <1>1, UpTo
  <2>. QED
    BY <2>1, FS_Subset
<1>8. Cardinality(gets) = Cardinality(Loops(rs))
  <2>1. \A m \in gets : sp[m] \in Loops(rs)
    BY <1>4
  <2>. QED
    BY <2>1, <1>5, <1>6, <1>7, SameSize
<1>9. ASSUME NEW m \in gets
      PROVE  /\ Cardinality({k \in gets : k < m}) = Cardinality({cd \in Loops(rs) : cd[2] < sp[m][1]})
             /\ ops[m].count = Length(sp[m]) /\ ops[m].place = rs[sp[m][2]].place
             /\ m + 1 \in gets <=> sp[m][2] < Len(rs) /\ IsGet(rs, sp[m][2] + 1)
  <2>. DEFINE S == {k \in gets : k < m}
              T == {cd \in Loops(rs) : cd[2] < sp[m][1]}
  <2>0. m \in 1..Len(ops) /\ m \in Nat /\ ops[m].copid # OtherCop
    BY <1>4, <1>1
  <2>1. \A k \in S : sp[k] \in T
    BY <1>3, <1>4, <2>0
  <2>2. ASSUME NEW cd \in T PROVE \E k \in S : sp[k] = cd
    <3>1. PICK k \in gets : sp[k] = cd
      BY <1>5
    <3>2. k \in 1..Len(ops) /\ sp[k][2] < sp[m][1]
      BY <3>1, <1>4
    <3>3. k # m
      BY <3>2, <1>2, <1>1
    <3>4. ~(m < k)
      <4>. SUFFICES ASSUME m < k PROVE FALSE
        OBVIOUS
      <4>1. sp[m][2] < sp[k][1]
        BY <3>2, <2>0, <1>3
      <4>. QED
        BY <4>1, <3>2, <2>0, <1>1, <1>2
    <3>. QED
      BY <3>1, <3>2, <3>3, <3>4, <2>0
  <2>3. IsFiniteSet(S) /\ \A j, k \in S : sp[j] = sp[k] => j = k
    BY <1>6, <1>7, FS_Subset
  <2>. HIDE DEF S, T
  <2>4. Cardinality(S) = Cardinality(T)
    BY <2>1, <2>2, <2>3, SameSize
  <2>5. ops[m].count = Length(sp[m]) /\ ops[m].place = rs[sp[m][2]].place
    <3>1. StandsFor(ops[m], rs, sp[m][1], sp[m][2]) /\ sp[m][2] \in sp[m][1] .. sp[m][2]
      BY <2>0, <1>1, <1>2
    <3>. QED
      BY <3>1, <2>0 DEF StandsFor, Length
  <2>6. m + 1 \in gets <=> sp[m][2] < Len(rs) /\ IsGet(rs, sp[m][2] + 1)
    <3>1. CASE m = Len(ops)
      <4>1. sp[m][2] = Len(rs)
        BY <3>1 DEF Spans
      <4>2. m + 1 \notin gets
        BY <3>1, <1>1, <1>4
      <4>. QED
        BY <4>1, <4>2, <1>1
    <3>2. CASE m \in 1..(Len(ops) - 1)
      <4>1. m + 1 \in 1..Len(ops) /\ sp[m + 1][1] = sp[m][2] + 1
        BY <3>2, <1>1 DEF Spans
      <4>2. /\ sp[m + 1][1] \in 1..Len(rs) /\ sp[m + 1][2] \in 1..Len(rs) /\ sp[m + 1][1] <= sp[m + 1][2]
            /\ StandsFor(ops[m + 1], rs, sp[m + 1][1], sp[m + 1][2])
        BY <4>1, <1>2
      <4>3. sp[m][2] < Len(rs) /\ sp[m + 1][1] \in sp[m + 1][1] .. sp[m + 1][2]
        BY <4>1, <4>2, <2>0, <1>1, <1>2
      <4>4. IsGet(rs, sp[m + 1][1]) <=> ops[m + 1].copid # OtherCop
        BY <4>2, <4>3 DEF StandsFor, Loop
      <4>. QED
        BY <4>1, <4>3, <4>4
    <3>. QED
      BY <3>1, <3>2, <2>0, <1>1
  <2>. QED
    BY <2>4, <2>5, <2>6 DEF S, T
<1>. QED
  BY <1>4, <1>8, <1>9 DEF LoopsKept

(***************************************************************************)
(* MergesMaximalLoops: whatever the rows, the first pass of RT_query.py    *)
(* makes of them exactly their maximal loops, in order and with the right  *)
(* lengths, however long the trace.                                        *)
(***************************************************************************)
THEOREM MergesLoops == LoopSpec => []MergesMaximalLoops
<1>1. LoopIInv => MergesMaximalLoops
  <2>. SUFFICES ASSUME LoopIInv, NEW n \in DOMAIN rows
                PROVE  LoopsKept(rows[n], Merged(n), {m \in DOMAIN Merged(n) : is_const(Merged(n)[m])})
    BY DEF MergesMaximalLoops, LoopsKept
  <2>. DEFINE all  == Merged(n)
              gets == {m \in DOMAIN all : is_const(all[m])}
  <2>0. LoopShapes /\ SpansRight /\ n \in 1..Len(rows)
    BY LoopFacts DEF LoopIInv
  <2>1. PICK sp : Spans(rows[n], all, sp)
    BY <2>0 DEF SpansRight
  <2>2. rows[n] \in Seq(RowType) /\ all \in Seq(OpType) /\ DOMAIN all = 1..Len(all)
    BY <2>0, LoopFacts
  <2>3. \A m \in 1..Len(all) : is_const(all[m]) <=> all[m].copid # OtherCop
    BY <2>0, ConstIsGet
  <2>. HIDE DEF all
  <2>4. \A m : m \in gets <=> m \in 1..Len(all) /\ all[m].copid # OtherCop
    BY <2>2, <2>3
  <2>. HIDE DEF gets
  <2>5. LoopsKept(rows[n], all, gets)
    BY <2>1, <2>2, <2>4, SpansMerge
  <2>. QED
    BY <2>5 DEF all, gets
<1>. QED
  BY <1>1, LoopInvariance, PTL

(***************************************************************************)
(* CountsFusableLoops: what the query prints for two places of the program *)
(* are all pairs of long loops with nothing between them, and all of their *)
(* gets, for any MinLoop and any rows.                                     *)
(***************************************************************************)
THEOREM CountsLoops == LoopSpec => []CountsFusableLoops
<1>1. LoopIInv => CountsFusableLoops
  <2>. SUFFICES ASSUME LoopIInv, phase = "done", NEW key \in Place \X Place
                PROVE  /\ Info(key).loop_count = Cardinality(Fusable(key))
                       /\ Info(key).prev_count = Cardinality(Gets(key, 1))
                       /\ Info(key).next_count = Cardinality(Gets(key, 2))
                       /\ key \in DOMAIN res <=> Info(key).loop_count > 0
    BY DEF CountsFusableLoops, Info
  <2>0. LoopShapes /\ hid = Len(rows) /\ nth = Len(out[hid]) /\ Len(rows) \in Nat
    BY LoopFacts DEF LoopIInv, Passes
  <2>1. \A p \in Fusable(key) : Past(p)
    <3>. TAKE p \in Fusable(key)
    <3>1. p[1] \in 1..Len(rows)
      BY <2>0, FusableParts
    <3>2. Past(p) <=> p[1] <= hid
      BY <2>0, AllMet
    <3>. QED
      BY <3>1, <3>2, <2>0
  <2>2. MetPairs(key) = Fusable(key)
    BY <2>1 DEF MetPairs
  <2>3. MetGets(key, 1) = Gets(key, 1) /\ MetGets(key, 2) = Gets(key, 2)
    <3>1. \A side : \A q \in Gets(key, side) : q[1] \in Fusable(key)
      BY GetsMember
    <3>. QED
      BY <3>1, <2>1 DEF MetGets
  <2>4. /\ Info(key).loop_count = Cardinality(MetPairs(key))
        /\ Info(key).prev_count = Cardinality(MetGets(key, 1))
        /\ Info(key).next_count = Cardinality(MetGets(key, 2))
        /\ key \in DOMAIN res <=> MetPairs(key) # {}
    BY DEF LoopIInv, ResRight
  <2>5. Fusable(key) # {} <=> Cardinality(Fusable(key)) > 0
    <3>1. IsFiniteSet(Fusable(key))
      BY <2>0, FusableFinite
    <3>2. Cardinality(Fusable(key)) \in Nat /\ (Cardinality(Fusable(key)) = 0 <=> Fusable(key) = {})
      BY <3>1, FS_CardinalityType, FS_EmptySet
    <3>. QED
      BY <3>2
  <2>. QED
    BY <2>2, <2>3, <2>4, <2>5
<1>. QED
  BY <1>1, LoopInvariance, PTL
=============================================================================
