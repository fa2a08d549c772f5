------------------------------ MODULE Pipeline ------------------------------
(***************************************************************************)
(* From trace files to a report.  build_container.sh runs three programs   *)
(* one after the other and goes on when one of them fails: addr2id, which  *)
(* rewrites the addresses in the files and lists the allocations in        *)
(* addr-id.dat; build_container_db.py, which copies the container records  *)
(* and that list into the database; csv2db.py, which adds the class names. *)
(* The loader csv2db, started by hand at any time, copies the remaining    *)
(* records into TIMELINE of the same database.  The user may run all of    *)
(* them again, and any of them may be killed.                              *)
(*                                                                         *)
(* Which id a reused or moved address gets is the subject of AddrMap.      *)
(* Here the records hold tags, as all container records do: every object   *)
(* has a tag of its own, its id is the position of its NEW record, and     *)
(* tags and ids are numbers from the same range.  The tag of one object    *)
(* may be the id of another; nothing in a file or in the database says     *)
(* which of the two a number is.                                           *)
(*                                                                         *)
(* sqlite has one writer at a time.  A Python script waits for the lock    *)
(* for five seconds and then fails; the loader never waits, and ignores    *)
(* that an INSERT failed.                                                  *)
(***************************************************************************)
EXTENDS Integers, Sequences, FiniteSetsExt, Functions

CONSTANTS
    Trace,      \* the records addr2id rewrites, but for NEW: [holder, op, size, time]
    ClassOf,    \* the class that allocates object 1, 2, ...: a sequence of ids
    Tag,        \* the tag object 1, 2, ... has in the trace
    NewTime,    \* the time in the NEW record of object 1, 2, ...
    Load,       \* the records csv2db loads, in directory order: [from, no]
    INIT_SIZE,  \* the size every object was allocated with
    Classes,    \* number of classes, with ids from 0
    MaxRuns,    \* bound: runs of build_container.sh
    MaxLoads,   \* bound: runs of csv2db
    MaxKills    \* bound: killed programs

ASSUME PipelineAssumption ==
    /\ ClassOf \in Seq(0 .. Classes - 1)
    /\ Trace \in Seq([holder : 1 .. Len(ClassOf), op : {"add", "get", "use"},
                      size : Nat, time : Nat])
    /\ Tag \in [1 .. Len(ClassOf) -> Nat \ {0}] /\ IsInjective(Tag)
    /\ NewTime \in [1 .. Len(ClassOf) -> Nat] /\ IsInjective(NewTime)
    /\ Load \in Seq([from : {"use"}, no : { r \in 1 .. Len(Trace) : Trace[r].op = "use" }]
              \cup [from : {"NEW"}, no : 1 .. Len(ClassOf)]
              \cup [from : {"gc"}, no : {0}])
    /\ INIT_SIZE \in [1 .. Len(ClassOf) -> Nat]
    /\ {Classes, MaxRuns, MaxLoads, MaxKills} \subseteq Nat

VARIABLES
    data,       \* the number that stands for the holder, in every record on disk
    new,        \* the number in every NEW record on disk
    list,       \* addr-id.dat: its complete lines, and what follows them
    shell,      \* the stage of build_container.sh
    known,      \* addr2id's map: the numbers of the NEW records it read
    pos,        \* how many records addr2id has rewritten, -1 before it has read
    lock,       \* who may write to the database
    builds,     \* the committed transactions of build_container_db.py
    names,      \* the rows of CLASSNAME; the id of a row is its position
    loader,     \* the running csv2db
    created,    \* the table TIMELINE exists
    timeline,   \* the committed transactions of csv2db
    torn,       \* history: addr2id was killed among its rewriting of tags
    runs, starts, kills   \* what the user has done: bounded

files == <<data, new, list>>
db    == <<builds, names, timeline, created>>
users == <<runs, starts, kills>>
vars  == <<files, shell, known, pos, lock, db, loader, torn, users>>

Object   == 1 .. Len(ClassOf)
Record   == 1 .. Len(Trace)
Container == { r \in Record : Trace[r].op # "use" }   \* the others: PutField, AAStore,
                                                     \* Construct, Use
Total    == Len(Trace) + Len(ClassOf)   \* records addr2id rewrites
NONE     == -1      \* 0xFFFFFFFF: a number the map does not know
RAW      == -2      \* what a gc, Free or Event record holds: addr2id leaves it
Absent   == [rows |-> 0, tail |-> "absent"]
NoMap    == [o \in 1 .. Len(ClassOf) |-> NONE]
NotRunning == [at |-> 0, rows |-> <<>>, met |-> {}]

Init ==
    /\ data = [r \in Record |-> Tag[Trace[r].holder]]
    /\ new  = Tag
    /\ list = Absent
    /\ shell = "idle"
    /\ known = NoMap
    /\ pos = -1
    /\ lock = "free"
    /\ builds = <<>> /\ names = <<>> /\ timeline = <<>>
    /\ loader = NotRunning /\ torn = FALSE
    /\ created \in BOOLEAN   \* an interrupted csv2db may have left it
    /\ runs = 0 /\ starts = 0 /\ kills = 0

-----------------------------------------------------------------------------
(* History: what the running loader has met.                               *)
Meets(what) ==
    loader' = IF loader.at = 0 THEN loader ELSE [loader EXCEPT !.met = @ \cup {what}]

(* build_container.sh starts its first program.                            *)
build_container ==
    /\ shell = "idle" /\ runs < MaxRuns
    /\ shell' = "addr2id"
    /\ runs' = runs + 1
    /\ pos' = -1
    /\ UNCHANGED <<files, known, lock, db, loader, starts, kills, torn>>

-----------------------------------------------------------------------------
(* addr2id: fopen(.., "w") empties the list; all NEW files are read into   *)
(* the map; the list waits in the buffer of stdio until fclose.            *)
build_addr_map ==
    /\ shell = "addr2id" /\ pos = -1
    /\ list' = [rows |-> 0, tail |-> "none"]
    /\ known' = new
    /\ pos' = 0
    /\ Meets("addr2id")
    /\ UNCHANGED <<data, new, shell, lock, db, users, torn>>

(* The id for a number at a time.  A number of one NEW record is of that   *)
(* object whatever the time; one that several have, as a tag and an id may *)
(* after a kill, is of the last of them before the time.                   *)
query_ByTime(number, time) ==   \* also the only one is asked for its time
    LET before == { o \in Object : known[o] = number /\ NewTime[o] <= time }
    IN  IF before = {} THEN NONE
        ELSE CHOOSE o \in before : \A p \in before : NewTime[p] <= NewTime[o]

query(number, time) ==
    LET of     == { o \in Object : known[o] = number }
        before == { o \in of : NewTime[o] <= time }
    IN  IF \E o \in of : of = {o} THEN CHOOSE o \in of : TRUE
        ELSE IF before = {} THEN NONE
        ELSE CHOOSE o \in before : \A p \in before : NewTime[p] <= NewTime[o]

(* The data files first, then the NEW files, each in place.                *)
RewriteData ==
    /\ shell = "addr2id" /\ pos \in 0 .. Len(Trace) - 1
    /\ data' = [data EXCEPT ![pos + 1] = query(@, Trace[pos + 1].time)]
    /\ pos' = pos + 1
    /\ Meets("addr2id")
    /\ UNCHANGED <<new, list, shell, known, lock, db, users, torn>>

RewriteNew ==
    /\ shell = "addr2id" /\ pos - Len(Trace) \in 0 .. Len(ClassOf) - 1
    /\ new' = [new EXCEPT ![pos - Len(Trace) + 1] = query(@, NewTime[pos - Len(Trace) + 1])]
    /\ pos' = pos + 1
    /\ Meets("addr2id")
    /\ UNCHANGED <<data, list, shell, known, lock, db, users, torn>>

CloseList ==
    /\ shell = "addr2id" /\ pos = Total
    /\ list' = [rows |-> Len(ClassOf), tail |-> "none"]
    /\ known' = NoMap
    /\ shell' = "build"
    /\ Meets("addr2id")
    /\ UNCHANGED <<data, new, pos, lock, db, users, torn>>

(* The shell goes on after a failure, or ends with the program (Ctrl-C).   *)
Then(next) == shell' \in {next, "idle"}

(* Killed, addr2id leaves the part of the list stdio had written: whole    *)
(* lines, and perhaps one cut in its columns or in its last number.        *)
Killed_addr2id ==
    /\ shell = "addr2id" /\ kills < MaxKills
    /\ kills' = kills + 1
    /\ \/ pos = -1 /\ list' = list
       \/ /\ pos >= 0
          /\ \E n \in 0 .. Len(ClassOf), t \in {"none", "short", "number"} :
                /\ n = Len(ClassOf) => t = "none"
                /\ list' = [rows |-> n, tail |-> t]
    /\ torn' = (torn \/ (pos \in 1 .. Total - 1 /\ \E o \in Object : known[o] # o))
    /\ pos' = -1
    /\ known' = NoMap
    /\ Then("build")
    /\ UNCHANGED <<data, new, lock, db, loader, runs, starts>>

-----------------------------------------------------------------------------
(* The first INSERT of a Python script opens its transaction and takes     *)
(* the lock; while the loader has it, sqlite waits.                        *)
Writing == shell \in {"build", "names"} /\ lock = "script"

ScriptBegins ==
    /\ shell \in {"build", "names"} /\ lock = "free"
    /\ lock' = "script"
    /\ Meets("script")
    /\ UNCHANGED <<files, shell, known, pos, db, users, torn>>

(* The stage after the one that runs.                                      *)
After == IF shell = "build" THEN "names" ELSE "idle"

ScriptTimesOut ==
    /\ shell \in {"build", "names"} /\ lock = "loader"
    /\ shell' = After
    /\ UNCHANGED <<files, known, pos, lock, db, loader, users, torn>>

(* build_container_db.py inserts the container records as they are, one    *)
(* row for every line of the list, and the table of operations, and        *)
(* commits once.  A line cut in its columns, and a list that is not there, *)
(* end it with an exception before the commit.  The field ended is         *)
(* history: addr2id ran to its end, and was not torn before.               *)
Readable == list.tail \notin {"absent", "short"}

Allocations ==
    { [id |-> o, typed |-> o <= list.rows] :
        o \in 1 .. (list.rows + IF list.tail = "number" THEN 1 ELSE 0) }

build_container_db ==
    /\ shell = "build" /\ Writing /\ Readable
    /\ builds' = Append(builds, [containers |-> [r \in Container |-> data[r]],
                                  allocations |-> Allocations, ended |-> pos = Total /\ ~torn])
    /\ lock' = "free" /\ shell' = After
    /\ UNCHANGED <<files, known, pos, names, timeline, created, loader, users, torn>>

build_container_db_Retries == \* a list that cannot be read is read again
    /\ shell = "build" /\ Writing /\ ~Readable
    /\ lock' = "free"
    /\ UNCHANGED <<files, shell, known, pos, db, loader, users, torn>>

build_container_db_Raises ==
    /\ shell = "build" /\ Writing /\ ~Readable
    /\ lock' = "free" /\ shell' = After
    /\ UNCHANGED <<files, known, pos, db, loader, users, torn>>

(* csv2db.py adds a row for every line of the class name file; sqlite      *)
(* numbers the rows of the table.                                          *)
ClassNames == [c \in 1 .. Classes |-> c - 1]

csv2db_py ==
    /\ shell = "names" /\ Writing
    /\ names' = names \o ClassNames
    /\ lock' = "free" /\ shell' = After
    /\ UNCHANGED <<files, known, pos, builds, timeline, created, loader, users, torn>>

(* A killed script, in its transaction or before: the journal is rolled    *)
(* back.                                                                   *)
Killed_script ==
    /\ shell \in {"build", "names"} /\ kills < MaxKills
    /\ kills' = kills + 1
    /\ lock' = IF Writing THEN "free" ELSE lock
    /\ Then(After)
    /\ UNCHANGED <<files, known, pos, db, loader, runs, starts, torn>>

-----------------------------------------------------------------------------
(* csv2db: CREATE TABLE and BEGIN; an error in either ends it.  BEGIN      *)
(* takes no lock.                                                          *)
LoaderStarts ==
    /\ loader.at = 0 /\ starts < MaxLoads
    /\ starts' = starts + 1
    /\ lock = "free" \/ created
    /\ created' = TRUE
    /\ loader' = [at |-> 1, rows |-> <<>>,
                  met |-> (IF lock = "script" THEN {"script"} ELSE {}) \cup
                          (IF shell = "addr2id" /\ pos >= 0 THEN {"addr2id"} ELSE {})]
    /\ UNCHANGED <<files, shell, known, pos, lock, builds, names, timeline, runs, kills, torn>>

LoaderRefused ==
    /\ loader.at = 0 /\ starts < MaxLoads
    /\ starts' = starts + 1
    /\ lock = "script"
    /\ UNCHANGED <<files, shell, known, pos, lock, db, loader, runs, kills, torn>>

(* What the i-th record of a load holds when it is read.                   *)
ADDR0(i) == CASE Load[i].from = "use" -> data[Load[i].no]
              [] Load[i].from = "NEW" -> new[Load[i].no]
              [] OTHER                -> RAW

(* load_timeline: one step of the statement.  The first that finds the     *)
(* lock free takes it for the rest of the transaction; one that does not   *)
(* get it leaves nothing, and its result is not looked at.                 *)
load_timeline_Autocommits == \* no BEGIN: every row is its own transaction
    /\ loader.at \in 1 .. Len(Load)
    /\ loader' = [loader EXCEPT !.at = @ + 1,
                     !.rows = IF lock = "script" THEN @
                              ELSE Append(@, [no |-> loader.at, addr |-> ADDR0(loader.at)])]
    /\ UNCHANGED <<files, shell, known, pos, lock, db, users, torn>>

load_timeline ==
    /\ loader.at \in 1 .. Len(Load)
    /\ IF lock = "script"
         THEN /\ loader' = [loader EXCEPT !.at = @ + 1]
              /\ UNCHANGED lock
         ELSE /\ loader' = [loader EXCEPT !.at = @ + 1,
                                !.rows = Append(@, [no |-> loader.at, addr |-> ADDR0(loader.at)])]
              /\ lock' = "loader"
    /\ UNCHANGED <<files, shell, known, pos, db, users, torn>>

COMMIT ==
    /\ loader.at = Len(Load) + 1
    /\ timeline' = Append(timeline, [rows |-> loader.rows, met |-> loader.met])
    /\ lock' = IF lock = "loader" THEN "free" ELSE lock
    /\ loader' = NotRunning
    /\ UNCHANGED <<files, shell, known, pos, builds, names, created, users, torn>>

(* The loader is killed, or ends because COMMIT finds a reader.            *)
Killed_loader ==
    /\ loader.at # 0 /\ kills < MaxKills
    /\ kills' = kills + 1
    /\ lock' = IF lock = "loader" THEN "free" ELSE lock
    /\ loader' = NotRunning
    /\ UNCHANGED <<files, shell, known, pos, db, runs, starts, torn>>

-----------------------------------------------------------------------------
addr2id == build_addr_map \/ RewriteData \/ RewriteNew \/ CloseList
Script  == \/ ScriptBegins \/ ScriptTimesOut
           \/ build_container_db \/ build_container_db_Raises \/ csv2db_py
Loader  == load_timeline \/ COMMIT

Next ==
    \/ build_container \/ addr2id \/ Killed_addr2id
    \/ Script \/ Killed_script
    \/ LoaderStarts \/ LoaderRefused \/ Loader \/ Killed_loader

(* A started program runs.  Nothing makes the user start one.              *)
Fairness == WF_vars(addr2id) /\ WF_vars(Script) /\ WF_vars(Loader)

Spec == Init /\ [][Next]_vars /\ Fairness

-----------------------------------------------------------------------------
(* The queries join CONTAINERS.HOLDER_ID with ALLOCATIONS.ID: what o did   *)
(* is every row of any build with the number o, whatever that meant.  One  *)
(* row of ALLOCATIONS for every build that listed the object.              *)
Resolved(o) == { r \in Container : \E b \in DOMAIN builds : builds[b].containers[r] = o }
Copies(o)   == { b \in DOMAIN builds : \E a \in builds[b].allocations : a.id = o }
MSIZE(rs)   == Max({ Trace[r].size : r \in rs } \cup {0})

(* CLASSNAME.ID = CLASS_NAME_ID + 1                                        *)
NamedBy_ById(o) ==          \* CLASSNAME.ID = CLASS_NAME_ID
    { names[i] : i \in { i \in DOMAIN names : i = ClassOf[o] } }

NamedBy(o)  == { names[i] : i \in { i \in DOMAIN names : i = ClassOf[o] + 1 } }

(* NGC_query.py: for every class the containers that were once not empty,  *)
(* and those of them that were only added to or removed from.              *)
NGC_query ==
    LET total(c) == { o \in Object : Copies(o) # {} /\ MSIZE(Resolved(o)) > 0 /\ c \in NamedBy(o) }
    IN  [c \in 0 .. Classes - 1 |->
            [total |-> total(c),
             nac   |-> { o \in total(c) : \A r \in Resolved(o) : Trace[r].op = "add" }]]

(* The largest size container o was seen with is below its initial size.   *)
NeverFilled(o) == Resolved(o) # {} /\ MSIZE(Resolved(o)) < INIT_SIZE[o]

(* pre_waste_query.py: for every class the number of allocation rows whose *)
(* container was never filled.                                             *)
pre_waste_query ==
    [c \in 0 .. Classes - 1 |->
        Cardinality({ row \in Object \X DOMAIN builds :
                        /\ row[2] \in Copies(row[1])
                        /\ c \in NamedBy(row[1]) /\ NeverFilled(row[1]) })]

-----------------------------------------------------------------------------
(* Every variable has a value of its kind, and the lock belongs to a       *)
(* program that runs.                                                      *)
TypeOK ==
    /\ data \in [Record -> Int] /\ new \in [Object -> Nat]
    /\ \A o \in Object : new[o] \in {o, Tag[o]}
    /\ list \in [rows : 0 .. Len(ClassOf), tail : {"none", "short", "number", "absent"}]
    /\ shell \in {"idle", "addr2id", "build", "names"}
    /\ known \in [Object -> Int]
    /\ pos \in -1 .. Total
    /\ lock \in {"free", "script", "loader"}
    /\ lock = "script" => shell \in {"build", "names"}
    /\ lock = "loader" => loader.at # 0
    /\ loader.at \in 0 .. Len(Load) + 1 /\ loader.met \subseteq {"script", "addr2id"}
    /\ Len(builds) <= runs /\ Len(timeline) <= starts

(* The rows of build b hold the ids of the holders.                        *)
Identified(b) == \A r \in Container : builds[b].containers[r] = Trace[r].holder

Complete(b) ==
    /\ Identified(b)
    /\ builds[b].allocations = { [id |-> o, typed |-> TRUE] : o \in Object }

(* addr2id rewrites its own input, yet it can be run again: as long as it  *)
(* was never killed between the first and the last record it turned from a *)
(* tag into an id, every run that comes to its end, whatever was killed or *)
(* failed before, gives a build with every holder resolved and every       *)
(* allocation listed.                                                      *)
RerunHeals == \A b \in DOMAIN builds : builds[b].ended => Complete(b)

(* The rows of build b name the holder of their record, or nobody.         *)
Named(b) == \A r \in Container : builds[b].containers[r] \in {Trace[r].holder, NONE}

(* One complete build is enough for the never-get report as long as no     *)
(* build took tags for ids: later runs add rows, also unnamed ones and     *)
(* cut lists of a killed addr2id and a second copy of the class names, and *)
(* change nothing in what NGC_query.py says.                               *)
NeverGetRight ==
    names # <<>> /\ (\E b \in DOMAIN builds : Complete(b)) /\ (\A b \in DOMAIN builds : Named(b)) =>
        \A c \in 0 .. Classes - 1 :
            LET mine == { o \in Object : ClassOf[o] = c }
                ops(o) == { r \in Container : Trace[r].holder = o }
            IN  /\ NGC_query[c].total = { o \in mine : MSIZE(ops(o)) > 0 }
                /\ NGC_query[c].nac = { o \in NGC_query[c].total :
                                          \A r \in ops(o) : Trace[r].op = "add" }

(* When a build takes tags for ids: after a run of addr2id that ended no   *)
(* build does, whatever is killed then, and before that, unless addr2id    *)
(* was killed among its rewriting, one that does holds tags only.          *)
TagsOnlyAtFirst ==
    \A b \in DOMAIN builds :
        /\ builds[b].ended => \A later \in b .. Len(builds) : Identified(later)
        /\ ~torn => Identified(b) \/
                    \A r \in Container : builds[b].containers[r] = Tag[Trace[r].holder]

(* pre_waste_query.py counts what it counts once for every build: nothing  *)
(* marks a trace that is already in the database.                          *)
CountsEveryBuild ==
    names # <<>> /\ builds # <<>> /\ (\A b \in DOMAIN builds : Complete(b)) =>
        \A c \in 0 .. Classes - 1 :
            pre_waste_query[c] = Len(builds) *
                Cardinality({ o \in Object :
                    LET ops == { r \in Container : Trace[r].holder = o }
                    IN  ClassOf[o] = c /\ ops # {} /\ MSIZE(ops) < INIT_SIZE[o] })

(* csv2db does not see that its INSERTs fail while a script writes.  What  *)
(* it commits is still the end of the records without a gap, and all of    *)
(* them if no script wrote while it ran.                                   *)
LoadsAreSuffixes ==
    \A i \in DOMAIN timeline :
        LET t == timeline[i] n == Len(t.rows) IN
            /\ \A k \in 1 .. n : t.rows[k].no = Len(Load) - n + k
            /\ "script" \notin t.met => n = Len(Load)

(* The object the i-th record of a load is about.                          *)
About(i) == IF Load[i].from = "use" THEN Trace[Load[i].no].holder ELSE Load[i].no

(* The rows of a load that addr2id rewrites are all tags or all ids,       *)
(* unless addr2id worked meanwhile or was killed among them.  The gc, Free *)
(* and Event rows beside them keep what was recorded, in every load.       *)
LoadsInOneForm ==
    \A i \in DOMAIN timeline :
        LET t == timeline[i]
            rewritten == { k \in DOMAIN t.rows : Load[t.rows[k].no].from # "gc" }
        IN  "addr2id" \notin t.met /\ ~torn =>
              \/ \A k \in rewritten : t.rows[k].addr = About(t.rows[k].no)
              \/ \A k \in rewritten : t.rows[k].addr = Tag[About(t.rows[k].no)]

(* Safety: what building the database again does to the reports.  The      *)
(* never-get report is hurt only by a build that took tags for ids, before *)
(* the first addr2id that ended; the other report is multiplied.           *)
ReportsAfterRebuilds == NeverGetRight /\ TagsOnlyAtFirst /\ CountsEveryBuild

(* Safety: a load of TIMELINE misses only what a script kept it from, and  *)
(* mixes tags and ids of the rewritten records only because of addr2id.    *)
LoadsRight == LoadsAreSuffixes /\ LoadsInOneForm

(* Liveness: the scripts and the loader share one lock; each comes to its  *)
(* end, also when it is the one that does not get the lock.                *)
ProgramsEnd ==
    /\ shell # "idle" ~> shell = "idle"
    /\ loader.at # 0 ~> loader.at = 0
=============================================================================
