------------------------------ MODULE AddrMap ------------------------------
(***************************************************************************)
(* From addresses to object ids: scripts/src/addr2id.cpp, with the records *)
(* it reads.                                                               *)
(*                                                                         *)
(* A record names an object by a 32-bit address: the heap address, shifted *)
(* (native.cpp, add..Record), which later objects can have again and the   *)
(* collector changes, or a tag that is the object's own.  addr2id gives    *)
(* every NEW record an id, follows the moves of the gc files written by    *)
(* preload.cpp, and replaces the addresses in the trace files, in place,   *)
(* by the ids the map holds for the time of the record.  The tool can be   *)
(* killed at any time, and is then run again over what it left.            *)
(***************************************************************************)
EXTENDS Integers, FiniteSets, SequencesExt

CONSTANTS
  Object,
  HeapAddress, \* shifted heap addresses: larger than any id
  Tag,         \* tags: small numbers, as ids are
  NewFiles,    \* NEW files, one per thread that allocates
  GcFiles,     \* gc files, one per thread of the collector
  Nowhere,     \* the object is not in the heap
  GC_MASK,     \* 2^31: above every cur_id
  Epoch,       \* CLOCK_REALTIME, of the gc records, is ahead of CLOCK_MONOTONIC
  MaxMoves,    \* bound: moves by the collector
  MaxEvents,   \* bound: records other than NEW
  MaxRuns      \* bound: times addr2id is started over the directory

ASSUME ObjectAssumption  == IsFiniteSet(Object)
ASSUME AddressAssumption ==
  /\ HeapAddress \cup Tag \subseteq Nat
  /\ {0, Nowhere} \cap (HeapAddress \cup Tag) = {}
  /\ \A a \in HeapAddress : a > Cardinality(Object)
ASSUME BoundsAssumption  ==
  {NewFiles, GcFiles, GC_MASK, Epoch, MaxMoves, MaxEvents, MaxRuns} \subseteq Nat

(* Files are numbered in the order in which the directory lists them, the  *)
(* same in every run; which thread has which number is left open.          *)
NewFile == 1..NewFiles
GcFile  == 1..GcFiles

NoId    == -1

VARIABLES
  clock,     \* CLOCK_MONOTONIC
  where,     \* where[o]: address of o
  seen,      \* objects that exist or existed
  tagged,    \* do records hold tags or heap addresses?
  moved,     \* objects the collector moved at least once
  newRec,    \* newRec[f]: records of NEW file f
  gcRec,     \* gcRec[g]: records of gc file g
  events,    \* records that mention an object, in all the other files
  moves,     \* moves so far, for the bound
  phase,     \* trace, what addr2id does next (build, gc, data, NEW), done or killed
  at,        \* file and record that build_addr_map reads next
  am,        \* addr_map: entries and cur_id
  newId,     \* addr-id.dat: ids given to the objects
  runs,      \* runs started
  kills      \* runs killed

heapVars == <<clock, where, seen, moved, moves, tagged>>
toolVars == <<phase, at, am, newId, runs, kills>>
vars == <<heapVars, newRec, gcRec, events, toolVars>>

Address == IF tagged THEN Tag ELSE HeapAddress

-----------------------------------------------------------------------------
(* class addr_map *)

(* query on the time map: the youngest entry that is not after time. *)
AtTime(entries, time) ==
  LET before == {e \in entries : e.time <= time}
  IN  IF before = {} THEN NoId
      ELSE (CHOOSE e \in before : \A d \in before : d.time <= e.time).id

query_Timed(m, addr, time) ==   \* an only entry is not special
  IF addr \notin DOMAIN m.map THEN NoId ELSE AtTime(m.map[addr].entries, time)

(* An address with one entry belongs to one object, whatever the time. *)
query(m, addr, time) ==
  IF addr \notin DOMAIN m.map THEN NoId
  ELSE IF m.map[addr].unique THEN (CHOOSE e \in m.map[addr].entries : TRUE).id
  ELSE AtTime(m.map[addr].entries, time)

Put(f, a, v) == [x \in DOMAIN f \cup {a} |-> IF x = a THEN v ELSE f[x]]

insert_with_id_Replaces(m, addr, time, id) ==   \* the older entry is dropped
  [m EXCEPT !.map = Put(@, addr, [unique |-> TRUE, entries |-> {[time |-> time, id |-> id]}])]

(* emplace leaves an entry of the same time alone. *)
insert_with_id(m, addr, time, id) ==
  LET old  == IF addr \in DOMAIN m.map THEN m.map[addr].entries ELSE {}
      new  == IF \E e \in old : e.time = time THEN {} ELSE {[time |-> time, id |-> id]}
  IN  [m EXCEPT !.map = Put(@, addr, [unique |-> old = {}, entries |-> old \cup new])]

Empty == insert_with_id([map |-> << >>, cur_id |-> 1], 0, 0, 0)

(* insert(addr, time), for a NEW record. *)
insert_new(m, r) ==
  [insert_with_id(m, r.addr, r.time, m.cur_id) EXCEPT !.cur_id = @ + 1]

(* insert(old_addr, new_addr, time), for a gc record. *)
insert_move(m, r) ==
  LET id == query(m, r.org, r.time)
  IN  IF id = NoId
      THEN [insert_with_id(m, r.new, r.time, m.cur_id + GC_MASK) EXCEPT !.cur_id = @ + 1]
      ELSE insert_with_id(m, r.new, r.time, id)

-----------------------------------------------------------------------------
(* The traced program *)

Init ==
  /\ clock = 1
  /\ where = [o \in Object |-> Nowhere]
  /\ seen = {} /\ moved = {} /\ moves = 0
  /\ newRec = [f \in NewFile |-> << >>]
  /\ gcRec = [g \in GcFile |-> << >>]
  /\ events = {}
  /\ phase = "trace" /\ at = <<1, 1>>
  /\ am = Empty
  /\ newId = << >>
  /\ runs = 0 /\ kills = 0
  /\ tagged \in BOOLEAN

Free == {a \in Address : \A o \in Object : where[o] # a}
Fresh == {a \in Address : \A f \in NewFile : \A i \in DOMAIN newRec[f] : newRec[f][i].addr # a}
Recorded(o) == \E f \in NewFile : \E i \in DOMAIN newRec[f] : newRec[f][i].obj = o

Allocate(o, a) ==
  /\ phase = "trace"
  /\ o \notin seen
  /\ a \in Free /\ (~tagged \/ a \in Fresh)
  /\ where' = [where EXCEPT ![o] = a]
  /\ seen' = seen \cup {o}
  /\ UNCHANGED <<clock, moved, moves, tagged, newRec, gcRec, events, toolVars>>

Collect(o) ==
  /\ phase = "trace" /\ ~tagged
  /\ where[o] # Nowhere
  /\ where' = [where EXCEPT ![o] = Nowhere]
  /\ UNCHANGED <<clock, seen, moved, moves, tagged, newRec, gcRec, events, toolVars>>

(***************************************************************************)
(* addNewRecord, addTagNewRecord: called when the constructor is done.     *)
(* The record keeps the low 32 bits of the address shifted by 3.  That the *)
(* members of HeapAddress, which are such numbers, stand for one place     *)
(* each is an assumption: the heap lies below 32 GB.                       *)
(***************************************************************************)
addNewRecord(f, o) ==
  /\ phase = "trace" /\ clock < Epoch
  /\ where[o] # Nowhere /\ ~Recorded(o)
  /\ newRec' = [newRec EXCEPT ![f] =
       Append(@, [obj |-> o, addr |-> where[o], raw |-> where[o], time |-> clock, still |-> o \notin moved])]
  /\ clock' = clock + 1
  /\ UNCHANGED <<where, seen, moved, moves, tagged, gcRec, events, toolVars>>

(* addPutFieldRecord, addConstructRecord, addAASTORERecord, addUseRecord. *)
addRecord(o) ==
  /\ phase = "trace" /\ clock < Epoch
  /\ Cardinality(events) < MaxEvents
  /\ where[o] # Nowhere
  /\ events' = events \cup
       {[obj |-> o, addr |-> where[o], raw |-> where[o], time |-> clock, still |-> o \notin moved]}
  /\ clock' = clock + 1
  /\ UNCHANGED <<where, seen, moved, moves, tagged, newRec, gcRec, toolVars>>

(* memmove during a collection. *)
memmove(g, o, a) ==
  /\ phase = "trace" /\ ~tagged /\ clock < Epoch
  /\ moves < MaxMoves
  /\ where[o] # Nowhere /\ a \in Free
  /\ gcRec' = [gcRec EXCEPT ![g] =
       Append(@, [org |-> where[o], new |-> a, time |-> Epoch + clock])]
  /\ where' = [where EXCEPT ![o] = a]
  /\ moved' = moved \cup {o}
  /\ moves' = moves + 1
  /\ clock' = clock + 1
  /\ UNCHANGED <<seen, tagged, newRec, events, toolVars>>

-----------------------------------------------------------------------------
(* main *)

traceVars == <<heapVars, newRec, gcRec>>

(* A run of the tool, when the program has ended and its heap is gone: an  *)
(* empty addr_map, addr-id.dat opened with "w".                            *)
main ==
  /\ phase \in {"trace", "done", "killed"}
  /\ runs < MaxRuns
  /\ am' = Empty
  /\ newId' = << >>
  /\ phase' = "build" /\ at' = <<1, 1>>
  /\ runs' = runs + 1
  /\ where' = [o \in Object |-> Nowhere] /\ seen' = {} /\ moved' = {}
  /\ UNCHANGED <<clock, moves, tagged, newRec, gcRec, events, kills>>

(* The loop of process_new_file: a record gets the next id, which is       *)
(* printed to addr-id.dat.  Ids are given in the order of the files, then  *)
(* of the records.                                                         *)
insert_new_records ==
  /\ phase = "build" /\ at[1] \in NewFile /\ at[2] \in DOMAIN newRec[at[1]]
  /\ am' = insert_new(am, newRec[at[1]][at[2]])
  /\ newId' = Put(newId, newRec[at[1]][at[2]].obj, am.cur_id)
  /\ at' = <<at[1], at[2] + 1>>
  /\ UNCHANGED <<traceVars, events, phase, runs, kills>>

process_new_file ==
  /\ phase = "build" /\ at[1] \in NewFile /\ at[2] \notin DOMAIN newRec[at[1]]
  /\ at' = <<at[1] + 1, 1>>
  /\ UNCHANGED <<traceVars, events, phase, am, newId, runs, kills>>

insert_gc_records ==
  /\ phase = "gc" /\ at[1] \in GcFile /\ at[2] \in DOMAIN gcRec[at[1]]
  /\ am' = insert_move(am, gcRec[at[1]][at[2]])
  /\ at' = <<at[1], at[2] + 1>>
  /\ UNCHANGED <<traceVars, events, phase, newId, runs, kills>>

process_gc_file ==
  /\ phase = "gc" /\ at[1] \in GcFile /\ at[2] \notin DOMAIN gcRec[at[1]]
  /\ at' = <<at[1] + 1, 1>>
  /\ UNCHANGED <<traceVars, events, phase, am, newId, runs, kills>>

(* From the NEW files to the gc files, and from those to the data. *)
build_addr_map ==
  /\ \/ phase = "build" /\ at[1] \notin NewFile /\ phase' = "gc"
     \/ phase = "gc" /\ at[1] \notin GcFile /\ phase' = "data"
  /\ at' = <<1, 1>>
  /\ UNCHANGED <<traceVars, events, am, newId, runs, kills>>

Resolved(r) == [r EXCEPT !.addr = query(am, r.addr, r.time)]

(* All other files are rewritten first, the NEW files last. *)
process_all_data_file ==
  /\ phase = "data"
  /\ events' = {Resolved(e) : e \in events}
  /\ phase' = "NEW"
  /\ UNCHANGED <<traceVars, at, am, newId, runs, kills>>

process_all_new_file ==
  /\ phase = "NEW"
  /\ newRec' = [f \in NewFile |-> [i \in DOMAIN newRec[f] |-> Resolved(newRec[f][i])]]
  /\ phase' = "done" /\ am' = Empty
  /\ UNCHANGED <<heapVars, gcRec, events, at, newId, runs, kills>>

(* Killed while it reads: only addr-id.dat is spoilt. *)
KilledReading ==
  /\ phase \in {"build", "gc"}
  /\ phase' = "killed" /\ kills' = kills + 1 /\ am' = Empty /\ at' = <<1, 1>>
  /\ UNCHANGED <<traceVars, events, newId, runs>>

(* Killed between two blocks of data files: those with the records rs are  *)
(* written, the others and the NEW files are as before.                    *)
KilledInData(rs) ==
  /\ phase = "data"
  /\ events' = (events \ rs) \cup {Resolved(e) : e \in rs}
  /\ phase' = "killed" /\ kills' = kills + 1 /\ am' = Empty
  /\ UNCHANGED <<traceVars, at, newId, runs>>

(* Killed in the NEW files: those before f are written, f up to record k. *)
KilledInNew(f, k) ==
  /\ phase = "NEW"
  /\ newRec' = [g \in NewFile |-> [i \in DOMAIN newRec[g] |->
       IF g < f \/ (g = f /\ i <= k) THEN Resolved(newRec[g][i]) ELSE newRec[g][i]]]
  /\ phase' = "killed" /\ kills' = kills + 1 /\ am' = Empty
  /\ UNCHANGED <<heapVars, gcRec, events, at, newId, runs>>

Next ==
  \/ \E o \in Object, a \in Address : Allocate(o, a)
  \/ \E o \in Object : Collect(o) \/ addRecord(o)
  \/ \E o \in Object, f \in NewFile : addNewRecord(f, o)
  \/ \E o \in Object, a \in Address, g \in GcFile : memmove(g, o, a)
  \/ main \/ insert_new_records \/ process_new_file \/ insert_gc_records \/ process_gc_file
  \/ build_addr_map \/ process_all_data_file \/ process_all_new_file
  \/ KilledReading
  \/ \E rs \in SUBSET events : KilledInData(rs)
  \/ \E f \in NewFile : \E k \in 0..Len(newRec[f]) : KilledInNew(f, k)

Spec == Init /\ [][Next]_vars

-----------------------------------------------------------------------------

AllNew == UNION {ToSet(newRec[f]) : f \in NewFile}
AllGc  == UNION {ToSet(gcRec[g]) : g \in GcFile}

TypeOK ==
  /\ clock \in Nat /\ moves \in 0..MaxMoves /\ runs \in 0..MaxRuns /\ kills \in 0..runs
  /\ where \in [Object -> Address \cup {Nowhere}]
  /\ seen \subseteq Object /\ moved \subseteq seen /\ tagged \in BOOLEAN
  /\ \A r \in AllNew \cup events :
       r.obj \in Object /\ r.raw \in Address /\ r.time \in Nat /\ r.still \in BOOLEAN
  /\ \A r \in AllNew \cup events : r.addr \in {NoId} \cup Nat
  /\ \A r \in AllGc : {r.org, r.new} \subseteq Address /\ r.time \in Nat
  /\ phase \in {"trace", "build", "gc", "data", "NEW", "done", "killed"}
  /\ at \in Nat \X Nat /\ am.cur_id \in Nat
  /\ \A a \in DOMAIN am.map : am.map[a].entries # {}
  /\ DOMAIN newId \subseteq Object

(* The address of r was only ever that of one object. *)
OneOwner(r) ==
  /\ \A n \in AllNew : n.raw = r.raw => n.obj = r.obj
  /\ \A g \in AllGc : g.new # r.raw

(* The records about objects that the files can name: the collector had    *)
(* not moved the object by then, and the record is not older than the NEW  *)
(* record.  An address of one object only, such as a tag, can be resolved  *)
(* at any time, also before the NEW record.                                *)
Nameable ==
  {e \in events : e.still /\ \E n \in AllNew :
                     n.obj = e.obj /\ n.still /\ (n.time <= e.time \/ OneOwner(n))}

(***************************************************************************)
(* Safety: what a query joins on is right.  After runs that were not       *)
(* killed every nameable record holds the id that addr-id.dat gives its    *)
(* object.  The order of the files, the reuse of addresses, moves of other *)
(* objects and a second run over the rewritten files change nothing.       *)
(***************************************************************************)
ResolvedRight ==
  phase = "done" /\ kills = 0 => \A e \in Nameable : e.addr = newId[e.obj]

(***************************************************************************)
(* Safety: addr2id was killed and run again.  The records that were        *)
(* rewritten before the NEW files hold ids which the next run looks up as  *)
(* addresses.  Heap addresses are never ids: the record loses its object   *)
(* (0xffffffff, which the queries leave out) and never names another one.  *)
(* For tags, which are numbers like the ids, only a kill before the first  *)
(* write is harmless.                                                      *)
(***************************************************************************)
KilledLosesOnly ==
  phase = "done" /\ ~tagged => \A e \in Nameable : e.addr \in {NoId, newId[e.obj]}

(***************************************************************************)
(* Safety: an id is the id of one object, and the rewritten NEW files      *)
(* agree with addr-id.dat, whatever addr2id made of the moves.             *)
(***************************************************************************)
NewIdsAgree ==
  phase = "done" =>
    /\ \A n \in AllNew : n.addr = newId[n.obj]
    /\ \A o, p \in DOMAIN newId : newId[o] = newId[p] => o = p

=============================================================================
