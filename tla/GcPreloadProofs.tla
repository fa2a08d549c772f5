-------------------------- MODULE GcPreloadProofs ---------------------------
(***************************************************************************)
(* Theorems about GcPreload, for every set of threads, every room in the   *)
(* stream and every number of collections and moves.                       *)
(***************************************************************************)
EXTENDS GcPreload, TLAPS

(* The flag is up from the end of the START callback to the end of END. *)
FlagFollows == _gc_start <=> gc \in {"on", "ending"}

(* How many collections are over and how many events there are. *)
Counts ==
  /\ over = IF gc = "off" THEN begun ELSE begun - 1
  /\ Len(events) = IF gc \in {"off", "ending"} THEN 2 * begun ELSE 2 * begun - 1

(* The collector's threads are in memmove only while it moves objects. *)
WorkersWait == gc # "on" => \A t \in Worker : pc[t] = "idle"

(* Events alternate, and their times are in the past. *)
EventOrder ==
  \A i \in DOMAIN events :
    /\ events[i].id = IF i % 2 = 1 THEN "START" ELSE "END"
    /\ events[i].time < clock

(* The record r lies between the events of its collection. *)
Enclosed(r) ==
  /\ r.gc \in 1..begun
  /\ StartOf(r.gc).time < Monotonic(r)
  /\ Len(events) >= 2 * r.gc => Monotonic(r) < EndOf(r.gc).time

(* The records of a collector's thread. *)
WorkerRecords ==
  \A t \in Worker : \A i \in DOMAIN recs[t] :
    recs[t][i].no = i /\ Monotonic(recs[t][i]) < clock /\ Enclosed(recs[t][i])

(* The call a collector's thread is in has no record yet. *)
WorkerCalls ==
  \A t \in Worker :
    /\ pc[t] = "idle" => Len(recs[t]) = moves[t]
    /\ pc[t] # "idle" => /\ Len(recs[t]) = moves[t] - 1
                         /\ move[t].no = moves[t] /\ move[t].aligned
                         /\ move[t].gc = begun
    /\ pc[t] = "add" => StartOf(begun).time < Monotonic(move[t]) /\ Monotonic(move[t]) < clock

(* The collection that began after o were over had begun before time. *)
Overlaps(o, time) == o < begun /\ StartOf(o + 1).time < time

(* The records of a thread of the program, and the call it is in. *)
StrayRecords ==
  \A t \in Program : \A i \in DOMAIN recs[t] : Overlaps(recs[t][i].over, Monotonic(recs[t][i]))

StrayCalls ==
  \A t \in Program :
    /\ pc[t] = "moved" => move[t].over <= over
    /\ pc[t] = "stamp" => move[t].over < begun
    /\ pc[t] = "add" => Overlaps(move[t].over, Monotonic(move[t]))

IInv ==
  /\ TypeOK /\ FlagFollows /\ Counts /\ WorkersWait /\ EventOrder
  /\ WorkerRecords /\ WorkerCalls /\ StrayRecords /\ StrayCalls
  /\ EventLossBounded

-----------------------------------------------------------------------------

(* The first state satisfies the inductive invariant. *)
LEMMA InitIInv == Init => IInv
<1>. SUFFICES ASSUME Init PROVE IInv
  OBVIOUS
<1>. USE DEF Init
<1>1. TypeOK
  <2>1. NoMove \in MoveType
    BY DEF NoMove, MoveType
  <2>2. begun \in 0..MaxGcs /\ over \in 0..begun /\ 0 \in 0..MaxMoves /\ clock \in Nat
    BY BoundsAssumption
  <2>3. events \in Seq([id : {"START", "END"}, time : Nat]) /\ onDisk \in 0..Len(events)
    OBVIOUS
  <2>4. gc \in {"off", "starting", "on", "ending"} /\ _gc_start \in BOOLEAN
    OBVIOUS
  <2>5. /\ pc \in [Thread -> {"idle", "moved", "stamp", "add"}]
        /\ move \in [Thread -> MoveType]
        /\ moves \in [Thread -> 0..MaxMoves]
    BY <2>1, <2>2
  <2>6. recs \in [Thread -> Seq(MoveType)]
    <3>1. << >> \in Seq(MoveType)
      OBVIOUS
    <3>. QED
      BY <3>1
  <2>. QED
    BY <2>2, <2>3, <2>4, <2>5, <2>6 DEF TypeOK
<1>2. EventLossBounded
  BY BoundsAssumption DEF EventLossBounded
<1>. QED
  BY <1>1, <1>2, ThreadAssumption
  DEF IInv, FlagFollows, Counts, WorkersWait, EventOrder, WorkerRecords, WorkerCalls,
      StrayRecords, StrayCalls, Thread

(* The times of events are numbers. *)
LEMMA EventTimes ==
  ASSUME TypeOK, NEW i \in DOMAIN events
  PROVE  events[i].time \in Nat
<1>. DEFINE E == [id : {"START", "END"}, time : Nat]
<1>1. events \in Seq(E)
  BY DEF TypeOK
<1>2. events[i] \in E
  <2>. HIDE DEF E
  <2>. QED
    BY <1>1
<1>. QED
  BY <1>2

(* What AddEvent does to the sequence of events. *)
LEMMA EventAdded ==
  ASSUME TypeOK, NEW v \in BOOLEAN, AddEvent(v)
  PROVE  /\ events' \in Seq([id : {"START", "END"}, time : Nat])
         /\ Len(events') = Len(events) + 1
         /\ \A i \in 1..Len(events) : events'[i] = events[i]
         /\ events'[Len(events) + 1].id = IF v THEN "START" ELSE "END"
         /\ events'[Len(events) + 1].time = clock
         /\ clock' = clock + 1 /\ clock' \in Nat
         /\ onDisk' \in 0..Len(events')
<1>1. [id |-> IF v THEN "START" ELSE "END", time |-> clock] \in [id : {"START", "END"}, time : Nat]
  BY DEF TypeOK
<1>2. events \in Seq([id : {"START", "END"}, time : Nat]) /\ Len(events) \in Nat
  BY DEF TypeOK
<1>3. onDisk' = IF Len(events) - onDisk > StreamRoom THEN Len(events) ELSE onDisk
  BY DEF AddEvent
<1>4. onDisk \in 0..Len(events) /\ clock \in Nat
  BY DEF TypeOK
<1>5. events' = Append(events, [id |-> IF v THEN "START" ELSE "END", time |-> clock])
  BY DEF AddEvent
<1>6. clock' = clock + 1
  BY DEF AddEvent
<1>7. /\ events' \in Seq([id : {"START", "END"}, time : Nat])
      /\ Len(events') = Len(events) + 1
  BY <1>1, <1>2, <1>5
<1>8. \A i \in 1..Len(events) : events'[i] = events[i]
  BY <1>1, <1>2, <1>5
<1>9. events'[Len(events) + 1] = [id |-> IF v THEN "START" ELSE "END", time |-> clock]
  BY <1>1, <1>2, <1>5
<1>10. onDisk' \in 0..Len(events')
  BY <1>2, <1>3, <1>4, <1>7
<1>. QED
  BY <1>4, <1>6, <1>7, <1>8, <1>9, <1>10

(* No more than the stream's room and the recorder's one record is kept back. *)
LEMMA EventKept ==
  ASSUME TypeOK, EventLossBounded, NEW v \in BOOLEAN, AddEvent(v)
  PROVE  EventLossBounded'
<1>1. Len(events') = Len(events) + 1
  BY EventAdded
<1>2. onDisk' = IF Len(events) - onDisk > StreamRoom THEN Len(events) ELSE onDisk
  BY DEF AddEvent
<1>3. Len(events) \in Nat /\ onDisk \in 0..Len(events) /\ StreamRoom \in Nat
  BY BoundsAssumption DEF TypeOK
<1>4. Len(events) - onDisk <= StreamRoom + 1
  BY DEF EventLossBounded
<1>5. Len(events') - onDisk' <= StreamRoom + 1
  <2>1. CASE Len(events) - onDisk > StreamRoom
    BY <1>1, <1>2, <1>3, <2>1
  <2>2. CASE ~(Len(events) - onDisk > StreamRoom)
    <3>1. onDisk' = onDisk
      BY <1>2, <2>2
    <3>2. onDisk \in Nat
      BY <1>3
    <3>3. Len(events) - onDisk <= StreamRoom
      BY <1>3, <2>2, <3>2
    <3>. QED
      BY <1>1, <1>3, <3>1, <3>2, <3>3
  <2>. QED
    BY <2>1, <2>2
<1>. QED
  BY <1>5 DEF EventLossBounded

(* Records stay where they were when an event is added after all of them. *)
LEMMA RecordsKept ==
  ASSUME IInv, NEW v \in BOOLEAN, AddEvent(v), UNCHANGED recs, begun' >= begun, begun' \in Nat
  PROVE  WorkerRecords' /\ StrayRecords'
<1>. USE DEF IInv
<1>1. /\ Len(events) \in Nat /\ begun \in Nat /\ clock \in Nat
      /\ 2 * begun - 1 <= Len(events)
  BY DEF TypeOK, Counts
<1>2. /\ Len(events') = Len(events) + 1
      /\ \A i \in 1..Len(events) : events'[i] = events[i]
      /\ events'[Len(events) + 1].time = clock
      /\ clock' = clock + 1
  <2>1. TypeOK
    OBVIOUS
  <2>. HIDE DEF IInv
  <2>. QED
    BY <2>1, EventAdded
<1>3. ASSUME NEW t \in Worker, NEW i \in DOMAIN recs[t]
      PROVE  recs[t][i].no = i /\ Monotonic(recs[t][i]) < clock' /\ Enclosed(recs[t][i])'
  <2>. DEFINE r == recs[t][i]
  <2>1. recs[t] \in Seq(MoveType) /\ t \in Thread
    BY DEF TypeOK, Thread
  <2>2. r \in MoveType
    BY <2>1
  <2>3. r.gc \in Nat /\ Monotonic(r) \in Int
    BY <2>2, BoundsAssumption DEF MoveType, Monotonic
  <2>4. r.no = i /\ Monotonic(r) < clock /\ Enclosed(r)
    BY DEF WorkerRecords
  <2>5. r.gc \in 1..begun /\ r.gc \in 1..begun'
    BY <1>1, <2>4 DEF Enclosed
  <2>6. 2 * r.gc - 1 \in 1..Len(events)
    BY <1>1, <2>5
  <2>7. events'[2 * r.gc - 1].time < Monotonic(r)
    BY <1>2, <2>4, <2>6 DEF Enclosed, StartOf
  <2>8. CASE Len(events) >= 2 * r.gc
    <3>1. 2 * r.gc \in 1..Len(events)
      BY <1>1, <2>5, <2>8
    <3>2. Monotonic(r) < events'[2 * r.gc].time
      BY <1>2, <2>4, <2>8, <3>1 DEF Enclosed, EndOf
    <3>. QED
      BY <1>1, <1>2, <2>3, <2>4, <2>5, <2>7, <3>2 DEF Enclosed, StartOf, EndOf
  <2>9. CASE Len(events) < 2 * r.gc
    <3>1. Len(events') >= 2 * r.gc => 2 * r.gc = Len(events) + 1
      <4>1. Len(events') = Len(events) + 1 /\ Len(events) \in Nat /\ r.gc \in Nat
        BY <1>1, <1>2, <2>3
      <4>. QED
        BY <4>1, <2>9
    <3>2. Len(events') >= 2 * r.gc => Monotonic(r) < events'[2 * r.gc].time
      BY <1>2, <2>4, <3>1
    <3>. QED
      BY <1>1, <1>2, <2>3, <2>4, <2>5, <2>7, <3>2 DEF Enclosed, StartOf, EndOf
  <2>. QED
    BY <1>1, <2>3, <2>8, <2>9
<1>4. ASSUME NEW t \in Program, NEW i \in DOMAIN recs[t]
      PROVE  Overlaps(recs[t][i].over, Monotonic(recs[t][i]))'
  <2>. DEFINE r == recs[t][i]
  <2>1. recs[t] \in Seq(MoveType) /\ t \in Thread
    BY DEF TypeOK, Thread
  <2>2. r \in MoveType
    BY <2>1
  <2>3. r.over \in Nat /\ Monotonic(r) \in Int
    BY <2>2, BoundsAssumption DEF MoveType, Monotonic
  <2>4. Overlaps(r.over, Monotonic(r))
    BY DEF StrayRecords
  <2>5. 2 * (r.over + 1) - 1 \in 1..Len(events)
    BY <1>1, <2>3, <2>4 DEF Overlaps
  <2>6. events'[2 * (r.over + 1) - 1] = events[2 * (r.over + 1) - 1]
    BY <1>2, <2>5
  <2>7. events'[2 * (r.over + 1) - 1].time < Monotonic(r)
    BY <2>4, <2>6 DEF Overlaps, StartOf
  <2>8. r.over < begun'
    BY <1>1, <2>3, <2>4 DEF Overlaps
  <2>9. recs'[t][i] = r
    OBVIOUS
  <2>. QED
    BY <2>7, <2>8, <2>9 DEF Overlaps, StartOf, Monotonic
<1>. QED
  BY <1>3, <1>4 DEF WorkerRecords, StrayRecords

(* Events alternate when the next one has the parity of its place. *)
LEMMA OrderKept ==
  ASSUME TypeOK, EventOrder, NEW v \in BOOLEAN, AddEvent(v),
         v <=> Len(events) % 2 = 0
  PROVE  EventOrder'
<1>0. /\ clock \in Nat /\ Len(events) \in Nat
      /\ events \in Seq([id : {"START", "END"}, time : Nat])
  BY DEF TypeOK
<1>1. /\ Len(events') = Len(events) + 1
      /\ \A i \in 1..Len(events) : events'[i] = events[i]
      /\ events'[Len(events) + 1].id = IF v THEN "START" ELSE "END"
      /\ events'[Len(events) + 1].time = clock
      /\ clock' = clock + 1
      /\ events' \in Seq([id : {"START", "END"}, time : Nat])
  BY EventAdded
<1>2. DOMAIN events' = 1..(Len(events) + 1) /\ DOMAIN events = 1..Len(events)
  BY <1>0, <1>1
<1>3. ASSUME NEW i \in 1..Len(events)
      PROVE  /\ events'[i].id = IF i % 2 = 1 THEN "START" ELSE "END"
             /\ events'[i].time < clock'
  <2>1. i \in DOMAIN events /\ events'[i] = events[i]
    BY <1>1, <1>2
  <2>2. events[i].time \in Nat
    BY <2>1, EventTimes
  <2>3. /\ events[i].id = IF i % 2 = 1 THEN "START" ELSE "END"
        /\ events[i].time < clock
    BY <2>1 DEF EventOrder
  <2>4. events[i].time < clock'
    BY <1>0, <1>1, <2>2, <2>3
  <2>. QED
    BY <2>1, <2>3, <2>4
<1>4. /\ events'[Len(events) + 1].id = IF (Len(events) + 1) % 2 = 1 THEN "START" ELSE "END"
      /\ events'[Len(events) + 1].time < clock'
  <2>1. Len(events) % 2 = 0 <=> (Len(events) + 1) % 2 = 1
    BY <1>0
  <2>2. v <=> (Len(events) + 1) % 2 = 1
    BY <2>1
  <2>. QED
    BY <1>0, <1>1, <2>2
<1>. QED
  BY <1>0, <1>2, <1>3, <1>4 DEF EventOrder

(* The numbers of a state, and what the collector's position says of them. *)
LEMMA StateFacts ==
  ASSUME IInv
  PROVE  /\ clock \in Nat /\ begun \in Nat /\ over \in Nat /\ Len(events) \in Nat
         /\ over <= begun
         /\ gc # "off" => begun >= 1
         /\ \A o \in Nat : o < begun => 2 * (o + 1) - 1 \in DOMAIN events
<1>1. /\ clock \in Nat /\ begun \in Nat /\ over \in Nat /\ over <= begun
      /\ Len(events) \in Nat
  BY BoundsAssumption DEF IInv, TypeOK
<1>2. DOMAIN events = 1..Len(events)
  BY DEF IInv, TypeOK
<1>3. 2 * begun - 1 <= Len(events)
  BY <1>1 DEF IInv, Counts
<1>4. gc # "off" => begun >= 1
  BY <1>1 DEF IInv, Counts
<1>5. ASSUME NEW o \in Nat, o < begun
      PROVE  2 * (o + 1) - 1 \in 1..Len(events)
  BY <1>1, <1>3, <1>5
<1>. QED
  BY <1>1, <1>2, <1>4, <1>5

(* An event of a collection that has begun stays when another is added. *)
LEMMA StartsKept ==
  ASSUME IInv, NEW v \in BOOLEAN, AddEvent(v), begun' \in {begun, begun + 1},
         NEW o \in Nat, NEW time, Overlaps(o, time)
  PROVE  Overlaps(o, time)'
<1>1. begun \in Nat /\ 2 * (o + 1) - 1 \in DOMAIN events
  BY StateFacts DEF Overlaps
<1>2. events'[2 * (o + 1) - 1] = events[2 * (o + 1) - 1]
  <2>1. TypeOK
    BY DEF IInv
  <2>2. DOMAIN events = 1..Len(events)
    BY <2>1 DEF TypeOK
  <2>. QED
    BY <1>1, <2>1, <2>2, EventAdded
<1>. QED
  BY <1>1, <1>2 DEF Overlaps, StartOf

(* What calls and their records are, by thread. *)
LEMMA CallTypes ==
  ASSUME TypeOK, NEW t \in Thread
  PROVE  /\ pc[t] \in {"idle", "moved", "stamp", "add"}
         /\ moves[t] \in Nat /\ moves[t] <= MaxMoves
         /\ move[t] \in MoveType
         /\ move[t].no \in Nat /\ move[t].gc \in Nat /\ move[t].over \in Nat
         /\ move[t].time \in Nat /\ Monotonic(move[t]) \in Int /\ move[t].aligned \in BOOLEAN
         /\ recs[t] \in Seq(MoveType) /\ Len(recs[t]) \in Nat
         /\ DOMAIN recs[t] = 1..Len(recs[t])
<1>1. pc[t] \in {"idle", "moved", "stamp", "add"}
  BY DEF TypeOK
<1>2. moves[t] \in Nat /\ moves[t] <= MaxMoves
  BY BoundsAssumption DEF TypeOK
<1>3. move[t] \in MoveType
  BY DEF TypeOK
<1>4. /\ move[t].no \in Nat /\ move[t].gc \in Nat /\ move[t].over \in Nat
      /\ move[t].time \in Nat /\ move[t].aligned \in BOOLEAN
  BY <1>3 DEF MoveType
<1>5. recs[t] \in Seq(MoveType)
  BY DEF TypeOK
<1>6. Len(recs[t]) \in Nat /\ DOMAIN recs[t] = 1..Len(recs[t])
  BY <1>5
<1>7. Monotonic(move[t]) \in Int
  BY <1>4, BoundsAssumption DEF Monotonic
<1>. QED
  BY <1>1, <1>2, <1>3, <1>4, <1>5, <1>6, <1>7

(* The START callback records its event: every collector's thread is idle. *)
LEMMA StartStep ==
  ASSUME IInv, GarbageCollectionStart
  PROVE  IInv'
<1>1. AddEvent(TRUE) /\ gc = "off" /\ gc' = "starting" /\ begun' = begun + 1 /\ begun < MaxGcs
  BY DEF GarbageCollectionStart
<1>2. UNCHANGED <<_gc_start, over, pc, move, moves, recs>>
  BY DEF GarbageCollectionStart, mmVars
<1>3. clock \in Nat /\ begun \in Nat /\ over \in Nat /\ Len(events) \in Nat /\ over <= begun
  BY StateFacts
<1>4. TypeOK /\ EventOrder /\ EventLossBounded
  BY DEF IInv
<1>5. /\ events' \in Seq([id : {"START", "END"}, time : Nat])
      /\ Len(events') = Len(events) + 1
      /\ clock' \in Nat /\ onDisk' \in 0..Len(events')
  BY <1>1, <1>4, EventAdded
<1>6. TypeOK'
  <2>1. begun' \in 0..MaxGcs /\ over' \in 0..begun'
    BY <1>1, <1>2, <1>3, BoundsAssumption
  <2>. QED
    BY <1>1, <1>2, <1>4, <1>5, <2>1 DEF TypeOK
<1>7. FlagFollows'
  BY <1>1, <1>2 DEF IInv, FlagFollows
<1>8. Counts'
  BY <1>1, <1>2, <1>3, <1>5 DEF IInv, Counts
<1>9. WorkersWait'
  BY <1>1, <1>2 DEF IInv, WorkersWait
<1>10. EventOrder'
  <2>1. Len(events) % 2 = 0
    BY <1>1, <1>3 DEF IInv, Counts
  <2>. QED
    BY <1>1, <1>4, <2>1, OrderKept
<1>11. WorkerRecords' /\ StrayRecords'
  <2>1. begun' >= begun /\ begun' \in Nat /\ UNCHANGED recs
    BY <1>1, <1>2, <1>3
  <2>. QED
    BY <1>1, <2>1, RecordsKept
<1>12. WorkerCalls'
  BY <1>1, <1>2 DEF IInv, WorkersWait, WorkerCalls
<1>13. StrayCalls'
  <2>1. ASSUME NEW t \in Program
        PROVE  /\ pc'[t] = "moved" => move'[t].over <= over'
               /\ pc'[t] = "stamp" => move'[t].over < begun'
               /\ pc'[t] = "add" => Overlaps(move[t].over, Monotonic(move[t]))'
    <3>1. move[t].over \in Nat
      BY <1>4, CallTypes DEF Thread
    <3>2. pc[t] = "add" => Overlaps(move[t].over, Monotonic(move[t]))'
      <4>1. pc[t] = "add" => Overlaps(move[t].over, Monotonic(move[t]))
        BY DEF IInv, StrayCalls
      <4>. QED
        BY <1>1, <1>2, <3>1, <4>1, StartsKept DEF Overlaps, StartOf
    <3>3. pc[t] = "stamp" => move[t].over < begun'
      BY <1>1, <1>3, <3>1 DEF IInv, StrayCalls
    <3>. QED
      BY <1>2, <3>2, <3>3 DEF IInv, StrayCalls
  <2>. QED
    BY <1>2, <2>1 DEF StrayCalls, Overlaps, StartOf
<1>14. EventLossBounded'
  BY <1>1, <1>4, EventKept
<1>. QED
  BY <1>6, <1>7, <1>8, <1>9, <1>10, <1>11, <1>12, <1>13, <1>14 DEF IInv

(* So does the END callback, once the collector's threads are idle. *)
LEMMA FinishStep ==
  ASSUME IInv, GarbageCollectionFinish
  PROVE  IInv'
<1>1. AddEvent(FALSE) /\ gc = "on" /\ gc' = "ending" /\ \A t \in Worker : pc[t] = "idle"
  BY DEF GarbageCollectionFinish
<1>2. UNCHANGED <<_gc_start, begun, over, pc, move, moves, recs>>
  BY DEF GarbageCollectionFinish, mmVars
<1>3. clock \in Nat /\ begun \in Nat /\ over \in Nat /\ Len(events) \in Nat /\ over <= begun
  BY StateFacts
<1>4. TypeOK /\ EventOrder /\ EventLossBounded
  BY DEF IInv
<1>5. /\ events' \in Seq([id : {"START", "END"}, time : Nat])
      /\ Len(events') = Len(events) + 1
      /\ clock' \in Nat /\ onDisk' \in 0..Len(events')
  BY <1>1, <1>4, EventAdded
<1>6. TypeOK'
  BY <1>1, <1>2, <1>4, <1>5 DEF TypeOK
<1>7. FlagFollows'
  BY <1>1, <1>2 DEF IInv, FlagFollows
<1>8. Counts'
  BY <1>1, <1>2, <1>3, <1>5 DEF IInv, Counts
<1>9. WorkersWait'
  BY <1>1, <1>2 DEF WorkersWait
<1>10. EventOrder'
  <2>1. ~(Len(events) % 2 = 0)
    BY <1>1, <1>3 DEF IInv, Counts
  <2>. QED
    BY <1>1, <1>4, <2>1, OrderKept
<1>11. WorkerRecords' /\ StrayRecords'
  <2>1. begun' >= begun /\ begun' \in Nat /\ UNCHANGED recs
    BY <1>2, <1>3
  <2>. QED
    BY <1>1, <2>1, RecordsKept
<1>12. WorkerCalls'
  BY <1>1, <1>2 DEF IInv, WorkerCalls
<1>13. StrayCalls'
  <2>1. ASSUME NEW t \in Program, pc[t] = "add"
        PROVE  Overlaps(move[t].over, Monotonic(move[t]))'
    <3>1. move[t].over \in Nat
      BY <1>4, CallTypes DEF Thread
    <3>2. Overlaps(move[t].over, Monotonic(move[t]))
      BY <2>1 DEF IInv, StrayCalls
    <3>. QED
      BY <1>1, <1>2, <3>1, <3>2, StartsKept DEF Overlaps, StartOf
  <2>. QED
    BY <1>2, <2>1 DEF IInv, StrayCalls, Overlaps, StartOf
<1>14. EventLossBounded'
  BY <1>1, <1>4, EventKept
<1>. QED
  BY <1>6, <1>7, <1>8, <1>9, <1>10, <1>11, <1>12, <1>13, <1>14 DEF IInv

(* The flag changes; at the end of END the collection is over. *)
LEMMA FlagStep ==
  ASSUME IInv, SetFlag
  PROVE  IInv'
<1>1. /\ gc \in {"starting", "ending"}
      /\ _gc_start' = (gc = "starting")
      /\ gc' = IF gc = "starting" THEN "on" ELSE "off"
      /\ over' = IF gc = "starting" THEN over ELSE over + 1
  BY DEF SetFlag
<1>2. UNCHANGED <<clock, begun, events, onDisk, pc, move, moves, recs>>
  BY DEF SetFlag, mmVars
<1>3. begun \in Nat /\ over \in Nat /\ Len(events) \in Nat /\ over <= begun
  BY StateFacts
<1>4. over' \in 0..begun /\ over <= over'
  BY <1>1, <1>3 DEF IInv, Counts
<1>5. TypeOK'
  <2>1. gc' \in {"off", "starting", "on", "ending"} /\ _gc_start' \in BOOLEAN
    BY <1>1
  <2>. QED
    BY <1>2, <1>4, <2>1 DEF IInv, TypeOK
<1>6. FlagFollows'
  BY <1>1 DEF FlagFollows
<1>7. Counts'
  BY <1>1, <1>2, <1>3 DEF IInv, Counts
<1>8. WorkersWait'
  BY <1>1, <1>2 DEF IInv, WorkersWait
<1>9. StrayCalls'
  <2>1. ASSUME NEW t \in Program, pc[t] = "moved"
        PROVE  move[t].over <= over'
    <3>1. move[t].over \in Nat
      BY CallTypes DEF IInv, Thread
    <3>2. move[t].over <= over
      BY <2>1 DEF IInv, StrayCalls
    <3>. QED
      BY <1>3, <1>4, <3>1, <3>2
  <2>. QED
    BY <1>2, <2>1 DEF IInv, StrayCalls, Overlaps, StartOf
<1>10. EventOrder' /\ WorkerRecords' /\ StrayRecords' /\ EventLossBounded'
  BY <1>2 DEF IInv, EventOrder, WorkerRecords, StrayRecords, EventLossBounded, Enclosed,
              Overlaps, StartOf, EndOf
<1>11. WorkerCalls'
  BY <1>2 DEF IInv, WorkerCalls, StartOf
<1>. QED
  BY <1>5, <1>6, <1>7, <1>8, <1>9, <1>10, <1>11 DEF IInv

(* What no step of a thread in memmove touches. *)
LEMMA CollectorKept ==
  ASSUME IInv, UNCHANGED gcVars, clock' \in {clock, clock + 1}
  PROVE  FlagFollows' /\ Counts' /\ EventOrder' /\ EventLossBounded'
<1>1. UNCHANGED <<gc, _gc_start, begun, over, events, onDisk>>
  BY DEF gcVars
<1>2. EventOrder'
  <2>1. ASSUME NEW i \in DOMAIN events
        PROVE  events[i].time < clock'
    <3>1. events[i].time \in Nat /\ clock \in Nat
      BY EventTimes, StateFacts DEF IInv
    <3>. QED
      BY <3>1 DEF IInv, EventOrder
  <2>. QED
    BY <1>1, <2>1 DEF IInv, EventOrder
<1>. QED
  BY <1>1, <1>2 DEF IInv, FlagFollows, Counts, EventLossBounded

(* Records stay right while nothing is added. *)
LEMMA RecordsStay ==
  ASSUME IInv, UNCHANGED <<gcVars, recs>>, clock' \in {clock, clock + 1}
  PROVE  WorkerRecords' /\ StrayRecords'
<1>1. UNCHANGED <<gc, _gc_start, begun, over, events, onDisk, recs>>
  BY DEF gcVars
<1>2. ASSUME NEW t \in Worker, NEW i \in DOMAIN recs[t]
      PROVE  Monotonic(recs[t][i]) < clock'
  <2>1. t \in Thread /\ recs[t] \in Seq(MoveType)
    BY CallTypes DEF IInv, Thread
  <2>2. recs[t][i] \in MoveType
    BY <2>1
  <2>3. Monotonic(recs[t][i]) \in Int /\ clock \in Nat
    BY <2>2, StateFacts, BoundsAssumption DEF MoveType, Monotonic
  <2>4. Monotonic(recs[t][i]) < clock
    BY DEF IInv, WorkerRecords
  <2>. QED
    BY <2>3, <2>4
<1>3. WorkerRecords'
  BY <1>1, <1>2 DEF IInv, WorkerRecords, Enclosed, StartOf, EndOf
<1>4. StrayRecords'
  BY <1>1 DEF IInv, StrayRecords, Overlaps, StartOf
<1>. QED
  BY <1>3, <1>4

(* memmove does the move: a collector's thread does so only while gc is on. *)
LEMMA CallStep ==
  ASSUME IInv, NEW t \in Thread, NEW aligned \in BOOLEAN, call_real_memmove(t, aligned)
  PROVE  IInv'
<1>. DEFINE m == [no |-> moves[t] + 1, gc |-> begun, over |-> over, time |-> 0, aligned |-> aligned]
<1>1. /\ pc[t] = "idle" /\ moves[t] < MaxMoves
      /\ t \in Worker => gc = "on" /\ aligned
      /\ moves' = [moves EXCEPT ![t] = @ + 1]
      /\ move' = [move EXCEPT ![t] = m]
      /\ pc' = [pc EXCEPT ![t] = "moved"]
      /\ clock' = clock
      /\ UNCHANGED gcVars /\ UNCHANGED recs
  BY DEF call_real_memmove, Goto
<1>2. UNCHANGED <<gc, _gc_start, begun, over, events, onDisk>>
  BY <1>1 DEF gcVars
<1>3. begun \in Nat /\ over \in Nat
  BY StateFacts
<1>4. /\ moves[t] \in Nat /\ pc \in [Thread -> {"idle", "moved", "stamp", "add"}]
      /\ moves \in [Thread -> 0..MaxMoves] /\ move \in [Thread -> MoveType]
  BY CallTypes DEF IInv, TypeOK
<1>5. m \in MoveType
  BY <1>3, <1>4 DEF MoveType
<1>. HIDE DEF m
<1>6. /\ pc'[t] = "moved" /\ move'[t] = m /\ moves'[t] = moves[t] + 1
      /\ \A s \in Thread : s # t => pc'[s] = pc[s] /\ move'[s] = move[s] /\ moves'[s] = moves[s]
  BY <1>1, <1>4
<1>7. TypeOK'
  <2>1. moves[t] + 1 \in 0..MaxMoves
    BY <1>1, <1>4, BoundsAssumption
  <2>2. /\ pc' \in [Thread -> {"idle", "moved", "stamp", "add"}]
        /\ moves' \in [Thread -> 0..MaxMoves] /\ move' \in [Thread -> MoveType]
    BY <1>1, <1>4, <1>5, <2>1
  <2>. QED
    BY <1>1, <1>2, <2>2 DEF IInv, TypeOK
<1>8. FlagFollows' /\ Counts' /\ EventOrder' /\ EventLossBounded'
  BY <1>1, CollectorKept
<1>9. WorkerRecords' /\ StrayRecords'
  BY <1>1, RecordsStay
<1>10. WorkersWait'
  BY <1>1, <1>2, <1>6 DEF IInv, WorkersWait, Thread
<1>11. WorkerCalls'
  <2>1. ASSUME NEW s \in Worker
        PROVE  /\ pc'[s] = "idle" => Len(recs[s]) = moves'[s]
               /\ pc'[s] # "idle" => /\ Len(recs[s]) = moves'[s] - 1
                                     /\ move'[s].no = moves'[s] /\ move'[s].aligned
                                     /\ move'[s].gc = begun
               /\ pc'[s] = "add" => StartOf(begun).time < Monotonic(move'[s]) /\ Monotonic(move'[s]) < clock
    <3>1. CASE s = t
      <4>1. m.no = moves[t] + 1 /\ m.aligned /\ m.gc = begun
        BY <1>1, <3>1 DEF m
      <4>2. Len(recs[t]) = moves[t]
        BY <1>1, <3>1 DEF IInv, WorkerCalls
      <4>. QED
        BY <1>4, <1>6, <3>1, <4>1, <4>2
    <3>2. CASE s # t
      BY <1>6, <3>2 DEF IInv, WorkerCalls, Thread
    <3>. QED
      BY <3>1, <3>2
  <2>. QED
    BY <1>1, <1>2, <2>1 DEF WorkerCalls, StartOf
<1>12. StrayCalls'
  <2>1. ASSUME NEW s \in Program
        PROVE  /\ pc'[s] = "moved" => move'[s].over <= over
               /\ pc'[s] = "stamp" => move'[s].over < begun
               /\ pc'[s] = "add" => Overlaps(move'[s].over, Monotonic(move'[s]))
    <3>1. CASE s = t
      <4>1. m.over <= over
        BY <1>3 DEF m
      <4>. QED
        BY <1>6, <3>1, <4>1
    <3>2. CASE s # t
      BY <1>6, <3>2 DEF IInv, StrayCalls, Thread
    <3>. QED
      BY <3>1, <3>2
  <2>. QED
    BY <1>2, <2>1 DEF StrayCalls, Overlaps, StartOf
<1>. QED
  BY <1>7, <1>8, <1>9, <1>10, <1>11, <1>12 DEF IInv

(* memmove reads the flag, which is up for a collector's thread. *)
LEMMA ReadStep ==
  ASSUME IInv, NEW t \in Thread, ReadFlag(t)
  PROVE  IInv'
<1>1. /\ pc[t] = "moved" /\ clock' = clock
      /\ UNCHANGED gcVars /\ UNCHANGED recs /\ UNCHANGED moves
  BY DEF ReadFlag
<1>2. UNCHANGED <<gc, _gc_start, begun, over, events, onDisk>>
  BY <1>1 DEF gcVars
<1>3. /\ pc \in [Thread -> {"idle", "moved", "stamp", "add"}]
      /\ move \in [Thread -> MoveType] /\ NoMove \in MoveType
  BY DEF IInv, TypeOK, NoMove, MoveType
<1>4. \/ _gc_start /\ pc' = [pc EXCEPT ![t] = "stamp"] /\ move' = move
      \/ ~_gc_start /\ pc' = [pc EXCEPT ![t] = "idle"] /\ move' = [move EXCEPT ![t] = NoMove]
  BY DEF ReadFlag, Goto, Return
<1>5. /\ \A s \in Thread : s # t => pc'[s] = pc[s] /\ move'[s] = move[s]
      /\ _gc_start => pc'[t] = "stamp" /\ move'[t] = move[t]
      /\ ~_gc_start => pc'[t] = "idle"
  BY <1>3, <1>4
<1>6. TypeOK'
  <2>1. pc' \in [Thread -> {"idle", "moved", "stamp", "add"}] /\ move' \in [Thread -> MoveType]
    BY <1>3, <1>4
  <2>. QED
    BY <1>1, <1>2, <2>1 DEF IInv, TypeOK
<1>7. FlagFollows' /\ Counts' /\ EventOrder' /\ EventLossBounded'
  BY <1>1, CollectorKept
<1>8. WorkerRecords' /\ StrayRecords'
  BY <1>1, RecordsStay
<1>9. t \in Worker => gc = "on" /\ _gc_start
  BY <1>1 DEF IInv, WorkersWait, FlagFollows
<1>10. WorkersWait'
  BY <1>2, <1>5, <1>9 DEF IInv, WorkersWait, Thread
<1>11. WorkerCalls'
  <2>1. ASSUME NEW s \in Worker
        PROVE  /\ pc'[s] = "idle" => Len(recs[s]) = moves[s]
               /\ pc'[s] # "idle" => /\ Len(recs[s]) = moves[s] - 1
                                     /\ move'[s].no = moves[s] /\ move'[s].aligned
                                     /\ move'[s].gc = begun
               /\ pc'[s] = "add" => StartOf(begun).time < Monotonic(move'[s]) /\ Monotonic(move'[s]) < clock
    <3>1. CASE s = t
      BY <1>1, <1>5, <1>9, <3>1 DEF IInv, WorkerCalls
    <3>2. CASE s # t
      BY <1>5, <3>2 DEF IInv, WorkerCalls, Thread
    <3>. QED
      BY <3>1, <3>2
  <2>. QED
    BY <1>1, <1>2, <2>1 DEF WorkerCalls, StartOf
<1>12. StrayCalls'
  <2>1. ASSUME NEW s \in Program
        PROVE  /\ pc'[s] = "moved" => move'[s].over <= over
               /\ pc'[s] = "stamp" => move'[s].over < begun
               /\ pc'[s] = "add" => Overlaps(move'[s].over, Monotonic(move'[s]))
    <3>1. CASE s = t
      <4>1. move[t].over <= over /\ move[t].over \in Nat
        BY <1>1, <3>1, CallTypes DEF IInv, StrayCalls
      <4>2. _gc_start => over = begun - 1
        BY DEF IInv, FlagFollows, Counts
      <4>3. _gc_start => move[t].over < begun
        BY <4>1, <4>2, StateFacts
      <4>. QED
        BY <1>5, <3>1, <4>3
    <3>2. CASE s # t
      BY <1>5, <3>2 DEF IInv, StrayCalls, Thread
    <3>. QED
      BY <3>1, <3>2
  <2>. QED
    BY <1>2, <2>1 DEF StrayCalls, Overlaps, StartOf
<1>. QED
  BY <1>6, <1>7, <1>8, <1>10, <1>11, <1>12 DEF IInv

(* memmove takes the time: after the START of each collection that has begun. *)
LEMMA StampStep ==
  ASSUME IInv, NEW t \in Thread, Stamp(t)
  PROVE  IInv'
<1>1. /\ pc[t] = "stamp" /\ clock' = clock + 1
      /\ move' = [move EXCEPT ![t].time = Epoch + clock]
      /\ pc' = [pc EXCEPT ![t] = "add"]
      /\ UNCHANGED gcVars /\ UNCHANGED recs /\ UNCHANGED moves
  BY DEF Stamp, Goto
<1>2. UNCHANGED <<gc, _gc_start, begun, over, events, onDisk>>
  BY <1>1 DEF gcVars
<1>3. /\ pc \in [Thread -> {"idle", "moved", "stamp", "add"}]
      /\ move \in [Thread -> MoveType] /\ clock \in Nat /\ begun \in Nat
  BY StateFacts DEF IInv, TypeOK
<1>4. /\ \A s \in Thread : s # t => pc'[s] = pc[s] /\ move'[s] = move[s]
      /\ pc'[t] = "add" /\ move'[t] = [move[t] EXCEPT !.time = Epoch + clock]
  BY <1>1, <1>3
<1>5. /\ move'[t] \in MoveType /\ Monotonic(move'[t]) = clock
      /\ move'[t].no = move[t].no /\ move'[t].gc = move[t].gc
      /\ move'[t].over = move[t].over /\ move'[t].aligned = move[t].aligned
  <2>1. move[t] \in MoveType
    BY <1>3
  <2>2. Epoch \in Nat /\ Epoch + clock \in Nat /\ (Epoch + clock) - Epoch = clock
    BY <1>3, BoundsAssumption
  <2>. QED
    BY <1>4, <2>1, <2>2 DEF MoveType, Monotonic
<1>6. TypeOK'
  <2>1. pc' \in [Thread -> {"idle", "moved", "stamp", "add"}]
    BY <1>1, <1>3
  <2>2. move' \in [Thread -> MoveType]
    <3>1. move' = [s \in Thread |-> IF s = t THEN move'[t] ELSE move[s]]
      BY <1>1, <1>3
    <3>. QED
      BY <1>3, <1>5, <3>1
  <2>3. clock' \in Nat
    BY <1>1, <1>3
  <2>. QED
    BY <1>1, <1>2, <2>1, <2>2, <2>3 DEF IInv, TypeOK
<1>7. FlagFollows' /\ Counts' /\ EventOrder' /\ EventLossBounded'
  BY <1>1, CollectorKept
<1>8. WorkerRecords' /\ StrayRecords'
  BY <1>1, RecordsStay
<1>9. t \in Worker => gc = "on"
  BY <1>1 DEF IInv, WorkersWait
<1>10. WorkersWait'
  BY <1>2, <1>4, <1>9 DEF IInv, WorkersWait, Thread
<1>11. \A o \in Nat : o < begun => StartOf(o + 1).time < clock
  <2>1. ASSUME NEW o \in Nat, o < begun
        PROVE  StartOf(o + 1).time < clock
    <3>1. 2 * (o + 1) - 1 \in DOMAIN events
      BY <2>1, StateFacts
    <3>. QED
      BY <3>1 DEF IInv, EventOrder, StartOf
  <2>. QED
    BY <2>1
<1>12. WorkerCalls'
  <2>1. ASSUME NEW s \in Worker
        PROVE  /\ pc'[s] = "idle" => Len(recs[s]) = moves[s]
               /\ pc'[s] # "idle" => /\ Len(recs[s]) = moves[s] - 1
                                     /\ move'[s].no = moves[s] /\ move'[s].aligned
                                     /\ move'[s].gc = begun
               /\ pc'[s] = "add" => StartOf(begun).time < Monotonic(move'[s]) /\ Monotonic(move'[s]) < clock'
    <3>1. CASE s = t
      <4>1. begun >= 1
        BY <1>9, <3>1, StateFacts
      <4>2. begun - 1 \in Nat /\ begun - 1 < begun /\ (begun - 1) + 1 = begun
        BY <1>3, <4>1
      <4>3. StartOf(begun).time < clock
        BY <1>11, <4>2
      <4>4. /\ Len(recs[t]) = moves[t] - 1 /\ move[t].no = moves[t]
            /\ move[t].aligned /\ move[t].gc = begun
        BY <1>1, <3>1 DEF IInv, WorkerCalls
      <4>5. clock < clock'
        BY <1>1, <1>3
      <4>. QED
        BY <1>4, <1>5, <3>1, <4>3, <4>4, <4>5
    <3>2. CASE s # t
      <4>1. s \in Thread /\ Monotonic(move[s]) \in Int
        BY CallTypes DEF IInv, Thread
      <4>2. pc[s] = "add" => Monotonic(move[s]) < clock'
        BY <1>1, <1>3, <4>1 DEF IInv, WorkerCalls
      <4>. QED
        BY <1>4, <3>2, <4>1, <4>2 DEF IInv, WorkerCalls
    <3>. QED
      BY <3>1, <3>2
  <2>. QED
    BY <1>1, <1>2, <2>1 DEF WorkerCalls, StartOf
<1>13. StrayCalls'
  <2>1. ASSUME NEW s \in Program
        PROVE  /\ pc'[s] = "moved" => move'[s].over <= over
               /\ pc'[s] = "stamp" => move'[s].over < begun
               /\ pc'[s] = "add" => Overlaps(move'[s].over, Monotonic(move'[s]))
    <3>1. CASE s = t
      <4>1. move[t].over \in Nat /\ move[t].over < begun
        BY <1>1, <3>1, CallTypes DEF IInv, StrayCalls
      <4>. QED
        BY <1>4, <1>5, <1>11, <3>1, <4>1 DEF Overlaps
    <3>2. CASE s # t
      BY <1>4, <3>2 DEF IInv, StrayCalls, Thread
    <3>. QED
      BY <3>1, <3>2
  <2>. QED
    BY <1>2, <2>1 DEF StrayCalls, Overlaps, StartOf
<1>. QED
  BY <1>6, <1>7, <1>8, <1>10, <1>12, <1>13 DEF IInv

(* memmove adds its record, which is the next one of a collector's thread. *)
LEMMA AddStep ==
  ASSUME IInv, NEW t \in Thread, AddMove(t)
  PROVE  IInv'
<1>1. /\ pc[t] = "add" /\ clock' = clock
      /\ recs' = IF move[t].aligned THEN [recs EXCEPT ![t] = Append(@, move[t])] ELSE recs
      /\ move' = [move EXCEPT ![t] = NoMove]
      /\ pc' = [pc EXCEPT ![t] = "idle"]
      /\ UNCHANGED gcVars /\ UNCHANGED moves
  BY DEF AddMove, Return, Goto
<1>2. UNCHANGED <<gc, _gc_start, begun, over, events, onDisk>>
  BY <1>1 DEF gcVars
<1>3. /\ pc \in [Thread -> {"idle", "moved", "stamp", "add"}]
      /\ move \in [Thread -> MoveType] /\ NoMove \in MoveType
      /\ recs \in [Thread -> Seq(MoveType)]
      /\ begun \in Nat /\ Len(events) \in Nat
  BY StateFacts DEF IInv, TypeOK, NoMove, MoveType
<1>4. /\ \A s \in Thread : s # t => pc'[s] = pc[s] /\ move'[s] = move[s] /\ recs'[s] = recs[s]
      /\ pc'[t] = "idle"
      /\ recs'[t] = IF move[t].aligned THEN Append(recs[t], move[t]) ELSE recs[t]
  BY <1>1, <1>3
<1>5. recs[t] \in Seq(MoveType) /\ move[t] \in MoveType /\ Len(recs[t]) \in Nat
  BY <1>3
<1>6. TypeOK'
  <2>1. /\ pc' \in [Thread -> {"idle", "moved", "stamp", "add"}]
        /\ move' \in [Thread -> MoveType]
    BY <1>1, <1>3
  <2>2. recs' \in [Thread -> Seq(MoveType)]
    <3>1. Append(recs[t], move[t]) \in Seq(MoveType)
      BY <1>5
    <3>. QED
      BY <1>1, <1>3, <3>1
  <2>. QED
    BY <1>1, <1>2, <2>1, <2>2 DEF IInv, TypeOK
<1>7. FlagFollows' /\ Counts' /\ EventOrder' /\ EventLossBounded'
  BY <1>1, CollectorKept
<1>8. t \in Worker => gc = "on"
  BY <1>1 DEF IInv, WorkersWait
<1>9. WorkersWait'
  BY <1>2, <1>4, <1>8 DEF IInv, WorkersWait, Thread
<1>10. ASSUME NEW i \in DOMAIN recs'[t]
       PROVE  \/ i \in DOMAIN recs[t] /\ recs'[t][i] = recs[t][i]
              \/ move[t].aligned /\ i = Len(recs[t]) + 1 /\ recs'[t][i] = move[t]
  <2>1. CASE move[t].aligned
    BY <1>4, <1>5, <1>10, <2>1
  <2>2. CASE ~move[t].aligned
    BY <1>4, <1>10, <2>2
  <2>. QED
    BY <2>1, <2>2
<1>11. WorkerRecords'
  <2>1. ASSUME NEW s \in Worker, NEW i \in DOMAIN recs'[s]
        PROVE  recs'[s][i].no = i /\ Monotonic(recs'[s][i]) < clock /\ Enclosed(recs'[s][i])
    <3>1. CASE s # t
      BY <1>4, <3>1 DEF IInv, WorkerRecords, Thread
    <3>2. CASE s = t /\ i \in DOMAIN recs[t] /\ recs'[t][i] = recs[t][i]
      BY <3>2 DEF IInv, WorkerRecords
    <3>3. CASE s = t /\ i = Len(recs[t]) + 1 /\ recs'[t][i] = move[t]
      <4>1. /\ Len(recs[t]) = moves[t] - 1 /\ move[t].no = moves[t] /\ move[t].gc = begun
            /\ StartOf(begun).time < Monotonic(move[t]) /\ Monotonic(move[t]) < clock
        BY <1>1, <3>3 DEF IInv, WorkerCalls
      <4>2. begun >= 1 /\ Len(events) = 2 * begun - 1
        BY <1>8, <3>3, StateFacts DEF IInv, Counts
      <4>3. begun \in 1..begun /\ ~(Len(events) >= 2 * begun)
        BY <1>3, <4>2
      <4>4. Enclosed(move[t])
        BY <4>1, <4>3 DEF Enclosed
      <4>5. moves[t] \in Nat
        BY CallTypes DEF IInv
      <4>6. move[t].no = i
        BY <1>5, <3>3, <4>1, <4>5
      <4>. QED
        BY <3>3, <4>1, <4>4, <4>6
    <3>. QED
      BY <1>10, <3>1, <3>2, <3>3
  <2>. QED
    BY <1>1, <1>2, <2>1 DEF WorkerRecords, Enclosed, StartOf, EndOf
<1>12. StrayRecords'
  <2>1. ASSUME NEW s \in Program, NEW i \in DOMAIN recs'[s]
        PROVE  Overlaps(recs'[s][i].over, Monotonic(recs'[s][i]))
    <3>1. CASE s # t
      BY <1>4, <3>1 DEF IInv, StrayRecords, Thread
    <3>2. CASE s = t /\ i \in DOMAIN recs[t] /\ recs'[t][i] = recs[t][i]
      BY <3>2 DEF IInv, StrayRecords
    <3>3. CASE s = t /\ recs'[t][i] = move[t]
      BY <1>1, <3>3 DEF IInv, StrayCalls
    <3>. QED
      BY <1>10, <3>1, <3>2, <3>3
  <2>. QED
    BY <1>2, <2>1 DEF StrayRecords, Overlaps, StartOf
<1>13. WorkerCalls'
  <2>1. ASSUME NEW s \in Worker
        PROVE  /\ pc'[s] = "idle" => Len(recs'[s]) = moves[s]
               /\ pc'[s] # "idle" => /\ Len(recs'[s]) = moves[s] - 1
                                     /\ move'[s].no = moves[s] /\ move'[s].aligned
                                     /\ move'[s].gc = begun
               /\ pc'[s] = "add" => StartOf(begun).time < Monotonic(move'[s]) /\ Monotonic(move'[s]) < clock
    <3>1. CASE s = t
      <4>1. Len(recs[t]) = moves[t] - 1 /\ move[t].aligned
        BY <1>1, <3>1 DEF IInv, WorkerCalls
      <4>2. Len(recs'[t]) = Len(recs[t]) + 1
        BY <1>4, <1>5, <4>1
      <4>3. moves[t] \in Nat
        BY CallTypes DEF IInv
      <4>. QED
        BY <1>4, <3>1, <4>1, <4>2, <4>3
    <3>2. CASE s # t
      BY <1>4, <3>2 DEF IInv, WorkerCalls, Thread
    <3>. QED
      BY <3>1, <3>2
  <2>. QED
    BY <1>1, <1>2, <2>1 DEF WorkerCalls, StartOf
<1>14. StrayCalls'
  <2>1. ASSUME NEW s \in Program
        PROVE  /\ pc'[s] = "moved" => move'[s].over <= over
               /\ pc'[s] = "stamp" => move'[s].over < begun
               /\ pc'[s] = "add" => Overlaps(move'[s].over, Monotonic(move'[s]))
    BY <1>4 DEF IInv, StrayCalls, Thread
  <2>. QED
    BY <1>2, <2>1 DEF StrayCalls, Overlaps, StartOf
<1>. QED
  BY <1>6, <1>7, <1>9, <1>11, <1>12, <1>13, <1>14 DEF IInv

-----------------------------------------------------------------------------

(***************************************************************************)
(* The inductive invariant holds in every state: callbacks of the          *)
(* collector and memmove of any number of threads keep it.                 *)
(***************************************************************************)
THEOREM Invariance == Spec => []IInv
<1>1. ASSUME IInv, [Next]_vars
      PROVE  IInv'
  <2>1. CASE UNCHANGED vars
    <3>1. UNCHANGED <<clock, gc, _gc_start, begun, over, events, onDisk, pc, move, moves, recs>>
      BY <2>1 DEF vars, gcVars, mmVars
    <3>. QED
      BY <1>1, <3>1
      DEF IInv, TypeOK, FlagFollows, Counts, WorkersWait, EventOrder, WorkerRecords,
          WorkerCalls, StrayRecords, StrayCalls, EventLossBounded, Enclosed, Overlaps,
          StartOf, EndOf
  <2>2. CASE GarbageCollectionStart
    BY <1>1, <2>2, StartStep
  <2>3. CASE GarbageCollectionFinish
    BY <1>1, <2>3, FinishStep
  <2>4. CASE SetFlag
    BY <1>1, <2>4, FlagStep
  <2>5. ASSUME NEW t \in Thread, NEW aligned \in BOOLEAN, call_real_memmove(t, aligned)
        PROVE  IInv'
    BY <1>1, <2>5, CallStep
  <2>6. ASSUME NEW t \in Thread, ReadFlag(t)
        PROVE  IInv'
    BY <1>1, <2>6, ReadStep
  <2>7. ASSUME NEW t \in Thread, Stamp(t)
        PROVE  IInv'
    BY <1>1, <2>7, StampStep
  <2>8. ASSUME NEW t \in Thread, AddMove(t)
        PROVE  IInv'
    BY <1>1, <2>8, AddStep
  <2>. QED
    BY <1>1, <2>1, <2>2, <2>3, <2>4, <2>5, <2>6, <2>7, <2>8 DEF Next
<1>. QED
  BY InitIInv, <1>1, PTL DEF Spec

(***************************************************************************)
(* The variables keep their types, no collection ends before it began, and *)
(* no event is on disk before it was added.                                *)
(***************************************************************************)
THEOREM TypeCorrect == Spec => []TypeOK
<1>1. IInv => TypeOK
  BY DEF IInv
<1>. QED
  BY Invariance, <1>1, PTL

(***************************************************************************)
(* Every move of the collector is recorded once, in the order it made      *)
(* them, whatever the program's threads do to the flag's readers.          *)
(***************************************************************************)
THEOREM MovesRecorded == Spec => []EveryMoveRecorded
<1>1. ASSUME IInv
      PROVE  EveryMoveRecorded
  <2>1. ASSUME NEW t \in Worker, pc[t] = "idle"
        PROVE  Len(recs[t]) = moves[t] /\ \A i \in 1..moves[t] : recs[t][i].no = i
    <3>1. Len(recs[t]) = moves[t]
      BY <1>1, <2>1 DEF IInv, WorkerCalls
    <3>2. DOMAIN recs[t] = 1..Len(recs[t])
      BY <1>1, CallTypes DEF IInv, Thread
    <3>. QED
      BY <1>1, <3>1, <3>2 DEF IInv, WorkerRecords
  <2>. QED
    BY <2>1 DEF EveryMoveRecorded
<1>. QED
  BY Invariance, <1>1, PTL

(***************************************************************************)
(* The events alternate, and the time of a collector's move, brought to    *)
(* the clock of the events, lies between the START and the END event of    *)
(* its own collection; as recorded, it lies after all events.              *)
(***************************************************************************)
THEOREM MovesEnclosed == Spec => []EventsEncloseMoves
<1>1. ASSUME IInv, NEW t \in Worker, NEW i \in DOMAIN recs[t], clock <= Epoch,
             NEW j \in DOMAIN events
      PROVE  events[j].time < recs[t][i].time
  <2>. DEFINE r == recs[t][i]
  <2>1. recs[t] \in Seq(MoveType)
    BY <1>1, CallTypes DEF IInv, Thread
  <2>2. r \in MoveType
    BY <1>1, <2>1
  <2>3. r.time \in Nat /\ r.gc \in Nat
    BY <2>2 DEF MoveType
  <2>4. r.gc \in 1..begun /\ StartOf(r.gc).time < Monotonic(r)
    BY <1>1 DEF IInv, WorkerRecords, Enclosed
  <2>5. 2 * r.gc - 1 \in DOMAIN events
    <3>1. r.gc - 1 \in Nat /\ r.gc - 1 < begun /\ 2 * ((r.gc - 1) + 1) - 1 = 2 * r.gc - 1
      BY <1>1, <2>3, <2>4, StateFacts
    <3>. QED
      BY <1>1, <3>1, StateFacts
  <2>6. StartOf(r.gc).time \in Nat /\ events[j].time \in Nat
    BY <1>1, <2>5, EventTimes DEF IInv, StartOf
  <2>7. events[j].time < clock
    BY <1>1 DEF IInv, EventOrder
  <2>8. 0 < r.time - Epoch /\ Epoch \in Nat /\ clock \in Nat
    BY <1>1, <2>3, <2>4, <2>6, StateFacts, BoundsAssumption DEF Monotonic
  <2>. HIDE DEF r
  <2>9. events[j].time < r.time
    BY <1>1, <2>3, <2>6, <2>7, <2>8
  <2>. QED
    BY <2>9 DEF r
<1>2. IInv => EventsEncloseMoves
  BY <1>1 DEF IInv, EventOrder, WorkerRecords, Enclosed, EventsEncloseMoves
<1>. QED
  BY Invariance, <1>2, PTL

(***************************************************************************)
(* A move of the program that was recorded overlaps a collection: the one  *)
(* after those that were over when it started.                             *)
(***************************************************************************)
THEOREM OnlyOverlapping == Spec => []StraysOverlap
<1>1. ASSUME IInv, NEW t \in Program, NEW i \in DOMAIN recs[t]
      PROVE  \E k \in (recs[t][i].over + 1)..begun : StartOf(k).time < Monotonic(recs[t][i])
  <2>. DEFINE o == recs[t][i].over
  <2>1. recs[t] \in Seq(MoveType)
    BY <1>1, CallTypes DEF IInv, Thread
  <2>2. recs[t][i] \in MoveType
    BY <1>1, <2>1
  <2>3. o \in Nat
    BY <2>2 DEF MoveType
  <2>4. o < begun /\ StartOf(o + 1).time < Monotonic(recs[t][i])
    BY <1>1 DEF IInv, StrayRecords, Overlaps
  <2>. HIDE DEF o
  <2>5. o + 1 \in (o + 1)..begun
    BY <1>1, <2>3, <2>4, StateFacts
  <2>. QED
    BY <2>4, <2>5 DEF o
<1>2. IInv => StraysOverlap
  BY <1>1 DEF StraysOverlap
<1>. QED
  BY Invariance, <1>2, PTL

(***************************************************************************)
(* A kill loses at most the events in the stream and the one in the        *)
(* recorder, however many collections there were.                          *)
(***************************************************************************)
THEOREM EventLoss == Spec => []EventLossBounded
<1>1. IInv => EventLossBounded
  BY DEF IInv
<1>. QED
  BY Invariance, <1>1, PTL

=============================================================================
