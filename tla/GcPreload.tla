----------------------------- MODULE GcPreload ------------------------------
(***************************************************************************)
(* How collections get into the trace: the callbacks of agent/src/agent.cpp*)
(* at the start and the end of a collection set a flag in                  *)
(* preload/preload.cpp, and the memmove that is preloaded there records    *)
(* every move that any thread makes while it sees the flag.                *)
(*                                                                         *)
(* The collector moves objects with memmove, and so may threads of the     *)
(* program that run native code meanwhile.  The flag is a volatile bool    *)
(* without any synchronisation.                                            *)
(*                                                                         *)
(* Events and moves are stamped by different clocks: nanotime() is         *)
(* CLOCK_MONOTONIC, memmove reads CLOCK_REALTIME.                          *)
(*                                                                         *)
(* External: the JVM stops the program, calls back, moves objects on its   *)
(* worker threads, waits for them and calls back again.                    *)
(***************************************************************************)
EXTENDS Integers, Sequences

CONSTANTS
  Worker,        \* threads of the collector
  Program,       \* threads of the traced program
  StreamRoom,    \* events the std::ofstream keeps back
  Epoch,         \* what CLOCK_REALTIME is ahead of CLOCK_MONOTONIC
  MaxGcs,        \* bound: collections
  MaxMoves       \* bound: calls of memmove per thread

ASSUME ThreadAssumption == Worker \cap Program = {}
ASSUME BoundsAssumption == {StreamRoom, Epoch, MaxGcs, MaxMoves} \subseteq Nat

Thread == Worker \cup Program

VARIABLES
  clock,       \* CLOCK_MONOTONIC: every reading of either clock is a new value
  gc,          \* where the collector is: off, starting, on, ending
  _gc_start,
  begun,       \* collections whose START callback was entered
  over,        \* collections whose END callback has returned
  events,      \* records added to event_recorder
  onDisk,      \* how many of them are in the file
  pc,          \* pc[t]: where t is in memmove
  move,        \* move[t]: the call t is in
  moves,       \* moves[t]: calls so far
  recs         \* recs[t]: records t added to its gc recorder

gcVars == <<gc, _gc_start, begun, over, events, onDisk>>
mmVars == <<pc, move, moves, recs>>
vars   == <<clock, gcVars, mmVars>>

NoMove == [no |-> 0, gc |-> 0, over |-> 0, time |-> 0, aligned |-> TRUE]

Init ==
  /\ clock = 1
  /\ gc = "off" /\ _gc_start = FALSE
  /\ begun = 0 /\ over = 0
  /\ events = << >> /\ onDisk = 0
  /\ pc = [t \in Thread |-> "idle"]
  /\ move = [t \in Thread |-> NoMove]
  /\ moves = [t \in Thread |-> 0]
  /\ recs = [t \in Thread |-> << >>]

-----------------------------------------------------------------------------
(* set_gc_start *)

(* Slips a change to the code could make; each breaks a property below. *)
AddEvent_Inverted(v) ==     \* START and END exchanged
  /\ events' = Append(events, [id |-> IF v THEN "END" ELSE "START", time |-> clock])
  /\ onDisk' = IF Len(events) - onDisk > StreamRoom THEN Len(events) ELSE onDisk
  /\ clock' = clock + 1

AddEvent_Rewrites(v) ==     \* sync does not reset _pos: what is written is written again
  /\ events' = Append(events, [id |-> IF v THEN "START" ELSE "END", time |-> clock])
  /\ onDisk' = IF Len(events) - onDisk > StreamRoom THEN onDisk + Len(events) ELSE onDisk
  /\ clock' = clock + 1

AddEvent_KeepsBack(v) ==    \* a buffer of more than one record
  /\ events' = Append(events, [id |-> IF v THEN "START" ELSE "END", time |-> clock])
  /\ onDisk' = IF Len(events) - onDisk > 2 * StreamRoom + 1 THEN Len(events) ELSE onDisk
  /\ clock' = clock + 1

(***************************************************************************)
(* The event is recorded before the flag changes.  The recorder's buffer   *)
(* holds one record, so add hands the one before to the ofstream, which    *)
(* writes all it has when it has no room left for another.                 *)
(***************************************************************************)
AddEvent(v) ==
  /\ events' = Append(events, [id |-> IF v THEN "START" ELSE "END", time |-> clock])
  /\ onDisk' = IF Len(events) - onDisk > StreamRoom THEN Len(events) ELSE onDisk
  /\ clock' = clock + 1

GarbageCollectionStart ==
  /\ gc = "off"
  /\ begun < MaxGcs
  /\ AddEvent(TRUE)
  /\ begun' = begun + 1
  /\ gc' = "starting"
  /\ UNCHANGED <<_gc_start, over, mmVars>>

GarbageCollectionFinish ==
  /\ gc = "on"
  /\ \A t \in Worker : pc[t] = "idle"
  /\ AddEvent(FALSE)
  /\ gc' = "ending"
  /\ UNCHANGED <<_gc_start, begun, over, mmVars>>

SetFlag_Sticky ==           \* the flag is never taken back
  /\ gc \in {"starting", "ending"}
  /\ _gc_start' = TRUE
  /\ gc' = IF gc = "starting" THEN "on" ELSE "off"
  /\ over' = IF gc = "starting" THEN over ELSE over + 1
  /\ UNCHANGED <<clock, begun, events, onDisk, mmVars>>

(* _gc_start = v; the callback returns. *)
SetFlag ==
  /\ gc \in {"starting", "ending"}
  /\ _gc_start' = (gc = "starting")
  /\ gc' = IF gc = "starting" THEN "on" ELSE "off"
  /\ over' = IF gc = "starting" THEN over ELSE over + 1
  /\ UNCHANGED <<clock, begun, events, onDisk, mmVars>>

-----------------------------------------------------------------------------
(* memmove *)

Goto(t, where) == pc' = [pc EXCEPT ![t] = where]

(* The real memmove comes first.  Objects are aligned, other data may not. *)
call_real_memmove(t, aligned) ==
  /\ pc[t] = "idle"
  /\ moves[t] < MaxMoves
  /\ t \in Worker => gc = "on" /\ aligned
  /\ moves' = [moves EXCEPT ![t] = @ + 1]
  /\ move' = [move EXCEPT ![t] = [no |-> moves[t] + 1, gc |-> begun, over |-> over,
                                  time |-> 0, aligned |-> aligned]]
  /\ Goto(t, "moved")
  /\ UNCHANGED <<clock, gcVars, recs>>

Return(t) ==
  /\ move' = [move EXCEPT ![t] = NoMove]
  /\ Goto(t, "idle")

(* if (_gc_start) *)
ReadFlag(t) ==
  /\ pc[t] = "moved"
  /\ IF _gc_start THEN Goto(t, "stamp") /\ UNCHANGED move ELSE Return(t)
  /\ UNCHANGED <<clock, gcVars, moves, recs>>

(* clock_gettime of CLOCK_REALTIME, and a recorder if the thread has none. *)
Stamp(t) ==
  /\ pc[t] = "stamp"
  /\ move' = [move EXCEPT ![t].time = Epoch + clock]
  /\ clock' = clock + 1
  /\ Goto(t, "add")
  /\ UNCHANGED <<gcVars, moves, recs>>

AddMove_OneBehind(t) ==     \* the recorder made for the first move drops it
  /\ pc[t] = "add"
  /\ recs' = IF move[t].aligned /\ move[t].no > 1 THEN [recs EXCEPT ![t] = Append(@, move[t])] ELSE recs
  /\ Return(t)
  /\ UNCHANGED <<clock, gcVars, moves>>

(* Only a source that can be an object is recorded. *)
AddMove(t) ==
  /\ pc[t] = "add"
  /\ recs' = IF move[t].aligned THEN [recs EXCEPT ![t] = Append(@, move[t])] ELSE recs
  /\ Return(t)
  /\ UNCHANGED <<clock, gcVars, moves>>

Next ==
  \/ GarbageCollectionStart \/ GarbageCollectionFinish \/ SetFlag
  \/ \E t \in Thread :
       \/ \E aligned \in BOOLEAN : call_real_memmove(t, aligned)
       \/ ReadFlag(t) \/ Stamp(t) \/ AddMove(t)

Spec == Init /\ [][Next]_vars

-----------------------------------------------------------------------------

MoveType == [no : Nat, gc : Nat, over : Nat, time : Nat, aligned : BOOLEAN]

(* Types, no more ends than starts, and no event on disk that was not added. *)
TypeOK ==
  /\ clock \in Nat
  /\ gc \in {"off", "starting", "on", "ending"} /\ _gc_start \in BOOLEAN
  /\ begun \in 0..MaxGcs /\ over \in 0..begun
  /\ events \in Seq([id : {"START", "END"}, time : Nat])
  /\ onDisk \in 0..Len(events)
  /\ pc \in [Thread -> {"idle", "moved", "stamp", "add"}]
  /\ move \in [Thread -> MoveType]
  /\ moves \in [Thread -> 0..MaxMoves]
  /\ recs \in [Thread -> Seq(MoveType)]

(***************************************************************************)
(* Safety: the trace has every move of the collector, once and in order:   *)
(* a worker outside memmove has one record for each move it made.  The     *)
(* flag is up in time for the first and still up after the last.           *)
(***************************************************************************)
EveryMoveRecorded ==
  \A t \in Worker : pc[t] = "idle" =>
    /\ Len(recs[t]) = moves[t]
    /\ \A i \in 1..moves[t] : recs[t][i].no = i

(* The events of collection k; they come in pairs. *)
StartOf(k) == events[2 * k - 1]
EndOf(k)   == events[2 * k]

(* The time of a move on the clock of the events. *)
Monotonic(r) == r.time - Epoch

(***************************************************************************)
(* Safety: START and END events alternate, and every record of a           *)
(* collector's move was made between those of its own collection, which    *)
(* shows in the trace once the offset of the two clocks is taken off.  It  *)
(* does not show in the stamps as they are: a real time is later than all  *)
(* monotonic ones, so in the files every move lies after every event.      *)
(***************************************************************************)
EventsEncloseMoves ==
  /\ \A i \in DOMAIN events : events[i].id = IF i % 2 = 1 THEN "START" ELSE "END"
  /\ \A t \in Worker : \A i \in DOMAIN recs[t] :
       LET r == recs[t][i]
       IN  /\ StartOf(r.gc).time < Monotonic(r)
           /\ Len(events) >= 2 * r.gc => Monotonic(r) < EndOf(r.gc).time
           /\ clock <= Epoch => \A j \in DOMAIN events : events[j].time < r.time

(***************************************************************************)
(* Safety: moves of the program that look like moves of objects.  A call   *)
(* of memmove is recorded only if a collection was going on at some time   *)
(* during it: more had begun when its time was taken than were over when   *)
(* it started.  That time can still be after the END of that collection.   *)
(***************************************************************************)
StraysOverlap ==
  \A t \in Program : \A i \in DOMAIN recs[t] :
    LET r == recs[t][i]
    IN  \E k \in (r.over + 1)..begun : StartOf(k).time < Monotonic(r)

(***************************************************************************)
(* Safety: a kill of the process costs the events in the stream and the    *)
(* one in the recorder, although the recorder's limit is one record.       *)
(***************************************************************************)
EventLossBounded == Len(events) - onDisk <= StreamRoom + 1

=============================================================================
