--------------------------- MODULE TagStoreProofs ---------------------------
(***************************************************************************)
(* Proofs about TagStore, for every number of threads and objects, any     *)
(* width of the addresses and any number of callbacks.                     *)
(***************************************************************************)
EXTENDS TagStore, SequenceTheorems, TLAPS

USE DEF At

-----------------------------------------------------------------------------
(* The parts of the inductive invariant *)

(* The i-th object the call c is about. *)
Arg(c, i) == IF i = 1 THEN c.first ELSE c.rest[i - 1]

(***************************************************************************)
(* Which call c can be at which place loc, and what addTagNewRecord works  *)
(* on: an object its thread allocated and has not built yet.               *)
(***************************************************************************)
Shape(t, loc, c) ==
  /\ loc = "idle" <=> c.kind = "none"
  /\ loc \in {"count", "set", "called"} => c.kind = "NEW"
  /\ loc \in {"lookup", "stamp", "finish"} => c.kind \in Callbacks
  /\ loc = "stamp" => c.kind = "AAStore" /\ Len(c.tags) = 1
  /\ c.kind = "NEW" =>
       c.first \in Object /\ c.rest = << >> /\ owner[c.first] = t /\ ~built[c.first]
  /\ c.kind = "AAStore" => Len(c.rest) = 1
  /\ loc = "finish" => Len(c.tags) \in 1..(Len(c.rest) + 1)

CallShape == \A t \in Thread : Shape(t, pc[t], call[t])

(* tag is the tag of o, and the NEW record of o says so. *)
TagOf(o, tag) == tag > 0 /\ Names(Addr(tag), o)

(* The tags a call has found are those of its objects. *)
Known(loc, c) ==
  /\ c.kind = "NEW" /\ loc # "count" => Len(c.tags) = 1 /\ TagOf(c.first, c.tags[1])
  /\ loc \in {"stamp", "finish"} =>
       \A i \in 1..Len(c.tags) : Arg(c, i) # Null =>
         TagOf(Arg(c, i), c.tags[i]) \/ (i > 1 /\ c.tags[i] = NotSampled)

(* Every tag found anywhere is the tag of the object it is found for. *)
TagsKnown ==
  /\ \A t \in Thread, o \in Object :
       /\ localTags[t][o] \notin {0, NotSampled} => TagOf(o, localTags[t][o])
       /\ globalTags[t][o] # 0 => TagOf(o, globalTags[t][o])
  /\ \A t \in Thread : Known(pc[t], call[t])

(* Tags are handed out one by one, so NEW records have different addresses. *)
TagsFresh ==
  /\ global_tag >= FirstTag
  /\ global_tag <= AddrSpace =>
       \A n \in NewRecords :
         /\ n.addrs[1] \in FirstTag..(global_tag - 1)
         /\ \A m \in NewRecords : m.addrs[1] = n.addrs[1] => m.objs[1] = n.objs[1]

RecordsRight ==
  \A r \in trace : \A i \in 1..Len(r.addrs) :
    r.objs[i] # Null =>
      \/ Names(r.addrs[i], r.objs[i])
      \/ i > 1 /\ r.addrs[i] = Addr(NotSampled)

(* An environment that holds a tag can hold one; GetEnv makes another one. *)
EnvsFresh ==
  /\ \A t \in Thread : pc[t] = "store" => slot0 # t
  /\ \A t \in Thread, o \in Object : globalTags[t][o] # 0 => canTag[t]

(* The object of a NEW callback that has set its tag. *)
Called(o) == \E t \in Thread : pc[t] = "called" /\ call[t].first = o

(* Before its NEW callback an object has no tag anywhere. *)
TagsAfterNew ==
  \A t \in Thread, o \in Object :
    localTags[t][o] > 0 \/ globalTags[t][o] # 0 => built[o] \/ Called(o)

(* Objects that do not leak this are nobody else's until they are built. *)
PrivateCall(t, c) ==
  c.kind \in Callbacks =>
    \A o \in Object \ escaped, i \in 1..(Len(c.rest) + 1) :
      Arg(c, i) = o => owner[o] = t \/ built[o]

Private ==
  /\ \A t \in Thread, o \in Object \ escaped :
       localTags[t][o] # 0 => owner[o] = t \/ built[o]
  /\ \A t \in Thread : PrivateCall(t, call[t])

(* ... so that a cached "not sampled" is right, also in the next states. *)
Negatives ==
  \A t \in Thread, o \in Object :
    /\ o \notin escaped /\ localTags[t][o] = NotSampled /\ built[o] /\ slot0 # NoThread =>
         globalTags[slot0][o] = 0
    /\ pc[t] = "called" /\ call[t].first = o => localTags[t][o] > 0

(* The clock is ahead of every time that was read. *)
TimesPast ==
  /\ clock > 0
  /\ \A r \in trace : r.time < clock
  /\ \A t \in Thread : call[t].time < clock

(* The NEW record of o is older than time. *)
NewBefore(o, time) == \E n \in NewRecords : n.objs[1] = o /\ n.time < time

(* The NEW records of o, if there are any, are older than time. *)
AllBefore(o, time) == \A n \in NewRecords : n.objs[1] = o => n.time < time

(* The times of callbacks that take the time before they add the record. *)
Timed(loc, c) ==
  /\ c.kind = "AAStore" /\ loc = "finish" /\ c.first # Null => NewBefore(c.first, c.time)
  /\ c.kind = "PutField" \/ (c.kind = "AAStore" /\ loc = "finish") =>
       \A i \in 1..(Len(c.rest) + 1) :
         Arg(c, i) \in Object \ escaped => AllBefore(Arg(c, i), c.time)

TimesRight == \A t \in Thread : Timed(pc[t], call[t])

IInv ==
  /\ TypeOK
  /\ EnvBeforeUse
  /\ CallShape
  /\ TagsKnown
  /\ TagsFresh
  /\ RecordsRight
  /\ EnvsFresh
  /\ TagsAfterNew
  /\ Private
  /\ Negatives
  /\ TimesPast
  /\ TimesRight
  /\ AllocatedBeforeUse

-----------------------------------------------------------------------------
(* Steps *)

(* A callback other than addTagNewRecord starts. *)
Enters(t) ==
  \E kind \in Callbacks, first \in Object \cup {Null}, rest \in Seq(Object \cup {Null}) :
    /\ kind = "AAStore" => Len(rest) = 1
    /\ IF kind = "PutField"
       THEN Enter(t, kind, first, rest, clock) /\ clock' = clock + 1
       ELSE Enter(t, kind, first, rest, 0) /\ clock' = clock

(* The five kinds of callback start alike. *)
LEMMA EntersCases ==
  ASSUME NEW t \in Thread, NEW o \in Object,
         \/ addTagConstructRecord(t, o) \/ addTagUseRecord(t, o)
         \/ \E ref \in Refs :
              addTagPutFieldRecord(t, o, ref) \/ addTagAASTORERecord(t, o, ref)
         \/ \E args \in Args : addContainerRecord(t, o, args)
  PROVE  Enters(t)
<1>0. << >> \in Seq(Object \cup {Null}) /\ <<o>> \in Seq(Object \cup {Null}) /\ Len(<<o>>) = 1
  OBVIOUS
<1>1. CASE addTagConstructRecord(t, o) \/ addTagUseRecord(t, o)
  BY <1>0, <1>1 DEF addTagConstructRecord, addTagUseRecord, Enters, Callbacks
<1>2. CASE \E ref \in Refs : addTagPutFieldRecord(t, o, ref)
  BY <1>0, <1>2, RefsAssumption DEF addTagPutFieldRecord, Enters, Callbacks
<1>3. CASE \E ref \in Refs : addTagAASTORERecord(t, o, ref)
  BY <1>0, <1>3, RefsAssumption DEF addTagAASTORERecord, Enters, Callbacks
<1>4. CASE \E args \in Args : addContainerRecord(t, o, args)
  <2>1. PICK args \in Args : addContainerRecord(t, o, args)
    BY <1>4
  <2>2. args \in Seq(Object \cup {Null})
    BY BoundsAssumption, RefsAssumption, SeqDef DEF Args
  <2>. QED
    BY <2>1, <2>2 DEF addContainerRecord, Enters, Callbacks
<1>. QED
  BY <1>1, <1>2, <1>3, <1>4

(* init_jvmti goes on, or a NULL environment ends the process. *)
InitSteps(t) ==
  \/ InitCheck(t) \/ InitStore(t) \/ InitCapable(t)
  \/ InitStoreFails(t) \/ OwnEnvFails(t) \/ UseNull(t)

(* The steps of the system, as the proofs below tell them apart. *)
LEMMA StepCases ==
  ASSUME [Next]_vars
  PROVE  \/ \E t \in Thread, o \in Object : Allocate(t, o) \/ NotPicked(t, o) \/ Picked(t, o)
         \/ \E t \in Thread :
              \/ Enters(t)
              \/ CountTag(t) \/ SetTag(t) \/ NewReturns(t)
              \/ InitSteps(t)
              \/ LookupFirst(t) \/ Stamp(t) \/ LookupNext(t) \/ AddRecord(t)
         \/ UNCHANGED vars
BY EntersCases DEF Next, Step, InitSteps

-----------------------------------------------------------------------------
(* Calls, records and lookups *)

(* The parts of a call have their types. *)
LEMMA CallParts ==
  ASSUME TypeOK, NEW t \in Thread
  PROVE  /\ call[t] \in CallType
         /\ call[t].kind \in Callbacks \cup {"NEW", "none"}
         /\ call[t].first \in Object \cup {Null}
         /\ call[t].rest \in Seq(Object \cup {Null}) /\ Len(call[t].rest) \in Nat
         /\ call[t].tags \in Seq(Int) /\ Len(call[t].tags) \in Nat
         /\ call[t].time \in Nat
<1>1. call[t] \in CallType
  BY DEF TypeOK
<1>. QED
  BY <1>1, LenProperties DEF CallType, Tag

(* A callback is made of parts of the right types. *)
LEMMA MakeCall ==
  ASSUME NEW kind \in Callbacks \cup {"NEW", "none"}, NEW first \in Object \cup {Null},
         NEW rest \in Seq(Object \cup {Null}), NEW tags \in Seq(Int), NEW time \in Nat
  PROVE  [kind |-> kind, first |-> first, rest |-> rest, tags |-> tags, time |-> time]
           \in CallType
BY DEF CallType, Tag

(* So is the absence of a callback. *)
LEMMA NoCallType ==
  /\ NoCall \in CallType
  /\ NoCall.kind = "none" /\ NoCall.time = 0 /\ NoCall.first = Null
<1>1. << >> \in Seq(Object \cup {Null}) /\ << >> \in Seq(Int)
  OBVIOUS
<1>. QED
  BY <1>1, MakeCall DEF NoCall

(* Tags are shortened to addresses. *)
LEMMA AddrType ==
  ASSUME NEW tag \in Int
  PROVE  /\ Addr(tag) \in Nat
         /\ tag >= 0 /\ tag < AddrSpace => Addr(tag) = tag
         /\ Addr(NotSampled) = AddrSpace - 1
BY AddrSpaceAssumption DEF Addr, NotSampled, FirstTag

(* The record a callback adds. *)
LEMMA EntryParts ==
  ASSUME TypeOK, NEW t \in Thread, NEW tags \in Seq(Int), NEW time \in Nat,
         call[t].kind # "none"
  PROVE  /\ Entry(t, tags, time) \in EntryType
         /\ Entry(t, tags, time).kind = call[t].kind
         /\ Entry(t, tags, time).time = time
         /\ Len(Entry(t, tags, time).addrs) = Len(tags)
         /\ \A i \in 1..Len(tags) : Entry(t, tags, time).addrs[i] = Addr(tags[i])
         /\ \A i \in 1..(Len(call[t].rest) + 1) : Entry(t, tags, time).objs[i] = Arg(call[t], i)
<1>. DEFINE objs == <<call[t].first>> \o call[t].rest
            addrs == [i \in DOMAIN tags |-> Addr(tags[i])]
<1>1. /\ call[t].kind \in Callbacks \cup {"NEW"}
      /\ call[t].first \in Object \cup {Null}
      /\ call[t].rest \in Seq(Object \cup {Null}) /\ Len(call[t].rest) \in Nat
  BY CallParts
<1>2. /\ objs \in Seq(Object \cup {Null})
      /\ \A i \in 1..(Len(call[t].rest) + 1) : objs[i] = Arg(call[t], i)
  <2>1. <<call[t].first>> \in Seq(Object \cup {Null}) /\ Len(<<call[t].first>>) = 1
    BY <1>1
  <2>2. /\ objs \in Seq(Object \cup {Null})
        /\ Len(objs) = 1 + Len(call[t].rest)
        /\ \A i \in 1..(1 + Len(call[t].rest)) :
             objs[i] = IF i <= 1 THEN <<call[t].first>>[i] ELSE call[t].rest[i - 1]
    BY <1>1, <2>1, ConcatProperties
  <2>. HIDE DEF objs
  <2>3. ASSUME NEW i \in 1..(Len(call[t].rest) + 1) PROVE objs[i] = Arg(call[t], i)
    <3>1. CASE i = 1
      BY <3>1, <1>1, <2>2 DEF Arg
    <3>2. CASE i # 1
      <4>1. i \in 1..(1 + Len(call[t].rest)) /\ ~(i <= 1)
        BY <1>1, <3>2
      <4>. QED
        BY <3>2, <4>1, <2>2 DEF Arg
    <3>. QED
      BY <3>1, <3>2
  <2>. QED
    BY <2>2, <2>3
<1>3. DOMAIN tags = 1..Len(tags) /\ Len(tags) \in Nat
  BY LenProperties
<1>4. addrs \in [1..Len(tags) -> Nat]
  BY <1>3, AddrType
<1>5. addrs \in Seq(Nat)
  BY <1>3, <1>4, SeqDef
<1>6. Len(addrs) = Len(tags)
  BY <1>3, <1>4
<1>7. \A i \in 1..Len(tags) : addrs[i] = Addr(tags[i])
  BY <1>3
<1>8. Entry(t, tags, time) =
        [kind |-> call[t].kind, time |-> time, by |-> t, objs |-> objs, addrs |-> addrs]
  BY DEF Entry
<1>. HIDE DEF objs, addrs
<1>. QED
  BY <1>1, <1>2, <1>5, <1>6, <1>7, <1>8 DEF EntryType

(* The tag get_tag finds for o. *)
Found(t, o, tag) ==
  o \in Object =>
    \/ localTags[t][o] # 0 /\ tag = localTags[t][o]
    \/ /\ slot0 \in Thread /\ localTags[t][o] = 0
       /\ tag = IF globalTags[slot0][o] # 0 THEN globalTags[slot0][o] ELSE NotSampled

(* get_tag finds a tag and leaves it in the thread's own environment. *)
LEMMA GetTag ==
  ASSUME TypeOK, EnvsFresh,
         NEW t \in Thread, NEW o \in Object \cup {Null}, NEW tag \in get_tag(t, o)
  PROVE  /\ tag \in Int
         /\ Found(t, o, tag)
         /\ Cached(t, o, tag) \in [Thread -> [Object -> Int]]
         /\ \A u \in Thread, p \in Object :
              Cached(t, o, tag)[u][p] = IF u = t /\ p = o THEN tag ELSE localTags[u][p]
<1>1. slot0 \in Thread \cup {NoThread} /\ global_tag \in Nat
  BY DEF TypeOK
<1>2. tag \in Int
  BY <1>1 DEF get_tag, SharedTag, GlobalTag, TypeOK, Tag, NotSampled, FirstTag
<1>3. Found(t, o, tag)
  BY <1>1, NullAssumption DEF get_tag, SharedTag, GlobalTag, TypeOK, Tag, Found, EnvsFresh
<1>4. localTags \in [Thread -> [Object -> Int]]
  BY DEF TypeOK, Tag
<1>. QED
  BY <1>2, <1>3, <1>4, NullAssumption DEF Cached

-----------------------------------------------------------------------------
(* What the steps inside callbacks do *)

(* Thread t is now at loc in the call c; other threads stay where they are. *)
MovesTo(t, loc, c) ==
  /\ pc' \in [Thread -> Locations] /\ call' \in [Thread -> CallType]
  /\ pc'[t] = loc /\ call'[t] = c
  /\ \A u \in Thread : u # t => pc'[u] = pc[u] /\ call'[u] = call[u]

(* An assignment to pc[t] and to call[t]. *)
LEMMA Moves ==
  ASSUME TypeOK, NEW t \in Thread, NEW loc \in Locations, NEW c \in CallType,
         pc' = [pc EXCEPT ![t] = loc], call' = [call EXCEPT ![t] = c]
  PROVE  MovesTo(t, loc, c)
BY DEF TypeOK, MovesTo

(* addTagNewRecord starts. *)
LEMMA PickedEffect ==
  ASSUME IInv, NEW t \in Thread, NEW o \in Object, Picked(t, o)
  PROVE  \E c \in CallType :
           /\ MovesTo(t, "count", c)
           /\ c.kind = "NEW" /\ c.first = o /\ c.rest = << >> /\ c.time = clock
<1>. DEFINE c == [kind |-> "NEW", first |-> o, rest |-> << >>, tags |-> << >>, time |-> clock]
<1>1. c \in CallType
  <2>1. clock \in Nat /\ << >> \in Seq(Object \cup {Null}) /\ << >> \in Seq(Int)
    BY DEF IInv, TypeOK
  <2>. QED
    BY <2>1, MakeCall
<1>2. c.kind = "NEW" /\ c.first = o /\ c.rest = << >> /\ c.time = clock
  OBVIOUS
<1>3. pc' = [pc EXCEPT ![t] = "count"] /\ call' = [call EXCEPT ![t] = c]
  BY DEF Picked, Goto
<1>. HIDE DEF c
<1>. QED
  BY <1>1, <1>2, <1>3, Moves DEF IInv, Locations

(* Another callback starts; objects others have not built have leaked. *)
LEMMA EntersEffect ==
  ASSUME IInv, NEW t \in Thread, Enters(t)
  PROVE  \E c \in CallType :
           /\ MovesTo(t, "check", c)
           /\ c.kind \in Callbacks
           /\ c.kind = "AAStore" => Len(c.rest) = 1
           /\ c.kind = "PutField" => c.time = clock /\ clock' = clock + 1
           /\ c.kind # "PutField" => c.time = 0 /\ clock' = clock
           /\ pc[t] = "idle"
           /\ escaped' \in SUBSET Object /\ escaped \subseteq escaped'
           /\ calls' \in [Thread -> Nat]
           /\ \A o \in Object \ escaped' :
                \A i \in 1..(Len(c.rest) + 1) :
                  Arg(c, i) = o => owner[o] = t \/ built[o]
           /\ UNCHANGED <<envVars, owner, built, global_tag, new_called, trace, failed>>
           /\ ~Crashed
<1>1. PICK kind \in Callbacks, first \in Object \cup {Null}, rest \in Seq(Object \cup {Null}) :
        /\ kind = "AAStore" => Len(rest) = 1
        /\ IF kind = "PutField"
           THEN Enter(t, kind, first, rest, clock) /\ clock' = clock + 1
           ELSE Enter(t, kind, first, rest, 0) /\ clock' = clock
  BY DEF Enters
<1>. DEFINE time == IF kind = "PutField" THEN clock ELSE 0
            c == [kind |-> kind, first |-> first, rest |-> rest, tags |-> << >>, time |-> time]
<1>2. Enter(t, kind, first, rest, time)
  BY <1>1
<1>3. time \in Nat
  BY DEF IInv, TypeOK
<1>4. c \in CallType
  <2>1. << >> \in Seq(Int) /\ kind \in Callbacks \cup {"NEW", "none"}
    OBVIOUS
  <2>. HIDE DEF time
  <2>. QED
    BY <1>3, <2>1, MakeCall
<1>5. c.kind = kind /\ c.first = first /\ c.rest = rest /\ c.time = time
  OBVIOUS
<1>6. /\ pc' = [pc EXCEPT ![t] = "check"] /\ call' = [call EXCEPT ![t] = c]
      /\ pc[t] = "idle"
      /\ UNCHANGED <<envVars, owner, built, global_tag, new_called, trace, failed>>
      /\ ~Crashed
  BY <1>2 DEF Enter, Goto
<1>7. calls' \in [Thread -> Nat]
  BY <1>2 DEF Enter, IInv, TypeOK
<1>8. escaped' = escaped \cup Leaked(t, {first} \cup {rest[i] : i \in DOMAIN rest})
  BY <1>2 DEF Enter
<1>. HIDE DEF c
<1>9. MovesTo(t, "check", c)
  BY <1>4, <1>6, Moves DEF IInv, Locations
<1>10. escaped' \in SUBSET Object /\ escaped \subseteq escaped'
  BY <1>8 DEF IInv, TypeOK, Leaked
<1>11. ASSUME NEW o \in Object \ escaped', NEW i \in 1..(Len(c.rest) + 1),
              Arg(c, i) = o
       PROVE  owner[o] = t \/ built[o]
  <2>1. DOMAIN rest = 1..Len(rest) /\ Len(rest) \in Nat
    BY LenProperties
  <2>2. i # 1 => i - 1 \in 1..Len(rest)
    BY <1>5, <2>1
  <2>3. o \in {first} \cup {rest[j] : j \in DOMAIN rest}
    BY <1>5, <1>11, <2>1, <2>2 DEF Arg
  <2>. QED
    BY <2>3, <1>8 DEF Leaked
<1>. QED
  BY <1>1, <1>4, <1>5, <1>6, <1>7, <1>9, <1>10, <1>11

(* The tag is counted and the NEW record added. *)
LEMMA CountEffect ==
  ASSUME IInv, NEW t \in Thread, CountTag(t)
  PROVE  \E c \in CallType, n \in EntryType :
           /\ MovesTo(t, "check", c)
           /\ c.kind = "NEW" /\ c.first = call[t].first /\ c.rest = call[t].rest
           /\ c.tags = <<global_tag>> /\ c.time = call[t].time
           /\ call[t].kind = "NEW"
           /\ trace' = trace \cup {n}
           /\ n.kind = "NEW" /\ n.time = call[t].time /\ n.objs[1] = call[t].first
           /\ Len(n.addrs) = 1 /\ n.addrs[1] = Addr(global_tag)
<1>. DEFINE c == [call[t] EXCEPT !.tags = <<global_tag>>]
            n == Entry(t, <<global_tag>>, call[t].time)
<1>0. TypeOK /\ pc[t] = "count" /\ call[t].kind = "NEW"
  BY DEF IInv, CountTag, CallShape, Shape
<1>1. call[t] \in CallType /\ Len(call[t].rest) \in Nat /\ call[t].time \in Nat
  BY <1>0, CallParts
<1>2. global_tag \in Int /\ <<global_tag>> \in Seq(Int) /\ Len(<<global_tag>>) = 1
  BY <1>0 DEF TypeOK
<1>3. /\ c \in CallType
      /\ c.kind = "NEW" /\ c.first = call[t].first /\ c.rest = call[t].rest
      /\ c.tags = <<global_tag>> /\ c.time = call[t].time
  BY <1>0, <1>1, <1>2 DEF CallType, Tag
<1>4. /\ n \in EntryType
      /\ n.kind = "NEW" /\ n.time = call[t].time
      /\ Len(n.addrs) = 1
      /\ n.addrs[1] = Addr(global_tag)
      /\ n.objs[1] = call[t].first
  <2>1. /\ n \in EntryType
        /\ n.kind = call[t].kind /\ n.time = call[t].time
        /\ Len(n.addrs) = Len(<<global_tag>>)
        /\ \A i \in 1..Len(<<global_tag>>) : n.addrs[i] = Addr(<<global_tag>>[i])
        /\ \A i \in 1..(Len(call[t].rest) + 1) : n.objs[i] = Arg(call[t], i)
    BY <1>0, <1>1, <1>2, EntryParts, Zenon
  <2>2. 1 \in 1..Len(<<global_tag>>) /\ 1 \in 1..(Len(call[t].rest) + 1) /\ <<global_tag>>[1] = global_tag
    BY <1>1, <1>2
  <2>. HIDE DEF n
  <2>. QED
    BY <2>1, <2>2, <1>0, <1>2 DEF Arg
<1>5. /\ call' = [call EXCEPT ![t] = c] /\ pc' = [pc EXCEPT ![t] = "check"]
      /\ trace' = trace \cup {n}
  BY DEF CountTag, Goto
<1>. HIDE DEF c, n
<1>6. MovesTo(t, "check", c)
  BY <1>0, <1>3, <1>5, Moves DEF Locations
<1>. QED
  BY <1>0, <1>3, <1>4, <1>5, <1>6

(* The tag of the object is stored in both environments. *)
LEMMA SetEffect ==
  ASSUME IInv, NEW t \in Thread, SetTag(t)
  PROVE  LET o == call[t].first
             tag == call[t].tags[1]
         IN  /\ o \in Object /\ tag \in Int /\ TagOf(o, tag) /\ slot0 \in Thread
             /\ owner[o] = t /\ ~built[o]
             /\ MovesTo(t, "called", call[t])
             /\ localTags' \in [Thread -> [Object -> Int]]
             /\ \A u \in Thread, p \in Object :
                  localTags'[u][p] = IF u = t /\ p = o THEN tag ELSE localTags[u][p]
             /\ globalTags' \in [Thread -> [Object -> Int]]
             /\ \A u \in Thread, p \in Object :
                  globalTags'[u][p] = IF canTag[u] /\ u = slot0 /\ p = o THEN tag
                                      ELSE globalTags[u][p]
<1>. DEFINE o == call[t].first
            tag == call[t].tags[1]
<1>0. TypeOK /\ pc[t] = "set" /\ slot0 \in Thread /\ call[t].kind = "NEW"
  BY DEF IInv, SetTag, CallShape, Shape, TypeOK
<1>1. o \in Object /\ owner[o] = t /\ ~built[o]
  BY <1>0 DEF IInv, CallShape, Shape
<1>2. Len(call[t].tags) = 1 /\ TagOf(o, tag)
  BY <1>0 DEF IInv, TagsKnown, Known
<1>3. tag \in Int
  <2>1. call[t].tags \in Seq(Int)
    BY <1>0, CallParts
  <2>. QED
    BY <2>1, <1>2, ElementOfSeq
<1>4. call[t] \in CallType /\ call' = call /\ call \in [Thread -> CallType]
  BY <1>0 DEF TypeOK, SetTag
<1>5. pc' = [pc EXCEPT ![t] = "called"]
  BY DEF SetTag, Goto
<1>6. MovesTo(t, "called", call[t])
  BY <1>0, <1>4, <1>5 DEF TypeOK, Locations, MovesTo
<1>7. /\ localTags \in [Thread -> [Object -> Int]]
      /\ globalTags \in [Thread -> [Object -> Int]]
  BY <1>0 DEF TypeOK, Tag
<1>8. /\ localTags' = [localTags EXCEPT ![t][o] = tag]
      /\ globalTags' = IF canTag[slot0] THEN [globalTags EXCEPT ![slot0][o] = tag] ELSE globalTags
  BY DEF SetTag
<1>. HIDE DEF o, tag
<1>9. /\ localTags' \in [Thread -> [Object -> Int]]
      /\ \A u \in Thread, p \in Object :
           localTags'[u][p] = IF u = t /\ p = o THEN tag ELSE localTags[u][p]
  BY <1>1, <1>3, <1>7, <1>8
<1>10. /\ globalTags' \in [Thread -> [Object -> Int]]
       /\ \A u \in Thread, p \in Object :
            globalTags'[u][p] = IF canTag[u] /\ u = slot0 /\ p = o THEN tag
                                ELSE globalTags[u][p]
  BY <1>0, <1>1, <1>3, <1>7, <1>8
<1>. QED
  BY <1>0, <1>1, <1>2, <1>3, <1>6, <1>9, <1>10 DEF o, tag

(* addTagNewRecord ends. *)
LEMMA ReturnsEffect ==
  ASSUME IInv, NEW t \in Thread, NewReturns(t)
  PROVE  /\ MovesTo(t, "idle", NoCall)
         /\ pc[t] = "called" /\ call[t].kind = "NEW" /\ call[t].first \in Object
         /\ built' = [built EXCEPT ![call[t].first] = TRUE]
<1>1. pc[t] = "called" /\ call[t].kind = "NEW" /\ call[t].first \in Object
  BY DEF NewReturns, IInv, CallShape, Shape
<1>2. MovesTo(t, "idle", NoCall)
  BY NoCallType, Moves DEF NewReturns, Goto, IInv, Locations
<1>. QED
  BY <1>1, <1>2 DEF NewReturns

(* No shared environment gets a tag; one that is made anew is empty. *)
GlobalKept ==
  \A u \in Thread, p \in Object : globalTags'[u][p] = 0 \/ globalTags'[u][p] = globalTags[u][p]

(* init_jvmti goes on, or the process ends. *)
LEMMA InitEffect ==
  ASSUME IInv, NEW t \in Thread, InitSteps(t)
  PROVE  \E loc \in {"store", "capable", "lookup", "set", "crashed"} :
           /\ MovesTo(t, loc, call[t])
           /\ pc[t] \in {"check", "store", "capable", "lookup", "finish", "set"}
           /\ call[t].kind \in Callbacks \cup {"NEW"}
           /\ loc = "lookup" => call[t].kind \in Callbacks
           /\ loc = "set" => call[t].kind = "NEW"
           /\ GlobalKept
           /\ localTags' = localTags /\ owner' = owner /\ built' = built /\ escaped' = escaped
           /\ clock' = clock /\ trace' = trace /\ global_tag' = global_tag /\ call' = call
<1>. USE DEF InitSteps
<1>0. TypeOK
  BY DEF IInv
<1>1. pc \in [Thread -> Locations] /\ call \in [Thread -> CallType]
  BY <1>0 DEF TypeOK
<1>2. /\ pc[t] \in {"check", "store", "capable", "lookup", "finish", "set"}
      /\ localTags' = localTags /\ owner' = owner /\ built' = built /\ escaped' = escaped
      /\ clock' = clock /\ trace' = trace /\ global_tag' = global_tag /\ call' = call
  BY DEF InitCheck, InitStore, InitCapable, InitStoreFails, OwnEnvFails, UseNull,
         envVars, heapVars
<1>3. call[t].kind \in Callbacks \cup {"NEW"}
  BY <1>0, <1>2, CallParts DEF IInv, CallShape, Shape
<1>4. PICK loc \in {"store", "capable", "lookup", "set", "crashed"} :
        /\ pc' = [pc EXCEPT ![t] = loc]
        /\ loc = "lookup" => call[t].kind # "NEW"
        /\ loc = "set" => call[t].kind = "NEW"
  BY DEF InitCheck, InitStore, InitCapable, InitStoreFails, OwnEnvFails, UseNull, Goto, AfterInit
<1>5. GlobalKept
  <2>1. CASE InitStore(t)
    <3>1. globalTags' = [globalTags EXCEPT ![t] = [o \in Object |-> 0]]
      BY <2>1 DEF InitStore
    <3>. QED
      BY <1>0, <3>1 DEF TypeOK, GlobalKept
  <2>2. CASE ~InitStore(t)
    <3>1. globalTags' = globalTags
      BY <2>2 DEF InitCheck, InitCapable, InitStoreFails, OwnEnvFails, UseNull, envVars
    <3>. QED
      BY <3>1 DEF GlobalKept
  <2>. QED
    BY <2>1, <2>2
<1>. QED
  BY <1>1, <1>2, <1>3, <1>4, <1>5 DEF MovesTo, Locations

(* What get_tag leaves in the caches. *)
CachesTag(t, o, tag) ==
  /\ tag \in Int /\ Found(t, o, tag)
  /\ localTags' \in [Thread -> [Object -> Int]]
  /\ \A u \in Thread, p \in Object :
       localTags'[u][p] = IF u = t /\ p = o THEN tag ELSE localTags[u][p]

(* The deciding lookup: the callback goes on, or ends. *)
LEMMA FirstEffect ==
  ASSUME IInv, NEW t \in Thread, LookupFirst(t)
  PROVE  \E tag \in Int, c \in CallType :
           /\ CachesTag(t, call[t].first, tag)
           /\ pc[t] = "lookup" /\ call[t].kind \in Callbacks
           /\ \/ /\ tag > 0
                 /\ MovesTo(t, IF c.kind = "AAStore" THEN "stamp" ELSE "finish", c)
                 /\ c.kind = call[t].kind /\ c.first = call[t].first /\ c.rest = call[t].rest
                 /\ c.tags = <<tag>> /\ c.time = call[t].time
              \/ MovesTo(t, "idle", c) /\ c = NoCall
<1>0. /\ TypeOK /\ EnvsFresh
      /\ pc[t] = "lookup" /\ call[t].kind \in Callbacks /\ call[t].first \in Object \cup {Null}
      /\ call[t].time \in Nat
  BY CallParts DEF IInv, LookupFirst, CallShape, Shape
<1>1. PICK tag \in get_tag(t, call[t].first) :
        /\ localTags' = Cached(t, call[t].first, tag)
        /\ IF is_sampled_object(tag)
           THEN /\ call' = [call EXCEPT ![t].tags = <<tag>>]
                /\ Goto(t, IF call[t].kind = "AAStore" THEN "stamp" ELSE "finish")
           ELSE call' = [call EXCEPT ![t] = NoCall] /\ Goto(t, "idle")
  BY DEF LookupFirst
<1>2. CachesTag(t, call[t].first, tag)
  BY <1>0, <1>1, GetTag DEF CachesTag
<1>3. tag \in Int
  BY <1>2 DEF CachesTag
<1>4. CASE tag > 0
  <2>. DEFINE c == [call[t] EXCEPT !.tags = <<tag>>]
              loc == IF c.kind = "AAStore" THEN "stamp" ELSE "finish"
  <2>1. <<tag>> \in Seq(Int)
    BY <1>3
  <2>2. /\ c \in CallType
        /\ c.kind = call[t].kind /\ c.first = call[t].first /\ c.rest = call[t].rest
        /\ c.tags = <<tag>> /\ c.time = call[t].time
    BY <1>0, <2>1 DEF TypeOK, CallType, Tag
  <2>3. call' = [call EXCEPT ![t] = c]
        /\ pc' = [pc EXCEPT ![t] = IF call[t].kind = "AAStore" THEN "stamp" ELSE "finish"]
    BY <1>1, <1>4 DEF is_sampled_object, Goto
  <2>. HIDE DEF c
  <2>4. loc \in Locations /\ pc' = [pc EXCEPT ![t] = loc]
    BY <2>2, <2>3 DEF Locations
  <2>5. MovesTo(t, loc, c)
    <3>. HIDE DEF loc
    <3>. QED
      BY <1>0, <2>2, <2>3, <2>4, Moves
  <2>. QED
    BY <1>0, <1>2, <1>3, <1>4, <2>2, <2>5
<1>5. CASE ~(tag > 0)
  <2>1. call' = [call EXCEPT ![t] = NoCall] /\ pc' = [pc EXCEPT ![t] = "idle"]
    BY <1>1, <1>5 DEF is_sampled_object, Goto
  <2>2. MovesTo(t, "idle", NoCall)
    BY <1>0, <2>1, NoCallType, Moves DEF Locations
  <2>. QED
    BY <1>0, <1>2, <1>3, <2>2, NoCallType
<1>. QED
  BY <1>4, <1>5

(* AASTORE reads the clock. *)
LEMMA StampEffect ==
  ASSUME IInv, NEW t \in Thread, Stamp(t)
  PROVE  \E c \in CallType :
           /\ pc[t] = "stamp" /\ call[t].kind = "AAStore" /\ Len(call[t].tags) = 1
           /\ MovesTo(t, "finish", c)
           /\ c.kind = call[t].kind /\ c.first = call[t].first /\ c.rest = call[t].rest
           /\ c.tags = call[t].tags /\ c.time = clock /\ clock' = clock + 1
<1>. DEFINE c == [call[t] EXCEPT !.time = clock]
<1>0. /\ TypeOK /\ pc[t] = "stamp" /\ call[t].kind = "AAStore" /\ Len(call[t].tags) = 1
      /\ clock \in Nat /\ call[t] \in CallType
  BY CallParts DEF IInv, Stamp, CallShape, Shape, TypeOK
<1>1. /\ c \in CallType
      /\ c.kind = call[t].kind /\ c.first = call[t].first /\ c.rest = call[t].rest
      /\ c.tags = call[t].tags /\ c.time = clock
  BY <1>0 DEF CallType, Tag
<1>2. /\ call' = [call EXCEPT ![t] = c] /\ pc' = [pc EXCEPT ![t] = "finish"]
      /\ clock' = clock + 1
  BY DEF Stamp, Goto
<1>. HIDE DEF c
<1>3. MovesTo(t, "finish", c)
  BY <1>0, <1>1, <1>2, Moves DEF Locations
<1>. QED
  BY <1>0, <1>1, <1>2, <1>3

(* One more lookup: a tag more. *)
LEMMA NextEffect ==
  ASSUME IInv, NEW t \in Thread, LookupNext(t)
  PROVE  \E tag \in Int, c \in CallType :
           /\ pc[t] = "finish" /\ call[t].kind \in Callbacks
           /\ Len(call[t].tags) \in 1..Len(call[t].rest)
           /\ CachesTag(t, Arg(call[t], Len(call[t].tags) + 1), tag)
           /\ MovesTo(t, "finish", c)
           /\ c.kind = call[t].kind /\ c.first = call[t].first /\ c.rest = call[t].rest
           /\ c.tags = Append(call[t].tags, tag) /\ c.time = call[t].time
<1>. DEFINE m == Len(call[t].tags)
            o == call[t].rest[m]
<1>0. /\ TypeOK /\ EnvsFresh
      /\ pc[t] = "finish" /\ call[t].kind \in Callbacks
      /\ call[t].rest \in Seq(Object \cup {Null}) /\ Len(call[t].rest) \in Nat
      /\ call[t].tags \in Seq(Int) /\ m \in Nat
  BY CallParts DEF IInv, LookupNext, CallShape, Shape, TypeOK
<1>1. m \in 1..Len(call[t].rest)
  BY <1>0 DEF IInv, CallShape, Shape, LookupNext
<1>2. o \in Object \cup {Null} /\ Arg(call[t], m + 1) = o
  <2>1. o \in Object \cup {Null}
    BY <1>0, <1>1, ElementOfSeq
  <2>2. m + 1 # 1 /\ m + 1 - 1 = m
    BY <1>0, <1>1
  <2>. QED
    BY <2>1, <2>2 DEF Arg
<1>3. PICK tag \in get_tag(t, o) :
        /\ localTags' = Cached(t, o, tag)
        /\ call' = [call EXCEPT ![t].tags = Append(@, tag)]
  BY DEF LookupNext, NextArg
<1>4. CachesTag(t, o, tag)
  BY <1>0, <1>2, <1>3, GetTag DEF CachesTag
<1>5. tag \in Int
  BY <1>4 DEF CachesTag
<1>6. Append(call[t].tags, tag) \in Seq(Int)
  BY <1>0, <1>5
<1>. DEFINE c == [call[t] EXCEPT !.tags = Append(call[t].tags, tag)]
<1>7. /\ c \in CallType
      /\ c.kind = call[t].kind /\ c.first = call[t].first /\ c.rest = call[t].rest
      /\ c.tags = Append(call[t].tags, tag) /\ c.time = call[t].time
  BY <1>0, <1>5, <1>6 DEF TypeOK, CallType, Tag
<1>8. call' = [call EXCEPT ![t] = c]
  BY <1>0, <1>3 DEF TypeOK, CallType
<1>9. pc' = pc /\ pc \in [Thread -> Locations] /\ call \in [Thread -> CallType]
  BY <1>0 DEF LookupNext, TypeOK
<1>. HIDE DEF c
<1>10. MovesTo(t, "finish", c)
  BY <1>0, <1>7, <1>8, <1>9 DEF MovesTo
<1>. QED
  BY <1>0, <1>1, <1>2, <1>4, <1>5, <1>7, <1>10

(* The record is added. *)
LEMMA RecordEffect ==
  ASSUME IInv, NEW t \in Thread, AddRecord(t)
  PROVE  \E r \in EntryType :
           /\ MovesTo(t, "idle", NoCall)
           /\ pc[t] = "finish" /\ call[t].kind \in Callbacks
           /\ Len(call[t].tags) = Len(call[t].rest) + 1
           /\ trace' = trace \cup {r}
           /\ r.kind = call[t].kind
           /\ Len(r.addrs) = Len(call[t].tags)
           /\ \A i \in 1..Len(call[t].tags) :
                r.addrs[i] = Addr(call[t].tags[i]) /\ r.objs[i] = Arg(call[t], i)
           /\ r.kind \in {"PutField", "AAStore"} => r.time = call[t].time /\ clock' = clock
           /\ r.kind \notin {"PutField", "AAStore"} => r.time = clock /\ clock' = clock + 1
<1>. DEFINE time == IF call[t].kind \notin {"PutField", "AAStore"} THEN clock ELSE call[t].time
            r == Entry(t, call[t].tags, time)
<1>0. /\ TypeOK
      /\ pc[t] = "finish" /\ call[t].kind \in Callbacks
      /\ call[t].tags \in Seq(Int) /\ Len(call[t].tags) \in Nat
      /\ Len(call[t].rest) \in Nat
      /\ call[t].time \in Nat /\ clock \in Nat
  BY CallParts DEF IInv, AddRecord, CallShape, Shape, TypeOK
<1>1. Len(call[t].tags) = Len(call[t].rest) + 1
  BY <1>0 DEF IInv, CallShape, Shape, AddRecord
<1>2. time \in Nat /\ call[t].kind # "none"
  BY <1>0 DEF Callbacks
<1>3. /\ trace' = trace \cup {r}
      /\ clock' = IF call[t].kind \notin {"PutField", "AAStore"} THEN clock + 1 ELSE clock
      /\ call' = [call EXCEPT ![t] = NoCall] /\ pc' = [pc EXCEPT ![t] = "idle"]
  BY DEF AddRecord, Goto
<1>. HIDE DEF time
<1>4. /\ r \in EntryType
      /\ r.kind = call[t].kind /\ r.time = time
      /\ Len(r.addrs) = Len(call[t].tags)
      /\ \A i \in 1..Len(call[t].tags) : r.addrs[i] = Addr(call[t].tags[i])
      /\ \A i \in 1..(Len(call[t].rest) + 1) : r.objs[i] = Arg(call[t], i)
  BY <1>0, <1>2, EntryParts, Zenon
<1>5. MovesTo(t, "idle", NoCall)
  BY <1>0, <1>3, NoCallType, Moves DEF Locations
<1>. HIDE DEF r
<1>. QED
  BY <1>0, <1>1, <1>3, <1>4, <1>5 DEF time

-----------------------------------------------------------------------------
(* The invariant, part by part *)

(* Every action keeps the types. *)
LEMMA TypeStep ==
  ASSUME IInv, [Next]_vars
  PROVE  TypeOK'
<1>0. TypeOK /\ EnvBeforeUse
  BY DEF IInv
<1>. USE DEF TypeOK, Tag, envVars, heapVars
<1>1. ASSUME NEW t \in Thread, NEW o \in Object, Allocate(t, o)
      PROVE  TypeOK'
  BY <1>0, <1>1 DEF Allocate
<1>2. ASSUME NEW t \in Thread, NEW o \in Object, NotPicked(t, o)
      PROVE  TypeOK'
  <2>1. built' \in [Object -> BOOLEAN]
    BY <1>0, <1>2 DEF NotPicked
  <2>. QED
    BY <1>0, <1>2, <2>1 DEF NotPicked
<1>3. ASSUME NEW t \in Thread, NEW o \in Object, Picked(t, o)
      PROVE  TypeOK'
  <2>1. pc' \in [Thread -> Locations] /\ call' \in [Thread -> CallType]
    BY <1>3, PickedEffect DEF MovesTo
  <2>. QED
    BY <1>0, <1>3, <2>1 DEF Picked
<1>4. ASSUME NEW t \in Thread, Enters(t)
      PROVE  TypeOK'
  <2>1. /\ pc' \in [Thread -> Locations] /\ call' \in [Thread -> CallType]
        /\ escaped' \in SUBSET Object
        /\ calls' \in [Thread -> Nat]
        /\ clock' \in {clock, clock + 1}
        /\ UNCHANGED <<envVars, owner, built, global_tag, new_called, trace, failed>>
    BY <1>4, EntersEffect DEF MovesTo
  <2>2. clock' \in Nat
    BY <1>0, <2>1
  <2>. QED
    BY <1>0, <2>1, <2>2
<1>5. ASSUME NEW t \in Thread, CountTag(t)
      PROVE  TypeOK'
  <2>1. /\ pc' \in [Thread -> Locations] /\ call' \in [Thread -> CallType]
        /\ \E n \in EntryType : trace' = trace \cup {n}
    BY <1>5, CountEffect DEF MovesTo
  <2>. QED
    BY <1>0, <1>5, <2>1 DEF CountTag
<1>6. ASSUME NEW t \in Thread, SetTag(t)
      PROVE  TypeOK'
  BY <1>0, <1>6, SetEffect DEF SetTag, MovesTo
<1>7. ASSUME NEW t \in Thread, NewReturns(t)
      PROVE  TypeOK'
  BY <1>0, <1>7, ReturnsEffect DEF NewReturns, MovesTo
<1>8. ASSUME NEW t \in Thread, InitSteps(t)
      PROVE  TypeOK'
  <2>1. /\ pc' \in [Thread -> Locations] /\ call' \in [Thread -> CallType]
        /\ localTags' = localTags /\ owner' = owner /\ built' = built /\ escaped' = escaped
        /\ clock' = clock /\ trace' = trace /\ global_tag' = global_tag
    BY <1>8, InitEffect DEF MovesTo
  <2>2. new_called' = new_called /\ calls' = calls
    BY <1>8 DEF InitSteps, InitCheck, InitStore, InitCapable, InitStoreFails, OwnEnvFails, UseNull
  <2>3. slot0' \in Thread \cup {NoThread} /\ failed' \subseteq Thread
    BY <1>0, <1>8 DEF InitSteps, InitCheck, InitStore, InitCapable, InitStoreFails, OwnEnvFails, UseNull
  <2>4. canTag' \in [Thread -> BOOLEAN] /\ localEnv' \in [Thread -> BOOLEAN]
    BY <1>0, <1>8 DEF InitSteps, InitCheck, InitStore, InitCapable, InitStoreFails, OwnEnvFails, UseNull
  <2>5. globalTags' \in [Thread -> [Object -> Int]]
    <3>1. CASE InitStore(t)
      <4>1. [o \in Object |-> 0] \in [Object -> Int]
        OBVIOUS
      <4>2. globalTags' = [globalTags EXCEPT ![t] = [o \in Object |-> 0]]
        BY <3>1 DEF InitStore
      <4>. QED
        BY <1>0, <4>1, <4>2
    <3>2. CASE ~InitStore(t)
      BY <1>0, <1>8, <3>2
         DEF InitSteps, InitCheck, InitCapable, InitStoreFails, OwnEnvFails, UseNull
    <3>. QED
      BY <3>1, <3>2
  <2>. QED
    BY <1>0, <2>1, <2>2, <2>3, <2>4, <2>5
<1>9. ASSUME NEW t \in Thread, Stamp(t)
      PROVE  TypeOK'
  <2>1. /\ pc' \in [Thread -> Locations] /\ call' \in [Thread -> CallType]
        /\ clock' = clock + 1
    BY <1>9, StampEffect DEF MovesTo
  <2>. QED
    BY <1>0, <1>9, <2>1 DEF Stamp
<1>11. ASSUME NEW t \in Thread, LookupFirst(t)
      PROVE  TypeOK'
  <2>1. /\ pc' \in [Thread -> Locations] /\ call' \in [Thread -> CallType]
        /\ localTags' \in [Thread -> [Object -> Int]]
    BY <1>11, FirstEffect DEF MovesTo, CachesTag
  <2>. QED
    BY <1>0, <1>11, <2>1 DEF LookupFirst
<1>12. ASSUME NEW t \in Thread, LookupNext(t)
      PROVE  TypeOK'
  <2>1. /\ pc' \in [Thread -> Locations] /\ call' \in [Thread -> CallType]
        /\ localTags' \in [Thread -> [Object -> Int]]
    BY <1>12, NextEffect DEF MovesTo, CachesTag
  <2>. QED
    BY <1>0, <1>12, <2>1 DEF LookupNext
<1>13. ASSUME NEW t \in Thread, AddRecord(t)
      PROVE  TypeOK'
  <2>1. /\ pc' \in [Thread -> Locations] /\ call' \in [Thread -> CallType]
        /\ clock' \in {clock, clock + 1}
        /\ \E r \in EntryType : trace' = trace \cup {r}
    BY <1>13, RecordEffect DEF MovesTo
  <2>. QED
    BY <1>0, <1>13, <2>1 DEF AddRecord
<1>14. ASSUME UNCHANGED vars
      PROVE  TypeOK'
  BY <1>0, <1>14 DEF vars
<1>. QED
  BY <1>1, <1>2, <1>3, <1>4, <1>5, <1>6, <1>7, <1>8, <1>9, <1>11, <1>12, <1>13, <1>14, StepCases

(* A step of t outside init_jvmti leaves the environments alone. *)
LEMMA EnvFrame ==
  ASSUME EnvBeforeUse, NEW t \in Thread, NEW loc, NEW c, MovesTo(t, loc, c),
         slot0' = slot0, failed' = failed, localEnv' = localEnv, ~Crashed,
         failed \subseteq Thread,
         pc[t] # "capable", loc # "crashed",
         loc \in InUse \cup {"capable"} => pc[t] \in InUse
  PROVE  EnvBeforeUse'
<1>1. pc[t] # "crashed" /\ ~Crashed'
  BY DEF Crashed, MovesTo
<1>2. \A u \in Thread : pc'[u] \in InUse => localEnv[u]
  BY DEF EnvBeforeUse, MovesTo, InUse
<1>3. ASSUME NEW u \in Thread, pc'[u] \in InUse \cup {"capable"}, slot0 = NoThread
      PROVE  \E v \in failed : pc'[v] \in {"capable", "crashed"}
  <2>1. \E w \in Thread : pc[w] \in InUse \cup {"capable"}
    BY <1>3 DEF MovesTo, InUse
  <2>2. PICK v \in failed : pc[v] \in {"capable", "crashed"}
    BY <1>3, <2>1 DEF EnvBeforeUse
  <2>3. v # t
    BY <1>1, <2>2
  <2>. QED
    BY <2>2, <2>3 DEF MovesTo
<1>. QED
  BY <1>1, <1>2, <1>3 DEF EnvBeforeUse

(* Environments are set before they are used, unless GetEnv failed. *)
LEMMA EnvStep ==
  ASSUME IInv, [Next]_vars
  PROVE  EnvBeforeUse'
<1>0. TypeOK /\ EnvBeforeUse /\ failed \subseteq Thread
  BY DEF IInv, TypeOK
<1>. USE DEF envVars, heapVars
<1>1. ASSUME NEW t \in Thread, NEW o \in Object, Allocate(t, o) \/ NotPicked(t, o)
      PROVE  EnvBeforeUse'
  BY <1>0, <1>1 DEF Allocate, NotPicked, EnvBeforeUse, Crashed
<1>2. ASSUME NEW t \in Thread, NEW o \in Object, Picked(t, o)
      PROVE  EnvBeforeUse'
  BY <1>0, <1>2, PickedEffect, EnvFrame DEF Picked, InUse
<1>3. ASSUME NEW t \in Thread, Enters(t)
      PROVE  EnvBeforeUse'
  BY <1>0, <1>3, EntersEffect, EnvFrame DEF InUse
<1>4. ASSUME NEW t \in Thread, CountTag(t)
      PROVE  EnvBeforeUse'
  BY <1>0, <1>4, CountEffect, EnvFrame DEF CountTag, InUse
<1>5. ASSUME NEW t \in Thread, SetTag(t)
      PROVE  EnvBeforeUse'
  BY <1>0, <1>5, SetEffect, EnvFrame DEF SetTag, InUse
<1>6. ASSUME NEW t \in Thread, NewReturns(t)
      PROVE  EnvBeforeUse'
  BY <1>0, <1>6, ReturnsEffect, EnvFrame DEF NewReturns, InUse
<1>7. ASSUME NEW t \in Thread, InitSteps(t)
      PROVE  EnvBeforeUse'
  <2>1. PICK loc \in {"store", "capable", "lookup", "set", "crashed"} :
          MovesTo(t, loc, call[t])
    BY <1>7, InitEffect
  <2>2. CASE InitCheck(t) /\ slot0 = NoThread
    <3>1. /\ UNCHANGED <<slot0, failed, localEnv>> /\ ~Crashed /\ pc[t] = "check"
          /\ pc' = [pc EXCEPT ![t] = "store"]
      BY <2>2 DEF InitCheck, Goto
    <3>2. loc = "store"
      BY <1>0, <2>1, <3>1 DEF TypeOK, MovesTo
    <3>. QED
      BY <1>0, <2>1, <3>1, <3>2, EnvFrame DEF InUse
  <2>3. CASE (InitCheck(t) /\ slot0 # NoThread) \/ InitCapable(t)
    <3>1. /\ slot0' = slot0 /\ slot0 # NoThread /\ failed' = failed
          /\ localEnv' = [localEnv EXCEPT ![t] = TRUE] /\ ~Crashed
          /\ pc' = [pc EXCEPT ![t] = AfterInit(t)]
      BY <2>3 DEF InitCheck, InitCapable, Goto
    <3>2. localEnv'[t] /\ \A u \in Thread : u # t => localEnv'[u] = localEnv[u]
      BY <1>0, <3>1 DEF TypeOK
    <3>3. pc'[t] # "crashed" /\ \A u \in Thread : u # t => pc'[u] = pc[u]
      BY <1>0, <3>1 DEF TypeOK, AfterInit
    <3>. QED
      BY <1>0, <3>1, <3>2, <3>3 DEF EnvBeforeUse, Crashed
  <2>4. CASE InitStore(t)
    <3>1. slot0' = t /\ UNCHANGED <<failed, localEnv>> /\ ~Crashed /\ pc' = [pc EXCEPT ![t] = "capable"]
      BY <2>4 DEF InitStore, Goto
    <3>. QED
      BY <1>0, <3>1, NoThreadAssumption DEF EnvBeforeUse, Crashed, TypeOK, InUse
  <2>5. CASE InitStoreFails(t)
    <3>1. /\ failed' = failed \cup {t} /\ localEnv' = localEnv /\ ~Crashed
          /\ pc' = [pc EXCEPT ![t] = "capable"]
      BY <2>5 DEF InitStoreFails, Goto
    <3>. QED
      BY <1>0, <3>1 DEF EnvBeforeUse, Crashed, TypeOK, InUse
  <2>6. CASE OwnEnvFails(t)
    <3>1. /\ slot0' = slot0 /\ slot0 # NoThread /\ failed' = failed \cup {t}
          /\ localEnv' = localEnv /\ pc' = [pc EXCEPT ![t] = "crashed"]
      BY <2>6 DEF OwnEnvFails, Goto
    <3>. QED
      BY <1>0, <3>1 DEF EnvBeforeUse, Crashed, TypeOK, InUse
  <2>7. CASE UseNull(t)
    <3>1. /\ slot0' = slot0 /\ slot0 = NoThread /\ failed' = failed
          /\ localEnv' = localEnv /\ pc' = [pc EXCEPT ![t] = "crashed"]
          /\ pc[t] \in InUse \cup {"capable"}
      BY <2>7 DEF UseNull, Goto, InUse
    <3>2. PICK v \in failed : pc[v] \in {"capable", "crashed"}
      BY <1>0, <3>1 DEF EnvBeforeUse
    <3>3. v \in failed' /\ pc'[v] \in {"capable", "crashed"}
      BY <1>0, <3>1, <3>2 DEF TypeOK
    <3>4. \A u \in Thread : pc'[u] \in InUse => localEnv'[u]
      BY <1>0, <3>1 DEF TypeOK, EnvBeforeUse, InUse
    <3>. QED
      BY <3>3, <3>4 DEF EnvBeforeUse
  <2>. QED
    BY <1>7, <2>2, <2>3, <2>4, <2>5, <2>6, <2>7 DEF InitSteps
<1>8. ASSUME NEW t \in Thread, LookupFirst(t)
      PROVE  EnvBeforeUse'
  BY <1>0, <1>8, FirstEffect, EnvFrame DEF LookupFirst, InUse
<1>9. ASSUME NEW t \in Thread, Stamp(t)
      PROVE  EnvBeforeUse'
  BY <1>0, <1>9, StampEffect, EnvFrame DEF Stamp, InUse
<1>10. ASSUME NEW t \in Thread, LookupNext(t)
      PROVE  EnvBeforeUse'
  BY <1>0, <1>10, NextEffect, EnvFrame DEF LookupNext, InUse
<1>11. ASSUME NEW t \in Thread, AddRecord(t)
      PROVE  EnvBeforeUse'
  BY <1>0, <1>11, RecordEffect, EnvFrame DEF AddRecord, InUse
<1>12. ASSUME UNCHANGED vars
      PROVE  EnvBeforeUse'
  BY <1>0, <1>12 DEF vars, EnvBeforeUse, Crashed
<1>. QED
  BY <1>1, <1>2, <1>3, <1>4, <1>5, <1>6, <1>7, <1>8, <1>9, <1>10, <1>11, <1>12, StepCases

(* A step of t inside a callback leaves the shape of the others alone. *)
LEMMA ShapeFrame ==
  ASSUME CallShape, NEW t \in Thread, NEW loc, NEW c, MovesTo(t, loc, c),
         owner' = owner, built' = built, Shape(t, loc, c)
  PROVE  CallShape'
BY DEF CallShape, Shape, MovesTo

(* Callbacks keep their shape. *)
LEMMA ShapeStep ==
  ASSUME IInv, [Next]_vars
  PROVE  CallShape'
<1>0. TypeOK /\ CallShape
  BY DEF IInv
<1>. USE DEF heapVars
<1>1. ASSUME NEW t \in Thread, NEW o \in Object, Allocate(t, o)
      PROVE  CallShape'
  BY <1>0, <1>1, NoThreadAssumption DEF Allocate, TypeOK, CallShape, Shape
<1>2. ASSUME NEW t \in Thread, NEW o \in Object, NotPicked(t, o)
      PROVE  CallShape'
  BY <1>0, <1>2 DEF NotPicked, TypeOK, CallShape, Shape
<1>3. ASSUME NEW t \in Thread, NEW o \in Object, Picked(t, o)
      PROVE  CallShape'
  <2>1. PICK c \in CallType :
          MovesTo(t, "count", c) /\ c.kind = "NEW" /\ c.first = o /\ c.rest = << >>
    BY <1>3, PickedEffect
  <2>2. Shape(t, "count", c)
    BY <1>3, <2>1 DEF Picked, Shape
  <2>. QED
    BY <1>0, <1>3, <2>1, <2>2, ShapeFrame DEF Picked
<1>4. ASSUME NEW t \in Thread, Enters(t)
      PROVE  CallShape'
  <2>1. PICK c \in CallType :
          /\ MovesTo(t, "check", c) /\ c.kind \in Callbacks
          /\ c.kind = "AAStore" => Len(c.rest) = 1
          /\ owner' = owner /\ built' = built
    BY <1>4, EntersEffect
  <2>2. Shape(t, "check", c)
    BY <1>4, <2>1 DEF Shape, Callbacks
  <2>. QED
    BY <1>0, <1>4, <2>1, <2>2, ShapeFrame
<1>5. ASSUME NEW t \in Thread, CountTag(t)
      PROVE  CallShape'
  <2>1. PICK c \in CallType :
          /\ MovesTo(t, "check", c) /\ c.kind = "NEW"
          /\ c.first = call[t].first /\ c.rest = call[t].rest /\ call[t].kind = "NEW"
    BY <1>5, CountEffect
  <2>2. Shape(t, "check", c)
    BY <1>0, <2>1 DEF CallShape, Shape
  <2>. QED
    BY <1>0, <1>5, <2>1, <2>2, ShapeFrame DEF CountTag
<1>6. ASSUME NEW t \in Thread, SetTag(t)
      PROVE  CallShape'
  <2>1. MovesTo(t, "called", call[t]) /\ pc[t] = "set"
    BY <1>6, SetEffect DEF SetTag
  <2>2. Shape(t, "called", call[t])
    BY <1>0, <2>1 DEF CallShape, Shape, Callbacks
  <2>. QED
    BY <1>0, <1>6, <2>1, <2>2, ShapeFrame DEF SetTag
<1>7. ASSUME NEW t \in Thread, NewReturns(t)
      PROVE  CallShape'
  <2>1. /\ MovesTo(t, "idle", NoCall) /\ NoCall.kind = "none" /\ owner' = owner
        /\ built' = [built EXCEPT ![call[t].first] = TRUE] /\ call[t].first \in Object
        /\ call[t].kind = "NEW"
    BY <1>7, ReturnsEffect, NoCallType DEF NewReturns
  <2>2. Shape(t, "idle", NoCall)'
    BY <2>1 DEF Shape, NoCall
  <2>3. owner[call[t].first] = t
    BY <1>0, <2>1 DEF CallShape, Shape
  <2>4. ASSUME NEW u \in Thread, u # t PROVE Shape(u, pc[u], call[u])'
    <3>1. pc'[u] = pc[u] /\ call'[u] = call[u] /\ Shape(u, pc[u], call[u])
      BY <1>0, <2>1, <2>4 DEF MovesTo, CallShape
    <3>2. call[u].kind = "NEW" => call[u].first # call[t].first
      BY <2>3, <2>4, <3>1 DEF Shape
    <3>3. \A o \in Object : o # call[t].first => built'[o] = built[o]
      BY <1>0, <2>1 DEF TypeOK
    <3>. QED
      BY <2>1, <3>1, <3>2, <3>3 DEF Shape
  <2>. QED
    BY <2>1, <2>2, <2>4 DEF CallShape, MovesTo
<1>8. ASSUME NEW t \in Thread, InitSteps(t)
      PROVE  CallShape'
  <2>1. PICK loc \in {"store", "capable", "lookup", "set", "crashed"} :
          /\ MovesTo(t, loc, call[t]) /\ owner' = owner /\ built' = built
          /\ call[t].kind \in Callbacks \cup {"NEW"}
          /\ loc = "lookup" => call[t].kind \in Callbacks
          /\ loc = "set" => call[t].kind = "NEW"
    BY <1>8, InitEffect
  <2>2. Shape(t, loc, call[t])
    BY <1>0, <2>1 DEF CallShape, Shape, Callbacks
  <2>. QED
    BY <1>0, <2>1, <2>2, ShapeFrame
<1>9. ASSUME NEW t \in Thread, LookupFirst(t)
      PROVE  CallShape'
  <2>1. owner' = owner /\ built' = built /\ pc[t] = "lookup"
    BY <1>9 DEF LookupFirst
  <2>2. PICK tag \in Int, c \in CallType :
          /\ call[t].kind \in Callbacks
          /\ \/ /\ MovesTo(t, IF c.kind = "AAStore" THEN "stamp" ELSE "finish", c)
                /\ c.kind = call[t].kind /\ c.rest = call[t].rest /\ c.tags = <<tag>>
             \/ MovesTo(t, "idle", c) /\ c = NoCall
    BY <1>9, FirstEffect
  <2>3. CASE /\ MovesTo(t, IF c.kind = "AAStore" THEN "stamp" ELSE "finish", c)
             /\ c.kind = call[t].kind /\ c.rest = call[t].rest /\ c.tags = <<tag>>
    <3>1. Len(c.tags) = 1 /\ Len(c.rest) \in Nat
      BY <1>0, <2>3, CallParts
    <3>2. Shape(t, "stamp", c) \/ c.kind # "AAStore"
      BY <1>0, <2>1, <2>2, <2>3, <3>1 DEF CallShape, Shape, Callbacks
    <3>3. Shape(t, "finish", c)
      BY <1>0, <2>1, <2>2, <2>3, <3>1 DEF CallShape, Shape, Callbacks
    <3>4. CASE c.kind = "AAStore"
      BY <1>0, <2>1, <2>3, <3>2, <3>4, ShapeFrame
    <3>5. CASE c.kind # "AAStore"
      BY <1>0, <2>1, <2>3, <3>3, <3>5, ShapeFrame
    <3>. QED
      BY <3>4, <3>5
  <2>4. CASE MovesTo(t, "idle", c) /\ c = NoCall
    <3>1. Shape(t, "idle", c)
      BY <2>4, NoCallType DEF Shape
    <3>. QED
      BY <1>0, <2>1, <2>4, <3>1, ShapeFrame
  <2>. QED
    BY <2>2, <2>3, <2>4
<1>10. ASSUME NEW t \in Thread, LookupNext(t)
      PROVE  CallShape'
  <2>1. owner' = owner /\ built' = built
    BY <1>10 DEF LookupNext
  <2>2. PICK tag \in Int, c \in CallType :
          /\ pc[t] = "finish" /\ call[t].kind \in Callbacks
          /\ Len(call[t].tags) \in 1..Len(call[t].rest)
          /\ MovesTo(t, "finish", c)
          /\ c.kind = call[t].kind /\ c.first = call[t].first /\ c.rest = call[t].rest
          /\ c.tags = Append(call[t].tags, tag)
    BY <1>10, NextEffect
  <2>3. Len(c.tags) \in 1..(Len(c.rest) + 1)
    <3>1. call[t].tags \in Seq(Int) /\ Len(call[t].rest) \in Nat
      BY <1>0, CallParts
    <3>2. Len(c.tags) = Len(call[t].tags) + 1
      BY <2>2, <3>1
    <3>. QED
      BY <2>2, <3>1, <3>2
  <2>4. Shape(t, "finish", c)
    BY <1>0, <2>2, <2>3 DEF CallShape, Shape
  <2>. QED
    BY <1>0, <2>1, <2>2, <2>4, ShapeFrame
<1>11. ASSUME NEW t \in Thread, AddRecord(t)
      PROVE  CallShape'
  <2>1. MovesTo(t, "idle", NoCall) /\ owner' = owner /\ built' = built
    BY <1>11, RecordEffect DEF AddRecord
  <2>2. Shape(t, "idle", NoCall)
    BY NoCallType DEF Shape
  <2>. QED
    BY <1>0, <2>1, <2>2, ShapeFrame
<1>13. ASSUME NEW t \in Thread, Stamp(t)
      PROVE  CallShape'
  <2>1. owner' = owner /\ built' = built
    BY <1>13 DEF Stamp
  <2>2. PICK c \in CallType :
          /\ pc[t] = "stamp" /\ call[t].kind = "AAStore" /\ Len(call[t].tags) = 1
          /\ MovesTo(t, "finish", c)
          /\ c.kind = call[t].kind /\ c.first = call[t].first /\ c.rest = call[t].rest
          /\ c.tags = call[t].tags
    BY <1>13, StampEffect
  <2>3. Len(call[t].rest) \in Nat
    BY <1>0, CallParts
  <2>5. Len(c.tags) = 1 /\ Len(c.rest) \in Nat
    BY <2>2, <2>3, Zenon
  <2>6. Len(c.tags) \in 1..(Len(c.rest) + 1)
    BY <2>5
  <2>7. c.kind = "AAStore" /\ Len(c.rest) = 1
    BY <1>0, <2>2, Zenon DEF CallShape, Shape
  <2>4. Shape(t, "finish", c)
    BY <2>6, <2>7 DEF Shape, Callbacks
  <2>. QED
    BY <1>0, <2>1, <2>2, <2>4, ShapeFrame
<1>12. ASSUME UNCHANGED vars
      PROVE  CallShape'
  BY <1>0, <1>12 DEF vars, CallShape, Shape
<1>. QED
  BY <1>1, <1>2, <1>3, <1>4, <1>5, <1>6, <1>7, <1>8, <1>9, <1>10, <1>11, <1>12, <1>13, StepCases


(* An environment is empty until it is in use. *)
LEMMA EnvsFreshStep ==
  ASSUME IInv, [Next]_vars
  PROVE  EnvsFresh'
<1>0. TypeOK /\ EnvBeforeUse /\ EnvsFresh
  BY DEF IInv
<1>. USE DEF EnvsFresh
<1>1. ASSUME NEW t \in Thread, NEW o \in Object, Allocate(t, o)
      PROVE  EnvsFresh'
  BY <1>0, <1>1 DEF Allocate, TypeOK, envVars, heapVars
<1>2. ASSUME NEW t \in Thread, NEW o \in Object, NotPicked(t, o)
      PROVE  EnvsFresh'
  BY <1>0, <1>2 DEF NotPicked, TypeOK, envVars, heapVars
<1>3. ASSUME NEW t \in Thread, NEW o \in Object, Picked(t, o)
      PROVE  EnvsFresh'
  BY <1>0, <1>3 DEF Picked, Goto, TypeOK, envVars, heapVars
<1>4. ASSUME NEW t \in Thread, Enters(t)
      PROVE  EnvsFresh'
  BY <1>0, <1>4, EntersEffect DEF MovesTo, envVars
<1>5. ASSUME NEW t \in Thread, CountTag(t)
      PROVE  EnvsFresh'
  BY <1>0, <1>5 DEF CountTag, Goto, TypeOK, envVars, heapVars
<1>6. ASSUME NEW t \in Thread, SetTag(t)
      PROVE  EnvsFresh'
  <2>1. /\ pc'[t] = "called" /\ \A u \in Thread : u # t => pc'[u] = pc[u]
        /\ \A u \in Thread, p \in Object : globalTags'[u][p] # 0 => canTag[u] \/ globalTags[u][p] # 0
    BY <1>6, SetEffect DEF MovesTo
  <2>2. slot0' = slot0 /\ canTag' = canTag
    BY <1>6 DEF SetTag
  <2>. QED
    BY <1>0, <2>1, <2>2
<1>7. ASSUME NEW t \in Thread, NewReturns(t)
      PROVE  EnvsFresh'
  BY <1>0, <1>7 DEF NewReturns, Goto, NoCall, TypeOK, envVars, heapVars
<1>8. ASSUME NEW t \in Thread, InitSteps(t)
      PROVE  EnvsFresh'
  <2>1. CASE InitCheck(t)
    <3>1. slot0' = slot0 /\ canTag' = canTag /\ globalTags' = globalTags
      BY <2>1 DEF InitCheck
    <3>2. /\ pc'[t] = "store" => slot0 = NoThread
          /\ \A u \in Thread : u # t => pc'[u] = pc[u]
      BY <1>0, <2>1 DEF InitCheck, Goto, AfterInit, TypeOK
    <3>. QED
      BY <1>0, <3>1, <3>2, NoThreadAssumption
  <2>2. CASE InitStore(t)
    <3>1. /\ slot0' = t /\ pc' = [pc EXCEPT ![t] = "capable"]
          /\ canTag' = [canTag EXCEPT ![t] = FALSE]
          /\ globalTags' = [globalTags EXCEPT ![t] = [o \in Object |-> 0]]
      BY <2>2 DEF InitStore, Goto
    <3>2. \A u \in Thread, o \in Object :
            globalTags'[u][o] # 0 => u # t /\ globalTags[u][o] # 0 /\ canTag'[u] = canTag[u]
      BY <1>0, <3>1 DEF TypeOK
    <3>. QED
      BY <1>0, <3>1, <3>2 DEF TypeOK
  <2>3. CASE InitStoreFails(t)
    BY <1>0, <2>3, NoThreadAssumption DEF InitStoreFails, Goto, TypeOK
  <2>4. CASE InitCapable(t)
    BY <1>0, <2>4, NoThreadAssumption DEF InitCapable, Goto, TypeOK, AfterInit
  <2>5. CASE OwnEnvFails(t) \/ UseNull(t)
    BY <1>0, <2>5 DEF OwnEnvFails, UseNull, Goto, TypeOK, envVars
  <2>. QED
    BY <1>8, <2>1, <2>2, <2>3, <2>4, <2>5 DEF InitSteps
<1>9. ASSUME NEW t \in Thread, Stamp(t)
      PROVE  EnvsFresh'
  BY <1>0, <1>9, StampEffect DEF Stamp, MovesTo, envVars
<1>11. ASSUME NEW t \in Thread, LookupFirst(t)
      PROVE  EnvsFresh'
  BY <1>0, <1>11, FirstEffect DEF LookupFirst, MovesTo
<1>12. ASSUME NEW t \in Thread, LookupNext(t)
      PROVE  EnvsFresh'
  BY <1>0, <1>12 DEF LookupNext
<1>13. ASSUME NEW t \in Thread, AddRecord(t)
      PROVE  EnvsFresh'
  BY <1>0, <1>13 DEF AddRecord, Goto, NoCall, TypeOK, envVars, heapVars
<1>14. ASSUME UNCHANGED vars
      PROVE  EnvsFresh'
  BY <1>0, <1>14 DEF vars, TypeOK, envVars, heapVars
<1>. QED
  BY <1>1, <1>2, <1>3, <1>4, <1>5, <1>6, <1>7, <1>8, <1>9, <1>11, <1>12, <1>13, <1>14, StepCases

(* A step that neither sets nor finds tags leaves them after NEW. *)
LEMMA AfterNewFrame ==
  ASSUME TagsAfterNew, NEW t \in Thread, NEW loc, NEW c, MovesTo(t, loc, c), pc[t] # "called",
         localTags' = localTags, GlobalKept, built' = built
  PROVE  TagsAfterNew'
<1>1. \A p : Called(p) => Called(p)'
  BY DEF Called, MovesTo
<1>. QED
  BY <1>1 DEF TagsAfterNew, GlobalKept

(* A thread that finds a tag finds one that was set. *)
LEMMA AfterNewFound ==
  ASSUME TypeOK, TagsAfterNew, NEW t \in Thread, NEW loc, NEW c, MovesTo(t, loc, c), pc[t] # "called",
         NEW o, NEW tag, CachesTag(t, o, tag),
         globalTags' = globalTags, built' = built
  PROVE  TagsAfterNew'
<1>. SUFFICES ASSUME NEW u \in Thread, NEW p \in Object,
                     localTags'[u][p] > 0 \/ globalTags'[u][p] # 0
              PROVE  built[p] \/ Called(p)'
  BY DEF TagsAfterNew
<1>1. Called(p) => Called(p)'
  BY DEF Called, MovesTo
<1>2. CASE u = t /\ p = o
  <2>1. \/ localTags[t][p] > 0 \/ globalTags[u][p] # 0
        \/ slot0 \in Thread /\ globalTags[slot0][p] # 0
    BY <1>2 DEF CachesTag, Found, NotSampled
  <2>. QED
    BY <1>1, <2>1 DEF TagsAfterNew
<1>3. CASE ~(u = t /\ p = o)
  <2>1. localTags'[u][p] = localTags[u][p]
    BY <1>3 DEF CachesTag
  <2>. QED
    BY <1>1, <2>1 DEF TagsAfterNew
<1>. QED
  BY <1>2, <1>3

(* Only the NEW callback of an object gives it a tag. *)
LEMMA AfterNewStep ==
  ASSUME IInv, [Next]_vars
  PROVE  TagsAfterNew'
<1>0. TypeOK /\ CallShape /\ EnvBeforeUse /\ TagsAfterNew
  BY DEF IInv
<1>. USE DEF envVars, heapVars
<1>1. ASSUME NEW t \in Thread, NEW o \in Object, Allocate(t, o)
      PROVE  TagsAfterNew'
  BY <1>0, <1>1 DEF Allocate, TagsAfterNew, Called
<1>2. ASSUME NEW t \in Thread, NEW o \in Object, NotPicked(t, o)
      PROVE  TagsAfterNew'
  BY <1>0, <1>2 DEF NotPicked, TypeOK, TagsAfterNew, Called
<1>3. ASSUME NEW t \in Thread, NEW o \in Object, Picked(t, o)
      PROVE  TagsAfterNew'
  BY <1>0, <1>3, PickedEffect, AfterNewFrame DEF GlobalKept, Picked
<1>4. ASSUME NEW t \in Thread, Enters(t)
      PROVE  TagsAfterNew'
  BY <1>0, <1>4, EntersEffect, AfterNewFrame DEF GlobalKept
<1>5. ASSUME NEW t \in Thread, CountTag(t)
      PROVE  TagsAfterNew'
  BY <1>0, <1>5, CountEffect, AfterNewFrame DEF GlobalKept, CountTag
<1>6. ASSUME NEW t \in Thread, SetTag(t)
      PROVE  TagsAfterNew'
  <2>. DEFINE o == call[t].first
  <2>1. pc[t] = "set" /\ built' = built
    BY <1>6 DEF SetTag
  <2>2. /\ MovesTo(t, "called", call[t])
        /\ \A u \in Thread, p \in Object : p # o =>
             localTags'[u][p] = localTags[u][p] /\ globalTags'[u][p] = globalTags[u][p]
    BY <1>6, SetEffect
  <2>3. \A p \in Object : Called(p) => Called(p)'
    BY <2>1, <2>2 DEF Called, MovesTo
  <2>. HIDE DEF o
  <2>4. ASSUME NEW u \in Thread, NEW p \in Object,
               localTags'[u][p] > 0 \/ globalTags'[u][p] # 0
        PROVE  built'[p] \/ Called(p)'
    <3>1. CASE p = o
      BY <2>2, <3>1 DEF Called, MovesTo, o
    <3>2. CASE p # o
      BY <1>0, <2>1, <2>2, <2>3, <2>4, <3>2 DEF TagsAfterNew
    <3>. QED
      BY <3>1, <3>2
  <2>. QED
    BY <2>4 DEF TagsAfterNew
<1>7. ASSUME NEW t \in Thread, NewReturns(t)
      PROVE  TagsAfterNew'
  <2>1. /\ MovesTo(t, "idle", NoCall) /\ call[t].first \in Object
        /\ built' = [built EXCEPT ![call[t].first] = TRUE]
        /\ localTags' = localTags /\ globalTags' = globalTags
    BY <1>7, ReturnsEffect DEF NewReturns
  <2>2. built'[call[t].first] /\ \A p \in Object : built[p] => built'[p]
    BY <1>0, <2>1 DEF TypeOK
  <2>3. \A p \in Object : Called(p) => Called(p)' \/ built'[p]
    BY <2>1, <2>2 DEF Called, MovesTo
  <2>. QED
    BY <1>0, <2>1, <2>2, <2>3 DEF TagsAfterNew
<1>8. ASSUME NEW t \in Thread, InitSteps(t)
      PROVE  TagsAfterNew'
  BY <1>0, <1>8, InitEffect, AfterNewFrame
<1>9. ASSUME NEW t \in Thread, LookupFirst(t)
      PROVE  TagsAfterNew'
  <2>1. PICK tag \in Int, c \in CallType :
          /\ CachesTag(t, call[t].first, tag) /\ pc[t] = "lookup"
          /\ MovesTo(t, "stamp", c) \/ MovesTo(t, "finish", c) \/ MovesTo(t, "idle", c)
    BY <1>9, FirstEffect
  <2>. QED
    BY <1>0, <1>9, <2>1, AfterNewFound DEF LookupFirst
<1>10. ASSUME NEW t \in Thread, LookupNext(t)
      PROVE  TagsAfterNew'
  <2>1. PICK tag \in Int, c \in CallType :
          /\ CachesTag(t, Arg(call[t], Len(call[t].tags) + 1), tag) /\ pc[t] = "finish"
          /\ MovesTo(t, "finish", c)
    BY <1>10, NextEffect
  <2>. QED
    BY <1>0, <1>10, <2>1, AfterNewFound DEF LookupNext
<1>11. ASSUME NEW t \in Thread, AddRecord(t)
      PROVE  TagsAfterNew'
  BY <1>0, <1>11, RecordEffect, AfterNewFrame DEF GlobalKept, AddRecord
<1>13. ASSUME NEW t \in Thread, Stamp(t)
      PROVE  TagsAfterNew'
  BY <1>0, <1>13, StampEffect, AfterNewFrame DEF Stamp, GlobalKept
<1>12. ASSUME UNCHANGED vars
      PROVE  TagsAfterNew'
  BY <1>0, <1>12 DEF vars, TagsAfterNew, Called
<1>. QED
  BY <1>1, <1>2, <1>3, <1>4, <1>5, <1>6, <1>7, <1>8, <1>9, <1>10, <1>11, <1>12, <1>13, StepCases

(* NEW records stay, and so does what they say. *)
LEMMA NamesGrow ==
  ASSUME trace \subseteq trace'
  PROVE  /\ NewRecords \subseteq NewRecords'
         /\ \A a, o : Names(a, o) => Names(a, o)'
         /\ \A o, tag : TagOf(o, tag) => TagOf(o, tag)'
         /\ \A o, time : NewBefore(o, time) => NewBefore(o, time)'
         /\ \A loc, c : Known(loc, c) => Known(loc, c)'
<1>1. NewRecords \subseteq NewRecords'
  BY DEF NewRecords
<1>2. \A a, o : Names(a, o) => Names(a, o)'
  BY <1>1 DEF Names
<1>3. \A o, tag : TagOf(o, tag) => TagOf(o, tag)'
  BY <1>2 DEF TagOf
<1>4. \A o, time : NewBefore(o, time) => NewBefore(o, time)'
  BY <1>1 DEF NewBefore
<1>5. \A loc, c : Known(loc, c) => Known(loc, c)'
  BY <1>3 DEF Known
<1>. QED
  BY <1>1, <1>2, <1>3, <1>4, <1>5

(* No record is ever dropped. *)
LEMMA TraceGrows ==
  ASSUME IInv, [Next]_vars
  PROVE  trace \subseteq trace'
BY StepCases, EntersEffect, CountEffect, RecordEffect, InitEffect
   DEF Allocate, NotPicked, Picked, SetTag, NewReturns,
       LookupFirst, Stamp, LookupNext, vars

(* A tag that is found is the tag of the object, or "not sampled". *)
LEMMA FoundKnown ==
  ASSUME TagsKnown, NEW t \in Thread, NEW o \in Object, NEW tag, Found(t, o, tag)
  PROVE  tag = NotSampled \/ TagOf(o, tag)
BY DEF TagsKnown, Found

(* A step of t that sets no tags. *)
LEMMA KnownFrame ==
  ASSUME TagsKnown, trace \subseteq trace', NEW t \in Thread, NEW loc, NEW c,
         MovesTo(t, loc, c), Known(loc, c)',
         localTags' = localTags, GlobalKept
  PROVE  TagsKnown'
<1>1. \A o, tag : TagOf(o, tag) => TagOf(o, tag)'
  BY NamesGrow
<1>2. \A u \in Thread : Known(pc[u], call[u])'
  <2>. TAKE u \in Thread
  <2>1. CASE u = t
    BY <2>1 DEF MovesTo, Known
  <2>2. CASE u # t
    <3>1. pc'[u] = pc[u] /\ call'[u] = call[u] /\ Known(pc[u], call[u])
      BY <2>2 DEF MovesTo, TagsKnown
    <3>. QED
      BY <1>1, <3>1 DEF Known
  <2>. QED
    BY <2>1, <2>2
<1>. QED
  BY <1>1, <1>2 DEF TagsKnown, GlobalKept

(* A step of t that finds a tag. *)
LEMMA KnownFound ==
  ASSUME TypeOK, TagsKnown, trace' = trace, NEW t \in Thread, NEW loc, NEW c,
         MovesTo(t, loc, c), Known(loc, c),
         NEW o, NEW tag, CachesTag(t, o, tag), globalTags' = globalTags
  PROVE  TagsKnown'
<1>0. NewRecords' = NewRecords
  BY DEF NewRecords
<1>1. \A p, x : TagOf(p, x) => TagOf(p, x)'
  BY NamesGrow
<1>2. \A u \in Thread : Known(pc[u], call[u])'
  <2>. TAKE u \in Thread
  <2>1. CASE u = t
    <3>1. pc'[u] = loc /\ call'[u] = c
      BY <2>1 DEF MovesTo
    <3>. QED
      BY <1>1, <3>1 DEF Known
  <2>2. CASE u # t
    <3>1. pc'[u] = pc[u] /\ call'[u] = call[u] /\ Known(pc[u], call[u])
      BY <2>2 DEF MovesTo, TagsKnown
    <3>. QED
      BY <1>1, <3>1 DEF Known
  <2>. QED
    BY <2>1, <2>2
<1>3. ASSUME NEW u \in Thread, NEW p \in Object, localTags'[u][p] \notin {0, NotSampled}
      PROVE  TagOf(p, localTags'[u][p])
  <2>1. CASE u = t /\ p = o
    <3>1. Found(t, p, tag) /\ localTags'[u][p] = tag
      BY <2>1 DEF CachesTag
    <3>. QED
      BY <1>3, <3>1, FoundKnown
  <2>2. CASE ~(u = t /\ p = o)
    <3>1. localTags'[u][p] = localTags[u][p]
      BY <2>2 DEF CachesTag
    <3>. QED
      BY <1>3, <3>1 DEF TagsKnown
  <2>. QED
    BY <2>1, <2>2
<1>. QED
  BY <1>0, <1>1, <1>2, <1>3 DEF TagsKnown, TagOf, Names

(* Every tag in use stays the tag of its object. *)
LEMMA KnownStep ==
  ASSUME IInv, [Next]_vars
  PROVE  TagsKnown'
<1>0. TypeOK /\ EnvBeforeUse /\ CallShape /\ TagsFresh /\ TagsKnown /\ trace \subseteq trace'
  BY TraceGrows DEF IInv
<1>. USE DEF envVars, heapVars, GlobalKept
<1>1. ASSUME NEW t \in Thread, NEW o \in Object, Allocate(t, o)
      PROVE  TagsKnown'
  BY <1>0, <1>1 DEF Allocate, TagsKnown, Known, TagOf, Names, NewRecords
<1>2. ASSUME NEW t \in Thread, NEW o \in Object, NotPicked(t, o)
      PROVE  TagsKnown'
  BY <1>0, <1>2 DEF NotPicked, TagsKnown, Known, TagOf, Names, NewRecords
<1>3. ASSUME NEW t \in Thread, NEW o \in Object, Picked(t, o)
      PROVE  TagsKnown'
  <2>1. PICK c \in CallType : MovesTo(t, "count", c) /\ c.kind = "NEW"
    BY <1>3, PickedEffect
  <2>2. Known("count", c)'
    BY <2>1 DEF Known
  <2>. QED
    BY <1>0, <1>3, <2>1, <2>2, KnownFrame DEF Picked
<1>4. ASSUME NEW t \in Thread, Enters(t)
      PROVE  TagsKnown'
  <2>1. PICK c \in CallType : /\ MovesTo(t, "check", c) /\ c.kind \in Callbacks
                                /\ localTags' = localTags /\ globalTags' = globalTags
    BY <1>4, EntersEffect
  <2>2. Known("check", c)'
    BY <2>1 DEF Known, Callbacks
  <2>. QED
    BY <1>0, <2>1, <2>2, KnownFrame
<1>5. ASSUME NEW t \in Thread, CountTag(t)
      PROVE  TagsKnown'
  <2>1. PICK c \in CallType, n \in EntryType :
          /\ MovesTo(t, "check", c)
          /\ c.first = call[t].first /\ c.tags = <<global_tag>>
          /\ trace' = trace \cup {n}
          /\ n.kind = "NEW" /\ n.objs[1] = call[t].first /\ n.addrs[1] = Addr(global_tag)
    BY <1>5, CountEffect
  <2>2. n \in NewRecords'
    BY <2>1 DEF NewRecords
  <2>3. Names(Addr(c.tags[1]), c.first)'
    BY <2>1, <2>2 DEF Names, Addr
  <2>4. c.tags[1] > 0 /\ Len(c.tags) = 1
    BY <1>0, <2>1 DEF TagsFresh, FirstTag, TypeOK
  <2>5. Known("check", c)'
    BY <2>3, <2>4 DEF Known, TagOf, Addr
  <2>. QED
    BY <1>0, <1>5, <2>1, <2>5, KnownFrame DEF CountTag
<1>6. ASSUME NEW t \in Thread, SetTag(t)
      PROVE  TagsKnown'
  <2>. DEFINE o == call[t].first
              tag == call[t].tags[1]
  <2>1. /\ TagOf(o, tag)
        /\ \A u \in Thread, p \in Object :
             /\ localTags'[u][p] # localTags[u][p] => p = o /\ localTags'[u][p] = tag
             /\ globalTags'[u][p] # globalTags[u][p] => p = o /\ globalTags'[u][p] = tag
    BY <1>6, SetEffect
  <2>2. MovesTo(t, "called", call[t]) /\ pc[t] = "set" /\ call' = call /\ trace' = trace
    BY <1>6, SetEffect DEF SetTag
  <2>. HIDE DEF o, tag
  <2>3. \A p, x : TagOf(p, x)' <=> TagOf(p, x)
    BY <2>2 DEF TagOf, Names, NewRecords
  <2>4. \A u \in Thread : Known(pc[u], call[u])'
    <3>1. \A u \in Thread : pc'[u] = pc[u] \/ (pc'[u] = "called" /\ pc[u] # "count")
      BY <2>2 DEF MovesTo
    <3>. QED
      BY <1>0, <2>2, <2>3, <3>1 DEF TagsKnown, Known
  <2>5. \A u \in Thread, p \in Object :
          /\ localTags'[u][p] \notin {0, NotSampled} => TagOf(p, localTags'[u][p])
          /\ globalTags'[u][p] # 0 => TagOf(p, globalTags'[u][p])
    BY <1>0, <2>1 DEF TagsKnown
  <2>6. NewRecords' = NewRecords
    BY <2>2 DEF NewRecords
  <2>. QED
    BY <2>4, <2>5, <2>6 DEF TagsKnown, TagOf, Names
<1>7. ASSUME NEW t \in Thread, NewReturns(t)
      PROVE  TagsKnown'
  <2>1. MovesTo(t, "idle", NoCall) /\ NoCall.kind = "none"
    BY <1>7, ReturnsEffect, NoCallType
  <2>2. Known("idle", NoCall)'
    BY <2>1 DEF Known
  <2>. QED
    BY <1>0, <1>7, <2>1, <2>2, KnownFrame DEF NewReturns
<1>8. ASSUME NEW t \in Thread, InitSteps(t)
      PROVE  TagsKnown'
  <2>1. PICK loc \in {"store", "capable", "lookup", "set", "crashed"} :
          /\ MovesTo(t, loc, call[t]) /\ localTags' = localTags /\ GlobalKept
          /\ pc[t] \in {"check", "store", "capable", "lookup", "finish", "set"}
    BY <1>8, InitEffect
  <2>2. PICK c : c = call[t]
    OBVIOUS
  <2>3. Known(loc, c)
    BY <1>0, <2>1, <2>2 DEF TagsKnown, Known
  <2>4. Known(loc, c)'
    BY <1>0, <2>3, NamesGrow
  <2>. HIDE DEF GlobalKept
  <2>. QED
    BY <1>0, <2>1, <2>2, <2>4, KnownFrame
<1>9. ASSUME NEW t \in Thread, LookupFirst(t)
      PROVE  TagsKnown'
  <2>1. PICK tag \in Int, c \in CallType :
          /\ CachesTag(t, call[t].first, tag) /\ pc[t] = "lookup" /\ call[t].kind \in Callbacks
          /\ \/ /\ tag > 0 /\ (MovesTo(t, "stamp", c) \/ MovesTo(t, "finish", c))
                /\ c.kind = call[t].kind /\ c.first = call[t].first /\ c.tags = <<tag>>
             \/ MovesTo(t, "idle", c) /\ c = NoCall
    BY <1>9, FirstEffect
  <2>2. call[t].first \in Object \cup {Null}
    BY <1>0, CallParts
  <2>3. CASE /\ tag > 0 /\ (MovesTo(t, "stamp", c) \/ MovesTo(t, "finish", c))
             /\ c.kind = call[t].kind /\ c.first = call[t].first /\ c.tags = <<tag>>
    <3>1. c.first # Null => TagOf(c.first, tag)
      BY <1>0, <2>1, <2>2, <2>3, FoundKnown DEF CachesTag, NotSampled
    <3>2. Len(c.tags) = 1 /\ c.tags[1] = tag
      BY <2>3
    <3>3. Known("stamp", c) /\ Known("finish", c)
      BY <2>1, <2>3, <3>1, <3>2 DEF Known, Arg, Callbacks
    <3>. QED
      BY <1>0, <1>9, <2>1, <2>2, <2>3, <3>3, KnownFound DEF LookupFirst
  <2>4. CASE MovesTo(t, "idle", c) /\ c = NoCall
    <3>1. Known("idle", c)
      BY <2>4, NoCallType DEF Known
    <3>. QED
      BY <1>0, <1>9, <2>1, <2>2, <2>4, <3>1, KnownFound DEF LookupFirst
  <2>. QED
    BY <2>1, <2>3, <2>4
<1>10. ASSUME NEW t \in Thread, LookupNext(t)
      PROVE  TagsKnown'
  <2>. DEFINE m == Len(call[t].tags)
  <2>1. PICK tag \in Int, c \in CallType :
          /\ pc[t] = "finish" /\ call[t].kind \in Callbacks
          /\ m \in 1..Len(call[t].rest)
          /\ CachesTag(t, Arg(call[t], m + 1), tag)
          /\ MovesTo(t, "finish", c)
          /\ c.kind = call[t].kind /\ c.first = call[t].first /\ c.rest = call[t].rest
          /\ c.tags = Append(call[t].tags, tag)
    BY <1>10, NextEffect
  <2>2. /\ call[t].tags \in Seq(Int) /\ m \in Nat
        /\ call[t].rest \in Seq(Object \cup {Null}) /\ Len(call[t].rest) \in Nat
    BY <1>0, CallParts
  <2>3. /\ Len(c.tags) = m + 1 /\ c.tags[m + 1] = tag
        /\ \A i \in 1..m : c.tags[i] = call[t].tags[i]
    BY <2>1, <2>2
  <2>4. \A i : Arg(c, i) = Arg(call[t], i)
    BY <2>1 DEF Arg
  <2>. HIDE DEF m
  <2>5. ASSUME NEW i \in 1..(m + 1), Arg(c, i) # Null
        PROVE  TagOf(Arg(c, i), c.tags[i]) \/ (i > 1 /\ c.tags[i] = NotSampled)
    <3>1. CASE i \in 1..m
      <4>1. TagOf(Arg(call[t], i), call[t].tags[i]) \/ (i > 1 /\ call[t].tags[i] = NotSampled)
        BY <1>0, <2>1, <2>4, <2>5, <3>1 DEF TagsKnown, Known, m
      <4>. QED
        BY <2>3, <2>4, <3>1, <4>1
    <3>2. CASE i \notin 1..m
      <4>1. i = m + 1 /\ i > 1 /\ i # 1 /\ i - 1 \in 1..Len(call[t].rest)
        BY <2>1, <2>2, <3>2
      <4>2. Arg(call[t], i) \in Object
        BY <2>2, <2>4, <2>5, <4>1, ElementOfSeq DEF Arg
      <4>3. Found(t, Arg(call[t], i), tag)
        BY <2>1, <4>1 DEF CachesTag
      <4>4. tag = NotSampled \/ TagOf(Arg(call[t], i), tag)
        BY <1>0, <2>2, <4>2, <4>3, FoundKnown
      <4>. QED
        BY <2>3, <2>4, <4>1, <4>4
    <3>. QED
      BY <3>1, <3>2
  <2>6. Known("finish", c)
    BY <2>1, <2>3, <2>5 DEF Known, Callbacks
  <2>. QED
    BY <1>0, <1>10, <2>1, <2>2, <2>6, KnownFound DEF LookupNext
<1>11. ASSUME NEW t \in Thread, AddRecord(t)
      PROVE  TagsKnown'
  <2>1. MovesTo(t, "idle", NoCall) /\ NoCall.kind = "none"
    BY <1>11, RecordEffect, NoCallType
  <2>2. Known("idle", NoCall)'
    BY <2>1 DEF Known
  <2>. QED
    BY <1>0, <1>11, <2>1, <2>2, KnownFrame DEF AddRecord
<1>13. ASSUME NEW t \in Thread, Stamp(t)
      PROVE  TagsKnown'
  <2>1. PICK c \in CallType :
          /\ pc[t] = "stamp" /\ call[t].kind = "AAStore" /\ MovesTo(t, "finish", c)
          /\ c.kind = call[t].kind /\ c.first = call[t].first /\ c.rest = call[t].rest
          /\ c.tags = call[t].tags
    BY <1>13, StampEffect
  <2>2. Known("stamp", call[t]) /\ \A i : Arg(c, i) = Arg(call[t], i)
    BY <1>0, <2>1 DEF TagsKnown, Arg
  <2>3. Known("finish", c)
    BY <2>1, <2>2 DEF Known
  <2>4. Known("finish", c)'
    BY <1>0, <2>3, NamesGrow
  <2>. QED
    BY <1>0, <1>13, <2>1, <2>4, KnownFrame DEF Stamp
<1>12. ASSUME UNCHANGED vars
      PROVE  TagsKnown'
  BY <1>0, <1>12 DEF vars, TagsKnown, Known, TagOf, Names, NewRecords
<1>. QED
  BY <1>1, <1>2, <1>3, <1>4, <1>5, <1>6, <1>7, <1>8, <1>9, <1>10, <1>11, <1>12, <1>13, StepCases

(* Records other than those of CountTag and AddRecord do not come to be. *)
LEMMA TraceCases ==
  ASSUME IInv, [Next]_vars
  PROVE  \/ trace' = trace /\ global_tag' = global_tag
         \/ \E t \in Thread : CountTag(t) \/ AddRecord(t)
BY StepCases, EntersEffect, InitEffect
   DEF Allocate, NotPicked, Picked, SetTag, NewReturns,
       LookupFirst, Stamp, LookupNext, vars

(* A record of another kind is not a NEW record. *)
LEMMA RecordIsNotNew ==
  ASSUME IInv, NEW t \in Thread, AddRecord(t)
  PROVE  NewRecords' = NewRecords
BY RecordEffect DEF NewRecords, Callbacks

(* Addresses of NEW records stay different until they wrap around. *)
LEMMA FreshStep ==
  ASSUME IInv, [Next]_vars
  PROVE  TagsFresh'
<1>0. TypeOK /\ TagsFresh /\ CallShape
  BY DEF IInv
<1>1. CASE trace' = trace /\ global_tag' = global_tag
  BY <1>0, <1>1 DEF TagsFresh, NewRecords
<1>2. ASSUME NEW t \in Thread, AddRecord(t) PROVE TagsFresh'
  <2>1. NewRecords' = NewRecords /\ global_tag' = global_tag
    BY <1>2, RecordIsNotNew DEF AddRecord
  <2>. QED
    BY <1>0, <2>1 DEF TagsFresh
<1>3. ASSUME NEW t \in Thread, CountTag(t) PROVE TagsFresh'
  <2>1. PICK n \in EntryType : /\ trace' = trace \cup {n} /\ n.kind = "NEW"
                               /\ n.addrs[1] = Addr(global_tag)
    BY <1>3, CountEffect
  <2>2. global_tag' = global_tag + 1 /\ global_tag \in Nat /\ global_tag >= FirstTag
    BY <1>0, <1>3 DEF CountTag, TypeOK, TagsFresh
  <2>3. NewRecords' = NewRecords \cup {n}
    BY <2>1 DEF NewRecords
  <2>4. ASSUME global_tag' <= AddrSpace
        PROVE  \A x \in NewRecords' :
                 /\ x.addrs[1] \in FirstTag..(global_tag' - 1)
                 /\ \A m \in NewRecords' : m.addrs[1] = x.addrs[1] => m.objs[1] = x.objs[1]
    <3>1. global_tag < AddrSpace /\ global_tag <= AddrSpace
      BY <2>2, <2>4, AddrSpaceAssumption DEF FirstTag
    <3>2. n.addrs[1] = global_tag
      BY <2>1, <2>2, <3>1, AddrType DEF FirstTag
    <3>3. \A x \in NewRecords : x.addrs[1] \in FirstTag..(global_tag - 1)
      BY <1>0, <3>1 DEF TagsFresh
    <3>. QED
      BY <1>0, <2>2, <2>3, <3>1, <3>2, <3>3 DEF TagsFresh, FirstTag
  <2>. QED
    BY <2>2, <2>4 DEF TagsFresh, FirstTag
<1>. QED
  BY <1>1, <1>2, <1>3, TraceCases

(* Each new record carries the addresses of its own objects. *)
LEMMA RecordsStep ==
  ASSUME IInv, [Next]_vars
  PROVE  RecordsRight'
<1>0. TypeOK /\ CallShape /\ TagsKnown /\ RecordsRight /\ trace \subseteq trace'
  BY TraceGrows DEF IInv
<1>1. \A a, o : Names(a, o) => Names(a, o)'
  BY <1>0, NamesGrow
<1>2. CASE trace' = trace
  BY <1>0, <1>1, <1>2 DEF RecordsRight
<1>3. ASSUME NEW t \in Thread, CountTag(t) PROVE RecordsRight'
  <2>1. PICK n \in EntryType : /\ trace' = trace \cup {n} /\ n.kind = "NEW"
                               /\ Len(n.addrs) = 1
    BY <1>3, CountEffect
  <2>2. Names(n.addrs[1], n.objs[1])'
    BY <2>1 DEF Names, NewRecords
  <2>3. \A i \in 1..Len(n.addrs) : i = 1
    BY <2>1
  <2>. QED
    BY <1>0, <1>1, <2>1, <2>2, <2>3 DEF RecordsRight
<1>4. ASSUME NEW t \in Thread, AddRecord(t) PROVE RecordsRight'
  <2>1. PICK r \in EntryType :
          /\ pc[t] = "finish" /\ trace' = trace \cup {r}
          /\ Len(r.addrs) = Len(call[t].tags)
          /\ \A i \in 1..Len(call[t].tags) :
               r.addrs[i] = Addr(call[t].tags[i]) /\ r.objs[i] = Arg(call[t], i)
    BY <1>4, RecordEffect
  <2>2. \A i \in 1..Len(r.addrs) :
          r.objs[i] # Null =>
            \/ Names(r.addrs[i], r.objs[i])
            \/ i > 1 /\ r.addrs[i] = Addr(NotSampled)
    BY <1>0, <2>1 DEF TagsKnown, Known, TagOf
  <2>. QED
    BY <1>0, <1>1, <2>1, <2>2 DEF RecordsRight
<1>. QED
  BY <1>2, <1>3, <1>4, TraceCases


(* A step of t that takes no time from the future. *)
LEMMA PastFrame ==
  ASSUME TypeOK, TimesPast, NEW t \in Thread, NEW loc, NEW c,
         MovesTo(t, loc, c), c.time < clock', clock' \in {clock, clock + 1},
         \A r \in trace' : r \in trace \/ r.time < clock'
  PROVE  TimesPast'
<1>1. clock \in Nat /\ clock' \in Nat /\ clock <= clock'
  BY DEF TypeOK
<1>2. \A u \in Thread : call[u].time \in Nat
  BY CallParts
<1>3. \A r \in trace : r.time \in Nat
  BY DEF TypeOK, EntryType
<1>4. \A u \in Thread : call'[u].time < clock'
  BY <1>1, <1>2 DEF MovesTo, TimesPast
<1>5. \A r \in trace' : r.time < clock'
  BY <1>1, <1>3 DEF TimesPast
<1>. QED
  BY <1>1, <1>4, <1>5 DEF TimesPast

(* Every time in a call or a record is past. *)
LEMMA PastStep ==
  ASSUME IInv, [Next]_vars
  PROVE  TimesPast'
<1>0. TypeOK /\ TimesPast /\ clock \in Nat
  BY DEF IInv, TypeOK
<1>. USE DEF heapVars
<1>1. ASSUME NEW t \in Thread, NEW o \in Object, Allocate(t, o)
      PROVE  TimesPast'
  BY <1>0, <1>1 DEF Allocate, TimesPast
<1>2. ASSUME NEW t \in Thread, NEW o \in Object, NotPicked(t, o)
      PROVE  TimesPast'
  BY <1>0, <1>2 DEF NotPicked, TimesPast
<1>3. ASSUME NEW t \in Thread, NEW o \in Object, Picked(t, o)
      PROVE  TimesPast'
  <2>1. PICK c \in CallType : MovesTo(t, "count", c) /\ c.time = clock
    BY <1>3, PickedEffect
  <2>2. clock' = clock + 1 /\ trace' = trace
    BY <1>3 DEF Picked
  <2>. QED
    BY <1>0, <2>1, <2>2, PastFrame
<1>4. ASSUME NEW t \in Thread, Enters(t)
      PROVE  TimesPast'
  <2>1. PICK c \in CallType :
          /\ MovesTo(t, "check", c)
          /\ c.kind = "PutField" => c.time = clock /\ clock' = clock + 1
          /\ c.kind # "PutField" => c.time = 0 /\ clock' = clock
          /\ trace' = trace
    BY <1>4, EntersEffect
  <2>2. c.time < clock' /\ clock' \in {clock, clock + 1}
    BY <1>0, <2>1 DEF TimesPast
  <2>. QED
    BY <1>0, <2>1, <2>2, PastFrame
<1>5. ASSUME NEW t \in Thread, CountTag(t)
      PROVE  TimesPast'
  <2>1. PICK c \in CallType, n \in EntryType :
          /\ MovesTo(t, "check", c) /\ c.time = call[t].time
          /\ trace' = trace \cup {n} /\ n.time = call[t].time
    BY <1>5, CountEffect
  <2>. QED
    BY <1>0, <1>5, <2>1 DEF CountTag, MovesTo, TimesPast
<1>6. ASSUME NEW t \in Thread, SetTag(t)
      PROVE  TimesPast'
  BY <1>0, <1>6 DEF SetTag, TimesPast
<1>7. ASSUME NEW t \in Thread, NewReturns(t)
      PROVE  TimesPast'
  BY <1>0, <1>7, ReturnsEffect, NoCallType DEF NewReturns, MovesTo, TimesPast
<1>8. ASSUME NEW t \in Thread, InitSteps(t)
      PROVE  TimesPast'
  BY <1>0, <1>8, InitEffect DEF TimesPast
<1>9. ASSUME NEW t \in Thread, LookupFirst(t)
      PROVE  TimesPast'
  <2>1. PICK c \in CallType :
          /\ c.time = call[t].time \/ c = NoCall
          /\ MovesTo(t, "stamp", c) \/ MovesTo(t, "finish", c) \/ MovesTo(t, "idle", c)
    BY <1>9, FirstEffect
  <2>. QED
    BY <1>0, <1>9, <2>1, NoCallType DEF LookupFirst, MovesTo, TimesPast
<1>10. ASSUME NEW t \in Thread, LookupNext(t)
      PROVE  TimesPast'
  <2>1. PICK c \in CallType : MovesTo(t, "finish", c) /\ c.time = call[t].time
    BY <1>10, NextEffect
  <2>. QED
    BY <1>0, <1>10, <2>1 DEF LookupNext, MovesTo, TimesPast
<1>13. ASSUME NEW t \in Thread, Stamp(t)
      PROVE  TimesPast'
  <2>1. PICK c \in CallType : MovesTo(t, "finish", c) /\ c.time = clock /\ clock' = clock + 1
    BY <1>13, StampEffect
  <2>. QED
    BY <1>0, <1>13, <2>1, PastFrame DEF Stamp
<1>11. ASSUME NEW t \in Thread, AddRecord(t)
      PROVE  TimesPast'
  <2>1. PICK r \in EntryType :
          /\ MovesTo(t, "idle", NoCall) /\ trace' = trace \cup {r}
          /\ \/ r.time = call[t].time /\ clock' = clock
             \/ r.time = clock /\ clock' = clock + 1
    BY <1>11, RecordEffect
  <2>2. r.time < clock' /\ clock' \in {clock, clock + 1} /\ NoCall.time < clock'
    BY <1>0, <2>1, NoCallType DEF TimesPast
  <2>. QED
    BY <1>0, <2>1, <2>2, PastFrame
<1>12. ASSUME UNCHANGED vars
      PROVE  TimesPast'
  BY <1>0, <1>12 DEF vars, TimesPast
<1>. QED
  BY <1>1, <1>2, <1>3, <1>4, <1>5, <1>6, <1>7, <1>8, <1>9, <1>10, <1>11, <1>12, <1>13, StepCases


(* An object that is t's or built remains so. *)
OwnersStay ==
  \A u \in Thread, o \in Object : owner[o] = u \/ built[o] => owner'[o] = u \/ built'[o]

(* No step takes an object away from its owner. *)
LEMMA OwnersKept ==
  ASSUME IInv, [Next]_vars
  PROVE  OwnersStay /\ escaped \subseteq escaped'
<1>0. TypeOK
  BY DEF IInv
<1>1. ASSUME NEW t \in Thread, NEW o \in Object, Allocate(t, o)
      PROVE  OwnersStay /\ escaped \subseteq escaped'
  BY <1>0, <1>1, NoThreadAssumption DEF Allocate, TypeOK, OwnersStay
<1>2. ASSUME NEW t \in Thread, NEW o \in Object, NotPicked(t, o)
      PROVE  OwnersStay /\ escaped \subseteq escaped'
  BY <1>0, <1>2 DEF NotPicked, TypeOK, OwnersStay
<1>3. ASSUME NEW t \in Thread, NewReturns(t)
      PROVE  OwnersStay /\ escaped \subseteq escaped'
  BY <1>0, <1>3, ReturnsEffect DEF NewReturns, TypeOK, OwnersStay
<1>4. CASE owner' = owner /\ built' = built /\ escaped \subseteq escaped'
  BY <1>4 DEF OwnersStay
<1>. QED
  BY <1>1, <1>2, <1>3, <1>4, StepCases, EntersEffect, InitEffect
     DEF heapVars, Picked, CountTag, SetTag,
         LookupFirst, Stamp, LookupNext, AddRecord, vars

(* A call about the same objects stays private. *)
LEMMA PrivateSame ==
  ASSUME Private, OwnersStay, escaped \subseteq escaped', NEW t \in Thread, NEW c,
         c.kind \in Callbacks => /\ call[t].kind \in Callbacks
                                 /\ c.first = call[t].first /\ c.rest = call[t].rest
  PROVE  PrivateCall(t, c)'
<1>. SUFFICES ASSUME c.kind \in Callbacks, NEW o \in Object, o \notin escaped',
                     NEW i \in 1..(Len(c.rest) + 1), Arg(c, i) = o
              PROVE  owner'[o] = t \/ built'[o]
  BY DEF PrivateCall, Arg
<1>1. o \notin escaped /\ i \in 1..(Len(call[t].rest) + 1) /\ Arg(call[t], i) = o
  BY DEF Arg
<1>2. owner[o] = t \/ built[o]
  BY <1>1 DEF Private, PrivateCall
<1>. QED
  BY <1>2 DEF OwnersStay

(* A step of t that takes up no object that is another's. *)
LEMMA PrivateFrame ==
  ASSUME Private, OwnersStay, escaped \subseteq escaped', NEW t \in Thread, NEW loc, NEW c,
         MovesTo(t, loc, c), PrivateCall(t, c)',
         \A u \in Thread, p \in Object :
           localTags'[u][p] # 0 => localTags[u][p] # 0 \/ p \in escaped \/ owner[p] = u \/ built[p]
  PROVE  Private'
<1>1. \A u \in Thread, p \in Object \ escaped' :
        localTags'[u][p] # 0 => owner'[p] = u \/ built'[p]
  BY DEF Private, OwnersStay
<1>2. \A u \in Thread : PrivateCall(u, call[u])'
  <2>. TAKE u \in Thread
  <2>1. CASE u = t
    BY <2>1 DEF MovesTo, PrivateCall
  <2>2. CASE u # t
    <3>1. PICK d : d = call[u]
      OBVIOUS
    <3>2. PrivateCall(u, d)'
      BY <3>1, PrivateSame
    <3>. QED
      BY <2>2, <3>1, <3>2 DEF MovesTo, PrivateCall
  <2>. QED
    BY <2>1, <2>2
<1>. QED
  BY <1>1, <1>2 DEF Private

(* Objects that did not leak stay private until they are built. *)
LEMMA PrivateStep ==
  ASSUME IInv, [Next]_vars
  PROVE  Private'
<1>0. TypeOK /\ CallShape /\ Private /\ OwnersStay /\ escaped \subseteq escaped'
  BY OwnersKept DEF IInv
<1>. USE DEF envVars
<1>1. ASSUME NEW t \in Thread, NEW o \in Object, Allocate(t, o)
      PROVE  Private'
  <2>1. localTags' = localTags /\ call' = call
    BY <1>1 DEF Allocate
  <2>. QED
    BY <1>0, <2>1 DEF Private, PrivateCall, OwnersStay, Arg
<1>2. ASSUME NEW t \in Thread, NEW o \in Object, NotPicked(t, o)
      PROVE  Private'
  <2>1. localTags' = localTags /\ call' = call
    BY <1>2 DEF NotPicked
  <2>. QED
    BY <1>0, <2>1 DEF Private, PrivateCall, OwnersStay, Arg
<1>3. ASSUME NEW t \in Thread, NEW o \in Object, Picked(t, o)
      PROVE  Private'
  <2>1. PICK c \in CallType : MovesTo(t, "count", c) /\ c.kind = "NEW"
    BY <1>3, PickedEffect
  <2>2. PrivateCall(t, c)'
    BY <2>1 DEF PrivateCall, Callbacks
  <2>. QED
    BY <1>0, <1>3, <2>1, <2>2, PrivateFrame DEF Picked
<1>4. ASSUME NEW t \in Thread, Enters(t)
      PROVE  Private'
  <2>1. PICK c \in CallType :
          /\ MovesTo(t, "check", c)
          /\ \A o \in Object \ escaped' :
               \A i \in 1..(Len(c.rest) + 1) :
                 Arg(c, i) = o => owner[o] = t \/ built[o]
          /\ localTags' = localTags /\ owner' = owner /\ built' = built
    BY <1>4, EntersEffect
  <2>2. PrivateCall(t, c)'
    BY <2>1 DEF PrivateCall, Arg
  <2>. QED
    BY <1>0, <2>1, <2>2, PrivateFrame
<1>5. ASSUME NEW t \in Thread, CountTag(t)
      PROVE  Private'
  <2>1. PICK c \in CallType : MovesTo(t, "check", c) /\ c.kind = "NEW"
    BY <1>5, CountEffect
  <2>2. PrivateCall(t, c)'
    BY <2>1 DEF PrivateCall, Callbacks
  <2>. QED
    BY <1>0, <1>5, <2>1, <2>2, PrivateFrame DEF CountTag
<1>6. ASSUME NEW t \in Thread, SetTag(t)
      PROVE  Private'
  <2>1. PICK c : c = call[t]
    OBVIOUS
  <2>2. /\ MovesTo(t, "called", c) /\ owner[c.first] = t
        /\ \A u \in Thread, p \in Object :
             localTags'[u][p] = localTags[u][p] \/ (u = t /\ p = c.first)
    BY <1>6, <2>1, SetEffect
  <2>3. PrivateCall(t, c)'
    BY <1>0, <2>1, PrivateSame
  <2>. QED
    BY <1>0, <2>2, <2>3, PrivateFrame
<1>7. ASSUME NEW t \in Thread, NewReturns(t)
      PROVE  Private'
  <2>1. MovesTo(t, "idle", NoCall) /\ NoCall.kind = "none" /\ localTags' = localTags
    BY <1>7, ReturnsEffect, NoCallType DEF NewReturns
  <2>2. PrivateCall(t, NoCall)'
    BY <2>1 DEF PrivateCall, Callbacks, NoCall
  <2>. QED
    BY <1>0, <2>1, <2>2, PrivateFrame
<1>8. ASSUME NEW t \in Thread, InitSteps(t)
      PROVE  Private'
  <2>1. PICK c : c = call[t]
    OBVIOUS
  <2>2. PICK loc \in {"store", "capable", "lookup", "set", "crashed"} :
          MovesTo(t, loc, c) /\ localTags' = localTags
    BY <1>8, <2>1, InitEffect
  <2>3. PrivateCall(t, c)'
    BY <1>0, <2>1, PrivateSame
  <2>. QED
    BY <1>0, <2>2, <2>3, PrivateFrame
<1>9. ASSUME NEW t \in Thread, LookupFirst(t)
      PROVE  Private'
  <2>1. PICK tag \in Int, c \in CallType :
          /\ CachesTag(t, call[t].first, tag) /\ call[t].kind \in Callbacks
          /\ MovesTo(t, "stamp", c) \/ MovesTo(t, "finish", c) \/ MovesTo(t, "idle", c)
          /\ c = NoCall \/ (c.first = call[t].first /\ c.rest = call[t].rest)
    BY <1>9, FirstEffect
  <2>2. PrivateCall(t, c)'
    BY <1>0, <2>1, NoCallType, PrivateSame DEF Callbacks
  <2>3. 1 \in 1..(Len(call[t].rest) + 1) /\ Arg(call[t], 1) = call[t].first
    BY <1>0, CallParts DEF Arg
  <2>4. \A p \in Object : p = call[t].first => p \in escaped \/ owner[p] = t \/ built[p]
    BY <1>0, <2>1, <2>3 DEF Private, PrivateCall
  <2>5. \A u \in Thread, p \in Object :
          localTags'[u][p] # 0 => localTags[u][p] # 0 \/ p \in escaped \/ owner[p] = u \/ built[p]
    BY <2>1, <2>4 DEF CachesTag
  <2>. QED
    BY <1>0, <2>1, <2>2, <2>5, PrivateFrame
<1>10. ASSUME NEW t \in Thread, LookupNext(t)
      PROVE  Private'
  <2>1. PICK tag \in Int, c \in CallType :
          /\ Len(call[t].tags) \in 1..Len(call[t].rest) /\ call[t].kind \in Callbacks
          /\ CachesTag(t, Arg(call[t], Len(call[t].tags) + 1), tag)
          /\ MovesTo(t, "finish", c)
          /\ c.first = call[t].first /\ c.rest = call[t].rest
    BY <1>10, NextEffect
  <2>2. PrivateCall(t, c)'
    BY <1>0, <2>1, PrivateSame
  <2>3. PICK i : i = Len(call[t].tags) + 1
    OBVIOUS
  <2>4. i \in 1..(Len(call[t].rest) + 1)
    BY <1>0, <2>1, <2>3, CallParts
  <2>5. \A p \in Object : p = Arg(call[t], i) => p \in escaped \/ owner[p] = t \/ built[p]
    BY <1>0, <2>1, <2>4 DEF Private, PrivateCall
  <2>6. \A u \in Thread, p \in Object :
          localTags'[u][p] # 0 => localTags[u][p] # 0 \/ p \in escaped \/ owner[p] = u \/ built[p]
    BY <2>1, <2>3, <2>5 DEF CachesTag
  <2>. QED
    BY <1>0, <2>1, <2>2, <2>6, PrivateFrame
<1>11. ASSUME NEW t \in Thread, AddRecord(t)
      PROVE  Private'
  <2>1. MovesTo(t, "idle", NoCall) /\ NoCall.kind = "none" /\ localTags' = localTags
    BY <1>11, RecordEffect, NoCallType DEF AddRecord
  <2>2. PrivateCall(t, NoCall)'
    BY <2>1 DEF PrivateCall, Callbacks, NoCall
  <2>. QED
    BY <1>0, <2>1, <2>2, PrivateFrame
<1>13. ASSUME NEW t \in Thread, Stamp(t)
      PROVE  Private'
  <2>1. PICK c \in CallType :
          /\ MovesTo(t, "finish", c) /\ call[t].kind = "AAStore"
          /\ c.first = call[t].first /\ c.rest = call[t].rest
    BY <1>13, StampEffect
  <2>2. PrivateCall(t, c)'
    BY <1>0, <2>1, PrivateSame DEF Callbacks
  <2>. QED
    BY <1>0, <1>13, <2>1, <2>2, PrivateFrame DEF Stamp
<1>12. ASSUME UNCHANGED vars
      PROVE  Private'
  BY <1>0, <1>12 DEF vars, heapVars, Private, PrivateCall, Arg
<1>. QED
  BY <1>1, <1>2, <1>3, <1>4, <1>5, <1>6, <1>7, <1>8, <1>9, <1>10, <1>11, <1>12, <1>13, StepCases


(* A step of t that finds "not sampled" only where the shared tag is missing. *)
LEMMA NegativesFrame ==
  ASSUME Negatives, NEW t \in Thread, NEW loc, NEW c, MovesTo(t, loc, c), loc # "called",
         escaped \subseteq escaped',
         built' = built, slot0' = slot0, globalTags' = globalTags,
         \A u \in Thread, p \in Object :
           \/ localTags'[u][p] = localTags[u][p]
           \/ u = t /\ (localTags'[u][p] = NotSampled => globalTags[slot0][p] = 0)
  PROVE  Negatives'
<1>1. ASSUME NEW u \in Thread, NEW o \in Object,
             o \notin escaped', localTags'[u][o] = NotSampled, built[o], slot0 # NoThread
      PROVE  globalTags[slot0][o] = 0
  BY <1>1 DEF Negatives
<1>2. ASSUME NEW u \in Thread, NEW o \in Object, pc'[u] = "called", call'[u].first = o
      PROVE  localTags'[u][o] > 0
  <2>1. u # t /\ pc[u] = "called" /\ call[u].first = o
    BY <1>2 DEF MovesTo
  <2>2. localTags'[u][o] = localTags[u][o]
    BY <2>1
  <2>. QED
    BY <2>1, <2>2 DEF Negatives
<1>. QED
  BY <1>1, <1>2 DEF Negatives

(* Where get_tag finds "not sampled", so would it in the shared environment. *)
LEMMA NegativesFound ==
  ASSUME TypeOK, Negatives, TagsKnown, NEW t \in Thread, NEW loc, NEW c,
         MovesTo(t, loc, c), loc # "called", escaped' = escaped,
         built' = built, slot0' = slot0, globalTags' = globalTags,
         NEW o, NEW tag, CachesTag(t, o, tag)
  PROVE  Negatives'
<1>1. ASSUME NEW u \in Thread, NEW p \in Object
      PROVE  \/ localTags'[u][p] = localTags[u][p]
             \/ u = t /\ (localTags'[u][p] = NotSampled => globalTags[slot0][p] = 0)
  <2>1. CASE u = t /\ p = o
    <3>1. Found(t, p, tag) /\ localTags'[u][p] = tag
      BY <2>1 DEF CachesTag
    <3>2. CASE localTags[t][p] # 0
      BY <2>1, <3>1, <3>2 DEF Found
    <3>3. CASE localTags[t][p] = 0 /\ globalTags[slot0][p] # 0
      <4>1. slot0 \in Thread /\ tag = globalTags[slot0][p]
        BY <3>1, <3>3 DEF Found
      <4>2. globalTags[slot0][p] # NotSampled
        BY <3>3, <4>1 DEF TagsKnown, TagOf, NotSampled
      <4>. QED
        BY <2>1, <3>1, <4>1, <4>2
    <3>4. CASE globalTags[slot0][p] = 0
      BY <2>1, <3>4
    <3>. QED
      BY <3>2, <3>3, <3>4
  <2>2. CASE ~(u = t /\ p = o)
    BY <2>2 DEF CachesTag
  <2>. QED
    BY <2>1, <2>2
<1>. QED
  BY <1>1, NegativesFrame

(* A cached negative of an object that did not leak stays right. *)
LEMMA NegativesStep ==
  ASSUME IInv, [Next]_vars
  PROVE  Negatives'
<1>0. TypeOK /\ EnvBeforeUse /\ CallShape /\ EnvsFresh /\ TagsAfterNew /\ TagsKnown /\ Private /\ Negatives /\ OwnersStay /\ escaped \subseteq escaped'
  BY OwnersKept DEF IInv
<1>. USE DEF envVars, heapVars
<1>1. ASSUME NEW t \in Thread, NEW o \in Object, Allocate(t, o)
      PROVE  Negatives'
  BY <1>0, <1>1 DEF Allocate, Negatives
<1>2. ASSUME NEW t \in Thread, NEW o \in Object, NotPicked(t, o)
      PROVE  Negatives'
  <2>1. pc[t] = "idle" /\ owner[o] = t /\ ~built[o]
    BY <1>2 DEF NotPicked
  <2>2. ~Called(o)
    BY <1>0, <2>1 DEF CallShape, Shape, Called
  <2>3. \A u \in Thread : globalTags[u][o] = 0
    BY <1>0, <2>1, <2>2 DEF TagsAfterNew
  <2>4. \A p \in Object : p # o => built'[p] = built[p]
    BY <1>0, <1>2 DEF NotPicked, TypeOK
  <2>5. UNCHANGED <<slot0, globalTags, localTags, escaped, pc, call>>
    BY <1>2 DEF NotPicked
  <2>6. slot0 # NoThread => slot0 \in Thread
    BY <1>0 DEF TypeOK
  <2>. QED
    BY <1>0, <2>3, <2>4, <2>5, <2>6 DEF Negatives
<1>3. ASSUME NEW t \in Thread, NEW o \in Object, Picked(t, o)
      PROVE  Negatives'
  BY <1>0, <1>3, PickedEffect, NegativesFrame DEF Picked
<1>4. ASSUME NEW t \in Thread, Enters(t)
      PROVE  Negatives'
  BY <1>0, <1>4, EntersEffect, NegativesFrame
<1>5. ASSUME NEW t \in Thread, CountTag(t)
      PROVE  Negatives'
  BY <1>0, <1>5, CountEffect, NegativesFrame DEF CountTag
<1>6. ASSUME NEW t \in Thread, SetTag(t)
      PROVE  Negatives'
  <2>1. PICK o, tag : o = call[t].first /\ tag = call[t].tags[1]
    OBVIOUS
  <2>2. /\ MovesTo(t, "called", call[t]) /\ ~built[o] /\ tag > 0
        /\ \A u \in Thread, p \in Object :
             /\ localTags'[u][p] = IF u = t /\ p = o THEN tag ELSE localTags[u][p]
             /\ p # o => globalTags'[u][p] = globalTags[u][p]
    BY <1>6, <2>1, SetEffect DEF TagOf
  <2>3. UNCHANGED <<slot0, built, escaped, call>>
    BY <1>6 DEF SetTag
  <2>4. \A u \in Thread, p \in Object : pc'[u] = "called" /\ call[u].first = p => localTags'[u][p] > 0
    BY <1>0, <2>1, <2>2 DEF MovesTo, Negatives
  <2>5. slot0 # NoThread => slot0 \in Thread
    BY <1>0 DEF TypeOK
  <2>. QED
    BY <1>0, <2>2, <2>3, <2>4, <2>5 DEF Negatives
<1>7. ASSUME NEW t \in Thread, NewReturns(t)
      PROVE  Negatives'
  <2>1. PICK o \in Object : o = call[t].first
    BY <1>7, ReturnsEffect
  <2>2. /\ MovesTo(t, "idle", NoCall) /\ pc[t] = "called" /\ call[t].kind = "NEW"
        /\ built' = [built EXCEPT ![o] = TRUE]
        /\ UNCHANGED <<slot0, globalTags, localTags, escaped>>
    BY <1>7, <2>1, ReturnsEffect DEF NewReturns
  <2>3. owner[o] = t /\ ~built[o]
    BY <1>0, <2>1, <2>2 DEF CallShape, Shape
  <2>4. localTags[t][o] > 0
    BY <1>0, <2>1, <2>2 DEF Negatives
  <2>5. \A u \in Thread : o \notin escaped /\ localTags[u][o] # 0 => u = t
    BY <1>0, <2>3 DEF Private
  <2>6. \A p \in Object : p # o => built'[p] = built[p]
    BY <1>0, <2>2 DEF TypeOK
  <2>7. \A u \in Thread, p \in Object :
          p \notin escaped /\ localTags[u][p] = NotSampled /\ built'[p] => p # o
    BY <2>4, <2>5 DEF NotSampled
  <2>8. \A u \in Thread : pc'[u] = "called" => pc[u] = "called" /\ call'[u] = call[u]
    BY <2>2 DEF MovesTo
  <2>. QED
    BY <1>0, <2>2, <2>6, <2>7, <2>8 DEF Negatives
<1>8. ASSUME NEW t \in Thread, InitSteps(t), slot0' = slot0, globalTags' = globalTags
      PROVE  Negatives'
  BY <1>0, <1>8, InitEffect, NegativesFrame
<1>9. ASSUME NEW t \in Thread, InitStore(t)
      PROVE  Negatives'
  <2>1. /\ slot0' = t /\ pc' = [pc EXCEPT ![t] = "capable"]
        /\ globalTags' = [globalTags EXCEPT ![t] = [o \in Object |-> 0]]
        /\ UNCHANGED <<localTags, built, escaped, call>>
    BY <1>9 DEF InitStore, Goto
  <2>2. \A p \in Object : globalTags'[t][p] = 0
    BY <1>0, <2>1 DEF TypeOK
  <2>3. \A u \in Thread : pc'[u] = "called" => pc[u] = "called"
    BY <1>0, <2>1 DEF TypeOK
  <2>. QED
    BY <1>0, <2>1, <2>2, <2>3 DEF Negatives
<1>10. ASSUME NEW t \in Thread, InitStoreFails(t)
      PROVE  Negatives'
  <2>1. /\ slot0' = NoThread /\ pc' = [pc EXCEPT ![t] = "capable"]
        /\ UNCHANGED <<localTags, call>>
    BY <1>10 DEF InitStoreFails, Goto
  <2>2. \A u \in Thread : pc'[u] = "called" => pc[u] = "called"
    BY <1>0, <2>1 DEF TypeOK
  <2>. QED
    BY <1>0, <2>1, <2>2 DEF Negatives
<1>15. ASSUME NEW t \in Thread, InitSteps(t)
      PROVE  Negatives'
  <2>1. CASE slot0' = slot0 /\ globalTags' = globalTags
    BY <1>8, <1>15, <2>1
  <2>2. InitStore(t) \/ InitStoreFails(t) \/ (slot0' = slot0 /\ globalTags' = globalTags)
    BY <1>15 DEF InitSteps, InitCheck, InitCapable, OwnEnvFails, UseNull
  <2>. QED
    BY <1>9, <1>10, <2>1, <2>2
<1>16. ASSUME NEW t \in Thread, Stamp(t)
      PROVE  Negatives'
  BY <1>0, <1>16, StampEffect, NegativesFrame DEF Stamp
<1>11. ASSUME NEW t \in Thread, LookupFirst(t)
      PROVE  Negatives'
  <2>1. PICK tag \in Int, c \in CallType :
          /\ CachesTag(t, call[t].first, tag) /\ pc[t] = "lookup"
          /\ MovesTo(t, "stamp", c) \/ MovesTo(t, "finish", c) \/ MovesTo(t, "idle", c)
    BY <1>11, FirstEffect
  <2>. QED
    BY <1>0, <1>11, <2>1, NegativesFound DEF LookupFirst
<1>12. ASSUME NEW t \in Thread, LookupNext(t)
      PROVE  Negatives'
  <2>1. PICK tag \in Int, c \in CallType :
          /\ CachesTag(t, Arg(call[t], Len(call[t].tags) + 1), tag) /\ pc[t] = "finish"
          /\ MovesTo(t, "finish", c)
    BY <1>12, NextEffect
  <2>. QED
    BY <1>0, <1>12, <2>1, NegativesFound DEF LookupNext
<1>13. ASSUME NEW t \in Thread, AddRecord(t)
      PROVE  Negatives'
  BY <1>0, <1>13, RecordEffect, NegativesFrame DEF AddRecord
<1>14. ASSUME UNCHANGED vars
      PROVE  Negatives'
  BY <1>0, <1>14 DEF vars, Negatives
<1>. QED
  BY <1>1, <1>2, <1>3, <1>4, <1>5, <1>6, <1>7, <1>11, <1>12, <1>13, <1>14, <1>15, <1>16, StepCases


(* A step of t that adds no NEW record of an object others know. *)
LEMMA TimedFrame ==
  ASSUME TimesRight, trace \subseteq trace', escaped \subseteq escaped',
         NEW t \in Thread, NEW loc, NEW c, MovesTo(t, loc, c), Timed(loc, c)',
         \A n \in NewRecords' : n \in NewRecords \/
           \A u \in Thread : u # t /\ call[u].kind \in {"PutField", "AAStore"} =>
             \A i \in 1..(Len(call[u].rest) + 1) :
               Arg(call[u], i) \in Object \ escaped => n.objs[1] # Arg(call[u], i)
  PROVE  TimesRight'
<1>. SUFFICES ASSUME NEW u \in Thread
              PROVE  Timed(pc[u], call[u])'
  BY DEF TimesRight
<1>1. CASE u = t
  BY <1>1 DEF MovesTo, Timed, NewBefore, AllBefore, Arg
<1>2. CASE u # t
  <2>1. pc'[u] = pc[u] /\ call'[u] = call[u] /\ Timed(pc[u], call[u])
    BY <1>2 DEF MovesTo, TimesRight
  <2>2. \A o, time : NewBefore(o, time) => NewBefore(o, time)'
    BY NamesGrow
  <2>3. ASSUME call[u].kind \in {"PutField", "AAStore"}, NEW i \in 1..(Len(call[u].rest) + 1),
               Arg(call[u], i) \in Object \ escaped,
               AllBefore(Arg(call[u], i), call[u].time)
        PROVE  \A n \in NewRecords' : n.objs[1] = Arg(call[u], i) => n.time < call[u].time
    BY <1>2, <2>3 DEF AllBefore
  <2>4. PICK c2, loc2 : c2 = call[u] /\ loc2 = pc[u]
    OBVIOUS
  <2>5. Timed(loc2, c2)'
    <3>1. ASSUME c2.kind = "AAStore", loc2 = "finish", c2.first # Null
          PROVE  NewBefore(c2.first, c2.time)'
      BY <2>1, <2>2, <2>4, <3>1 DEF Timed
    <3>2. ASSUME c2.kind = "PutField" \/ (c2.kind = "AAStore" /\ loc2 = "finish"),
                 NEW i \in 1..(Len(c2.rest) + 1), Arg(c2, i) \in Object \ escaped'
          PROVE  AllBefore(Arg(c2, i), c2.time)'
      <4>1. Arg(c2, i) \in Object \ escaped
        BY <3>2
      <4>2. AllBefore(Arg(call[u], i), call[u].time)
        BY <2>1, <2>4, <3>2, <4>1 DEF Timed
      <4>3. \A n \in NewRecords' : n.objs[1] = Arg(c2, i) => n.time < c2.time
        BY <2>3, <2>4, <3>2, <4>1, <4>2
      <4>. QED
        BY <4>3 DEF AllBefore, Arg
    <3>. QED
      BY <3>1, <3>2 DEF Timed, Arg
  <2>. QED
    BY <2>1, <2>4, <2>5 DEF Timed, NewBefore, AllBefore, Arg
<1>. QED
  BY <1>1, <1>2

(* A call that goes on keeps its time, until AASTORE reads the clock. *)
LEMMA TimedSame ==
  ASSUME TimesRight, escaped \subseteq escaped', NewRecords' = NewRecords,
         NEW t \in Thread, NEW loc, NEW c,
         c.kind = call[t].kind, c.first = call[t].first, c.rest = call[t].rest,
         c.time = call[t].time,
         c.kind = "AAStore" /\ loc = "finish" => pc[t] = "finish"
  PROVE  Timed(loc, c)'
<1>1. Timed(pc[t], call[t]) /\ \A i : Arg(c, i) = Arg(call[t], i)
  BY DEF TimesRight, Arg
<1>2. c.kind = "AAStore" /\ loc = "finish" /\ c.first # Null => NewBefore(c.first, c.time)'
  BY <1>1 DEF Timed, NewBefore
<1>3. ASSUME c.kind = "PutField" \/ (c.kind = "AAStore" /\ loc = "finish"),
             NEW i \in 1..(Len(c.rest) + 1), Arg(c, i) \in Object \ escaped'
      PROVE  AllBefore(Arg(c, i), c.time)'
  <2>1. AllBefore(Arg(call[t], i), call[t].time)
    BY <1>1, <1>3 DEF Timed
  <2>. QED
    BY <1>1, <2>1 DEF AllBefore, Arg
<1>. QED
  BY <1>2, <1>3 DEF Timed, Arg

(* A call that reads the clock is younger than every NEW record. *)
LEMMA TimedNow ==
  ASSUME TimesPast, NewRecords' = NewRecords, NEW loc, NEW c,
         c.kind \in {"PutField", "AAStore"} => c.time = clock,
         c.kind = "AAStore" /\ loc = "finish" /\ c.first # Null =>
           \E n \in NewRecords : n.objs[1] = c.first
  PROVE  Timed(loc, c)'
<1>1. \A n \in NewRecords : n.time < clock
  BY DEF TimesPast, NewRecords
<1>2. c.kind = "AAStore" /\ loc = "finish" /\ c.first # Null => NewBefore(c.first, c.time)'
  BY <1>1 DEF NewBefore
<1>3. c.kind \in {"PutField", "AAStore"} => \A i : AllBefore(Arg(c, i), c.time)'
  BY <1>1 DEF AllBefore, Arg
<1>. QED
  BY <1>2, <1>3 DEF Timed, Arg

(* The times taken before the record stay right. *)
LEMMA TimedStep ==
  ASSUME IInv, [Next]_vars
  PROVE  TimesRight'
<1>0. TypeOK /\ CallShape /\ TagsKnown /\ Private /\ TimesPast /\ TimesRight /\ trace \subseteq trace' /\ escaped \subseteq escaped'
  BY TraceGrows, OwnersKept DEF IInv
<1>. USE DEF envVars, heapVars
<1>1. ASSUME NEW t \in Thread, NEW o \in Object, Allocate(t, o)
      PROVE  TimesRight'
  BY <1>0, <1>1 DEF Allocate, TimesRight, Timed, NewBefore, AllBefore, NewRecords, Arg
<1>2. ASSUME NEW t \in Thread, NEW o \in Object, NotPicked(t, o)
      PROVE  TimesRight'
  BY <1>0, <1>2 DEF NotPicked, TimesRight, Timed, NewBefore, AllBefore, NewRecords, Arg
<1>3. ASSUME NEW t \in Thread, NEW o \in Object, Picked(t, o)
      PROVE  TimesRight'
  <2>1. PICK c \in CallType : MovesTo(t, "count", c) /\ c.kind = "NEW"
    BY <1>3, PickedEffect
  <2>2. Timed("count", c)' /\ NewRecords' = NewRecords
    BY <1>3, <2>1 DEF Timed, Picked, NewRecords
  <2>. QED
    BY <1>0, <2>1, <2>2, TimedFrame
<1>4. ASSUME NEW t \in Thread, Enters(t)
      PROVE  TimesRight'
  <2>1. PICK c \in CallType :
          /\ MovesTo(t, "check", c)
          /\ c.kind = "PutField" => c.time = clock
          /\ trace' = trace
    BY <1>4, EntersEffect
  <2>2. NewRecords' = NewRecords /\ \A n \in NewRecords : n.time < clock
    BY <1>0, <2>1 DEF NewRecords, TimesPast
  <2>3. Timed("check", c)'
    BY <2>1, <2>2 DEF Timed, AllBefore, Arg
  <2>. QED
    BY <1>0, <2>1, <2>2, <2>3, TimedFrame
<1>5. ASSUME NEW t \in Thread, CountTag(t)
      PROVE  TimesRight'
  <2>1. PICK c \in CallType, n \in EntryType :
          /\ MovesTo(t, "check", c) /\ c.kind = "NEW" /\ call[t].kind = "NEW"
          /\ trace' = trace \cup {n} /\ n.objs[1] = call[t].first
    BY <1>5, CountEffect
  <2>2. Timed("check", c)'
    BY <2>1 DEF Timed
  <2>3. PICK o \in Object : o = call[t].first /\ owner[o] = t /\ ~built[o]
    BY <1>0, <2>1 DEF CallShape, Shape
  <2>4. ASSUME NEW u \in Thread, u # t, call[u].kind \in {"PutField", "AAStore"},
               NEW i \in 1..(Len(call[u].rest) + 1), Arg(call[u], i) \in Object \ escaped
        PROVE  n.objs[1] # Arg(call[u], i)
    <3>1. PrivateCall(u, call[u])
      BY <1>0 DEF Private
    <3>. QED
      BY <2>1, <2>3, <2>4, <3>1 DEF PrivateCall, Callbacks
  <2>5. \A m \in NewRecords' : m \in NewRecords \/ m = n
    BY <2>1 DEF NewRecords
  <2>. QED
    BY <1>0, <2>1, <2>2, <2>4, <2>5, TimedFrame
<1>6. ASSUME NEW t \in Thread, SetTag(t)
      PROVE  TimesRight'
  <2>1. PICK c : c = call[t]
    OBVIOUS
  <2>2. MovesTo(t, "called", c)
    BY <1>6, <2>1, SetEffect
  <2>3. NewRecords' = NewRecords
    BY <1>6 DEF SetTag, NewRecords
  <2>4. Timed("called", c)'
    BY <1>0, <2>1, <2>3, TimedSame
  <2>. QED
    BY <1>0, <2>2, <2>3, <2>4, TimedFrame
<1>7. ASSUME NEW t \in Thread, NewReturns(t)
      PROVE  TimesRight'
  <2>1. MovesTo(t, "idle", NoCall) /\ NoCall.kind = "none"
    BY <1>7, ReturnsEffect, NoCallType
  <2>2. Timed("idle", NoCall)' /\ NewRecords' = NewRecords
    BY <1>7, <2>1 DEF Timed, NewReturns, NewRecords, NoCall
  <2>. QED
    BY <1>0, <2>1, <2>2, TimedFrame
<1>8. ASSUME NEW t \in Thread, InitSteps(t)
      PROVE  TimesRight'
  <2>1. PICK c : c = call[t]
    OBVIOUS
  <2>2. PICK loc \in {"store", "capable", "lookup", "set", "crashed"} :
          MovesTo(t, loc, c) /\ trace' = trace
    BY <1>8, <2>1, InitEffect
  <2>3. NewRecords' = NewRecords
    BY <2>2 DEF NewRecords
  <2>4. Timed(loc, c)'
    BY <1>0, <2>1, <2>3, TimedSame
  <2>. QED
    BY <1>0, <2>2, <2>3, <2>4, TimedFrame
<1>9. ASSUME NEW t \in Thread, LookupFirst(t)
      PROVE  TimesRight'
  <2>1. PICK c \in CallType :
          \/ /\ MovesTo(t, IF c.kind = "AAStore" THEN "stamp" ELSE "finish", c)
             /\ c.kind = call[t].kind /\ c.first = call[t].first /\ c.rest = call[t].rest
             /\ c.time = call[t].time
          \/ MovesTo(t, "idle", c) /\ c = NoCall
    BY <1>9, FirstEffect
  <2>2. NewRecords' = NewRecords
    BY <1>9 DEF LookupFirst, NewRecords
  <2>4. CASE MovesTo(t, "idle", c) /\ c = NoCall
    <3>1. Timed("idle", c)'
      BY <2>4, NoCallType DEF Timed
    <3>. QED
      BY <1>0, <2>2, <2>4, <3>1, TimedFrame
  <2>5. CASE /\ MovesTo(t, IF c.kind = "AAStore" THEN "stamp" ELSE "finish", c)
             /\ c.kind = call[t].kind /\ c.first = call[t].first /\ c.rest = call[t].rest
             /\ c.time = call[t].time
    <3>1. PICK loc : loc = IF c.kind = "AAStore" THEN "stamp" ELSE "finish"
      OBVIOUS
    <3>2. Timed(loc, c)'
      BY <1>0, <2>2, <2>5, <3>1, TimedSame
    <3>. QED
      BY <1>0, <2>2, <2>5, <3>1, <3>2, TimedFrame
  <2>. QED
    BY <2>1, <2>4, <2>5
<1>10. ASSUME NEW t \in Thread, LookupNext(t)
      PROVE  TimesRight'
  <2>1. PICK c \in CallType :
          /\ pc[t] = "finish" /\ MovesTo(t, "finish", c)
          /\ c.kind = call[t].kind /\ c.first = call[t].first /\ c.rest = call[t].rest
          /\ c.time = call[t].time
    BY <1>10, NextEffect
  <2>2. NewRecords' = NewRecords
    BY <1>10 DEF LookupNext, NewRecords
  <2>3. Timed("finish", c)'
    BY <1>0, <2>1, <2>2, TimedSame
  <2>. QED
    BY <1>0, <2>1, <2>2, <2>3, TimedFrame
<1>13. ASSUME NEW t \in Thread, Stamp(t)
      PROVE  TimesRight'
  <2>1. PICK c \in CallType :
          /\ pc[t] = "stamp" /\ Len(call[t].tags) = 1 /\ MovesTo(t, "finish", c)
          /\ c.kind = "AAStore" /\ c.first = call[t].first /\ c.time = clock
    BY <1>13, StampEffect
  <2>2. NewRecords' = NewRecords
    BY <1>13 DEF Stamp, NewRecords
  <2>3. 1 \in 1..Len(call[t].tags) /\ Arg(call[t], 1) = call[t].first
    BY <2>1 DEF Arg
  <2>4. c.first # Null => \E n \in NewRecords : n.objs[1] = c.first
    BY <1>0, <2>1, <2>3 DEF TagsKnown, Known, TagOf, Names
  <2>5. Timed("finish", c)'
    BY <1>0, <2>1, <2>2, <2>4, TimedNow
  <2>. QED
    BY <1>0, <2>1, <2>2, <2>5, TimedFrame
<1>11. ASSUME NEW t \in Thread, AddRecord(t)
      PROVE  TimesRight'
  <2>1. MovesTo(t, "idle", NoCall) /\ NoCall.kind = "none" /\ NewRecords' = NewRecords
    BY <1>11, RecordEffect, RecordIsNotNew, NoCallType
  <2>2. Timed("idle", NoCall)'
    BY <2>1 DEF Timed, NoCall
  <2>. QED
    BY <1>0, <2>1, <2>2, TimedFrame
<1>12. ASSUME UNCHANGED vars
      PROVE  TimesRight'
  BY <1>0, <1>12 DEF vars, TimesRight, Timed, NewBefore, AllBefore, NewRecords, Arg
<1>. QED
  BY <1>1, <1>2, <1>3, <1>4, <1>5, <1>6, <1>7, <1>8, <1>9, <1>10, <1>11, <1>12, <1>13, StepCases

(* What AllocatedBeforeUse asks of the i-th object of r, with that object. *)
Dated(r, i) ==
  /\ r.objs[i] # Null
  /\ i = 1 \/ r.addrs[i] # Addr(NotSampled)
  /\ StampedFirst(r, i) => r.objs[i] \notin escaped

(* No new record is older than the NEW records of its objects. *)
LEMMA AllocatedStep ==
  ASSUME IInv, [Next]_vars
  PROVE  AllocatedBeforeUse'
<1>0. /\ TypeOK /\ CallShape /\ TagsKnown /\ TimesPast /\ TimesRight /\ AllocatedBeforeUse
      /\ trace \subseteq trace' /\ escaped \subseteq escaped'
  BY TraceGrows, OwnersKept DEF IInv
<1>1. NewRecords \subseteq NewRecords'
  BY <1>0, NamesGrow
<1>2. ASSUME NEW r \in trace, r.kind # "NEW", NEW i \in 1..Len(r.addrs), Dated(r, i)'
      PROVE  \E n \in NewRecords' : n.objs[1] = r.objs[i] /\ n.time < r.time
  <2>1. /\ r.objs[i] # Null /\ (i = 1 \/ r.addrs[i] # Addr(NotSampled))
        /\ StampedFirst(r, i) => r.objs[i] \notin escaped
    BY <1>0, <1>2 DEF Dated, StampedFirst, Addr, NotSampled
  <2>. QED
    BY <1>0, <1>1, <1>2, <2>1 DEF AllocatedBeforeUse
<1>3. SUFFICES ASSUME NEW r \in trace', r \notin trace, r.kind # "NEW",
                      NEW i \in 1..Len(r.addrs), Dated(r, i)'
               PROVE  \E n \in NewRecords' : n.objs[1] = r.objs[i] /\ n.time < r.time
  BY <1>2 DEF AllocatedBeforeUse, Dated
<1>4. ~\E t \in Thread : CountTag(t)
  <2>1. ASSUME NEW t \in Thread, CountTag(t) PROVE FALSE
    BY <1>3, <2>1, CountEffect
  <2>. QED
    BY <2>1
<1>5. PICK t \in Thread : AddRecord(t)
  BY <1>3, <1>4, TraceCases
<1>6. /\ pc[t] = "finish" /\ call[t].kind \in Callbacks
      /\ Len(call[t].tags) = Len(call[t].rest) + 1
      /\ r.kind = call[t].kind /\ Len(r.addrs) = Len(call[t].tags)
      /\ \A j \in 1..Len(call[t].tags) :
           r.addrs[j] = Addr(call[t].tags[j]) /\ r.objs[j] = Arg(call[t], j)
      /\ r.kind \in {"PutField", "AAStore"} => r.time = call[t].time
      /\ r.kind \notin {"PutField", "AAStore"} => r.time = clock
  BY <1>3, <1>5, RecordEffect
<1>7. /\ r.objs[i] = Arg(call[t], i) /\ r.addrs[i] = Addr(call[t].tags[i])
      /\ i \in 1..(Len(call[t].rest) + 1)
  BY <1>6
<1>8. /\ r.objs[i] # Null /\ (i = 1 \/ r.addrs[i] # Addr(NotSampled))
      /\ StampedFirst(r, i) => r.objs[i] \notin escaped
  BY <1>0, <1>3 DEF Dated, StampedFirst, Addr, NotSampled
<1>9. Arg(call[t], i) \in Object
  <2>1. /\ call[t].first \in Object \cup {Null} /\ call[t].rest \in Seq(Object \cup {Null})
        /\ Len(call[t].rest) \in Nat
    BY <1>0, CallParts
  <2>2. CASE i = 1
    BY <1>7, <1>8, <2>1, <2>2 DEF Arg
  <2>3. CASE i # 1
    <3>1. i - 1 \in 1..Len(call[t].rest)
      BY <1>7, <2>1, <2>3
    <3>. QED
      BY <1>7, <1>8, <2>1, <2>3, <3>1, ElementOfSeq DEF Arg
  <2>. QED
    BY <2>2, <2>3
<1>10. PICK n \in NewRecords : n.objs[1] = r.objs[i]
  <2>1. i > 1 => call[t].tags[i] # NotSampled
    BY <1>7, <1>8
  <2>2. TagOf(Arg(call[t], i), call[t].tags[i]) \/ (i > 1 /\ call[t].tags[i] = NotSampled)
    BY <1>0, <1>6, <1>7, <1>8 DEF TagsKnown, Known
  <2>. QED
    BY <1>7, <2>1, <2>2 DEF TagOf, Names
<1>11. Timed("finish", call[t])
  BY <1>0, <1>6 DEF TimesRight
<1>12. CASE r.kind \notin {"PutField", "AAStore"}
  <2>1. n.time < clock
    BY <1>0, <1>10 DEF TimesPast, NewRecords
  <2>. QED
    BY <1>1, <1>6, <1>10, <1>12, <2>1
<1>13. CASE r.kind = "AAStore" /\ i = 1
  <2>1. Arg(call[t], 1) = call[t].first
    BY DEF Arg
  <2>2. NewBefore(r.objs[i], r.time)
    BY <1>6, <1>7, <1>8, <1>11, <1>13, <2>1 DEF Timed
  <2>. QED
    BY <1>1, <2>2 DEF NewBefore
<1>14. CASE r.kind = "PutField" \/ (r.kind = "AAStore" /\ i # 1)
  <2>1. i \in Nat /\ i >= 1
    BY <1>0, <1>7, CallParts
  <2>2. Arg(call[t], i) \in Object \ escaped
    BY <1>7, <1>8, <1>9, <1>14, <2>1 DEF StampedFirst
  <2>3. AllBefore(Arg(call[t], i), call[t].time)
    BY <1>6, <1>7, <1>11, <1>14, <2>2 DEF Timed
  <2>4. n.time < r.time
    BY <1>6, <1>7, <1>10, <1>14, <2>3 DEF AllBefore
  <2>. QED
    BY <1>1, <1>10, <2>4
<1>. QED
  BY <1>12, <1>13, <1>14

-----------------------------------------------------------------------------
(* The results *)

(* The invariant holds at the start. *)
LEMMA InitIInv ==
  ASSUME Init
  PROVE  IInv
<1>. USE DEF Init
<1>1. TypeOK
  <2>1. call \in [Thread -> CallType] /\ pc \in [Thread -> Locations]
    BY NoCallType DEF Locations
  <2>2. /\ canTag \in [Thread -> BOOLEAN] /\ localEnv \in [Thread -> BOOLEAN]
        /\ built \in [Object -> BOOLEAN]
    OBVIOUS
  <2>3. /\ globalTags \in [Thread -> [Object -> Int]]
        /\ localTags \in [Thread -> [Object -> Int]]
    OBVIOUS
  <2>4. global_tag \in Nat /\ clock \in Nat /\ calls \in [Thread -> Nat]
    BY DEF FirstTag
  <2>5. owner \in [Object -> Thread \cup {NoThread}] /\ slot0 \in Thread \cup {NoThread}
    OBVIOUS
  <2>6. new_called \in BOOLEAN /\ escaped \subseteq Object /\ trace \subseteq EntryType
        /\ failed \subseteq Thread
    OBVIOUS
  <2>. QED
    BY <2>1, <2>2, <2>3, <2>4, <2>5, <2>6, Zenon DEF TypeOK, Tag
<1>2. EnvBeforeUse /\ EnvsFresh
  BY NoThreadAssumption DEF EnvBeforeUse, EnvsFresh, InUse, Crashed
<1>3. CallShape /\ TimesRight
  BY NoCallType DEF CallShape, Shape, TimesRight, Timed
<1>4. TagsKnown
  BY NoCallType DEF TagsKnown, Known
<1>5. TagsFresh /\ RecordsRight /\ AllocatedBeforeUse
  BY DEF TagsFresh, RecordsRight, AllocatedBeforeUse, NewRecords, FirstTag
<1>6. TagsAfterNew /\ Negatives
  BY DEF TagsAfterNew, Negatives, NotSampled
<1>7. Private
  BY NoCallType DEF Private, PrivateCall, Callbacks
<1>8. TimesPast
  BY NoCallType DEF TimesPast
<1>. QED
  BY <1>1, <1>2, <1>3, <1>4, <1>5, <1>6, <1>7, <1>8 DEF IInv

(***************************************************************************)
(* IInv is an invariant: how tags, caches, callbacks and records belong    *)
(* together, however threads interleave.                                   *)
(***************************************************************************)
THEOREM Invariance == Spec => []IInv
<1>1. Init => IInv
  BY InitIInv
<1>2. IInv /\ [Next]_vars => IInv'
  BY TypeStep, EnvStep, ShapeStep, KnownStep, FreshStep, RecordsStep, EnvsFreshStep,
     AfterNewStep, PrivateStep, NegativesStep, PastStep, TimedStep, AllocatedStep DEF IInv
<1>. QED
  BY <1>1, <1>2, PTL DEF Spec

(* Every variable keeps its type in every behaviour of the callbacks. *)
THEOREM TypeCorrect == Spec => []TypeOK
<1>1. IInv => TypeOK
  BY DEF IInv
<1>. QED
  BY <1>1, Invariance, PTL

(***************************************************************************)
(* However many threads race in init_jvmti, no callback goes through a     *)
(* NULL jvmti_env[0] or local_jvmti_env but for a GetEnv call that failed. *)
(***************************************************************************)
THEOREM EnvironmentsSet == Spec => []EnvBeforeUse
<1>1. IInv => EnvBeforeUse
  BY DEF IInv
<1>. QED
  BY <1>1, Invariance, PTL

(***************************************************************************)
(* A record carries the tag of its own objects and of no other, as long as *)
(* the tags handed out fit the 32 bit address of a record.                 *)
(***************************************************************************)
THEOREM RightObjects == Spec => []RecordsNameTheirObjects
<1>1. IInv => RecordsNameTheirObjects
  <2>. SUFFICES ASSUME IInv PROVE RecordsNameTheirObjects
    OBVIOUS
  <2>1. AddrsIdentify
    <3>. SUFFICES ASSUME global_tag < AddrSpace, NEW n \in NewRecords
                  PROVE  /\ n.addrs[1] \notin {0, Addr(NotSampled)}
                         /\ \A m \in NewRecords : m.addrs[1] = n.addrs[1] => m.objs[1] = n.objs[1]
      BY DEF AddrsIdentify
    <3>1. global_tag \in Nat /\ AddrSpace \in Nat
      BY AddrSpaceAssumption DEF IInv, TypeOK
    <3>2. /\ n.addrs[1] \in FirstTag..(global_tag - 1)
          /\ \A m \in NewRecords : m.addrs[1] = n.addrs[1] => m.objs[1] = n.objs[1]
      BY <3>1 DEF IInv, TagsFresh
    <3>3. Addr(NotSampled) = AddrSpace - 1
      BY AddrType
    <3>4. n.addrs[1] # 0 /\ n.addrs[1] # Addr(NotSampled)
      BY <3>1, <3>2, <3>3 DEF FirstTag
    <3>. QED
      BY <3>2, <3>4
  <2>. QED
    BY <2>1 DEF IInv, RecordsRight, RecordsNameTheirObjects
<1>. QED
  BY <1>1, Invariance, PTL

(***************************************************************************)
(* A thread that cached "not sampled" for an object whose constructor did  *)
(* not leak this is right: the tag is not in jvmti_env[0] either.          *)
(***************************************************************************)
THEOREM NegativesRight == Spec => []NoStaleNegative
<1>1. IInv => NoStaleNegative
  BY DEF IInv, TypeOK, Negatives, NoStaleNegative, Published, GlobalTag
<1>. QED
  BY <1>1, Invariance, PTL

(***************************************************************************)
(* In the trace every sampled object of a record is allocated before it is *)
(* used, but for leaked objects of PUTFIELD and leaked holders of AASTORE. *)
(***************************************************************************)
THEOREM AllocatedFirst == Spec => []AllocatedBeforeUse
<1>1. IInv => AllocatedBeforeUse
  BY DEF IInv
<1>. QED
  BY <1>1, Invariance, PTL

(* Found tags are kept where they are found. *)
LEMMA StableStep ==
  ASSUME IInv, [Next]_vars, NEW t \in Thread, NEW o \in Object
  PROVE  /\ is_sampled_object(localTags[t][o]) => localTags'[t][o] = localTags[t][o]
         /\ globalTags[t][o] # 0 /\ (slot0' = t => slot0 = t) => globalTags'[t][o] = globalTags[t][o]
<1>0. TypeOK /\ CallShape /\ TagsAfterNew /\ EnvsFresh
  BY DEF IInv
<1>. DEFINE Stable == /\ localTags[t][o] > 0 => localTags'[t][o] = localTags[t][o]
                      /\ globalTags[t][o] # 0 /\ (slot0' = t => slot0 = t) => globalTags'[t][o] = globalTags[t][o]
<1>1. ASSUME NEW u \in Thread, SetTag(u) PROVE Stable
  <2>1. PICK p \in Object : p = call[u].first /\ owner[p] = u /\ ~built[p]
    BY <1>1, SetEffect
  <2>2. pc[u] = "set"
    BY <1>1 DEF SetTag
  <2>3. ~Called(p)
    BY <1>0, <2>1, <2>2 DEF CallShape, Shape, Called
  <2>4. p = o => ~(localTags[t][o] > 0) /\ globalTags[t][o] = 0
    BY <1>0, <2>1, <2>3 DEF TagsAfterNew
  <2>5. p # o => localTags'[t][o] = localTags[t][o] /\ globalTags'[t][o] = globalTags[t][o]
    BY <1>1, <2>1, SetEffect
  <2>. QED
    BY <2>4, <2>5
<1>2. ASSUME NEW u \in Thread, NEW p, NEW tag, CachesTag(u, p, tag), globalTags' = globalTags
      PROVE  Stable
  <2>1. CASE u = t /\ p = o
    BY <1>2, <2>1 DEF CachesTag, Found
  <2>2. CASE ~(u = t /\ p = o)
    BY <1>2, <2>2 DEF CachesTag
  <2>. QED
    BY <2>1, <2>2
<1>3. CASE localTags' = localTags /\ globalTags' = globalTags
  BY <1>3
<1>7. ASSUME NEW u \in Thread, InitStore(u) PROVE Stable
  <2>1. /\ slot0' = u /\ slot0 # u /\ localTags' = localTags
        /\ globalTags' = [globalTags EXCEPT ![u] = [p \in Object |-> 0]]
    BY <1>0, <1>7 DEF InitStore, EnvsFresh
  <2>2. u # t => globalTags'[t][o] = globalTags[t][o]
    BY <1>0, <2>1 DEF TypeOK
  <2>. QED
    BY <2>1, <2>2
<1>4. ASSUME NEW u \in Thread, LookupFirst(u) \/ LookupNext(u) PROVE Stable
  BY <1>2, <1>4, FirstEffect, NextEffect DEF LookupFirst, LookupNext
<1>5. \/ localTags' = localTags /\ globalTags' = globalTags
      \/ \E u \in Thread : SetTag(u) \/ InitStore(u) \/ LookupFirst(u) \/ LookupNext(u)
  <2>1. ASSUME NEW u \in Thread, Enters(u)
        PROVE  localTags' = localTags /\ globalTags' = globalTags
    BY <2>1, EntersEffect DEF envVars
  <2>. QED
    BY <2>1, StepCases
       DEF envVars, Allocate, NotPicked, Picked, CountTag, NewReturns, InitSteps, InitCheck,
           InitCapable, InitStoreFails, OwnEnvFails, UseNull, Stamp, AddRecord, vars
<1>6. Stable
  <2>1. ASSUME NEW u \in Thread, SetTag(u) \/ InitStore(u) \/ LookupFirst(u) \/ LookupNext(u)
        PROVE  Stable
    BY <1>1, <1>4, <1>7, <2>1
  <2>. QED
    BY <1>3, <1>5, <2>1
<1>. QED
  BY <1>6 DEF is_sampled_object

(***************************************************************************)
(* Action property: no step of any thread drops or replaces a tag, neither *)
(* in the cache of a thread nor in a shared environment, unless GetEnv     *)
(* makes a new environment in its place.                                   *)
(***************************************************************************)
THEOREM Stability == Spec => TagsAreStable
<1>1. IInv /\ [Next]_vars =>
        [/\ \A t \in Thread, o \in Object :
              is_sampled_object(localTags[t][o]) => localTags'[t][o] = localTags[t][o]
         /\ \A t \in Thread, o \in Object :
              globalTags[t][o] # 0 /\ (slot0' = t => slot0 = t) => globalTags'[t][o] = globalTags[t][o]]_vars
  BY StableStep
<1>. QED
  BY <1>1, Invariance, PTL DEF Spec, TagsAreStable
=============================================================================
