------------------------------ MODULE TagStore ------------------------------
(***************************************************************************)
(* Object identity in CINST: native/native.cpp gives every sampled object  *)
(* a JVMTI tag and writes the tag into each record about the object.       *)
(*                                                                         *)
(* A tag lives in two JVMTI environments: jvmti_env[0], shared by all      *)
(* threads and created on first use without a lock (init_jvmti), and the   *)
(* thread's own local_jvmti_env, a cache.  get_tag asks the cache, then    *)
(* the shared environment, and caches the answer, -1 for "not sampled"     *)
(* included.  GetEnv can fail: init_jvmti logs that, and goes through the  *)
(* NULL pointer the failed call left, which ends the process.              *)
(*                                                                         *)
(* A step of this module makes at most one access to what threads share:   *)
(* jvmti_env[0], the tags in it, global_tag, new_called and the clock.     *)
(***************************************************************************)
EXTENDS Integers, Sequences

CONSTANTS
  Thread,
  NoThread,       \* jvmti_env[0] is NULL
  Object,
  Null,           \* the Java null reference
  Refs,           \* what the program stores and passes: objects, null or not
  Calls,          \* which callbacks the agent's mode puts into the bytecode
  AddrSpace,      \* 2^32: records hold a tag in a uint32_t
  MaxArgs,        \* objects a container callback looks up besides its holder
  MaxCalls        \* bound: callbacks per thread, addTagNewRecord excepted

Callbacks == {"Construct", "PutField", "AAStore", "Use", "Container"}

FirstTag == 10    \* initial value of global_tag
NotSampled == -1  \* the tag get_tag reports, and caches, for other objects

ASSUME CallsAssumption     == Calls \subseteq Callbacks
ASSUME NullAssumption      == Null \notin Object
ASSUME RefsAssumption      == Object \subseteq Refs /\ Refs \subseteq Object \cup {Null}
ASSUME NoThreadAssumption  == NoThread \notin Thread
ASSUME AddrSpaceAssumption == AddrSpace \in Nat /\ AddrSpace > FirstTag
ASSUME BoundsAssumption    == MaxArgs \in Nat /\ MaxCalls \in Nat

VARIABLES
  slot0,        \* jvmti_env[0]: the thread whose GetEnv call made it
  canTag,       \* canTag[t]: the environment made by t has can_tag_objects
  globalTags,   \* globalTags[t][o]: tag of o in that environment, 0 if none
  localEnv,     \* localEnv[t]: local_jvmti_env is set
  localTags,    \* localTags[t][o]: tag of o in t's own environment
  global_tag,
  new_called,
  clock,        \* nanotime(): every reading is a new value
  owner,        \* owner[o]: the thread that allocates o
  built,        \* built[o]: the constructor and its NEW callback returned
  escaped,      \* objects another thread named before they were built
  pc,           \* pc[t]: what t does next inside a callback, or idle
  call,         \* call[t]: arguments and locals of that callback
  calls,        \* calls[t]: callbacks made, for the bound
  failed,       \* history: the threads with a failed GetEnv call
  trace         \* the records added, with the objects they are about

envVars  == <<slot0, canTag, globalTags, localEnv, localTags>>
heapVars == <<owner, built, escaped>>
vars == <<envVars, heapVars, global_tag, new_called, clock, pc, call, calls, failed, trace>>

NoCall == [kind |-> "none", first |-> Null, rest |-> << >>, tags |-> << >>, time |-> 0]

Init ==
  /\ slot0 = NoThread
  /\ canTag = [t \in Thread |-> FALSE]
  /\ globalTags = [t \in Thread |-> [o \in Object |-> 0]]
  /\ localEnv = [t \in Thread |-> FALSE]
  /\ localTags = [t \in Thread |-> [o \in Object |-> 0]]
  /\ global_tag = FirstTag
  /\ new_called = FALSE
  /\ clock = 1
  /\ owner = [o \in Object |-> NoThread]
  /\ built = [o \in Object |-> FALSE]
  /\ escaped = {}
  /\ pc = [t \in Thread |-> "idle"]
  /\ call = [t \in Thread |-> NoCall]
  /\ calls = [t \in Thread |-> 0]
  /\ failed = {}
  /\ trace = {}

-----------------------------------------------------------------------------
(* Tags and addresses *)

(* is_sampled_object: not 0, not -1, sign bit clear. *)
is_sampled_object(tag) == tag > 0

(* A long stored in a uint32_t field of a record. *)
Addr(tag) == tag % AddrSpace

(***************************************************************************)
(* GetTag on jvmti_env[0].  Without the capability the call fails and      *)
(* leaves local_tag as it was, which is 0 at that point.                   *)
(***************************************************************************)
GlobalTag(o) == IF canTag[slot0] THEN globalTags[slot0][o] ELSE 0

(* What get_tag makes of it.  It does not get past a NULL jvmti_env[0]. *)
SharedTag(o) ==
  IF slot0 = NoThread THEN {}
  ELSE IF GlobalTag(o) # 0 THEN {GlobalTag(o)}
  ELSE {NotSampled}

(* Slips a change to the code could make; each breaks a property below. *)
get_tag_NoCache(t, o) ==    \* the thread's own environment is not asked
  IF o = Null THEN {NotSampled} ELSE SharedTag(o)

(***************************************************************************)
(* The values get_tag can deliver.  For null both GetTag calls fail and    *)
(* local_tag is read uninitialised: 0 leads to jvmti_env[0] and -1,        *)
(* anything else is delivered; a tag handed out earlier stands for what    *)
(* the stack may hold.                                                     *)
(***************************************************************************)
get_tag(t, o) ==
  IF o = Null THEN FirstTag..(global_tag - 1) \cup {n \in {NotSampled} : slot0 # NoThread}
  ELSE IF localTags[t][o] # 0 THEN {localTags[t][o]}
  ELSE SharedTag(o)

(* ... and what it leaves in the thread's own environment. *)
Cached(t, o, tag) ==
  IF o = Null THEN localTags ELSE [localTags EXCEPT ![t][o] = tag]

-----------------------------------------------------------------------------
(* The traced program *)

Crashed == \E t \in Thread : pc[t] = "crashed"

(* What t does next, as long as the process is there. *)
At(t, where) == pc[t] = where /\ ~Crashed
Goto(t, where) == pc' = [pc EXCEPT ![t] = where]

(* An object comes into being and its constructor starts. *)
Allocate(t, o) ==
  /\ At(t, "idle")
  /\ owner[o] = NoThread
  /\ owner' = [owner EXCEPT ![o] = t]
  /\ UNCHANGED <<envVars, built, escaped, global_tag, new_called, clock, pc, call, calls, trace, failed>>

(* Objects a thread can name: its own, those whose constructor returned,   *)
(* and those whose constructor leaks this.                                 *)
Reach(t) == {o \in Object : owner[o] # NoThread}

Leaked(t, objs) == {o \in objs \cap Object : owner[o] # t /\ ~built[o]}

(* A callback starts; first is the object whose tag decides. *)
Enter(t, kind, first, rest, time) ==
  /\ At(t, "idle")
  /\ kind \in Calls
  /\ calls[t] < MaxCalls
  /\ calls' = [calls EXCEPT ![t] = @ + 1]
  /\ call' = [call EXCEPT ![t] =
       [kind |-> kind, first |-> first, rest |-> rest, tags |-> << >>, time |-> time]]
  /\ escaped' = escaped \cup Leaked(t, {first} \cup {rest[i] : i \in DOMAIN rest})
  /\ Goto(t, "check")
  /\ UNCHANGED <<envVars, owner, built, global_tag, new_called, trace, failed>>

addTagConstructRecord(t, o) ==
  /\ o \in Reach(t)
  /\ Enter(t, "Construct", o, << >>, 0)
  /\ UNCHANGED clock

(* Reads the clock before it knows whether ref is sampled. *)
addTagPutFieldRecord(t, holder, ref) ==
  /\ holder \in Reach(t)
  /\ ref \in Reach(t) \cup {Null}
  /\ Enter(t, "PutField", ref, <<holder>>, clock)
  /\ clock' = clock + 1

addTagAASTORERecord(t, holder, ref) ==
  /\ holder \in Reach(t)
  /\ ref \in Reach(t) \cup {Null}
  /\ Enter(t, "AAStore", ref, <<holder>>, 0)
  /\ UNCHANGED clock

(* Returns at once until some object was sampled. *)
addTagUseRecord(t, o) ==
  /\ o \in Reach(t)
  /\ new_called
  /\ slot0 # NoThread
  /\ Enter(t, "Use", o, << >>, 0)
  /\ UNCHANGED clock

(* The ten addContainerRecord functions, which differ in their arguments. *)
addContainerRecord(t, holder, args) ==
  /\ holder \in Reach(t)
  /\ \A i \in DOMAIN args : args[i] \in Reach(t) \cup {Null}
  /\ Enter(t, "Container", holder, args, 0)
  /\ UNCHANGED clock

-----------------------------------------------------------------------------
(* addTagNewRecord, called by the allocating thread after the constructor *)

NotPicked(t, o) ==
  /\ At(t, "idle")
  /\ owner[o] = t /\ ~built[o]
  /\ built' = [built EXCEPT ![o] = TRUE]
  /\ UNCHANGED <<envVars, owner, escaped, global_tag, new_called, clock, pc, call, calls, trace, failed>>

Picked(t, o) ==
  /\ At(t, "idle")
  /\ owner[o] = t /\ ~built[o]
  /\ call' = [call EXCEPT ![t] =
       [kind |-> "NEW", first |-> o, rest |-> << >>, tags |-> << >>, time |-> clock]]
  /\ clock' = clock + 1
  /\ Goto(t, "count")
  /\ UNCHANGED <<envVars, heapVars, global_tag, new_called, calls, trace, failed>>

Entry_Swapped(t, tags, time) ==   \* holder and reference exchanged
  [kind |-> call[t].kind, time |-> time, by |-> t,
   objs  |-> <<call[t].first>> \o call[t].rest,
   addrs |-> [i \in DOMAIN tags |-> Addr(tags[Len(tags) + 1 - i])]]

Entry(t, tags, time) ==
  [kind |-> call[t].kind, time |-> time, by |-> t,
   objs  |-> <<call[t].first>> \o call[t].rest,
   addrs |-> [i \in DOMAIN tags |-> Addr(tags[i])]]

(* tag = global_tag++ and the NEW record. *)
CountTag(t) ==
  /\ At(t, "count")
  /\ call' = [call EXCEPT ![t].tags = <<global_tag>>]
  /\ trace' = trace \cup {Entry(t, <<global_tag>>, call[t].time)}
  /\ global_tag' = global_tag + 1
  /\ Goto(t, "check")
  /\ UNCHANGED <<envVars, heapVars, new_called, clock, calls, failed>>

SetTag_SharedOnly(t) ==           \* set_tag leaves the thread's cache alone
  /\ At(t, "set")
  /\ slot0 # NoThread
  /\ globalTags' = IF canTag[slot0]
                   THEN [globalTags EXCEPT ![slot0][call[t].first] = call[t].tags[1]]
                   ELSE globalTags
  /\ Goto(t, "called")
  /\ UNCHANGED <<slot0, canTag, localEnv, localTags, heapVars, global_tag, new_called, clock, call, calls, trace, failed>>

(* set_tag: the thread's own environment, then the shared one. *)
SetTag(t) ==
  /\ At(t, "set")
  /\ slot0 # NoThread
  /\ LET o == call[t].first
         tag == call[t].tags[1]
     IN /\ localTags' = [localTags EXCEPT ![t][o] = tag]
        /\ globalTags' = IF canTag[slot0]
                         THEN [globalTags EXCEPT ![slot0][o] = tag]
                         ELSE globalTags
  /\ Goto(t, "called")
  /\ UNCHANGED <<slot0, canTag, localEnv, heapVars, global_tag, new_called, clock, call, calls, trace, failed>>

NewReturns(t) ==
  /\ At(t, "called")
  /\ new_called' = TRUE
  /\ built' = [built EXCEPT ![call[t].first] = TRUE]
  /\ call' = [call EXCEPT ![t] = NoCall]
  /\ Goto(t, "idle")
  /\ UNCHANGED <<envVars, owner, escaped, global_tag, clock, calls, trace, failed>>

-----------------------------------------------------------------------------
(* init_jvmti *)

AfterInit(t) == IF call[t].kind = "NEW" THEN "set" ELSE "lookup"

InitCheck_SharedOnly(t) ==        \* returns once jvmti_env[0] is set
  /\ At(t, "check")
  /\ Goto(t, IF slot0 = NoThread THEN "store" ELSE AfterInit(t))
  /\ UNCHANGED <<envVars, heapVars, global_tag, new_called, clock, call, calls, trace, failed>>

(* if (!jvmti_env[0]), and the thread's own environment if it is set. *)
InitCheck(t) ==
  /\ At(t, "check")
  /\ IF slot0 = NoThread
     THEN Goto(t, "store") /\ UNCHANGED localEnv
     ELSE Goto(t, AfterInit(t)) /\ localEnv' = [localEnv EXCEPT ![t] = TRUE]
  /\ UNCHANGED <<slot0, canTag, globalTags, localTags, heapVars, global_tag, new_called, clock, call, calls, trace, failed>>

(***************************************************************************)
(* GetEnv makes a new environment and stores it, whoever was there before. *)
(* What the thread's earlier environment held, if there was one, went with *)
(* the last pointer to it.                                                 *)
(***************************************************************************)
InitStore(t) ==
  /\ At(t, "store")
  /\ slot0' = t
  /\ canTag' = [canTag EXCEPT ![t] = FALSE]
  /\ globalTags' = [globalTags EXCEPT ![t] = [o \in Object |-> 0]]
  /\ Goto(t, "capable")
  /\ UNCHANGED <<localEnv, localTags, heapVars, global_tag, new_called, clock, call, calls, trace, failed>>

(* GetEnv fails and leaves NULL in jvmti_env[0], which is only logged. *)
InitStoreFails(t) ==
  /\ At(t, "store")
  /\ slot0' = NoThread
  /\ failed' = failed \cup {t}
  /\ Goto(t, "capable")
  /\ UNCHANGED <<canTag, globalTags, localEnv, localTags, heapVars, global_tag, new_called, clock, call, calls, trace>>

(* AddCapabilities through jvmti_env[0], whoever owns it by now, the rest   *)
(* of the loop, which fills the unused slots, and the thread's own         *)
(* environment.                                                            *)
InitCapable(t) ==
  /\ At(t, "capable")
  /\ slot0 # NoThread
  /\ canTag' = [canTag EXCEPT ![slot0] = TRUE]
  /\ localEnv' = [localEnv EXCEPT ![t] = TRUE]
  /\ Goto(t, AfterInit(t))
  /\ UNCHANGED <<slot0, globalTags, localTags, heapVars, global_tag, new_called, clock, call, calls, trace, failed>>

(* GetEnv fails for an unused slot or for local_jvmti_env, and init_jvmti   *)
(* goes on through the NULL pointer: the process is gone.                  *)
OwnEnvFails(t) ==
  /\ slot0 # NoThread
  /\ At(t, "capable") \/ (At(t, "check") /\ ~localEnv[t])
  /\ failed' = failed \cup {t}
  /\ Goto(t, "crashed")
  /\ UNCHANGED <<envVars, heapVars, global_tag, new_called, clock, call, calls, trace>>

-----------------------------------------------------------------------------
(* The rest of the callbacks *)

(* The tag that decides: an object that is not sampled ends the callback. *)
LookupFirst(t) ==
  /\ At(t, "lookup")
  /\ \E tag \in get_tag(t, call[t].first) :
       /\ localTags' = Cached(t, call[t].first, tag)
       /\ IF is_sampled_object(tag)
          THEN /\ call' = [call EXCEPT ![t].tags = <<tag>>]
               /\ Goto(t, IF call[t].kind = "AAStore" THEN "stamp" ELSE "finish")
          ELSE /\ call' = [call EXCEPT ![t] = NoCall]
               /\ Goto(t, "idle")
  /\ UNCHANGED <<slot0, canTag, globalTags, localEnv, heapVars, global_tag, new_called, clock, calls, trace, failed>>

(* AASTORE reads the clock between the reference and the holder. *)
Stamp(t) ==
  /\ At(t, "stamp")
  /\ call' = [call EXCEPT ![t].time = clock]
  /\ clock' = clock + 1
  /\ Goto(t, "finish")
  /\ UNCHANGED <<envVars, heapVars, global_tag, new_called, calls, trace, failed>>

(* The object the next get_tag of the record is about. *)
NextArg(t) == call[t].rest[Len(call[t].tags)]

(* get_tag for one more object of the record. *)
LookupNext(t) ==
  /\ At(t, "finish")
  /\ Len(call[t].tags) <= Len(call[t].rest)
  /\ \E tag \in get_tag(t, NextArg(t)) :
       /\ localTags' = Cached(t, NextArg(t), tag)
       /\ call' = [call EXCEPT ![t].tags = Append(@, tag)]
  /\ UNCHANGED <<slot0, canTag, globalTags, localEnv, heapVars, global_tag, new_called, clock, pc, calls, trace, failed>>

(* get_tag of o goes through jvmti_env[0]. *)
AsksShared(t, o) == o # Null => localTags[t][o] = 0

(***************************************************************************)
(* A thread goes through a NULL jvmti_env[0]: the process is gone.  Apart  *)
(* from the thread whose GetEnv failed that can be another thread, whose   *)
(* environment the failed call overwrote.                                  *)
(***************************************************************************)
UseNull(t) ==
  /\ slot0 = NoThread
  /\ \/ At(t, "capable") \/ At(t, "set")
     \/ At(t, "lookup") /\ AsksShared(t, call[t].first)
     \/ At(t, "finish") /\ Len(call[t].tags) <= Len(call[t].rest) /\ AsksShared(t, NextArg(t))
  /\ Goto(t, "crashed")
  /\ UNCHANGED <<envVars, heapVars, global_tag, new_called, clock, call, calls, trace, failed>>

AddRecord_Untimed(t) ==           \* the time is the one taken on entry
  /\ At(t, "finish")
  /\ Len(call[t].tags) > Len(call[t].rest)
  /\ trace' = trace \cup {Entry(t, call[t].tags, call[t].time)}
  /\ call' = [call EXCEPT ![t] = NoCall]
  /\ Goto(t, "idle")
  /\ UNCHANGED <<envVars, heapVars, global_tag, new_called, clock, calls, failed>>

(* The record is complete; most callbacks read the clock only now. *)
AddRecord(t) ==
  /\ At(t, "finish")
  /\ Len(call[t].tags) > Len(call[t].rest)
  /\ LET late == call[t].kind \notin {"PutField", "AAStore"}
         time == IF late THEN clock ELSE call[t].time
     IN /\ trace' = trace \cup {Entry(t, call[t].tags, time)}
        /\ clock' = IF late THEN clock + 1 ELSE clock
  /\ call' = [call EXCEPT ![t] = NoCall]
  /\ Goto(t, "idle")
  /\ UNCHANGED <<envVars, heapVars, global_tag, new_called, calls, failed>>

Args == UNION {[1..n -> Refs] : n \in 0..MaxArgs}

Step(t) ==
  \/ \E o \in Object :
       \/ Allocate(t, o) \/ NotPicked(t, o) \/ Picked(t, o)
       \/ addTagConstructRecord(t, o) \/ addTagUseRecord(t, o)
       \/ \E ref \in Refs :
            addTagPutFieldRecord(t, o, ref) \/ addTagAASTORERecord(t, o, ref)
       \/ \E args \in Args : addContainerRecord(t, o, args)
  \/ CountTag(t) \/ SetTag(t) \/ NewReturns(t)
  \/ InitCheck(t) \/ InitStore(t) \/ InitCapable(t)
  \/ InitStoreFails(t) \/ OwnEnvFails(t) \/ UseNull(t)
  \/ LookupFirst(t) \/ Stamp(t) \/ LookupNext(t) \/ AddRecord(t)

Next == \E t \in Thread : Step(t)

Spec == Init /\ [][Next]_vars

-----------------------------------------------------------------------------

Tag == Int
Locations == {"idle", "check", "store", "capable", "lookup", "stamp", "finish",
              "count", "set", "called", "crashed"}
CallType ==
  [kind : Callbacks \cup {"NEW", "none"}, first : Object \cup {Null},
   rest : Seq(Object \cup {Null}), tags : Seq(Tag), time : Nat]
EntryType ==
  [kind : Callbacks \cup {"NEW"}, time : Nat, by : Thread,
   objs : Seq(Object \cup {Null}), addrs : Seq(Nat)]

TypeOK ==
  /\ slot0 \in Thread \cup {NoThread}
  /\ canTag \in [Thread -> BOOLEAN]
  /\ globalTags \in [Thread -> [Object -> Tag]]
  /\ localEnv \in [Thread -> BOOLEAN]
  /\ localTags \in [Thread -> [Object -> Tag]]
  /\ global_tag \in Nat
  /\ new_called \in BOOLEAN
  /\ clock \in Nat
  /\ owner \in [Object -> Thread \cup {NoThread}]
  /\ built \in [Object -> BOOLEAN]
  /\ escaped \subseteq Object
  /\ pc \in [Thread -> Locations]
  /\ call \in [Thread -> CallType]
  /\ calls \in [Thread -> Nat]
  /\ failed \subseteq Thread
  /\ trace \subseteq EntryType

(* Places after init_jvmti, where the environments are used. *)
InUse == {"lookup", "stamp", "finish", "set", "called"}

(***************************************************************************)
(* Safety: however the first callbacks of threads overlap in init_jvmti,   *)
(* no thread is past it without an environment of its own, and             *)
(* jvmti_env[0] is NULL under a thread that uses it only while the thread  *)
(* whose GetEnv call failed and overwrote it is still inside init_jvmti,   *)
(* about to go through it too.  The process ends in a NULL environment     *)
(* only after a failed GetEnv call, never from the race alone.             *)
(***************************************************************************)
EnvBeforeUse ==
  /\ \A t \in Thread : pc[t] \in InUse => localEnv[t]
  /\ \A t \in Thread : pc[t] \in InUse \cup {"capable"} /\ slot0 = NoThread =>
       \E u \in failed : pc[u] \in {"capable", "crashed"}
  /\ Crashed => failed # {}

NewRecords == {r \in trace : r.kind = "NEW"}

(* The NEW record of o carries addr. *)
Names(addr, o) == \E n \in NewRecords : n.objs[1] = o /\ n.addrs[1] = addr

(* As long as the tags fit the records (the last one handed out is below   *)
(* the -1 of a uint32_t), an address in the trace identifies one object,   *)
(* and is neither the 0 of null nor the value of "not sampled".            *)
AddrsIdentify ==
  global_tag < AddrSpace =>
    \A n \in NewRecords :
      /\ n.addrs[1] \notin {0, Addr(NotSampled)}
      /\ \A m \in NewRecords : m.addrs[1] = n.addrs[1] => m.objs[1] = n.objs[1]

(***************************************************************************)
(* Safety: a record about an object that is not null carries the address   *)
(* of that object's own NEW record, or, for the objects that do not        *)
(* decide, the "not sampled" value.  No interleaving of init_jvmti,        *)
(* set_tag and the caches of the threads attributes an event to another    *)
(* object, and no two objects have NEW records with the same address.      *)
(***************************************************************************)
RecordsNameTheirObjects ==
  /\ AddrsIdentify
  /\ \A r \in trace : \A i \in 1..Len(r.addrs) :
       r.objs[i] # Null =>
         \/ Names(r.addrs[i], r.objs[i])
         \/ i > 1 /\ r.addrs[i] = Addr(NotSampled)

(* The i-th object of r was looked up after r was stamped. *)
StampedFirst(r, i) == r.kind = "PutField" \/ (r.kind = "AAStore" /\ i > 1)

(***************************************************************************)
(* Safety: in the trace every sampled object of a record, the arguments    *)
(* and holders included, is allocated before it is used.  The exceptions   *)
(* are objects that another thread could name before they were built: a    *)
(* PUTFIELD record, stamped on entry, can be older than the NEW record of  *)
(* either object, an AASTORE record, stamped between its lookups, older    *)
(* than that of its holder.                                                *)
(***************************************************************************)
AllocatedBeforeUse ==
  \A r \in trace : r.kind # "NEW" =>
    \A i \in 1..Len(r.addrs) :
      /\ r.objs[i] # Null
      /\ i = 1 \/ r.addrs[i] # Addr(NotSampled)
      /\ StampedFirst(r, i) => r.objs[i] \notin escaped
      => \E n \in NewRecords : n.objs[1] = r.objs[i] /\ n.time < r.time

(* The tag of o is in the environment get_tag asks. *)
Published(o) == slot0 # NoThread /\ GlobalTag(o) # 0

(***************************************************************************)
(* Safety: for an object whose constructor does not leak this, a thread    *)
(* that caches "not sampled" is right for ever: the tag of the object is   *)
(* not, and will not be, in jvmti_env[0].  So the only events of a sampled *)
(* object that get lost are those of the race in init_jvmti, where the     *)
(* environment that holds the tag was replaced or could not hold it yet.   *)
(* Other objects that leak this change nothing in that.                    *)
(***************************************************************************)
NoStaleNegative ==
  \A t \in Thread, o \in Object \ escaped :
    Published(o) /\ built[o] => localTags[t][o] # NotSampled

(***************************************************************************)
(* Action property: a thread never changes its mind about an object it     *)
(* knows as sampled, and no shared environment drops a tag or changes it,  *)
(* unless the thread that made it makes another one in its place.          *)
(***************************************************************************)
TagsAreStable ==
  [][/\ \A t \in Thread, o \in Object :
          is_sampled_object(localTags[t][o]) => localTags'[t][o] = localTags[t][o]
     /\ \A t \in Thread, o \in Object :
          globalTags[t][o] # 0 /\ (slot0' = t => slot0 = t) =>
            globalTags'[t][o] = globalTags[t][o]]_vars

(***************************************************************************)
(* What null_query.py and the entry (0, 0) of addr_map take for granted:   *)
(* the reference recorded for null is 0.                                   *)
(***************************************************************************)
NullIsZero ==
  \A r \in trace : \A i \in 1..Len(r.addrs) :
    r.objs[i] = Null => r.addrs[i] = 0
=============================================================================
