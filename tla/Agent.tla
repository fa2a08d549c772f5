------------------------------- MODULE Agent --------------------------------
(***************************************************************************)
(* The JVMTI agent, agent/src/agent.cpp, with its connection to the server *)
(* that rewrites classes, agent/src/client.cpp.                            *)
(*                                                                         *)
(* Classes reach ClassFileLoadHook twice over: when a thread loads them    *)
(* and when MethodEntry, at the start of the main program, retransforms    *)
(* all classes loaded so far.  The hook sends a class it has not seen to   *)
(* the server and waits for the answer.  Hooks of several threads overlap  *)
(* and share transformed_classes without a lock.                           *)
(*                                                                         *)
(* External: the JVM, which on a retransformation starts again from the    *)
(* original bytes and drops what an earlier hook made of them, defines a   *)
(* class only some time after its hook has returned, and may refuse to;    *)
(* the server; and the system calls of the client, which may fail.         *)
(***************************************************************************)
EXTENDS Naturals, FiniteSets

CONSTANTS
  Thread,
  Main,           \* the thread that runs MethodEntry
  Class,          \* classes, each from its own loader
  NoClass,
  NameOf(_),      \* classes of two loaders can have the same name
  Skipped,        \* java/lang/invoke and classes that are not modifiable
  Plain,          \* classes the server answers with length 0
  Options,        \* what may follow -agentpath:..., "null" for nothing
  HasCandidates,  \* candidate.txt exists
  ServerMayDie,
  MaxFailed       \* bound: classes whose bytes may fail to arrive or be refused

ASSUME MainAssumption  == Main \in Thread
ASSUME ClassAssumption == NoClass \notin Class /\ Skipped \subseteq Class /\ Plain \subseteq Class
ASSUME BooleanAssumption == HasCandidates \in BOOLEAN /\ ServerMayDie \in BOOLEAN
ASSUME FailedAssumption == MaxFailed \in Nat

Name  == {NameOf(c) : c \in Class}
Modes == {"BASEMODE", "USEMODE", "VALUEMODE", "CONTAINERMODE", "INVALID"}

VARIABLES
  phase,                \* how far the JVM is; aborted after a throw, an assert, a crash
  cause,                \* what aborted it, or none
  options,              \* what Agent_OnLoad was called with
  mode,
  vm_init,
  transformed_classes,
  todo,                 \* classes the loop of MethodEntry has still to do
  klass,                \* klass[c]: absent, loading or loaded
  code,                 \* code[c]: orig, instr or garbled
  pc,                   \* pc[t]: what t does next in ClassFileLoadHook, or idle
  cur,                  \* cur[t]: the class t is in the hook for
  bytes,                \* bytes[t]: what its hook returned, for the JVM to define
  server,               \* up or down
  asked,                \* asked[n]: requests the server got for a name
  raced,                \* classes being loaded between vm_init and the snapshot
  overlapped,           \* names inserted while another thread was inserting
  failed                \* classes whose bytes did not arrive or were refused

hookVars == <<transformed_classes, klass, code, pc, cur, bytes, asked, overlapped, failed>>
jvmVars  == <<phase, cause, options, mode, vm_init, todo, raced>>
vars == <<jvmVars, hookVars, server>>

Init ==
  /\ phase = "start"
  /\ cause = "none"
  /\ options = "unknown"
  /\ mode = "INVALID"
  /\ vm_init = FALSE
  /\ transformed_classes = {}
  /\ todo = {}
  /\ klass = [c \in Class |-> "absent"]
  /\ code = [c \in Class |-> "orig"]
  /\ pc = [t \in Thread |-> "idle"]
  /\ cur = [t \in Thread |-> NoClass]
  /\ bytes = [t \in Thread |-> "orig"]
  /\ server = "up"
  /\ asked = [n \in Name |-> 0]
  /\ raced = {}
  /\ overlapped = {}
  /\ failed = {}

-----------------------------------------------------------------------------
(* Agent_OnLoad *)

(* Slips a change to the agent could make; each breaks a property below. *)
parse_args_NoBase(args) ==      \* the test for "base" is lost
  CASE args = "null" -> "throws"
    [] args \in {"use", "value"} -> IF HasCandidates THEN "USEMODE" ELSE "throws"
    [] args = "container" -> "CONTAINERMODE"
    [] OTHER -> "INVALID"

(* parse_args is called with options itself, also when that is null. *)
parse_args(args) ==
  CASE args = "null" -> "throws"
    [] args = "base" -> "BASEMODE"
    [] args = "use" -> IF HasCandidates THEN "USEMODE" ELSE "throws"
    [] args = "value" -> IF HasCandidates THEN "VALUEMODE" ELSE "throws"
    [] args = "container" -> "CONTAINERMODE"
    [] OTHER -> "INVALID"

Abort(why) == phase' = "aborted" /\ cause' = why

(***************************************************************************)
(* The constructor of ASMClient throws when socket or connect fails, and   *)
(* send_with_len asserts that a send does not: when the server is gone,    *)
(* but also for want of descriptors or ports while it lives.               *)
(***************************************************************************)
ClientFails == Abort(IF server = "down" THEN "gone" ELSE "call")

(* The hello is on its way to the server, or nothing is. *)
Agent_OnLoad(args) ==
  /\ phase = "start"
  /\ options' = args
  /\ \/ /\ parse_args(args) # "throws"
        /\ mode' = parse_args(args)
        /\ \/ server = "up" /\ phase' = "hello" /\ UNCHANGED cause
           \/ ClientFails
     \/ /\ parse_args(args) = "throws"
        /\ Abort("options")
        /\ UNCHANGED mode
  /\ UNCHANGED <<vm_init, todo, raced, hookVars, server>>

(***************************************************************************)
(* The rest of Agent_OnLoad: send_hello asserts that the status is 0; it   *)
(* is the server's, or uninitialized when recv failed.  Then the JVM may   *)
(* have no JVMTI environment, or one that check_jlocation_format refuses.  *)
(***************************************************************************)
HelloAnswered ==
  /\ phase = "hello"
  /\ \/ phase' = "loaded" /\ UNCHANGED cause
     \/ \E why \in {"hello", "jvmti"} : Abort(why)
  /\ UNCHANGED <<options, mode, vm_init, todo, raced, hookVars, server>>

Alive == phase \notin {"start", "hello", "dead", "aborted"}

-----------------------------------------------------------------------------
(* MethodEntry, on LauncherHelper.checkAndLoadMain *)

MayFail(c) == c \in failed \/ Cardinality(failed) < MaxFailed

Loading == {c \in Class : klass[c] = "loading"}

(***************************************************************************)
(* logger.Record is initialised, then the hook is armed.  Without the Java *)
(* agent there is no such class, and the null of FindClass is used.        *)
(***************************************************************************)
MethodEntry ==
  /\ phase = "loaded"
  /\ pc[Main] = "idle"
  /\ \/ /\ vm_init' = TRUE
        /\ phase' = "armed"
        /\ raced' = raced \cup Loading
        /\ UNCHANGED cause
     \/ Abort("logger") /\ UNCHANGED <<vm_init, raced>>
  /\ UNCHANGED <<options, mode, todo, hookVars, server>>

(* Nobody looks at its result; if it failed there is no list to walk. *)
GetLoadedClasses ==
  /\ phase = "armed"
  /\ \/ /\ todo' = {c \in Class \ Skipped : klass[c] = "loaded"}
        /\ phase' = "loop"
        /\ UNCHANGED cause
     \/ Abort("jvmti") /\ UNCHANGED todo
  /\ UNCHANGED <<options, mode, vm_init, raced, hookVars, server>>

(* The JVM calls the hook, or refuses at once; the loop goes on either way. *)
RetransformClasses(c) ==
  /\ phase = "loop"
  /\ pc[Main] = "idle"
  /\ c \in todo
  /\ todo' = todo \ {c}
  /\ \/ /\ pc' = [pc EXCEPT ![Main] = "find"]
        /\ cur' = [cur EXCEPT ![Main] = c]
        /\ UNCHANGED failed
     \/ MayFail(c) /\ failed' = failed \cup {c} /\ UNCHANGED <<pc, cur>>
  /\ UNCHANGED <<phase, cause, options, mode, vm_init, raced, transformed_classes, klass, code, bytes,
                 asked, overlapped, server>>

LoopEnds ==
  /\ phase = "loop"
  /\ todo = {} /\ pc[Main] = "idle"
  /\ phase' = "run"
  /\ UNCHANGED <<cause, options, mode, vm_init, todo, raced, hookVars, server>>

-----------------------------------------------------------------------------
(* ClassFileLoadHook *)

(* A thread loads a class; Main is busy while it is in MethodEntry. *)
LoadClass(t, c) ==
  /\ Alive
  /\ pc[t] = "idle" /\ klass[c] = "absent"
  /\ t = Main => phase \in {"loaded", "run"}
  /\ klass' = [klass EXCEPT ![c] = "loading"]
  /\ pc' = [pc EXCEPT ![t] = "find"]
  /\ cur' = [cur EXCEPT ![t] = c]
  /\ raced' = IF phase = "armed" THEN raced \cup {c} ELSE raced
  /\ UNCHANGED <<phase, cause, options, mode, vm_init, todo, transformed_classes, code, bytes, asked,
                 overlapped, failed, server>>

(* The hook returns new bytes or leaves the class as it is. *)
Return(t, b) ==
  /\ pc' = [pc EXCEPT ![t] = "define"]
  /\ bytes' = [bytes EXCEPT ![t] = b]
  /\ UNCHANGED <<transformed_classes, klass, code, cur, asked, overlapped>>

(* The JVM is done with what the hook returned. *)
LeavesHook(t) ==
  /\ pc' = [pc EXCEPT ![t] = "idle"]
  /\ cur' = [cur EXCEPT ![t] = NoClass]
  /\ bytes' = [bytes EXCEPT ![t] = "orig"]
  /\ UNCHANGED <<jvmVars, transformed_classes, asked, overlapped, server>>

Define(t) ==
  /\ Alive
  /\ pc[t] = "define"
  /\ klass' = [klass EXCEPT ![cur[t]] = "loaded"]
  /\ code' = [code EXCEPT ![cur[t]] = bytes[t]]
  /\ LeavesHook(t)
  /\ UNCHANGED failed

(***************************************************************************)
(* The JVM refuses the bytes: a retransformed class stays what it was and  *)
(* the error code of RetransformClasses is only logged, a class being      *)
(* loaded is not there and may be loaded again (once: a bound).  The name  *)
(* stays in transformed_classes.                                           *)
(***************************************************************************)
Refuse(t) ==
  /\ Alive
  /\ pc[t] = "define"
  /\ MayFail(cur[t])
  /\ klass[cur[t]] = "loading" => cur[t] \notin failed
  /\ klass' = [klass EXCEPT ![cur[t]] = IF @ = "loading" THEN "absent" ELSE @]
  /\ failed' = failed \cup {cur[t]}
  /\ LeavesHook(t)
  /\ UNCHANGED code

Ignored(t) == ~vm_init \/ NameOf(cur[t]) \in transformed_classes

HookReturns_Marks(t) ==         \* inserted before vm_init is tested
  /\ Alive
  /\ pc[t] = "find"
  /\ Ignored(t)
  /\ pc' = [pc EXCEPT ![t] = "define"]
  /\ transformed_classes' = transformed_classes \cup {NameOf(cur[t])}
  /\ UNCHANGED <<jvmVars, klass, code, cur, bytes, asked, overlapped, failed, server>>

HookReturns(t) ==
  /\ Alive
  /\ pc[t] = "find"
  /\ Ignored(t)
  /\ Return(t, "orig")
  /\ UNCHANGED <<jvmVars, failed, server>>

HookFinds_Always(t) ==          \* transformed_classes is not asked
  /\ Alive
  /\ pc[t] = "find"
  /\ vm_init
  /\ pc' = [pc EXCEPT ![t] = "insert"]
  /\ UNCHANGED <<jvmVars, transformed_classes, klass, code, cur, bytes, asked, overlapped, failed, server>>

(* transformed_classes has no lock: what other threads are inserting. *)
Inserting(t) == {NameOf(cur[u]) : u \in {u \in Thread \ {t} : pc[u] = "insert"}}

(* The name is not found; during an insertion it may also be overlooked. *)
HookFinds(t) ==
  /\ Alive
  /\ pc[t] = "find"
  /\ vm_init
  /\ \/ ~Ignored(t) /\ UNCHANGED overlapped
     \/ /\ Ignored(t) /\ Inserting(t) # {}
        /\ overlapped' = overlapped \cup {NameOf(cur[t])}
  /\ pc' = [pc EXCEPT ![t] = "insert"]
  /\ UNCHANGED <<jvmVars, transformed_classes, klass, code, cur, bytes, asked, failed, server>>

(* The same insertion, or one that overlaps with another and gets lost. *)
HookInserts(t) ==
  /\ Alive
  /\ pc[t] = "insert"
  /\ \/ transformed_classes' = transformed_classes \cup {NameOf(cur[t])}
     \/ Inserting(t) # {} /\ UNCHANGED transformed_classes
  /\ overlapped' = IF Inserting(t) = {} THEN overlapped
                   ELSE overlapped \cup Inserting(t) \cup {NameOf(cur[t])}
  /\ pc' = [pc EXCEPT ![t] = "request"]
  /\ UNCHANGED <<jvmVars, klass, code, cur, bytes, asked, failed, server>>

(* The race on the hash table can also be fatal. *)
HookCrashes(t) ==
  /\ Alive
  /\ pc[t] \in {"find", "insert"}
  /\ vm_init
  /\ Inserting(t) # {}
  /\ overlapped' = overlapped \cup Inserting(t) \cup {NameOf(cur[t])}
  /\ Abort("race")
  /\ UNCHANGED <<options, mode, vm_init, todo, raced, transformed_classes, klass, code, pc, cur, bytes,
                 asked, failed, server>>

(* ASMClient connects, the mode picks the command, the class is sent. *)
HookRequests(t) ==
  /\ Alive
  /\ pc[t] = "request"
  /\ \/ /\ server = "up" /\ mode # "INVALID"
        /\ pc' = [pc EXCEPT ![t] = "wait"]
        /\ asked' = [asked EXCEPT ![NameOf(cur[t])] = @ + 1]
        /\ UNCHANGED <<phase, cause>>
     \/ server = "up" /\ mode = "INVALID" /\ Abort("mode") /\ UNCHANGED <<pc, asked>>
     \/ ClientFails /\ UNCHANGED <<pc, asked>>
  /\ UNCHANGED <<options, mode, vm_init, todo, raced, transformed_classes, klass, code, cur, bytes,
                 overlapped, failed, server>>

Receives_Bytes(t) ==            \* waits for bytes after a length of 0
  /\ Alive
  /\ pc[t] = "wait"
  /\ server = "up"
  /\ cur[t] \notin Plain
  /\ Return(t, "instr")
  /\ UNCHANGED <<jvmVars, failed, server>>

(* recv_bytecode: length 0 leaves the class as it is. *)
Receives(t) ==
  /\ Alive
  /\ pc[t] = "wait"
  /\ server = "up"
  /\ Return(t, IF cur[t] \in Plain THEN "orig" ELSE "instr")
  /\ UNCHANGED <<jvmVars, failed, server>>

(***************************************************************************)
(* recv fails (connection reset, a signal) in the length, which stays 0,   *)
(* or in the bytes, and the class is what the allocated memory happens to  *)
(* hold; without memory to hold them the class is left as it is.           *)
(***************************************************************************)
ReceiveFails(t) ==
  /\ Alive
  /\ pc[t] = "wait"
  /\ MayFail(cur[t])
  /\ \E b \in IF cur[t] \in Plain THEN {"orig"} ELSE {"orig", "garbled"} : Return(t, b)
  /\ failed' = failed \cup {cur[t]}
  /\ UNCHANGED <<jvmVars, server>>

(***************************************************************************)
(* The server process ends.  A recv of a connection that was closed gives  *)
(* 0 from now on, for ever: the loop of ASMClient::recv does not end.      *)
(***************************************************************************)
ServerDies ==
  /\ ServerMayDie
  /\ phase \notin {"dead", "aborted"}
  /\ server = "up"
  /\ server' = "down"
  /\ UNCHANGED <<jvmVars, hookVars>>

-----------------------------------------------------------------------------

(* The EXIT command needs a connection too. *)
VMDeath ==
  /\ phase = "run"
  /\ pc[Main] = "idle"
  /\ \/ server = "up" /\ phase' = "dead" /\ UNCHANGED cause
     \/ ClientFails
  /\ UNCHANGED <<options, mode, vm_init, todo, raced, hookVars, server>>

Hook(t) == HookReturns(t) \/ HookFinds(t) \/ HookInserts(t) \/ HookRequests(t) \/ Receives(t) \/ Define(t)

Next ==
  \/ \E args \in Options : Agent_OnLoad(args)
  \/ HelloAnswered \/ MethodEntry \/ GetLoadedClasses \/ LoopEnds \/ VMDeath \/ ServerDies
  \/ \E c \in Class : RetransformClasses(c)
  \/ \E t \in Thread : HookCrashes(t) \/ ReceiveFails(t) \/ Refuse(t)
  \/ \E t \in Thread : Hook(t) \/ \E c \in Class : LoadClass(t, c)

Spec == Init /\ [][Next]_vars

(***************************************************************************)
(* A thread inside the hook goes on, a server that is up answers, and the  *)
(* JVM defines the class; Main runs the loop of MethodEntry.               *)
(***************************************************************************)
FairSpec ==
  /\ Spec
  /\ \A t \in Thread : WF_vars(Hook(t))
  /\ WF_vars(GetLoadedClasses \/ LoopEnds \/ \E c \in Class : RetransformClasses(c))

-----------------------------------------------------------------------------

TypeOK ==
  /\ phase \in {"start", "hello", "loaded", "armed", "loop", "run", "dead", "aborted"}
  /\ cause \in {"none", "options", "gone", "call", "hello", "jvmti", "logger", "mode", "race"}
  /\ phase = "aborted" <=> cause # "none"
  /\ options \in Options \cup {"unknown"}
  /\ mode \in Modes
  /\ vm_init \in BOOLEAN
  /\ transformed_classes \subseteq Name
  /\ todo \subseteq Class \ Skipped
  /\ klass \in [Class -> {"absent", "loading", "loaded"}]
  /\ code \in [Class -> {"orig", "instr", "garbled"}]
  /\ pc \in [Thread -> {"idle", "find", "insert", "request", "wait", "define"}]
  /\ bytes \in [Thread -> {"orig", "instr", "garbled"}]
  /\ cur \in [Thread -> Class \cup {NoClass}]
  /\ \A t \in Thread : pc[t] = "idle" <=> cur[t] = NoClass
  /\ server \in {"up", "down"}
  /\ asked \in [Name -> Nat]
  /\ raced \subseteq Class /\ failed \subseteq Class /\ overlapped \subseteq Name

(* No other loader has a class of this name. *)
OwnName(c) == \A d \in Class : NameOf(d) = NameOf(c) => d = c

(***************************************************************************)
(* Safety: once the program runs, every class that the agent means to      *)
(* instrument is instrumented, whether it was loaded before, during or     *)
(* after the loop of MethodEntry, and stays so, whatever becomes of the    *)
(* server.  The exceptions: classes that were being loaded between vm_init *)
(* = true and GetLoadedClasses (their hook ran too early for the one and   *)
(* their definition came too late for the other, or the loop undid what    *)
(* their hook did), classes whose name another loader uses as well, and    *)
(* classes whose bytes did not arrive or that the JVM refused, an error    *)
(* the loop only logs.                                                     *)
(***************************************************************************)
InstrumentedUnlessRaced ==
  phase \in {"run", "dead"} =>
    \A c \in Class \ (Skipped \cup Plain \cup raced \cup failed) :
      klass[c] = "loaded" /\ OwnName(c) => code[c] = "instr"

(***************************************************************************)
(* Safety: the server, which numbers classes as they come, is asked once   *)
(* for each name, unless the race on transformed_classes involved it.      *)
(***************************************************************************)
AskedOncePerName ==
  \A n \in Name : asked[n] > 1 => n \in overlapped

(***************************************************************************)
(* Safety: what takes the traced program down is one of these.  Options    *)
(* that are null or lack candidate.txt do so at once, other unknown ones   *)
(* only when the first class is sent; the answer to the hello and missing  *)
(* logger classes only before any class is sent; a refused connection      *)
(* because the server is gone; a crash on transformed_classes because two  *)
(* hooks used it at once.  What is left are failing calls of the system    *)
(* and of JVMTI.  So with good options, a server that lives and calls that *)
(* succeed, no interleaving of hooks but that race aborts the program.     *)
(***************************************************************************)
AbortsForCause ==
  phase = "aborted" =>
    /\ cause = "options" => /\ ~vm_init
                            /\ \/ options = "null"
                               \/ options \in {"use", "value"} /\ ~HasCandidates
    /\ cause = "mode" => vm_init /\ options \notin {"base", "use", "value", "container", "null"}
    /\ cause \in {"hello", "logger"} => ~vm_init /\ \A n \in Name : asked[n] = 0
    /\ cause = "gone" => server = "down"
    /\ cause = "race" => vm_init /\ overlapped # {}
    /\ cause # "options" => parse_args(options) # "throws"

(***************************************************************************)
(* Liveness: class loading is never stuck in the agent, and the loop of    *)
(* MethodEntry comes to its end, unless the server goes away meanwhile.    *)
(***************************************************************************)
HooksReturn ==
  /\ \A t \in Thread : pc[t] # "idle" ~> (pc[t] = "idle" \/ ~Alive \/ server = "down")
  /\ vm_init ~> (phase \in {"run", "dead", "aborted"} \/ server = "down")

(***************************************************************************)
(* The command line of README.md, which gives the agent no options, starts *)
(* the traced program.                                                     *)
(***************************************************************************)
StartsWithoutOptions == options = "null" => phase # "aborted"

=============================================================================
