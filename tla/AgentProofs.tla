----------------------------- MODULE AgentProofs -----------------------------
(***************************************************************************)
(* Proofs about Agent, for every number of threads, any classes, names and *)
(* loaders, any options, with or without candidates, a mortal server and   *)
(* any number of classes that fail.                                        *)
(***************************************************************************)
EXTENDS Agent, TLAPS

-----------------------------------------------------------------------------
(* The parts of the inductive invariant *)

(* Once Agent_OnLoad is over, the mode is the one the options ask for. *)
ModeKnown ==
  phase \notin {"start", "aborted"} => mode = parse_args(options)

(* Thread t is on its way from the insertion of the name n to the request. *)
Sending(t, n) == pc[t] \in {"insert", "request"} /\ NameOf(cur[t]) = n

(* A name no race involved is inserted and requested by one thread only. *)
OneRequest ==
  \A n \in Name \ overlapped :
    /\ asked[n] \in {0, 1}
    /\ asked[n] = 1 => n \in transformed_classes /\ \A t \in Thread : ~Sending(t, n)
    /\ \A t \in Thread : pc[t] = "request" /\ NameOf(cur[t]) = n =>
         n \in transformed_classes /\ \A u \in Thread \ {t} : ~Sending(u, n)

(* The hook is armed by MethodEntry; before that it does nothing. *)
ArmedLate ==
  /\ phase \in {"start", "hello", "loaded"} =>
       /\ ~vm_init /\ transformed_classes = {}
       /\ \A n \in Name : asked[n] = 0
       /\ \A t \in Thread : pc[t] \in {"idle", "find", "define"}
  /\ phase \in {"armed", "loop", "run", "dead"} => vm_init

(* One thread at a time is in the hook for a class: its loader, or the loop. *)
OneHook ==
  /\ \A t, u \in Thread : cur[t] = cur[u] /\ cur[t] # NoClass => t = u
  /\ \A t \in Thread : cur[t] # NoClass =>
       \/ klass[cur[t]] = "loading"
       \/ t = Main /\ phase \in {"loop", "aborted"} /\ klass[cur[t]] = "loaded"

(* What the loop has still to do is loaded, and nobody is in its hook. *)
TodoLoaded ==
  /\ todo # {} => phase \in {"loop", "aborted"}
  /\ \A c \in todo : klass[c] = "loaded" /\ \A t \in Thread : cur[t] # c

(* Classes the agent instruments for certain. *)
Sure == {c \in Class \ (Skipped \cup Plain \cup raced \cup failed) : OwnName(c)}

(***************************************************************************)
(* The name of such a class is inserted by its own hook, after the loop    *)
(* took its snapshot, and never before the hook that gets the new bytes;   *)
(* these are what the JVM then defines.                                    *)
(***************************************************************************)
SureOnTheWay ==
  \A c \in Sure :
    /\ klass[c] = "absent" \/ c \in todo \/ phase \in {"start", "hello", "loaded", "armed"} =>
         NameOf(c) \notin transformed_classes
    /\ \A t \in Thread : pc[t] \in {"find", "insert"} /\ cur[t] = c =>
         NameOf(c) \notin transformed_classes
    /\ phase = "armed" => \A t \in Thread : cur[t] # c
    /\ phase \in {"loop", "run", "dead"} =>
         \A t \in Thread : pc[t] = "define" /\ cur[t] = c => bytes[t] = "instr"
    /\ /\ phase \in {"loop", "run", "dead"}
       /\ klass[c] = "loaded" /\ c \notin todo /\ \A t \in Thread : cur[t] # c
       => code[c] = "instr"

IInv ==
  /\ TypeOK
  /\ ModeKnown
  /\ OneRequest
  /\ ArmedLate
  /\ OneHook
  /\ TodoLoaded
  /\ SureOnTheWay
  /\ AbortsForCause

-----------------------------------------------------------------------------
(* The invariant, part by part *)

(* Every action keeps the types. *)
LEMMA TypeStep ==
  ASSUME TypeOK, [Next]_vars
  PROVE  TypeOK'
<1>. USE DEF TypeOK, Modes, hookVars, jvmVars, Name
<1>1. ASSUME NEW args \in Options, Agent_OnLoad(args)
      PROVE  TypeOK'
  BY <1>1 DEF Agent_OnLoad, parse_args, ClientFails, Abort
<1>2. ASSUME MethodEntry
      PROVE  TypeOK'
  BY <1>2 DEF MethodEntry, Loading, Abort
<1>3. ASSUME GetLoadedClasses
      PROVE  TypeOK'
  BY <1>3 DEF GetLoadedClasses, Abort
<1>4. ASSUME LoopEnds
      PROVE  TypeOK'
  BY <1>4 DEF LoopEnds
<1>5. ASSUME VMDeath
      PROVE  TypeOK'
  BY <1>5 DEF VMDeath, ClientFails, Abort
<1>6. ASSUME ServerDies
      PROVE  TypeOK'
  BY <1>6 DEF ServerDies
<1>7. ASSUME NEW c \in Class, RetransformClasses(c)
      PROVE  TypeOK'
  BY <1>7, MainAssumption, ClassAssumption DEF RetransformClasses
<1>8. ASSUME NEW t \in Thread, HookCrashes(t)
      PROVE  TypeOK'
  BY <1>8 DEF HookCrashes, Abort, Inserting
<1>9. ASSUME NEW t \in Thread, ReceiveFails(t)
      PROVE  TypeOK'
  BY <1>9 DEF ReceiveFails, Return
<1>10. ASSUME NEW t \in Thread, HookReturns(t)
      PROVE  TypeOK'
  BY <1>10 DEF HookReturns, Return, Ignored
<1>11. ASSUME NEW t \in Thread, HookFinds(t)
      PROVE  TypeOK'
  BY <1>11 DEF HookFinds, Ignored, Inserting
<1>12. ASSUME NEW t \in Thread, HookInserts(t)
      PROVE  TypeOK'
  BY <1>12 DEF HookInserts, Inserting
<1>13. ASSUME NEW t \in Thread, HookRequests(t)
      PROVE  TypeOK'
  BY <1>13 DEF HookRequests, ClientFails, Abort
<1>14. ASSUME NEW t \in Thread, Receives(t)
      PROVE  TypeOK'
  BY <1>14 DEF Receives, Return
<1>15. ASSUME NEW t \in Thread, NEW c \in Class, LoadClass(t, c)
      PROVE  TypeOK'
  BY <1>15, ClassAssumption DEF LoadClass
<1>16. ASSUME HelloAnswered
      PROVE  TypeOK'
  BY <1>16 DEF HelloAnswered, Abort
<1>17. ASSUME NEW t \in Thread, Define(t)
      PROVE  TypeOK'
  BY <1>17 DEF Define, LeavesHook
<1>18. ASSUME NEW t \in Thread, Refuse(t)
      PROVE  TypeOK'
  BY <1>18 DEF Refuse, LeavesHook
<1>19. ASSUME UNCHANGED vars
      PROVE  TypeOK'
  BY <1>19 DEF vars
<1>. QED
  BY <1>1, <1>2, <1>3, <1>4, <1>5, <1>6, <1>7, <1>8, <1>9, <1>10, <1>11, <1>12, <1>13, <1>14, <1>15, <1>16, <1>17, <1>18, <1>19
     DEF Next, Hook

(* The mode is set once, by Agent_OnLoad. *)
LEMMA ModeStep ==
  ASSUME TypeOK, ModeKnown, [Next]_vars
  PROVE  ModeKnown'
<1>. USE DEF ModeKnown, TypeOK, hookVars, jvmVars
<1>1. ASSUME NEW args \in Options, Agent_OnLoad(args)
      PROVE  ModeKnown'
  BY <1>1 DEF Agent_OnLoad, parse_args, ClientFails, Abort
<1>2. ASSUME MethodEntry
      PROVE  ModeKnown'
  BY <1>2 DEF MethodEntry, Loading, Abort
<1>3. ASSUME GetLoadedClasses
      PROVE  ModeKnown'
  BY <1>3 DEF GetLoadedClasses, Abort
<1>4. ASSUME LoopEnds
      PROVE  ModeKnown'
  BY <1>4 DEF LoopEnds
<1>5. ASSUME VMDeath
      PROVE  ModeKnown'
  BY <1>5 DEF VMDeath, ClientFails, Abort
<1>6. ASSUME ServerDies
      PROVE  ModeKnown'
  BY <1>6 DEF ServerDies
<1>7. ASSUME NEW c \in Class, RetransformClasses(c)
      PROVE  ModeKnown'
  BY <1>7 DEF RetransformClasses
<1>8. ASSUME NEW t \in Thread, HookCrashes(t)
      PROVE  ModeKnown'
  BY <1>8 DEF HookCrashes, Abort, Inserting
<1>9. ASSUME NEW t \in Thread, ReceiveFails(t)
      PROVE  ModeKnown'
  BY <1>9 DEF ReceiveFails, Return
<1>10. ASSUME NEW t \in Thread, HookReturns(t)
      PROVE  ModeKnown'
  BY <1>10 DEF HookReturns, Return, Ignored
<1>11. ASSUME NEW t \in Thread, HookFinds(t)
      PROVE  ModeKnown'
  BY <1>11 DEF HookFinds, Ignored, Inserting
<1>12. ASSUME NEW t \in Thread, HookInserts(t)
      PROVE  ModeKnown'
  BY <1>12 DEF HookInserts, Inserting
<1>13. ASSUME NEW t \in Thread, HookRequests(t)
      PROVE  ModeKnown'
  BY <1>13 DEF HookRequests, ClientFails, Abort
<1>14. ASSUME NEW t \in Thread, Receives(t)
      PROVE  ModeKnown'
  BY <1>14 DEF Receives, Return
<1>15. ASSUME NEW t \in Thread, NEW c \in Class, LoadClass(t, c)
      PROVE  ModeKnown'
  BY <1>15 DEF LoadClass
<1>16. ASSUME HelloAnswered
      PROVE  ModeKnown'
  BY <1>16 DEF HelloAnswered, Abort
<1>17. ASSUME NEW t \in Thread, Define(t)
      PROVE  ModeKnown'
  BY <1>17 DEF Define, LeavesHook
<1>18. ASSUME NEW t \in Thread, Refuse(t)
      PROVE  ModeKnown'
  BY <1>18 DEF Refuse, LeavesHook
<1>19. ASSUME UNCHANGED vars
      PROVE  ModeKnown'
  BY <1>19 DEF vars
<1>. QED
  BY <1>1, <1>2, <1>3, <1>4, <1>5, <1>6, <1>7, <1>8, <1>9, <1>10, <1>11, <1>12, <1>13, <1>14, <1>15, <1>16, <1>17, <1>18, <1>19
     DEF Next, Hook

(* Only MethodEntry arms the hook. *)
LEMMA ArmedStep ==
  ASSUME TypeOK, ArmedLate, [Next]_vars
  PROVE  ArmedLate'
<1>. USE DEF ArmedLate, TypeOK, hookVars, jvmVars
<1>1. ASSUME NEW args \in Options, Agent_OnLoad(args)
      PROVE  ArmedLate'
  BY <1>1 DEF Agent_OnLoad, parse_args, ClientFails, Abort
<1>2. ASSUME MethodEntry
      PROVE  ArmedLate'
  BY <1>2 DEF MethodEntry, Loading, Abort
<1>3. ASSUME GetLoadedClasses
      PROVE  ArmedLate'
  BY <1>3 DEF GetLoadedClasses, Abort
<1>4. ASSUME LoopEnds
      PROVE  ArmedLate'
  BY <1>4 DEF LoopEnds
<1>5. ASSUME VMDeath
      PROVE  ArmedLate'
  BY <1>5 DEF VMDeath, ClientFails, Abort
<1>6. ASSUME ServerDies
      PROVE  ArmedLate'
  BY <1>6 DEF ServerDies
<1>7. ASSUME NEW c \in Class, RetransformClasses(c)
      PROVE  ArmedLate'
  BY <1>7 DEF RetransformClasses
<1>8. ASSUME NEW t \in Thread, HookCrashes(t)
      PROVE  ArmedLate'
  BY <1>8 DEF HookCrashes, Abort, Inserting
<1>9. ASSUME NEW t \in Thread, ReceiveFails(t)
      PROVE  ArmedLate'
  BY <1>9 DEF ReceiveFails, Return
<1>10. ASSUME NEW t \in Thread, HookReturns(t)
      PROVE  ArmedLate'
  BY <1>10 DEF HookReturns, Return, Ignored
<1>11. ASSUME NEW t \in Thread, HookFinds(t)
      PROVE  ArmedLate'
  BY <1>11 DEF HookFinds, Ignored, Inserting
<1>12. ASSUME NEW t \in Thread, HookInserts(t)
      PROVE  ArmedLate'
  BY <1>12 DEF HookInserts, Inserting
<1>13. ASSUME NEW t \in Thread, HookRequests(t)
      PROVE  ArmedLate'
  BY <1>13 DEF HookRequests, ClientFails, Abort
<1>14. ASSUME NEW t \in Thread, Receives(t)
      PROVE  ArmedLate'
  BY <1>14 DEF Receives, Return
<1>15. ASSUME NEW t \in Thread, NEW c \in Class, LoadClass(t, c)
      PROVE  ArmedLate'
  BY <1>15 DEF LoadClass
<1>16. ASSUME HelloAnswered
      PROVE  ArmedLate'
  BY <1>16 DEF HelloAnswered, Abort
<1>17. ASSUME NEW t \in Thread, Define(t)
      PROVE  ArmedLate'
  BY <1>17 DEF Define, LeavesHook
<1>18. ASSUME NEW t \in Thread, Refuse(t)
      PROVE  ArmedLate'
  BY <1>18 DEF Refuse, LeavesHook
<1>19. ASSUME UNCHANGED vars
      PROVE  ArmedLate'
  BY <1>19 DEF vars
<1>. QED
  BY <1>1, <1>2, <1>3, <1>4, <1>5, <1>6, <1>7, <1>8, <1>9, <1>10, <1>11, <1>12, <1>13, <1>14, <1>15, <1>16, <1>17, <1>18, <1>19
     DEF Next, Hook

(* A class gets a second hook only when the first is over. *)
LEMMA OneHookStep ==
  ASSUME TypeOK, OneHook, TodoLoaded, [Next]_vars
  PROVE  OneHook'
<1>. USE DEF OneHook, TodoLoaded, TypeOK, hookVars, jvmVars
<1>1. ASSUME NEW args \in Options, Agent_OnLoad(args)
      PROVE  OneHook'
  BY <1>1 DEF Agent_OnLoad, parse_args, ClientFails, Abort
<1>2. ASSUME MethodEntry
      PROVE  OneHook'
  BY <1>2 DEF MethodEntry, Loading, Abort
<1>3. ASSUME GetLoadedClasses
      PROVE  OneHook'
  BY <1>3 DEF GetLoadedClasses, Abort
<1>4. ASSUME LoopEnds
      PROVE  OneHook'
  BY <1>4 DEF LoopEnds
<1>5. ASSUME VMDeath
      PROVE  OneHook'
  BY <1>5 DEF VMDeath, ClientFails, Abort
<1>6. ASSUME ServerDies
      PROVE  OneHook'
  BY <1>6 DEF ServerDies
<1>7. ASSUME NEW c \in Class, RetransformClasses(c)
      PROVE  OneHook'
  BY <1>7, MainAssumption, ClassAssumption DEF RetransformClasses
<1>8. ASSUME NEW t \in Thread, HookCrashes(t)
      PROVE  OneHook'
  BY <1>8 DEF HookCrashes, Abort, Inserting
<1>9. ASSUME NEW t \in Thread, ReceiveFails(t)
      PROVE  OneHook'
  BY <1>9 DEF ReceiveFails, Return
<1>10. ASSUME NEW t \in Thread, HookReturns(t)
      PROVE  OneHook'
  BY <1>10 DEF HookReturns, Return, Ignored
<1>11. ASSUME NEW t \in Thread, HookFinds(t)
      PROVE  OneHook'
  BY <1>11 DEF HookFinds, Ignored, Inserting
<1>12. ASSUME NEW t \in Thread, HookInserts(t)
      PROVE  OneHook'
  BY <1>12 DEF HookInserts, Inserting
<1>13. ASSUME NEW t \in Thread, HookRequests(t)
      PROVE  OneHook'
  BY <1>13 DEF HookRequests, ClientFails, Abort
<1>14. ASSUME NEW t \in Thread, Receives(t)
      PROVE  OneHook'
  BY <1>14 DEF Receives, Return
<1>15. ASSUME NEW t \in Thread, NEW c \in Class, LoadClass(t, c)
      PROVE  OneHook'
  BY <1>15, MainAssumption, ClassAssumption DEF LoadClass
<1>16. ASSUME HelloAnswered
      PROVE  OneHook'
  BY <1>16 DEF HelloAnswered, Abort
<1>17. ASSUME NEW t \in Thread, Define(t)
      PROVE  OneHook'
  BY <1>17 DEF Define, LeavesHook
<1>18. ASSUME NEW t \in Thread, Refuse(t)
      PROVE  OneHook'
  BY <1>18 DEF Refuse, LeavesHook
<1>19. ASSUME UNCHANGED vars
      PROVE  OneHook'
  BY <1>19 DEF vars
<1>. QED
  BY <1>1, <1>2, <1>3, <1>4, <1>5, <1>6, <1>7, <1>8, <1>9, <1>10, <1>11, <1>12, <1>13, <1>14, <1>15, <1>16, <1>17, <1>18, <1>19
     DEF Next, Hook

(* The loop works on classes that are loaded and left alone. *)
LEMMA TodoStep ==
  ASSUME TypeOK, OneHook, TodoLoaded, [Next]_vars
  PROVE  TodoLoaded'
<1>. USE DEF OneHook, TodoLoaded, TypeOK, hookVars, jvmVars
<1>1. ASSUME NEW args \in Options, Agent_OnLoad(args)
      PROVE  TodoLoaded'
  BY <1>1, ClassAssumption DEF Agent_OnLoad, parse_args, ClientFails, Abort
<1>2. ASSUME MethodEntry
      PROVE  TodoLoaded'
  BY <1>2, ClassAssumption DEF MethodEntry, Loading, Abort
<1>3. ASSUME GetLoadedClasses
      PROVE  TodoLoaded'
  BY <1>3, ClassAssumption DEF GetLoadedClasses, Abort
<1>4. ASSUME LoopEnds
      PROVE  TodoLoaded'
  BY <1>4, ClassAssumption DEF LoopEnds
<1>5. ASSUME VMDeath
      PROVE  TodoLoaded'
  BY <1>5, ClassAssumption DEF VMDeath, ClientFails, Abort
<1>6. ASSUME ServerDies
      PROVE  TodoLoaded'
  BY <1>6, ClassAssumption DEF ServerDies
<1>7. ASSUME NEW c \in Class, RetransformClasses(c)
      PROVE  TodoLoaded'
  BY <1>7, MainAssumption, ClassAssumption DEF RetransformClasses
<1>8. ASSUME NEW t \in Thread, HookCrashes(t)
      PROVE  TodoLoaded'
  BY <1>8, ClassAssumption DEF HookCrashes, Abort, Inserting
<1>9. ASSUME NEW t \in Thread, ReceiveFails(t)
      PROVE  TodoLoaded'
  BY <1>9, ClassAssumption DEF ReceiveFails, Return
<1>10. ASSUME NEW t \in Thread, HookReturns(t)
      PROVE  TodoLoaded'
  BY <1>10, ClassAssumption DEF HookReturns, Return, Ignored
<1>11. ASSUME NEW t \in Thread, HookFinds(t)
      PROVE  TodoLoaded'
  BY <1>11, ClassAssumption DEF HookFinds, Ignored, Inserting
<1>12. ASSUME NEW t \in Thread, HookInserts(t)
      PROVE  TodoLoaded'
  BY <1>12, ClassAssumption DEF HookInserts, Inserting
<1>13. ASSUME NEW t \in Thread, HookRequests(t)
      PROVE  TodoLoaded'
  BY <1>13, ClassAssumption DEF HookRequests, ClientFails, Abort
<1>14. ASSUME NEW t \in Thread, Receives(t)
      PROVE  TodoLoaded'
  BY <1>14, ClassAssumption DEF Receives, Return
<1>15. ASSUME NEW t \in Thread, NEW c \in Class, LoadClass(t, c)
      PROVE  TodoLoaded'
  BY <1>15, MainAssumption, ClassAssumption DEF LoadClass
<1>16. ASSUME HelloAnswered
      PROVE  TodoLoaded'
  BY <1>16, ClassAssumption DEF HelloAnswered, Abort
<1>17. ASSUME NEW t \in Thread, Define(t)
      PROVE  TodoLoaded'
  BY <1>17, ClassAssumption DEF Define, LeavesHook
<1>18. ASSUME NEW t \in Thread, Refuse(t)
      PROVE  TodoLoaded'
  BY <1>18, ClassAssumption DEF Refuse, LeavesHook
<1>19. ASSUME UNCHANGED vars
      PROVE  TodoLoaded'
  BY <1>19, ClassAssumption DEF vars
<1>. QED
  BY <1>1, <1>2, <1>3, <1>4, <1>5, <1>6, <1>7, <1>8, <1>9, <1>10, <1>11, <1>12, <1>13, <1>14, <1>15, <1>16, <1>17, <1>18, <1>19
     DEF Next, Hook

(* A second request for a name takes a race on the table. *)
LEMMA RequestStep ==
  ASSUME TypeOK, ArmedLate, OneRequest, [Next]_vars
  PROVE  OneRequest'
<1>. USE DEF OneRequest, Sending, ArmedLate, TypeOK, hookVars, jvmVars, Name
<1>1. ASSUME NEW args \in Options, Agent_OnLoad(args)
      PROVE  OneRequest'
  BY <1>1 DEF Agent_OnLoad, parse_args, ClientFails, Abort
<1>2. ASSUME MethodEntry
      PROVE  OneRequest'
  BY <1>2 DEF MethodEntry, Loading, Abort
<1>3. ASSUME GetLoadedClasses
      PROVE  OneRequest'
  BY <1>3 DEF GetLoadedClasses, Abort
<1>4. ASSUME LoopEnds
      PROVE  OneRequest'
  BY <1>4 DEF LoopEnds
<1>5. ASSUME VMDeath
      PROVE  OneRequest'
  BY <1>5 DEF VMDeath, ClientFails, Abort
<1>6. ASSUME ServerDies
      PROVE  OneRequest'
  BY <1>6 DEF ServerDies
<1>7. ASSUME NEW c \in Class, RetransformClasses(c)
      PROVE  OneRequest'
  BY <1>7, MainAssumption, ClassAssumption DEF RetransformClasses
<1>8. ASSUME NEW t \in Thread, HookCrashes(t)
      PROVE  OneRequest'
  BY <1>8 DEF HookCrashes, Abort, Inserting
<1>9. ASSUME NEW t \in Thread, ReceiveFails(t)
      PROVE  OneRequest'
  BY <1>9 DEF ReceiveFails, Return
<1>10. ASSUME NEW t \in Thread, HookReturns(t)
      PROVE  OneRequest'
  BY <1>10 DEF HookReturns, Return, Ignored
<1>11. ASSUME NEW t \in Thread, HookFinds(t)
      PROVE  OneRequest'
  BY <1>11 DEF HookFinds, Ignored, Inserting
<1>12. ASSUME NEW t \in Thread, HookInserts(t)
      PROVE  OneRequest'
  BY <1>12 DEF HookInserts, Inserting
<1>13. ASSUME NEW t \in Thread, HookRequests(t)
      PROVE  OneRequest'
  BY <1>13 DEF HookRequests, ClientFails, Abort
<1>14. ASSUME NEW t \in Thread, Receives(t)
      PROVE  OneRequest'
  BY <1>14 DEF Receives, Return
<1>15. ASSUME NEW t \in Thread, NEW c \in Class, LoadClass(t, c)
      PROVE  OneRequest'
  BY <1>15, MainAssumption, ClassAssumption DEF LoadClass
<1>16. ASSUME HelloAnswered
      PROVE  OneRequest'
  BY <1>16 DEF HelloAnswered, Abort
<1>17. ASSUME NEW t \in Thread, Define(t)
      PROVE  OneRequest'
  BY <1>17 DEF Define, LeavesHook
<1>18. ASSUME NEW t \in Thread, Refuse(t)
      PROVE  OneRequest'
  BY <1>18 DEF Refuse, LeavesHook
<1>19. ASSUME UNCHANGED vars
      PROVE  OneRequest'
  BY <1>19 DEF vars
<1>. QED
  BY <1>1, <1>2, <1>3, <1>4, <1>5, <1>6, <1>7, <1>8, <1>9, <1>10, <1>11, <1>12, <1>13, <1>14, <1>15, <1>16, <1>17, <1>18, <1>19
     DEF Next, Hook

(* Only options the agent does not know leave it without a mode. *)
LEMMA ParseInvalid ==
  ASSUME NEW args, parse_args(args) = "INVALID"
  PROVE  args \notin {"base", "use", "value", "container", "null"}
<1>1. args # "base"
  BY DEF parse_args
<1>2. args # "use"
  BY DEF parse_args
<1>3. args # "value"
  BY DEF parse_args
<1>4. args # "container"
  BY DEF parse_args
<1>5. args # "null"
  BY DEF parse_args
<1>. QED
  BY <1>1, <1>2, <1>3, <1>4, <1>5

(* Every abort has its cause. *)
LEMMA AbortStep ==
  ASSUME TypeOK, ModeKnown, ArmedLate, AbortsForCause, [Next]_vars
  PROVE  AbortsForCause'
<1>. USE DEF AbortsForCause, ModeKnown, ArmedLate, TypeOK, Modes, Alive, hookVars, jvmVars, Name
<1>1. ASSUME NEW args \in Options, Agent_OnLoad(args)
      PROVE  AbortsForCause'
  BY <1>1 DEF Agent_OnLoad, parse_args, ClientFails, Abort
<1>2. ASSUME MethodEntry
      PROVE  AbortsForCause'
  BY <1>2 DEF MethodEntry, Loading, Abort
<1>3. ASSUME GetLoadedClasses
      PROVE  AbortsForCause'
  BY <1>3 DEF GetLoadedClasses, Abort
<1>4. ASSUME LoopEnds
      PROVE  AbortsForCause'
  BY <1>4 DEF LoopEnds
<1>5. ASSUME VMDeath
      PROVE  AbortsForCause'
  BY <1>5 DEF VMDeath, ClientFails, Abort
<1>6. ASSUME ServerDies
      PROVE  AbortsForCause'
  BY <1>6 DEF ServerDies
<1>7. ASSUME NEW c \in Class, RetransformClasses(c)
      PROVE  AbortsForCause'
  BY <1>7 DEF RetransformClasses
<1>8. ASSUME NEW t \in Thread, HookCrashes(t)
      PROVE  AbortsForCause'
  BY <1>8 DEF HookCrashes, Abort, Inserting
<1>9. ASSUME NEW t \in Thread, ReceiveFails(t)
      PROVE  AbortsForCause'
  BY <1>9 DEF ReceiveFails, Return
<1>10. ASSUME NEW t \in Thread, HookReturns(t)
      PROVE  AbortsForCause'
  BY <1>10 DEF HookReturns, Return, Ignored
<1>11. ASSUME NEW t \in Thread, HookFinds(t)
      PROVE  AbortsForCause'
  BY <1>11 DEF HookFinds, Ignored, Inserting
<1>12. ASSUME NEW t \in Thread, HookInserts(t)
      PROVE  AbortsForCause'
  BY <1>12 DEF HookInserts, Inserting
<1>13. ASSUME NEW t \in Thread, HookRequests(t)
      PROVE  AbortsForCause'
  BY <1>13, ParseInvalid DEF HookRequests, ClientFails, Abort
<1>14. ASSUME NEW t \in Thread, Receives(t)
      PROVE  AbortsForCause'
  BY <1>14 DEF Receives, Return
<1>15. ASSUME NEW t \in Thread, NEW c \in Class, LoadClass(t, c)
      PROVE  AbortsForCause'
  BY <1>15 DEF LoadClass
<1>16. ASSUME HelloAnswered
      PROVE  AbortsForCause'
  BY <1>16 DEF HelloAnswered, Abort
<1>17. ASSUME NEW t \in Thread, Define(t)
      PROVE  AbortsForCause'
  BY <1>17 DEF Define, LeavesHook
<1>18. ASSUME NEW t \in Thread, Refuse(t)
      PROVE  AbortsForCause'
  BY <1>18 DEF Refuse, LeavesHook
<1>19. ASSUME UNCHANGED vars
      PROVE  AbortsForCause'
  BY <1>19 DEF vars
<1>. QED
  BY <1>1, <1>2, <1>3, <1>4, <1>5, <1>6, <1>7, <1>8, <1>9, <1>10, <1>11, <1>12, <1>13, <1>14, <1>15, <1>16, <1>17, <1>18, <1>19
     DEF Next, Hook

(* A class that is sure is on its way to its instrumentation. *)
LEMMA SureStep ==
  ASSUME TypeOK, ArmedLate, OneHook, TodoLoaded, SureOnTheWay, [Next]_vars
  PROVE  SureOnTheWay'
<1>. USE DEF SureOnTheWay, Sure, OwnName, OneHook, TodoLoaded, ArmedLate, TypeOK, hookVars, jvmVars, Name
<1>1. ASSUME NEW args \in Options, Agent_OnLoad(args)
      PROVE  SureOnTheWay'
  BY <1>1, ClassAssumption DEF Agent_OnLoad, parse_args, ClientFails, Abort
<1>2. ASSUME MethodEntry
      PROVE  SureOnTheWay'
  BY <1>2, ClassAssumption DEF MethodEntry, Loading, Abort
<1>3. ASSUME GetLoadedClasses
      PROVE  SureOnTheWay'
  BY <1>3, ClassAssumption DEF GetLoadedClasses, Abort
<1>4. ASSUME LoopEnds
      PROVE  SureOnTheWay'
  BY <1>4, ClassAssumption DEF LoopEnds
<1>5. ASSUME VMDeath
      PROVE  SureOnTheWay'
  BY <1>5, ClassAssumption DEF VMDeath, ClientFails, Abort
<1>6. ASSUME ServerDies
      PROVE  SureOnTheWay'
  BY <1>6, ClassAssumption DEF ServerDies
<1>7. ASSUME NEW c \in Class, RetransformClasses(c)
      PROVE  SureOnTheWay'
  BY <1>7, MainAssumption, ClassAssumption DEF RetransformClasses
<1>8. ASSUME NEW t \in Thread, HookCrashes(t)
      PROVE  SureOnTheWay'
  BY <1>8, ClassAssumption DEF HookCrashes, Abort, Inserting
<1>9. ASSUME NEW t \in Thread, ReceiveFails(t)
      PROVE  SureOnTheWay'
  BY <1>9, ClassAssumption DEF ReceiveFails, Return
<1>10. ASSUME NEW t \in Thread, HookReturns(t)
      PROVE  SureOnTheWay'
  BY <1>10, ClassAssumption DEF HookReturns, Return, Ignored
<1>11. ASSUME NEW t \in Thread, HookFinds(t)
      PROVE  SureOnTheWay'
  BY <1>11, ClassAssumption DEF HookFinds, Ignored, Inserting
<1>12. ASSUME NEW t \in Thread, HookInserts(t)
      PROVE  SureOnTheWay'
  BY <1>12, ClassAssumption DEF HookInserts, Inserting
<1>13. ASSUME NEW t \in Thread, HookRequests(t)
      PROVE  SureOnTheWay'
  BY <1>13, ClassAssumption DEF HookRequests, ClientFails, Abort
<1>14. ASSUME NEW t \in Thread, Receives(t)
      PROVE  SureOnTheWay'
  BY <1>14, ClassAssumption DEF Receives, Return
<1>15. ASSUME NEW t \in Thread, NEW c \in Class, LoadClass(t, c)
      PROVE  SureOnTheWay'
  BY <1>15, MainAssumption, ClassAssumption DEF LoadClass
<1>16. ASSUME HelloAnswered
      PROVE  SureOnTheWay'
  BY <1>16, ClassAssumption DEF HelloAnswered, Abort
<1>17. ASSUME NEW t \in Thread, Define(t)
      PROVE  SureOnTheWay'
  BY <1>17, ClassAssumption DEF Define, LeavesHook
<1>18. ASSUME NEW t \in Thread, Refuse(t)
      PROVE  SureOnTheWay'
  BY <1>18, ClassAssumption DEF Refuse, LeavesHook
<1>19. ASSUME UNCHANGED vars
      PROVE  SureOnTheWay'
  BY <1>19, ClassAssumption DEF vars
<1>. QED
  BY <1>1, <1>2, <1>3, <1>4, <1>5, <1>6, <1>7, <1>8, <1>9, <1>10, <1>11, <1>12, <1>13, <1>14, <1>15, <1>16, <1>17, <1>18, <1>19
     DEF Next, Hook

-----------------------------------------------------------------------------
(* The theorems *)

(* Nothing has happened yet. *)
LEMMA InitIInv == Init => IInv
<1>. SUFFICES ASSUME Init PROVE IInv
  OBVIOUS
<1>. USE DEF Init
<1>1. TypeOK
  BY DEF TypeOK, Modes
<1>2. ModeKnown /\ AbortsForCause
  BY DEF ModeKnown, AbortsForCause
<1>3. OneRequest
  BY DEF OneRequest
<1>4. ArmedLate /\ OneHook /\ TodoLoaded
  BY DEF ArmedLate, OneHook, TodoLoaded
<1>5. SureOnTheWay
  BY DEF SureOnTheWay
<1>. QED
  BY <1>1, <1>2, <1>3, <1>4, <1>5 DEF IInv

(***************************************************************************)
(* The agent's invariant holds in every reachable state, whatever hooks    *)
(* overlap, whenever the server goes away.                                 *)
(***************************************************************************)
THEOREM Invariance == Spec => []IInv
<1>1. IInv /\ [Next]_vars => IInv'
  BY TypeStep, ModeStep, ArmedStep, OneHookStep, TodoStep, RequestStep, AbortStep, SureStep
     DEF IInv
<1>. QED
  BY InitIInv, <1>1, PTL DEF Spec

(***************************************************************************)
(* The agent keeps its types; a thread is in the hook for a class exactly  *)
(* when it is not idle.                                                    *)
(***************************************************************************)
THEOREM TypeCorrect == Spec => []TypeOK
<1>1. IInv => TypeOK
  BY DEF IInv
<1>. QED
  BY Invariance, <1>1, PTL

(***************************************************************************)
(* Every class the agent means to instrument and that is loaded once the   *)
(* program runs has been instrumented, unless it was being loaded between  *)
(* vm_init = true and GetLoadedClasses, shares its name, its bytes did not *)
(* arrive or the JVM refused them.                                         *)
(***************************************************************************)
THEOREM Instrumented == Spec => []InstrumentedUnlessRaced
<1>1. IInv => InstrumentedUnlessRaced
  <2>. SUFFICES ASSUME IInv, phase \in {"run", "dead"},
                       NEW c \in Class \ (Skipped \cup Plain \cup raced \cup failed),
                       klass[c] = "loaded", OwnName(c)
                PROVE  code[c] = "instr"
    BY DEF InstrumentedUnlessRaced
  <2>1. c \in Sure
    BY DEF Sure
  <2>2. c \notin todo
    BY DEF IInv, TodoLoaded
  <2>3. \A t \in Thread : cur[t] # c
    BY ClassAssumption DEF IInv, OneHook
  <2>. QED
    BY <2>1, <2>2, <2>3 DEF IInv, SureOnTheWay
<1>. QED
  BY Invariance, <1>1, PTL

(***************************************************************************)
(* The server is asked a second time for a name only when the unlocked     *)
(* transformed_classes was read or written by two hooks at once.           *)
(***************************************************************************)
THEOREM AskedOnce == Spec => []AskedOncePerName
<1>1. IInv => AskedOncePerName
  BY DEF IInv, OneRequest, AskedOncePerName
<1>. QED
  BY Invariance, <1>1, PTL

(***************************************************************************)
(* Whatever takes the traced program down is a wrong configuration, the    *)
(* answer to the hello, a server that is gone, a call of the system or of  *)
(* JVMTI that failed, or the race on transformed_classes, each only where  *)
(* it can happen.                                                          *)
(***************************************************************************)
THEOREM AbortsExplained == Spec => []AbortsForCause
<1>1. IInv => AbortsForCause
  BY DEF IInv
<1>. QED
  BY Invariance, <1>1, PTL
=============================================================================
