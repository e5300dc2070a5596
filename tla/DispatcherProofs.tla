-------------------------- MODULE DispatcherProofs --------------------------
(***************************************************************************)
(* Proofs about Dispatcher, for any finite set of pods: who may be harmed, *)
(* what a refusal leaves alone, what exit code 0 stands for and when the   *)
(* in-pod dump of the jattach tier may go.                                 *)
(***************************************************************************)
EXTENDS Dispatcher, FiniteSetTheorems, TLAPS

\* Where each process may stand, and what runs under which verb and engine.
ControlInv ==
  /\ exit # "none" <=> pc = "exited"
  /\ script = "none" => pc \in {"preflight", "choose", "gates", "exited"}
  /\ script = "engine" => pc \in {"engine", "exited"}
  /\ script = "lifecycle" => /\ pc \in {"resolve", "confirm", "change", "exited"}
                             /\ req.verb \in Lifecycle
  /\ script = "actuator" => pc \in {"resolve", "fetch", "exited"}
  /\ script = "jattach" => pc \in {"resolve", "prepare", "print", "dumpheap", "size", "copy",
                                   "exited"}
  /\ script = "jdk" => pc \in {"resolve", "debug", "follow", "copyjdk", "exited"}
  /\ script \in Tiers \/ pc \in {"choose", "gates"} => req.verb \notin Lifecycle
  /\ script \in Tiers \/ pc = "gates" => req.verb # "fetch-heap"
  /\ pc \in {"dumpheap", "size", "copy", "copyjdk"} => Heap
  /\ pc = "print" => ~Heap
  /\ job # "none" => script = "jdk" /\ pc \in {"follow", "copyjdk", "exited"}
  /\ req.core = "corrupt" /\ ~req.v1 => script \in {"none", "lifecycle"} /\ pc # "gates"

\* What has not been touched yet, by whom.
UntouchedInv ==
  /\ script \notin Tiers => /\ left = {} /\ job = "none"
                            /\ \A t \in Tiers : file[t] = "absent"
  /\ script # "engine" => grant = NoPod /\ verdicts = {} /\ outcome = "none"
  /\ script = "none" => harmed = {}
  /\ script = "lifecycle" /\ exit \in {"none", "usage", "cluster"} => harmed = {}
  /\ exit \in {"unsigned", "unverified"} => script = "none"
  /\ exit = "cluster" => script \in {"none", "lifecycle"}
  /\ exit = "usage" => script \in {"none", "lifecycle"} \/ outcome = "refused"
  /\ outcome = "refused" => grant = NoPod /\ harmed = {} /\ verdicts = {}

\* The states in which a script has its pod.
Aimed == {"fetch", "prepare", "print", "dumpheap", "size", "copy", "debug", "follow",
          "copyjdk", "confirm", "change"}

\* What a destructive request may touch: the pod its script has found alone,
\* or the one that was named.
AimInv ==
  /\ (pc \in Aimed \/ job # "none") /\ Destructive =>
       /\ matches = {target}
       /\ target = Stray \/ (target \in Pods /\ req.pod \in {target, NoPod})
  /\ pc \in {"fetch", "print", "dumpheap", "size", "copy", "follow", "copyjdk"} \/ job # "none"
       => target # Stray
  /\ script \in Tiers /\ Heap => req.confirm /\ ~req.unsigned
  /\ pc = "change" => req.confirm
  /\ grant # NoPod => Heap /\ req.confirm /\ req.pod \in {grant, NoPod}

IInv == TypeOK /\ ControlInv /\ UntouchedInv /\ AimInv /\ SuccessIsBacked

-----------------------------------------------------------------------------
\* A finite set with at most one element, one of which is known.
LEMMA OnlyMatch ==
  ASSUME NEW found \in SUBSET Pods, NEW p \in found, ~(Cardinality(found) > 1)
  PROVE  found = {p}
<1>1. IsFiniteSet(found)
  BY PodsAssumption, FS_Subset
<1>2. IsFiniteSet(found \ {p}) /\ Cardinality(found \ {p}) = Cardinality(found) - 1
  BY <1>1, FS_RemoveElement
<1>3. Cardinality(found) \in Nat /\ Cardinality(found \ {p}) \in Nat
  BY <1>1, <1>2, FS_CardinalityType
<1>4. Cardinality(found \ {p}) = 0
  BY <1>2, <1>3
<1>5. found \ {p} = {}
  BY <1>2, <1>4, FS_EmptySet
<1> QED
  BY <1>5

-----------------------------------------------------------------------------
(* The invariant holds initially and is kept by every step.                *)

\* What a step of the engine may do.
LEMMA EngineEffect ==
  ASSUME EngineStep
  PROVE  \/ /\ outcome = "none" /\ grant = NoPod /\ grant' \in Pods
            /\ Heap /\ req.confirm /\ req.pod \in {NoPod, grant'}
            /\ UNCHANGED <<harmed, verdicts, outcome>>
         \/ /\ grant \in Pods /\ harmed' = harmed \union {grant}
            /\ UNCHANGED <<grant, verdicts, outcome>>
         \/ /\ outcome = "none" /\ verdicts' \in {verdicts \union {TRUE}, verdicts \union {FALSE}}
            /\ UNCHANGED <<grant, harmed, outcome>>
         \/ /\ outcome = "none" /\ outcome' \in {"refused", "ok", "failed", "killed"}
            /\ outcome' = "refused" => grant = NoPod /\ harmed = {} /\ verdicts = {}
            /\ outcome' = "ok" => TRUE \in verdicts
            /\ UNCHANGED <<grant, harmed, verdicts>>
<1>1. Engine!Next /\ (grant' # grant => Heap /\ req.confirm /\ (req.pod # NoPod => grant' = req.pod))
  BY DEF EngineStep
<1>2. CASE \E p \in Pods : Engine!Grant(p)
  <2>1. PICK p \in Pods : Engine!Grant(p)
    BY <1>2
  <2>2. grant = NoPod /\ grant' = p /\ grant' # grant
    BY <2>1, NamesAssumption DEF Engine!Grant
  <2> QED
    BY <1>1, <2>1, <2>2 DEF Engine!Grant
<1>3. CASE \E p \in Pods : Engine!Harm(p)
  BY <1>3 DEF Engine!Harm
<1>4. CASE \E good \in BOOLEAN : Engine!Record(good)
  BY <1>4 DEF Engine!Record
<1>5. CASE Engine!Refuse \/ Engine!Succeed \/ Engine!Fail \/ Engine!Die
  BY <1>5 DEF Engine!Refuse, Engine!Succeed, Engine!Fail, Engine!Die
<1> QED
  BY <1>1, <1>2, <1>3, <1>4, <1>5 DEF Engine!Next

LEMMA InitEstablishes == Init => IInv
BY DEF Init, IInv, TypeOK, ControlInv, UntouchedInv, AimInv, SuccessIsBacked, Aimed, Tiers,
       Body, Lifecycle, Heap

LEMMA TypesKept ==
  ASSUME TypeOK, ControlInv, AimInv, [Next]_vars PROVE TypeOK'
<1>1. CASE Preflight
  BY <1>1 DEF Preflight, Exit, traces, engine, TypeOK, Tiers, Body
<1>2. CASE ChooseEngine
  BY <1>2 DEF ChooseEngine, Unverified, Exit, traces, engine, TypeOK, Tiers,
       Body
<1>3. CASE EngineStep
  <2>1. UNCHANGED <<req, script, target, matches, file, left, job>> /\ script = "engine"
    BY <1>3 DEF EngineStep, aim
  <2>2. IF outcome' = outcome THEN UNCHANGED <<pc, exit>>
        ELSE /\ pc' = "exited"
             /\ IF outcome' = "refused" THEN exit' \in {"usage", "target"} ELSE exit' = outcome'
    BY <1>3 DEF EngineStep, Exit
  <2>3. grant' \in Pods \union {NoPod} /\ harmed' \in SUBSET Pods /\ verdicts' \in SUBSET BOOLEAN
    BY <1>3, EngineEffect DEF TypeOK
  <2>4. outcome' \in {"none", "refused", "ok", "failed", "killed"}
    BY <1>3, EngineEffect DEF TypeOK
  <2> QED
    BY <2>1, <2>2, <2>3, <2>4 DEF TypeOK
<1>4. CASE Gates
  BY <1>4 DEF Gates, Unsigned, FirstTier, Exit, Heap, traces, engine,
       Requests, TypeOK, Tiers, Body
<1>5. CASE ResolvePod
  <2>1. target' \in Pods \union {NoPod, Stray} /\ matches' \in SUBSET (Pods \union {Stray})
    BY <1>5 DEF ResolvePod, Names, TypeOK, Requests
  <2> QED
    BY <1>5, <2>1 DEF ResolvePod, Entry, Ends, Exit, TierAfter, traces, engine, ControlInv,
       TypeOK, Tiers
<1>6. CASE FetchActuator
  <2>1. harmed' \in SUBSET Pods
    BY <1>6 DEF FetchActuator, Harms, TypeOK, AimInv, Aimed, Destructive, Heap
  <2>2. file' \in [Tiers -> Body]
    BY <1>6 DEF FetchActuator, Writes, TypeOK, Body
  <2> QED
    BY <1>6, <2>1, <2>2 DEF FetchActuator, Marked, Ends, Exit, TierAfter, engine, TypeOK, Tiers
<1>7. CASE PrepareJattach
  BY <1>7 DEF PrepareJattach, Reached, Ends, Exit, TierAfter, RemoteCode,
       traces, engine, TypeOK, Tiers, Body
<1>8. CASE PrintThreads
  BY <1>8 DEF PrintThreads, Marked, Writes, Ends, Exit, TierAfter,
       RemoteCode, engine, TypeOK, Tiers, Body
<1>9. CASE DumpHeap
  <2>1. harmed' \in SUBSET Pods
    BY <1>9 DEF DumpHeap, Harms, TypeOK, AimInv, ControlInv, Aimed, Destructive, Heap
  <2>2. left' \in SUBSET Tiers
    BY <1>9 DEF DumpHeap, TypeOK, Tiers
  <2> QED
    BY <1>9, <2>1, <2>2 DEF DumpHeap, Ends, Exit, TierAfter, RemoteCode, engine, TypeOK, Tiers
<1>10. CASE ReadSize
  BY <1>10 DEF ReadSize, Ends, Exit, TierAfter, RemoteCode, traces, engine,
       TypeOK, Tiers, Body
<1>11. CASE CopyFromPod
  <2>1. file' \in [Tiers -> Body]
    BY <1>11 DEF CopyFromPod, Writes, TypeOK, Body
  <2>2. left' \in SUBSET Tiers
    BY <1>11 DEF CopyFromPod, CheckCopy, TypeOK, Tiers
  <2> QED
    BY <1>11, <2>1, <2>2 DEF CopyFromPod, CheckCopy, Marked, Ends, Exit, TierAfter, RemoteCode, engine,
       TypeOK, Tiers
<1>12. CASE DebugContainer
  BY <1>12 DEF DebugContainer, Reached, Ends, Exit, TierAfter, RemoteCode,
       engine, TypeOK, Tiers, Body
<1>13. CASE JobEnds
  <2>1. harmed' \in SUBSET Pods
    BY <1>13 DEF JobEnds, Harms, TypeOK, AimInv, Destructive, Heap
  <2>2. left' \in SUBSET Tiers
    BY <1>13 DEF JobEnds, TypeOK, Tiers
  <2> QED
    BY <1>13, <2>1, <2>2 DEF JobEnds, aim, engine, TypeOK
<1>14. CASE FollowLogs
  BY <1>14 DEF FollowLogs, LogBodies, Marked, Writes, Ends, Exit, TierAfter,
       engine, TypeOK, Tiers, Body
<1>15. CASE CopyJDKDump
  <2>1. file' \in [Tiers -> Body]
    BY <1>15 DEF CopyJDKDump, Writes, TypeOK, Body
  <2>2. left' \in SUBSET Tiers
    BY <1>15 DEF CopyJDKDump, CheckCopy, TypeOK, Tiers
  <2> QED
    BY <1>15, <2>1, <2>2 DEF CopyJDKDump, CheckCopy, Marked, Ends, Exit, TierAfter, RemoteCode, engine,
       TypeOK, Tiers
<1>16. CASE ConfirmChange
  BY <1>16 DEF ConfirmChange, Exit, aim, traces, engine, TypeOK, Tiers, Body
<1>17. CASE Change
  <2>1. harmed' \in SUBSET Pods
    BY <1>17 DEF Change, Harms, Reached, TypeOK, ControlInv, AimInv, Aimed, Destructive, Lifecycle,
       Tiers
  <2> QED
    BY <1>17, <2>1 DEF Change, Exit, aim, engine, TypeOK
<1>18. CASE Kill
  BY <1>18 DEF Kill, Exit, aim, traces, engine, TypeOK, Tiers, Body
<1>19. CASE UNCHANGED vars
  BY <1>19 DEF vars, TypeOK, Tiers, Body
<1> QED
  BY <1>1, <1>2, <1>3, <1>4, <1>5, <1>6, <1>7, <1>8, <1>9, <1>10, <1>11,
       <1>12, <1>13, <1>14, <1>15, <1>16, <1>17, <1>18, <1>19 DEF Next

LEMMA ControlKept ==
  ASSUME TypeOK, ControlInv, [Next]_vars PROVE ControlInv'
<1>1. CASE Preflight
  BY <1>1 DEF Preflight, Exit, traces, engine, ControlInv, TypeOK, Tiers,
       Lifecycle, Heap
<1>2. CASE ChooseEngine
  BY <1>2 DEF ChooseEngine, Unverified, Exit, traces, engine, ControlInv,
       TypeOK, Tiers, Lifecycle, Heap
<1>3. CASE EngineStep
  <2>1. UNCHANGED <<req, script, target, matches, file, left, job>> /\ script = "engine"
    BY <1>3 DEF EngineStep, aim
  <2>2. IF outcome' = outcome THEN UNCHANGED <<pc, exit>>
        ELSE /\ pc' = "exited"
             /\ IF outcome' = "refused" THEN exit' \in {"usage", "target"} ELSE exit' = outcome'
    BY <1>3 DEF EngineStep, Exit
  <2> QED
    BY <1>3, <2>1, <2>2, EngineEffect, NamesAssumption DEF ControlInv, TypeOK
<1>4. CASE Gates
  BY <1>4 DEF Gates, Unsigned, FirstTier, Exit, Heap, traces, engine,
       Requests, ControlInv, TypeOK, Tiers, Lifecycle, Heap
<1>5. CASE ResolvePod
  BY <1>5 DEF ResolvePod, Names, Entry, Guesses, Ends, Exit, TierAfter,
       traces, engine, Requests, ControlInv, TypeOK, Tiers, Lifecycle, Heap
<1>6. CASE FetchActuator
  BY <1>6 DEF FetchActuator, Marked, Writes, Harms, Ends, Exit, TierAfter,
       engine, ControlInv, TypeOK, Tiers, Lifecycle, Heap
<1>7. CASE PrepareJattach
  BY <1>7 DEF PrepareJattach, Reached, Ends, Exit, TierAfter, RemoteCode,
       traces, engine, ControlInv, TypeOK, Tiers, Lifecycle, Heap
<1>8. CASE PrintThreads
  BY <1>8 DEF PrintThreads, Marked, Writes, Ends, Exit, TierAfter,
       RemoteCode, engine, ControlInv, TypeOK, Tiers, Lifecycle, Heap
<1>9. CASE DumpHeap
  BY <1>9 DEF DumpHeap, Harms, Ends, Exit, TierAfter, RemoteCode, engine,
       ControlInv, TypeOK, Tiers, Lifecycle, Heap
<1>10. CASE ReadSize
  BY <1>10 DEF ReadSize, Ends, Exit, TierAfter, RemoteCode, traces, engine,
       ControlInv, TypeOK, Tiers, Lifecycle, Heap
<1>11. CASE CopyFromPod
  BY <1>11 DEF CopyFromPod, CheckCopy, Writes, Ends, Exit, TierAfter,
       RemoteCode, engine, ControlInv, TypeOK, Tiers, Lifecycle, Heap
<1>12. CASE DebugContainer
  BY <1>12 DEF DebugContainer, Reached, Ends, Exit, TierAfter, RemoteCode,
       engine, ControlInv, TypeOK, Tiers, Lifecycle, Heap
<1>13. CASE JobEnds
  BY <1>13 DEF JobEnds, Harms, aim, engine, ControlInv, TypeOK, Tiers,
       Lifecycle, Heap
<1>14. CASE FollowLogs
  BY <1>14 DEF FollowLogs, LogBodies, Marked, Writes, Ends, Exit, TierAfter,
       engine, ControlInv, TypeOK, Tiers, Lifecycle, Heap
<1>15. CASE CopyJDKDump
  BY <1>15 DEF CopyJDKDump, Marked, Writes, Ends, Exit, TierAfter,
       RemoteCode, engine, ControlInv, TypeOK, Tiers, Lifecycle, Heap
<1>16. CASE ConfirmChange
  BY <1>16 DEF ConfirmChange, Exit, aim, traces, engine, ControlInv, TypeOK,
       Tiers, Lifecycle, Heap
<1>17. CASE Change
  BY <1>17 DEF Change, Reached, Harms, Exit, aim, engine, ControlInv, TypeOK,
       Tiers, Lifecycle, Heap
<1>18. CASE Kill
  BY <1>18 DEF Kill, Exit, aim, traces, engine, ControlInv, TypeOK, Tiers,
       Lifecycle, Heap
<1>19. CASE UNCHANGED vars
  BY <1>19 DEF vars, ControlInv, TypeOK, Tiers, Lifecycle, Heap
<1> QED
  BY <1>1, <1>2, <1>3, <1>4, <1>5, <1>6, <1>7, <1>8, <1>9, <1>10, <1>11,
       <1>12, <1>13, <1>14, <1>15, <1>16, <1>17, <1>18, <1>19 DEF Next

LEMMA UntouchedKept ==
  ASSUME TypeOK, ControlInv, UntouchedInv, [Next]_vars PROVE UntouchedInv'
<1>1. CASE Preflight
  BY <1>1 DEF Preflight, Exit, traces, engine, UntouchedInv, ControlInv,
       TypeOK, Tiers
<1>2. CASE ChooseEngine
  BY <1>2 DEF ChooseEngine, Unverified, Exit, traces, engine, UntouchedInv,
       ControlInv, TypeOK, Tiers
<1>3. CASE EngineStep
  <2>1. UNCHANGED <<req, script, target, matches, file, left, job>> /\ script = "engine"
    BY <1>3 DEF EngineStep, aim
  <2>2. IF outcome' = outcome THEN UNCHANGED <<pc, exit>>
        ELSE /\ pc' = "exited"
             /\ IF outcome' = "refused" THEN exit' \in {"usage", "target"} ELSE exit' = outcome'
    BY <1>3 DEF EngineStep, Exit
  <2> QED
    BY <1>3, <2>1, <2>2, EngineEffect, NamesAssumption DEF UntouchedInv, ControlInv, TypeOK, Tiers
<1>4. CASE Gates
  BY <1>4 DEF Gates, Unsigned, FirstTier, Exit, Heap, traces, engine,
       Requests, UntouchedInv, ControlInv, TypeOK, Tiers
<1>5. CASE ResolvePod
  BY <1>5 DEF ResolvePod, Names, Entry, Guesses, Ends, Exit, TierAfter,
       traces, engine, Requests, UntouchedInv, ControlInv, TypeOK, Tiers
<1>6. CASE FetchActuator
  BY <1>6 DEF FetchActuator, Marked, Writes, Harms, Ends, Exit, TierAfter,
       engine, UntouchedInv, ControlInv, TypeOK, Tiers
<1>7. CASE PrepareJattach
  BY <1>7 DEF PrepareJattach, Reached, Ends, Exit, TierAfter, RemoteCode,
       traces, engine, UntouchedInv, ControlInv, TypeOK, Tiers
<1>8. CASE PrintThreads
  BY <1>8 DEF PrintThreads, Marked, Writes, Ends, Exit, TierAfter,
       RemoteCode, engine, UntouchedInv, ControlInv, TypeOK, Tiers
<1>9. CASE DumpHeap
  BY <1>9 DEF DumpHeap, Harms, Ends, Exit, TierAfter, RemoteCode, engine,
       UntouchedInv, ControlInv, TypeOK, Tiers
<1>10. CASE ReadSize
  BY <1>10 DEF ReadSize, Ends, Exit, TierAfter, RemoteCode, traces, engine,
       UntouchedInv, ControlInv, TypeOK, Tiers
<1>11. CASE CopyFromPod
  BY <1>11 DEF CopyFromPod, CheckCopy, Writes, Ends, Exit, TierAfter,
       RemoteCode, engine, UntouchedInv, ControlInv, TypeOK, Tiers
<1>12. CASE DebugContainer
  BY <1>12 DEF DebugContainer, Reached, Ends, Exit, TierAfter, RemoteCode,
       engine, UntouchedInv, ControlInv, TypeOK, Tiers
<1>13. CASE JobEnds
  BY <1>13 DEF JobEnds, Harms, aim, engine, UntouchedInv, ControlInv, TypeOK,
       Tiers
<1>14. CASE FollowLogs
  BY <1>14 DEF FollowLogs, LogBodies, Marked, Writes, Ends, Exit, TierAfter,
       engine, UntouchedInv, ControlInv, TypeOK, Tiers
<1>15. CASE CopyJDKDump
  BY <1>15 DEF CopyJDKDump, Marked, Writes, Ends, Exit, TierAfter,
       RemoteCode, engine, UntouchedInv, ControlInv, TypeOK, Tiers
<1>16. CASE ConfirmChange
  BY <1>16 DEF ConfirmChange, Exit, aim, traces, engine, UntouchedInv,
       ControlInv, TypeOK, Tiers
<1>17. CASE Change
  BY <1>17 DEF Change, Reached, Harms, Exit, aim, engine, UntouchedInv,
       ControlInv, TypeOK, Tiers
<1>18. CASE Kill
  BY <1>18 DEF Kill, Exit, aim, traces, engine, UntouchedInv, ControlInv,
       TypeOK, Tiers
<1>19. CASE UNCHANGED vars
  BY <1>19 DEF vars, UntouchedInv, ControlInv, TypeOK, Tiers
<1> QED
  BY <1>1, <1>2, <1>3, <1>4, <1>5, <1>6, <1>7, <1>8, <1>9, <1>10, <1>11,
       <1>12, <1>13, <1>14, <1>15, <1>16, <1>17, <1>18, <1>19 DEF Next

LEMMA AimKept ==
  ASSUME TypeOK, ControlInv, UntouchedInv, AimInv, [Next]_vars PROVE AimInv'
<1>1. CASE Preflight
  BY <1>1 DEF Preflight, Exit, traces, engine, AimInv, ControlInv,
       UntouchedInv, TypeOK, Aimed, Tiers, Lifecycle, Heap, Destructive
<1>2. CASE ChooseEngine
  BY <1>2 DEF ChooseEngine, Unverified, Exit, traces, engine, AimInv,
       ControlInv, UntouchedInv, TypeOK, Aimed, Tiers, Lifecycle, Heap,
       Destructive
<1>3. CASE EngineStep
  <2>1. UNCHANGED <<req, script, target, matches, file, left, job>> /\ script = "engine"
    BY <1>3 DEF EngineStep, aim
  <2>2. IF outcome' = outcome THEN UNCHANGED <<pc, exit>>
        ELSE /\ pc' = "exited"
             /\ IF outcome' = "refused" THEN exit' \in {"usage", "target"} ELSE exit' = outcome'
    BY <1>3 DEF EngineStep, Exit
  <2> QED
    BY <1>3, <2>1, <2>2, EngineEffect, NamesAssumption DEF AimInv, ControlInv, UntouchedInv, Aimed, Heap, Destructive
<1>4. CASE Gates
  BY <1>4 DEF Gates, Unsigned, FirstTier, Exit, Heap, traces, engine,
       Requests, AimInv, ControlInv, UntouchedInv, TypeOK, Aimed, Tiers,
       Lifecycle, Heap, Destructive
<1>5. CASE ResolvePod
  <2>1. CASE \E name \in Names : /\ target' = name /\ matches' = {name}
                                   /\ pc' = Entry /\ UNCHANGED <<script, exit>>
    BY <1>5, <2>1, NamesAssumption DEF ResolvePod, Names, Entry, traces, engine, AimInv,
       ControlInv, TypeOK, Requests, Aimed, Tiers, Heap, Destructive
  <2>2. CASE \E found \in SUBSET Pods : /\ Names = {} /\ ~Guesses(found)
                                        /\ matches' = found /\ target' \in found
                                        /\ pc' = Entry /\ UNCHANGED <<script, exit>>
    <3>1. Destructive => matches' = {target'}
      BY <2>2, OnlyMatch DEF Guesses
    <3>2. target' \in Pods /\ target' # Stray /\ req.pod = NoPod /\ UNCHANGED req
      BY <1>5, <2>2, NamesAssumption DEF ResolvePod, Names, TypeOK, Requests
    <3> QED
      BY <1>5, <2>2, <3>1, <3>2 DEF ResolvePod, Entry, traces, engine, AimInv, ControlInv,
         TypeOK, Aimed, Tiers, Heap, Destructive
  <2>3. CASE Ends("target") /\ UNCHANGED <<target, matches>>
    BY <1>5, <2>3 DEF ResolvePod, Ends, Exit, TierAfter, traces, engine, AimInv, ControlInv,
       TypeOK, Aimed, Tiers, Heap, Destructive
  <2> QED
    BY <1>5, <2>1, <2>2, <2>3 DEF ResolvePod
<1>6. CASE FetchActuator
  BY <1>6 DEF FetchActuator, Marked, Writes, Harms, Ends, Exit, TierAfter,
       engine, AimInv, ControlInv, UntouchedInv, TypeOK, Aimed, Tiers,
       Lifecycle, Heap, Destructive
<1>7. CASE PrepareJattach
  BY <1>7 DEF PrepareJattach, Reached, Ends, Exit, TierAfter, RemoteCode,
       traces, engine, AimInv, ControlInv, UntouchedInv, TypeOK, Aimed,
       Tiers, Lifecycle, Heap, Destructive
<1>8. CASE PrintThreads
  BY <1>8 DEF PrintThreads, Marked, Writes, Ends, Exit, TierAfter,
       RemoteCode, engine, AimInv, ControlInv, UntouchedInv, TypeOK, Aimed,
       Tiers, Lifecycle, Heap, Destructive
<1>9. CASE DumpHeap
  BY <1>9 DEF DumpHeap, Harms, Ends, Exit, TierAfter, RemoteCode, engine,
       AimInv, ControlInv, UntouchedInv, TypeOK, Aimed, Tiers, Lifecycle,
       Heap, Destructive
<1>10. CASE ReadSize
  BY <1>10 DEF ReadSize, Ends, Exit, TierAfter, RemoteCode, traces, engine,
       AimInv, ControlInv, UntouchedInv, TypeOK, Aimed, Tiers, Lifecycle,
       Heap, Destructive
<1>11. CASE CopyFromPod
  BY <1>11 DEF CopyFromPod, CheckCopy, Writes, Ends, Exit, TierAfter,
       RemoteCode, engine, AimInv, ControlInv, UntouchedInv, TypeOK, Aimed,
       Tiers, Lifecycle, Heap, Destructive
<1>12. CASE DebugContainer
  BY <1>12 DEF DebugContainer, Reached, Ends, Exit, TierAfter, RemoteCode,
       engine, AimInv, ControlInv, UntouchedInv, TypeOK, Aimed, Tiers,
       Lifecycle, Heap, Destructive
<1>13. CASE JobEnds
  BY <1>13 DEF JobEnds, Harms, aim, engine, AimInv, ControlInv, UntouchedInv,
       TypeOK, Aimed, Tiers, Lifecycle, Heap, Destructive
<1>14. CASE FollowLogs
  BY <1>14 DEF FollowLogs, LogBodies, Marked, Writes, Ends, Exit, TierAfter,
       engine, AimInv, ControlInv, UntouchedInv, TypeOK, Aimed, Tiers,
       Lifecycle, Heap, Destructive
<1>15. CASE CopyJDKDump
  BY <1>15 DEF CopyJDKDump, Marked, Writes, Ends, Exit, TierAfter,
       RemoteCode, engine, AimInv, ControlInv, UntouchedInv, TypeOK, Aimed,
       Tiers, Lifecycle, Heap, Destructive
<1>16. CASE ConfirmChange
  BY <1>16 DEF ConfirmChange, Exit, aim, traces, engine, AimInv, ControlInv,
       UntouchedInv, TypeOK, Aimed, Tiers, Lifecycle, Heap, Destructive
<1>17. CASE Change
  BY <1>17 DEF Change, Reached, Harms, Exit, aim, engine, AimInv, ControlInv,
       UntouchedInv, TypeOK, Aimed, Tiers, Lifecycle, Heap, Destructive
<1>18. CASE Kill
  BY <1>18 DEF Kill, Exit, aim, traces, engine, AimInv, ControlInv,
       UntouchedInv, TypeOK, Aimed, Tiers, Lifecycle, Heap, Destructive
<1>19. CASE UNCHANGED vars
  BY <1>19 DEF vars, AimInv, ControlInv, UntouchedInv, TypeOK, Aimed, Tiers,
       Lifecycle, Heap, Destructive
<1> QED
  BY <1>1, <1>2, <1>3, <1>4, <1>5, <1>6, <1>7, <1>8, <1>9, <1>10, <1>11,
       <1>12, <1>13, <1>14, <1>15, <1>16, <1>17, <1>18, <1>19 DEF Next

LEMMA SuccessKept ==
  ASSUME TypeOK, ControlInv, SuccessIsBacked, [Next]_vars PROVE SuccessIsBacked'
<1>1. CASE Preflight
  BY <1>1 DEF Preflight, Exit, traces, engine, SuccessIsBacked, ControlInv,
       TypeOK, Tiers, Heap
<1>2. CASE ChooseEngine
  BY <1>2 DEF ChooseEngine, Unverified, Exit, traces, engine,
       SuccessIsBacked, ControlInv, TypeOK, Tiers, Heap
<1>3. CASE EngineStep
  <2>1. UNCHANGED <<req, script, target, matches, file, left, job>> /\ script = "engine"
    BY <1>3 DEF EngineStep, aim
  <2>2. IF outcome' = outcome THEN UNCHANGED <<pc, exit>>
        ELSE /\ pc' = "exited"
             /\ IF outcome' = "refused" THEN exit' \in {"usage", "target"} ELSE exit' = outcome'
    BY <1>3 DEF EngineStep, Exit
  <2> QED
    BY <1>3, <2>1, <2>2, EngineEffect, NamesAssumption DEF SuccessIsBacked, ControlInv, Tiers
<1>4. CASE Gates
  BY <1>4 DEF Gates, Unsigned, FirstTier, Exit, Heap, traces, engine,
       Requests, SuccessIsBacked, ControlInv, TypeOK, Tiers, Heap
<1>5. CASE ResolvePod
  BY <1>5 DEF ResolvePod, Names, Entry, Guesses, Ends, Exit, TierAfter,
       traces, engine, Requests, SuccessIsBacked, ControlInv, TypeOK, Tiers,
       Heap
<1>6. CASE FetchActuator
  BY <1>6 DEF FetchActuator, Marked, Writes, Harms, Ends, Exit, TierAfter,
       engine, SuccessIsBacked, ControlInv, TypeOK, Tiers, Heap
<1>7. CASE PrepareJattach
  BY <1>7 DEF PrepareJattach, Reached, Ends, Exit, TierAfter, RemoteCode,
       traces, engine, SuccessIsBacked, ControlInv, TypeOK, Tiers, Heap
<1>8. CASE PrintThreads
  BY <1>8 DEF PrintThreads, Marked, Writes, Ends, Exit, TierAfter,
       RemoteCode, engine, SuccessIsBacked, ControlInv, TypeOK, Tiers, Heap
<1>9. CASE DumpHeap
  BY <1>9 DEF DumpHeap, Harms, Ends, Exit, TierAfter, RemoteCode, engine,
       SuccessIsBacked, ControlInv, TypeOK, Tiers, Heap
<1>10. CASE ReadSize
  BY <1>10 DEF ReadSize, Ends, Exit, TierAfter, RemoteCode, traces, engine,
       SuccessIsBacked, ControlInv, TypeOK, Tiers, Heap
<1>11. CASE CopyFromPod
  BY <1>11 DEF CopyFromPod, CheckCopy, Writes, Ends, Exit, TierAfter,
       RemoteCode, engine, SuccessIsBacked, ControlInv, TypeOK, Tiers, Heap
<1>12. CASE DebugContainer
  BY <1>12 DEF DebugContainer, Reached, Ends, Exit, TierAfter, RemoteCode,
       engine, SuccessIsBacked, ControlInv, TypeOK, Tiers, Heap
<1>13. CASE JobEnds
  BY <1>13 DEF JobEnds, Harms, aim, engine, SuccessIsBacked, ControlInv,
       TypeOK, Tiers, Heap
<1>14. CASE FollowLogs
  BY <1>14 DEF FollowLogs, LogBodies, Marked, Writes, Ends, Exit, TierAfter,
       engine, SuccessIsBacked, ControlInv, TypeOK, Tiers, Heap
<1>15. CASE CopyJDKDump
  BY <1>15 DEF CopyJDKDump, Marked, Writes, Ends, Exit, TierAfter,
       RemoteCode, engine, SuccessIsBacked, ControlInv, TypeOK, Tiers, Heap
<1>16. CASE ConfirmChange
  BY <1>16 DEF ConfirmChange, Exit, aim, traces, engine, SuccessIsBacked,
       ControlInv, TypeOK, Tiers, Heap
<1>17. CASE Change
  BY <1>17 DEF Change, Reached, Harms, Exit, aim, engine, SuccessIsBacked,
       ControlInv, TypeOK, Tiers, Heap
<1>18. CASE Kill
  BY <1>18 DEF Kill, Exit, aim, traces, engine, SuccessIsBacked, ControlInv,
       TypeOK, Tiers, Heap
<1>19. CASE UNCHANGED vars
  BY <1>19 DEF vars, SuccessIsBacked, ControlInv, TypeOK, Tiers, Heap
<1> QED
  BY <1>1, <1>2, <1>3, <1>4, <1>5, <1>6, <1>7, <1>8, <1>9, <1>10, <1>11,
       <1>12, <1>13, <1>14, <1>15, <1>16, <1>17, <1>18, <1>19 DEF Next

LEMMA StepKeeps ==
  ASSUME IInv, [Next]_vars PROVE IInv'
BY TypesKept, ControlKept, UntouchedKept, AimKept, SuccessKept DEF IInv

-----------------------------------------------------------------------------
(* Theorems.                                                               *)

\* The inductive invariant: where each process stands, what it has touched,
\* and what a destructive request may touch.
THEOREM Invariance == Spec => []IInv
<1>1. Init => IInv
  BY InitEstablishes
<1>2. IInv /\ [Next]_vars => IInv'
  BY StepKeeps
<1> QED
  BY <1>1, <1>2, PTL DEF Spec

\* Every variable has its type, for any finite set of pods.
THEOREM TypeCorrect == Spec => []TypeOK
<1>1. IInv => TypeOK
  BY DEF IInv
<1> QED
  BY <1>1, Invariance, PTL

\* A refusal has touched nothing, and an engine that failed its checksum is
\* neither run nor replaced (jdebug:127-139, 186-203).
THEOREM RefusalTouchesNothing == Spec => []RefusedBeforeAnything
<1>1. IInv => RefusedBeforeAnything
  <2> SUFFICES ASSUME IInv PROVE RefusedBeforeAnything
    OBVIOUS
  <2>1. CASE exit \in {"usage", "unsigned", "unverified", "cluster"}
    <3>1. harmed = {} /\ verdicts = {} /\ script \notin Tiers
      BY <2>1 DEF IInv, UntouchedInv, TypeOK, Tiers
    <3> QED
      BY <3>1 DEF IInv, ControlInv, UntouchedInv, RefusedBeforeAnything
  <2> QED
    BY <2>1 DEF IInv, ControlInv, RefusedBeforeAnything
<1> QED
  BY <1>1, Invariance, PTL

\* 0 stands for a capture that was checked, or a change that was made
\* (docs/cli.md:68-76).
THEOREM SuccessMeansDone == Spec => []SuccessIsBacked
<1>1. IInv => SuccessIsBacked
  BY DEF IInv
<1> QED
  BY <1>1, Invariance, PTL

\* A pod is harmed only for a confirmed request that named it or whose own
\* script found it alone, however the pods change between two tiers
\* (common.sh:219-245, jdebug:127-158).
THEOREM HarmNeedsAuthority == Spec => HarmIsAuthorised
<1> DEFINE Authorised(p) ==
      /\ p \in Pods /\ req.verb \notin {"threads", "fetch-heap"} /\ req.confirm
      /\ req.pod \in {p, NoPod}
      /\ IF script = "engine" THEN p = grant
         ELSE /\ p = target /\ matches = {p}
              /\ ~(req.verb = "heap" /\ req.unsigned)
<1>1. ASSUME IInv, [Next]_vars, NEW p \in harmed' \ harmed PROVE Authorised(p)
  <2>1. CASE EngineStep
    <3>1. script = "engine"
      BY <2>1 DEF EngineStep
    <3>2. harmed' = harmed \/ (grant \in Pods /\ harmed' = harmed \union {grant})
      BY <2>1, EngineEffect
    <3>3. p \in harmed' /\ p \notin harmed
      BY <1>1
    <3>4. p = grant /\ grant \in Pods
      BY <3>2, <3>3
    <3> QED
      BY <1>1, <3>1, <3>4, NamesAssumption DEF IInv, AimInv, Heap
  <2>2. CASE FetchActuator \/ DumpHeap \/ JobEnds
    <3>1. Heap /\ p = target /\ script \in Tiers /\ (pc \in Aimed \/ job # "none")
      BY <1>1, <2>2 DEF IInv, TypeOK, ControlInv, FetchActuator, DumpHeap, JobEnds, Harms,
         Aimed, Tiers
    <3>2. target # Stray
      BY <1>1, <2>2 DEF IInv, AimInv, FetchActuator, DumpHeap, JobEnds
    <3> QED
      BY <1>1, <3>1, <3>2 DEF IInv, AimInv, Destructive, Heap, Tiers
  <2>3. CASE Change
    <3>1. p = target /\ target # Stray /\ script = "lifecycle" /\ req.verb \in Lifecycle
      BY <1>1, <2>3 DEF IInv, TypeOK, ControlInv, Change, Harms, Reached, Tiers
    <3> QED
      BY <1>1, <2>3, <3>1 DEF IInv, AimInv, Change, Destructive, Aimed, Lifecycle
  <2> QED
    BY <1>1, <2>1, <2>2, <2>3 DEF Next, vars, traces, Preflight, ChooseEngine, Gates, ResolvePod,
       PrepareJattach, PrintThreads, ReadSize, CopyFromPod, DebugContainer, FollowLogs,
       CopyJDKDump, ConfirmChange, Kill
<1>2. IInv /\ [Next]_vars => [\A p \in harmed' \ harmed : Authorised(p)]_vars
  BY <1>1
<1> QED
  BY <1>2, Invariance, PTL DEF Spec, HarmIsAuthorised

\* The dump of the jattach tier leaves the pod only when its copy is whole
\* (jattach.sh:269-290).
THEOREM DumpKeptUntilWhole == Spec => KeptUntilWhole
<1>1. ASSUME IInv, [Next]_vars
      PROVE  \A t \in left \ left' : t = "jattach" => file'[t] = "whole"
  <2>1. CASE CopyFromPod
    <3>1. script = "jattach"
      BY <1>1, <2>1 DEF IInv, TypeOK, ControlInv, CopyFromPod, Tiers
    <3> QED
      BY <1>1, <2>1, <3>1 DEF IInv, TypeOK, CopyFromPod, CheckCopy, Writes, Tiers
  <2>2. CASE CopyJDKDump
    BY <2>2 DEF CopyJDKDump
  <2>3. CASE EngineStep
    BY <2>3 DEF EngineStep
  <2> QED
    BY <1>1, <2>1, <2>2, <2>3 DEF Next, vars, traces, Preflight, ChooseEngine, Gates, ResolvePod,
       FetchActuator, PrepareJattach, PrintThreads, DumpHeap, ReadSize, DebugContainer, JobEnds,
       FollowLogs, ConfirmChange, Change, Kill
<1>2. IInv /\ [Next]_vars => [\A t \in left \ left' : t = "jattach" => file'[t] = "whole"]_vars
  BY <1>1
<1> QED
  BY <1>2, Invariance, PTL DEF Spec, KeptUntilWhole
=============================================================================
