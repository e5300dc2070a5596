---------------------------- MODULE CaptureProofs ----------------------------
(***************************************************************************)
(* TLAPS proofs about Capture, for every set of pods and every retry       *)
(* budget: type correctness, the rule that no guessed replica is ever      *)
(* paused, the rules for every exit code, and the implementation of        *)
(* CapturePromise.                                                         *)
(*                                                                         *)
(* None of these properties is inductive.  The strengthening says what     *)
(* each program point has already established: ControlInv what the gate    *)
(* and the loop guard let through, TokenInv what the Confirmed token       *)
(* stands for, PipeInv what the artifact of the running tier may hold.     *)
(* What the tiers leave behind takes TraceInv: what each has established   *)
(* about its dump in the pod, its file and its records.                    *)
(***************************************************************************)
EXTENDS Capture, TLAPS

\* Past the gate the request is well formed, the exit code is set exactly
\* when the invocation ends, the follow loop is within its budget, and only
\* fetch-heap searches for dumps.
ControlInv ==
  /\ pc \notin {"gate", "exited"} => req.via # "unknown" /\ (Heap => req.confirm)
  /\ exit = "none" <=> pc # "exited"
  /\ pc = "follow" => attempts < MaxLogAttempts
  /\ pc = "find" => Fetch

\* A token exists for an unambiguous, confirmed heap request only; no tier, no
\* request in the pod and no debug container works for a heap without one; and
\* only its pod is ever paused.
TokenInv ==
  /\ pc = "confirm" => target # NoPod
  /\ pc \in {"gate", "resolve", "confirm"} => confirmed = NoPod
  /\ confirmed # NoPod => /\ Heap /\ req.confirm /\ confirmed = target
                          /\ Explicit \/ matches = {target}
  /\ Heap /\ (pc \notin {"gate", "resolve", "confirm", "exited"} \/ job # "none")
       => confirmed # NoPod
  /\ pc \in {"dumpheap", "dumping"} => Heap
  /\ requests # {} => confirmed # NoPod
  /\ paused \subseteq {confirmed} \ {NoPod}

\* The JDK tier starts from an empty artifact, and what reaches the
\* validator was written once.
PipeInv ==
  /\ pc \in {"debug", "follow"} => tier = "jdk" /\ file["jdk"] = "empty"
  /\ pc \in {"remove", "validate"} => file[tier] \in Body \ {"absent", "doubled"}

IInv == TypeOK /\ ControlInv /\ TokenInv /\ PipeInv

LEMMA InitIInv == Init => IInv
<1> SUFFICES ASSUME Init PROVE IInv
  OBVIOUS
<1>1. TypeOK
  BY AttemptsAssumption DEF Init, TypeOK, Tiers, Body, Sizes
<1>2. ControlInv /\ TokenInv /\ PipeInv
  BY DEF Init, ControlInv, TokenInv, PipeInv
<1> QED
  BY <1>1, <1>2 DEF IInv

\* Every step keeps the variables in their types.
LEMMA TypeStep ==
  ASSUME TypeOK, ControlInv, TokenInv, [Next]_vars PROVE TypeOK'
<1>1. CASE Gate
  BY <1>1 DEF Gate, Exit, cli, store, cluster, TypeOK
<1>2. CASE Resolve
  BY <1>2 DEF Resolve, Exit, Explicit, cli, store, cluster, TypeOK, Requests
<1>3. CASE Confirm
  BY <1>3 DEF Confirm, Exit, Ambiguous, Explicit, FirstTier, Fetch, AfterConfirm, cli,
         store, cluster,
       TypeOK, ControlInv, Requests, Tiers, Heap
<1>4. CASE OpenArtifact
  BY <1>4 DEF OpenArtifact, Entry, cli, store, cluster, TypeOK, Body, Tiers
<1>5. CASE Discard
  BY <1>5 DEF Discard, cli, store, cluster, TypeOK, Body
<1>6. CASE ValidateAndRecord
  <2> DEFINE r == [tier |-> tier, ok |-> Valid(file[tier]), body |-> file[tier]]
  <2>1. r \in Records
    BY DEF TypeOK, Records, Valid
  <2> QED
    BY <1>6, <2>1 DEF TypeOK, ValidateAndRecord, cli, cluster
<1>7. CASE TierFailed
  BY <1>7 DEF TierFailed, Exit, TiersLeft, Fetch, TierAfter, cli, store, cluster, TypeOK,
       Tiers, Sizes
<1>8. CASE FetchActuator
  BY <1>8 DEF FetchActuator, Writes, BreaksOff, Answers, Victim, cli, store,
       cluster, TypeOK, TokenInv, Heap, Body
<1>9. CASE PrepareJattach
  BY <1>9 DEF PrepareJattach, BreaksOff, cli, store, cluster, TypeOK
<1>10. CASE JattachThreads
  BY <1>10 DEF JattachThreads, Writes, BreaksOff, cli, store, cluster, TypeOK, Body
<1>11. CASE JattachDumpHeap
  BY <1>11 DEF JattachDumpHeap, BreaksOff, cli, store, cluster, TypeOK
<1>12. CASE ReadRemoteSize
  BY <1>12 DEF ReadRemoteSize, cli, store, cluster, TypeOK, Sizes
<1>13. CASE CopyFromPod
  BY <1>13 DEF CopyFromPod, Writes, BreaksOff, cli, store, cluster, TypeOK, Body
<1>14. CASE DebugContainer
  BY <1>14, AttemptsAssumption DEF TypeOK, DebugContainer, BreaksOff, cli, store
<1>15. CASE FollowDebugLogs
  <2>1. attempts' \in 0..MaxLogAttempts
    BY <1>15, AttemptsAssumption DEF TypeOK, ControlInv, FollowDebugLogs, AttemptsLeft
  <2>2. file' \in [Tiers -> Body]
    BY <1>15 DEF TypeOK, FollowDebugLogs, LogBodies, Flush, Writes, Body
  <2>3. pc' \in {"follow", "discard", "size", "validate"}
    BY <1>15 DEF FollowDebugLogs
  <2> QED
    BY <1>15, <2>1, <2>2, <2>3 DEF TypeOK, FollowDebugLogs, cli, cluster
<1>16. CASE JDKRemoveDump
  BY <1>16 DEF JDKRemoveDump, cli, store, cluster, TypeOK
<1>17. CASE CleanupRemote
  BY <1>17 DEF CleanupRemote, Exit, cli, store, cluster, TypeOK
<1>18. CASE DebugJobEnds
  <2>1. ASSUME Heap PROVE Victim \in Pods
    BY <1>18, <2>1 DEF DebugJobEnds, TokenInv, TypeOK, Victim
  <2>2. paused' \in SUBSET Pods /\ left' \in SUBSET Tiers
    BY <1>18, <2>1 DEF TypeOK, DebugJobEnds, PausesJVM, Tiers
  <2>3. job' \in {"ok", "failed"}
    BY <1>18 DEF DebugJobEnds
  <2> QED
    BY <1>18, <2>2, <2>3 DEF TypeOK, DebugJobEnds, cli, store
<1>19. CASE Cancel
  BY <1>19 DEF Cancel, cli, store, cluster, TypeOK
<1>20. CASE Kill
  BY <1>20 DEF Kill, Exit, cli, store, cluster, TypeOK
<1>21. CASE UNCHANGED vars
  BY <1>21 DEF vars, TypeOK
<1>22. CASE FindDump
  <2>1. /\ expected' \in Sizes /\ left' \in SUBSET Tiers /\ told' \in SUBSET Tiers
        /\ pc' \in {"open", "exited"}
        /\ exit' \in {"none", "ok", "failed", "target", "usage", "killed"}
    BY <1>22 DEF FindDump, Exit, TypeOK, Tiers
  <2> QED
    BY <1>22, <2>1 DEF FindDump, cli, store, TypeOK
<1>23. CASE RetrieveDump
  BY <1>23 DEF RetrieveDump, Retrieved, Writes, BreaksOff, cli, cluster, TypeOK, Body, Sizes
<1>24. CASE RequestDump
  <2>1. requests' \in SUBSET Tiers
    BY <1>24 DEF TypeOK, RequestDump
  <2>2. pc' \in {"dumping", "discard"} /\ ctx' \in {"live", "done"}
    BY <1>24 DEF TypeOK, RequestDump, BreaksOff
  <2> QED
    BY <1>24, <2>1, <2>2 DEF TypeOK, RequestDump, cli, store
<1>25. CASE PodDumps
  <2>1. Victim \in Pods
    BY <1>25 DEF PodDumps, TokenInv, TypeOK, Victim
  <2>2. /\ paused' \in SUBSET Pods /\ left' \in SUBSET Tiers
        /\ requests' \in SUBSET Tiers
    BY <1>25, <2>1 DEF TypeOK, PodDumps, PausesJVM
  <2> QED
    BY <1>25, <2>2 DEF TypeOK, PodDumps, cli, store
<1> QED
  BY <1>1, <1>2, <1>3, <1>4, <1>5, <1>6, <1>7, <1>8, <1>9, <1>10, <1>11, <1>12,
       <1>13, <1>14, <1>15, <1>16, <1>17, <1>18, <1>19, <1>20, <1>21, <1>22, <1>23, <1>24,
       <1>25 DEF Next, LocalStep, ClusterStep

\* Every step keeps ControlInv.
LEMMA ControlStep ==
  ASSUME TypeOK, ControlInv, [Next]_vars PROVE ControlInv'
<1>1. CASE Gate
  BY <1>1 DEF Gate, Exit, cli, store, cluster, ControlInv, Heap, Fetch, TypeOK
<1>2. CASE Resolve
  BY <1>2 DEF Resolve, Exit, Explicit, cli, store, cluster, ControlInv, Heap, Fetch
<1>3. CASE Confirm
  BY <1>3 DEF Confirm, Exit, Ambiguous, Explicit, FirstTier, AfterConfirm, cli, store,
         cluster,
       ControlInv, Heap, Fetch
<1>4. CASE OpenArtifact
  BY <1>4 DEF OpenArtifact, Entry, cli, store, cluster, ControlInv, Heap, Fetch, TypeOK,
       Tiers
<1>5. CASE Discard
  BY <1>5 DEF Discard, cli, store, cluster, ControlInv, Heap, Fetch
<1>6. CASE ValidateAndRecord
  BY <1>6 DEF ValidateAndRecord, cli, store, cluster, ControlInv, Heap, Fetch
<1>7. CASE TierFailed
  BY <1>7 DEF TierFailed, Exit, TiersLeft, TierAfter, cli, store, cluster,
       ControlInv, Heap, Fetch
<1>8. CASE FetchActuator
  BY <1>8 DEF FetchActuator, Writes, BreaksOff, Answers, Victim, cli, store,
       cluster, ControlInv, Heap, Fetch
<1>9. CASE PrepareJattach
  BY <1>9 DEF PrepareJattach, BreaksOff, cli, store, cluster, ControlInv, Heap, Fetch
<1>10. CASE JattachThreads
  BY <1>10 DEF JattachThreads, Writes, BreaksOff, cli, store, cluster, ControlInv,
       Heap, Fetch
<1>11. CASE JattachDumpHeap
  BY <1>11 DEF JattachDumpHeap, BreaksOff, cli, store, cluster,
       ControlInv, Heap, Fetch
<1>12. CASE ReadRemoteSize
  BY <1>12 DEF ReadRemoteSize, cli, store, cluster, ControlInv, Heap, Fetch
<1>13. CASE CopyFromPod
  BY <1>13 DEF CopyFromPod, Writes, BreaksOff, cli, store, cluster, ControlInv, Heap, Fetch
<1>14. CASE DebugContainer
  BY <1>14, AttemptsAssumption DEF ControlInv, Heap, Fetch, DebugContainer, BreaksOff, cli,
       store
<1>15. CASE FollowDebugLogs
  BY <1>15 DEF FollowDebugLogs, AttemptsLeft, LogBodies, Flush, Writes, cli, store, cluster,
       ControlInv, Heap, Fetch
<1>16. CASE JDKRemoveDump
  BY <1>16 DEF JDKRemoveDump, cli, store, cluster, ControlInv, Heap, Fetch
<1>17. CASE CleanupRemote
  BY <1>17 DEF CleanupRemote, Exit, cli, store, cluster, ControlInv, Heap, Fetch
<1>18. CASE DebugJobEnds
  BY <1>18 DEF DebugJobEnds, PausesJVM, Victim, cli, store, cluster, ControlInv,
       Heap, Fetch
<1>19. CASE Cancel
  BY <1>19 DEF Cancel, cli, store, cluster, ControlInv, Heap, Fetch
<1>20. CASE Kill
  BY <1>20 DEF Kill, Exit, cli, store, cluster, ControlInv, Heap, Fetch
<1>21. CASE UNCHANGED vars
  BY <1>21 DEF vars, ControlInv, Heap, Fetch
<1>22. CASE FindDump
  BY <1>22 DEF FindDump, Exit, cli, store, ControlInv, Heap, Fetch
<1>23. CASE RetrieveDump
  BY <1>23 DEF RetrieveDump, Retrieved, Writes, BreaksOff, cli, cluster, ControlInv, Heap,
         Fetch
<1>24. CASE RequestDump
  BY <1>24 DEF RequestDump, BreaksOff, cli, store, cluster,
       ControlInv, Heap, Fetch
<1>25. CASE PodDumps
  BY <1>25 DEF PodDumps, PausesJVM, Victim, cli, store, cluster, ControlInv,
       Heap, Fetch
<1> QED
  BY <1>1, <1>2, <1>3, <1>4, <1>5, <1>6, <1>7, <1>8, <1>9, <1>10, <1>11, <1>12,
       <1>13, <1>14, <1>15, <1>16, <1>17, <1>18, <1>19, <1>20, <1>21, <1>22, <1>23, <1>24,
       <1>25 DEF Next, LocalStep, ClusterStep

\* Every step keeps TokenInv: the token is minted once, by Confirm.
LEMMA TokenStep ==
  ASSUME TypeOK, ControlInv, TokenInv, [Next]_vars PROVE TokenInv'
<1>1. CASE Gate
  BY <1>1 DEF Gate, Exit, cli, store, cluster, TokenInv, Heap, Explicit
<1>2. CASE Resolve
  BY <1>2, PodsAssumption
  DEF Resolve, TokenInv, Heap, Explicit, Exit, store, cluster
<1>3. CASE Confirm
  <2>1. confirmed = NoPod /\ paused = {}
    BY <1>3 DEF Confirm, TokenInv
  <2>2. CASE Heap /\ Ambiguous
    BY <1>3, <2>1, <2>2 DEF Confirm, TokenInv, Heap, Explicit, Exit, store, cluster
  <2>3. CASE ~Heap
    BY <1>3, <2>1, <2>3 DEF Confirm, AfterConfirm, Fetch, TokenInv, Heap, Explicit, store,
         cluster
  <2>4. CASE Heap /\ ~Ambiguous
    BY <1>3, <2>1, <2>4 DEF Confirm, AfterConfirm, Fetch, TokenInv, ControlInv, TypeOK,
         Heap, Explicit, Ambiguous, store, cluster
  <2> QED
    BY <2>2, <2>3, <2>4
<1>4. CASE OpenArtifact
  BY <1>4 DEF OpenArtifact, Entry, cli, store, cluster, TokenInv, Heap, Explicit,
       TypeOK, Tiers
<1>5. CASE Discard
  BY <1>5 DEF Discard, cli, store, cluster, TokenInv, Heap, Explicit
<1>6. CASE ValidateAndRecord
  BY <1>6 DEF ValidateAndRecord, cli, store, cluster, TokenInv, Heap, Explicit
<1>7. CASE TierFailed
  BY <1>7 DEF TierFailed, Exit, TiersLeft, Fetch, TierAfter, cli, store, cluster, TokenInv,
       Heap, Explicit
<1>8. CASE FetchActuator
  BY <1>8 DEF FetchActuator, Writes, BreaksOff, Answers, Victim, cli, store,
       cluster, TokenInv, Heap, Explicit
<1>9. CASE PrepareJattach
  BY <1>9 DEF PrepareJattach, BreaksOff, cli, store, cluster, TokenInv, Heap,
       Explicit
<1>10. CASE JattachThreads
  BY <1>10 DEF JattachThreads, Writes, BreaksOff, cli, store, cluster, TokenInv,
       Heap, Explicit
<1>11. CASE JattachDumpHeap
  BY <1>11 DEF JattachDumpHeap, BreaksOff, cli, store, cluster,
       TokenInv, Heap, Explicit, TypeOK
<1>12. CASE ReadRemoteSize
  BY <1>12 DEF ReadRemoteSize, cli, store, cluster, TokenInv, Heap, Explicit
<1>13. CASE CopyFromPod
  BY <1>13 DEF CopyFromPod, Writes, BreaksOff, cli, store, cluster, TokenInv, Heap,
       Explicit
<1>14. CASE DebugContainer
  BY <1>14 DEF DebugContainer, BreaksOff, cli, store, cluster, TokenInv, Heap,
       Explicit
<1>15. CASE FollowDebugLogs
  BY <1>15 DEF FollowDebugLogs, LogBodies, Flush, Writes, cli, store, cluster,
       TokenInv, Heap, Explicit
<1>16. CASE JDKRemoveDump
  BY <1>16 DEF JDKRemoveDump, cli, store, cluster, TokenInv, Heap, Explicit
<1>17. CASE CleanupRemote
  BY <1>17 DEF CleanupRemote, Exit, cli, store, cluster, TokenInv, Heap, Explicit
<1>18. CASE DebugJobEnds
  BY <1>18 DEF DebugJobEnds, PausesJVM, Victim, cli, store, cluster, TokenInv, Heap,
       Explicit
<1>19. CASE Cancel
  BY <1>19 DEF Cancel, cli, store, cluster, TokenInv, Heap, Explicit
<1>20. CASE Kill
  BY <1>20 DEF Kill, Exit, cli, store, cluster, TokenInv, Heap, Explicit
<1>21. CASE UNCHANGED vars
  BY <1>21 DEF vars, TokenInv, Heap, Explicit
<1>22. CASE FindDump
  BY <1>22 DEF FindDump, Exit, cli, store, TokenInv, Heap, Explicit
<1>23. CASE RetrieveDump
  BY <1>23 DEF RetrieveDump, Retrieved, Writes, BreaksOff, cli, cluster, TokenInv, Heap,
         Explicit
<1>24. CASE RequestDump
  BY <1>24 DEF RequestDump, BreaksOff, cli, store, cluster,
       TokenInv, Heap, Explicit, TypeOK
<1>25. CASE PodDumps
  BY <1>25 DEF PodDumps, PausesJVM, Victim, cli, store, cluster, TokenInv, Heap,
       Explicit
<1> QED
  BY <1>1, <1>2, <1>3, <1>4, <1>5, <1>6, <1>7, <1>8, <1>9, <1>10, <1>11, <1>12,
       <1>13, <1>14, <1>15, <1>16, <1>17, <1>18, <1>19, <1>20, <1>21, <1>22, <1>23, <1>24,
       <1>25 DEF Next, LocalStep, ClusterStep

\* Every step keeps PipeInv.
LEMMA PipeStep ==
  ASSUME TypeOK, PipeInv, [Next]_vars PROVE PipeInv'
<1>1. CASE Gate
  BY <1>1 DEF Gate, Exit, cli, store, cluster, PipeInv
<1>2. CASE Resolve
  BY <1>2 DEF Resolve, Exit, Explicit, cli, store, cluster, PipeInv
<1>3. CASE Confirm
  BY <1>3 DEF Confirm, Exit, Ambiguous, Explicit, FirstTier, Fetch, AfterConfirm, cli,
         store, cluster,
       PipeInv
<1>4. CASE OpenArtifact
  BY <1>4 DEF OpenArtifact, Entry, cli, store, cluster, PipeInv, TypeOK, Tiers, Body
<1>5. CASE Discard
  BY <1>5 DEF Discard, cli, store, cluster, PipeInv
<1>6. CASE ValidateAndRecord
  BY <1>6 DEF ValidateAndRecord, cli, store, cluster, PipeInv
<1>7. CASE TierFailed
  BY <1>7 DEF TierFailed, Exit, TiersLeft, Fetch, TierAfter, cli, store, cluster, PipeInv
<1>8. CASE FetchActuator
  BY <1>8 DEF FetchActuator, Writes, BreaksOff, Answers, Victim, cli, store,
       cluster, PipeInv, TypeOK, Body
<1>9. CASE PrepareJattach
  BY <1>9 DEF PrepareJattach, BreaksOff, cli, store, cluster, PipeInv
<1>10. CASE JattachThreads
  BY <1>10 DEF JattachThreads, Writes, BreaksOff, cli, store, cluster, PipeInv,
       TypeOK, Body
<1>11. CASE JattachDumpHeap
  BY <1>11 DEF JattachDumpHeap, BreaksOff, cli, store, cluster,
       PipeInv
<1>12. CASE ReadRemoteSize
  BY <1>12 DEF ReadRemoteSize, cli, store, cluster, PipeInv
<1>13. CASE CopyFromPod
  BY <1>13 DEF CopyFromPod, Writes, BreaksOff, cli, store, cluster, PipeInv, TypeOK, Body
<1>14. CASE DebugContainer
  BY <1>14 DEF DebugContainer, BreaksOff, cli, store, cluster, PipeInv
<1>15. CASE FollowDebugLogs
  BY <1>15 DEF FollowDebugLogs, LogBodies, Flush, Writes, cli, store, cluster,
       PipeInv, TypeOK, Body, Tiers
<1>16. CASE JDKRemoveDump
  BY <1>16 DEF JDKRemoveDump, cli, store, cluster, PipeInv
<1>17. CASE CleanupRemote
  BY <1>17 DEF CleanupRemote, Exit, cli, store, cluster, PipeInv
<1>18. CASE DebugJobEnds
  BY <1>18 DEF DebugJobEnds, PausesJVM, Victim, cli, store, cluster, PipeInv
<1>19. CASE Cancel
  BY <1>19 DEF Cancel, cli, store, cluster, PipeInv
<1>20. CASE Kill
  BY <1>20 DEF Kill, Exit, cli, store, cluster, PipeInv
<1>21. CASE UNCHANGED vars
  BY <1>21 DEF vars, PipeInv
<1>22. CASE FindDump
  BY <1>22 DEF FindDump, Exit, cli, store, PipeInv
<1>23. CASE RetrieveDump
  BY <1>23 DEF RetrieveDump, Retrieved, Writes, BreaksOff, cli, cluster, PipeInv, TypeOK,
         Body, Sizes
<1>24. CASE RequestDump
  BY <1>24 DEF RequestDump, BreaksOff, cli, store, cluster,
       PipeInv
<1>25. CASE PodDumps
  BY <1>25 DEF PodDumps, PausesJVM, Victim, cli, store, cluster, PipeInv
<1> QED
  BY <1>1, <1>2, <1>3, <1>4, <1>5, <1>6, <1>7, <1>8, <1>9, <1>10, <1>11, <1>12,
       <1>13, <1>14, <1>15, <1>16, <1>17, <1>18, <1>19, <1>20, <1>21, <1>22, <1>23, <1>24,
       <1>25 DEF Next, LocalStep, ClusterStep

\* The inductive invariant holds throughout.
THEOREM Invariance == Spec => []IInv
<1>1. IInv /\ [Next]_vars => IInv'
  BY TypeStep, ControlStep, TokenStep, PipeStep DEF IInv
<1> QED
  BY InitIInv, <1>1, PTL DEF Spec

\* Type correctness of the model of an invocation.
THEOREM TypeCorrect == Spec => []TypeOK
<1>1. IInv => TypeOK
  BY DEF IInv
<1> QED
  BY Invariance, <1>1, PTL

\* For any number of pods and whatever fails, a JVM is paused only in the pod
\* that a confirmed heap request named or that was the only match.
THEOREM NoGuessedReplicaIsPaused == Spec => []NeverPauseGuessed
<1>1. IInv => NeverPauseGuessed
  BY DEF IInv, TokenInv, TypeOK, NeverPauseGuessed
<1> QED
  BY Invariance, <1>1, PTL

\* Each property below adds the little it needs to IInv.
HarmlessInv ==
  pc \in {"gate", "resolve", "confirm"} \/ exit \in {"usage", "target"} =>
    /\ paused = {} /\ left = {} /\ job = "none" /\ requests = {} /\ manifest = <<>>
    /\ file = [t \in Tiers |-> "absent"]

ResultInv == NoFalseSuccess /\ FailureMeansNoGoodCapture /\ HarmlessInv

\* What a manifest holds after an append.
LEMMA RecordedAppend ==
  ASSUME NEW r, manifest \in Seq(Records), r \in Records, manifest' = Append(manifest, r)
  PROVE  /\ Recorded' = Recorded \union {r}
         /\ manifest' # <<>> /\ manifest'[Len(manifest')] = r
<1>1. Len(manifest') = Len(manifest) + 1 /\ DOMAIN manifest' = 1..Len(manifest')
  OBVIOUS
<1>2. \A i \in 1..Len(manifest) : manifest'[i] = manifest[i]
  OBVIOUS
<1>3. manifest'[Len(manifest) + 1] = r
  OBVIOUS
<1>4. DOMAIN manifest = 1..Len(manifest) /\ Len(manifest) \in Nat
  OBVIOUS
<1>5. Recorded' = Recorded \union {r}
  BY <1>1, <1>2, <1>3, <1>4 DEF Recorded
<1> QED
  BY <1>1, <1>3, <1>4, <1>5

\* Nothing is touched before the confirmation, so a refusal leaves no trace.
LEMMA HarmlessStep ==
  ASSUME TypeOK, ControlInv, HarmlessInv, [Next]_vars PROVE HarmlessInv'
<1>1. CASE Gate
  BY <1>1 DEF Gate, Exit, cli, store, cluster, ControlInv, HarmlessInv
<1>2. CASE Resolve
  BY <1>2 DEF Resolve, Exit, Explicit, cli, store, cluster, ControlInv, HarmlessInv
<1>3. CASE Confirm
  BY <1>3 DEF Confirm, Exit, Ambiguous, Explicit, FirstTier, Fetch, AfterConfirm, cli,
         store, cluster,
       ControlInv, HarmlessInv
<1>4. CASE OpenArtifact
  BY <1>4 DEF OpenArtifact, Entry, cli, store, cluster, ControlInv, HarmlessInv,
       TypeOK, Tiers
<1>5. CASE Discard
  BY <1>5 DEF Discard, cli, store, cluster, ControlInv, HarmlessInv
<1>6. CASE ValidateAndRecord
  BY <1>6 DEF ValidateAndRecord, cli, store, cluster, ControlInv, HarmlessInv,
       TypeOK
<1>7. CASE TierFailed
  BY <1>7 DEF TierFailed, Exit, TiersLeft, Fetch, TierAfter, cli, store, cluster,
       ControlInv, HarmlessInv
<1>8. CASE FetchActuator
  BY <1>8 DEF FetchActuator, Writes, BreaksOff, Answers, Victim, cli, store,
       cluster, ControlInv, HarmlessInv
<1>9. CASE PrepareJattach
  BY <1>9 DEF PrepareJattach, BreaksOff, cli, store, cluster, ControlInv,
       HarmlessInv
<1>10. CASE JattachThreads
  BY <1>10 DEF JattachThreads, Writes, BreaksOff, cli, store, cluster, ControlInv,
       HarmlessInv
<1>11. CASE JattachDumpHeap
  BY <1>11 DEF JattachDumpHeap, BreaksOff, cli, store, cluster,
       ControlInv, HarmlessInv
<1>12. CASE ReadRemoteSize
  BY <1>12 DEF ReadRemoteSize, cli, store, cluster, ControlInv, HarmlessInv
<1>13. CASE CopyFromPod
  BY <1>13 DEF CopyFromPod, Writes, BreaksOff, cli, store, cluster, ControlInv,
       HarmlessInv
<1>14. CASE DebugContainer
  BY <1>14 DEF DebugContainer, BreaksOff, cli, store, cluster, ControlInv,
       HarmlessInv
<1>15. CASE FollowDebugLogs
  BY <1>15 DEF FollowDebugLogs, LogBodies, Flush, Writes, cli, store, cluster,
       ControlInv, HarmlessInv
<1>16. CASE JDKRemoveDump
  BY <1>16 DEF JDKRemoveDump, cli, store, cluster, ControlInv, HarmlessInv
<1>17. CASE CleanupRemote
  BY <1>17 DEF CleanupRemote, Exit, cli, store, cluster, ControlInv, HarmlessInv
<1>18. CASE DebugJobEnds
  BY <1>18 DEF DebugJobEnds, PausesJVM, Victim, cli, store, cluster, ControlInv,
       HarmlessInv
<1>19. CASE Cancel
  BY <1>19 DEF Cancel, cli, store, cluster, ControlInv, HarmlessInv
<1>20. CASE Kill
  BY <1>20 DEF Kill, Exit, cli, store, cluster, ControlInv, HarmlessInv
<1>21. CASE UNCHANGED vars
  BY <1>21 DEF vars, ControlInv, HarmlessInv
<1>22. CASE FindDump
  BY <1>22 DEF FindDump, Exit, cli, store, ControlInv, HarmlessInv
<1>23. CASE RetrieveDump
  BY <1>23 DEF RetrieveDump, Retrieved, Writes, BreaksOff, cli, cluster, ControlInv,
         HarmlessInv
<1>24. CASE RequestDump
  BY <1>24 DEF RequestDump, BreaksOff, cli, store, cluster,
       ControlInv, HarmlessInv
<1>25. CASE PodDumps
  BY <1>25 DEF PodDumps, PausesJVM, Victim, cli, store, cluster, ControlInv,
       HarmlessInv
<1> QED
  BY <1>1, <1>2, <1>3, <1>4, <1>5, <1>6, <1>7, <1>8, <1>9, <1>10, <1>11, <1>12,
       <1>13, <1>14, <1>15, <1>16, <1>17, <1>18, <1>19, <1>20, <1>21, <1>22, <1>23, <1>24,
       <1>25 DEF Next, LocalStep, ClusterStep

\* Only a good verdict on what is on disk leads to the success message.
LEMMA SuccessStep ==
  ASSUME TypeOK, ControlInv, PipeInv, NoFalseSuccess, [Next]_vars PROVE
       NoFalseSuccess'
<1>1. CASE Gate
  BY <1>1 DEF Gate, Exit, cli, store, cluster, ControlInv, NoFalseSuccess, Validator,
         Heap, Fetch
<1>2. CASE Resolve
  BY <1>2 DEF Resolve, Exit, Explicit, cli, store, cluster, ControlInv,
       NoFalseSuccess, Validator, Heap, Fetch
<1>3. CASE Confirm
  BY <1>3 DEF Confirm, Exit, Ambiguous, Explicit, FirstTier, Fetch, AfterConfirm, cli,
         store, cluster,
       ControlInv, NoFalseSuccess, Validator, Heap, Fetch
<1>4. CASE OpenArtifact
  BY <1>4 DEF OpenArtifact, Entry, cli, store, cluster, ControlInv, NoFalseSuccess,
         Validator,
       Heap, Fetch, TypeOK, Tiers
<1>5. CASE Discard
  BY <1>5 DEF Discard, cli, store, cluster, ControlInv, NoFalseSuccess, Validator, Heap,
         Fetch
<1>6. CASE ValidateAndRecord
  <2> DEFINE r == [tier |-> tier, ok |-> Valid(file[tier]), body |-> file[tier]]
  <2>1. r \in Records
    BY DEF TypeOK, Records, Valid
  <2>2. CASE pc' = "cleanup"
    <3>1. Valid(file[tier]) /\ manifest' = Append(manifest, r)
      BY <1>6, <2>2 DEF ValidateAndRecord
    <3>2. manifest' # <<>> /\ manifest'[Len(manifest')] = r
      BY <2>1, <3>1, RecordedAppend DEF TypeOK
    <3>3. file[tier] \in {"cut", "whole"}
      BY <1>6, <3>1 DEF ValidateAndRecord, PipeInv, Valid
    <3>4. expected = "known" /\ Validator = "hprof" => file[tier] = "whole"
      BY <3>1 DEF Valid
    <3>5. UNCHANGED <<req, tier, file, expected>>
      BY <1>6 DEF ValidateAndRecord, cli
    <3>6. Validator' = Validator
      BY <3>5 DEF Validator, Heap, Fetch
    <3>7. r = [tier |-> tier, ok |-> TRUE, body |-> file[tier]]
      BY <3>1
    <3> QED
      BY <3>2, <3>3, <3>4, <3>5, <3>6, <3>7 DEF NoFalseSuccess
  <2>3. CASE pc' # "cleanup"
    BY <1>6, <2>3 DEF ValidateAndRecord, NoFalseSuccess, ControlInv
  <2> QED
    BY <2>2, <2>3
<1>7. CASE TierFailed
  BY <1>7 DEF TierFailed, Exit, TiersLeft, Fetch, TierAfter, cli, store, cluster,
       ControlInv, NoFalseSuccess, Validator, Heap, Fetch
<1>8. CASE FetchActuator
  BY <1>8 DEF FetchActuator, Writes, BreaksOff, Answers, Victim, cli, store,
       cluster, ControlInv, NoFalseSuccess, Validator, Heap, Fetch
<1>9. CASE PrepareJattach
  BY <1>9 DEF PrepareJattach, BreaksOff, cli, store, cluster, ControlInv,
       NoFalseSuccess, Validator, Heap, Fetch
<1>10. CASE JattachThreads
  BY <1>10 DEF JattachThreads, Writes, BreaksOff, cli, store, cluster, ControlInv,
       NoFalseSuccess, Validator, Heap, Fetch
<1>11. CASE JattachDumpHeap
  BY <1>11 DEF JattachDumpHeap, BreaksOff, cli, store, cluster,
       ControlInv, NoFalseSuccess, Validator, Heap, Fetch
<1>12. CASE ReadRemoteSize
  BY <1>12 DEF ReadRemoteSize, cli, store, cluster, ControlInv, NoFalseSuccess, Validator,
         Heap, Fetch
<1>13. CASE CopyFromPod
  BY <1>13 DEF CopyFromPod, Writes, BreaksOff, cli, store, cluster, ControlInv,
       NoFalseSuccess, Validator, Heap, Fetch
<1>14. CASE DebugContainer
  BY <1>14 DEF DebugContainer, BreaksOff, cli, store, cluster, ControlInv,
       NoFalseSuccess, Validator, Heap, Fetch
<1>15. CASE FollowDebugLogs
  BY <1>15 DEF FollowDebugLogs, LogBodies, Flush, Writes, cli, store, cluster,
       ControlInv, NoFalseSuccess, Validator, Heap, Fetch
<1>16. CASE JDKRemoveDump
  BY <1>16 DEF JDKRemoveDump, cli, store, cluster, ControlInv, NoFalseSuccess, Validator,
         Heap, Fetch
<1>17. CASE CleanupRemote
  BY <1>17 DEF CleanupRemote, Exit, cli, store, cluster, ControlInv, NoFalseSuccess,
         Validator,
       Heap, Fetch
<1>18. CASE DebugJobEnds
  BY <1>18 DEF DebugJobEnds, PausesJVM, Victim, cli, store, cluster, ControlInv,
       NoFalseSuccess, Validator, Heap, Fetch
<1>19. CASE Cancel
  BY <1>19 DEF Cancel, cli, store, cluster, ControlInv, NoFalseSuccess, Validator, Heap,
         Fetch
<1>20. CASE Kill
  BY <1>20 DEF Kill, Exit, cli, store, cluster, ControlInv, NoFalseSuccess, Validator,
         Heap, Fetch
<1>21. CASE UNCHANGED vars
  BY <1>21 DEF vars, ControlInv, NoFalseSuccess, Validator, Heap, Fetch
<1>22. CASE FindDump
  BY <1>22 DEF FindDump, Exit, cli, store, ControlInv, NoFalseSuccess, Validator, Heap,
         Fetch
<1>23. CASE RetrieveDump
  BY <1>23 DEF RetrieveDump, Retrieved, Writes, BreaksOff, cli, cluster, ControlInv,
         NoFalseSuccess, Validator, Heap, Fetch
<1>24. CASE RequestDump
  BY <1>24 DEF RequestDump, BreaksOff, cli, store, cluster,
       ControlInv, NoFalseSuccess, Validator, Heap, Fetch
<1>25. CASE PodDumps
  BY <1>25 DEF PodDumps, PausesJVM, Victim, cli, store, cluster, ControlInv,
       NoFalseSuccess, Validator, Heap, Fetch
<1> QED
  BY <1>1, <1>2, <1>3, <1>4, <1>5, <1>6, <1>7, <1>8, <1>9, <1>10, <1>11, <1>12,
       <1>13, <1>14, <1>15, <1>16, <1>17, <1>18, <1>19, <1>20, <1>21, <1>22, <1>23, <1>24,
       <1>25 DEF Next, LocalStep, ClusterStep

\* A good verdict ends the invocation; only without one does a tier fail.
LEMMA FailureStep ==
  ASSUME TypeOK, ControlInv, FailureMeansNoGoodCapture, [Next]_vars PROVE
       FailureMeansNoGoodCapture'
<1>1. CASE Gate
  BY <1>1 DEF Gate, Exit, cli, store, cluster, ControlInv,
       FailureMeansNoGoodCapture, Good, Recorded, TiersLeft, Fetch
<1>2. CASE Resolve
  BY <1>2 DEF Resolve, Exit, Explicit, cli, store, cluster, ControlInv,
       FailureMeansNoGoodCapture, Good, Recorded, TiersLeft, Fetch
<1>3. CASE Confirm
  BY <1>3 DEF Confirm, Exit, Ambiguous, Explicit, FirstTier, Fetch, AfterConfirm, cli,
         store, cluster,
       ControlInv, FailureMeansNoGoodCapture, Good, Recorded, TiersLeft, Fetch
<1>4. CASE OpenArtifact
  BY <1>4 DEF OpenArtifact, Entry, cli, store, cluster, ControlInv,
       FailureMeansNoGoodCapture, Good, Recorded, TiersLeft, Fetch
<1>5. CASE Discard
  BY <1>5 DEF Discard, cli, store, cluster, ControlInv, FailureMeansNoGoodCapture,
       Good, Recorded, TiersLeft, Fetch
<1>6. CASE ValidateAndRecord
  <2> DEFINE r == [tier |-> tier, ok |-> Valid(file[tier]), body |-> file[tier]]
  <2>1. r \in Records
    BY DEF TypeOK, Records, Valid
  <2>2. Good = {} /\ exit = "none" /\ exit' = "none"
    BY <1>6 DEF ValidateAndRecord, ControlInv, FailureMeansNoGoodCapture
  <2>3. CASE UNCHANGED manifest
    BY <2>2, <2>3 DEF FailureMeansNoGoodCapture, Good, Recorded
  <2>4. CASE manifest' = Append(manifest, r)
    <3>1. Recorded' = Recorded \union {r}
      BY <2>1, <2>4, RecordedAppend DEF TypeOK
    <3>2. Good' # {} => r.ok
      BY <2>2, <3>1 DEF Good
    <3>3. r.ok => pc' = "cleanup"
      BY <1>6, <2>4 DEF ValidateAndRecord
    <3> QED
      BY <2>2, <3>2, <3>3 DEF FailureMeansNoGoodCapture
  <2> QED
    BY <1>6, <2>3, <2>4 DEF ValidateAndRecord
<1>7. CASE TierFailed
  BY <1>7 DEF TierFailed, Exit, TiersLeft, Fetch, TierAfter, cli, store, cluster,
       ControlInv, FailureMeansNoGoodCapture, Good, Recorded
<1>8. CASE FetchActuator
  BY <1>8 DEF FetchActuator, Writes, BreaksOff, Answers, Victim, cli, store,
       cluster, ControlInv, FailureMeansNoGoodCapture, Good, Recorded, TiersLeft, Fetch
<1>9. CASE PrepareJattach
  BY <1>9 DEF PrepareJattach, BreaksOff, cli, store, cluster, ControlInv,
       FailureMeansNoGoodCapture, Good, Recorded, TiersLeft, Fetch
<1>10. CASE JattachThreads
  BY <1>10 DEF JattachThreads, Writes, BreaksOff, cli, store, cluster, ControlInv,
       FailureMeansNoGoodCapture, Good, Recorded, TiersLeft, Fetch
<1>11. CASE JattachDumpHeap
  BY <1>11 DEF JattachDumpHeap, BreaksOff, cli, store, cluster,
       ControlInv, FailureMeansNoGoodCapture, Good, Recorded, TiersLeft, Fetch
<1>12. CASE ReadRemoteSize
  BY <1>12 DEF ReadRemoteSize, cli, store, cluster, ControlInv,
       FailureMeansNoGoodCapture, Good, Recorded, TiersLeft, Fetch
<1>13. CASE CopyFromPod
  BY <1>13 DEF CopyFromPod, Writes, BreaksOff, cli, store, cluster, ControlInv,
       FailureMeansNoGoodCapture, Good, Recorded, TiersLeft, Fetch
<1>14. CASE DebugContainer
  BY <1>14 DEF DebugContainer, BreaksOff, cli, store, cluster, ControlInv,
       FailureMeansNoGoodCapture, Good, Recorded, TiersLeft, Fetch
<1>15. CASE FollowDebugLogs
  BY <1>15 DEF FollowDebugLogs, LogBodies, Flush, Writes, cli, store, cluster,
       ControlInv, FailureMeansNoGoodCapture, Good, Recorded, TiersLeft, Fetch
<1>16. CASE JDKRemoveDump
  BY <1>16 DEF JDKRemoveDump, cli, store, cluster, ControlInv,
       FailureMeansNoGoodCapture, Good, Recorded, TiersLeft, Fetch
<1>17. CASE CleanupRemote
  BY <1>17 DEF CleanupRemote, Exit, cli, store, cluster, ControlInv,
       FailureMeansNoGoodCapture, Good, Recorded, TiersLeft, Fetch
<1>18. CASE DebugJobEnds
  BY <1>18 DEF DebugJobEnds, PausesJVM, Victim, cli, store, cluster, ControlInv,
       FailureMeansNoGoodCapture, Good, Recorded, TiersLeft, Fetch
<1>19. CASE Cancel
  BY <1>19 DEF Cancel, cli, store, cluster, ControlInv, FailureMeansNoGoodCapture,
       Good, Recorded, TiersLeft, Fetch
<1>20. CASE Kill
  BY <1>20 DEF Kill, Exit, cli, store, cluster, ControlInv,
       FailureMeansNoGoodCapture, Good, Recorded, TiersLeft, Fetch
<1>21. CASE UNCHANGED vars
  BY <1>21 DEF vars, ControlInv, FailureMeansNoGoodCapture, Good, Recorded,
       TiersLeft, Fetch
<1>22. CASE FindDump
  BY <1>22 DEF FindDump, Exit, cli, store, ControlInv,
       FailureMeansNoGoodCapture, Good, Recorded, TiersLeft, Fetch
<1>23. CASE RetrieveDump
  BY <1>23 DEF RetrieveDump, Retrieved, Writes, BreaksOff, cli, cluster, ControlInv,
       FailureMeansNoGoodCapture, Good, Recorded, TiersLeft, Fetch
<1>24. CASE RequestDump
  BY <1>24 DEF RequestDump, BreaksOff, cli, store, cluster,
       ControlInv, FailureMeansNoGoodCapture, Good, Recorded, TiersLeft, Fetch
<1>25. CASE PodDumps
  BY <1>25 DEF PodDumps, PausesJVM, Victim, cli, store, cluster, ControlInv,
       FailureMeansNoGoodCapture, Good, Recorded, TiersLeft, Fetch
<1> QED
  BY <1>1, <1>2, <1>3, <1>4, <1>5, <1>6, <1>7, <1>8, <1>9, <1>10, <1>11, <1>12,
       <1>13, <1>14, <1>15, <1>16, <1>17, <1>18, <1>19, <1>20, <1>21, <1>22, <1>23, <1>24,
       <1>25 DEF Next, LocalStep, ClusterStep

\* The inductive invariant with the rules for each exit code.
THEOREM ResultInvariance == Spec => [](IInv /\ ResultInv)
<1>1. Init => ResultInv
  BY DEF Init, ResultInv, NoFalseSuccess, FailureMeansNoGoodCapture, HarmlessInv,
         Good, Recorded
<1>2. IInv /\ ResultInv /\ [Next]_vars => ResultInv'
  BY HarmlessStep, SuccessStep, FailureStep DEF IInv, ResultInv
<1> QED
  BY Invariance, <1>1, <1>2, PTL DEF Spec

\* Exit code 0 and "wrote ..." stand for a recorded, validated capture on
\* disk, which is whole whenever its size could be known.
THEOREM SuccessIsBackedByARecord == Spec => []NoFalseSuccess
<1>1. ResultInv => NoFalseSuccess
  BY DEF ResultInv
<1> QED
  BY ResultInvariance, <1>1, PTL

\* Exit code 1 is returned only if no allowed tier got a good capture, and a
\* good capture is never followed by another attempt.
THEOREM FailureIsHonest == Spec => []FailureMeansNoGoodCapture
<1>1. ResultInv => FailureMeansNoGoodCapture
  BY DEF ResultInv
<1> QED
  BY ResultInvariance, <1>1, PTL

\* Exit codes 2 and 64 leave no trace in the cluster or on the disk.
THEOREM RefusalLeavesNoTrace == Spec => []RefusalIsHarmless
<1>1. ResultInv => RefusalIsHarmless
  BY DEF ResultInv, HarmlessInv, RefusalIsHarmless
<1> QED
  BY ResultInvariance, <1>1, PTL

\* The initial states of an invocation are initial states of the promise.
LEMMA PromiseInit == Init => Promise!Init
  BY DEF Init, Promise!Init, Recorded

\* What the promise sees of a step that changes none of its variables.
LEMMA PromiseStutter ==
  ASSUME UNCHANGED <<confirmed, paused, manifest, exit>>
  PROVE  UNCHANGED Promise!vars
  BY DEF Promise!vars, Recorded

\* Every step keeps the promise, or is invisible to it.
LEMMA PromiseStep ==
  ASSUME IInv, ResultInv, [Next]_vars PROVE [Promise!Next]_Promise!vars
<1> DEFINE verdicts == {r.ok : r \in Recorded}
           outcome  == IF exit \in {"usage", "target"} THEN "refused" ELSE exit
<1>a. UNCHANGED manifest => verdicts' = verdicts
  BY DEF Recorded
<1>b. exit' = exit => outcome' = outcome
  OBVIOUS
<1>c. TRUE \in verdicts <=> Good # {}
  BY DEF Good
<1>1. CASE \/ OpenArtifact \/ Discard \/ PrepareJattach \/ JattachThreads
           \/ ReadRemoteSize \/ CopyFromPod \/ DebugContainer \/ FollowDebugLogs
           \/ JDKRemoveDump \/ RetrieveDump \/ Cancel
           \/ FetchActuator \/ JattachDumpHeap \/ RequestDump
  <2>1. UNCHANGED <<confirmed, paused, manifest, exit>>
    BY <1>1 DEF OpenArtifact, Discard, PrepareJattach, JattachThreads, ReadRemoteSize,
       CopyFromPod, DebugContainer, FollowDebugLogs, JDKRemoveDump, RetrieveDump,
       Cancel, FetchActuator, JattachDumpHeap, RequestDump, cli, store, cluster
  <2> QED
    BY <2>1, PromiseStutter
<1>2. CASE PodDumps \/ DebugJobEnds
  <2>1. UNCHANGED <<confirmed, manifest, exit>>
    BY <1>2 DEF PodDumps, DebugJobEnds, cli, store
  <2>2. CASE UNCHANGED paused
    BY <2>1, <2>2, PromiseStutter
  <2>3. CASE Heap /\ paused' = paused \union {confirmed} /\ confirmed \in Pods
    <3>1. Promise!Harm(confirmed)
      BY <2>1, <2>3, <1>a, <1>b DEF Promise!Harm
    <3> QED
      BY <2>3, <3>1 DEF Promise!Next
  <2>4. Heap => confirmed \in Pods
    BY <1>2 DEF IInv, TokenInv, TypeOK, PodDumps, DebugJobEnds
  <2>5. UNCHANGED paused \/ (Heap /\ paused' = paused \union {confirmed})
    BY <1>2 DEF IInv, TokenInv, PodDumps, DebugJobEnds, PausesJVM, Victim
  <2> QED
    BY <2>2, <2>3, <2>4, <2>5
<1>3. CASE Gate \/ Resolve
  <2>1. UNCHANGED <<confirmed, paused, manifest>>
    BY <1>3 DEF Gate, Resolve, cli, store, cluster
  <2>2. CASE UNCHANGED exit
    BY <2>1, <2>2, PromiseStutter
  <2>3. CASE exit' # exit
    <3>1. exit = "none" /\ exit' \in {"usage", "target"} /\ paused = {} /\ manifest = <<>>
      BY <1>3, <2>3 DEF IInv, ControlInv, ResultInv, HarmlessInv, Gate, Resolve, Exit
    <3>2. verdicts = {}
      BY <3>1 DEF Recorded
    <3>3. confirmed = NoPod
      BY <1>3 DEF IInv, TokenInv, Gate, Resolve
    <3>4. Promise!Refuse
      BY <2>1, <3>1, <3>2, <3>3, <1>a DEF Promise!Refuse
    <3> QED
      BY <3>4 DEF Promise!Next
  <2> QED
    BY <2>2, <2>3
<1>4. CASE Confirm
  <2>1. UNCHANGED <<paused, manifest>> /\ confirmed = NoPod /\ exit = "none"
    BY <1>4 DEF IInv, TokenInv, ControlInv, Confirm, store, cluster
  <2>2. CASE UNCHANGED <<confirmed, exit>>
    BY <2>1, <2>2, PromiseStutter
  <2>3. CASE Heap /\ confirmed' = target /\ UNCHANGED exit
    <3>1. target \in Pods
      BY <1>4 DEF IInv, TokenInv, TypeOK, Confirm
    <3>2. Promise!Grant(target)
      BY <2>1, <2>3, <1>a, <1>b DEF Promise!Grant
    <3> QED
      BY <3>1, <3>2 DEF Promise!Next
  <2>4. CASE exit' = "target" /\ UNCHANGED confirmed
    <3>1. paused = {} /\ manifest = <<>>
      BY <1>4 DEF ResultInv, HarmlessInv, Confirm
    <3>2. verdicts = {}
      BY <3>1 DEF Recorded
    <3>3. Promise!Refuse
      BY <2>1, <2>4, <3>1, <3>2, <1>a DEF Promise!Refuse
    <3> QED
      BY <3>3 DEF Promise!Next
  <2> QED
    BY <1>4, <2>1, <2>2, <2>3, <2>4 DEF Confirm, Exit
<1>5. CASE ValidateAndRecord
  <2> DEFINE r == [tier |-> tier, ok |-> Valid(file[tier]), body |-> file[tier]]
  <2>1. UNCHANGED <<confirmed, paused, exit>> /\ exit = "none"
    BY <1>5 DEF IInv, ControlInv, ValidateAndRecord, cli, cluster
  <2>2. CASE UNCHANGED manifest
    BY <2>1, <2>2, PromiseStutter
  <2>3. CASE manifest' = Append(manifest, r)
    <3>1. r \in Records
      BY DEF IInv, TypeOK, Records, Valid
    <3>2. Recorded' = Recorded \union {r}
      BY <2>3, <3>1, RecordedAppend DEF IInv, TypeOK
    <3>3. verdicts' = verdicts \union {r.ok}
      BY <3>2
    <3>4. Good = {}
      BY <1>5 DEF ResultInv, FailureMeansNoGoodCapture, ValidateAndRecord, IInv, ControlInv
    <3>5. PICK good \in BOOLEAN : good = r.ok
      BY <3>1 DEF Records
    <3>6. Promise!Record(good)
      BY <2>1, <3>3, <3>4, <3>5, <1>b, <1>c DEF Promise!Record
    <3>7. \E g \in BOOLEAN : Promise!Record(g)
      BY <3>6, Zenon
    <3> QED
      BY <3>7 DEF Promise!Next
  <2> QED
    BY <1>5, <2>2, <2>3 DEF ValidateAndRecord
<1>6. CASE CleanupRemote
  <2>1. UNCHANGED <<confirmed, paused, manifest>> /\ exit = "none" /\ exit' = "ok"
    BY <1>6 DEF IInv, ControlInv, CleanupRemote, Exit, cli, store
  <2>2. Good # {}
    <3>1. manifest # <<>> /\ manifest[Len(manifest)].ok
      BY <1>6 DEF ResultInv, NoFalseSuccess, CleanupRemote
    <3>2. Len(manifest) \in DOMAIN manifest
      BY <3>1 DEF IInv, TypeOK
    <3> QED
      BY <3>1, <3>2 DEF Good, Recorded
  <2>3. Promise!Succeed
    BY <2>1, <2>2, <1>a, <1>c DEF Promise!Succeed
  <2> QED
    BY <2>3 DEF Promise!Next
<1>7. CASE TierFailed \/ FindDump
  <2>1. UNCHANGED <<confirmed, paused, manifest>> /\ exit = "none"
    BY <1>7 DEF IInv, ControlInv, TierFailed, FindDump, cli, store, cluster
  <2>2. CASE UNCHANGED exit
    BY <2>1, <2>2, PromiseStutter
  <2>3. CASE exit' = "failed"
    <3>1. Good = {}
      BY <1>7 DEF ResultInv, FailureMeansNoGoodCapture, TierFailed,
         FindDump, IInv, ControlInv
    <3>2. Promise!Fail
      BY <2>1, <2>3, <3>1, <1>a, <1>c DEF Promise!Fail
    <3> QED
      BY <3>2 DEF Promise!Next
  <2> QED
    BY <1>7, <2>2, <2>3 DEF TierFailed, FindDump, Exit
<1>8. CASE Kill
  <2>1. UNCHANGED <<confirmed, paused, manifest>> /\ exit = "none" /\ exit' = "killed"
    BY <1>8 DEF IInv, ControlInv, Kill, Exit, cli, store, cluster
  <2>2. Promise!Die
    BY <2>1, <1>a DEF Promise!Die
  <2> QED
    BY <2>2 DEF Promise!Next
<1>9. CASE UNCHANGED vars
  BY <1>9, PromiseStutter DEF vars
<1> QED
  BY <1>1, <1>2, <1>3, <1>4, <1>5, <1>6, <1>7, <1>8, <1>9
     DEF Next, LocalStep, ClusterStep

\* An invocation implements its promise, whatever the number of pods and
\* whatever fails on the way.
THEOREM CaptureKeepsItsPromise == Spec => ImplementsPromise
<1>1. Spec => Promise!Spec
  BY ResultInvariance, PromiseInit, PromiseStep, PTL DEF Spec, Promise!Spec
<1> QED
  BY <1>1 DEF ImplementsPromise

---------------------------------------------------------------------------
(* What an invocation leaves behind: the dumps in the pod and the words    *)
(* about them, the files of the session and their records, and what a      *)
(* cancelled context still lets happen.                                    *)


Early == {"gate", "resolve", "confirm", "find"}

\* Which tier each program point belongs to.
TierInv ==
  /\ pc = "fetch" => tier = "actuator"
  /\ pc \in {"prepare", "jcmd", "dumpheap"} => tier = "jattach"
  /\ pc = "dumping" => tier \in {"actuator", "jattach"}
  /\ pc = "remove" => tier = "jdk"
  /\ pc \in {"size", "copy"} => tier \in {"jattach", "jdk"}
  /\ pc \notin Early \union {"exited"} => (Fetch <=> tier = "oncrash")
  /\ pc \in {"find", "retrieve"} => tier = "oncrash"
  /\ pc = "jcmd" => ~Heap
  /\ pc \in {"dumpheap", "dumping", "size", "copy", "remove"} => Heap
  /\ pc \in {"gate", "resolve", "confirm"} => tier = "actuator"

\* The dump of the running tier is in the pod from the moment it may be
\* copied, and what the tier says of it is true.
RemoteInv ==
  /\ remote = "pending" => tier = "jattach"
  /\ remote # "unset" => pc \in {"discard", "failed", "validate", "cleanup", "exited"}
  /\ remote # "unset" /\ pc # "exited" => tier \in left
  /\ Heap /\ tier = "jattach" /\ pc = "validate" => remote = "pending"
  /\ pc \in {"size", "copy"} => tier \in left
  /\ pc = "follow" /\ Heap /\ job = "ok" => "jdk" \in left
  /\ pc \notin Early \union {"exited"} /\ Fetch => "oncrash" \in told \intersect left

\* The operator was told of dumps of earlier tiers only, and of each that was
\* rejected.
ToldInv ==
  /\ told \subseteq left
  /\ "jattach" \in told => tier = "jdk" \/ pc = "exited"
  /\ "jdk" \in told => pc = "exited"
  /\ exit # "killed" /\ req.verb # "threads" =>
       \A r \in Recorded : r.tier \in {"jattach", "oncrash"} /\ ~r.ok =>
         r.tier \in told \/ (pc = "failed" /\ r.tier = tier /\ remote # "unset")

InPipe == {"fetch", "prepare", "jcmd", "dumpheap", "dumping", "size", "copy", "debug",
           "follow", "remove", "discard", "validate", "retrieve"}

Untouched(t) == file[t] = "absent" /\ \A r \in Recorded : r.tier # t
Matches(body, records, t) ==
  {r.body : r \in {q \in records : q.tier = t}} = {body} \ {"absent"}
Accounted(t) == Matches(file[t], Recorded, t)

\* A tier is untouched until it starts, without a record while it runs, and
\* accounted for once it is over.
FileInv ==
  /\ pc \in Early => \A t \in Tiers : Untouched(t)
  /\ pc = "open" => Untouched(tier)
  /\ pc \in InPipe => \A r \in Recorded : r.tier # tier
  /\ tier = "actuator" => Untouched("jattach") /\ Untouched("jdk")
  /\ tier = "jattach" => Untouched("jdk")
  /\ ~DiskMayFail /\ exit # "killed" =>
       \A t \in Tiers : t # tier \/ pc \notin InPipe => Accounted(t)

TraceInv == TierInv /\ RemoteInv /\ ToldInv /\ FileInv

\* Every step keeps each program point with its tier.
LEMMA TierStep ==
  ASSUME TypeOK, ControlInv, PipeInv, TierInv, [Next]_vars PROVE TierInv'
<1>1. CASE Gate
  BY <1>1 DEF Gate, Exit, cli, store, cluster, TierInv, Early, Fetch, Heap
<1>2. CASE Resolve
  BY <1>2 DEF Resolve, Exit, Explicit, cli, store, cluster, TierInv, Early, Fetch,
       Heap, ControlInv
<1>3. CASE Confirm
  BY <1>3 DEF Confirm, Exit, FirstTier, AfterConfirm, cli, store, cluster, TierInv,
       Early, Fetch, Heap, TypeOK, ControlInv, Requests
<1>4. CASE OpenArtifact
  BY <1>4 DEF OpenArtifact, Entry, cli, store, cluster, TierInv, Early, Fetch, Heap,
       TypeOK, Tiers
<1>5. CASE Discard
  BY <1>5 DEF Discard, cli, store, cluster, TierInv, Early, Fetch, Heap
<1>6. CASE ValidateAndRecord
  BY <1>6 DEF ValidateAndRecord, cli, store, cluster, TierInv, Early, Fetch, Heap,
       TypeOK
<1>7. CASE TierFailed
  BY <1>7 DEF TierFailed, Exit, TiersLeft, TierAfter, cli, store, cluster, TierInv,
       Early, Fetch, Heap, TypeOK, Requests
<1>8. CASE FetchActuator
  BY <1>8 DEF FetchActuator, Writes, BreaksOff, Answers, cli, store, cluster,
       TierInv, Early, Fetch, Heap
<1>9. CASE PrepareJattach
  BY <1>9 DEF PrepareJattach, BreaksOff, cli, store, cluster, TierInv, Early, Fetch,
       Heap
<1>10. CASE JattachThreads
  BY <1>10 DEF JattachThreads, Writes, BreaksOff, cli, store, cluster, TierInv, Early,
       Fetch, Heap
<1>11. CASE JattachDumpHeap
  BY <1>11 DEF JattachDumpHeap, BreaksOff, cli, store, cluster, TierInv,
       Early, Fetch, Heap
<1>12. CASE ReadRemoteSize
  BY <1>12 DEF ReadRemoteSize, cli, store, cluster, TierInv, Early, Fetch, Heap
<1>13. CASE CopyFromPod
  BY <1>13 DEF CopyFromPod, Writes, BreaksOff, cli, store, cluster, TierInv, Early,
       Fetch, Heap
<1>14. CASE DebugContainer
  BY <1>14 DEF DebugContainer, BreaksOff, cli, store, cluster, TierInv, Early, Fetch,
       Heap
<1>15. CASE FollowDebugLogs
  BY <1>15 DEF FollowDebugLogs, LogBodies, Flush, Writes, cli, store, cluster,
       TierInv, Early, Fetch, Heap, PipeInv
<1>16. CASE JDKRemoveDump
  BY <1>16 DEF JDKRemoveDump, cli, store, cluster, TierInv, Early, Fetch, Heap
<1>17. CASE CleanupRemote
  BY <1>17 DEF CleanupRemote, Exit, cli, store, cluster, TierInv, Early, Fetch, Heap
<1>18. CASE DebugJobEnds
  BY <1>18 DEF DebugJobEnds, PausesJVM, cli, store, cluster, TierInv, Early, Fetch,
       Heap
<1>19. CASE Cancel
  BY <1>19 DEF Cancel, cli, store, cluster, TierInv, Early, Fetch, Heap
<1>20. CASE Kill
  BY <1>20 DEF Kill, Exit, cli, store, cluster, TierInv, Early, Fetch, Heap
<1>21. CASE FindDump
  BY <1>21 DEF FindDump, Exit, cli, store, cluster, TierInv, Early, Fetch, Heap,
       ControlInv
<1>22. CASE RetrieveDump
  BY <1>22 DEF RetrieveDump, Retrieved, Writes, BreaksOff, cli, store, cluster,
       TierInv, Early, Fetch, Heap
<1>23. CASE UNCHANGED vars
  BY <1>23 DEF vars, TierInv, Early, Fetch, Heap
<1>24. CASE RequestDump
  BY <1>24 DEF RequestDump, BreaksOff, cli, store, cluster, TierInv,
       Early, Fetch, Heap
<1>25. CASE PodDumps
  BY <1>25 DEF PodDumps, PausesJVM, cli, store, cluster, TierInv, Early, Fetch,
       Heap
<1> QED
  BY <1>1, <1>2, <1>3, <1>4, <1>5, <1>6, <1>7, <1>8, <1>9, <1>10, <1>11, <1>12, <1>13,
       <1>14, <1>15, <1>16, <1>17, <1>18, <1>19, <1>20, <1>21, <1>22, <1>23, <1>24,
       <1>25 DEF Next, LocalStep, ClusterStep

\* Every step keeps what is known of the dump in the pod.
LEMMA RemoteStep ==
  ASSUME TypeOK, ControlInv, PipeInv, TierInv, RemoteInv, [Next]_vars PROVE RemoteInv'
<1>1. CASE Gate
  BY <1>1 DEF Gate, Exit, cli, store, cluster, RemoteInv, TierInv, Early, Fetch, Heap
<1>2. CASE Resolve
  BY <1>2 DEF Resolve, Exit, Explicit, cli, store, cluster, RemoteInv, TierInv, Early,
       Fetch, Heap
<1>3. CASE Confirm
  BY <1>3 DEF Confirm, Exit, FirstTier, AfterConfirm, cli, store, cluster, RemoteInv,
       TierInv, Early, Fetch, Heap, TypeOK, ControlInv, Requests
<1>4. CASE OpenArtifact
  BY <1>4 DEF OpenArtifact, Entry, cli, store, cluster, RemoteInv, TierInv, Early,
       Fetch, Heap, TypeOK, Tiers
<1>5. CASE Discard
  BY <1>5 DEF Discard, cli, store, cluster, RemoteInv, TierInv, Early, Fetch, Heap
<1>6. CASE ValidateAndRecord
  BY <1>6 DEF ValidateAndRecord, cli, store, cluster, RemoteInv, TierInv, Early,
       Fetch, Heap
<1>7. CASE TierFailed
  BY <1>7 DEF TierFailed, Exit, TiersLeft, TierAfter, cli, store, cluster, RemoteInv,
       TierInv, Early, Fetch, Heap
<1>8. CASE FetchActuator
  BY <1>8 DEF FetchActuator, Writes, BreaksOff, Answers, cli, store, cluster,
       RemoteInv, TierInv, Early, Fetch, Heap
<1>9. CASE PrepareJattach
  BY <1>9 DEF PrepareJattach, BreaksOff, cli, store, cluster, RemoteInv, TierInv,
       Early, Fetch, Heap
<1>10. CASE JattachThreads
  BY <1>10 DEF JattachThreads, Writes, BreaksOff, cli, store, cluster, RemoteInv,
       TierInv, Early, Fetch, Heap
<1>11. CASE JattachDumpHeap
  BY <1>11 DEF JattachDumpHeap, BreaksOff, cli, store, cluster, RemoteInv,
       TierInv, Early, Fetch, Heap
<1>12. CASE ReadRemoteSize
  BY <1>12 DEF ReadRemoteSize, cli, store, cluster, RemoteInv, TierInv, Early, Fetch,
       Heap
<1>13. CASE CopyFromPod
  BY <1>13 DEF CopyFromPod, Writes, BreaksOff, cli, store, cluster, RemoteInv,
       TierInv, Early, Fetch, Heap
<1>14. CASE DebugContainer
  BY <1>14 DEF DebugContainer, BreaksOff, cli, store, cluster, RemoteInv, TierInv,
       Early, Fetch, Heap, TypeOK
<1>15. CASE FollowDebugLogs
  BY <1>15 DEF FollowDebugLogs, LogBodies, Flush, Writes, cli, store, cluster,
       RemoteInv, TierInv, Early, Fetch, Heap, PipeInv
<1>16. CASE JDKRemoveDump
  BY <1>16 DEF JDKRemoveDump, cli, store, cluster, RemoteInv, TierInv, Early, Fetch,
       Heap
<1>17. CASE CleanupRemote
  BY <1>17 DEF CleanupRemote, Exit, cli, store, cluster, RemoteInv, TierInv, Early,
       Fetch, Heap
<1>18. CASE DebugJobEnds
  BY <1>18 DEF DebugJobEnds, PausesJVM, cli, store, cluster, RemoteInv, TierInv,
       Early, Fetch, Heap
<1>19. CASE Cancel
  BY <1>19 DEF Cancel, cli, store, cluster, RemoteInv, TierInv, Early, Fetch, Heap
<1>20. CASE Kill
  BY <1>20 DEF Kill, Exit, cli, store, cluster, RemoteInv, TierInv, Early, Fetch, Heap
<1>21. CASE FindDump
  BY <1>21 DEF FindDump, Exit, cli, store, cluster, RemoteInv, TierInv, Early, Fetch,
       Heap
<1>22. CASE RetrieveDump
  BY <1>22 DEF RetrieveDump, Retrieved, Writes, BreaksOff, cli, store, cluster,
       RemoteInv, TierInv, Early, Fetch, Heap
<1>23. CASE UNCHANGED vars
  BY <1>23 DEF vars, RemoteInv, TierInv, Early, Fetch, Heap
<1>24. CASE RequestDump
  BY <1>24 DEF RequestDump, BreaksOff, cli, store, cluster, RemoteInv,
       TierInv, Early, Fetch, Heap
<1>25. CASE PodDumps
  BY <1>25 DEF PodDumps, PausesJVM, cli, store, cluster, RemoteInv, TierInv,
       Early, Fetch, Heap
<1> QED
  BY <1>1, <1>2, <1>3, <1>4, <1>5, <1>6, <1>7, <1>8, <1>9, <1>10, <1>11, <1>12, <1>13,
       <1>14, <1>15, <1>16, <1>17, <1>18, <1>19, <1>20, <1>21, <1>22, <1>23, <1>24,
       <1>25 DEF Next, LocalStep, ClusterStep

\* Every step keeps what the operator was told.
LEMMA ToldStep ==
  ASSUME TypeOK, ControlInv, PipeInv, TierInv, RemoteInv, ToldInv, [Next]_vars
  PROVE  ToldInv'
<1>same. ASSUME UNCHANGED manifest PROVE Recorded' = Recorded
  BY <1>same DEF Recorded
<1>1. CASE Gate
  BY <1>1, <1>same DEF Gate, Exit, cli, store, cluster, ToldInv, RemoteInv, TierInv,
       ControlInv, Early, Fetch, Heap
<1>2. CASE Resolve
  BY <1>2, <1>same DEF Resolve, Exit, Explicit, cli, store, cluster, ToldInv,
       RemoteInv, TierInv, ControlInv, Early, Fetch, Heap
<1>3. CASE Confirm
  BY <1>3, <1>same DEF Confirm, Exit, FirstTier, AfterConfirm, cli, store, cluster,
       ToldInv, RemoteInv, TierInv, ControlInv, Early, Fetch, Heap
<1>4. CASE OpenArtifact
  BY <1>4, <1>same DEF OpenArtifact, Entry, cli, store, cluster, ToldInv, RemoteInv,
       TierInv, ControlInv, Early, Fetch, Heap, TypeOK, Tiers
<1>5. CASE Discard
  BY <1>5, <1>same DEF Discard, cli, store, cluster, ToldInv, RemoteInv, TierInv,
       ControlInv, Early, Fetch, Heap
<1>6. CASE ValidateAndRecord
  <2> DEFINE r == [tier |-> tier, ok |-> Valid(file[tier]), body |-> file[tier]]
  <2>1. CASE UNCHANGED manifest
    BY <1>6, <2>1, <1>same DEF ValidateAndRecord, cli, cluster, ToldInv, TierInv, Early
  <2>2. CASE manifest' = Append(manifest, r)
    <3>1. r \in Records
      BY DEF TypeOK, Records, Valid
    <3>2. Recorded' = Recorded \union {r}
      BY <2>2, <3>1, RecordedAppend DEF TypeOK
    <3>3. r.tier = tier /\ r.ok = Valid(file[tier])
      OBVIOUS
    <3>4. pc = "validate" /\ pc' = (IF Valid(file[tier]) THEN "cleanup" ELSE "failed")
          /\ UNCHANGED <<told, left, tier, remote, req, exit>>
      BY <1>6, <2>2, <3>2 DEF ValidateAndRecord, cli, cluster
    <3>5. CASE Valid(file[tier])
      BY <3>2, <3>3, <3>4, <3>5 DEF ToldInv
    <3>6. CASE ~Valid(file[tier])
      <4>1. tier = "jattach" /\ req.verb # "threads" => remote # "unset"
        BY <3>4 DEF TypeOK, Requests, Heap, Fetch, RemoteInv, TierInv, Early
      <4>2. tier = "oncrash" => tier \in told
        BY <3>4 DEF TierInv, RemoteInv, Early
      <4> QED
        BY <3>2, <3>3, <3>4, <3>6, <4>1, <4>2 DEF ToldInv
    <3> QED
      BY <3>5, <3>6
  <2> QED
    BY <1>6, <2>1, <2>2 DEF ValidateAndRecord
<1>7. CASE TierFailed
  BY <1>7, <1>same DEF TierFailed, Exit, TiersLeft, TierAfter, cli, store, cluster,
       ToldInv, RemoteInv, TierInv, ControlInv, Early, Fetch, Heap, TypeOK, Tiers
<1>8. CASE FetchActuator
  BY <1>8, <1>same DEF FetchActuator, Writes, BreaksOff, Answers, cli, store,
       cluster, ToldInv, RemoteInv, TierInv, ControlInv, Early, Fetch, Heap
<1>9. CASE PrepareJattach
  BY <1>9, <1>same DEF PrepareJattach, BreaksOff, cli, store, cluster, ToldInv,
       RemoteInv, TierInv, ControlInv, Early, Fetch, Heap
<1>10. CASE JattachThreads
  BY <1>10, <1>same DEF JattachThreads, Writes, BreaksOff, cli, store, cluster,
       ToldInv, RemoteInv, TierInv, ControlInv, Early, Fetch, Heap
<1>11. CASE JattachDumpHeap
  BY <1>11, <1>same DEF JattachDumpHeap, BreaksOff, cli, store, cluster,
       ToldInv, RemoteInv, TierInv, ControlInv, Early, Fetch, Heap
<1>12. CASE ReadRemoteSize
  BY <1>12, <1>same DEF ReadRemoteSize, cli, store, cluster, ToldInv, RemoteInv,
       TierInv, ControlInv, Early, Fetch, Heap
<1>13. CASE CopyFromPod
  BY <1>13, <1>same DEF CopyFromPod, Writes, BreaksOff, cli, store, cluster, ToldInv,
       RemoteInv, TierInv, ControlInv, Early, Fetch, Heap
<1>14. CASE DebugContainer
  BY <1>14, <1>same DEF DebugContainer, BreaksOff, cli, store, cluster, ToldInv,
       RemoteInv, TierInv, ControlInv, Early, Fetch, Heap
<1>15. CASE FollowDebugLogs
  BY <1>15, <1>same DEF FollowDebugLogs, LogBodies, Flush, Writes, cli, store,
       cluster, ToldInv, RemoteInv, TierInv, ControlInv, Early, Fetch, Heap
<1>16. CASE JDKRemoveDump
  BY <1>16, <1>same DEF JDKRemoveDump, cli, store, cluster, ToldInv, RemoteInv,
       TierInv, ControlInv, Early, Fetch, Heap
<1>17. CASE CleanupRemote
  BY <1>17, <1>same DEF CleanupRemote, Exit, cli, store, cluster, ToldInv, RemoteInv,
       TierInv, ControlInv, Early, Fetch, Heap
<1>18. CASE DebugJobEnds
  BY <1>18, <1>same DEF DebugJobEnds, PausesJVM, cli, store, cluster, ToldInv,
       RemoteInv, TierInv, ControlInv, Early, Fetch, Heap
<1>19. CASE Cancel
  BY <1>19, <1>same DEF Cancel, cli, store, cluster, ToldInv, RemoteInv, TierInv,
       ControlInv, Early, Fetch, Heap
<1>20. CASE Kill
  BY <1>20, <1>same DEF Kill, Exit, cli, store, cluster, ToldInv, RemoteInv, TierInv,
       ControlInv, Early, Fetch, Heap
<1>21. CASE FindDump
  BY <1>21, <1>same DEF FindDump, Exit, cli, store, cluster, ToldInv, RemoteInv,
       TierInv, ControlInv, Early, Fetch, Heap
<1>22. CASE RetrieveDump
  BY <1>22, <1>same DEF RetrieveDump, Retrieved, Writes, BreaksOff, cli, store,
       cluster, ToldInv, RemoteInv, TierInv, ControlInv, Early, Fetch, Heap
<1>23. CASE UNCHANGED vars
  BY <1>23, <1>same DEF vars, ToldInv, RemoteInv, TierInv, ControlInv, Early, Fetch,
       Heap
<1>24. CASE RequestDump
  BY <1>24, <1>same DEF RequestDump, BreaksOff, cli, store, cluster,
       ToldInv, RemoteInv, TierInv, ControlInv, Early, Fetch, Heap
<1>25. CASE PodDumps
  BY <1>25, <1>same DEF PodDumps, PausesJVM, cli, store, cluster, ToldInv,
       RemoteInv, TierInv, ControlInv, Early, Fetch, Heap
<1> QED
  BY <1>1, <1>2, <1>3, <1>4, <1>5, <1>6, <1>7, <1>8, <1>9, <1>10, <1>11, <1>12, <1>13,
       <1>14, <1>15, <1>16, <1>17, <1>18, <1>19, <1>20, <1>21, <1>22, <1>23, <1>24,
       <1>25 DEF Next, LocalStep, ClusterStep

\* A tier without a record is accounted for when it has no file.
LEMMA NothingMatches ==
  ASSUME NEW records, NEW t, \A r \in records : r.tier # t
  PROVE  Matches("absent", records, t)
  BY DEF Matches

\* A first record accounts for the body it names.
LEMMA FirstMatches ==
  ASSUME NEW records, NEW r, NEW t, \A q \in records : q.tier # t,
         r.tier = t, r.body # "absent"
  PROVE  Matches(r.body, records \union {r}, t)
<1>1. {q \in records \union {r} : q.tier = t} = {r}
  OBVIOUS
<1> QED
  BY <1>1 DEF Matches

\* A record of another tier changes nothing.
LEMMA OthersMatch ==
  ASSUME NEW records, NEW r, NEW t, NEW body, r.tier # t
  PROVE  Matches(body, records \union {r}, t) <=> Matches(body, records, t)
<1>1. {q \in records \union {r} : q.tier = t} = {q \in records : q.tier = t}
  OBVIOUS
<1> QED
  BY <1>1 DEF Matches

\* Every step keeps the files and their records together.
LEMMA FileStep ==
  ASSUME TypeOK, ControlInv, PipeInv, TierInv, FileInv, [Next]_vars
  PROVE  FileInv'
<1>same. ASSUME UNCHANGED manifest PROVE Recorded' = Recorded
  BY <1>same DEF Recorded
<1>1. CASE Gate
  BY <1>1, <1>same, NothingMatches DEF Gate, Exit, cli, store, cluster, FileInv,
       TierInv, ControlInv, Untouched, Accounted, DiskMayFail, Early, InPipe, TypeOK,
       Tiers
<1>2. CASE Resolve
  BY <1>2, <1>same, NothingMatches DEF Resolve, Exit, Explicit, cli, store, cluster,
       FileInv, TierInv, ControlInv, Untouched, Accounted, DiskMayFail, Early, InPipe,
       TypeOK, Tiers
<1>3. CASE Confirm
  BY <1>3, <1>same, NothingMatches DEF Confirm, Exit, FirstTier, AfterConfirm, cli,
       store, cluster, FileInv, TierInv, ControlInv, Untouched, Accounted,
       DiskMayFail, Early, InPipe, TypeOK, Tiers, Requests, Fetch, Heap
<1>4. CASE OpenArtifact
  BY <1>4, <1>same, NothingMatches DEF OpenArtifact, Entry, cli, store, cluster,
       FileInv, TierInv, ControlInv, Untouched, Accounted, DiskMayFail, Early, InPipe,
       TypeOK, Tiers
<1>5. CASE Discard
  BY <1>5, <1>same, NothingMatches DEF Discard, cli, store, cluster, FileInv, TierInv,
       ControlInv, Untouched, Accounted, DiskMayFail, Early, InPipe, TypeOK, Tiers
<1>6. CASE ValidateAndRecord
  <2> DEFINE r == [tier |-> tier, ok |-> Valid(file[tier]), body |-> file[tier]]
  <2>0. /\ pc = "validate" /\ pc' \in {"cleanup", "failed"}
        /\ UNCHANGED <<file, tier, req, exit>>
    BY <1>6 DEF ValidateAndRecord, cli
  <2>1. CASE UNCHANGED manifest /\ DiskMayFail
    BY <2>0, <2>1, <1>same DEF FileInv, Untouched, Early, InPipe, DiskMayFail, TypeOK
  <2>2. CASE manifest' = Append(manifest, r)
    <3>1. r \in Records
      BY DEF TypeOK, Records, Valid
    <3>2. Recorded' = Recorded \union {r}
      BY <2>2, <3>1, RecordedAppend DEF TypeOK
    <3>3. r.tier = tier /\ r.body = file[tier] /\ r.body # "absent"
      BY <2>0 DEF PipeInv
    <3>4. \A q \in Recorded : q.tier # tier
      BY <2>0 DEF FileInv, InPipe
    <3>5. Matches(file[tier], Recorded', tier)
      BY <3>2, <3>3, <3>4, FirstMatches
    <3>6. \A t \in Tiers : t # tier =>
            (Matches(file[t], Recorded', t) <=> Matches(file[t], Recorded, t))
      BY <3>2, <3>3, OthersMatch
    <3>7. \A t \in Tiers : t # tier /\ Untouched(t) => Untouched(t)'
      BY <2>0, <3>2, <3>3 DEF Untouched
    <3>8. (~DiskMayFail /\ exit # "killed")' => \A t \in Tiers : Accounted(t)'
      BY <2>0, <3>5, <3>6 DEF FileInv, Accounted, DiskMayFail
    <3> QED
      BY <2>0, <3>7, <3>8 DEF FileInv, Early, InPipe, Tiers
  <2> QED
    BY <1>6, <2>1, <2>2 DEF ValidateAndRecord
<1>7. CASE TierFailed
  BY <1>7, <1>same, NothingMatches DEF TierFailed, Exit, TiersLeft, TierAfter, cli,
       store, cluster, FileInv, TierInv, ControlInv, Untouched, Accounted,
       DiskMayFail, Early, InPipe, TypeOK, Tiers, Fetch
<1>8. CASE FetchActuator
  BY <1>8, <1>same, NothingMatches DEF FetchActuator, Writes, BreaksOff, Answers,
       cli, store, cluster, FileInv, TierInv, ControlInv, Untouched, Accounted,
       DiskMayFail, Early, InPipe, TypeOK, Tiers
<1>9. CASE PrepareJattach
  BY <1>9, <1>same, NothingMatches DEF PrepareJattach, BreaksOff, cli, store, cluster,
       FileInv, TierInv, ControlInv, Untouched, Accounted, DiskMayFail, Early, InPipe,
       TypeOK, Tiers
<1>10. CASE JattachThreads
  BY <1>10, <1>same, NothingMatches DEF JattachThreads, Writes, BreaksOff, cli, store,
       cluster, FileInv, TierInv, ControlInv, Untouched, Accounted, DiskMayFail,
       Early, InPipe, TypeOK, Tiers
<1>11. CASE JattachDumpHeap
  BY <1>11, <1>same, NothingMatches DEF JattachDumpHeap, BreaksOff, cli,
       store, cluster, FileInv, TierInv, ControlInv, Untouched, Accounted,
       DiskMayFail, Early, InPipe, TypeOK, Tiers
<1>12. CASE ReadRemoteSize
  BY <1>12, <1>same, NothingMatches DEF ReadRemoteSize, cli, store, cluster, FileInv,
       TierInv, ControlInv, Untouched, Accounted, DiskMayFail, Early, InPipe, TypeOK,
       Tiers
<1>13. CASE CopyFromPod
  BY <1>13, <1>same, NothingMatches DEF CopyFromPod, Writes, BreaksOff, cli, store,
       cluster, FileInv, TierInv, ControlInv, Untouched, Accounted, DiskMayFail,
       Early, InPipe, TypeOK, Tiers
<1>14. CASE DebugContainer
  BY <1>14, <1>same, NothingMatches DEF DebugContainer, BreaksOff, cli, store,
       cluster, FileInv, TierInv, ControlInv, Untouched, Accounted, DiskMayFail,
       Early, InPipe, TypeOK, Tiers
<1>15. CASE FollowDebugLogs
  BY <1>15, <1>same, NothingMatches DEF FollowDebugLogs, LogBodies, Flush, Writes,
       cli, store, cluster, FileInv, TierInv, ControlInv, Untouched, Accounted,
       DiskMayFail, Early, InPipe, TypeOK, Tiers
<1>16. CASE JDKRemoveDump
  BY <1>16, <1>same, NothingMatches DEF JDKRemoveDump, cli, store, cluster, FileInv,
       TierInv, ControlInv, Untouched, Accounted, DiskMayFail, Early, InPipe, TypeOK,
       Tiers
<1>17. CASE CleanupRemote
  BY <1>17, <1>same, NothingMatches DEF CleanupRemote, Exit, cli, store, cluster,
       FileInv, TierInv, ControlInv, Untouched, Accounted, DiskMayFail, Early, InPipe,
       TypeOK, Tiers
<1>18. CASE DebugJobEnds
  BY <1>18, <1>same, NothingMatches DEF DebugJobEnds, PausesJVM, cli, store, cluster,
       FileInv, TierInv, ControlInv, Untouched, Accounted, DiskMayFail, Early, InPipe,
       TypeOK, Tiers
<1>19. CASE Cancel
  BY <1>19, <1>same, NothingMatches DEF Cancel, cli, store, cluster, FileInv, TierInv,
       ControlInv, Untouched, Accounted, DiskMayFail, Early, InPipe, TypeOK, Tiers
<1>20. CASE Kill
  BY <1>20, <1>same, NothingMatches DEF Kill, Exit, cli, store, cluster, FileInv,
       TierInv, ControlInv, Untouched, Accounted, DiskMayFail, Early, InPipe, TypeOK,
       Tiers
<1>21. CASE FindDump
  BY <1>21, <1>same, NothingMatches DEF FindDump, Exit, cli, store, cluster, FileInv,
       TierInv, ControlInv, Untouched, Accounted, DiskMayFail, Early, InPipe, TypeOK,
       Tiers
<1>22. CASE RetrieveDump
  BY <1>22, <1>same, NothingMatches DEF RetrieveDump, Retrieved, Writes, BreaksOff,
       cli, store, cluster, FileInv, TierInv, ControlInv, Untouched, Accounted,
       DiskMayFail, Early, InPipe, TypeOK, Tiers
<1>23. CASE UNCHANGED vars
  BY <1>23, <1>same, NothingMatches DEF vars, FileInv, TierInv, ControlInv, Untouched,
       Accounted, DiskMayFail, Early, InPipe, TypeOK, Tiers
<1>24. CASE RequestDump
  BY <1>24, <1>same, NothingMatches DEF RequestDump, BreaksOff, cli,
       store, cluster, FileInv, TierInv, ControlInv, Untouched, Accounted,
       DiskMayFail, Early, InPipe, TypeOK, Tiers
<1>25. CASE PodDumps
  BY <1>25, <1>same, NothingMatches DEF PodDumps, PausesJVM, cli, store, cluster,
       FileInv, TierInv, ControlInv, Untouched, Accounted, DiskMayFail, Early, InPipe,
       TypeOK, Tiers
<1> QED
  BY <1>1, <1>2, <1>3, <1>4, <1>5, <1>6, <1>7, <1>8, <1>9, <1>10, <1>11, <1>12, <1>13,
       <1>14, <1>15, <1>16, <1>17, <1>18, <1>19, <1>20, <1>21, <1>22, <1>23, <1>24,
       <1>25 DEF Next, LocalStep, ClusterStep

\* The invariants of this module hold throughout.
THEOREM TraceInvariance == Spec => [](IInv /\ ResultInv /\ TraceInv)
<1>1. Init => TraceInv
  <2> SUFFICES ASSUME Init PROVE TraceInv
    OBVIOUS
  <2>1. Recorded = {}
    BY DEF Init, Recorded
  <2>2. TierInv /\ RemoteInv /\ ToldInv
    BY <2>1 DEF Init, TierInv, RemoteInv, ToldInv, Early, Heap, Fetch
  <2>3. FileInv
    BY <2>1, NothingMatches DEF Init, FileInv, Untouched, Accounted, Early, InPipe, Tiers
  <2> QED
    BY <2>2, <2>3 DEF TraceInv
<1>2. IInv /\ TraceInv /\ [Next]_vars => TraceInv'
  BY TierStep, RemoteStep, ToldStep, FileStep DEF IInv, TraceInv
<1> QED
  BY ResultInvariance, <1>1, <1>2, PTL DEF Spec

\* For every set of pods, the operator is told of dumps that are there, and of
\* the one behind each rejected copy.
THEOREM RejectedCopiesAreNamed == Spec => []RejectedCopyIsNamed
<1>1. IInv /\ TraceInv => RejectedCopyIsNamed
  BY DEF IInv, TraceInv, ToldInv, ControlInv, RejectedCopyIsNamed
<1> QED
  BY TraceInvariance, <1>1, PTL

\* With a sound disk, files and records agree at the end of an invocation.
THEOREM FilesAreAccountedFor == Spec => []EveryFileAccountedFor
<1>1. IInv /\ TraceInv => EveryFileAccountedFor
  BY DEF IInv, TraceInv, FileInv, InPipe, ControlInv, Accounted, Matches,
         EveryFileAccountedFor
<1> QED
  BY TraceInvariance, <1>1, PTL

\* No step removes the jattach tier's dump from the pod unless its copy is on
\* disk with a good record.
THEOREM DumpsOutliveBadCopies == Spec => DumpKeptUntilValidated
<1>1. ASSUME IInv, ResultInv, TraceInv, [Next]_vars, "jattach" \in left \ left'
      PROVE  [tier |-> "jattach", ok |-> TRUE, body |-> file["jattach"]] \in Recorded
  <2>1. CleanupRemote
    <3>1. CASE Gate
      BY <3>1, <1>1 DEF Gate, Exit, cli, store, cluster
    <3>2. CASE Resolve
      BY <3>2, <1>1 DEF Resolve, Exit, Explicit, cli, store, cluster
    <3>3. CASE Confirm
      BY <3>3, <1>1 DEF Confirm, Exit, FirstTier, AfterConfirm, cli, store, cluster
    <3>4. CASE OpenArtifact
      BY <3>4, <1>1 DEF OpenArtifact, Entry, cli, store, cluster
    <3>5. CASE Discard
      BY <3>5, <1>1 DEF Discard, cli, store, cluster
    <3>6. CASE ValidateAndRecord
      BY <3>6, <1>1 DEF ValidateAndRecord, cli, store, cluster
    <3>7. CASE TierFailed
      BY <3>7, <1>1 DEF TierFailed, Exit, TiersLeft, TierAfter, cli, store, cluster
    <3>8. CASE FetchActuator
      BY <3>8, <1>1 DEF FetchActuator, Writes, BreaksOff, Answers, cli, store,
           cluster
    <3>9. CASE PrepareJattach
      BY <3>9, <1>1 DEF PrepareJattach, BreaksOff, cli, store, cluster
    <3>10. CASE JattachThreads
      BY <3>10, <1>1 DEF JattachThreads, Writes, BreaksOff, cli, store, cluster
    <3>11. CASE JattachDumpHeap
      BY <3>11, <1>1 DEF JattachDumpHeap, BreaksOff, cli, store, cluster
    <3>12. CASE ReadRemoteSize
      BY <3>12, <1>1 DEF ReadRemoteSize, cli, store, cluster
    <3>13. CASE CopyFromPod
      BY <3>13, <1>1 DEF CopyFromPod, Writes, BreaksOff, cli, store, cluster
    <3>14. CASE DebugContainer
      BY <3>14, <1>1 DEF DebugContainer, BreaksOff, cli, store, cluster
    <3>15. CASE FollowDebugLogs
      BY <3>15, <1>1 DEF FollowDebugLogs, LogBodies, Flush, Writes, cli, store,
           cluster
    <3>16. CASE JDKRemoveDump
      BY <3>16, <1>1 DEF JDKRemoveDump, cli, store, cluster
    <3>17. CASE DebugJobEnds
      BY <3>17, <1>1 DEF DebugJobEnds, PausesJVM, cli, store, cluster
    <3>18. CASE Cancel
      BY <3>18, <1>1 DEF Cancel, cli, store, cluster
    <3>19. CASE Kill
      BY <3>19, <1>1 DEF Kill, Exit, cli, store, cluster
    <3>20. CASE FindDump
      BY <3>20, <1>1 DEF FindDump, Exit, cli, store, cluster
    <3>21. CASE RetrieveDump
      BY <3>21, <1>1 DEF RetrieveDump, Retrieved, Writes, BreaksOff, cli, store,
           cluster
    <3>22. CASE UNCHANGED vars
      BY <3>22, <1>1 DEF vars
    <3>23. CASE RequestDump
      BY <3>23, <1>1 DEF RequestDump, BreaksOff, cli, store, cluster
    <3>24. CASE PodDumps
      BY <3>24, <1>1 DEF PodDumps, PausesJVM, cli, store, cluster
    <3> QED
      BY <1>1, <3>1, <3>2, <3>3, <3>4, <3>5, <3>6, <3>7, <3>8, <3>9, <3>10, <3>11,
           <3>12, <3>13, <3>14, <3>15, <3>16, <3>17, <3>18, <3>19, <3>20, <3>21, <3>22,
           <3>23, <3>24
           DEF Next, LocalStep, ClusterStep
  <2>2. pc = "cleanup" /\ tier = "jattach"
    BY <1>1, <2>1 DEF CleanupRemote, TraceInv, RemoteInv
  <2>3. manifest # <<>> /\ manifest \in Seq(Records)
        /\ manifest[Len(manifest)] = [tier |-> tier, ok |-> TRUE, body |-> file[tier]]
    BY <1>1, <2>2 DEF ResultInv, NoFalseSuccess, IInv, TypeOK
  <2>4. Len(manifest) \in DOMAIN manifest
    BY <2>3
  <2> QED
    BY <2>2, <2>3, <2>4 DEF Recorded
<1>2. ASSUME IInv, ResultInv, TraceInv, [Next]_vars
      PROVE  [\A t \in left \ left' : t = "jattach" =>
                [tier |-> t, ok |-> TRUE, body |-> file[t]] \in Recorded]_vars
  BY <1>1, <1>2
<1> QED
  BY TraceInvariance, <1>2, PTL DEF Spec, DumpKeptUntilValidated

\* Once the context is cancelled or the invocation has ended, no step sends a
\* request for a dump or creates a container, and a JVM is paused only by using
\* up a request or a container that was asked for before.
THEOREM CancelledMeansHarmless == Spec => CancelStopsHarm
<1> DEFINE Harmless == /\ requests' \subseteq requests
                       /\ job' = job \/ job = "running"
                       /\ paused' = paused \/ requests' # requests \/ job' # job
<1>1. ASSUME Next, ctx = "done" \/ pc = "exited" PROVE Harmless
  <2>1. CASE Gate
    BY <2>1, <1>1 DEF Gate, Exit, cli, store, cluster
  <2>2. CASE Resolve
    BY <2>2, <1>1 DEF Resolve, Exit, Explicit, cli, store, cluster
  <2>3. CASE Confirm
    BY <2>3, <1>1 DEF Confirm, Exit, FirstTier, AfterConfirm, cli, store, cluster
  <2>4. CASE OpenArtifact
    BY <2>4, <1>1 DEF OpenArtifact, Entry, cli, store, cluster
  <2>5. CASE Discard
    BY <2>5, <1>1 DEF Discard, cli, store, cluster
  <2>6. CASE ValidateAndRecord
    BY <2>6, <1>1 DEF ValidateAndRecord, cli, store, cluster
  <2>7. CASE TierFailed
    BY <2>7, <1>1 DEF TierFailed, Exit, TiersLeft, TierAfter, cli, store, cluster
  <2>8. CASE FetchActuator
    BY <2>8, <1>1 DEF FetchActuator, Writes, BreaksOff, Answers, cli, store, cluster
  <2>9. CASE PrepareJattach
    BY <2>9, <1>1 DEF PrepareJattach, BreaksOff, cli, store, cluster
  <2>10. CASE JattachThreads
    BY <2>10, <1>1 DEF JattachThreads, Writes, BreaksOff, cli, store, cluster
  <2>11. CASE JattachDumpHeap
    BY <2>11, <1>1 DEF JattachDumpHeap, BreaksOff, cli, store, cluster
  <2>12. CASE ReadRemoteSize
    BY <2>12, <1>1 DEF ReadRemoteSize, cli, store, cluster
  <2>13. CASE CopyFromPod
    BY <2>13, <1>1 DEF CopyFromPod, Writes, BreaksOff, cli, store, cluster
  <2>14. CASE DebugContainer
    BY <2>14, <1>1 DEF DebugContainer, BreaksOff, cli, store, cluster
  <2>15. CASE FollowDebugLogs
    BY <2>15, <1>1 DEF FollowDebugLogs, LogBodies, Flush, Writes, cli, store, cluster
  <2>16. CASE JDKRemoveDump
    BY <2>16, <1>1 DEF JDKRemoveDump, cli, store, cluster
  <2>17. CASE CleanupRemote
    BY <2>17, <1>1 DEF CleanupRemote, Exit, cli, store, cluster
  <2>18. CASE DebugJobEnds
    BY <2>18, <1>1 DEF DebugJobEnds, PausesJVM, cli, store, cluster
  <2>19. CASE Cancel
    BY <2>19, <1>1 DEF Cancel, cli, store, cluster
  <2>20. CASE Kill
    BY <2>20, <1>1 DEF Kill, Exit, cli, store, cluster
  <2>21. CASE FindDump
    BY <2>21, <1>1 DEF FindDump, Exit, cli, store, cluster
  <2>22. CASE RetrieveDump
    BY <2>22, <1>1 DEF RetrieveDump, Retrieved, Writes, BreaksOff, cli, store, cluster
  <2>23. CASE RequestDump
    BY <2>23, <1>1 DEF RequestDump, BreaksOff, cli, store, cluster
  <2>24. CASE PodDumps
    BY <2>24, <1>1 DEF PodDumps, PausesJVM, cli, store, cluster
  <2> QED
    BY <1>1, <2>1, <2>2, <2>3, <2>4, <2>5, <2>6, <2>7, <2>8, <2>9, <2>10, <2>11,
         <2>12, <2>13, <2>14, <2>15, <2>16, <2>17, <2>18, <2>19, <2>20, <2>21, <2>22,
         <2>23, <2>24
         DEF Next, LocalStep, ClusterStep
<1>2. [Next]_vars => [ctx = "done" \/ pc = "exited" => Harmless]_vars
  BY <1>1
<1> QED
  BY <1>2, PTL DEF Spec, CancelStopsHarm
=============================================================================
