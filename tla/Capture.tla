------------------------------ MODULE Capture ------------------------------
(***************************************************************************)
(* One invocation of jdebug-core for `threads`, `heap` or `fetch-heap`:    *)
(* the gates and the exit code of core/cmd/jdebug-core/main.go, target     *)
(* resolution (core/target.go), the acquire -> validate -> store pipeline  *)
(* (core/capture.go), the three tiers (core/acquirers.go) and the dump a   *)
(* dying JVM left behind (core/fetchheap.go), here the tier "oncrash".     *)
(*                                                                         *)
(* Data is abstracted to what the properties tell apart.  A captured file  *)
(* is one of Body: "junk" stands for a login page or an error body, "cut"  *)
(* for a capture that lost its tail but kept its header, "doubled" for the *)
(* same dump written twice, "odd" for one that has another length than it  *)
(* had when it was listed.  Every kubectl call may fail; once the context  *)
(* is cancelled no call is started any more (exec.CommandContext).         *)
(***************************************************************************)
EXTENDS Naturals, Sequences, FiniteSets

CONSTANTS
  Pods,           \* the pods of the namespace
  NoPod,          \* "no pod named", "nothing resolved"
  MaxLogAttempts  \* followDebugLogs' retry budget (30 in the code)

ASSUME PodsAssumption == NoPod \notin Pods
ASSUME AttemptsAssumption == MaxLogAttempts \in Nat \ {0}

VARIABLES
  req,       \* the parsed command line, and the disk it is to write to
  pc,        \* where the invocation stands
  target,    \* the resolved pod
  confirmed, \* the pod of the Confirmed token, NoPod while none was minted
  matches,   \* every pod the selector matched
  tier,      \* the tier that runs
  file,      \* per tier, its artifact in the session directory
  expected,  \* the in-pod size the tier read: "known", "unknown", or "partial",
             \* that of a dump the JVM was still writing or had died over
  manifest,  \* the records appended to manifest.json
  remote,    \* what the tier's error or token says of the in-pod dump
  attempts,  \* log reads followDebugLogs has lost so far
  job,       \* the ephemeral JDK container: "none", "running" from the moment
             \* the API server is asked for it, "ok", "failed"
  requests,  \* the tiers whose request for a dump goes on in the pod
  left,      \* the tiers whose heap dump is known to lie in the pod
  told,      \* the tiers whose in-pod dump the operator was told of
  paused,    \* the pods whose JVM was paused for a dump
  ctx,       \* "done" once Ctrl-C, SIGTERM or JDEBUG_TIMEOUT cancelled it
  exit       \* "none" | "ok" 0 | "failed" 1 | "target" 2 | "usage" 64 | "killed"

vars == <<req, pc, target, confirmed, matches, tier, file, expected, manifest,
          remote, attempts, job, requests, left, told, paused, ctx, exit>>
cli     == <<req, target, confirmed, matches>>
store   == <<file, manifest>>
cluster == <<job, requests, left, paused>>

Tiers == {"actuator", "jattach", "jdk", "oncrash"}
Body  == {"absent", "empty", "junk", "cut", "whole", "doubled", "odd"}
Sizes == {"unknown", "known", "partial"}

Requests == [verb : {"threads", "heap", "fetch"},
             via : {"actuator", "jattach", "jdk", "auto", "unknown"},
             confirm : BOOLEAN, json : BOOLEAN, pod : Pods \union {NoPod},
             disk : {"sound", "failing"}]
Records == [tier : Tiers, ok : BOOLEAN, body : Body]

Heap      == req.verb = "heap"
Fetch     == req.verb = "fetch"
Explicit  == req.pod # NoPod

\* Opening the session or writing the manifest may fail.
DiskMayFail == req.disk = "failing"

NoMatchOnly == ~Explicit /\ matches = {} \* mutant: several matches pass
Ambiguous == ~Explicit /\ matches # {target}
FirstTier == IF Fetch THEN "oncrash"
             ELSE IF req.via = "auto" THEN "actuator" ELSE req.via
TiersLeft == ~Fetch /\ req.via = "auto" /\ tier # "jdk"
TierAfter == IF tier = "actuator" THEN "jattach" ELSE "jdk"

\* The pod a tier works on: RunDestructive takes it from the Confirmed token.
Victim == IF Heap THEN confirmed ELSE target

Init ==
  /\ req \in Requests
  /\ pc = "gate" /\ exit = "none" /\ ctx = "live"
  /\ target = NoPod /\ confirmed = NoPod /\ matches = {}
  /\ tier = "actuator" /\ expected = "unknown" /\ remote = "unset"
  /\ file = [t \in Tiers |-> "absent"] /\ manifest = <<>>
  /\ attempts = 0 /\ job = "none" /\ requests = {}
  /\ left = {} /\ told = {} /\ paused = {}

---------------------------------------------------------------------------
(* Validators.  acquirer() pairs each tier with the format it produces.    *)

Validator == IF Heap \/ Fetch THEN "hprof"
             ELSE IF req.json /\ tier = "actuator" THEN "json" ELSE "text"
Format    == IF Heap \/ Fetch THEN "hprof"
             ELSE IF req.json /\ tier = "actuator" THEN "json" ELSE "text"

\* Mutant: the size is never compared.
HeadOnly(body) == Validator = Format /\ body \in {"whole", "cut", "doubled"}

\* The magic or the marker stands at the head of a file, so a cut one still
\* passes unless the size is known; a cut JSON document does not parse.
Valid(body) ==
  /\ Validator = Format
  /\ body \in {"whole", "cut", "doubled"}
  /\ Validator = "hprof" /\ expected = "known" => body = "whole"
  /\ Validator = "hprof" /\ expected = "partial" => body = "cut"
  /\ Validator = "json" => body = "whole"

---------------------------------------------------------------------------
(* The command line: gates, resolution, confirmation.                      *)

Exit(code) == pc' = "exited" /\ exit' = code

Gate ==
  /\ pc = "gate"
  /\ IF req.via = "unknown" \/ (Heap /\ ~req.confirm)
     THEN Exit("usage")
     ELSE pc' = "resolve" /\ UNCHANGED exit
  /\ UNCHANGED <<cli, tier, store, expected, remote, attempts, cluster, told, ctx>>

\* A named pod is not verified; otherwise the first pod listed is taken.
Resolve ==
  /\ pc = "resolve"
  /\ \/ /\ Explicit
        /\ target' = req.pod /\ matches' = {req.pod}
        /\ pc' = "confirm" /\ UNCHANGED exit
     \/ /\ ~Explicit /\ ctx = "live"
        /\ matches' \in SUBSET Pods /\ target' \in matches'
        /\ pc' = "confirm" /\ UNCHANGED exit
     \/ /\ ~Explicit \* the listing failed or matched nothing
        /\ Exit("target") /\ UNCHANGED <<target, matches>>
  /\ UNCHANGED <<req, confirmed, tier, store, expected, remote, attempts, cluster,
                 told, ctx>>

AfterConfirm == IF Fetch THEN "find" ELSE "open"

\* Mutant: the artifact is opened before the target is confirmed.
OpenThenConfirm ==
  /\ pc = "confirm"
  /\ file' = [file EXCEPT ![FirstTier] = "empty"]
  /\ IF Heap /\ Ambiguous
     THEN Exit("target") /\ UNCHANGED <<confirmed, tier>>
     ELSE /\ confirmed' = IF Heap THEN target ELSE NoPod
          /\ tier' = FirstTier
          /\ pc' = AfterConfirm /\ UNCHANGED exit
  /\ UNCHANGED <<req, target, matches, manifest, expected, remote, attempts, cluster,
                 told, ctx>>

\* Only `heap` needs a token: the other verbs take the first match as it is.
Confirm ==
  /\ pc = "confirm"
  /\ IF Heap /\ Ambiguous
     THEN Exit("target") /\ UNCHANGED <<confirmed, tier>>
     ELSE /\ confirmed' = IF Heap THEN target ELSE NoPod
          /\ tier' = FirstTier
          /\ pc' = AfterConfirm /\ UNCHANGED exit
  /\ UNCHANGED <<req, target, matches, store, expected, remote, attempts, cluster,
                 told, ctx>>

---------------------------------------------------------------------------
(* The pipeline around Acquire.                                            *)

Entry == CASE tier = "actuator" -> "fetch"
           [] tier = "jattach"  -> "prepare"
           [] tier = "jdk"      -> "debug"
           [] tier = "oncrash"  -> "retrieve"

\* Session + manifest, then the artifact is created empty.
OpenArtifact ==
  /\ pc = "open"
  /\ \/ file' = [file EXCEPT ![tier] = "empty"] /\ pc' = Entry
     \/ DiskMayFail /\ pc' = "failed" /\ UNCHANGED file
  /\ UNCHANGED <<cli, tier, expected, manifest, remote, attempts, cluster, told,
                 ctx, exit>>

\* Mutants: the half-written artifact stays; the in-pod dump goes with it.
KeepPartial ==
  /\ pc = "discard" /\ pc' = "failed"
  /\ UNCHANGED <<cli, tier, store, expected, remote, attempts, cluster, told, ctx, exit>>

DiscardRemoteToo ==
  /\ pc = "discard" /\ pc' = "failed"
  /\ file' = [file EXCEPT ![tier] = "absent"]
  /\ left' = left \ {tier}
  /\ UNCHANGED <<cli, tier, manifest, expected, remote, attempts, job, requests,
                 paused, told, ctx, exit>>

\* Acquire failed: nothing half-written stays behind, nothing is recorded.
Discard ==
  /\ pc = "discard"
  /\ file' = [file EXCEPT ![tier] = "absent"]
  /\ pc' = "failed"
  /\ UNCHANGED <<cli, tier, expected, manifest, remote, attempts, cluster, told,
                 ctx, exit>>

\* The verdict is recorded either way; only a good one lets main go on to
\* announce the capture.
ValidateAndRecord ==
  /\ pc = "validate"
  /\ LET ok == Valid(file[tier]) IN
       \/ /\ manifest' = Append(manifest, [tier |-> tier, ok |-> ok, body |-> file[tier]])
          /\ pc' = IF ok THEN "cleanup" ELSE "failed"
       \/ DiskMayFail /\ pc' = "failed" /\ UNCHANGED manifest
  /\ UNCHANGED <<cli, tier, file, expected, remote, attempts, cluster, told,
                 ctx, exit>>

\* Mutant: a failing rm fails the capture.
CleanupFailureFails ==
  /\ pc = "cleanup"
  /\ \/ remote = "pending" /\ ctx = "live" /\ left' = left \ {"jattach"} /\ Exit("ok")
     \/ remote = "pending" /\ UNCHANGED left /\ Exit("failed")
     \/ remote # "pending" /\ UNCHANGED left /\ Exit("ok")
  /\ UNCHANGED <<cli, tier, store, expected, remote, attempts, job, requests, paused,
                 told, ctx>>

\* Success is printed, then the jattach tier's in-pod dump is removed; a
\* failing rm is ignored.
CleanupRemote ==
  /\ pc = "cleanup"
  /\ \/ remote = "pending" /\ ctx = "live" /\ left' = left \ {"jattach"}
     \/ UNCHANGED left
  /\ Exit("ok")
  /\ UNCHANGED <<cli, tier, store, expected, remote, attempts, job, requests, paused,
                 told, ctx>>

\* Mutant: the hints are left to the last error.
TierFailedQuietly ==
  /\ pc = "failed"
  /\ told' = IF remote = "unset" \/ TiersLeft THEN told ELSE told \union {tier}
  /\ IF TiersLeft
     THEN /\ tier' = TierAfter /\ expected' = "unknown" /\ remote' = "unset"
          /\ pc' = "open" /\ UNCHANGED exit
     ELSE Exit("failed") /\ UNCHANGED <<tier, expected, remote>>
  /\ UNCHANGED <<cli, store, attempts, cluster, ctx>>

\* The tier's error is printed; the cascade goes on or gives up.
TierFailed ==
  /\ pc = "failed"
  /\ told' = IF remote = "unset" THEN told ELSE told \union {tier}
  /\ IF TiersLeft
     THEN /\ tier' = TierAfter /\ expected' = "unknown" /\ remote' = "unset"
          /\ pc' = "open" /\ UNCHANGED exit
     ELSE Exit("failed") /\ UNCHANGED <<tier, expected, remote>>
  /\ UNCHANGED <<cli, store, attempts, cluster, ctx>>

---------------------------------------------------------------------------
(* What a kubectl call does to the invocation.  A call that fails may have  *)
(* failed because the context was cancelled while it ran; what it had      *)
(* started in the pod is not undone.                                       *)

Writes(body) == file' = [file EXCEPT ![tier] = body]
BreaksOff    == pc' = "discard" /\ ctx' \in {ctx, "done"}
PausesJVM    == paused' = paused \union {Victim}

\* Mutant: the exec does not run under the context.
DetachedExec ==
  /\ pc = "dumpheap" \/ (pc = "fetch" /\ Heap)
  /\ requests' = requests \union {tier} /\ pc' = "dumping" /\ UNCHANGED ctx
  /\ UNCHANGED <<cli, tier, store, expected, remote, attempts, job, left, paused,
                 told, exit>>

\* The exec of `jattach dumpheap`, or of the fetch of /heapdump, reaches the
\* pod.  From then on the request goes on by itself: CommandContext kills the
\* local kubectl and nothing else (acquirers.go:69, 182).
RequestDump ==
  /\ pc = "dumpheap" \/ (pc = "fetch" /\ Heap)
  /\ \/ ctx = "live" /\ requests' = requests \union {tier} /\ pc' = "dumping"
        /\ UNCHANGED ctx
     \/ BreaksOff /\ UNCHANGED requests
  /\ UNCHANGED <<cli, tier, store, expected, remote, attempts, job, left, paused,
                 told, exit>>

\* The pod acts on a request, whatever has become of the invocation meanwhile:
\* the JVM pauses and writes its dump, or the request comes to nothing.
PodDumps ==
  /\ \E t \in requests :
       /\ requests' = requests \ {t}
       /\ \/ PausesJVM /\ left' = left \union ({t} \ {"actuator"})
          \/ UNCHANGED <<left, paused>>
  /\ UNCHANGED <<cli, pc, tier, store, expected, remote, attempts, job, told, ctx, exit>>

\* What an answer that ended without an error may hold: for a heap the start of
\* the dump, or all of it, only if the JVM wrote one.  The actuator is the first
\* tier, so its pod has been paused exactly if its dump was taken.
Answers == IF ~Heap THEN {"empty", "junk", "cut", "whole"}
           ELSE IF Victim \in paused THEN {"empty", "cut", "whole"}
           ELSE {"empty", "junk"}

FetchActuator ==
  /\ \/ pc = "fetch" /\ ~Heap
     \/ pc = "dumping" /\ tier = "actuator"
  /\ \/ \E b \in Answers :
          /\ ctx = "live" /\ tier \notin requests /\ Writes(b)
          /\ pc' = "validate" /\ UNCHANGED ctx
     \/ /\ BreaksOff
        /\ \/ Heap /\ Victim \in paused /\ Writes("cut")
           \/ UNCHANGED file
  /\ UNCHANGED <<cli, tier, expected, manifest, remote, attempts, cluster, told, exit>>

\* test -x, or install (arch, checksum, cp, chmod, probe); then the JVM's pid.
PrepareJattach ==
  /\ pc = "prepare"
  /\ \/ ctx = "live" /\ pc' = (IF Heap THEN "dumpheap" ELSE "jcmd") /\ UNCHANGED ctx
     \/ BreaksOff
  /\ UNCHANGED <<cli, tier, store, expected, remote, attempts, cluster, told, exit>>

JattachThreads ==
  /\ pc = "jcmd"
  /\ \/ \E b \in {"empty", "junk", "cut", "whole"} :
          ctx = "live" /\ Writes(b) /\ pc' = "validate" /\ UNCHANGED ctx
     \/ BreaksOff /\ UNCHANGED file
  /\ UNCHANGED <<cli, tier, expected, manifest, remote, attempts, cluster, told, exit>>

\* The exec returns once the dump is written; it may break off before, and
\* after the JVM began to write.
JattachDumpHeap ==
  /\ pc = "dumping" /\ tier = "jattach"
  /\ \/ ctx = "live" /\ tier \in left \ requests /\ pc' = "size" /\ UNCHANGED ctx
     \/ BreaksOff
  /\ UNCHANGED <<cli, tier, store, expected, remote, attempts, cluster, told, exit>>

\* wc -c in the pod; unreadable only degrades the validation to the magic.
ReadRemoteSize ==
  /\ pc = "size"
  /\ \/ expected' = "unknown"
     \/ ctx = "live" /\ expected' = "known"
  /\ pc' = "copy"
  /\ UNCHANGED <<cli, tier, store, remote, attempts, cluster, told, ctx, exit>>

\* kubectl cp can truncate without an error.  A failure names the in-pod
\* path; only the jattach tier remembers it after a success.
CopyFromPod ==
  /\ pc = "copy"
  /\ \/ \E b \in {"empty", "cut", "whole"} :
          /\ ctx = "live" /\ Writes(b)
          /\ IF tier = "jattach"
             THEN remote' = "pending" /\ pc' = "validate"
             ELSE pc' = "remove" /\ UNCHANGED remote
          /\ UNCHANGED ctx
     \/ Writes("cut") /\ remote' = "named" /\ BreaksOff
  /\ UNCHANGED <<cli, tier, expected, manifest, attempts, cluster, told, exit>>

---------------------------------------------------------------------------
(* The JDK tier: an ephemeral container that runs on its own.              *)

DebugContainer ==
  /\ pc = "debug"
  /\ \/ ctx = "live" /\ job' = "running" /\ pc' = "follow" /\ UNCHANGED ctx
     \/ ctx = "live" /\ job' = "running" /\ BreaksOff
     \/ BreaksOff /\ UNCHANGED job
  /\ attempts' = 0
  /\ UNCHANGED <<cli, tier, store, expected, remote, requests, left, paused, told, exit>>

\* jstack or jmap ends, whatever has become of the invocation meanwhile.
DebugJobEnds ==
  /\ job = "running"
  /\ \/ /\ job' = "ok"
        /\ IF Heap THEN PausesJVM /\ left' = left \union {"jdk"}
                   ELSE UNCHANGED <<left, paused>>
     \/ job' = "failed" /\ UNCHANGED <<left, paused>>
  /\ UNCHANGED <<cli, pc, tier, store, expected, remote, attempts, requests, told,
                 ctx, exit>>

\* What a read of the container's log that ended without an error may hold.
LogBodies == IF job = "ok" THEN {"whole", "cut"}
             ELSE IF job = "failed" THEN {"junk"} ELSE {"empty", "junk", "cut"}

Flush(body) == IF file[tier] = "empty" THEN Writes(body) ELSE Writes("doubled")

AttemptsLeft == attempts + 1 < MaxLogAttempts

\* Each attempt has a buffer of its own, and only the successful one is
\* flushed; for a heap the log must say that jmap succeeded.
FollowDebugLogs ==
  /\ pc = "follow"
  /\ \/ ctx = "done" /\ pc' = "discard" /\ UNCHANGED <<file, attempts>>
     \/ /\ ctx = "live" \* the stream broke off
        /\ attempts' = attempts + 1
        /\ pc' = IF AttemptsLeft THEN "follow" ELSE "discard"
        /\ UNCHANGED file
     \/ \E b \in LogBodies :
          /\ ctx = "live"
          /\ IF Heap
             THEN /\ pc' = IF job = "ok" /\ b = "whole" THEN "size" ELSE "discard"
                  /\ UNCHANGED file
             ELSE Flush(b) /\ pc' = "validate"
          /\ UNCHANGED attempts
  /\ UNCHANGED <<cli, tier, expected, manifest, remote, cluster, told, ctx, exit>>

\* rm -f of the in-pod dump, its outcome ignored.
JDKRemoveDump ==
  /\ pc = "remove"
  /\ \/ ctx = "live" /\ left' = left \ {"jdk"}
     \/ UNCHANGED left
  /\ pc' = "validate"
  /\ UNCHANGED <<cli, tier, store, expected, remote, attempts, job, requests,
                 paused, told, ctx, exit>>

---------------------------------------------------------------------------
(* fetch-heap: the newest dump that the pod holds.                         *)

\* One find in the pod, with the size of each dump where it can be read.  A
\* pod spec that cannot be read only narrows the search; a search that fails
\* or finds nothing ends it.  The paths are printed before the copy.
FindDump ==
  /\ pc = "find"
  /\ \/ /\ ctx = "live" /\ expected' \in Sizes
        /\ left' = left \union {"oncrash"} /\ told' = told \union {"oncrash"}
        /\ pc' = "open" /\ UNCHANGED exit
     \/ Exit("failed") /\ UNCHANGED <<expected, left, told>>
  /\ UNCHANGED <<cli, tier, store, remote, attempts, job, requests, paused, ctx>>

\* What a copy that ended without an error may be: the JVM may have gone on
\* writing the dump after it was listed.
Retrieved == IF expected = "partial" THEN {"empty", "cut", "odd"}
                                     ELSE {"empty", "cut", "whole"}

\* The dump in the pod is not removed, whatever becomes of the copy.
RetrieveDump ==
  /\ pc = "retrieve"
  /\ \/ \E b \in Retrieved :
          /\ ctx = "live" /\ Writes(b)
          /\ pc' = "validate" /\ UNCHANGED <<remote, ctx>>
     \/ Writes("cut") /\ remote' = "named" /\ BreaksOff
  /\ UNCHANGED <<cli, tier, expected, manifest, attempts, cluster, told, exit>>

---------------------------------------------------------------------------
(* Ctrl-C, SIGTERM and JDEBUG_TIMEOUT cancel the context; a second Ctrl-C  *)
(* or SIGKILL ends the process where it stands.                            *)

\* Mutant: the timeout starts after the target is resolved.
TimeoutAfterResolve ==
  /\ pc \notin {"gate", "resolve", "exited"} /\ ctx = "live"
  /\ ctx' = "done"
  /\ UNCHANGED <<cli, pc, tier, store, expected, remote, attempts, cluster, told, exit>>

Cancel ==
  /\ pc \notin {"gate", "exited"} /\ ctx = "live"
  /\ ctx' = "done"
  /\ UNCHANGED <<cli, pc, tier, store, expected, remote, attempts, cluster, told, exit>>

Kill ==
  /\ pc # "exited"
  /\ Exit("killed")
  /\ UNCHANGED <<cli, tier, store, expected, remote, attempts, cluster, told, ctx>>

\* Steps that touch only the process and its disk, and steps that wait for
\* a kubectl call.
LocalStep == \/ Gate \/ Confirm \/ OpenArtifact \/ Discard
             \/ ValidateAndRecord \/ TierFailed
ClusterStep == \/ Resolve \/ RequestDump \/ FetchActuator \/ PrepareJattach
               \/ JattachThreads \/ JattachDumpHeap \/ ReadRemoteSize \/ CopyFromPod
               \/ DebugContainer \/ FollowDebugLogs \/ JDKRemoveDump \/ CleanupRemote
               \/ FindDump \/ RetrieveDump

Next == LocalStep \/ ClusterStep \/ PodDumps \/ DebugJobEnds \/ Cancel \/ Kill

Spec == Init /\ [][Next]_vars

\* A kubectl call may hang for ever unless the context is cancelled; with
\* JDEBUG_TIMEOUT set it eventually is, and CommandContext kills the call.
BudgetSpec == /\ Spec
              /\ WF_vars(Cancel)
              /\ WF_vars(LocalStep)
              /\ WF_vars(ctx = "done" /\ ClusterStep)

---------------------------------------------------------------------------
(* Properties.                                                             *)

TypeOK ==
  /\ req \in Requests
  /\ pc \in {"gate", "resolve", "confirm", "open", "fetch", "prepare", "jcmd",
             "dumpheap", "dumping", "size", "copy", "debug", "follow", "remove",
             "discard", "validate", "cleanup", "failed", "exited", "find", "retrieve"}
  /\ target \in Pods \union {NoPod} /\ confirmed \in Pods \union {NoPod}
  /\ matches \in SUBSET Pods
  /\ tier \in Tiers
  /\ file \in [Tiers -> Body]
  /\ expected \in Sizes /\ ctx \in {"live", "done"}
  /\ manifest \in Seq(Records)
  /\ remote \in {"unset", "pending", "named"}
  /\ attempts \in 0..MaxLogAttempts
  /\ job \in {"none", "running", "ok", "failed"}
  /\ requests \in SUBSET Tiers
  /\ left \in SUBSET Tiers /\ told \in SUBSET Tiers
  /\ paused \in SUBSET Pods
  /\ exit \in {"none", "ok", "failed", "target", "usage", "killed"}

Recorded == {manifest[i] : i \in DOMAIN manifest}
Good     == {r \in Recorded : r.ok}

\* A JVM is paused only for a heap capture that was confirmed, and only in a
\* pod the operator named or that was the only match; an ambiguous request
\* never pauses a guessed replica, on any tier, after any fallback
\* (target.go:70-78, main.go:216-269).
NeverPauseGuessed ==
  \A p \in paused : /\ Heap /\ req.confirm /\ p = target
                    /\ Explicit \/ matches = {p}

\* "wrote ..." is printed and 0 returned only for a capture that the last
\* record of the manifest calls good, that is on disk as recorded, is not an
\* error page, was not written twice, and is whole if its size could be known
\* (capture.go:17-21, acquirers.go:469-473).
NoFalseSuccess ==
  pc = "cleanup" \/ exit = "ok" =>
    /\ manifest # <<>>
    /\ manifest[Len(manifest)] = [tier |-> tier, ok |-> TRUE, body |-> file[tier]]
    /\ \/ file[tier] = "whole"
       \/ file[tier] = "cut" /\ (expected = "known" => Validator # "hprof")

\* Exit code 1 means that no tier the request allows produced a good capture:
\* a good verdict is never followed by another tier or by a failure
\* (main.go:385-411).
FailureMeansNoGoodCapture ==
  /\ exit = "failed" => Good = {} /\ ~TiersLeft
  /\ Good # {} => pc = "cleanup" \/ exit \in {"ok", "killed"}

\* A refusal (exit codes 2 and 64) has touched neither a pod nor the disk.
RefusalIsHarmless ==
  exit \in {"usage", "target"} =>
    /\ paused = {} /\ left = {} /\ job = "none" /\ requests = {} /\ manifest = <<>>
    /\ \A t \in Tiers : file[t] = "absent"

\* With a sound disk, every file an ended invocation leaves behind has
\* a record that describes it, and every record has its file (capture.go:94-116).
EveryFileAccountedFor ==
  ~DiskMayFail /\ exit \in {"ok", "failed"} =>
    \A t \in Tiers :
      {r.body : r \in {q \in Recorded : q.tier = t}} = {file[t]} \ {"absent"}

\* The operator is told only of in-pod dumps that are still there, and of the
\* one behind every copy of the jattach tier or of fetch-heap that was
\* rejected, even if a later tier succeeds (main.go:315-321, 355-362).
RejectedCopyIsNamed ==
  /\ told \subseteq left
  /\ exit \in {"ok", "failed"} /\ req.verb # "threads" =>
       \A r \in Recorded : r.tier \in {"jattach", "oncrash"} /\ ~r.ok => r.tier \in told

\* The jattach tier's in-pod dump is removed only when the local copy is on
\* disk with a good verdict (acquirers.go:197-200, 284-290).
DumpKeptUntilValidated ==
  [][\A t \in left \ left' : t = "jattach" =>
       [tier |-> t, ok |-> TRUE, body |-> file[t]] \in Recorded]_vars

\* Once the context is cancelled, or the invocation has ended, it asks for
\* nothing more: no tier sends a request for a dump, no container is created,
\* and a JVM is still paused only by a request or a container that was asked for
\* before, each of them once (main.go:228-245).  That such a pause may still
\* come is the code's behaviour: nothing is called back from the pod.
CancelStopsHarm ==
  [][ctx = "done" \/ pc = "exited" =>
       /\ requests' \subseteq requests
       /\ job' = job \/ job = "running"
       /\ paused' = paused \/ requests' # requests \/ job' # job]_vars

\* With JDEBUG_TIMEOUT set, no hanging kubectl call keeps an invocation from
\* ending (main.go:234-236, docs/configuration.md:41).
BudgetBoundsRun == <>(pc = "exited")

\* The invocation implements CapturePromise.
Promise == INSTANCE CapturePromise WITH
  grant    <- confirmed,
  harmed   <- paused,
  verdicts <- {r.ok : r \in Recorded},
  outcome  <- IF exit \in {"usage", "target"} THEN "refused" ELSE exit

\* The tiers, their fallbacks and their failures are invisible behind the
\* promise: one grant, harm only where granted, no verdict after a good one,
\* success only after a good verdict, refusal only before any harm.
ImplementsPromise == Promise!Spec
=============================================================================
