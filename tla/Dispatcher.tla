----------------------------- MODULE Dispatcher -----------------------------
(***************************************************************************)
(* One `jdebug` command that captures or changes something: the choice of  *)
(* the engine and the gates of the dispatcher (jdebug), the v1 tiers it    *)
(* falls back over (capture/*.sh), and `restart` and `kill`                *)
(* (observe/lifecycle.sh).  The v2 engine, which the dispatcher execs when *)
(* it can, appears only as what it promises: CapturePromise, which Capture *)
(* is shown to implement.                                                  *)
(*                                                                         *)
(* Every v1 tier is a process of its own under `set -e`: it lists the pods *)
(* anew, and a command that fails where the script does not expect it ends *)
(* the script with the exit code of what failed in the pod.                *)
(***************************************************************************)
EXTENDS Naturals, FiniteSets

CONSTANTS
  Pods,   \* the pods of the namespace
  NoPod,  \* "no pod named"
  Stray   \* a word that a script takes for the name of a pod

ASSUME NamesAssumption == {NoPod, Stray} \cap Pods = {} /\ NoPod # Stray
ASSUME PodsAssumption == IsFiniteSet(Pods)

VARIABLES
  req,      \* the command line and the environment it runs in
  pc,       \* where the running process stands
  script,   \* that process: "none" for jdebug itself, a tier, "engine", ...
  target,   \* the pod the running script works on
  matches,  \* the pods it found when it resolved that pod
  file,     \* per tier, its artifact in the session directory
  left,     \* the tiers whose heap dump lies in the pod
  job,      \* the ephemeral JDK container: "none", "running", "ok", "failed"
  harmed,   \* the pods paused, deleted or picked for a rolling restart
  exit,     \* the class of the exit code, "none" while jdebug runs
  grant, verdicts, outcome \* the engine: see CapturePromise

cli     == <<req, exit>>
aim     == <<script, target, matches>>
traces  == <<file, left, job, harmed>>
engine  == <<grant, verdicts, outcome>>
vars    == <<req, pc, script, target, matches, file, left, job, harmed, exit,
             grant, verdicts, outcome>>

Tiers      == {"actuator", "jattach", "jdk"}
Lifecycle  == {"restart", "kill"}
Body       == {"absent", "empty", "junk", "cut", "whole"}
RemoteCode == {"failed", "target"} \* a failing remote command chooses 1 or 2

\* `core` is what resolve_core_binary says of the engine, `v1` is JDEBUG_V1,
\* `unsigned` a sign-off that JDEBUG_REQUIRE_DATA_ACK asks for and nobody gave.
Requests == [verb : {"threads", "heap", "fetch-heap"} \union Lifecycle,
             via : Tiers \union {"auto", "unknown"}, pod : Pods \union {NoPod},
             confirm : BOOLEAN, json : BOOLEAN, v1 : BOOLEAN, unsigned : BOOLEAN,
             core : {"verified", "absent", "corrupt"}]

Heap        == req.verb = "heap"
Destructive == req.verb \in {"heap"} \union Lifecycle
FirstTier   == IF req.via = "auto" THEN "actuator" ELSE req.via
TierAfter   == IF script = "actuator" THEN "jattach" ELSE "jdk"

ReadsAbsent == req.verb = "fetch-heap" /\ req.core = "corrupt" /\ ~req.v1 \* mutant
Unverified  == req.core = "corrupt" /\ ~req.v1
Unsigned    == Heap /\ req.unsigned

Engine == INSTANCE CapturePromise WITH harmed <- harmed

Init ==
  /\ req \in Requests
  /\ pc = "preflight" /\ script = "none" /\ exit = "none"
  /\ target = NoPod /\ matches = {}
  /\ file = [t \in Tiers |-> "absent"] /\ left = {} /\ job = "none" /\ harmed = {}
  /\ grant = NoPod /\ verdicts = {} /\ outcome = "none"

---------------------------------------------------------------------------
(* The dispatcher: one engine, and the gates of the v1 cascade.            *)

Exit(code) == pc' = "exited" /\ exit' = code

\* check_cluster comes first; restart and kill check in their own script.
Preflight ==
  /\ pc = "preflight"
  /\ \/ Exit(IF req.verb \in Lifecycle THEN "failed" ELSE "cluster") /\ UNCHANGED script
     \/ /\ req.verb \in Lifecycle
        /\ script' = "lifecycle" /\ pc' = "resolve" /\ UNCHANGED exit
     \/ /\ req.verb \notin Lifecycle
        /\ pc' = "choose" /\ UNCHANGED <<script, exit>>
  /\ UNCHANGED <<req, target, matches, traces, engine>>

\* require_core_ok, then the engine if there is one; fetch-heap has no v1.
ChooseEngine ==
  /\ pc = "choose"
  /\ \/ /\ Unverified
        /\ Exit("unverified") /\ UNCHANGED script
     \/ /\ req.core = "verified" /\ (~req.v1 \/ req.verb = "fetch-heap")
        /\ script' = "engine" /\ pc' = "engine" /\ UNCHANGED exit
     \/ /\ ~Unverified
        /\ req.core # "verified" \/ (req.v1 /\ req.verb # "fetch-heap")
        /\ IF req.verb = "fetch-heap" THEN Exit("failed") ELSE pc' = "gates" /\ UNCHANGED exit
        /\ UNCHANGED script
  /\ UNCHANGED <<req, target, matches, traces, engine>>

\* A step of the engine.  Its token is minted only for a confirmed heap, and
\* only for the pod that was named, if one was (Capture, NeverPauseGuessed).
EngineStep ==
  /\ script = "engine" /\ pc \in {"engine", "exited"}
  /\ Engine!Next
  /\ grant' # grant => Heap /\ req.confirm /\ (req.pod # NoPod => grant' = req.pod)
  /\ IF outcome' = outcome THEN UNCHANGED <<pc, exit>>
     ELSE Exit(IF outcome' # "refused" THEN outcome'
               ELSE IF (Heap /\ ~req.confirm) \/ req.via = "unknown" THEN "usage"
               ELSE "target")
  /\ UNCHANGED <<req, aim, file, left, job>>

\* capture(): --confirm, then heap_data_gate, then the first tier.
Gates ==
  /\ pc = "gates"
  /\ \/ Heap /\ ~req.confirm /\ Exit("usage") /\ UNCHANGED script
     \/ (Heap => req.confirm) /\ Unsigned /\ Exit("unsigned") /\ UNCHANGED script
     \/ /\ (Heap => req.confirm) /\ ~Unsigned
        /\ IF req.via = "unknown" THEN Exit("usage") /\ UNCHANGED script
           ELSE script' = FirstTier /\ pc' = "resolve" /\ UNCHANGED exit
  /\ UNCHANGED <<req, target, matches, traces, engine>>

---------------------------------------------------------------------------
(* What the scripts share.                                                 *)

\* A script ends.  Code 2 stops the cascade, another failure starts the next
\* tier, and a cascade whose last tier fails returns 1, whatever that code was.
Ends(code) ==
  IF req.via = "auto" /\ script \in {"actuator", "jattach"} /\ code \notin {"ok", "target"}
  THEN script' = TierAfter /\ pc' = "resolve" /\ UNCHANGED exit
  ELSE /\ Exit(IF req.via = "auto" /\ script = "jdk" /\ code # "ok" THEN "failed" ELSE code)
       /\ UNCHANGED script

\* Where a script goes once it has its pod.
Entry == CASE script = "actuator"  -> "fetch"
           [] script = "jattach"   -> "prepare"
           [] script = "jdk"       -> "debug"
           [] script = "lifecycle" -> "confirm"

\* Only actuator.sh knows --json: the others may take it for the pod's name.
Names == IF req.json /\ script # "actuator"
         THEN {req.pod, Stray} \ {NoPod}
         ELSE {req.pod} \ {NoPod}

\* Mutant: several matches pass once a tier has had a pod.
FirstOnly(found) == Destructive /\ target = NoPod /\ Cardinality(found) > 1
Guesses(found)   == Destructive /\ Cardinality(found) > 1

\* resolve_one_pod: a name is taken as it stands, otherwise the first pod
\* listed, unless the verb is destructive and several match.
ResolvePod ==
  /\ pc = "resolve"
  /\ \/ \E name \in Names :
          /\ target' = name /\ matches' = {name}
          /\ pc' = Entry /\ UNCHANGED <<script, exit>>
     \/ \E found \in SUBSET Pods :
          /\ Names = {} /\ ~Guesses(found)
          /\ matches' = found /\ target' \in found
          /\ pc' = Entry /\ UNCHANGED <<script, exit>>
     \/ /\ Names = {} \* the listing failed, matched nothing, or too many
        /\ Ends("target") /\ UNCHANGED <<target, matches>>
  /\ UNCHANGED <<req, traces, engine>>

Writes(body) == file' = [file EXCEPT ![script] = body]
Harms        == harmed' = harmed \union {target}
Reached      == target # Stray \* no call into a pod that does not exist succeeds

\* grep of the marker, or of the hprof magic: it stands at the head of a file.
Marked(body) == body \in {"cut", "whole"}

---------------------------------------------------------------------------
(* capture/actuator.sh.                                                    *)

\* A failing exec takes its file with it; a file without its marker is kept.
FetchActuator ==
  /\ pc = "fetch"
  /\ \/ \E b \in {"empty", "junk", "cut", "whole"} :
          /\ Writes(b)
          /\ IF Heap /\ Marked(b) THEN Harms ELSE UNCHANGED harmed
          /\ Ends(IF Marked(b) THEN "ok" ELSE "failed")
     \/ /\ (Heap /\ Harms) \/ UNCHANGED harmed
        /\ Writes("absent") /\ Ends("failed")
  /\ UNCHANGED <<req, target, matches, left, job, engine>>

---------------------------------------------------------------------------
(* capture/jattach.sh.                                                     *)

\* install_jattach (see Staging) and find_jvm_pid.  cp, chmod and uname end
\* the script with the code of what failed in the pod; JDEBUG_NO_STAGE, a pod
\* without tar or a place to write, and a bad checksum end it with 1.
PrepareJattach ==
  /\ pc = "prepare"
  /\ \/ Reached /\ pc' = (IF Heap THEN "dumpheap" ELSE "print") /\ UNCHANGED <<script, exit>>
     \/ \E code \in RemoteCode : Ends(code)
  /\ UNCHANGED <<req, target, matches, traces, engine>>

\* The redirection has created the file when the exec fails: it stays.
PrintThreads ==
  /\ pc = "print"
  /\ \/ \E b \in {"empty", "junk", "cut", "whole"} :
          Writes(b) /\ Ends(IF Marked(b) THEN "ok" ELSE "failed")
     \/ \E b \in {"empty", "cut"}, code \in RemoteCode : Writes(b) /\ Ends(code)
  /\ UNCHANGED <<req, target, matches, left, job, harmed, engine>>

DumpHeap ==
  /\ pc = "dumpheap"
  /\ \/ /\ Harms /\ left' = left \union {"jattach"}
        /\ \/ pc' = "size" /\ UNCHANGED <<script, exit>>
           \/ \E code \in RemoteCode : Ends(code)
     \/ \E code \in RemoteCode : Ends(code) /\ UNCHANGED <<left, harmed>>
  /\ UNCHANGED <<req, target, matches, file, job, engine>>

\* pipefail and errexit: a size that cannot be read ends the script.
ReadSize ==
  /\ pc = "size"
  /\ \/ pc' = "copy" /\ UNCHANGED <<script, exit>>
     \/ \E code \in RemoteCode : Ends(code)
  /\ UNCHANGED <<req, target, matches, traces, engine>>

\* Mutants: the in-pod dump is removed before the copy is compared with it;
\* the magic is enough.
RemoveThenCompare(b) == left' \in {left, left \ {"jattach"}} /\ Ends(IF b = "whole" THEN "ok" ELSE "failed")
MagicOnly(b) ==
  IF Marked(b) THEN left' \in {left, left \ {"jattach"}} /\ Ends("ok")
               ELSE UNCHANGED left /\ Ends("failed")

\* Magic and size, and only then the rm of the in-pod dump, which may fail.
CheckCopy(b) ==
  IF b = "whole" THEN left' \in {left, left \ {"jattach"}} /\ Ends("ok")
                 ELSE UNCHANGED left /\ Ends("failed")

CopyFromPod ==
  /\ pc = "copy"
  /\ \/ \E b \in {"empty", "cut", "whole"} : Writes(b) /\ CheckCopy(b)
     \/ /\ \E b \in {"absent", "cut"} : Writes(b)
        /\ \E code \in RemoteCode : Ends(code)
        /\ UNCHANGED left
  /\ UNCHANGED <<req, target, matches, job, harmed, engine>>

---------------------------------------------------------------------------
(* capture/jdk-threads.sh and capture/jdk-heap.sh.                         *)

DebugContainer ==
  /\ pc = "debug"
  /\ \/ Reached /\ job' = "running" /\ pc' = "follow" /\ UNCHANGED <<script, exit>>
     \/ \E code \in RemoteCode :
          job' \in (IF Reached THEN {"running", job} ELSE {job}) /\ Ends(code)
  /\ UNCHANGED <<req, target, matches, file, left, harmed, engine>>

\* The container runs on its own, whatever becomes of the script.
JobEnds ==
  /\ job = "running"
  /\ \/ /\ job' = "ok"
        /\ IF Heap THEN Harms /\ left' = left \union {"jdk"} ELSE UNCHANGED <<harmed, left>>
     \/ job' = "failed" /\ UNCHANGED <<harmed, left>>
  /\ UNCHANGED <<req, pc, aim, file, exit, engine>>

\* What up to ten reads of the container's log leave in the file.
LogBodies == IF job = "ok" THEN {"whole", "cut"}
             ELSE IF job = "failed" THEN {"junk"} ELSE {"empty", "junk", "cut"}

\* A heap goes on when the log says that jmap wrote the dump; threads need a
\* read that ended well and a marker, and otherwise leave no file.
FollowLogs ==
  /\ pc = "follow"
  /\ IF Heap
     THEN /\ \/ job = "ok" /\ pc' = "copyjdk" /\ UNCHANGED <<script, exit>>
             \/ Ends("failed")
          /\ UNCHANGED file
     ELSE \/ \E b \in LogBodies : Marked(b) /\ Writes(b) /\ Ends("ok")
          \/ Writes("absent") /\ Ends("failed")
  /\ UNCHANGED <<req, target, matches, left, job, harmed, engine>>

\* The dump is removed from the pod before its copy is looked at.
CopyJDKDump ==
  /\ pc = "copyjdk"
  /\ \/ \E b \in {"empty", "cut", "whole"} :
          /\ Writes(b) /\ left' \in {left, left \ {"jdk"}}
          /\ Ends(IF Marked(b) THEN "ok" ELSE "failed")
     \/ /\ \E b \in {"absent", "cut"} : Writes(b)
        /\ \E code \in RemoteCode : Ends(code)
        /\ UNCHANGED left
  /\ UNCHANGED <<req, target, matches, job, harmed, engine>>

---------------------------------------------------------------------------
(* observe/lifecycle.sh.                                                   *)

\* restart needs a readable pod and its Deployment before it asks; both verbs
\* say what will happen and stop there without --confirm.
ConfirmChange ==
  /\ pc = "confirm"
  /\ \/ req.confirm /\ pc' = "change" /\ UNCHANGED exit
     \/ ~req.confirm /\ Exit("usage")
     \/ req.verb = "restart" /\ \E code \in {"failed", "cluster"} : Exit(code)
  /\ UNCHANGED <<req, aim, traces, engine>>

\* kubectl may fail after the API server has taken the change.
Change ==
  /\ pc = "change"
  /\ \/ Reached /\ Harms /\ Exit("ok")
     \/ Reached /\ Harms /\ Exit("failed")
     \/ Exit("failed") /\ UNCHANGED harmed
  /\ UNCHANGED <<req, aim, file, left, job, engine>>

---------------------------------------------------------------------------
\* Ctrl-C or SIGKILL ends jdebug and its script; the engine has a Die of its own.
Kill ==
  /\ pc \notin {"engine", "exited"}
  /\ Exit("killed")
  /\ UNCHANGED <<req, aim, traces, engine>>

Next ==
  \/ Preflight \/ ChooseEngine \/ EngineStep \/ Gates \/ ResolvePod
  \/ FetchActuator
  \/ PrepareJattach \/ PrintThreads \/ DumpHeap \/ ReadSize \/ CopyFromPod
  \/ DebugContainer \/ JobEnds \/ FollowLogs \/ CopyJDKDump
  \/ ConfirmChange \/ Change
  \/ Kill

Spec == Init /\ [][Next]_vars

---------------------------------------------------------------------------
(* Properties.                                                             *)

TypeOK ==
  /\ req \in Requests
  /\ pc \in {"preflight", "choose", "engine", "gates", "resolve", "fetch", "prepare",
             "print", "dumpheap", "size", "copy", "debug", "follow", "copyjdk",
             "confirm", "change", "exited"}
  /\ script \in Tiers \union {"none", "engine", "lifecycle"}
  /\ target \in Pods \union {NoPod, Stray} /\ matches \in SUBSET (Pods \union {Stray})
  /\ file \in [Tiers -> Body] /\ left \in SUBSET Tiers
  /\ job \in {"none", "running", "ok", "failed"}
  /\ harmed \in SUBSET Pods
  /\ exit \in {"none", "ok", "failed", "target", "cluster", "usage", "unsigned",
               "unverified", "killed"}
  /\ grant \in Pods \union {NoPod} /\ verdicts \in SUBSET BOOLEAN
  /\ outcome \in {"none", "refused", "ok", "failed", "killed"}

\* A v1 tier, restart or kill touches a pod only for a confirmed request, and
\* only the pod that was named or the only one its own script had found: the
\* tiers list the pods one after the other, while pods come and go.  The
\* engine pauses only what its token covers.  No v1 heap dump is taken without
\* the sign-off the environment asks for (jdebug:130-138, common.sh:219-245,
\* 298-313, lifecycle.sh:91-98).
HarmIsAuthorised ==
  [][\A p \in harmed' \ harmed :
       /\ p \in Pods /\ req.verb \notin {"threads", "fetch-heap"} /\ req.confirm
       /\ req.pod \in {p, NoPod}
       /\ IF script = "engine" THEN p = grant
          ELSE /\ p = target /\ matches = {p}
               /\ ~(req.verb = "heap" /\ req.unsigned)]_vars

\* A refusal - a missing flag, sign-off or cluster, an engine that failed its
\* checksum - has touched neither a pod nor the disk; and such an engine is
\* neither run nor quietly replaced by the tiers (jdebug:127-139, 186-203,
\* common.sh:422-427).
RefusedBeforeAnything ==
  /\ exit \in {"usage", "unsigned", "unverified", "cluster"} =>
       /\ harmed = {} /\ left = {} /\ job = "none" /\ verdicts = {}
       /\ \A t \in Tiers : file[t] = "absent"
  /\ req.core = "corrupt" /\ ~req.v1 => script \in {"none", "lifecycle"}

\* 0 means that the last process did what was asked: the engine recorded a
\* good verdict, the tier's file carries its marker and, where the size was
\* compared, is whole, or the pod was changed (docs/cli.md:68-76).
SuccessIsBacked ==
  exit = "ok" =>
    CASE script = "engine"    -> TRUE \in verdicts
      [] script = "lifecycle" -> target \in harmed
      [] script \in Tiers     -> /\ file[script] \in {"cut", "whole"}
                                 /\ Heap /\ script = "jattach" => file[script] = "whole"

\* The jattach tier removes a dump from the pod only when the local copy is
\* whole (jattach.sh:269-290).
KeptUntilWhole ==
  [][\A t \in left \ left' : t = "jattach" => file'[t] = "whole"]_vars
=============================================================================
