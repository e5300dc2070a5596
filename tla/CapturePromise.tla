--------------------------- MODULE CapturePromise ---------------------------
(***************************************************************************)
(* What one invocation of the capture engine promises its operator,        *)
(* without tiers, kubectl calls or files (core/cluster.go, package         *)
(* comment): a capture cannot claim success before its validator passed,   *)
(* and a destructive operation cannot run against an ambiguous target.     *)
(* Capture is shown to implement this specification.                       *)
(***************************************************************************)
CONSTANTS Pods, NoPod

VARIABLES
  grant,    \* the pod the operator's confirmation covers, NoPod if none
  harmed,   \* the pods whose JVM this invocation paused
  verdicts, \* the verdicts recorded so far: a set of BOOLEAN
  outcome   \* "none" while it runs, then "refused", "ok", "failed", "killed"

vars == <<grant, harmed, verdicts, outcome>>

Init ==
  /\ grant = NoPod
  /\ harmed = {}
  /\ verdicts = {}
  /\ outcome = "none"

\* The operator's request is bound to one pod, once and for all.
Grant(p) ==
  /\ outcome = "none" /\ grant = NoPod
  /\ grant' = p
  /\ UNCHANGED <<harmed, verdicts, outcome>>

\* A JVM pauses; it may do so even after the invocation has ended, because a
\* request in the pod and an ephemeral container go on without who asked for them.
Harm(p) ==
  /\ p = grant
  /\ harmed' = harmed \union {p}
  /\ UNCHANGED <<grant, verdicts, outcome>>

\* No verdict follows a good one: the invocation stops at its first success.
Record(good) ==
  /\ outcome = "none" /\ TRUE \notin verdicts
  /\ verdicts' = verdicts \union {good}
  /\ UNCHANGED <<grant, harmed, outcome>>

\* Nothing is refused once it has been granted.
Refuse ==
  /\ outcome = "none" /\ grant = NoPod /\ harmed = {} /\ verdicts = {}
  /\ outcome' = "refused"
  /\ UNCHANGED <<grant, harmed, verdicts>>

Succeed ==
  /\ outcome = "none" /\ TRUE \in verdicts
  /\ outcome' = "ok"
  /\ UNCHANGED <<grant, harmed, verdicts>>

Fail ==
  /\ outcome = "none" /\ TRUE \notin verdicts
  /\ outcome' = "failed"
  /\ UNCHANGED <<grant, harmed, verdicts>>

Die ==
  /\ outcome = "none"
  /\ outcome' = "killed"
  /\ UNCHANGED <<grant, harmed, verdicts>>

Next ==
  \/ \E p \in Pods : Grant(p) \/ Harm(p)
  \/ \E good \in BOOLEAN : Record(good)
  \/ Refuse \/ Succeed \/ Fail \/ Die

Spec == Init /\ [][Next]_vars
=============================================================================
