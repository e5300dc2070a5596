----------------------------- MODULE EvidenceLog -----------------------------
(***************************************************************************)
(* What the evidence store promises (core/manifest.go, "the truth lives in *)
(* manifest.json"): a log of verdicts that only grows, by one record per   *)
(* capture, in which every capture the operator was told about can be      *)
(* found with the verdict he was told.  No directory, no temporary file,   *)
(* no crash in the middle of a write.  EvidenceStore implements it.        *)
(***************************************************************************)
EXTENDS Sequences

CONSTANT Runs

VARIABLES
  log,   \* a sequence of [run, ok]
  answer \* per run: "open", "ok" or "invalid" once told, "other" otherwise

vars == <<log, answer>>

Init == log = <<>> /\ answer = [r \in Runs |-> "open"]

In(r, ok) == \E i \in DOMAIN log : log[i] = [run |-> r, ok |-> ok]

Record(r, ok) ==
  /\ answer[r] = "open" /\ ~In(r, TRUE) /\ ~In(r, FALSE)
  /\ log' = Append(log, [run |-> r, ok |-> ok])
  /\ UNCHANGED answer

Tell(r, ok) ==
  /\ answer[r] = "open" /\ In(r, ok)
  /\ answer' = [answer EXCEPT ![r] = IF ok THEN "ok" ELSE "invalid"]
  /\ UNCHANGED log

\* The run failed, died or promises nothing.
Close(r) ==
  /\ answer[r] = "open"
  /\ answer' = [answer EXCEPT ![r] = "other"]
  /\ UNCHANGED log

Next == \E r \in Runs : Close(r) \/ \E ok \in BOOLEAN : Record(r, ok) \/ Tell(r, ok)

Spec == Init /\ [][Next]_vars
=============================================================================
