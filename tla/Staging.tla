------------------------------ MODULE Staging ------------------------------
(***************************************************************************)
(* The files jdebug copies into pods and the ledger that says whose they   *)
(* are, dumps/remote-artifacts.tsv: JattachAcquirer.prepare and install    *)
(* (core/acquirers.go) and their v1 twin (capture/jattach.sh), push-local  *)
(* (jdebug), recordArtifact (main.go) and record_artifact (lib/common.sh), *)
(* and `jdebug cleanup --confirm` (observe/cleanup.sh).                    *)
(*                                                                         *)
(* An item is one path in one pod of one namespace.  Running what was      *)
(* staged changes neither the file nor the ledger and is left out.         *)
(***************************************************************************)
EXTENDS Naturals, Sequences, FiniteSets

CONSTANTS
  Procs,  \* jdebug processes on one dumps/ directory
  Items,  \* what may be staged: [ns, pod, tool]
  Engine, \* "core" or, with JDEBUG_V1, "v1": who stages jattach
  Faults  \* the combinations of AllFaults that may occur

\* A kubectl call fails; a process dies; a pod is replaced by one of the same
\* name (a StatefulSet), which loses what was staged; a cleanup overlaps with
\* staging, or two processes stage the same item at once.
AllFaults == {"call", "kill", "replace", "overlap"}

ASSUME ProcsAssumption == IsFiniteSet(Procs)
ASSUME ItemsAssumption ==
  IsFiniteSet(Items) /\ \A i \in Items : i.tool \in {"jattach", "local"}
ASSUME EngineAssumption == Engine \in {"core", "v1"}
ASSUME FaultsAssumption == Faults \subseteq SUBSET AllFaults

Rows  == [owned : BOOLEAN, at : Items]

VARIABLES
  faults,   \* the faults that occur in this behaviour
  file,     \* per item: "none", "operator" (not jdebug's, for jattach one that
            \* can be run), "copied", "staged"
  had,      \* the items that were in their pod before jdebug wrote there
  ledger,   \* the rows of remote-artifacts.tsv
  job       \* per process: what it is doing

vars == <<faults, file, had, ledger, job>>

\* A staging process works on one item and will record it as owned or not;
\* a cleanup is at a row and has carried over the rows in kept ($TMP).
StageJobs == [pc : {"probe", "copy", "chmod", "check", "append"}, item : Items,
              owned : BOOLEAN]
CleanJobs == [pc : {"clean"}, row : Nat \ {0}, kept : Seq(Rows)]
Idle      == [pc |-> "idle"]

Init ==
  /\ faults \in Faults
  /\ file \in [Items -> {"none", "operator"}]
  /\ had = {i \in Items : file[i] = "operator"}
  /\ ledger = <<>>
  /\ job = [x \in Procs |-> Idle]

Goto(x, l)      == job' = [job EXCEPT ![x].pc = l]
Records(x, own) == job' = [job EXCEPT ![x].pc = "check", ![x].owned = own]
Ends(x)         == job' = [job EXCEPT ![x] = Idle]
Item(x)         == job[x].item
Fails           == "call" \in faults
Cleaning        == \E x \in Procs : job[x].pc = "clean"
Overlap         == "overlap" \in faults
BeingStaged(i)  == \E x \in Procs : job[x] \in StageJobs /\ Item(x) = i

---------------------------------------------------------------------------
(* Staging.                                                                *)

\* jattach is probed for first; push-local copies over whatever is there.
Stage(x) ==
  /\ job[x] = Idle /\ (Cleaning => Overlap)
  /\ \E i \in Items :
       /\ Overlap \/ ~BeingStaged(i)
       /\ job' = [job EXCEPT ![x] = [pc |-> IF i.tool = "jattach" THEN "probe" ELSE "copy",
                                     item |-> i, owned |-> FALSE]]
  /\ UNCHANGED <<faults, file, had, ledger>>

\* Mutant: what is found is recorded as staged.
ProbeOwns(x) ==
  /\ job[x].pc = "probe"
  /\ \/ file[Item(x)] \in {"operator", "staged"} /\ Records(x, TRUE)
     \/ (file[Item(x)] \in {"none", "copied"} \/ Fails) /\ Goto(x, "copy")
  /\ UNCHANGED <<faults, file, had, ledger>>

\* test -x: any failure of the call reads as "not there".
Probe(x) ==
  /\ job[x].pc = "probe"
  /\ \/ file[Item(x)] \in {"operator", "staged"} /\ Records(x, FALSE)
     \/ (file[Item(x)] \in {"none", "copied"} \/ Fails) /\ Goto(x, "copy")
  /\ UNCHANGED <<faults, file, had, ledger>>

\* kubectl cp; a failing one may leave part of the file.  push-local has no
\* chmod and records at once.
Copy(x) ==
  /\ job[x].pc = "copy"
  /\ LET copied == [file EXCEPT ![Item(x)] = "copied"] IN
       \/ /\ file' = copied
          /\ IF Item(x).tool = "jattach" THEN Goto(x, "chmod") ELSE Records(x, TRUE)
       \/ Fails /\ file' \in {file, copied} /\ Ends(x)
  /\ UNCHANGED <<faults, had, ledger>>

\* If the pod was replaced meanwhile there may be nothing to chmod.
Chmod(x) ==
  /\ job[x].pc = "chmod"
  /\ \/ /\ file[Item(x)] # "none"
        /\ file' = [file EXCEPT ![Item(x)] = IF @ = "copied" THEN "staged" ELSE @]
        /\ Records(x, TRUE)
     \/ (file[Item(x)] = "none" \/ Fails) /\ Ends(x) /\ UNCHANGED file
  /\ UNCHANGED <<faults, had, ledger>>

PodKey(i, j) == i.pod = j.pod \* mutant: the path is not in the key

\* The key of a row.  recordArtifact has the namespace in it; record_artifact,
\* which push-local uses with either engine, has not.
SameKey(i, j) ==
  /\ i.pod = j.pod /\ i.tool = j.tool
  /\ j.tool = "jattach" /\ Engine = "core" => i.ns = j.ns

NeverListed(i) == FALSE \* mutant: no deduplication
Listed(i) == \E k \in DOMAIN ledger : SameKey(ledger[k].at, i)

CheckLedger(x) ==
  /\ job[x].pc = "check"
  /\ IF Listed(Item(x)) THEN Ends(x) ELSE Goto(x, "append")
  /\ UNCHANGED <<faults, file, had, ledger>>

AppendRow(x) ==
  /\ job[x].pc = "append"
  /\ ledger' = Append(ledger, [owned |-> job[x].owned, at |-> Item(x)])
  /\ Ends(x)
  /\ UNCHANGED <<faults, file, had>>

---------------------------------------------------------------------------
(* jdebug cleanup --confirm, one at a time.                                *)

Cleanup(x) ==
  /\ job[x] = Idle /\ ledger # <<>>
  /\ ~Cleaning /\ (Overlap \/ \A y \in Procs : job[y] = Idle)
  /\ job' = [job EXCEPT ![x] = [pc |-> "clean", row |-> 1, kept |-> <<>>]]
  /\ UNCHANGED <<faults, file, had, ledger>>

Row(x)   == ledger[job[x].row]
Drop(x)  == job' = [job EXCEPT ![x].row = @ + 1]
Carry(x) == job' = [job EXCEPT ![x].row = @ + 1, ![x].kept = Append(@, Row(x))]

\* Mutant: a row whose rm failed is dropped.
CleanRowAnyway(x) ==
  /\ job[x].pc = "clean" /\ job[x].row <= Len(ledger)
  /\ \/ /\ Row(x).owned
        /\ file' = [file EXCEPT ![Row(x).at] = IF Fails THEN @ ELSE "none"]
        /\ Drop(x)
     \/ ~Row(x).owned /\ Carry(x) /\ UNCHANGED file
  /\ UNCHANGED <<faults, had, ledger>>

\* One turn of the loop.  rm -f succeeds whoever the file belongs to; a row
\* whose rm failed is carried over.
CleanRow(x) ==
  /\ job[x].pc = "clean" /\ job[x].row <= Len(ledger)
  /\ \/ /\ Row(x).owned
        /\ file' = [file EXCEPT ![Row(x).at] = "none"]
        /\ Drop(x)
     \/ /\ Row(x).owned => Fails
        /\ Carry(x) /\ UNCHANGED file
  /\ UNCHANGED <<faults, had, ledger>>

\* mv $TMP over the ledger, in one step: $TMPDIR is on the same filesystem.
ReplaceLedger(x) ==
  /\ job[x].pc = "clean" /\ job[x].row > Len(ledger)
  /\ ledger' = job[x].kept
  /\ Ends(x)
  /\ UNCHANGED <<faults, file, had>>

---------------------------------------------------------------------------
(* The environment.                                                        *)

Kill(x) ==
  /\ "kill" \in faults /\ job[x] # Idle
  /\ Ends(x)
  /\ UNCHANGED <<faults, file, had, ledger>>

ReplacePod(i) ==
  /\ "replace" \in faults
  /\ \E f \in {"none", "operator"} :
       /\ file' = [file EXCEPT ![i] = f]
       /\ had' = IF f = "operator" THEN had \union {i} ELSE had \ {i}
  /\ UNCHANGED <<faults, ledger, job>>

Next ==
  \/ \E x \in Procs : \/ Stage(x) \/ Probe(x) \/ Copy(x) \/ Chmod(x)
                      \/ CheckLedger(x) \/ AppendRow(x)
                      \/ Cleanup(x) \/ CleanRow(x) \/ ReplaceLedger(x) \/ Kill(x)
  \/ \E i \in Items : ReplacePod(i)

Spec == Init /\ [][Next]_vars

---------------------------------------------------------------------------
(* Properties.                                                             *)

TypeOK ==
  /\ faults \in Faults
  /\ file \in [Items -> {"none", "operator", "copied", "staged"}]
  /\ had \subseteq Items
  /\ ledger \in Seq(Rows)
  /\ Len(ledger) <= Cardinality(Items) * (IF Overlap THEN Cardinality(Procs) ELSE 1)
  /\ job \in [Procs -> StageJobs \union CleanJobs \union {Idle}]

Ours(i)    == file[i] \in {"copied", "staged"}
Rowed(l, i) == \E k \in DOMAIN l : l[k] = [owned |-> TRUE, at |-> i]

\* A row that makes jdebug answerable for a file leaves the ledger only when
\* the file has left the pod, whatever dies or fails in a cleanup that has the
\* ledger to itself (observe/cleanup.sh:50-73).
OwnedRowKeptUntilRemoved ==
  [][~Overlap => \A i \in Items : Rowed(ledger, i) /\ ~Rowed(ledger', i) => ~Ours(i)]_vars

\* The files left in pods that no cleanup will remove.
Stranded == {i \in Items : Ours(i) /\ ~Rowed(ledger, i) /\ ~BeingStaged(i)}

\* Without faults, what any number of processes stage, several at once, is
\* listed as jdebug's own (main.go:464-468).
NothingStranded == faults = {} => Stranded = {}

\* What was there before jdebug and what jdebug looks for before it copies.
\* push-local looks for nothing: it copies over a /tmp/jdebug-local of the
\* operator's and records it as its own (jdebug:471), and cleanup removes it,
\* against the line quoted below.
Spared == {i \in had : i.tool = "jattach"}

\* "will NOT remove: files that existed before this session"
\* (observe/cleanup.sh:41), nor overwrite them.  As long as calls succeed and
\* pods stay, it is so of every jattach, whatever dies or overlaps.
ProbedFilesUntouched ==
  faults \intersect {"call", "replace"} = {} => \A i \in Spared : file[i] = "operator"
=============================================================================
