--------------------------- MODULE StagingProofs ---------------------------
(***************************************************************************)
(* Proofs about Staging, for any processes, items and faults: what cleanup *)
(* may take from the ledger and from the pods, and, while nothing fails,   *)
(* that nothing staged is forgotten.                                       *)
(***************************************************************************)
EXTENDS Staging, FiniteSetTheorems, TLAPS

AtWork == {"probe", "copy", "chmod", "check", "append"}
Jobs   == StageJobs \union CleanJobs \union {Idle}

\* The types, without the bound on the ledger that TypeOK adds.
Typed ==
  /\ faults \in SUBSET AllFaults
  /\ file \in [Items -> {"none", "operator", "copied", "staged"}]
  /\ had \subseteq Items
  /\ ledger \in Seq(Rows)
  /\ job \in [Procs -> Jobs]

\* A cleanup that does not overlap is alone.
AloneInv ==
  ~Overlap => \A x, y \in Procs : job[x].pc = "clean" /\ y # x => job[y] = Idle

Holds(rows, r) == \E k \in DOMAIN rows : rows[k] = r

\* What such a cleanup has dropped so far is no longer in the pod.
KeptInv ==
  ~Overlap => \A x \in Procs : job[x].pc = "clean" =>
    \A k \in DOMAIN ledger : k < job[x].row =>
      Holds(job[x].kept, ledger[k]) \/ (ledger[k].owned /\ ~Ours(ledger[k].at))

\* While calls succeed and pods stay, nobody claims or touches a jattach that
\* was there before.
HandsOff(x, i) ==
  /\ job[x].pc = "clean" => ~Rowed(job[x].kept, i)
  /\ job[x].pc \in AtWork /\ job[x].item = i =>
       job[x].pc \in {"probe", "check", "append"} /\ job[x].owned = FALSE
Foreign(i) ==
  /\ file[i] = "operator" /\ i.tool = "jattach" /\ ~Rowed(ledger, i)
  /\ \A x \in Procs : HandsOff(x, i)
Gentle == faults \intersect {"call", "replace"} = {}
HadInv == Gentle => \A i \in Spared : Foreign(i)

\* Without faults each item has one process that stages it, and is listed as
\* jdebug's own as soon as that process is through with it.
Busy(i) == \E x \in Procs : job[x].pc \in AtWork /\ job[x].item = i
OneStager ==
  \A x, y \in Procs :
    job[x].pc \in AtWork /\ job[y].pc \in AtWork /\ job[x].item = job[y].item => x = y
RowsOwned(rows) == \A k \in DOMAIN rows : rows[k].at \notin Spared => rows[k].owned = TRUE
Claims(x) ==
  /\ job[x].pc = "clean" => RowsOwned(job[x].kept)
  /\ job[x].pc = "probe" => job[x].item.tool = "jattach"
  /\ job[x].pc \in AtWork /\ job[x].item \notin Spared =>
       /\ job[x].pc \in {"probe", "copy"} /\ Ours(job[x].item) => Rowed(ledger, job[x].item)
       /\ job[x].pc = "check" => job[x].owned = TRUE \/ Rowed(ledger, job[x].item)
       /\ job[x].pc = "append" => job[x].owned = TRUE
Covered(i) == /\ file[i] = "operator" /\ i.tool = "jattach" => i \in Spared
              /\ Ours(i) => Busy(i) \/ Rowed(ledger, i)
StageInv ==
  faults = {} => /\ OneStager /\ RowsOwned(ledger)
                 /\ \A x \in Procs : Claims(x)
                 /\ \A i \in Items : Covered(i)

\* Every key names one item: no two namespaces have a pod of one name, or the
\* engine is v2 and push-local is used in one of them.
KeysIdentify == \A i, j \in Items : SameKey(i, j) => i = j

-----------------------------------------------------------------------------
\* What the program counter says of a job.
LEMMA Kinds ==
  ASSUME Typed, NEW x \in Procs
  PROVE  /\ job[x].pc \in AtWork <=> job[x] \in StageJobs
         /\ job[x].pc = "clean" <=> job[x] \in CleanJobs
         /\ job[x].pc = "idle" <=> job[x] = Idle
         /\ job[x].pc \in AtWork \union {"clean", "idle"}
         /\ job[x].pc \in AtWork =>
              /\ job[x].item \in Items /\ job[x].owned \in BOOLEAN
              /\ job[x] = [pc |-> job[x].pc, item |-> job[x].item, owned |-> job[x].owned]
         /\ job[x].pc = "clean" =>
              /\ job[x].row \in Nat \ {0} /\ job[x].kept \in Seq(Rows)
              /\ job[x] = [pc |-> "clean", row |-> job[x].row, kept |-> job[x].kept]
<1>1. job[x] \in Jobs
  BY DEF Typed
<1>2. CASE job[x] \in StageJobs
  BY <1>2 DEF StageJobs, CleanJobs, Idle, AtWork
<1>3. CASE job[x] \in CleanJobs
  BY <1>3 DEF StageJobs, CleanJobs, Idle, AtWork
<1>4. CASE job[x] = Idle
  BY <1>4 DEF StageJobs, CleanJobs, Idle, AtWork
<1> QED
  BY <1>1, <1>2, <1>3, <1>4 DEF Jobs

\* A step of x leaves the other jobs alone and gives x a job.
Moves(x) == job' \in [Procs -> Jobs] /\ \A y \in Procs : y # x => job'[y] = job[y]

\* A job given to x is a move of x.
LEMMA MovesTo ==
  ASSUME Typed, NEW x \in Procs, NEW j \in Jobs, job' = [job EXCEPT ![x] = j]
  PROVE  Moves(x) /\ job'[x] = j
  BY DEF Moves, Typed

\* The updates of a staging job.
LEMMA GotoJob ==
  ASSUME Typed, NEW x \in Procs, job[x].pc \in AtWork, NEW l \in AtWork, Goto(x, l)
  PROVE  /\ Moves(x) /\ job'[x].pc = l
         /\ job'[x].item = job[x].item /\ job'[x].owned = job[x].owned
<1> DEFINE j == [pc |-> l, item |-> job[x].item, owned |-> job[x].owned]
<1>1. j \in Jobs
  BY Kinds DEF Jobs, StageJobs, AtWork
<1>2. job[x] = [pc |-> job[x].pc, item |-> job[x].item, owned |-> job[x].owned]
  BY Kinds
<1>3. [job[x] EXCEPT !.pc = l] = j
  BY <1>2
<1>4. job' = [job EXCEPT ![x] = [job[x] EXCEPT !.pc = l]]
  BY DEF Goto
<1>5. job' = [job EXCEPT ![x] = j]
  BY <1>3, <1>4
<1> QED
  <2>1. Moves(x) /\ job'[x] = j
    BY <1>1, <1>5, MovesTo
  <2> QED
    BY <2>1

\* From now on x has the outcome of its staging to record.
LEMMA RecordsJob ==
  ASSUME Typed, NEW x \in Procs, job[x].pc \in AtWork, NEW own \in BOOLEAN, Records(x, own)
  PROVE  /\ Moves(x) /\ job'[x].pc = "check"
         /\ job'[x].item = job[x].item /\ job'[x].owned = own
<1> DEFINE j == [pc |-> "check", item |-> job[x].item, owned |-> own]
<1>1. j \in Jobs
  BY Kinds DEF Jobs, StageJobs
<1>2. job[x] = [pc |-> job[x].pc, item |-> job[x].item, owned |-> job[x].owned]
  BY Kinds
<1>3. [job[x] EXCEPT !.pc = "check", !.owned = own] = j
  <2>1. [job[x] EXCEPT !.pc = "check"]
          = [pc |-> "check", item |-> job[x].item, owned |-> job[x].owned]
    BY <1>2
  <2>2. [[pc |-> "check", item |-> job[x].item, owned |-> job[x].owned] EXCEPT !.owned = own] = j
    OBVIOUS
  <2> QED
    BY <2>1, <2>2, Zenon
<1>4. job' = [job EXCEPT ![x] = [job[x] EXCEPT !.pc = "check", !.owned = own]]
  BY DEF Records
<1>5. job' = [job EXCEPT ![x] = j]
  BY <1>3, <1>4
<1> QED
  <2>1. Moves(x) /\ job'[x] = j
    BY <1>1, <1>5, MovesTo
  <2> QED
    BY <2>1

\* x is through.
LEMMA EndsJob ==
  ASSUME Typed, NEW x \in Procs, Ends(x)
  PROVE  Moves(x) /\ job'[x] = Idle /\ job'[x].pc = "idle"
<1>1. Idle \in Jobs /\ Idle.pc = "idle"
  BY DEF Jobs, Idle
<1> QED
  BY <1>1, MovesTo DEF Ends

\* The updates of a cleanup.
LEMMA DropJob ==
  ASSUME Typed, NEW x \in Procs, job[x].pc = "clean", Drop(x)
  PROVE  /\ Moves(x) /\ job'[x].pc = "clean"
         /\ job'[x].row = job[x].row + 1 /\ job'[x].kept = job[x].kept
<1> DEFINE j == [pc |-> "clean", row |-> job[x].row + 1, kept |-> job[x].kept]
<1>0. job[x].row \in Nat \ {0} /\ job[x].kept \in Seq(Rows)
  BY Kinds
<1>1. j \in Jobs
  BY <1>0 DEF Jobs, CleanJobs
<1>2. job[x] = [pc |-> "clean", row |-> job[x].row, kept |-> job[x].kept]
  BY Kinds
<1>3. [job[x] EXCEPT !.row = @ + 1] = j
  BY <1>2
<1>4. job' = [job EXCEPT ![x] = [job[x] EXCEPT !.row = @ + 1]]
  BY DEF Drop
<1>5. job' = [job EXCEPT ![x] = j]
  BY <1>3, <1>4
<1> QED
  <2>1. Moves(x) /\ job'[x] = j
    BY <1>1, <1>5, MovesTo
  <2> QED
    BY <2>1

\* The row is carried over.
LEMMA CarryJob ==
  ASSUME Typed, NEW x \in Procs, job[x].pc = "clean", Row(x) \in Rows, Carry(x)
  PROVE  /\ Moves(x) /\ job'[x].pc = "clean"
         /\ job'[x].row = job[x].row + 1 /\ job'[x].kept = Append(job[x].kept, Row(x))
<1> DEFINE j == [pc |-> "clean", row |-> job[x].row + 1, kept |-> Append(job[x].kept, Row(x))]
<1>0. job[x].row \in Nat \ {0} /\ job[x].kept \in Seq(Rows)
  BY Kinds
<1>1. j \in Jobs
  BY <1>0 DEF Jobs, CleanJobs
<1>2. job[x] = [pc |-> "clean", row |-> job[x].row, kept |-> job[x].kept]
  BY Kinds
<1>3. [job[x] EXCEPT !.row = job[x].row + 1, !.kept = Append(job[x].kept, Row(x))] = j
  <2>1. [job[x] EXCEPT !.row = job[x].row + 1]
          = [pc |-> "clean", row |-> job[x].row + 1, kept |-> job[x].kept]
    BY <1>2
  <2>2. [[pc |-> "clean", row |-> job[x].row + 1, kept |-> job[x].kept]
           EXCEPT !.kept = Append(job[x].kept, Row(x))] = j
    OBVIOUS
  <2> QED
    BY <2>1, <2>2, Zenon
<1>4. job' = [job EXCEPT ![x] = [job[x] EXCEPT !.row = job[x].row + 1,
                                             !.kept = Append(job[x].kept, Row(x))]]
  BY DEF Carry
<1>5. job' = [job EXCEPT ![x] = j]
  BY <1>3, <1>4
<1> QED
  <2>1. Moves(x) /\ job'[x] = j
    BY <1>1, <1>5, MovesTo
  <2> QED
    BY <2>1

-----------------------------------------------------------------------------
\* The actions, job by job.
LEMMA StageEffect ==
  ASSUME Typed, NEW x \in Procs, Stage(x)
  PROVE  /\ Moves(x) /\ UNCHANGED <<faults, file, had, ledger>>
         /\ job[x] = Idle /\ (Cleaning => Overlap)
         /\ job'[x].item \in Items /\ (Overlap \/ ~BeingStaged(job'[x].item))
         /\ job'[x].pc = (IF job'[x].item.tool = "jattach" THEN "probe" ELSE "copy")
         /\ job'[x].owned = FALSE
<1>1. PICK i \in Items :
        /\ Overlap \/ ~BeingStaged(i)
        /\ job' = [job EXCEPT ![x] = [pc |-> IF i.tool = "jattach" THEN "probe" ELSE "copy",
                                      item |-> i, owned |-> FALSE]]
  BY DEF Stage
<1> DEFINE j == [pc |-> IF i.tool = "jattach" THEN "probe" ELSE "copy",
                 item |-> i, owned |-> FALSE]
<1>2. j \in Jobs
  BY DEF Jobs, StageJobs
<1>3. Moves(x) /\ job'[x] = j
  BY <1>1, <1>2, MovesTo
<1>4. j.pc = (IF i.tool = "jattach" THEN "probe" ELSE "copy") /\ j.item = i /\ j.owned = FALSE
  OBVIOUS
<1> HIDE DEF j
<1> QED
  BY <1>1, <1>3, <1>4 DEF Stage

\* test -x finds the file, or not.
LEMMA ProbeEffect ==
  ASSUME Typed, NEW x \in Procs, Probe(x)
  PROVE  /\ Moves(x) /\ UNCHANGED <<faults, file, had, ledger>>
         /\ job[x].pc = "probe" /\ job[x].item \in Items
         /\ job'[x].item = job[x].item
         /\ \/ /\ file[job[x].item] \in {"operator", "staged"}
               /\ job'[x].pc = "check" /\ job'[x].owned = FALSE
            \/ /\ file[job[x].item] \in {"none", "copied"} \/ Fails
               /\ job'[x].pc = "copy"
<1>1. job[x].pc = "probe" /\ UNCHANGED <<faults, file, had, ledger>>
  BY DEF Probe
<1>2. job[x].pc \in AtWork /\ job[x].item \in Items
  BY <1>1, Kinds DEF AtWork
<1>3. CASE file[Item(x)] \in {"operator", "staged"} /\ Records(x, FALSE)
  BY <1>1, <1>2, <1>3, RecordsJob DEF Item
<1>4. CASE (file[Item(x)] \in {"none", "copied"} \/ Fails) /\ Goto(x, "copy")
  BY <1>1, <1>2, <1>4, GotoJob DEF Item, AtWork
<1> QED
  BY <1>3, <1>4 DEF Probe

\* kubectl cp.
LEMMA CopyEffect ==
  ASSUME Typed, NEW x \in Procs, Copy(x)
  PROVE  /\ Moves(x) /\ UNCHANGED <<faults, had, ledger>>
         /\ job[x].pc = "copy" /\ job[x].item \in Items
         /\ \/ /\ file' = [file EXCEPT ![job[x].item] = "copied"]
               /\ job'[x].item = job[x].item
               /\ \/ job'[x].pc = "chmod"
                  \/ job'[x].pc = "check" /\ job'[x].owned = TRUE
            \/ /\ Fails /\ job'[x].pc = "idle"
               /\ file' \in {file, [file EXCEPT ![job[x].item] = "copied"]}
<1>1. job[x].pc = "copy" /\ UNCHANGED <<faults, had, ledger>>
  BY DEF Copy
<1>2. job[x].pc \in AtWork /\ job[x].item \in Items
  BY <1>1, Kinds DEF AtWork
<1>3. CASE file' = [file EXCEPT ![Item(x)] = "copied"] /\ Goto(x, "chmod")
  BY <1>1, <1>2, <1>3, GotoJob DEF Item, AtWork
<1>4. CASE file' = [file EXCEPT ![Item(x)] = "copied"] /\ Records(x, TRUE)
  BY <1>1, <1>2, <1>4, RecordsJob DEF Item
<1>5. CASE Fails /\ file' \in {file, [file EXCEPT ![Item(x)] = "copied"]} /\ Ends(x)
  BY <1>1, <1>2, <1>5, EndsJob DEF Item
<1> QED
  BY <1>3, <1>4, <1>5 DEF Copy

\* chmod; nothing to do for a file that was replaced.
LEMMA ChmodEffect ==
  ASSUME Typed, NEW x \in Procs, Chmod(x)
  PROVE  /\ Moves(x) /\ UNCHANGED <<faults, had, ledger>>
         /\ job[x].pc = "chmod" /\ job[x].item \in Items
         /\ file' \in [Items -> {"none", "operator", "copied", "staged"}]
         /\ \A i \in Items : i # job[x].item => file'[i] = file[i]
         /\ \/ /\ job'[x].item = job[x].item /\ job'[x].pc = "check" /\ job'[x].owned = TRUE
               /\ file[job[x].item] = "copied" => file'[job[x].item] = "staged"
               /\ file[job[x].item] # "copied" => file'[job[x].item] = file[job[x].item]
            \/ /\ file[job[x].item] = "none" \/ Fails
               /\ job'[x].pc = "idle" /\ UNCHANGED file
<1>1. job[x].pc = "chmod" /\ UNCHANGED <<faults, had, ledger>>
  BY DEF Chmod
<1>2. job[x].pc \in AtWork /\ job[x].item \in Items
  BY <1>1, Kinds DEF AtWork
<1>3. CASE /\ file' = [file EXCEPT ![Item(x)] = IF @ = "copied" THEN "staged" ELSE @]
           /\ Records(x, TRUE)
  BY <1>1, <1>2, <1>3, RecordsJob DEF Item, Typed
<1>4. CASE (file[Item(x)] = "none" \/ Fails) /\ Ends(x) /\ UNCHANGED file
  BY <1>1, <1>2, <1>4, EndsJob DEF Item, Typed
<1> QED
  BY <1>3, <1>4 DEF Chmod

\* The ledger is read.
LEMMA CheckEffect ==
  ASSUME Typed, NEW x \in Procs, CheckLedger(x)
  PROVE  /\ Moves(x) /\ UNCHANGED <<faults, file, had, ledger>>
         /\ job[x].pc = "check" /\ job[x].item \in Items
         /\ \/ Listed(job[x].item) /\ job'[x].pc = "idle"
            \/ /\ ~Listed(job[x].item) /\ job'[x].pc = "append"
               /\ job'[x].item = job[x].item /\ job'[x].owned = job[x].owned
<1>1. job[x].pc = "check" /\ UNCHANGED <<faults, file, had, ledger>>
  BY DEF CheckLedger
<1>2. job[x].pc \in AtWork /\ job[x].item \in Items
  BY <1>1, Kinds DEF AtWork
<1>3. CASE Listed(Item(x)) /\ Ends(x)
  BY <1>1, <1>2, <1>3, EndsJob DEF Item
<1>4. CASE ~Listed(Item(x)) /\ Goto(x, "append")
  BY <1>1, <1>2, <1>4, GotoJob DEF Item, AtWork
<1> QED
  BY <1>3, <1>4 DEF CheckLedger

\* A row is added.
LEMMA AppendEffect ==
  ASSUME Typed, NEW x \in Procs, AppendRow(x)
  PROVE  /\ Moves(x) /\ UNCHANGED <<faults, file, had>>
         /\ job[x].pc = "append" /\ job'[x].pc = "idle"
         /\ job[x].item \in Items /\ job[x].owned \in BOOLEAN
         /\ ledger' = Append(ledger, [owned |-> job[x].owned, at |-> job[x].item])
<1>1. job[x].pc = "append" /\ Ends(x) /\ UNCHANGED <<faults, file, had>>
      /\ ledger' = Append(ledger, [owned |-> job[x].owned, at |-> job[x].item])
  BY DEF AppendRow, Item
<1> QED
  BY <1>1, EndsJob, Kinds DEF AtWork

\* A cleanup starts.
LEMMA CleanupEffect ==
  ASSUME Typed, NEW x \in Procs, Cleanup(x)
  PROVE  /\ Moves(x) /\ UNCHANGED <<faults, file, had, ledger>>
         /\ job[x] = Idle /\ job'[x].pc = "clean"
         /\ job'[x].row = 1 /\ job'[x].kept = <<>>
         /\ Overlap \/ \A y \in Procs : job[y] = Idle
<1> DEFINE j == [pc |-> "clean", row |-> 1, kept |-> <<>>]
<1>1. j \in Jobs
  BY DEF Jobs, CleanJobs
<1>2. Moves(x) /\ job'[x] = j
  BY <1>1, MovesTo DEF Cleanup
<1> QED
  BY <1>2 DEF Cleanup

\* A row is dropped after its rm, or carried over.
LEMMA CleanRowEffect ==
  ASSUME Typed, NEW x \in Procs, CleanRow(x)
  PROVE  /\ Moves(x) /\ UNCHANGED <<faults, had, ledger>>
         /\ job[x].pc = "clean" /\ job'[x].pc = "clean"
         /\ job[x].row \in 1..Len(ledger) /\ Row(x) \in Rows
         /\ job'[x].row = job[x].row + 1
         /\ \/ /\ Row(x).owned /\ job'[x].kept = job[x].kept
               /\ file' = [file EXCEPT ![Row(x).at] = "none"]
            \/ /\ Row(x).owned => Fails
               /\ job'[x].kept = Append(job[x].kept, Row(x)) /\ UNCHANGED file
<1>1. job[x].pc = "clean" /\ job[x].row <= Len(ledger) /\ UNCHANGED <<faults, had, ledger>>
  BY DEF CleanRow
<1>2. job[x].row \in 1..Len(ledger)
  BY <1>1, Kinds DEF Typed
<1>3. Row(x) \in Rows
  BY <1>2 DEF Typed, Row
<1>4. CASE Row(x).owned /\ file' = [file EXCEPT ![Row(x).at] = "none"] /\ Drop(x)
  BY <1>1, <1>2, <1>3, <1>4, DropJob
<1>5. CASE (Row(x).owned => Fails) /\ Carry(x) /\ UNCHANGED file
  BY <1>1, <1>2, <1>3, <1>5, CarryJob
<1> QED
  BY <1>4, <1>5 DEF CleanRow

\* What was carried over becomes the ledger.
LEMMA ReplaceEffect ==
  ASSUME Typed, NEW x \in Procs, ReplaceLedger(x)
  PROVE  /\ Moves(x) /\ UNCHANGED <<faults, file, had>>
         /\ job[x].pc = "clean" /\ job'[x].pc = "idle"
         /\ job[x].row > Len(ledger) /\ job[x].kept \in Seq(Rows)
         /\ ledger' = job[x].kept
  BY EndsJob, Kinds DEF ReplaceLedger

\* x dies.
LEMMA KillEffect ==
  ASSUME Typed, NEW x \in Procs, Kill(x)
  PROVE  /\ Moves(x) /\ UNCHANGED <<faults, file, had, ledger>>
         /\ "kill" \in faults /\ job'[x].pc = "idle"
  BY EndsJob DEF Kill

-----------------------------------------------------------------------------
\* Every step keeps the types.
LEMMA TypesKept == ASSUME Typed, [Next]_vars PROVE Typed'
<1>1. CASE UNCHANGED vars
  BY <1>1 DEF vars, Typed
<1>2. ASSUME NEW x \in Procs, Stage(x) PROVE Typed'
  BY <1>2, StageEffect DEF Typed, Moves
<1>3. ASSUME NEW x \in Procs, Probe(x) PROVE Typed'
  BY <1>3, ProbeEffect DEF Typed, Moves
<1>4. ASSUME NEW x \in Procs, Copy(x) PROVE Typed'
  BY <1>4, CopyEffect DEF Typed, Moves
<1>5. ASSUME NEW x \in Procs, Chmod(x) PROVE Typed'
  BY <1>5, ChmodEffect DEF Typed, Moves
<1>6. ASSUME NEW x \in Procs, CheckLedger(x) PROVE Typed'
  BY <1>6, CheckEffect DEF Typed, Moves
<1>7. ASSUME NEW x \in Procs, AppendRow(x) PROVE Typed'
  <2>1. [owned |-> job[x].owned, at |-> job[x].item] \in Rows
    BY <1>7, AppendEffect DEF Rows
  <2> QED
    BY <1>7, <2>1, AppendEffect DEF Typed, Moves
<1>8. ASSUME NEW x \in Procs, Cleanup(x) PROVE Typed'
  BY <1>8, CleanupEffect DEF Typed, Moves
<1>9. ASSUME NEW x \in Procs, CleanRow(x) PROVE Typed'
  BY <1>9, CleanRowEffect DEF Typed, Moves, Rows
<1>10. ASSUME NEW x \in Procs, ReplaceLedger(x) PROVE Typed'
  BY <1>10, ReplaceEffect DEF Typed, Moves
<1>11. ASSUME NEW x \in Procs, Kill(x) PROVE Typed'
  BY <1>11, KillEffect DEF Typed, Moves
<1>12. ASSUME NEW i \in Items, ReplacePod(i) PROVE Typed'
  BY <1>12 DEF Typed, ReplacePod
<1> QED
  BY <1>1, <1>2, <1>3, <1>4, <1>5, <1>6, <1>7, <1>8, <1>9, <1>10, <1>11, <1>12 DEF Next

\* A cleanup that does not overlap stays alone.
LEMMA AloneKept == ASSUME Typed, AloneInv, [Next]_vars PROVE AloneInv'
<1>1. CASE UNCHANGED vars
  BY <1>1 DEF vars, AloneInv, Overlap
<1> DEFINE Quiet(x) == /\ Moves(x) /\ UNCHANGED faults
                       /\ job[x].pc \in AtWork \union {"clean"}
                       /\ job'[x].pc = "clean" => job[x].pc = "clean"
<1>2. ASSUME NEW x \in Procs, Quiet(x) PROVE AloneInv'
  <2>1. job[x] # Idle /\ job'[x] \in Jobs
    BY <1>2, Kinds DEF AtWork, Moves
  <2> QED
    BY <1>2, <2>1, Kinds DEF AloneInv, Overlap, Moves
<1>3. ASSUME NEW x \in Procs, Stage(x) PROVE AloneInv'
  BY <1>3, StageEffect DEF AloneInv, Overlap, Moves, Cleaning
<1>4. ASSUME NEW x \in Procs, Cleanup(x) PROVE AloneInv'
  <2>1. SUFFICES ASSUME ~Overlap PROVE AloneInv'
    BY <1>4, CleanupEffect DEF AloneInv, Overlap
  <2>2. \A y \in Procs : y # x => job'[y] = Idle
    BY <1>4, <2>1, CleanupEffect DEF Moves
  <2>3. Idle.pc # "clean"
    BY DEF Idle
  <2> QED
    BY <2>2, <2>3 DEF AloneInv
<1>5. ASSUME NEW x \in Procs, Probe(x) PROVE Quiet(x)
  BY <1>5, ProbeEffect DEF AtWork
<1>6. ASSUME NEW x \in Procs, Copy(x) PROVE Quiet(x)
  BY <1>6, CopyEffect DEF AtWork
<1>7. ASSUME NEW x \in Procs, Chmod(x) PROVE Quiet(x)
  BY <1>7, ChmodEffect DEF AtWork
<1>8. ASSUME NEW x \in Procs, CheckLedger(x) PROVE Quiet(x)
  BY <1>8, CheckEffect DEF AtWork
<1>9. ASSUME NEW x \in Procs, AppendRow(x) PROVE Quiet(x)
  BY <1>9, AppendEffect DEF AtWork
<1>10. ASSUME NEW x \in Procs, CleanRow(x) PROVE Quiet(x)
  BY <1>10, CleanRowEffect
<1>11. ASSUME NEW x \in Procs, ReplaceLedger(x) PROVE Quiet(x)
  BY <1>11, ReplaceEffect
<1>12. ASSUME NEW x \in Procs, Kill(x) PROVE Quiet(x)
  BY <1>12, KillEffect, Kinds DEF Kill
<1>13. ASSUME NEW i \in Items, ReplacePod(i) PROVE AloneInv'
  BY <1>13 DEF AloneInv, Overlap, ReplacePod
<1> HIDE DEF Quiet
<1> QED
  BY <1>1, <1>2, <1>3, <1>4, <1>5, <1>6, <1>7, <1>8, <1>9, <1>10, <1>11, <1>12, <1>13
     DEF Next

\* What is appended to a sequence is in it, and so is what was there.
LEMMA HoldsAppend ==
  ASSUME NEW s \in Seq(Rows), NEW r \in Rows
  PROVE  /\ Holds(Append(s, r), r)
         /\ \A q : Holds(s, q) => Holds(Append(s, r), q)
         /\ \A q : Holds(Append(s, r), q) => Holds(s, q) \/ q = r
<1>1. DOMAIN Append(s, r) = 1..(Len(s) + 1) /\ DOMAIN s = 1..Len(s) /\ Len(s) \in Nat
  OBVIOUS
<1>2. Append(s, r)[Len(s) + 1] = r
  OBVIOUS
<1>3. \A k \in 1..Len(s) : Append(s, r)[k] = s[k]
  OBVIOUS
<1> QED
  BY <1>1, <1>2, <1>3 DEF Holds

\* The rows of the ledger are about items.
LEMMA RowTypes ==
  ASSUME Typed, NEW k \in DOMAIN ledger
  PROVE  ledger[k] \in Rows /\ ledger[k].at \in Items /\ ledger[k].owned \in BOOLEAN
<1>1. ledger[k] \in Rows
  BY DEF Typed
<1> QED
  BY <1>1 DEF Rows

\* After a step of a process that was at work, an overlap-free cleanup can only
\* be its own.
LEMMA NoOtherCleanup ==
  ASSUME Typed, AloneInv, ~Overlap, NEW y \in Procs, Moves(y),
         job[y].pc \in AtWork \union {"clean"}
  PROVE  \A x \in Procs : x # y => job'[x].pc # "clean"
<1>1. job[y] # Idle
  BY Kinds DEF AtWork
<1> QED
  BY <1>1 DEF AloneInv, Moves

\* What such a cleanup has dropped stays gone.
LEMMA KeptKept == ASSUME Typed, AloneInv, KeptInv, [Next]_vars PROVE KeptInv'
<1>1. CASE UNCHANGED vars
  BY <1>1 DEF vars, KeptInv, Overlap, Ours
<1> DEFINE Leaves(y) == /\ Moves(y) /\ UNCHANGED faults
                        /\ job[y].pc \in AtWork \union {"clean"} /\ job'[y].pc # "clean"
<1>2. ASSUME NEW y \in Procs, Leaves(y) PROVE KeptInv'
  <2>1. CASE Overlap
    BY <1>2, <2>1 DEF KeptInv, Overlap
  <2>2. CASE ~Overlap
    BY <1>2, <2>2, NoOtherCleanup DEF KeptInv
  <2> QED
    BY <2>1, <2>2
<1>3. ASSUME NEW y \in Procs, Stage(y) PROVE KeptInv'
  <2>1. UNCHANGED faults /\ (~Overlap => \A x \in Procs : job'[x].pc # "clean")
    BY <1>3, StageEffect DEF Moves, Cleaning
  <2> QED
    BY <2>1 DEF KeptInv, Overlap
<1>4. ASSUME NEW y \in Procs, Cleanup(y) PROVE KeptInv'
  <2>1. UNCHANGED <<faults, ledger>> /\ job'[y].row = 1
    BY <1>4, CleanupEffect
  <2>2. ~Overlap => \A x \in Procs : x # y => job'[x].pc # "clean"
    BY <1>4, CleanupEffect DEF Moves, Idle
  <2>3. \A k \in DOMAIN ledger : ~(k < 1)
    BY DEF Typed
  <2> QED
    BY <2>1, <2>2, <2>3 DEF KeptInv, Overlap
<1>5. ASSUME NEW y \in Procs, CleanRow(y) PROVE KeptInv'
  <2>1. SUFFICES ASSUME ~Overlap PROVE KeptInv'
    BY <1>5, CleanRowEffect DEF KeptInv, Overlap
  <2>2. /\ Moves(y) /\ UNCHANGED ledger /\ job[y].pc = "clean"
        /\ job[y].row \in 1..Len(ledger) /\ Row(y) \in Rows
        /\ job'[y].row = job[y].row + 1
        /\ job[y].kept \in Seq(Rows)
    BY <1>5, CleanRowEffect, Kinds
  <2>3. \A x \in Procs : x # y => job'[x].pc # "clean"
    BY <2>1, <2>2, NoOtherCleanup
  <2>4. SUFFICES ASSUME NEW k \in DOMAIN ledger, k < job'[y].row
                 PROVE  \/ Holds(job'[y].kept, ledger[k])
                        \/ ledger[k].owned /\ ~Ours(ledger[k].at)'
    BY <2>2, <2>3 DEF KeptInv
  <2>5. k < job[y].row \/ k = job[y].row
    BY <2>2, <2>4 DEF Typed
  <2>6. ledger[k] \in Rows /\ ledger[k].at \in Items
    BY RowTypes
  <2>7. CASE Row(y).owned /\ job'[y].kept = job[y].kept
             /\ file' = [file EXCEPT ![Row(y).at] = "none"]
    <3>1. \A i \in Items : ~Ours(i) => ~Ours(i)'
      BY <2>7 DEF Ours, Typed
    <3>2. Row(y) = ledger[job[y].row]
      BY DEF Row
    <3>3. CASE k = job[y].row
      <4>1. ledger[k] = Row(y)
        BY <3>2, <3>3
      <4>2. file'[Row(y).at] = "none"
        BY <2>6, <2>7, <4>1 DEF Typed
      <4> QED
        BY <2>2, <2>7, <4>1, <4>2 DEF Ours
    <3>4. CASE k < job[y].row
      BY <2>1, <2>2, <2>6, <2>7, <3>1, <3>4 DEF KeptInv
    <3> QED
      BY <2>5, <3>3, <3>4
  <2>8. CASE job'[y].kept = Append(job[y].kept, Row(y)) /\ UNCHANGED file
    <3>1. Holds(job'[y].kept, Row(y))
          /\ \A q : Holds(job[y].kept, q) => Holds(job'[y].kept, q)
      BY <2>2, <2>8, HoldsAppend
    <3>2. CASE k = job[y].row
      BY <3>1, <3>2 DEF Row
    <3>3. CASE k < job[y].row
      BY <2>1, <2>2, <2>8, <3>1, <3>3 DEF KeptInv, Ours
    <3> QED
      BY <2>5, <3>2, <3>3
  <2> QED
    BY <1>5, <2>7, <2>8, CleanRowEffect
<1>6. ASSUME NEW i \in Items, ReplacePod(i) PROVE KeptInv'
  <2>1. \A j \in Items : ~Ours(j) => ~Ours(j)'
    BY <1>6 DEF ReplacePod, Ours, Typed
  <2>2. \A k \in DOMAIN ledger : ledger[k].at \in Items
    BY RowTypes
  <2>3. UNCHANGED <<faults, ledger, job>>
    BY <1>6 DEF ReplacePod
  <2> QED
    BY <2>1, <2>2, <2>3 DEF KeptInv, Overlap
<1>7. ASSUME NEW y \in Procs,
             Probe(y) \/ Copy(y) \/ Chmod(y) \/ CheckLedger(y) \/ AppendRow(y)
               \/ ReplaceLedger(y) \/ Kill(y)
      PROVE  Leaves(y)
  <2>1. CASE Probe(y)
    BY <2>1, ProbeEffect DEF AtWork
  <2>2. CASE Copy(y)
    BY <2>2, CopyEffect DEF AtWork
  <2>3. CASE Chmod(y)
    BY <2>3, ChmodEffect DEF AtWork
  <2>4. CASE CheckLedger(y)
    BY <2>4, CheckEffect DEF AtWork
  <2>5. CASE AppendRow(y)
    BY <2>5, AppendEffect DEF AtWork
  <2>6. CASE ReplaceLedger(y)
    BY <2>6, ReplaceEffect
  <2>7. CASE Kill(y)
    BY <2>7, KillEffect, Kinds DEF Kill
  <2> QED
    BY <1>7, <2>1, <2>2, <2>3, <2>4, <2>5, <2>6, <2>7
<1> HIDE DEF Leaves
<1> QED
  BY <1>1, <1>2, <1>3, <1>4, <1>5, <1>6, <1>7 DEF Next

-----------------------------------------------------------------------------
\* Owned rows of a ledger with one row more.
LEMMA RowedAppend ==
  ASSUME NEW s \in Seq(Rows), NEW r \in Rows, NEW i
  PROVE  /\ Rowed(s, i) => Rowed(Append(s, r), i)
         /\ r.owned = TRUE /\ r.at = i => Rowed(Append(s, r), i)
         /\ Rowed(Append(s, r), i) => Rowed(s, i) \/ (r.owned = TRUE /\ r.at = i)
<1>1. r.owned = TRUE /\ r.at = i => r = [owned |-> TRUE, at |-> i]
  BY DEF Rows
<1>2. r = [owned |-> TRUE, at |-> i] => r.owned = TRUE /\ r.at = i
  OBVIOUS
<1>3. \A l : Rowed(l, i) <=> Holds(l, [owned |-> TRUE, at |-> i])
  BY DEF Rowed, Holds
<1>4. /\ Holds(Append(s, r), r)
      /\ \A q : Holds(s, q) => Holds(Append(s, r), q)
      /\ \A q : Holds(Append(s, r), q) => Holds(s, q) \/ q = r
  BY HoldsAppend
<1> DEFINE e == [owned |-> TRUE, at |-> i]
<1> HIDE DEF e
<1>5. \A l : Rowed(l, i) <=> Holds(l, e)
  BY <1>3 DEF e
<1>6. (r.owned = TRUE /\ r.at = i) <=> r = e
  BY <1>1, <1>2 DEF e
<1> QED
  BY <1>4, <1>5, <1>6, Zenon

\* An owned row of the ledger is what Rowed looks for.
LEMMA RowedRow ==
  ASSUME Typed, NEW k \in DOMAIN ledger, ledger[k].owned = TRUE
  PROVE  Rowed(ledger, ledger[k].at)
<1>1. ledger[k] = [owned |-> TRUE, at |-> ledger[k].at]
  BY RowTypes DEF Rows
<1> QED
  BY <1>1 DEF Rowed

\* A step of y keeps HadInv if it leaves what was there, and its hands, off.
LEMMA HadFrame ==
  ASSUME Typed, HadInv, NEW y \in Procs, Moves(y), UNCHANGED <<faults, had>>,
         ASSUME Gentle, NEW i \in Spared, Foreign(i)
         PROVE  file'[i] = file[i] /\ ~Rowed(ledger', i) /\ HandsOff(y, i)'
  PROVE  HadInv'
<1> SUFFICES ASSUME Gentle, NEW i \in Spared PROVE Foreign(i)'
  BY DEF Spared, HadInv, Gentle
<1>1. Foreign(i)
  BY DEF Spared, HadInv
<1>2. file'[i] = file[i] /\ ~Rowed(ledger', i) /\ HandsOff(y, i)'
  BY <1>1
<1>3. \A x \in Procs : x # y => HandsOff(x, i)'
  BY <1>1 DEF Foreign, HandsOff, Moves
<1> QED
  BY <1>1, <1>2, <1>3 DEF Foreign

\* Every step keeps it.
LEMMA HadKept == ASSUME Typed, HadInv, [Next]_vars PROVE HadInv'
<1>1. CASE UNCHANGED vars
  BY <1>1 DEF Spared, vars, HadInv, Gentle, Foreign, HandsOff
<1>2. ASSUME NEW y \in Procs, Stage(y) PROVE HadInv'
  <2>1. ASSUME NEW i \in Spared, Foreign(i) PROVE HandsOff(y, i)'
    BY <1>2, <2>1, StageEffect DEF Foreign, HandsOff
  <2> QED
    BY <1>2, <2>1, StageEffect, HadFrame DEF Foreign
<1>3. ASSUME NEW y \in Procs, Probe(y) PROVE HadInv'
  <2>1. ASSUME Gentle, NEW i \in Spared, Foreign(i) PROVE HandsOff(y, i)'
    BY <1>3, <2>1, ProbeEffect DEF Foreign, HandsOff, Gentle, Fails
  <2> QED
    BY <1>3, <2>1, ProbeEffect, HadFrame DEF Foreign
<1>4. ASSUME NEW y \in Procs, Copy(y) PROVE HadInv'
  <2>1. ASSUME Gentle, NEW i \in Spared, Foreign(i) PROVE file'[i] = file[i] /\ HandsOff(y, i)'
    <3>1. job[y].item # i
      BY <1>4, <2>1, CopyEffect DEF Foreign, HandsOff, AtWork
    <3>2. i \in Items
      BY DEF Spared, Typed
    <3> QED
      BY <1>4, <2>1, <3>1, <3>2, CopyEffect DEF HandsOff, Typed, AtWork
  <2> QED
    BY <1>4, <2>1, CopyEffect, HadFrame DEF Foreign
<1>5. ASSUME NEW y \in Procs, Chmod(y) PROVE HadInv'
  <2>1. ASSUME Gentle, NEW i \in Spared, Foreign(i) PROVE file'[i] = file[i] /\ HandsOff(y, i)'
    <3>1. job[y].item # i
      BY <1>5, <2>1, ChmodEffect DEF Foreign, HandsOff, AtWork
    <3>2. i \in Items
      BY DEF Spared, Typed
    <3> QED
      BY <1>5, <2>1, <3>1, <3>2, ChmodEffect DEF HandsOff, AtWork
  <2> QED
    BY <1>5, <2>1, ChmodEffect, HadFrame DEF Foreign
<1>6. ASSUME NEW y \in Procs, CheckLedger(y) PROVE HadInv'
  <2>1. ASSUME NEW i \in Spared, Foreign(i) PROVE HandsOff(y, i)'
    BY <1>6, <2>1, CheckEffect DEF Foreign, HandsOff, AtWork
  <2> QED
    BY <1>6, <2>1, CheckEffect, HadFrame DEF Foreign
<1>7. ASSUME NEW y \in Procs, AppendRow(y) PROVE HadInv'
  <2>1. ASSUME NEW i \in Spared, Foreign(i) PROVE ~Rowed(ledger', i) /\ HandsOff(y, i)'
    <3> DEFINE r == [owned |-> job[y].owned, at |-> job[y].item]
    <3>1. r \in Rows
      BY <1>7, AppendEffect DEF Rows
    <3>2. r.at = i => r.owned = FALSE
      BY <1>7, <2>1, AppendEffect DEF Foreign, HandsOff, AtWork
    <3>3. Rowed(Append(ledger, r), i) => Rowed(ledger, i) \/ (r.owned = TRUE /\ r.at = i)
      BY <3>1, RowedAppend DEF Typed
    <3>4. ledger' = Append(ledger, r)
      BY <1>7, AppendEffect
    <3>5. ~Rowed(ledger', i)
      BY <2>1, <3>2, <3>3, <3>4 DEF Foreign
    <3> QED
      BY <1>7, <3>5, AppendEffect DEF HandsOff, AtWork
  <2> QED
    BY <1>7, <2>1, AppendEffect, HadFrame DEF Foreign
<1>8. ASSUME NEW y \in Procs, Cleanup(y) PROVE HadInv'
  <2>1. ASSUME NEW i \in Spared, Foreign(i) PROVE HandsOff(y, i)'
    BY <1>8, <2>1, CleanupEffect DEF HandsOff, Rowed, AtWork
  <2> QED
    BY <1>8, <2>1, CleanupEffect, HadFrame DEF Foreign
<1>9. ASSUME NEW y \in Procs, CleanRow(y) PROVE HadInv'
  <2>1. ASSUME NEW i \in Spared, Foreign(i) PROVE file'[i] = file[i] /\ HandsOff(y, i)'
    <3>1. job[y].row \in DOMAIN ledger /\ Row(y) = ledger[job[y].row]
      BY <1>9, CleanRowEffect DEF Row, Typed
    <3>2. ~(Row(y).owned = TRUE /\ Row(y).at = i)
      BY <2>1, <3>1, RowedRow DEF Foreign
    <3>3. Row(y).owned \in BOOLEAN
      BY <3>1, RowTypes
    <3>4. i \in Items /\ job[y].kept \in Seq(Rows)
      BY <1>9, CleanRowEffect, Kinds DEF Spared, Typed
    <3>5. file'[i] = file[i]
      BY <1>9, <3>2, <3>3, <3>4, CleanRowEffect DEF Typed
    <3>6. ~Rowed(job[y].kept, i)
      BY <1>9, <2>1, CleanRowEffect DEF Foreign, HandsOff
    <3>7. ~Rowed(job'[y].kept, i)
      <4>1. Rowed(Append(job[y].kept, Row(y)), i) =>
              Rowed(job[y].kept, i) \/ (Row(y).owned = TRUE /\ Row(y).at = i)
        BY <1>9, <3>4, CleanRowEffect, RowedAppend
      <4> QED
        BY <1>9, <3>2, <3>6, <4>1, CleanRowEffect
    <3> QED
      BY <1>9, <3>5, <3>7, CleanRowEffect DEF HandsOff, AtWork
  <2> QED
    BY <1>9, <2>1, CleanRowEffect, HadFrame DEF Foreign
<1>10. ASSUME NEW y \in Procs, ReplaceLedger(y) PROVE HadInv'
  <2>1. ASSUME NEW i \in Spared, Foreign(i) PROVE ~Rowed(ledger', i) /\ HandsOff(y, i)'
    BY <1>10, <2>1, ReplaceEffect DEF Foreign, HandsOff, AtWork
  <2> QED
    BY <1>10, <2>1, ReplaceEffect, HadFrame DEF Foreign
<1>11. ASSUME NEW y \in Procs, Kill(y) PROVE HadInv'
  <2>1. ASSUME NEW i \in Spared, Foreign(i) PROVE HandsOff(y, i)'
    BY <1>11, KillEffect DEF HandsOff, AtWork
  <2> QED
    BY <1>11, <2>1, KillEffect, HadFrame DEF Foreign
<1>12. ASSUME NEW i \in Items, ReplacePod(i) PROVE HadInv'
  BY <1>12 DEF Spared, HadInv, Gentle, ReplacePod
<1> QED
  BY <1>1, <1>2, <1>3, <1>4, <1>5, <1>6, <1>7, <1>8, <1>9, <1>10, <1>11, <1>12 DEF Next

-----------------------------------------------------------------------------
\* Both ways to say that an item is being staged.
LEMMA BusyStaged ==
  ASSUME Typed, NEW i PROVE BeingStaged(i) <=> Busy(i)
  BY Kinds DEF BeingStaged, Busy, Item

\* One more row that is owned where it has to be.
LEMMA RowsOwnedAppend ==
  ASSUME NEW s \in Seq(Rows), NEW r \in Rows, RowsOwned(s), r.at \notin Spared => r.owned = TRUE
  PROVE  RowsOwned(Append(s, r))
<1>1. DOMAIN Append(s, r) = 1..(Len(s) + 1) /\ DOMAIN s = 1..Len(s) /\ Len(s) \in Nat
  OBVIOUS
<1>2. Append(s, r)[Len(s) + 1] = r
  OBVIOUS
<1>3. \A k \in 1..Len(s) : Append(s, r)[k] = s[k]
  OBVIOUS
<1> QED
  BY <1>1, <1>2, <1>3 DEF Spared, RowsOwned

\* A step of y that changes the ledger at most by adding to it, and the files
\* at most in the item that y stages, is no business of the others.
LEMMA OthersClaim ==
  ASSUME Typed, OneStager, \A x \in Procs : Claims(x),
         NEW y \in Procs, Moves(y), UNCHANGED had,
         \A i \in Items : Rowed(ledger, i) => Rowed(ledger', i),
         \A i \in Items : (job[y].pc \in AtWork /\ job[y].item = i) \/ file'[i] = file[i],
         NEW x \in Procs, x # y
  PROVE  Claims(x)'
<1>1. job'[x] = job[x]
  BY DEF Moves
<1>2. CASE job[x].pc \in AtWork
  <2>1. job[x].item \in Items
    BY <1>2, Kinds
  <2>2. file'[job[x].item] = file[job[x].item]
    BY <1>2, <2>1 DEF OneStager
  <2> QED
    BY <1>1, <1>2, <2>1, <2>2 DEF Spared, Claims, Ours, AtWork
<1>3. CASE job[x].pc \notin AtWork
  BY <1>1, <1>3 DEF Spared, Claims, RowsOwned
<1> QED
  BY <1>2, <1>3

\* So it preserves StageInv if it keeps what StageInv says of y and its item.
LEMMA StageFrame ==
  ASSUME Typed, faults = {}, StageInv, NEW y \in Procs, Moves(y), UNCHANGED had,
         job[y].pc \in AtWork, job'[y].pc # "clean",
         job'[y].pc \in AtWork => job'[y].item = job[y].item,
         \A i \in Items : Rowed(ledger, i) => Rowed(ledger', i),
         NEW own \in Items, own = job[y].item,
         \A i \in Items : i # own => file'[i] = file[i],
         RowsOwned(ledger)', Claims(y)', Covered(own)'
  PROVE  StageInv'
<1>0. OneStager /\ (\A x \in Procs : Claims(x)) /\ (\A i \in Items : Covered(i))
  BY DEF StageInv
<1>1. OneStager'
  BY <1>0 DEF OneStager, Moves
<1>2. \A x \in Procs : Claims(x)'
  BY <1>0, OthersClaim
<1>3. ASSUME NEW i \in Items PROVE Covered(i)'
  <2>1. CASE i = own
    BY <2>1
  <2>2. CASE i # own
    <3>1. Busy(i) => Busy(i)'
      BY <2>2 DEF Busy, Moves
    <3> QED
      BY <1>0, <2>2, <3>1 DEF Spared, Covered, Ours
  <2> QED
    BY <2>1, <2>2
<1> QED
  BY <1>1, <1>2, <1>3 DEF StageInv

\* Every step keeps StageInv, if the keys of the ledger tell the items apart.
LEMMA StageKept ==
  ASSUME Typed, AloneInv, KeptInv, HadInv, StageInv, KeysIdentify, [Next]_vars
  PROVE  StageInv'
<1> SUFFICES ASSUME faults' = {} PROVE StageInv'
  BY DEF StageInv
<1>0. faults = {}
  <2>1. UNCHANGED faults
    BY StageEffect, ProbeEffect, CopyEffect, ChmodEffect, CheckEffect, AppendEffect,
       CleanupEffect, CleanRowEffect, ReplaceEffect, KillEffect
       DEF Next, vars, ReplacePod
  <2> QED
    BY <2>1
<1>a. /\ OneStager /\ RowsOwned(ledger) /\ (\A x \in Procs : Claims(x))
      /\ \A i \in Items : Covered(i)
  BY <1>0 DEF StageInv
<1>b. ~Fails /\ ~Overlap /\ (\A i \in Spared : Foreign(i))
  BY <1>0 DEF Spared, Fails, Overlap, HadInv, Gentle
<1>1. CASE UNCHANGED vars
  BY <1>1, <1>0 DEF Spared, vars, StageInv, OneStager, RowsOwned, Claims, Covered, Ours, Busy
<1>2. ASSUME NEW y \in Procs, Stage(y) PROVE StageInv'
  <2>1. /\ Moves(y) /\ UNCHANGED <<file, had, ledger>> /\ job[y].pc = "idle"
        /\ job'[y].item \in Items /\ ~BeingStaged(job'[y].item)
        /\ job'[y].pc \in {"probe", "copy"}
    <3>1. job[y] = Idle /\ (Overlap \/ ~BeingStaged(job'[y].item))
      BY <1>2, StageEffect
    <3>2. ~BeingStaged(job'[y].item)
      BY <1>b, <3>1
    <3>3. job'[y].pc \in {"probe", "copy"} /\ Moves(y) /\ UNCHANGED <<file, had, ledger>>
          /\ job'[y].item \in Items
      BY <1>2, StageEffect
    <3> QED
      BY <3>1, <3>2, <3>3 DEF Idle
  <2>a. PICK own \in Items : job'[y].item = own
    BY <2>1
  <2>b. ~BeingStaged(own)
    BY <2>1, <2>a
  <2>c. ~Busy(own)
    BY <2>b, BusyStaged
  <2>2. OneStager'
    BY <1>a, <2>1, <2>a, <2>c DEF OneStager, Moves, Busy
  <2>3. \A i \in Items : Busy(i) => Busy(i)'
    BY <2>1 DEF Busy, Moves, AtWork
  <2>4. \A i \in Items : Covered(i)'
    BY <1>a, <2>1, <2>3 DEF Spared, Covered, Ours
  <2>5. Claims(y)'
    <3>1. Covered(own)
      BY <1>a
    <3>2. job'[y].pc = "probe" => own.tool = "jattach"
      BY <1>2, <2>a, StageEffect
    <3> QED
      BY <2>1, <2>a, <2>c, <3>1, <3>2 DEF Spared, Claims, Covered, Ours, AtWork
  <2>6. \A x \in Procs : x # y => Claims(x)'
    BY <1>a, <2>1, OthersClaim
  <2> QED
    BY <1>a, <2>1, <2>2, <2>4, <2>5, <2>6 DEF Spared, StageInv, RowsOwned
<1>3. ASSUME NEW y \in Procs, Probe(y) PROVE StageInv'
  <2>1. /\ Moves(y) /\ UNCHANGED <<file, had, ledger>>
        /\ job[y].pc = "probe" /\ job[y].item \in Items /\ job'[y].item = job[y].item
        /\ \/ /\ file[job[y].item] \in {"operator", "staged"}
              /\ job'[y].pc = "check" /\ job'[y].owned = FALSE
           \/ job'[y].pc = "copy"
    BY <1>3, ProbeEffect
  <2>a. PICK own \in Items : own = job[y].item
    BY <2>1
  <2>2. Claims(y)'
    BY <1>a, <2>1 DEF Spared, Claims, Covered, Ours, AtWork
  <2>3. Covered(own)'
    <3>1. Busy(own)'
      BY <2>a, <2>1 DEF Busy, AtWork
    <3> QED
      BY <2>a, <1>a, <2>1, <3>1 DEF Spared, Covered
  <2>4. RowsOwned(ledger)'
    BY <2>a, <1>a, <2>1 DEF Spared, RowsOwned
  <2> QED
    BY <2>a, <1>0, <2>1, <2>2, <2>3, <2>4, StageFrame DEF AtWork
<1>4. ASSUME NEW y \in Procs, Copy(y) PROVE StageInv'
  <2>1. /\ Moves(y) /\ UNCHANGED <<had, ledger>>
        /\ job[y].pc = "copy" /\ job[y].item \in Items /\ job'[y].item = job[y].item
        /\ file' = [file EXCEPT ![job[y].item] = "copied"]
        /\ job'[y].pc = "chmod" \/ (job'[y].pc = "check" /\ job'[y].owned = TRUE)
    BY <1>4, <1>b, CopyEffect
  <2>a. PICK own \in Items : own = job[y].item
    BY <2>1
  <2>2. Claims(y)'
    BY <2>1 DEF Spared, Claims, AtWork
  <2>3. Covered(own)'
    <3>1. Busy(own)'
      BY <2>a, <2>1 DEF Busy, AtWork
    <3>2. file'[job[y].item] = "copied"
      BY <2>a, <2>1 DEF Typed
    <3> QED
      BY <2>a, <2>1, <3>1, <3>2 DEF Spared, Covered
  <2>4. RowsOwned(ledger)'
    BY <2>a, <1>a, <2>1 DEF Spared, RowsOwned
  <2>5. \A i \in Items : i # job[y].item => file'[i] = file[i]
    BY <2>a, <2>1 DEF Typed
  <2> QED
    BY <2>a, <1>0, <2>1, <2>2, <2>3, <2>4, <2>5, StageFrame DEF AtWork
<1>5. ASSUME NEW y \in Procs, Chmod(y) PROVE StageInv'
  <2>1. /\ Moves(y) /\ UNCHANGED <<had, ledger>>
        /\ job[y].pc = "chmod" /\ job[y].item \in Items
        /\ \A i \in Items : i # job[y].item => file'[i] = file[i]
        /\ \/ /\ job'[y].item = job[y].item /\ job'[y].pc = "check" /\ job'[y].owned = TRUE
              /\ file'[job[y].item] \in {"staged", file[job[y].item]}
           \/ /\ file[job[y].item] = "none" /\ job'[y].pc = "idle" /\ UNCHANGED file
    BY <1>5, <1>b, ChmodEffect
  <2>a. PICK own \in Items : own = job[y].item
    BY <2>1
  <2>2. Claims(y)'
    BY <2>1 DEF Spared, Claims, AtWork
  <2>3. Covered(own)'
    <3>1. job'[y].pc = "check" => Busy(own)'
      BY <2>a, <2>1 DEF Busy, AtWork
    <3>2. Covered(own)
      BY <2>a, <1>a, <2>1
    <3> QED
      BY <2>a, <2>1, <3>1, <3>2 DEF Spared, Covered, Ours
  <2>4. RowsOwned(ledger)'
    BY <2>a, <1>a, <2>1 DEF Spared, RowsOwned
  <2> QED
    BY <2>a, <1>0, <2>1, <2>2, <2>3, <2>4, StageFrame DEF AtWork
<1>6. ASSUME NEW y \in Procs, CheckLedger(y) PROVE StageInv'
  <2>1. /\ Moves(y) /\ UNCHANGED <<file, had, ledger>>
        /\ job[y].pc = "check" /\ job[y].item \in Items
        /\ \/ Listed(job[y].item) /\ job'[y].pc = "idle"
           \/ /\ ~Listed(job[y].item) /\ job'[y].pc = "append"
              /\ job'[y].item = job[y].item /\ job'[y].owned = job[y].owned
    BY <1>6, CheckEffect
  <2>a. PICK own \in Items : own = job[y].item
    BY <2>1
  <2>2. Rowed(ledger, job[y].item) => Listed(job[y].item)
    BY DEF Rowed, Listed, SameKey
  <2>3. Listed(job[y].item) /\ job[y].item \notin Spared => Rowed(ledger, job[y].item)
    <3>1. SUFFICES ASSUME job[y].item \notin Spared, NEW k \in DOMAIN ledger,
                          SameKey(ledger[k].at, job[y].item)
                   PROVE  Rowed(ledger, job[y].item)
      BY DEF Listed
    <3>2. ledger[k].at = job[y].item
      BY <2>1, <3>1, RowTypes DEF KeysIdentify
    <3>3. ledger[k].owned = TRUE
      BY <1>a, <3>1, <3>2 DEF Spared, RowsOwned
    <3> QED
      BY <3>2, <3>3, RowedRow
  <2>4. Claims(y)'
    BY <1>a, <2>1, <2>2 DEF Spared, Claims, AtWork
  <2>5. Covered(own)'
    <3>1. job'[y].pc = "append" => Busy(own)'
      BY <2>a, <2>1 DEF Busy, AtWork
    <3>2. job[y].item \in Spared => ~Ours(job[y].item)
      BY <2>a, <1>b DEF Foreign, Ours
    <3>3. Covered(own)
      BY <2>a, <1>a, <2>1
    <3> QED
      BY <2>a, <2>1, <2>3, <3>1, <3>2, <3>3 DEF Spared, Covered, Ours
  <2>6. RowsOwned(ledger)'
    BY <2>a, <1>a, <2>1 DEF Spared, RowsOwned
  <2> QED
    BY <2>a, <1>0, <2>1, <2>4, <2>5, <2>6, StageFrame DEF AtWork
<1>7. ASSUME NEW y \in Procs, AppendRow(y) PROVE StageInv'
  <2> DEFINE r == [owned |-> job[y].owned, at |-> job[y].item]
  <2>1. /\ Moves(y) /\ UNCHANGED <<file, had>> /\ ledger' = Append(ledger, r)
        /\ job[y].pc = "append" /\ job'[y].pc = "idle" /\ job[y].item \in Items
        /\ r \in Rows
    BY <1>7, AppendEffect DEF Rows
  <2>a. PICK own \in Items : own = job[y].item
    BY <2>1
  <2>2. r.at = job[y].item /\ (job[y].item \notin Spared => r.owned = TRUE)
    BY <1>a, <2>1 DEF Spared, Claims, AtWork
  <2> HIDE DEF r
  <2>3. ledger \in Seq(Rows)
    BY DEF Typed
  <2>4. \A i \in Items : Rowed(ledger, i) => Rowed(ledger', i)
    BY <2>1, <2>3, RowedAppend
  <2>5. RowsOwned(ledger)'
    <3>1. RowsOwned(Append(ledger, r))
      BY <1>a, <2>1, <2>2, <2>3, RowsOwnedAppend
    <3> QED
      BY <2>1, <3>1 DEF Spared, RowsOwned
  <2>6. Claims(y)'
    BY <2>1 DEF Spared, Claims, AtWork
  <2>7. Covered(own)'
    <3>1. job[y].item \in Spared => ~Ours(job[y].item)
      BY <2>a, <1>b DEF Foreign, Ours
    <3>2. job[y].item \notin Spared => Rowed(ledger', job[y].item)
      BY <2>a, <2>1, <2>2, <2>3, RowedAppend
    <3>3. Covered(own)
      BY <2>a, <1>a, <2>1
    <3> QED
      BY <2>a, <2>1, <3>1, <3>2, <3>3 DEF Spared, Covered, Ours
  <2> QED
    BY <2>a, <1>0, <2>1, <2>4, <2>5, <2>6, <2>7, StageFrame DEF AtWork
<1>8. ASSUME NEW y \in Procs, Cleanup(y) PROVE StageInv'
  <2>1. /\ Moves(y) /\ UNCHANGED <<file, had, ledger>>
        /\ job'[y].pc = "clean" /\ job'[y].kept = <<>>
        /\ \A x \in Procs : job[x].pc = "idle"
    BY <1>8, <1>b, CleanupEffect DEF Idle
  <2>2. \A x \in Procs : job'[x].pc \notin AtWork
    BY <2>1 DEF Moves, AtWork
  <2>3. \A x \in Procs : Claims(x)'
    BY <2>1, <2>2 DEF Spared, Claims, Moves, RowsOwned
  <2>4. \A i \in Items : Covered(i)'
    BY <1>a, <2>1 DEF Spared, Covered, Ours, Busy, AtWork
  <2> QED
    BY <1>a, <2>1, <2>2, <2>3, <2>4 DEF Spared, StageInv, OneStager, RowsOwned
<1>9. ASSUME NEW y \in Procs, CleanRow(y) PROVE StageInv'
  <2>1. /\ Moves(y) /\ UNCHANGED <<had, ledger>> /\ job[y].pc = "clean" /\ job'[y].pc = "clean"
        /\ Row(y) = ledger[job[y].row] /\ job[y].row \in DOMAIN ledger /\ Row(y) \in Rows
        /\ job[y].kept \in Seq(Rows)
        /\ \/ /\ job'[y].kept = job[y].kept
              /\ file' = [file EXCEPT ![Row(y).at] = "none"]
           \/ job'[y].kept = Append(job[y].kept, Row(y)) /\ UNCHANGED file
    BY <1>9, CleanRowEffect, Kinds DEF Row, Typed
  <2>2. \A x \in Procs : x # y => job[x].pc = "idle"
    BY <1>b, <2>1 DEF AloneInv, Idle
  <2>3. \A x \in Procs : job[x].pc \notin AtWork /\ job'[x].pc \notin AtWork
    BY <2>1, <2>2 DEF Moves, AtWork
  <2>4. \A i \in Items : file'[i] \in {"none", file[i]}
    BY <2>1 DEF Typed
  <2>5. \A i \in Items : Covered(i)'
    BY <1>a, <2>1, <2>3, <2>4 DEF Spared, Covered, Ours, Busy
  <2>6. RowsOwned(job'[y].kept)
    <3>1. RowsOwned(job[y].kept)
      BY <1>a, <2>1 DEF Spared, Claims
    <3>2. Row(y).at \notin Spared => Row(y).owned = TRUE
      BY <1>a, <2>1 DEF Spared, RowsOwned
    <3> QED
      BY <2>1, <3>1, <3>2, RowsOwnedAppend
  <2>7. \A x \in Procs : Claims(x)'
    BY <2>1, <2>2, <2>3, <2>6 DEF Spared, Claims, Moves, RowsOwned
  <2> QED
    BY <1>a, <2>1, <2>3, <2>5, <2>7 DEF Spared, StageInv, OneStager, RowsOwned
<1>10. ASSUME NEW y \in Procs, ReplaceLedger(y) PROVE StageInv'
  <2>1. /\ Moves(y) /\ UNCHANGED <<file, had>> /\ job[y].pc = "clean" /\ job'[y].pc = "idle"
        /\ job[y].row > Len(ledger) /\ ledger' = job[y].kept
    BY <1>10, ReplaceEffect
  <2>2. \A x \in Procs : x # y => job[x].pc = "idle"
    BY <1>b, <2>1 DEF AloneInv, Idle
  <2>3. \A x \in Procs : job[x].pc \notin AtWork /\ job'[x].pc = "idle"
    BY <2>1, <2>2 DEF Moves, AtWork
  <2>4. RowsOwned(ledger)'
    BY <1>a, <2>1 DEF Spared, Claims, RowsOwned
  <2>5. ASSUME NEW i \in Items PROVE Covered(i)'
    <3>1. SUFFICES ASSUME Ours(i) PROVE Rowed(ledger', i)
      BY <1>a, <2>1 DEF Spared, Covered, Ours
    <3>2. Rowed(ledger, i)
      BY <1>a, <2>3, <3>1 DEF Spared, Covered, Busy
    <3>3. PICK k \in DOMAIN ledger : ledger[k] = [owned |-> TRUE, at |-> i]
      BY <3>2 DEF Rowed
    <3>4. k < job[y].row
      BY <2>1, Kinds DEF Typed
    <3>5. ledger[k].at = i
      BY <3>3
    <3>6. Holds(job[y].kept, ledger[k])
      BY <1>b, <2>1, <3>1, <3>4, <3>5 DEF KeptInv
    <3> QED
      BY <2>1, <3>3, <3>6 DEF Holds, Rowed
  <2>6. \A x \in Procs : Claims(x)'
    BY <2>3 DEF Spared, Claims, AtWork
  <2> QED
    BY <2>3, <2>4, <2>5, <2>6 DEF StageInv, OneStager, AtWork
<1>11. ASSUME NEW y \in Procs, Kill(y) PROVE StageInv'
  BY <1>0, <1>11, KillEffect
<1>12. ASSUME NEW i \in Items, ReplacePod(i) PROVE StageInv'
  BY <1>0, <1>12 DEF ReplacePod
<1> QED
  BY <1>1, <1>2, <1>3, <1>4, <1>5, <1>6, <1>7, <1>8, <1>9, <1>10, <1>11, <1>12 DEF Next

-----------------------------------------------------------------------------
\* What bounds the ledger: a row can be told from the others by its item, and,
\* where several processes stage one item at once, by the process that added it.
Tags     == IF Overlap THEN Procs ELSE {0}
TagOf(x) == IF Overlap THEN x ELSE 0

\* f has the process of each row; who is about to add a row has none for the item.
Tagging(f) ==
  /\ f \in [DOMAIN ledger -> Tags]
  /\ \A k, m \in DOMAIN ledger : ledger[k].at = ledger[m].at /\ f[k] = f[m] => k = m
  /\ \A x \in Procs : job[x].pc = "append" =>
       \A k \in DOMAIN ledger : ~(ledger[k].at = job[x].item /\ f[k] = TagOf(x))

\* What a cleanup has carried over is part of the ledger: h has the row of each.
Source(x, h) ==
  /\ h \in [DOMAIN job[x].kept -> DOMAIN ledger]
  /\ \A k, m \in DOMAIN job[x].kept : h[k] = h[m] => k = m
  /\ \A k \in DOMAIN job[x].kept : h[k] < job[x].row /\ job[x].kept[k] = ledger[h[k]]

OneCleaner == \A x, y \in Procs : job[x].pc = "clean" /\ job[y].pc = "clean" => x = y

TagInv ==
  /\ faults \in Faults
  /\ OneCleaner
  /\ ~Overlap => OneStager
  /\ \A x \in Procs : job[x].pc = "clean" => \E h : Source(x, h)
  /\ \E f : Tagging(f)

\* A step of x that leaves the ledger alone and begins no cleanup.
LEMMA QuietTags ==
  ASSUME Typed, TagInv, NEW x \in Procs, Moves(x), UNCHANGED <<faults, ledger>>,
         job'[x].pc # "clean",
         job'[x].pc \in AtWork =>
           \/ job[x].pc \in AtWork /\ job'[x].item = job[x].item
           \/ Overlap \/ ~BeingStaged(job'[x].item),
         job'[x].pc = "append" => ~Listed(job'[x].item) /\ job'[x].item \in Items
  PROVE  TagInv'
<1>1. faults' \in Faults /\ OneCleaner'
  BY DEF TagInv, OneCleaner, Moves
<1>2. ~Overlap' => OneStager'
  <2> SUFFICES ASSUME ~Overlap, NEW y \in Procs, NEW z \in Procs, y # z,
                      job'[y].pc \in AtWork, job'[z].pc \in AtWork, job'[y].item = job'[z].item
               PROVE  FALSE
    BY DEF OneStager, Overlap
  <2>1. ASSUME NEW w \in Procs, w # x, job'[w].pc \in AtWork, job'[x].pc \in AtWork,
               job'[w].item = job'[x].item
        PROVE  FALSE
    <3>1. job'[w] = job[w]
      BY <2>1 DEF Moves
    <3>2. ~(job[x].pc \in AtWork /\ job'[x].item = job[x].item)
      BY <2>1, <3>1 DEF TagInv, OneStager
    <3>3. ~BeingStaged(job'[x].item)
      BY <2>1, <3>2
    <3>4. job[w] \in StageJobs /\ Item(w) = job'[x].item
      BY <2>1, <3>1, Kinds DEF Item
    <3> QED
      BY <3>3, <3>4 DEF BeingStaged
  <2>2. CASE y = x
    BY <2>2, <2>1
  <2>3. CASE z = x
    BY <2>3, <2>1
  <2>4. CASE y # x /\ z # x
    BY <2>4 DEF Moves, TagInv, OneStager
  <2> QED
    BY <2>2, <2>3, <2>4
<1>3. ASSUME NEW y \in Procs, job'[y].pc = "clean" PROVE \E h : Source(y, h)'
  <2>1. job'[y] = job[y] /\ ledger' = ledger
    BY <1>3 DEF Moves
  <2>2. PICK h : Source(y, h)
    BY <1>3, <2>1 DEF TagInv
  <2> QED
    BY <2>1, <2>2 DEF Source
<1>4. \E f : Tagging(f)'
  <2>1. PICK f : Tagging(f)
    BY DEF TagInv
  <2>2. ledger' = ledger /\ Tags' = Tags /\ \A y : TagOf(y)' = TagOf(y)
    BY DEF Tags, TagOf, Overlap
  <2>3. ASSUME NEW y \in Procs, job'[y].pc = "append", NEW k \in DOMAIN ledger
        PROVE  ~(ledger[k].at = job'[y].item /\ f[k] = TagOf(y))
    <3>1. CASE y = x
      <4>1. ~SameKey(ledger[k].at, job'[x].item)
        BY <2>3, <3>1 DEF Listed
      <4> QED
        BY <4>1, <3>1 DEF SameKey
    <3>2. CASE y # x
      BY <2>1, <2>3, <3>2 DEF Tagging, Moves
    <3> QED
      BY <3>1, <3>2
  <2> QED
    BY <2>1, <2>2, <2>3 DEF Tagging
<1> QED
  BY <1>1, <1>2, <1>3, <1>4 DEF TagInv

\* A row is added: it has the item and the process that the others have not.
LEMMA AppendTags ==
  ASSUME Typed, TagInv, NEW x \in Procs, AppendRow(x)
  PROVE  TagInv'
<1> DEFINE r == [owned |-> job[x].owned, at |-> job[x].item]
<1>1. /\ Moves(x) /\ UNCHANGED faults /\ job[x].pc = "append" /\ job'[x].pc = "idle"
      /\ r \in Rows /\ ledger' = Append(ledger, r) /\ r.at = job[x].item
  BY AppendEffect DEF Rows
<1> HIDE DEF r
<1>2. /\ ledger \in Seq(Rows) /\ Len(ledger) \in Nat /\ DOMAIN ledger = 1 .. Len(ledger)
      /\ DOMAIN ledger' = 1 .. Len(ledger) + 1 /\ ledger'[Len(ledger) + 1] = r
      /\ \A k \in DOMAIN ledger : ledger'[k] = ledger[k]
  BY <1>1 DEF Typed
<1>3. faults' \in Faults /\ OneCleaner' /\ (~Overlap' => OneStager')
  BY <1>1 DEF TagInv, OneCleaner, OneStager, Overlap, Moves, AtWork
<1>4. ASSUME NEW y \in Procs, job'[y].pc = "clean" PROVE \E h : Source(y, h)'
  <2>1. job'[y] = job[y]
    BY <1>1, <1>4 DEF Moves
  <2>2. PICK h : Source(y, h)
    BY <1>4, <2>1 DEF TagInv
  <2>3. h \in [DOMAIN job'[y].kept -> DOMAIN ledger']
    BY <1>2, <2>1, <2>2 DEF Source
  <2> QED
    BY <1>2, <2>1, <2>2, <2>3 DEF Source
<1>5. \E f : Tagging(f)'
  <2>1. PICK f : Tagging(f)
    BY DEF TagInv
  <2>2. Tags' = Tags /\ \A y : TagOf(y)' = TagOf(y)
    BY <1>1 DEF Tags, TagOf, Overlap
  <2> DEFINE g == [k \in 1 .. Len(ledger) + 1 |-> IF k = Len(ledger) + 1 THEN TagOf(x) ELSE f[k]]
  <2>3. g[Len(ledger) + 1] = TagOf(x) /\ \A k \in DOMAIN ledger : g[k] = f[k]
    BY <1>2
  <2>4. \A k \in DOMAIN ledger' : k = Len(ledger) + 1 \/ k \in DOMAIN ledger
    BY <1>2
  <2>5. g \in [DOMAIN ledger' -> Tags']
    <3>1. TagOf(x) \in Tags /\ f \in [DOMAIN ledger -> Tags]
      BY <2>1 DEF Tags, TagOf, Tagging
    <3> QED
      BY <3>1, <1>2, <2>2, <2>4
  <2> HIDE DEF g
  <2>6. ASSUME NEW k \in DOMAIN ledger, ledger[k].at = r.at PROVE f[k] # TagOf(x)
    BY <1>1, <2>1, <2>6 DEF Tagging
  <2>7. ASSUME NEW k \in DOMAIN ledger', NEW m \in DOMAIN ledger',
               ledger'[k].at = ledger'[m].at, g[k] = g[m]
        PROVE  k = m
    BY <1>2, <2>1, <2>3, <2>4, <2>6, <2>7 DEF Tagging
  <2>8. ASSUME NEW y \in Procs, job'[y].pc = "append", NEW k \in DOMAIN ledger',
               ledger'[k].at = job'[y].item, g[k] = TagOf(y)
        PROVE  FALSE
    <3>1. y # x /\ job'[y] = job[y]
      BY <1>1, <2>8 DEF Moves
    <3>2. CASE k \in DOMAIN ledger
      BY <1>2, <2>1, <2>3, <2>8, <3>1, <3>2 DEF Tagging
    <3>3. CASE k = Len(ledger) + 1
      <4>1. job[y].item = job[x].item /\ TagOf(x) = TagOf(y)
        BY <1>1, <1>2, <2>3, <2>8, <3>1, <3>3
      <4>2. ~Overlap
        BY <4>1, <3>1 DEF TagOf
      <4> QED
        BY <4>1, <4>2, <3>1, <1>1, <2>8 DEF TagInv, OneStager, AtWork
    <3> QED
      BY <2>4, <3>2, <3>3
  <2>9. PICK t : t = g
    OBVIOUS
  <2>10. Tagging(t)'
    BY <2>2, <2>5, <2>7, <2>8, <2>9 DEF Tagging
  <2> QED
    BY <2>10
<1> QED
  BY <1>3, <1>4, <1>5 DEF TagInv

\* A cleanup begins with nothing carried over.
LEMMA CleanupTags ==
  ASSUME Typed, TagInv, NEW x \in Procs, Cleanup(x)
  PROVE  TagInv'
<1>1. /\ Moves(x) /\ UNCHANGED <<faults, ledger>> /\ job'[x].pc = "clean" /\ job'[x].kept = <<>>
      /\ ~Cleaning
  BY CleanupEffect DEF Cleanup
<1>2. faults' \in Faults /\ OneCleaner' /\ (~Overlap' => OneStager')
  BY <1>1 DEF TagInv, OneCleaner, OneStager, Overlap, Moves, AtWork, Cleaning
<1>3. ASSUME NEW y \in Procs, job'[y].pc = "clean" PROVE \E h : Source(y, h)'
  <2>1. y = x
    BY <1>1, <1>3 DEF Moves, Cleaning
  <2>2. DOMAIN job'[x].kept = {}
    BY <1>1
  <2> DEFINE h == [k \in {} |-> 1]
  <2>3. h \in [{} -> DOMAIN ledger']
    OBVIOUS
  <2> HIDE DEF h
  <2>4. Source(x, h)'
    BY <2>2, <2>3 DEF Source
  <2> QED
    BY <2>1, <2>4
<1>4. \E f : Tagging(f)'
  <2>1. PICK f : Tagging(f)
    BY DEF TagInv
  <2>2. Tags' = Tags /\ \A y : TagOf(y)' = TagOf(y)
    BY <1>1 DEF Tags, TagOf, Overlap
  <2> QED
    BY <1>1, <2>1, <2>2 DEF Tagging, Moves
<1> QED
  BY <1>2, <1>3, <1>4 DEF TagInv

\* A row that is carried over is one that was not: it is further on.
LEMMA CleanRowTags ==
  ASSUME Typed, TagInv, NEW x \in Procs, CleanRow(x)
  PROVE  TagInv'
<1>1. /\ Moves(x) /\ UNCHANGED <<faults, ledger>> /\ job[x].pc = "clean" /\ job'[x].pc = "clean"
      /\ job[x].row \in 1 .. Len(ledger) /\ job'[x].row = job[x].row + 1 /\ Row(x) \in Rows
      /\ job'[x].kept = job[x].kept \/ job'[x].kept = Append(job[x].kept, Row(x))
  BY CleanRowEffect
<1>2. faults' \in Faults /\ OneCleaner' /\ (~Overlap' => OneStager')
  BY <1>1 DEF TagInv, OneCleaner, OneStager, Overlap, Moves, AtWork
<1>3. /\ job[x].kept \in Seq(Rows) /\ Len(job[x].kept) \in Nat
      /\ DOMAIN job[x].kept = 1 .. Len(job[x].kept) /\ DOMAIN ledger = 1 .. Len(ledger)
      /\ Len(ledger) \in Nat
  BY <1>1, Kinds DEF Typed
<1>4. PICK h : Source(x, h)
  BY <1>1 DEF TagInv
<1>5. \E g : Source(x, g)'
  <2> DEFINE n == Len(job[x].kept)
             K == job[x].kept
  <2>1. CASE job'[x].kept = job[x].kept
    <3>1. \A k \in DOMAIN K : h[k] \in DOMAIN ledger
      BY <1>4 DEF Source
    <3>2. \A k \in DOMAIN K : h[k] < job[x].row => h[k] < job'[x].row
      BY <3>1, <1>1, <1>3
    <3> QED
      BY <2>1, <3>2, <1>1, <1>4 DEF Source
  <2>2. CASE job'[x].kept = Append(K, Row(x))
    <3> HIDE DEF K, n
    <3>1. /\ DOMAIN job'[x].kept = 1 .. n + 1 /\ job'[x].kept[n + 1] = Row(x)
          /\ \A k \in 1 .. n : job'[x].kept[k] = K[k]
      BY <2>2, <1>1, <1>3 DEF K, n
    <3> DEFINE g == [k \in 1 .. n + 1 |-> IF k = n + 1 THEN job[x].row ELSE h[k]]
    <3>2. n \in Nat /\ \A k \in 1 .. n + 1 : k = n + 1 \/ k \in 1 .. n
      BY <1>3 DEF n
    <3>3. g[n + 1] = job[x].row /\ \A k \in 1 .. n : g[k] = h[k]
      BY <3>2
    <3>4. \A k \in 1 .. n : h[k] \in DOMAIN ledger /\ h[k] < job[x].row /\ K[k] = ledger[h[k]]
      BY <1>3, <1>4 DEF Source, K, n
    <3>5. g \in [1 .. n + 1 -> DOMAIN ledger]
      BY <1>1, <1>3, <3>2, <3>4
    <3> HIDE DEF g
    <3>6. \A k, m \in 1 .. n : h[k] = h[m] => k = m
      BY <1>3, <1>4 DEF Source, K, n
    <3>7. ASSUME NEW k \in 1 .. n + 1, NEW m \in 1 .. n + 1, g[k] = g[m] PROVE k = m
      BY <3>2, <3>3, <3>4, <3>6, <3>7, <1>1, <1>3
    <3>8. ASSUME NEW k \in 1 .. n + 1 PROVE g[k] < job'[x].row /\ job'[x].kept[k] = ledger[g[k]]
      <4>1. CASE k = n + 1
        BY <4>1, <3>1, <3>3, <1>1 DEF Row
      <4>2. CASE k \in 1 .. n
        <5>1. h[k] < job[x].row /\ h[k] \in Nat
          BY <4>2, <3>4, <1>3
        <5>2. g[k] < job'[x].row
          BY <5>1, <4>2, <3>3, <1>1
        <5> QED
          BY <5>2, <4>2, <3>1, <3>3, <3>4
      <4> QED
        BY <3>2, <4>1, <4>2
    <3>9. PICK t : t = g
      OBVIOUS
    <3>10. Source(x, t)'
      BY <3>1, <3>5, <3>7, <3>8, <3>9, <1>1 DEF Source
    <3> QED
      BY <3>10
  <2> QED
    BY <1>1, <2>1, <2>2
<1>6. ASSUME NEW y \in Procs, job'[y].pc = "clean" PROVE \E g : Source(y, g)'
  <2>1. y = x
    BY <1>1, <1>6 DEF TagInv, OneCleaner, Moves
  <2> QED
    BY <2>1, <1>5
<1>7. \E f : Tagging(f)'
  <2>1. PICK f : Tagging(f)
    BY DEF TagInv
  <2>2. Tags' = Tags /\ \A y : TagOf(y)' = TagOf(y)
    BY <1>1 DEF Tags, TagOf, Overlap
  <2> QED
    BY <1>1, <2>1, <2>2 DEF Tagging, Moves
<1> QED
  BY <1>2, <1>6, <1>7 DEF TagInv

\* What was carried over has the processes of the rows it was carried from.
LEMMA ReplaceTags ==
  ASSUME Typed, TagInv, NEW x \in Procs, ReplaceLedger(x)
  PROVE  TagInv'
<1>1. /\ Moves(x) /\ UNCHANGED faults /\ job[x].pc = "clean" /\ job'[x].pc = "idle"
      /\ ledger' = job[x].kept
  BY ReplaceEffect
<1>2. faults' \in Faults /\ OneCleaner' /\ (~Overlap' => OneStager')
  BY <1>1 DEF TagInv, OneCleaner, OneStager, Overlap, Moves, AtWork
<1>3. \A y \in Procs : job'[y].pc # "clean"
  BY <1>1 DEF TagInv, OneCleaner, Moves
<1>4. \E g : Tagging(g)'
  <2>1. PICK f : Tagging(f)
    BY DEF TagInv
  <2>2. Tags' = Tags /\ \A y : TagOf(y)' = TagOf(y)
    BY <1>1 DEF Tags, TagOf, Overlap
  <2>3. PICK h : Source(x, h)
    BY <1>1 DEF TagInv
  <2> DEFINE g == [k \in DOMAIN ledger' |-> f[h[k]]]
  <2>4. \A k \in DOMAIN ledger' : h[k] \in DOMAIN ledger /\ ledger'[k] = ledger[h[k]] /\ g[k] = f[h[k]]
    BY <1>1, <2>3 DEF Source
  <2>5. g \in [DOMAIN ledger' -> Tags']
    BY <2>1, <2>2, <2>4 DEF Tagging
  <2> HIDE DEF g
  <2>6. \A k, m \in DOMAIN ledger' : h[k] = h[m] => k = m
    BY <1>1, <2>3 DEF Source
  <2>7. ASSUME NEW k \in DOMAIN ledger', NEW m \in DOMAIN ledger',
               ledger'[k].at = ledger'[m].at, g[k] = g[m]
        PROVE  k = m
    BY <2>1, <2>4, <2>6, <2>7 DEF Tagging
  <2>8. ASSUME NEW y \in Procs, job'[y].pc = "append", NEW k \in DOMAIN ledger',
               ledger'[k].at = job'[y].item, g[k] = TagOf(y)
        PROVE  FALSE
    <3>1. job'[y] = job[y]
      BY <1>1, <2>8 DEF Moves
    <3> QED
      BY <2>1, <2>4, <2>8, <3>1 DEF Tagging
  <2>9. PICK t : t = g
    OBVIOUS
  <2>10. Tagging(t)'
    BY <2>2, <2>5, <2>7, <2>8, <2>9 DEF Tagging
  <2> QED
    BY <2>10
<1> QED
  BY <1>2, <1>3, <1>4 DEF TagInv

\* Every step keeps the tags.
LEMMA TagsKept == ASSUME Typed, TagInv, [Next]_vars PROVE TagInv'
<1>1. CASE UNCHANGED vars
  BY <1>1 DEF vars, TagInv, OneCleaner, OneStager, Overlap, Source, Tagging, Tags, TagOf
<1>2. ASSUME NEW x \in Procs, Stage(x) PROVE TagInv'
  <2>1. job'[x].pc \in {"probe", "copy"}
    BY <1>2, StageEffect
  <2> QED
    BY <1>2, <2>1, StageEffect, QuietTags
<1>3. ASSUME NEW x \in Procs, Probe(x) PROVE TagInv'
  <2>1. job'[x].pc \in {"check", "copy"} /\ job[x].pc \in AtWork
    BY <1>3, ProbeEffect DEF AtWork
  <2> QED
    BY <1>3, <2>1, ProbeEffect, QuietTags
<1>4. ASSUME NEW x \in Procs, Copy(x) PROVE TagInv'
  <2>1. (job'[x].pc \in {"check", "chmod"} /\ job'[x].item = job[x].item) \/ job'[x].pc = "idle"
    BY <1>4, CopyEffect
  <2>2. job[x].pc \in AtWork /\ "idle" \notin AtWork
    BY <1>4, CopyEffect DEF AtWork
  <2> QED
    BY <1>4, <2>1, <2>2, CopyEffect, QuietTags
<1>5. ASSUME NEW x \in Procs, Chmod(x) PROVE TagInv'
  <2>1. (job'[x].pc = "check" /\ job'[x].item = job[x].item) \/ job'[x].pc = "idle"
    BY <1>5, ChmodEffect
  <2>2. job[x].pc \in AtWork /\ "idle" \notin AtWork
    BY <1>5, ChmodEffect DEF AtWork
  <2>3. UNCHANGED <<faults, ledger>> /\ Moves(x)
    BY <1>5, ChmodEffect
  <2> QED
    BY <2>1, <2>2, <2>3, QuietTags
<1>6. ASSUME NEW x \in Procs, CheckLedger(x) PROVE TagInv'
  <2>1. \/ job'[x].pc = "append" /\ job'[x].item = job[x].item /\ ~Listed(job[x].item)
        \/ job'[x].pc = "idle"
    BY <1>6, CheckEffect
  <2>2. job[x].pc \in AtWork /\ "idle" \notin AtWork /\ job[x].item \in Items
    BY <1>6, CheckEffect DEF AtWork
  <2> QED
    BY <1>6, <2>1, <2>2, CheckEffect, QuietTags
<1>7. ASSUME NEW x \in Procs, Kill(x) PROVE TagInv'
  <2>1. job'[x].pc = "idle" /\ "idle" \notin AtWork
    BY <1>7, KillEffect DEF AtWork
  <2> QED
    BY <1>7, <2>1, KillEffect, QuietTags
<1>8. ASSUME NEW i \in Items, ReplacePod(i) PROVE TagInv'
  BY <1>8 DEF ReplacePod, TagInv, OneCleaner, OneStager, Overlap, Source, Tagging, Tags, TagOf
<1> QED
  BY <1>1, <1>2, <1>3, <1>4, <1>5, <1>6, <1>7, <1>8,
     AppendTags, CleanupTags, CleanRowTags, ReplaceTags DEF Next

\* So the rows are no more than the items, times the processes that may stage
\* one at once.
LEMMA TagsBound ==
  ASSUME Typed, TagInv
  PROVE  Len(ledger) <= Cardinality(Items) * (IF Overlap THEN Cardinality(Procs) ELSE 1)
<1>1. /\ Len(ledger) \in Nat /\ DOMAIN ledger = 1 .. Len(ledger)
      /\ \A k \in DOMAIN ledger : ledger[k].at \in Items
  BY RowTypes DEF Typed
<1>2. PICK f : Tagging(f)
  BY DEF TagInv
<1> DEFINE g == [k \in 1 .. Len(ledger) |-> <<ledger[k].at, f[k]>>]
<1>3. g \in Injection(1 .. Len(ledger), Items \X Tags)
  BY <1>1, <1>2 DEF Tagging, Injection, IsInjective
<1>4. IsFiniteSet(Tags) /\ Cardinality(Tags) = (IF Overlap THEN Cardinality(Procs) ELSE 1)
  BY ProcsAssumption, FS_Singleton DEF Tags
<1>5. IsFiniteSet(Items \X Tags) /\ Cardinality(Items \X Tags) = Cardinality(Items) * Cardinality(Tags)
  BY <1>4, ItemsAssumption, FS_Product
<1> HIDE DEF g
<1>6. Cardinality(1 .. Len(ledger)) <= Cardinality(Items \X Tags)
  BY <1>3, <1>5, FS_Injection
<1>7. Cardinality(1 .. Len(ledger)) = Len(ledger)
  BY <1>1, FS_Interval
<1> QED
  BY <1>4, <1>5, <1>6, <1>7

-----------------------------------------------------------------------------
IInv == Typed /\ AloneInv /\ KeptInv /\ HadInv

\* A dumps/ directory without a ledger.
LEMMA InitIInv == Init => IInv /\ StageInv
<1> SUFFICES ASSUME Init PROVE IInv /\ StageInv
  OBVIOUS
<1>1. Typed
  <2>1. Idle \in Jobs /\ <<>> \in Seq(Rows) /\ faults \in SUBSET AllFaults
    BY FaultsAssumption DEF Init, Jobs
  <2> QED
    BY <2>1 DEF Init, Typed
<1>2. \A x \in Procs : job[x].pc = "idle"
  BY DEF Init, Idle
<1>3. AloneInv /\ KeptInv
  BY <1>2 DEF AloneInv, KeptInv
<1>4. HadInv
  <2>1. \A i \in Spared : file[i] = "operator" /\ i.tool = "jattach"
    BY DEF Init, Spared
  <2> QED
    BY <1>2, <2>1 DEF Spared, Init, HadInv, Foreign, HandsOff, Rowed, AtWork
<1>5. StageInv
  BY <1>2 DEF Spared, Init, StageInv, OneStager, RowsOwned, Claims, Covered, Ours, AtWork
<1> QED
  BY <1>1, <1>3, <1>4, <1>5 DEF IInv

\* The inductive invariant, for any processes, items and faults.
THEOREM Invariance == Spec => []IInv
<1>1. IInv /\ [Next]_vars => IInv'
  BY TypesKept, AloneKept, KeptKept, HadKept DEF IInv
<1> QED
  BY InitIInv, <1>1, PTL DEF Spec

\* As long as calls succeed and pods stay, no process overwrites and no cleanup
\* removes a jattach that was in a pod before jdebug, whoever dies, whatever
\* overlaps and whichever engine stages.
THEOREM ProbedFilesStay == Spec => []ProbedFilesUntouched
<1>1. IInv => ProbedFilesUntouched
  BY DEF Spared, IInv, HadInv, Gentle, Foreign, ProbedFilesUntouched
<1> QED
  BY Invariance, <1>1, PTL

\* Whatever fails or dies, a cleanup that nobody overlaps with drops a row of
\* jdebug's own only when the file is gone.
THEOREM RowsOutliveFiles == Spec => OwnedRowKeptUntilRemoved
<1>1. ASSUME IInv, [Next]_vars, ~Overlap, NEW i \in Items, Rowed(ledger, i), ~Rowed(ledger', i)
      PROVE  ~Ours(i)
  <2>1. ledger' # ledger
    BY <1>1
  <2>2. ASSUME NEW y \in Procs, AppendRow(y) PROVE FALSE
    <3> DEFINE r == [owned |-> job[y].owned, at |-> job[y].item]
    <3>1. ledger \in Seq(Rows) /\ r \in Rows /\ ledger' = Append(ledger, r)
      BY <1>1, <2>2, AppendEffect DEF IInv, Typed, Rows
    <3> HIDE DEF r
    <3>2. Rowed(ledger, i) => Rowed(Append(ledger, r), i)
      BY <3>1, RowedAppend
    <3> QED
      BY <1>1, <3>1, <3>2
  <2>3. PICK y \in Procs : ReplaceLedger(y)
    BY <1>1, <2>1, <2>2 DEF Next, vars, Stage, Probe, Copy, Chmod, CheckLedger, Cleanup,
       CleanRow, Kill, ReplacePod
  <2>4. job[y].pc = "clean" /\ job[y].row > Len(ledger) /\ ledger' = job[y].kept
    BY <1>1, <2>3, ReplaceEffect DEF IInv
  <2>5. PICK k \in DOMAIN ledger : ledger[k] = [owned |-> TRUE, at |-> i]
    BY <1>1 DEF Rowed
  <2>6. k < job[y].row /\ ledger[k].at = i
    BY <1>1, <2>4, <2>5, Kinds DEF IInv, Typed
  <2>7. ~Holds(job[y].kept, ledger[k])
    BY <1>1, <2>4, <2>5 DEF Holds, Rowed
  <2> QED
    BY <1>1, <2>4, <2>6, <2>7 DEF IInv, KeptInv
<1>2. IInv /\ [Next]_vars =>
        [~Overlap => \A i \in Items : Rowed(ledger, i) /\ ~Rowed(ledger', i) => ~Ours(i)]_vars
  BY <1>1
<1> QED
  BY Invariance, <1>2, PTL DEF Spec, OwnedRowKeptUntilRemoved

\* Without faults, and with keys that tell the items apart, whatever any number
\* of processes stage at once is listed as jdebug's own.
THEOREM NothingForgotten ==
  ASSUME KeysIdentify PROVE Spec => []NothingStranded
<1>1. IInv /\ StageInv /\ [Next]_vars => StageInv'
  BY StageKept DEF IInv
<1>2. IInv /\ StageInv => NothingStranded
  BY BusyStaged DEF Spared, IInv, StageInv, Covered, NothingStranded, Stranded
<1> QED
  BY InitIInv, Invariance, <1>1, <1>2, PTL DEF Spec

\* TypeOK, with its bound: an item has one row in the ledger, or, where processes
\* overlap, one for each of them at most, since each looks before it appends.
THEOREM LedgerStaysSmall == Spec => []TypeOK
<1>1. ASSUME Init PROVE TagInv
  <2>1. ledger = <<>> /\ DOMAIN ledger = {} /\ faults \in Faults
    BY <1>1 DEF Init
  <2>2. \A x \in Procs : job[x].pc = "idle"
    BY <1>1 DEF Init, Idle
  <2> DEFINE f == [k \in {} |-> 0]
  <2>3. f \in [DOMAIN ledger -> Tags]
    BY <2>1
  <2> HIDE DEF f
  <2>4. Tagging(f)
    BY <2>1, <2>2, <2>3 DEF Tagging
  <2> QED
    BY <2>1, <2>2, <2>4 DEF TagInv, OneCleaner, OneStager, AtWork
<1>2. IInv /\ TagInv /\ [Next]_vars => TagInv'
  BY TagsKept DEF IInv
<1>3. IInv /\ TagInv => TypeOK
  BY TagsBound DEF IInv, Typed, Jobs, TagInv, TypeOK
<1> QED
  BY Invariance, <1>1, <1>2, <1>3, PTL DEF Spec
=============================================================================
