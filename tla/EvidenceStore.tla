---------------------------- MODULE EvidenceStore ----------------------------
(***************************************************************************)
(* One session directory of the evidence store and the runs that write to  *)
(* it: Session/SessionAt, Append and write (core/manifest.go), the file    *)
(* side of Pipeline.run (core/capture.go) and of a snapshot's stepV        *)
(* (core/snapshot.go).                                                     *)
(*                                                                         *)
(* Runs share a directory when $OUT_DIR names it, when a snapshot writes   *)
(* its sections, or when two captures of a pod start within one second.    *)
(* The steps are the system calls: os.WriteFile is an open that truncates  *)
(* and a write on the descriptor, and a rename moves the inode, which a    *)
(* run that has it open keeps on writing to.                               *)
(***************************************************************************)
EXTENDS Naturals, Sequences, FiniteSets

CONSTANTS
  Runs, NoRun,   \* the captures and snapshot sections that use the directory
  Names,         \* artifact names
  Kinds,         \* which of AllKinds occur
  Exclusive,     \* does one run at a time use the directory?
  DiskMayFail    \* may a write of the manifest fail (disk full)?

AllKinds == {"capture", "section", "raw"}

ASSUME RunsAssumption == NoRun \notin Runs
ASSUME KindsAssumption == Kinds \subseteq AllKinds
ASSUME FlagsAssumption == Exclusive \in BOOLEAN /\ DiskMayFail \in BOOLEAN

VARIABLES
  pc,       \* per run: its next system call, or how it ended
  kind,     \* per run: a capture (a snapshot's heap is one), a section with a
            \* validator or without one ("raw")
  name,     \* per run: the artifact it writes
  verdict,  \* per run: "none" until validated, then "ok" or "bad"
  seen,     \* per run: the content it took size and sha256 from
  log,      \* per run: the records it holds in memory
  fd,       \* per run: the inode it has open for writing
  file,     \* the artifacts on disk: who wrote them and what they are worth
  content,  \* per inode: a JSON document of records, or Torn
  manifest, \* the inode manifest.json names
  tmp       \* the inode manifest.json.tmp names

vars == <<pc, kind, name, verdict, seen, log, fd, file, content, manifest, tmp>>
disk == <<file, content, manifest, tmp>>

\* A run writes the manifest at most twice: when it opens a new session and
\* when it appends.
Inodes  == Runs \X {"open", "append"}
NoInode == <<NoRun, "none">>
Json(l) == [whole |-> TRUE, log |-> l]
Torn    == [whole |-> FALSE, log |-> <<>>] \* not a JSON document

Blob    == [by : Runs \union {NoRun}, state : {"absent", "empty", "note", "bad", "good"}]
Absent  == [by |-> NoRun, state |-> "absent"]
Records == [run : Runs, name : Names, ok : BOOLEAN, blob : Blob]

Ended   == {"ok", "invalid", "failed", "killed"}
Live(r) == pc[r] \notin Ended \union {"idle"}
Piped(r) == kind[r] = "capture"

Init ==
  /\ pc = [r \in Runs |-> "idle"]
  /\ kind \in [Runs -> Kinds] /\ name \in [Runs -> Names]
  /\ verdict = [r \in Runs |-> "none"] /\ seen = [r \in Runs |-> Absent]
  /\ log = [r \in Runs |-> <<>>] /\ fd = [r \in Runs |-> NoInode]
  /\ file = [n \in Names |-> Absent]
  /\ content = [i \in Inodes |-> Torn]
  /\ manifest = NoInode /\ tmp = NoInode

Goto(r, l)    == pc' = [pc EXCEPT ![r] = l]
Put(r, state) == file' = [file EXCEPT ![name[r]] = [by |-> r, state |-> state]]

---------------------------------------------------------------------------
(* Opening a session, and the artifact.                                    *)

\* Mutant: every run starts a manifest of its own.
OpenFresh(r) ==
  /\ pc[r] = "idle"
  /\ Exclusive => \A q \in Runs : ~Live(q)
  /\ Goto(r, "truncate")
  /\ UNCHANGED <<kind, name, verdict, seen, log, fd, disk>>

\* MkdirAll, then Stat(manifest.json); a missing manifest is written first.
OpenSession(r) ==
  /\ pc[r] = "idle"
  /\ Exclusive => \A q \in Runs : ~Live(q)
  /\ Goto(r, IF manifest = NoInode THEN "truncate" ELSE "create")
  /\ UNCHANGED <<kind, name, verdict, seen, log, fd, disk>>

\* O_CREATE|O_TRUNC before anything is acquired.
CreateArtifact(r) ==
  /\ pc[r] = "create"
  /\ Put(r, "empty") /\ Goto(r, "acquire")
  /\ UNCHANGED <<kind, name, verdict, seen, log, fd, content, manifest, tmp>>

Acquire(r) ==
  /\ pc[r] = "acquire"
  /\ \E s \in {"bad", "good"} : Put(r, s)
  /\ Goto(r, "validate")
  /\ UNCHANGED <<kind, name, verdict, seen, log, fd, content, manifest, tmp>>

\* The pipeline removes what it could not acquire and records nothing; a
\* section leaves a failure note in the file and records that.
AcquireFails(r) ==
  /\ pc[r] = "acquire"
  /\ IF Piped(r)
     THEN /\ file' = [file EXCEPT ![name[r]] = Absent]
          /\ Goto(r, "failed") /\ UNCHANGED verdict
     ELSE /\ Put(r, "note")
          /\ Goto(r, "hash") /\ verdict' = [verdict EXCEPT ![r] = "bad"]
  /\ UNCHANGED <<kind, name, seen, log, fd, content, manifest, tmp>>

\* Mutant: size and hash are taken before the failure note is written.
HashThenNote(r) ==
  /\ pc[r] = "validate"
  /\ LET ok == kind[r] = "raw" \/ file[name[r]].state = "good" IN
       /\ verdict' = [verdict EXCEPT ![r] = IF ok THEN "ok" ELSE "bad"]
       /\ IF ok \/ Piped(r) THEN UNCHANGED file ELSE Put(r, "note")
  /\ seen' = [seen EXCEPT ![r] = file[name[r]]]
  /\ Goto(r, "read")
  /\ UNCHANGED <<kind, name, log, fd, content, manifest, tmp>>

\* A section that fails its validator is overwritten with the note; one
\* without a validator passes.
Validate(r) ==
  /\ pc[r] = "validate"
  /\ LET ok == kind[r] = "raw" \/ file[name[r]].state = "good" IN
       /\ verdict' = [verdict EXCEPT ![r] = IF ok THEN "ok" ELSE "bad"]
       /\ IF ok \/ Piped(r) THEN UNCHANGED file ELSE Put(r, "note")
  /\ Goto(r, "hash")
  /\ UNCHANGED <<kind, name, seen, log, fd, content, manifest, tmp>>

\* Stat and sha256, after every change the run makes to the file.
Hash(r) ==
  /\ pc[r] = "hash"
  /\ seen' = [seen EXCEPT ![r] = file[name[r]]]
  /\ Goto(r, "read")
  /\ UNCHANGED <<kind, name, verdict, log, fd, disk>>

---------------------------------------------------------------------------
(* Session.Append and Session.write.                                       *)

Verdict(r)      == IF verdict[r] = "ok" THEN "ok" ELSE "invalid"

\* A capture fails with its Append; a section's is not looked at.
AppendFailed(r) == Goto(r, IF Piped(r) \/ verdict[r] = "none" THEN "failed" ELSE Verdict(r))

ReadManifest(r) ==
  /\ pc[r] = "read"
  /\ IF manifest = NoInode \/ ~content[manifest].whole
     THEN AppendFailed(r) /\ UNCHANGED log
     ELSE /\ log' = [log EXCEPT ![r] = Append(content[manifest].log,
                       [run |-> r, name |-> name[r], ok |-> verdict[r] = "ok",
                        blob |-> seen[r]])]
          /\ Goto(r, "truncate")
  /\ UNCHANGED <<kind, name, verdict, seen, fd, disk>>

\* Mutant: manifest.json is rewritten in place.
TruncateInPlace(r) ==
  /\ pc[r] = "truncate"
  /\ LET fresh == <<r, IF verdict[r] = "none" THEN "open" ELSE "append">>
         i == IF manifest = NoInode THEN fresh ELSE manifest IN
       /\ tmp' = i /\ fd' = [fd EXCEPT ![r] = i]
       /\ content' = [content EXCEPT ![i] = Torn]
  /\ Goto(r, "write")
  /\ UNCHANGED <<kind, name, verdict, seen, log, file, manifest>>

\* os.WriteFile opens manifest.json.tmp: a new inode, or the one a run that
\* died or is still at work has left there, emptied.
TruncateTmp(r) ==
  /\ pc[r] = "truncate"
  /\ LET fresh == <<r, IF verdict[r] = "none" THEN "open" ELSE "append">>
         i == IF tmp = NoInode THEN fresh ELSE tmp IN
       /\ tmp' = i /\ fd' = [fd EXCEPT ![r] = i]
       /\ content' = [content EXCEPT ![i] = Torn]
  /\ Goto(r, "write")
  /\ UNCHANGED <<kind, name, verdict, seen, log, file, manifest>>

\* Written from offset 0: over a longer document a tail remains.
WriteTmp(r) ==
  /\ pc[r] = "write"
  /\ LET old == content[fd[r]] IN
       \/ /\ Len(old.log) <= Len(log[r])
          /\ content' = [content EXCEPT ![fd[r]] = Json(log[r])]
       \/ /\ old.whole /\ Len(old.log) >= Len(log[r])
          /\ content' = [content EXCEPT ![fd[r]] = Torn]
  /\ Goto(r, "rename")
  /\ UNCHANGED <<kind, name, verdict, seen, log, fd, file, manifest, tmp>>

WriteFails(r) ==
  /\ DiskMayFail /\ pc[r] \in {"truncate", "write"}
  /\ AppendFailed(r)
  /\ UNCHANGED <<kind, name, verdict, seen, log, fd, disk>>

\* The rename publishes whatever inode the temporary name has by now.
Rename(r) ==
  /\ pc[r] = "rename"
  /\ IF tmp = NoInode
     THEN AppendFailed(r) /\ UNCHANGED <<manifest, tmp>>
     ELSE /\ manifest' = tmp /\ tmp' = NoInode
          /\ Goto(r, IF verdict[r] = "none" THEN "create" ELSE "report")
  /\ UNCHANGED <<kind, name, verdict, seen, log, fd, file, content>>

\* "wrote ...", or "FAILED validation ... file kept for inspection".
Report(r) ==
  /\ pc[r] = "report"
  /\ Goto(r, Verdict(r))
  /\ UNCHANGED <<kind, name, verdict, seen, log, fd, disk>>

\* The process dies between two system calls.
Kill(r) ==
  /\ Live(r)
  /\ Goto(r, "killed")
  /\ UNCHANGED <<kind, name, verdict, seen, log, fd, disk>>

Next == \E r \in Runs :
  \/ OpenSession(r) \/ CreateArtifact(r) \/ Acquire(r) \/ AcquireFails(r)
  \/ Validate(r) \/ Hash(r) \/ ReadManifest(r) \/ TruncateTmp(r)
  \/ WriteTmp(r) \/ WriteFails(r) \/ Rename(r) \/ Report(r) \/ Kill(r)

Spec == Init /\ [][Next]_vars

---------------------------------------------------------------------------
(* Properties.                                                             *)

TypeOK ==
  /\ pc \in [Runs -> {"idle", "create", "acquire", "validate", "hash", "read",
                      "truncate", "write", "rename", "report"} \union Ended]
  /\ kind \in [Runs -> Kinds] /\ name \in [Runs -> Names]
  /\ verdict \in [Runs -> {"none", "ok", "bad"}]
  /\ seen \in [Runs -> Blob] /\ file \in [Names -> Blob]
  /\ log \in [Runs -> Seq(Records)]
  /\ fd \in [Runs -> Inodes \union {NoInode}]
  /\ content \in [Inodes -> [whole : BOOLEAN, log : Seq(Records)]]
  /\ manifest \in Inodes \union {NoInode} /\ tmp \in Inodes \union {NoInode}

\* The records a reader of manifest.json gets.
History  == IF manifest = NoInode \/ ~content[manifest].whole THEN <<>>
            ELSE content[manifest].log
Recorded == {History[i] : i \in DOMAIN History}
HasRecord(r) == \E rec \in Recorded : rec.run = r /\ rec.ok = (verdict[r] = "ok")

\* Whatever dies or fails in between, manifest.json is absent or a complete
\* document (manifest.go:109-119).
ManifestReadable == manifest = NoInode \/ content[manifest].whole

\* As long as nobody else takes its name, a recorded file is on disk with the
\* size and hash of its record, the failure notes of sections included
\* (snapshot.go:64-67).
RecordDescribesFile ==
  \A rec \in Recorded : file[rec.name].by = rec.run => file[rec.name] = rec.blob

\* What EvidenceLog calls the log and the answers.
Verdicts == [i \in DOMAIN History |-> [run |-> History[i].run, ok |-> History[i].ok]]
Answers  == [r \in Runs |-> IF pc[r] \notin Ended THEN "open"
                            ELSE IF Piped(r) /\ pc[r] \in {"ok", "invalid"} THEN pc[r]
                            ELSE "other"]

\* The store implements the log: nothing is ever dropped from it or changed,
\* and a capture that was told "wrote" or "FAILED validation" has its record,
\* for ever (capture.go:112-120).  Sections are not told whether they were
\* recorded, so they promise nothing.
Log == INSTANCE EvidenceLog WITH log <- Verdicts, answer <- Answers

ImplementsLog == Log!Spec

---------------------------------------------------------------------------
(* A statement of a comment that the code does not live up to.             *)

\* "an invalid file kept for inspection must be distinguishable from a good
\* one forever after" (capture.go:112-113).
InvalidDistinguishable ==
  \A r \in Runs : pc[r] = "invalid" /\ file[name[r]].by = r => HasRecord(r)
=============================================================================
