------------------------- MODULE EvidenceStoreProofs -------------------------
(***************************************************************************)
(* Proofs about EvidenceStore: its types for any runs, and, for runs that  *)
(* use the session directory one after the other, that manifest.json is    *)
(* readable at every moment and that the store implements EvidenceLog,     *)
(* whatever dies and whatever the disk does in between.                    *)
(***************************************************************************)
EXTENDS EvidenceStore, TLAPS

Before  == {"idle", "create", "acquire", "validate", "hash", "read"}
Writing == {"truncate", "write", "rename"}

\* One run at a time has anything under way.
AloneInv == \A q, r \in Runs : Live(q) /\ Live(r) => q = r

\* A run has a verdict from its validation on; the manifest it writes before
\* that is the first one.
VerdictInv == \A r \in Runs :
  /\ pc[r] \in {"idle", "create", "acquire", "validate"} => verdict[r] = "none"
  /\ pc[r] \in {"hash", "read", "report"} => verdict[r] # "none"
  /\ pc[r] \in Writing => (verdict[r] = "none" <=> manifest = NoInode)

\* The temporary file is never the manifest, and the inode a run makes for its
\* record is new when it makes it.
InodeInv ==
  /\ tmp = NoInode \/ tmp # manifest
  /\ \A r \in Runs :
       \/ pc[r] \in Before \union {"truncate"}
       \/ pc[r] \in Writing /\ verdict[r] = "none"
       => <<r, "append">> \notin {manifest, tmp}

\* What a run that writes has in memory and on disk.
RecordOf(r) == [run |-> r, name |-> name[r], ok |-> verdict[r] = "ok", blob |-> seen[r]]

HoldInv == \A r \in Runs :
  /\ pc[r] \in Before => log[r] = <<>>
  /\ pc[r] \in Writing => log[r] = IF manifest = NoInode THEN <<>>
                                   ELSE Append(content[manifest].log, RecordOf(r))
  /\ pc[r] \in {"write", "rename"} => tmp # NoInode /\ fd[r] = tmp
  /\ pc[r] = "write" => content[tmp] = Torn
  /\ pc[r] = "rename" => content[tmp] = Json(log[r])

\* A run is recorded by its rename and not before.
RecordInv == \A r \in Runs :
  /\ pc[r] \in Before \union Writing => \A rec \in Recorded : rec.run # r
  /\ pc[r] = "report" => HasRecord(r)

\* It has taken size and hash of the file as it is.
SeenInv == \A r \in Runs :
  pc[r] = "read" \/ (pc[r] \in Writing /\ verdict[r] # "none") => seen[r] = file[name[r]]

IInv ==
  /\ TypeOK /\ ManifestReadable /\ AloneInv /\ VerdictInv /\ InodeInv /\ HoldInv
  /\ RecordInv /\ SeenInv /\ RecordDescribesFile

\* The disjuncts of Next.
Step(r) ==
  \/ OpenSession(r) \/ CreateArtifact(r) \/ Acquire(r) \/ AcquireFails(r)
  \/ Validate(r) \/ Hash(r) \/ ReadManifest(r) \/ TruncateTmp(r)
  \/ WriteTmp(r) \/ WriteFails(r) \/ Rename(r) \/ Report(r) \/ Kill(r)

---------------------------------------------------------------------------
\* A run that writes to its artifact leaves a blob there.
LEMMA PutType ==
  ASSUME TypeOK, NEW r \in Runs, NEW s \in {"absent", "empty", "note", "bad", "good"}, Put(r, s)
  PROVE  file' \in [Names -> Blob]
<1>1. [by |-> r, state |-> s] \in Blob
  BY DEF Blob
<1> QED
  BY <1>1 DEF TypeOK, Put

\* Nobody else has anything under way when a run takes a step.
LEMMA OthersIdle ==
  ASSUME Exclusive, TypeOK, AloneInv, NEW r \in Runs, Step(r)
  PROVE  \A q \in Runs \ {r} : ~Live(q)
<1>1. CASE OpenSession(r)
  BY <1>1 DEF OpenSession
<1>2. CASE ~OpenSession(r)
  <2>1. Live(r)
    BY <1>2 DEF Step, CreateArtifact, Acquire, AcquireFails, Validate, Hash, ReadManifest,
       TruncateTmp, WriteTmp, WriteFails, Rename, Report, Kill, Live, Ended
  <2> QED
    BY <2>1 DEF AloneInv
<1> QED
  BY <1>1, <1>2

\* The types, for runs that may overlap.
LEMMA TypeStep ==
  ASSUME TypeOK, [Next]_vars PROVE TypeOK'
<1>1. CASE UNCHANGED vars
  BY <1>1 DEF vars, TypeOK
<1>2. ASSUME NEW r \in Runs, Step(r) PROVE TypeOK'
  <2>1. CASE OpenSession(r)
    BY <1>2, <2>1 DEF OpenSession, Goto, disk, Ended, Json, Torn, Blob, Absent, Records,
         Inodes, TypeOK
  <2>2. CASE CreateArtifact(r)
    BY <1>2, <2>2 DEF CreateArtifact, Put, Goto, Ended, Json, Torn, Blob, Absent,
         Records, Inodes, TypeOK
  <2>3. CASE Acquire(r)
    <3>1. file' \in [Names -> Blob]
      BY <1>2, <2>3, PutType DEF Acquire
    <3> QED
      BY <1>2, <2>3, <3>1 DEF Acquire, Goto, TypeOK, Ended
  <2>4. CASE AcquireFails(r)
    <3>1. Absent \in Blob
      BY DEF Absent, Blob
    <3>2. file' \in [Names -> Blob]
      BY <1>2, <2>4, <3>1, PutType DEF AcquireFails, TypeOK
    <3> QED
      BY <1>2, <2>4, <3>2 DEF AcquireFails, Goto, TypeOK, Ended
  <2>5. CASE Validate(r)
    <3>1. file' \in [Names -> Blob]
      BY <1>2, <2>5, PutType DEF Validate, TypeOK
    <3>2. verdict' \in [Runs -> {"none", "ok", "bad"}]
      BY <1>2, <2>5 DEF Validate, TypeOK
    <3> QED
      BY <1>2, <2>5, <3>1, <3>2 DEF Validate, Goto, TypeOK, Ended
  <2>6. CASE Hash(r)
    BY <1>2, <2>6 DEF Hash, Goto, disk, Ended, Json, Torn, Blob, Absent, Records, Inodes,
         TypeOK
  <2>7. CASE ReadManifest(r)
    <3>1. CASE manifest = NoInode \/ ~content[manifest].whole
      BY <1>2, <2>7, <3>1 DEF ReadManifest, AppendFailed, Verdict, Goto, disk, TypeOK, Ended
    <3>2. CASE ~(manifest = NoInode \/ ~content[manifest].whole)
      <4>1. content[manifest].log \in Seq(Records)
        BY <3>2 DEF TypeOK
      <4>2. RecordOf(r) \in Records
        BY <1>2 DEF RecordOf, Records, TypeOK
      <4>3. log' = [log EXCEPT ![r] = Append(content[manifest].log, RecordOf(r))]
        BY <2>7, <3>2 DEF ReadManifest, RecordOf
      <4>4. log' \in [Runs -> Seq(Records)]
        BY <1>2, <4>1, <4>2, <4>3 DEF TypeOK
      <4> QED
        BY <1>2, <2>7, <3>2, <4>4 DEF ReadManifest, Goto, disk, TypeOK, Ended
    <3> QED
      BY <3>1, <3>2
  <2>8. CASE TruncateTmp(r)
    <3> DEFINE fresh == <<r, IF verdict[r] = "none" THEN "open" ELSE "append">>
               i     == IF tmp = NoInode THEN fresh ELSE tmp
    <3>1. i \in Inodes
      BY <1>2 DEF TypeOK, Inodes
    <3>2. Torn \in [whole : BOOLEAN, log : Seq(Records)]
      BY DEF Torn
    <3>3. tmp' = i /\ fd' = [fd EXCEPT ![r] = i] /\ content' = [content EXCEPT ![i] = Torn]
      BY <2>8 DEF TruncateTmp
    <3>4. content' \in [Inodes -> [whole : BOOLEAN, log : Seq(Records)]]
      BY <3>1, <3>2, <3>3 DEF TypeOK
    <3>5. fd' \in [Runs -> Inodes \union {NoInode}] /\ tmp' \in Inodes
      BY <1>2, <3>1, <3>3 DEF TypeOK
    <3> QED
      BY <1>2, <2>8, <3>4, <3>5 DEF TruncateTmp, Goto, TypeOK, Ended
  <2>9. CASE WriteTmp(r)
    <3>1. {Json(log[r]), Torn} \subseteq [whole : BOOLEAN, log : Seq(Records)]
      BY <1>2 DEF TypeOK, Json, Torn
    <3>2. content' \in [Inodes -> [whole : BOOLEAN, log : Seq(Records)]]
      BY <1>2, <2>9, <3>1 DEF WriteTmp, TypeOK
    <3> QED
      BY <1>2, <2>9, <3>2 DEF WriteTmp, Goto, TypeOK, Ended
  <2>10. CASE WriteFails(r)
    BY <1>2, <2>10 DEF WriteFails, AppendFailed, Verdict, Goto, Piped, disk, Ended, Json,
         Torn, Blob, Absent, Records, Inodes, TypeOK
  <2>11. CASE Rename(r)
    BY <1>2, <2>11 DEF Rename, AppendFailed, Verdict, Goto, Piped, Ended, Json, Torn,
         Blob, Absent, Records, Inodes, TypeOK
  <2>12. CASE Report(r)
    BY <1>2, <2>12 DEF Report, Verdict, Goto, disk, Ended, Json, Torn, Blob, Absent,
         Records, Inodes, TypeOK
  <2>13. CASE Kill(r)
    BY <1>2, <2>13 DEF Kill, Goto, disk, Ended, Json, Torn, Blob, Absent, Records,
         Inodes, TypeOK
  <2> QED
    BY <1>2, <2>1, <2>2, <2>3, <2>4, <2>5, <2>6, <2>7, <2>8, <2>9, <2>10, <2>11, <2>12,
         <2>13 DEF Step
<1> QED
  BY <1>1, <1>2 DEF Next, Step

LEMMA AloneStep ==
  ASSUME Exclusive, TypeOK, AloneInv, [Next]_vars PROVE AloneInv'
<1>1. CASE UNCHANGED vars
  BY <1>1 DEF vars, AloneInv, Live
<1>2. ASSUME NEW r \in Runs, Step(r) PROVE AloneInv'
  <2>1. CASE OpenSession(r)
    BY <1>2, <2>1 DEF OpenSession, Goto, disk, Ended, Live, TypeOK, AloneInv
  <2>2. CASE CreateArtifact(r)
    BY <1>2, <2>2 DEF CreateArtifact, Put, Goto, Ended, Live, TypeOK, AloneInv
  <2>3. CASE Acquire(r)
    BY <1>2, <2>3 DEF Acquire, Put, Goto, Ended, Live, TypeOK, AloneInv
  <2>4. CASE AcquireFails(r)
    BY <1>2, <2>4 DEF AcquireFails, Put, Goto, Piped, Ended, Live, TypeOK, AloneInv
  <2>5. CASE Validate(r)
    BY <1>2, <2>5 DEF Validate, Put, Goto, Piped, Ended, Live, TypeOK, AloneInv
  <2>6. CASE Hash(r)
    BY <1>2, <2>6 DEF Hash, Goto, disk, Ended, Live, TypeOK, AloneInv
  <2>7. CASE ReadManifest(r)
    BY <1>2, <2>7 DEF ReadManifest, AppendFailed, Verdict, Goto, Piped, disk, Ended,
         Live, TypeOK, AloneInv
  <2>8. CASE TruncateTmp(r)
    BY <1>2, <2>8 DEF TruncateTmp, Goto, Ended, Live, TypeOK, AloneInv
  <2>9. CASE WriteTmp(r)
    BY <1>2, <2>9 DEF WriteTmp, Goto, Ended, Live, TypeOK, AloneInv
  <2>10. CASE WriteFails(r)
    BY <1>2, <2>10 DEF WriteFails, AppendFailed, Verdict, Goto, Piped, disk, Ended, Live,
         TypeOK, AloneInv
  <2>11. CASE Rename(r)
    BY <1>2, <2>11 DEF Rename, AppendFailed, Verdict, Goto, Piped, Ended, Live, TypeOK,
         AloneInv
  <2>12. CASE Report(r)
    BY <1>2, <2>12 DEF Report, Verdict, Goto, disk, Ended, Live, TypeOK, AloneInv
  <2>13. CASE Kill(r)
    BY <1>2, <2>13 DEF Kill, Goto, disk, Ended, Live, TypeOK, AloneInv
  <2> QED
    BY <1>2, <2>1, <2>2, <2>3, <2>4, <2>5, <2>6, <2>7, <2>8, <2>9, <2>10, <2>11, <2>12,
         <2>13 DEF Step
<1> QED
  BY <1>1, <1>2 DEF Next, Step

LEMMA VerdictStep ==
  ASSUME Exclusive, TypeOK, ManifestReadable, AloneInv, VerdictInv, [Next]_vars
  PROVE  VerdictInv'
<1>1. CASE UNCHANGED vars
  BY <1>1 DEF vars, VerdictInv
<1>2. ASSUME NEW r \in Runs, Step(r) PROVE VerdictInv'
  <2>1. CASE OpenSession(r)
    BY <1>2, <2>1 DEF OpenSession, Goto, disk, Before, Writing, Ended, Live, TypeOK,
         ManifestReadable, AloneInv, VerdictInv, Inodes, NoInode
  <2>2. CASE CreateArtifact(r)
    BY <1>2, <2>2 DEF CreateArtifact, Put, Goto, Before, Writing, Ended, Live, TypeOK,
         ManifestReadable, AloneInv, VerdictInv, Inodes, NoInode
  <2>3. CASE Acquire(r)
    BY <1>2, <2>3 DEF Acquire, Put, Goto, Before, Writing, Ended, Live, TypeOK,
         ManifestReadable, AloneInv, VerdictInv, Inodes, NoInode
  <2>4. CASE AcquireFails(r)
    BY <1>2, <2>4 DEF AcquireFails, Put, Goto, Piped, Before, Writing, Ended, Live,
         TypeOK, ManifestReadable, AloneInv, VerdictInv, Inodes, NoInode
  <2>5. CASE Validate(r)
    BY <1>2, <2>5 DEF Validate, Put, Goto, Piped, Before, Writing, Ended, Live, TypeOK,
         ManifestReadable, AloneInv, VerdictInv, Inodes, NoInode
  <2>6. CASE Hash(r)
    BY <1>2, <2>6 DEF Hash, Goto, disk, Before, Writing, Ended, Live, TypeOK,
         ManifestReadable, AloneInv, VerdictInv, Inodes, NoInode
  <2>7. CASE ReadManifest(r)
    BY <1>2, <2>7 DEF ReadManifest, AppendFailed, Verdict, Goto, Piped, disk, Before,
         Writing, Ended, Live, TypeOK, ManifestReadable, AloneInv, VerdictInv, Inodes,
         NoInode
  <2>8. CASE TruncateTmp(r)
    BY <1>2, <2>8 DEF TruncateTmp, Goto, Before, Writing, Ended, Live, TypeOK,
         ManifestReadable, AloneInv, VerdictInv, Inodes, NoInode
  <2>9. CASE WriteTmp(r)
    BY <1>2, <2>9 DEF WriteTmp, Goto, Before, Writing, Ended, Live, TypeOK,
         ManifestReadable, AloneInv, VerdictInv, Inodes, NoInode
  <2>10. CASE WriteFails(r)
    BY <1>2, <2>10 DEF WriteFails, AppendFailed, Verdict, Goto, Piped, disk, Before,
         Writing, Ended, Live, TypeOK, ManifestReadable, AloneInv, VerdictInv, Inodes,
         NoInode
  <2>11. CASE Rename(r)
    <3>1. \A q \in Runs \ {r} : pc'[q] = pc[q] /\ pc[q] \in Ended \union {"idle"}
      BY <1>2, <2>11, OthersIdle DEF Rename, AppendFailed, Goto, Live, TypeOK
    <3>2. pc'[r] \in {"failed", "ok", "invalid", "create", "report"}
      BY <1>2, <2>11 DEF Rename, AppendFailed, Verdict, Goto, TypeOK
    <3>3. (pc'[r] = "create" => verdict[r] = "none") /\ (pc'[r] = "report" => verdict[r] # "none")
      BY <1>2, <2>11 DEF Rename, AppendFailed, Verdict, Goto, TypeOK
    <3>4. UNCHANGED verdict
      BY <2>11 DEF Rename
    <3> QED
      BY <1>2, <3>1, <3>2, <3>3, <3>4 DEF VerdictInv, Ended, Writing
  <2>12. CASE Report(r)
    BY <1>2, <2>12 DEF Report, Verdict, Goto, disk, Before, Writing, Ended, Live, TypeOK,
         ManifestReadable, AloneInv, VerdictInv, Inodes, NoInode
  <2>13. CASE Kill(r)
    BY <1>2, <2>13 DEF Kill, Goto, disk, Before, Writing, Ended, Live, TypeOK,
         ManifestReadable, AloneInv, VerdictInv, Inodes, NoInode
  <2> QED
    BY <1>2, <2>1, <2>2, <2>3, <2>4, <2>5, <2>6, <2>7, <2>8, <2>9, <2>10, <2>11, <2>12,
         <2>13 DEF Step
<1> QED
  BY <1>1, <1>2 DEF Next, Step

\* What a step of r leaves as it was.
LEMMA Frame ==
  ASSUME Exclusive, TypeOK, AloneInv, NEW r \in Runs, Step(r), NEW q \in Runs \ {r}
  PROVE  /\ pc'[q] = pc[q] /\ pc[q] \in Ended \union {"idle"}
         /\ verdict'[q] = verdict[q] /\ log'[q] = log[q] /\ seen'[q] = seen[q] /\ fd'[q] = fd[q]
         /\ UNCHANGED <<kind, name>>
<1>1. pc[q] \in Ended \union {"idle"}
  BY OthersIdle DEF Live
<1>2. /\ pc'[q] = pc[q] /\ verdict'[q] = verdict[q] /\ log'[q] = log[q]
      /\ seen'[q] = seen[q] /\ fd'[q] = fd[q] /\ UNCHANGED <<kind, name>>
  BY DEF Step, OpenSession, CreateArtifact, Acquire, AcquireFails, Validate, Hash, ReadManifest,
     TruncateTmp, WriteTmp, WriteFails, Rename, Report, Kill, AppendFailed, Goto, TypeOK
<1> QED
  BY <1>1, <1>2

LEMMA InodeStep ==
  ASSUME Exclusive, TypeOK, ManifestReadable, AloneInv, VerdictInv, InodeInv, [Next]_vars
  PROVE  InodeInv'
<1>1. CASE UNCHANGED vars
  BY <1>1 DEF vars, InodeInv, Before, Writing
<1>2. ASSUME NEW r \in Runs, Step(r) PROVE InodeInv'
  <2>1. CASE OpenSession(r)
    BY <1>2, <2>1 DEF OpenSession, Goto, disk, Before, Writing, Ended, Live, TypeOK,
         ManifestReadable, AloneInv, VerdictInv, Inodes, NoInode, InodeInv
  <2>2. CASE CreateArtifact(r)
    BY <1>2, <2>2 DEF CreateArtifact, Put, Goto, Before, Writing, Ended, Live, TypeOK,
         ManifestReadable, AloneInv, VerdictInv, Inodes, NoInode, InodeInv
  <2>3. CASE Acquire(r)
    BY <1>2, <2>3 DEF Acquire, Put, Goto, Before, Writing, Ended, Live, TypeOK,
         ManifestReadable, AloneInv, VerdictInv, Inodes, NoInode, InodeInv
  <2>4. CASE AcquireFails(r)
    BY <1>2, <2>4 DEF AcquireFails, Put, Goto, Piped, Before, Writing, Ended, Live,
         TypeOK, ManifestReadable, AloneInv, VerdictInv, Inodes, NoInode, InodeInv
  <2>5. CASE Validate(r)
    BY <1>2, <2>5 DEF Validate, Put, Goto, Piped, Before, Writing, Ended, Live, TypeOK,
         ManifestReadable, AloneInv, VerdictInv, Inodes, NoInode, InodeInv
  <2>6. CASE Hash(r)
    BY <1>2, <2>6 DEF Hash, Goto, disk, Before, Writing, Ended, Live, TypeOK,
         ManifestReadable, AloneInv, VerdictInv, Inodes, NoInode, InodeInv
  <2>7. CASE ReadManifest(r)
    BY <1>2, <2>7 DEF ReadManifest, AppendFailed, Verdict, Goto, Piped, disk, Before,
         Writing, Ended, Live, TypeOK, ManifestReadable, AloneInv, VerdictInv, Inodes,
         NoInode, InodeInv
  <2>8. CASE TruncateTmp(r)
    BY <1>2, <2>8 DEF TruncateTmp, Goto, Before, Writing, Ended, Live, TypeOK,
         ManifestReadable, AloneInv, VerdictInv, Inodes, NoInode, InodeInv
  <2>9. CASE WriteTmp(r)
    BY <1>2, <2>9 DEF WriteTmp, Goto, Before, Writing, Ended, Live, TypeOK,
         ManifestReadable, AloneInv, VerdictInv, Inodes, NoInode, InodeInv
  <2>10. CASE WriteFails(r)
    BY <1>2, <2>10 DEF WriteFails, AppendFailed, Verdict, Goto, Piped, disk, Before,
         Writing, Ended, Live, TypeOK, ManifestReadable, AloneInv, VerdictInv, Inodes,
         NoInode, InodeInv
  <2>11. CASE Rename(r)
    <3>1. CASE tmp = NoInode
      BY <1>2, <2>11, <3>1 DEF Rename, AppendFailed, Verdict, Goto, InodeInv, Before, Writing, TypeOK
    <3>2. CASE tmp # NoInode
      <4>1. manifest' = tmp /\ tmp' = NoInode /\ UNCHANGED verdict
        BY <2>11, <3>2 DEF Rename
      <4>2. \A q \in Runs : <<q, "append">> # NoInode
        BY RunsAssumption DEF NoInode
      <4>3. /\ pc[r] = "rename" /\ pc'[r] \in {"create", "report"}
            /\ pc'[r] = "create" => verdict[r] = "none"
        BY <1>2, <2>11, <3>2 DEF Rename, Goto, TypeOK
      <4>4. \A q \in Runs \ {r} : pc'[q] = pc[q] /\ pc[q] \in Ended \union {"idle"}
        BY <1>2, Frame
      <4> QED
        BY <1>2, <4>1, <4>2, <4>3, <4>4 DEF InodeInv, Before, Writing, Ended
    <3> QED
      BY <3>1, <3>2
  <2>12. CASE Report(r)
    BY <1>2, <2>12 DEF Report, Verdict, Goto, disk, Before, Writing, Ended, Live, TypeOK,
         ManifestReadable, AloneInv, VerdictInv, Inodes, NoInode, InodeInv
  <2>13. CASE Kill(r)
    BY <1>2, <2>13 DEF Kill, Goto, disk, Before, Writing, Ended, Live, TypeOK,
         ManifestReadable, AloneInv, VerdictInv, Inodes, NoInode, InodeInv
  <2> QED
    BY <1>2, <2>1, <2>2, <2>3, <2>4, <2>5, <2>6, <2>7, <2>8, <2>9, <2>10, <2>11, <2>12,
         <2>13 DEF Step
<1> QED
  BY <1>1, <1>2 DEF Next, Step

\* The manifest is not written to while it has its name.
LEMMA ManifestKept ==
  ASSUME Exclusive, TypeOK, VerdictInv, InodeInv, HoldInv, NEW r \in Runs, Step(r),
         manifest # NoInode
  PROVE  content'[manifest] = content[manifest]
<1>1. CASE TruncateTmp(r)
  <2> DEFINE fresh == <<r, IF verdict[r] = "none" THEN "open" ELSE "append">>
             i     == IF tmp = NoInode THEN fresh ELSE tmp
  <2>1. pc[r] = "truncate" /\ content' = [content EXCEPT ![i] = Torn]
    BY <1>1 DEF TruncateTmp
  <2>2. verdict[r] # "none"
    BY <2>1 DEF VerdictInv, Writing
  <2>3. i # manifest
    BY <2>1, <2>2 DEF InodeInv
  <2> QED
    BY <2>1, <2>3 DEF TypeOK
<1>2. CASE WriteTmp(r)
  <2>1. fd[r] = tmp /\ tmp # manifest
    BY <1>2 DEF WriteTmp, HoldInv, InodeInv
  <2> QED
    BY <1>2, <2>1 DEF WriteTmp, TypeOK
<1> QED
  BY <1>1, <1>2 DEF Step, OpenSession, CreateArtifact, Acquire, AcquireFails, Validate, Hash,
     ReadManifest, WriteFails, Rename, Report, Kill, disk

LEMMA ReadableStep ==
  ASSUME Exclusive, TypeOK, ManifestReadable, VerdictInv, InodeInv, HoldInv, [Next]_vars
  PROVE  ManifestReadable'
<1>1. CASE UNCHANGED vars
  BY <1>1 DEF vars, ManifestReadable
<1>2. ASSUME NEW r \in Runs, Step(r) PROVE ManifestReadable'
  <2>1. CASE Rename(r) /\ tmp # NoInode
    <3>1. content[tmp] = Json(log[r]) /\ manifest' = tmp /\ content' = content
      BY <2>1 DEF Rename, HoldInv
    <3> QED
      BY <3>1 DEF ManifestReadable, Json
  <2>2. CASE ~(Rename(r) /\ tmp # NoInode)
    <3>1. manifest' = manifest
      BY <1>2, <2>2 DEF Step, OpenSession, CreateArtifact, Acquire, AcquireFails, Validate, Hash,
         ReadManifest, TruncateTmp, WriteTmp, WriteFails, Rename, Report, Kill, disk
    <3> QED
      BY <1>2, <3>1, ManifestKept DEF ManifestReadable
  <2> QED
    BY <2>1, <2>2
<1> QED
  BY <1>1, <1>2 DEF Next, Step

LEMMA HoldStep ==
  ASSUME Exclusive, TypeOK, ManifestReadable, AloneInv, VerdictInv, InodeInv, HoldInv, [Next]_vars
  PROVE  HoldInv'
<1>1. CASE UNCHANGED vars
  BY <1>1 DEF vars, HoldInv, RecordOf
<1>2. ASSUME NEW r \in Runs, Step(r) PROVE HoldInv'
  <2>1. CASE OpenSession(r)
    BY <1>2, <2>1 DEF OpenSession, Goto, disk, Before, Writing, Ended, Live, TypeOK,
         ManifestReadable, AloneInv, VerdictInv, Inodes, NoInode, InodeInv, HoldInv,
         RecordOf
  <2>2. CASE CreateArtifact(r)
    BY <1>2, <2>2 DEF CreateArtifact, Put, Goto, Before, Writing, Ended, Live, TypeOK,
         ManifestReadable, AloneInv, VerdictInv, Inodes, NoInode, InodeInv, HoldInv,
         RecordOf
  <2>3. CASE Acquire(r)
    BY <1>2, <2>3 DEF Acquire, Put, Goto, Before, Writing, Ended, Live, TypeOK,
         ManifestReadable, AloneInv, VerdictInv, Inodes, NoInode, InodeInv, HoldInv,
         RecordOf
  <2>4. CASE AcquireFails(r)
    BY <1>2, <2>4 DEF AcquireFails, Put, Goto, Piped, Before, Writing, Ended, Live,
         TypeOK, ManifestReadable, AloneInv, VerdictInv, Inodes, NoInode, InodeInv,
         HoldInv, RecordOf
  <2>5. CASE Validate(r)
    BY <1>2, <2>5 DEF Validate, Put, Goto, Piped, Before, Writing, Ended, Live, TypeOK,
         ManifestReadable, AloneInv, VerdictInv, Inodes, NoInode, InodeInv, HoldInv,
         RecordOf
  <2>6. CASE Hash(r)
    BY <1>2, <2>6 DEF Hash, Goto, disk, Before, Writing, Ended, Live, TypeOK,
         ManifestReadable, AloneInv, VerdictInv, Inodes, NoInode, InodeInv, HoldInv,
         RecordOf
  <2>7. CASE ReadManifest(r)
    <3>1. \A q \in Runs \ {r} :
            pc'[q] = pc[q] /\ pc[q] \in Ended \union {"idle"} /\ log'[q] = log[q]
      BY <1>2, Frame
    <3>2. CASE manifest = NoInode \/ ~content[manifest].whole
      <4>1. pc'[r] \in Ended /\ UNCHANGED log
        BY <1>2, <2>7, <3>2 DEF ReadManifest, AppendFailed, Verdict, Goto, Ended, TypeOK
      <4> QED
        BY <1>2, <3>1, <4>1 DEF HoldInv, Before, Writing, Ended
    <3>3. CASE ~(manifest = NoInode \/ ~content[manifest].whole)
      <4>1. /\ pc'[r] = "truncate" /\ log'[r] = Append(content[manifest].log, RecordOf(r))
            /\ UNCHANGED <<content, manifest>> /\ RecordOf(r)' = RecordOf(r)
        BY <1>2, <2>7, <3>3 DEF ReadManifest, Goto, disk, RecordOf, TypeOK
      <4> QED
        BY <1>2, <3>1, <3>3, <4>1 DEF HoldInv, Before, Writing, Ended
    <3> QED
      BY <3>2, <3>3
  <2>8. CASE TruncateTmp(r)
    <3>1. \A q \in Runs \ {r} :
            pc'[q] = pc[q] /\ pc[q] \in Ended \union {"idle"} /\ log'[q] = log[q]
      BY <1>2, Frame
    <3> DEFINE fresh == <<r, IF verdict[r] = "none" THEN "open" ELSE "append">>
               i     == IF tmp = NoInode THEN fresh ELSE tmp
    <3>2. i \in Inodes /\ i # NoInode
      BY <1>2, RunsAssumption DEF TypeOK, Inodes, NoInode
    <3>3. /\ pc[r] = "truncate" /\ pc'[r] = "write" /\ tmp' = i /\ fd'[r] = i /\ content'[i] = Torn
          /\ UNCHANGED <<log, manifest>> /\ RecordOf(r)' = RecordOf(r)
      BY <1>2, <2>8, <3>2 DEF TruncateTmp, Goto, RecordOf, TypeOK
    <3>4. manifest # NoInode => content'[manifest] = content[manifest]
      BY <1>2, ManifestKept
    <3> HIDE DEF i
    <3> QED
      BY <1>2, <3>1, <3>2, <3>3, <3>4 DEF HoldInv, Before, Writing, Ended
  <2>9. CASE WriteTmp(r)
    <3>1. \A q \in Runs \ {r} :
            pc'[q] = pc[q] /\ pc[q] \in Ended \union {"idle"} /\ log'[q] = log[q]
      BY <1>2, Frame
    <3>2. /\ pc[r] = "write" /\ pc'[r] = "rename" /\ fd[r] = tmp /\ tmp # NoInode
          /\ content[tmp] = Torn /\ UNCHANGED <<tmp, fd, log, manifest>> /\ RecordOf(r)' = RecordOf(r)
      BY <1>2, <2>9 DEF WriteTmp, Goto, HoldInv, RecordOf, TypeOK
    <3>3. content' = [content EXCEPT ![tmp] = Json(log[r])]
      BY <1>2, <2>9, <3>2 DEF WriteTmp, Torn
    <3>4. content'[tmp] = Json(log[r])
      BY <3>2, <3>3 DEF TypeOK
    <3>5. manifest # NoInode => content'[manifest] = content[manifest]
      BY <1>2, ManifestKept
    <3> QED
      BY <1>2, <3>1, <3>2, <3>4, <3>5 DEF HoldInv, Before, Writing, Ended
  <2>10. CASE WriteFails(r)
    BY <1>2, <2>10 DEF WriteFails, AppendFailed, Verdict, Goto, Piped, disk, Before,
         Writing, Ended, Live, TypeOK, ManifestReadable, AloneInv, VerdictInv, Inodes,
         NoInode, InodeInv, HoldInv, RecordOf
  <2>11. CASE Rename(r)
    <3>1. \A q \in Runs \ {r} :
            pc'[q] = pc[q] /\ pc[q] \in Ended \union {"idle"} /\ log'[q] = log[q]
      BY <1>2, Frame
    <3>2. /\ pc[r] = "rename" /\ pc'[r] \in Ended \union {"create", "report"} /\ UNCHANGED log
          /\ pc'[r] = "create" => verdict[r] = "none"
      BY <1>2, <2>11 DEF Rename, AppendFailed, Verdict, Goto, Ended, TypeOK
    <3>3. pc'[r] = "create" => log[r] = <<>>
      BY <1>2, <3>2 DEF HoldInv, VerdictInv, Writing
    <3> QED
      BY <1>2, <3>1, <3>2, <3>3 DEF HoldInv, Before, Writing, Ended
  <2>12. CASE Report(r)
    BY <1>2, <2>12 DEF Report, Verdict, Goto, disk, Before, Writing, Ended, Live, TypeOK,
         ManifestReadable, AloneInv, VerdictInv, Inodes, NoInode, InodeInv, HoldInv,
         RecordOf
  <2>13. CASE Kill(r)
    BY <1>2, <2>13 DEF Kill, Goto, disk, Before, Writing, Ended, Live, TypeOK,
         ManifestReadable, AloneInv, VerdictInv, Inodes, NoInode, InodeInv, HoldInv,
         RecordOf
  <2> QED
    BY <1>2, <2>1, <2>2, <2>3, <2>4, <2>5, <2>6, <2>7, <2>8, <2>9, <2>10, <2>11, <2>12,
         <2>13 DEF Step
<1> QED
  BY <1>1, <1>2 DEF Next, Step

LEMMA SeenStep ==
  ASSUME Exclusive, TypeOK, ManifestReadable, AloneInv, VerdictInv, SeenInv, [Next]_vars
  PROVE  SeenInv'
<1>1. CASE UNCHANGED vars
  BY <1>1 DEF vars, SeenInv, Writing
<1>2. ASSUME NEW r \in Runs, Step(r) PROVE SeenInv'
  <2>1. CASE OpenSession(r)
    BY <1>2, <2>1 DEF OpenSession, Goto, disk, Before, Writing, Ended, Live, TypeOK,
         ManifestReadable, AloneInv, VerdictInv, Inodes, NoInode, SeenInv
  <2>2. CASE CreateArtifact(r)
    BY <1>2, <2>2 DEF CreateArtifact, Put, Goto, Before, Writing, Ended, Live, TypeOK,
         ManifestReadable, AloneInv, VerdictInv, Inodes, NoInode, SeenInv
  <2>3. CASE Acquire(r)
    BY <1>2, <2>3 DEF Acquire, Put, Goto, Before, Writing, Ended, Live, TypeOK,
         ManifestReadable, AloneInv, VerdictInv, Inodes, NoInode, SeenInv
  <2>4. CASE AcquireFails(r)
    <3>1. \A q \in Runs \ {r} : pc'[q] = pc[q] /\ pc[q] \in Ended \union {"idle"}
      BY <1>2, Frame
    <3>2. pc'[r] \in {"failed", "hash"}
      BY <1>2, <2>4 DEF AcquireFails, Goto, TypeOK
    <3> QED
      BY <1>2, <3>1, <3>2 DEF SeenInv, Writing, Ended
  <2>5. CASE Validate(r)
    BY <1>2, <2>5 DEF Validate, Put, Goto, Piped, Before, Writing, Ended, Live, TypeOK,
         ManifestReadable, AloneInv, VerdictInv, Inodes, NoInode, SeenInv
  <2>6. CASE Hash(r)
    BY <1>2, <2>6 DEF Hash, Goto, disk, Before, Writing, Ended, Live, TypeOK,
         ManifestReadable, AloneInv, VerdictInv, Inodes, NoInode, SeenInv
  <2>7. CASE ReadManifest(r)
    BY <1>2, <2>7 DEF ReadManifest, AppendFailed, Verdict, Goto, Piped, disk, Before,
         Writing, Ended, Live, TypeOK, ManifestReadable, AloneInv, VerdictInv, Inodes,
         NoInode, SeenInv
  <2>8. CASE TruncateTmp(r)
    BY <1>2, <2>8 DEF TruncateTmp, Goto, Before, Writing, Ended, Live, TypeOK,
         ManifestReadable, AloneInv, VerdictInv, Inodes, NoInode, SeenInv
  <2>9. CASE WriteTmp(r)
    BY <1>2, <2>9 DEF WriteTmp, Goto, Before, Writing, Ended, Live, TypeOK,
         ManifestReadable, AloneInv, VerdictInv, Inodes, NoInode, SeenInv
  <2>10. CASE WriteFails(r)
    BY <1>2, <2>10 DEF WriteFails, AppendFailed, Verdict, Goto, Piped, disk, Before,
         Writing, Ended, Live, TypeOK, ManifestReadable, AloneInv, VerdictInv, Inodes,
         NoInode, SeenInv
  <2>11. CASE Rename(r)
    BY <1>2, <2>11 DEF Rename, AppendFailed, Verdict, Goto, Piped, Before, Writing,
         Ended, Live, TypeOK, ManifestReadable, AloneInv, VerdictInv, Inodes, NoInode,
         SeenInv
  <2>12. CASE Report(r)
    BY <1>2, <2>12 DEF Report, Verdict, Goto, disk, Before, Writing, Ended, Live, TypeOK,
         ManifestReadable, AloneInv, VerdictInv, Inodes, NoInode, SeenInv
  <2>13. CASE Kill(r)
    BY <1>2, <2>13 DEF Kill, Goto, disk, Before, Writing, Ended, Live, TypeOK,
         ManifestReadable, AloneInv, VerdictInv, Inodes, NoInode, SeenInv
  <2> QED
    BY <1>2, <2>1, <2>2, <2>3, <2>4, <2>5, <2>6, <2>7, <2>8, <2>9, <2>10, <2>11, <2>12,
         <2>13 DEF Step
<1> QED
  BY <1>1, <1>2 DEF Next, Step

---------------------------------------------------------------------------
\* The log changes by the record of the run whose rename publishes it.
LEMMA HistoryStep ==
  ASSUME Exclusive, IInv, NEW r \in Runs, Step(r)
  PROVE  \/ History' = History /\ pc'[r] # "report"
         \/ /\ pc[r] = "rename" /\ pc'[r] = "report" /\ verdict[r] # "none"
            /\ History' = Append(History, RecordOf(r))
            /\ UNCHANGED <<verdict, file, seen>>
<1>1. CASE Rename(r) /\ tmp # NoInode
  <2>1. /\ pc[r] = "rename" /\ content[tmp] = Json(log[r]) /\ manifest' = tmp
        /\ UNCHANGED <<content, verdict, file, seen>>
        /\ pc'[r] = IF verdict[r] = "none" THEN "create" ELSE "report"
    BY <1>1 DEF Rename, Goto, IInv, HoldInv, TypeOK
  <2>2. History' = log[r]
    BY <1>1, <2>1 DEF History, Json
  <2>3. CASE verdict[r] = "none"
    <3>1. manifest = NoInode
      BY <2>1, <2>3 DEF IInv, VerdictInv, Writing
    <3>2. log[r] = <<>> /\ History = <<>>
      BY <2>1, <3>1 DEF IInv, HoldInv, Writing, History
    <3> QED
      BY <2>1, <2>2, <2>3, <3>2
  <2>4. CASE verdict[r] # "none"
    <3>1. manifest # NoInode
      BY <2>1, <2>4 DEF IInv, VerdictInv, Writing
    <3>2. log[r] = Append(History, RecordOf(r))
      BY <2>1, <3>1 DEF IInv, HoldInv, ManifestReadable, Writing, History
    <3> QED
      BY <2>1, <2>2, <2>4, <3>2
  <2> QED
    BY <2>3, <2>4
<1>2. CASE ~(Rename(r) /\ tmp # NoInode)
  <2>1. manifest' = manifest /\ pc'[r] # "report"
    BY <1>2 DEF IInv, TypeOK, Step, OpenSession, CreateArtifact, Acquire, AcquireFails, Validate, Hash, ReadManifest,
       TruncateTmp, WriteTmp, WriteFails, Rename, Report, Kill,
       AppendFailed, Verdict, Goto, disk
  <2>2. manifest # NoInode => content'[manifest] = content[manifest]
    BY ManifestKept DEF IInv
  <2> QED
    BY <2>1, <2>2 DEF History
<1> QED
  BY <1>1, <1>2

LEMMA HistoryType ==
  ASSUME TypeOK
  PROVE  History \in Seq(Records)
BY DEF History, TypeOK

LEMMA RecordedStep ==
  ASSUME Exclusive, IInv, NEW r \in Runs, Step(r), pc'[r] = "report"
  PROVE  Recorded' = Recorded \union {RecordOf(r)}
<1>1. History' = Append(History, RecordOf(r))
  BY HistoryStep
<1>2. History \in Seq(Records) /\ Len(History) \in Nat
  BY HistoryType DEF IInv
<1>3. DOMAIN History' = 1 .. Len(History) + 1 /\ DOMAIN History = 1 .. Len(History)
  BY <1>1, <1>2
<1>4. \A i \in 1 .. Len(History) : History'[i] = History[i]
  BY <1>1, <1>2
<1>5. History'[Len(History) + 1] = RecordOf(r)
  BY <1>1, <1>2
<1> QED
  BY <1>2, <1>3, <1>4, <1>5 DEF Recorded

LEMMA RecordStep ==
  ASSUME Exclusive, IInv, [Next]_vars PROVE RecordInv'
<1>1. CASE UNCHANGED vars
  BY <1>1 DEF vars, IInv, RecordInv, Recorded, History, HasRecord
<1>2. ASSUME NEW r \in Runs, Step(r) PROVE RecordInv'
  <2>1. \A q \in Runs \ {r} : pc'[q] = pc[q] /\ pc[q] \in Ended \union {"idle"}
    BY <1>2, Frame DEF IInv
  <2>2. CASE pc'[r] = "report"
    <3>1. Recorded' = Recorded \union {RecordOf(r)} /\ UNCHANGED verdict
      BY <1>2, <2>2, RecordedStep, HistoryStep
    <3>2. HasRecord(r)'
      <4>1. RecordOf(r).run = r /\ RecordOf(r).ok = (verdict[r] = "ok")
        BY DEF RecordOf
      <4>2. \E rec \in Recorded' : rec.run = r /\ rec.ok = (verdict[r] = "ok")
        BY <3>1, <4>1
      <4> QED
        BY <3>1, <4>2 DEF HasRecord
    <3>3. \A q \in Runs \ {r} : RecordOf(r).run # q
      BY DEF RecordOf
    <3> QED
      BY <1>2, <2>1, <2>2, <3>1, <3>2, <3>3 DEF IInv, RecordInv, Before, Writing, Ended
  <2>3. CASE pc'[r] # "report"
    <3>1. Recorded' = Recorded
      BY <1>2, <2>3, HistoryStep DEF Recorded
    <3>2. pc'[r] \in Before \union Writing => pc[r] \in Before \union Writing
      BY <1>2 DEF IInv, TypeOK, Before, Writing, Ended, Step, OpenSession, CreateArtifact, Acquire, AcquireFails, Validate, Hash, ReadManifest,
         TruncateTmp, WriteTmp, WriteFails, Rename, Report, Kill,
         AppendFailed, Verdict, Goto, Live
    <3> QED
      BY <1>2, <2>1, <2>3, <3>1, <3>2 DEF IInv, RecordInv, Before, Writing, Ended
  <2> QED
    BY <2>2, <2>3
<1> QED
  BY <1>1, <1>2 DEF Next, Step

LEMMA DescribeStep ==
  ASSUME Exclusive, IInv, [Next]_vars PROVE RecordDescribesFile'
<1>1. CASE UNCHANGED vars
  BY <1>1 DEF vars, IInv, RecordDescribesFile, Recorded, History
<1>2. ASSUME NEW r \in Runs, Step(r) PROVE RecordDescribesFile'
  <2>1. CASE pc'[r] = "report"
    <3>1. /\ Recorded' = Recorded \union {RecordOf(r)} /\ UNCHANGED file
          /\ pc[r] = "rename" /\ verdict[r] # "none"
      BY <1>2, <2>1, RecordedStep, HistoryStep
    <3>2. RecordOf(r).blob = file[RecordOf(r).name]
      BY <1>2, <3>1 DEF IInv, SeenInv, Writing, RecordOf
    <3> QED
      BY <3>1, <3>2 DEF IInv, RecordDescribesFile
  <2>2. CASE pc'[r] # "report"
    <3>1. Recorded' = Recorded
      BY <1>2, <2>2, HistoryStep DEF Recorded
    <3>2. CASE UNCHANGED file
      BY <3>1, <3>2 DEF IInv, RecordDescribesFile
    <3>3. CASE file' # file
      <4>1. pc[r] \in Before
        BY <1>2, <3>3 DEF Before, disk, Step, OpenSession, CreateArtifact, Acquire, AcquireFails, Validate, Hash, ReadManifest,
           TruncateTmp, WriteTmp, WriteFails, Rename, Report, Kill
      <4>2. \A rec \in Recorded : rec.run # r
        BY <1>2, <4>1 DEF IInv, RecordInv
      <4>3. \A n \in Names : file'[n] = file[n] \/ file'[n].by \in {r, NoRun}
        BY <1>2, <3>3 DEF IInv, TypeOK, Put, Absent, disk, Step, OpenSession, CreateArtifact, Acquire, AcquireFails, Validate, Hash, ReadManifest,
           TruncateTmp, WriteTmp, WriteFails, Rename, Report, Kill
      <4>4. \A rec \in Recorded : rec.name \in Names /\ rec.run \in Runs
        <5>1. \A rec \in Recorded : rec \in Records
          BY HistoryType DEF IInv, Recorded
        <5> QED
          BY <5>1 DEF Records
      <4> QED
        BY <3>1, <4>2, <4>3, <4>4, RunsAssumption DEF IInv, RecordDescribesFile
    <3> QED
      BY <3>2, <3>3
  <2> QED
    BY <2>1, <2>2
<1> QED
  BY <1>1, <1>2 DEF Next, Step

---------------------------------------------------------------------------
(* The theorems.                                                           *)

LEMMA TypeInit == Init => TypeOK
<1> SUFFICES ASSUME Init PROVE TypeOK
  OBVIOUS
<1>1. Absent \in Blob /\ Torn \in [whole : BOOLEAN, log : Seq(Records)]
  BY DEF Absent, Blob, Torn
<1> QED
  BY <1>1 DEF Init, TypeOK

\* Every variable of the store keeps its type, for any runs that share the
\* directory, one at a time or not (manifest.go:42-119, capture.go:72-122).
THEOREM TypeCorrect == Spec => []TypeOK
<1>1. TypeOK /\ [Next]_vars => TypeOK'
  BY TypeStep
<1> QED
  BY <1>1, TypeInit, PTL DEF Spec

\* The inductive invariant of a directory that one run uses at a time.
THEOREM Invariance ==
  ASSUME Exclusive PROVE Spec => []IInv
<1>1. Init => IInv
  <2> SUFFICES ASSUME Init PROVE IInv
    OBVIOUS
  <2>1. TypeOK
    BY TypeInit
  <2>2. Recorded = {}
    BY DEF Init, Recorded, History
  <2>3. \A r \in Runs : <<r, "append">> # NoInode
    BY RunsAssumption DEF NoInode
  <2> QED
    BY <2>1, <2>2, <2>3 DEF Init, IInv, ManifestReadable, AloneInv, Live, VerdictInv, InodeInv,
       HoldInv, RecordInv, SeenInv, RecordDescribesFile, Writing
<1>2. IInv /\ [Next]_vars => IInv'
  <2> SUFFICES ASSUME IInv, [Next]_vars PROVE IInv'
    OBVIOUS
  <2>1. TypeOK' /\ ManifestReadable' /\ AloneInv' /\ VerdictInv'
    BY TypeStep, ReadableStep, AloneStep, VerdictStep DEF IInv
  <2>2. InodeInv' /\ HoldInv' /\ SeenInv'
    BY InodeStep, HoldStep, SeenStep DEF IInv
  <2>3. RecordInv' /\ RecordDescribesFile'
    BY RecordStep, DescribeStep
  <2> QED
    BY <2>1, <2>2, <2>3 DEF IInv
<1> QED
  BY <1>1, <1>2, PTL DEF Spec

\* Whatever dies or fails, manifest.json is absent or a complete document
\* (manifest.go:109-119).
THEOREM AlwaysReadable ==
  ASSUME Exclusive PROVE Spec => []ManifestReadable
<1>1. IInv => ManifestReadable
  BY DEF IInv
<1> QED
  BY <1>1, Invariance, PTL

\* What a record says of its file stays true until another run takes the name
\* of that file (snapshot.go:64-67, capture.go:100-116).
THEOREM RecordsAreTrue ==
  ASSUME Exclusive PROVE Spec => []RecordDescribesFile
<1>1. IInv => RecordDescribesFile
  BY DEF IInv
<1> QED
  BY <1>1, Invariance, PTL

---------------------------------------------------------------------------
(* The refinement.                                                         *)

LEMMA VerdictsGrow ==
  ASSUME IInv, NEW r \in Runs, History' = Append(History, RecordOf(r))
  PROVE  Verdicts' = Append(Verdicts, [run |-> r, ok |-> verdict[r] = "ok"])
<1> DEFINE n == Len(History)
           e == [run |-> r, ok |-> verdict[r] = "ok"]
<1>1. History \in Seq(Records) /\ n \in Nat /\ DOMAIN History = 1 .. n
  BY HistoryType DEF IInv
<1>2. /\ DOMAIN History' = 1 .. n + 1 /\ History'[n + 1] = RecordOf(r)
      /\ \A i \in 1 .. n : History'[i] = History[i]
  BY <1>1
<1>3. Verdicts = [i \in 1 .. n |-> [run |-> History[i].run, ok |-> History[i].ok]]
  BY <1>1 DEF Verdicts
<1>4. \A i \in 1 .. n : Verdicts[i] \in [run : Runs, ok : BOOLEAN]
  <2>1. \A i \in 1 .. n : History[i] \in Records
    BY <1>1
  <2>2. \A i \in 1 .. n : History[i].run \in Runs /\ History[i].ok \in BOOLEAN
    BY <2>1 DEF Records
  <2> QED
    BY <1>3, <2>2
<1>5. Verdicts \in Seq([run : Runs, ok : BOOLEAN]) /\ Len(Verdicts) = n
  BY <1>1, <1>3, <1>4
<1>6. e \in [run : Runs, ok : BOOLEAN]
  OBVIOUS
<1>7. DOMAIN Append(Verdicts, e) = 1 .. n + 1 /\ Append(Verdicts, e)[n + 1] = e
  BY <1>1, <1>5, <1>6
<1>8. \A i \in 1 .. n : Append(Verdicts, e)[i] = Verdicts[i]
  BY <1>1, <1>5, <1>6
<1>9. Append(Verdicts, e) = [i \in 1 .. n + 1 |-> Append(Verdicts, e)[i]]
  BY <1>5, <1>6, <1>7
<1>10. Verdicts' = [i \in 1 .. n + 1 |-> [run |-> History'[i].run, ok |-> History'[i].ok]]
  BY <1>2 DEF Verdicts
<1>11. \A i \in 1 .. n + 1 :
         [run |-> History'[i].run, ok |-> History'[i].ok] = Append(Verdicts, e)[i]
  <2> TAKE i \in 1 .. n + 1
  <2>1. CASE i = n + 1
    BY <2>1, <1>2, <1>7 DEF RecordOf
  <2>2. CASE i # n + 1
    <3>1. i \in 1 .. n
      BY <1>1, <2>2
    <3> QED
      BY <3>1, <1>2, <1>3, <1>8
  <2> QED
    BY <2>1, <2>2
<1> HIDE DEF e, n
<1>12. Verdicts' = Append(Verdicts, e)
  BY <1>9, <1>10, <1>11
<1> QED
  BY <1>12 DEF e

\* A step of a run ends it, publishes its record or is no step of the log.
LEMMA LogStep ==
  ASSUME Exclusive, IInv, [Next]_vars
  PROVE  [Log!Next]_(Log!vars)
<1>1. CASE UNCHANGED vars
  <2>1. Verdicts' = Verdicts /\ Answers' = Answers
    BY <1>1 DEF vars, Verdicts, Answers, History, Piped
  <2> QED
    BY <2>1 DEF Log!vars
<1>2. ASSUME NEW r \in Runs, Step(r) PROVE [Log!Next]_(Log!vars)
  <2>1. \A q \in Runs \ {r} : Answers'[q] = Answers[q]
    BY <1>2, Frame DEF IInv, Answers, Piped
  <2>2. UNCHANGED kind
    BY <1>2 DEF Step, OpenSession, CreateArtifact, Acquire, AcquireFails, Validate, Hash, ReadManifest,
       TruncateTmp, WriteTmp, WriteFails, Rename, Report, Kill
  <2>3. Answers[r] = "open"
    BY <1>2 DEF Answers, Ended, Live, Step, OpenSession, CreateArtifact, Acquire, AcquireFails, Validate, Hash, ReadManifest,
       TruncateTmp, WriteTmp, WriteFails, Rename, Report, Kill
  <2>4. CASE pc'[r] = "report"
    <3>1. History' = Append(History, RecordOf(r)) /\ pc[r] = "rename"
      BY <1>2, <2>4, HistoryStep
    <3>2. Verdicts' = Append(Verdicts, [run |-> r, ok |-> verdict[r] = "ok"])
      BY <1>2, <3>1, VerdictsGrow
    <3>3. Answers' = Answers
      <4>1. Answers'[r] = Answers[r]
        BY <1>2, <2>4, <3>1 DEF Answers, Ended
      <4> QED
        BY <2>1, <4>1 DEF Answers
    <3>4. \A i \in DOMAIN Verdicts : Verdicts[i].run # r
      <4>1. \A i \in DOMAIN History : History[i].run # r
        BY <1>2, <3>1 DEF IInv, RecordInv, Recorded, Writing
      <4> QED
        BY <4>1 DEF Verdicts
    <3>5. ~Log!In(r, TRUE) /\ ~Log!In(r, FALSE)
      BY <3>4 DEF Log!In
    <3>6. Log!Record(r, verdict[r] = "ok")
      BY <2>3, <3>2, <3>3, <3>5 DEF Log!Record
    <3> QED
      BY <1>2, <3>6 DEF Log!Next
  <2>5. CASE pc'[r] # "report" /\ pc'[r] \notin Ended
    <3>1. Verdicts' = Verdicts
      BY <1>2, <2>5, HistoryStep DEF Verdicts
    <3>2. Answers'[r] = Answers[r]
      BY <1>2, <2>3, <2>5 DEF Answers
    <3>3. Answers' = Answers
      BY <2>1, <3>2 DEF Answers
    <3> QED
      BY <3>1, <3>3 DEF Log!vars
  <2>6. CASE pc'[r] \in Ended
    <3>1. Verdicts' = Verdicts
      BY <1>2, <2>6, HistoryStep DEF Verdicts, Ended
    <3>2. Answers' = [Answers EXCEPT ![r] = Answers'[r]]
      BY <2>1 DEF Answers
    <3>3. CASE Answers'[r] = "other"
      BY <1>2, <2>3, <3>1, <3>2, <3>3 DEF Log!Close, Log!Next
    <3>4. CASE Answers'[r] # "other"
      <4>1. Piped(r) /\ pc'[r] \in {"ok", "invalid"} /\ Answers'[r] = pc'[r]
        BY <1>2, <2>2, <2>6, <3>4 DEF Answers, Piped
      <4>2. pc[r] = "report" /\ pc'[r] = IF verdict[r] = "ok" THEN "ok" ELSE "invalid"
        BY <1>2, <4>1 DEF IInv, TypeOK, Step, OpenSession, CreateArtifact, Acquire, AcquireFails, Validate, Hash, ReadManifest,
           TruncateTmp, WriteTmp, WriteFails, Rename, Report, Kill,
           AppendFailed, Verdict, Goto
      <4>3. HasRecord(r)
        BY <1>2, <4>2 DEF IInv, RecordInv
      <4>4. PICK i \in DOMAIN History : History[i].run = r /\ History[i].ok = (verdict[r] = "ok")
        BY <4>3 DEF HasRecord, Recorded
      <4>5. Log!In(r, verdict[r] = "ok")
        BY <4>4 DEF Log!In, Verdicts
      <4>6. Log!Tell(r, verdict[r] = "ok")
        BY <2>3, <3>1, <3>2, <4>1, <4>2, <4>5 DEF Log!Tell
      <4> QED
        BY <1>2, <4>6 DEF Log!Next
    <3> QED
      BY <3>3, <3>4
  <2> QED
    BY <2>4, <2>5, <2>6
<1> QED
  BY <1>1, <1>2 DEF Next, Step

\* The store implements EvidenceLog: the log only grows, and a capture that was
\* told a verdict finds it there for ever, whatever dies in between
\* (capture.go:112-120, manifest.go:99-119).
THEOREM StoreImplementsLog ==
  ASSUME Exclusive PROVE Spec => ImplementsLog
<1>1. Init => Log!Init
  <2> SUFFICES ASSUME Init PROVE Log!Init
    OBVIOUS
  <2>1. History = <<>>
    BY DEF Init, History
  <2>2. Verdicts = <<>>
    BY <2>1 DEF Verdicts
  <2>3. Answers = [r \in Runs |-> "open"]
    BY DEF Init, Answers, Ended
  <2> QED
    BY <2>2, <2>3 DEF Log!Init
<1>2. IInv /\ [Next]_vars => [Log!Next]_(Log!vars)
  BY LogStep
<1> QED
  BY <1>1, <1>2, Invariance, PTL DEF Spec, ImplementsLog, Log!Spec
==============================================================================
