# TLA+ models of jdebug

jdebug gets thread dumps, heap dumps and context out of a JVM in a Kubernetes
pod.  An operator runs it during an incident, against production, often for the
first time.  What must not go wrong is therefore: pausing a JVM nobody chose,
calling broken evidence good, losing the only copy of a dump, leaving files in
pods without knowing it, and a dashboard that stops reacting or keeps showing
the wrong pod.  These modules model the code that decides those things; TLC
checks them on small instances, and TLAPS proves their safety properties for
every instance: of the capture engine, the dispatcher, the evidence store, the
ledger of staged files, the dashboard and its refresh, and the analyses of thread
and heap dumps.

Line numbers below are those of the repository at the modelled commit.

## 1. Inventory

### Components

| Component | State it keeps | Operations | What makes it correct | Module |
|---|---|---|---|---|
| Engine command line (`core/cmd/jdebug-core/main.go`) | options, tier in turn, context | gates, resolve, confirm, cascade of tiers, exit code | exit codes mean what the package comment says; Ctrl-C and `JDEBUG_TIMEOUT` stop it | Capture |
| fetch-heap (`core/fetchheap.go`, `podfetch.go`) | the dump found in the pod, the copy | search, copy, validate, record | a copy of a dump that is still growing is not called good; the original stays until then | Capture |
| Target (`core/target.go`) | resolved pod, number of matches, the `Confirmed` token | `Resolve`, `Confirm` | no heap dump of a guessed replica | Capture |
| Capture pipeline (`core/capture.go`) | artifact, verdict | open, acquire, validate, record | only validated files are announced; every file has a record | Capture |
| Capture tiers (`core/acquirers.go`, `podfetch.go`) | in-pod dump, ephemeral container, log buffer | actuator, jattach, JDK container; `CleanupRemote` | the in-pod copy outlives a bad local one; retries write once | Capture, Staging |
| Evidence store (`core/manifest.go`) | `manifest.json`, its temporary file | `Session`, `Read`, `Append`, `write` | always readable, append only, describes the files | EvidenceStore |
| Snapshot (`core/snapshot.go`) | the bundle's session, counts | sections, failure notes, heap | each section has its verdict | EvidenceStore (sections) |
| Staged-artifact ledger (`lib/common.sh`, `observe/cleanup.sh`) | `remote-artifacts.tsv`, the files in the pods | record, cleanup | nothing stranded, nothing foreign removed | Staging |
| Cluster boundary (`core/cluster.go`) | none | `kubectl` calls under a context | a call fails, truncates, hangs or is killed | Capture |
| TUI loop and refresh (`tui/main.go`, `panel.go`, `logs.go`, `pods.go`, `chooser.go`, `editor.go`, `backend.go`) | target, mode, busy flags, timers | timers, replies, probes, retargeting by click, chooser and editor | the panes keep moving and show the target | Refresh |
| TUI streams (`tui/output.go`) | pane, cancel function, channel, child processes | start, chunk, done, stop | one command, which can be stopped | Dashboard |
| TUI wizard, menu, confirmations (`tui/wizard.go`, `menu.go`) | screen, previous screen, closures, queue of steps | keys, `askConfirm2`, `wizardAdvance` | nothing disruptive unasked; flows end | Dashboard |
| Dispatcher (`jdebug`) | none | preflight, choice of engine, gates, v1 cascade, exit codes | nobody is harmed unasked with either engine; a refusal touches nothing | Dispatcher |
| Thread-dump analysis (`core/threaddump.go`) | threads read, waits-for graph, cycles | parse text or JSON, search cycles, flags, verdict | exactly the real deadlocks are reported; no false all-clear | ThreadDump |
| Heap-dump parser (`tui/hprof.go`, `hprof_deep.go`, `hprof_diff.go`) | histogram, object graph, dominator tree | histogram, dominators, retained sizes, paths, leak patterns, growth | equal to reachability by definition; what was skipped is said | HeapGraph, Histogram, HeapDump |
| Memory diff, configuration (`core/memdiff.go`, `config.go`) | none | comparison, precedence | equal to a reference definition | not modelled |
| Editors, pickers, captures browser (`tui/editor.go`, `captures*.go`, `auth.go`) | forms, lists | keys | no change of target half made | Refresh (target), Dashboard (viewing), rest not modelled |
| v1 tiers (`capture/*.sh`) | a file per tier, the in-pod dump | resolve, fetch, stage, dump, copy, check | the in-pod copy outlives a bad local one; no cascade into another pod | Dispatcher, Staging (`install_jattach`) |
| Restart and kill (`observe/lifecycle.sh`) | none | resolve, confirm, change | only the pod that was meant | Dispatcher |
| Reporters (`observe/*.sh`), rendering, in-pod script, build and hooks | none | text | - | not modelled |

### How they interact

The operator's keys reach the TUI's `Update`, which starts `jdebug <verb>` as a
child and streams its output over a channel; in the background `Update` starts
goroutines that run kubectl and answer with messages.  `jdebug` is a bash
dispatcher that hands captures to `jdebug-core`.  The engine resolves and
confirms a target, and runs a tier inside the pipeline, which calls the tier
between creating an artifact and validating it, and appends to the session's
manifest.  The jattach tier stages a binary, through a callback that appends to
the ledger in the dumps directory; `cleanup.sh` reads and rewrites that ledger.
Several processes share the session directories, the ledger and the pods; no
file is locked.  Inside the TUI, confirmations hold closures that are called
later on whatever the model has become by then.  Analysis is sequential: after a
capture, or on its own, `analyze` reads one file (or two heap dumps) and prints a
verdict, which the operator acts upon.

### What is hard

* Each kubectl call may fail, truncate silently, hang, or be killed with its
  context, and what it started in the pod goes on.  Cascades and retries run
  after such failures.
* A process may be killed between any two system calls.
* Two processes update `manifest.json` or the ledger at once.
* Pods are replaced under the same name.
* Analysis must hold for any file: truncated, damaged, in each of several
  formats, with cycles and garbage, and must not depend on the order in which Go
  ranges over its maps.
* Stream messages come between keys, replies come after the target changed, and
  a killed child leaves children of its own that hold the pipe.

`PROJECT.json` lists each of these as a hazard at the line where it bites, with
the properties that cover it or the reason why none does.

## 2. The modules

### CapturePromise and Capture

`CapturePromise` is what the engine promises for one `threads`, `heap` or
`fetch-heap` invocation, without tiers, files or kubectl: a pod is harmed only
under a grant that is given once, verdicts are recorded, nothing follows a good
verdict but the end, success needs a good verdict, a refusal comes before any
grant and any harm.

`Capture` is the invocation itself.  `pc` is where `main`, `Pipeline.run` and
the tiers' `Acquire` are; each action is the code between two calls that may
fail.  `file`, `manifest` are the local side, `left`, `job`, `paused` what is in
the cluster, `ctx` the context, `told` the hints printed.  An artifact's body is
one of absent, empty, junk (an error page), cut, whole, doubled, which is what
validators and properties can tell apart.  The steps are

| Action | Code |
|---|---|
| `Gate`, `Resolve`, `Confirm` | `main.go` 160-275, `target.go` |
| `OpenArtifact`, `Discard`, `ValidateAndRecord` | `capture.go` 72-121 |
| `RequestDump`: the exec of `/heapdump` or `jattach dumpheap` reaches the pod | `acquirers.go` 69, 182 |
| `PodDumps`: the pod acts on it, by itself | external |
| `FetchActuator`: what the exec returned, if it did | `acquirers.go` 56-118 |
| `PrepareJattach`, `JattachThreads`, `JattachDumpHeap`, `ReadRemoteSize`, `CopyFromPod` | `acquirers.go` 173-282 |
| `DebugContainer`, `DebugJobEnds`, `FollowDebugLogs`, `JDKRemoveDump` | `acquirers.go` 399-488 |
| `FindDump`, `RetrieveDump` | `main.go` 293-316, `fetchheap.go` 144-165 |
| `CleanupRemote`, `TierFailed` | `main.go` 346-412 |
| `Cancel`, `Kill` | `main.go` 227-247 |

`CommandContext` kills the local kubectl; what it started in the pod goes on.  So
a heap dump takes three steps with the actuator and jattach: the request reaches
the pod (`requests`), the pod dumps or does not (`PodDumps`, at any time, after a
cancellation and after the end too), and the exec returns, breaks off, or is
killed.  The JDK tier's container is the same (`job`, `DebugJobEnds`).

`ImplementsPromise` is the refinement: the tiers, their fallbacks and their
failures are stuttering steps or the promise's own.

### Dispatcher

One `jdebug` command from its preflight to its exit code: `threads`, `heap`,
`fetch-heap`, `restart` or `kill`.  `script` is the process that runs (`jdebug`
itself, the engine, a v1 tier, `lifecycle.sh`), `pc` where it stands.  The v2
engine is there only as what it promises: `EngineStep` is a step of
`CapturePromise`, so that what Capture is shown to implement is what Dispatcher
builds on.  Each v1 tier is a process of its own, which lists the pods anew, so
`ResolvePod` finds any set of them each time; `Ends` is what the cascade makes of
its exit code.

| Action | Code |
|---|---|
| `Preflight`, `ChooseEngine`, `EngineStep` | `jdebug` 178-203, 346-375 |
| `Gates`, `Ends` | `jdebug` 125-158, `common.sh` 298-312 |
| `ResolvePod` | `common.sh` 216-246 |
| `FetchActuator` | `actuator.sh` 126-187 |
| `PrepareJattach`, `PrintThreads`, `DumpHeap`, `ReadSize`, `CopyFromPod` | `jattach.sh` 96-292 |
| `DebugContainer`, `JobEnds`, `FollowLogs`, `CopyJDKDump` | `jdk-heap.sh` 70-132, `jdk-threads.sh` 81-106 |
| `ConfirmChange`, `Change` | `lifecycle.sh` 34-134 |

A word in `Stray` stands for `--json`, which the tiers other than the actuator's
do not know and may take for the pod's name.

### EvidenceLog and EvidenceStore

`EvidenceLog` promises a log that only grows and that holds the verdict of
whoever was told one.  `EvidenceStore` is one session directory, system call by
system call: inodes with their content, the names `manifest.json` and
`manifest.json.tmp`, and per run what it has read into memory and which
descriptor it holds.  A run is a capture, a snapshot section with a validator, or
one without ("raw").  It may be killed anywhere and the disk may be full.  The
log implemented is the content of the inode that `manifest.json` names.

### Staging

The files in the pods, the ledger, and processes that stage (`prepare`,
`install`, `push-local`, `record_artifact`, `recordArtifact`) or clean up
(`observe/cleanup.sh`).  Any item may be in its pod before jdebug (`had`), also
after a pod was replaced: jattach is probed for, `push-local` copies over what is
there.  `faults`, drawn once per behaviour from the constant
`Faults`, says which troubles it knows: failing calls, killed processes,
replaced pods, and a cleanup that overlaps with staging.

### Dashboard

The record `m` is the model `Update` returns: screen and previous screen, the
open question and whether its closures are set, the flow's queue, the pane's
stream.  Methods that return an updated model are operators from records to
records (`StartPane`, `AskConfirm`, `WizardAdvance`, ...), used by the actions
of the keys and of the stream messages as the code uses them.  `streams` is what
is behind the panes: child process, processes below it, goroutine, channel, and
the `waitStream` command that hands over one message.  `scene` says whether
captures are viewed, the terminal is resized, or a command follows logs.

### Refresh

Target, background mode, timers, busy flags and the fetches and probes in flight.
A fetch in flight remembers for which pod it was asked, although its reply does
not say so: that is history, for the properties.  The target is a pod or none (a
selector that `remoteProbe` resolves to a pod and keeps: `Probes`); `ready` says
whether the last probe was good, `due` whether the next tick probes anew.
`EditTarget` is the target editor, which resets the probe and fetches nothing
itself.  `Hung` is the set of pods whose JVM may never answer, since `jvmHeap` and
`jvmMetrics` have no time limit.

### ThreadDump

`jvm` is a JVM chosen at the start: what each thread does, who owns which lock,
the threads' names.  It is external; what it prints (`Text`) is a sequence of the
lines the parsers look at, in one of four formats: jstack and jcmd with their
deadlock section, the actuator's text, its JSON.  `Parse` is `ParseThreads` on
that; `Start` and `Visit` are the loops of `deadlockCycles`, one visited thread
per step, with the starts in any order as Go's maps have none; `Render` raises the
flags and gives the verdict.

### HeapGraph, Histogram and HeapDump

`HeapGraph` is the graph part of `hprof_deep.go` by itself: the iterative
depth-first search (`Push`, `Pop`), the sweeps of `dominators` (`Load`, `Look`,
`Climb`, `Settle`, `Again`, one predecessor or finger per step) and `bfsParents`
(`Visit`), on any graph.  The search takes successors and the sweeps predecessors in
any order.  The queue of the breadth-first search takes the new successors of a node
in one order, which `CHOOSE` picks: TLC checks that order only, the proofs use
nothing of it.  `Histogram` is the shallow pass: what it counts, keeps and
warns of, and the diff of two.  `HeapDump` composes them: a file of records, damaged
or not, becomes a histogram and a graph (`Build`), is analysed, and reported
(`Report`: retained sizes, leak pattern, suspect, path), or is compared with a
second one (`First`, `Diff`).  A file is a set of objects with classes,
references, roots and a damage at one of its records: cut off there, an unknown
record there, or 400 MB reached there.

### Proof and MC modules

`CaptureProofs`, `DispatcherProofs`, `EvidenceStoreProofs`, `StagingProofs`,
`DashboardProofs`, `RefreshProofs`, `ThreadDumpProofs` and `HeapDumpProofs` hold
the theorems about the module each is named for and their proofs; `HeapDumpProofs`
has those about HeapGraph and Histogram too.  `MCEvidenceStore`,
`MCStaging`, `MCDashboard`, `MCThreadDump` and `MCHeapDump` give TLC the symmetry
sets, flows, items, names and files.  Capture, Dispatcher and Refresh are checked
as they are.

## 3. The runs

| Run | Checks | Distinct states |
|---|---|---|
| capture | exit codes, target, files, in-pod dumps, hints; refinement of CapturePromise; `JDEBUG_TIMEOUT` ends every invocation | 1.0 million |
| dispatcher | who is harmed, what a refusal and a success mean, when a dump leaves the pod | 88 thousand |
| evidence_store | manifest readable, record describes file, refinement of EvidenceLog | 2.4 million |
| staging | nothing stranded, no foreign jattach touched, rows outlive files | 4.1 million |
| dashboard | one command, nothing disruptive unasked, flows go on, stopped streams end | 269 thousand |
| refresh | flags answered, no stacked log fetches, panes catch up | 198 thousand |
| thread_dump | deadlocks reported are real, each once and all of them; all-clear earned; the search ends | 478 thousand |
| heap_dump | garbage, dominators, paths and suspect right; skipping said; growth right; the analysis ends | 581 thousand |
| evidence_race, dashboard_confirm, thread_names, heap_partial | statements the code does not live up to, see section 6 | - |

Every type invariant is proved.  Those of Staging and Dashboard bound the ledger
and the channels, so they could fail, and their runs check them as well.

What a passing run shows, property by property:

* `NeverPauseGuessed`: whatever tiers fail and in whatever order, the only pod
  paused is the confirmed one, and that is named or the only match.
* `NoFalseSuccess`, `FailureMeansNoGoodCapture`, `RefusalIsHarmless`: the exit
  codes 0, 1, 2 and 64 tell the truth about disk and cluster.
* `EveryFileAccountedFor`: files and records agree.
* `HarmIsAuthorised`: whichever engine runs, whichever tiers fail and however the
  pods change between two of them, a pod is paused, deleted or restarted only
  for a confirmed request, and only the one it names or the only one its script
  found.
* `RefusedBeforeAnything`, `SuccessIsBacked`: what the dispatcher's exit codes
  say about pods and files; an engine with a bad checksum is neither run nor
  replaced.
* `KeptUntilWhole`: the jattach tier in bash keeps its dump in the pod until the
  copy is whole.  The JDK tier does not (section 6).
* `DumpKeptUntilValidated`, `RejectedCopyIsNamed`, `CancelStopsHarm`: the in-pod
  dump stays until a good copy is on disk, the operator learns of one whose copy
  was rejected (for `fetch-heap` too), and a cancelled invocation asks nothing more
  of a pod: each pause that still comes is that of a request or a container from
  before, which nothing calls back.
* `ManifestReadable`, `RecordDescribesFile`, `ImplementsLog`: a crash leaves a
  complete manifest; records are never lost or changed by later runs.
* `NothingStranded`, `ProbedFilesUntouched`, `OwnedRowKeptUntilRemoved`: what the
  ledger owes the pods.  The second is about jattach: `push-local` does overwrite
  what others left, and cleanup removes it (section 6).
* `OnlyThePaneRuns`, `HeapAsksFirst`, `FlowGoesOn`, `StoppedEnds`: see the
  comments in `Dashboard.tla`.  They are stated with their limits: viewing a
  capture breaks the first and third, a resize the second, following logs the
  last.
* `BusyIsAnswered`, `LogsDoNotStack`, `CatchesUp`: the background refresh never
  wedges itself, and the panes end on the chosen pod.  `CatchesUp` excepts
  `HeldBack`, a panel whose fetch asks the JVM that hangs (section 6).
* `CyclesAreReal`, `EveryDeadlockFound`, `AllClearIsEarned`: in every format,
  from whatever thread the search starts, the cycles reported are the cycles of
  the JVM's locks, each once; "nothing alarming" is said only of a dump with
  threads, of a JVM without deadlock, blocked or virtual threads.
* `WalkEnds`, `AnalysisEnds`: the search for cycles and the fixpoint of the
  dominators end.
* `GarbageIsExact`, `DominatorsAreExact`, `PathsAreShortest`: the algorithms agree
  with definitions that quantify over sets of nodes and know no algorithm.
* `SuspectHoldsTheHeap`: the object named as the leak does hold a quarter of the
  live heap, by whichever branch of `leakPattern` it is named, and the paths shown
  are made of references at every step.  The one step over a gap is excepted, of
  paths to objects that are too far away to be shown in full.
* `SkippedIsSaid`, `FiguresAddUp`: figures without a warning count the whole file
  (of a file that is not cut), the biggest objects and the growth do not depend on
  orders.

### Bounds, and why they are enough

* Pods: two.  The rule about guessed replicas tells apart the named, the unique
  and the ambiguous match, and with two there is a victim that was neither named
  nor chosen.  In refresh one is left and one is shown.
* Disk: in capture it is sound or failing for a whole invocation, as part of the
  request, so that both behaviours of `Append` occur in one run.
* `MaxLogAttempts = 2`: one retry, with a first attempt that fails and a second
  that succeeds or exhausts the budget (the code allows thirty, `acquirers.go:476`).
* Runs and names of the store: three runs, two names: two runs of one name, and
  a third that crashes or succeeds between them.
* Staging: two processes, two jattach targets of one pod name in two namespaces
  and one `push-local`, each of which may be in its pod before.
* Dashboard: three panes (one superseded, one running, one started by a flow),
  flows of up to three steps that contain each kind of step, a short one that
  leaves room for a question in front of the flow's own, and a channel of one
  message, which fills as the real one of 32 does.
* Refresh: three keys, which is enough to open the editor, pick a pod and leave,
  or to click on a pod, change mode and return, with timers, probes and replies
  unbounded.  Two pods, one of which hangs, and no pod.
* thread_dump: three threads, so that a cycle of two has a tail and a cycle of
  three exists; two monitors and one lock of `java.util.concurrent`; every
  assignment of owners and waiters; four formats.
* heap_dump: three objects and the root, every graph and every set of roots.  A
  cycle, garbage that refers to live objects, a diamond (two paths and an
  immediate dominator above both) and a sweep that has to be repeated all fit.  A
  path is shown in full up to three nodes (`Longest`), so that two of its steps are
  checked, and without its middle from four on (the code: 14, and 7 + 6 of more).
  The leak patterns have their limits scaled down with the heap: two instances for
  10,000 `ThreadLocalMap` entries and for 500,000 entries of maps, 40 bytes for 16 MB
  of repeated content; there are files for each branch.  `Crowd` stands for the three
  patterns that only count instances.
  Damage is put at every record; the diff is over pairs of subsets.

### Deadlock

The captures, the dispatcher, the store's runs, the dashboard and the analyses may
end, so those runs do not check deadlock.  Staging and Refresh never stop, and are
checked for it.

### Fairness

* `Capture!BudgetSpec`: the context is cancelled at some point, because the code
  sets a timer when `JDEBUG_TIMEOUT` is set; local steps are taken; a kubectl
  call is only known to return once the context is done, because
  `exec.CommandContext` then kills it.  Nothing is assumed of a call before that.
* `Dashboard!FairSpec`: a killed child dies, the goroutine and `waitStream` run,
  and what a child leaves behind ends unless it follows logs.  No key is fair,
  and neither is the end of a command nobody has stopped.
* `Refresh!FairSpec`: timers expire and replies come, since kubectl is killed
  after 8 s (`panel.go:125`, `logs.go:48`), except for the probe of a hung JVM,
  which has no limit.  No key is fair, so what the operator does ends by the
  bound on keys; `Watching` in `CatchesUp` says where.

* `ThreadDump!Spec`, `HeapDump!Spec`: the loops of the search and of the graph
  algorithms go on, being sequential code that waits for nothing.

## 4. The proofs

`CaptureProofs` proves, for every set of pods and every retry budget:

| Theorem | Statement |
|---|---|
| `Invariance` | `Spec => []IInv` |
| `TypeCorrect` | `Spec => []TypeOK` |
| `NoGuessedReplicaIsPaused` | `Spec => []NeverPauseGuessed` |
| `SuccessIsBackedByARecord` | `Spec => []NoFalseSuccess` |
| `FailureIsHonest` | `Spec => []FailureMeansNoGoodCapture` |
| `RefusalLeavesNoTrace` | `Spec => []RefusalIsHarmless` |
| `CaptureKeepsItsPromise` | `Spec => ImplementsPromise` |
| `TraceInvariance` | `Spec => [](IInv /\ ResultInv /\ TraceInv)` |
| `RejectedCopiesAreNamed` | `Spec => []RejectedCopyIsNamed` |
| `FilesAreAccountedFor` | `Spec => []EveryFileAccountedFor` |
| `DumpsOutliveBadCopies` | `Spec => DumpKeptUntilValidated` |
| `CancelledMeansHarmless` | `Spec => CancelStopsHarm` |

They assume only that `NoPod` is not a pod and that the retry budget is a positive
number.

`DispatcherProofs` proves, for any finite set of pods:

| Theorem | Statement |
|---|---|
| `Invariance` | `Spec => []IInv` |
| `TypeCorrect` | `Spec => []TypeOK` |
| `RefusalTouchesNothing` | `Spec => []RefusedBeforeAnything` |
| `SuccessMeansDone` | `Spec => []SuccessIsBacked` |
| `HarmNeedsAuthority` | `Spec => HarmIsAuthorised` |
| `DumpKeptUntilWhole` | `Spec => KeptUntilWhole` |

They assume that neither "no pod" nor the stray word is a pod's name.

`EvidenceStoreProofs` proves, for any runs and names:

| Theorem | Statement |
|---|---|
| `TypeCorrect` | `Spec => []TypeOK`, also when runs overlap |
| `Invariance` | `Spec => []IInv` |
| `AlwaysReadable` | `Spec => []ManifestReadable` |
| `RecordsAreTrue` | `Spec => []RecordDescribesFile` |
| `StoreImplementsLog` | `Spec => ImplementsLog` |

All but the first are about runs that use the directory one after the other
(`Exclusive`), each of which may die at any system call.  Run `evidence_race`
shows that this is needed.  They assume that `NoRun` is not a run.

`StagingProofs` proves, for any finite sets of processes and items, either engine
and any combination of faults:

| Theorem | Statement |
|---|---|
| `Invariance` | `Spec => []IInv` |
| `ProbedFilesStay` | `Spec => []ProbedFilesUntouched` |
| `RowsOutliveFiles` | `Spec => OwnedRowKeptUntilRemoved` |
| `NothingForgotten` | `KeysIdentify` implies `Spec => []NothingStranded` |
| `LedgerStaysSmall` | `Spec => []TypeOK`, with the bound on the ledger's length |

`KeysIdentify` says that a ledger key names one item.  It is what the missing
namespace in `record_artifact`'s key costs (section 6): with the v1 engine, or
`push-local`, the last theorem holds only while no two namespaces in use have a
pod of one name.

`DashboardProofs` proves, for any number of streams, any capacity of the channel,
any scenes, and any flows that begin by reading, as those of `wizard.go` do:

| Theorem | Statement |
|---|---|
| `TypesOK` | `Spec => []TypeOK` |
| `OnlyThePaneRunsAlways` | `Spec => []OnlyThePaneRuns` |
| `HeapAlwaysAsksFirst` | `Spec => []HeapAsksFirst` |
| `FlowAlwaysGoesOn` | `Spec => []FlowGoesOn` |

`RefreshProofs` proves, for any number of pods and keys and whichever JVMs hang:

| Theorem | Statement |
|---|---|
| `Invariance` | `Spec => []IInv` |
| `TypeCorrect` | `Spec => []TypeOK` |
| `FlagsAreAnswered` | `Spec => []BusyIsAnswered` |
| `FetchesDoNotStack` | `Spec => []LogsDoNotStack` |

`ThreadDumpProofs` proves, for any number of threads, any finite sets of monitors
and of locks of `java.util.concurrent`, every JVM with them, every format and every
order of the starts:

| Theorem | Statement |
|---|---|
| `RingsAreDeadlocks` | `DistinctNames` implies `Spec => []CyclesAreReal` |
| `NoDeadlockMissed` | `DistinctNames` implies `Spec => []EveryDeadlockFound` |
| `CalmIsEarned` | `DistinctNames` implies `Spec => []AllClearIsEarned` |
| `DeadlockIsFlagged` | `DistinctNames` implies `Spec => []NeverCertifiedHealthy` |

`DistinctNames` says that no two threads have one name.  Run `thread_names`, which
violates `NeverCertifiedHealthy` where two threads do, shows that the hypothesis is
needed: in JSON a lock's owner is known by name only.  The module assumes that no
lock has the name of the condition that parked threads wait on, and
`DistinctNames` that no thread has the name that stands for no owner.

`HeapDumpProofs` proves, for any finite set of objects, any classes and any
files, however damaged:

| Theorem | Statement |
|---|---|
| `Invariance` | `Spec => []IInv` |
| `GraphTypes` | `Spec => []GraphTypeOK` |
| `GarbageTheorem` | `Spec => []GarbageIsExact` |
| `ExactDominators` | `Spec => []DominatorsAreExact` |
| `ShortestPaths` | `Spec => []PathsAreShortest` |
| `SkippedTheorem` | `Spec => []SkippedIsSaid` |
| `FiguresTheorem` | `OneClassPerName` of the dumps of a diff implies `Spec => []FiguresAddUp` |
| `SuspectTheorem` | `Spec => []SuspectHoldsTheHeap` |

They assume what `Histogram` and `HeapDump` assume of their constants: objects
are numbered from 1, there are finitely many classes, sizes are natural numbers,
the limits are positive, and the part of a long path that is shown is not longer
than a path shown in full.  `OneClassPerName` says that no two classes of the objects in one dump
share a name: two class loaders may break it, and then `classMap`
(`hprof_diff.go`) keeps one of the two classes and the growth is of that one.

### Capture

None of the properties is inductive.  That no guessed replica is paused is a
fact about steps long after the decision, so `TokenInv` carries it: no tier, no
request in the pod and no debug container works for a heap unless the `Confirmed`
token is set, the token is for a named or unique pod, and only its pod is paused.  `ControlInv` keeps
what the gate let through, the loop guard of the log follower, and that only
`fetch-heap` searches the pod for a dump.  `PipeInv`
says what the running tier's artifact can hold at each point, from which the
validator's verdict follows; `ResultInv` adds what is recorded so far, which is
what the exit codes are about.  Each action preserves each part in a lemma per
part (`ControlStep`, `TokenStep`, `PipeStep`, `SuccessStep`, `FailureStep`,
`HarmlessStep`); the refinement proof maps each action to a step of
`CapturePromise` or a stutter under the same invariant.

What a tier leaves is told by four more invariants.
`TierInv` ties each program point to its tier, which is trivial and needed by all
the others.  `RemoteInv` says that the dump of the running tier is in the pod from
the moment a copy is attempted, and that the artifact's cleanup is set only after a
copy came back; so the hint names a dump that is there, and what cleanup removes
has just been validated.  `ToldInv` says that hints are about earlier tiers.
`FileInv` makes accounting inductive: a tier's file is untouched before it starts,
has no record while it runs, and is accounted for when it is over.  A file with a
record is not written again because no tier runs twice.

### Dispatcher

`ControlInv` says where each script may stand and for which verb, `UntouchedInv`
what cannot have been touched before a script runs.  Both are needed for the
refusals, which say something of files and pods that other scripts write.
`AimInv` carries the resolution to the step that does the harm: a destructive
script that has a pod either was given its name or has found it alone.  A finite
set with at most one element is the set of that element (`OnlyMatch`), which is
where the finiteness of `Pods` comes in.  For the engine `EngineEffect` draws
from a step of `CapturePromise` the three facts the invariant needs.
`SuccessIsBacked` is part of the invariant: a file of a finished tier is not
written again.

### EvidenceStore

That the manifest is readable says nothing of the inode being written, so
`InodeInv` and `HoldInv` do: the temporary file is never the manifest, the
descriptor of a writer is the temporary file, what it has in memory is the
manifest's records and its own, and from `WriteTmp` on that is what the temporary
file holds.  The rename then puts a complete log in place of another that it
extends.  `AloneInv` keeps the runs apart, `RecordInv` says that a run is
recorded by its rename and not before, `SeenInv` that size and hash are those of
the file.  For the refinement `VerdictsGrow` turns one appended record into one
step of the log, and every other step, a crash included, into a stutter.

### Staging

`OwnedRowKeptUntilRemoved` speaks of the moment of the `mv`, but what makes it
true is the history of the loop: `KeptInv` says that each row the loop is past is
either carried over or owned with its file gone.  That needs `AloneInv`, since a
process that stages could bring the file back.  `HadInv` says that nobody has or
will have a claim on a jattach that was in a pod before (`Spared`): a process at such an item is
between its probe and its row, with `owned` false, and no ledger and no half-done
cleanup has an owned row for it.  While calls succeed, that survives kills and
overlaps.  `StageInv` is about behaviours without faults: an item has one stager
(`OneStager`), whose promise to record it (`Claims`) covers the file until the row
does (`Covered`).  When the ledger already has the key, the row is about this very
item by `KeysIdentify`, and owned by `RowsOwned`.

The bound on the ledger is about its length, and a process that overlaps with
another may append a row that is there already.  `TagInv` says that each row can be
labelled with a process so that no two rows have the same item and label, and that
a process about to append is the label of no row of its item.  The rows then map
into `Items \X Procs`, no two to one pair, so there are no more of them.  What a
cleanup carries over is part of the ledger (`Source`), and keeps its labels.

### Dashboard

The keys are built of operators from models to models, and so is the proof: one
lemma for each operator (`StartPane`, `AskConfirm`, `WizardAdvance`, ...) says which
fields it changes and to what, and the lemmas about the keys only put these
together.  `Room` says that the bound on streams has room for the open question and
the steps still to come, so that the bound never ends a flow.  `ShownOK` says that a
running pane is on the screen unless the strip shows it; `PendOK` that a heap dump
which waits for its route does so behind the prompt that was opened for it, which a
flow's question may cover; `AskedOK` that nothing disruptive has run unasked;
`FlowOK` that a flow has a running pane or an open question to carry it on.  Like
the properties they make exceptions of viewing and resizing (section 6).
`StreamInv` is about what is behind the panes: streams not started are empty, a live
child has not said it is done, and only the pane's stream, while it runs, is waited
for.

### Refresh

Type correctness says that there is one timer of each kind and bounds the starts
of the dashboard, which is inductive only together with `starts <= keys + 1`: a
start takes a key, but the first.  With that, `IInv` splits into a part about the
panel, one about the logs and one about the rest, each preserved in a lemma of
its own (`PanelsStep`, `LogsStep`, `RestStep`).  A busy flag is raised together
with a fetch and lowered by any reply, so a reply that takes the last fetch away
lowers the flag too.  `ProbesTypes` says what a probe may make of the target.

`LogsDoNotStack` is about a sum over the pods.  `InFlight` is a fold, a function
defined by recursion over sets, which the provers cannot unfold, so the proof first
shows by induction on the size that there is such a function
(`SumsExist`), and from its equation that one more fetch of one pod adds one to the
sum (`FlightPlus`, `FlightMinus`).  The property is then inductive as it stands.

### ThreadDump

The proof has two halves, which meet in `IInv`.

The reading (`TextReading`, `JSONReading`): each thread of the JVM has an entry with
its state whose edge is the thread's own (`AllThere`), and every edge of the graph
is one of the waits-for relation (`GraphOK`).  The parser is a fold over the lines,
so this is shown line by line (`ReadHead`, `ReadWaiting`, `ReadLocked`, ...), then of
entries, then of the text, by induction (`LinesRead`, `FlatReads`).  The deadlock
section of jstack repeats some threads without their state and with fewer of their
locks, and leads to entries without edges that must not hide those with them.

The walk (`WalkInv`), on any such graph: `PathOK` says that the path follows edges,
meets no entry twice and none that is done with; `SeenOK` that what is done with
leads only to what is done with; `LeftOK` that in the end no entry with an edge is
left out.  `FoundOK` is the heart: a deadlock with an entry that is done with has
been reported.  When the walk runs into its own path, the rest of the path is a ring
(`RingOfPath`), and a ring is a deadlock (`RingIsReal`), the whole of it, since each
thread waits for one lock.  When it ends otherwise, no thread of the path is of an
unreported deadlock: each thread of a deadlock waits for one of it, by counting
(`DeadlockWaits`), so the deadlock would be followed to the end of the path
(`PathForward`) and be done with.  `KeptOK` and `RealOK` say that what has been
reported is done with, real, and there once.

### HeapGraph and HeapDump

That garbage is exact is a statement about the end of three nested loops.
`GInv` carries it through them.  `GraphTypeOK` keeps the cursors in the arrays
and the fingers of `intersect` in the tree; it is too weak to fail in a run of its
own, and is there for the proof.  `SearchInv` and `RootInv` say that what the search has
visited is reachable, that what a finished node refers to has been visited, and
that the root is finished last; so at its end the order holds exactly what is
reachable.  `DomInv` is one half of the claim: only what is reachable has a
dominator, which has one too (the fingers never fall off the tree).  `StillInv` is
the other half: in a sweep that has changed nothing so far, each node behind it
without a dominator has no predecessor with one.  The sweeps stop when that is true
of all nodes: those with a dominator are then closed under references, and
`Reachable` is the least such set.  `NodeInv` keeps the cursors of the sweep.

The dominators are exact by an argument with two directions.  `PostInv` says of the
search that a node is finished before any other that it is lost with (`LostFirst`
at its end), and `OnceInv` that it is finished once.  A finger that climbs
therefore never passes a node that the node swept is lost with (`NotPassed`), so no
entry of the table is ever too high (`HighInv`), whatever state the table is in.
That none is too low is true only at the end: in a sweep that changes nothing, each
node behind it has its dominator above all its predecessors in the tree (`LinkInv`),
and a table of which that is true is exact (`FixpointIsExact`).

For the paths, `Waves` says that the queue holds what is left of one wave of the
breadth-first search, each node at its exact distance, then the next wave
(`NextWave`); `HopsCount` that each hop that finds something adds a node, so that no
node is further away than there are nodes.

`SuspectHoldsTheHeap` is about retained sizes, which `retained` sums up along the
order of the search in one pass.  The proof has four parts:

* In the dominator tree (`DomTree`) what a node retains by definition, the nodes
  that its loss frees, is below it: of two nodes whose loss frees a third one, one
  is freed with the other (`FreedChain`), and between a node and what it frees is
  one of its children (`ChildBetween`).  Both go by induction from the root.
* `Kin` is what the first k steps of the pass have handed over to a node.  When its
  own turn comes that is all it keeps alive (`KinIsFreed`), because a child comes
  before its dominator in the postorder, and so is what it retains
  (`RetainedIsHeld`).  Sums over finite sets are taken apart by induction over
  their subsets.
* The rows are sorted (`RowsSorted`), so that the first is the most whatever the
  order of the ones that are equal; the pile's top holder is found by climbing the
  tree, which ends since the numbers grow and there are no more levels than nodes
  (`UnderIsFreed`).
* A path goes a hop nearer to the roots at each step and over a reference
  (`PathHolds`), also in what is shown of a long one (`ElidedHolds`); and it is no
  longer than its object is far away (`PathShort`), so that only a path to an object
  far away has a gap (`LongIsFar`).

The figures are sums over the objects and over the classes or names, which agree
because each object counted has one class and each class one name (`SumByKey`).
That the objects kept are the biggest of those seen so far is kept by `noteObj` for
each next object (`NotedIsBiggest`).  `SkippedIsSaid` follows from what
`IInv` says of the report's warning, the histogram and the file.

## 5. Only model-checked

Every safety property the runs check is proved, invariants, action properties and
refinements.  What stays with TLC is liveness: `BudgetBoundsRun`, `StoppedEnds`,
`CatchesUp`, `WalkEnds`, `AnalysisEnds`.  The prover has no `ENABLED`, which
fairness is defined with.

Two things the proofs needed are less usual.  The library states induction with an
operator for the property, which the installed provers cannot instantiate.
`WellFoundedInduction` also has a form in terms of sets, every nonempty set of
natural numbers has a least member, from which `NatSetInduction` is proved: a set
that has 0 and with each number the next contains all of them.  A property is
then turned into the set of numbers that have it.  And functions defined by
recursion, the folds of the community modules, are shown to satisfy their equation
by `StepByStep`, which builds the functions on the numbers up to n one by one.

## 6. Where the code and its documents differ

Shown by runs:

* `evidence_race`: `manifest.json` is read, changed and rewritten without a
  lock, so two captures in one directory lose a record.
* `dashboard_confirm`: a guided flow's question over an open confirmation makes
  the confirm screen its own previous screen: esc no longer leads out, and `y`
  calls a nil function.
* `thread_names`: in the actuator's JSON a lock's owner is found by name, and the
  last thread of a name wins (`threaddump.go:292`): with two threads of one name a
  deadlock is missed, and the dump may be called calm.
* `heap_partial`: a heap dump whose copy broke off is analysed as if it were whole
  (`hprof.go:228`); the diff prints no warning at all.

Notes of hazards in `PROJECT.json`, with the property limited accordingly, since
no run is spent on them:

* Viewing a capture while a command streams drops its cancel function; esc on
  followed logs kills the bash child only, and the pane stays running.
* Replies for the previous pod are shown under the new one until the next fetch.
* The probe of the JVM has no time limit and holds the whole panel back.  After a
  change in the target editor the panel never shows the new pod while the probe of
  the old one hangs, against "the panel + caps refresh on the next tick"
  (`editor.go:162`).
* The size match is claimed but not made; the in-pod dump nobody mentions after
  Ctrl-C; the ledger key without namespace; a probe failure taken for absence; a
  heap section of a snapshot without a verdict.
* The sign-off that `JDEBUG_REQUIRE_DATA_ACK` asks for is required "when
  JDEBUG_REQUIRE_DATA_ACK is set" (`common.sh:301`), but the dispatcher execs the
  engine before `heap_data_gate` (`jdebug:347-352`), and the engine does not know
  the variable.  Nor does it know `JDEBUG_NO_STAGE`, which `jattach.sh:109` obeys.
  `HarmIsAuthorised` asks for the sign-off of the tiers only.
* Under `set -e` the jattach tier ends without a word when the size of the dump
  cannot be read (`jattach.sh:265`), and a remote command that exits with 2 passes
  for a problem with the target (`docs/cli.md:72`), after a dump was taken.
* The JDK tier removes the dump before it looks at the copy (`jdk-heap.sh:124`).
* `--json` before the pod is taken for the pod's name by the jattach and JDK tiers;
  `jdebug fwd` passes its arguments twice (`jdebug:380`).
* `push-local` looks for nothing before it copies (`jdebug:469`): a
  `/tmp/jdebug-local` that was in the pod before is overwritten and recorded with
  owned=1 (`jdebug:471`), and `cleanup --confirm` removes it, against its own "will
  NOT remove: files that existed before this session" (`cleanup.sh:41`).  Staging
  models it; `ProbedFilesUntouched` is stated for jattach.
* `classCounts` counts garbage where message and comment say "reachable"; half a
  million entries of maps, whoever's they are, make a "collection that grows without
  a ceiling" of any holder (`hprof_deep.go:900`); a long path is shown with a step
  left out and no mark; `classMap` keeps one class of a name.
* HotSpot prints the monitor that a thread in `Object.wait` has released as
  "- locked", which the parser takes for held (`threaddump.go:133`); the last thread
  that lists a lock is its holder, so a deadlock over it may be missed.  Not modelled
  (section 8).

## 7. Plan

Done: Capture, Dispatcher, EvidenceStore, Staging, Dashboard, Refresh, ThreadDump
and the heap-dump analysis, each with its proofs.

1. `Snapshot`: the order of the sections, `--no-jattach`, the heap, the bundle's
   counts and exit code, composed with EvidenceStore's `Append`.
2. `MemDiff` and the precedence of `Config`.
3. The captures browser on top of Dashboard.

Each with the proofs of its safety properties.

## 8. Not modelled

* What commands print, screen layout, wording, colours, the transcript.
* The reporters in `observe/`, which format kubectl output.
* `jdebug-local`, a script inside the pod that repeats the dispatcher's gates.
* Bare-metal mode of the TUI (SSH), the mouse, and the fetches that have no guard
  (events, captures, pods).
* The memory-report diff and the precedence of configuration, which are pure
  comparisons; the forms, lists and tabs of the dashboard, which keep no
  state that another part depends on.
* Of heap dumps: the bytes of the records, field names in a path, the entries of
  collections.  Of thread dumps: the list of contended locks, and threads in
  `Object.wait`.  The actuator's text is taken to have the form of jstack's, as the
  repository's fixtures have it.
* Filesystems: the `mv` of `cleanup.sh` is one step, as it is within one
  filesystem; from a `$TMPDIR` elsewhere it copies and removes.  A file that
  `test -x` does not find because it cannot be run is not there in Staging.
* Building, vendoring, installing and hooks.
