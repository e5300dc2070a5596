------------------------------ MODULE HeapDump ------------------------------
(***************************************************************************)
(* `jdebug analyze` on heap dumps (tui/main.go): the histogram of the dump *)
(* (Histogram), the graph that the deep pass builds from the file, the     *)
(* analysis of it (HeapGraph) and the output on top: the leak pattern, the *)
(* accumulation point, the holders' paths and the verdict; or the growth   *)
(* between two dumps.                                                      *)
(***************************************************************************)
EXTENDS HeapGraph, FiniteSetsExt, SequencesExt

CONSTANTS
  NameOf, Fields, Content, Unhashed, NoContent, BiggestN, \* of the histogram
  Collections, \* the names of classes whose instances the deep pass measures
  Tables,      \* the names that count as a collection when none is measured
  Entries,     \* the names of the entries of maps
  ManyEntries, \* with so many of them any holder counts as a collection
  App,         \* the names that are not of a framework
  Crowd,       \* a class of which CrowdSize instances are a leak pattern
  CrowdSize,
  BigWaste,    \* so many bytes of repeated content count at half the share
  PileSize,    \* so many of one class under one holder: an accumulation point
  Picked,      \* so many holders have their path shown, ...
  Longest,     \* ... in full up to so many nodes, ...
  Fore, Rear,  \* ... and of longer ones the first and last
  Files        \* the files there may be, for "analyze" and for "diff"

ASSUME DumpAssumption ==
  /\ Objects = 1 .. Cardinality(Objects)
  /\ IsFiniteSet(DOMAIN NameOf) /\ Fields \in [DOMAIN NameOf -> Nat]
  /\ {BiggestN, CrowdSize, ManyEntries, BigWaste, PileSize, Picked, Fore, Rear}
       \subseteq Nat \ {0}
  /\ Longest \in Nat /\ Fore + Rear <= Longest

VARIABLES
  job, file,    \* what is asked for, and the file that is read
  hist, before, \* its histogram; in a diff that of the first dump
  nodes,        \* the objects the deep pass has made nodes of
  report        \* the output

INSTANCE Histogram

ASSUME FilesAssumption == \A j \in DOMAIN Files : Files[j] \subseteq FileType

dump == <<job, file, hist, before, nodes, report>>
vars == <<gvars, dump>>

Unread   == [damage |-> "unread"]
NoReport == [pattern |-> "none", about |-> None, pile |-> 0, top |-> None,
             paths |-> {}, verdict |-> "none", warned |-> FALSE]

Init ==
  /\ job \in DOMAIN Files /\ file \in Files[job]
  /\ pc = "read" /\ hist = Unread /\ before = Unread /\ nodes = {} /\ report = NoReport
  /\ succ = [v \in Objects \cup {Root} |-> {}]
  /\ Fresh

---------------------------------------------------------------------------
(* The file.  Both passes of buildHeapGraph stop at the damage, and say    *)
(* nothing.                                                                *)

Intact == Whole(file, {"cut", "odd"})
Half   == IF file.damage = "cut" THEN file.damagedAt ELSE 0

\* Pass 1: a node for each object; of a record that is cut there may be one.
NodesMade == {ObjectsIn(file, Intact), ObjectsIn(file, Intact \cup {Half})}

\* Pass 2: parseBody follows the fields of an object, classDump the static
\* fields; the GC roots are resolved when both passes are over.  Of a record
\* that is cut they take the references in front of the cut.
RefsOf(r) == CASE r = 1 -> file.statics
               [] r = NObjects + 2 -> file.roots
               [] r \in 2 .. NObjects + 1 -> file.refs[r - 1]
               [] OTHER -> {}
Edges(r, part) == IF r \in Intact THEN RefsOf(r) ELSE IF r = Half THEN part ELSE {}

Build ==
  /\ job = "analyze" /\ pc = "read"
  /\ hist' = Histogram(file)
  /\ nodes' \in NodesMade
  /\ \E part \in SUBSET RefsOf(Half) :
       succ' = [v \in Objects \cup {Root} |->
                  nodes' \cap IF v = Root THEN Edges(1, part) \cup Edges(NObjects + 2, part)
                              ELSE IF v \in nodes' THEN Edges(v + 1, part) ELSE {}]
  /\ pc' = "dfs"
  /\ UNCHANGED <<dfs, sweep, paths, job, file, before, report>>

\* `analyze --shallow`, and a deep pass that gives up: the heap has too many
\* objects for it, or its parser panics.
HistogramOnly ==
  /\ job = "analyze" /\ pc = "read"
  /\ hist' = Histogram(file)
  /\ report' = [NoReport EXCEPT !.warned = Warned(Histogram(file))]
  /\ pc' = "shown"
  /\ UNCHANGED <<succ, dfs, sweep, paths, job, file, before, nodes>>

\* `analyze --diff`: the first dump is read, and then the second.
First ==
  /\ job = "diff" /\ pc = "read" /\ before = Unread
  /\ before' = Histogram(file)
  /\ file' \in Files["diff"]
  /\ UNCHANGED <<gvars, job, hist, nodes, report>>

Diff ==
  /\ job = "diff" /\ pc = "read" /\ before # Unread
  /\ hist' = Histogram(file)
  /\ \E v \in DiffVerdict(before, Histogram(file), App) : report' = [NoReport EXCEPT !.verdict = v]
  /\ pc' = "shown"
  /\ UNCHANGED <<succ, dfs, sweep, paths, job, file, before, nodes>>

---------------------------------------------------------------------------
(* The output of the deep pass.                                            *)

\* The deep pass has a size of its own for objects.
Size(v)  == IF v = Root THEN 0 ELSE Fields[file.class[v]] + 16
Sizes(S) == SumFunctionOnSet([v \in Objects \cup {Root} |-> Size(v)], S)
Name(o)  == NameOf[file.class[o]]

\* Mutant: dominators before their children.
RetainedLate ==
  LET R[k \in 0 .. Len(order)] ==
        IF k = 0 THEN [v \in Objects \cup {Root} |-> Size(v)]
        ELSE LET v == order[Len(order) + 1 - k] r == R[k - 1]
             IN  IF v = Root \/ idom[v] = None THEN r
                 ELSE [r EXCEPT ![idom[v]] = @ + r[v]]
  IN  R[Len(order)]

\* retainedSizes: children before their dominator.
Retained ==
  LET R[k \in 0 .. Len(order)] ==
        IF k = 0 THEN [v \in Objects \cup {Root} |-> Size(v)]
        ELSE LET v == order[k] r == R[k - 1]
             IN  IF v = Root \/ idom[v] = None THEN r
                 ELSE [r EXCEPT ![idom[v]] = @ + r[v]]
  IN  R[Len(order)]

\* The rows: what is not garbage, sorted by what it retains.  Of two that
\* retain the same, either may come first.
Live == {o \in nodes : idom[o] # None}
Sorted(ret) == {q \in SetToSeqs(Live) : \A i \in 2 .. Len(q) : ret[q[i]] <= ret[q[i - 1]]}

Share(bytes, percent) == bytes * 100 >= percent * Sizes(Live)

\* leakPattern: the first that matches, and the object it is read off.  The
\* instances are those of the whole graph (classCounts), garbage and all, and
\* the entries need not be the holder's own.
LeakPattern(rows, ret) ==
  LET top       == rows[1]
      caches    == {i \in DOMAIN rows : Share(ret[rows[i]], 25) /\ Name(rows[i]) \in Collections}
      entries   == Cardinality({o \in nodes : Name(o) \in Entries})
      Says(p, o) == [pattern |-> p, about |-> o]
  IN  CASE rows = <<>> -> Says("none", None)
        [] rows # <<>> /\ Cardinality({o \in nodes : Name(o) = Crowd}) >= CrowdSize ->
             Says("crowd", None)
        [] OTHER ->
             IF caches # {} THEN Says("collection", rows[Min(caches)])
             ELSE IF Share(ret[top], 25) /\ (Name(top) \in Tables \/ entries >= ManyEntries)
                  THEN Says("collection", top)
             ELSE IF Share(ret[top], 30) /\ Name(top) \in App THEN Says("single", top)
             ELSE IF /\ hist.waste > 0
                     /\ \/ Share(hist.waste, 20)
                        \/ Share(hist.waste, 10) /\ hist.waste >= BigWaste
                  THEN Says("strings", None)
             ELSE Says("none", None)

\* dominatorChildren and accumulationPoint: how many there are of the class
\* that is most frequent in the dominator tree under a holder.
Up[k \in 0 .. Cardinality(Nodes)] ==
  [v \in Objects |-> IF k = 0 THEN v
                     ELSE LET u == Up[k - 1][v] IN IF u \in {Root, None} THEN u ELSE idom[u]]
Under(v) == {o \in Live \ {v} : \E k \in 1 .. Cardinality(Nodes) : Up[k][o] = v}
Pile(v)  == Max({0} \cup {Cardinality({o \in Under(v) : Name(o) = n}) : n \in Names})

\* renderPaths: the biggest holders, one of each class, ...
Picks(rows, ret) ==
  LET own == {i \in DOMAIN rows : /\ \A j \in 1 .. i : Share(ret[rows[j]], 2)
                                  /\ \A j \in 1 .. i - 1 : Name(rows[j]) # Name(rows[i])}
  IN  {rows[i] : i \in {j \in own : Cardinality({k \in own : k < j}) < Picked}}

\* ... and the chain that pathFromRoot finds for each, a long one without its
\* middle.
PathTo(v) ==
  LET P[k \in 1 .. Cardinality(Nodes)] == IF k = 1 THEN <<v>>
                                          ELSE LET q == P[k - 1]
                                               IN  IF Head(q) = Root THEN q
                                                   ELSE <<parent[Head(q)]>> \o q
  IN  P[Cardinality(Nodes)]
Elided(q) == IF Len(q) <= Longest THEN q
             ELSE SubSeq(q, 1, Fore) \o SubSeq(q, Len(q) - Rear + 1, Len(q))

\* deepVerdict, when there is no pattern.
DeepVerdict(rows, ret) ==
  IF rows = <<>> THEN "nothing reachable"
  ELSE IF Share(ret[rows[1]], 40) THEN "by design" ELSE "spread"

\* analyzeHprofDeep, and the histogram under it.
Report ==
  /\ pc = "done"
  /\ \E ret \in {Retained} : \E rows \in Sorted(ret) :
       LET p    == LeakPattern(rows, ret)
           pile == IF rows = <<>> THEN 0 ELSE Pile(rows[1])
       IN  report' = [pattern |-> p.pattern, about |-> p.about,
                      pile |-> IF pile >= PileSize THEN pile ELSE 0,
                      top |-> IF rows = <<>> THEN None ELSE rows[1],
                      paths |-> {Elided(PathTo(v)) : v \in Picks(rows, ret)},
                      verdict |-> IF p.pattern = "none" THEN DeepVerdict(rows, ret) ELSE "none",
                      warned |-> Warned(hist)]
  /\ pc' = "shown"
  /\ UNCHANGED <<succ, dfs, sweep, paths, job, file, hist, before, nodes>>

Next == Build \/ HistogramOnly \/ First \/ Diff \/ (Analyse /\ UNCHANGED dump) \/ Report

Spec == Init /\ [][Next]_vars /\ WF_vars(Analyse /\ UNCHANGED dump)

---------------------------------------------------------------------------
(* Properties.                                                             *)

\* The shortest chain to v has more than Longest nodes, with the root.
Far(v) == \A k \in 0 .. Cardinality(Nodes) : v \in Hops[k] => k >= Longest

\* leakPattern and accumulationPoint: retainedSizes is "the memory freed if v
\* were collected".  The object named as the leak keeps at least a quarter of
\* the live heap alive, no other object keeps more when it is named for that,
\* the pile under the top holder is freed with it, and the chains shown as the
\* reason lead from the GC roots over references, every step of them, but where
\* the middle of a long one is left out (renderPaths): the object at its end is
\* at least Longest references away from the roots.
SuspectHoldsTheHeap ==
  LET Held(o)  == Sizes(Freed(o))
      live     == nodes \cap Reachable
  IN  /\ report.about # None =>
           /\ report.about \in live /\ Held(report.about) * 4 >= Sizes(live)
           /\ report.pattern = "single" => \A o \in live : Held(o) <= Held(report.about)
      /\ report.pile > 0 =>
           \E n \in Names :
             report.pile = Cardinality({o \in Freed(report.top) \ {report.top} : Name(o) = n})
      /\ \A q \in report.paths :
           /\ q[1] = Root /\ q[Len(q)] \in live
           /\ \A i \in 2 .. Len(q) : \/ q[i] \in succ[q[i - 1]]
                                     \/ /\ Len(q) = Fore + Rear /\ i = Fore + 1
                                        /\ Far(q[Len(q)])

\* renderHistogram: "be honest".  Of an analysis that leaves out an object
\* because the parser gives up at a record or the file is too long for it, the
\* output carries a warning.
SkippedIsSaid ==
  pc = "shown" /\ job = "analyze" /\ file.damage # "cut" =>
    report.warned \/ hist.total = Bytes(file, file.objects)

\* renderHistogram: "a wrong-but-confident histogram is the worst outcome", of
\* whatever damage the file has, and of a diff as well.
NeverConfidentlyWrong ==
  pc = "shown" => \/ report.warned
                  \/ hist.total = Bytes(file, file.objects)

\* noteObj, result and analyzeHprofDiff: whatever the order of the objects, the
\* biggest are kept; the rows add up to the total; and the growth of all the
\* classes, vanished ones too, is that of the heap.
FiguresAddUp ==
  hist # Unread =>
    LET read == ObjectsIn(file, Whole(file, {"cut", "odd", "long"}))
    IN  /\ Cardinality(hist.biggest) = Min({BiggestN, Cardinality(read)})
        /\ \A o \in hist.biggest, p \in read \ hist.biggest : Shallow(file, p) <= Shallow(file, o)
        /\ hist.total = SumFunction([c \in DOMAIN hist.rows |-> hist.rows[c].bytes])
        /\ job = "diff" => SumFunction(Growth(before, hist)) = hist.total - before.total
=============================================================================
