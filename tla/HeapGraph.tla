----------------------------- MODULE HeapGraph -----------------------------
(***************************************************************************)
(* tui/hprof_deep.go: the analysis of the object graph of a heap dump,     *)
(* step by step: the depth-first search, the dominators of Cooper, Harvey  *)
(* and Kennedy with their sweeps and fingers, the retained sizes and the   *)
(* shortest paths from the GC roots.                                       *)
(*                                                                         *)
(* Root is node 0 of the code, <GC roots>.  The order of a node's          *)
(* successors and predecessors is that of the records and fields of the    *)
(* file: the loops of the search and of the sweeps take them in any order. *)
(* The breadth-first search puts the new successors of a node in its queue *)
(* in an order that CHOOSE names: TLC sees one, of which the proofs use    *)
(* nothing but that each of them is there once.                            *)
(***************************************************************************)
EXTENDS Integers, Sequences, FiniteSets

CONSTANTS
  Objects,  \* the objects a dump may hold
  Root,     \* the synthetic root
  None      \* -1

ASSUME NodesAssumption ==
  IsFiniteSet(Objects) /\ Root # None /\ {Root, None} \cap Objects = {}

Nodes == Objects \cup {Root}

VARIABLES
  succ,     \* the references, as the file says
  pc,       \* "dfs", "load", "sweep", "paths", "done"; others before and after
  stack, visiting, order, \* the search, and the nodes in postorder
  idom,     \* immediate dominators, None while not known
  at,       \* the sweep has at nodes of reverse postorder to go
  changed,
  todo,     \* predecessors of the node being swept that are not looked at
  new,      \* newIdom
  finger,   \* the other finger of intersect, None outside it
  parent, queue \* bfsParents

dfs   == <<stack, visiting, order>>
sweep == <<idom, at, changed, todo, new, finger>>
paths == <<parent, queue>>
algorithm == <<pc, dfs, sweep, paths>>
gvars == <<succ, algorithm>>

Pred(v) == {u \in Nodes : v \in succ[u]}

\* The state in which dominators() starts on a graph.
Fresh ==
  /\ stack = <<Root>> /\ visiting = {Root} /\ order = <<>>
  /\ idom = [v \in Nodes |-> IF v = Root THEN Root ELSE None]
  /\ at = 0 /\ changed = FALSE /\ todo = {} /\ new = None /\ finger = None
  /\ parent = [v \in Nodes |-> IF v = Root THEN Root ELSE None]
  /\ queue = <<Root>>

---------------------------------------------------------------------------
(* The search.                                                             *)

Top == stack[Len(stack)]

Push ==
  /\ pc = "dfs" /\ stack # <<>>
  /\ \E w \in succ[Top] \ visiting :
       /\ visiting' = visiting \cup {w}
       /\ stack' = Append(stack, w)
  /\ UNCHANGED <<succ, pc, order, sweep, paths>>

Pop ==
  /\ pc = "dfs" /\ stack # <<>> /\ succ[Top] \subseteq visiting
  /\ order' = Append(order, Top)
  /\ stack' = SubSeq(stack, 1, Len(stack) - 1)
  /\ UNCHANGED <<succ, pc, visiting, sweep, paths>>

\* Mutant: the sweep starts one node too late.
BeginLate(p) ==
  /\ pc' = p /\ at' = Len(order) - 2 /\ changed' = FALSE
  /\ todo' = {} /\ new' = None /\ finger' = None
  /\ UNCHANGED <<succ, dfs, idom, paths>>

\* Reverse postorder is order from its end; its first node is Root.
Begin(p) ==
  /\ pc' = p /\ at' = Len(order) - 1 /\ changed' = FALSE
  /\ todo' = {} /\ new' = None /\ finger' = None
  /\ UNCHANGED <<succ, dfs, idom, paths>>

Searched == pc = "dfs" /\ stack = <<>> /\ Begin("load")

---------------------------------------------------------------------------
(* The sweeps.                                                             *)

Po(v) == CHOOSE i \in DOMAIN order : order[i] = v
B     == order[at]

\* The next node of the sweep: its predecessors are to be looked at.
Load ==
  /\ pc = "load" /\ at > 0
  /\ todo' = Pred(B) /\ new' = None /\ pc' = "sweep"
  /\ UNCHANGED <<succ, dfs, idom, at, changed, finger, paths>>

\* A predecessor with no dominator yet says nothing; the first other one is
\* taken as it is, and the next are intersected with what there is.
Look ==
  /\ pc = "sweep" /\ finger = None
  /\ \E p \in todo :
       /\ todo' = todo \ {p}
       /\ new' = IF idom[p] # None /\ new = None THEN p ELSE new
       /\ finger' = IF idom[p] # None /\ new # None THEN p ELSE None
  /\ UNCHANGED <<succ, pc, dfs, idom, at, changed, paths>>

\* intersect: the finger that is lower in postorder climbs until they meet.
Climb ==
  /\ pc = "sweep" /\ finger # None
  /\ CASE finger = new -> finger' = None /\ UNCHANGED new
       [] finger # new /\ Po(finger) < Po(new) -> finger' = idom[finger] /\ UNCHANGED new
       [] OTHER -> new' = idom[new] /\ UNCHANGED finger
  /\ UNCHANGED <<succ, pc, dfs, idom, at, changed, todo, paths>>

\* Mutant: whatever has a dominator counts as a change.
SettleAnew ==
  /\ pc = "sweep" /\ finger = None /\ todo = {}
  /\ idom' = IF new # None THEN [idom EXCEPT ![B] = new] ELSE idom
  /\ changed' = (changed \/ new # None)
  /\ at' = at - 1 /\ pc' = "load"
  /\ UNCHANGED <<succ, dfs, todo, new, finger, paths>>

Settle ==
  /\ pc = "sweep" /\ finger = None /\ todo = {}
  /\ LET news == new # None /\ idom[B] # new
     IN  /\ idom' = IF news THEN [idom EXCEPT ![B] = new] ELSE idom
         /\ changed' = (changed \/ news)
  /\ at' = at - 1 /\ pc' = "load"
  /\ UNCHANGED <<succ, dfs, todo, new, finger, paths>>

\* Mutant: one sweep has to do.
FixedAtOnce == pc = "load" /\ at = 0 /\ Begin("paths")

Again == pc = "load" /\ at = 0 /\ changed /\ Begin("load")
Fixed == pc = "load" /\ at = 0 /\ ~changed /\ Begin("paths")

---------------------------------------------------------------------------
(* The paths.                                                              *)

\* Mutant: a parent is overwritten.
VisitAgain ==
  /\ pc = "paths" /\ queue # <<>>
  /\ LET fresh == {w \in succ[Head(queue)] : parent[w] = None}
     IN  /\ parent' = [w \in Nodes |-> IF w \in succ[Head(queue)] THEN Head(queue) ELSE parent[w]]
         /\ queue' = Tail(queue) \o CHOOSE q \in [1 .. Cardinality(fresh) -> fresh] :
                                      {q[i] : i \in DOMAIN q} = fresh
  /\ UNCHANGED <<succ, pc, dfs, sweep>>

\* One node of bfsParents; the queue takes its new successors in any order,
\* of which the model keeps one.
Visit ==
  /\ pc = "paths" /\ queue # <<>>
  /\ LET fresh == {w \in succ[Head(queue)] : parent[w] = None}
     IN  /\ parent' = [w \in Nodes |-> IF w \in fresh THEN Head(queue) ELSE parent[w]]
         /\ queue' = Tail(queue) \o CHOOSE q \in [1 .. Cardinality(fresh) -> fresh] :
                                      {q[i] : i \in DOMAIN q} = fresh
  /\ UNCHANGED <<succ, pc, dfs, sweep>>

Found ==
  /\ pc = "paths" /\ queue = <<>> /\ pc' = "done"
  /\ UNCHANGED <<succ, dfs, sweep, paths>>

Analyse == Push \/ Pop \/ Searched \/ Load \/ Look \/ Climb \/ Settle \/ Again \/ Fixed
           \/ Visit \/ Found

---------------------------------------------------------------------------
(* Properties.                                                             *)

GraphTypeOK ==
  /\ succ \in [Nodes -> SUBSET Objects]
  /\ visiting \subseteq Nodes /\ Root \in visiting
  /\ stack \in Seq(Nodes) /\ order \in Seq(Nodes)
  /\ idom \in [Nodes -> Nodes \cup {None}] /\ idom[Root] = Root
  /\ at \in 0 .. Len(order) /\ changed \in BOOLEAN
  /\ todo \subseteq Nodes /\ {new, finger} \subseteq Nodes \cup {None}
  /\ parent \in [Nodes -> Nodes \cup {None}] /\ queue \in Seq(Nodes)

\* What the references say, whatever the algorithm does: v is reachable if
\* every set of nodes that holds Root and what its members refer to holds v.
Closed(S)      == Root \in S /\ \A v \in S : succ[v] \subseteq S
Reachable      == {v \in Nodes : \A S \in SUBSET Nodes : Closed(S) => v \in S}

\* The same when x is taken away.
ClosedWithout(S, x) == (x # Root => Root \in S) /\ \A v \in S : succ[v] \ {x} \subseteq S
Freed(x) == {v \in Reachable : \E S \in SUBSET (Nodes \ {x}) : ClosedWithout(S, x) /\ v \notin S}

\* dominators(): an object has a dominator when the sweeps end exactly if it
\* can be reached.  Those without one are called garbage.
GarbageIsExact ==
  pc \in {"paths", "done"} => {v \in Nodes : idom[v] # None} = Reachable

\* dominators() on any graph, with cycles, garbage that refers to live objects
\* and several paths: idom[v] is lost only with what v is lost with, and v is
\* lost with it: it is the closest node whose loss frees v.
DominatorsAreExact ==
  pc \in {"paths", "done"} =>
    \A v \in Reachable \ {Root} :
      LET strict == {d \in Nodes \ {v} : v \in Freed(d)}
      IN  idom[v] \in strict /\ \A d \in strict : idom[v] \in Freed(d)

\* bfsParents: the path to the GC roots is made of references and none is
\* shorter.
Hops[k \in 0 .. Cardinality(Nodes)] ==
  IF k = 0 THEN {Root} ELSE Hops[k - 1] \cup UNION {succ[v] : v \in Hops[k - 1]}

PathsAreShortest ==
  pc = "done" => \A v \in Nodes \ {Root} :
    IF v \in Reachable
    THEN /\ v \in succ[parent[v]]
         /\ \E k \in 1 .. Cardinality(Nodes) : v \notin Hops[k - 1] /\ v \in Hops[k]
                                              /\ parent[v] \in Hops[k - 1]
    ELSE parent[v] = None

\* The fixpoint of dominators() is reached and every node is visited.
AnalysisEnds == (pc = "dfs") ~> (pc = "done")
=============================================================================
