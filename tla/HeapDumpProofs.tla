--------------------------- MODULE HeapDumpProofs ---------------------------
(***************************************************************************)
(* TLAPS proofs about HeapDump and HeapGraph, for any objects, classes and *)
(* files, however they are damaged, and every graph: the analysis keeps    *)
(* its types, when the sweeps are over the objects with a dominator are    *)
(* those that can be reached and the dominators are exact, the paths are   *)
(* the shortest, what is skipped is said, the figures of the histogram add *)
(* up, and the suspect of the report holds what it is said to hold.        *)
(***************************************************************************)
EXTENDS HeapDump, FiniteSetTheorems, SequenceTheorems, WellFoundedInduction, TLAPS

---------------------------------------------------------------------------
(* Induction over data: least elements, sets of numbers, and functions     *)
(* that are defined step by step.                                          *)

LEMMA LeastOf ==
  ASSUME NEW T \in SUBSET Nat, T # {}
  PROVE  \E k \in T : \A y \in T : k <= y
<1> DEFINE R == OpToRel(<, Nat)
<1>1. IsWellFoundedOn(R, Nat)
  BY NatLessThanWellFounded, Zenon DEF OpToRel
<1>2. \A x, y \in Nat : x < y => <<x, y>> \in R
  BY DEF OpToRel
<1> HIDE DEF R
<1>3. PICK k \in T : \A y \in T : ~(<<y, k>> \in R)
  BY <1>1, WFMin
<1>4. ASSUME NEW y \in T PROVE k <= y
  <2>1. ~(y < k)
    BY <1>2, <1>3
  <2> QED
    BY <2>1
<1> QED
  BY <1>4

LEMMA NatSetInduction ==
  ASSUME NEW S, 0 \in S, \A n \in Nat : n \in S => n + 1 \in S
  PROVE  Nat \subseteq S
<1> SUFFICES ASSUME Nat \ S # {} PROVE FALSE
  OBVIOUS
<1>1. PICK k \in Nat \ S : \A y \in Nat \ S : k <= y
  BY LeastOf
<1>2. k # 0 /\ k - 1 \in Nat
  OBVIOUS
<1>3. k - 1 \in S
  BY <1>1, <1>2
<1>4. (k - 1) + 1 \in S
  BY <1>2, <1>3
<1> QED
  BY <1>4

\* A function on 0 .. n that starts at x and makes the steps of F.
Steppers(V) == [Nat -> [V -> V]]
Runs(V, x, n, F) == {f \in [0 .. n -> V] : f[0] = x /\ \A k \in 1 .. n : f[k] = F[k][f[k - 1]]}

LEMMA StepByStep ==
  ASSUME NEW V, NEW x \in V, NEW n \in Nat, NEW F \in Steppers(V)
  PROVE  Runs(V, x, n, F) # {}
<1> DEFINE Ok(i) == \E f \in [0 .. i -> V] : f[0] = x /\ \A k \in 1 .. i : f[k] = F[k][f[k - 1]]
           S == {i \in Nat : Ok(i)}
<1>1. 0 \in S
  <2> DEFINE g == [k \in 0 .. 0 |-> x]
  <2>1. g \in [0 .. 0 -> V] /\ g[0] = x /\ \A k \in 1 .. 0 : g[k] = F[k][g[k - 1]]
    OBVIOUS
  <2> HIDE DEF g
  <2> QED
    BY <2>1
<1>2. ASSUME NEW i \in Nat, i \in S PROVE i + 1 \in S
  <2>1. PICK f \in [0 .. i -> V] : f[0] = x /\ \A k \in 1 .. i : f[k] = F[k][f[k - 1]]
    BY <1>2
  <2> DEFINE g == [k \in 0 .. i + 1 |-> IF k = i + 1 THEN F[i + 1][f[i]] ELSE f[k]]
  <2>2. F[i + 1][f[i]] \in V
    BY <2>1 DEF Steppers
  <2>3. g \in [0 .. i + 1 -> V] /\ g[0] = x
    BY <2>1, <2>2
  <2>4. \A k \in 1 .. i + 1 : g[k] = F[k][g[k - 1]]
    BY <2>1
  <2> HIDE DEF g
  <2> QED
    BY <2>3, <2>4
<1>3. Nat \subseteq S
  <2> HIDE DEF S
  <2> QED
    BY <1>1, <1>2, NatSetInduction
<1> QED
  BY <1>3 DEF Runs

---------------------------------------------------------------------------
(* The invariant of the graph's analysis.                                  *)

\* The search: what is visited can be reached and is on the stack or in
\* postorder, where all that a node refers to is visited.  Root is under all
\* the rest of the stack, and then the last of the order.
SearchInv ==
  /\ visiting \subseteq Reachable
  /\ \A i \in DOMAIN stack : stack[i] \in visiting
  /\ \A v \in visiting : (\E i \in DOMAIN stack : stack[i] = v)
                         \/ (\E i \in DOMAIN order : order[i] = v)
  /\ \A i \in DOMAIN order : succ[order[i]] \subseteq visiting

RootInv ==
  /\ stack # <<>> => /\ stack[1] = Root
                     /\ \A i \in 2 .. Len(stack) : stack[i] # Root
                     /\ \A i \in DOMAIN order : order[i] # Root
  /\ stack = <<>> => /\ Len(order) > 0 /\ order[Len(order)] = Root
                     /\ \A i \in 1 .. Len(order) - 1 : order[i] # Root

\* The sweeps: only what can be reached has a dominator, which has one too.
Known(v) == v \in Nodes /\ idom[v] # None
DomInv ==
  \A v \in Nodes : idom[v] # None => v \in Reachable /\ Known(idom[v])

\* The node being swept, and its candidate.
NodeInv ==
  /\ pc \in {"load", "sweep", "paths", "done"} => stack = <<>>
  /\ pc \in {"load", "sweep"} => at <= Len(order) - 1
  /\ pc = "load" => finger = None
  /\ pc = "sweep" => /\ at > 0 /\ todo \subseteq Pred(B)
                     /\ new # None => Known(new) /\ B \in Reachable
                     /\ finger # None => Known(finger) /\ new # None

\* A sweep that changes nothing: what it leaves without a dominator has no
\* predecessor with one.
Lost(v) == idom[v] = None => \A p \in Pred(v) : idom[p] = None
StillInv ==
  pc \in {"load", "sweep"} /\ ~changed =>
    /\ \A j \in at + 1 .. Len(order) - 1 : Lost(order[j])
    /\ pc = "sweep" => \A p \in Pred(B) \ todo : idom[p] # None => new # None

GInv == GraphTypeOK /\ SearchInv /\ RootInv /\ DomInv /\ NodeInv /\ StillInv /\ GarbageIsExact

---------------------------------------------------------------------------
(* What can be reached.                                                    *)

LEMMA ReachableClosed ==
  ASSUME succ \in [Nodes -> SUBSET Objects]
  PROVE  Closed(Reachable) /\ Reachable \subseteq Nodes
BY DEF Closed, Reachable, Nodes

LEMMA ReachableLeast ==
  ASSUME NEW S \in SUBSET Nodes, Closed(S)
  PROVE  Reachable \subseteq S
BY DEF Reachable

LEMMA ReachableSame ==
  ASSUME succ' = succ
  PROVE  Reachable' = Reachable
BY DEF Reachable, Closed

\* When the search is over, what is visited is all that can be reached.
LEMMA AllVisited ==
  ASSUME GraphTypeOK, SearchInv, stack = <<>>
  PROVE  visiting = Reachable
<1>1. \A v \in visiting : succ[v] \subseteq visiting
  BY DEF SearchInv
<1>2. Closed(visiting)
  BY <1>1 DEF GraphTypeOK, Closed
<1>3. Reachable \subseteq visiting
  BY <1>2, ReachableLeast DEF GraphTypeOK
<1> QED
  BY <1>3 DEF SearchInv

\* The state in which the analysis begins, on any graph.
LEMMA FreshInv == Fresh /\ pc \in {"read", "dfs"} /\ succ \in [Nodes -> SUBSET Objects] => GInv
<1> SUFFICES ASSUME Fresh, pc \in {"read", "dfs"}, succ \in [Nodes -> SUBSET Objects]
             PROVE  GInv
  OBVIOUS
<1>1. Root \in Reachable
  BY ReachableClosed DEF Closed
<1>2. DOMAIN stack = {1} /\ stack[1] = Root /\ stack # <<>> /\ Len(stack) = 1 /\ stack \in Seq(Nodes)
  BY DEF Fresh, Nodes
<1>3. DOMAIN order = {} /\ Len(order) = 0 /\ order \in Seq(Nodes)
  BY DEF Fresh
<1>4. queue \in Seq(Nodes)
  BY DEF Fresh, Nodes
<1>5. GraphTypeOK
  <2>1. idom \in [Nodes -> Nodes \cup {None}] /\ idom[Root] = Root
    BY DEF Fresh, Nodes
  <2>2. parent \in [Nodes -> Nodes \cup {None}]
    BY DEF Fresh, Nodes
  <2>3. at \in 0 .. Len(order)
    BY <1>3 DEF Fresh
  <2> QED
    BY <1>2, <1>3, <1>4, <2>1, <2>2, <2>3 DEF Fresh, GraphTypeOK, Nodes
<1>6. SearchInv
  BY <1>1, <1>2, <1>3 DEF Fresh, SearchInv
<1>7. RootInv
  BY <1>2, <1>3 DEF Fresh, RootInv
<1>8. DomInv
  BY <1>1, NodesAssumption DEF Fresh, DomInv, Known, Nodes
<1>9. NodeInv /\ StillInv /\ GarbageIsExact
  BY DEF NodeInv, StillInv, GarbageIsExact
<1> QED
  BY <1>5, <1>6, <1>7, <1>8, <1>9 DEF GInv

---------------------------------------------------------------------------
(* The search.                                                             *)

LEMMA PushInv == ASSUME GInv, Push PROVE GInv'
<1> USE DEF GInv
<1>1. stack \in Seq(Nodes) /\ order \in Seq(Nodes) /\ succ \in [Nodes -> SUBSET Objects]
  BY DEF GraphTypeOK
<1>2. /\ pc = "dfs" /\ stack # <<>>
      /\ UNCHANGED <<succ, pc, order, idom, at, changed, todo, new, finger, parent, queue>>
  BY DEF Push, sweep, paths
<1>3. PICK w \in succ[Top] \ visiting : visiting' = visiting \cup {w} /\ stack' = Append(stack, w)
  BY DEF Push
<1>4. Len(stack) \in Nat \ {0} /\ Len(stack) \in DOMAIN stack
  BY <1>1, <1>2
<1>5. Top \in visiting /\ Top \in Nodes
  BY <1>4, <1>1 DEF Top, SearchInv
<1>6. w \in Nodes /\ w # Root /\ w \in Reachable
  BY <1>1, <1>3, <1>5, ReachableClosed DEF SearchInv, GraphTypeOK, Closed, Nodes
<1>7. /\ stack' \in Seq(Nodes) /\ Len(stack') = Len(stack) + 1 /\ stack' # <<>>
      /\ \A i \in DOMAIN stack : i \in DOMAIN stack' /\ stack'[i] = stack[i]
      /\ DOMAIN stack' = DOMAIN stack \cup {Len(stack) + 1}
      /\ stack'[Len(stack) + 1] = w /\ Len(stack) + 1 \in DOMAIN stack'
  BY <1>1, <1>3, <1>6
<1>8. Reachable' = Reachable
  BY <1>2, ReachableSame
<1>9. GraphTypeOK'
  BY <1>2, <1>3, <1>6, <1>7 DEF GraphTypeOK
<1>10. SearchInv'
  BY <1>2, <1>3, <1>6, <1>7, <1>8 DEF SearchInv
<1>11. RootInv'
  <2>1. stack[1] = Root /\ \A i \in DOMAIN order : order[i] # Root
    BY <1>2 DEF RootInv
  <2>2. stack'[1] = Root
    BY <1>1, <1>4, <1>7, <2>1
  <2>3. ASSUME NEW i \in 2 .. Len(stack') PROVE stack'[i] # Root
    <3>1. CASE i = Len(stack) + 1
      BY <1>6, <1>7, <3>1
    <3>2. CASE i # Len(stack) + 1
      <4>1. i \in 2 .. Len(stack) /\ i \in DOMAIN stack
        BY <1>1, <1>4, <1>7, <3>2
      <4> QED
        BY <1>2, <1>7, <4>1 DEF RootInv
    <3> QED
      BY <3>1, <3>2
  <2> QED
    BY <1>2, <1>7, <2>1, <2>2, <2>3 DEF RootInv
<1>12. DomInv'
  BY <1>2, <1>8 DEF DomInv, Known
<1>13. NodeInv' /\ StillInv' /\ GarbageIsExact'
  BY <1>2 DEF NodeInv, StillInv, GarbageIsExact
<1> QED
  BY <1>9, <1>10, <1>11, <1>12, <1>13

LEMMA PopInv == ASSUME GInv, Pop PROVE GInv'
<1> USE DEF GInv
<1>1. stack \in Seq(Nodes) /\ order \in Seq(Nodes) /\ succ \in [Nodes -> SUBSET Objects]
  BY DEF GraphTypeOK
<1>2. /\ pc = "dfs" /\ stack # <<>> /\ succ[Top] \subseteq visiting
      /\ order' = Append(order, Top) /\ stack' = SubSeq(stack, 1, Len(stack) - 1)
      /\ UNCHANGED <<succ, pc, visiting, idom, at, changed, todo, new, finger, parent, queue>>
  BY DEF Pop, sweep, paths
<1>3. Len(stack) \in Nat \ {0} /\ Len(stack) \in DOMAIN stack
  BY <1>1, <1>2
<1>4. Top \in visiting /\ Top \in Nodes /\ Top = stack[Len(stack)]
  BY <1>3, <1>1 DEF Top, SearchInv
<1>5. /\ stack' \in Seq(Nodes) /\ Len(stack') = Len(stack) - 1
      /\ DOMAIN stack' = 1 .. Len(stack) - 1
      /\ \A i \in 1 .. Len(stack) - 1 : i \in DOMAIN stack /\ stack'[i] = stack[i]
  <2> DEFINE n == Len(stack) - 1
  <2>1. n \in Nat /\ (\A i \in 1 .. n : stack[i] \in Nodes) /\ stack' = SubSeq(stack, 1, n)
    BY <1>1, <1>2, <1>3
  <2> HIDE DEF n
  <2>2. /\ stack' \in Seq(Nodes) /\ Len(stack') = IF 1 <= n THEN n - 1 + 1 ELSE 0
        /\ \A i \in 1 .. n - 1 + 1 : stack'[i] = stack[1 + i - 1]
    BY <2>1, SubSeqProperties
  <2>3. stack' \in Seq(Nodes) /\ Len(stack') = n
    BY <2>1, <2>2
  <2>4. \A i \in 1 .. n : stack'[i] = stack[i]
    BY <2>1, <2>2
  <2> USE DEF n
  <2>5. DOMAIN stack' = 1 .. n /\ \A i \in 1 .. n : i \in DOMAIN stack
    BY <1>1, <1>3, <2>3
  <2> QED
    BY <2>3, <2>4, <2>5
<1>6. /\ order' \in Seq(Nodes) /\ Len(order') = Len(order) + 1 /\ Len(order) \in Nat
      /\ DOMAIN order' = DOMAIN order \cup {Len(order) + 1}
      /\ \A i \in DOMAIN order : order'[i] = order[i]
      /\ order'[Len(order) + 1] = Top /\ DOMAIN order = 1 .. Len(order)
  BY <1>1, <1>2, <1>4
<1>7. Reachable' = Reachable
  BY <1>2, ReachableSame
<1>8. GraphTypeOK'
  <2>1. at' \in 0 .. Len(order')
    BY <1>2, <1>6 DEF GraphTypeOK
  <2> QED
    BY <1>2, <1>5, <1>6, <2>1 DEF GraphTypeOK
<1>9. SearchInv'
  <2>1. \A v \in visiting : (\E i \in DOMAIN stack' : stack'[i] = v)
                            \/ (\E i \in DOMAIN order' : order'[i] = v)
    <3> SUFFICES ASSUME NEW v \in visiting
                 PROVE  (\E i \in DOMAIN stack' : stack'[i] = v)
                        \/ (\E i \in DOMAIN order' : order'[i] = v)
      OBVIOUS
    <3>1. CASE v = Top
      BY <3>1, <1>6
    <3>2. CASE v # Top /\ \E i \in DOMAIN stack : stack[i] = v
      <4>1. PICK i \in DOMAIN stack : stack[i] = v
        BY <3>2
      <4>2. i \in 1 .. Len(stack) - 1
        BY <4>1, <3>2, <1>1, <1>3, <1>4
      <4> QED
        BY <4>1, <4>2, <1>5
    <3>3. CASE \E i \in DOMAIN order : order[i] = v
      BY <3>3, <1>6
    <3> QED
      BY <3>1, <3>2, <3>3 DEF SearchInv
  <2>2. \A i \in DOMAIN stack' : stack'[i] \in visiting
    BY <1>5 DEF SearchInv
  <2>3. \A i \in DOMAIN order' : succ[order'[i]] \subseteq visiting
    BY <1>2, <1>6 DEF SearchInv
  <2> QED
    BY <1>2, <1>7, <2>1, <2>2, <2>3 DEF SearchInv
<1>10. RootInv'
  <2>1. CASE Len(stack) = 1
    <3>1. stack' = <<>> /\ Top = Root
      BY <2>1, <1>1, <1>2, <1>4 DEF RootInv
    <3>2. \A i \in 1 .. Len(order') - 1 : order'[i] # Root
      BY <1>2, <1>6 DEF RootInv
    <3> QED
      BY <3>1, <3>2, <1>6 DEF RootInv
  <2>2. CASE Len(stack) # 1
    <3>1. Len(stack) - 1 > 0 /\ stack' # <<>> /\ Len(stack) \in 2 .. Len(stack)
      BY <2>2, <1>3, <1>5
    <3>2. Top # Root
      BY <3>1, <1>2, <1>4 DEF RootInv
    <3>3. stack'[1] = Root /\ \A i \in 2 .. Len(stack') : stack'[i] # Root
      BY <3>1, <1>2, <1>3, <1>5 DEF RootInv
    <3>4. \A i \in DOMAIN order' : order'[i] # Root
      BY <3>2, <1>2, <1>6 DEF RootInv
    <3> QED
      BY <3>1, <3>3, <3>4 DEF RootInv
  <2> QED
    BY <2>1, <2>2
<1>11. DomInv'
  BY <1>2, <1>7 DEF DomInv, Known
<1>12. NodeInv' /\ StillInv' /\ GarbageIsExact'
  BY <1>2 DEF NodeInv, StillInv, GarbageIsExact
<1> QED
  BY <1>8, <1>9, <1>10, <1>11, <1>12

---------------------------------------------------------------------------
(* The sweeps.  Begin ends the search and each sweep.                      *)

LEMMA BeginInv ==
  ASSUME GInv, NEW p, Begin(p), p \in {"load", "paths"}, stack = <<>>,
         p = "paths" => {v \in Nodes : idom[v] # None} = Reachable
  PROVE  GInv'
<1> USE DEF GInv
<1>1. /\ pc' = p /\ at' = Len(order) - 1 /\ changed' = FALSE
      /\ todo' = {} /\ new' = None /\ finger' = None
      /\ UNCHANGED <<succ, stack, visiting, order, idom, parent, queue>>
  BY DEF Begin, dfs, paths
<1>2. Len(order) \in Nat \ {0}
  BY DEF RootInv, GraphTypeOK
<1>3. Reachable' = Reachable
  BY <1>1, ReachableSame
<1>4. GraphTypeOK'
  <2>1. Len(order') = Len(order)
    BY <1>1
  <2>2. at' \in 0 .. Len(order')
    BY <1>1, <1>2, <2>1
  <2> QED
    BY <1>1, <2>2 DEF GraphTypeOK
<1>5. SearchInv' /\ RootInv' /\ DomInv'
  BY <1>1, <1>3 DEF SearchInv, RootInv, DomInv, Known
<1>6. NodeInv'
  BY <1>1, <1>2 DEF NodeInv
<1>7. StillInv'
  BY <1>1, <1>2 DEF StillInv
<1>8. GarbageIsExact'
  BY <1>1, <1>3 DEF GarbageIsExact
<1> QED
  BY <1>4, <1>5, <1>6, <1>7, <1>8

\* What a step of a sweep leaves as it is, when it changes no dominator.
LEMMA SweepFrame ==
  ASSUME GInv, UNCHANGED <<succ, stack, visiting, order, idom>>
  PROVE  /\ SearchInv' /\ RootInv' /\ DomInv' /\ Reachable' = Reachable
         /\ \A v : Lost(v)' = Lost(v) /\ Known(v)' = Known(v) /\ Pred(v)' = Pred(v)
<1>1. Reachable' = Reachable
  BY ReachableSame
<1>2. \A v : Lost(v)' = Lost(v) /\ Known(v)' = Known(v) /\ Pred(v)' = Pred(v)
  BY DEF Lost, Known, Pred
<1> QED
  BY <1>1, <1>2 DEF GInv, SearchInv, RootInv, DomInv, Known

LEMMA SearchedInv == ASSUME GInv, Searched PROVE GInv'
BY BeginInv DEF Searched

LEMMA AgainInv == ASSUME GInv, Again PROVE GInv'
BY BeginInv DEF Again, GInv, NodeInv

\* A sweep without a change: the nodes with a dominator are closed.
LEMMA FixedInv == ASSUME GInv, Fixed PROVE GInv'
<1> USE DEF GInv
<1> DEFINE S == {v \in Nodes : idom[v] # None}
<1>1. pc = "load" /\ at = 0 /\ ~changed /\ Begin("paths") /\ stack = <<>>
  BY DEF Fixed, NodeInv
<1>2. \A j \in 1 .. Len(order) - 1 : Lost(order[j])
  BY <1>1 DEF StillInv
<1>3. Root \in S
  BY NodesAssumption DEF GraphTypeOK, Nodes
<1>4. ASSUME NEW v \in S, NEW w \in succ[v] PROVE w \in S
  <2>1. v \in Reachable /\ w \in Nodes
    BY DEF DomInv, GraphTypeOK, Nodes
  <2>2. visiting = Reachable
    BY <1>1, AllVisited
  <2>3. w \in visiting
    BY <2>1, <2>2, ReachableClosed DEF Closed, GraphTypeOK
  <2>4. PICK j \in DOMAIN order : order[j] = w
    BY <2>3, <1>1 DEF SearchInv
  <2>5. DOMAIN order = 1 .. Len(order) /\ Len(order) \in Nat
    BY DEF GraphTypeOK
  <2>6. CASE j = Len(order)
    BY <2>4, <2>6, <1>1, <1>3 DEF RootInv
  <2>7. CASE j # Len(order)
    <3>1. j \in 1 .. Len(order) - 1
      BY <2>5, <2>7
    <3>2. v \in Pred(w)
      BY DEF Pred
    <3> QED
      BY <3>1, <3>2, <2>1, <2>4, <1>2 DEF Lost
  <2> QED
    BY <2>6, <2>7
<1>5. Closed(S)
  BY <1>3, <1>4 DEF Closed, GraphTypeOK, Nodes
<1>6. Reachable \subseteq S
  BY <1>5, ReachableLeast
<1>7. S \subseteq Reachable
  BY DEF DomInv
<1> QED
  BY <1>1, <1>6, <1>7, BeginInv

LEMMA LoadInv == ASSUME GInv, Load PROVE GInv'
<1> USE DEF GInv
<1>1. /\ pc = "load" /\ at > 0 /\ todo' = Pred(B) /\ new' = None /\ pc' = "sweep"
      /\ UNCHANGED <<succ, stack, visiting, order, idom, at, changed, finger, parent, queue>>
  BY DEF Load, dfs, paths
<1>2. B' = B /\ Pred(B)' = Pred(B)
  BY <1>1 DEF B, Pred
<1>3. NodeInv'
  BY <1>1, <1>2 DEF NodeInv, Known, B
<1>4. GraphTypeOK'
  BY <1>1 DEF GraphTypeOK, Pred
<1>5. StillInv'
  BY <1>1, <1>2, SweepFrame DEF StillInv
<1>6. GarbageIsExact'
  BY <1>1 DEF GarbageIsExact
<1> QED
  BY <1>1, <1>3, <1>4, <1>5, <1>6, SweepFrame

LEMMA LookInv == ASSUME GInv, Look PROVE GInv'
<1> USE DEF GInv
<1>1. /\ pc = "sweep" /\ finger = None
      /\ UNCHANGED <<succ, pc, stack, visiting, order, idom, at, changed, parent, queue>>
  BY DEF Look, dfs, paths
<1>2. PICK p \in todo :
        /\ todo' = todo \ {p}
        /\ new' = IF idom[p] # None /\ new = None THEN p ELSE new
        /\ finger' = IF idom[p] # None /\ new # None THEN p ELSE None
  BY DEF Look
<1>3. p \in Nodes /\ p \in Pred(B) /\ B \in succ[p]
  BY <1>1, <1>2 DEF NodeInv, Pred
<1>4. B' = B /\ Pred(B)' = Pred(B)
  BY <1>1 DEF B, Pred
<1>5. idom[p] # None => Known(p) /\ B \in Reachable
  BY <1>3, ReachableClosed DEF DomInv, Known, Closed, GraphTypeOK
<1>6. GraphTypeOK'
  BY <1>1, <1>2, <1>3 DEF GraphTypeOK
<1>7. NodeInv'
  <2>1. /\ new' # None => Known(new') /\ B \in Reachable
        /\ finger' # None => Known(finger') /\ new' # None
    BY <1>1, <1>2, <1>5 DEF NodeInv
  <2>2. /\ (new' # None => Known(new)' /\ B' \in Reachable')
        /\ (finger' # None => Known(finger)' /\ new' # None)
    BY <1>1, <1>4, <2>1, SweepFrame DEF Known
  <2> QED
    BY <1>1, <1>2, <1>4, <2>2 DEF NodeInv
<1>8. StillInv'
  <2>1. ASSUME ~changed, NEW q \in Pred(B) \ todo', idom[q] # None PROVE new' # None
    <3>1. CASE q = p
      BY <2>1, <3>1, <1>2, <1>3, NodesAssumption DEF NodeInv, Nodes
    <3>2. CASE q # p
      BY <2>1, <3>2, <1>1, <1>2, <1>3, NodesAssumption DEF StillInv, Nodes
    <3> QED
      BY <3>1, <3>2
  <2> QED
    BY <1>1, <1>4, <2>1, SweepFrame DEF StillInv
<1>9. GarbageIsExact'
  BY <1>1 DEF GarbageIsExact
<1> QED
  BY <1>1, <1>6, <1>7, <1>8, <1>9, SweepFrame

LEMMA ClimbInv == ASSUME GInv, Climb PROVE GInv'
<1> USE DEF GInv
<1>1. /\ pc = "sweep" /\ finger # None
      /\ UNCHANGED <<succ, pc, stack, visiting, order, idom, at, changed, todo, parent, queue>>
  BY DEF Climb, dfs, paths
<1>2. Known(new) /\ Known(finger) /\ B \in Reachable
  BY <1>1 DEF NodeInv
<1>3. Known(idom[new]) /\ Known(idom[finger])
  BY <1>2 DEF DomInv, Known
<1>4. new' \in {new, idom[new]} /\ finger' \in {None, finger, idom[finger]}
  BY <1>1 DEF Climb
<1>5. Known(new') /\ new' # None /\ (finger' # None => Known(finger'))
  BY <1>2, <1>3, <1>4, NodesAssumption DEF Known, Nodes
<1>6. B' = B /\ Pred(B)' = Pred(B)
  BY <1>1 DEF B, Pred
<1>7. GraphTypeOK'
  BY <1>1, <1>5 DEF GraphTypeOK, Known
<1>8. NodeInv'
  <2>1. Known(new)' /\ (finger' # None => Known(finger)')
    BY <1>1, <1>5 DEF Known
  <2> QED
    BY <1>1, <1>2, <1>5, <1>6, <2>1, SweepFrame DEF NodeInv
<1>9. StillInv'
  BY <1>1, <1>5, <1>6, SweepFrame DEF StillInv
<1>10. GarbageIsExact'
  BY <1>1 DEF GarbageIsExact
<1> QED
  BY <1>1, <1>7, <1>8, <1>9, <1>10, SweepFrame

LEMMA SettleInv == ASSUME GInv, Settle PROVE GInv'
<1> USE DEF GInv
<1> DEFINE news == new # None /\ idom[B] # new
<1>1. /\ pc = "sweep" /\ finger = None /\ todo = {}
      /\ idom' = IF news THEN [idom EXCEPT ![B] = new] ELSE idom
      /\ changed' = (changed \/ news) /\ at' = at - 1 /\ pc' = "load"
      /\ UNCHANGED <<succ, stack, visiting, order, todo, new, finger, parent, queue>>
  BY DEF Settle, dfs, paths
<1>2. /\ at \in Nat /\ at > 0 /\ at <= Len(order) - 1 /\ Len(order) \in Nat /\ stack = <<>>
      /\ at \in DOMAIN order /\ B = order[at] /\ B \in Nodes
  BY <1>1 DEF NodeInv, GraphTypeOK, B
<1>3. B # Root
  BY <1>2 DEF RootInv
<1>4. Reachable' = Reachable
  BY <1>1, ReachableSame
<1>5. idom' \in [Nodes -> Nodes \cup {None}] /\ idom'[Root] = Root
  BY <1>1, <1>2, <1>3 DEF GraphTypeOK, Nodes
<1>6. \A v \in Nodes : idom'[v] = IF news /\ v = B THEN new ELSE idom[v]
  BY <1>1, <1>2 DEF GraphTypeOK
<1>7. GraphTypeOK'
  <2>1. at' \in 0 .. Len(order') /\ changed' \in BOOLEAN
    BY <1>1, <1>2 DEF GraphTypeOK
  <2> QED
    BY <1>1, <1>5, <2>1 DEF GraphTypeOK
<1>8. SearchInv' /\ RootInv'
  BY <1>1, <1>4 DEF SearchInv, RootInv
<1>9. DomInv'
  <2>1. \A v \in Nodes : idom[v] # None => idom'[v] # None
    BY <1>6
  <2>2. ASSUME NEW v \in Nodes, idom'[v] # None
        PROVE  v \in Reachable /\ idom'[v] \in Nodes /\ idom'[idom'[v]] # None
    <3>1. CASE news /\ v = B
      <4>1. Known(new) /\ B \in Reachable
        BY <1>1, <3>1 DEF NodeInv
      <4> QED
        BY <3>1, <4>1, <1>6, <2>1 DEF Known
    <3>2. CASE ~(news /\ v = B)
      <4>1. idom[v] # None /\ idom'[v] = idom[v]
        BY <2>2, <3>2, <1>6
      <4> QED
        BY <4>1, <2>1 DEF DomInv, Known
    <3> QED
      BY <3>1, <3>2
  <2> QED
    BY <1>4, <2>2 DEF DomInv, Known
<1>10. NodeInv'
  BY <1>1, <1>2 DEF NodeInv
<1>11. StillInv'
  <2> SUFFICES ASSUME ~changed'
               PROVE  \A j \in at .. Len(order) - 1 : Lost(order[j])'
    BY <1>1, <1>2 DEF StillInv
  <2>1. ~changed /\ ~news /\ idom' = idom
    BY <1>1
  <2>2. Lost(B)
    BY <2>1, <1>1, NodesAssumption DEF StillInv, Lost, Pred
  <2>3. \A j \in at + 1 .. Len(order) - 1 : Lost(order[j])
    BY <2>1, <1>1 DEF StillInv
  <2>4. \A j \in at .. Len(order) - 1 : Lost(order[j])
    BY <2>2, <2>3, <1>2
  <2>5. \A j \in at .. Len(order) - 1 : Lost(order[j])' = Lost(order[j])
    BY <2>1, <1>1 DEF Lost, Pred
  <2> QED
    BY <2>4, <2>5
<1>12. GarbageIsExact'
  BY <1>1 DEF GarbageIsExact
<1> QED
  BY <1>7, <1>8, <1>9, <1>10, <1>11, <1>12

---------------------------------------------------------------------------
(* The paths.                                                              *)

NodeCount == Cardinality(Nodes)

LEMMA NodesFinite == IsFiniteSet(Nodes) /\ NodeCount \in Nat
<1>1. IsFiniteSet(Nodes)
  BY NodesAssumption, FS_AddElement DEF Nodes
<1> QED
  BY <1>1, FS_CardinalityType DEF NodeCount

\* What the queue gains: the new successors in an order, which exists.
Line(S) == CHOOSE q \in [1 .. Cardinality(S) -> S] : {q[i] : i \in DOMAIN q} = S

LEMMA Lined ==
  ASSUME NEW S \in SUBSET Nodes
  PROVE  Line(S) \in Seq(Nodes) /\ {Line(S)[i] : i \in DOMAIN Line(S)} = S
<1>2. IsFiniteSet(S)
  BY NodesFinite, FS_Subset
<1>3. Cardinality(S) \in Nat /\ ExistsBijection(1 .. Cardinality(S), S)
  BY <1>2, FS_CardinalityType
<1>4. PICK f \in [1 .. Cardinality(S) -> S] : \A s \in S : \E i \in 1 .. Cardinality(S) : f[i] = s
  BY <1>3 DEF ExistsBijection, Bijection, Surjection
<1>5. {f[i] : i \in DOMAIN f} = S
  BY <1>4
<1>6. /\ Line(S) \in [1 .. Cardinality(S) -> S]
      /\ {Line(S)[i] : i \in DOMAIN Line(S)} = S
  BY <1>5 DEF Line
<1>7. \A q \in [1 .. Cardinality(S) -> S] : q \in Seq(Nodes)
  BY <1>3
<1> QED
  BY <1>6, <1>7

\* The steps that leave the search and the sweeps alone.
LEMMA PathsFrame ==
  ASSUME GInv, UNCHANGED <<succ, stack, visiting, order, idom, at, changed, todo, new, finger>>,
         pc \in {"paths", "done"}, pc' \in {"paths", "done"},
         parent' \in [Nodes -> Nodes \cup {None}], queue' \in Seq(Nodes)
  PROVE  GInv'
<1> USE DEF GInv
<1>1. Reachable' = Reachable
  BY ReachableSame
<1>2. GraphTypeOK'
  BY DEF GraphTypeOK
<1>3. SearchInv' /\ RootInv' /\ DomInv'
  BY <1>1 DEF SearchInv, RootInv, DomInv, Known
<1>4. NodeInv' /\ StillInv' /\ GarbageIsExact'
  BY <1>1 DEF NodeInv, StillInv, GarbageIsExact
<1> QED
  BY <1>2, <1>3, <1>4

LEMMA VisitInv == ASSUME GInv, Visit PROVE GInv'
<1> DEFINE fresh == {w \in succ[Head(queue)] : parent[w] = None}
           line  == Line(fresh)
<1>1. GraphTypeOK
  BY DEF GInv
<1>2. /\ pc = "paths" /\ queue # <<>> /\ pc' = pc
      /\ parent' = [w \in Nodes |-> IF w \in fresh THEN Head(queue) ELSE parent[w]]
      /\ queue' = Tail(queue) \o line
      /\ UNCHANGED <<succ, stack, visiting, order, idom, at, changed, todo, new, finger>>
  BY DEF Visit, Line, dfs, sweep
<1>3. Head(queue) \in Nodes /\ Tail(queue) \in Seq(Nodes)
  BY <1>1, <1>2 DEF GraphTypeOK
<1>4. fresh \in SUBSET Nodes
  BY <1>1, <1>3 DEF GraphTypeOK, Nodes
<1>5. line \in Seq(Nodes)
  BY <1>4, Lined
<1>6. queue' \in Seq(Nodes)
  <2> HIDE DEF line
  <2> QED
    BY <1>2, <1>3, <1>5
<1>7. parent' \in [Nodes -> Nodes \cup {None}]
  BY <1>1, <1>2, <1>3 DEF GraphTypeOK
<1> QED
  BY <1>2, <1>6, <1>7, PathsFrame

LEMMA FoundInv == ASSUME GInv, Found PROVE GInv'
<1>1. /\ pc = "paths" /\ pc' = "done"
      /\ UNCHANGED <<succ, stack, visiting, order, idom, at, changed, todo, new, finger, parent, queue>>
  BY DEF Found, dfs, sweep, paths
<1>2. parent' \in [Nodes -> Nodes \cup {None}] /\ queue' \in Seq(Nodes)
  BY <1>1 DEF GInv, GraphTypeOK
<1> QED
  BY <1>1, <1>2, PathsFrame

---------------------------------------------------------------------------
(* Every step of the analysis keeps the invariant.                         *)
LEMMA AnalyseInv == ASSUME GInv, Analyse PROVE GInv'
BY PushInv, PopInv, SearchedInv, LoadInv, LookInv, ClimbInv, SettleInv, AgainInv, FixedInv,
   VisitInv, FoundInv DEF Analyse

---------------------------------------------------------------------------
(* The paths are the shortest.                                             *)

WithNext(A) == A \cup UNION {succ[v] : v \in A}

LEMMA HopsSteps ==
  ASSUME succ \in [Nodes -> SUBSET Objects]
  PROVE  /\ Hops \in [0 .. NodeCount -> SUBSET Nodes] /\ Hops[0] = {Root}
         /\ \A k \in 1 .. NodeCount : Hops[k] = WithNext(Hops[k - 1])
<1>1. NodeCount \in Nat
  BY NodesFinite
<1> DEFINE V == SUBSET Nodes
           F == [k \in Nat |-> [A \in V |-> WithNext(A)]]
<1>2. \A A \in V : WithNext(A) \in V
  BY DEF WithNext, Nodes
<1>3. F \in Steppers(V) /\ {Root} \in V
  BY <1>2 DEF Nodes, Steppers
<1>a. \A k \in Nat, A \in V : F[k][A] = WithNext(A)
  OBVIOUS
<1> HIDE DEF F, V
<1>4. PICK f \in [0 .. NodeCount -> V] :
        f[0] = {Root} /\ \A k \in 1 .. NodeCount : f[k] = F[k][f[k - 1]]
  <2> DEFINE n == NodeCount
             x == {Root}
  <2>1. n \in Nat /\ x \in V /\ F \in Steppers(V)
    BY <1>1, <1>3
  <2> HIDE DEF n, x
  <2>2. Runs(V, x, n, F) # {}
    BY <2>1, StepByStep
  <2> QED
    BY <2>2 DEF n, x, Runs
<1>b. \A k \in 1 .. NodeCount : k \in Nat /\ k - 1 \in 0 .. NodeCount /\ f[k] = WithNext(f[k - 1])
  BY <1>1, <1>4, <1>a
<1>5. f = [k \in 0 .. NodeCount |-> IF k = 0 THEN {Root} ELSE WithNext(f[k - 1])]
  BY <1>1, <1>4, <1>b
<1>6. Hops = [k \in 0 .. NodeCount |-> IF k = 0 THEN {Root} ELSE WithNext(Hops[k - 1])]
  BY <1>5 DEF Hops, NodeCount, WithNext
<1>7. Hops[0] = {Root} /\ \A k \in 1 .. NodeCount : Hops[k] = WithNext(Hops[k - 1])
  <2>1. PICK g : g = Hops
    OBVIOUS
  <2>2. g = [k \in 0 .. NodeCount |-> IF k = 0 THEN {Root} ELSE WithNext(Hops[k - 1])]
    BY <2>1, <1>6
  <2>3. g[0] = {Root} /\ \A k \in 1 .. NodeCount : g[k] = WithNext(Hops[k - 1])
    BY <2>2, <1>1
  <2> QED
    BY <2>1, <2>3
<1> DEFINE S == {k \in Nat : k <= NodeCount => Hops[k] \in V}
<1>8. 0 \in S
  BY <1>3, <1>7
<1>9. ASSUME NEW k \in Nat, k \in S PROVE k + 1 \in S
  <2>1. ASSUME k + 1 <= NodeCount PROVE Hops[k + 1] \in V
    <3>1. k + 1 \in 1 .. NodeCount /\ (k + 1) - 1 = k /\ Hops[k] \in V
      BY <1>1, <1>9, <2>1
    <3> QED
      BY <3>1, <1>2, <1>7
  <2> QED
    BY <2>1
<1>10. Nat \subseteq S
  <2> HIDE DEF S
  <2> QED
    BY <1>8, <1>9, NatSetInduction
<1>11. \A k \in 0 .. NodeCount : Hops[k] \in V
  BY <1>1, <1>10
<1>12. Hops \in [0 .. NodeCount -> V]
  BY <1>6, <1>11
<1> QED
  BY <1>7, <1>12 DEF V

LEMMA HopsSame == ASSUME succ' = succ PROVE Hops' = Hops
BY DEF Hops

\* As long as there are new nodes, each hop adds one.
LEMMA HopsCount ==
  ASSUME succ \in [Nodes -> SUBSET Objects], NEW k \in 0 .. NodeCount,
         k > 0 => Hops[k] # Hops[k - 1]
  PROVE  Cardinality(Hops[k]) >= k + 1 /\ Cardinality(Hops[k]) \in Nat
<1> DEFINE H(i) == Cardinality(Hops[i])
           S == {i \in Nat : i <= NodeCount /\ (i > 0 => Hops[i] # Hops[i - 1]) => H(i) >= i + 1}
<1>1. NodeCount \in Nat /\ IsFiniteSet(Nodes)
  BY NodesFinite
<1>2. \A i \in 0 .. NodeCount : Hops[i] \in SUBSET Nodes /\ IsFiniteSet(Hops[i]) /\ H(i) \in Nat
  BY <1>1, HopsSteps, FS_Subset, FS_CardinalityType
<1>3. 0 \in S
  <2>1. Hops[0] = {Root}
    BY HopsSteps
  <2>2. H(0) = 1
    BY <2>1, FS_Singleton
  <2> QED
    BY <2>2
<1>4. ASSUME NEW i \in Nat, i \in S PROVE i + 1 \in S
  <2> SUFFICES ASSUME i + 1 <= NodeCount, Hops[i + 1] # Hops[i]
               PROVE  H(i + 1) >= i + 2
    BY <1>1
  <2>1. /\ i + 1 \in 1 .. NodeCount /\ i \in 0 .. NodeCount /\ (i + 1) - 1 = i
        /\ i > 0 => i \in 1 .. NodeCount
    BY <1>1
  <2>2. Hops[i + 1] = WithNext(Hops[i])
    BY <2>1, HopsSteps
  <2>3. i > 0 => Hops[i] # Hops[i - 1]
    <3>1. i > 0 => Hops[i] = WithNext(Hops[i - 1])
      BY <2>1, HopsSteps
    <3> QED
      BY <2>2, <3>1
  <2>4. H(i) >= i + 1
    BY <1>4, <2>1, <2>3
  <2>5. Hops[i] \subseteq Hops[i + 1]
    BY <2>2 DEF WithNext
  <2>6. H(i) <= H(i + 1) /\ H(i) # H(i + 1)
    BY <1>2, <2>1, <2>5, FS_Subset
  <2> QED
    BY <1>2, <2>1, <2>4, <2>6
<1>5. Nat \subseteq S
  <2> HIDE DEF S
  <2> QED
    BY <1>3, <1>4, NatSetInduction
<1> QED
  BY <1>1, <1>2, <1>5

LEMMA HopsGrow ==
  ASSUME succ \in [Nodes -> SUBSET Objects], NEW k \in 0 .. NodeCount,
         NEW v \in Nodes, v \notin Hops[k], k > 0 => Hops[k] # Hops[k - 1]
  PROVE  k + 1 \in 1 .. NodeCount
<1>1. Cardinality(Hops[k]) >= k + 1 /\ Cardinality(Hops[k]) \in Nat
  BY HopsCount
<1>2. Cardinality(Hops[k]) <= NodeCount /\ Cardinality(Hops[k]) # NodeCount /\ NodeCount \in Nat
  BY NodesFinite, HopsSteps, FS_Subset DEF NodeCount
<1> QED
  BY <1>1, <1>2

\* More hops lead further, and never out of what can be reached.
LEMMA HopsOnward ==
  ASSUME succ \in [Nodes -> SUBSET Objects], NEW k \in 0 .. NodeCount, NEW j \in 0 .. k
  PROVE  Hops[j] \subseteq Hops[k]
<1> DEFINE S == {i \in Nat : j <= i /\ i <= NodeCount => Hops[j] \subseteq Hops[i]}
<1>1. NodeCount \in Nat
  BY NodesFinite
<1>2. 0 \in S
  OBVIOUS
<1>3. ASSUME NEW i \in Nat, i \in S PROVE i + 1 \in S
  <2> SUFFICES ASSUME j <= i, i + 1 <= NodeCount PROVE Hops[j] \subseteq Hops[i + 1]
    OBVIOUS
  <2>1. i + 1 \in 1 .. NodeCount /\ (i + 1) - 1 = i /\ Hops[j] \subseteq Hops[i]
    BY <1>1, <1>3
  <2>2. Hops[i + 1] = WithNext(Hops[i])
    BY <2>1, HopsSteps
  <2> QED
    BY <2>1, <2>2 DEF WithNext
<1>4. Nat \subseteq S
  <2> HIDE DEF S
  <2> QED
    BY <1>2, <1>3, NatSetInduction
<1> QED
  BY <1>1, <1>4

LEMMA HopsReachable ==
  ASSUME succ \in [Nodes -> SUBSET Objects], NEW k \in 0 .. NodeCount
  PROVE  Hops[k] \subseteq Reachable
<1> DEFINE S == {i \in Nat : i <= NodeCount => Hops[i] \subseteq Reachable}
<1>1. NodeCount \in Nat /\ Closed(Reachable)
  BY NodesFinite, ReachableClosed
<1>5. 0 \in S
  BY <1>1, HopsSteps DEF Closed
<1>6. ASSUME NEW i \in Nat, i \in S PROVE i + 1 \in S
  <2> SUFFICES ASSUME i + 1 <= NodeCount PROVE Hops[i + 1] \subseteq Reachable
    OBVIOUS
  <2>1. i + 1 \in 1 .. NodeCount /\ (i + 1) - 1 = i /\ Hops[i] \subseteq Reachable
    BY <1>6, <1>1
  <2>2. Hops[i + 1] = WithNext(Hops[i])
    BY <2>1, HopsSteps
  <2> QED
    BY <1>1, <2>1, <2>2 DEF WithNext, Closed
<1>7. Nat \subseteq S
  <2> HIDE DEF S
  <2> QED
    BY <1>5, <1>6, NatSetInduction
<1> QED
  BY <1>1, <1>7

\* v is k hops from Root, and no fewer.
Exact(v, k) == v \in Hops[k] /\ (k > 0 => v \notin Hops[k - 1])

OnShortest(par, v) ==
  \E k \in 1 .. Cardinality(Nodes) :
    v \notin Hops[k - 1] /\ v \in Hops[k] /\ par[v] \in Hops[k - 1] /\ v \in succ[par[v]]

\* The queue holds nodes of k hops, c of them, and then of k + 1; what can be
\* reached in k hops has a parent, and so has what a node refers to that is not
\* in the queue any more.
Waves(par, q, k, c) ==
  /\ k \in 0 .. NodeCount /\ c \in 0 .. Len(q)
  /\ \A i \in 1 .. c : Exact(q[i], k)
  /\ \A i \in c + 1 .. Len(q) : k + 1 \in 1 .. NodeCount /\ Exact(q[i], k + 1)
  /\ \A v \in Hops[k] : par[v] # None
  /\ \A v \in Nodes \ {Root} : par[v] # None => OnShortest(par, v)
  /\ \A u \in Nodes : par[u] # None /\ (\A i \in DOMAIN q : q[i] # u) =>
                        \A w \in succ[u] : par[w] # None

PathsInv ==
  /\ pc \in {"read", "dfs", "load", "sweep"} =>
       /\ parent = [v \in Nodes |-> IF v = Root THEN Root ELSE None]
       /\ queue = <<Root>>
  /\ pc = "paths" => \E k, c \in Nat : Waves(parent, queue, k, c)
  /\ PathsAreShortest

\* When the nodes of k hops are through, those of k + 1 are all there.
LEMMA NextWave ==
  ASSUME GraphTypeOK, NEW k \in Nat, Waves(parent, queue, k, 0), queue # <<>>
  PROVE  Waves(parent, queue, k + 1, Len(queue))
<1>1. /\ Len(queue) \in Nat /\ DOMAIN queue = 1 .. Len(queue) /\ 1 \in DOMAIN queue
      /\ k \in 0 .. NodeCount /\ NodeCount \in Nat
  BY NodesFinite DEF GraphTypeOK, Waves
<1>2. k + 1 \in 1 .. NodeCount /\ \A i \in 1 .. Len(queue) : Exact(queue[i], k + 1)
  BY <1>1 DEF Waves
<1>3. Hops[k + 1] = WithNext(Hops[k]) /\ Hops[k] \subseteq Nodes
  <2>1. (k + 1) - 1 = k
    BY <1>1
  <2> QED
    BY <1>1, <1>2, <2>1, HopsSteps DEF GraphTypeOK
<1>4. ASSUME NEW v \in Hops[k + 1] PROVE parent[v] # None
  <2>1. CASE v \in Hops[k]
    BY <2>1 DEF Waves
  <2>2. CASE v \notin Hops[k]
    <3>1. PICK u \in Hops[k] : v \in succ[u]
      BY <2>2, <1>3 DEF WithNext
    <3>2. \A i \in DOMAIN queue : queue[i] # u
      BY <1>1, <1>2, <3>1 DEF Exact
    <3> QED
      BY <3>1, <3>2, <1>3 DEF Waves
  <2> QED
    BY <2>1, <2>2
<1> QED
  BY <1>1, <1>2, <1>4 DEF Waves

LEMMA VisitWave ==
  ASSUME GraphTypeOK, Visit, NEW k \in Nat, NEW c \in Nat \ {0}, Waves(parent, queue, k, c)
  PROVE  Waves(parent', queue', k, c - 1)
<1> DEFINE h     == Head(queue)
           fresh == {w \in succ[h] : parent[w] = None}
           line  == Line(fresh)
           L     == Len(queue) - 1
<1>1. /\ queue # <<>> /\ queue' = Tail(queue) \o line
      /\ parent' = [w \in Nodes |-> IF w \in fresh THEN h ELSE parent[w]]
  BY DEF Visit, Line
<1>2. /\ queue \in Seq(Nodes) /\ h \in Nodes /\ h = queue[1] /\ Tail(queue) \in Seq(Nodes)
      /\ Len(queue) \in Nat \ {0} /\ L \in Nat /\ Len(Tail(queue)) = L
      /\ \A i \in 1 .. L : Tail(queue)[i] = queue[i + 1]
  BY <1>1 DEF GraphTypeOK
<1>3. fresh \in SUBSET Nodes /\ h # None /\ Root \notin fresh
  BY <1>2, NodesAssumption DEF GraphTypeOK, Nodes
<1>4. line \in Seq(Nodes) /\ {line[i] : i \in DOMAIN line} = fresh
  <2> HIDE DEF fresh
  <2> QED
    BY <1>3, Lined
<1> HIDE DEF line
<1>5. /\ Len(line) \in Nat /\ DOMAIN line = 1 .. Len(line)
      /\ queue' \in Seq(Nodes) /\ Len(queue') = L + Len(line)
      /\ DOMAIN queue' = 1 .. L + Len(line)
      /\ \A i \in 1 .. L : queue'[i] = queue[i + 1]
      /\ \A i \in 1 .. Len(line) : queue'[L + i] = line[i]
  BY <1>1, <1>2, <1>4
<1>6. k \in 0 .. NodeCount /\ c <= Len(queue) /\ NodeCount \in Nat /\ Exact(h, k)
  BY <1>2, NodesFinite DEF Waves
<1>7. ASSUME NEW w \in fresh
      PROVE  k + 1 \in 1 .. NodeCount /\ Exact(w, k + 1) /\ OnShortest(parent', w)
  <2>1. w \in Nodes /\ w \in succ[h] /\ w \notin Hops[k] /\ parent'[w] = h
    BY <1>1, <1>3 DEF Waves
  <2>2. k > 0 => Hops[k] # Hops[k - 1]
    BY <1>6 DEF Exact
  <2>3. k + 1 \in 1 .. NodeCount
    BY <2>1, <2>2, <1>6, HopsGrow DEF GraphTypeOK
  <2>4. Hops[k + 1] = WithNext(Hops[k])
    <3>1. (k + 1) - 1 = k
      BY <1>6
    <3> QED
      BY <2>3, <3>1, HopsSteps DEF GraphTypeOK
  <2>5. h \in Hops[k]
    BY <1>6 DEF Exact
  <2>6. w \in Hops[k + 1] /\ (k + 1) - 1 = k
    BY <2>1, <2>4, <2>5, <1>6 DEF WithNext
  <2>7. Exact(w, k + 1)
    BY <2>1, <2>6 DEF Exact
  <2>8. OnShortest(parent', w)
    BY <2>1, <2>3, <2>5, <2>6 DEF OnShortest, NodeCount
  <2> QED
    BY <2>3, <2>7, <2>8
<1> HIDE DEF fresh, h
<1>8. \A i \in 1 .. c - 1 : Exact(queue'[i], k)
  <2> SUFFICES ASSUME NEW i \in 1 .. c - 1 PROVE Exact(queue'[i], k)
    OBVIOUS
  <2>1. i \in 1 .. L /\ i + 1 \in 1 .. c
    BY <1>2, <1>6
  <2> QED
    BY <2>1, <1>5 DEF Waves
<1>9. ASSUME NEW i \in c - 1 + 1 .. Len(queue')
      PROVE  k + 1 \in 1 .. NodeCount /\ Exact(queue'[i], k + 1)
  <2>1. CASE i <= L
    <3>1. i \in 1 .. L /\ i + 1 \in c + 1 .. Len(queue)
      BY <2>1, <1>2, <1>6
    <3> QED
      BY <3>1, <1>5 DEF Waves
  <2>2. CASE i > L
    <3>1. i - L \in 1 .. Len(line) /\ L + (i - L) = i
      BY <2>2, <1>2, <1>5
    <3>2. queue'[i] \in fresh
      BY <3>1, <1>4, <1>5
    <3> QED
      BY <3>2, <1>7
  <2> QED
    BY <2>1, <2>2, <1>2, <1>5
<1>10. \A v \in Nodes : parent[v] # None => parent'[v] # None
  BY <1>1, <1>3
<1>11. \A v \in Hops[k] : parent'[v] # None
  BY <1>10, <1>6, HopsSteps DEF Waves, GraphTypeOK
<1>12. ASSUME NEW v \in Nodes \ {Root}, parent'[v] # None PROVE OnShortest(parent', v)
  <2>1. CASE v \in fresh
    BY <2>1, <1>7
  <2>2. CASE v \notin fresh
    <3>1. parent'[v] = parent[v]
      BY <2>2, <1>1
    <3>2. OnShortest(parent, v)
      BY <1>12, <3>1 DEF Waves
    <3> QED
      BY <3>1, <3>2 DEF OnShortest
  <2> QED
    BY <2>1, <2>2
<1>13. ASSUME NEW u \in Nodes, parent'[u] # None, \A i \in DOMAIN queue' : queue'[i] # u,
              NEW w \in succ[u]
       PROVE  parent'[w] # None
  <2>0. w \in Nodes
    BY DEF GraphTypeOK, Nodes
  <2>1. u \notin fresh
    <3> SUFFICES ASSUME u \in fresh PROVE FALSE
      OBVIOUS
    <3>1. PICK i \in 1 .. Len(line) : line[i] = u
      BY <1>4, <1>5
    <3>2. L + i \in DOMAIN queue' /\ queue'[L + i] = u
      BY <3>1, <1>2, <1>5
    <3> QED
      BY <3>2, <1>13
  <2>2. parent[u] # None
    BY <2>1, <1>1, <1>13
  <2>3. CASE u = h
    <3>1. parent[w] = None => w \in fresh
      BY <2>3 DEF fresh
    <3> QED
      BY <3>1, <2>0, <1>1, <1>3, <1>10
  <2>4. CASE u # h
    <3>1. ASSUME NEW i \in DOMAIN queue PROVE queue[i] # u
      <4>1. CASE i = 1
        BY <4>1, <2>4, <1>2
      <4>2. CASE i # 1
        <5>1. i - 1 \in 1 .. L /\ (i - 1) + 1 = i
          BY <4>2, <1>2
        <5>2. i - 1 \in DOMAIN queue' /\ queue'[i - 1] = queue[i]
          BY <5>1, <1>2, <1>5
        <5> QED
          BY <5>2, <1>13
      <4> QED
        BY <4>1, <4>2
    <3> QED
      BY <3>1, <2>0, <2>2, <1>10 DEF Waves
  <2> QED
    BY <2>3, <2>4
<1>14. c - 1 \in 0 .. Len(queue')
  BY <1>2, <1>5, <1>6
<1> QED
  BY <1>6, <1>8, <1>9, <1>11, <1>12, <1>13, <1>14 DEF Waves

\* Every path is found when the queue is empty.
LEMMA AllFound ==
  ASSUME GraphTypeOK, NEW k \in Nat, NEW c \in Nat, Waves(parent, <<>>, k, c), queue = <<>>
  PROVE  \A v \in Nodes \ {Root} :
           IF v \in Reachable THEN v \in succ[parent[v]] /\ OnShortest(parent, v)
                              ELSE parent[v] = None
<1> DEFINE P == {v \in Nodes : parent[v] # None}
<1>1. NodeCount \in Nat /\ Closed(Reachable) /\ Reachable \subseteq Nodes /\ k \in 0 .. NodeCount
  BY NodesFinite, ReachableClosed DEF GraphTypeOK, Waves
<1>2. Root \in P
  <2>4. Root \in Hops[k]
    BY <1>1, HopsSteps, HopsOnward DEF GraphTypeOK
  <2> QED
    BY <2>4 DEF Waves, Nodes
<1>3. \A v \in P : succ[v] \subseteq P
  BY DEF Waves, GraphTypeOK, Nodes
<1>4. Reachable \subseteq P
  <2>1. Closed(P)
    BY <1>2, <1>3 DEF Closed
  <2> HIDE DEF P
  <2>2. P \in SUBSET Nodes
    BY DEF P
  <2> QED
    BY <2>1, <2>2, ReachableLeast
<1>8. ASSUME NEW v \in Nodes \ {Root}, parent[v] # None
      PROVE  v \in Reachable /\ v \in succ[parent[v]] /\ OnShortest(parent, v)
  <2>1. OnShortest(parent, v)
    BY <1>8 DEF Waves
  <2>2. PICK j \in 1 .. NodeCount : v \in Hops[j] /\ v \in succ[parent[v]]
    BY <2>1 DEF OnShortest, NodeCount
  <2>3. Hops[j] \subseteq Reachable
    BY <1>1, HopsReachable DEF GraphTypeOK
  <2> QED
    BY <2>1, <2>2, <2>3
<1> QED
  BY <1>4, <1>8

---------------------------------------------------------------------------
LEMMA FreshPaths == Fresh /\ pc \in {"read", "dfs"} => PathsInv
BY DEF Fresh, PathsInv, PathsAreShortest

LEMMA StartPaths ==
  ASSUME GraphTypeOK, parent = [v \in Nodes |-> IF v = Root THEN Root ELSE None],
         queue = <<Root>>
  PROVE  Waves(parent, queue, 0, 1)
<1>1. /\ Len(queue) = 1 /\ DOMAIN queue = {1} /\ queue[1] = Root /\ Root \in Nodes /\ Root # None
      /\ NodeCount \in Nat
  BY NodesAssumption, NodesFinite DEF Nodes
<1>2. Hops[0] = {Root}
  BY HopsSteps DEF GraphTypeOK
<1>3. \A i \in 1 .. 1 : Exact(queue[i], 0)
  BY <1>1, <1>2 DEF Exact
<1>4. \A v \in Hops[0] : parent[v] # None
  BY <1>1, <1>2
<1>5. \A u \in Nodes : parent[u] # None => u = Root
  OBVIOUS
<1> QED
  BY <1>1, <1>3, <1>4, <1>5 DEF Waves

\* Each step of the analysis.
LEMMA AnalysePaths == ASSUME GInv, PathsInv, Analyse PROVE PathsInv'
<1> USE DEF GInv
<1>1. succ' = succ /\ Hops' = Hops /\ Reachable' = Reachable
  <2>1. succ' = succ
    BY DEF Analyse, Push, Pop, Searched, Begin, Load, Look, Climb, Settle, Again, Fixed, Visit, Found
  <2> QED
    BY <2>1, HopsSame, ReachableSame
<1>2. CASE Push \/ Pop \/ Searched \/ Load \/ Look \/ Climb \/ Settle \/ Again
  <2>1. /\ pc \in {"dfs", "load", "sweep"} /\ pc' \in {"dfs", "load", "sweep"}
        /\ parent' = parent /\ queue' = queue
    BY <1>2 DEF Push, Pop, Searched, Begin, Load, Look, Climb, Settle, Again, paths
  <2> QED
    BY <2>1 DEF PathsInv, PathsAreShortest
<1>3. CASE Fixed
  <2>1. pc = "load" /\ pc' = "paths" /\ parent' = parent /\ queue' = queue
    BY <1>3 DEF Fixed, Begin, paths
  <2>2. Waves(parent, queue, 0, 1)
    BY <2>1, StartPaths DEF PathsInv
  <2>3. Waves(parent, queue, 0, 1)'
    BY <2>1, <2>2, <1>1 DEF Waves, Exact, OnShortest
  <2> QED
    BY <2>1, <2>3 DEF PathsInv, PathsAreShortest
<1>4. CASE Visit
  <2>1. pc = "paths" /\ pc' = pc /\ queue # <<>>
    BY <1>4 DEF Visit
  <2>2. \E k \in Nat, c \in Nat \ {0} : Waves(parent, queue, k, c)
    <3>1. PICK k, c \in Nat : Waves(parent, queue, k, c)
      BY <2>1 DEF PathsInv
    <3>2. CASE c = 0
      <4>1. Waves(parent, queue, k + 1, Len(queue))
        BY <2>1, <3>1, <3>2, NextWave
      <4>2. Len(queue) \in Nat \ {0}
        BY <2>1 DEF GraphTypeOK
      <4> QED
        BY <4>1, <4>2
    <3> QED
      BY <3>1, <3>2
  <2>3. PICK k \in Nat, c \in Nat \ {0} : Waves(parent, queue, k, c)
    BY <2>2
  <2>4. Waves(parent', queue', k, c - 1)
    BY <1>4, <2>3, VisitWave
  <2>5. Waves(parent, queue, k, c - 1)'
    BY <2>4, <1>1 DEF Waves, Exact, OnShortest
  <2> QED
    BY <2>1, <2>5 DEF PathsInv, PathsAreShortest
<1>5. CASE Found
  <2>1. pc = "paths" /\ pc' = "done" /\ queue = <<>> /\ parent' = parent
    BY <1>5 DEF Found, paths
  <2>2. PICK k, c \in Nat : Waves(parent, <<>>, k, c)
    BY <2>1 DEF PathsInv
  <2>3. \A v \in Nodes \ {Root} :
          IF v \in Reachable THEN v \in succ[parent[v]] /\ OnShortest(parent, v)
                             ELSE parent[v] = None
    BY <2>1, <2>2, AllFound
  <2>4. PathsAreShortest'
    BY <2>1, <2>3, <1>1 DEF PathsAreShortest, OnShortest
  <2> QED
    BY <2>1, <2>4 DEF PathsInv
<1> QED
  BY <1>2, <1>3, <1>4, <1>5 DEF Analyse

---------------------------------------------------------------------------
(* Dominators.                                                             *)

\* v and what is above it in the tree of idom.
Above(v) == {a \in Nodes : \A T \in SUBSET Nodes :
               v \in T /\ (\A x \in T : idom[x] # None => idom[x] \in T) => a \in T}

\* What is on the stack, or in postorder, is there once.
OnceInv ==
  /\ \A i, j \in DOMAIN stack : stack[i] = stack[j] => i = j
  /\ \A i, j \in DOMAIN order : order[i] = order[j] => i = j
  /\ \A i \in DOMAIN stack, j \in DOMAIN order : stack[i] # order[j]
  /\ \A i \in DOMAIN order : order[i] \in visiting

\* Below a node on the stack is all that it is lost with; after a node in
\* postorder, or still on the stack, is all else that it is lost with.
PostInv ==
  /\ \A i \in DOMAIN stack : \A d \in Nodes :
       stack[i] \in Freed(d) => \E j \in DOMAIN stack : j <= i /\ stack[j] = d
  /\ \A i \in DOMAIN order : \A d \in Nodes \ {order[i]} :
       order[i] \in Freed(d) => \/ \E j \in DOMAIN stack : stack[j] = d
                                \/ \E j \in DOMAIN order : j > i /\ order[j] = d

\* No sweep ever climbs past a node that v is lost with: idom is never too high.
NotTooHigh(v, u) == \A d \in Nodes \ {v} : v \in Freed(d) => u \in Freed(d)
HighInv ==
  /\ \A v \in Nodes \ {Root} : idom[v] # None => NotTooHigh(v, idom[v])
  /\ pc = "sweep" => /\ new # None => NotTooHigh(B, new)
                     /\ finger # None => NotTooHigh(B, finger)

\* Nor is it too low, once a sweep has changed nothing: it is above each
\* predecessor.
Linked(v) == \A p \in Pred(v) : idom[p] # None => idom[v] \in Above(p)
LinkInv ==
  /\ pc \in {"load", "sweep"} /\ ~changed =>
       \A j \in at + 1 .. Len(order) - 1 : Linked(order[j])
  /\ pc = "sweep" => \A p \in Pred(B) \ todo : idom[p] # None =>
       \/ new \in Above(p)
       \/ finger # None /\ finger \in Above(p)

TreeInv == OnceInv /\ PostInv /\ HighInv /\ LinkInv /\ DominatorsAreExact

LEMMA FreedSame == ASSUME succ' = succ PROVE \A d : Freed(d)' = Freed(d)
BY ReachableSame DEF Freed, ClosedWithout

LEMMA AboveSame == ASSUME idom' = idom PROVE \A v : Above(v)' = Above(v)
BY DEF Above

\* A node is lost with itself only if it can be reached, the root with itself
\* alone, and what a node is lost with, its predecessors are lost with.
LEMMA FreedFacts ==
  ASSUME succ \in [Nodes -> SUBSET Objects]
  PROVE  /\ \A d \in Nodes : Freed(d) \subseteq Reachable
         /\ \A d \in Nodes : Root \in Freed(d) => d = Root
         /\ \A d \in Nodes, p \in Reachable : \A v \in succ[p] :
              v # d /\ v \in Freed(d) => p \in Freed(d)
         /\ \A d \in Reachable : d \in Freed(d)
<1>1. \A d \in Nodes : Freed(d) \subseteq Reachable
  BY DEF Freed
<1>2. ASSUME NEW d \in Nodes, Root \in Freed(d) PROVE d = Root
  BY <1>2 DEF Freed, ClosedWithout
<1>3. ASSUME NEW d \in Nodes, NEW p \in Reachable, NEW v \in succ[p], v # d, v \in Freed(d)
      PROVE  p \in Freed(d)
  <2>1. PICK S \in SUBSET (Nodes \ {d}) : ClosedWithout(S, d) /\ v \notin S
    BY <1>3 DEF Freed
  <2>2. p \notin S
    BY <1>3, <2>1 DEF ClosedWithout
  <2> QED
    BY <2>1, <2>2 DEF Freed
<1>4. ASSUME NEW d \in Reachable PROVE d \in Freed(d)
  <2> DEFINE S == Nodes \ {d}
  <2>1. ClosedWithout(S, d)
    BY DEF ClosedWithout, Nodes
  <2>2. S \in SUBSET (Nodes \ {d}) /\ d \notin S
    OBVIOUS
  <2> HIDE DEF S
  <2> QED
    BY <2>1, <2>2 DEF Freed
<1> QED
  BY <1>1, <1>2, <1>3, <1>4

\* What is above.
LEMMA AboveFacts ==
  ASSUME GraphTypeOK
  PROVE  /\ \A v \in Nodes : v \in Above(v) /\ Above(v) \subseteq Nodes
         /\ \A v \in Nodes : \A a \in Above(v) : idom[a] # None => idom[a] \in Above(v)
         /\ \A v \in Nodes : \A a \in Above(v) : Above(a) \subseteq Above(v)
         /\ \A v \in Nodes : \A a \in Above(v) :
              a = v \/ (idom[v] # None /\ a \in Above(idom[v]))
         /\ Above(Root) = {Root}
<1>1. \A v \in Nodes : v \in Above(v) /\ Above(v) \subseteq Nodes
  BY DEF Above
<1>2. ASSUME NEW v \in Nodes, NEW a \in Above(v), idom[a] # None PROVE idom[a] \in Above(v)
  BY <1>2 DEF Above, GraphTypeOK
<1>3. ASSUME NEW v \in Nodes, NEW a \in Above(v), NEW x \in Above(a) PROVE x \in Above(v)
  BY DEF Above
<1>4. ASSUME NEW v \in Nodes, NEW a \in Above(v), a # v
      PROVE  idom[v] # None /\ a \in Above(idom[v])
  <2>1. CASE idom[v] = None
    <3>1. \A x \in {v} : idom[x] # None => idom[x] \in {v}
      BY <2>1
    <3>2. {v} \in SUBSET Nodes
      OBVIOUS
    <3> QED
      BY <3>1, <3>2, <1>4 DEF Above
  <2>2. CASE idom[v] # None
    <3> DEFINE T == {v} \cup Above(idom[v])
    <3>1. idom[v] \in Nodes
      BY <2>2 DEF GraphTypeOK
    <3>2. T \in SUBSET Nodes /\ v \in T
      BY <1>1, <3>1
    <3>3. \A x \in T : idom[x] # None => idom[x] \in T
      BY <1>1, <1>2, <3>1
    <3>4. a \in T
      <4> HIDE DEF T
      <4> QED
        BY <3>2, <3>3 DEF Above
    <3> QED
      BY <2>2, <3>4, <1>4
  <2> QED
    BY <2>1, <2>2
<1>5. Above(Root) = {Root}
  <2>1. \A x \in {Root} : idom[x] # None => idom[x] \in {Root}
    BY DEF GraphTypeOK
  <2>2. {Root} \in SUBSET Nodes
    BY DEF Nodes
  <2> QED
    BY <2>1, <2>2, <1>1 DEF Above
<1> QED
  BY <1>1, <1>2, <1>3, <1>4, <1>5

---------------------------------------------------------------------------
\* A fixpoint: idom is the closest node whose loss frees v.
LEMMA FixpointIsExact ==
  ASSUME GraphTypeOK, HighInv, {v \in Nodes : idom[v] # None} = Reachable,
         \A v \in Reachable \ {Root} : Linked(v)
  PROVE  \A v \in Reachable \ {Root} :
           LET strict == {d \in Nodes \ {v} : v \in Freed(d)}
           IN  idom[v] \in strict /\ \A d \in strict : idom[v] \in Freed(d)
<1>1. Closed(Reachable) /\ Reachable \subseteq Nodes
  BY ReachableClosed DEF GraphTypeOK
<1>2. ASSUME NEW u \in Reachable, NEW w \in succ[u], w # Root
      PROVE  idom[w] \in Above(u) /\ idom[w] \in Nodes /\ w \in Reachable
  BY <1>1, <1>2 DEF Linked, Pred, Closed, GraphTypeOK, Nodes
\* Every chain ends at the root.
<1> DEFINE R == {u \in Reachable : Root \in Above(u)}
<1>3. Reachable \subseteq R
  <2>1. Root \in R
    BY <1>1, AboveFacts DEF Closed
  <2>2. ASSUME NEW u \in R, NEW w \in succ[u] PROVE w \in R
    <3>1. CASE w = Root
      BY <3>1, <2>1
    <3>2. CASE w # Root
      <4>1. idom[w] \in Above(u) /\ idom[w] \in Nodes /\ w \in Reachable
        BY <3>2, <1>2
      <4> DEFINE T == {a \in Nodes : Root \in Above(a)}
      <4>2. u \in T /\ T \in SUBSET Nodes
        BY <1>1
      <4>3. \A a \in T : idom[a] # None => idom[a] \in T
        BY AboveFacts DEF GraphTypeOK
      <4>4. Above(u) \subseteq T
        <5> HIDE DEF T
        <5> QED
          BY <4>2, <4>3 DEF Above
      <4>5. Root \in Above(idom[w])
        BY <4>1, <4>4
      <4>6. w \in Nodes /\ idom[w] # None
        BY <4>1, <1>1, NodesAssumption DEF Nodes
      <4>7. idom[w] \in Above(w)
        BY <4>6, AboveFacts
      <4> QED
        BY <4>1, <4>5, <4>6, <4>7, AboveFacts
    <3> QED
      BY <3>1, <3>2
  <2>3. Closed(R)
    BY <2>1, <2>2 DEF Closed
  <2> HIDE DEF R
  <2>4. R \in SUBSET Nodes
    BY <1>1 DEF R
  <2> QED
    BY <2>3, <2>4, ReachableLeast
\* What v is not above anything on cannot be lost.
<1>4. ASSUME NEW v \in Reachable, NEW d \in Above(v), d # Root
      PROVE  v \in Freed(d)
  <2> DEFINE S == {u \in Reachable : d \notin Above(u)}
  <2>0. d \in Nodes /\ v \in Nodes
    BY <1>1, AboveFacts
  <2>1. S \in SUBSET (Nodes \ {d})
    BY <2>0, <1>1, AboveFacts
  <2>2. Root \in S
    BY <1>1, <1>4, AboveFacts DEF Closed
  <2>3. ASSUME NEW u \in S, NEW w \in succ[u], w # d PROVE w \in S
    <3>1. CASE w = Root
      BY <3>1, <2>2
    <3>2. CASE w # Root
      <4>1. idom[w] \in Above(u) /\ idom[w] \in Nodes /\ w \in Reachable /\ u \in Nodes
        BY <3>2, <1>1, <1>2
      <4>2. d \notin Above(idom[w])
        BY <4>1, AboveFacts
      <4>3. d \notin Above(w)
        BY <2>3, <4>1, <4>2, <1>1, AboveFacts
      <4> QED
        BY <4>1, <4>3
    <3> QED
      BY <3>1, <3>2
  <2>4. ClosedWithout(S, d)
    BY <2>2, <2>3 DEF ClosedWithout
  <2>5. v \notin S
    OBVIOUS
  <2> HIDE DEF S
  <2> QED
    BY <2>1, <2>4, <2>5 DEF Freed
<1>5. Freed(Root) = Reachable
  <2>1. ClosedWithout({}, Root) /\ {} \in SUBSET (Nodes \ {Root})
    BY DEF ClosedWithout
  <2> QED
    BY <2>1 DEF Freed
<1>6. ASSUME NEW v \in Reachable \ {Root}
      PROVE  /\ idom[v] \in Nodes \ {v} /\ v \in Freed(idom[v])
             /\ \A d \in Nodes \ {v} : v \in Freed(d) => idom[v] \in Freed(d)
  <2>1. v \in Nodes /\ idom[v] # None /\ idom[v] \in Nodes
    BY <1>1 DEF GraphTypeOK
  <2>2. idom[v] # v
    <3> SUFFICES ASSUME idom[v] = v PROVE FALSE
      OBVIOUS
    <3>1. {v} \in SUBSET Nodes /\ \A x \in {v} : idom[x] # None => idom[x] \in {v}
      BY <2>1
    <3>2. Above(v) \subseteq {v}
      BY <3>1 DEF Above
    <3> QED
      BY <3>2, <1>3
  <2>3. idom[v] \in Above(v)
    BY <2>1, AboveFacts
  <2>4. v \in Freed(idom[v])
    BY <2>3, <1>4, <1>5
  <2> QED
    BY <2>1, <2>2, <2>4 DEF HighInv, NotTooHigh
<1> QED
  BY <1>6

---------------------------------------------------------------------------
(* The search keeps TreeInv.                                               *)

LEMMA PushTree == ASSUME GInv, TreeInv, Push PROVE TreeInv'
<1> USE DEF GInv
<1>1. stack \in Seq(Nodes) /\ order \in Seq(Nodes) /\ succ \in [Nodes -> SUBSET Objects]
  BY DEF GraphTypeOK
<1>2. /\ pc = "dfs" /\ stack # <<>>
      /\ UNCHANGED <<succ, pc, order, idom, at, changed, todo, new, finger, parent, queue>>
  BY DEF Push, sweep, paths
<1>3. PICK w \in succ[Top] \ visiting : visiting' = visiting \cup {w} /\ stack' = Append(stack, w)
  BY DEF Push
<1>4. Len(stack) \in Nat \ {0} /\ Len(stack) \in DOMAIN stack /\ Top \in Nodes
  BY <1>1, <1>2 DEF Top
<1>5. w \in Nodes /\ w \notin visiting
  BY <1>1, <1>3, <1>4 DEF Nodes
<1>6. /\ stack' \in Seq(Nodes) /\ DOMAIN stack' = DOMAIN stack \cup {Len(stack) + 1}
      /\ \A i \in DOMAIN stack : i \in DOMAIN stack' /\ stack'[i] = stack[i]
      /\ stack'[Len(stack) + 1] = w
  BY <1>1, <1>3, <1>5
<1>7. \A d : Freed(d)' = Freed(d)
  BY <1>2, FreedSame
<1>8. OnceInv'
  <2>1. (\A i \in DOMAIN stack : stack[i] # w) /\ (\A i \in DOMAIN order : order[i] # w)
    BY <1>5 DEF TreeInv, OnceInv, SearchInv
  <2>2. \A i, j \in DOMAIN stack' : stack'[i] = stack'[j] => i = j
    BY <1>6, <2>1 DEF TreeInv, OnceInv
  <2>3. \A i \in DOMAIN stack', j \in DOMAIN order : stack'[i] # order[j]
    BY <1>6, <2>1 DEF TreeInv, OnceInv
  <2> QED
    BY <1>2, <1>3, <2>2, <2>3 DEF TreeInv, OnceInv
<1>9. PostInv'
  <2>1. ASSUME NEW i \in DOMAIN stack', NEW d \in Nodes, stack'[i] \in Freed(d)
        PROVE  \E j \in DOMAIN stack' : j <= i /\ stack'[j] = d
    <3>1. CASE i \in DOMAIN stack
      BY <3>1, <2>1, <1>6 DEF TreeInv, PostInv
    <3>2. CASE i = Len(stack) + 1
      <4>1. CASE d = w
        BY <4>1, <3>2, <1>4, <1>6
      <4>2. CASE d # w
        <5>1. Top \in Reachable
          BY <1>4 DEF Top, SearchInv
        <5>2. Top \in Freed(d)
          BY <5>1, <4>2, <3>2, <2>1, <1>1, <1>3, <1>6, FreedFacts
        <5>3. stack[Len(stack)] \in Freed(d)
          BY <5>2 DEF Top
        <5>4. PICK j \in DOMAIN stack : stack[j] = d
          BY <5>3, <1>4 DEF TreeInv, PostInv
        <5>5. j <= Len(stack) + 1
          BY <1>1, <1>4
        <5> QED
          BY <5>4, <5>5, <3>2, <1>6
      <4> QED
        BY <4>1, <4>2
    <3> QED
      BY <3>1, <3>2, <1>6
  <2>2. ASSUME NEW i \in DOMAIN order, NEW d \in Nodes \ {order[i]}, order[i] \in Freed(d)
        PROVE  \/ \E j \in DOMAIN stack' : stack'[j] = d
               \/ \E j \in DOMAIN order : j > i /\ order[j] = d
    BY <2>2, <1>6 DEF TreeInv, PostInv
  <2> QED
    BY <2>1, <2>2, <1>2, <1>7 DEF PostInv
<1>10. HighInv'
  BY <1>2, <1>7 DEF TreeInv, HighInv, NotTooHigh
<1>11. LinkInv' /\ DominatorsAreExact'
  BY <1>2 DEF LinkInv, DominatorsAreExact
<1> QED
  BY <1>8, <1>9, <1>10, <1>11 DEF TreeInv

LEMMA PopTree == ASSUME GInv, TreeInv, Pop PROVE TreeInv'
<1> USE DEF GInv
<1>1. stack \in Seq(Nodes) /\ order \in Seq(Nodes)
  BY DEF GraphTypeOK
<1>2. /\ pc = "dfs" /\ stack # <<>>
      /\ order' = Append(order, Top) /\ stack' = SubSeq(stack, 1, Len(stack) - 1)
      /\ UNCHANGED <<succ, pc, visiting, idom, at, changed, todo, new, finger, parent, queue>>
  BY DEF Pop, sweep, paths
<1> DEFINE n == Len(stack) - 1
<1>3. /\ n \in Nat /\ Len(stack) \in Nat /\ DOMAIN stack = 1 .. n + 1 /\ Top = stack[n + 1]
      /\ Top \in Nodes
  BY <1>1, <1>2 DEF Top
<1>4. DOMAIN stack' = 1 .. n /\ \A i \in 1 .. n : stack'[i] = stack[i]
  <2> DEFINE t == SubSeq(stack, 1, n)
  <2>1. Len(t) = n /\ t \in Seq(Nodes)
    BY <1>1, <1>3
  <2>2. \A i \in 1 .. n : t[i] = stack[i]
    BY <1>1, <1>3
  <2>3. DOMAIN t = 1 .. n
    BY <2>1, <1>3
  <2> QED
    BY <1>2, <2>2, <2>3
<1>5. /\ Len(order) \in Nat /\ DOMAIN order = 1 .. Len(order)
      /\ DOMAIN order' = DOMAIN order \cup {Len(order) + 1}
      /\ \A i \in DOMAIN order : order'[i] = order[i]
      /\ order'[Len(order) + 1] = Top
  BY <1>1, <1>2, <1>3
<1> HIDE DEF n
<1>6. \A d : Freed(d)' = Freed(d)
  BY <1>2, FreedSame
<1>7. n + 1 \in DOMAIN stack /\ (\A i \in 1 .. n : i \in DOMAIN stack /\ i # n + 1)
  BY <1>3
<1>8. OnceInv'
  <2>1. (\A i \in DOMAIN order : order[i] # Top) /\ (\A i \in 1 .. n : stack[i] # Top)
        /\ Top \in visiting
    BY <1>3, <1>7 DEF TreeInv, OnceInv, SearchInv
  <2>2. \A i, j \in DOMAIN stack' : stack'[i] = stack'[j] => i = j
    BY <1>4, <1>7 DEF TreeInv, OnceInv
  <2>3. \A i, j \in DOMAIN order' : order'[i] = order'[j] => i = j
    BY <1>5, <2>1 DEF TreeInv, OnceInv
  <2>4. \A i \in DOMAIN stack', j \in DOMAIN order' : stack'[i] # order'[j]
    BY <1>4, <1>5, <1>7, <2>1 DEF TreeInv, OnceInv
  <2>5. \A i \in DOMAIN order' : order'[i] \in visiting
    BY <1>5, <2>1 DEF TreeInv, OnceInv
  <2> QED
    BY <1>2, <2>2, <2>3, <2>4, <2>5 DEF OnceInv
<1>9. PostInv'
  <2>1. ASSUME NEW d \in Nodes, \E j \in DOMAIN stack : stack[j] = d
        PROVE  (\E j \in DOMAIN stack' : stack'[j] = d) \/ d = Top
    <3>1. PICK j \in DOMAIN stack : stack[j] = d
      BY <2>1
    <3>2. j \in 1 .. n \/ j = n + 1
      BY <1>3
    <3> QED
      BY <3>1, <3>2, <1>3, <1>4
  <2>2. ASSUME NEW i \in DOMAIN stack', NEW d \in Nodes, stack'[i] \in Freed(d)
        PROVE  \E j \in DOMAIN stack' : j <= i /\ stack'[j] = d
    <3>1. i \in DOMAIN stack /\ stack[i] \in Freed(d) /\ i \in 1 .. n
      BY <2>2, <1>4, <1>7
    <3>2. PICK j \in DOMAIN stack : j <= i /\ stack[j] = d
      BY <3>1 DEF TreeInv, PostInv
    <3>3. j \in 1 .. n
      BY <3>1, <3>2, <1>3
    <3> QED
      BY <3>2, <3>3, <1>4
  <2>3. ASSUME NEW i \in DOMAIN order', NEW d \in Nodes \ {order'[i]}, order'[i] \in Freed(d)
        PROVE  \/ \E j \in DOMAIN stack' : stack'[j] = d
               \/ \E j \in DOMAIN order' : j > i /\ order'[j] = d
    <3>1. CASE i \in DOMAIN order
      <4>1. order'[i] = order[i] /\ i < Len(order) + 1
        BY <3>1, <1>5
      <4>2. CASE \E j \in DOMAIN stack : stack[j] = d
        BY <4>1, <4>2, <2>1, <1>5
      <4>3. CASE \E j \in DOMAIN order : j > i /\ order[j] = d
        BY <4>3, <1>5
      <4> QED
        BY <4>1, <4>2, <4>3, <3>1, <2>3 DEF TreeInv, PostInv
    <3>2. CASE i = Len(order) + 1
      <4>1. order'[i] = Top /\ d # Top /\ stack[n + 1] \in Freed(d)
        BY <3>2, <2>3, <1>3, <1>5
      <4>2. \E j \in DOMAIN stack : stack[j] = d
        BY <4>1, <1>7 DEF TreeInv, PostInv
      <4> QED
        BY <4>1, <4>2, <2>1
    <3> QED
      BY <3>1, <3>2, <1>5
  <2> QED
    BY <2>2, <2>3, <1>6 DEF PostInv
<1>10. HighInv'
  BY <1>2, <1>6 DEF TreeInv, HighInv, NotTooHigh
<1>11. LinkInv' /\ DominatorsAreExact'
  BY <1>2 DEF LinkInv, DominatorsAreExact
<1> QED
  BY <1>8, <1>9, <1>10, <1>11 DEF TreeInv

---------------------------------------------------------------------------
(* The sweeps keep TreeInv.                                                *)

\* When the search is over, a node comes before what it is lost with.
LEMMA LostFirst ==
  ASSUME GInv, TreeInv, stack = <<>>, NEW d \in Nodes, NEW x \in Freed(d), x # d
  PROVE  Po(x) < Po(d)
<1> USE DEF GInv
<1>1. x \in Reachable /\ x \in Nodes
  BY FreedFacts, ReachableClosed DEF GraphTypeOK
<1>2. x \in visiting
  BY <1>1, AllVisited
<1>3. PICK i \in DOMAIN order : order[i] = x
  BY <1>2 DEF SearchInv
<1>4. PICK j \in DOMAIN order : j > i /\ order[j] = d
  BY <1>3 DEF TreeInv, PostInv
<1>5. \A k, l \in DOMAIN order : order[k] = order[l] => k = l
  BY DEF TreeInv, OnceInv
<1>6. Po(x) = i
  BY <1>3, <1>5 DEF Po
<1>7. Po(d) = j
  BY <1>4, <1>5 DEF Po
<1>8. i \in Nat /\ j \in Nat
  BY DEF GraphTypeOK
<1> QED
  BY <1>4, <1>6, <1>7, <1>8

\* A finger that climbs does not pass a node that the one swept is lost with.
LEMMA NotPassed ==
  ASSUME GInv, TreeInv, stack = <<>>, NEW v \in Nodes, NEW u, NEW o, Known(u), Known(o),
         u # o, ~(Po(o) < Po(u)), NotTooHigh(v, u), NotTooHigh(v, o)
  PROVE  NotTooHigh(v, idom[u])
<1> SUFFICES ASSUME NEW d \in Nodes \ {v}, v \in Freed(d) PROVE idom[u] \in Freed(d)
  BY DEF NotTooHigh
<1>1. u \in Freed(d) /\ o \in Freed(d)
  BY DEF NotTooHigh
<1>2. u # d
  BY <1>1, LostFirst
<1>3. u # Root
  BY <1>1, <1>2, FreedFacts DEF GInv, GraphTypeOK
<1> QED
  BY <1>1, <1>2, <1>3 DEF TreeInv, HighInv, NotTooHigh, Known

\* What a step of the sweeps that changes no dominator leaves as it is.
LEMMA TreeFrame ==
  ASSUME TreeInv, UNCHANGED <<succ, stack, visiting, order, idom>>
  PROVE  /\ OnceInv' /\ PostInv' /\ Reachable' = Reachable
         /\ \A v : Freed(v)' = Freed(v) /\ Above(v)' = Above(v) /\ Linked(v)' = Linked(v)
                   /\ Pred(v)' = Pred(v)
         /\ \A v, u : NotTooHigh(v, u)' = NotTooHigh(v, u)
<1>1. Reachable' = Reachable
  BY ReachableSame
<1>2. \A v : Freed(v)' = Freed(v) /\ Above(v)' = Above(v) /\ Pred(v)' = Pred(v)
  BY FreedSame, AboveSame DEF Pred
<1>3. \A v : Linked(v)' = Linked(v)
  BY <1>2 DEF Linked
<1>4. \A v, u : NotTooHigh(v, u)' = NotTooHigh(v, u)
  BY <1>2 DEF NotTooHigh
<1>5. OnceInv' /\ PostInv'
  BY <1>2 DEF TreeInv, OnceInv, PostInv
<1> QED
  BY <1>1, <1>2, <1>3, <1>4, <1>5

LEMMA BeginTree ==
  ASSUME GInv, TreeInv, NEW p, Begin(p), p \in {"load", "paths"},
         p = "paths" => DominatorsAreExact'
  PROVE  TreeInv'
<1>1. /\ pc' = p /\ at' = Len(order) - 1 /\ changed' = FALSE /\ todo' = {}
      /\ new' = None /\ finger' = None
      /\ UNCHANGED <<succ, stack, visiting, order, idom, parent, queue>>
  BY DEF Begin, dfs, paths
<1>2. Len(order) \in Nat
  BY DEF GInv, GraphTypeOK
<1>3. OnceInv' /\ PostInv'
  BY <1>1, TreeFrame
<1>4. HighInv'
  BY <1>1, TreeFrame DEF TreeInv, HighInv
<1>5. LinkInv'
  BY <1>1, <1>2 DEF LinkInv
<1>6. DominatorsAreExact'
  BY <1>1 DEF DominatorsAreExact
<1> QED
  BY <1>3, <1>4, <1>5, <1>6 DEF TreeInv

LEMMA FixedTree == ASSUME GInv, TreeInv, Fixed PROVE TreeInv'
<1>1. pc = "load" /\ at = 0 /\ ~changed /\ Begin("paths") /\ stack = <<>>
  BY DEF Fixed, GInv, NodeInv
<1>2. pc' = "paths" /\ UNCHANGED <<succ, stack, visiting, order, idom>>
  BY <1>1 DEF Begin, dfs
<1>3. {v \in Nodes : idom[v] # None} = Reachable
  <2>1. GarbageIsExact'
    BY FixedInv DEF GInv
  <2> QED
    BY <1>2, <2>1, ReachableSame DEF GarbageIsExact
<1>4. ASSUME NEW v \in Reachable \ {Root} PROVE Linked(v)
  <2>1. PICK j \in DOMAIN order : order[j] = v
    BY <1>1, AllVisited DEF GInv, SearchInv
  <2>2. DOMAIN order = 1 .. Len(order) /\ Len(order) \in Nat
    BY DEF GInv, GraphTypeOK
  <2>3. j # Len(order)
    BY <2>1, <1>1 DEF GInv, RootInv
  <2>4. j \in 1 .. Len(order) - 1
    BY <2>2, <2>3
  <2> QED
    BY <2>1, <2>4, <1>1 DEF TreeInv, LinkInv
<1>5. \A v \in Reachable \ {Root} :
        LET strict == {d \in Nodes \ {v} : v \in Freed(d)}
        IN  idom[v] \in strict /\ \A d \in strict : idom[v] \in Freed(d)
  BY <1>3, <1>4, FixpointIsExact DEF GInv, TreeInv
<1>6. DominatorsAreExact'
  BY <1>2, <1>5, TreeFrame DEF DominatorsAreExact
<1> QED
  BY <1>1, <1>6, BeginTree

LEMMA LoadTree == ASSUME GInv, TreeInv, Load PROVE TreeInv'
<1>1. /\ pc = "load" /\ at > 0 /\ todo' = Pred(B) /\ new' = None /\ pc' = "sweep"
      /\ UNCHANGED <<succ, stack, visiting, order, idom, at, changed, finger, parent, queue>>
  BY DEF Load, dfs, paths
<1>2. B' = B /\ finger = None
  BY <1>1 DEF B, GInv, NodeInv
<1>3. HighInv'
  BY <1>1, <1>2, TreeFrame DEF TreeInv, HighInv
<1>4. LinkInv'
  BY <1>1, <1>2, TreeFrame DEF TreeInv, LinkInv
<1> QED
  BY <1>1, <1>3, <1>4, TreeFrame DEF TreeInv, DominatorsAreExact

LEMMA LookTree == ASSUME GInv, TreeInv, Look PROVE TreeInv'
<1>1. /\ pc = "sweep" /\ finger = None
      /\ UNCHANGED <<succ, pc, stack, visiting, order, idom, at, changed, parent, queue>>
  BY DEF Look, dfs, paths
<1>2. PICK p \in todo :
        /\ todo' = todo \ {p}
        /\ new' = IF idom[p] # None /\ new = None THEN p ELSE new
        /\ finger' = IF idom[p] # None /\ new # None THEN p ELSE None
  BY DEF Look
<1>3. B' = B /\ p \in Nodes /\ B \in succ[p] /\ GraphTypeOK /\ None \notin Nodes
  BY <1>1, <1>2, NodesAssumption DEF B, GInv, NodeInv, Pred, Nodes
<1>4. idom[p] # None => NotTooHigh(B, p)
  <2> SUFFICES ASSUME idom[p] # None, NEW d \in Nodes \ {B}, B \in Freed(d)
               PROVE  p \in Freed(d)
    BY DEF NotTooHigh
  <2>1. p \in Reachable
    BY <1>3 DEF GInv, DomInv
  <2> QED
    BY <2>1, <1>3, FreedFacts DEF GraphTypeOK
<1>5. HighInv'
  <2>1. new' # None => NotTooHigh(B, new')
    BY <1>1, <1>2, <1>4 DEF TreeInv, HighInv
  <2>2. finger' # None => NotTooHigh(B, finger')
    BY <1>2, <1>4
  <2>3. \A u : NotTooHigh(B, u)' = NotTooHigh(B, u)
    BY <1>1, <1>3, TreeFrame
  <2> QED
    BY <1>1, <1>3, <2>1, <2>2, <2>3, TreeFrame DEF TreeInv, HighInv, NotTooHigh
<1>6. LinkInv'
  <2>1. ASSUME NEW q \in Pred(B) \ todo', idom[q] # None
        PROVE  new' \in Above(q) \/ (finger' # None /\ finger' \in Above(q))
    <3>0. q \in Nodes /\ q \in Above(q)
      BY <1>3, AboveFacts DEF Pred
    <3>1. CASE q = p
      BY <3>1, <3>0, <2>1, <1>2, <1>3
    <3>2. CASE q # p
      <4>1. new \in Above(q)
        BY <3>2, <2>1, <1>1, <1>2 DEF TreeInv, LinkInv
      <4>2. new # None
        BY <4>1, <3>0, <1>3, AboveFacts
      <4> QED
        BY <4>1, <4>2, <1>2
    <3> QED
      BY <3>1, <3>2
  <2>2. Pred(B)' = Pred(B) /\ \A q : Above(q)' = Above(q)
    BY <1>1, <1>3, TreeFrame DEF Pred
  <2> QED
    BY <1>1, <1>3, <2>1, <2>2, TreeFrame DEF TreeInv, LinkInv
<1> QED
  BY <1>1, <1>5, <1>6, TreeFrame DEF TreeInv, DominatorsAreExact

LEMMA ClimbTree == ASSUME GInv, TreeInv, Climb PROVE TreeInv'
<1>1. /\ pc = "sweep" /\ finger # None
      /\ UNCHANGED <<succ, pc, stack, visiting, order, idom, at, changed, todo, parent, queue>>
  BY DEF Climb, dfs, paths
<1>2. /\ Known(new) /\ Known(finger) /\ B \in Reachable /\ B \in Nodes /\ stack = <<>>
      /\ GraphTypeOK /\ B' = B /\ None \notin Nodes
  BY <1>1, ReachableClosed, NodesAssumption DEF B, GInv, GraphTypeOK, NodeInv, Nodes
<1>3. NotTooHigh(B, new) /\ NotTooHigh(B, finger) /\ new # None
  BY <1>1, <1>2 DEF TreeInv, HighInv, Known
<1>4. Po(new) \in Int /\ Po(finger) \in Int
  <2>1. new \in visiting /\ finger \in visiting
    BY <1>2, AllVisited DEF GInv, DomInv, Known
  <2>2. \A v \in visiting : \E i \in DOMAIN order : order[i] = v
    BY <1>2 DEF GInv, SearchInv
  <2>3. Po(new) \in DOMAIN order /\ Po(finger) \in DOMAIN order
    BY <2>1, <2>2 DEF Po
  <2> QED
    BY <2>3, <1>2 DEF GraphTypeOK
<1>5. \/ finger = new /\ finger' = None /\ new' = new
      \/ finger # new /\ ~(Po(new) < Po(finger)) /\ finger' = idom[finger] /\ new' = new
      \/ finger # new /\ ~(Po(finger) < Po(new)) /\ finger' = finger /\ new' = idom[new]
  BY <1>1, <1>4 DEF Climb
<1>6. NotTooHigh(B, new') /\ (finger' # None => NotTooHigh(B, finger'))
  BY <1>2, <1>3, <1>5, NotPassed
<1>7. HighInv'
  <2>1. \A u : NotTooHigh(B, u)' = NotTooHigh(B, u)
    BY <1>1, <1>2, TreeFrame
  <2> QED
    BY <1>1, <1>2, <1>6, <2>1, TreeFrame DEF TreeInv, HighInv, NotTooHigh
<1>8. LinkInv'
  <2>1. ASSUME NEW q \in Pred(B) \ todo, idom[q] # None
        PROVE  new' \in Above(q) \/ (finger' # None /\ finger' \in Above(q))
    <3>1. /\ q \in Nodes
          /\ new \in Above(q) \/ (finger # None /\ finger \in Above(q))
      BY <2>1, <1>1 DEF TreeInv, LinkInv, Pred
    <3>2. /\ idom[new] # None /\ idom[finger] # None
          /\ \A a \in Above(q) : idom[a] # None => idom[a] \in Above(q)
      BY <3>1, <1>2, AboveFacts DEF Known
    <3> QED
      BY <3>1, <3>2, <1>5
  <2>2. Pred(B)' = Pred(B) /\ \A q : Above(q)' = Above(q)
    BY <1>1, <1>2, TreeFrame DEF Pred
  <2> QED
    BY <1>1, <1>2, <2>1, <2>2, TreeFrame DEF TreeInv, LinkInv
<1> QED
  BY <1>1, <1>7, <1>8, TreeFrame DEF TreeInv, DominatorsAreExact

LEMMA SettleTree == ASSUME GInv, TreeInv, Settle PROVE TreeInv'
<1> DEFINE news == new # None /\ idom[B] # new
<1>1. /\ pc = "sweep" /\ finger = None /\ todo = {}
      /\ idom' = IF news THEN [idom EXCEPT ![B] = new] ELSE idom
      /\ changed' = (changed \/ news) /\ at' = at - 1 /\ pc' = "load"
      /\ UNCHANGED <<succ, stack, visiting, order, todo, new, finger, parent, queue>>
  BY DEF Settle, dfs, paths
<1>2. /\ at \in Nat /\ at > 0 /\ at <= Len(order) - 1 /\ Len(order) \in Nat
      /\ B = order[at] /\ GraphTypeOK /\ None \notin Nodes
  BY <1>1, NodesAssumption DEF GInv, NodeInv, GraphTypeOK, B, Nodes
<1>3. OnceInv' /\ PostInv'
  BY <1>1, FreedSame DEF TreeInv, OnceInv, PostInv
<1>4. HighInv'
  <2>1. \A v \in Nodes : idom'[v] = IF news /\ v = B THEN new ELSE idom[v]
    BY <1>1, <1>2 DEF GraphTypeOK
  <2>2. \A v \in Nodes \ {Root} : idom'[v] # None => NotTooHigh(v, idom'[v])
    BY <1>1, <2>1 DEF TreeInv, HighInv
  <2>3. \A v, u : NotTooHigh(v, u)' = NotTooHigh(v, u)
    BY <1>1, FreedSame DEF NotTooHigh
  <2>4. \A v \in Nodes \ {Root} : idom'[v] # None => NotTooHigh(v, idom[v])'
    BY <1>1, <2>2, FreedSame DEF NotTooHigh
  <2> QED
    BY <1>1, <2>4 DEF HighInv
<1>5. LinkInv'
  <2> SUFFICES ASSUME ~changed'
               PROVE  \A j \in at .. Len(order) - 1 : Linked(order[j])'
    BY <1>1, <1>2 DEF LinkInv
  <2>1. ~changed /\ ~news /\ idom' = idom
    BY <1>1
  <2>2. Linked(B)
    <3> SUFFICES ASSUME NEW p \in Pred(B), idom[p] # None PROVE idom[B] \in Above(p)
      BY DEF Linked
    <3>1. new \in Above(p) /\ p \in Nodes
      BY <1>1 DEF TreeInv, LinkInv, Pred
    <3>2. new # None
      BY <3>1, <1>2, AboveFacts
    <3> QED
      BY <3>1, <3>2, <2>1
  <2>3. \A j \in at + 1 .. Len(order) - 1 : Linked(order[j])
    BY <2>1, <1>1 DEF TreeInv, LinkInv
  <2>4. \A j \in at .. Len(order) - 1 : Linked(order[j])
    BY <2>2, <2>3, <1>2
  <2>5. \A v : Linked(v)' = Linked(v)
    BY <2>1, <1>1, TreeFrame
  <2> QED
    BY <2>4, <2>5, <1>1
<1>6. DominatorsAreExact'
  BY <1>1 DEF DominatorsAreExact
<1> QED
  BY <1>3, <1>4, <1>5, <1>6 DEF TreeInv

---------------------------------------------------------------------------
LEMMA FreshTree ==
  ASSUME Fresh, pc \in {"read", "dfs"}, succ \in [Nodes -> SUBSET Objects]
  PROVE  TreeInv
<1>1. /\ DOMAIN stack = {1} /\ stack[1] = Root /\ DOMAIN order = {}
  BY DEF Fresh
<1>2. OnceInv
  BY <1>1 DEF OnceInv
<1>3. PostInv
  BY <1>1, FreedFacts DEF PostInv
<1>4. HighInv /\ LinkInv /\ DominatorsAreExact
  BY DEF Fresh, HighInv, LinkInv, DominatorsAreExact
<1> QED
  BY <1>2, <1>3, <1>4 DEF TreeInv

\* Each step of the analysis.
LEMMA AnalyseTree == ASSUME GInv, TreeInv, Analyse PROVE TreeInv'
<1>1. CASE Searched
  <2>1. Begin("load") /\ "load" # "paths"
    BY <1>1 DEF Searched
  <2> QED
    BY <2>1, BeginTree
<1>2. CASE Again
  <2>1. Begin("load") /\ "load" # "paths"
    BY <1>2 DEF Again
  <2> QED
    BY <2>1, BeginTree
<1>3. CASE Visit \/ Found
  <2>1. /\ pc = "paths" /\ pc' \in {"paths", "done"}
        /\ UNCHANGED <<succ, stack, visiting, order, idom, at, changed, todo, new, finger>>
    BY <1>3 DEF Visit, Found, dfs, sweep
  <2>2. OnceInv' /\ PostInv'
    BY <2>1, TreeFrame
  <2>3. HighInv'
    BY <2>1, TreeFrame DEF TreeInv, HighInv
  <2>4. LinkInv'
    BY <2>1 DEF LinkInv
  <2>5. DominatorsAreExact'
    BY <2>1, TreeFrame DEF TreeInv, DominatorsAreExact
  <2> QED
    BY <2>2, <2>3, <2>4, <2>5 DEF TreeInv
<1> QED
  BY <1>1, <1>2, <1>3, PushTree, PopTree, LoadTree, LookTree, ClimbTree, SettleTree, FixedTree
  DEF Analyse

---------------------------------------------------------------------------
(* The invariant of HeapDump.                                              *)

\* The file and what is known of it; the graph before the deep pass.
FileInv ==
  /\ job \in DOMAIN Files /\ file \in FileType /\ nodes \subseteq Objects
  /\ pc \in {"read", "dfs", "load", "sweep", "paths", "done", "shown"}
  /\ pc = "read" => Fresh

\* The warning, of an analysis.
WarnInv ==
  /\ pc # "read" => hist = Histogram(file)
  /\ pc = "shown" /\ job = "analyze" => report.warned = Warned(hist)

IInv == GInv /\ PathsInv /\ TreeInv /\ FileInv /\ WarnInv

\* The graph as it is before its analysis.
LEMMA FreshAll ==
  Fresh /\ pc \in {"read", "dfs"} /\ succ \in [Nodes -> SUBSET Objects]
    => GInv /\ PathsInv /\ TreeInv
BY FreshInv, FreshPaths, FreshTree

LEMMA InitIInv == Init => IInv
<1> SUFFICES ASSUME Init PROVE IInv
  OBVIOUS
<1>1. /\ job \in DOMAIN Files /\ file \in Files[job] /\ pc = "read" /\ nodes = {} /\ Fresh
      /\ succ = [v \in Objects \cup {Root} |-> {}]
  BY DEF Init
<1>2. succ \in [Nodes -> SUBSET Objects]
  BY <1>1 DEF Nodes
<1>3. GInv /\ PathsInv /\ TreeInv
  BY <1>1, <1>2, FreshAll
<1>4. FileInv
  BY <1>1, FilesAssumption DEF FileInv
<1>5. WarnInv
  BY <1>1 DEF WarnInv
<1> QED
  BY <1>3, <1>4, <1>5 DEF IInv

\* A report, or a histogram on its own: nothing is asked of the graph any more.
LEMMA ShownInv ==
  ASSUME GInv, TreeInv, UNCHANGED <<succ, dfs, sweep, paths>>, pc' = "shown"
  PROVE  GInv' /\ PathsInv' /\ TreeInv'
<1>1. UNCHANGED <<succ, stack, visiting, order, idom, at, changed, todo, new, finger, parent, queue>>
  BY DEF dfs, sweep, paths
<1>2. Reachable' = Reachable
  BY <1>1, ReachableSame
<1>3. GraphTypeOK'
  BY <1>1 DEF GInv, GraphTypeOK
<1>4. SearchInv' /\ RootInv' /\ DomInv'
  BY <1>1, <1>2 DEF GInv, SearchInv, RootInv, DomInv, Known
<1>5. NodeInv' /\ StillInv' /\ GarbageIsExact'
  BY DEF NodeInv, StillInv, GarbageIsExact
<1>6. PathsInv'
  BY DEF PathsInv, PathsAreShortest
<1>7. OnceInv' /\ PostInv'
  BY <1>1, TreeFrame
<1>8. HighInv'
  BY <1>1, TreeFrame DEF TreeInv, HighInv
<1>9. LinkInv' /\ DominatorsAreExact'
  BY DEF LinkInv, DominatorsAreExact
<1> QED
  BY <1>3, <1>4, <1>5, <1>6, <1>7, <1>8, <1>9 DEF GInv, TreeInv

\* A step that leaves the graph and its analysis as they are.
LEMMA GraphFrame ==
  ASSUME GInv, PathsInv, TreeInv, UNCHANGED gvars
  PROVE  GInv' /\ PathsInv' /\ TreeInv'
<1>1. UNCHANGED <<succ, pc, stack, visiting, order, idom, at, changed, todo, new, finger, parent,
                  queue>>
  BY DEF gvars, algorithm, dfs, sweep, paths
<1>2. Reachable' = Reachable /\ Hops' = Hops
  BY <1>1, ReachableSame, HopsSame
<1>3. GInv'
  BY <1>1, <1>2 DEF GInv, GraphTypeOK, SearchInv, RootInv, DomInv, NodeInv, StillInv,
                    GarbageIsExact, Known, Lost, Pred, B
<1>4. PathsInv'
  BY <1>1, <1>2 DEF PathsInv, PathsAreShortest, Waves, Exact, OnShortest
<1>5. OnceInv' /\ PostInv' /\ B' = B
  BY <1>1, TreeFrame DEF B
<1>6. HighInv'
  BY <1>1, <1>5, TreeFrame DEF TreeInv, HighInv
<1>7. LinkInv'
  BY <1>1, <1>5, TreeFrame DEF TreeInv, LinkInv
<1>8. DominatorsAreExact'
  BY <1>1, TreeFrame DEF TreeInv, DominatorsAreExact
<1> QED
  BY <1>3, <1>4, <1>5, <1>6, <1>7, <1>8 DEF TreeInv

LEMMA BuildInv == ASSUME IInv, Build PROVE IInv'
<1>1. /\ job = "analyze" /\ pc = "read" /\ pc' = "dfs" /\ hist' = Histogram(file)
      /\ nodes' \in NodesMade
      /\ UNCHANGED <<stack, visiting, order, idom, at, changed, todo, new, finger, parent, queue,
                     job, file, before, report>>
  BY DEF Build, dfs, sweep, paths
<1>2. Fresh /\ file \in FileType /\ job \in DOMAIN Files
  BY <1>1 DEF IInv, FileInv
<1>3. nodes' \subseteq Objects
  BY <1>1, <1>2 DEF NodesMade, ObjectsIn, FileType
<1>4. succ' \in [Nodes -> SUBSET Objects]
  <2>1. PICK part : succ' = [v \in Objects \cup {Root} |->
                  nodes' \cap IF v = Root THEN Edges(1, part) \cup Edges(NObjects + 2, part)
                              ELSE IF v \in nodes' THEN Edges(v + 1, part) ELSE {}]
    BY DEF Build
  <2> QED
    BY <2>1, <1>3 DEF Nodes
<1>5. Fresh' /\ (pc \in {"read", "dfs"})' /\ (succ \in [Nodes -> SUBSET Objects])'
  BY <1>1, <1>2, <1>4 DEF Fresh
<1>6. GInv' /\ PathsInv' /\ TreeInv'
  BY <1>5, FreshAll, PTL
<1>7. FileInv' /\ WarnInv'
  BY <1>1, <1>2, <1>3 DEF FileInv, WarnInv
<1> QED
  BY <1>6, <1>7 DEF IInv

LEMMA NextIInv == ASSUME IInv, [Next]_vars PROVE IInv'
<1>1. CASE Build
  BY <1>1, BuildInv
<1>2. CASE HistogramOnly
  <2>1. GInv' /\ PathsInv' /\ TreeInv'
    BY <1>2, ShownInv DEF HistogramOnly, IInv
  <2>2. FileInv' /\ WarnInv'
    BY <1>2 DEF HistogramOnly, IInv, FileInv, WarnInv, NoReport
  <2> QED
    BY <2>1, <2>2 DEF IInv
<1>3. CASE First
  <2>1. /\ UNCHANGED gvars /\ UNCHANGED <<job, hist, nodes, report>>
        /\ pc = "read" /\ job = "diff" /\ file' \in Files["diff"]
    BY <1>3 DEF First
  <2>2. Fresh' /\ pc' = "read"
    BY <2>1 DEF gvars, algorithm, dfs, sweep, paths, IInv, FileInv, Fresh
  <2>3. GInv' /\ PathsInv' /\ TreeInv'
    BY <2>1, GraphFrame DEF IInv
  <2>4. FileInv' /\ WarnInv'
    BY <2>1, <2>2, FilesAssumption DEF IInv, FileInv, WarnInv
  <2> QED
    BY <2>3, <2>4 DEF IInv
<1>4. CASE Diff
  <2>1. GInv' /\ PathsInv' /\ TreeInv'
    BY <1>4, ShownInv DEF Diff, IInv
  <2>2. FileInv' /\ WarnInv'
    BY <1>4 DEF Diff, IInv, FileInv, WarnInv
  <2> QED
    BY <2>1, <2>2 DEF IInv
<1>5. CASE Analyse /\ UNCHANGED dump
  <2>1. GInv' /\ PathsInv' /\ TreeInv'
    BY <1>5, AnalyseInv, AnalysePaths, AnalyseTree DEF IInv
  <2>2. pc \in {"dfs", "load", "sweep", "paths"} /\ pc' \in {"dfs", "load", "sweep", "paths", "done"}
    BY <1>5 DEF Analyse, Push, Pop, Searched, Load, Look, Climb, Settle, Again, Fixed,
           Visit,
                Found, Begin
  <2>3. FileInv' /\ WarnInv'
    BY <1>5, <2>2 DEF IInv, FileInv, WarnInv, dump
  <2> QED
    BY <2>1, <2>3 DEF IInv
<1>6. CASE Report
  <2>1. GInv' /\ PathsInv' /\ TreeInv'
    BY <1>6, ShownInv DEF Report, IInv
  <2>2. report'.warned = Warned(hist)
    BY <1>6 DEF Report
  <2>3. pc = "done" /\ pc' = "shown" /\ UNCHANGED <<job, file, hist, nodes>>
    BY <1>6 DEF Report
  <2>4. FileInv' /\ WarnInv'
    BY <2>2, <2>3 DEF IInv, FileInv, WarnInv
  <2> QED
    BY <2>1, <2>4 DEF IInv
<1>7. CASE UNCHANGED vars
  <2>1. UNCHANGED <<succ, stack, visiting, order, idom, at, changed, todo, new, finger, parent, queue,
                    pc, job, file, hist, before, nodes, report>>
    BY <1>7 DEF vars, gvars, algorithm, dfs, sweep, paths, dump
  <2>2. GInv' /\ PathsInv' /\ TreeInv'
    BY <1>7, GraphFrame DEF IInv, vars
  <2>3. FileInv' /\ WarnInv'
    BY <2>1 DEF IInv, FileInv, WarnInv, Fresh
  <2> QED
    BY <2>2, <2>3 DEF IInv
<1> QED
  BY <1>1, <1>2, <1>3, <1>4, <1>5, <1>6, <1>7 DEF Next

---------------------------------------------------------------------------
(* The theorems.                                                           *)

THEOREM Invariance == Spec => []IInv
<1>1. IInv /\ [Next]_vars => IInv'
  BY NextIInv
<1> QED
  BY InitIInv, <1>1, PTL DEF Spec

\* Type correctness of the graph that HeapDump builds and HeapGraph analyses:
\* every index that dominators(), intersect and bfsParents follow is a node.
THEOREM GraphTypes == Spec => []GraphTypeOK
<1>1. IInv => GraphTypeOK
  BY DEF IInv, GInv
<1> QED
  BY Invariance, <1>1, PTL

\* dominators(): whatever the graph, what is called garbage is exactly what no
\* chain of references from a GC root leads to.
THEOREM GarbageTheorem == Spec => []GarbageIsExact
<1>1. IInv => GarbageIsExact
  BY DEF IInv, GInv
<1> QED
  BY Invariance, <1>1, PTL

\* dominators(): of every object that can be reached, idom is an object that it
\* is lost with, and one that is lost with whatever else it is lost with: the
\* closest node whose loss frees it, on any graph and in whatever order the
\* successors and predecessors come.
THEOREM ExactDominators == Spec => []DominatorsAreExact
<1>1. IInv => DominatorsAreExact
  BY DEF IInv, TreeInv
<1> QED
  BY Invariance, <1>1, PTL

\* bfsParents: every object that can be reached has a path over references to a
\* GC root, no path is shorter, and no other object has one.
THEOREM ShortestPaths == Spec => []PathsAreShortest
<1>1. IInv => PathsAreShortest
  BY DEF IInv, PathsInv
<1> QED
  BY Invariance, <1>1, PTL

\* An undamaged file is read to its last object.
LEMMA WholeIsAll ==
  ASSUME file \in FileType, file.damage = "none"
  PROVE  Histogram(file).total = Bytes(file, file.objects)
<1>1. Cardinality(Objects) \in Nat /\ Objects = 1 .. Cardinality(Objects)
  BY NodesAssumption, DumpAssumption, FS_CardinalityType
<1>2. Whole(file, {"cut", "odd", "long"}) = 1 .. NObjects + 2
  BY DEF Whole
<1>3. \A o \in file.objects : o + 1 \in 1 .. NObjects + 2
  BY <1>1 DEF FileType, NObjects
<1>4. ObjectsIn(file, Whole(file, {"cut", "odd", "long"})) = file.objects
  BY <1>2, <1>3 DEF ObjectsIn
<1> QED
  BY <1>4 DEF Histogram

\* renderHistogram: an analysis of a file that was not cut says when it has left
\* anything out.
THEOREM SkippedTheorem == Spec => []SkippedIsSaid
<1>1. IInv => SkippedIsSaid
  <2> SUFFICES ASSUME IInv, pc = "shown", job = "analyze", file.damage # "cut", ~report.warned
               PROVE  hist.total = Bytes(file, file.objects)
    BY DEF SkippedIsSaid
  <2>1. hist = Histogram(file) /\ ~Warned(hist) /\ file \in FileType
    BY DEF IInv, WarnInv, FileInv
  <2>2. file.damage # "odd" /\ file.damage # "long"
    BY <2>1 DEF Warned, Histogram
  <2>3. file.damage = "none"
    BY <2>1, <2>2 DEF FileType, Damages
  <2> QED
    BY <2>1, <2>3, WholeIsAll
<1> QED
  BY Invariance, <1>1, PTL

---------------------------------------------------------------------------
(* Sums over finite sets, and what they add up to.                         *)

PickOf(s)        == CHOOSE x \in s : TRUE
SumStep(f, h, s) == IF s = {} THEN 0 ELSE f[PickOf(s)] + h[s \ {PickOf(s)}]
SumsOf(S)        == [SUBSET S -> Int]
IsSum(S, f, h)   == h = [s \in SUBSET S |-> SumStep(f, h, s)]
Summed(S, f)     == CHOOSE h : IsSum(S, f, h)

LEMMA OneLess ==
  ASSUME NEW s, IsFiniteSet(s), s # {}
  PROVE  /\ PickOf(s) \in s /\ IsFiniteSet(s \ {PickOf(s)})
         /\ Cardinality(s \ {PickOf(s)}) = Cardinality(s) - 1
         /\ Cardinality(s) \in Nat \ {0}
<1>1. PickOf(s) \in s
  BY DEF PickOf
<1> QED
  BY <1>1, FS_RemoveElement, FS_CardinalityType, FS_EmptySet

LEMMA OneLessThan ==
  ASSUME NEW s, IsFiniteSet(s), NEW x \in s, NEW n \in Nat, Cardinality(s) = n + 1
  PROVE  Cardinality(s \ {x}) = n
BY FS_RemoveElement

\* There is a function that is the sum of every subset.
LEMMA SumsExist ==
  ASSUME NEW S, IsFiniteSet(S), NEW f, \A x \in S : f[x] \in Int
  PROVE  \E h \in SumsOf(S) : IsSum(S, f, h)
<1> DEFINE UpTo(h, n) == \A s \in SUBSET S : Cardinality(s) <= n => h[s] = SumStep(f, h, s)
           Ok == {n \in Nat : \E h \in SumsOf(S) : UpTo(h, n)}
<1>0. \A s \in SUBSET S : IsFiniteSet(s) /\ Cardinality(s) \in Nat /\ Cardinality(s) <= Cardinality(S)
  BY FS_Subset, FS_CardinalityType
<1>a. \A h \in SumsOf(S), s \in SUBSET S : SumStep(f, h, s) \in Int
  <2> SUFFICES ASSUME NEW h \in SumsOf(S), NEW s \in SUBSET S PROVE SumStep(f, h, s) \in Int
    OBVIOUS
  <2>2. CASE s = {}
    BY <2>2 DEF SumStep
  <2>3. ASSUME s # {} PROVE f[PickOf(s)] \in Int /\ h[s \ {PickOf(s)}] \in Int
    <3>1. PickOf(s) \in s
      BY <2>3 DEF PickOf
    <3> QED
      BY <3>1 DEF SumsOf
  <2> QED
    BY <2>2, <2>3 DEF SumStep
<1>1. 0 \in Ok
  <2> DEFINE h == [s \in SUBSET S |-> 0]
  <2>1. h \in SumsOf(S)
    BY DEF SumsOf
  <2>2. UpTo(h, 0)
    <3> SUFFICES ASSUME NEW s \in SUBSET S, Cardinality(s) <= 0 PROVE h[s] = SumStep(f, h, s)
      OBVIOUS
    <3>1. s = {}
      BY <1>0, FS_EmptySet
    <3> QED
      BY <3>1 DEF SumStep
  <2> HIDE DEF h
  <2> QED
    BY <2>1, <2>2
<1>2. ASSUME NEW n \in Nat, n \in Ok PROVE n + 1 \in Ok
  <2>1. PICK h \in SumsOf(S) : UpTo(h, n)
    BY <1>2
  <2> DEFINE g == [s \in SUBSET S |-> IF Cardinality(s) = n + 1 THEN SumStep(f, h, s) ELSE h[s]]
  <2>2. g \in SumsOf(S)
    BY <1>a DEF SumsOf
  <2>3. ASSUME NEW s \in SUBSET S, Cardinality(s) <= n + 1 PROVE g[s] = SumStep(f, g, s)
    <3>1. g[s] = SumStep(f, h, s)
      <4>1. CASE Cardinality(s) = n + 1
        BY <4>1
      <4>2. CASE Cardinality(s) # n + 1
        <5>1. Cardinality(s) <= n /\ g[s] = h[s]
          BY <4>2, <2>3, <1>0
        <5> QED
          BY <5>1, <2>1
      <4> QED
        BY <4>1, <4>2
    <3>2. s # {} => g[s \ {PickOf(s)}] = h[s \ {PickOf(s)}]
      <4> SUFFICES ASSUME s # {} PROVE g[s \ {PickOf(s)}] = h[s \ {PickOf(s)}]
        OBVIOUS
      <4>1. s \ {PickOf(s)} \in SUBSET S /\ Cardinality(s \ {PickOf(s)}) # n + 1
        BY <2>3, <1>0, OneLess
      <4> QED
        BY <4>1
    <3> HIDE DEF g
    <3> QED
      BY <3>1, <3>2 DEF SumStep
  <2> HIDE DEF g
  <2>4. UpTo(g, n + 1)
    BY <2>3
  <2> QED
    BY <2>2, <2>4
<1>3. Nat \subseteq Ok
  <2> HIDE DEF Ok
  <2> QED
    BY <1>1, <1>2, NatSetInduction
<1>4. PICK h \in SumsOf(S) : UpTo(h, Cardinality(S))
  BY <1>0, <1>3
<1>5. \A s \in SUBSET S : h[s] = SumStep(f, h, s)
  BY <1>0, <1>4
<1>6. IsSum(S, f, h)
  BY <1>5 DEF SumsOf, IsSum
<1> QED
  BY <1>6

\* What a sum unfolds to.
LEMMA SumIs ==
  ASSUME NEW S, IsFiniteSet(S), NEW f, \A x \in S : f[x] \in Int
  PROVE  /\ SumFunctionOnSet(f, S) = Summed(S, f)[S]
         /\ \A s \in SUBSET S : Summed(S, f)[s] = SumStep(f, Summed(S, f), s)
<1>1. SumFunctionOnSet(f, S) = Summed(S, f)[S]
  BY DEF SumFunctionOnSet, FoldFunctionOnSet, MapThenFoldSet, SumStep, PickOf, Summed, IsSum
<1>2. \E h : IsSum(S, f, h)
  BY SumsExist
<1>3. IsSum(S, f, Summed(S, f))
  BY <1>2 DEF Summed
<1>4. PICK g : g = Summed(S, f)
  OBVIOUS
<1>5. g = [s \in SUBSET S |-> SumStep(f, g, s)]
  BY <1>3, <1>4 DEF IsSum
<1>6. \A s \in SUBSET S : g[s] = SumStep(f, g, s)
  <2> SUFFICES ASSUME NEW s \in SUBSET S PROVE g[s] = SumStep(f, g, s)
    OBVIOUS
  <2> DEFINE k == [t \in SUBSET S |-> SumStep(f, g, t)]
  <2>1. k[s] = SumStep(f, g, s)
    OBVIOUS
  <2>2. g = k
    BY <1>5
  <2> HIDE DEF k
  <2> QED
    BY <2>1, <2>2
<1> QED
  BY <1>1, <1>4, <1>6

\* Equal terms, equal sums: the sum over a subset does not depend on what the
\* set was part of.
LEMMA SumsAgree ==
  ASSUME NEW S, IsFiniteSet(S), NEW T \in SUBSET S, NEW f, NEW g,
         \A x \in S : f[x] \in Int, \A x \in T : g[x] = f[x]
  PROVE  SumFunctionOnSet(g, T) = Summed(S, f)[T]
<1> DEFINE F == Summed(S, f)
           G == Summed(T, g)
           Ok == {n \in Nat : \A s \in SUBSET T : Cardinality(s) = n => F[s] = G[s]}
<1>0. /\ IsFiniteSet(T) /\ \A s \in SUBSET T : IsFiniteSet(s) /\ Cardinality(s) \in Nat
      /\ \A x \in T : g[x] \in Int
  BY FS_Subset, FS_CardinalityType
<1>1. \A s \in SUBSET T : F[s] = SumStep(f, F, s) /\ G[s] = SumStep(g, G, s)
  BY <1>0, SumIs
<1>2. SumFunctionOnSet(g, T) = G[T]
  BY <1>0, SumIs
<1> HIDE DEF F, G
<1>3. 0 \in Ok
  <2> SUFFICES ASSUME NEW s \in SUBSET T, Cardinality(s) = 0 PROVE F[s] = G[s]
    OBVIOUS
  <2>1. s = {}
    BY <1>0, FS_EmptySet
  <2>2. F[s] = SumStep(f, F, s) /\ G[s] = SumStep(g, G, s)
    BY <1>1
  <2> QED
    BY <2>1, <2>2 DEF SumStep
<1>4. ASSUME NEW n \in Nat, n \in Ok PROVE n + 1 \in Ok
  <2> SUFFICES ASSUME NEW s \in SUBSET T, Cardinality(s) = n + 1 PROVE F[s] = G[s]
    OBVIOUS
  <2> DEFINE c == PickOf(s)
             r == s \ {c}
  <2>1. s # {}
    BY FS_EmptySet
  <2>2. c \in s /\ r \in SUBSET T /\ Cardinality(r) = n
    BY <2>1, <1>0, OneLess
  <2>3. F[r] = G[r]
    BY <2>2, <1>4
  <2>4. F[s] = f[c] + F[r] /\ G[s] = g[c] + G[r]
    BY <2>1, <1>1 DEF SumStep
  <2>5. g[c] = f[c]
    BY <2>2
  <2> HIDE DEF c, r
  <2> QED
    BY <2>3, <2>4, <2>5
<1>5. Nat \subseteq Ok
  <2> HIDE DEF Ok
  <2> QED
    BY <1>3, <1>4, NatSetInduction
<1>6. F[T] = G[T]
  BY <1>0, <1>5
<1> QED
  BY <1>2, <1>6 DEF F

\* The laws of sums: none, one more, whichever it is, and equal terms.
LEMMA SumLaws ==
  ASSUME NEW S, IsFiniteSet(S), NEW f, \A x \in S : f[x] \in Int
  PROVE  /\ SumFunctionOnSet(f, {}) = 0
         /\ \A T \in SUBSET S : SumFunctionOnSet(f, T) \in Int
         /\ \A T \in SUBSET S, x \in S : x \notin T =>
              SumFunctionOnSet(f, T \cup {x}) = f[x] + SumFunctionOnSet(f, T)
<1> DEFINE F == Summed(S, f)
           Right(s) == F[s] \in Int /\ \A x \in s : F[s] = f[x] + F[s \ {x}]
           Ok == {n \in Nat : \A s \in SUBSET S : Cardinality(s) <= n => Right(s)}
<1>0. \A s \in SUBSET S : IsFiniteSet(s) /\ Cardinality(s) \in Nat
  BY FS_Subset, FS_CardinalityType
<1>1. \A s \in SUBSET S : F[s] = SumStep(f, F, s)
  BY SumIs
<1>2. \A s \in SUBSET S : SumFunctionOnSet(f, s) = F[s]
  BY SumsAgree
<1> HIDE DEF F
<1>3. F[{}] = 0
  BY <1>1 DEF SumStep
<1>4. 0 \in Ok
  <2> SUFFICES ASSUME NEW s \in SUBSET S, Cardinality(s) <= 0 PROVE Right(s)
    OBVIOUS
  <2>1. s = {}
    BY <1>0, FS_EmptySet
  <2> QED
    BY <2>1, <1>3
<1>5. ASSUME NEW n \in Nat, n \in Ok PROVE n + 1 \in Ok
  <2>a. \A s \in SUBSET S : Cardinality(s) <= n => Right(s)
    BY <1>5
  <2> SUFFICES ASSUME NEW s \in SUBSET S, Cardinality(s) <= n + 1 PROVE Right(s)
    <3> HIDE DEF Right
    <3> QED
      OBVIOUS
  <2> SUFFICES ASSUME Cardinality(s) = n + 1 PROVE Right(s)
    <3>1. CASE Cardinality(s) <= n
      BY <2>a, <3>1
    <3>2. CASE ~(Cardinality(s) <= n)
      BY <1>0, <3>2
    <3> QED
      BY <3>1, <3>2
  <2> DEFINE c == PickOf(s)
             r == s \ {c}
  <2>1. s # {}
    BY FS_EmptySet
  <2>2. c \in s /\ r \in SUBSET S /\ Cardinality(r) = n
    BY <2>1, <1>0, OneLess
  <2>3. Right(r)
    <3> HIDE DEF Right
    <3> QED
      BY <2>2, <2>a
  <2>4. F[s] = f[c] + F[r] /\ f[c] \in Int
    BY <2>1, <2>2, <1>1 DEF SumStep
  <2>5. ASSUME NEW x \in s, x # c PROVE F[s] = f[x] + F[s \ {x}]
    <3> DEFINE t == s \ {x}
               b == r \ {x}
    <3>1. x \in r /\ b \in SUBSET S /\ b = t \ {c} /\ c \in t /\ t \in SUBSET S
      BY <2>2, <2>5
    <3>2. Cardinality(t) = n
      BY <1>0, OneLessThan
    <3>3. Right(t)
      <4> HIDE DEF Right, t
      <4> QED
        BY <3>1, <3>2, <2>a
    <3>4. F[r] = f[x] + F[b] /\ F[t] = f[c] + F[b] /\ f[x] \in Int
      BY <3>1, <3>3, <2>3
    <3>5. F[b] \in Int
      <4>1. Cardinality(b) <= n
        BY <2>2, <1>0, FS_Subset
      <4> QED
        BY <3>1, <4>1, <2>a
    <3> HIDE DEF t, b
    <3>6. F[s] = f[x] + F[t]
      BY <2>4, <3>4, <3>5
    <3> QED
      BY <3>6 DEF t
  <2>6. F[s] \in Int
    BY <2>3, <2>4
  <2> QED
    BY <2>4, <2>5, <2>6
<1>6. Nat \subseteq Ok
  <2> HIDE DEF Ok
  <2> QED
    BY <1>4, <1>5, NatSetInduction
<1>7. \A s \in SUBSET S : Right(s)
  BY <1>0, <1>6
<1>8. ASSUME NEW T \in SUBSET S, NEW x \in S, x \notin T
      PROVE  SumFunctionOnSet(f, T \cup {x}) = f[x] + SumFunctionOnSet(f, T)
  <2>1. T \cup {x} \in SUBSET S /\ (T \cup {x}) \ {x} = T
    BY <1>8
  <2>2. F[T \cup {x}] = f[x] + F[T]
    BY <1>7, <2>1
  <2> QED
    BY <2>1, <2>2, <1>2
<1> QED
  BY <1>2, <1>3, <1>7, <1>8

\* Induction over the subsets of a finite set, for a set Q of them.
LEMMA SubsetInduction ==
  ASSUME NEW S, IsFiniteSet(S), NEW Q, {} \in Q,
         \A T \in SUBSET S, x \in S : x \notin T /\ T \in Q => T \cup {x} \in Q
  PROVE  \A T \in SUBSET S : T \in Q
<1> DEFINE Ok == {n \in Nat : \A T \in SUBSET S : Cardinality(T) = n => T \in Q}
<1>0. \A T \in SUBSET S : IsFiniteSet(T) /\ Cardinality(T) \in Nat
  BY FS_Subset, FS_CardinalityType
<1>1. 0 \in Ok
  BY <1>0, FS_EmptySet
<1>2. ASSUME NEW n \in Nat, n \in Ok PROVE n + 1 \in Ok
  <2> SUFFICES ASSUME NEW T \in SUBSET S, Cardinality(T) = n + 1 PROVE T \in Q
    OBVIOUS
  <2>1. T # {}
    <3>1. Cardinality({}) # n + 1
      BY FS_EmptySet
    <3> QED
      BY <3>1
  <2>2. PICK x \in T : TRUE
    BY <2>1
  <2> DEFINE r == T \ {x}
  <2>3. Cardinality(r) = n
    BY <1>0, OneLessThan
  <2>4. r \in SUBSET S /\ x \in S /\ x \notin r /\ T = r \cup {x}
    OBVIOUS
  <2> HIDE DEF r
  <2>5. r \in Q
    BY <2>3, <2>4, <1>2
  <2> QED
    BY <2>4, <2>5
<1>3. Nat \subseteq Ok
  <2> HIDE DEF Ok
  <2> QED
    BY <1>1, <1>2, NatSetInduction
<1> QED
  BY <1>0, <1>3

LEMMA SumEqual ==
  ASSUME NEW S, IsFiniteSet(S), NEW f, \A x \in S : f[x] \in Int,
         NEW g, \A x \in S : g[x] = f[x]
  PROVE  SumFunctionOnSet(g, S) = SumFunctionOnSet(f, S)
<1>1. S \in SUBSET S
  OBVIOUS
<1>2. SumFunctionOnSet(g, S) = Summed(S, f)[S]
  BY <1>1, SumsAgree
<1>3. SumFunctionOnSet(f, S) = Summed(S, f)[S]
  BY <1>1, SumsAgree
<1> QED
  BY <1>2, <1>3

LEMMA SumUnion ==
  ASSUME NEW S, IsFiniteSet(S), NEW f, \A x \in S : f[x] \in Int,
         NEW A \in SUBSET S, NEW C \in SUBSET S, A \cap C = {}
  PROVE  SumFunctionOnSet(f, A \cup C) = SumFunctionOnSet(f, A) + SumFunctionOnSet(f, C)
<1> DEFINE Sf(T) == SumFunctionOnSet(f, T)
           Q == {T \in SUBSET S : A \cap T = {} => Sf(A \cup T) = Sf(A) + Sf(T)}
<1>0. /\ Sf({}) = 0 /\ \A T \in SUBSET S : Sf(T) \in Int
      /\ \A T \in SUBSET S, x \in S : x \notin T => Sf(T \cup {x}) = f[x] + Sf(T)
  BY SumLaws
<1> HIDE DEF Sf
<1>1. {} \in Q
  BY <1>0
<1>2. ASSUME NEW T \in SUBSET S, NEW x \in S, x \notin T, T \in Q PROVE T \cup {x} \in Q
  <2> SUFFICES ASSUME A \cap (T \cup {x}) = {}
               PROVE  Sf(A \cup (T \cup {x})) = Sf(A) + Sf(T \cup {x})
    OBVIOUS
  <2>1. A \cup (T \cup {x}) = (A \cup T) \cup {x} /\ x \notin A \cup T /\ A \cup T \in SUBSET S
    BY <1>2
  <2>2. Sf((A \cup T) \cup {x}) = f[x] + Sf(A \cup T) /\ Sf(T \cup {x}) = f[x] + Sf(T)
    BY <1>0, <1>2, <2>1
  <2>3. Sf(A \cup T) = Sf(A) + Sf(T)
    BY <1>2
  <2>4. f[x] \in Int /\ Sf(A) \in Int /\ Sf(T) \in Int
    BY <1>0
  <2>5. Sf(A \cup (T \cup {x})) = Sf((A \cup T) \cup {x})
    BY <2>1
  <2>6. Sf(A \cup (T \cup {x})) = f[x] + (Sf(A) + Sf(T))
    BY <2>2, <2>3, <2>5
  <2> QED
    BY <2>2, <2>4, <2>6
<1>3. C \in Q
  <2> HIDE DEF Q
  <2> QED
    BY <1>1, <1>2, SubsetInduction
<1> QED
  BY <1>3 DEF Sf

LEMMA SumMinus ==
  ASSUME NEW S, IsFiniteSet(S), NEW f, NEW g, NEW h,
         \A x \in S : f[x] \in Int /\ g[x] \in Int /\ h[x] = f[x] - g[x]
  PROVE  SumFunctionOnSet(h, S) = SumFunctionOnSet(f, S) - SumFunctionOnSet(g, S)
<1> DEFINE Sf(T) == SumFunctionOnSet(f, T)
           Sg(T) == SumFunctionOnSet(g, T)
           Sh(T) == SumFunctionOnSet(h, T)
           Q == {T \in SUBSET S : Sh(T) = Sf(T) - Sg(T)}
<1>0. \A x \in S : h[x] \in Int
  OBVIOUS
<1>a. /\ Sf({}) = 0 /\ \A T \in SUBSET S : Sf(T) \in Int
      /\ \A T \in SUBSET S, x \in S : x \notin T => Sf(T \cup {x}) = f[x] + Sf(T)
  BY SumLaws
<1>b. /\ Sg({}) = 0 /\ \A T \in SUBSET S : Sg(T) \in Int
      /\ \A T \in SUBSET S, x \in S : x \notin T => Sg(T \cup {x}) = g[x] + Sg(T)
  BY SumLaws
<1>c. /\ Sh({}) = 0
      /\ \A T \in SUBSET S, x \in S : x \notin T => Sh(T \cup {x}) = h[x] + Sh(T)
  BY <1>0, SumLaws
<1> HIDE DEF Sf, Sg, Sh
<1>1. {} \in Q
  BY <1>a, <1>b, <1>c
<1>2. ASSUME NEW T \in SUBSET S, NEW x \in S, x \notin T, T \in Q PROVE T \cup {x} \in Q
  <2>1. /\ Sh(T \cup {x}) = h[x] + Sh(T) /\ Sf(T \cup {x}) = f[x] + Sf(T)
        /\ Sg(T \cup {x}) = g[x] + Sg(T)
    BY <1>2, <1>a, <1>b, <1>c
  <2>2. Sh(T) = Sf(T) - Sg(T) /\ Sf(T) \in Int /\ Sg(T) \in Int
    BY <1>2, <1>a, <1>b
  <2>3. T \cup {x} \in SUBSET S /\ h[x] = f[x] - g[x] /\ f[x] \in Int /\ g[x] \in Int
    OBVIOUS
  <2> QED
    BY <2>1, <2>2, <2>3
<1>3. S \in Q
  <2> HIDE DEF Q
  <2> QED
    BY <1>1, <1>2, SubsetInduction
<1> QED
  BY <1>3 DEF Sf, Sg, Sh

\* The elements with a key.
Keyed(S, key, k) == {x \in S : key[x] = k}

\* The sums over the elements of each key add up to the sum over all.
LEMMA SumByKey ==
  ASSUME NEW S, IsFiniteSet(S), NEW f, \A x \in S : f[x] \in Int,
         NEW K, IsFiniteSet(K), NEW key \in [S -> K], NEW g,
         \A k \in K : g[k] = SumFunctionOnSet(f, Keyed(S, key, k))
  PROVE  SumFunctionOnSet(g, K) = SumFunctionOnSet(f, S)
<1> DEFINE Sf(T) == SumFunctionOnSet(f, T)
           Sg(T) == SumFunctionOnSet(g, T)
           In(T) == {x \in S : key[x] \in T}
           Q == {T \in SUBSET K : Sg(T) = Sf(In(T))}
<1>0. \A k \in K : g[k] \in Int /\ g[k] = Sf(Keyed(S, key, k))
  <2>1. \A k \in K : Keyed(S, key, k) \in SUBSET S
    BY DEF Keyed
  <2> QED
    BY <2>1, SumLaws
<1>a. Sf({}) = 0
  BY SumLaws
<1>b. /\ Sg({}) = 0
      /\ \A T \in SUBSET K, k \in K : k \notin T => Sg(T \cup {k}) = g[k] + Sg(T)
  <2>1. \A k \in K : g[k] \in Int
    BY <1>0
  <2> QED
    BY <2>1, SumLaws
<1>c. \A A, C \in SUBSET S : A \cap C = {} => Sf(A \cup C) = Sf(A) + Sf(C)
  BY SumUnion
<1>d. \A A \in SUBSET S : Sf(A) \in Int
  BY SumLaws
<1> HIDE DEF Sf, Sg
<1>1. {} \in Q
  <2>1. In({}) = {}
    OBVIOUS
  <2> QED
    BY <2>1, <1>a, <1>b
<1>2. ASSUME NEW T \in SUBSET K, NEW k \in K, k \notin T, T \in Q PROVE T \cup {k} \in Q
  <2> DEFINE A == In(T)
             C == Keyed(S, key, k)
  <2>1. /\ In(T \cup {k}) = A \cup C /\ A \cap C = {} /\ A \in SUBSET S /\ C \in SUBSET S
    BY <1>2 DEF Keyed
  <2>2. Sg(T) = Sf(A)
    BY <1>2
  <2>3. g[k] = Sf(C)
    BY <1>0
  <2> HIDE DEF A, C
  <2>4. Sf(A \cup C) = Sf(A) + Sf(C) /\ Sf(A) \in Int /\ Sf(C) \in Int
    BY <2>1, <1>c, <1>d
  <2>5. Sg(T \cup {k}) = g[k] + Sg(T)
    BY <1>2, <1>b
  <2>a. Sg(T \cup {k}) = Sf(A \cup C)
    BY <2>2, <2>3, <2>4, <2>5
  <2>6. Sg(T \cup {k}) = Sf(In(T \cup {k}))
    <3> HIDE DEF In
    <3> QED
      BY <2>1, <2>a
  <2> QED
    BY <2>6
<1>3. K \in Q
  <2> HIDE DEF Q
  <2> QED
    BY <1>1, <1>2, SubsetInduction
<1>4. In(K) = S
  OBVIOUS
<1> QED
  BY <1>3, <1>4 DEF Sf, Sg

---------------------------------------------------------------------------
(* The figures of a histogram.                                             *)

LEMMA ObjectsFinite ==
  /\ IsFiniteSet(Objects) /\ NObjects \in Nat /\ Objects = 1 .. NObjects
  /\ IsFiniteSet(Classes) /\ IsFiniteSet(Names)
<1>1. IsFiniteSet(Objects) /\ NObjects \in Nat /\ Objects = 1 .. NObjects
  BY NodesAssumption, DumpAssumption, FS_CardinalityType DEF NObjects
<1>2. IsFiniteSet(Classes)
  BY DumpAssumption DEF Classes
<1>3. [c \in Classes |-> NameOf[c]] \in Surjection(Classes, Names)
  BY DEF Surjection, Names
<1>4. IsFiniteSet(Names)
  BY <1>2, <1>3, FS_Surjection
<1> QED
  BY <1>1, <1>2, <1>4

\* The size of each object, as a function, and the objects that were read.
SizesIn(f) == [o \in Objects |-> Shallow(f, o)]
ReadOf(f)  == ObjectsIn(f, Whole(f, {"cut", "odd", "long"}))

LEMMA SizesAreNumbers ==
  ASSUME NEW f \in FileType
  PROVE  /\ \A o \in Objects : SizesIn(f)[o] \in Nat /\ SizesIn(f)[o] = Shallow(f, o)
         /\ \A S : Bytes(f, S) = SumFunctionOnSet(SizesIn(f), S)
         /\ ReadOf(f) \in SUBSET f.objects /\ ReadOf(f) \in SUBSET Objects /\ IsFiniteSet(ReadOf(f))
         /\ \A o \in Objects : f.class[o] \in Classes /\ NameOf[f.class[o]] \in Names
<1>1. ASSUME NEW o \in Objects PROVE f.class[o] \in Classes /\ NameOf[f.class[o]] \in Names
  BY DEF FileType, Names
<1>2. ASSUME NEW o \in Objects PROVE Shallow(f, o) \in Nat
  <2>1. Fields[f.class[o]] \in Nat
    BY <1>1, DumpAssumption DEF Classes
  <2>2. \A n \in Nat : Align8(n) \in Nat
    BY DEF Align8
  <2>3. 16 + (IF IsArray(f, o) THEN 4 ELSE 0) + Fields[f.class[o]] \in Nat
    BY <2>1
  <2> QED
    BY <2>2, <2>3 DEF Shallow
<1>3. ReadOf(f) \in SUBSET f.objects /\ ReadOf(f) \in SUBSET Objects
  BY DEF ReadOf, ObjectsIn, FileType
<1>4. IsFiniteSet(ReadOf(f))
  BY <1>3, ObjectsFinite, FS_Subset
<1>5. \A S : Bytes(f, S) = SumFunctionOnSet(SizesIn(f), S)
  BY DEF Bytes, SizesIn
<1> QED
  BY <1>1, <1>2, <1>3, <1>4, <1>5 DEF SizesIn

OfClass(f, c) == {o \in ReadOf(f) : f.class[o] = c}

\* The rows of a histogram.
LEMMA RowsOf ==
  ASSUME NEW f \in FileType
  PROVE  /\ DOMAIN Histogram(f).rows = {f.class[o] : o \in ReadOf(f)}
         /\ \A c \in DOMAIN Histogram(f).rows :
              Histogram(f).rows[c].bytes =
                SumFunctionOnSet(SizesIn(f), OfClass(f, c))
         /\ Histogram(f).total = SumFunctionOnSet(SizesIn(f), ReadOf(f))
         /\ Histogram(f).biggest = Keep(f, ReadOf(f))
BY SizesAreNumbers DEF Histogram, ReadOf, OfClass

\* The rows add up to the total.
LEMMA RowsAddUp ==
  ASSUME NEW f \in FileType
  PROVE  Histogram(f).total =
           SumFunction([c \in DOMAIN Histogram(f).rows |-> Histogram(f).rows[c].bytes])
<1> DEFINE S == ReadOf(f)
           K == DOMAIN Histogram(f).rows
           sz == SizesIn(f)
           key == [o \in S |-> f.class[o]]
           g == [c \in K |-> Histogram(f).rows[c].bytes]
<1>1. K = {f.class[o] : o \in S}
  BY RowsOf
<1>2. key \in Surjection(S, K)
  BY <1>1 DEF Surjection
<1>3. IsFiniteSet(S) /\ \A o \in S : sz[o] \in Int
  BY SizesAreNumbers
<1>4. IsFiniteSet(K) /\ key \in [S -> K]
  BY <1>2, <1>3, FS_Surjection DEF Surjection
<1>5. \A c \in K : g[c] = SumFunctionOnSet(sz, Keyed(S, key, c))
  <2> SUFFICES ASSUME NEW c \in K PROVE g[c] = SumFunctionOnSet(sz, Keyed(S, key, c))
    OBVIOUS
  <2>1. Keyed(S, key, c) = OfClass(f, c)
    BY DEF Keyed, OfClass
  <2>2. g[c] = Histogram(f).rows[c].bytes
    OBVIOUS
  <2> HIDE DEF g, key
  <2> QED
    BY <2>1, <2>2, RowsOf
<1>6. Histogram(f).total = SumFunctionOnSet(sz, S) /\ DOMAIN g = K
  BY RowsOf
<1>7. SumFunction(g) = SumFunctionOnSet(g, K)
  BY <1>6 DEF SumFunction
<1> HIDE DEF S, K, sz, key, g
<1>8. SumFunctionOnSet(g, K) = SumFunctionOnSet(sz, S)
  BY <1>3, <1>4, <1>5, SumByKey
<1>9. Histogram(f).total = SumFunction(g)
  BY <1>6, <1>7, <1>8
<1> QED
  BY <1>9 DEF g, K

\* Classes of one name are one class, in each of the dumps to compare.
OneClassPerName(f) == \A o, p \in f.objects : NameOf[f.class[o]] = NameOf[f.class[p]]
                                                => f.class[o] = f.class[p]

LEMMA NamesAddUp ==
  ASSUME NEW f \in FileType, OneClassPerName(f)
  PROVE  /\ Histogram(f).total
              = SumFunctionOnSet([n \in Names |-> RowOf(Histogram(f), n).bytes], Names)
         /\ \A n \in Names : RowOf(Histogram(f), n).bytes \in Int
<1> DEFINE S == ReadOf(f)
           h == Histogram(f)
           sz == SizesIn(f)
           key == [o \in S |-> NameOf[f.class[o]]]
           g == [n \in Names |-> RowOf(h, n).bytes]
           Of(n) == Keyed(S, key, n)
<1>1. /\ IsFiniteSet(S) /\ S \subseteq f.objects /\ S \subseteq Objects /\ IsFiniteSet(Names)
      /\ \A o \in S : sz[o] \in Int
  BY SizesAreNumbers, ObjectsFinite
<1>2. key \in [S -> Names]
  BY SizesAreNumbers, <1>1
<1>3. ASSUME NEW n \in Names
      PROVE  RowOf(h, n).bytes = SumFunctionOnSet(sz, Of(n)) /\ SumFunctionOnSet(sz, Of(n)) \in Int
  <2> DEFINE ks   == {k \in DOMAIN h.rows : NameOf[k] = n}
             rows == {h.rows[c] : c \in ks}
  <2>0. SumFunctionOnSet(sz, Of(n)) \in Int /\ SumFunctionOnSet(sz, {}) = 0
    <3>1. Of(n) \in SUBSET S /\ {} \in SUBSET S
      BY DEF Keyed
    <3> HIDE DEF Of, sz, S
    <3> QED
      BY <3>1, <1>1, SumLaws
  <2>1. CASE Of(n) = {}
    <3>a. ASSUME NEW k \in DOMAIN h.rows, NameOf[k] = n PROVE FALSE
      <4>1. k \in {f.class[o] : o \in S}
        BY RowsOf
      <4>2. PICK o \in S : k = f.class[o]
        BY <4>1
      <4>3. o \in Of(n)
        BY <4>2, <3>a DEF Keyed
      <4> QED
        BY <4>3, <2>1
    <3> HIDE DEF h
    <3>b. ks = {}
      BY <3>a
    <3>1. rows = {}
      BY <3>b
    <3>2. RowOf(h, n).bytes = 0
      BY <3>1 DEF RowOf
    <3> QED
      BY <3>2, <2>0, <2>1
  <2>2. CASE Of(n) # {}
    <3>1. PICK p \in S : key[p] = n
      BY <2>2 DEF Keyed
    <3> DEFINE c == f.class[p]
    <3>2. c \in DOMAIN h.rows /\ NameOf[c] = n
      BY <3>1, RowsOf
    <3>3. \A k \in DOMAIN h.rows : NameOf[k] = n => k = c
      BY <3>1, <3>2, <1>1, RowsOf DEF OneClassPerName
    <3>4. rows = {h.rows[c]}
      BY <3>2, <3>3
    <3>5. OfClass(f, c) = Of(n)
      BY <3>1, <3>2, <1>1 DEF OneClassPerName, OfClass, Keyed
    <3>6. h.rows[c].bytes = SumFunctionOnSet(sz, Of(n))
      BY <3>2, <3>5, RowsOf
    <3>7. RowOf(h, n) = h.rows[c]
      <4> HIDE DEF c, h
      <4>1. RowOf(h, n) = CHOOSE r \in {h.rows[c]} : \A q \in {h.rows[c]} : r.bytes <= q.bytes
        BY <3>4 DEF RowOf
      <4>2. h.rows[c].bytes <= h.rows[c].bytes
        BY <3>6, <2>0
      <4> QED
        BY <4>1, <4>2
    <3> QED
      BY <3>6, <3>7, <2>0
  <2> QED
    BY <2>1, <2>2
<1>4. \A n \in Names : g[n] = SumFunctionOnSet(sz, Keyed(S, key, n))
  BY <1>3
<1>5. h.total = SumFunctionOnSet(sz, S)
  BY RowsOf
<1>6. \A n \in Names : RowOf(h, n).bytes \in Int
  BY <1>3
<1> HIDE DEF S, sz, key, g
<1>7. SumFunctionOnSet(g, Names) = SumFunctionOnSet(sz, S)
  BY <1>1, <1>2, <1>4, SumByKey
<1> QED
  BY <1>5, <1>6, <1>7 DEF g

LEMMA GrowthAddsUp ==
  ASSUME NEW a \in FileType, OneClassPerName(a), NEW b \in FileType, OneClassPerName(b)
  PROVE  SumFunction(Growth(Histogram(a), Histogram(b))) = Histogram(b).total - Histogram(a).total
<1> DEFINE fa == [n \in Names |-> RowOf(Histogram(a), n).bytes]
           fb == [n \in Names |-> RowOf(Histogram(b), n).bytes]
           d  == Growth(Histogram(a), Histogram(b))
<1>1. /\ Histogram(a).total = SumFunctionOnSet(fa, Names)
      /\ Histogram(b).total = SumFunctionOnSet(fb, Names)
      /\ \A n \in Names : fa[n] \in Int /\ fb[n] \in Int
  BY NamesAddUp
<1>2. DOMAIN d = Names /\ \A n \in Names : d[n] = fb[n] - fa[n]
  BY DEF Growth
<1>3. SumFunction(d) = SumFunctionOnSet(d, Names)
  BY <1>2 DEF SumFunction
<1>4. IsFiniteSet(Names)
  BY ObjectsFinite
<1> HIDE DEF d, fa, fb
<1>5. SumFunctionOnSet(d, Names) = SumFunctionOnSet(fb, Names) - SumFunctionOnSet(fa, Names)
  BY <1>1, <1>2, <1>4, SumMinus
<1> QED
  BY <1>1, <1>3, <1>5 DEF d

\* noteObj: of the objects so far, the biggest.
Biggest(f, kept, objects) ==
  /\ kept \subseteq objects
  /\ Cardinality(kept) <= BiggestN
  /\ kept # objects => Cardinality(kept) = BiggestN
  /\ \A o \in kept, p \in objects \ kept : Shallow(f, p) <= Shallow(f, o)

LEMMA NotedIsBiggest ==
  ASSUME NEW f \in FileType, NEW objects \in SUBSET Objects, NEW kept, Biggest(f, kept, objects),
         NEW o \in Objects, o \notin objects
  PROVE  Biggest(f, Noted(f, kept, o), objects \cup {o})
<1> DEFINE Sz(x) == Shallow(f, x)
           s == Smallest(f, kept)
<1>1. \A x \in Objects : Sz(x) \in Nat
  BY SizesAreNumbers
<1>2. /\ kept \in SUBSET Objects /\ IsFiniteSet(kept) /\ Cardinality(kept) \in Nat /\ o \notin kept
      /\ BiggestN \in Nat \ {0} /\ IsFiniteSet(kept \cup {o})
      /\ Cardinality(kept \cup {o}) = Cardinality(kept) + 1
  <2>1. kept \in SUBSET Objects /\ o \notin kept
    BY DEF Biggest
  <2>2. IsFiniteSet(kept)
    BY <2>1, ObjectsFinite, FS_Subset
  <2> QED
    BY <2>1, <2>2, FS_CardinalityType, FS_AddElement, DumpAssumption
<1> HIDE DEF Sz
<1>3. CASE Cardinality(kept) < BiggestN
  <2>1. kept = objects /\ Noted(f, kept, o) = kept \cup {o}
    BY <1>2, <1>3 DEF Biggest, Noted
  <2> QED
    BY <2>1, <1>2, <1>3 DEF Biggest
<1>4. CASE ~(Cardinality(kept) < BiggestN)
  <2>1. Cardinality(kept) = BiggestN
    BY <1>2, <1>4 DEF Biggest
  <2>2. s \in kept /\ \A p \in kept : Sz(s) <= Sz(p)
    <3>1. kept # {}
      BY <2>1, <1>2, FS_EmptySet
    <3> DEFINE V == {Sz(x) : x \in kept}
    <3>2. V \in SUBSET Nat /\ V # {}
      BY <3>1, <1>1, <1>2
    <3>3. PICK v \in V : \A w \in V : v <= w
      <4> HIDE DEF V
      <4> QED
        BY <3>2, LeastOf
    <3>4. PICK x \in kept : v = Sz(x)
      OBVIOUS
    <3>5. \A p \in kept : Sz(x) <= Sz(p)
      BY <3>3, <3>4
    <3> QED
      BY <3>5 DEF Smallest, Sz
  <2>3. \A x \in kept, p \in objects \ kept : Sz(p) <= Sz(x)
    BY DEF Biggest, Sz
  <2> HIDE DEF s
  <2>4. CASE Sz(o) <= Sz(s)
    <3>1. Noted(f, kept, o) = kept
      BY <2>4, <1>4 DEF Noted, s, Sz
    <3>2. \A x \in kept : Sz(o) <= Sz(x)
      BY <2>2, <2>4, <1>1, <1>2
    <3>3. \A x \in kept, p \in (objects \cup {o}) \ kept : Sz(p) <= Sz(x)
      BY <3>2, <2>3
    <3> QED
      BY <3>1, <3>3, <2>1, <1>2 DEF Biggest, Sz
  <2>5. CASE ~(Sz(o) <= Sz(s))
    <3> DEFINE new2 == (kept \ {s}) \cup {o}
    <3>1. Noted(f, kept, o) = new2
      BY <2>5, <1>4 DEF Noted, s, Sz
    <3>2. Cardinality(new2) = BiggestN
      <4>1. IsFiniteSet(kept \ {s}) /\ Cardinality(kept \ {s}) = Cardinality(kept) - 1
        BY <2>2, <1>2, FS_RemoveElement
      <4>2. o \notin kept \ {s}
        BY <1>2
      <4>3. Cardinality((kept \ {s}) \cup {o}) = Cardinality(kept \ {s}) + 1
        BY <4>1, <4>2, FS_AddElement
      <4> QED
        BY <4>1, <4>3, <1>2, <2>1
    <3>3. Sz(s) <= Sz(o) /\ \A p \in objects \ kept : Sz(p) <= Sz(s) /\ Sz(p) <= Sz(o)
      BY <2>2, <2>3, <2>5, <1>1, <1>2
    <3>4. \A x \in new2, p \in (objects \cup {o}) \ new2 : Sz(p) <= Sz(x)
      BY <3>3, <2>2, <2>3
    <3>5. kept \subseteq objects
      BY DEF Biggest
    <3>6. new2 \subseteq objects \cup {o}
      BY <3>5
    <3> HIDE DEF new2
    <3> QED
      BY <3>1, <3>2, <3>4, <3>6, <1>2 DEF Biggest, Sz
  <2> QED
    BY <2>4, <2>5
<1> QED
  BY <1>3, <1>4

Keeping(f, objects) ==
  CHOOSE K : K = [i \in 0 .. NObjects |->
                    IF i = 0 THEN {}
                    ELSE IF i \in objects THEN Noted(f, K[i - 1], i) ELSE K[i - 1]]

\* noteObj, over all the objects.
LEMMA KeepsBiggest ==
  ASSUME NEW f \in FileType, NEW objects \in SUBSET Objects
  PROVE  Biggest(f, Keep(f, objects), objects)
<1> DEFINE V == SUBSET Objects
           Step(i, k) == IF i \in objects THEN Noted(f, k, i) ELSE k
           F == [i \in Nat |-> [k \in V |-> Step(i, k) \cap Objects]]
           Upto(i) == {o \in objects : o <= i}
<1>1. NObjects \in Nat /\ Objects = 1 .. NObjects
  BY ObjectsFinite
<1>2. F \in Steppers(V) /\ {} \in V
  BY DEF Steppers
<1>a. \A i \in Nat, k \in V : F[i][k] = Step(i, k) \cap Objects
  OBVIOUS
<1> HIDE DEF F, V
<1>3. PICK K \in [0 .. NObjects -> V] : K[0] = {} /\ \A i \in 1 .. NObjects : K[i] = F[i][K[i - 1]]
  <2> DEFINE n == NObjects
             x == {}
  <2>1. n \in Nat /\ x \in V /\ F \in Steppers(V)
    BY <1>1, <1>2
  <2> HIDE DEF n, x
  <2>2. Runs(V, x, n, F) # {}
    BY <2>1, StepByStep
  <2> QED
    BY <2>2 DEF n, x, Runs
<1>4. \A i \in 1 .. NObjects : i \in Nat /\ i - 1 \in Nat /\ i - 1 \in 0 .. NObjects
                              /\ K[i] = Step(i, K[i - 1]) \cap Objects
  <2> HIDE DEF Step
  <2> QED
    BY <1>1, <1>3, <1>a
<1>5. \A i \in 1 .. NObjects : K[i] = Step(i, K[i - 1])
  <2> SUFFICES ASSUME NEW i \in 1 .. NObjects PROVE K[i] = Step(i, K[i - 1])
    OBVIOUS
  <2>1. K[i - 1] \subseteq Objects /\ K[i] = Step(i, K[i - 1]) \cap Objects
    BY <1>4, <1>3 DEF V
  <2>2. Step(i, K[i - 1]) \subseteq K[i - 1] \cup {i}
    BY DEF Noted
  <2> QED
    BY <2>1, <2>2, <1>1
<1>6. K = [i \in 0 .. NObjects |-> IF i = 0 THEN {}
                                   ELSE IF i \in objects THEN Noted(f, K[i - 1], i) ELSE K[i - 1]]
  BY <1>1, <1>3, <1>5
<1>7. PICK g : g = Keeping(f, objects)
  OBVIOUS
<1>8. g = [i \in 0 .. NObjects |-> IF i = 0 THEN {}
                                   ELSE IF i \in objects THEN Noted(f, g[i - 1], i) ELSE g[i - 1]]
  BY <1>6, <1>7 DEF Keeping
<1>9. g[0] = {} /\ \A i \in 1 .. NObjects : g[i] = Step(i, g[i - 1])
  <2> DEFINE r(i) == IF i = 0 THEN {} ELSE IF i \in objects THEN Noted(f, g[i - 1], i) ELSE g[i - 1]
             k == [i \in 0 .. NObjects |-> r(i)]
  <2>1. \A i \in 0 .. NObjects : k[i] = r(i)
    OBVIOUS
  <2>2. g = k
    BY <1>8
  <2> HIDE DEF k
  <2>3. \A i \in 0 .. NObjects : g[i] = r(i)
    BY <2>1, <2>2
  <2>4. 0 \in 0 .. NObjects /\ \A i \in 1 .. NObjects : i \in 0 .. NObjects /\ i # 0
    BY <1>1
  <2> QED
    BY <2>3, <2>4
<1>10. Keep(f, objects) = g[NObjects]
  BY <1>7 DEF Keep, Keeping
<1> DEFINE Ok == {i \in Nat : i <= NObjects => Biggest(f, g[i], Upto(i))}
<1>b. \A o \in objects : o \in Int /\ 1 <= o /\ o <= NObjects
  BY <1>1
<1>c. NObjects \in Nat
  BY <1>1
<1>11. 0 \in Ok
  <2>1. Upto(0) = {}
    BY <1>b
  <2>2. BiggestN \in Nat /\ Cardinality({}) = 0
    BY FS_EmptySet, DumpAssumption
  <2>3. Biggest(f, {}, {})
    BY <2>2 DEF Biggest
  <2> HIDE DEF Upto
  <2> QED
    BY <2>1, <2>3, <1>9
<1>12. ASSUME NEW i \in Nat, i \in Ok PROVE i + 1 \in Ok
  <2> SUFFICES ASSUME i + 1 <= NObjects PROVE Biggest(f, g[i + 1], Upto(i + 1))
    OBVIOUS
  <2>1. i + 1 \in 1 .. NObjects /\ (i + 1) - 1 = i /\ i + 1 \in Objects /\ Biggest(f, g[i], Upto(i))
    BY <1>1, <1>12
  <2>2. g[i + 1] = Step(i + 1, g[i])
    BY <1>9, <2>1
  <2>3. CASE i + 1 \in objects
    <3>1. Upto(i + 1) = Upto(i) \cup {i + 1} /\ i + 1 \notin Upto(i) /\ Upto(i) \in SUBSET Objects
      BY <2>3, <1>b
    <3> HIDE DEF Upto
    <3>2. Biggest(f, Noted(f, g[i], i + 1), Upto(i) \cup {i + 1})
      BY <2>1, <3>1, NotedIsBiggest
    <3> QED
      BY <2>2, <2>3, <3>1, <3>2
  <2>4. CASE i + 1 \notin objects
    <3>1. Upto(i + 1) = Upto(i)
      BY <2>4, <1>b
    <3> HIDE DEF Upto
    <3> QED
      BY <2>1, <2>2, <2>4, <3>1
  <2> QED
    BY <2>3, <2>4
<1>13. Nat \subseteq Ok
  <2> HIDE DEF Ok
  <2> QED
    BY <1>11, <1>12, NatSetInduction
<1>14. Biggest(f, g[NObjects], Upto(NObjects)) /\ Upto(NObjects) = objects
  <2>1. Upto(NObjects) = objects
    BY <1>b
  <2>2. NObjects \in Ok /\ NObjects <= NObjects
    BY <1>1, <1>13
  <2> HIDE DEF Upto
  <2> QED
    BY <2>1, <2>2
<1> QED
  BY <1>10, <1>14

---------------------------------------------------------------------------
(* The histograms of a run.                                                *)

\* Before there is a histogram nothing is shown; in a diff, that of the first
\* dump is there first.
FiguresInv ==
  /\ file \in Files[job]
  /\ pc = "read" => hist = Unread
  /\ before # Unread => \E f \in Files["diff"] : before = Histogram(f)
  /\ job = "diff" /\ pc # "read" => before # Unread
  /\ job = "diff" => pc \in {"read", "shown"}

LEMMA FiguresInit == Init => FiguresInv
BY DEF Init, FiguresInv

LEMMA FiguresStep == ASSUME IInv, FiguresInv, [Next]_vars PROVE FiguresInv'
<1>1. CASE Build
  BY <1>1 DEF Build, FiguresInv
<1>2. CASE HistogramOnly
  BY <1>2 DEF HistogramOnly, FiguresInv
<1>3. CASE First
  <2>1. /\ job' = job /\ job = "diff" /\ pc = "read" /\ pc' = pc /\ hist' = hist
        /\ before' = Histogram(file) /\ file' \in Files["diff"] /\ file \in Files["diff"]
    BY <1>3 DEF First, gvars, algorithm, FiguresInv
  <2> QED
    BY <2>1 DEF FiguresInv
<1>4. CASE Diff
  BY <1>4 DEF Diff, FiguresInv
<1>5. CASE Analyse /\ UNCHANGED dump
  <2>1. pc \in {"dfs", "load", "sweep", "paths"} /\ pc' \in {"dfs", "load", "sweep", "paths", "done"}
    BY <1>5 DEF Analyse, Push, Pop, Searched, Load, Look, Climb, Settle, Again, Fixed,
                Visit, Found, Begin
  <2> QED
    BY <1>5, <2>1 DEF dump, FiguresInv
<1>6. CASE Report
  BY <1>6 DEF Report, FiguresInv
<1>7. CASE UNCHANGED vars
  BY <1>7 DEF vars, gvars, algorithm, dump, FiguresInv
<1> QED
  BY <1>1, <1>2, <1>3, <1>4, <1>5, <1>6, <1>7 DEF Next

LEMMA MinOfTwo ==
  ASSUME NEW a \in Nat, NEW b \in Nat
  PROVE  Min({a, b}) = IF a <= b THEN a ELSE b
<1>1. CASE a <= b
  <2>1. \A x \in {a, b} : (\A y \in {a, b} : x <= y) => x = a
    BY <1>1
  <2> QED
    BY <1>1, <2>1 DEF Min
<1>2. CASE ~(a <= b)
  <2>1. \A x \in {a, b} : (\A y \in {a, b} : x <= y) => x = b
    BY <1>2
  <2> QED
    BY <1>2, <2>1 DEF Min
<1> QED
  BY <1>1, <1>2

\* noteObj, result and analyzeHprofDiff: for any file, damaged or not, the
\* objects kept are the biggest, the rows add up to the total; and, as long as no
\* two classes of one dump share a name, the growth of the names is that of the
\* heap.
THEOREM FiguresTheorem ==
  ASSUME "diff" \in DOMAIN Files => \A f \in Files["diff"] : OneClassPerName(f)
  PROVE  Spec => []FiguresAddUp
<1>1. IInv /\ FiguresInv => FiguresAddUp
  <2> SUFFICES ASSUME IInv, FiguresInv, hist # Unread PROVE FiguresAddUp
    BY DEF FiguresAddUp
  <2> DEFINE read == ObjectsIn(file, Whole(file, {"cut", "odd", "long"}))
  <2>1. hist = Histogram(file) /\ file \in FileType /\ job \in DOMAIN Files /\ pc # "read"
    BY DEF IInv, WarnInv, FileInv, FiguresInv
  <2>2. read = ReadOf(file) /\ read \in SUBSET Objects /\ IsFiniteSet(read)
    BY <2>1, SizesAreNumbers DEF ReadOf
  <2> HIDE DEF read
  <2>3. Biggest(file, hist.biggest, read)
    BY <2>1, <2>2, RowsOf, KeepsBiggest
  <2>4. Cardinality(hist.biggest) = Min({BiggestN, Cardinality(read)})
    <3>1. /\ Cardinality(read) \in Nat /\ Cardinality(hist.biggest) \in Nat /\ BiggestN \in Nat
          /\ Cardinality(hist.biggest) <= Cardinality(read)
      BY <2>2, <2>3, FS_Subset, FS_CardinalityType, DumpAssumption DEF Biggest
    <3>2. Min({BiggestN, Cardinality(read)})
            = IF BiggestN <= Cardinality(read) THEN BiggestN ELSE Cardinality(read)
      BY <3>1, MinOfTwo
    <3> QED
      BY <3>1, <3>2, <2>3 DEF Biggest
  <2>5. \A o \in hist.biggest, p \in read \ hist.biggest : Shallow(file, p) <= Shallow(file, o)
    BY <2>3 DEF Biggest
  <2>6. hist.total = SumFunction([c \in DOMAIN hist.rows |-> hist.rows[c].bytes])
    BY <2>1, RowsAddUp
  <2>7. job = "diff" => SumFunction(Growth(before, hist)) = hist.total - before.total
    <3> SUFFICES ASSUME job = "diff"
                 PROVE  SumFunction(Growth(before, hist)) = hist.total - before.total
      OBVIOUS
    <3>1. PICK f \in Files["diff"] : before = Histogram(f)
      BY <2>1 DEF FiguresInv
    <3>2. f \in FileType /\ OneClassPerName(f) /\ OneClassPerName(file)
      BY <2>1, FilesAssumption DEF FiguresInv
    <3> QED
      BY <2>1, <3>1, <3>2, GrowthAddsUp
  <2> QED
    BY <2>4, <2>5, <2>6, <2>7 DEF FiguresAddUp, read
<1>2. IInv /\ FiguresInv /\ [Next]_vars => IInv' /\ FiguresInv'
  BY NextIInv, FiguresStep
<1> QED
  BY <1>1, <1>2, InitIInv, FiguresInit, PTL DEF Spec

---------------------------------------------------------------------------
(* The dominator tree, and what an object keeps alive.                     *)

\* The tree that the sweeps leave: idom leads away from the start of the order,
\* and is the closest of all that a node is lost with.
DomTree ==
  /\ succ \in [Nodes -> SUBSET Objects] /\ idom \in [Nodes -> Nodes \cup {None}]
  /\ Reachable \subseteq Nodes /\ Root \in Reachable
  /\ \A v \in Nodes : idom[v] # None <=> v \in Reachable
  /\ order \in Seq(Nodes) /\ \A i \in DOMAIN order : order[i] \in Reachable
  /\ \A i, j \in DOMAIN order : order[i] = order[j] => i = j
  /\ \A v \in Reachable : Po(v) \in DOMAIN order /\ order[Po(v)] = v
  /\ \A v \in Reachable, d \in Nodes : v \in Freed(d) /\ v # d => d \in Reachable /\ Po(d) > Po(v)
  /\ \A v \in Reachable \ {Root} :
       /\ idom[v] \in Reachable /\ idom[v] # v /\ v \in Freed(idom[v])
       /\ \A d \in Nodes \ {v} : v \in Freed(d) => idom[v] \in Freed(d)

LEMMA DoneIsTree == ASSUME GInv, TreeInv, pc = "done" PROVE DomTree
<1>1. /\ succ \in [Nodes -> SUBSET Objects] /\ idom \in [Nodes -> Nodes \cup {None}]
      /\ order \in Seq(Nodes)
  BY DEF GInv, GraphTypeOK
<1>2. stack = <<>> /\ visiting = Reachable
  BY AllVisited DEF GInv, NodeInv
<1>3. Reachable \subseteq Nodes /\ Root \in Reachable
  BY <1>1, ReachableClosed DEF Closed
<1>4. \A v \in Nodes : idom[v] # None <=> v \in Reachable
  BY DEF GInv, GarbageIsExact
<1>5. /\ \A i \in DOMAIN order : order[i] \in Reachable
      /\ \A i, j \in DOMAIN order : order[i] = order[j] => i = j
  BY <1>2 DEF TreeInv, OnceInv
<1>6. ASSUME NEW v \in Reachable PROVE Po(v) \in DOMAIN order /\ order[Po(v)] = v
  <2>1. \E i \in DOMAIN order : order[i] = v
    BY <1>2 DEF GInv, SearchInv
  <2> QED
    BY <2>1 DEF Po
<1>7. ASSUME NEW v \in Reachable, NEW d \in Nodes, v \in Freed(d), v # d
      PROVE  d \in Reachable /\ Po(d) > Po(v)
  <2>1. PICK i \in DOMAIN order : order[i] = v /\ i = Po(v)
    BY <1>6
  <2>2. PICK j \in DOMAIN order : j > i /\ order[j] = d
    BY <2>1, <1>2, <1>7 DEF TreeInv, PostInv
  <2>3. d \in Reachable
    BY <2>2, <1>5
  <2>4. Po(d) = j
    BY <2>2, <2>3, <1>5, <1>6
  <2> QED
    BY <2>1, <2>2, <2>3, <2>4
<1>8. ASSUME NEW v \in Reachable \ {Root}
      PROVE  /\ idom[v] \in Reachable /\ idom[v] # v /\ v \in Freed(idom[v])
             /\ \A d \in Nodes \ {v} : v \in Freed(d) => idom[v] \in Freed(d)
  <2>1. /\ idom[v] \in Nodes \ {v} /\ v \in Freed(idom[v])
        /\ \A d \in Nodes \ {v} : v \in Freed(d) => idom[v] \in Freed(d)
    BY DEF TreeInv, DominatorsAreExact
  <2>2. idom[v] \in Reachable
    BY <2>1, <1>7
  <2> QED
    BY <2>1, <2>2
<1> QED
  BY <1>1, <1>3, <1>4, <1>5, <1>6, <1>7, <1>8 DEF DomTree

\* Who is lost with u is lost with what u is lost with.
LEMMA FreedTransitive ==
  ASSUME succ \in [Nodes -> SUBSET Objects], NEW u \in Nodes, NEW x \in Nodes,
         u \in Freed(x), NEW w \in Freed(u)
  PROVE  w \in Freed(x)
<1>1. w \in Reachable
  BY DEF Freed
<1>2. PICK S \in SUBSET (Nodes \ {x}) : ClosedWithout(S, x) /\ u \notin S
  BY DEF Freed
<1>3. PICK T \in SUBSET (Nodes \ {u}) : ClosedWithout(T, u) /\ w \notin T
  BY DEF Freed
<1>4. CASE x = Root
  <2>1. ClosedWithout({}, x) /\ {} \in SUBSET (Nodes \ {x})
    BY <1>4 DEF ClosedWithout
  <2> QED
    BY <2>1, <1>1 DEF Freed
<1>5. CASE x # Root
  <2>1. u # Root
    BY <1>2, <1>5 DEF ClosedWithout
  <2>2. ClosedWithout(S \cap T, x)
    <3>1. Root \in S \cap T
      BY <2>1, <1>2, <1>3, <1>5 DEF ClosedWithout
    <3>2. ASSUME NEW v \in S \cap T PROVE succ[v] \ {x} \subseteq S \cap T
      <4>1. succ[v] \ {x} \subseteq S /\ succ[v] \ {u} \subseteq T
        BY <1>2, <1>3 DEF ClosedWithout
      <4> QED
        BY <4>1, <1>2
    <3> QED
      BY <3>1, <3>2 DEF ClosedWithout
  <2>3. S \cap T \in SUBSET (Nodes \ {x}) /\ w \notin S \cap T
    BY <1>2, <1>3
  <2> QED
    BY <2>2, <2>3, <1>1 DEF Freed
<1> QED
  BY <1>4, <1>5

\* Induction from the root of the tree downwards.
LEMMA TreeInduction ==
  ASSUME DomTree, NEW Q, Root \in Q, \A v \in Reachable \ {Root} : idom[v] \in Q => v \in Q
  PROVE  Reachable \subseteq Q
<1> SUFFICES ASSUME NEW v \in Reachable, v \notin Q PROVE FALSE
  OBVIOUS
<1> DEFINE n == Len(order)
           M == {n - Po(x) : x \in Reachable \ Q}
<1>1. n \in Nat /\ \A x \in Reachable : Po(x) \in 1 .. n
  BY DEF DomTree
<1>2. M \in SUBSET Nat /\ M # {}
  BY <1>1
<1>3. PICK k \in M : \A y \in M : k <= y
  <2> HIDE DEF M
  <2> QED
    BY <1>2, LeastOf
<1>4. PICK x \in Reachable \ Q : k = n - Po(x)
  OBVIOUS
<1>5. idom[x] \in Reachable \ Q /\ idom[x] # x /\ x \in Freed(idom[x])
  BY <1>4 DEF DomTree
<1>6. Po(idom[x]) > Po(x)
  BY <1>4, <1>5 DEF DomTree
<1>7. n - Po(idom[x]) \in M /\ n - Po(idom[x]) < k
  BY <1>1, <1>4, <1>5, <1>6
<1>8. k \in Nat /\ k <= n - Po(idom[x])
  <2> HIDE DEF M, n
  <2> QED
    BY <1>2, <1>3, <1>7
<1>9. n - Po(idom[x]) \in Int
  BY <1>1, <1>5
<1> QED
  <2> HIDE DEF M, n
  <2> QED
    BY <1>7, <1>8, <1>9

\* No two nodes are each lost with the other.
LEMMA FreedOnce ==
  ASSUME DomTree, NEW x \in Nodes, NEW u \in Nodes, x # u, x \in Freed(u)
  PROVE  u \notin Freed(x)
<1> SUFFICES ASSUME u \in Freed(x) PROVE FALSE
  OBVIOUS
<1>1. x \in Reachable /\ u \in Reachable
  BY DEF Freed
<1>2. Po(u) > Po(x) /\ Po(x) > Po(u) /\ Po(x) \in Int /\ Po(u) \in Int
  BY <1>1 DEF DomTree
<1> QED
  BY <1>2

\* Of two that w is lost with one is lost with the other.
LEMMA FreedChain ==
  ASSUME DomTree, NEW x \in Nodes, NEW u \in Nodes, NEW w \in Freed(x), w \in Freed(u)
  PROVE  x \in Freed(u) \/ u \in Freed(x)
<1> DEFINE Q == {v \in Reachable : v \in Freed(x) /\ v \in Freed(u) =>
                                     x \in Freed(u) \/ u \in Freed(x)}
<1>0. succ \in [Nodes -> SUBSET Objects] /\ Root \in Reachable /\ Reachable \subseteq Nodes
  BY DEF DomTree
<1>1. Root \in Q
  BY <1>0, FreedFacts
<1>2. ASSUME NEW v \in Reachable \ {Root}, idom[v] \in Q PROVE v \in Q
  <2> SUFFICES ASSUME v \in Freed(x), v \in Freed(u) PROVE x \in Freed(u) \/ u \in Freed(x)
    OBVIOUS
  <2>1. CASE v # x /\ v # u
    <3>1. idom[v] \in Freed(x) /\ idom[v] \in Freed(u)
      BY <2>1 DEF DomTree
    <3> QED
      BY <3>1, <1>2
  <2> QED
    BY <2>1
<1>3. Reachable \subseteq Q
  <2> HIDE DEF Q
  <2> QED
    BY <1>1, <1>2, TreeInduction
<1>4. w \in Reachable
  BY DEF Freed
<1> QED
  BY <1>3, <1>4

\* Between x and what is lost with it there is a child of x in the tree.
LEMMA ChildBetween ==
  ASSUME DomTree, NEW x \in Nodes \ {Root}, NEW w \in Freed(x) \ {x}
  PROVE  \E u \in Reachable \ {Root} : idom[u] = x /\ w \in Freed(u)
<1> DEFINE Has(v) == \E u \in Reachable \ {Root} : idom[u] = x /\ v \in Freed(u)
           Q == {v \in Reachable : v \in Freed(x) \ {x} => Has(v)}
<1>0. succ \in [Nodes -> SUBSET Objects] /\ Root \in Reachable /\ Reachable \subseteq Nodes
  BY DEF DomTree
<1>1. Root \in Q
  BY <1>0, FreedFacts
<1>2. ASSUME NEW v \in Reachable \ {Root}, idom[v] \in Q PROVE v \in Q
  <2> SUFFICES ASSUME v \in Freed(x) \ {x} PROVE Has(v)
    OBVIOUS
  <2>1. CASE idom[v] = x
    <3>1. v \in Freed(v)
      BY <1>0, FreedFacts
    <3> QED
      BY <2>1, <3>1
  <2>2. CASE idom[v] # x
    <3>1. idom[v] \in Freed(x) \ {x} /\ v \in Freed(idom[v]) /\ idom[v] \in Nodes
      BY <2>2 DEF DomTree
    <3>2. PICK u \in Reachable \ {Root} : idom[u] = x /\ idom[v] \in Freed(u)
      BY <3>1, <1>2
    <3>3. v \in Freed(u)
      BY <3>1, <3>2, <1>0, FreedTransitive
    <3> QED
      BY <3>2, <3>3
  <2> QED
    BY <2>1, <2>2
<1>3. Reachable \subseteq Q
  <2> HIDE DEF Q
  <2> QED
    BY <1>1, <1>2, TreeInduction
<1>4. w \in Reachable
  BY DEF Freed
<1> QED
  BY <1>3, <1>4

---------------------------------------------------------------------------
(* retainedSizes.                                                          *)

\* What the first k of the order hand over to v: what their children in the tree
\* keep alive.
Kin(k, v) ==
  {w \in Reachable : \E i \in 1 .. k : /\ order[i] # Root /\ idom[order[i]] = v
                                       /\ w \in Freed(order[i])}

\* When it is the turn of x it has all that it keeps alive.
LEMMA KinIsFreed ==
  ASSUME DomTree, NEW x \in Reachable \ {Root}, NEW k \in 0 .. Len(order), k >= Po(x) - 1
  PROVE  Freed(x) = {x} \cup Kin(k, x) /\ x \notin Kin(k, x)
<1>0. succ \in [Nodes -> SUBSET Objects] /\ Root \in Reachable /\ Reachable \subseteq Nodes
  BY DEF DomTree
<1>1. ASSUME NEW u \in Reachable \ {Root}, idom[u] = x
      PROVE  u \in Freed(x) /\ u # x /\ Po(u) \in 1 .. k /\ x \notin Freed(u)
  <2>1. u \in Freed(x) /\ u # x
    BY <1>1 DEF DomTree
  <2>2. Po(x) > Po(u) /\ Po(u) \in 1 .. Len(order) /\ Po(x) \in 1 .. Len(order)
    BY <2>1, <1>0 DEF DomTree
  <2>3. x \notin Freed(u)
    BY <2>1, <1>0, FreedOnce
  <2> QED
    BY <2>1, <2>2, <2>3
<1>2. ASSUME NEW w \in Freed(x) PROVE w \in {x} \cup Kin(k, x)
  <2> SUFFICES ASSUME w # x PROVE w \in Kin(k, x)
    OBVIOUS
  <2>1. PICK u \in Reachable \ {Root} : idom[u] = x /\ w \in Freed(u)
    BY <1>0, ChildBetween
  <2>2. Po(u) \in 1 .. k /\ order[Po(u)] = u
    BY <2>1, <1>1 DEF DomTree
  <2>3. w \in Reachable
    BY DEF Freed
  <2> QED
    BY <2>1, <2>2, <2>3 DEF Kin
<1>3. x \in Freed(x)
  BY <1>0, FreedFacts
<1>4. ASSUME NEW w \in Kin(k, x) PROVE w \in Freed(x) /\ w # x
  <2>1. PICK i \in 1 .. k : order[i] # Root /\ idom[order[i]] = x /\ w \in Freed(order[i])
    BY DEF Kin
  <2>2. order[i] \in Reachable \ {Root}
    BY <2>1 DEF DomTree
  <2>3. order[i] \in Freed(x) /\ x \notin Freed(order[i])
    BY <2>1, <2>2, <1>1
  <2> QED
    BY <2>1, <2>2, <2>3, <1>0, FreedTransitive
<1> QED
  BY <1>2, <1>3, <1>4

\* The turn of order[k].
LEMMA KinGrows ==
  ASSUME DomTree, NEW k \in 1 .. Len(order)
  PROVE  /\ order[k] = Root => \A v \in Nodes : Kin(k, v) = Kin(k - 1, v)
         /\ order[k] # Root =>
              /\ \A v \in Nodes : v # idom[order[k]] => Kin(k, v) = Kin(k - 1, v)
              /\ Kin(k, idom[order[k]]) = Kin(k - 1, idom[order[k]]) \cup Freed(order[k])
              /\ Kin(k - 1, idom[order[k]]) \cap Freed(order[k]) = {}
<1>0. succ \in [Nodes -> SUBSET Objects] /\ Root \in Reachable /\ Reachable \subseteq Nodes
  BY DEF DomTree
<1>a. 1 .. k = (1 .. k - 1) \cup {k} /\ k \notin 1 .. k - 1
  BY DEF DomTree
<1>1. ASSUME order[k] = Root, NEW v \in Nodes PROVE Kin(k, v) = Kin(k - 1, v)
  BY <1>1, <1>a DEF Kin
<1>2. ASSUME NEW v \in Nodes, v # idom[order[k]] PROVE Kin(k, v) = Kin(k - 1, v)
  BY <1>2, <1>a DEF Kin
<1>3. ASSUME order[k] # Root
      PROVE  /\ Kin(k, idom[order[k]]) = Kin(k - 1, idom[order[k]]) \cup Freed(order[k])
             /\ Kin(k - 1, idom[order[k]]) \cap Freed(order[k]) = {}
  <2> DEFINE x == order[k]
             p == idom[x]
  <2>1. x \in Reachable \ {Root} /\ Freed(x) \subseteq Reachable
    BY <1>3, <1>0, FreedFacts DEF DomTree
  <2>2. p \in Nodes /\ x \in Freed(p) /\ p # x
    BY <2>1, <1>0 DEF DomTree
  <2>3. Kin(k, p) = Kin(k - 1, p) \cup Freed(x)
    BY <1>3, <2>1, <1>a DEF Kin
  <2>4. ASSUME NEW w \in Kin(k - 1, p), w \in Freed(x) PROVE FALSE
    <3>1. PICK i \in 1 .. k - 1 : order[i] # Root /\ idom[order[i]] = p /\ w \in Freed(order[i])
      BY DEF Kin
    <3> DEFINE u == order[i]
    <3>2. u \in Reachable \ {Root} /\ u # x /\ i \in DOMAIN order /\ k \in DOMAIN order
      BY <3>1 DEF DomTree
    <3>3. u \in Freed(p) /\ p # u
      BY <3>1, <3>2 DEF DomTree
    <3>4. x \in Freed(u) \/ u \in Freed(x)
      BY <3>1, <3>2, <2>1, <2>4, <1>0, FreedChain
    <3>5. CASE x \in Freed(u)
      <4>1. p \in Freed(u)
        BY <3>5, <3>2, <2>1, <1>0 DEF DomTree
      <4> QED
        BY <4>1, <3>2, <3>3, <2>2, <1>0, FreedOnce
    <3>6. CASE u \in Freed(x)
      <4>1. p \in Freed(x)
        BY <3>6, <3>1, <3>2, <2>1, <1>0 DEF DomTree
      <4> QED
        BY <4>1, <2>1, <2>2, <1>0, FreedOnce
    <3> QED
      BY <3>4, <3>5, <3>6
  <2> QED
    BY <2>3, <2>4
<1> QED
  BY <1>1, <1>2, <1>3

\* The sizes, as a function.
NodeSize == [v \in Objects \cup {Root} |-> Size(v)]

\* Every set of nodes has a size.
LEMMA NodeSizes ==
  ASSUME file \in FileType
  PROVE  /\ \A v \in Nodes : NodeSize[v] \in Nat
         /\ \A S : Sizes(S) = SumFunctionOnSet(NodeSize, S)
         /\ \A T \in SUBSET Nodes : Sizes(T) \in Nat
<1>1. ASSUME NEW v \in Nodes PROVE NodeSize[v] \in Nat
  <2>1. v \in Objects => file.class[v] \in Classes /\ Fields[file.class[v]] \in Nat
    BY SizesAreNumbers, DumpAssumption DEF Classes
  <2>2. Size(v) \in Nat
    BY <2>1 DEF Size, Nodes
  <2> QED
    BY <2>2 DEF NodeSize, Nodes
<1>2. \A S : Sizes(S) = SumFunctionOnSet(NodeSize, S)
  BY DEF Sizes, NodeSize
<1> DEFINE f == NodeSize
           Q == {T \in SUBSET Nodes : SumFunctionOnSet(f, T) \in Nat}
<1>3. IsFiniteSet(Nodes) /\ \A x \in Nodes : f[x] \in Nat
  BY <1>1, NodesFinite
<1> HIDE DEF f
<1>4. \A x \in Nodes : f[x] \in Int
  BY <1>3
<1>5. /\ SumFunctionOnSet(f, {}) = 0
      /\ \A T \in SUBSET Nodes : SumFunctionOnSet(f, T) \in Int
      /\ \A T \in SUBSET Nodes, x \in Nodes : x \notin T =>
           SumFunctionOnSet(f, T \cup {x}) = f[x] + SumFunctionOnSet(f, T)
  BY <1>3, <1>4, SumLaws
<1>6. {} \in Q
  BY <1>5
<1>7. ASSUME NEW T \in SUBSET Nodes, NEW x \in Nodes, x \notin T, T \in Q
      PROVE  T \cup {x} \in Q
  <2>1. SumFunctionOnSet(f, T \cup {x}) = f[x] + SumFunctionOnSet(f, T)
    BY <1>5, <1>7
  <2>2. f[x] \in Nat /\ SumFunctionOnSet(f, T) \in Nat
    BY <1>3, <1>7
  <2> QED
    BY <2>1, <2>2
<1>8. \A T \in SUBSET Nodes : T \in Q
  <2> HIDE DEF Q
  <2> QED
    BY <1>3, <1>6, <1>7, SubsetInduction
<1> QED
  BY <1>1, <1>2, <1>8 DEF f

\* The turn of order[k].
HandOver(k, r) == IF order[k] = Root \/ idom[order[k]] = None THEN r
                  ELSE [r EXCEPT ![idom[order[k]]] = @ + r[order[k]]]
Retaining ==
  CHOOSE R : R = [k \in 0 .. Len(order) |-> IF k = 0 THEN NodeSize ELSE HandOver(k, R[k - 1])]

\* retainedSizes, unfolded.
LEMMA RetainedRuns ==
  ASSUME DomTree, file \in FileType
  PROVE  \E R \in [0 .. Len(order) -> [Nodes -> Int]] :
           /\ R[0] = NodeSize /\ Retained = R[Len(order)]
           /\ \A k \in 1 .. Len(order) : R[k] = HandOver(k, R[k - 1])
<1> DEFINE V == [Nodes -> Int]
           F == [k \in Nat |-> [r \in V |-> IF k \in 1 .. Len(order) THEN HandOver(k, r) ELSE r]]
           n == Len(order)
           x == NodeSize
<1>1. n \in Nat /\ order \in Seq(Nodes) /\ idom \in [Nodes -> Nodes \cup {None}]
  BY DEF DomTree
<1>2. ASSUME NEW k \in 1 .. n, NEW r \in V PROVE HandOver(k, r) \in V
  <2>1. order[k] \in Nodes /\ r[order[k]] \in Int
    BY <1>1
  <2>2. CASE order[k] = Root \/ idom[order[k]] = None
    BY <2>2 DEF HandOver
  <2>3. CASE ~(order[k] = Root \/ idom[order[k]] = None)
    <3>1. idom[order[k]] \in Nodes
      BY <2>1, <2>3, <1>1
    <3> QED
      BY <2>1, <2>3, <3>1 DEF HandOver
  <2> QED
    BY <2>2, <2>3
<1>3. F \in Steppers(V) /\ x \in V
  <2>1. x \in V
    <3>1. \A v \in Nodes : NodeSize[v] \in Int
      BY NodeSizes
    <3> QED
      BY <3>1 DEF NodeSize, Nodes
  <2> HIDE DEF V
  <2> QED
    BY <1>2, <2>1 DEF Steppers
<1>4. \A k \in 1 .. n, r \in V : F[k][r] = HandOver(k, r)
  BY <1>1
<1> HIDE DEF F, V, n, x
<1>5. PICK R \in [0 .. n -> V] : R[0] = x /\ \A k \in 1 .. n : R[k] = F[k][R[k - 1]]
  <2>1. n \in Nat /\ x \in V /\ F \in Steppers(V)
    BY <1>1, <1>3
  <2>2. Runs(V, x, n, F) # {}
    BY <2>1, StepByStep
  <2> QED
    BY <2>2 DEF Runs
<1>6. \A k \in 1 .. n : k - 1 \in 0 .. n /\ R[k] = HandOver(k, R[k - 1])
  BY <1>1, <1>4, <1>5
<1>7. R = [k \in 0 .. n |-> IF k = 0 THEN x ELSE HandOver(k, R[k - 1])]
  BY <1>1, <1>5, <1>6
<1>8. PICK g : g = Retaining
  OBVIOUS
<1>9. g = [k \in 0 .. n |-> IF k = 0 THEN x ELSE HandOver(k, g[k - 1])]
  BY <1>7, <1>8 DEF Retaining, n, x
<1>10. g[0] = x /\ \A k \in 1 .. n : g[k] = HandOver(k, g[k - 1])
  <2> DEFINE r(k) == IF k = 0 THEN x ELSE HandOver(k, g[k - 1])
             h == [k \in 0 .. n |-> r(k)]
  <2>1. \A k \in 0 .. n : h[k] = r(k)
    OBVIOUS
  <2>2. g = h
    BY <1>9
  <2> HIDE DEF h
  <2>3. \A k \in 0 .. n : g[k] = r(k)
    BY <2>1, <2>2
  <2>4. 0 \in 0 .. n /\ \A k \in 1 .. n : k \in 0 .. n /\ k # 0
    BY <1>1
  <2> QED
    BY <2>3, <2>4
<1>11. \A k \in 0 .. n : g[k] = R[k]
  <2> DEFINE Ok == {k \in Nat : k <= n => g[k] = R[k]}
  <2>1. 0 \in Ok
    BY <1>5, <1>10
  <2>2. ASSUME NEW k \in Nat, k \in Ok PROVE k + 1 \in Ok
    <3>1. k + 1 <= n => k + 1 \in 1 .. n /\ (k + 1) - 1 = k /\ k <= n
      BY <1>1
    <3> QED
      BY <2>2, <3>1, <1>6, <1>10
  <2>3. Nat \subseteq Ok
    <3> HIDE DEF Ok
    <3> QED
      BY <2>1, <2>2, NatSetInduction
  <2> QED
    BY <2>3, <1>1
<1>12. Retained = g[n]
  BY <1>8 DEF Retained, Retaining, HandOver, NodeSize, n
<1>13. Retained = R[n]
  BY <1>1, <1>11, <1>12
<1> QED
  BY <1>5, <1>6, <1>13 DEF n, x, V

\* retainedSizes: "the memory freed if v were collected".
LEMMA RetainedIsHeld ==
  ASSUME DomTree, file \in FileType
  PROVE  \A v \in Reachable \ {Root} : Retained[v] = Sizes(Freed(v))
<1> DEFINE n == Len(order)
           f == NodeSize
           Sm(T) == SumFunctionOnSet(f, T)
<1>0. /\ n \in Nat /\ DOMAIN order = 1 .. n /\ Root \in Reachable /\ Reachable \subseteq Nodes
      /\ idom \in [Nodes -> Nodes \cup {None}] /\ succ \in [Nodes -> SUBSET Objects]
  BY DEF DomTree
<1>1. /\ \A x \in Nodes : f[x] \in Int
      /\ \A T : Sizes(T) = Sm(T)
      /\ \A T \in SUBSET Nodes : Sm(T) \in Int
  BY NodeSizes
<1>2. PICK R \in [0 .. n -> [Nodes -> Int]] :
        /\ R[0] = f /\ Retained = R[n]
        /\ \A k \in 1 .. n : R[k] = HandOver(k, R[k - 1])
  BY RetainedRuns
<1>3. \A k, v : Kin(k, v) \in SUBSET Nodes
  BY <1>0 DEF Kin
<1> HIDE DEF f
<1>4. ASSUME NEW A \in SUBSET Nodes, NEW C \in SUBSET Nodes, A \cap C = {}
      PROVE  Sm(A \cup C) = Sm(A) + Sm(C)
  BY <1>1, <1>4, NodesFinite, SumUnion
<1>5. ASSUME NEW A \in SUBSET Nodes, NEW x \in Nodes, x \notin A
      PROVE  Sm({x} \cup A) = f[x] + Sm(A)
  <2>1. Sm(A \cup {x}) = f[x] + Sm(A)
    BY <1>1, <1>5, NodesFinite, SumLaws
  <2>2. A \cup {x} = {x} \cup A
    OBVIOUS
  <2> HIDE DEF Sm
  <2> QED
    BY <2>1, <2>2
<1>6. Sm({}) = 0
  BY <1>1, NodesFinite, SumLaws
<1> HIDE DEF Sm
<1> DEFINE Ok == {k \in Nat : k <= n => \A v \in Nodes : R[k][v] = f[v] + Sm(Kin(k, v))}
<1>7. 0 \in Ok
  <2>1. \A v : Kin(0, v) = {}
    BY DEF Kin
  <2>2. ASSUME NEW v \in Nodes PROVE R[0][v] = f[v] + Sm(Kin(0, v))
    <3>1. Sm(Kin(0, v)) = 0 /\ R[0][v] = f[v] /\ f[v] \in Int
      BY <2>1, <1>1, <1>2, <1>6
    <3> QED
      BY <3>1
  <2> QED
    BY <2>2
<1>8. ASSUME NEW k \in Nat, k \in Ok PROVE k + 1 \in Ok
  <2> SUFFICES ASSUME k + 1 <= n, NEW v \in Nodes
               PROVE  R[k + 1][v] = f[v] + Sm(Kin(k + 1, v))
    OBVIOUS
  <2> DEFINE m == k + 1
             x == order[m]
             p == idom[x]
  <2>1. /\ m \in 1 .. n /\ m - 1 = k /\ k \in 0 .. n /\ m \in DOMAIN order
        /\ \A w \in Nodes : R[k][w] = f[w] + Sm(Kin(k, w))
    BY <1>0, <1>8
  <2>2. R[m] = HandOver(m, R[k]) /\ R[k] \in [Nodes -> Int]
    BY <2>1, <1>2
  <2>3. x \in Reachable
    BY <2>1 DEF DomTree
  <2> HIDE DEF m
  <2>4. CASE x = Root
    <3>1. R[m] = R[k]
      BY <2>2, <2>4 DEF HandOver
    <3>2. Kin(m, v) = Kin(k, v)
      BY <2>1, <2>4, KinGrows
    <3> QED
      BY <3>1, <3>2, <2>1 DEF m
  <2>5. CASE x # Root
    <3>1. p \in Nodes /\ p # None /\ x \in Nodes
      BY <2>3, <2>5, <1>0 DEF DomTree
    <3>2. R[m] = [R[k] EXCEPT ![p] = @ + R[k][x]]
      BY <2>2, <2>5, <3>1 DEF HandOver
    <3>3. R[m][p] = R[k][p] + R[k][x] /\ (v # p => R[m][v] = R[k][v])
      BY <2>2, <3>1, <3>2
    <3>4. R[k][x] = Sm(Freed(x)) /\ Freed(x) \in SUBSET Nodes
      <4>1. Po(x) = m
        BY <2>1, <2>3 DEF DomTree
      <4>2. Freed(x) = {x} \cup Kin(k, x) /\ x \notin Kin(k, x)
        BY <2>1, <2>3, <2>5, <4>1, KinIsFreed
      <4>3. Sm(Freed(x)) = f[x] + Sm(Kin(k, x))
        BY <4>2, <1>3, <1>5, <3>1
      <4> QED
        BY <4>2, <4>3, <3>1, <2>1, <1>3
    <3>5. CASE v # p
      <4>1. Kin(m, v) = Kin(k, v)
        BY <2>1, <2>5, <3>5, KinGrows
      <4> QED
        BY <4>1, <3>3, <3>5, <2>1 DEF m
    <3>6. CASE v = p
      <4>1. Kin(m, p) = Kin(k, p) \cup Freed(x) /\ Kin(k, p) \cap Freed(x) = {}
        BY <2>1, <2>5, KinGrows
      <4>2. Sm(Kin(m, p)) = Sm(Kin(k, p)) + Sm(Freed(x))
        BY <4>1, <1>3, <1>4, <3>4
      <4>3. R[k][p] = f[p] + Sm(Kin(k, p))
        BY <2>1, <3>1
      <4>4. Sm(Kin(k, p)) \in Int /\ Sm(Freed(x)) \in Int /\ f[p] \in Int
        BY <1>1, <1>3, <3>1, <3>4
      <4>5. R[m][p] = f[p] + Sm(Kin(m, p))
        <5> HIDE DEF p, x
        <5> QED
          BY <3>3, <3>4, <4>2, <4>3, <4>4
      <4> QED
        BY <4>5, <3>6 DEF m
    <3> QED
      BY <3>5, <3>6
  <2> QED
    BY <2>4, <2>5
<1>9. Nat \subseteq Ok
  <2> HIDE DEF Ok
  <2> QED
    BY <1>7, <1>8, NatSetInduction
<1>10. ASSUME NEW v \in Reachable \ {Root} PROVE Retained[v] = Sizes(Freed(v))
  <2>1. R[n][v] = f[v] + Sm(Kin(n, v))
    BY <1>0, <1>9
  <2>2. Po(v) \in 1 .. n
    BY <1>0 DEF DomTree
  <2>3. n \in 0 .. Len(order) /\ n >= Po(v) - 1
    BY <1>0, <2>2
  <2>4. Freed(v) = {v} \cup Kin(n, v) /\ v \notin Kin(n, v)
    BY <2>3, KinIsFreed
  <2>5. Sm(Freed(v)) = f[v] + Sm(Kin(n, v))
    BY <2>4, <1>0, <1>3, <1>5
  <2> QED
    BY <2>1, <2>5, <1>1, <1>2
<1> QED
  BY <1>10

---------------------------------------------------------------------------
(* The rows, and the leak pattern.                                         *)

\* Nothing refers to an object that has no node.
NodesInv == nodes \subseteq Objects /\ \A v \in Nodes : succ[v] \subseteq nodes

\* What is not garbage is what can be reached, and retains what it is lost with.
LEMMA LiveIsReachable ==
  ASSUME DomTree, NodesInv
  PROVE  /\ Live = Reachable \ {Root} /\ Live = nodes \cap Reachable /\ IsFiniteSet(Live)
         /\ Live \subseteq Objects /\ Live \subseteq Nodes /\ Root \notin Live
<1>0. /\ Root \in Reachable /\ Reachable \subseteq Nodes /\ Root \notin Objects
      /\ \A v \in Nodes : idom[v] # None <=> v \in Reachable
  BY NodesAssumption DEF DomTree
<1>1. Closed(nodes \cup {Root}) /\ nodes \cup {Root} \in SUBSET Nodes
  BY DEF Closed, NodesInv, Nodes
<1>2. Reachable \subseteq nodes \cup {Root}
  BY <1>1, ReachableLeast
<1>3. nodes \subseteq Objects /\ nodes \subseteq Nodes
  BY DEF NodesInv, Nodes
<1>4. Live = nodes \cap Reachable
  BY <1>0, <1>3 DEF Live
<1>5. Live = Reachable \ {Root}
  BY <1>0, <1>2, <1>3, <1>4
<1>6. IsFiniteSet(Live)
  BY <1>0, <1>5, NodesFinite, FS_Subset
<1> QED
  BY <1>0, <1>3, <1>4, <1>5, <1>6

LEMMA LiveIsHeld ==
  ASSUME DomTree, NodesInv, file \in FileType
  PROVE  /\ \A v \in Live : Retained[v] = Sizes(Freed(v)) /\ Retained[v] \in Nat
         /\ Sizes(Live) \in Nat
<1>1. \A v \in Live : v \in Reachable \ {Root} /\ Freed(v) \in SUBSET Nodes
  BY LiveIsReachable, FreedFacts DEF DomTree
<1>2. Live \in SUBSET Nodes
  BY LiveIsReachable
<1> QED
  BY <1>1, <1>2, RetainedIsHeld, NodeSizes

\* The rows are the live objects, and the first of them retains the most.
LEMMA RowsSorted ==
  ASSUME DomTree, NodesInv, file \in FileType, NEW rows \in Sorted(Retained)
  PROVE  /\ \A i \in DOMAIN rows : i \in Nat /\ rows[i] \in Live
         /\ rows # <<>> => \A o \in Live : Retained[o] <= Retained[rows[1]]
         /\ rows # <<>> => 1 \in DOMAIN rows
<1> DEFINE n == Cardinality(Live)
           r(i) == Retained[rows[i]]
<1>1. n \in Nat /\ IsFiniteSet(Live)
  BY LiveIsReachable, FS_CardinalityType
<1>2. /\ rows \in [1 .. n -> Live]
      /\ \A i, j \in 1 .. n : i # j => rows[i] # rows[j]
      /\ \A i \in 2 .. Len(rows) : r(i) <= r(i - 1)
  BY DEF Sorted, SetToSeqs
<1>3. Len(rows) = n /\ DOMAIN rows = 1 .. n
  BY <1>1, <1>2
<1>4. \A o \in Live : \E i \in 1 .. n : rows[i] = o
  <2>1. rows \in Injection(1 .. n, Live)
    BY <1>2 DEF Injection, IsInjective
  <2>2. Cardinality(1 .. n) = n
    <3> HIDE DEF n
    <3>1. n \in Int /\ 1 \in Int
      BY <1>1
    <3>2. Cardinality(1 .. n) = IF 1 > n THEN 0 ELSE n - 1 + 1
      BY <3>1, FS_Interval
    <3> QED
      BY <1>1, <3>2
  <2>3. rows \in Surjection(1 .. n, Live)
    <3> HIDE DEF n
    <3>1. Cardinality(1 .. n) = Cardinality(Live)
      BY <2>2 DEF n
    <3> QED
      BY <1>1, <2>1, <3>1, FS_Injection
  <2> QED
    BY <2>3 DEF Surjection
<1>5. \A i \in 1 .. n : r(i) \in Nat
  BY <1>2, LiveIsHeld
<1> DEFINE Ok == {i \in Nat : i \in 1 .. n => r(i) <= r(1)}
<1>6. ASSUME NEW i \in Nat, i \in Ok PROVE i + 1 \in Ok
  <2> SUFFICES ASSUME i + 1 \in 1 .. n PROVE r(i + 1) <= r(1)
    OBVIOUS
  <2>1. CASE i = 0
    <3>1. r(1) \in Nat /\ i + 1 = 1
      BY <2>1, <1>5
    <3> HIDE DEF r
    <3> QED
      BY <3>1
  <2>2. CASE i > 0
    <3>1. i \in 1 .. n /\ i + 1 \in 2 .. Len(rows) /\ (i + 1) - 1 = i /\ 1 \in 1 .. n
      BY <2>2, <1>1, <1>3
    <3>2. r(i + 1) <= r(i)
      BY <3>1, <1>2
    <3>3. r(i) <= r(1)
      BY <3>1, <1>6
    <3>4. r(i + 1) \in Nat /\ r(i) \in Nat /\ r(1) \in Nat
      BY <3>1, <1>5
    <3> HIDE DEF r
    <3> QED
      BY <3>2, <3>3, <3>4
  <2> QED
    BY <2>1, <2>2
<1>7. 0 \in Ok
  OBVIOUS
<1>8. \A i \in 1 .. n : r(i) <= r(1)
  <2>1. Nat \subseteq Ok
    <3> HIDE DEF Ok
    <3> QED
      BY <1>6, <1>7, NatSetInduction
  <2> QED
    BY <2>1, <1>1
<1>9. \A o \in Live : Retained[o] <= Retained[rows[1]]
  BY <1>4, <1>8
<1>10. rows # <<>> => 1 \in 1 .. n
  <2>1. n = 0 => rows = <<>>
    BY <1>2
  <2> QED
    BY <2>1, <1>1
<1> QED
  BY <1>2, <1>3, <1>9, <1>10

\* leakPattern.
LEMMA PatternHolds ==
  ASSUME DomTree, NodesInv, file \in FileType, NEW rows \in Sorted(Retained),
         NEW p, p = LeakPattern(rows, Retained), p.about # None
  PROVE  /\ p.about \in Live /\ Sizes(Freed(p.about)) * 4 >= Sizes(Live)
         /\ p.pattern = "single" => \A o \in Live : Sizes(Freed(o)) <= Sizes(Freed(p.about))
<1> DEFINE caches == {i \in DOMAIN rows : Share(Retained[rows[i]], 25) /\ Name(rows[i]) \in Collections}
<1>1. /\ \A i \in DOMAIN rows : i \in Nat /\ rows[i] \in Live
      /\ rows # <<>> => \A o \in Live : Retained[o] <= Retained[rows[1]]
      /\ rows # <<>> => 1 \in DOMAIN rows
  BY RowsSorted
<1>2. /\ \A v \in Live : Retained[v] = Sizes(Freed(v)) /\ Retained[v] \in Nat
      /\ Sizes(Live) \in Nat
  BY LiveIsHeld
<1>3. ASSUME NEW o \in Live, Share(Retained[o], 25) \/ Share(Retained[o], 30)
      PROVE  Sizes(Freed(o)) * 4 >= Sizes(Live)
  <2> DEFINE x == Retained[o]
             y == Sizes(Live)
  <2>1. x \in Nat /\ y \in Nat /\ x = Sizes(Freed(o))
    BY <1>2
  <2>2. x * 100 >= 25 * y \/ x * 100 >= 30 * y
    BY <1>3 DEF Share
  <2> HIDE DEF x, y
  <2>3. x * 4 >= y
    BY <2>1, <2>2
  <2> QED
    BY <2>1, <2>3 DEF y
<1>4. \/ /\ caches # {} /\ p = [pattern |-> "collection", about |-> rows[Min(caches)]]
      \/ /\ rows # <<>> /\ Share(Retained[rows[1]], 25)
         /\ p = [pattern |-> "collection", about |-> rows[1]]
      \/ /\ rows # <<>> /\ Share(Retained[rows[1]], 30)
         /\ p = [pattern |-> "single", about |-> rows[1]]
  <2> HIDE DEF caches
  <2> DEFINE c == Cardinality({o \in nodes : Name(o) = Crowd}) >= CrowdSize
             many == Cardinality({o \in nodes : Name(o) \in Entries}) >= ManyEntries
             repeated == /\ hist.waste > 0
                         /\ \/ Share(hist.waste, 20)
                            \/ Share(hist.waste, 10) /\ hist.waste >= BigWaste
  <2>1. ~(rows = <<>>) /\ ~(rows # <<>> /\ c)
    BY DEF LeakPattern
  <2>2. p = IF caches # {} THEN [pattern |-> "collection", about |-> rows[Min(caches)]]
            ELSE IF Share(Retained[rows[1]], 25) /\ (Name(rows[1]) \in Tables \/ many)
                 THEN [pattern |-> "collection", about |-> rows[1]]
            ELSE IF Share(Retained[rows[1]], 30) /\ Name(rows[1]) \in App
                 THEN [pattern |-> "single", about |-> rows[1]]
            ELSE IF repeated THEN [pattern |-> "strings", about |-> None]
            ELSE [pattern |-> "none", about |-> None]
    BY <2>1 DEF LeakPattern, caches
  <2> HIDE DEF many, repeated
  <2> QED
    BY <2>1, <2>2
<1>5. caches # {} => Min(caches) \in caches
  <2>1. caches \in SUBSET Nat
    BY <1>1
  <2> HIDE DEF caches
  <2> QED
    BY <2>1, LeastOf DEF Min
<1>6. CASE caches # {} /\ p = [pattern |-> "collection", about |-> rows[Min(caches)]]
  <2>1. /\ p.pattern = "collection" /\ p.about = rows[Min(caches)] /\ Min(caches) \in DOMAIN rows
        /\ Share(Retained[p.about], 25)
    BY <1>5, <1>6
  <2> QED
    BY <2>1, <1>1, <1>3
<1>7. CASE /\ rows # <<>> /\ Share(Retained[rows[1]], 25)
           /\ p = [pattern |-> "collection", about |-> rows[1]]
  BY <1>1, <1>3, <1>7
<1>8. CASE /\ rows # <<>> /\ Share(Retained[rows[1]], 30)
           /\ p = [pattern |-> "single", about |-> rows[1]]
  BY <1>1, <1>2, <1>3, <1>8
<1> QED
  BY <1>4, <1>6, <1>7, <1>8

---------------------------------------------------------------------------
(* The accumulation point.                                                 *)

\* The biggest of numbers that have a bound.
LEMMA MaxOf ==
  ASSUME NEW S \in SUBSET Nat, S # {}, NEW n \in Nat, \A s \in S : s <= n
  PROVE  Max(S) \in S
<1> DEFINE T == {n - s : s \in S}
<1>1. T \in SUBSET Nat /\ T # {}
  <2>1. \A s \in S : s \in Nat /\ n - s \in Nat
    OBVIOUS
  <2> QED
    BY <2>1
<1>2. PICK k \in T : \A y \in T : k <= y
  <2> HIDE DEF T
  <2> QED
    BY <1>1, LeastOf
<1>3. PICK m \in S : k = n - m
  BY <1>2
<1>4. ASSUME NEW s \in S PROVE m >= s
  <2>1. n - s \in T
    OBVIOUS
  <2>2. k <= n - s
    <3> HIDE DEF T
    <3> QED
      BY <1>2, <2>1
  <2> QED
    BY <1>3, <2>2
<1> QED
  BY <1>4 DEF Max

\* The ancestors, one more of the tree at a time.
Parent(u) == IF u \in {Root, None} THEN u ELSE idom[u]

\* The ancestors, unfolded.
LEMMA UpSteps ==
  ASSUME idom \in [Nodes -> Nodes \cup {None}]
  PROVE  /\ \A o \in Objects : Up[0][o] = o
         /\ \A k \in 1 .. NodeCount : \A o \in Objects : Up[k][o] = Parent(Up[k - 1][o])
<1> DEFINE V == [Objects -> Nodes \cup {None}]
           St(g) == [o \in Objects |-> Parent(g[o])]
           F == [k \in Nat |-> [g \in V |-> St(g)]]
           x == [o \in Objects |-> o]
           n == NodeCount
<1>1. n \in Nat
  BY NodesFinite
<1>2. ASSUME NEW g \in V PROVE St(g) \in V
  BY DEF Parent, Nodes
<1>3. n \in Nat /\ x \in V /\ F \in Steppers(V)
  <2>1. x \in V
    BY DEF Nodes
  <2> HIDE DEF V, St
  <2> QED
    BY <1>1, <1>2, <2>1 DEF Steppers
<1>4. \A k \in 1 .. n, g \in V : F[k][g] = St(g)
  BY <1>1
<1> HIDE DEF F, V, n, x, St
<1>5. PICK R \in [0 .. n -> V] : R[0] = x /\ \A k \in 1 .. n : R[k] = F[k][R[k - 1]]
  <2>2. Runs(V, x, n, F) # {}
    BY <1>3, StepByStep
  <2> QED
    BY <2>2 DEF Runs
<1>6. \A k \in 1 .. n : k - 1 \in 0 .. n /\ R[k] = St(R[k - 1])
  BY <1>1, <1>4, <1>5
<1>7. R = [k \in 0 .. n |-> [o \in Objects |-> IF k = 0 THEN o ELSE Parent(R[k - 1][o])]]
  <2> DEFINE h == [k \in 0 .. n |-> [o \in Objects |-> IF k = 0 THEN o ELSE Parent(R[k - 1][o])]]
  <2>1. ASSUME NEW k \in 0 .. n PROVE R[k] = h[k]
    <3>0. h[k] = [o \in Objects |-> IF k = 0 THEN o ELSE Parent(R[k - 1][o])]
      OBVIOUS
    <3> HIDE DEF h
    <3>1. CASE k = 0
      BY <1>5, <3>0, <3>1 DEF x
    <3>2. CASE k # 0
      <4>1. k \in 1 .. n
        BY <1>1, <3>2
      <4> QED
        BY <4>1, <1>6, <3>0, <3>2 DEF St
    <3> QED
      BY <3>1, <3>2
  <2> QED
    BY <1>5, <2>1
<1>8. PICK g : g = Up
  OBVIOUS
<1>9. g = [k \in 0 .. n |-> [o \in Objects |-> IF k = 0 THEN o ELSE Parent(g[k - 1][o])]]
  BY <1>7, <1>8 DEF Up, Parent, n, NodeCount
<1>10. \A k \in 0 .. n : g[k] = [o \in Objects |-> IF k = 0 THEN o ELSE Parent(g[k - 1][o])]
  <2> DEFINE h == [k \in 0 .. n |-> [o \in Objects |-> IF k = 0 THEN o ELSE Parent(g[k - 1][o])]]
  <2>1. \A k \in 0 .. n : h[k] = [o \in Objects |-> IF k = 0 THEN o ELSE Parent(g[k - 1][o])]
    OBVIOUS
  <2>2. g = h
    BY <1>9
  <2> HIDE DEF h
  <2> QED
    BY <2>1, <2>2
<1>11. ASSUME NEW o \in Objects
       PROVE  g[0][o] = o /\ \A k \in 1 .. n : g[k][o] = Parent(g[k - 1][o])
  <2>1. 0 \in 0 .. n /\ \A k \in 1 .. n : k \in 0 .. n /\ k # 0
    BY <1>1
  <2> QED
    BY <1>10, <2>1
<1> QED
  BY <1>8, <1>11 DEF n

\* The tree has no more levels than there are nodes.
LEMMA OrderIsShort ==
  ASSUME DomTree
  PROVE  Len(order) \in Nat /\ Len(order) <= NodeCount /\ NodeCount \in Nat
<1> DEFINE n == Len(order)
<1>1. /\ n \in Nat /\ order \in [1 .. n -> Nodes] /\ NodeCount \in Nat /\ IsFiniteSet(Nodes)
      /\ \A i, j \in 1 .. n : order[i] = order[j] => i = j
  BY NodesFinite DEF DomTree
<1>2. order \in Injection(1 .. n, Nodes)
  BY <1>1 DEF Injection, IsInjective
<1> HIDE DEF n
<1>3. Cardinality(1 .. n) = n
  <2>1. n \in Int /\ 1 \in Int
    BY <1>1
  <2>2. Cardinality(1 .. n) = IF 1 > n THEN 0 ELSE n - 1 + 1
    BY <2>1, FS_Interval
  <2> QED
    BY <1>1, <2>2
<1>4. Cardinality(1 .. n) <= NodeCount
  BY <1>1, <1>2, FS_Injection DEF NodeCount
<1> QED
  BY <1>1, <1>3, <1>4 DEF n

\* dominatorChildren: what is below v in the tree is what is lost with v.
LEMMA UnderIsFreed ==
  ASSUME DomTree, NodesInv, NEW v \in Live
  PROVE  Under(v) = Freed(v) \ {v}
<1>0. /\ succ \in [Nodes -> SUBSET Objects] /\ idom \in [Nodes -> Nodes \cup {None}]
      /\ Root \in Reachable /\ Reachable \subseteq Nodes /\ None \notin Nodes /\ Root \notin Objects
      /\ v \in Objects /\ v \in Nodes /\ Nodes = Objects \cup {Root} /\ Live = Reachable \ {Root}
  BY NodesAssumption, LiveIsReachable DEF DomTree, Nodes
<1>a. /\ \A o \in Objects : Up[0][o] = o
      /\ \A k \in 1 .. NodeCount : \A o \in Objects : Up[k][o] = Parent(Up[k - 1][o])
  BY <1>0, UpSteps
<1>b. Len(order) \in Nat /\ Len(order) <= NodeCount /\ NodeCount \in Nat
  BY OrderIsShort
<1>1. ASSUME NEW o \in Live, NEW k \in 1 .. NodeCount, Up[k][o] = v, o # v
      PROVE  o \in Freed(v)
  <2> DEFINE Q == {i \in Nat : i <= NodeCount => Up[i][o] \in Reachable /\ o \in Freed(Up[i][o])}
  <2>0. o \in Objects /\ o \in Reachable
    BY <1>0
  <2>1. 0 \in Q
    BY <1>0, <1>a, <2>0, FreedFacts
  <2>2. ASSUME NEW i \in Nat, i \in Q PROVE i + 1 \in Q
    <3> SUFFICES ASSUME i + 1 <= NodeCount
                 PROVE  Up[i + 1][o] \in Reachable /\ o \in Freed(Up[i + 1][o])
      OBVIOUS
    <3> DEFINE u == Up[i][o]
    <3>1. i + 1 \in 1 .. NodeCount /\ (i + 1) - 1 = i /\ u \in Reachable /\ o \in Freed(u)
      BY <1>b, <2>2
    <3>2. Up[i + 1][o] = Parent(u)
      BY <3>1, <2>0, <1>a
    <3>3. CASE u = Root
      BY <3>1, <3>2, <3>3 DEF Parent
    <3>4. CASE u # Root
      <4>1. idom[u] \in Reachable /\ u \in Freed(idom[u])
        BY <3>1, <3>4 DEF DomTree
      <4>2. o \in Freed(idom[u])
        BY <3>1, <4>1, <1>0, FreedTransitive
      <4>3. u \in Nodes /\ u # None
        BY <3>1, <1>0
      <4> HIDE DEF u
      <4>4. Parent(u) = idom[u]
        BY <3>4, <4>3 DEF Parent
      <4> QED
        BY <3>2, <4>1, <4>2, <4>4
    <3> QED
      BY <3>3, <3>4
  <2>3. Nat \subseteq Q
    <3> HIDE DEF Q
    <3> QED
      BY <2>1, <2>2, NatSetInduction
  <2> QED
    BY <2>3, <1>1, <1>b
<1>2. ASSUME NEW w \in Freed(v) \ {v} PROVE w \in Live /\ \E k \in 1 .. NodeCount : Up[k][w] = v
  <2>0. w \in Reachable /\ w # Root /\ w \in Live /\ w \in Objects /\ w \in Nodes
    BY <1>0, FreedFacts
  <2>a. Po(w) \in 1 .. Len(order)
    BY <2>0 DEF DomTree
  <2> DEFINE Distant(i) == Up[i][w] \in Freed(v) \ {v} /\ Po(Up[i][w]) >= Po(w) + i
             Q == {i \in Nat : i <= NodeCount =>
                     (\E k \in 1 .. NodeCount : Up[k][w] = v) \/ Distant(i)}
  <2>1. 0 \in Q
    BY <1>a, <2>0, <2>a
  <2>2. ASSUME NEW i \in Nat, i \in Q PROVE i + 1 \in Q
    <3> SUFFICES ASSUME i + 1 <= NodeCount, Distant(i), ~(Up[i + 1][w] = v)
                 PROVE  Distant(i + 1)
      BY <1>b, <2>2
    <3> DEFINE u == Up[i][w]
    <3>1. i + 1 \in 1 .. NodeCount /\ (i + 1) - 1 = i
      BY <1>b
    <3>2. u \in Freed(v) /\ u # v /\ u \in Reachable /\ u # Root /\ u # None /\ u \in Nodes
          /\ Po(u) >= Po(w) + i
      BY <1>0, FreedFacts
    <3>3. Up[i + 1][w] = Parent(u)
      BY <3>1, <2>0, <1>a
    <3> HIDE DEF u
    <3>4. Up[i + 1][w] = idom[u]
      BY <3>2, <3>3 DEF Parent
    <3>5. idom[u] \in Freed(v) /\ u \in Freed(idom[u]) /\ idom[u] # u /\ idom[u] \in Reachable
      BY <3>2, <1>0 DEF DomTree
    <3>6. Po(idom[u]) > Po(u) /\ Po(idom[u]) \in Int /\ Po(u) \in Int
      BY <3>2, <3>5, <1>0 DEF DomTree
    <3>7. Po(idom[u]) >= Po(w) + (i + 1)
      BY <3>2, <3>6, <2>a
    <3> QED
      BY <3>4, <3>5, <3>7
  <2>3. Nat \subseteq Q
    <3> HIDE DEF Q
    <3> QED
      BY <2>1, <2>2, NatSetInduction
  <2>4. ~Distant(NodeCount)
    <3> SUFFICES ASSUME Distant(NodeCount) PROVE FALSE
      OBVIOUS
    <3>1. Up[NodeCount][w] \in Reachable
      BY <1>0, FreedFacts
    <3>2. Po(Up[NodeCount][w]) \in 1 .. Len(order)
      BY <3>1 DEF DomTree
    <3> QED
      BY <3>2, <1>b, <2>a
  <2> QED
    BY <2>0, <2>3, <2>4, <1>b
<1>3. Under(v) = {o \in Live \ {v} : \E k \in 1 .. NodeCount : Up[k][o] = v}
  BY DEF Under, NodeCount
<1> QED
  BY <1>1, <1>2, <1>3

\* accumulationPoint.
LEMMA PileHolds ==
  ASSUME DomTree, NodesInv, NEW v \in Live, Pile(v) > 0
  PROVE  \E n \in Names : Pile(v) = Cardinality({o \in Freed(v) \ {v} : Name(o) = n})
<1> DEFINE U == Freed(v) \ {v}
           Many(n) == Cardinality({o \in U : Name(o) = n})
           S == {0} \cup {Many(n) : n \in Names}
<1>1. U \subseteq Nodes /\ NodeCount \in Nat
  BY LiveIsReachable, FreedFacts, NodesFinite DEF DomTree
<1>2. \A n \in Names : Many(n) \in Nat /\ Many(n) <= NodeCount
  <2> SUFFICES ASSUME NEW n \in Names PROVE Many(n) \in Nat /\ Many(n) <= NodeCount
    OBVIOUS
  <2>1. {o \in U : Name(o) = n} \in SUBSET Nodes
    BY <1>1
  <2> QED
    BY <2>1, NodesFinite, FS_Subset, FS_CardinalityType DEF NodeCount
<1>3. Pile(v) = Max(S)
  BY UnderIsFreed DEF Pile
<1>4. S \in SUBSET Nat /\ S # {} /\ \A s \in S : s <= NodeCount
  <2> HIDE DEF Many
  <2> QED
    BY <1>1, <1>2
<1>5. Pile(v) \in S
  <2> HIDE DEF S
  <2> QED
    BY <1>1, <1>3, <1>4, MaxOf
<1> QED
  BY <1>5

---------------------------------------------------------------------------
(* The paths that are shown.                                               *)

\* bfsParents: the parent of what can be reached can be reached in a hop less.
LEMMA ParentOf ==
  ASSUME GraphTypeOK, PathsAreShortest, pc = "done", NEW h \in Reachable \ {Root}
  PROVE  /\ h \in succ[parent[h]] /\ parent[h] \in Reachable
         /\ \E k \in 1 .. NodeCount : h \notin Hops[k - 1] /\ h \in Hops[k] /\ parent[h] \in Hops[k - 1]
<1>0. succ \in [Nodes -> SUBSET Objects] /\ h \in Nodes \ {Root} /\ NodeCount \in Nat
  BY ReachableClosed, NodesFinite DEF GraphTypeOK
<1>1. /\ h \in succ[parent[h]]
      /\ \E k \in 1 .. NodeCount : h \notin Hops[k - 1] /\ h \in Hops[k] /\ parent[h] \in Hops[k - 1]
  BY <1>0 DEF PathsAreShortest, NodeCount
<1>2. PICK k \in 1 .. NodeCount : h \notin Hops[k - 1] /\ h \in Hops[k] /\ parent[h] \in Hops[k - 1]
  BY <1>1
<1>3. parent[h] \in Reachable
  <2>1. k - 1 \in 0 .. NodeCount
    BY <1>0
  <2> QED
    BY <2>1, <1>0, <1>2, HopsReachable
<1> QED
  BY <1>1, <1>3

\* pathFromRoot takes one step towards the root at a time.
Onward(q)  == IF Head(q) = Root THEN q ELSE <<parent[Head(q)]>> \o q
Pathing(v) == CHOOSE P : P = [k \in 1 .. NodeCount |-> IF k = 1 THEN <<v>> ELSE Onward(P[k - 1])]
Lines      == {q \in Seq(Reachable) : q # <<>>}

\* A chain of references to v, in nodes that can be reached.
Chain(q, v) ==
  /\ q \in Lines /\ q[Len(q)] = v
  /\ \A i \in 2 .. Len(q) : q[i] \in succ[q[i - 1]]

\* A step towards the root leaves a chain a chain.
LEMMA ChainGrows ==
  ASSUME GraphTypeOK, PathsAreShortest, pc = "done", NEW q \in Lines
  PROVE  /\ Onward(q) \in Lines /\ Head(q) \in Reachable
         /\ Head(q) # Root => Head(Onward(q)) = parent[Head(q)]
         /\ \A v : Chain(q, v) => Chain(Onward(q), v)
<1>0. /\ q \in Seq(Reachable) /\ Len(q) \in Nat \ {0} /\ Head(q) = q[1] /\ q[1] \in Reachable
  BY DEF Lines
<1>1. CASE Head(q) = Root
  BY <1>0, <1>1 DEF Onward
<1>2. CASE Head(q) # Root
  <2> DEFINE u == parent[Head(q)]
             r == <<u>> \o q
  <2>1. Head(q) \in Reachable \ {Root}
    BY <1>0, <1>2
  <2>2. u \in Reachable /\ Head(q) \in succ[u]
    BY <2>1, ParentOf
  <2>3. Onward(q) = r
    BY <1>2 DEF Onward
  <2> HIDE DEF u
  <2>4. /\ r \in Seq(Reachable) /\ Len(r) = Len(q) + 1 /\ r # <<>> /\ Head(r) = u /\ r[1] = u
        /\ \A i \in 2 .. Len(q) + 1 : r[i] = q[i - 1]
    BY <1>0, <2>2
  <2> HIDE DEF r
  <2>5. ASSUME NEW v, Chain(q, v) PROVE Chain(r, v)
    <3>1. r[Len(r)] = v
      <4>1. Len(r) \in 2 .. Len(q) + 1 /\ Len(r) - 1 = Len(q)
        BY <1>0, <2>4
      <4> QED
        BY <4>1, <2>4, <2>5 DEF Chain
    <3>2. ASSUME NEW i \in 2 .. Len(r) PROVE r[i] \in succ[r[i - 1]]
      <4>1. CASE i = 2
        <5>1. r[2] = q[1] /\ i - 1 = 1
          BY <1>0, <2>4, <4>1
        <5> QED
          BY <5>1, <4>1, <2>2, <2>4, <1>0
      <4>2. CASE i # 2
        <5>1. i - 1 \in 2 .. Len(q) /\ i \in 2 .. Len(q) + 1 /\ i - 1 \in 2 .. Len(q) + 1
          BY <1>0, <2>4, <4>2
        <5>2. r[i] = q[i - 1] /\ r[i - 1] = q[(i - 1) - 1]
          BY <5>1, <2>4
        <5>3. q[i - 1] \in succ[q[(i - 1) - 1]]
          BY <5>1, <2>5 DEF Chain
        <5> QED
          BY <5>2, <5>3
      <4> QED
        BY <4>1, <4>2
    <3> QED
      BY <3>1, <3>2, <2>4 DEF Chain, Lines
  <2> QED
    BY <1>0, <2>3, <2>4, <2>5 DEF Lines, u
<1> QED
  BY <1>1, <1>2

\* pathFromRoot, unfolded.
LEMMA PathRuns ==
  ASSUME GraphTypeOK, PathsAreShortest, pc = "done", NEW v \in Reachable \ {Root}
  PROVE  /\ NodeCount \in Nat \ {0}
         /\ \E R \in [1 .. NodeCount -> Lines] :
              /\ R[1] = <<v>> /\ PathTo(v) = R[NodeCount]
              /\ \A k \in 2 .. NodeCount : R[k] = Onward(R[k - 1])
<1> DEFINE V == Lines
           F == [k \in Nat |-> [q \in V |-> IF k = 1 THEN q ELSE Onward(q)]]
           x == <<v>>
           n == NodeCount
<1>1. n \in Nat \ {0}
  <2>1. Root \in Nodes
    BY DEF Nodes
  <2> QED
    BY <2>1, NodesFinite, FS_EmptySet DEF NodeCount
<1>2. \A q \in V : Onward(q) \in V
  BY ChainGrows
<1>3. n \in Nat /\ x \in V /\ F \in Steppers(V)
  <2>1. x \in V
    BY DEF Lines
  <2> HIDE DEF V
  <2> QED
    BY <1>1, <1>2, <2>1 DEF Steppers
<1>4. \A k \in 1 .. n, q \in V : F[k][q] = IF k = 1 THEN q ELSE Onward(q)
  BY <1>1
<1> HIDE DEF F, V, n, x
<1>5. PICK R \in [0 .. n -> V] : R[0] = x /\ \A k \in 1 .. n : R[k] = F[k][R[k - 1]]
  <2>1. Runs(V, x, n, F) # {}
    BY <1>3, StepByStep
  <2> QED
    BY <2>1 DEF Runs
<1>6. R[1] = x /\ \A k \in 2 .. n : k - 1 \in 1 .. n /\ R[k] = Onward(R[k - 1])
  <2>1. ASSUME NEW k \in 1 .. n
        PROVE  R[k] = IF k = 1 THEN R[k - 1] ELSE Onward(R[k - 1])
    <3>1. k - 1 \in 0 .. n
      BY <1>1
    <3>2. R[k - 1] \in V
      BY <3>1, <1>5
    <3> QED
      BY <3>2, <1>4, <1>5
  <2>2. 1 \in 1 .. n /\ \A k \in 2 .. n : k \in 1 .. n /\ k # 1 /\ k - 1 \in 1 .. n
    BY <1>1
  <2>3. R[1] = R[0]
    BY <2>1, <2>2
  <2> QED
    BY <2>1, <2>2, <2>3, <1>5
<1> DEFINE P == [k \in 1 .. n |-> R[k]]
<1>7. P = [k \in 1 .. n |-> IF k = 1 THEN x ELSE Onward(P[k - 1])]
  <2>1. ASSUME NEW k \in 1 .. n PROVE R[k] = IF k = 1 THEN x ELSE Onward(P[k - 1])
    <3>1. CASE k = 1
      BY <1>6, <3>1
    <3>2. CASE k # 1
      <4>1. k \in 2 .. n
        BY <1>1, <3>2
      <4>2. P[k - 1] = R[k - 1] /\ R[k] = Onward(R[k - 1])
        BY <4>1, <1>6
      <4> QED
        BY <4>2, <3>2
    <3> QED
      BY <3>1, <3>2
  <2> QED
    BY <2>1
<1> HIDE DEF P
<1>8. PICK g : g = Pathing(v)
  OBVIOUS
<1>9. g = [k \in 1 .. n |-> IF k = 1 THEN x ELSE Onward(g[k - 1])]
  BY <1>7, <1>8 DEF Pathing, n, x
<1>10. \A k \in 1 .. n : g[k] = IF k = 1 THEN x ELSE Onward(g[k - 1])
  <2> DEFINE r(k) == IF k = 1 THEN x ELSE Onward(g[k - 1])
             h == [k \in 1 .. n |-> r(k)]
  <2>1. \A k \in 1 .. n : h[k] = r(k)
    OBVIOUS
  <2>2. g = h
    BY <1>9
  <2> HIDE DEF h
  <2> QED
    BY <2>1, <2>2
<1> DEFINE Ok == {k \in Nat : k \in 1 .. n => g[k] = R[k]}
<1>11. 0 \in Ok
  OBVIOUS
<1>12. ASSUME NEW k \in Nat, k \in Ok PROVE k + 1 \in Ok
  <2> SUFFICES ASSUME k + 1 \in 1 .. n PROVE g[k + 1] = R[k + 1]
    OBVIOUS
  <2>1. CASE k = 0
    BY <2>1, <1>6, <1>10
  <2>2. CASE k # 0
    <3>1. k \in 1 .. n /\ k + 1 \in 2 .. n /\ (k + 1) - 1 = k /\ k + 1 # 1
      BY <2>2, <1>1
    <3> QED
      BY <3>1, <1>6, <1>10, <1>12
  <2> QED
    BY <2>1, <2>2
<1>13. g[n] = R[n]
  <2>1. Nat \subseteq Ok
    <3> HIDE DEF Ok
    <3> QED
      BY <1>11, <1>12, NatSetInduction
  <2> QED
    BY <2>1, <1>1
<1>14. PathTo(v) = g[n]
  BY <1>8 DEF PathTo, Pathing, Onward, NodeCount, n
<1>15. P \in [1 .. n -> V] /\ P[1] = x /\ P[n] = R[n] /\ \A k \in 2 .. n : P[k] = Onward(P[k - 1])
  BY <1>1, <1>5, <1>6 DEF P
<1> QED
  BY <1>1, <1>13, <1>14, <1>15 DEF n, x, V

\* pathFromRoot: it gets there.
LEMMA PathHolds ==
  ASSUME GraphTypeOK, PathsAreShortest, pc = "done", NEW v \in Reachable \ {Root}
  PROVE  Chain(PathTo(v), v) /\ PathTo(v)[1] = Root
<1> DEFINE N == NodeCount
<1>0. succ \in [Nodes -> SUBSET Objects] /\ Reachable \subseteq Nodes
  BY ReachableClosed DEF GraphTypeOK
<1>1. N \in Nat \ {0}
  BY PathRuns
<1>2. PICK R \in [1 .. N -> Lines] :
        /\ R[1] = <<v>> /\ PathTo(v) = R[N]
        /\ \A k \in 2 .. N : R[k] = Onward(R[k - 1])
  BY PathRuns
<1> DEFINE Near(k) == Head(R[k]) = Root \/ \E m \in 1 .. N - k : Head(R[k]) \in Hops[m]
           Ok == {k \in Nat : k \in 1 .. N => Chain(R[k], v) /\ Near(k)}
<1>3. 0 \in Ok
  OBVIOUS
<1>4. Chain(R[1], v) /\ Near(1)
  <2>1. Chain(<<v>>, v)
    BY DEF Chain, Lines
  <2>2. PICK k \in 1 .. N : v \notin Hops[k - 1] /\ v \in Hops[k]
    BY ParentOf
  <2>3. Cardinality(Hops[k]) >= k + 1 /\ Cardinality(Hops[k]) \in Nat
    <3>1. k \in 0 .. NodeCount /\ Hops[k] # Hops[k - 1]
      BY <2>2, <1>1
    <3> QED
      BY <3>1, <1>0, HopsCount
  <2>4. Cardinality(Hops[k]) <= N
    <3>1. Hops[k] \in SUBSET Nodes
      BY <1>0, <1>1, HopsSteps
    <3> QED
      BY <3>1, NodesFinite, FS_Subset DEF NodeCount
  <2>5. k \in 1 .. N - 1
    <3> HIDE DEF N
    <3> QED
      BY <1>1, <2>3, <2>4
  <2> QED
    BY <2>1, <2>2, <2>5, <1>2
<1>5. ASSUME NEW k \in Nat, k \in Ok PROVE k + 1 \in Ok
  <2> SUFFICES ASSUME k + 1 \in 1 .. N PROVE Chain(R[k + 1], v) /\ Near(k + 1)
    OBVIOUS
  <2>1. CASE k = 0
    BY <2>1, <1>4
  <2>2. CASE k # 0
    <3>1. k \in 1 .. N /\ k + 1 \in 2 .. N /\ (k + 1) - 1 = k /\ R[k] \in Lines
      BY <2>2, <1>1, <1>2
    <3>2. Chain(R[k], v) /\ Near(k) /\ R[k + 1] = Onward(R[k])
      BY <3>1, <1>2, <1>5
    <3> DEFINE h == Head(R[k])
    <3>3. /\ Chain(R[k + 1], v) /\ h \in Reachable
          /\ h # Root => Head(R[k + 1]) = parent[h]
      BY <3>1, <3>2, ChainGrows
    <3>4. CASE h = Root
      <4>1. R[k + 1] = R[k]
        BY <3>2, <3>4 DEF Onward
      <4> QED
        BY <3>3, <3>4, <4>1
    <3>5. CASE h # Root
      <4>1. PICK m \in 1 .. N - k : h \in Hops[m]
        BY <3>2, <3>5
      <4>2. h \in Reachable \ {Root}
        BY <3>3, <3>5
      <4> HIDE DEF h
      <4>3. PICK j \in 1 .. N : h \notin Hops[j - 1] /\ parent[h] \in Hops[j - 1]
        BY <4>2, ParentOf
      <4>4. j - 1 < m
        <5> SUFFICES ASSUME ~(j - 1 < m) PROVE FALSE
          OBVIOUS
        <5>1. m \in 0 .. j - 1 /\ j - 1 \in 0 .. NodeCount
          BY <1>1, <3>1, <4>1, <4>3
        <5>2. Hops[m] \subseteq Hops[j - 1]
          BY <5>1, <1>0, HopsOnward
        <5> QED
          BY <5>2, <4>1, <4>3
      <4>5. CASE j = 1
        <5>1. Hops[j - 1] = {Root}
          BY <4>5, <1>0, HopsSteps
        <5> QED
          BY <5>1, <4>3, <3>3, <3>5 DEF h
      <4>6. CASE j # 1
        <5>1. j - 1 \in 1 .. N - (k + 1)
          <6> HIDE DEF N
          <6> QED
            BY <1>1, <3>1, <4>1, <4>3, <4>4, <4>6
        <5> QED
          BY <5>1, <4>3, <3>3, <3>5 DEF h
      <4> QED
        BY <4>5, <4>6
    <3> QED
      BY <3>4, <3>5
  <2> QED
    BY <2>1, <2>2
<1>6. Chain(R[N], v) /\ Near(N)
  <2>1. Nat \subseteq Ok
    <3> HIDE DEF Ok
    <3> QED
      BY <1>3, <1>5, NatSetInduction
  <2>2. N \in Ok /\ N \in 1 .. N
    BY <2>1, <1>1
  <2> QED
    BY <2>2
<1>7. Head(R[N]) = Root
  <2>1. 1 .. N - N = {}
    BY <1>1
  <2> QED
    BY <2>1, <1>6
<1>8. Head(R[N]) = R[N][1]
  BY <1>6 DEF Chain, Lines
<1> QED
  BY <1>2, <1>6, <1>7, <1>8

\* pathFromRoot: what is K hops away has a chain of K references at most.
LEMMA PathShort ==
  ASSUME GraphTypeOK, PathsAreShortest, pc = "done", NEW v \in Reachable \ {Root},
         NEW K \in 0 .. NodeCount, v \in Hops[K]
  PROVE  Len(PathTo(v)) <= K + 1
<1> DEFINE N == NodeCount
<1>0. succ \in [Nodes -> SUBSET Objects] /\ Reachable \subseteq Nodes
  BY ReachableClosed DEF GraphTypeOK
<1>1. N \in Nat \ {0}
  BY PathRuns
<1>2. PICK R \in [1 .. N -> Lines] :
        /\ R[1] = <<v>> /\ PathTo(v) = R[N]
        /\ \A k \in 2 .. N : R[k] = Onward(R[k - 1])
  BY PathRuns
<1> DEFINE Near(q) == \E m \in 0 .. K : Head(q) \in Hops[m] /\ Len(q) + m <= K + 1
           Ok == {k \in Nat : k \in 1 .. N => Near(R[k])}
<1>3. 0 \in Ok
  OBVIOUS
<1>4. ASSUME NEW q \in Lines, Near(q) PROVE Near(Onward(q))
  <2> DEFINE h == Head(q)
  <2>1. CASE h = Root
    <3>1. Onward(q) = q
      BY <2>1 DEF Onward
    <3> QED
      BY <3>1, <1>4
  <2>2. CASE h # Root
    <3>1. h \in Reachable \ {Root} /\ Head(Onward(q)) = parent[h]
      BY <2>2, ChainGrows
    <3>2. Len(Onward(q)) = Len(q) + 1 /\ Len(q) \in Nat
      <4>1. q \in Seq(Reachable) /\ parent[h] \in Reachable
        BY <3>1, ParentOf DEF Lines
      <4> HIDE DEF h
      <4>2. Len(<<parent[h]>> \o q) = Len(q) + 1 /\ Len(q) \in Nat
        BY <4>1
      <4> QED
        BY <4>2, <2>2 DEF Onward, h
    <3>3. PICK m \in 0 .. K : h \in Hops[m] /\ Len(q) + m <= K + 1
      BY <1>4
    <3> HIDE DEF h
    <3>4. PICK j \in 1 .. N : h \notin Hops[j - 1] /\ parent[h] \in Hops[j - 1]
      BY <3>1, ParentOf
    <3>5. j - 1 < m
      <4> SUFFICES ASSUME ~(j - 1 < m) PROVE FALSE
        OBVIOUS
      <4>1. m \in 0 .. j - 1 /\ j - 1 \in 0 .. NodeCount
        BY <1>1, <3>3, <3>4
      <4>2. Hops[m] \subseteq Hops[j - 1]
        BY <4>1, <1>0, HopsOnward
      <4> QED
        BY <4>2, <3>3, <3>4
    <3>6. j - 1 \in 0 .. K /\ Len(Onward(q)) + (j - 1) <= K + 1
      <4> DEFINE a == Len(q)
                 b == Len(Onward(q))
      <4>1. a \in Nat /\ b = a + 1 /\ a + m <= K + 1
        BY <3>2, <3>3
      <4> HIDE DEF a, b, N
      <4>2. j - 1 \in 0 .. K /\ b + (j - 1) <= K + 1
        BY <4>1, <1>1, <3>3, <3>4, <3>5
      <4> QED
        BY <4>2 DEF b
    <3> QED
      BY <3>1, <3>4, <3>6
  <2> QED
    BY <2>1, <2>2
<1>5. ASSUME NEW k \in Nat, k \in Ok PROVE k + 1 \in Ok
  <2> SUFFICES ASSUME k + 1 \in 1 .. N PROVE Near(R[k + 1])
    OBVIOUS
  <2>1. CASE k = 0
    <3>1. Head(<<v>>) = v /\ Len(<<v>>) = 1 /\ K \in 0 .. K /\ 1 + K <= K + 1
      BY <1>1
    <3>2. R[k + 1] = <<v>>
      BY <2>1, <1>2
    <3> QED
      BY <3>1, <3>2
  <2>2. CASE k # 0
    <3>1. k \in 1 .. N /\ k + 1 \in 2 .. N /\ (k + 1) - 1 = k /\ R[k] \in Lines
      BY <2>2, <1>1, <1>2
    <3>2. Near(R[k]) /\ R[k + 1] = Onward(R[k])
      BY <3>1, <1>2, <1>5
    <3> HIDE DEF Near
    <3> QED
      BY <3>1, <3>2, <1>4
  <2> QED
    BY <2>1, <2>2
<1>6. Near(R[N])
  <2>1. Nat \subseteq Ok
    <3> HIDE DEF Ok
    <3> QED
      BY <1>3, <1>5, NatSetInduction
  <2>2. N \in Ok /\ N \in 1 .. N
    BY <2>1, <1>1
  <2> HIDE DEF Near
  <2> QED
    BY <2>2
<1>7. PICK m \in 0 .. K : Len(R[N]) + m <= K + 1
  BY <1>6
<1>8. Len(R[N]) \in Nat /\ K \in Nat
  BY <1>1, <1>2 DEF Lines
<1>9. Len(R[N]) <= K + 1
  <2> DEFINE a == Len(R[N])
  <2>1. a \in Nat /\ a + m <= K + 1
    BY <1>7, <1>8
  <2> HIDE DEF a
  <2>2. a <= K + 1
    BY <2>1, <1>8
  <2> QED
    BY <2>2 DEF a
<1> QED
  BY <1>2, <1>9

\* pathFromRoot: a chain that is too long to be shown is that of an object far
\* away.
LEMMA LongIsFar ==
  ASSUME GraphTypeOK, PathsAreShortest, pc = "done", NEW v \in Reachable \ {Root},
         ~(Len(PathTo(v)) <= Longest)
  PROVE  Far(v)
<1> SUFFICES ASSUME NEW k \in 0 .. NodeCount, v \in Hops[k] PROVE k >= Longest
  BY DEF Far, NodeCount
<1> DEFINE n == Len(PathTo(v))
<1>1. n <= k + 1
  BY PathShort
<1>2. n \in Nat /\ Longest \in Nat /\ k \in Nat
  BY PathHolds, PathRuns, DumpAssumption DEF Chain, Lines
<1>3. ~(n <= Longest)
  OBVIOUS
<1> HIDE DEF n
<1> QED
  BY <1>1, <1>2, <1>3

---------------------------------------------------------------------------
(* The report.                                                             *)

\* A chain that is shown, in full or, to an object far away, without its middle.
Shown(q, v) ==
  /\ q[1] = Root /\ q[Len(q)] = v
  /\ \A i \in 2 .. Len(q) : \/ q[i] \in succ[q[i - 1]]
                            \/ Len(q) = Fore + Rear /\ i = Fore + 1 /\ Far(q[Len(q)])

LEMMA Joined ==
  ASSUME NEW S, NEW a \in Seq(S), NEW z \in Seq(S)
  PROVE  /\ Len(a \o z) = Len(a) + Len(z) /\ Len(a) \in Nat /\ Len(z) \in Nat
         /\ \A i \in 1 .. Len(a) : (a \o z)[i] = a[i]
         /\ \A i \in Len(a) + 1 .. Len(a) + Len(z) : (a \o z)[i] = z[i - Len(a)]
OBVIOUS

LEMMA ElidedHolds ==
  ASSUME NEW v, NEW q, Chain(q, v), q[1] = Root, ~(Len(q) <= Longest) => Far(v)
  PROVE  Shown(Elided(q), v)
<1> DEFINE n == Len(q)
           a == SubSeq(q, 1, Fore)
           z == SubSeq(q, n - Rear + 1, n)
           e == a \o z
<1>0. /\ Fore \in Nat \ {0} /\ Rear \in Nat \ {0} /\ Longest \in Nat /\ Fore + Rear <= Longest
      /\ q \in Seq(Reachable) /\ n \in Nat
  BY DumpAssumption DEF Chain, Lines
<1>1. CASE n <= Longest
  BY <1>1 DEF Elided, Chain, Shown
<1>2. CASE ~(n <= Longest)
  <2>1. Elided(q) = e
    BY <1>2 DEF Elided
  <2>2. n > Fore + Rear
    <3> HIDE DEF n
    <3> QED
      BY <1>0, <1>2
  <2>3. a \in Seq(Reachable) /\ Len(a) = Fore /\ \A i \in 1 .. Fore : a[i] = q[i]
    <3>1. \A i \in 1 .. Fore : q[i] \in Reachable
      BY <1>0, <2>2
    <3> QED
      BY <1>0, <2>2, <3>1
  <2>4. /\ z \in Seq(Reachable) /\ Len(z) = Rear
        /\ \A i \in 1 .. Rear : z[i] = q[n - Rear + i]
    <3>1. n - Rear + 1 \in Nat /\ n - Rear + 1 >= 1 /\ n - (n - Rear + 1) + 1 = Rear
      BY <1>0, <2>2
    <3>2. \A i \in n - Rear + 1 .. n : q[i] \in Reachable
      BY <1>0, <2>2, <3>1
    <3>3. \A i \in 1 .. Rear : (n - Rear + 1) + i - 1 = n - Rear + i
      BY <1>0, <2>2
    <3> QED
      BY <1>0, <2>2, <3>1, <3>2, <3>3
  <2> HIDE DEF a, z
  <2>5. /\ Len(e) = Fore + Rear
        /\ \A i \in 1 .. Fore : e[i] = q[i]
        /\ \A i \in Fore + 1 .. Fore + Rear : e[i] = q[n - Rear + (i - Fore)]
    <3>0. /\ Len(e) = Len(a) + Len(z)
          /\ \A i \in 1 .. Len(a) : e[i] = a[i]
          /\ \A i \in Len(a) + 1 .. Len(a) + Len(z) : e[i] = z[i - Len(a)]
      <4>1. a \in Seq(Reachable) /\ z \in Seq(Reachable)
        BY <2>3, <2>4
      <4> QED
        BY <4>1, Joined
    <3> HIDE DEF e
    <3>1. Len(e) = Fore + Rear
      BY <3>0, <2>3, <2>4
    <3>2. \A i \in 1 .. Fore : e[i] = a[i]
      BY <3>0, <2>3
    <3>3. \A i \in Fore + 1 .. Fore + Rear : e[i] = z[i - Fore] /\ i - Fore \in 1 .. Rear
      BY <1>0, <3>0, <2>3, <2>4
    <3> QED
      BY <3>1, <3>2, <3>3, <2>3, <2>4
  <2> HIDE DEF e
  <2>6. e[1] = Root /\ e[Len(e)] = v
    <3>1. 1 \in 1 .. Fore /\ Fore + Rear \in Fore + 1 .. Fore + Rear /\ (Fore + Rear) - Fore = Rear
          /\ n - Rear + Rear = n
      BY <1>0
    <3>2. e[1] = q[1] /\ e[Fore + Rear] = q[n]
      BY <2>5, <3>1
    <3> QED
      BY <2>5, <3>2 DEF Chain
  <2>7. ASSUME NEW i \in 2 .. Len(e), i # Fore + 1 PROVE e[i] \in succ[e[i - 1]]
    <3>0. \A j \in 2 .. n : q[j] \in succ[q[j - 1]]
      BY DEF Chain
    <3>1. CASE i <= Fore
      <4>1. i \in 1 .. Fore /\ i - 1 \in 1 .. Fore /\ i \in 2 .. n
        BY <1>0, <2>2, <2>5, <3>1
      <4> QED
        BY <4>1, <2>5, <3>0
    <3>2. CASE ~(i <= Fore)
      <4> DEFINE j == n - Rear + (i - Fore)
      <4>1. /\ i \in Fore + 1 .. Fore + Rear /\ i - 1 \in Fore + 1 .. Fore + Rear
            /\ j \in 2 .. n /\ n - Rear + ((i - 1) - Fore) = j - 1
        BY <1>0, <2>2, <2>5, <2>7, <3>2
      <4>2. e[i] = q[j] /\ e[i - 1] = q[n - Rear + ((i - 1) - Fore)]
        BY <4>1, <2>5
      <4> HIDE DEF j
      <4> QED
        BY <4>1, <4>2, <3>0
    <3> QED
      BY <3>1, <3>2
  <2>8. Far(e[Len(e)])
    BY <1>2, <2>6
  <2> QED
    BY <2>1, <2>5, <2>6, <2>7, <2>8 DEF Shown
<1> QED
  BY <1>1, <1>2

\* What is said of a report that holds.
ReportOK(r) ==
  /\ r.about # None =>
       /\ r.about \in Live /\ Sizes(Freed(r.about)) * 4 >= Sizes(Live)
       /\ r.pattern = "single" => \A o \in Live : Sizes(Freed(o)) <= Sizes(Freed(r.about))
  /\ r.pile > 0 =>
       \E n \in Names : r.pile = Cardinality({o \in Freed(r.top) \ {r.top} : Name(o) = n})
  /\ \A q \in r.paths : \E v \in Live : Shown(q, v)

\* analyzeHprofDeep: whatever the order of the rows, its report holds.
LEMMA ReportHolds ==
  ASSUME IInv, NodesInv, pc = "done", NEW rows \in Sorted(Retained),
         NEW r, NEW p, p = LeakPattern(rows, Retained),
         NEW pile, pile = IF rows = <<>> THEN 0 ELSE Pile(rows[1]),
         r.pattern = p.pattern, r.about = p.about,
         r.pile = IF pile >= PileSize THEN pile ELSE 0,
         r.top = IF rows = <<>> THEN None ELSE rows[1],
         r.paths = {Elided(PathTo(v)) : v \in Picks(rows, Retained)}
  PROVE  ReportOK(r)
<1>1. DomTree /\ file \in FileType /\ GraphTypeOK /\ PathsAreShortest
  BY DoneIsTree DEF IInv, FileInv, PathsInv, GInv
<1>2. Live = Reachable \ {Root}
  BY <1>1, LiveIsReachable
<1>3. /\ \A i \in DOMAIN rows : rows[i] \in Live
      /\ rows # <<>> => 1 \in DOMAIN rows
  BY <1>1, RowsSorted
<1>4. r.about # None =>
        /\ r.about \in Live /\ Sizes(Freed(r.about)) * 4 >= Sizes(Live)
        /\ r.pattern = "single" => \A o \in Live : Sizes(Freed(o)) <= Sizes(Freed(r.about))
  BY <1>1, PatternHolds
<1>5. ASSUME r.pile > 0
      PROVE  \E n \in Names : r.pile = Cardinality({o \in Freed(r.top) \ {r.top} : Name(o) = n})
  <2>1. r.pile = pile /\ rows # <<>> /\ pile = Pile(rows[1]) /\ r.top = rows[1]
    BY <1>5
  <2>2. rows[1] \in Live
    BY <2>1, <1>3
  <2>3. \E n \in Names : Pile(rows[1]) = Cardinality({o \in Freed(rows[1]) \ {rows[1]} : Name(o) = n})
    BY <1>1, <1>5, <2>1, <2>2, PileHolds
  <2> QED
    BY <2>1, <2>3
<1>6. ASSUME NEW q \in r.paths PROVE \E v \in Live : Shown(q, v)
  <2>1. PICK v \in Picks(rows, Retained) : q = Elided(PathTo(v))
    BY <1>6
  <2>2. v \in Live
    BY <1>3 DEF Picks
  <2>3. Chain(PathTo(v), v) /\ PathTo(v)[1] = Root
    BY <2>2, <1>1, <1>2, PathHolds
  <2>4. ~(Len(PathTo(v)) <= Longest) => Far(v)
    BY <2>2, <1>1, <1>2, LongIsFar
  <2> QED
    BY <2>1, <2>2, <2>3, <2>4, ElidedHolds
<1> QED
  BY <1>4, <1>5, <1>6 DEF ReportOK

\* Of the states before the output and of an output without suspects nothing is
\* asked.
SuspectInv ==
  /\ NodesInv
  /\ pc # "shown" => report = NoReport
  /\ SuspectHoldsTheHeap

LEMMA NoSuspect ==
  ASSUME report.about = None, report.pile = 0, report.paths = {}
  PROVE  SuspectHoldsTheHeap
BY DEF SuspectHoldsTheHeap

\* What the property looks at, in a step that leaves the graph as it is.
LEMMA SuspectSame ==
  ASSUME UNCHANGED <<succ, nodes, file, idom>>, IInv, NodesInv
  PROVE  /\ NodesInv' /\ Live' = Live /\ Reachable' = Reachable
         /\ \A S : Sizes(S)' = Sizes(S)
         /\ \A o : Freed(o)' = Freed(o) /\ Name(o)' = Name(o)
         /\ \A v : Far(v)' = Far(v)
<1>1. Reachable' = Reachable /\ \A o : Freed(o)' = Freed(o)
  BY ReachableSame, FreedSame
<1>2. \A v : Size(v)' = Size(v) /\ Name(v)' = Name(v)
  BY DEF Size, Name
<1>3. NodeSize' = NodeSize
  BY <1>2 DEF NodeSize
<1>4. \A S : Sizes(S) = SumFunctionOnSet(NodeSize, S) /\ Sizes(S)' = SumFunctionOnSet(NodeSize', S)
  BY DEF Sizes, NodeSize
<1>5. \A v : Far(v)' = Far(v)
  BY HopsSame DEF Far
<1>6. NodesInv' /\ Live' = Live
  BY DEF NodesInv, Live
<1> QED
  BY <1>1, <1>2, <1>3, <1>4, <1>5, <1>6

LEMMA ReportSuspect == ASSUME IInv, SuspectInv, Report PROVE SuspectInv'
<1>1. /\ pc = "done" /\ pc' = "shown" /\ UNCHANGED <<succ, nodes, file, idom>> /\ NodesInv
  BY DEF Report, SuspectInv, sweep
<1>2. PICK rows \in Sorted(Retained) :
        LET p    == LeakPattern(rows, Retained)
            pile == IF rows = <<>> THEN 0 ELSE Pile(rows[1])
        IN  report' = [pattern |-> p.pattern, about |-> p.about,
                       pile |-> IF pile >= PileSize THEN pile ELSE 0,
                       top |-> IF rows = <<>> THEN None ELSE rows[1],
                       paths |-> {Elided(PathTo(v)) : v \in Picks(rows, Retained)},
                       verdict |-> IF p.pattern = "none" THEN DeepVerdict(rows, Retained) ELSE "none",
                       warned |-> Warned(hist)]
  BY DEF Report
<1>3. PICK p, pile, r :
        /\ p = LeakPattern(rows, Retained)
        /\ pile = IF rows = <<>> THEN 0 ELSE Pile(rows[1])
        /\ r = report'
        /\ r.pattern = p.pattern /\ r.about = p.about
        /\ r.pile = IF pile >= PileSize THEN pile ELSE 0
        /\ r.top = IF rows = <<>> THEN None ELSE rows[1]
        /\ r.paths = {Elided(PathTo(v)) : v \in Picks(rows, Retained)}
  BY <1>2
<1>4. ReportOK(r)
  BY <1>1, <1>3, ReportHolds
<1>5. Live = nodes \cap Reachable
  <2>1. DomTree
    BY <1>1, DoneIsTree DEF IInv
  <2> QED
    BY <2>1, <1>1, LiveIsReachable
<1>6. SuspectHoldsTheHeap'
  <2> DEFINE live == nodes \cap Reachable
  <2>1. /\ NodesInv' /\ (nodes \cap Reachable)' = Live
        /\ \A S : Sizes(S)' = Sizes(S)
        /\ \A o : Freed(o)' = Freed(o) /\ Name(o)' = Name(o)
        /\ succ' = succ /\ \A v : Far(v)' = Far(v)
    BY <1>1, <1>5, SuspectSame
  <2>2. r.about # None =>
          /\ r.about \in Live /\ Sizes(Freed(r.about)) * 4 >= Sizes(Live)
          /\ r.pattern = "single" => \A o \in Live : Sizes(Freed(o)) <= Sizes(Freed(r.about))
    BY <1>4 DEF ReportOK
  <2>3. r.pile > 0 =>
          \E n \in Names : r.pile = Cardinality({o \in Freed(r.top) \ {r.top} : Name(o) = n})
    BY <1>4 DEF ReportOK
  <2>4. \A q \in r.paths :
           /\ q[1] = Root /\ q[Len(q)] \in Live
           /\ \A i \in 2 .. Len(q) : \/ q[i] \in succ[q[i - 1]]
                                     \/ /\ Len(q) = Fore + Rear /\ i = Fore + 1
                                        /\ Far(q[Len(q)])
    BY <1>4 DEF ReportOK, Shown
  <2>5. \A o, n : {u \in Freed(o) \ {o} : Name(u) = n}' = {u \in Freed(o) \ {o} : Name(u) = n}
    BY <2>1
  <2> QED
    BY <2>1, <2>2, <2>3, <2>4, <2>5, <1>3 DEF SuspectHoldsTheHeap
<1>7. NodesInv'
  BY <1>1, SuspectSame
<1> QED
  BY <1>1, <1>6, <1>7 DEF SuspectInv

LEMMA SuspectStep == ASSUME IInv, SuspectInv, [Next]_vars PROVE SuspectInv'
<1>0. /\ NodesInv /\ (pc # "shown" => report = NoReport) /\ nodes \subseteq Objects
      /\ NoReport.about = None /\ NoReport.pile = 0 /\ NoReport.paths = {}
  BY DEF SuspectInv, IInv, FileInv, NoReport
<1>1. CASE Build
  <2>1. /\ pc # "shown" /\ report' = report /\ pc' = "dfs" /\ nodes' \in NodesMade
    BY <1>1 DEF Build
  <2>2. PICK part : succ' = [v \in Objects \cup {Root} |->
                  nodes' \cap IF v = Root THEN Edges(1, part) \cup Edges(NObjects + 2, part)
                              ELSE IF v \in nodes' THEN Edges(v + 1, part) ELSE {}]
    BY <1>1 DEF Build
  <2>3. NodesInv'
    <3>1. nodes' \subseteq Objects
      BY <2>1 DEF NodesMade, ObjectsIn, IInv, FileInv, FileType
    <3>2. \A v \in Nodes : succ'[v] \subseteq nodes'
      BY <2>2 DEF Nodes
    <3> QED
      BY <3>1, <3>2 DEF NodesInv
  <2>4. report' = NoReport
    BY <2>1, <1>0
  <2>5. SuspectHoldsTheHeap'
    BY <2>4, <1>0 DEF SuspectHoldsTheHeap
  <2> QED
    BY <2>3, <2>4, <2>5 DEF SuspectInv
<1>2. CASE HistogramOnly \/ Diff
  <2>1. pc' = "shown" /\ UNCHANGED <<succ, nodes>>
    BY <1>2 DEF HistogramOnly, Diff
  <2>2. report'.about = None /\ report'.pile = 0 /\ report'.paths = {}
    BY <1>2 DEF HistogramOnly, Diff, NoReport
  <2>3. NodesInv'
    BY <2>1, <1>0 DEF NodesInv
  <2>4. SuspectHoldsTheHeap'
    BY <2>2 DEF SuspectHoldsTheHeap
  <2> QED
    BY <2>1, <2>3, <2>4 DEF SuspectInv
<1>3. CASE First \/ (Analyse /\ UNCHANGED dump)
  <2>1. UNCHANGED <<succ, nodes, report>> /\ pc # "shown" /\ pc' # "shown"
    BY <1>3 DEF First, gvars, algorithm, dump, Analyse, Push, Pop, Searched, Load, Look, Climb,
                Settle, Again, Fixed, Visit, Found, Begin
  <2>2. report' = NoReport /\ NodesInv'
    BY <2>1, <1>0 DEF NodesInv
  <2>3. SuspectHoldsTheHeap'
    BY <2>2, <1>0 DEF SuspectHoldsTheHeap
  <2> QED
    BY <2>2, <2>3 DEF SuspectInv
<1>4. CASE Report
  BY <1>4, ReportSuspect
<1>5. CASE UNCHANGED vars
  <2>1. UNCHANGED <<succ, nodes, file, idom, pc, report>>
    BY <1>5 DEF vars, gvars, algorithm, sweep, dump
  <2>2. /\ NodesInv' /\ Reachable' = Reachable /\ \A S : Sizes(S)' = Sizes(S)
        /\ \A o : Freed(o)' = Freed(o) /\ Name(o)' = Name(o) /\ Far(o)' = Far(o)
    BY <1>0, <2>1, SuspectSame
  <2>3. SuspectHoldsTheHeap'
    BY <2>1, <2>2 DEF SuspectInv, SuspectHoldsTheHeap
  <2> QED
    BY <2>1, <2>2, <2>3, <1>0 DEF SuspectInv
<1> QED
  BY <1>1, <1>2, <1>3, <1>4, <1>5 DEF Next

LEMMA SuspectInit == Init => SuspectInv
<1> SUFFICES ASSUME Init PROVE SuspectInv
  OBVIOUS
<1>1. /\ nodes = {} /\ report = NoReport /\ succ = [v \in Objects \cup {Root} |-> {}]
  BY DEF Init
<1>2. NodesInv
  BY <1>1 DEF NodesInv, Nodes
<1>3. SuspectHoldsTheHeap
  BY <1>1, NoSuspect DEF NoReport
<1> QED
  BY <1>1, <1>2, <1>3 DEF SuspectInv

\* leakPattern in every branch, accumulationPoint and renderPaths, on any graph,
\* whatever the order of the rows that retain the same and wherever the middle of
\* a long path is cut out.
THEOREM SuspectTheorem == Spec => []SuspectHoldsTheHeap
<1>1. SuspectInv => SuspectHoldsTheHeap
  BY DEF SuspectInv
<1>2. IInv /\ SuspectInv /\ [Next]_vars => IInv' /\ SuspectInv'
  BY NextIInv, SuspectStep
<1> QED
  BY <1>1, <1>2, InitIInv, SuspectInit, PTL DEF Spec
=============================================================================
