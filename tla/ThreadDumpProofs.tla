-------------------------- MODULE ThreadDumpProofs --------------------------
(***************************************************************************)
(* Proofs about ThreadDump: whatever the order in which the starts are     *)
(* taken, each cycle that deadlockCycles reports is a deadlock of the JVM  *)
(* and none is reported twice; no deadlock is missed; and "nothing         *)
(* alarming" is said only of a JVM that has none.                          *)
(*                                                                         *)
(* There are two halves.  The walk: on any graph in which an edge is of    *)
(* the waits-for relation (GraphOK), the walk keeps WalkInv.  The reading: *)
(* what the parser makes of what the JVM prints is such a graph, for text  *)
(* (TextReading) and for JSON (JSONReading).                               *)
(*                                                                         *)
(* All of it is under DistinctNames: a dump and deadlockCycles tell        *)
(* threads by their names, and two of one name are taken for each other.   *)
(***************************************************************************)
EXTENDS ThreadDump, FiniteSetTheorems, WellFoundedInduction, TLAPS

---------------------------------------------------------------------------
(* Induction, and sequences.                                               *)

\* A set of natural numbers has a least one.
LEMMA LeastOf ==
  ASSUME NEW T \in SUBSET Nat, T # {}
  PROVE  \E k \in T : \A y \in T : k <= y
<1> DEFINE R == OpToRel(<, Nat)
<1>1. IsWellFoundedOn(R, Nat)
  BY NatLessThanWellFounded, Zenon DEF OpToRel
<1>2. \A x, y \in Nat : x < y => <<x, y>> \in R
  BY DEF OpToRel
<1> HIDE DEF R
<1>3. PICK k \in T : \A y \in T : ~(<<y, k>> \in R)
  BY <1>1, WFMin
<1>4. ASSUME NEW y \in T PROVE k <= y
  <2>1. ~(y < k)
    BY <1>2, <1>3
  <2> QED
    BY <2>1
<1> QED
  BY <1>4

\* Induction over the natural numbers, for a set of them.
LEMMA NatSetInduction ==
  ASSUME NEW S, 0 \in S, \A n \in Nat : n \in S => n + 1 \in S
  PROVE  Nat \subseteq S
<1> SUFFICES ASSUME Nat \ S # {} PROVE FALSE
  OBVIOUS
<1>1. PICK k \in Nat \ S : \A y \in Nat \ S : k <= y
  BY LeastOf
<1>2. k # 0 /\ k - 1 \in Nat
  OBVIOUS
<1>3. k - 1 \in S
  BY <1>1, <1>2
<1>4. (k - 1) + 1 \in S
  BY <1>2, <1>3
<1> QED
  BY <1>4

\* What Append makes of a sequence.
LEMMA AppendIs ==
  ASSUME NEW S, NEW s \in Seq(S), NEW e \in S
  PROVE  /\ Append(s, e) \in Seq(S) /\ DOMAIN Append(s, e) = 1 .. Len(s) + 1
         /\ Append(s, e)[Len(s) + 1] = e
         /\ \A k \in 1 .. Len(s) : Append(s, e)[k] = s[k]
<1> QED
  OBVIOUS
---------------------------------------------------------------------------
(* The graph of the dump, as the walk finds it.                            *)

Entries  == DOMAIN dump.threads
WhoAt(i) == CHOOSE t \in Threads : jvm.name[t] = NameAt(i)

\* What the entry says of the edges of its thread is all there is: the names at
\* the head of jstack's section have none.
Linked(i) == i \in Entries /\ \A u \in Threads : WaitsOn(WhoAt(i), u) => i \in DOMAIN next

\* An entry is of a thread, and an edge is to an entry of the thread that is
\* waited for, to the same one from all of the entries of the thread that waits.
GraphOK ==
  /\ \A t, u \in Threads : jvm.name[t] = jvm.name[u] => t = u
  /\ Entries \subseteq Nat \ {0}
  /\ \A i \in Entries : WhoAt(i) \in Threads /\ jvm.name[WhoAt(i)] = NameAt(i)
  /\ DOMAIN next \subseteq Entries
  /\ \A i \in DOMAIN next : Linked(next[i]) /\ WaitsOn(WhoAt(i), WhoAt(next[i]))
  /\ \A i, j \in DOMAIN next : WhoAt(i) = WhoAt(j) => next[i] = next[j]

\* The path that the walk is on: edges, to entries that are new.
PathOK ==
  cur # 0 =>
    /\ Linked(cur) /\ path \in Seq(DOMAIN next)
    /\ \A i, j \in DOMAIN path : path[i] = path[j] => i = j
    /\ \A i \in 1 .. Len(path) - 1 : next[path[i]] = path[i + 1]
    /\ Len(path) > 0 => next[path[Len(path)]] = cur
    /\ \A i \in DOMAIN path : path[i] \notin seen

\* What is done with: where its edges lead is done with, and a deadlock that has
\* an entry there is reported.
SeenOK ==
  /\ seen \subseteq Entries
  /\ \A i \in seen \cap DOMAIN next : next[i] \in seen
FoundOK ==
  \A D \in Deadlocks : (\E i \in seen : WhoAt(i) \in D) =>
                          \E k \in DOMAIN cycles : Who(cycles[k]) = D

\* What is reported is done with.
NameSeqs == Seq({jvm.name[t] : t \in Threads})
KeptOK ==
  /\ cycles \in Seq(NameSeqs)
  /\ \A k \in DOMAIN cycles : \A t \in Who(cycles[k]) :
       \E i \in seen \cap DOMAIN next : WhoAt(i) = t

\* What is reported is so, once.
CycleIsReal(c) ==
  /\ Who(c) \in Deadlocks
  /\ Cardinality(Who(c)) = Len(c)
  /\ \A i \in DOMAIN c : \E t, u \in Threads :
       /\ jvm.name[t] = c[i] /\ WaitsOn(t, u)
       /\ jvm.name[u] = c[(i % Len(c)) + 1]
RealOK ==
  /\ \A k \in DOMAIN cycles : CycleIsReal(cycles[k])
  /\ \A k, m \in DOMAIN cycles : k # m => Who(cycles[k]) # Who(cycles[m])

\* Nothing is left out.
LeftOK ==
  /\ left \subseteq DOMAIN next
  /\ pc \in {"walk", "shown"} =>
       \A i \in DOMAIN next \ (left \cup seen) :
         cur # 0 /\ (i = cur \/ \E j \in DOMAIN path : path[j] = i)
  /\ pc = "shown" => cur = 0 /\ left = {}

WalkInv == GraphOK /\ PathOK /\ SeenOK /\ FoundOK /\ KeptOK /\ LeftOK /\ RealOK

---------------------------------------------------------------------------
(* Rings: cycles of the graph.                                             *)

IsRing(q) ==
  /\ q \in Seq(DOMAIN next) /\ Len(q) > 0
  /\ \A i, j \in DOMAIN q : q[i] = q[j] => i = j
  /\ \A i \in 1 .. Len(q) - 1 : next[q[i]] = q[i + 1]
  /\ next[q[Len(q)]] = q[1]

After(n, i) == IF i = n THEN 1 ELSE i + 1
\* The index after the last one is the first.
LEMMA AfterIs ==
  ASSUME NEW n \in Nat \ {0}, NEW i \in 1 .. n
  PROVE  (i % n) + 1 = After(n, i) /\ After(n, i) \in 1 .. n
<1>1. CASE i = n
  BY <1>1 DEF After
<1>2. CASE i # n
  BY <1>2 DEF After
<1> QED
  BY <1>1, <1>2

\* A visit to what is on the path closes a ring, from there on.
LEMMA RingOfPath ==
  ASSUME GraphOK, PathOK, cur # 0, OnPath
  PROVE  LET q == SubSeq(path, CHOOSE p \in DOMAIN path : path[p] = cur, Len(path))
         IN  IsRing(q) /\ q[1] = cur /\ \A i \in DOMAIN q : \E j \in DOMAIN path : q[i] = path[j]
<1> DEFINE p == CHOOSE p \in DOMAIN path : path[p] = cur
           q == SubSeq(path, p, Len(path))
<1>1. path \in Seq(DOMAIN next) /\ Len(path) \in Nat /\ DOMAIN path = 1 .. Len(path)
  BY DEF PathOK
<1>2. p \in 1 .. Len(path) /\ path[p] = cur
  BY <1>1 DEF OnPath, ToSet
<1> HIDE DEF p
<1>3. /\ q \in Seq(DOMAIN next) /\ Len(q) = Len(path) - p + 1 /\ DOMAIN q = 1 .. Len(q)
      /\ \A i \in 1 .. Len(q) : q[i] = path[p + i - 1]
  BY <1>1, <1>2
<1> HIDE DEF q
<1>4. Len(q) \in Nat \ {0} /\ \A i \in 1 .. Len(q) : p + i - 1 \in DOMAIN path
  BY <1>1, <1>2, <1>3
<1>5. q[1] = cur
  BY <1>2, <1>3, <1>4
<1>6. \A i, j \in DOMAIN q : q[i] = q[j] => i = j
  <2> SUFFICES ASSUME NEW i \in 1 .. Len(q), NEW j \in 1 .. Len(q), q[i] = q[j] PROVE i = j
    BY <1>3
  <2>1. path[p + i - 1] = path[p + j - 1]
    BY <1>3
  <2>2. p + i - 1 = p + j - 1
    BY <2>1, <1>4 DEF PathOK
  <2> QED
    BY <2>2, <1>2
<1>7. ASSUME NEW i \in 1 .. Len(q) - 1 PROVE next[q[i]] = q[i + 1]
  <2>1. i \in 1 .. Len(q) /\ i + 1 \in 1 .. Len(q) /\ p + i - 1 \in 1 .. Len(path) - 1
        /\ (p + i - 1) + 1 = p + (i + 1) - 1
    BY <1>1, <1>2, <1>3, <1>4
  <2>2. next[path[p + i - 1]] = path[(p + i - 1) + 1]
    BY <2>1 DEF PathOK
  <2> QED
    BY <2>1, <2>2, <1>3
<1>8. next[q[Len(q)]] = q[1]
  <2>1. q[Len(q)] = path[Len(path)]
    BY <1>1, <1>2, <1>3, <1>4
  <2> QED
    BY <2>1, <1>1, <1>2, <1>5 DEF PathOK
<1>9. IsRing(q)
  BY <1>3, <1>4, <1>6, <1>7, <1>8 DEF IsRing
<1>10. \A i \in DOMAIN q : \E j \in DOMAIN path : q[i] = path[j]
  BY <1>3, <1>4
<1> QED
  BY <1>5, <1>9, <1>10 DEF q, p

\* A set of threads that each wait for one of the set has the whole ring if it
\* has one of the ring.
LEMMA RingWhole ==
  ASSUME GraphOK, NEW q, IsRing(q), NEW S, Image(S) \subseteq S, S \subseteq Threads,
         NEW i \in DOMAIN q, WhoAt(q[i]) \in S
  PROVE  \A j \in DOMAIN q : WhoAt(q[j]) \in S
<1>1. /\ q \in Seq(DOMAIN next) /\ Len(q) \in Nat \ {0} /\ DOMAIN q = 1 .. Len(q)
  BY DEF IsRing
<1>2. ASSUME NEW e \in DOMAIN next, WhoAt(e) \in S PROVE WhoAt(next[e]) \in S
  BY <1>2 DEF GraphOK, Linked, Image
<1>3. ASSUME NEW k \in DOMAIN q, WhoAt(q[k]) \in S
      PROVE  \A j \in DOMAIN q : j >= k => WhoAt(q[j]) \in S
  <2> DEFINE T == {d \in Nat : k + d <= Len(q) => WhoAt(q[k + d]) \in S}
  <2>1. 0 \in T
    BY <1>1, <1>3
  <2>2. ASSUME NEW d \in Nat, d \in T PROVE d + 1 \in T
    <3> SUFFICES ASSUME k + (d + 1) <= Len(q) PROVE WhoAt(q[k + (d + 1)]) \in S
      OBVIOUS
    <3>1. k + d \in 1 .. Len(q) - 1 /\ (k + d) + 1 = k + (d + 1) /\ k + d \in DOMAIN q
      BY <1>1
    <3>2. WhoAt(q[k + d]) \in S /\ q[k + d] \in DOMAIN next
      BY <3>1, <2>2, <1>1
    <3>3. next[q[k + d]] = q[(k + d) + 1]
      BY <3>1 DEF IsRing
    <3> QED
      BY <3>1, <3>2, <3>3, <1>2
  <2>3. Nat \subseteq T
    <3> HIDE DEF T
    <3> QED
      BY <2>1, <2>2, NatSetInduction
  <2> SUFFICES ASSUME NEW j \in DOMAIN q, j >= k PROVE WhoAt(q[j]) \in S
    OBVIOUS
  <2>4. j - k \in Nat /\ k + (j - k) = j /\ j <= Len(q)
    BY <1>1
  <2> QED
    BY <2>3, <2>4
<1>4. Len(q) \in DOMAIN q /\ Len(q) >= i /\ 1 \in DOMAIN q
  BY <1>1
<1>5. WhoAt(q[Len(q)]) \in S /\ q[Len(q)] \in DOMAIN next
  BY <1>1, <1>3, <1>4
<1>6. WhoAt(q[1]) \in S
  BY <1>2, <1>5 DEF IsRing
<1> QED
  BY <1>1, <1>3, <1>4, <1>6

NamesOf(q) == [i \in DOMAIN q |-> NameAt(q[i])]
\* The names of a ring are those of a deadlock, each waiting for the next.
LEMMA RingIsReal ==
  ASSUME GraphOK, NEW q, IsRing(q)
  PROVE  /\ Who(NamesOf(q)) = {WhoAt(q[i]) : i \in DOMAIN q}
         /\ NamesOf(q) \in NameSeqs
         /\ CycleIsReal(NamesOf(q))
<1> DEFINE c == NamesOf(q)
           n == Len(q)
           W == {WhoAt(q[i]) : i \in DOMAIN q}
<1>1. /\ q \in Seq(DOMAIN next) /\ n \in Nat \ {0} /\ DOMAIN q = 1 .. n
      /\ \A i \in DOMAIN q : q[i] \in DOMAIN next /\ q[i] \in Entries
  BY DEF IsRing, GraphOK, Linked
<1>2. \A i \in DOMAIN q : WhoAt(q[i]) \in Threads /\ jvm.name[WhoAt(q[i])] = NameAt(q[i])
  BY <1>1 DEF GraphOK, Linked
<1>3. /\ DOMAIN c = 1 .. n /\ Len(c) = n /\ c \in Seq({jvm.name[t] : t \in Threads})
      /\ \A i \in DOMAIN q : c[i] = NameAt(q[i])
  BY <1>1, <1>2 DEF NamesOf
<1> HIDE DEF c, n
<1>4. \A i \in DOMAIN q : After(n, i) \in DOMAIN q /\ next[q[i]] = q[After(n, i)]
                         /\ (i % n) + 1 = After(n, i)
  <2> SUFFICES ASSUME NEW i \in 1 .. n
               PROVE  After(n, i) \in 1 .. n /\ next[q[i]] = q[After(n, i)]
                      /\ (i % n) + 1 = After(n, i)
    BY <1>1
  <2>1. CASE i = n
    BY <2>1, <1>1, AfterIs DEF After, IsRing, n
  <2>2. CASE i # n
    <3>1. i \in 1 .. n - 1
      BY <2>2, <1>1
    <3> QED
      BY <3>1, <2>2, <1>1, AfterIs DEF After, IsRing, n
  <2> QED
    BY <2>1, <2>2
<1>5. \A i \in DOMAIN q : WaitsOn(WhoAt(q[i]), WhoAt(q[After(n, i)]))
  BY <1>1, <1>4 DEF GraphOK, Linked
<1>6. Who(c) = W
  <2>1. ToSet(c) = {NameAt(q[i]) : i \in DOMAIN q}
    BY <1>1, <1>3 DEF ToSet
  <2> QED
    BY <2>1, <1>2 DEF Who, GraphOK
<1>7. W \subseteq Threads /\ W # {}
  BY <1>1, <1>2
<1>8. Image(W) = W
  <2>1. ASSUME NEW t \in W PROVE t \in Image(W)
    <3>1. PICK i \in 1 .. n : t = WhoAt(q[i])
      BY <1>1
    <3>2. \E j \in 1 .. n : After(n, j) = i
      <4>1. CASE i = 1
        BY <4>1, <1>1 DEF After
      <4>2. CASE i # 1
        <5>1. i - 1 \in 1 .. n /\ i - 1 # n /\ (i - 1) + 1 = i
          BY <4>2, <1>1
        <5> QED
          BY <5>1 DEF After
      <4> QED
        BY <4>1, <4>2
    <3> QED
      BY <3>1, <3>2, <1>1, <1>2, <1>5 DEF Image
  <2>2. ASSUME NEW u \in Image(W) PROVE u \in W
    <3>1. PICK i \in DOMAIN q : WaitsOn(WhoAt(q[i]), u)
      BY DEF Image
    <3>2. u = WhoAt(q[After(n, i)])
      BY <3>1, <1>5 DEF WaitsOn
    <3> QED
      BY <3>2, <1>4
  <2> QED
    BY <2>1, <2>2
<1>9. W \in Deadlocks
  <2>1. ASSUME NEW D \in (SUBSET Threads) \ {{}}, Image(D) = D, D \subseteq W PROVE D = W
    <3>1. PICK t \in D : TRUE
      BY <2>1
    <3>2. PICK i \in DOMAIN q : t = WhoAt(q[i])
      BY <2>1, <3>1
    <3>3. \A j \in DOMAIN q : WhoAt(q[j]) \in D
      BY <2>1, <3>2, RingWhole
    <3> QED
      BY <2>1, <3>3
  <2> HIDE DEF W
  <2>2. W \in (SUBSET Threads) \ {{}}
    BY <1>7
  <2> QED
    BY <2>1, <2>2, <1>8 DEF Deadlocks
<1>10. Cardinality(W) = n
  <2> DEFINE f == [i \in 1 .. n |-> WhoAt(q[i])]
  <2>1. ASSUME NEW i \in 1 .. n, NEW j \in 1 .. n, WhoAt(q[i]) = WhoAt(q[j]) PROVE i = j
    <3>1. next[q[i]] = next[q[j]]
      BY <2>1, <1>1 DEF GraphOK, Linked
    <3>2. q[After(n, i)] = q[After(n, j)]
      BY <3>1, <1>1, <1>4
    <3>3. After(n, i) = After(n, j)
      BY <3>2, <1>1, <1>4 DEF IsRing
    <3> QED
      BY <3>3, <1>1 DEF After
  <2>2. f \in Bijection(1 .. n, W)
    BY <2>1, <1>1 DEF Bijection, Injection, Surjection, IsInjective
  <2>3. ExistsBijection(1 .. n, W)
    BY <2>2 DEF ExistsBijection
  <2> HIDE DEF W, f
  <2>4. IsFiniteSet(1 .. n) /\ Cardinality(1 .. n) = n
    BY <1>1, FS_Interval
  <2> QED
    BY <2>3, <2>4, FS_Bijection
<1>11. \A i \in DOMAIN c : \E t, u \in Threads :
         jvm.name[t] = c[i] /\ WaitsOn(t, u) /\ jvm.name[u] = c[(i % Len(c)) + 1]
  <2> SUFFICES ASSUME NEW i \in DOMAIN q
               PROVE  \E t, u \in Threads :
                        jvm.name[t] = c[i] /\ WaitsOn(t, u) /\ jvm.name[u] = c[(i % Len(c)) + 1]
    BY <1>1, <1>3
  <2>1. (i % Len(c)) + 1 = After(n, i) /\ After(n, i) \in DOMAIN q
    BY <1>3, <1>4
  <2> QED
    BY <2>1, <1>2, <1>3, <1>5
<1> QED
  BY <1>3, <1>6, <1>9, <1>10, <1>11 DEF c, CycleIsReal, NameSeqs

---------------------------------------------------------------------------
(* The walk keeps its invariant.                                           *)

\* A deadlock is a least set of threads that is its own image.
LEMMA DeadlockIs ==
  ASSUME NEW D \in Deadlocks
  PROVE  /\ D \subseteq Threads /\ D # {} /\ Image(D) = D
         /\ \A E \in Deadlocks : E \subseteq D => E = D
<1> QED
  BY DEF Deadlocks

\* By counting: a deadlock one of whose threads waits for none has fewer threads
\* that wait than are waited for.
LEMMA DeadlockWaits ==
  ASSUME NEW D \in Deadlocks, NEW t \in D
  PROVE  \E u \in D : WaitsOn(t, u)
<1>1. D \subseteq Threads /\ Image(D) = D
  BY DeadlockIs
<1> SUFFICES ASSUME \A u \in Threads : ~WaitsOn(t, u) PROVE FALSE
  BY <1>1 DEF Image
<1> DEFINE f == [u \in D |-> CHOOSE s \in D \ {t} : WaitsOn(s, u)]
<1>2. \A u \in D : f[u] \in D \ {t} /\ WaitsOn(f[u], u)
  BY <1>1 DEF Image
<1>3. f \in [D -> D \ {t}]
  BY <1>2
<1> HIDE DEF f
<1>4. IsFiniteSet(D)
  <2>1. IsFiniteSet(Threads)
    BY ThreadsAssumption, FS_Interval DEF Threads
  <2> QED
    BY <2>1, <1>1, FS_Subset
<1>5. Cardinality(D \ {t}) = Cardinality(D) - 1 /\ IsFiniteSet(D \ {t})
      /\ Cardinality(D) \in Nat
  BY <1>4, FS_RemoveElement, FS_CardinalityType
<1>6. PICK u \in D, v \in D : u # v /\ f[u] = f[v]
  BY <1>3, <1>4, <1>5, FS_PigeonHole
<1>7. WaitsOn(f[u], u) /\ WaitsOn(f[u], v)
  BY <1>2, <1>6
<1> QED
  BY <1>6, <1>7 DEF WaitsOn

\* A deadlock with a thread on the path has the thread of the next entry.
LEMMA PathForward ==
  ASSUME GraphOK, PathOK, cur # 0, NEW D \in Deadlocks, NEW i \in DOMAIN path,
         WhoAt(path[i]) \in D
  PROVE  WhoAt(cur) \in D
<1>1. /\ path \in Seq(DOMAIN next) /\ Len(path) \in Nat /\ DOMAIN path = 1 .. Len(path)
  BY DEF PathOK, Linked
<1>2. ASSUME NEW e \in DOMAIN next, WhoAt(e) \in D PROVE WhoAt(next[e]) \in D
  <2>1. WaitsOn(WhoAt(e), WhoAt(next[e])) /\ WhoAt(next[e]) \in Threads
    BY DEF GraphOK, Linked
  <2>2. WhoAt(next[e]) \in Image(D)
    BY <1>2, <2>1 DEF Image
  <2> QED
    BY <2>2, DeadlockIs
<1> DEFINE T == {d \in Nat : i + d <= Len(path) => WhoAt(path[i + d]) \in D}
<1>3. 0 \in T
  BY <1>1
<1>4. ASSUME NEW d \in Nat, d \in T PROVE d + 1 \in T
  <2> SUFFICES ASSUME i + (d + 1) <= Len(path) PROVE WhoAt(path[i + (d + 1)]) \in D
    OBVIOUS
  <2>1. i + d \in 1 .. Len(path) - 1 /\ (i + d) + 1 = i + (d + 1) /\ i + d \in DOMAIN path
    BY <1>1
  <2>2. WhoAt(path[i + d]) \in D /\ path[i + d] \in DOMAIN next
    BY <2>1, <1>4, <1>1
  <2>3. next[path[i + d]] = path[(i + d) + 1]
    BY <2>1 DEF PathOK, Linked
  <2> QED
    BY <2>1, <2>2, <2>3, <1>2
<1>5. Nat \subseteq T
  <2> HIDE DEF T
  <2> QED
    BY <1>3, <1>4, NatSetInduction
<1>6. Len(path) - i \in Nat /\ i + (Len(path) - i) = Len(path) /\ Len(path) \in DOMAIN path
  BY <1>1
<1>7. WhoAt(path[Len(path)]) \in D /\ path[Len(path)] \in DOMAIN next
  BY <1>1, <1>5, <1>6
<1>8. next[path[Len(path)]] = cur
  BY <1>6, <1>1 DEF PathOK, Linked
<1> QED
  BY <1>2, <1>7, <1>8

\* What the walk leaves alone.
Rest == <<jvm, dump, next>>

\* What is said of the graph and the JVM holds as long as they stay.
LEMMA SameGraph ==
  ASSUME Rest' = Rest
  PROVE  /\ Entries' = Entries /\ Deadlocks' = Deadlocks /\ (GraphOK => GraphOK')
         /\ \A i : Linked(i)' = Linked(i)
         /\ \A i : WhoAt(i)' = WhoAt(i)
         /\ \A c : Who(c)' = Who(c)
         /\ NameSeqs' = NameSeqs
         /\ \A c : CycleIsReal(c)' = CycleIsReal(c)
<1>1. jvm' = jvm /\ dump' = dump /\ next' = next
  BY DEF Rest
<1>2. /\ Entries' = Entries /\ \A i : WhoAt(i)' = WhoAt(i)
      /\ \A i : NameAt(i)' = NameAt(i)
  BY <1>1 DEF Entries, WhoAt, NameAt
<1>3. \A t, u : WaitsOn(t, u)' = WaitsOn(t, u)
  BY <1>1 DEF WaitsOn
<1>9. \A i : Linked(i)' = Linked(i)
  BY <1>1, <1>2, <1>3 DEF Linked
<1>4. GraphOK => GraphOK'
  BY <1>1, <1>2, <1>3, <1>9 DEF GraphOK
<1>5. Deadlocks' = Deadlocks
  BY <1>1 DEF Deadlocks, Image, WaitsOn
<1>6. \A c : Who(c)' = Who(c)
  BY <1>1 DEF Who
<1>8. NameSeqs' = NameSeqs
  BY <1>1 DEF NameSeqs
<1>7. \A c : CycleIsReal(c)' = CycleIsReal(c)
  BY <1>1, <1>3, <1>5, <1>6 DEF CycleIsReal
<1> QED
  BY <1>2, <1>4, <1>5, <1>6, <1>7, <1>8, <1>9

\* A start, of what is left.
LEMMA StartKeeps ==
  ASSUME WalkInv, Start
  PROVE  WalkInv'
<1> USE DEF Start
<1>1. Rest' = Rest /\ cycles' = cycles /\ seen' = seen /\ pc' = pc
  BY DEF Rest
<1>2. PICK s \in left : left' = left \ {s} /\ cur' = IF s \in seen THEN 0 ELSE s
  OBVIOUS
<1>3. s \in DOMAIN next /\ s \in Entries /\ s # 0
  BY <1>2 DEF WalkInv, LeftOK, GraphOK, Linked
<1>4. GraphOK' /\ next' = next
  BY <1>1, SameGraph DEF WalkInv, Rest
<1>5. PathOK'
  <2>1. path' = <<>> /\ Entries' = Entries /\ (cur' # 0 => cur' = s)
    BY <1>1, <1>2, SameGraph
  <2>2. path' \in Seq(DOMAIN next') /\ DOMAIN path' = {} /\ Len(path') = 0 /\ 1 .. Len(path') - 1 = {}
    BY <2>1
  <2> QED
    BY <1>3, <2>1, <2>2 DEF PathOK, Linked
<1>6. SeenOK'
  BY <1>1, SameGraph DEF WalkInv, SeenOK, Rest
<1>7. FoundOK'
  BY <1>1, SameGraph DEF WalkInv, FoundOK
<1>8. KeptOK'
  <2>1. jvm' = jvm /\ next' = next
    BY <1>1 DEF Rest
  <2> QED
    BY <2>1, <1>1, SameGraph DEF WalkInv, KeptOK
<1>9. LeftOK'
  <2>1. \A i \in DOMAIN next \ (left' \cup seen) : cur' = i /\ cur' # 0
    BY <1>2, <1>3 DEF WalkInv, LeftOK
  <2> QED
    BY <1>1, <1>2, <1>4, <2>1 DEF WalkInv, LeftOK
<1>10. RealOK'
  BY <1>1, SameGraph DEF WalkInv, RealOK
<1> QED
  BY <1>4, <1>5, <1>6, <1>7, <1>8, <1>9, <1>10 DEF WalkInv

\* A visit that goes on.
More == ~OnPath /\ cur \notin seen /\ cur \in DOMAIN next

\* Such a visit keeps the invariant.
LEMMA GoesOnKeeps ==
  ASSUME WalkInv, Visit, More
  PROVE  WalkInv'
<1> USE DEF Visit, More
<1>1. /\ Rest' = Rest /\ cycles' = cycles /\ seen' = seen /\ pc' = pc /\ left' = left /\ next' = next
      /\ path' = Append(path, cur) /\ cur' = next[cur] /\ pc = "walk"
  BY DEF Rest
<1>2. GraphOK'
  BY <1>1, SameGraph DEF WalkInv
<1>3. /\ path \in Seq(DOMAIN next) /\ Len(path) \in Nat /\ DOMAIN path = 1 .. Len(path)
      /\ \A i \in DOMAIN path : path[i] # cur
  BY DEF WalkInv, PathOK, Linked, OnPath, ToSet
<1>4. /\ path' \in Seq(DOMAIN next) /\ Len(path') = Len(path) + 1
      /\ DOMAIN path' = 1 .. Len(path) + 1 /\ path'[Len(path) + 1] = cur
      /\ \A i \in 1 .. Len(path) : path'[i] = path[i]
  BY <1>1, <1>3
<1>5. PathOK'
  <2>1. Linked(cur)'
    BY <1>1, SameGraph DEF WalkInv, GraphOK, Linked
  <2>2. \A i, j \in DOMAIN path' : path'[i] = path'[j] => i = j
    BY <1>3, <1>4 DEF WalkInv, PathOK, Linked
  <2>7. Len(path') = Len(path) + 1 /\ Len(path) \in Nat
    BY <1>3, <1>4
  <2>3. ASSUME NEW i \in 1 .. Len(path') - 1 PROVE next[path'[i]] = path'[i + 1]
    <3>1. CASE i = Len(path)
      BY <3>1, <1>3, <1>4 DEF WalkInv, PathOK, Linked
    <3>2. CASE i # Len(path)
      <4>1. i \in 1 .. Len(path) - 1 /\ i + 1 \in 1 .. Len(path) /\ i \in 1 .. Len(path)
        BY <3>2, <2>7
      <4> QED
        BY <4>1, <1>4 DEF WalkInv, PathOK, Linked
    <3> QED
      BY <3>1, <3>2
  <2>4. next[path'[Len(path')]] = cur'
    BY <1>1, <1>4
  <2>5. \A i \in DOMAIN path' : path'[i] \notin seen
    BY <1>3, <1>4 DEF WalkInv, PathOK, Linked
  <2> QED
    BY <1>1, <1>4, <2>1, <2>2, <2>3, <2>4, <2>5 DEF PathOK, Linked
<1>6. SeenOK'
  BY <1>1, SameGraph DEF WalkInv, SeenOK
<1>7. FoundOK'
  BY <1>1, SameGraph DEF WalkInv, FoundOK
<1>8. KeptOK'
  <2>1. jvm' = jvm
    BY <1>1 DEF Rest
  <2> QED
    BY <2>1, <1>1, SameGraph DEF WalkInv, KeptOK
<1>9. LeftOK'
  <2>1. cur' # 0
    BY <1>1 DEF WalkInv, GraphOK, Linked
  <2>2. \A i \in DOMAIN next \ (left \cup seen) : \E j \in DOMAIN path' : path'[j] = i
    <3> SUFFICES ASSUME NEW i \in DOMAIN next \ (left \cup seen)
                 PROVE  \E j \in DOMAIN path' : path'[j] = i
      OBVIOUS
    <3>1. i = cur \/ \E j \in DOMAIN path : path[j] = i
      BY <1>1 DEF WalkInv, LeftOK
    <3> QED
      BY <3>1, <1>3, <1>4
  <2> QED
    BY <1>1, <2>1, <2>2 DEF WalkInv, LeftOK
<1>10. RealOK'
  BY <1>1, SameGraph DEF WalkInv, RealOK
<1> QED
  BY <1>2, <1>5, <1>6, <1>7, <1>8, <1>9, <1>10 DEF WalkInv

\* A visit that ends the walk of its start.
LEMMA EndsKeeps ==
  ASSUME WalkInv, Visit, ~More
  PROVE  WalkInv'
<1> DEFINE q == SubSeq(path, CHOOSE p \in DOMAIN path : path[p] = cur, Len(path))
<1>1. /\ Rest' = Rest /\ pc' = pc /\ left' = left /\ next' = next /\ jvm' = jvm /\ pc = "walk"
      /\ cur' = 0 /\ cur # 0 /\ seen' = seen \cup ToSet(path) \cup {cur}
      /\ IF OnPath THEN cycles' = Append(cycles, NamesOf(q)) ELSE cycles' = cycles
  BY DEF Rest, Visit, More, NamesOf
<1> USE DEF WalkInv
<1>2. /\ path \in Seq(DOMAIN next) /\ DOMAIN path = 1 .. Len(path) /\ Len(path) \in Nat
      /\ ToSet(path) = {path[i] : i \in DOMAIN path} /\ cur \in Entries
  BY <1>1 DEF PathOK, Linked, ToSet
<1>3. OnPath => /\ IsRing(q) /\ q[1] = cur /\ \A i \in DOMAIN q : q[i] \in ToSet(path)
                /\ Who(NamesOf(q)) = {WhoAt(q[i]) : i \in DOMAIN q}
                /\ NamesOf(q) \in NameSeqs
                /\ CycleIsReal(NamesOf(q))
  BY <1>1, <1>2, RingOfPath, RingIsReal
<1> HIDE DEF q
<1>4. ~OnPath => cur \notin DOMAIN next \/ cur \in seen
  BY <1>1 DEF Visit, More
<1>5. /\ cycles \in Seq(NameSeqs) /\ Len(cycles) \in Nat
      /\ DOMAIN cycles = 1 .. Len(cycles)
  BY DEF KeptOK
<1>6. OnPath => /\ cycles' \in Seq(NameSeqs)
                /\ DOMAIN cycles' = 1 .. Len(cycles) + 1
                /\ cycles'[Len(cycles) + 1] = NamesOf(q)
                /\ \A k \in 1 .. Len(cycles) : cycles'[k] = cycles[k]
  BY <1>1, <1>3, <1>5, AppendIs
<1>7. GraphOK' /\ PathOK'
  BY <1>1, SameGraph DEF PathOK, Linked
<1>8. SeenOK'
  <2>1. seen' \subseteq Entries
    <3>1. \A i \in DOMAIN path : path[i] \in Entries
      BY <1>2 DEF GraphOK, Linked
    <3> QED
      BY <3>1, <1>1, <1>2 DEF SeenOK
  <2>2. ASSUME NEW i \in DOMAIN path PROVE next[path[i]] \in seen'
    <3>1. CASE i = Len(path)
      BY <3>1, <1>1, <1>2 DEF PathOK, Linked
    <3>2. CASE i # Len(path)
      <4>1. i \in 1 .. Len(path) - 1 /\ i + 1 \in DOMAIN path
        BY <3>2, <1>2
      <4> QED
        BY <4>1, <1>1, <1>2 DEF PathOK, Linked
    <3> QED
      BY <3>1, <3>2
  <2>3. cur \in DOMAIN next => next[cur] \in seen'
    BY <1>1, <1>2, <1>4, <2>2 DEF OnPath, SeenOK
  <2>4. \A i \in seen' \cap DOMAIN next : next[i] \in seen'
    BY <1>1, <1>2, <2>2, <2>3 DEF SeenOK
  <2> QED
    BY <1>1, <2>1, <2>4, SameGraph DEF SeenOK
<1>9. FoundOK'
  <2> SUFFICES ASSUME NEW D \in Deadlocks, NEW i \in seen', WhoAt(i) \in D
               PROVE  \E k \in DOMAIN cycles' : Who(cycles'[k]) = D
    BY <1>1, SameGraph DEF FoundOK
  <2>1. CASE \E j \in seen : WhoAt(j) \in D
    <3>1. PICK k \in DOMAIN cycles : Who(cycles[k]) = D
      BY <2>1 DEF FoundOK
    <3>2. k \in DOMAIN cycles' /\ cycles'[k] = cycles[k]
      BY <3>1, <1>1, <1>5, <1>6
    <3> QED
      BY <3>1, <3>2
  <2>2. CASE ~ \E j \in seen : WhoAt(j) \in D
    <3>1. WhoAt(cur) \in D
      <4>1. CASE i = cur
        BY <4>1, <2>2
      <4>2. CASE i # cur
        <5>1. PICK j \in DOMAIN path : i = path[j]
          BY <4>2, <2>2, <1>1, <1>2
        <5> QED
          BY <5>1, <1>1, PathForward
      <4> QED
        BY <4>1, <4>2
    <3>2. cur \in DOMAIN next
      <4>1. PICK u \in D : WaitsOn(WhoAt(cur), u)
        BY <3>1, DeadlockWaits
      <4>2. u \in Threads
        BY <4>1, DeadlockIs
      <4> QED
        BY <4>1, <4>2, <1>1 DEF PathOK, Linked
    <3>3. OnPath
      BY <3>1, <3>2, <2>2, <1>4
    <3>4. 1 \in DOMAIN q /\ D \subseteq Threads /\ Image(D) \subseteq D
      BY <3>3, <1>3, DeadlockIs DEF IsRing
    <3>5. \A j \in DOMAIN q : WhoAt(q[j]) \in D
      BY <3>1, <3>3, <3>4, <1>3, RingWhole
    <3>6. Who(NamesOf(q)) \subseteq D /\ Who(NamesOf(q)) \in Deadlocks
      BY <3>3, <3>5, <1>3 DEF CycleIsReal
    <3>7. Who(NamesOf(q)) = D
      BY <3>6, DeadlockIs
    <3> QED
      BY <3>3, <3>7, <1>5, <1>6
  <2> QED
    BY <2>1, <2>2
<1>10. KeptOK'
  <2>1. ASSUME NEW k \in DOMAIN cycles, NEW t \in Who(cycles[k])
        PROVE  \E i \in seen' \cap DOMAIN next : WhoAt(i) = t
    BY <2>1, <1>1 DEF KeptOK
  <2>2. ASSUME OnPath, NEW t \in Who(NamesOf(q))
        PROVE  \E i \in seen' \cap DOMAIN next : WhoAt(i) = t
    <3>1. PICK j \in DOMAIN q : t = WhoAt(q[j])
      BY <2>2, <1>3
    <3>2. q[j] \in ToSet(path) /\ q[j] \in DOMAIN next
      BY <2>2, <3>1, <1>2, <1>3
    <3> QED
      BY <3>1, <3>2, <1>1
  <2>3. ASSUME NEW k \in DOMAIN cycles', NEW t \in Who(cycles'[k])
        PROVE  \E i \in seen' \cap DOMAIN next : WhoAt(i) = t
    <3>1. CASE OnPath
      <4>1. CASE k = Len(cycles) + 1
        BY <4>1, <3>1, <2>2, <2>3, <1>6
      <4>2. CASE k # Len(cycles) + 1
        <5>1. k \in DOMAIN cycles /\ cycles'[k] = cycles[k]
          BY <4>2, <3>1, <1>5, <1>6
        <5> QED
          BY <5>1, <2>1, <2>3
      <4> QED
        BY <4>1, <4>2
    <3>2. CASE ~OnPath
      BY <3>2, <2>1, <2>3, <1>1
    <3> QED
      BY <3>1, <3>2
  <2>4. cycles' \in Seq(NameSeqs)
    BY <1>1, <1>5, <1>6
  <2> QED
    BY <1>1, <2>3, <2>4, SameGraph DEF KeptOK
<1>11. LeftOK'
  <2>1. \A i \in DOMAIN next \ (left \cup seen) : i \in seen'
    BY <1>1, <1>2 DEF LeftOK
  <2> QED
    BY <1>1, <2>1 DEF LeftOK
<1>12. RealOK'
  <2>1. CASE ~OnPath
    BY <2>1, <1>1, SameGraph DEF RealOK
  <2>2. CASE OnPath
    <3>1. ASSUME NEW k \in DOMAIN cycles PROVE Who(cycles[k]) # Who(NamesOf(q))
      <4> SUFFICES ASSUME Who(cycles[k]) = Who(NamesOf(q)) PROVE FALSE
        OBVIOUS
      <4>1. /\ DOMAIN q = 1 .. Len(q) /\ Len(q) \in Nat \ {0} /\ q[1] \in DOMAIN next
        BY <2>2, <1>3 DEF IsRing
      <4>2. WhoAt(q[1]) \in Who(cycles[k])
        BY <2>2, <4>1, <1>3
      <4>3. PICK i \in seen \cap DOMAIN next : WhoAt(i) = WhoAt(q[1])
        BY <4>2 DEF KeptOK
      <4>4. next[q[1]] \in seen
        BY <4>1, <4>3 DEF GraphOK, Linked, SeenOK
      <4>5. next[q[1]] \in ToSet(path)
        <5>1. CASE Len(q) = 1
          BY <5>1, <4>1, <2>2, <1>3 DEF IsRing
        <5>2. CASE Len(q) # 1
          <6>1. 1 \in 1 .. Len(q) - 1 /\ 1 + 1 \in DOMAIN q
            BY <5>2, <4>1
          <6> QED
            BY <6>1, <2>2, <1>3 DEF IsRing
        <5> QED
          BY <5>1, <5>2
      <4> QED
        BY <4>4, <4>5, <1>1, <1>2 DEF PathOK, Linked
    <3>2. \A k \in DOMAIN cycles' : CycleIsReal(cycles'[k])
      <4> SUFFICES ASSUME NEW k \in DOMAIN cycles' PROVE CycleIsReal(cycles'[k])
        OBVIOUS
      <4>1. CASE k = Len(cycles) + 1
        BY <4>1, <2>2, <1>3, <1>6
      <4>2. CASE k # Len(cycles) + 1
        <5>1. k \in DOMAIN cycles /\ cycles'[k] = cycles[k]
          BY <4>2, <2>2, <1>5, <1>6
        <5> QED
          BY <5>1 DEF RealOK
      <4> QED
        BY <4>1, <4>2
    <3>3. \A k, m \in DOMAIN cycles' : k # m => Who(cycles'[k]) # Who(cycles'[m])
      <4>1. ASSUME NEW k \in DOMAIN cycles'
            PROVE  \/ k = Len(cycles) + 1 /\ cycles'[k] = NamesOf(q)
                   \/ k \in DOMAIN cycles /\ cycles'[k] = cycles[k]
        <5>1. k = Len(cycles) + 1 \/ k \in 1 .. Len(cycles)
          BY <2>2, <1>5, <1>6
        <5> QED
          BY <5>1, <2>2, <1>5, <1>6
      <4> QED
        BY <4>1, <3>1 DEF RealOK
    <3> QED
      BY <3>2, <3>3, <1>1, SameGraph DEF RealOK
  <2> QED
    BY <2>1, <2>2
<1> QED
  BY <1>7, <1>8, <1>9, <1>10, <1>11, <1>12

\* Every visit goes on or ends the walk.
LEMMA VisitKeeps ==
  ASSUME WalkInv, Visit
  PROVE  WalkInv'
<1> QED
  BY GoesOnKeeps, EndsKeeps

\* Render ends the walk when nothing is left.
LEMMA RenderKeeps ==
  ASSUME WalkInv, Render
  PROVE  WalkInv'
<1> USE DEF Render, WalkInv
<1>1. /\ Rest' = Rest /\ cycles' = cycles /\ seen' = seen /\ left' = left /\ next' = next
      /\ path' = path /\ cur' = cur /\ cur = 0 /\ left = {} /\ jvm' = jvm
  BY DEF Rest
<1>2. GraphOK' /\ PathOK' /\ SeenOK' /\ FoundOK' /\ KeptOK' /\ RealOK'
  BY <1>1, SameGraph DEF PathOK, SeenOK, FoundOK, KeptOK, RealOK
<1>3. LeftOK'
  BY <1>1 DEF LeftOK
<1> QED
  BY <1>2, <1>3

---------------------------------------------------------------------------
(* Reading a text: FoldLeft and FlattenSeq, unfolded.                      *)

\* h has the parser's state after each line of L, from s0.
Steps(L, s0, h) ==
  /\ h[0] = s0
  /\ \A i \in 1 .. Len(L) : h[i] = ReadLine(h[i - 1], L[i])
Reads(s0, L, s1) == \E h : Steps(L, s0, h) /\ h[Len(L)] = s1

\* Max of a set of numbers that is not empty is in it.
LEMMA MaxOf ==
  ASSUME NEW n \in Nat, NEW s \in SUBSET (1 .. n), s # {}
  PROVE  Max(s) \in s /\ \A y \in s : Max(s) >= y
<1> DEFINE T == {n - x : x \in s}
<1>1. T \in SUBSET Nat /\ T # {}
  <2>1. \A x \in s : n - x \in Nat
    OBVIOUS
  <2> QED
    BY <2>1
<1>2. PICK k \in T : \A y \in T : k <= y
  <2> HIDE DEF T
  <2> QED
    BY <1>1, LeastOf
<1>3. PICK x \in s : k = n - x
  BY <1>2
<1>4. ASSUME NEW y \in s PROVE x >= y
  <2>1. n - x <= n - y
    BY <1>2, <1>3
  <2> QED
    BY <2>1
<1> QED
  BY <1>3, <1>4 DEF Max

FoldStep(L, s0, h, s) == IF s = {} THEN s0 ELSE ReadLine(h[s \ {Max(s)}], L[Max(s)])
IsFold(L, s0, h)      == h = [s \in SUBSET DOMAIN L |-> FoldStep(L, s0, h, s)]
Folded(L, s0)         == CHOOSE h : IsFold(L, s0, h)

\* The function that MapThenFoldSet chooses exists.
LEMMA FoldExists ==
  ASSUME NEW L, NEW m \in Nat, DOMAIN L = 1 .. m, NEW s0
  PROVE  \E h : IsFold(L, s0, h)
<1> DEFINE S == DOMAIN L
           UpTo(h, n) == \A s \in SUBSET S : Cardinality(s) <= n => h[s] = FoldStep(L, s0, h, s)
           Ok == {n \in Nat : \E h : UpTo(h, n)}
<1>0. /\ \A s \in SUBSET S : IsFiniteSet(s) /\ Cardinality(s) \in Nat /\ Cardinality(s) <= Cardinality(S)
      /\ Cardinality(S) \in Nat
  <2>1. IsFiniteSet(S)
    BY FS_Interval
  <2> QED
    BY <2>1, FS_Subset, FS_CardinalityType
<1>a. ASSUME NEW s \in SUBSET S, s # {}
      PROVE  s \ {Max(s)} \in SUBSET S /\ Cardinality(s \ {Max(s)}) = Cardinality(s) - 1
  BY <1>a, <1>0, MaxOf, FS_RemoveElement
<1>1. 0 \in Ok
  <2> DEFINE h == [s \in SUBSET S |-> s0]
  <2>1. UpTo(h, 0)
    <3> SUFFICES ASSUME NEW s \in SUBSET S, Cardinality(s) <= 0 PROVE h[s] = FoldStep(L, s0, h, s)
      OBVIOUS
    <3>1. s = {}
      BY <1>0, FS_EmptySet
    <3> QED
      BY <3>1 DEF FoldStep
  <2> HIDE DEF h
  <2> QED
    BY <2>1
<1>2. ASSUME NEW n \in Nat, n \in Ok PROVE n + 1 \in Ok
  <2>1. PICK h : UpTo(h, n)
    BY <1>2
  <2> DEFINE g == [s \in SUBSET S |-> IF Cardinality(s) = n + 1 THEN FoldStep(L, s0, h, s) ELSE h[s]]
  <2>3. ASSUME NEW s \in SUBSET S, Cardinality(s) <= n + 1 PROVE g[s] = FoldStep(L, s0, g, s)
    <3>1. g[s] = FoldStep(L, s0, h, s)
      <4>1. CASE Cardinality(s) = n + 1
        BY <4>1
      <4>2. CASE Cardinality(s) # n + 1
        <5>1. Cardinality(s) <= n /\ g[s] = h[s]
          BY <4>2, <2>3, <1>0
        <5> QED
          BY <5>1, <2>1
      <4> QED
        BY <4>1, <4>2
    <3>2. s # {} => g[s \ {Max(s)}] = h[s \ {Max(s)}]
      <4> SUFFICES ASSUME s # {} PROVE g[s \ {Max(s)}] = h[s \ {Max(s)}]
        OBVIOUS
      <4>1. s \ {Max(s)} \in SUBSET S /\ Cardinality(s \ {Max(s)}) = Cardinality(s) - 1
        BY <1>a
      <4>2. Cardinality(s \ {Max(s)}) # n + 1
        BY <4>1, <2>3, <1>0
      <4> QED
        BY <4>1, <4>2
    <3> HIDE DEF g
    <3> QED
      BY <3>1, <3>2 DEF FoldStep
  <2> HIDE DEF g
  <2>4. UpTo(g, n + 1)
    BY <2>3
  <2> QED
    BY <2>4
<1>3. Nat \subseteq Ok
  <2> HIDE DEF Ok
  <2> QED
    BY <1>1, <1>2, NatSetInduction
<1>4. PICK h : UpTo(h, Cardinality(S))
  BY <1>0, <1>3
<1> DEFINE k == [s \in SUBSET S |-> h[s]]
<1>5. \A s \in SUBSET S : k[s] = FoldStep(L, s0, k, s)
  <2> SUFFICES ASSUME NEW s \in SUBSET S PROVE k[s] = FoldStep(L, s0, k, s)
    OBVIOUS
  <2>1. k[s] = FoldStep(L, s0, h, s)
    BY <1>0, <1>4
  <2>2. s # {} => k[s \ {Max(s)}] = h[s \ {Max(s)}]
    BY <1>a
  <2> HIDE DEF k
  <2> QED
    BY <2>1, <2>2 DEF FoldStep
<1>6. k = [s \in SUBSET S |-> k[s]]
  OBVIOUS
<1> HIDE DEF k
<1>7. k = [s \in SUBSET S |-> FoldStep(L, s0, k, s)]
  BY <1>5, <1>6
<1> QED
  BY <1>7 DEF IsFold

\* What the parser reads is what FoldLeft computes.
LEMMA FoldIs ==
  ASSUME NEW L, L \in Seq({L[i] : i \in DOMAIN L}), NEW s0, NEW s1, Reads(s0, L, s1)
  PROVE  FoldLeft(ReadLine, s0, L) = s1
<1> DEFINE n == Len(L)
<1>0. n \in Nat /\ DOMAIN L = 1 .. n
  OBVIOUS
<1>1. FoldLeft(ReadLine, s0, L) = Folded(L, s0)[DOMAIN L]
  BY DEF FoldLeft, MapThenFoldSet, Folded, IsFold, FoldStep
<1>2. PICK g : g = Folded(L, s0)
  OBVIOUS
<1>3. IsFold(L, s0, g)
  BY <1>0, <1>2, FoldExists DEF Folded
<1>4. \A s \in SUBSET DOMAIN L : g[s] = FoldStep(L, s0, g, s)
  <2> SUFFICES ASSUME NEW s \in SUBSET DOMAIN L PROVE g[s] = FoldStep(L, s0, g, s)
    OBVIOUS
  <2> DEFINE k == [t \in SUBSET DOMAIN L |-> FoldStep(L, s0, g, t)]
  <2>1. k[s] = FoldStep(L, s0, g, s)
    OBVIOUS
  <2>2. g = k
    BY <1>3 DEF IsFold
  <2> HIDE DEF k
  <2> QED
    BY <2>1, <2>2
<1>5. PICK h : Steps(L, s0, h) /\ h[n] = s1
  BY DEF Reads
<1> DEFINE T == {i \in Nat : i <= n => g[1 .. i] = h[i]}
<1> HIDE DEF n
<1>6. 0 \in T
  <2>1. 1 .. 0 = {}
    OBVIOUS
  <2> QED
    BY <2>1, <1>0, <1>4, <1>5 DEF Steps, FoldStep
<1>7. ASSUME NEW i \in Nat, i \in T PROVE i + 1 \in T
  <2> SUFFICES ASSUME i + 1 <= n PROVE g[1 .. i + 1] = h[i + 1]
    OBVIOUS
  <2> DEFINE s == 1 .. i + 1
  <2>1. s \in SUBSET DOMAIN L /\ s # {} /\ s \in SUBSET (1 .. n)
    <3>1. \A j \in s : j \in 1 .. n
      BY <1>0
    <3>2. i + 1 \in s
      OBVIOUS
    <3> QED
      BY <3>1, <3>2, <1>0
  <2>2. Max(s) = i + 1
    <3>1. Max(s) \in s /\ \A y \in s : Max(s) >= y
      BY <2>1, <1>0, MaxOf
    <3> QED
      BY <3>1
  <2>3. s \ {Max(s)} = 1 .. i
    BY <2>2
  <2> HIDE DEF s
  <2>4. g[s] = ReadLine(g[1 .. i], L[i + 1])
    BY <2>1, <2>2, <2>3, <1>4 DEF FoldStep
  <2>5. h[i + 1] = ReadLine(h[(i + 1) - 1], L[i + 1]) /\ (i + 1) - 1 = i
    BY <1>5, <1>0 DEF Steps, n
  <2>6. g[1 .. i] = h[i]
    BY <1>7, <1>0
  <2> QED
    BY <2>4, <2>5, <2>6 DEF s
<1>8. n \in T
  <2> HIDE DEF T
  <2> QED
    BY <1>0, <1>6, <1>7, NatSetInduction
<1>9. g[1 .. n] = h[n]
  BY <1>8, <1>0
<1> QED
  BY <1>1, <1>2, <1>5, <1>9, <1>0

\* A text after a text.
LEMMA ReadsConcat ==
  ASSUME NEW S, NEW a \in Seq(S), NEW b \in Seq(S), NEW s0, NEW s1, NEW s2,
         Reads(s0, a, s1), Reads(s1, b, s2)
  PROVE  a \o b \in Seq(S) /\ Reads(s0, a \o b, s2)
<1>1. PICK g : Steps(a, s0, g) /\ g[Len(a)] = s1
  BY DEF Reads
<1>2. PICK h : Steps(b, s1, h) /\ h[Len(b)] = s2
  BY DEF Reads
<1> DEFINE c == a \o b
           k == [i \in 0 .. Len(a) + Len(b) |-> IF i <= Len(a) THEN g[i] ELSE h[i - Len(a)]]
<1>3. Len(a) \in Nat /\ Len(b) \in Nat /\ Len(c) = Len(a) + Len(b)
  OBVIOUS
<1>4. k[0] = s0
  BY <1>1, <1>3 DEF Steps
<1>5. ASSUME NEW i \in 1 .. Len(a) + Len(b) PROVE k[i] = ReadLine(k[i - 1], c[i])
  <2>1. CASE i <= Len(a)
    <3>1. c[i] = a[i] /\ k[i] = g[i] /\ k[i - 1] = g[i - 1]
      BY <2>1, <1>3
    <3> QED
      BY <3>1, <2>1, <1>1, <1>3 DEF Steps
  <2>2. CASE i > Len(a)
    <3>1. i - Len(a) \in 1 .. Len(b) /\ c[i] = b[i - Len(a)] /\ k[i] = h[i - Len(a)]
      BY <2>2, <1>3
    <3>2. k[i - 1] = h[(i - Len(a)) - 1]
      <4>1. CASE i - 1 <= Len(a)
        <5>1. i - 1 = Len(a) /\ (i - Len(a)) - 1 = 0 /\ k[i - 1] = g[i - 1]
          BY <4>1, <2>2, <1>3
        <5> HIDE DEF k
        <5> QED
          BY <5>1, <1>1, <1>2 DEF Steps
      <4>2. CASE ~(i - 1 <= Len(a))
        <5>1. (i - 1) - Len(a) = (i - Len(a)) - 1 /\ i - 1 \in 0 .. Len(a) + Len(b)
          BY <4>2, <1>3
        <5> QED
          BY <5>1, <4>2
      <4> QED
        BY <4>1, <4>2
    <3> HIDE DEF k, c
    <3> QED
      BY <3>1, <3>2, <1>2 DEF Steps
  <2> QED
    BY <2>1, <2>2, <1>3
<1>6. k[Len(c)] = s2
  <2>1. CASE Len(b) = 0
    BY <2>1, <1>1, <1>2, <1>3 DEF Steps
  <2>2. CASE Len(b) # 0
    <3>1. ~(Len(c) <= Len(a)) /\ Len(c) - Len(a) = Len(b) /\ Len(c) \in 0 .. Len(a) + Len(b)
      BY <2>2, <1>3
    <3> QED
      BY <3>1, <1>2
  <2> QED
    BY <2>1, <2>2
<1>7. c \in Seq(S)
  OBVIOUS
<1> HIDE DEF k, c
<1>8. Reads(s0, c, s2)
  BY <1>3, <1>4, <1>5, <1>6 DEF Reads, Steps
<1> QED
  BY <1>7, <1>8 DEF c

\* No line changes nothing.
LEMMA ReadsNone ==
  ASSUME NEW s0
  PROVE  Reads(s0, <<>>, s0)
<1> DEFINE h == [i \in {0} |-> s0]
<1>1. Len(<<>>) = 0 /\ 1 .. 0 = {} /\ h[0] = s0
  OBVIOUS
<1> HIDE DEF h
<1> QED
  BY <1>1 DEF Reads, Steps

\* A text of one line.
LEMMA ReadsOne ==
  ASSUME NEW s0, NEW l
  PROVE  Reads(s0, <<l>>, ReadLine(s0, l))
<1> DEFINE h == [i \in {0, 1} |-> IF i = 0 THEN s0 ELSE ReadLine(s0, l)]
<1>1. Len(<<l>>) = 1 /\ <<l>>[1] = l /\ h[0] = s0 /\ h[1] = ReadLine(s0, l)
  OBVIOUS
<1>2. \A i \in 1 .. 1 : i = 1 /\ i - 1 = 0
  OBVIOUS
<1> HIDE DEF h
<1> QED
  BY <1>1, <1>2 DEF Reads, Steps

\* Lines that lead from I[i - 1] to I[i], one by one.
LEMMA LinesRead ==
  ASSUME NEW n \in Nat, NEW L, Len(L) = n, NEW I, NEW s0 \in I[0],
         \A i \in 1 .. n : \A s \in I[i - 1] : ReadLine(s, L[i]) \in I[i]
  PROVE  \E s1 \in I[n] : Reads(s0, L, s1)
<1> DEFINE UpTo(h, m) == /\ h[0] = s0
                         /\ \A i \in 1 .. m : h[i] = ReadLine(h[i - 1], L[i])
                         /\ h[m] \in I[m]
           T == {m \in Nat : m <= n => \E h : UpTo(h, m)}
<1>1. 0 \in T
  <2> DEFINE h == [i \in {0} |-> s0]
  <2>1. h[0] = s0 /\ 1 .. 0 = {}
    OBVIOUS
  <2> HIDE DEF h
  <2> QED
    BY <2>1
<1>2. ASSUME NEW m \in Nat, m \in T PROVE m + 1 \in T
  <2> SUFFICES ASSUME m + 1 <= n PROVE \E h : UpTo(h, m + 1)
    OBVIOUS
  <2>1. PICK h : UpTo(h, m)
    BY <1>2
  <2> DEFINE k == [i \in 0 .. m + 1 |-> IF i = m + 1 THEN ReadLine(h[m], L[m + 1]) ELSE h[i]]
  <2>2. k[0] = s0 /\ k[m + 1] = ReadLine(h[m], L[m + 1]) /\ k[m] = h[m]
    BY <2>1
  <2>3. \A i \in 1 .. m : k[i] = h[i] /\ k[i - 1] = h[i - 1]
    OBVIOUS
  <2>4. ReadLine(h[m], L[m + 1]) \in I[m + 1]
    <3>1. m + 1 \in 1 .. n /\ (m + 1) - 1 = m
      OBVIOUS
    <3> QED
      BY <3>1, <2>1
  <2>5. \A i \in 1 .. m + 1 : i \in 1 .. m \/ (i = m + 1 /\ i - 1 = m)
    OBVIOUS
  <2> HIDE DEF k
  <2>6. \A i \in 1 .. m + 1 : k[i] = ReadLine(k[i - 1], L[i])
    BY <2>1, <2>2, <2>3, <2>5
  <2> QED
    BY <2>2, <2>4, <2>6
<1>3. n \in T
  <2> HIDE DEF T
  <2> QED
    BY <1>1, <1>2, NatSetInduction
<1>4. PICK h : UpTo(h, n)
  BY <1>3
<1> QED
  BY <1>4 DEF Reads, Steps

FlatStep(q, h, i) == IF i = 1 THEN q[i] ELSE h[i - 1] \o q[i]
IsFlat(q, h)      == h = [i \in 1 .. Len(q) |-> FlatStep(q, h, i)]
Flat(q)           == CHOOSE h : IsFlat(q, h)

\* The function that FlattenSeq chooses, and its equation.
LEMMA FlatIs ==
  ASSUME NEW q, Len(q) \in Nat \ {0}
  PROVE  /\ FlattenSeq(q) = Flat(q)[Len(q)]
         /\ \A i \in 1 .. Len(q) : Flat(q)[i] = FlatStep(q, Flat(q), i)
<1> DEFINE n == Len(q)
<1>1. FlattenSeq(q) = Flat(q)[n]
  BY DEF FlattenSeq, Flat, IsFlat, FlatStep
<1> HIDE DEF n
<1> DEFINE UpTo(h, m) == \A i \in 1 .. m : h[i] = FlatStep(q, h, i)
           T == {m \in Nat : \E h : UpTo(h, m)}
<1>2. 0 \in T
  <2>1. 1 .. 0 = {}
    OBVIOUS
  <2> QED
    BY <2>1
<1>3. ASSUME NEW m \in Nat, m \in T PROVE m + 1 \in T
  <2>1. PICK h : UpTo(h, m)
    BY <1>3
  <2> DEFINE k == [i \in 0 .. m + 1 |-> IF i = m + 1 THEN FlatStep(q, h, m + 1) ELSE h[i]]
  <2>2. k[m + 1] = FlatStep(q, h, m + 1) /\ k[m] = h[m]
    OBVIOUS
  <2>3. \A i \in 1 .. m : k[i] = h[i] /\ k[i - 1] = h[i - 1]
    OBVIOUS
  <2>4. \A i \in 1 .. m + 1 : i \in 1 .. m \/ (i = m + 1 /\ i - 1 = m)
    OBVIOUS
  <2> HIDE DEF k
  <2>5. UpTo(k, m + 1)
    BY <2>1, <2>2, <2>3, <2>4 DEF FlatStep
  <2> QED
    BY <2>5
<1>4. n \in T
  <2> HIDE DEF T
  <2> QED
    BY <1>2, <1>3, NatSetInduction DEF n
<1>5. PICK h : UpTo(h, n)
  BY <1>4
<1> DEFINE k == [i \in 1 .. n |-> h[i]]
<1>6. \A i \in 1 .. n : k[i] = FlatStep(q, k, i)
  <2> SUFFICES ASSUME NEW i \in 1 .. n PROVE k[i] = FlatStep(q, k, i)
    OBVIOUS
  <2>1. k[i] = FlatStep(q, h, i)
    BY <1>5
  <2>2. i # 1 => k[i - 1] = h[i - 1]
    BY DEF n
  <2> HIDE DEF k
  <2> QED
    BY <2>1, <2>2 DEF FlatStep
<1>7. k = [i \in 1 .. n |-> k[i]]
  OBVIOUS
<1> HIDE DEF k
<1>8. k = [i \in 1 .. n |-> FlatStep(q, k, i)]
  BY <1>6, <1>7
<1>9. IsFlat(q, Flat(q))
  BY <1>8 DEF IsFlat, Flat, n
<1>10. PICK g : g = Flat(q)
  OBVIOUS
<1>11. \A i \in 1 .. n : g[i] = FlatStep(q, g, i)
  <2> SUFFICES ASSUME NEW i \in 1 .. n PROVE g[i] = FlatStep(q, g, i)
    OBVIOUS
  <2> DEFINE d == [j \in 1 .. n |-> FlatStep(q, g, j)]
  <2>1. d[i] = FlatStep(q, g, i)
    OBVIOUS
  <2>2. g = d
    BY <1>9, <1>10 DEF IsFlat, n
  <2> HIDE DEF d
  <2> QED
    BY <2>1, <2>2
<1> QED
  BY <1>1, <1>10, <1>11 DEF n

\* Texts that lead from I[i - 1] to I[i], one after the other.
LEMMA FlatReads ==
  ASSUME NEW S, NEW q \in Seq(Seq(S)), NEW I, NEW s0 \in I[0],
         \A i \in 1 .. Len(q) : \A s \in I[i - 1] : \E t \in I[i] : Reads(s, q[i], t)
  PROVE  FlattenSeq(q) \in Seq(S) /\ \E s1 \in I[Len(q)] : Reads(s0, FlattenSeq(q), s1)
<1> DEFINE n == Len(q)
<1>0. n \in Nat /\ \A i \in 1 .. n : q[i] \in Seq(S)
  OBVIOUS
<1>1. CASE n = 0
  <2>1. q = <<>> /\ FlattenSeq(q) = q
    BY <1>1 DEF FlattenSeq
  <2>2. Reads(s0, FlattenSeq(q), s0)
    BY <2>1, ReadsNone
  <2>3. FlattenSeq(q) = <<>> /\ Len(q) = 0
    BY <2>1, <1>1
  <2>4. <<>> \in Seq(S)
    OBVIOUS
  <2> HIDE DEF n
  <2> QED
    BY <2>2, <2>3, <2>4
<1>2. CASE n # 0
  <2>1. /\ FlattenSeq(q) = Flat(q)[n]
        /\ \A i \in 1 .. n : Flat(q)[i] = FlatStep(q, Flat(q), i)
    BY <1>0, <1>2, FlatIs
  <2>2. PICK f : f = Flat(q)
    OBVIOUS
  <2> HIDE DEF n
  <2> DEFINE T == {m \in Nat : m \in 1 .. n => f[m] \in Seq(S) /\ \E s1 \in I[m] : Reads(s0, f[m], s1)}
  <2>3. 0 \in T
    OBVIOUS
  <2>4. ASSUME NEW m \in Nat, m \in T PROVE m + 1 \in T
    <3> SUFFICES ASSUME m + 1 \in 1 .. n
                 PROVE  f[m + 1] \in Seq(S) /\ \E s1 \in I[m + 1] : Reads(s0, f[m + 1], s1)
      OBVIOUS
    <3>1. f[m + 1] = FlatStep(q, f, m + 1) /\ (m + 1) - 1 = m
      BY <2>1, <2>2
    <3>2. CASE m = 0
      <4>1. f[m + 1] = q[m + 1]
        BY <3>1, <3>2 DEF FlatStep
      <4>2. \E s1 \in I[m + 1] : Reads(s0, q[m + 1], s1)
        BY <3>1, <3>2 DEF n
      <4> QED
        BY <4>1, <4>2, <1>0
    <3>3. CASE m # 0
      <4>1. f[m + 1] = f[m] \o q[m + 1] /\ m \in 1 .. n
        <5>1. m + 1 # 1 /\ m \in 1 .. n
          BY <3>3, <1>0
        <5> QED
          BY <5>1, <3>1 DEF FlatStep
      <4>2. PICK s \in I[m] : f[m] \in Seq(S) /\ Reads(s0, f[m], s)
        BY <4>1, <2>4
      <4>3. PICK t \in I[m + 1] : Reads(s, q[m + 1], t)
        BY <3>1, <4>2 DEF n
      <4>4. q[m + 1] \in Seq(S)
        BY <1>0
      <4>5. Reads(s0, f[m] \o q[m + 1], t) /\ f[m] \o q[m + 1] \in Seq(S)
        BY <4>2, <4>3, <4>4, ReadsConcat
      <4> QED
        BY <4>1, <4>5
    <3> QED
      BY <3>2, <3>3
  <2>5. n \in T
    <3> HIDE DEF T
    <3> QED
      BY <1>0, <2>3, <2>4, NatSetInduction
  <2>6. n \in 1 .. n
    BY <1>0, <1>2
  <2> QED
    BY <2>1, <2>2, <2>5, <2>6 DEF n
<1> QED
  BY <1>1, <1>2

\* SetToSeq lists a finite set, each member once.
LEMMA SetToSeqIs ==
  ASSUME NEW S, IsFiniteSet(S)
  PROVE  /\ SetToSeq(S) \in [1 .. Cardinality(S) -> S] /\ SetToSeq(S) \in Seq(S)
         /\ Cardinality(S) \in Nat /\ Len(SetToSeq(S)) = Cardinality(S)
         /\ S = {SetToSeq(S)[i] : i \in 1 .. Cardinality(S)}
<1> DEFINE n == Cardinality(S)
           f == SetToSeq(S)
<1>1. n \in Nat
  BY FS_CardinalityType
<1>2. f \in [1 .. n -> S] /\ \A i, j \in 1 .. n : f[i] = f[j] => i = j
  <2>1. PICK m \in Nat : ExistsBijection(1 .. m, S)
    BY FS_NatBijection
  <2>2. m = n
    BY <2>1, FS_CountingElements
  <2>3. PICK g : g \in Bijection(1 .. n, S)
    BY <2>1, <2>2 DEF ExistsBijection
  <2>4. g \in [1 .. n -> S] /\ IsInjective(g)
    BY <2>3 DEF Bijection, Injection, IsInjective
  <2>5. f \in [1 .. n -> S] /\ IsInjective(f)
    BY <2>4 DEF SetToSeq
  <2> HIDE DEF f, n
  <2> QED
    BY <2>5 DEF IsInjective
<1> HIDE DEF f, n
<1>3. ASSUME NEW x \in S PROVE \E i \in 1 .. n : x = f[i]
  <2> SUFFICES ASSUME \A i \in 1 .. n : x # f[i] PROVE FALSE
    OBVIOUS
  <2>1. f \in [1 .. n -> S \ {x}]
    BY <1>2
  <2>2. IsFiniteSet(S \ {x}) /\ Cardinality(S \ {x}) = n - 1
    BY FS_RemoveElement DEF n
  <2>3. IsFiniteSet(1 .. n) /\ Cardinality(1 .. n) = n
    BY <1>1, FS_Interval
  <2>4. \E i, j \in 1 .. n : i # j /\ f[i] = f[j]
    BY <1>1, <2>1, <2>2, <2>3, FS_PigeonHole
  <2> QED
    BY <1>2, <2>4
<1>4. f \in Seq(S) /\ Len(f) = n
  BY <1>1, <1>2
<1> QED
  BY <1>1, <1>2, <1>3, <1>4 DEF f, n

---------------------------------------------------------------------------
(* What each line of the text does.                                        *)

Th(n, st, wf, hs, fr) == [name |-> n, state |-> st, waitsFor |-> wf, holds |-> hs,
                          lockOwner |-> None, frame |-> fr]
Yes == TRUE
No  == FALSE
Of(ths, b, o, y) == [threads |-> ths, banner |-> b, open |-> o, inSyncList |-> y]
At(ths, T, b, y) == Of(Append(ths, T), b, Yes, y)

SetThreads(s, u) == [s EXCEPT !.threads = u]
SetBanner(s, u)  == [s EXCEPT !.banner = u]
SetOpen(s, u)    == [s EXCEPT !.open = u]
SetSync(s, u)    == [s EXCEPT !.inSyncList = u]

\* The fields of a state of the parser.
LEMMA OfIs ==
  ASSUME NEW ths, NEW b, NEW o, NEW y
  PROVE  /\ Of(ths, b, o, y).threads = ths /\ Of(ths, b, o, y).open = o
         /\ Of(ths, b, o, y).inSyncList = y
<1> QED
  BY DEF Of

\* A state of the parser with one field changed, in four lemmas.
LEMMA SetThreadsIs ==
  ASSUME NEW ths, NEW b, NEW o, NEW y, NEW u
  PROVE  SetThreads(Of(ths, b, o, y), u) = Of(u, b, o, y)
<1> QED
  BY Z3 DEF Of, SetThreads

\* The second: the banner.
LEMMA SetBannerIs ==
  ASSUME NEW ths, NEW b, NEW o, NEW y, NEW u
  PROVE  SetBanner(Of(ths, b, o, y), u) = Of(ths, u, o, y)
<1> QED
  BY Z3 DEF Of, SetBanner

\* The third: whether a thread is open.
LEMMA SetOpenIs ==
  ASSUME NEW ths, NEW b, NEW o, NEW y, NEW u
  PROVE  SetOpen(Of(ths, b, o, y), u) = Of(ths, b, u, y)
<1> QED
  BY Z3 DEF Of, SetOpen

\* The fourth: whether the list of synchronizers has begun.
LEMMA SetSyncIs ==
  ASSUME NEW ths, NEW b, NEW o, NEW y, NEW u
  PROVE  SetSync(Of(ths, b, o, y), u) = Of(ths, b, o, u)
<1> QED
  BY Z3 DEF Of, SetSync

\* The last thread replaced.
LEMMA ExceptLast ==
  ASSUME NEW X, NEW ths \in Seq(X), NEW T, NEW U
  PROVE  /\ Len(Append(ths, T)) = Len(ths) + 1 /\ Append(ths, T)[Len(ths) + 1] = T
         /\ [Append(ths, T) EXCEPT ![Len(ths) + 1] = U] = Append(ths, U)
<1> DEFINE Y == X \cup {T, U}
           m == Len(ths)
<1>1. ths \in Seq(Y) /\ T \in Y /\ U \in Y
  OBVIOUS
<1> HIDE DEF Y
<1>2. /\ m \in Nat /\ DOMAIN Append(ths, T) = 1 .. m + 1 /\ Append(ths, T)[m + 1] = T
      /\ \A i \in 1 .. m : Append(ths, T)[i] = ths[i]
      /\ DOMAIN Append(ths, U) = 1 .. m + 1 /\ Append(ths, U)[m + 1] = U
      /\ \A i \in 1 .. m : Append(ths, U)[i] = ths[i]
  BY <1>1, AppendIs
<1>3. Append(ths, U) \in Seq(Y) /\ Append(ths, T) \in Seq(Y) /\ Len(Append(ths, T)) = m + 1
  BY <1>1
<1>4. \A i \in 1 .. m + 1 : i = m + 1 \/ i \in 1 .. m
  BY <1>2
<1> DEFINE A == Append(ths, T)
           B == Append(ths, U)
<1>9. B \in Seq(Y)
  BY <1>3
<1> DEFINE C == [A EXCEPT ![m + 1] = U]
<1>5. \A i \in 1 .. m + 1 : C[i] = B[i]
  BY <1>2, <1>4
<1>6. DOMAIN C = 1 .. m + 1 /\ C = [i \in DOMAIN C |-> C[i]]
  BY <1>2
<1>7. B = [i \in DOMAIN B |-> B[i]]
  <2> HIDE DEF B
  <2> QED
    BY <1>9
<1> HIDE DEF A, B, C, m
<1>8. C = B
  BY <1>2, <1>5, <1>6, <1>7 DEF B
<1> QED
  BY <1>2, <1>3, <1>8 DEF A, B, C, m

\* The line that starts a thread.
LEMMA LineHead ==
  ASSUME NEW s, NEW l, l.is = "head"
  PROVE  ReadLine(s, l) =
           [s EXCEPT !.threads = Append(@, NoThread(l.of)), !.open = TRUE, !.inSyncList = FALSE]
<1> QED
  BY DEF ReadLine

\* The banner of jstack's section.
LEMMA LineBanner ==
  ASSUME NEW s, NEW l, l.is = "banner"
  PROVE  ReadLine(s, l) = [s EXCEPT !.banner = TRUE, !.open = FALSE]
<1> QED
  BY DEF ReadLine

\* A head appends a thread of which nothing is known.
LEMMA ReadHead ==
  ASSUME NEW ths, NEW b, NEW o, NEW y, NEW n
  PROVE  ReadLine(Of(ths, b, o, y), Line("head", n)) = At(ths, Th(n, None, None, {}, None), b, No)
<1> DEFINE s == Of(ths, b, o, y)
           l == Line("head", n)
<1>1. l.is = "head" /\ l.of = n
  BY DEF Line
<1> HIDE DEF l, s
<1>2. ReadLine(s, l) = SetSync(SetOpen(SetThreads(s, Append(s.threads, NoThread(l.of))), Yes), No)
  <2>1. ReadLine(s, l) =
          [s EXCEPT !.threads = Append(@, NoThread(l.of)), !.open = TRUE, !.inSyncList = FALSE]
    BY <1>1, LineHead
  <2>2. [s EXCEPT !.threads = Append(@, NoThread(l.of)), !.open = TRUE, !.inSyncList = FALSE] =
          [[[s EXCEPT !.threads = Append(@, NoThread(l.of))] EXCEPT !.open = TRUE] EXCEPT !.inSyncList = FALSE]
    OBVIOUS
  <2> QED
    BY <2>1, <2>2 DEF SetSync, SetOpen, SetThreads, Yes, No
<1>3. NoThread(n) = Th(n, None, None, {}, None)
  BY DEF NoThread, Th
<1>4. s.threads = ths
  BY OfIs DEF s
<1>5. SetThreads(s, Append(ths, NoThread(n))) = Of(Append(ths, NoThread(n)), b, o, y)
  BY SetThreadsIs DEF s
<1>6. SetOpen(Of(Append(ths, NoThread(n)), b, o, y), Yes) = Of(Append(ths, NoThread(n)), b, Yes, y)
  BY SetOpenIs
<1>7. SetSync(Of(Append(ths, NoThread(n)), b, Yes, y), No) = Of(Append(ths, NoThread(n)), b, Yes, No)
  BY SetSyncIs
<1> QED
  BY <1>1, <1>2, <1>3, <1>4, <1>5, <1>6, <1>7 DEF At, s, l

\* The banner closes the thread before it.
LEMMA ReadBanner ==
  ASSUME NEW ths, NEW b, NEW o, NEW y, NEW n
  PROVE  ReadLine(Of(ths, b, o, y), Line("banner", n)) = Of(ths, Yes, No, y)
<1> DEFINE s == Of(ths, b, o, y)
           l == Line("banner", n)
<1>1. l.is = "banner"
  BY DEF Line
<1> HIDE DEF l, s
<1>2. ReadLine(s, l) = SetOpen(SetBanner(s, Yes), No)
  <2>1. ReadLine(s, l) = [s EXCEPT !.banner = TRUE, !.open = FALSE]
    BY <1>1, LineBanner
  <2>2. [s EXCEPT !.banner = TRUE, !.open = FALSE] = [[s EXCEPT !.banner = TRUE] EXCEPT !.open = FALSE]
    OBVIOUS
  <2> QED
    BY <2>1, <2>2 DEF SetOpen, SetBanner, Yes, No
<1>3. SetBanner(s, Yes) = Of(ths, Yes, o, y)
  BY SetBannerIs DEF s
<1>4. SetOpen(Of(ths, Yes, o, y), No) = Of(ths, Yes, No, y)
  BY SetOpenIs
<1> QED
  BY <1>2, <1>3, <1>4 DEF s, l

PutLast(s, U) == [s EXCEPT !.threads[Len(s.threads)] = U]

\* The entry under way replaced.
LEMMA PutIs ==
  ASSUME NEW X, NEW ths \in Seq(X), NEW T, NEW b, NEW y, NEW s, s = At(ths, T, b, y)
  PROVE  /\ s.threads[Len(s.threads)] = T /\ s.open = Yes /\ s.inSyncList = y
         /\ (\A U : PutLast(s, U) = At(ths, U, b, y))
         /\ SetSync(s, Yes) = At(ths, T, b, Yes)
<1>1. s.threads = Append(ths, T) /\ s.open = Yes /\ s.inSyncList = y
  <2> DEFINE A == Append(ths, T)
  <2>1. s = Of(A, b, Yes, y)
    BY DEF At
  <2> HIDE DEF A
  <2>2. s.threads = A
    BY <2>1, OfIs
  <2>3. s.open = Yes
    BY <2>1, OfIs
  <2>4. s.inSyncList = y
    BY <2>1, OfIs
  <2> QED
    BY <2>2, <2>3, <2>4 DEF A
<1>2. \A U : SetThreads(s, Append(ths, U)) = At(ths, U, b, y)
  BY SetThreadsIs DEF At
<1>3. SetSync(s, Yes) = At(ths, T, b, Yes)
  BY SetSyncIs DEF At
<1>4. Len(s.threads) = Len(ths) + 1 /\ s.threads[Len(ths) + 1] = T
  BY <1>1, ExceptLast
<1>5. ASSUME NEW U PROVE PutLast(s, U) = At(ths, U, b, y)
  <2>1. PutLast(s, U) = SetThreads(s, [s.threads EXCEPT ![Len(s.threads)] = U])
    BY DEF PutLast, SetThreads
  <2>2. [s.threads EXCEPT ![Len(s.threads)] = U] = Append(ths, U)
    <3>1. [Append(ths, T) EXCEPT ![Len(ths) + 1] = U] = Append(ths, U)
      BY ExceptLast
    <3> QED
      BY <3>1, <1>1, <1>4
  <2> QED
    BY <2>1, <2>2, <1>2
<1> QED
  BY <1>1, <1>3, <1>4, <1>5

\* What the lines of an entry find.
LEMMA OpenIs ==
  ASSUME NEW X, NEW ths \in Seq(X), NEW n, NEW st, NEW wf, NEW hs, NEW fr, NEW b, NEW y, NEW s,
         s = At(ths, Th(n, st, wf, hs, fr), b, y)
  PROVE  s.threads[Len(s.threads)] = Th(n, st, wf, hs, fr) /\ s.open /\ (y = Yes => s.inSyncList)
<1> DEFINE T == Th(n, st, wf, hs, fr)
<1>1. s.threads[Len(s.threads)] = T /\ s.open = Yes /\ s.inSyncList = y
  BY PutIs
<1> HIDE DEF T
<1> QED
  BY <1>1 DEF Yes, T

\* Each line of an entry changes its one field, in seven lemmas: the list of
\* synchronizers begins.
LEMMA ReadSync ==
  ASSUME NEW X, NEW ths \in Seq(X), NEW n, NEW st, NEW wf, NEW hs, NEW fr, NEW b, NEW y, NEW v
  PROVE  ReadLine(At(ths, Th(n, st, wf, hs, fr), b, y), Line("synchronizers", v)) =
           At(ths, Th(n, st, wf, hs, fr), b, Yes)
<1> DEFINE T == Th(n, st, wf, hs, fr)
<1>1. PICK s : s = At(ths, T, b, y)
  OBVIOUS
<1>2. s.threads[Len(s.threads)] = T /\ s.open /\ (y = Yes => s.inSyncList)
  BY <1>1, OpenIs
<1> HIDE DEF T
<1>3. SetSync(s, Yes) = At(ths, T, b, Yes)
  BY <1>1, PutIs
<1>4. ReadLine(s, Line("synchronizers", v)) = SetSync(s, Yes)
  BY <1>2 DEF ReadLine, Line, SetSync, Yes
<1> QED
  BY <1>1, <1>3, <1>4 DEF T

\* The state.
LEMMA ReadState ==
  ASSUME NEW X, NEW ths \in Seq(X), NEW n, NEW st, NEW wf, NEW hs, NEW fr, NEW b, NEW y, NEW v
  PROVE  ReadLine(At(ths, Th(n, st, wf, hs, fr), b, y), Line("state", v)) =
           At(ths, Th(n, v, wf, hs, fr), b, y)
<1> DEFINE T == Th(n, st, wf, hs, fr)
<1>1. PICK s : s = At(ths, T, b, y)
  OBVIOUS
<1>2. s.threads[Len(s.threads)] = T /\ s.open /\ (y = Yes => s.inSyncList)
  BY <1>1, OpenIs
<1>3. [T EXCEPT !.state = v] = Th(n, v, wf, hs, fr)
  BY DEF Th
<1> HIDE DEF T
<1>4. PutLast(s, Th(n, v, wf, hs, fr)) = At(ths, Th(n, v, wf, hs, fr), b, y)
  BY <1>1, PutIs
<1>5. ReadLine(s, Line("state", v)) = PutLast(s, [T EXCEPT !.state = v])
  BY <1>2 DEF ReadLine, Line, PutLast
<1> QED
  BY <1>1, <1>3, <1>4, <1>5 DEF T

\* The monitor waited for.
LEMMA ReadWaiting ==
  ASSUME NEW X, NEW ths \in Seq(X), NEW n, NEW st, NEW wf, NEW hs, NEW fr, NEW b, NEW y, NEW v
  PROVE  ReadLine(At(ths, Th(n, st, wf, hs, fr), b, y), Line("waiting", v)) =
           At(ths, Th(n, st, v, hs, fr), b, y)
<1> DEFINE T == Th(n, st, wf, hs, fr)
<1>1. PICK s : s = At(ths, T, b, y)
  OBVIOUS
<1>2. s.threads[Len(s.threads)] = T /\ s.open /\ (y = Yes => s.inSyncList)
  BY <1>1, OpenIs
<1>3. [T EXCEPT !.waitsFor = v] = Th(n, st, v, hs, fr)
  BY DEF Th
<1> HIDE DEF T
<1>4. PutLast(s, Th(n, st, v, hs, fr)) = At(ths, Th(n, st, v, hs, fr), b, y)
  BY <1>1, PutIs
<1>5. ReadLine(s, Line("waiting", v)) = PutLast(s, [T EXCEPT !.waitsFor = v])
  BY <1>2 DEF ReadLine, Line, PutLast
<1> QED
  BY <1>1, <1>3, <1>4, <1>5 DEF T

\* The lock parked on.
LEMMA ReadParking ==
  ASSUME NEW X, NEW ths \in Seq(X), NEW n, NEW st, NEW wf, NEW hs, NEW fr, NEW b, NEW y, NEW v, wf = None
  PROVE  ReadLine(At(ths, Th(n, st, wf, hs, fr), b, y), Line("parking", v)) =
           At(ths, Th(n, st, v, hs, fr), b, y)
<1> DEFINE T == Th(n, st, wf, hs, fr)
<1>1. PICK s : s = At(ths, T, b, y)
  OBVIOUS
<1>2. s.threads[Len(s.threads)] = T /\ s.open /\ (y = Yes => s.inSyncList)
  BY <1>1, OpenIs
<1>3. [T EXCEPT !.waitsFor = IF @ = None THEN v ELSE @] = Th(n, st, v, hs, fr)
  BY Z3 DEF Th
<1> HIDE DEF T
<1>4. PutLast(s, Th(n, st, v, hs, fr)) = At(ths, Th(n, st, v, hs, fr), b, y)
  BY <1>1, PutIs
<1>5. ReadLine(s, Line("parking", v)) = PutLast(s, [T EXCEPT !.waitsFor = IF @ = None THEN v ELSE @])
  BY <1>2 DEF ReadLine, Line, PutLast
<1> QED
  BY <1>1, <1>3, <1>4, <1>5 DEF T

\* A monitor held.
LEMMA ReadLocked ==
  ASSUME NEW X, NEW ths \in Seq(X), NEW n, NEW st, NEW wf, NEW hs, NEW fr, NEW b, NEW y, NEW v
  PROVE  ReadLine(At(ths, Th(n, st, wf, hs, fr), b, y), Line("locked", v)) =
           At(ths, Th(n, st, wf, hs \cup {v}, fr), b, y)
<1> DEFINE T == Th(n, st, wf, hs, fr)
<1>1. PICK s : s = At(ths, T, b, y)
  OBVIOUS
<1>2. s.threads[Len(s.threads)] = T /\ s.open /\ (y = Yes => s.inSyncList)
  BY <1>1, OpenIs
<1>3. [T EXCEPT !.holds = @ \cup {v}] = Th(n, st, wf, hs \cup {v}, fr)
  <2> DEFINE w == hs \cup {v}
  <2>1. [T EXCEPT !.holds = @ \cup {v}] = [T EXCEPT !.holds = w]
    <3>1. T.holds = hs
      BY DEF Th
    <3> QED
      BY <3>1
  <2> HIDE DEF w
  <2>2. [T EXCEPT !.holds = w] = Th(n, st, wf, w, fr)
    BY Z3 DEF Th
  <2> QED
    BY <2>1, <2>2 DEF w
<1> HIDE DEF T
<1>4. PutLast(s, Th(n, st, wf, hs \cup {v}, fr)) = At(ths, Th(n, st, wf, hs \cup {v}, fr), b, y)
  BY <1>1, PutIs
<1>5. ReadLine(s, Line("locked", v)) = PutLast(s, [T EXCEPT !.holds = @ \cup {v}])
  BY <1>2 DEF ReadLine, Line, PutLast
<1> QED
  BY <1>1, <1>3, <1>4, <1>5 DEF T

\* A synchronizer held.
LEMMA ReadHeld ==
  ASSUME NEW X, NEW ths \in Seq(X), NEW n, NEW st, NEW wf, NEW hs, NEW fr, NEW b, NEW y, NEW v, y = Yes
  PROVE  ReadLine(At(ths, Th(n, st, wf, hs, fr), b, y), Line("held", v)) =
           At(ths, Th(n, st, wf, hs \cup {v}, fr), b, y)
<1> DEFINE T == Th(n, st, wf, hs, fr)
<1>1. PICK s : s = At(ths, T, b, y)
  OBVIOUS
<1>2. s.threads[Len(s.threads)] = T /\ s.open /\ (y = Yes => s.inSyncList)
  BY <1>1, OpenIs
<1>3. [T EXCEPT !.holds = @ \cup {v}] = Th(n, st, wf, hs \cup {v}, fr)
  <2> DEFINE w == hs \cup {v}
  <2>1. [T EXCEPT !.holds = @ \cup {v}] = [T EXCEPT !.holds = w]
    <3>1. T.holds = hs
      BY DEF Th
    <3> QED
      BY <3>1
  <2> HIDE DEF w
  <2>2. [T EXCEPT !.holds = w] = Th(n, st, wf, w, fr)
    BY Z3 DEF Th
  <2> QED
    BY <2>1, <2>2 DEF w
<1> HIDE DEF T
<1>4. PutLast(s, Th(n, st, wf, hs \cup {v}, fr)) = At(ths, Th(n, st, wf, hs \cup {v}, fr), b, y)
  BY <1>1, PutIs
<1>5. ReadLine(s, Line("held", v)) = PutLast(s, [T EXCEPT !.holds = @ \cup {v}])
  BY <1>2 DEF ReadLine, Line, PutLast, Yes
<1> QED
  BY <1>1, <1>3, <1>4, <1>5 DEF T

\* The frame.
LEMMA ReadFrame ==
  ASSUME NEW X, NEW ths \in Seq(X), NEW n, NEW st, NEW wf, NEW hs, NEW fr, NEW b, NEW y, NEW v
  PROVE  ReadLine(At(ths, Th(n, st, wf, hs, fr), b, y), Line("frame", v)) =
           At(ths, Th(n, st, wf, hs, v), b, y)
<1> DEFINE T == Th(n, st, wf, hs, fr)
<1>1. PICK s : s = At(ths, T, b, y)
  OBVIOUS
<1>2. s.threads[Len(s.threads)] = T /\ s.open /\ (y = Yes => s.inSyncList)
  BY <1>1, OpenIs
<1>3. [T EXCEPT !.frame = v] = Th(n, st, wf, hs, v)
  BY DEF Th
<1> HIDE DEF T
<1>4. PutLast(s, Th(n, st, wf, hs, v)) = At(ths, Th(n, st, wf, hs, v), b, y)
  BY <1>1, PutIs
<1>5. ReadLine(s, Line("frame", v)) = PutLast(s, [T EXCEPT !.frame = v])
  BY <1>2 DEF ReadLine, Line, PutLast
<1> QED
  BY <1>1, <1>3, <1>4, <1>5 DEF T

---------------------------------------------------------------------------
(* What the text of the JVM is read as.                                    *)

\* Threads have names of their own, none of which is the word for no name.
DistinctNames == \A f \in Namings : \A t, u \in Threads : (f[t] = f[u] => t = u) /\ f[t] # None

Said    == {jvm.name[t] : t \in Threads} \cup Locks
           \cup {None, "condition", "hot", "idle", "virtual", "BLOCKED", "WAITING",
                 "TIMED_WAITING", "RUNNABLE"}
LineSet == {Line(k, v) : k \in {"banner", "head", "synchronizers", "state", "waiting", "parking",
                                "locked", "held", "frame"}, v \in Said}

WaitKey(d) == IF Waits(d) THEN d.lock ELSE IF d.does = "rest" THEN "condition" ELSE None
FrameOf(d) == IF d.does \in {"hot", "idle", "virtual"} THEN d.does ELSE None

Bare(t) == Th(jvm.name[t], None, None, {}, None)
Part(t) == Th(jvm.name[t], None, WaitKey(jvm.doing[t]), Owned(t, Monitors), FrameOf(jvm.doing[t]))
Full(t) == Th(jvm.name[t], StateOf(jvm.doing[t]), WaitKey(jvm.doing[t]),
              Owned(t, Monitors) \cup Owned(t, JucLocks), FrameOf(jvm.doing[t]))

\* What a thread may do, and its state.
LEMMA DoingIs ==
  ASSUME NEW d \in Doings
  PROVE  /\ d.does \in {"hot", "idle", "virtual", "rest", "enter", "park", "parkTimed"}
         /\ Waits(d) => d.lock \in Locks
         /\ StateOf(d) \in {"BLOCKED", "WAITING", "TIMED_WAITING", "RUNNABLE"}
         /\ d.does = "enter" => StateOf(d) = "BLOCKED"
<1>1. /\ d.does \in {"hot", "idle", "virtual", "rest", "enter", "park", "parkTimed"}
      /\ Waits(d) => d.lock \in Locks
  BY DEF Doings, Waits, Locks
<1>2. StateOf(d) \in {"BLOCKED", "WAITING", "TIMED_WAITING", "RUNNABLE"}
  BY <1>1 DEF StateOf
<1>3. d.does = "enter" => StateOf(d) = "BLOCKED"
  BY DEF StateOf
<1> QED
  BY <1>1, <1>2, <1>3

\* What a thread owns is finite.
LEMMA OwnedFinite ==
  ASSUME NEW t
  PROVE  /\ IsFiniteSet(Owned(t, Monitors)) /\ Owned(t, Monitors) \subseteq Locks
         /\ IsFiniteSet(Owned(t, JucLocks)) /\ Owned(t, JucLocks) \subseteq Locks
<1>1. Owned(t, Monitors) \subseteq Locks /\ Owned(t, JucLocks) \subseteq Locks
  BY DEF Owned, Locks
<1> QED
  BY <1>1, LocksAssumption, FS_Subset

\* A line of the text.
LEMMA LineIn ==
  ASSUME NEW k \in {"banner", "head", "synchronizers", "state", "waiting", "parking",
                    "locked", "held", "frame"}, NEW v \in Said
  PROVE  Line(k, v) \in LineSet
<1> QED
  BY DEF LineSet

\* The lines of a list of locks, each held by the thread they are under.
LEMMA ListRead ==
  ASSUME NEW X, NEW ths \in Seq(X), NEW n, NEW st, NEW wf, NEW hs, NEW fr, NEW b, NEW y,
         NEW S, IsFiniteSet(S), S \subseteq Locks, NEW k, k = "locked" \/ (k = "held" /\ y = Yes)
  PROVE  /\ Listed(k, S) \in Seq(LineSet)
         /\ Reads(At(ths, Th(n, st, wf, hs, fr), b, y), Listed(k, S),
                  At(ths, Th(n, st, wf, hs \cup S, fr), b, y))
<1> DEFINE c == Cardinality(S)
           q == SetToSeq(S)
           Sofar(i) == At(ths, Th(n, st, wf, hs \cup {q[j] : j \in 1 .. i}, fr), b, y)
           L == Listed(k, S)
           I == [i \in 0 .. c |-> {Sofar(i)}]
<1>1. q \in [1 .. c -> S] /\ c \in Nat /\ S = {q[j] : j \in 1 .. c}
  BY SetToSeqIs
<1>2. L = [i \in 1 .. c |-> Line(k, q[i])]
  BY DEF Listed
<1>3. \A i \in 1 .. c : q[i] \in Said
  BY <1>1 DEF Said
<1>4. k \in {"banner", "head", "synchronizers", "state", "waiting", "parking", "locked", "held", "frame"}
  OBVIOUS
<1>5. \A i \in 1 .. c : Line(k, q[i]) \in LineSet
  BY <1>3, <1>4, LineIn
<1> HIDE DEF L, q, c
<1>6. L \in Seq(LineSet) /\ Len(L) = c
  <2>1. L \in [1 .. c -> LineSet]
    BY <1>2, <1>5
  <2> QED
    BY <2>1, <1>1
<1>7. ASSUME NEW i \in 1 .. c, NEW s \in I[i - 1] PROVE ReadLine(s, L[i]) \in I[i]
  <2>1. i \in 0 .. c /\ i - 1 \in 0 .. c
    BY <1>1
  <2>2. s = Sofar(i - 1)
    BY <2>1, <1>7
  <2> DEFINE h == hs \cup {q[j] : j \in 1 .. i - 1}
  <2>3. ReadLine(s, Line(k, q[i])) = At(ths, Th(n, st, wf, h \cup {q[i]}, fr), b, y)
    <3>1. s = At(ths, Th(n, st, wf, h, fr), b, y)
      BY <2>2
    <3> HIDE DEF h
    <3>2. CASE k = "locked"
      BY <3>1, <3>2, ReadLocked
    <3>3. CASE k = "held" /\ y = Yes
      BY <3>1, <3>3, ReadHeld
    <3> QED
      BY <3>2, <3>3
  <2>4. h \cup {q[i]} = hs \cup {q[j] : j \in 1 .. i}
    <3>1. 1 .. i = (1 .. i - 1) \cup {i}
      BY <1>1
    <3>2. {q[j] : j \in 1 .. i} = {q[j] : j \in 1 .. i - 1} \cup {q[i]}
      BY <3>1
    <3> QED
      BY <3>2
  <2>5. ReadLine(s, L[i]) = Sofar(i)
    <3>1. L[i] = Line(k, q[i])
      BY <1>2
    <3> QED
      BY <3>1, <2>3, <2>4
  <2> HIDE DEF Sofar
  <2> QED
    BY <2>1, <2>5
<1>8. Sofar(0) \in I[0] /\ Sofar(0) = At(ths, Th(n, st, wf, hs, fr), b, y)
  <2>1. {q[j] : j \in 1 .. 0} = {} /\ 0 \in 0 .. c
    BY <1>1
  <2>2. hs \cup {q[j] : j \in 1 .. 0} = hs
    BY <2>1
  <2> QED
    BY <2>1, <2>2
<1>9. I[c] = {Sofar(c)}
  BY <1>1
<1>10. Sofar(c) = At(ths, Th(n, st, wf, hs \cup S, fr), b, y)
  BY <1>1
<1> HIDE DEF I, Sofar
<1>11. \E s1 \in I[c] : Reads(Sofar(0), L, s1)
  BY <1>1, <1>6, <1>7, <1>8, LinesRead
<1> QED
  BY <1>6, <1>8, <1>9, <1>10, <1>11 DEF L

\* The line that says what a thread waits for, or where it runs.
LEMMA WaitRead ==
  ASSUME NEW X, NEW ths \in Seq(X), NEW n, NEW b, NEW d \in Doings
  PROVE  /\ WaitLine(d) \in Seq(LineSet)
         /\ Reads(At(ths, Th(n, None, None, {}, None), b, No), WaitLine(d),
                  At(ths, Th(n, None, WaitKey(d), {}, FrameOf(d)), b, No))
<1> DEFINE s == At(ths, Th(n, None, None, {}, None), b, No)
<1>0. ASSUME NEW k \in {"waiting", "parking", "frame"}, NEW v \in Said, WaitLine(d) = <<Line(k, v)>>,
             ReadLine(s, Line(k, v)) = At(ths, Th(n, None, WaitKey(d), {}, FrameOf(d)), b, No)
      PROVE  WaitLine(d) \in Seq(LineSet)
             /\ Reads(s, WaitLine(d), At(ths, Th(n, None, WaitKey(d), {}, FrameOf(d)), b, No))
  <2>1. Line(k, v) \in LineSet
    BY LineIn
  <2> HIDE DEF s
  <2>2. Reads(s, <<Line(k, v)>>, ReadLine(s, Line(k, v)))
    BY ReadsOne
  <2> QED
    BY <1>0, <2>1, <2>2
<1>1. d.does \in {"hot", "idle", "virtual", "rest", "enter", "park", "parkTimed"}
      /\ (Waits(d) => d.lock \in Locks)
  BY DoingIs
<1>2. CASE d.does = "enter"
  <2>1. Waits(d) /\ WaitKey(d) = d.lock /\ FrameOf(d) = None /\ WaitLine(d) = <<Line("waiting", d.lock)>>
    BY <1>2 DEF Waits, WaitKey, FrameOf, WaitLine
  <2>2. ReadLine(s, Line("waiting", d.lock)) = At(ths, Th(n, None, d.lock, {}, None), b, No)
    BY ReadWaiting
  <2>3. d.lock \in Said
    BY <2>1, <1>1 DEF Said
  <2> QED
    BY <1>0, <2>1, <2>2, <2>3
<1>3. CASE d.does \in {"park", "parkTimed"}
  <2>1. Waits(d) /\ WaitKey(d) = d.lock /\ FrameOf(d) = None /\ WaitLine(d) = <<Line("parking", d.lock)>>
    BY <1>3 DEF Waits, WaitKey, FrameOf, WaitLine
  <2>2. ReadLine(s, Line("parking", d.lock)) = At(ths, Th(n, None, d.lock, {}, None), b, No)
    BY ReadParking
  <2>3. d.lock \in Said
    BY <2>1, <1>1 DEF Said
  <2> QED
    BY <1>0, <2>1, <2>2, <2>3
<1>4. CASE d.does = "rest"
  <2>1. WaitKey(d) = "condition" /\ FrameOf(d) = None /\ WaitLine(d) = <<Line("parking", "condition")>>
    BY <1>4 DEF Waits, WaitKey, FrameOf, WaitLine
  <2>2. ReadLine(s, Line("parking", "condition")) = At(ths, Th(n, None, "condition", {}, None), b, No)
    BY ReadParking
  <2>3. "condition" \in Said
    BY DEF Said
  <2> QED
    BY <1>0, <2>1, <2>2, <2>3
<1>5. CASE d.does \in {"hot", "idle", "virtual"}
  <2>1. WaitKey(d) = None /\ FrameOf(d) = d.does /\ WaitLine(d) = <<Line("frame", d.does)>>
    BY <1>5 DEF Waits, WaitKey, FrameOf, WaitLine
  <2>2. ReadLine(s, Line("frame", d.does)) = At(ths, Th(n, None, None, {}, d.does), b, No)
    BY ReadFrame
  <2>3. d.does \in Said
    BY <1>5 DEF Said
  <2> QED
    BY <1>0, <2>1, <2>2, <2>3
<1> QED
  BY <1>1, <1>2, <1>3, <1>4, <1>5

\* A stack, as jstack's section repeats it.
LEMMA StackRead ==
  ASSUME NEW t \in Threads, jvm.doing[t] \in Doings,
         NEW X, NEW ths \in Seq(X), NEW b, NEW o, NEW y
  PROVE  Stack(t) \in Seq(LineSet) /\ Reads(Of(ths, b, o, y), Stack(t), At(ths, Part(t), b, No))
<1> DEFINE n == jvm.name[t]
           d == jvm.doing[t]
           h == <<Line("head", n)>>
           w == WaitLine(d)
           l == Listed("locked", Owned(t, Monitors))
           s0 == Of(ths, b, o, y)
           s1 == At(ths, Th(n, None, None, {}, None), b, No)
           s2 == At(ths, Th(n, None, WaitKey(d), {}, FrameOf(d)), b, No)
           s3 == At(ths, Part(t), b, No)
<1>1. h \in Seq(LineSet) /\ Reads(s0, h, s1)
  <2>1. n \in Said
    BY DEF Said
  <2>2. Line("head", n) \in LineSet
    BY <2>1, LineIn
  <2>3. ReadLine(s0, Line("head", n)) = s1
    BY ReadHead
  <2> HIDE DEF s0, s1
  <2>4. Reads(s0, h, s1)
    BY <2>3, ReadsOne
  <2> QED
    BY <2>2, <2>4
<1>2. w \in Seq(LineSet) /\ Reads(s1, w, s2)
  BY WaitRead
<1>3. l \in Seq(LineSet) /\ Reads(s2, l, s3)
  <2>1. /\ l \in Seq(LineSet)
        /\ Reads(s2, l, At(ths, Th(n, None, WaitKey(d), {} \cup Owned(t, Monitors), FrameOf(d)), b, No))
    BY OwnedFinite, ListRead
  <2>2. {} \cup Owned(t, Monitors) = Owned(t, Monitors)
    OBVIOUS
  <2> QED
    BY <2>1, <2>2 DEF Part
<1>4. Stack(t) = (h \o w) \o l
  BY DEF Stack
<1> HIDE DEF h, w, l, s0, s1, s2, s3
<1>5. h \o w \in Seq(LineSet) /\ Reads(s0, h \o w, s2)
  BY <1>1, <1>2, ReadsConcat
<1>6. (h \o w) \o l \in Seq(LineSet) /\ Reads(s0, (h \o w) \o l, s3)
  BY <1>3, <1>5, ReadsConcat
<1> QED
  BY <1>4, <1>6 DEF s0, s3

\* A thread with its state and its synchronizers.
LEMMA BlockRead ==
  ASSUME NEW t \in Threads, jvm.doing[t] \in Doings,
         NEW X, NEW ths \in Seq(X), NEW b, NEW o, NEW y
  PROVE  Block(t) \in Seq(LineSet) /\ Reads(Of(ths, b, o, y), Block(t), At(ths, Full(t), b, Yes))
<1> DEFINE n == jvm.name[t]
           d == jvm.doing[t]
           m == Owned(t, Monitors)
           Is(st, hs, z) == At(ths, Th(n, st, WaitKey(d), hs, FrameOf(d)), b, z)
           a1 == Line("state", StateOf(d))
           a2 == Line("synchronizers", None)
           l == Listed("held", Owned(t, JucLocks))
           s0 == Of(ths, b, o, y)
           s1 == Is(None, m, No)
           s2 == Is(StateOf(d), m, No)
           s3 == Is(StateOf(d), m, Yes)
           s4 == At(ths, Full(t), b, Yes)
<1>1. Stack(t) \in Seq(LineSet) /\ Reads(s0, Stack(t), s1)
  BY StackRead DEF Part
<1>2. a1 \in LineSet /\ ReadLine(s1, a1) = s2
  <2>1. StateOf(d) \in Said
    BY DoingIs DEF Said
  <2>2. a1 \in LineSet
    BY <2>1, LineIn
  <2> QED
    BY <2>2, ReadState
<1>3. a2 \in LineSet /\ ReadLine(s2, a2) = s3
  <2>1. None \in Said
    BY DEF Said
  <2>2. a2 \in LineSet
    BY <2>1, LineIn
  <2> QED
    BY <2>2, ReadSync
<1>4. l \in Seq(LineSet) /\ Reads(s3, l, s4)
  BY OwnedFinite, ListRead DEF Full
<1>5. Block(t) = (Stack(t) \o <<a1, a2>>) \o l
  BY DEF Block
<1> HIDE DEF a1, a2, l, s0, s1, s2, s3, s4
<1>6. <<a1>> \in Seq(LineSet) /\ <<a2>> \in Seq(LineSet)
  BY <1>2, <1>3
<1>a. <<a1, a2>> = <<a1>> \o <<a2>>
  <2> DEFINE u == <<a1>> \o <<a2>>
             w == <<a1, a2>>
  <2>1. u \in Seq(LineSet) /\ Len(u) = 2 /\ u[1] = a1 /\ u[2] = a2
    BY <1>6
  <2>2. w \in Seq(LineSet) /\ Len(w) = 2 /\ w[1] = a1 /\ w[2] = a2
    BY <1>2, <1>3
  <2> HIDE DEF u, w
  <2>3. u \in [1 .. 2 -> LineSet] /\ w \in [1 .. 2 -> LineSet]
    <3>1. \A k \in Nat, x \in Seq(LineSet) : Len(x) = k => x \in [1 .. k -> LineSet]
      OBVIOUS
    <3> QED
      BY <2>1, <2>2, <3>1
  <2>4. \A i \in 1 .. 2 : i = 1 \/ i = 2
    OBVIOUS
  <2>5. \A i \in 1 .. 2 : u[i] = w[i]
    BY <2>1, <2>2, <2>4
  <2>6. u = w
    BY <2>3, <2>5
  <2> QED
    BY <2>6 DEF u, w
<1>7. Reads(s1, <<a1>>, s2) /\ Reads(s2, <<a2>>, s3)
  BY <1>2, <1>3, ReadsOne
<1>8. Reads(s1, <<a1, a2>>, s3) /\ <<a1, a2>> \in Seq(LineSet)
  <2>1. Reads(s1, <<a1>> \o <<a2>>, s3) /\ <<a1>> \o <<a2>> \in Seq(LineSet)
    BY <1>6, <1>7, ReadsConcat
  <2> QED
    BY <2>1, <1>a
<1>9. Reads(s0, Stack(t) \o <<a1, a2>>, s3) /\ Stack(t) \o <<a1, a2>> \in Seq(LineSet)
  BY <1>1, <1>8, ReadsConcat
<1>10. /\ Reads(s0, (Stack(t) \o <<a1, a2>>) \o l, s4)
       /\ (Stack(t) \o <<a1, a2>>) \o l \in Seq(LineSet)
  BY <1>4, <1>9, ReadsConcat
<1> QED
  BY <1>5, <1>10 DEF s0, s4

\* Append, as a function of one more index.
LEMMA AppendGrows ==
  ASSUME NEW X, NEW s \in Seq(X), NEW T \in X
  PROVE  Append(s, T) = [i \in 1 .. Len(s) + 1 |-> IF i = Len(s) + 1 THEN T ELSE s[i]]
<1> DEFINE A == Append(s, T)
           B == [i \in 1 .. Len(s) + 1 |-> IF i = Len(s) + 1 THEN T ELSE s[i]]
<1>1. A \in Seq(X) /\ DOMAIN A = 1 .. Len(s) + 1 /\ A[Len(s) + 1] = T
      /\ \A k \in 1 .. Len(s) : A[k] = s[k]
  BY AppendIs
<1>2. \A i \in 1 .. Len(s) + 1 : i = Len(s) + 1 \/ i \in 1 .. Len(s)
  OBVIOUS
<1>3. \A i \in 1 .. Len(s) + 1 : A[i] = B[i]
  BY <1>1, <1>2
<1>4. A = [i \in DOMAIN A |-> A[i]]
  <2> HIDE DEF A
  <2> QED
    BY <1>1
<1>5. B = [i \in 1 .. Len(s) + 1 |-> B[i]]
  OBVIOUS
<1> HIDE DEF A, B
<1>6. A = B
  BY <1>1, <1>3, <1>4, <1>5
<1> QED
  BY <1>6 DEF A, B

Fulls(n) == [u \in 1 .. n |-> Full(u)]
Doers    == \A t \in Threads : jvm.doing[t] \in Doings

\* The dump proper: every thread in full, in order.
LEMMA BlocksRead ==
  ASSUME Doers
  PROVE  LET L == FlattenSeq([t \in Threads |-> Block(t)])
         IN  L \in Seq(LineSet) /\ Reads(Of(<<>>, No, No, No), L, Of(Fulls(N), No, Yes, Yes))
<1> DEFINE q == [t \in Threads |-> Block(t)]
           X == {Full(t) : t \in Threads}
           Sofar(i) == Of(Fulls(i), No, IF i = 0 THEN No ELSE Yes, IF i = 0 THEN No ELSE Yes)
           I == [i \in 0 .. N |-> {Sofar(i)}]
<1>1. N \in Nat /\ N # 0 /\ Threads = 1 .. N
  BY ThreadsAssumption DEF Threads
<1>2. \A t \in Threads : Block(t) \in Seq(LineSet)
  <2>1. <<>> \in Seq(X)
    OBVIOUS
  <2> HIDE DEF X
  <2>2. ASSUME NEW t \in Threads PROVE Block(t) \in Seq(LineSet)
    BY <2>1, BlockRead DEF Doers
  <2> QED
    BY <2>2
<1>3. q \in Seq(Seq(LineSet)) /\ Len(q) = N /\ \A i \in 1 .. N : q[i] = Block(i)
  BY <1>1, <1>2
<1>4. ASSUME NEW i \in 1 .. N PROVE Reads(Sofar(i - 1), Block(i), Sofar(i))
  <2> DEFINE ths == Fulls(i - 1)
  <2>0. i - 1 \in Nat /\ i \in Threads /\ 1 .. i - 1 \subseteq Threads
    BY <1>1
  <2>1. ths \in Seq(X) /\ Len(ths) = i - 1 /\ Full(i) \in X /\ \A u \in 1 .. i - 1 : ths[u] = Full(u)
    BY <2>0 DEF Fulls
  <2>2. Append(ths, Full(i)) = [u \in 1 .. (i - 1) + 1 |-> IF u = (i - 1) + 1 THEN Full(i) ELSE ths[u]]
    <3> HIDE DEF ths, X
    <3> QED
      BY <2>1, AppendGrows
  <2>3. (i - 1) + 1 = i /\ \A u \in 1 .. i : u = i \/ u \in 1 .. i - 1
    BY <2>0
  <2>4. Append(ths, Full(i)) = Fulls(i)
    <3>1. \A u \in 1 .. i : (IF u = i THEN Full(i) ELSE ths[u]) = Full(u)
      BY <2>1, <2>3
    <3> HIDE DEF ths, X
    <3> QED
      BY <3>1, <2>2, <2>3 DEF Fulls
  <2>5. \A b, o, y : Reads(Of(ths, b, o, y), Block(i), At(ths, Full(i), b, Yes))
    <3> HIDE DEF ths, X
    <3> QED
      BY <2>0, <2>1, BlockRead DEF Doers
  <2>6. Reads(Sofar(i - 1), Block(i), At(ths, Full(i), No, Yes))
    <3> HIDE DEF ths
    <3> QED
      BY <2>5 DEF ths
  <2>7. At(ths, Full(i), No, Yes) = Sofar(i)
    <3> HIDE DEF ths
    <3> QED
      BY <2>4, <2>0 DEF At
  <2> QED
    BY <2>6, <2>7
<1>5. Sofar(0) = Of(<<>>, No, No, No)
  <2>1. Fulls(0) = <<>>
    BY DEF Fulls
  <2> QED
    BY <2>1
<1>6. Sofar(N) = Of(Fulls(N), No, Yes, Yes)
  BY <1>1
<1> HIDE DEF q, Sofar
<1>7. \A i \in 0 .. N : I[i] = {Sofar(i)}
  OBVIOUS
<1> HIDE DEF I
<1>8. ASSUME NEW i \in 1 .. Len(q), NEW s \in I[i - 1] PROVE \E t \in I[i] : Reads(s, q[i], t)
  <2>1. i \in 1 .. N /\ i \in 0 .. N /\ i - 1 \in 0 .. N
    BY <1>1, <1>3
  <2>2. s = Sofar(i - 1) /\ I[i] = {Sofar(i)} /\ q[i] = Block(i)
    BY <2>1, <1>3, <1>7, <1>8
  <2> QED
    BY <2>1, <2>2, <1>4
<1>9. Sofar(0) \in I[0] /\ I[N] = {Sofar(N)}
  BY <1>1, <1>7
<1>10. FlattenSeq(q) \in Seq(LineSet) /\ \E s1 \in I[Len(q)] : Reads(Sofar(0), FlattenSeq(q), s1)
  BY <1>3, <1>8, <1>9, FlatReads
<1> QED
  BY <1>3, <1>5, <1>6, <1>9, <1>10 DEF q

\* The section of jstack: more entries, none of which is of a thread that the
\* dump does not have, or holds what its thread does not.
Tails  == {Part(t) : t \in Threads} \cup {Bare(t) : t \in Threads}
Items  == {Full(t) : t \in Threads} \cup Tails
DumpOf == {ths \in Seq(Items) :
             /\ Len(ths) >= N /\ \A i \in 1 .. N : ths[i] = Full(i)
             /\ \A i \in 1 .. Len(ths) : i > N => ths[i] \in Tails}
Good   == {Of(ths, b, o, y) : ths \in DumpOf, b \in {Yes, No}, o \in {Yes, No}, y \in {Yes, No}}

\* A state of the parser after the dump proper.
LEMMA GoodIs ==
  ASSUME NEW ths \in DumpOf, NEW b \in {Yes, No}, NEW o \in {Yes, No}, NEW y \in {Yes, No}
  PROVE  Of(ths, b, o, y) \in Good
<1> QED
  BY DEF Good

\* One more entry of jstack's section.
LEMMA GrowDump ==
  ASSUME NEW ths \in DumpOf, NEW T \in Tails
  PROVE  Append(ths, T) \in DumpOf
<1>0. N \in Nat
  BY ThreadsAssumption
<1>1. ths \in Seq(Items) /\ Len(ths) >= N /\ Len(ths) \in Nat
      /\ (\A i \in 1 .. N : ths[i] = Full(i))
      /\ (\A i \in 1 .. Len(ths) : i > N => ths[i] \in Tails)
  BY DEF DumpOf
<1>2. T \in Items
  BY DEF Items
<1> HIDE DEF Items
<1> DEFINE A == Append(ths, T)
<1>3. /\ A \in Seq(Items) /\ Len(A) = Len(ths) + 1 /\ A[Len(ths) + 1] = T
      /\ \A k \in 1 .. Len(ths) : A[k] = ths[k]
  BY <1>1, <1>2, AppendIs
<1> HIDE DEF A
<1>4. \A i \in 1 .. N : A[i] = Full(i)
  BY <1>0, <1>1, <1>3
<1>5. ASSUME NEW i \in 1 .. Len(A), i > N PROVE A[i] \in Tails
  <2>1. i = Len(ths) + 1 \/ i \in 1 .. Len(ths)
    BY <1>1, <1>3
  <2> QED
    BY <2>1, <1>1, <1>3, <1>5
<1>6. Len(A) >= N
  BY <1>0, <1>1, <1>3
<1> QED
  BY <1>3, <1>4, <1>5, <1>6 DEF DumpOf, A

\* A report of jstack's section leaves the entries of the dump proper alone.
LEMMA ReportRead ==
  ASSUME Doers, NEW S, S \subseteq Threads, NEW s0 \in Good
  PROVE  Report(S) \in Seq(LineSet) /\ \E s1 \in Good : Reads(s0, Report(S), s1)
<1> DEFINE ts == SetToSeq(S)
           n == Cardinality(S)
           a == <<Line("banner", None)>>
           h == [i \in DOMAIN ts |-> Line("head", jvm.name[ts[i]])]
           q == [i \in DOMAIN ts |-> Stack(ts[i])]
           c == FlattenSeq(q)
<1>1. /\ ts \in [1 .. n -> S] /\ n \in Nat /\ DOMAIN ts = 1 .. n
      /\ \A i \in 1 .. n : ts[i] \in Threads
  <2>1. IsFiniteSet(S)
    <3>1. IsFiniteSet(Threads)
      BY ThreadsAssumption, FS_Interval DEF Threads
    <3> QED
      BY <3>1, FS_Subset
  <2> QED
    BY <2>1, SetToSeqIs
<1> HIDE DEF ts, n
<1>2. ASSUME NEW s \in Good
      PROVE  \E ths \in DumpOf, b \in {Yes, No}, o \in {Yes, No}, y \in {Yes, No} : s = Of(ths, b, o, y)
  BY DEF Good
<1>3. a \in Seq(LineSet) /\ \E s1 \in Good : Reads(s0, a, s1)
  <2>1. PICK ths \in DumpOf, b \in {Yes, No}, o \in {Yes, No}, y \in {Yes, No} : s0 = Of(ths, b, o, y)
    BY <1>2
  <2>2. ReadLine(s0, Line("banner", None)) = Of(ths, Yes, No, y)
    BY <2>1, ReadBanner
  <2>3. Of(ths, Yes, No, y) \in Good
    BY GoodIs
  <2>4. None \in Said
    BY DEF Said
  <2>5. Line("banner", None) \in LineSet
    BY <2>4, LineIn
  <2>6. Reads(s0, a, ReadLine(s0, Line("banner", None)))
    BY ReadsOne
  <2>7. a \in Seq(LineSet)
    BY <2>5
  <2> QED
    BY <2>2, <2>3, <2>6, <2>7
<1>4. h \in Seq(LineSet) /\ \A s \in Good : \E s1 \in Good : Reads(s, h, s1)
  <2>1. ASSUME NEW i \in 1 .. n PROVE h[i] = Line("head", jvm.name[ts[i]]) /\ h[i] \in LineSet
    <3>1. jvm.name[ts[i]] \in Said
      BY <1>1 DEF Said
    <3>2. Line("head", jvm.name[ts[i]]) \in LineSet
      BY <3>1, LineIn
    <3> QED
      BY <3>2, <1>1
  <2>2. h \in Seq(LineSet) /\ Len(h) = n
    <3>1. h \in [1 .. n -> LineSet]
      BY <1>1, <2>1
    <3> HIDE DEF h
    <3> QED
      BY <3>1, <1>1
  <2> HIDE DEF h
  <2>3. ASSUME NEW i \in 1 .. n, NEW s \in Good PROVE ReadLine(s, h[i]) \in Good
    <3>1. PICK ths \in DumpOf, b \in {Yes, No}, o \in {Yes, No}, y \in {Yes, No} : s = Of(ths, b, o, y)
      BY <1>2
    <3>2. ReadLine(s, h[i]) = At(ths, Bare(ts[i]), b, No)
      BY <3>1, <2>1, ReadHead DEF Bare
    <3>3. Bare(ts[i]) \in Tails
      BY <1>1 DEF Tails
    <3>4. Append(ths, Bare(ts[i])) \in DumpOf
      BY <3>3, GrowDump
    <3> QED
      BY <3>2, <3>4, GoodIs DEF At
  <2>4. ASSUME NEW s \in Good PROVE \E s1 \in Good : Reads(s, h, s1)
    <3> DEFINE I == [i \in 0 .. n |-> Good]
    <3>1. \A i \in 0 .. n : I[i] = Good
      OBVIOUS
    <3>2. \A i \in 1 .. n : i \in 0 .. n /\ i - 1 \in 0 .. n
      BY <1>1
    <3>3. 0 \in 0 .. n /\ n \in 0 .. n
      BY <1>1
    <3> HIDE DEF I
    <3>4. s \in I[0] /\ \A i \in 1 .. n : \A r \in I[i - 1] : ReadLine(r, h[i]) \in I[i]
      BY <3>1, <3>2, <3>3, <2>3
    <3>5. \E s1 \in I[n] : Reads(s, h, s1)
      BY <3>4, <2>2, <1>1, LinesRead
    <3> QED
      BY <3>1, <3>3, <3>5
  <2> QED
    BY <2>2, <2>4
<1>5. c \in Seq(LineSet) /\ \A s \in Good : \E s1 \in Good : Reads(s, c, s1)
  <2>1. ASSUME NEW t \in Threads, NEW s \in Good
        PROVE  Stack(t) \in Seq(LineSet) /\ \E s1 \in Good : Reads(s, Stack(t), s1)
    <3>1. PICK ths \in DumpOf, b \in {Yes, No}, o \in {Yes, No}, y \in {Yes, No} : s = Of(ths, b, o, y)
      BY <1>2
    <3>2. ths \in Seq(Items) /\ jvm.doing[t] \in Doings
      BY DEF DumpOf, Doers
    <3>3. Stack(t) \in Seq(LineSet) /\ Reads(s, Stack(t), At(ths, Part(t), b, No))
      BY <3>1, <3>2, StackRead
    <3>4. Part(t) \in Tails
      BY DEF Tails
    <3>5. Append(ths, Part(t)) \in DumpOf
      BY <3>4, GrowDump
    <3>6. At(ths, Part(t), b, No) \in Good
      BY <3>5, GoodIs DEF At
    <3> QED
      BY <3>3, <3>6
  <2>2. q \in Seq(Seq(LineSet)) /\ Len(q) = n /\ \A i \in 1 .. n : q[i] = Stack(ts[i])
    <3>1. \A i \in 1 .. n : Stack(ts[i]) \in Seq(LineSet)
      BY <1>1, <2>1
    <3>2. q \in [1 .. n -> Seq(LineSet)] /\ \A i \in 1 .. n : q[i] = Stack(ts[i])
      BY <3>1, <1>1
    <3> HIDE DEF q
    <3> QED
      BY <3>2, <1>1
  <2> HIDE DEF q
  <2>3. ASSUME NEW s \in Good
        PROVE  FlattenSeq(q) \in Seq(LineSet) /\ \E s1 \in Good : Reads(s, FlattenSeq(q), s1)
    <3> DEFINE I == [i \in 0 .. n |-> Good]
    <3>1. \A i \in 0 .. n : I[i] = Good
      OBVIOUS
    <3>2. \A i \in 1 .. n : i \in 0 .. n /\ i - 1 \in 0 .. n
      BY <1>1
    <3>3. 0 \in 0 .. n /\ n \in 0 .. n
      BY <1>1
    <3> HIDE DEF I
    <3>4. ASSUME NEW i \in 1 .. Len(q), NEW r \in I[i - 1] PROVE \E t \in I[i] : Reads(r, q[i], t)
      <4>1. i \in 1 .. n /\ r \in Good /\ I[i] = Good /\ q[i] = Stack(ts[i]) /\ ts[i] \in Threads
        BY <3>1, <3>2, <3>4, <2>2, <1>1
      <4> QED
        BY <4>1, <2>1
    <3>5. s \in I[0]
      BY <3>1, <3>3
    <3>6. FlattenSeq(q) \in Seq(LineSet) /\ \E s1 \in I[Len(q)] : Reads(s, FlattenSeq(q), s1)
      BY <3>4, <3>5, <2>2, FlatReads
    <3> QED
      BY <3>1, <3>3, <3>6, <2>2
  <2> QED
    BY <2>3
<1>6. Report(S) = (a \o h) \o c
  BY DEF Report, ts
<1> HIDE DEF a, h, q, c
<1>7. PICK s1 \in Good : Reads(s0, a, s1)
  BY <1>3
<1>8. PICK s2 \in Good : Reads(s1, h, s2)
  BY <1>4
<1>9. PICK s3 \in Good : Reads(s2, c, s3)
  BY <1>5
<1>10. a \o h \in Seq(LineSet) /\ Reads(s0, a \o h, s2)
  BY <1>3, <1>4, <1>7, <1>8, ReadsConcat
<1>11. (a \o h) \o c \in Seq(LineSet) /\ Reads(s0, (a \o h) \o c, s3)
  BY <1>5, <1>9, <1>10, ReadsConcat
<1> QED
  BY <1>6, <1>11

\* What a text is read as: every thread in full, then entries that say no more.
LEMMA TextRead ==
  ASSUME Doers, form \in {"actuator", "jstack"}
  PROVE  ParseText.threads \in DumpOf
<1> DEFINE b == FlattenSeq([t \in Threads |-> Block(t)])
           R == {Report(S) : S \in Deadlocks}
           q == SetToSeq(R)
           n == Cardinality(R)
           r == FlattenSeq(q)
           s0 == Of(<<>>, No, No, No)
           s1 == Of(Fulls(N), No, Yes, Yes)
<1>1. b \in Seq(LineSet) /\ Reads(s0, b, s1)
  BY BlocksRead
<1>2. s1 \in Good
  <2>1. Fulls(N) \in Seq(Items) /\ Len(Fulls(N)) = N /\ \A i \in 1 .. N : Fulls(N)[i] = Full(i)
    <3>1. N \in Nat /\ \A i \in 1 .. N : Full(i) \in Items
      BY ThreadsAssumption DEF Items, Threads
    <3> QED
      BY <3>1 DEF Fulls
  <2>2. Fulls(N) \in DumpOf
    BY <2>1, ThreadsAssumption DEF DumpOf
  <2> QED
    BY <2>2, GoodIs
<1>3. r \in Seq(LineSet) /\ \E s2 \in Good : Reads(s1, r, s2)
  <2>1. \A S \in Deadlocks : S \subseteq Threads
    BY DEF Deadlocks
  <2>2. IsFiniteSet(R)
    <3>1. IsFiniteSet(Threads)
      BY ThreadsAssumption, FS_Interval DEF Threads
    <3>2. IsFiniteSet(SUBSET Threads)
      BY <3>1, FS_SUBSET
    <3>3. IsFiniteSet(Deadlocks)
      BY <3>2, <2>1, FS_Subset
    <3> DEFINE f == [S \in Deadlocks |-> Report(S)]
    <3>4. f \in Surjection(Deadlocks, R)
      BY DEF Surjection
    <3> HIDE DEF f, R
    <3> QED
      BY <3>3, <3>4, FS_Surjection
  <2>3. \A x \in R : x \in Seq(LineSet) /\ \A s \in Good : \E t \in Good : Reads(s, x, t)
    <3> SUFFICES ASSUME NEW S \in Deadlocks
                 PROVE  Report(S) \in Seq(LineSet)
                        /\ \A s \in Good : \E t \in Good : Reads(s, Report(S), t)
      OBVIOUS
    <3> QED
      BY <1>2, <2>1, ReportRead
  <2> HIDE DEF R
  <2>4. q \in [1 .. n -> R] /\ q \in Seq(R) /\ Len(q) = n /\ n \in Nat
    BY <2>2, SetToSeqIs
  <2> HIDE DEF q, n
  <2>5. q \in Seq(Seq(LineSet))
    BY <2>3, <2>4
  <2> DEFINE I == [i \in 0 .. n |-> Good]
  <2>6. \A i \in 0 .. n : I[i] = Good
    OBVIOUS
  <2>7. \A i \in 1 .. n : i \in 0 .. n /\ i - 1 \in 0 .. n
    BY <2>4
  <2>8. 0 \in 0 .. n /\ n \in 0 .. n
    BY <2>4
  <2> HIDE DEF I, s1
  <2>9. ASSUME NEW i \in 1 .. Len(q), NEW s \in I[i - 1] PROVE \E t \in I[i] : Reads(s, q[i], t)
    <3>1. i \in 1 .. n /\ s \in Good /\ I[i] = Good /\ q[i] \in R
      BY <2>4, <2>6, <2>7, <2>9
    <3> QED
      BY <3>1, <2>3
  <2>10. s1 \in I[0]
    BY <1>2, <2>6, <2>8
  <2>11. FlattenSeq(q) \in Seq(LineSet) /\ \E s2 \in I[Len(q)] : Reads(s1, FlattenSeq(q), s2)
    BY <2>5, <2>9, <2>10, FlatReads
  <2> QED
    BY <2>4, <2>6, <2>8, <2>11
<1> HIDE DEF b, r, s1, s0
<1>4. <<>> \in Seq(LineSet) /\ Reads(s1, <<>>, s1)
  BY ReadsNone
<1>5. Text \in Seq(LineSet) /\ \E s2 \in Good : Reads(s0, Text, s2)
  <2>1. Text = b \o (IF form = "jstack" THEN r ELSE <<>>)
    BY DEF Text, b, r
  <2>2. CASE form = "jstack"
    BY <2>1, <2>2, <1>1, <1>3, ReadsConcat
  <2>3. CASE form # "jstack"
    BY <2>1, <2>3, <1>1, <1>2, <1>4, ReadsConcat
  <2> QED
    BY <2>2, <2>3
<1>6. PICK s2 \in Good : Reads(s0, Text, s2)
  BY <1>5
<1>7. Text \in Seq({Text[i] : i \in DOMAIN Text})
  <2>1. PICK L \in Seq(LineSet) : L = Text
    BY <1>5
  <2>2. L \in Seq({L[i] : i \in DOMAIN L})
    OBVIOUS
  <2> QED
    BY <2>1, <2>2
<1>8. FoldLeft(ReadLine, s0, Text) = s2
  BY <1>6, <1>7, FoldIs
<1>9. s0 = [threads |-> <<>>, banner |-> FALSE, open |-> FALSE, inSyncList |-> FALSE]
  BY DEF s0, Of, No
<1>10. ParseText = [threads |-> s2.threads, banner |-> s2.banner]
  BY <1>8, <1>9 DEF ParseText
<1>11. s2.threads \in DumpOf
  <2>1. PICK ths \in DumpOf, x \in {Yes, No}, o \in {Yes, No}, y \in {Yes, No} : s2 = Of(ths, x, o, y)
    BY DEF Good
  <2> QED
    BY <2>1, OfIs
<1> QED
  BY <1>10, <1>11

---------------------------------------------------------------------------
(* The graph of a dump is the waits-for relation of the JVM.               *)

Distinct == \A t, u \in Threads : (jvm.name[t] = jvm.name[u] => t = u) /\ jvm.name[t] # None

WhoIn(ts, i) == CHOOSE t \in Threads : jvm.name[t] = ts[i].name
Told(ts, i)  == i \in DOMAIN ts /\ \A u \in Threads : WaitsOn(WhoIn(ts, i), u) => Target(ts, i) # 0

\* What GraphOK says, of the edges as Target finds them.
Reading(ts) ==
  /\ DOMAIN ts \subseteq Nat \ {0}
  /\ \A i \in DOMAIN ts : WhoIn(ts, i) \in Threads /\ jvm.name[WhoIn(ts, i)] = ts[i].name
  /\ \A i \in DOMAIN ts : Target(ts, i) # 0 =>
       Told(ts, Target(ts, i)) /\ WaitsOn(WhoIn(ts, i), WhoIn(ts, Target(ts, i)))
  /\ \A i, j \in DOMAIN ts :
       Target(ts, i) # 0 /\ Target(ts, j) # 0 /\ WhoIn(ts, i) = WhoIn(ts, j) => Target(ts, i) = Target(ts, j)

\* Every thread has an entry, which says of it what there is to say.
Whole(ts) ==
  \A t \in Threads : \E i \in DOMAIN ts :
    /\ WhoIn(ts, i) = t /\ Told(ts, i)
    /\ ts[i].state = StateOf(jvm.doing[t])
    /\ jvm.doing[t].does = "virtual" => ts[i].frame = "virtual"

\* What is known of the JVM.
LEMMA JVMIs ==
  ASSUME jvm \in JVMs
  PROVE  /\ Doers /\ (\A l \in Locks : jvm.owner[l] \in Threads \cup {0}) /\ jvm.name \in Namings
         /\ \A t \in Threads : Waits(jvm.doing[t]) =>
              jvm.doing[t].lock \in Locks /\ jvm.owner[jvm.doing[t].lock] # t
<1>1. /\ jvm.doing \in [Threads -> Doings] /\ jvm.owner \in [Locks -> Threads \cup {0}]
      /\ jvm.name \in Namings
      /\ \A t \in Threads : Waits(jvm.doing[t]) => jvm.owner[jvm.doing[t].lock] # t
  BY DEF JVMs
<1>2. Doers
  BY <1>1 DEF Doers
<1>3. \A t \in Threads : Waits(jvm.doing[t]) => jvm.doing[t].lock \in Locks
  BY <1>2, DoingIs DEF Doers
<1> QED
  BY <1>1, <1>2, <1>3

\* The fields of an entry.
LEMMA ThIs ==
  ASSUME NEW n, NEW st, NEW wf, NEW hs, NEW fr
  PROVE  /\ Th(n, st, wf, hs, fr).name = n /\ Th(n, st, wf, hs, fr).state = st
         /\ Th(n, st, wf, hs, fr).waitsFor = wf /\ Th(n, st, wf, hs, fr).holds = hs
         /\ Th(n, st, wf, hs, fr).lockOwner = None /\ Th(n, st, wf, hs, fr).frame = fr
<1> QED
  BY DEF Th

\* An entry whose name is a thread's is of that thread.
LEMMA WhoIs ==
  ASSUME Distinct, NEW ts, NEW i, NEW t \in Threads, ts[i].name = jvm.name[t]
  PROVE  WhoIn(ts, i) = t
<1> QED
  BY DEF Distinct, WhoIn

\* LastOf is a member, or 0.
LEMMA LastIs ==
  ASSUME NEW m \in Nat, NEW S \in SUBSET (1 .. m)
  PROVE  IF S = {} THEN LastOf(S) = 0 ELSE LastOf(S) \in S
<1>1. CASE S = {}
  BY <1>1 DEF LastOf
<1>2. CASE S # {}
  <2>1. Max(S) \in S /\ \A j \in S : Max(S) >= j
    BY <1>2, MaxOf
  <2>2. \E i \in S : \A j \in S : j <= i
    BY <2>1
  <2> QED
    BY <2>2, <1>2 DEF LastOf
<1> QED
  BY <1>1, <1>2

\* An entry of a text: of one thread, with all of what its stack says or none.
LEMMA EntryIs ==
  ASSUME jvm \in JVMs, Distinct, NEW ts \in DumpOf, NEW i \in DOMAIN ts
  PROVE  /\ WhoIn(ts, i) \in Threads /\ jvm.name[WhoIn(ts, i)] = ts[i].name
         /\ ts[i].lockOwner = None
         /\ ts[i].waitsFor \in {None, WaitKey(jvm.doing[WhoIn(ts, i)])}
         /\ \A l \in ts[i].holds : l \in Locks /\ jvm.owner[l] = WhoIn(ts, i)
         /\ ts[i].holds # {} => ts[i].waitsFor = WaitKey(jvm.doing[WhoIn(ts, i)])
<1>1. ts[i] \in Items
  BY DEF DumpOf
<1>2. PICK t \in Threads : ts[i] \in {Full(t), Part(t), Bare(t)}
  BY <1>1 DEF Items, Tails
<1>3. PICK T : T = ts[i]
  OBVIOUS
<1>4. /\ T.name = jvm.name[t] /\ T.lockOwner = None
      /\ T.waitsFor \in {None, WaitKey(jvm.doing[t])}
      /\ T.holds \subseteq Owned(t, Monitors) \cup Owned(t, JucLocks)
      /\ T.holds # {} => T.waitsFor = WaitKey(jvm.doing[t])
  <2>1. CASE T = Full(t)
    BY <2>1, ThIs DEF Full
  <2>2. CASE T = Part(t)
    BY <2>2, ThIs DEF Part
  <2>3. CASE T = Bare(t)
    BY <2>3, ThIs DEF Bare
  <2> QED
    BY <1>2, <1>3, <2>1, <2>2, <2>3
<1>5. WhoIn(ts, i) = t
  BY <1>3, <1>4, WhoIs
<1>6. \A l \in T.holds : l \in Locks /\ jvm.owner[l] = t
  BY <1>4 DEF Owned, Locks
<1> QED
  BY <1>3, <1>4, <1>5, <1>6

\* The holder of a lock is an entry of its owner; a lock without owner has none.
LEMMA HolderIs ==
  ASSUME jvm \in JVMs, Distinct, NEW ts \in DumpOf, NEW l
  PROVE  /\ Holder(ts, l) # 0 => /\ Holder(ts, l) \in DOMAIN ts /\ l \in ts[Holder(ts, l)].holds
                                 /\ l \in Locks /\ jvm.owner[l] = WhoIn(ts, Holder(ts, l))
         /\ l \in Locks /\ jvm.owner[l] # 0 => Holder(ts, l) # 0
<1> DEFINE S == {i \in DOMAIN ts : l \in ts[i].holds}
<1>1. Len(ts) \in Nat /\ DOMAIN ts = 1 .. Len(ts) /\ Len(ts) >= N /\ (\A i \in 1 .. N : ts[i] = Full(i))
  BY DEF DumpOf
<1>2. S \in SUBSET (1 .. Len(ts))
  BY <1>1
<1>3. Holder(ts, l) = LastOf(S)
  BY DEF Holder
<1>4. IF S = {} THEN Holder(ts, l) = 0 ELSE Holder(ts, l) \in S
  <2> HIDE DEF S
  <2> QED
    BY <1>1, <1>2, <1>3, LastIs
<1>5. ASSUME Holder(ts, l) # 0
      PROVE  /\ Holder(ts, l) \in DOMAIN ts /\ l \in ts[Holder(ts, l)].holds
             /\ l \in Locks /\ jvm.owner[l] = WhoIn(ts, Holder(ts, l))
  <2>1. Holder(ts, l) \in S
    BY <1>4, <1>5
  <2> QED
    BY <2>1, EntryIs
<1>6. ASSUME l \in Locks, jvm.owner[l] # 0 PROVE Holder(ts, l) # 0
  <2>1. jvm.owner[l] \in 1 .. N /\ N \in Nat
    BY <1>6, JVMIs, ThreadsAssumption DEF Threads
  <2> DEFINE u == jvm.owner[l]
  <2>2. ts[u] = Full(u) /\ u \in DOMAIN ts
    BY <2>1, <1>1
  <2>3. l \in Owned(u, Monitors) \cup Owned(u, JucLocks)
    BY <1>6 DEF Owned, Locks
  <2>4. l \in Full(u).holds
    BY <2>3, ThIs DEF Full
  <2>5. S # {}
    BY <2>2, <2>4
  <2>6. Holder(ts, l) \in DOMAIN ts
    BY <2>5, <1>4
  <2> QED
    BY <2>6, <1>1
<1> QED
  BY <1>5, <1>6

\* An edge of a text is to the holder of the lock that its thread waits for.
LEMMA TargetIs ==
  ASSUME jvm \in JVMs, Distinct, NEW ts \in DumpOf, NEW i \in DOMAIN ts
  PROVE  LET d == jvm.doing[WhoIn(ts, i)]
         IN  /\ Target(ts, i) # 0 => Waits(d) /\ Target(ts, i) = Holder(ts, d.lock)
             /\ ts[i].waitsFor = WaitKey(d) /\ Waits(d) => Target(ts, i) = Holder(ts, d.lock)
<1> DEFINE t == WhoIn(ts, i)
           d == jvm.doing[t]
           T == ts[i]
<1>1. t \in Threads /\ T.lockOwner = None /\ T.waitsFor \in {None, WaitKey(d)}
  BY EntryIs
<1>2. Target(ts, i) = IF T.waitsFor = None THEN 0
                       ELSE IF Holder(ts, T.waitsFor) # i THEN Holder(ts, T.waitsFor) ELSE 0
  BY <1>1 DEF Target
<1>3. Len(ts) \in Nat /\ DOMAIN ts = 1 .. Len(ts)
  BY DEF DumpOf
<1>4. ASSUME Waits(d) PROVE d.lock \in Locks /\ d.lock # None /\ Holder(ts, d.lock) # i
  <2>1. d.lock \in Locks /\ jvm.owner[d.lock] # t
    BY <1>1, <1>4, JVMIs
  <2>2. Holder(ts, d.lock) = i => i = 0
    BY <2>1, HolderIs
  <2> QED
    BY <2>1, <2>2, <1>3, LocksAssumption
<1>5. Waits(d) => WaitKey(d) = d.lock
  BY DEF WaitKey
<1>6. ASSUME ~Waits(d) PROVE Target(ts, i) = 0
  <2>1. CASE T.waitsFor = None
    BY <2>1, <1>2
  <2>2. CASE T.waitsFor # None
    <3>1. T.waitsFor = "condition" /\ "condition" \notin Locks
      BY <2>2, <1>1, <1>6, LocksAssumption DEF WaitKey
    <3>2. Holder(ts, "condition") = 0
      BY <3>1, HolderIs
    <3> QED
      BY <3>1, <3>2, <1>2
  <2> QED
    BY <2>1, <2>2
<1> HIDE DEF T
<1>7. ASSUME Waits(d), T.waitsFor = WaitKey(d) PROVE Target(ts, i) = Holder(ts, d.lock)
  BY <1>2, <1>4, <1>5, <1>7
<1>8. ASSUME Waits(d), Target(ts, i) # 0 PROVE T.waitsFor = WaitKey(d)
  BY <1>1, <1>2, <1>8
<1> HIDE DEF d
<1>9. Target(ts, i) # 0 => Waits(d) /\ Target(ts, i) = Holder(ts, d.lock)
  BY <1>6, <1>7, <1>8
<1>10. T.waitsFor = WaitKey(d) /\ Waits(d) => Target(ts, i) = Holder(ts, d.lock)
  BY <1>7
<1> QED
  BY <1>9, <1>10 DEF d, T

\* An entry that says what its thread waits for has the edge.
LEMMA ToldIs ==
  ASSUME jvm \in JVMs, Distinct, NEW ts \in DumpOf, NEW i \in DOMAIN ts,
         ts[i].waitsFor = WaitKey(jvm.doing[WhoIn(ts, i)])
  PROVE  Told(ts, i)
<1> SUFFICES ASSUME NEW u \in Threads, WaitsOn(WhoIn(ts, i), u) PROVE Target(ts, i) # 0
  BY DEF Told
<1> DEFINE d == jvm.doing[WhoIn(ts, i)]
<1>1. Waits(d) /\ jvm.owner[d.lock] = u
  BY DEF WaitsOn
<1>2. d.lock \in Locks /\ u # 0
  <2>1. WhoIn(ts, i) \in Threads
    BY EntryIs
  <2> QED
    BY <2>1, <1>1, JVMIs DEF Threads
<1>3. Target(ts, i) = Holder(ts, d.lock)
  BY <1>1, TargetIs
<1> HIDE DEF d
<1> QED
  BY <1>1, <1>2, <1>3, HolderIs

\* The graph of a text is the waits-for relation.
LEMMA TextReading ==
  ASSUME jvm \in JVMs, Distinct, NEW ts \in DumpOf
  PROVE  Reading(ts) /\ Whole(ts)
<1>1. Len(ts) \in Nat /\ DOMAIN ts = 1 .. Len(ts) /\ Len(ts) >= N /\ (\A i \in 1 .. N : ts[i] = Full(i))
  BY DEF DumpOf
<1>2. \A i \in DOMAIN ts : WhoIn(ts, i) \in Threads /\ jvm.name[WhoIn(ts, i)] = ts[i].name
  BY EntryIs
<1>3. ASSUME NEW i \in DOMAIN ts, Target(ts, i) # 0
      PROVE  Told(ts, Target(ts, i)) /\ WaitsOn(WhoIn(ts, i), WhoIn(ts, Target(ts, i)))
  <2> DEFINE d == jvm.doing[WhoIn(ts, i)]
             h == Holder(ts, d.lock)
  <2>1. Waits(d) /\ Target(ts, i) = h /\ h # 0
    BY <1>3, TargetIs
  <2> HIDE DEF d
  <2>2. h \in DOMAIN ts /\ ts[h].holds # {} /\ jvm.owner[d.lock] = WhoIn(ts, h)
    BY <2>1, HolderIs
  <2>3. ts[h].waitsFor = WaitKey(jvm.doing[WhoIn(ts, h)])
    <3> HIDE DEF h
    <3> QED
      BY <2>2, EntryIs
  <2>4. Told(ts, h)
    <3> HIDE DEF h
    <3> QED
      BY <2>2, <2>3, ToldIs
  <2> QED
    BY <2>1, <2>2, <2>4 DEF WaitsOn, d
<1>4. ASSUME NEW i \in DOMAIN ts, NEW j \in DOMAIN ts,
             Target(ts, i) # 0, Target(ts, j) # 0, WhoIn(ts, i) = WhoIn(ts, j)
      PROVE  Target(ts, i) = Target(ts, j)
  BY <1>4, TargetIs
<1>5. Reading(ts)
  BY <1>1, <1>2, <1>3, <1>4 DEF Reading
<1>6. ASSUME NEW t \in Threads
      PROVE  /\ t \in DOMAIN ts /\ WhoIn(ts, t) = t /\ Told(ts, t)
             /\ ts[t].state = StateOf(jvm.doing[t])
             /\ jvm.doing[t].does = "virtual" => ts[t].frame = "virtual"
  <2>1. t \in DOMAIN ts /\ ts[t] = Full(t)
    BY <1>1, ThreadsAssumption DEF Threads
  <2>2. /\ ts[t].name = jvm.name[t] /\ ts[t].state = StateOf(jvm.doing[t])
        /\ ts[t].waitsFor = WaitKey(jvm.doing[t]) /\ ts[t].frame = FrameOf(jvm.doing[t])
    BY <2>1, ThIs DEF Full
  <2>3. WhoIn(ts, t) = t
    BY <2>2, WhoIs
  <2>4. Told(ts, t)
    BY <2>1, <2>2, <2>3, ToldIs
  <2> QED
    BY <2>1, <2>2, <2>3, <2>4 DEF FrameOf
<1>7. Whole(ts)
  BY <1>6 DEF Whole
<1> QED
  BY <1>5, <1>7

\* The actuator's JSON: one entry for each thread, with the name of the owner.
JsonTh(n, st, lo, wf, hs, fr) ==
  [name |-> n, state |-> st, waitsFor |-> wf, holds |-> hs, lockOwner |-> lo, frame |-> fr]
OwnerNamed(t) ==
  LET d == jvm.doing[t]
  IN  IF Waits(d) /\ jvm.owner[d.lock] # 0 THEN jvm.name[jvm.owner[d.lock]] ELSE None
HexKey(t) ==
  LET d == jvm.doing[t]
  IN  IF Waits(d) /\ StateOf(d) \in {"BLOCKED", "WAITING"} THEN <<"hex", d.lock>> ELSE None
DecKeys(t)  == {<<"dec", l>> : l \in Owned(t, Monitors)}
FrameTold(t) == IF StateOf(jvm.doing[t]) = "RUNNABLE" THEN jvm.doing[t].does ELSE None
Entry(t) == JsonTh(jvm.name[t], StateOf(jvm.doing[t]), OwnerNamed(t), HexKey(t), DecKeys(t), FrameTold(t))

\* The fields of an entry of the JSON.
LEMMA JsonThIs ==
  ASSUME NEW n, NEW st, NEW lo, NEW wf, NEW hs, NEW fr
  PROVE  /\ JsonTh(n, st, lo, wf, hs, fr).name = n /\ JsonTh(n, st, lo, wf, hs, fr).state = st
         /\ JsonTh(n, st, lo, wf, hs, fr).waitsFor = wf /\ JsonTh(n, st, lo, wf, hs, fr).holds = hs
         /\ JsonTh(n, st, lo, wf, hs, fr).lockOwner = lo /\ JsonTh(n, st, lo, wf, hs, fr).frame = fr
<1> QED
  BY DEF JsonTh

SetState(T, u)    == [T EXCEPT !.state = u]
SetOwner(T, u)    == [T EXCEPT !.lockOwner = u]
SetWaitsFor(T, u) == [T EXCEPT !.waitsFor = u]
SetHolds(T, u)    == [T EXCEPT !.holds = u]
SetFrame(T, u)    == [T EXCEPT !.frame = u]

\* An entry made by changing the empty one, field by field.
LEMMA SetAllIs ==
  ASSUME NEW n, NEW st, NEW lo, NEW wf, NEW hs, NEW fr
  PROVE  [NoThread(n) EXCEPT !.state = st, !.lockOwner = lo, !.waitsFor = wf, !.holds = hs, !.frame = fr]
           = JsonTh(n, st, lo, wf, hs, fr)
<1>1. SetState(NoThread(n), st) = JsonTh(n, st, None, None, {}, None)
  BY Z3 DEF NoThread, JsonTh, SetState
<1>2. SetOwner(JsonTh(n, st, None, None, {}, None), lo) = JsonTh(n, st, lo, None, {}, None)
  BY Z3 DEF JsonTh, SetOwner
<1>3. SetWaitsFor(JsonTh(n, st, lo, None, {}, None), wf) = JsonTh(n, st, lo, wf, {}, None)
  BY Z3 DEF JsonTh, SetWaitsFor
<1>4. SetHolds(JsonTh(n, st, lo, wf, {}, None), hs) = JsonTh(n, st, lo, wf, hs, None)
  BY Z3 DEF JsonTh, SetHolds
<1>5. SetFrame(JsonTh(n, st, lo, wf, hs, None), fr) = JsonTh(n, st, lo, wf, hs, fr)
  BY Z3 DEF JsonTh, SetFrame
<1>6. PICK T : T = NoThread(n)
  OBVIOUS
<1>7. [T EXCEPT !.state = st, !.lockOwner = lo, !.waitsFor = wf, !.holds = hs, !.frame = fr]
        = [[[[[T EXCEPT !.state = st] EXCEPT !.lockOwner = lo] EXCEPT !.waitsFor = wf] EXCEPT !.holds = hs]
             EXCEPT !.frame = fr]
  OBVIOUS
<1>8. [T EXCEPT !.state = st, !.lockOwner = lo, !.waitsFor = wf, !.holds = hs, !.frame = fr]
        = SetFrame(SetHolds(SetWaitsFor(SetOwner(SetState(T, st), lo), wf), hs), fr)
  BY <1>7 DEF SetState, SetOwner, SetWaitsFor, SetHolds, SetFrame
<1> QED
  BY <1>1, <1>2, <1>3, <1>4, <1>5, <1>6, <1>8

\* What the JSON is read as.
LEMMA JSONIs ==
  ParseJSON.threads = [t \in Threads |-> Entry(t)]
<1>1. ASSUME NEW t \in Threads
      PROVE  [NoThread(jvm.name[t]) EXCEPT !.state = StateOf(jvm.doing[t]), !.lockOwner = OwnerNamed(t),
                !.waitsFor = HexKey(t), !.holds = DecKeys(t), !.frame = FrameTold(t)] = Entry(t)
  BY SetAllIs DEF Entry
<1> DEFINE E(t) == [NoThread(jvm.name[t]) EXCEPT !.state = StateOf(jvm.doing[t]), !.lockOwner = OwnerNamed(t),
                !.waitsFor = HexKey(t), !.holds = DecKeys(t), !.frame = FrameTold(t)]
<1>2. ParseJSON.threads = [t \in Threads |-> E(t)]
  BY Zenon DEF ParseJSON, OwnerNamed, HexKey, DecKeys, FrameTold
<1>3. \A t \in Threads : E(t) = Entry(t)
  BY <1>1
<1> HIDE DEF E
<1> QED
  BY <1>2, <1>3

\* A name leads to its thread.
LEMMA NamedIs ==
  ASSUME Distinct, NEW ts, DOMAIN ts = Threads, \A t \in Threads : ts[t].name = jvm.name[t], NEW u \in Threads
  PROVE  Named(ts, jvm.name[u]) = u
<1>1. {i \in DOMAIN ts : ts[i].name = jvm.name[u]} = {u}
  BY DEF Distinct
<1>2. LastOf({u}) = u
  <2>1. N \in Nat /\ {u} \in SUBSET (1 .. N) /\ {u} # {}
    BY ThreadsAssumption DEF Threads
  <2>2. LastOf({u}) \in {u}
    BY <2>1, LastIs
  <2> QED
    BY <2>2
<1> QED
  BY <1>1, <1>2 DEF Named

\* An edge of the JSON is to the owner that is named.
LEMMA JSONTarget ==
  ASSUME jvm \in JVMs, Distinct, NEW ts, ts = [t \in Threads |-> Entry(t)], NEW t \in Threads
  PROVE  LET d == jvm.doing[t]
         IN  Target(ts, t) = IF Waits(d) THEN jvm.owner[d.lock] ELSE 0
<1> DEFINE d == jvm.doing[t]
           T == ts[t]
<1>1. \A u \in Threads : /\ ts[u].name = jvm.name[u] /\ ts[u].holds = DecKeys(u)
                         /\ ts[u].lockOwner = OwnerNamed(u) /\ ts[u].waitsFor = HexKey(u)
  BY JsonThIs DEF Entry
<1>2. DOMAIN ts = Threads /\ t # 0 /\ 0 \notin Threads
  BY DEF Threads
<1>3. T.lockOwner = OwnerNamed(t) /\ T.waitsFor = HexKey(t)
  BY <1>1
<1>4. T.waitsFor # None => Holder(ts, T.waitsFor) = 0
  <2> SUFFICES ASSUME T.waitsFor # None PROVE Holder(ts, T.waitsFor) = 0
    OBVIOUS
  <2>1. T.waitsFor = <<"hex", d.lock>>
    BY <1>3 DEF HexKey
  <2>2. \A u \in Threads : \A l \in DecKeys(u) : \E m : l = <<"dec", m>>
    BY DEF DecKeys
  <2>3. \A u \in Threads : T.waitsFor \notin DecKeys(u)
    BY <2>1, <2>2
  <2>4. {u \in DOMAIN ts : T.waitsFor \in ts[u].holds} = {}
    BY <2>3, <1>1, <1>2
  <2> QED
    BY <2>4 DEF Holder, LastOf
<1>5. Target(ts, t) = LET byOwner == IF T.lockOwner = None THEN 0 ELSE Named(ts, T.lockOwner)
                      IN IF byOwner \notin {0, t} THEN byOwner ELSE 0
  <2> DEFINE o == IF T.lockOwner = None THEN 0 ELSE Named(ts, T.lockOwner)
             l == IF T.waitsFor = None THEN 0 ELSE Holder(ts, T.waitsFor)
  <2>1. Target(ts, t) = IF o \notin {0, t} THEN o ELSE IF l # t THEN l ELSE 0
    BY DEF Target
  <2>2. l = 0
    BY <1>4
  <2> HIDE DEF o, l
  <2>3. Target(ts, t) = IF o \notin {0, t} THEN o ELSE 0
    BY <2>1, <2>2
  <2> QED
    BY <2>3 DEF o
<1> HIDE DEF T
<1>6. ASSUME Waits(d), jvm.owner[d.lock] # 0 PROVE Target(ts, t) = jvm.owner[d.lock]
  <2>1. jvm.owner[d.lock] \in Threads /\ jvm.owner[d.lock] # t
    BY <1>6, JVMIs
  <2>2. T.lockOwner = jvm.name[jvm.owner[d.lock]] /\ T.lockOwner # None
    BY <1>3, <1>6, <2>1 DEF OwnerNamed, Distinct
  <2>3. Named(ts, T.lockOwner) = jvm.owner[d.lock]
    BY <2>1, <2>2, <1>1, <1>2, NamedIs
  <2> QED
    BY <1>5, <2>1, <2>2, <2>3, <1>2
<1>7. ASSUME ~(Waits(d) /\ jvm.owner[d.lock] # 0) PROVE Target(ts, t) = 0
  <2>1. T.lockOwner = None
    BY <1>3, <1>7 DEF OwnerNamed
  <2> QED
    BY <2>1, <1>5
<1> QED
  BY <1>6, <1>7

\* The graph of the JSON is the waits-for relation.
LEMMA JSONReading ==
  ASSUME jvm \in JVMs, Distinct, NEW ts, ts = [t \in Threads |-> Entry(t)]
  PROVE  Reading(ts) /\ Whole(ts)
<1>1. DOMAIN ts = Threads /\ Threads \subseteq Nat \ {0}
  BY ThreadsAssumption DEF Threads
<1>2. \A t \in Threads : /\ ts[t].name = jvm.name[t] /\ ts[t].state = StateOf(jvm.doing[t])
                         /\ ts[t].frame = FrameTold(t)
  BY JsonThIs DEF Entry
<1>3. \A t \in Threads : WhoIn(ts, t) = t
  BY <1>2, WhoIs
<1>4. \A t \in Threads : LET d == jvm.doing[t]
                         IN  Target(ts, t) = IF Waits(d) THEN jvm.owner[d.lock] ELSE 0
  BY JSONTarget
<1>5. \A t \in Threads : /\ Target(ts, t) # 0 => Target(ts, t) \in Threads /\ WaitsOn(t, Target(ts, t))
                         /\ \A u \in Threads : WaitsOn(t, u) => Target(ts, t) = u
  BY <1>4, JVMIs DEF WaitsOn
<1>6. \A t \in Threads : Told(ts, t)
  BY <1>1, <1>3, <1>5 DEF Told
<1>7. Reading(ts)
  <2>1. \A i \in Threads : Target(ts, i) # 0 =>
          Told(ts, Target(ts, i)) /\ WaitsOn(WhoIn(ts, i), WhoIn(ts, Target(ts, i)))
    BY <1>3, <1>5, <1>6
  <2>2. \A i, j \in Threads : WhoIn(ts, i) = WhoIn(ts, j) => i = j
    BY <1>3
  <2> QED
    BY <1>1, <1>2, <1>3, <2>1, <2>2 DEF Reading
<1>8. \A t \in Threads : jvm.doing[t].does = "virtual" => ts[t].frame = "virtual"
  <2> SUFFICES ASSUME NEW t \in Threads, jvm.doing[t].does = "virtual" PROVE ts[t].frame = "virtual"
    OBVIOUS
  <2>1. StateOf(jvm.doing[t]) = "RUNNABLE"
    BY DEF StateOf
  <2> QED
    BY <2>1, <1>2 DEF FrameTold
<1>9. Whole(ts)
  BY <1>1, <1>2, <1>3, <1>6, <1>8 DEF Whole
<1> QED
  BY <1>7, <1>9

---------------------------------------------------------------------------
(* The invariant, and what follows.                                        *)

AllThere ==
  \A t \in Threads : \E i \in Entries :
    /\ WhoAt(i) = t /\ Linked(i)
    /\ dump.threads[i].state = StateOf(jvm.doing[t])
    /\ jvm.doing[t].does = "virtual" => dump.threads[i].frame = "virtual"

DumpInv ==
  /\ jvm \in JVMs /\ Distinct
  /\ pc \in {"parse", "walk", "shown"} /\ form \in AllForms
  /\ pc = "parse" => cur = 0 /\ seen = {} /\ cycles = <<>>
  /\ pc # "parse" => IF form = "plain" THEN dump.threads = <<>> ELSE AllThere
  /\ pc # "shown" => out = {}
  /\ pc = "shown" => out = IF Flags = {} THEN {"calm"} ELSE Flags

IInv == WalkInv /\ DumpInv

\* The initial states satisfy the invariant.
LEMMA InitInv ==
  ASSUME DistinctNames, Init
  PROVE  IInv
<1> USE DEF Init
<1>1. jvm \in JVMs /\ Distinct
  BY JVMIs DEF DistinctNames, Distinct
<1>2. /\ DOMAIN dump.threads = {} /\ DOMAIN next = {} /\ DOMAIN cycles = {} /\ cur = 0 /\ seen = {}
      /\ left = {} /\ cycles = <<>> /\ pc = "parse"
  OBVIOUS
<1>3. GraphOK
  BY <1>1, <1>2 DEF GraphOK, Entries, Distinct
<1>4. PathOK /\ SeenOK /\ FoundOK /\ LeftOK /\ RealOK
  BY <1>2 DEF PathOK, SeenOK, FoundOK, LeftOK, RealOK
<1>5. KeptOK
  <2>1. <<>> \in Seq(NameSeqs)
    OBVIOUS
  <2> QED
    BY <1>2, <2>1 DEF KeptOK
<1>6. DumpInv
  BY <1>1, <1>2, FormsAssumption DEF DumpInv
<1> QED
  BY <1>3, <1>4, <1>5, <1>6 DEF IInv, WalkInv

\* What the parser reads is the waits-for relation.
LEMMA ParsedReading ==
  ASSUME jvm \in JVMs, Distinct, form \in AllForms
  PROVE  /\ Reading(Parsed.threads)
         /\ IF form = "plain" THEN Parsed.threads = <<>> ELSE Whole(Parsed.threads)
<1>1. CASE form = "plain"
  <2>1. Parsed.threads = <<>>
    BY <1>1 DEF Parsed
  <2>2. Reading(<<>>)
    <3>1. DOMAIN <<>> = {}
      OBVIOUS
    <3> QED
      BY <3>1 DEF Reading
  <2> QED
    BY <1>1, <2>1, <2>2
<1>2. CASE form = "json"
  <2>1. Parsed.threads = [t \in Threads |-> Entry(t)]
    BY <1>2, JSONIs DEF Parsed
  <2>2. PICK ts : ts = Parsed.threads
    OBVIOUS
  <2>3. Reading(ts) /\ Whole(ts)
    BY <2>1, <2>2, JSONReading
  <2> QED
    BY <1>2, <2>2, <2>3
<1>3. CASE form \in {"actuator", "jstack"}
  <2>1. Parsed = ParseText
    BY <1>3 DEF Parsed
  <2>2. Parsed.threads \in DumpOf
    BY <1>3, <2>1, JVMIs, TextRead
  <2> QED
    BY <1>3, <2>2, TextReading
<1> QED
  BY <1>1, <1>2, <1>3 DEF AllForms

\* Parse establishes GraphOK and AllThere.
LEMMA ParseKeeps ==
  ASSUME IInv, Parse
  PROVE  IInv'
<1> DEFINE ts == Parsed.threads
<1>0. /\ jvm \in JVMs /\ Distinct /\ form \in AllForms /\ pc = "parse" /\ cur = 0 /\ seen = {}
      /\ cycles = <<>> /\ out = {}
  BY DEF IInv, DumpInv, Parse
<1>1. /\ dump'.threads = ts /\ next' = Edges(ts) /\ left' = DOMAIN next' /\ pc' = "walk" /\ jvm' = jvm
      /\ form' = form /\ cur' = 0 /\ seen' = {} /\ cycles' = <<>> /\ out' = {}
  BY <1>0 DEF Parse
<1>2. Reading(ts) /\ (IF form = "plain" THEN ts = <<>> ELSE Whole(ts))
  BY <1>0, ParsedReading
<1> HIDE DEF ts
<1>3. /\ DOMAIN next' = {k \in DOMAIN ts : Target(ts, k) # 0}
      /\ \A i \in DOMAIN next' : next'[i] = Target(ts, i)
  BY <1>1 DEF Edges
<1>4. /\ Entries' = DOMAIN ts /\ (\A i : WhoAt(i)' = WhoIn(ts, i)) /\ (\A i : NameAt(i)' = ts[i].name)
      /\ \A t, u : WaitsOn(t, u)' = WaitsOn(t, u)
  BY <1>1 DEF Entries, WhoAt, WhoIn, NameAt, WaitsOn
<1>5. \A i : Linked(i)' = Told(ts, i)
  BY <1>3, <1>4 DEF Linked, Told
<1>6. GraphOK'
  <2>1. \A t, u \in Threads : jvm'.name[t] = jvm'.name[u] => t = u
    BY <1>0, <1>1 DEF Distinct
  <2>2. Entries' \subseteq Nat \ {0} /\ DOMAIN next' \subseteq Entries'
    BY <1>2, <1>3, <1>4 DEF Reading
  <2>3. \A i \in Entries' : WhoAt(i)' \in Threads /\ jvm'.name[WhoAt(i)'] = NameAt(i)'
    BY <1>1, <1>2, <1>4 DEF Reading
  <2>4. ASSUME NEW i \in DOMAIN next' PROVE Linked(next[i])' /\ WaitsOn(WhoAt(i), WhoAt(next[i]))'
    <3>1. Told(ts, Target(ts, i)) /\ WaitsOn(WhoIn(ts, i), WhoIn(ts, Target(ts, i)))
      BY <1>2, <1>3 DEF Reading
    <3>2. next'[i] = Target(ts, i)
      BY <1>3
    <3>3. Told(ts, next'[i]) /\ WaitsOn(WhoIn(ts, i), WhoIn(ts, next'[i]))
      BY <3>1, <3>2
    <3> QED
      BY <3>3, <1>1, <1>3, <1>4 DEF Told, Linked, WaitsOn
  <2>5. \A i, j \in DOMAIN next' : WhoAt(i)' = WhoAt(j)' => next'[i] = next'[j]
    BY <1>2, <1>3, <1>4 DEF Reading
  <2> QED
    BY <2>1, <2>2, <2>3, <2>4, <2>5 DEF GraphOK
<1>7. PathOK' /\ SeenOK' /\ FoundOK' /\ LeftOK'
  BY <1>1 DEF PathOK, SeenOK, FoundOK, LeftOK
<1>8. KeptOK' /\ RealOK'
  <2>1. DOMAIN cycles' = {}
    BY <1>1
  <2>2. cycles' \in Seq(NameSeqs')
    <3>1. \A S : <<>> \in Seq(S)
      OBVIOUS
    <3> QED
      BY <3>1, <1>1
  <2> QED
    BY <2>1, <2>2 DEF KeptOK, RealOK
<1>9. DumpInv'
  <2>1. jvm' \in JVMs /\ Distinct'
    BY <1>0, <1>1 DEF JVMs, Distinct
  <2>2. ASSUME form # "plain" PROVE AllThere'
    <3> SUFFICES ASSUME NEW t \in Threads
                 PROVE  \E i \in Entries' :
                          /\ WhoAt(i)' = t /\ Linked(i)'
                          /\ dump'.threads[i].state = StateOf(jvm'.doing[t])
                          /\ jvm'.doing[t].does = "virtual" => dump'.threads[i].frame = "virtual"
      BY DEF AllThere
    <3>1. PICK i \in DOMAIN ts : /\ WhoIn(ts, i) = t /\ Told(ts, i)
                                 /\ ts[i].state = StateOf(jvm.doing[t])
                                 /\ jvm.doing[t].does = "virtual" => ts[i].frame = "virtual"
      BY <1>2, <2>2 DEF Whole
    <3> QED
      BY <3>1, <1>1, <1>4, <1>5
  <2> QED
    BY <1>0, <1>1, <1>2, <2>1, <2>2 DEF DumpInv
<1> QED
  BY <1>6, <1>7, <1>8, <1>9 DEF IInv, WalkInv

\* What the dump says does not change.
LEMMA SameDump ==
  ASSUME Rest' = Rest, jvm \in JVMs, Distinct
  PROVE  /\ jvm' \in JVMs /\ Distinct' /\ dump' = dump /\ (AllThere => AllThere')
<1>1. jvm' = jvm /\ dump' = dump /\ next' = next
  BY DEF Rest
<1>2. jvm' \in JVMs /\ Distinct'
  BY <1>1 DEF JVMs, Distinct
<1>3. AllThere => AllThere'
  BY <1>1, SameGraph DEF AllThere
<1> QED
  BY <1>1, <1>2, <1>3

\* Every step keeps the invariant.
LEMMA StepKeeps ==
  ASSUME IInv, [Next]_vars
  PROVE  IInv'
<1>0. WalkInv /\ DumpInv
  BY DEF IInv
<1>1. CASE Parse
  BY <1>1, ParseKeeps
<1>2. CASE Start \/ Visit
  <2>1. WalkInv'
    BY <1>0, <1>2, StartKeeps, VisitKeeps
  <2>2. Rest' = Rest /\ pc = "walk" /\ pc' = pc /\ form' = form /\ out' = out
    BY <1>2 DEF Start, Visit, Rest
  <2> QED
    BY <2>1, <2>2, <1>0, SameDump DEF DumpInv, IInv
<1>3. CASE Render
  <2>1. WalkInv'
    BY <1>0, <1>3, RenderKeeps
  <2>2. Rest' = Rest /\ pc = "walk" /\ pc' = "shown" /\ form' = form /\ cycles' = cycles
        /\ out' = IF Flags = {} THEN {"calm"} ELSE Flags
    BY <1>3 DEF Render, Rest
  <2>3. Flags' = Flags
    <3>1. dump' = dump /\ cycles' = cycles
      BY <2>2 DEF Rest
    <3> QED
      BY <3>1 DEF Flags, Raised, Blocked, Hot, Virtual
  <2> QED
    BY <2>1, <2>2, <2>3, <1>0, SameDump DEF DumpInv, IInv
<1>4. CASE UNCHANGED vars
  <2>1. Rest' = Rest /\ UNCHANGED <<pc, form, out, cycles, seen, cur, left, path, next, jvm, dump>>
    BY <1>4 DEF vars, Rest
  <2>2. Flags' = Flags
    BY <2>1 DEF Flags, Raised, Blocked, Hot, Virtual
  <2>3. DumpInv'
    BY <2>1, <2>2, <1>0, SameDump DEF DumpInv
  <2>4. GraphOK' /\ PathOK' /\ SeenOK' /\ FoundOK' /\ KeptOK' /\ LeftOK' /\ RealOK'
    BY <2>1, <1>0, SameGraph DEF WalkInv, PathOK, SeenOK, FoundOK, KeptOK, LeftOK, RealOK
  <2> QED
    BY <2>3, <2>4 DEF IInv, WalkInv
<1> QED
  BY <1>1, <1>2, <1>3, <1>4 DEF Next

\* The invariant.
LEMMA AlwaysInv ==
  ASSUME DistinctNames
  PROVE  Spec => []IInv
<1>1. Init => IInv
  BY InitInv
<1>2. IInv /\ [Next]_vars => IInv'
  BY StepKeeps
<1> QED
  BY <1>1, <1>2, PTL DEF Spec

\* CyclesAreReal, for every JVM, format and order of the starts: what
\* deadlockCycles reports is a deadlock, with each thread waiting for the next,
\* and it is reported once.
THEOREM RingsAreDeadlocks ==
  ASSUME DistinctNames
  PROVE  Spec => []CyclesAreReal
<1>1. IInv => CyclesAreReal
  BY DEF IInv, WalkInv, RealOK, CycleIsReal, CyclesAreReal
<1> QED
  BY <1>1, AlwaysInv, PTL

\* When the verdict is shown, every deadlock is among the cycles.
LEMMA DeadlocksAreFound ==
  ASSUME IInv, pc = "shown", form # "plain", NEW D \in Deadlocks
  PROVE  \E k \in DOMAIN cycles : Who(cycles[k]) = D
<1>1. PICK t \in D : t \in Threads
  BY DeadlockIs
<1>2. PICK i \in Entries : WhoAt(i) = t /\ Linked(i)
  BY <1>1 DEF IInv, DumpInv, AllThere
<1>3. PICK u \in D : WaitsOn(t, u) /\ u \in Threads
  BY DeadlockWaits, DeadlockIs
<1>4. i \in DOMAIN next
  BY <1>2, <1>3 DEF Linked
<1>5. i \in seen
  BY <1>4 DEF IInv, WalkInv, LeftOK
<1> QED
  BY <1>1, <1>2, <1>5 DEF IInv, WalkInv, FoundOK

\* EveryDeadlockFound: the walk misses no deadlock, however the locks of the
\* two kinds are mixed in it, with or without the section of jstack.
THEOREM NoDeadlockMissed ==
  ASSUME DistinctNames
  PROVE  Spec => []EveryDeadlockFound
<1>1. IInv => EveryDeadlockFound
  BY DeadlocksAreFound DEF EveryDeadlockFound
<1> QED
  BY <1>1, AlwaysInv, PTL

\* AllClearIsEarned: Render says "nothing alarming" only of a dump that was
\* read, of a JVM with no deadlock, no blocked thread and no virtual threads.
THEOREM CalmIsEarned ==
  ASSUME DistinctNames
  PROVE  Spec => []AllClearIsEarned
<1>1. ASSUME IInv PROVE AllClearIsEarned
  <2> SUFFICES ASSUME out = {"calm"}
               PROVE  /\ form # "plain" /\ Deadlocks = {}
                      /\ \A t \in Threads : jvm.doing[t].does \notin {"enter", "virtual"}
    BY DEF AllClearIsEarned
  <2>1. pc = "shown" /\ Flags = {}
    <3>1. "calm" \notin Flags
      BY DEF Flags, Raised
    <3> QED
      BY <3>1, <1>1 DEF IInv, DumpInv
  <2>2. dump.threads # <<>> /\ Raised = {}
    BY <2>1 DEF Flags
  <2>3. form # "plain" /\ AllThere
    BY <2>1, <2>2, <1>1 DEF IInv, DumpInv
  <2>4. cycles = <<>> /\ Blocked = {} /\ Virtual = {}
    <3>1. \A f \in {"deadlock", "blocked", "hot", "virtual"} :
            ~(\/ f = "deadlock" /\ (cycles # <<>> \/ dump.banner)
              \/ f = "blocked" /\ Blocked # {}
              \/ f = "hot" /\ Cardinality(Hot) >= 3
              \/ f = "virtual" /\ Virtual # {})
      BY <2>2 DEF Raised
    <3> QED
      BY <3>1
  <2>5. Deadlocks = {}
    <3>1. DOMAIN cycles = {}
      BY <2>4
    <3> QED
      BY <3>1, <1>1, <2>1, <2>3, DeadlocksAreFound
  <2>6. ASSUME NEW t \in Threads PROVE jvm.doing[t].does \notin {"enter", "virtual"}
    <3>1. PICK i \in Entries : /\ dump.threads[i].state = StateOf(jvm.doing[t])
                               /\ jvm.doing[t].does = "virtual" => dump.threads[i].frame = "virtual"
      BY <2>3 DEF AllThere
    <3>2. dump.threads[i].state # "BLOCKED" /\ dump.threads[i].frame # "virtual"
      BY <2>4 DEF Blocked, Virtual, Entries
    <3>3. jvm.doing[t].does # "enter"
      BY <3>1, <3>2 DEF StateOf
    <3> QED
      BY <3>1, <3>2, <3>3
  <2> QED
    BY <2>3, <2>5, <2>6
<1> QED
  BY <1>1, AlwaysInv, PTL

\* NeverCertifiedHealthy, the claim of the header of threaddump.go: it holds of
\* every JVM whose threads have names of their own.
THEOREM DeadlockIsFlagged ==
  ASSUME DistinctNames
  PROVE  Spec => []NeverCertifiedHealthy
<1>1. ASSUME IInv PROVE NeverCertifiedHealthy
  <2> SUFFICES ASSUME pc = "shown", form # "plain", Deadlocks # {} PROVE "deadlock" \in out
    BY DEF NeverCertifiedHealthy
  <2>1. cycles # <<>>
    <3>1. DOMAIN <<>> = {}
      OBVIOUS
    <3> QED
      BY <3>1, <1>1, DeadlocksAreFound
  <2>2. dump.threads # <<>>
    <3>1. DOMAIN <<>> = {}
      OBVIOUS
    <3>2. Entries # {}
      <4>1. 1 \in Threads
        BY ThreadsAssumption DEF Threads
      <4> QED
        BY <4>1, <1>1 DEF IInv, DumpInv, AllThere
    <3> QED
      BY <3>1, <3>2 DEF Entries
  <2>3. "deadlock" \in Flags
    BY <2>1, <2>2 DEF Flags, Raised
  <2> QED
    BY <2>3, <1>1 DEF IInv, DumpInv
<1> QED
  BY <1>1, AlwaysInv, PTL
=============================================================================
