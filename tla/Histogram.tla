----------------------------- MODULE Histogram -----------------------------
(***************************************************************************)
(* tui/hprof.go and hprof_diff.go: the shallow histogram of a heap dump    *)
(* and the growth between two of them, as functions of the records read.   *)
(*                                                                         *)
(* The dump is external: the JVM (HotSpot) writes the classes with their   *)
(* static fields, the objects, and the GC roots.  A file may be cut, may   *)
(* hold a record of a shape the parser does not know, and may be longer    *)
(* than the histogram reads (analyzeHprofLimit).                           *)
(***************************************************************************)
EXTENDS Integers, Sequences, FiniteSets, FiniteSetsExt

CONSTANTS
  Objects,   \* the objects, 1 .. NObjects, in the order of their records
  NameOf,    \* the name of each class id; class loaders may repeat one
  Fields,    \* the bytes of the fields or elements of an object of each class
  Content,   \* what each class of char[] or byte[] holds; of other arrays
  Unhashed,  \* this, and of what is no array
  NoContent, \* this
  BiggestN   \* biggestN: how many of the biggest objects are kept

NObjects == Cardinality(Objects)
Classes  == DOMAIN NameOf
Names    == {NameOf[c] : c \in Classes}

\* A file: the objects in it, of what class they are, what they refer to, the
\* static fields, the roots, and where it is damaged: at which record.  Record 1
\* holds the classes, record o + 1 the object o, and the last one the roots.
Damages == {"none", "cut", "odd", "long"}
FileType == [objects : SUBSET Objects, class : [Objects -> Classes],
             refs : [Objects -> SUBSET Objects], statics : SUBSET Objects,
             roots : SUBSET Objects, damage : Damages, damagedAt : 1 .. NObjects + 2]

\* objShallow and arrShallow, ids of 8 bytes; an array has a length of 4.
Align8(n)      == ((n + 7) \div 8) * 8
IsArray(f, o)  == Content[f.class[o]] # NoContent
Shallow(f, o)  == Align8(16 + (IF IsArray(f, o) THEN 4 ELSE 0) + Fields[f.class[o]])
Bytes(f, S)    == SumFunctionOnSet([o \in Objects |-> Shallow(f, o)], S)

\* The records in front of the damage, and all the others.
Whole(f, kinds) == IF f.damage \in kinds THEN {r \in 1 .. NObjects + 2 : r < f.damagedAt}
                   ELSE 1 .. NObjects + 2
ObjectsIn(f, rs) == {o \in f.objects : o + 1 \in rs}

\* noteObj: the objects kept, the smallest first once there are BiggestN.
Smallest(f, kept) == CHOOSE o \in kept : \A p \in kept : Shallow(f, o) <= Shallow(f, p)
Noted(f, kept, o) ==
  IF Cardinality(kept) < BiggestN THEN kept \cup {o}
  ELSE IF Shallow(f, o) <= Shallow(f, Smallest(f, kept)) THEN kept
  ELSE (kept \ {Smallest(f, kept)}) \cup {o}

Keep(f, objects) ==
  LET K[i \in 0 .. NObjects] == IF i = 0 THEN {}
                                ELSE IF i \in objects THEN Noted(f, K[i - 1], i) ELSE K[i - 1]
  IN  K[NObjects]

\* noteDup and result: each repetition of a content counts as waste.
Waste(f, objects) ==
  LET repeats == {o \in objects : /\ IsArray(f, o) /\ Content[f.class[o]] # Unhashed
                                  /\ \E p \in objects :
                                       p < o /\ Content[f.class[p]] = Content[f.class[o]]}
  IN  SumFunctionOnSet([o \in Objects |-> Fields[f.class[o]] + 16], repeats)

\* analyzeHprof: what was read when the walk stopped, a row per class id, and
\* the two signs that it stopped early.
Histogram(f) ==
  LET objects == ObjectsIn(f, Whole(f, {"cut", "odd", "long"}))
      Of(c)   == {o \in objects : f.class[o] = c}
  IN  [rows |-> [c \in {f.class[o] : o \in objects} |->
                   [count |-> Cardinality(Of(c)), bytes |-> Bytes(f, Of(c))]],
       total |-> Bytes(f, objects), biggest |-> Keep(f, objects), waste |-> Waste(f, objects),
       desynced |-> f.damage = "odd", truncated |-> f.damage = "long"]

\* Mutant: a desync is not said.
WarnedOfLength(h) == h.truncated

\* renderHistogram: the warnings.
Warned(h) == h.desynced \/ h.truncated

\* classMap: a row per name; of several class ids of one name, the row that is
\* last in the histogram, the smallest.
RowOf(h, n) ==
  LET rows == {h.rows[c] : c \in {k \in DOMAIN h.rows : NameOf[k] = n}}
  IN  IF rows = {} THEN [count |-> 0, bytes |-> 0]
      ELSE CHOOSE r \in rows : \A q \in rows : r.bytes <= q.bytes

\* Mutant: classes that vanished are left out.
GrowthSeen(a, b) ==
  [n \in Names |-> IF RowOf(b, n).count = 0 THEN 0 ELSE RowOf(b, n).bytes - RowOf(a, n).bytes]

\* analyzeHprofDiff: the growth of each name, and diffVerdict on it; warnings
\* of the two histograms are not looked at.
Growth(a, b) == [n \in Names |-> RowOf(b, n).bytes - RowOf(a, n).bytes]

DiffVerdict(a, b, App) ==
  LET d     == Growth(a, b)
      grew  == {n \in Names : d[n] > 0}
      grown == SumFunctionOnSet(d, grew)
      top   == {n \in grew : \A m \in grew : d[m] <= d[n]}
      one   == {n \in top : d[n] * 100 >= 40 * grown}
  IN  IF grew = {} THEN {"nothing grew"}
      ELSE {IF n \notin one THEN IF b.total <= a.total THEN "churn" ELSE "spread"
            ELSE IF n \in App THEN "suspect" ELSE "framework" : n \in top}
=============================================================================
