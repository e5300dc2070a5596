---------------------------- MODULE MCHeapDump -----------------------------
(* Three objects: every graph of them in a whole file; some graphs in files *)
(* that are damaged at every record, or whose objects are of other classes; *)
(* and pairs of dumps for the growth.                                       *)
EXTENDS HeapDump

MCNameOf  == [map |-> "HashMap", order |-> "Order", entry |-> "Entry", table |-> "Node[]",
              chars |-> "char[]", bytes |-> "byte[]", node |-> "HashMap$Node", longs |-> "long[]"]
MCFields  == [map |-> 8, order |-> 24, entry |-> 40, table |-> 64, chars |-> 80, bytes |-> 32,
              node |-> 24, longs |-> 304]
MCContent == [c \in DOMAIN MCNameOf |->
                CASE c = "chars" -> "x" [] c = "bytes" -> "y" [] c \in {"table", "longs"} -> "unhashed"
                  [] OTHER -> "no"]

Mixed  == <<"map", "order", "chars">>
Others == {<<"entry", "entry", "chars">>, <<"order", "chars", "chars">>,
           <<"entry", "bytes", "order">>, <<"table", "chars", "entry">>,
           <<"chars", "node", "node">>, <<"longs", "bytes", "bytes">>}
OneKind == <<"chars", "chars", "chars">>

File(live, class, refs, roots, statics, kind, i) ==
  [objects |-> live, class |-> class, refs |-> refs, statics |-> statics, roots |-> roots,
   damage |-> kind, damagedAt |-> i]

Chain == [o \in Objects |-> {o + 1} \cap Objects]
Ring  == [o \in Objects |-> {(o % 3) + 1}]
Apart == [o \in Objects |-> {}]

Undamaged == {File(Objects, Mixed, refs, roots, {}, "none", 1) :
                refs \in [Objects -> SUBSET Objects], roots \in SUBSET Objects}
Various   == {File(Objects, class, refs, roots, {}, "none", 1) :
                class \in Others, refs \in {Chain, Ring, Apart}, roots \in SUBSET Objects}
Damaged(kinds) == {File(Objects, Mixed, refs, roots, {1}, k, i) :
                     refs \in {Chain, Ring, Apart}, roots \in {{}, {2, 3}},
                     k \in kinds, i \in 1 .. 5}
Grown(kinds)   == {File(live, class, Apart, live, {}, k, 4) :
                     live \in SUBSET Objects, k \in kinds,
                     class \in {Mixed, <<"entry", "bytes", "order">>, OneKind}}

MCFiles == [analyze |-> Undamaged \cup Various \cup Damaged({"cut", "odd", "long"}),
            diff |-> Grown({"none", "long"})]

\* A copy that broke off: the end of the file is missing.
CutFiles == [analyze |-> Damaged({"cut"})]
=============================================================================
