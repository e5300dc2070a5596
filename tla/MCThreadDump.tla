--------------------------- MODULE MCThreadDump ---------------------------
(* Three threads, two monitors and one lock of java.util.concurrent.       *)
EXTENDS ThreadDump

Unique == {[t \in Threads |-> <<"a", "b", "c">>[t]]}
Shared == {[t \in Threads |-> <<"a", "b", "b">>[t]]} \* two threads of one name
=============================================================================
