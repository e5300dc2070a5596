---------------------------- MODULE MCDashboard ----------------------------
(* Flows of every kind of step, in a session of a few panes.  In a short    *)
(* one a step may end over a question that the operator has opened.        *)
EXTENDS Dashboard

Heap  == <<"read", "askHeap", "askRead">> \* flow 1
Slow  == <<"read", "read">>               \* flow 2
Short == <<"read", "askHeap">>            \* flow 4

MCFlows   == {Heap, Slow, Short}
ShortFlow == {Short}

Every    == {{}, {"view"}, {"resize"}, {"follow"}}
Ordinary == {{}}
=============================================================================
