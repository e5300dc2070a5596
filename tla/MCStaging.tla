----------------------------- MODULE MCStaging -----------------------------
(* Staging into two pods of one name in two namespaces.                    *)
EXTENDS Staging, TLC

At(ns, tool) == [ns |-> ns, pod |-> "app-0", tool |-> tool]

TwoNamespaces == {At("blue", "jattach"), At("green", "jattach")}
MCItems       == TwoNamespaces \union {At("blue", "local")}
Combined      == {{}, {"call", "kill", "replace"}, {"kill", "overlap"}}

Symmetry == Permutations(Procs)
=============================================================================
