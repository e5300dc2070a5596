-------------------------- MODULE MCEvidenceStore --------------------------
(* EvidenceStore with interchangeable artifact names.                      *)
EXTENDS EvidenceStore, TLC

Symmetry == Permutations(Runs) \union Permutations(Names)
=============================================================================
