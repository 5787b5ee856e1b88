------------------------- MODULE MCAnalysisDBShared -------------------------
(* Three connections to one analysis DB file, two contract names and two  *)
(* analyses: enough for two to check and insert the same name while a     *)
(* third holds SHARED, in every interleaving.                              *)
EXTENDS AnalysisDBShared, TLC

MCSymmetry == Permutations(Conns) \cup Permutations(Analyses)

=============================================================================
