---------------------------- MODULE MCAnalysisDB ----------------------------
(* Two contracts and two analyses: a1 has the public function f1 and no   *)
(* map, a2 the map m1 and no public function.                              *)
EXTENDS AnalysisDB, TLC

CONSTANTS c1, c2, a1, a2, f1, m1

MCPublicFunctions == (a1 :> {f1}) @@ (a2 :> {})
MCMaps == (a1 :> {}) @@ (a2 :> {m1})

ContractSymmetry == Permutations({c1, c2})
=============================================================================
