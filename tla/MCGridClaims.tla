---------------------------- MODULE MCGridClaims ----------------------------
(* Values for model checking GridClaims.                                   *)
EXTENDS GridClaims, TLC

OpSymmetry == Permutations(Ops)
AllSymmetry == Permutations(Ops) \cup Permutations(Devices) \cup Permutations(Grids)
=============================================================================
