------------------------ MODULE MC_ComplaintPetition ------------------------
(***************************************************************************)
(* ComplaintPetition for TLC.  Creations are alike and so are requests, so *)
(* permuting them is sound where no property is about liveness.            *)
(***************************************************************************)
EXTENDS ComplaintPetition, TLC

OperationSymmetry == Permutations(Creates) \cup Permutations(Sends)
=============================================================================
