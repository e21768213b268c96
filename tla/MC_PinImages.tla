---------------------------- MODULE MC_PinImages ----------------------------
(***************************************************************************)
(* PinImages for TLC: a pin created with two images.  The edits are alike, *)
(* and no property is about liveness, so permuting them is sound.          *)
(***************************************************************************)
EXTENDS PinImages, TLC

CONSTANTS img1, img2

MCInitial == {img1, img2}

EditSymmetry == Permutations(Requests)
=============================================================================
