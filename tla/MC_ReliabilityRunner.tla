----------------------- MODULE MC_ReliabilityRunner -----------------------
(***************************************************************************)
(* ReliabilityRunner for TLC: one POST and two PATCH requests on one pin.  *)
(***************************************************************************)
EXTENDS ReliabilityRunner, TLC

CONSTANTS post, edit1, edit2

MCRequests == {post, edit1, edit2}

\* Edits that change the images alone, where no property is about the text,
\* edits that change everything, and edits of every kind.
ImageEdits == {{"images"}}
WholeEdits == {{"text", "images"}}
AllEdits == SUBSET {"text", "images"}

\* The two edits are alike, the POST is not.  Only for the safety runs.
EditSymmetry == Permutations({edit1, edit2})
=============================================================================
