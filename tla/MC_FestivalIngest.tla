------------------------- MODULE MC_FestivalIngest -------------------------
(***************************************************************************)
(* FestivalIngest for TLC: two festivals on a page each, one of them in    *)
(* another area, which its entry in the list does not tell.                *)
(***************************************************************************)
EXTENDS FestivalIngest

CONSTANTS expo, parade, admin, other

Pages == [f \in Festivals |-> IF f = expo THEN 1 ELSE 2]
Areas == [f \in Festivals |-> IF f = expo THEN "seoul" ELSE "busan"]

\* One request collects, transforms, imports or resets, another imports, searches or resets meanwhile.
Roles == [r \in Requests |-> IF r = admin THEN AllKinds ELSE {"import", "search", "reset"}]
=============================================================================
