--------------------------- MODULE MC_EventIngest ---------------------------
(***************************************************************************)
(* EventIngest for TLC: the contest pipeline, the policy pipeline with     *)
(* documents merged and files never pruned, and with its default settings. *)
(***************************************************************************)
EXTENDS EventIngest

Contest == [crawls |-> TRUE, merges |-> TRUE, prunes |-> TRUE]
PolicyKept == [crawls |-> FALSE, merges |-> TRUE, prunes |-> FALSE]
Policy == [crawls |-> FALSE, merges |-> FALSE, prunes |-> TRUE]

Pipelines == {Contest, PolicyKept, Policy}
MergingPipelines == {Contest, PolicyKept}
=============================================================================
