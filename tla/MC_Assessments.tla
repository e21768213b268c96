--------------------------- MODULE MC_Assessments ---------------------------
(* A reliability job and a petition, two keys, two models that write and one that embeds. *)
EXTENDS Assessments

CONSTANTS j, p, write, think, embed

MCCallers == {j, p}
MCJobs == {j}
MCModels == {write, think, embed}
MCKinds == JobKinds \cup PetitionKinds
MCEmbeddings == {"search", "retrieve", "rerank", "each"}
MCChain == [k \in MCKinds |->
    IF k \in MCEmbeddings THEN <<embed>>
    ELSE CASE k \in {"analyse"} -> <<think>>
           [] k \in {"opinion"} -> <<write>>
           [] k \in {"plan"} -> <<write, think>>
           [] OTHER -> <<think, write>>]
MCAttempts == [k \in MCKinds |-> IF k \in {"judge", "opinion"} THEN 2 ELSE 1]

\* Bases with a warning that is shown, hidden by a later item of its axis, or worded in
\* nothing but jargon; with two, and with items that are dropped.  The schemas of the two
\* calls leave no room for the older formats.
MCBases ==
    LET warn(axis) == Line(axis, "warn", TRUE)
    IN {<< >>, <<warn("image")>>, <<warn("image"), warn("location")>>,
        <<warn("content"), Line("content", "ok", TRUE), warn("caution")>>,
        <<Line("location", "warn", FALSE), Line("weather", "warn", TRUE), Line("image", "bad", TRUE)>>}
MCGiven ==
    {r \in Replies({NaN, 60}, MCBases) :
        /\ r.place = "none" /\ ~ r.legacy /\ r.summary # "none" /\ r.risk = r.summary
        /\ r.shape # "object" => r.score = 60 /\ r.valid /\ r.basis = << >>}
=============================================================================
