---------------------------- MODULE Departments ----------------------------
(***************************************************************************)
(* Which department a petition goes to (ComplaintEmailService): the domain *)
(* the VLM names, or, when it names none but the common one, the category  *)
(* that weighs most among the past complaints that are found               *)
(* (RagRetrievalService, RagRerankService) in the table VectorLoad fills.  *)
(* The same text may be found more than once: among the best and among all *)
(* hits, and because it was inserted more than once.                       *)
(*                                                                         *)
(* A score is 0, or 2 for 1.0.  The search itself is external: it returns  *)
(* rows by their score, rows with the same text having the same.           *)
(***************************************************************************)
EXTENDS VectorLoad, FiniteSetsExt

CONSTANTS
    Curated,        \* the categories of department_catalog that are used
    Common,         \* the one for all
    TopK,           \* retrieve_top_k
    RerankTopK,     \* rerank_top_k
    Missing         \* no category, no score, no department

ASSUME DepartmentAssumption ==
    /\ Common \in Curated /\ Missing \notin Curated
    /\ TopK \in Nat \ {0} /\ RerankTopK \in Nat \ {0}

VARIABLES
    hits,       \* the hits of the last petition, the best before all of them
    department  \* its department

answerVars == <<hits, department>>

AnswerInit == hits = << >> /\ department = Missing
-----------------------------------------------------------------------------
\* retrieve_and_rerank_pipeline: reranking needs as many hits as it keeps.
FetchK(rerank) == IF rerank THEN Max({TopK, RerankTopK}) ELSE TopK
KeepK(rerank) == IF rerank THEN RerankTopK ELSE Min({RerankTopK, TopK})

Copies == UNION {{i} \X (1..table[i]) : i \in DOMAIN rows}
TextOf(copy) == rows[copy[1]].text
Scores == [{TextOf(copy) : copy \in Copies} -> {0, 2}]

\* By score, ties as they came.
Sorted(copies, score) ==
    LET before(x, y) ==
            \/ score[TextOf(x)] > score[TextOf(y)]
            \/ score[TextOf(x)] = score[TextOf(y)] /\ NotAfter(x, y)
    IN [k \in 1..Cardinality(copies) |-> CHOOSE y \in copies : Cardinality({x \in copies : before(x, y)}) = k]

\* The search returns k rows of the table, or all, than which none has a better score.
Retrieved(k, score) ==
    {found \in kSubset(Min({k, Cardinality(Copies)}), Copies) :
        \A x \in found, y \in Copies \ found : score[TextOf(x)] >= score[TextOf(y)]}

\* _hits_from_candidates, _hits_from_reranked
HitsOf(copies, score) ==
    [k \in DOMAIN copies |->
        [text |-> TextOf(copies[k]), category |-> rows[copies[k][1]].category, score |-> score[TextOf(copies[k])]]]

First(s, n) == SubSeq(s, 1, Min({n, Len(s)}))

\* The best hits: those of the reranking or, when there is none or it fails, the first,
\* which then have no score of their own.
Best(found, outcome, score, rescore) ==
    IF outcome = "reranked"
    THEN HitsOf(First(Sorted(found, rescore), KeepK(TRUE)), rescore)
    ELSE HitsOf(First(Sorted(found, score), KeepK(outcome = "rerank fails")), [t \in DOMAIN score |-> Missing])

\* a variant: every hit counts
EveryHit(evidence) == DOMAIN evidence

\* _accumulate_department_score: a text counts once, where it is met first,
FirstMet(evidence) == {k \in DOMAIN evidence : \A i \in 1..(k - 1) : evidence[i].text # evidence[k].text}
\* for the category it has there,
Speaking(evidence, d) == {k \in FirstMet(evidence) : evidence[k].category = d}
\* and weighs 1 and its score.
Weight(evidence, d) ==
    LET speaking == Speaking(evidence, d)
    IN 2 * Cardinality(speaking) + 2 * Cardinality({k \in speaking : evidence[k].score = 2})

Named(evidence) == {d \in Curated : Speaking(evidence, d) # {}}
Weightiest(evidence) == {d \in Named(evidence) : \A e \in Named(evidence) : Weight(evidence, d) >= Weight(evidence, e)}

\* _resolve_department: the weightiest, the first of several.
Resolve(domain, evidence) ==
    CASE domain \in Curated \ {Common} -> domain
      [] domain \notin Curated \ {Common} /\ Named(evidence) # {} ->
            CHOOSE d \in Weightiest(evidence) :
                \A e \in Weightiest(evidence) : Min(Speaking(evidence, d)) <= Min(Speaking(evidence, e))
      [] OTHER -> domain
-----------------------------------------------------------------------------
\* A petition asks, when a run of the load has ended.  The VLM's domain is a category, and
\* then only its rows are searched; no row is found when the search fails.
Ask(domain, outcome) ==
    /\ phase \in {"done", "failed"} /\ hits = << >>
    /\ \E score \in Scores :
       \E found \in IF outcome = "search fails" THEN {{}} ELSE Retrieved(FetchK(outcome # "not reranked"), score) :
       \E rescore \in IF outcome = "reranked" THEN Scores ELSE {score} :
         hits' = Best(found, outcome, score, rescore) \o
                    HitsOf(Sorted(found, score), score)
    /\ department' = Resolve(domain, hits')
    /\ UNCHANGED loadVars

Outcomes == {"reranked", "rerank fails", "not reranked", "search fails"}

AnswerNext == \E domain \in {Missing, Common}, outcome \in Outcomes : Ask(domain, outcome)

\* One petition, at any time of a load.
LoadOrAnswer == (LoadNext /\ hits = << >> /\ UNCHANGED answerVars) \/ AnswerNext

AnswerSpec == LoadInit /\ AnswerInit /\ [][LoadOrAnswer]_<<loadVars, answerVars>>
-----------------------------------------------------------------------------
\* The texts that speak for a category, each in the first place it appears.
Votes(d) ==
    {hits[k].text : k \in {j \in DOMAIN hits :
        hits[j].category = d /\ \A i \in 1..(j - 1) : hits[i].text # hits[j].text}}

\* A petition goes where the past complaints that were found went: no other department
\* has more than twice as many of them, however often a text was inserted or found, and
\* it is nobody's only when none of them has a department.
DepartmentIsBorneOut ==
    hits # << >> =>
        IF department \in Curated
        THEN \A d \in Curated : Cardinality(Votes(d)) <= 2 * Cardinality(Votes(department))
        ELSE \A d \in Curated : Votes(d) = {}
=============================================================================
