---------------------------- MODULE Assessments ----------------------------
(***************************************************************************)
(* What Gemini is asked for: the reliability job of an issue pin           *)
(* (IssuePinBackgroundRunner, issue_rag_context) and the documents of a    *)
(* petition (ComplaintEmailService, RagRetrievalService, RagRerankService) *)
(* make one call after the other, share the keys, fall back where the code *)
(* does, and turn the last reply into a verdict.                           *)
(***************************************************************************)
EXTENDS GeminiCalls, ConfidenceBasis

CONSTANTS
    Jobs,       \* the callers that run reliability jobs; the others prepare petitions
    Given,      \* the replies of the last call
    Planning,   \* not issue_pin_reliability_skip_rag_planner
    Reranking   \* enable_rerank

JobKinds == {"plan", "search", "judge"}
PetitionKinds == {"analyse", "retrieve", "rerank", "each", "opinion", "validate"}

ASSUME AssessmentAssumption ==
    /\ Jobs \subseteq Callers
    /\ Kinds = JobKinds \cup PetitionKinds
    /\ Embeddings = {"search", "retrieve", "rerank", "each"}
    /\ Hurried = JobKinds
    /\ Planning \in BOOLEAN /\ Reranking \in BOOLEAN

\* The schemas of the last calls (RELIABILITY_*_RESPONSE_SCHEMA, COMPLAINT_EMAIL_...) leave
\* no room for a comparison of places.
ASSUME GivenAssumption ==
    /\ Given \subseteq Replies(Int, Seq(Items))
    /\ \A r \in Given : r.place = "none"

VARIABLES
    stage,      \* stage[c]: the kind of its call, or how the assessment ended
    verdict     \* verdict[c]: what is stored, or mailed

assessmentVars == <<vars, stage, verdict>>

Concluded == {"done", "failed"}

AssessmentInit ==
    /\ Init
    /\ stage = [c \in Callers |-> "idle"]
    /\ verdict = [c \in Callers |-> None]

\* The stage comes next: its call begins.
Make(c, k) ==
    /\ Start(c, k)
    /\ stage' = [stage EXCEPT ![c] = k]
    /\ UNCHANGED verdict

EndAs(c, how) ==
    /\ stage' = [stage EXCEPT ![c] = how]
    /\ UNCHANGED <<vars, verdict>>

\* run_reliability_job, generate_petition_package.
Take(c) ==
    /\ stage[c] \in {"idle"} \cup Concluded
    /\ verdict' = [verdict EXCEPT ![c] = None]
    /\ LET first == IF c \in Jobs THEN IF Planning THEN "plan" ELSE "search" ELSE "analyse"
       IN Start(c, first) /\ stage' = [stage EXCEPT ![c] = first]

\* The call was answered, and the answer is of use.  A search may find nothing, and then
\* there is nothing to rerank.
Proceed(c) ==
    /\ state[c] = "answered"
    /\ \/ stage[c] = "plan" /\ Make(c, "search")
       \/ stage[c] = "search" /\ Make(c, "judge")
       \/ stage[c] = "analyse" /\ Make(c, "retrieve")
       \/ stage[c] = "retrieve" /\ Reranking /\ Make(c, "rerank")
       \/ stage[c] \in {"retrieve", "rerank", "each"} /\ Make(c, "opinion")
       \/ stage[c] = "opinion" /\ Make(c, "validate")

\* An answer that is empty, no JSON or no object.
Unusable(c) == state[c] = "answered" /\ stage[c] \in {"plan", "analyse", "opinion"}

\* The call failed, or the answer cannot be used.  A job judges without a plan and
\* without cases; a petition does without cases, without one batch, without reranking.
FallBack(c) ==
    /\ state[c] = "failed" \/ Unusable(c)
    /\ \/ stage[c] = "plan" /\ Make(c, "search")
       \/ stage[c] = "search" /\ Make(c, "judge")
       \/ stage[c] \in {"retrieve", "each"} /\ Make(c, "opinion")
       \/ stage[c] = "rerank" /\ Make(c, "each")
       \/ stage[c] \in {"analyse", "opinion", "judge", "validate"} /\ EndAs(c, "failed")

\* The last call was answered: a verdict, of a job on photos or on the text alone, unless
\* the reply is empty or no JSON.
Judge(c) ==
    /\ state[c] = "answered"
    /\ stage[c] \in {"judge", "validate"}
    /\ \E r \in Given, images \in BOOLEAN :
         IF Readable(r)
         THEN /\ verdict' = [verdict EXCEPT ![c] = IF c \in Jobs THEN JobVerdict(r, images) ELSE PetitionVerdict(r)]
              /\ stage' = [stage EXCEPT ![c] = "done"]
              /\ UNCHANGED vars
         ELSE EndAs(c, "failed")

\* The timeout of the stage, or of the job, has cancelled the call.
TimedOut(c) ==
    /\ state[c] = "cancelled" /\ stage[c] \in JobKinds
    /\ EndAs(c, "failed")

\* Between the calls something else fails: listing or reading the photos, the PDF.
Breaks(c) ==
    /\ stage[c] = "search" /\ state[c] \in {"answered", "failed"}
    /\ EndAs(c, "failed")

AssessmentStep(c) ==
    Take(c) \/ Proceed(c) \/ FallBack(c) \/ Judge(c) \/ TimedOut(c) \/ Breaks(c)

CallStep(c) ==
    /\ Step(c) \/ Cancel(c)
    /\ UNCHANGED <<stage, verdict>>

AssessmentNext == \E c \in Callers : AssessmentStep(c) \/ CallStep(c)

\* What was begun goes on; that something is begun, or takes too long, need not happen.
Continues(c) ==
    \/ Step(c) /\ UNCHANGED <<stage, verdict>>
    \/ Proceed(c) \/ FallBack(c) \/ Judge(c) \/ TimedOut(c)

AssessmentSpec ==
    /\ AssessmentInit /\ [][AssessmentNext]_assessmentVars
    /\ \A c \in Callers :
         /\ WF_assessmentVars(Continues(c))
         /\ SF_assessmentVars(Enter(c) /\ UNCHANGED <<stage, verdict>>)
-----------------------------------------------------------------------------
\* The assessment is in the stage of its last call.
StageOK ==
    \A c \in Callers :
        /\ stage[c] \in Kinds => kind[c] = stage[c] /\ state[c] # "idle"
        /\ verdict[c] # None <=> stage[c] = "done"

\* What a petition's mail claims, its basis bears out: with a core warning on show the
\* score is at most 84, and with two of them it is at most 64 and the petition not valid.
PetitionClaimsAreBorneOut ==
    \A c \in Callers \ Jobs :
        verdict[c] # None =>
        LET shown == Cardinality({axis \in DOMAIN verdict[c].basis \cap CoreAxes :
                        verdict[c].basis[axis].status = "warn"})
        IN (\/ shown = 0
            \/ shown = 1 /\ verdict[c].score <= 84
            \/ verdict[c].score <= 64 /\ ~ verdict[c].valid)

\* Whatever fails, every assessment that was begun ends.
AssessmentsEnd ==
    \A c \in Callers : stage[c] \in Kinds ~> stage[c] \in Concluded
=============================================================================
