-------------------------- MODULE ConfidenceBasis --------------------------
(***************************************************************************)
(* From the reply of the vision model to a score, a verdict and the lines  *)
(* a user reads (issue_confidence_basis, and the end of VLMService's       *)
(* analyses).  Scores are in hundredths.  Of a text it matters whether it  *)
(* says something once the jargon is taken out.                            *)
(***************************************************************************)
EXTENDS Integers, Sequences, FiniteSets, FiniteSetsExt

\* What a line may be about.  A text has at most one line an axis, in a fixed order, and is
\* a function from its axes to their lines.
Axes == {"content", "image", "location", "reference", "caution"}
CoreAxes == {"content", "image", "location"}

\* A reply: what kind of text it is, and the fields that are used.  Each item of its
\* basis has an axis, a status and a text, which a model may make up; the summary and the
\* note of a risk may be missing, or be nothing but jargon.
Items == [axis : STRING, status : STRING, says : BOOLEAN]
Replies(scores, bases) ==
    [shape : {"empty", "broken", "other", "object"}, score : scores, valid : BOOLEAN,
     basis : bases, legacy : BOOLEAN, summary : {"none", "jargon", "text"}, place : {"none", "ok", "warn"},
     risk : {"none", "jargon", "text"}]

\* float(), then max(0.0, min(1.0, score)): what is no number at all ends like a negative
\* one, and NaN, which both JSON and float() accept, like one above 1.
NoNumber == -1
NaN == 101
Clamp(score) == Max({0, Min({100, score})})

\* An answer that is JSON but no object counts as one without fields.
Fields(reply) ==
    IF reply.shape = "object" THEN reply
    ELSE [reply EXCEPT !.score = NoNumber, !.valid = FALSE, !.basis = << >>, !.legacy = FALSE,
                       !.summary = "none", !.place = "none", !.risk = "none"]

\* A reply that is empty or no JSON ends the analysis.
Readable(reply) == reply.shape \notin {"empty", "broken"}

\* _coerce_basis_items: items of an unknown axis are dropped, an unknown status is "skip".
\* The others keep their places.
Coerced(basis) ==
    [i \in {k \in DOMAIN basis : basis[k].axis \in Axes} |->
        IF basis[i].status \in {"ok", "warn", "skip"} THEN basis[i] ELSE [basis[i] EXCEPT !.status = "skip"]]

Of(axis, items) == {i \in DOMAIN items : items[i].axis = axis}
LastOf(axis, items) == items[Max(Of(axis, items))]

\* render_confidence_basis_markdown: of each axis the last item, unless it is skipped or
\* says nothing.
Rendered(items, images) ==
    LET shown == {axis \in Axes :
                    /\ Of(axis, items) # {}
                    /\ axis = "image" => images
                    /\ LastOf(axis, items).status # "skip"
                    /\ LastOf(axis, items).says}
    IN [axis \in shown |-> LastOf(axis, items)]

Line(axis, status, says) == [axis |-> axis, status |-> status, says |-> says]
OneLine == [axis \in {"content"} |-> Line(axis, "ok", TRUE)]

\* fallback_confidence_basis_from_vlm: lines made of what else the reply has, of which those
\* that say something are rendered.
Fallback(reply, images) ==
    LET axes == {axis \in Axes :
                    \/ axis = "content" /\ (reply.summary # "none" \/ images)
                    \/ axis = "location" /\ images /\ reply.place # "none"
                    \/ axis = "caution" /\ reply.risk # "none"}
        says == [content |-> reply.summary # "jargon", location |-> TRUE, caution |-> reply.risk # "jargon"]
        status == [content |-> "ok", location |-> reply.place, caution |-> "warn"]
    IN IF axes = {} THEN OneLine ELSE [axis \in {a \in axes : says[a]} |-> Line(axis, status[axis], TRUE)]

\* resolve_confidence_basis_markdown: the items, or else the markdown of an older
\* format, or else the fallback.
Basis(reply, images) ==
    LET rendered == Rendered(Coerced(reply.basis), images)
    IN CASE DOMAIN rendered # {} -> rendered
         [] DOMAIN rendered = {} /\ reply.legacy -> OneLine
         [] DOMAIN rendered = {} /\ ~ reply.legacy -> Fallback(reply, images)

\* count_core_reliability_warns counts items, shown or not.
CoreWarns(basis) ==
    Cardinality({i \in DOMAIN Coerced(basis) :
        Coerced(basis)[i].status = "warn" /\ Coerced(basis)[i].axis \in CoreAxes})

\* a variant: the basis does not matter
CappedNever(score, reply) == score

\* cap_confidence_score_by_basis_warns
Capped(score, reply) ==
    CASE CoreWarns(reply.basis) >= 2 -> Min({score, 64})
      [] CoreWarns(reply.basis) = 1 -> Min({score, 84})
      [] OTHER -> score

\* derive_complaint_email_validity
Validity(score, reply) ==
    \/ score >= 70 /\ CoreWarns(reply.basis) = 0
    \/ score >= 55 /\ CoreWarns(reply.basis) <= 1 /\ reply.valid

\* What the reliability job stores of a reply, and what a petition is given.
JobVerdict(reply, images) ==
    [score |-> Clamp(Fields(reply).score), valid |-> TRUE, basis |-> Basis(Fields(reply), images)]

PetitionVerdict(reply) ==
    LET fields == Fields(reply)
        score == Capped(Clamp(fields.score), fields)
    IN [score |-> score, valid |-> Validity(score, fields), basis |-> Basis(fields, TRUE)]
=============================================================================
