------------------------------ MODULE CardDeck ------------------------------
(***************************************************************************)
(* How a policy or a contest gets its card news (policy_cardnews,          *)
(* contest_cardnews_s3): an LLM answers with slides, of which at most      *)
(* three are drawn, by an image model or by Pillow, which also takes over  *)
(* when the image model fails.  Pillow draws into a local directory.  Each *)
(* card is uploaded as slide_<number>.png, and the images of the document  *)
(* are listed in its row of the handoff.                                   *)
(*                                                                         *)
(* The directory and the objects are named for the document alone, and     *)
(* nothing keeps two transforms of it apart: each one looks whether the    *)
(* handoff has the document before it starts.                              *)
(***************************************************************************)
EXTENDS Naturals, SequencesExt, FiniteSetsExt

CONSTANTS
    Transforms,     \* of one document
    CardSetups,     \* the pipelines and settings to consider, a subset of AllCardSetups
    SlideAnswers,   \* what the LLM may answer: sequences of Entries, with a name each
    ImageModels,    \* how many image models are tried, one after the other
    Attempts,       \* DEFAULT_MAX_ATTEMPTS_PER_MODEL
    MaxCardFaults,  \* bound: how many calls fail
    Nothing         \* no card, no row

\* The settings policy_cardnews_use_image_model, _pillow_fallback and _keep_local_files; a
\* contest is always drawn by Pillow.
AllCardSetups ==
    {s \in [contest : BOOLEAN, imageModel : BOOLEAN, fallback : BOOLEAN, keep : BOOLEAN] :
        s.contest => ~s.imageModel}

\* An entry of the answer: its name, the "slide" number the LLM gave it (0 for none), the
\* layout it asks for, whether it has a headline, only a body, or neither, whether it has
\* a button (cta), how many items and how many characters.
Names == UNION {{answer[k].name : k \in DOMAIN answer} : answer \in SlideAnswers}
Entries ==
    [name : Names, number : Nat, items : Nat, chars : Nat, button : BOOLEAN,
     layout : {"none", "cover", "table", "checklist", "cta"}, words : {"headline", "body", "none"}]

ASSUME CardDeckAssumption ==
    /\ CardSetups \subseteq AllCardSetups
    /\ SlideAnswers \subseteq Seq(Entries)
    /\ \A answer \in SlideAnswers : \A j, k \in DOMAIN answer : answer[j].name = answer[k].name => j = k
    /\ ImageModels \in Nat \ {0} /\ Attempts \in Nat \ {0} /\ MaxCardFaults \in Nat

VARIABLES
    cardSetup,
    job,            \* the state of each transform
    local,          \* the card in each local file, by the number in its name
    bucket,         \* the card in each object, likewise
    handoffRow,     \* who made the row of the document, and its images
    mixed,          \* transforms that have run at the same time as another
    cardFaults

cardVars == <<cardSetup, job, local, bucket, handoffRow, mixed, cardFaults>>

Numbers == UNION {DOMAIN answer \cup {answer[k].number : k \in DOMAIN answer} : answer \in SlideAnswers}

CardInit ==
    /\ cardSetup \in CardSetups
    /\ job = [t \in Transforms |-> [pc |-> "idle", answer |-> << >>, deck |-> << >>, left |-> << >>,
                                    drawn |-> << >>, model |-> 1, attempt |-> 1, images |-> << >>]]
    /\ local = [no \in Numbers |-> Nothing]
    /\ bucket = [no \in Numbers |-> Nothing]
    /\ handoffRow = Nothing
    /\ mixed = {}
    /\ cardFaults = 0
-----------------------------------------------------------------------------
(* Which slides are drawn.                                                 *)

\* _slide_has_content
HasContent(e) == e.words # "none" \/ e.button \/ e.items > 0

\* The slides at some positions, in order.
Nth(positions, n) == CHOOSE k \in positions : Cardinality({j \in positions : j <= k}) = n
Keep(slides, positions) == [n \in 1..Cardinality(positions) |-> slides[Nth(positions, n)]]

Filled(answer) == Keep(answer, {k \in DOMAIN answer : HasContent(answer[k])})

\* is_slide_empty: whether a policy slide of some layout shows anything.  One in the middle
\* needs enough to tell, also to outlive the compaction.
PolicyShows(e, layout) ==
    CASE layout = "cover" -> e.words # "none"
      [] layout = "cta" -> e.button \/ e.words = "headline"
      [] OTHER -> e.chars >= 50 \/ (e.chars >= 20 /\ e.items >= 3)

\* is_contest_slide_empty
ContestShows(e, layout) ==
    CASE layout = "cover" -> e.words # "none"
      [] layout = "cta" -> e.button \/ e.words = "headline"
      [] OTHER -> e.items > 0 \/ e.words # "none"

Shows(e, layout) == IF cardSetup.contest THEN ContestShows(e, layout) ELSE PolicyShows(e, layout)

\* a variant: the first three slides
FirstThree(slides) == SubSeq(slides, 1, Min({3, Len(slides)}))

\* parse_cardnews_slides_json: the first two slides and the last.
AtMostThree(slides) == IF Len(slides) > 3 THEN <<slides[1], slides[2], Last(slides)>> ELSE slides

\* "slide": item.get("slide") or index
Numbered(slides) ==
    [k \in DOMAIN slides |-> [slides[k] EXCEPT !.number = IF @ = 0 THEN k ELSE @]]

\* compact_contest_deck: of four slides the cover, the one in the middle that ranks best,
\* and the last.  A table or checklist ranks before any other, then the fuller one.
Bonus(e) == CASE e.layout = "table" -> 40 [] e.layout = "checklist" -> 30 [] OTHER -> 0
RanksBefore(d, e) ==
    LET preferred(x) == x.layout \in {"table", "checklist"}
    IN \/ preferred(d) /\ ~preferred(e)
       \/ preferred(d) = preferred(e) /\ d.chars + Bonus(d) > e.chars + Bonus(e)

AsSummary(e) ==
    IF e.layout \in {"table", "checklist"} \/ e.items = 0 THEN e
    ELSE [e EXCEPT !.layout = IF e.items >= 3 THEN "checklist" ELSE "table"]

CompactContestDeck(slides) ==
    IF Len(slides) <= 3 THEN slides
    ELSE LET best == IF RanksBefore(slides[3], slides[2]) THEN slides[3] ELSE slides[2]
         IN <<slides[1], AsSummary(best), Last(slides)>>

\* parse_contest_cardnews_slides_json: of more than four the first three and the last.
ParseContest(slides) ==
    LET four == IF Len(slides) > 4 THEN Append(SubSeq(slides, 1, 3), Last(slides)) ELSE slides
        deck == CompactContestDeck(four)
    IN [k \in DOMAIN deck |-> [deck[k] EXCEPT !.number = k]]

ParseSlides(answer) ==
    LET slides == Filled(answer)
    IN IF cardSetup.contest THEN ParseContest(slides) ELSE AtMostThree(Numbered(slides))

\* The layout a slide is judged by: the first is a cover, the last, if another, a CTA; a
\* contest slide may ask for its layout, and so may one in the middle.
LayoutAt(slides, k) ==
    CASE cardSetup.contest /\ slides[k].layout # "none" -> slides[k].layout
      [] k = 1 -> "cover"
      [] k > 1 /\ k = Len(slides) -> "cta"
      [] OTHER -> slides[k].layout

\* compact_cardnews_slides, prepare_contest_slides: what Pillow draws.
Drawable(slides) == Keep(slides, {k \in DOMAIN slides : Shows(slides[k], LayoutAt(slides, k))})
-----------------------------------------------------------------------------
AtWork(t) == job[t].pc \notin {"idle", "done", "failed"}
Becomes(t, state) == job' = [job EXCEPT ![t] = state]
CardFault == cardFaults < MaxCardFaults /\ cardFaults' = cardFaults + 1
NoFault == UNCHANGED cardFaults
Card(t, e) == <<t, e.name>>

\* transform_documents_jsonl: the document is pending when the handoff does not have it.
BeginDeck(t) ==
    /\ job[t].pc = "idle"
    /\ handoffRow = Nothing
    /\ LET others == {o \in Transforms \ {t} : AtWork(o)}
       IN mixed' = mixed \cup (IF others = {} THEN {} ELSE others \cup {t})
    /\ Becomes(t, [job[t] EXCEPT !.pc = "ask"])
    /\ UNCHANGED <<cardSetup, local, bucket, handoffRow, cardFaults>>

\* generate_cardnews_s3_images, generate_contest_cardnews_paths: the slides are asked for
\* and parsed.  An answer without content is an error.
AskSlides(t) ==
    /\ job[t].pc = "ask"
    /\ \/ /\ NoFault
          /\ \E answer \in SlideAnswers :
                LET slides == ParseSlides(answer)
                IN Becomes(t, IF slides = << >>
                              THEN [job[t] EXCEPT !.pc = "failed"]
                              ELSE [job[t] EXCEPT !.answer = answer,
                                                  !.deck = slides,
                                                  !.pc = IF cardSetup.imageModel THEN "draw" ELSE "render"])
       \/ CardFault /\ Becomes(t, [job[t] EXCEPT !.pc = "failed"])
    /\ UNCHANGED <<cardSetup, local, bucket, handoffRow, mixed>>

\* What follows when the image model, or an upload of its images, fails.
FallBack(state) == [state EXCEPT !.pc = IF cardSetup.fallback THEN "render" ELSE "failed"]

\* generate_slide_image_bytes: a call for one slide.  A failure that may pass is retried;
\* any other, and the last attempt, is followed by the next model.
DrawSlide(t) ==
    LET k == Len(job[t].drawn) + 1
        image == [no |-> job[t].deck[k].number, card |-> Card(t, job[t].deck[k])]
        drawn == [job[t] EXCEPT !.drawn = Append(@, image), !.model = 1, !.attempt = 1]
        nextModel == [job[t] EXCEPT !.model = @ + 1, !.attempt = 1]
    IN /\ job[t].pc = "draw"
       /\ \/ NoFault /\ Becomes(t, IF k = Len(job[t].deck) THEN [drawn EXCEPT !.pc = "upload"] ELSE drawn)
          \/ /\ CardFault
             /\ \/ job[t].attempt < Attempts /\ Becomes(t, [job[t] EXCEPT !.attempt = @ + 1])
                \/ Becomes(t, IF job[t].model = ImageModels THEN FallBack(job[t]) ELSE nextModel)
       /\ UNCHANGED <<cardSetup, local, bucket, handoffRow, mixed>>

\* The directory is removed (_maybe_cleanup_local_cardnews), the transform returns, and its
\* row replaces that of the handoff.
Finish(t, images, files) ==
    /\ Becomes(t, [job[t] EXCEPT !.pc = "done", !.images = images])
    /\ local' = IF cardSetup.keep THEN files ELSE [no \in Numbers |-> Nothing]
    /\ handoffRow' = [by |-> t, images |-> images]

\* upload_bytes: the object is replaced; or the upload fails, and nothing is known to be stored.
Put(no, card) == bucket' = [bucket EXCEPT ![no] = card]

\* The images of the model are uploaded one by one, a copy being kept if asked for.
UploadDrawn(t) ==
    LET image == Head(job[t].drawn)
        images == Append(job[t].images, image)
        kept == IF cardSetup.keep THEN [local EXCEPT ![image.no] = image.card] ELSE local
    IN /\ job[t].pc = "upload"
       /\ \/ /\ NoFault
             /\ Put(image.no, image.card)
             /\ IF Len(job[t].drawn) = 1
                THEN Finish(t, images, kept)
                ELSE /\ Becomes(t, [job[t] EXCEPT !.images = images, !.drawn = Tail(@)])
                     /\ local' = kept
                     /\ UNCHANGED handoffRow
          \/ /\ CardFault
             /\ Becomes(t, FallBack(job[t]))
             /\ local' = kept
             /\ UNCHANGED <<bucket, handoffRow>>
       /\ UNCHANGED <<cardSetup, mixed>>

\* a variant: a card is named for the number the LLM gave it
FileNumberGiven(deck, k) == deck[k].number

\* Pillow numbers the cards as it draws them.
FileNumber(deck, k) == k

\* render_policy_cardnews_slides, render_contest_cardnews_slides: all cards are drawn
\* without an await.
RenderDeck(t) ==
    LET deck == Drawable(job[t].deck)
        numbers == [k \in DOMAIN deck |-> FileNumber(deck, k)]
        at(no) == {k \in DOMAIN deck : numbers[k] = no}
    IN /\ job[t].pc = "render"
       /\ IF deck = << >>
          THEN Becomes(t, [job[t] EXCEPT !.pc = "failed"]) /\ UNCHANGED local
          ELSE /\ Becomes(t, [job[t] EXCEPT !.pc = "read", !.deck = deck, !.left = numbers])
               /\ local' = [no \in Numbers |-> IF at(no) = {} THEN local[no] ELSE Card(t, deck[Max(at(no))])]
       /\ UNCHANGED <<cardSetup, bucket, handoffRow, mixed, cardFaults>>

\* _upload_local_handoff_path: the file is read, unless it is no longer there ...
ReadCard(t) ==
    LET no == Head(job[t].left)
    IN /\ job[t].pc = "read"
       /\ Becomes(t, IF local[no] = Nothing
                     THEN [job[t] EXCEPT !.pc = "failed"]
                     ELSE [job[t] EXCEPT !.pc = "put", !.drawn = <<[no |-> no, card |-> local[no]]>>])
       /\ UNCHANGED <<cardSetup, local, bucket, handoffRow, mixed, cardFaults>>

\* ... and uploaded.  After the last one the directory is removed.
UploadCard(t) ==
    LET image == Head(job[t].drawn)
        images == Append(job[t].images, image)
    IN /\ job[t].pc = "put"
       /\ \/ /\ NoFault
             /\ Put(image.no, image.card)
             /\ IF Len(job[t].left) = 1
                THEN Finish(t, images, local)
                ELSE /\ Becomes(t, [job[t] EXCEPT !.pc = "read", !.left = Tail(@), !.images = images])
                     /\ UNCHANGED <<local, handoffRow>>
          \/ /\ CardFault
             /\ Becomes(t, [job[t] EXCEPT !.pc = "failed"])
             /\ UNCHANGED <<local, bucket, handoffRow>>
       /\ UNCHANGED <<cardSetup, mixed>>

CardNext ==
    \E t \in Transforms :
        \/ BeginDeck(t) \/ AskSlides(t) \/ DrawSlide(t) \/ UploadDrawn(t)
        \/ RenderDeck(t) \/ ReadCard(t) \/ UploadCard(t)

CardSpec == CardInit /\ [][CardNext]_cardVars
-----------------------------------------------------------------------------
\* "At most three, and the first slide and the last are always kept": whatever the LLM
\* answers, the cards begin with the first slide that has content and end with the last,
\* if those have what a cover and a CTA show, and no slide is drawn twice.
DeckKeepsItsEnds ==
    \A t \in Transforms : job[t].pc \in {"draw", "upload", "read", "put", "done"} =>
        LET slides == Filled(job[t].answer)
            names == [k \in DOMAIN job[t].deck |-> job[t].deck[k].name]
        IN /\ Len(names) <= 3
           /\ IsInjective(names)
           /\ Shows(Head(slides), LayoutAt(slides, 1)) => Head(names) = Head(slides).name
           /\ Shows(Last(slides), LayoutAt(slides, Len(slides))) => Last(names) = Last(slides).name

\* The row of a transform that ran alone ends with its whole deck, in order, one object to
\* a card, and each object still holds the card that is listed.  Before them it may list
\* what the image model had drawn when Pillow took over.  Excepted are the numbers of the
\* LLM, by which the image model's cards are named, when two are the same.
RowShowsItsDeck ==
    handoffRow # Nothing /\ handoffRow.by \notin mixed =>
        LET deck == job[handoffRow.by].deck
            cards == [k \in DOMAIN deck |-> Card(handoffRow.by, deck[k])]
            more == Len(handoffRow.images) - Len(deck)
            images == SubSeq(handoffRow.images, more + 1, Len(handoffRow.images))
            listed == [k \in DOMAIN images |-> images[k].card]
            numbers == [k \in DOMAIN images |-> images[k].no]
            byTheModel == cardSetup.imageModel /\ job[handoffRow.by].left = << >>
            given == [k \in DOMAIN deck |-> deck[k].number]
        IN IsInjective(given) \/ ~byTheModel =>
            /\ more >= 0
            /\ listed = cards
            /\ IsInjective(numbers)
            /\ \A k \in DOMAIN images : bucket[numbers[k]] = listed[k]
=============================================================================
