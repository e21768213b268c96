---------------------------- MODULE ContestLayout ----------------------------
(***************************************************************************)
(* Where Pillow draws the parts of a contest card (contest_cardnews.       *)
(* template): under a browser's bar titles, a summary, a checklist or a    *)
(* text, a button, the line of the POINT, and the mascot with its bubble.  *)
(* Unlike the policy cards these choose a font that shrinks in few places: *)
(* what does not fit is left out, or measured with another font than it is *)
(* drawn with.  Texts and fonts are those of CardLayout.                   *)
(***************************************************************************)
EXTENDS CardLayout

ContestSlides ==
    [layout : {"cover", "headline", "body", "table", "three_col", "checklist", "cta"}, eyebrow : Nat, headline : Nat,
     highlight : Nat, body : Nat, cta : Nat, point : Nat, items : Seq(Nat \X Nat), speech : Nat, url : BOOLEAN,
     mascot : BOOLEAN]

CONSTANT ContestCards   \* the slides to draw, besides those of policies

ASSUME ContestCardsAssumption == ContestCards \subseteq ContestSlides
-----------------------------------------------------------------------------
(* The column that the texts stand in, and what is kept free below them.   *)

ContestTop == 166
ContestBottom == 1270
Column == 812
ElementGap == 20
PointHeight == 56
MascotHeight == 300

\* content_bottom_y; the first is a variant of it that forgets the mascot.
ContentBottomAbovePoint(hasMascot, hasPoint) == ContestBottom - (IF hasPoint THEN PointHeight ELSE 0)
ContentBottom(hasMascot, hasPoint) ==
    ContestBottom - (IF hasPoint THEN PointHeight ELSE 0) - (IF hasMascot THEN MascotHeight + 24 ELSE 0)

\* vertical_center_y
Centre(top, bottom, height) == top + AtLeast((bottom - top - height) \div 2, 0)
-----------------------------------------------------------------------------
(* Text.                                                                   *)

\* load_font
Sized(size) == AtLeast((128 * size) \div 100, 18)

\* fit_font_single_line: the first size tried is taken, and surplus lines are left out.
FitSingle(chars, width, size, maxLines) ==
    [font |-> Sized(size), lines |-> AtMost(Wrap(chars, Sized(size), width), maxLines)]

Height(fit) == TextHeight(fit.lines, fit.font, GapSmall)

Text(top, bottom) == IF top < bottom THEN <<Block(top, bottom, {})>> ELSE << >>

\* draw_wrapped_block: the largest size that is not too high, or the smallest, cut off.
WrappedEnd(chars, width, y, limit, start, smallest, maxLines) ==
    LET fitting == {s \in SizesTried(start, smallest) : Height(FitSingle(chars, width, s, maxLines)) <= limit - y}
        size == IF fitting = {} THEN smallest ELSE Max(fitting)
    IN IF chars = 0 \/ limit - y < 12 THEN y
       ELSE LinesEnd(FitSingle(chars, width, size, maxLines), GapSmall, y, limit)

\* draw_centered_title: what follows begins 10 lower.
TitleFit(chars, size) == FitSingle(chars, Column, size, 2)

\* draw_point_footer
Point(card) ==
    LET y == ContestBottom - PointHeight + 8
    IN IF card.point = 0 THEN << >> ELSE <<Block(y, y + LineHeight(Sized(32), 0), {})>>

\* draw_accent_pill, between top and bottom.
Pill(chars, width, top, bottom, size) ==
    LET fit == FitSingle(chars, width - 96, size, 2)
        from == AtLeast(bottom - Height(fit) - 36, top)
        text == from + AtLeast(18, (bottom - from - Height(fit)) \div 2)
    IN IF chars = 0 THEN << >>
       ELSE <<Block(from, bottom, {<< <<text, LinesEnd(fit, GapSmall, text, bottom - 8)>> >>})>>

\* _estimate_centered_stack_height: lines are counted at a title's first size and measured
\* at its smallest.
StackPart(chars, size, smallest) ==
    IF chars = 0 THEN 0
    ELSE TextHeight(FitSingle(chars, Column, size, 3).lines, Sized(smallest), GapSmall) + ElementGap

\* A title, <<top, bottom>>, begins where it may after the one above it.
Below(chars, above, gap) == IF chars = 0 THEN above[1] ELSE above[2] + gap
Drawn(first, second, third) == Text(first[1], first[2]) \o Text(second[1], second[2]) \o Text(third[1], third[2])
-----------------------------------------------------------------------------
(* The mascot.                                                             *)

\* _derive_contest_speech, of which at most 14 characters are shown.
Speech(card) ==
    CASE card.speech > 0 -> AtMost(card.speech, 14)
      [] card.speech = 0 /\ card.layout = "cover" -> 6
      [] card.speech = 0 /\ card.layout # "cover" -> IF card.cta \in 1..14 THEN AtMost(card.cta + 1, 14) ELSE 0

SpeechHeight(chars) ==
    LET bubble == FitSingle(chars, 888, 28, 2)
    IN IF bubble.lines = 0 THEN 0 ELSE 32 + bubble.lines * LineHeight(bubble.font, GapSmall)

\* mascot_zone, paste_mascot_in_zone: the bubble above the mascot, which gives way to it.
MascotUnder(high, bottom) ==
    LET top == bottom - MascotHeight
        icon == AtLeast(100, AtMost(200, MascotHeight - high - 46))
        my == bottom - icon - 12
        by == my - 22 - high
        tooHigh == high > 0 /\ by < top + 8
        from == IF tooHigh THEN top + 8 ELSE by
        foot == IF tooHigh THEN AtLeast(AtMost(my, from + high + 22 + icon), top + high + 30) ELSE my
        mascot == <<foot, foot + icon>>
    IN IF high = 0 THEN <<Block(my, bottom, {<< <<my, my + icon>> >>})>>
       ELSE <<Block(from, bottom, {<< <<from, from + high>>, mascot >>,
                                   << <<from + 16, from + high - 16>>, mascot >>})>>

MascotBlock(card) ==
    IF card.mascot THEN MascotUnder(SpeechHeight(Speech(card)), ContestBottom + 12 - PointHeight) ELSE << >>
-----------------------------------------------------------------------------
(* The layouts.                                                            *)

\* render_contest_cover: the titles are centred above what is reserved for the pill.
CoverSpan(chars, width, size, y, limit) == <<y, LinesEnd(FitSingle(chars, width, size, 2), GapSmall, y, limit)>>

CoverThird(card, eyebrow, headline, limit) ==
    Drawn(eyebrow, headline,
          CoverSpan(card.highlight, Column - 8, 72, Below(card.headline, headline, ElementGap), limit))
CoverSecond(card, eyebrow, limit) ==
    CoverThird(card, eyebrow,
               CoverSpan(card.headline, Column - 8, 72, Below(card.eyebrow, eyebrow, ElementGap), limit), limit)

CoverSpans(card, limit) ==
    LET stack == StackPart(card.eyebrow, 38, 28) + StackPart(card.headline, 72, 40) + StackPart(card.highlight, 72, 40)
        y == Centre(ContestTop, limit, AtLeast(stack - ElementGap, 0))
    IN CoverSecond(card, CoverSpan(card.eyebrow, Column, 38, y, limit), limit)

CoverReserved(pill) ==
    IF pill = 0 THEN 0 ELSE TextHeight(FitSingle(pill, Column - 100, 34, 2).lines, Sized(26), GapSmall) + 36

CoverPilled(card, pill, reserved, bottom) ==
    CoverSpans(card, bottom - reserved - ElementGap)
    \o Pill(pill, Column - 72, ContestTop, bottom - ElementGap, 34) \o MascotBlock(card)

CoverOver(card, pill) == CoverPilled(card, pill, CoverReserved(pill), ContentBottom(card.mascot, FALSE))
ContestCover(card) == CoverOver(card, IF card.body > 0 THEN card.body ELSE card.cta)

\* render_contest_headline: headline and highlight as one text, the body below it.
Headlined(card, words) ==
    LET bottom == ContentBottom(FALSE, TRUE)
        high == TextHeight(FitSingle(words, Column, 54, 5).lines, Sized(36), GapSmall)
        title == LinesEnd(TitleFit(5, 42), GapSmall, ContestTop + 8, ContestTop + 208)
        y == Centre(ContestTop + 52, bottom - 60, high)
    IN IF words = 0 THEN << >>
       ELSE Text(ContestTop + 8, title)
            \o Text(y, WrappedEnd(words, Column, y, bottom - 50, 54, 36, 6))
            \o Text(bottom - 90, WrappedEnd(card.body, Column, bottom - 90, bottom - 12, 34, 28, 2))
            \o Point(card)
ContestHeadline(card) ==
    Headlined(card, card.headline + (IF card.highlight > 0 /\ card.headline > 0 THEN 1 ELSE 0) + card.highlight)

\* render_contest_body: a text in a box.
Boxed(card, words) ==
    LET high == Height(FitSingle(words, Column - 48, 38, 12)) + 48
        box == Centre(ContestTop + 56, ContentBottom(FALSE, TRUE), high)
        end == WrappedEnd(words, Column - 56, box + 24, box + high - 20, 38, 30, 12)
    IN IF words = 0 THEN << >>
       ELSE Text(ContestTop + 6, LinesEnd(TitleFit(5, 42), GapSmall, ContestTop + 6, ContestTop + 206))
            \o <<Block(box, box + high, {<< <<box + 24, end>> >>})>> \o Point(card)
ContestBody(card) == Boxed(card, IF card.body > 0 THEN card.body ELSE card.headline)

\* slide_items: without items, the body is one.
Items(card) ==
    IF card.items = << >> /\ card.body > 0 THEN << <<0, card.body>> >>
    ELSE SubSeq(card.items, 1, AtMost(4, Len(card.items)))

\* Rows of these heights, four at most, one below the other: how far below the first the
\* k-th begins, and all of them together.
RowOffset(heights, k) ==
    LET step(j) == IF j < k /\ j \in DOMAIN heights THEN heights[j] + 22 ELSE 0
    IN step(1) + step(2) + step(3) + step(4)
Total(heights) == RowOffset(heights, 5) - 22

\* draw_centered_in_band: where the lines are drawn.
InBand(fit, top, bottom) ==
    LET y == Centre(top, bottom, Height(fit))
    IN <<y, LinesEnd(fit, GapSmall, y, bottom)>>

\* _draw_summary_cards: a strip with the label above each text.  The rows are as high as
\* their texts need, however many there are.
TableText(item) == FitSingle(item[2], Column - 32, 34, 3)
TableHeight(item) == 90 + TableText(item).lines * LineHeight(TableText(item).font, GapSmall)
TableRow(item, top, bottom) ==
    Block(top, bottom,
          {<<InBand(FitSingle(IF item[1] = 0 THEN 2 ELSE item[1], Column - 32, 28, 1), top, top + 58),
             InBand(TableText(item), top + 66, bottom - 8)>>})

TableRows(items, heights, y) ==
    [k \in DOMAIN items |->
        TableRow(items[k], y + RowOffset(heights, k), y + RowOffset(heights, k) + heights[k])]

\* render_contest_table
TableBelow(card, heights, title) ==
    LET bottom == ContentBottom(FALSE, TRUE)
    IN Text(ContestTop + 28, title)
       \o TableRows(Items(card), heights, Centre(title + 10 + ElementGap, bottom - ElementGap, Total(heights)))
       \o Point(card)
ContestTable(card) ==
    TableBelow(card, [k \in DOMAIN Items(card) |-> TableHeight(Items(card)[k])],
               LinesEnd(TitleFit(IF card.headline = 0 THEN 6 ELSE card.headline, 44), GapSmall,
                        ContestTop + 28, ContentBottom(FALSE, TRUE)))

\* render_contest_checklist: a mark beside each text.
CheckText(item) == FitSingle(item[2], Column - 78, 32, 2)
CheckHeight(item) == AtLeast(64, CheckText(item).lines * LineHeight(CheckText(item).font, GapSmall) + 32)
CheckRow(item, top, bottom) ==
    LET icon == top + (bottom - top - 34) \div 2
    IN Block(top, bottom, {<<InBand(CheckText(item), top + 8, bottom - 8)>>, << <<icon, icon + 34>> >>})

CheckRows(items, heights, y) ==
    [k \in DOMAIN items |->
        CheckRow(items[k], y + RowOffset(heights, k), y + RowOffset(heights, k) + heights[k])]

ChecklistBelow(card, heights, title) ==
    LET bottom == ContentBottom(FALSE, TRUE)
    IN Text(ContestTop + 28, title)
       \o CheckRows(Items(card), heights, Centre(title + 10 + ElementGap, bottom - ElementGap, Total(heights)))
       \o Point(card)
ContestChecklist(card) ==
    IF Items(card) = << >> THEN << >>
    ELSE ChecklistBelow(card, [k \in DOMAIN Items(card) |-> CheckHeight(Items(card)[k])],
                        LinesEnd(TitleFit(IF card.headline = 0 THEN 7 ELSE card.headline, 44), GapSmall,
                                 ContestTop + 28, ContestTop + 228))

\* render_contest_cta: the button stands above the URL, the titles share what is left.
CtaThird(card, headline, highlight, y, limit) ==
    Drawn(headline, highlight, <<y, WrappedEnd(card.body, Column, y, limit, 34, 28, 3)>>)
CtaSecond(card, headline, y, limit) ==
    LET highlight == <<y, WrappedEnd(card.highlight, Column, y, limit, 50, 34, 2)>>
    IN CtaThird(card, headline, highlight, Below(card.highlight, highlight, 14), limit)
CtaFirst(card, y, limit) ==
    LET headline == <<y, WrappedEnd(card.headline, Column, y, limit, 50, 34, 2)>>
    IN CtaSecond(card, headline, Below(card.headline, headline, 14), limit)

CtaSpans(card, limit) ==
    LET stack == StackPart(card.headline, 50, 34) + StackPart(card.highlight, 50, 34) + StackPart(card.body, 34, 28)
    IN CtaFirst(card, Centre(ContestTop, limit, AtLeast(stack - ElementGap, 0)), limit)

CtaButton(card, label, button, bottom) ==
    LET low == bottom - ElementGap
    IN CtaSpans(card, low - button) \o Pill(label, Column - 80, low - button + 12, low, 36)

ContestCta(card) ==
    LET bottom == ContentBottom(card.mascot, FALSE)
        label == IF card.cta = 0 THEN 8 ELSE card.cta
        button == Height(FitSingle(label, Column - 120, 36, 2)) + 52
        source == LinesEnd([font |-> Sized(24), lines |-> 2], GapSmall, bottom - 58, bottom - 6)
    IN CtaButton(card, label, button, IF card.url THEN bottom - 54 ELSE bottom)
       \o (IF card.url THEN Text(bottom - 58, source) ELSE << >>) \o MascotBlock(card)

\* render_contest_slide
DrawContestCard ==
    /\ slide = << >>
    /\ \E card \in ContestCards :
        /\ slide' = card
        /\ blocks' = CASE card.layout = "cover"     -> ContestCover(card)
                       [] card.layout = "headline"  -> ContestHeadline(card)
                       [] card.layout = "body"      -> ContestBody(card)
                       [] card.layout \in {"table", "three_col"} -> ContestTable(card)
                       [] card.layout = "checklist" -> ContestChecklist(card)
                       [] card.layout = "cta"       -> ContestCta(card)

DrawCard == DrawSlideCard \/ DrawContestCard

LayoutSpec == LayoutInit /\ [][DrawCard]_layoutVars
-----------------------------------------------------------------------------
IsContest(card) == "layout" \in DOMAIN card

\* The cards that a mascot is drawn on, below everything else.
HasMascot(card) ==
    /\ card.mascot
    /\ IF IsContest(card) THEN card.layout \in {"cover", "cta"}
       ELSE \/ Kind(card) = "cover" /\ ~card.hero
            \/ Kind(card) \in {"cta", "three_col"}
            \/ Kind(card) = "numbered" /\ Len(card.items) <= 3

\* Four rows of a contest's table are as high as their texts, whatever room there is.
HasHighRows(card) == IsContest(card) /\ card.layout \in {"table", "three_col"} /\ Len(card.items) >= 4

\* The pill of a contest's cover, measured with another font and width than it is drawn with,
\* may be higher than the room kept for it and come over the title above.
PillPlaces(card, list) ==
    IF IsContest(card) /\ card.layout = "cover" /\ (card.body > 0 \/ card.cta > 0)
    THEN {Len(list) - (IF card.mascot THEN 1 ELSE 0)} ELSE {}

\* The spans follow one another between top and bottom.
Stacked(spans, top, bottom) ==
    /\ \A k \in DOMAIN spans : top <= spans[k][1] /\ spans[k][1] <= spans[k][2] /\ spans[k][2] <= bottom
    /\ \A k \in 2..Len(spans) : spans[k - 1][2] <= spans[k][1]

\* What is drawn last, at the foot of the card, begins below all else and all words.
LastStandsClear ==
    \A k \in 1..Len(blocks) - 1 :
        /\ blocks[k].bottom <= blocks[Len(blocks)].top
        /\ \A span \in blocks[k].words : span[2] <= blocks[Len(blocks)].top

\* The parts of a card do not lie over each other, however long its texts: titles, rows,
\* columns, tiles, panels, button, photo and mascot follow one another inside the card, and
\* what the code fits into each of them stays in it.  Only the rows of a high table and the
\* pill of a contest's cover do not keep to this, and nothing is said of words that are not
\* fitted: of the guides' panel, of a button, of a numbered row.
CardPartsStayApart ==
    blocks # << >> /\ ~HasHighRows(slide) =>
        LET top == IF IsContest(slide) THEN ContestTop ELSE Top
            bottom == IF IsContest(slide) THEN ContestBottom ELSE Bottom
        IN /\ \A k \in DOMAIN blocks : top <= blocks[k].top /\ blocks[k].top <= blocks[k].bottom /\ blocks[k].bottom <= bottom
           /\ \A k \in DOMAIN blocks \ PillPlaces(slide, blocks) : k > 1 => blocks[k - 1].bottom <= blocks[k].top
           /\ \A k \in DOMAIN blocks : \A column \in blocks[k].columns :
                Stacked(column, blocks[k].top, blocks[k].bottom)

\* The mascot's area is the mascot's ("the lower bound of the body and the mascot's area are
\* kept apart so that they do not overlap", "bubble, then mascot, not over each other or the
\* body"): no part of a card and no word of it comes down to the mascot.  On numbered cards
\* the code does not keep to it, because the texts of rows are not fitted into them.
MascotStandsClear ==
    blocks # << >> /\ HasMascot(slide) /\ (IsContest(slide) \/ Kind(slide) # "numbered") => LastStandsClear
=============================================================================
