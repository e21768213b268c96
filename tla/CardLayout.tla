----------------------------- MODULE CardLayout -----------------------------
(***************************************************************************)
(* Where Pillow draws the parts of a policy card (policy_cardnews.template *)
(* with the numbers of app/assets/policy_cardnews_templates): the titles,  *)
(* the rows, columns or tiles, the button, the photo, and the mascot with  *)
(* its speech bubble, from top to bottom of a card of fixed size.  Texts   *)
(* are as long as the LLM makes them; the code chooses font sizes, breaks  *)
(* lines and leaves lines out so that the parts keep clear of each other,  *)
(* but it does not hold every text against the part it is drawn in: what   *)
(* is not held against it is kept apart, as the words of a block.          *)
(*                                                                         *)
(* A text is its number of characters.  All are Hangul, as wide as the     *)
(* font is high, and stand in one word; a line is 6/5 of that high.  Both  *)
(* are external, properties of the font.  A scale is in percent.           *)
(***************************************************************************)
EXTENDS Integers, SequencesExt, FiniteSetsExt

\* A slide: the lengths of its texts, and what belongs to it.  An item is <<label, text>>.
CardSlides ==
    [index : Nat, total : Nat, items : Seq(Nat \X Nat), eyebrow : Nat, headline : Nat, highlight : Nat, body : Nat,
     cta : Nat, terms : Seq(Nat), speech : Nat, url : BOOLEAN, hero : BOOLEAN, mascot : BOOLEAN]

CONSTANT Cards      \* the slides to draw

ASSUME CardsAssumption == Cards \subseteq CardSlides

VARIABLES
    slide,      \* the slide that is drawn, or << >>
    blocks      \* what is drawn of it, from top to bottom, or << >>

layoutVars == <<slide, blocks>>

\* A block from top to bottom, columns of parts that are to lie in it, each part <<top, bottom>>,
\* and the words that are drawn in it however high they are.
Worded(top, bottom, columns, words) == [top |-> top, bottom |-> bottom, columns |-> columns, words |-> words]
Block(top, bottom, columns) == Worded(top, bottom, columns, {})

AtLeast(a, b) == IF a < b THEN b ELSE a
AtMost(a, b) == IF a > b THEN b ELSE a
-----------------------------------------------------------------------------
(* The card: 1080 by 1350, less inset and padding.                         *)

Top == 72
Bottom == 1278
LowerEdge == Bottom - 18
Width == 936

GapSection == 22
GapBlock == 16
GapLarge == 16
GapMedium == 12
GapSmall == 8
PanelInset == 22
-----------------------------------------------------------------------------
(* Text.                                                                   *)

LineHeight(font, gap) == (6 * font) \div 5 + gap

\* wrap_text: the number of lines.
Wrap(chars, font, width) ==
    LET perLine == AtLeast(width \div font, 1)
    IN (chars + perLine - 1) \div perLine

\* measure_text_block
TextHeight(lines, font, gap) == IF lines = 0 THEN 0 ELSE lines * LineHeight(font, gap) - gap

\* Sizes are tried downwards, every second one.
SizesTried(start, smallest) == {s \in smallest..start : (start - s) % 2 = 0}

\* fit_font_lines: the largest size for which few lines suffice; or the smallest, and what
\* does not fit is left out.
FitFontLines(chars, width, start, smallest, maxLines) ==
    LET fitting == {s \in SizesTried(start, smallest) : Wrap(chars, s, width) <= maxLines}
        font == IF fitting = {} THEN smallest ELSE Max(fitting)
    IN [font |-> font, lines |-> AtMost(Wrap(chars, font, width), maxLines)]

\* _fit_text_in_rect
FitTextInRect(chars, width, height, start, smallest, gap) ==
    LET room(s) == AtLeast(height \div LineHeight(s, gap), 1)
        fitting == {s \in SizesTried(start, smallest) :
                        /\ Wrap(chars, s, width) <= room(s)
                        /\ TextHeight(Wrap(chars, s, width), s, gap) <= height}
        font == IF fitting = {} THEN smallest ELSE Max(fitting)
    IN IF chars = 0 \/ height < 16 \/ width < 32 THEN [font |-> smallest, lines |-> 0]
       ELSE [font |-> font, lines |-> AtMost(Wrap(chars, font, width), room(font))]

\* fill_scale
FillScale(used, available, least, most) ==
    CASE available <= 0 -> least
      [] available > 0 /\ 100 * used < 78 * available -> most
      [] available > 0 /\ 100 * used >= 96 * available -> least
      [] OTHER -> AtLeast(AtMost((98 * available) \div used, most), least)

\* scaled_size
ScaledSize(base, scale, least, most) == AtLeast(AtMost((base * 108 * scale) \div 10000, most), least)

\* A text, line by line as long as there is room.  Where it ends.
LinesEnd(fit, gap, y, limit) ==
    LET step == LineHeight(fit.font, gap)
    IN y + step * AtMost(fit.lines, AtLeast((limit - y) \div step, 0))

\* A text in the middle of a space of that height, or from its top if it is higher.
InMiddle(fit, gap, top, height) ==
    LET words == TextHeight(fit.lines, fit.font, gap)
        y == top + AtLeast(0, (height - words) \div 2)
    IN <<y, y + words>>

\* draw_template_header: the end of a title.
TitleEnd(y, chars, narrower, base, used, smallest, gap, limit) ==
    LET start == ScaledSize(base, FillScale(used, limit - Top, 108, 178), 18, 112)
    IN LinesEnd(FitFontLines(chars, Width - narrower, start, smallest, 2), gap, y, limit - GapBlock - 8)

\* Where the header's text ends, and where what follows may begin.
EyebrowEnd(eyebrow, limit) ==
    IF eyebrow = 0 THEN Top + GapBlock
    ELSE TitleEnd(Top + GapBlock, eyebrow, 24, 32, 36, 24, GapMedium, limit) + GapMedium
HeadlineEnd(y, headline, limit) ==
    IF headline = 0 THEN y ELSE TitleEnd(y, headline, 16, 52, 72, 36, GapLarge, limit)
HeaderTo(end, limit) == [end |-> end, next |-> AtMost(end + GapSection, limit)]
Header(eyebrow, headline, limit) == HeaderTo(HeadlineEnd(EyebrowEnd(eyebrow, limit), headline, limit), limit)

HeaderBlock(header) == Block(Top, AtLeast(header.end, Top), {})
-----------------------------------------------------------------------------
(* The mascot.                                                             *)

\* a variant: the mascot's zone is not left free
BoundsTogether(hasMascot) ==
    LET zone == AtLeast(220, ((Bottom - Top) * 34) \div 100)
    IN [body |-> LowerEdge, mascot |-> IF hasMascot THEN LowerEdge - zone ELSE LowerEdge]

\* _content_and_mascot_bounds: the end of the body, and the top of the mascot.
Bounds(hasMascot) ==
    LET zone == AtLeast(220, ((Bottom - Top) * 34) \div 100)
    IN IF hasMascot
       THEN [body |-> AtLeast(LowerEdge - zone - 20, Top + 80), mascot |-> LowerEdge - zone]
       ELSE [body |-> LowerEdge, mascot |-> LowerEdge]

\* _paste_mascot_zone, draw_mascot_narrator: the mascot with the bubble at its side.
MascotFont(zone) == ScaledSize(36, FillScale(50, zone, 108, 155), 30, 44)

NarratorOf(lines, line, icon, top, bottom) ==
    LET bubble == AtMost(56 + line * lines, bottom - top - 24)
        low == top + AtLeast((bottom - top - bubble) \div 2, 0)
        by == AtLeast(AtMost(low, bottom - 8 - bubble), top + 8)
        my == top + AtLeast((bottom - top - icon) \div 2, 0)
    IN Block(top, bottom, {<< <<my, my + icon>> >>}
                          \cup IF lines = 0 THEN {} ELSE {<< <<by, by + bubble>> >>, << <<by + 28, by + 28 + line * lines>> >>})

NarratorBy(speech, icon, font, top, bottom) ==
    NarratorOf(AtMost(Wrap(speech, font, AtLeast(140, Width - (138 * icon) \div 100 - 50) - 72), 3),
               (132 * font) \div 100, icon, top, bottom)

Narrator(speech, top, bottom) ==
    LET zone == bottom - top
    IN NarratorBy(speech, AtMost(AtMost(280, AtLeast(140, (zone * 55) \div 100)), (zone * 92) \div 100),
                  MascotFont(zone), top, bottom)

\* _layout_center_mascot_block, in a zone of that height: the bubble above the mascot,
\* both made smaller when they are too high.
BubbleLines(speech, font) == AtMost(Wrap(AtMost(speech, 12), font, 388), 2)
BubbleHeight(lines, font) == IF lines = 0 THEN 0 ELSE 44 + ((128 * font) \div 100) * lines

PlaceMascot(lines, font, icon, zone) ==
    LET my == zone - icon - GapBlock
        by == AtLeast(my - 18 - BubbleHeight(lines, font), GapBlock)
    IN [mascot |-> <<my, my + icon>>, lines |-> lines, bubble |-> <<by, my - 18>>,
        words |-> <<by + 22, by + 22 + ((128 * font) \div 100) * lines>>]

ShrinkMascot(speech, font, icon, shrink, zone) ==
    LET small == AtLeast(22, (font * shrink) \div 100)
    IN PlaceMascot(BubbleLines(speech, small), small, AtMost(icon, AtLeast(90, (icon * shrink) \div 100)), zone)

FitMascot(speech, lines, font, icon, zone) ==
    LET height == icon + 2 * GapBlock + (IF lines = 0 THEN 0 ELSE BubbleHeight(lines, font) + 18)
    IN IF height > zone THEN ShrinkMascot(speech, font, icon, AtLeast(50, (100 * zone) \div height), zone)
       ELSE PlaceMascot(lines, font, icon, zone)

CentredMascot(speech, zone) ==
    FitMascot(speech, BubbleLines(speech, MascotFont(zone)), MascotFont(zone),
              AtMost(AtMost(320, AtLeast(160, (zone * 60) \div 100)), AtLeast(100, (zone * 58) \div 100)), zone)

MascotAt(made, top, bottom) ==
    LET at(span) == <<top + span[1], top + span[2]>>
    IN Block(top, bottom,
             IF made.lines = 0 THEN {<<at(made.mascot)>>}
             ELSE {<<at(made.bubble), at(made.mascot)>>, <<at(made.words), at(made.mascot)>>})

CentredBlock(speech, top, bottom) == MascotAt(CentredMascot(speech, bottom - top), top, bottom)

\* _estimate_cta_mascot_zone_height
CtaMascotZone(speech) ==
    LET room == LowerEdge - Top
        probe == AtLeast(300, AtMost(560, room))
        zone(made) == probe - (IF made.lines = 0 THEN made.mascot[1] ELSE made.bubble[1])
    IN AtLeast(300, AtMost(zone(CentredMascot(speech, probe)) + GapBlock, room))
-----------------------------------------------------------------------------
(* render_template_cover                                                   *)

\* _fit_block, and what the drawing advances: the title of a kind at a scale, if there is one.
CoverFit(kind, chars, scale) ==
    CASE kind = "eyebrow"   -> FitFontLines(chars, Width - 32, ScaledSize(34, scale, 18, 112), 26, 2)
      [] kind = "headline"  -> FitFontLines(chars, Width - 40, ScaledSize(72, scale, 18, 112), 48, 3)
      [] kind = "highlight" -> FitFontLines(chars, Width - 40, ScaledSize(68, scale, 18, 112), 44, 2)

CoverTitleOf(kind, fit) ==
    CASE kind = "eyebrow"   -> [fits |-> TextHeight(fit.lines, fit.font, GapSmall) + GapLarge,
                                drawn |-> fit.lines * LineHeight(fit.font, GapSmall) + GapLarge]
      [] kind = "headline"  -> [fits |-> TextHeight(fit.lines, fit.font, GapMedium) + GapLarge,
                                drawn |-> fit.lines * LineHeight(fit.font, GapMedium) + GapLarge]
      [] kind = "highlight" -> [fits |-> fit.lines * (LineHeight(fit.font, 6) + 14 + GapLarge),
                                drawn |-> fit.lines * (LineHeight(fit.font, 6) + 14 + GapLarge)]

CoverTitle(kind, chars, scale) ==
    IF chars = 0 THEN [fits |-> 0, drawn |-> 0] ELSE CoverTitleOf(kind, CoverFit(kind, chars, scale))

CoverTextHeight(card, scale) ==
    GapBlock + CoverTitle("eyebrow", card.eyebrow, scale).fits + CoverTitle("headline", card.headline, scale).fits
        + CoverTitle("highlight", card.highlight, scale).fits

\* The scale is lowered until the text fits, 27 times at the most and never below 100.
LowerScale(card, scale, available) ==
    LET height == CoverTextHeight(card, scale)
    IN IF scale = 100 \/ height <= available THEN scale ELSE AtLeast((scale * available * 96) \div (height * 100), 100)

CoverScale(card, available) ==
    LET scale[i \in 0..27] == IF i = 0 THEN 178 ELSE LowerScale(card, scale[i - 1], available)
    IN scale[27]

CoverVisual(card, y) ==
    CASE card.hero -> <<Block(y, LowerEdge, {})>>
      [] ~card.hero /\ card.mascot -> <<CentredBlock(card.speech, y, LowerEdge)>>
      [] OTHER -> << >>

\* The titles end at these heights, and the photo or the mascot follows.
CoverText(card, y, eyebrow, headline, highlight) ==
    <<Block(Top, highlight, {<< <<y, eyebrow>>, <<eyebrow, headline>>, <<headline, highlight>> >>})>>
    \o CoverVisual(card, highlight + GapSection)

CoverFrom(card, y, eyebrow, headline, highlight) ==
    CoverText(card, y, y + eyebrow, y + eyebrow + headline, y + eyebrow + headline + highlight)

CoverAt(card, scale, slack) ==
    CoverFrom(card, Top + AtLeast(slack, GapBlock), CoverTitle("eyebrow", card.eyebrow, scale).drawn,
              CoverTitle("headline", card.headline, scale).drawn, CoverTitle("highlight", card.highlight, scale).drawn)

CoverScaled(card, scale, available) ==
    CoverAt(card, scale, ((available - CoverTextHeight(card, scale)) * 8) \div 100)

CoverBlocks(card) ==
    LET available == IF card.hero \/ card.mascot THEN ((Bottom - Top) * 44) \div 100 ELSE LowerEdge - Top
    IN CoverScaled(card, CoverScale(card, available), available)
-----------------------------------------------------------------------------
(* render_template_cta                                                     *)

\* The lines of the k-th guide, in a width; two guides are shown.
GuideLines(card, k, width) == IF k \in DOMAIN card.terms THEN AtMost(Wrap(card.terms[k], 20, width), 2) ELSE 0

\* _draw_term_guide_panel: nothing if there is little room.  The panel may be made lower than
\* its title and its guides, which are drawn in full.
TermWords(lines, y) ==
    LET step == LineHeight(20, GapSmall)
        guides == y + LineHeight(22, GapSmall) + GapSmall
        line(k) == <<guides + step * (k - 1), guides + step * (k - 1) + LineHeight(20, 0)>>
    IN {<<y, y + LineHeight(22, 0)>>} \cup {line(k) : k \in 1..lines}

TermPanelOf(lines, y, limit) ==
    LET words == TextHeight(AtMost(lines, 3), 20, GapSmall)
        height == AtMost(2 * PanelInset + LineHeight(22, GapSmall) + GapSmall + words, AtLeast(80, limit - y - GapBlock))
    IN Worded(y, AtMost(limit - GapBlock, y + height), {}, TermWords(AtMost(lines, 3), y + PanelInset \div 2))

TermPanel(card, y, limit) ==
    LET lines(k) == GuideLines(card, k, Width - 2 * PanelInset)
    IN IF card.terms = << >> \/ y >= limit - 60 THEN << >> ELSE <<TermPanelOf(lines(1) + lines(2), y, limit)>>

\* The body, line by line above the button.
CtaBody(card, y, font, button) ==
    LET step == LineHeight(font, GapSmall)
        room == AtLeast((button - GapBlock - y) \div step, 0)
        lines == AtMost(AtMost(Wrap(card.body, font, Width - 3 * PanelInset), 2), room)
    IN IF card.body = 0 \/ y >= button - GapBlock \/ lines = 0 THEN << >>
       ELSE <<Block(y, y + lines * step, {})>>

\* draw_cta_action_panel
Button(chars, top, bottom) ==
    LET fit == FitFontLines(chars, Width - 4 * PanelInset, 40, 28, 2)
        high == TextHeight(fit.lines, fit.font, GapSmall)
        text == top + AtLeast(PanelInset \div 2, (bottom - top - high) \div 2)
    IN Worded(top, bottom, {}, {<<text, text + high>>})

\* What is left for the titles when guides and body have theirs.
CtaTitles(card, small, button) ==
    LET guide(k) ==
            IF k \in DOMAIN card.terms
            THEN LineHeight(22, GapSmall) + TextHeight(GuideLines(card, k, Width - 4 * PanelInset), 20, GapSmall) ELSE 0
        terms == IF card.terms = << >> THEN 0 ELSE PanelInset + GapSection + guide(1) + guide(2)
        body == IF card.body = 0 THEN 0
                ELSE TextHeight(AtMost(Wrap(card.body, small, Width - 56), 2), small, GapSmall) + GapSection
    IN AtLeast(Top + GapBlock, button - GapSection - body - terms - GapBlock)

CtaPanel(card, header, titles, button) ==
    IF header.next < titles THEN TermPanel(card, header.next, AtMost(titles, button - GapBlock)) ELSE << >>

CtaGuided(card, header, panel, small, button) ==
    <<HeaderBlock(header)>> \o panel
    \o CtaBody(card, IF panel = << >> THEN header.next ELSE panel[1].bottom + GapSection, small, button)

CtaHeaded(card, header, titles, small, button) ==
    CtaGuided(card, header, CtaPanel(card, header, titles, button), small, button)

CtaText(card, titles, small, button) ==
    CtaHeaded(card, Header(IF card.eyebrow = 0 THEN 3 ELSE card.eyebrow,
                           IF card.headline = 0 THEN 12 ELSE card.headline, titles), titles, small, button)

CtaUrl(font, end, limit) ==
    LET y == AtMost(end + GapLarge, limit - LineHeight(font, GapSmall) - GapBlock)
    IN <<Block(y, y + LineHeight(font, 0), {})>>

\* The button stands above the URL, and both above the mascot.
CtaFrom(card, small, button, end, urlFont, limit) ==
    CtaText(card, CtaTitles(card, small, button), small, button)
    \o <<Button(card.cta, button, end)>>
    \o (IF card.url THEN CtaUrl(urlFont, end, limit) ELSE << >>)

CtaBox(card, high, urlFont, scale, limit) ==
    LET urlHeight == IF card.url THEN LineHeight(urlFont, GapSmall) + GapLarge ELSE 0
        button == AtLeast(limit - urlHeight - high, Top + GapBlock)
    IN CtaFrom(card, ScaledSize(24, scale, 20, 112), button, button + high, urlFont, limit)

CtaScaled(card, scale, limit) ==
    CtaBox(card, ScaledSize(96, scale, 76, 108), ScaledSize(20, scale, 18, 112), scale, limit)

CtaAbove(card, limit) == CtaScaled(card, FillScale(180, AtLeast(120, limit - Top), 108, 148), limit)

CtaWithMascot(card, speech, y) == CtaAbove(card, y - 36) \o <<CentredBlock(speech, y, LowerEdge)>>

CtaBlocks(card) ==
    LET speech == IF card.speech = 0 THEN 10 ELSE card.speech
    IN IF card.mascot THEN CtaWithMascot(card, speech, LowerEdge - CtaMascotZone(speech)) ELSE CtaAbove(card, LowerEdge)
-----------------------------------------------------------------------------
(* render_template_numbered, _three_col and _grid.                         *)

NumberedRow(item, top, bottom, font) ==
    LET radius == AtLeast(26, ((bottom - top) * 26) \div 100)
        circle == top + (bottom - top - 2 * radius) \div 2
        chars == item[2] + (IF item[1] = 0 THEN 0 ELSE item[1] + 3)
        words == TextHeight(AtMost(Wrap(chars, font, Width - 2 * PanelInset - 2 * radius), 3), font, GapMedium)
        text == top + AtLeast(GapBlock, (bottom - top - words) \div 2)
    IN Worded(top, bottom, {<< <<circle, circle + 2 * radius>> >>}, {<<text, text + words>>})

NumberedRows(items, y, bottom) ==
    LET n == AtLeast(Len(items), 1)
        row == AtLeast(48, (bottom - y - 14 * (n - 1)) \div n)
        font == ScaledSize(36, FillScale(64 * n, bottom - y, 108, 165), 28, 48)
        rowTop(k) == y + (k - 1) * (row + 14)
        drawn == {k \in DOMAIN items : \A j \in 1..k : rowTop(j) < bottom - GapBlock}
    IN [k \in 1..Cardinality(drawn) |-> NumberedRow(items[k], rowTop(k), AtMost(bottom, rowTop(k) + row), font)]

NumberedBelow(card, items, header, hasMascot, bounds) ==
    <<HeaderBlock(header)>> \o NumberedRows(items, header.next, bounds.body)
    \o (IF hasMascot THEN <<Narrator(IF card.speech = 0 THEN 4 ELSE card.speech, bounds.mascot, LowerEdge)>> ELSE << >>)

NumberedBlocks(card) ==
    LET items == SubSeq(card.items, 1, AtMost(4, Len(card.items)))
        hasMascot == card.mascot /\ Len(items) <= 3
        bounds == Bounds(hasMascot)
    IN NumberedBelow(card, items, Header(IF card.eyebrow = 0 THEN 6 ELSE card.eyebrow, card.headline, bounds.body),
                     hasMascot, bounds)

\* A column is a badge, a label and a text.
ColumnOf(item, top, bottom, inner, badge, labelHeight) ==
    LET label == top + PanelInset + badge + GapMedium
        content == label + labelHeight + GapSmall
        room == AtLeast(40, bottom - content - PanelInset)
        name == FitTextInRect(IF item[1] = 0 THEN 3 ELSE item[1], inner, labelHeight, 32, 24, GapSmall)
    IN << <<top + PanelInset, top + PanelInset + badge>>,
          <<label, label + TextHeight(name.lines, name.font, GapSmall)>>,
          InMiddle(FitTextInRect(item[2], inner, room, 30, 22, GapMedium), GapMedium, content, room) >>

ColumnsOf(items, top, bottom) ==
    LET n == AtLeast(Len(items), 1)
        inner == (Width - 20 * (n - 1)) \div n - 2 * PanelInset
        badge == AtLeast(44, AtMost(56, ((bottom - top) * 13) \div 100))
        labelHeight == AtLeast(36, ((bottom - top) * 18) \div 100)
    IN {ColumnOf(items[k], top, bottom, inner, badge, labelHeight) : k \in DOMAIN items}

ThreeColBelow(card, header, bounds) ==
    LET top == header.next + GapBlock
        items == SubSeq(card.items, 1, AtMost(3, Len(card.items)))
    IN <<HeaderBlock(header), Block(top, bounds.body, ColumnsOf(items, top, bounds.body))>>
       \o (IF card.mascot THEN <<Narrator(IF card.speech = 0 THEN 6 ELSE card.speech, bounds.mascot, LowerEdge)>> ELSE << >>)

ThreeColBlocks(card) ==
    ThreeColBelow(card, Header(card.eyebrow, IF card.headline = 0 THEN 6 ELSE card.headline, Bounds(card.mascot).body),
                  Bounds(card.mascot))

\* A tile is a ribbon with its label above its text; there is no mascot.
TileRow(items, top, bottom, ribbon) ==
    LET inner == (Width - 18) \div 2 - 48
        content == top + ribbon + 24
        room == AtLeast(40, bottom - 24 - content)
        label(item) == FitTextInRect(IF item[1] = 0 THEN 4 ELSE item[1], inner, ribbon - 24, 42, 30, GapSmall)
        placed(name) ==
            LET words == TextHeight(name.lines, name.font, GapSmall)
                text == top + AtLeast(12, (ribbon - words) \div 2)
            IN << <<text, text + words>> >>
        body(item) == InMiddle(FitTextInRect(item[2], inner, room, 44, 30, GapMedium), GapMedium, content, room)
    IN IF items = << >> THEN << >>
       ELSE <<Block(top, top + ribbon, {placed(label(items[k])) : k \in DOMAIN items}),
              Block(top + ribbon, bottom, {<<body(items[k])>> : k \in DOMAIN items})>>

TileRowFrom(items, top, tile) ==
    LET bottom == AtMost(LowerEdge, top + tile)
    IN TileRow(items, top, bottom, AtLeast(52, ((bottom - top) * 28) \div 100))

Tiles(items, first, tile) ==
    TileRowFrom(SubSeq(items, 1, AtMost(2, Len(items))), first, tile)
    \o TileRowFrom(SubSeq(items, 3, AtMost(4, Len(items))), first + tile + 18, tile)

GridBelow(items, header) ==
    LET height == LowerEdge - header.next
        tile == AtLeast(120, (height - 18) \div 2)
    IN <<HeaderBlock(header)>> \o Tiles(items, header.next + AtLeast(0, (height - 2 * tile - 18) \div 2), tile)

GridBlocks(card) == GridBelow(card.items, Header(card.eyebrow, IF card.headline = 0 THEN 9 ELSE card.headline, LowerEdge))
-----------------------------------------------------------------------------
\* normalize_to_template_slide: the first card is the cover, the last the CTA, and one in
\* between is laid out for the number of its items.
Kind(card) ==
    CASE card.index = 1 -> "cover"
      [] card.index > 1 /\ card.index = card.total -> "cta"
      [] OTHER -> IF Len(card.items) = 3 THEN "three_col" ELSE IF Len(card.items) = 4 THEN "grid" ELSE "numbered"

LayoutInit == slide = << >> /\ blocks = << >>

\* render_template_slide
DrawSlideCard ==
    /\ slide = << >>
    /\ \E card \in Cards :
        /\ slide' = card
        /\ blocks' = CASE Kind(card) = "cover"     -> CoverBlocks(card)
                       [] Kind(card) = "cta"       -> CtaBlocks(card)
                       [] Kind(card) = "numbered"  -> NumberedBlocks(card)
                       [] Kind(card) = "three_col" -> ThreeColBlocks(card)
                       [] Kind(card) = "grid"      -> GridBlocks(card)
=============================================================================
