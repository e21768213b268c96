----------------------------- MODULE MC_Content -----------------------------
(***************************************************************************)
(* Instance of what becomes of texts: Chunking, Departments over           *)
(* VectorLoad, CardDeck, and the cards of MC_Cards.                        *)
(***************************************************************************)
EXTENDS Departments, Chunking, CardDeck, MC_Cards

CONSTANTS dust, leak, lamp, pipe, blank, road, water, t1, t2

MCPieces == [x \in {dust, leak, lamp, pipe, blank} |-> IF x = dust THEN 2 ELSE 1]

Doc(i, x, category) == [id |-> i, content |-> x, category |-> category]

\* Questions without categories, one twice, and two with the same number; complaints of
\* which two have the same text.
MCCorpora ==
    {[kind |-> "qna", docs |-> <<Doc(1, dust, Missing), Doc(1, dust, Missing), Doc(2, blank, Missing), Doc(1, leak, Missing), Doc(3, lamp, Missing)>>],
     [kind |-> "tl1", docs |-> <<Doc(1, leak, road), Doc(2, dust, water), Doc(3, leak, road), Doc(4, lamp, water), Doc(5, pipe, water)>>]}

Slide(name, number, layout, words, button, items, chars) ==
    [name |-> name, number |-> number, layout |-> layout, words |-> words, button |-> button,
     items |-> items, chars |-> chars]
CoverSlide(n) == Slide("cover", n, "none", "headline", FALSE, 0, 30)
Rich(name, n) == Slide(name, n, "none", "headline", FALSE, 3, 60)
Thin(n) == Slide("thin", n, "none", "body", FALSE, 0, 15)
Table(n) == Slide("table", n, "table", "headline", FALSE, 4, 70)
NoSlide == Slide("empty", 0, "none", "none", FALSE, 0, 0)
CtaSlide(n) == Slide("cta", n, "cta", "headline", TRUE, 0, 25)

\* Up to five slides: with numbers that repeat, without content, too thin to show, and with
\* ends that are no cover and no CTA.
MCAnswers ==
    {<<NoSlide>>,
     <<CoverSlide(1), CtaSlide(1)>>,
     <<CoverSlide(0), Thin(0), CtaSlide(0)>>,
     <<CoverSlide(1), Rich("middle", 1), Table(3), CtaSlide(4)>>,
     <<NoSlide, CoverSlide(1), Table(2), Thin(2), Rich("middle", 3), CtaSlide(0)>>,
     <<Slide("items", 1, "none", "none", FALSE, 2, 40), Rich("middle", 2), Slide("end", 3, "none", "body", FALSE, 0, 20)>>}

\* Texts of words, lines and sentences, with some kinds of marks in each.
CONSTANT MaxText
Alphabets ==
    {{"space", "break", "letter", "footer"}, {"space", "break", "stop", "end"},
     {"break", "letter", "label", "greeting"}, {"space", "break", "letter", "qa"},
     {"break", "bullet", "heading", "qa"}, {"break", "letter", "bullet", "greeting"}}
MCTexts == {t \in UNION {SeqOf(s, MaxText) : s \in Alphabets} : Clean(t)}
=============================================================================
