------------------------------ MODULE MC_Cards ------------------------------
(***************************************************************************)
(* Instance of ContestLayout with CardLayout: cards of every kind.         *)
(***************************************************************************)
EXTENDS ContestLayout

\* Cards with titles of none to four lines and items and bodies of none to as many as are cut.
Titles == {0, 8, 25, 80}
Speeches == {0, 12}
BareCard ==
    [index |-> 2, total |-> 3, items |-> << >>, eyebrow |-> 0, headline |-> 0, highlight |-> 0, body |-> 0,
     cta |-> 8, terms |-> << >>, speech |-> 0, url |-> FALSE, hero |-> FALSE, mascot |-> FALSE]
Covers ==
    {[BareCard EXCEPT !.index = 1, !.eyebrow = e, !.headline = h, !.highlight = l, !.speech = s, !.hero = b, !.mascot = m] :
        e \in Titles, h \in Titles, l \in Titles, s \in Speeches, b \in BOOLEAN, m \in BOOLEAN}
Ctas ==
    {[BareCard EXCEPT !.index = 3, !.eyebrow = e, !.headline = h, !.body = b, !.cta = c, !.terms = t, !.speech = s,
                      !.url = u, !.mascot = m] :
        e \in Titles, h \in Titles, b \in {0, 20, 60}, c \in {8, 20, 40}, t \in {<< >>, <<30>>, <<50, 50, 50>>},
        s \in Speeches, u \in BOOLEAN, m \in BOOLEAN}
Middles(n, titles, labels, texts) ==
    {[BareCard EXCEPT !.items = [k \in 1..n |-> <<l, x>>], !.eyebrow = e, !.headline = h, !.speech = s, !.mascot = m] :
        l \in labels, x \in texts, e \in titles, h \in titles, s \in Speeches, m \in BOOLEAN}
MCCards ==
    Covers \cup Ctas
    \cup UNION {Middles(n, Titles, {0, 8, 20}, {5, 40, 120}) : n \in {3, 4}}
    \cup UNION {Middles(n, Titles \cup {14, 15}, {0, 7, 20}, {5, 20, 60, 120}) : n \in {1, 2, 5}}

BareContest ==
    [layout |-> "cover", eyebrow |-> 0, headline |-> 0, highlight |-> 0, body |-> 0, cta |-> 0, point |-> 0,
     items |-> << >>, speech |-> 0, url |-> FALSE, mascot |-> FALSE]
ContestCovers ==
    {[BareContest EXCEPT !.eyebrow = e, !.headline = h, !.highlight = l, !.body = b, !.cta = c, !.speech = s, !.mascot = m] :
        e \in Titles, h \in Titles, l \in Titles, b \in {0, 12, 15, 20, 40}, c \in {0, 16}, s \in {0, 30}, m \in BOOLEAN}
ContestCtas ==
    {[BareContest EXCEPT !.layout = "cta", !.headline = h, !.highlight = l, !.body = b, !.cta = c, !.speech = s,
                         !.url = u, !.mascot = m] :
        h \in Titles, l \in Titles, b \in Titles, c \in {0, 8, 14, 20, 40}, s \in {0, 30}, u \in BOOLEAN, m \in BOOLEAN}
ContestTexts ==
    {[BareContest EXCEPT !.layout = k, !.headline = h, !.highlight = l, !.body = b, !.point = p] :
        k \in {"headline", "body", "checklist"}, h \in Titles, l \in Titles, b \in {0, 20, 60, 300}, p \in {0, 12}}
ContestRows ==
    {[BareContest EXCEPT !.layout = k, !.headline = h, !.point = p, !.items = [i \in 1..n |-> <<l, x>>]] :
        k \in {"table", "three_col", "checklist"}, h \in Titles \cup {14, 15}, p \in {0, 12}, n \in 1..5,
        l \in {0, 8, 40}, x \in {5, 18, 36, 120}}
MCContestCards == ContestCovers \cup ContestCtas \cup ContestTexts \cup ContestRows
=============================================================================
