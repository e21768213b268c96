-------------------------- MODULE Pictures_proofs --------------------------
(***************************************************************************)
(* What holds of the pictures of a pin, those that are stored and those    *)
(* that are drawn.                                                         *)
(*                                                                         *)
(* ContestLayout and CardLayout, for any slides: the parts of a card do    *)
(* not lie over each other.  A list of blocks is InOrder between two       *)
(* heights; every layout is put together from such lists, and each is      *)
(* joined to the next, but a pill that is laid over the titles.            *)
(*                                                                         *)
(* PinImages, for any number of images and of overlapping edits, under     *)
(* every fault: a mark belongs to a row, and a row has its object.  And    *)
(* what holds as long as edits do not overlap: the images stay valid, and  *)
(* without faults no object is left behind.                                *)
(***************************************************************************)
EXTENDS PinImages, ContestLayout, FiniteSetTheorems, SequenceTheorems, WellFoundedInduction, TLAPS

----------------------------------------------------------------------------
(* Cards: sizes and lines of text.                                          *)

\* A set of positions that is not empty has a least one: the sets of positions before each
\* of them are finite, and a smallest of them is empty.
LEMMA LeastPosition ==
    ASSUME NEW n \in Nat, NEW P \in SUBSET (1..n), P # {}
    PROVE  \E i \in P : \A k \in P : i <= k
<1>. DEFINE Before(i) == {j \in P : j < i}
            Befores == {Before(i) : i \in P}
<1>1. IsFiniteSet(P)
  <2>1. IsFiniteSet(1..n)  BY FS_Interval
  <2>. QED  BY <2>1, FS_Subset
<1>2. Befores \subseteq FiniteSubsetsOf(P)
  <2>. SUFFICES ASSUME NEW i \in P PROVE Before(i) \in FiniteSubsetsOf(P)
    OBVIOUS
  <2>. QED  BY <1>1, FS_Subset DEF FiniteSubsetsOf
<1>3. PICK least \in Befores : \A other \in Befores : ~ (<<other, least>> \in StrictSubsetOrdering(P))
  <2>1. Befores # {}  OBVIOUS
  <2>. HIDE DEF Befores
  <2>. QED  BY <1>2, <2>1, FS_StrictSubsetOrderingWellFounded, WFMin
<1>4. PICK i \in P : least = Before(i)  BY <1>3
<1>5. ASSUME NEW k \in P, k < i PROVE FALSE
  <2>1. i \in Int /\ k \in Int /\ \A j \in P : j \in Int  OBVIOUS
  <2>2. Before(k) \subseteq least /\ k \in least /\ k \notin Before(k)
    <3>1. k \in least  BY <1>4, <1>5
    <3>2. \A j \in P : j < k => j < i  BY <1>5, <2>1
    <3>3. Before(k) \subseteq least  BY <1>4, <3>2
    <3>4. k \notin Before(k)  BY <2>1
    <3>. QED  BY <3>1, <3>3, <3>4
  <2>3. <<Before(k), least>> \in StrictSubsetOrdering(P)  BY <1>4, <2>2 DEF StrictSubsetOrdering
  <2>. QED  BY <1>3, <2>3
<1>6. \A k \in P : i \in Int /\ k \in Int  OBVIOUS
<1>. QED  BY <1>5, <1>6

\* A whole number of times, and what is left.
LEMMA DivTimes ==
    ASSUME NEW a \in Int, NEW d \in Int, d > 0
    PROVE  /\ a \div d \in Int
           /\ d * (a \div d) <= a
           /\ a < d * (a \div d) + d
  BY SMT

\* Division by more than it is at most.
LEMMA DivAtMost ==
    ASSUME NEW a \in Int, NEW d \in Int, d > 0, NEW k \in Int, a < d * (k + 1)
    PROVE  a \div d <= k
<1>. DEFINE q == a \div d
<1>1. q \in Int /\ d * q <= a  BY DivTimes
<1>2. d * q < d * (k + 1)  BY <1>1
<1>. HIDE DEF q
<1>3. ASSUME q > k PROVE FALSE
  <2>1. PICK m \in Nat : q = k + 1 + m
    <3>1. q - (k + 1) \in Nat  BY <1>1, <1>3
    <3>. QED  BY <1>1, <3>1
  <2>2. d * q = d * (k + 1) + d * m  BY <2>1
  <2>3. d * m >= 0  BY <2>1
  <2>4. d * q \in Int /\ d * (k + 1) \in Int /\ d * m \in Int BY <1>1, <2>1
  <2>. QED  BY <1>2, <2>2, <2>3, <2>4
<1>. QED  BY <1>1, <1>3 DEF q

LEMMA DivAtLeast ==
    ASSUME NEW a \in Int, NEW d \in Int, d > 0, NEW k \in Int, d * k <= a
    PROVE  k <= a \div d
<1>. DEFINE q == a \div d
<1>1. q \in Int /\ a < d * q + d  BY DivTimes
<1>2. d * k < d * q + d  BY <1>1
<1>. HIDE DEF q
<1>3. ASSUME q < k PROVE FALSE
  <2>1. PICK m \in Nat : k = q + 1 + m
    <3>1. k - (q + 1) \in Nat  BY <1>1, <1>3
    <3>. QED  BY <1>1, <3>1
  <2>2. d * k = d * q + d + d * m  BY <1>1, <2>1
  <2>3. d * m >= 0  BY <2>1
  <2>4. d * q \in Int /\ d * k \in Int /\ d * m \in Int  BY <1>1, <2>1
  <2>. QED  BY <1>2, <2>2, <2>3, <2>4
<1>. QED  BY <1>1, <1>3 DEF q

LEMMA WrapType ==
    ASSUME NEW chars \in Nat, NEW font \in Nat, font > 0, NEW width \in Int
    PROVE  /\ Wrap(chars, font, width) \in Nat
           /\ chars = 0 => Wrap(chars, font, width) = 0
           /\ chars > 0 => Wrap(chars, font, width) >= 1
<1>. DEFINE p == AtLeast(width \div font, 1)
<1>1. p \in Nat /\ p >= 1
  <2>1. width \div font \in Int  BY DivTimes
  <2>. QED  BY <2>1 DEF AtLeast
<1>2. Wrap(chars, font, width) = (chars + p - 1) \div p  BY DEF Wrap
<1>. HIDE DEF p
<1>3. (chars + p - 1) \div p \in Int  BY <1>1, DivTimes
<1>4. (chars + p - 1) \div p >= 0
  <2>1. p * 0 <= chars + p - 1  BY <1>1
  <2>2. chars + p - 1 \in Int  BY <1>1
  <2>. QED  BY <1>1, <2>1, <2>2, DivAtLeast
<1>5. CASE chars = 0
  <2>1. chars + p - 1 < p * (0 + 1)  BY <1>1, <1>5
  <2>2. chars + p - 1 \in Int  BY <1>1
  <2>3. (chars + p - 1) \div p <= 0  BY <1>1, <2>1, <2>2, DivAtMost
  <2>. QED  BY <1>2, <1>3, <1>4, <1>5, <2>3
<1>6. CASE chars > 0
  <2>1. p * 1 <= chars + p - 1  BY <1>1, <1>6
  <2>2. chars + p - 1 \in Int  BY <1>1
  <2>3. (chars + p - 1) \div p >= 1  BY <1>1, <2>1, <2>2, DivAtLeast
  <2>. QED  BY <1>2, <1>3, <1>4, <1>6, <2>3
<1>. QED  BY <1>5, <1>6

\* A text of so many lines' characters takes no more lines.
LEMMA WrapAtMost ==
    ASSUME NEW chars \in Nat, NEW font \in Nat, font > 0, NEW width \in Nat,
           NEW n \in Nat, n > 0, font * n <= width, NEW k \in Nat, chars <= n * k
    PROVE  Wrap(chars, font, width) <= k
<1>. DEFINE p == AtLeast(width \div font, 1)
<1>1. p \in Nat /\ p >= n
  <2>1. width \div font \in Int  BY DivTimes
  <2>2. n <= width \div font  BY DivAtLeast
  <2>. QED  BY <2>1, <2>2 DEF AtLeast
<1>2. Wrap(chars, font, width) = (chars + p - 1) \div p  BY DEF Wrap
<1>. HIDE DEF p
<1>3. chars <= p * k
  <2>1. PICK m \in Nat : p = n + m
    <3>1. p - n \in Nat  BY <1>1
    <3>. QED  BY <1>1, <3>1
  <2>2. p * k = n * k + m * k /\ m * k \in Nat  BY <2>1
  <2>. QED  BY <2>2
<1>4. chars + p - 1 < p * (k + 1)
  <2>1. p * (k + 1) = p * k + p /\ p * k \in Int  BY <1>1
  <2>. QED  BY <1>1, <1>3, <2>1
<1>5. chars + p - 1 \in Int  BY <1>1
<1>. QED  BY <1>1, <1>2, <1>4, <1>5, DivAtMost

\* The largest of the sizes that fit.
LEMMA LargestSize ==
    ASSUME NEW n \in Nat, NEW P \in SUBSET (0..n), P # {}
    PROVE  Max(P) \in P /\ \A k \in P : k <= Max(P)
<1>0. \A k \in P : k \in Int /\ 0 <= k /\ k <= n  OBVIOUS
<1>. DEFINE Q == {n + 1 - k : k \in P}
<1>1. Q \in SUBSET (1..(n + 1)) /\ Q # {}
  <2>1. \A k \in P : n + 1 - k \in 1..(n + 1)  BY <1>0
  <2>2. Q \subseteq 1..(n + 1)  BY <2>1
  <2>3. Q # {}  OBVIOUS
  <2>. QED  BY <2>2, <2>3
<1>2. PICK i \in Q : \A k \in Q : i <= k
  <2>1. n + 1 \in Nat  OBVIOUS
  <2>. HIDE DEF Q
  <2>. QED  BY <1>1, <2>1, LeastPosition
<1>3. PICK m \in P : i = n + 1 - m  BY <1>2
<1>4. \A k \in P : k <= m
  <2>. SUFFICES ASSUME NEW k \in P PROVE k <= m
    OBVIOUS
  <2>1. i <= n + 1 - k  BY <1>2
  <2>. QED  BY <1>0, <1>3, <2>1
<1>. HIDE DEF Q
<1>5. \E x \in P : \A y \in P : x >= y  BY <1>0, <1>4
<1>6. Max(P) \in P /\ \A y \in P : Max(P) >= y  BY <1>5 DEF Max
<1>. QED  BY <1>0, <1>6

LEMMA SizesTriedType ==
    ASSUME NEW start \in Nat, NEW smallest \in Nat, NEW P \in SUBSET SizesTried(start, smallest), P # {}
    PROVE  Max(P) \in P /\ Max(P) \in Nat /\ smallest <= Max(P) /\ Max(P) <= start
<1>1. \A s \in P : s \in Nat /\ smallest <= s /\ s <= start  BY DEF SizesTried
<1>2. P \in SUBSET (0..start)  BY <1>1
<1>3. Max(P) \in P  BY <1>2, LargestSize
<1>. QED  BY <1>1, <1>3

\* fit_font_lines: a size between the smallest and the first, and no more lines than asked for.
LEMMA FittedLines ==
    ASSUME NEW chars \in Nat, NEW width \in Nat, NEW start \in Nat, NEW smallest \in Nat, smallest > 0,
           NEW maxLines \in Nat
    PROVE  LET fit == FitFontLines(chars, width, start, smallest, maxLines)
           IN /\ fit.font \in Nat /\ fit.font >= smallest
              /\ fit.font <= AtLeast(start, smallest)
              /\ fit.lines \in 0..maxLines
              /\ fit.lines <= Wrap(chars, fit.font, width)
              /\ chars > 0 /\ maxLines > 0 => fit.lines >= 1
<1>. DEFINE fitting == {s \in SizesTried(start, smallest) : Wrap(chars, s, width) <= maxLines}
            font == IF fitting = {} THEN smallest ELSE Max(fitting)
<1>1. FitFontLines(chars, width, start, smallest, maxLines)
        = [font |-> font, lines |-> AtMost(Wrap(chars, font, width), maxLines)]
  BY DEF FitFontLines
<1>2. font \in Nat /\ font >= smallest /\ font <= AtLeast(start, smallest)
  <2>1. CASE fitting = {}  BY <2>1 DEF AtLeast
  <2>2. CASE fitting # {}
    <3>1. fitting \in SUBSET SizesTried(start, smallest)  OBVIOUS
    <3>. HIDE DEF fitting
    <3>2. Max(fitting) \in Nat /\ smallest <= Max(fitting) /\ Max(fitting) <= start
      BY <2>2, <3>1, SizesTriedType
    <3>. QED  BY <2>2, <3>2 DEF AtLeast
  <2>. QED  BY <2>1, <2>2
<1>. HIDE DEF fitting, font
<1>3. /\ Wrap(chars, font, width) \in Nat
      /\ chars > 0 => Wrap(chars, font, width) >= 1
  <2>1. font > 0 /\ width \in Int  BY <1>2
  <2>. QED  BY <1>2, <2>1, WrapType
<1>. QED  BY <1>1, <1>2, <1>3 DEF AtMost

\* _fit_text_in_rect: the text is not higher than the space, if a line of the smallest size is
\* not.
LEMMA FittedText ==
    ASSUME NEW chars \in Nat, NEW width \in Nat, NEW height \in Int, NEW start \in Nat,
           NEW smallest \in Nat, smallest > 0, NEW gap \in Nat, (6 * smallest) \div 5 <= height
    PROVE  LET fit == FitTextInRect(chars, width, height, start, smallest, gap)
           IN /\ TextHeight(fit.lines, fit.font, gap) \in Nat
              /\ TextHeight(fit.lines, fit.font, gap) <= height
<1>. DEFINE room(s) == AtLeast(height \div LineHeight(s, gap), 1)
            fitting == {s \in SizesTried(start, smallest) :
                            /\ Wrap(chars, s, width) <= room(s)
                            /\ TextHeight(Wrap(chars, s, width), s, gap) <= height}
            font == IF fitting = {} THEN smallest ELSE Max(fitting)
            lines == AtMost(Wrap(chars, font, width), room(font))
            step == LineHeight(font, gap)
<1>0. CASE chars = 0 \/ height < 16 \/ width < 32
  <2>1. FitTextInRect(chars, width, height, start, smallest, gap) = [font |-> smallest, lines |-> 0]
    BY <1>0 DEF FitTextInRect
  <2>2. (6 * smallest) \div 5 \in Nat  OBVIOUS
  <2>. QED  BY <2>1, <2>2 DEF TextHeight
<1>1. CASE ~(chars = 0 \/ height < 16 \/ width < 32)
  <2>1. FitTextInRect(chars, width, height, start, smallest, gap) = [font |-> font, lines |-> lines]
    BY <1>1 DEF FitTextInRect
  <2>2. /\ font \in Nat /\ font >= smallest
        /\ \/ font = smallest
           \/ TextHeight(Wrap(chars, font, width), font, gap) <= height
    <3>1. CASE fitting = {}  BY <3>1
    <3>2. CASE fitting # {}
      <4>1. fitting \in SUBSET SizesTried(start, smallest)  OBVIOUS
      <4>2. \A s \in fitting : TextHeight(Wrap(chars, s, width), s, gap) <= height  OBVIOUS
      <4>3. font = Max(fitting)  BY <3>2
      <4>. HIDE DEF fitting, font
      <4>4. Max(fitting) \in fitting /\ Max(fitting) \in Nat /\ smallest <= Max(fitting)
        BY <3>2, <4>1, SizesTriedType
      <4>. QED  BY <4>2, <4>3, <4>4
    <3>. QED  BY <3>1, <3>2
  <2>. HIDE DEF fitting, font
  <2>3. step \in Nat /\ step > 0 /\ step = (6 * font) \div 5 + gap /\ (6 * font) \div 5 \in Nat /\ (6 * font) \div 5 > 0
    BY <2>2 DEF LineHeight
  <2>4. Wrap(chars, font, width) \in Nat /\ Wrap(chars, font, width) >= 1
    <3>1. font > 0 /\ chars > 0 /\ width \in Int  BY <1>1, <2>2
    <3>. QED  BY <2>2, <3>1, WrapType
  <2>5. height \div step \in Int /\ step * (height \div step) <= height  BY <2>3, DivTimes
  <2>6. room(font) = AtLeast(height \div step, 1)  OBVIOUS
  <2>. HIDE DEF step
  <2>7. lines \in Nat /\ lines >= 1 /\ lines <= Wrap(chars, font, width)
    BY <2>4, <2>5, <2>6 DEF AtMost, AtLeast
  <2>8. TextHeight(lines, font, gap) = lines * step - gap
    BY <2>7 DEF TextHeight, step
  <2>9. lines * step - gap >= 0
    <3>1. PICK m \in Nat : lines = m + 1
      <4>1. lines - 1 \in Nat  BY <2>7
      <4>. QED  BY <2>7, <4>1
    <3>2. lines * step = m * step + step /\ m * step \in Nat  BY <2>3, <3>1
    <3>3. step \in Nat /\ gap \in Nat /\ step >= gap  BY <2>3
    <3>. QED  BY <3>2, <3>3
  <2>10. lines * step - gap <= height
    <3>1. CASE lines = 1 /\ font = smallest
      BY <2>3, <3>1
    <3>2. CASE lines <= height \div step
      <4>1. lines * step <= step * (height \div step)
        <5>1. PICK m \in Nat : height \div step = lines + m
          <6>1. (height \div step) - lines \in Nat  BY <2>5, <2>7, <3>2
          <6>. QED  BY <2>5, <2>7, <6>1
        <5>2. step * (height \div step) = lines * step + m * step /\ m * step \in Nat
          BY <2>3, <2>7, <5>1
        <5>. QED  BY <2>3, <2>7, <5>2
      <4>. QED  BY <2>3, <2>5, <2>7, <4>1
    <3>3. CASE lines = 1 /\ font # smallest
      <4>1. TextHeight(Wrap(chars, font, width), font, gap) = Wrap(chars, font, width) * step - gap
        BY <2>4 DEF TextHeight, step
      <4>2. PICK m \in Nat : Wrap(chars, font, width) = m + 1
        <5>1. Wrap(chars, font, width) - 1 \in Nat  BY <2>4
        <5>. QED  BY <2>4, <5>1
      <4>3. Wrap(chars, font, width) * step = m * step + step /\ m * step \in Nat  BY <2>3, <4>2
      <4>4. Wrap(chars, font, width) * step - gap <= height  BY <2>2, <3>3, <4>1
      <4>. QED  BY <2>3, <3>3, <4>3, <4>4
    <3>4. lines = 1 \/ lines <= height \div step  BY <2>4, <2>5, <2>6, <2>7 DEF AtMost, AtLeast
    <3>. QED  BY <3>1, <3>2, <3>3, <3>4
  <2>11. lines * step - gap \in Int  BY <2>3, <2>7
  <2>. QED  BY <2>1, <2>8, <2>9, <2>10, <2>11
<1>. QED  BY <1>0, <1>1

\* Lines are drawn as long as there is room.
LEMMA LinesEndWithin ==
    ASSUME NEW fit, fit.font \in Nat, fit.font > 0, fit.lines \in Nat, NEW gap \in Nat, NEW y \in Int, NEW limit \in Int
    PROVE  LET step == LineHeight(fit.font, gap)
               end == LinesEnd(fit, gap, y, limit)
           IN \E n \in 0..fit.lines :
                /\ end = y + step * n /\ end \in Int
                /\ end <= AtLeast(y, limit)
                /\ n = fit.lines \/ limit < y + step * (n + 1)
<1>. DEFINE step == LineHeight(fit.font, gap)
            room == AtLeast((limit - y) \div step, 0)
            n == AtMost(fit.lines, room)
<1>1. step \in Nat /\ step > 0  BY DEF LineHeight
<1>2. LinesEnd(fit, gap, y, limit) = y + step * n  BY DEF LinesEnd
<1>. HIDE DEF step
<1>3. (limit - y) \div step \in Int /\ step * ((limit - y) \div step) <= limit - y
      /\ limit - y < step * ((limit - y) \div step) + step
  <2>1. limit - y \in Int  OBVIOUS
  <2>. QED  BY <1>1, <2>1, DivTimes
<1>. DEFINE q == (limit - y) \div step
<1>. HIDE DEF q
<1>4. q \in Int /\ step * q <= limit - y /\ limit - y < step * q + step /\ n = AtMost(fit.lines, AtLeast(q, 0))
  BY <1>3 DEF q
<1>. HIDE DEF n
<1>5. n \in 0..fit.lines  BY <1>4 DEF AtMost, AtLeast
<1>6. n = 0 \/ n <= q  BY <1>4 DEF AtMost, AtLeast
<1>7. n = fit.lines \/ q <= n  BY <1>4 DEF AtMost, AtLeast
<1>8. y + step * n <= AtLeast(y, limit)
  <2>1. CASE n = 0
    <3>1. step * n = 0  BY <1>1, <2>1
    <3>. QED  BY <3>1 DEF AtLeast
  <2>2. CASE n <= q
    <3>1. PICK m \in Nat : q = n + m
      <4>1. q - n \in Nat  BY <1>4, <1>5, <2>2
      <4>. QED  BY <1>4, <1>5, <4>1
    <3>2. step * q = step * n + step * m /\ step * m \in Nat /\ step * n \in Int  BY <1>1, <1>5, <3>1
    <3>. QED  BY <1>4, <3>2 DEF AtLeast
  <2>. QED  BY <1>6, <2>1, <2>2
<1>9. n = fit.lines \/ limit < y + step * (n + 1)
  <2>1. CASE q <= n
    <3>1. PICK m \in Nat : n = q + m
      <4>1. n - q \in Nat  BY <1>4, <1>5, <2>1
      <4>. QED  BY <1>4, <1>5, <4>1
    <3>2. step * (n + 1) = step * q + step * m + step /\ step * m \in Nat /\ step * q \in Int
      BY <1>1, <1>4, <3>1
    <3>. QED  BY <1>1, <1>4, <3>2
  <2>. QED  BY <1>7, <2>1
<1>10. y + step * n \in Int  BY <1>1, <1>5
<1>11. \E i \in 0..fit.lines :
         /\ y + step * n = y + step * i /\ y + step * n \in Int
         /\ y + step * n <= AtLeast(y, limit)
         /\ i = fit.lines \/ limit < y + step * (i + 1)
  BY <1>5, <1>8, <1>9, <1>10
<1>. QED  BY <1>2, <1>11 DEF step

----------------------------------------------------------------------------
(* Cards: what lies in order.                                               *)

\* A block and what is in it.
Sound(block) ==
    /\ block.top \in Int /\ block.bottom \in Int /\ block.top <= block.bottom
    /\ \A column \in block.columns : Stacked(column, block.top, block.bottom)

\* A sound block from top to bottom.
Fills(block, top, bottom) == Sound(block) /\ block.top = top /\ block.bottom = bottom

\* Blocks that follow one another between top and bottom.
InOrder(list, top, bottom) ==
    /\ \E S : list \in Seq(S)
    /\ \A k \in 1..Len(list) : Sound(list[k]) /\ top <= list[k].top /\ list[k].bottom <= bottom
    /\ \A k \in 1..Len(list) - 1 : list[k].bottom <= list[k + 1].top

LEMMA NoBlock ==
    ASSUME NEW top \in Int, NEW bottom \in Int
    PROVE  InOrder(<< >>, top, bottom)
<1>1. << >> \in Seq({})  OBVIOUS
<1>. QED  BY <1>1 DEF InOrder

LEMMA OneBlock ==
    ASSUME NEW block, NEW from \in Int, NEW to \in Int, Fills(block, from, to),
           NEW top \in Int, NEW bottom \in Int, top <= from, to <= bottom
    PROVE  InOrder(<<block>>, top, bottom)
<1>1. <<block>> \in Seq({block}) /\ Len(<<block>>) = 1 /\ <<block>>[1] = block  OBVIOUS
<1>2. \A k \in 1..Len(<<block>>) : k = 1  BY <1>1
<1>3. 1..Len(<<block>>) - 1 = {}  BY <1>1
<1>4. \E S : <<block>> \in Seq(S)  BY <1>1
<1>. QED  BY <1>1, <1>2, <1>3, <1>4 DEF InOrder, Fills

LEMMA TwoBlocks ==
    ASSUME NEW first, NEW second, NEW a \in Int, NEW b \in Int, NEW c \in Int, NEW d \in Int,
           Fills(first, a, b), Fills(second, c, d), NEW top \in Int, NEW bottom \in Int,
           top <= a, b <= c, b <= bottom, top <= c, d <= bottom
    PROVE  InOrder(<<first, second>>, top, bottom)
<1>. DEFINE list == <<first, second>>
<1>1. list \in Seq({first, second}) /\ Len(list) = 2 /\ list[1] = first /\ list[2] = second  OBVIOUS
<1>. HIDE DEF list
<1>2. \A k \in 1..Len(list) : k = 1 \/ k = 2  BY <1>1
<1>3. \A k \in 1..Len(list) - 1 : k = 1  BY <1>1
<1>4. \E S : list \in Seq(S)  BY <1>1
<1>5. \A k \in 1..Len(list) : Sound(list[k]) /\ top <= list[k].top /\ list[k].bottom <= bottom
  BY <1>1, <1>2 DEF Fills
<1>6. \A k \in 1..Len(list) - 1 : list[k].bottom <= list[k + 1].top  BY <1>1, <1>3 DEF Fills
<1>7. InOrder(list, top, bottom)  BY <1>4, <1>5, <1>6 DEF InOrder
<1>. QED  BY <1>7 DEF list

LEMMA WiderOrder ==
    ASSUME NEW list, NEW top \in Int, NEW bottom \in Int, InOrder(list, top, bottom),
           NEW above \in Int, NEW below \in Int, above <= top, bottom <= below
    PROVE  InOrder(list, above, below)
BY DEF InOrder, Sound

\* One list of blocks below another.
LEMMA Joined ==
    ASSUME NEW first, NEW second, NEW top \in Int, NEW middle \in Int, NEW bottom \in Int,
           InOrder(first, top, middle), InOrder(second, middle, bottom), top <= middle, middle <= bottom
    PROVE  InOrder(first \o second, top, bottom)
<1>1. PICK S : first \in Seq(S)  BY DEF InOrder
<1>2. PICK T : second \in Seq(T)  BY DEF InOrder
<1>3. first \in Seq(S \cup T) /\ second \in Seq(S \cup T)  BY <1>1, <1>2
<1>. DEFINE list == first \o second
            m == Len(first)
            n == Len(second)
<1>4. /\ list \in Seq(S \cup T) /\ Len(list) = m + n /\ m \in Nat /\ n \in Nat
      /\ \A k \in 1..m : list[k] = first[k]
      /\ \A k \in (m + 1)..(m + n) : list[k] = second[k - m]
  BY <1>3
<1>5. \A k \in 1..m : Sound(first[k]) /\ top <= first[k].top /\ first[k].bottom <= middle
  BY DEF InOrder
<1>6. \A k \in 1..n : Sound(second[k]) /\ middle <= second[k].top /\ second[k].bottom <= bottom
  BY DEF InOrder
<1>7. \A k \in 1..m - 1 : first[k].bottom <= first[k + 1].top  BY DEF InOrder
<1>8. \A k \in 1..n - 1 : second[k].bottom <= second[k + 1].top  BY DEF InOrder
<1>. HIDE DEF list, m, n
<1>9. ASSUME NEW k \in 1..Len(list)
      PROVE  Sound(list[k]) /\ top <= list[k].top /\ list[k].bottom <= bottom
  <2>1. CASE k \in 1..m
    <3>1. list[k] = first[k] /\ Sound(first[k]) /\ top <= first[k].top /\ first[k].bottom <= middle
      BY <1>4, <1>5, <2>1
    <3>2. first[k].bottom \in Int  BY <3>1 DEF Sound
    <3>. QED  BY <3>1, <3>2
  <2>2. CASE k \in (m + 1)..(m + n)
    <3>1. k - m \in 1..n  BY <1>4, <2>2
    <3>2. list[k] = second[k - m] /\ Sound(second[k - m]) /\ middle <= second[k - m].top
          /\ second[k - m].bottom <= bottom
      BY <1>4, <1>6, <2>2, <3>1
    <3>3. second[k - m].top \in Int  BY <3>2 DEF Sound
    <3>. QED  BY <3>2, <3>3
  <2>. QED  BY <1>4, <2>1, <2>2
<1>10. ASSUME NEW k \in 1..Len(list) - 1 PROVE list[k].bottom <= list[k + 1].top
  <2>1. CASE k \in 1..m - 1
    <3>1. k \in 1..m /\ k + 1 \in 1..m  BY <1>4, <2>1
    <3>. QED  BY <1>4, <1>7, <2>1, <3>1
  <2>2. CASE k = m
    <3>1. k \in 1..m /\ k + 1 \in (m + 1)..(m + n) /\ (k + 1) - m = 1 /\ 1 \in 1..n  BY <1>4, <2>2
    <3>2. list[k] = first[k] /\ list[k + 1] = second[1]  BY <1>4, <3>1
    <3>3. first[k].bottom <= middle /\ first[k].bottom \in Int  BY <1>5, <3>1 DEF Sound
    <3>4. middle <= second[1].top /\ second[1].top \in Int  BY <1>6, <3>1 DEF Sound
    <3>. QED  BY <3>2, <3>3, <3>4
  <2>3. CASE k \in (m + 1)..(m + n - 1)
    <3>1. k \in (m + 1)..(m + n) /\ k + 1 \in (m + 1)..(m + n) /\ k - m \in 1..n - 1 /\ (k + 1) - m = (k - m) + 1
      BY <1>4, <2>3
    <3>2. list[k] = second[k - m] /\ list[k + 1] = second[(k - m) + 1]  BY <1>4, <3>1
    <3>. QED  BY <1>8, <3>1, <3>2
  <2>4. k \in 1..m - 1 \/ k = m \/ k \in (m + 1)..(m + n - 1)  BY <1>4
  <2>. QED  BY <2>1, <2>2, <2>3, <2>4
<1>11. \E R : list \in Seq(R)  BY <1>4
<1>12. InOrder(list, top, bottom)  BY <1>9, <1>10, <1>11 DEF InOrder
<1>. QED  BY <1>12 DEF list

\* The same, but for blocks that may come over the one before them.
InOrderBut(list, free, top, bottom) ==
    /\ \E S : list \in Seq(S)
    /\ \A k \in 1..Len(list) : Sound(list[k]) /\ top <= list[k].top /\ list[k].bottom <= bottom
    /\ \A k \in 1..Len(list) - 1 : k + 1 \notin free => list[k].bottom <= list[k + 1].top

LEMMA OrderedBut ==
    ASSUME NEW list, NEW free, NEW top, NEW bottom, InOrder(list, top, bottom)
    PROVE  InOrderBut(list, free, top, bottom)
BY DEF InOrder, InOrderBut

\* One list of blocks over the last of another.
LEMMA JoinedOver ==
    ASSUME NEW first, NEW second, NEW top \in Int, NEW bottom \in Int,
           InOrder(first, top, bottom), InOrder(second, top, bottom)
    PROVE  InOrderBut(first \o second, {Len(first) + 1}, top, bottom)
<1>1. PICK S : first \in Seq(S)  BY DEF InOrder
<1>2. PICK T : second \in Seq(T)  BY DEF InOrder
<1>3. first \in Seq(S \cup T) /\ second \in Seq(S \cup T)  BY <1>1, <1>2
<1>. DEFINE list == first \o second
            m == Len(first)
            n == Len(second)
<1>4. /\ list \in Seq(S \cup T) /\ Len(list) = m + n /\ m \in Nat /\ n \in Nat
      /\ \A k \in 1..m : list[k] = first[k]
      /\ \A k \in (m + 1)..(m + n) : list[k] = second[k - m]
  BY <1>3
<1>5. \A k \in 1..m : Sound(first[k]) /\ top <= first[k].top /\ first[k].bottom <= bottom
  BY DEF InOrder
<1>6. \A k \in 1..n : Sound(second[k]) /\ top <= second[k].top /\ second[k].bottom <= bottom
  BY DEF InOrder
<1>7. \A k \in 1..m - 1 : first[k].bottom <= first[k + 1].top  BY DEF InOrder
<1>8. \A k \in 1..n - 1 : second[k].bottom <= second[k + 1].top  BY DEF InOrder
<1>. HIDE DEF list, m, n
<1>9. ASSUME NEW k \in 1..Len(list)
      PROVE  Sound(list[k]) /\ top <= list[k].top /\ list[k].bottom <= bottom
  <2>1. CASE k \in 1..m  BY <1>4, <1>5, <2>1
  <2>2. CASE k \in (m + 1)..(m + n)
    <3>1. k - m \in 1..n  BY <1>4, <2>2
    <3>. QED  BY <1>4, <1>6, <2>2, <3>1
  <2>. QED  BY <1>4, <2>1, <2>2
<1>10. ASSUME NEW k \in 1..Len(list) - 1, k + 1 \notin {m + 1} PROVE list[k].bottom <= list[k + 1].top
  <2>1. CASE k \in 1..m - 1
    <3>1. k \in 1..m /\ k + 1 \in 1..m  BY <1>4, <2>1
    <3>. QED  BY <1>4, <1>7, <2>1, <3>1
  <2>2. CASE k \in (m + 1)..(m + n - 1)
    <3>1. k \in (m + 1)..(m + n) /\ k + 1 \in (m + 1)..(m + n) /\ k - m \in 1..n - 1 /\ (k + 1) - m = (k - m) + 1
      BY <1>4, <2>2
    <3>2. list[k] = second[k - m] /\ list[k + 1] = second[(k - m) + 1]  BY <1>4, <3>1
    <3>. QED  BY <1>8, <3>1, <3>2
  <2>3. k \in 1..m - 1 \/ k \in (m + 1)..(m + n - 1)  BY <1>4, <1>10
  <2>. QED  BY <2>1, <2>2, <2>3
<1>11. \E R : list \in Seq(R)  BY <1>4
<1>12. InOrderBut(list, {m + 1}, top, bottom)  BY <1>9, <1>10, <1>11 DEF InOrderBut
<1>. QED  BY <1>12 DEF list, m

\* Columns of one, two or three parts.
LEMMA OnePart ==
    ASSUME NEW a \in Int, NEW b \in Int, NEW top \in Int, NEW bottom \in Int, top <= a, a <= b, b <= bottom
    PROVE  Stacked(<< <<a, b>> >>, top, bottom)
BY DEF Stacked

LEMMA TwoParts ==
    ASSUME NEW a \in Int, NEW b \in Int, NEW c \in Int, NEW d \in Int, NEW top \in Int, NEW bottom \in Int,
           top <= a, a <= b, b <= c, c <= d, d <= bottom
    PROVE  Stacked(<< <<a, b>>, <<c, d>> >>, top, bottom)
BY DEF Stacked

LEMMA ThreeParts ==
    ASSUME NEW a \in Int, NEW b \in Int, NEW c \in Int, NEW d \in Int, NEW e \in Int, NEW f \in Int,
           NEW top \in Int, NEW bottom \in Int, top <= a, a <= b, b <= c, c <= d, d <= e, e <= f, f <= bottom
    PROVE  Stacked(<< <<a, b>>, <<c, d>>, <<e, f>> >>, top, bottom)
BY DEF Stacked

----------------------------------------------------------------------------
(* Policy cards: titles.                                                    *)

LEMMA FillScaleWithin ==
    ASSUME NEW used \in Nat, used > 0, NEW available \in Int, NEW least \in Nat, NEW most \in Nat, least <= most
    PROVE  /\ FillScale(used, available, least, most) \in Nat
           /\ least <= FillScale(used, available, least, most)
           /\ FillScale(used, available, least, most) <= most
           /\ 100 * used < 78 * available => FillScale(used, available, least, most) = most
<1>1. (98 * available) \div used \in Int
  <2>1. 98 * available \in Int  OBVIOUS
  <2>. QED  BY <2>1, DivTimes
<1>. DEFINE q == (98 * available) \div used
<1>2. q \in Int  BY <1>1
<1>3. FillScale(used, available, least, most) =
        CASE available <= 0 -> least
          [] available > 0 /\ 100 * used < 78 * available -> most
          [] available > 0 /\ 100 * used >= 96 * available -> least
          [] OTHER -> AtLeast(AtMost(q, most), least)
  BY DEF FillScale
<1>. HIDE DEF q
<1>4. AtLeast(AtMost(q, most), least) \in least..most  BY <1>2 DEF AtLeast, AtMost
<1>. QED  BY <1>3, <1>4

LEMMA ScaledSizeWithin ==
    ASSUME NEW base \in Nat, NEW scale \in Nat, NEW least \in Nat, NEW most \in Nat, least <= most
    PROVE  /\ ScaledSize(base, scale, least, most) \in Nat
           /\ least <= ScaledSize(base, scale, least, most)
           /\ ScaledSize(base, scale, least, most) <= most
           /\ ScaledSize(base, scale, least, most) <= AtLeast((base * 108 * scale) \div 10000, least)
<1>. DEFINE a == base * 108 * scale
<1>1. a \in Nat  OBVIOUS
<1>2. ScaledSize(base, scale, least, most) = AtLeast(AtMost(a \div 10000, most), least)  BY DEF ScaledSize
<1>. HIDE DEF a
<1>3. a \div 10000 \in Int  BY <1>1
<1>. QED  BY <1>2, <1>3 DEF AtLeast, AtMost, a

\* A title of one or two lines.
LEMMA TwoLines ==
    ASSUME NEW y \in Int, NEW chars \in Nat, NEW width \in Nat, NEW start \in Nat, NEW smallest \in Nat, smallest > 0,
           NEW gap \in Nat, NEW limit \in Int
    PROVE  LET fit == FitFontLines(chars, width, start, smallest, 2)
               step == LineHeight(fit.font, gap)
               end == LinesEnd(fit, gap, y, limit)
           IN /\ fit.font \in Nat /\ smallest <= fit.font /\ fit.font <= AtLeast(start, smallest)
              /\ end \in Int /\ y <= end /\ end <= AtLeast(y, limit) /\ end <= y + 2 * step
              /\ Wrap(chars, fit.font, width) <= 1 => end <= y + step
              /\ chars > 0 /\ y + 2 * step <= limit => y + step <= end
<1>. DEFINE fit == FitFontLines(chars, width, start, smallest, 2)
            step == LineHeight(fit.font, gap)
            end == LinesEnd(fit, gap, y, limit)
<1>1. /\ fit.font \in Nat /\ fit.font >= smallest /\ fit.font <= AtLeast(start, smallest)
      /\ fit.lines \in 0..2 /\ fit.lines <= Wrap(chars, fit.font, width)
      /\ chars > 0 => fit.lines >= 1
  <2>1. 2 \in Nat /\ 2 > 0  OBVIOUS
  <2>. QED  BY <2>1, FittedLines
<1>. HIDE DEF fit
<1>2. fit.font \in Nat /\ fit.font > 0 /\ fit.lines \in Nat  BY <1>1
<1>3. PICK n \in 0..fit.lines :
        /\ end = y + step * n /\ end \in Int /\ end <= AtLeast(y, limit)
        /\ n = fit.lines \/ limit < y + step * (n + 1)
  BY <1>2, LinesEndWithin
<1>4. step \in Nat  BY <1>2 DEF LineHeight
<1>5. Wrap(chars, fit.font, width) \in Nat
  <2>1. width \in Int  OBVIOUS
  <2>. QED  BY <1>2, <2>1, WrapType
<1>. HIDE DEF step, end
<1>6. n = 0 \/ n = 1 \/ n = 2  BY <1>1
<1>7. end = y \/ end = y + step \/ end = y + 2 * step  BY <1>3, <1>4, <1>6
<1>8. Wrap(chars, fit.font, width) <= 1 => n <= 1  BY <1>1, <1>5, <1>6
<1>9. chars > 0 /\ y + 2 * step <= limit => n >= 1
  <2>1. CASE n = 0
    <3>1. step * (n + 1) = step  BY <1>4, <2>1
    <3>. QED  BY <1>1, <1>3, <1>4, <2>1, <3>1
  <2>. QED  BY <1>6, <2>1
<1>10. Wrap(chars, fit.font, width) <= 1 => end <= y + step  BY <1>3, <1>4, <1>6, <1>8
<1>11. chars > 0 /\ y + 2 * step <= limit => y + step <= end  BY <1>3, <1>4, <1>6, <1>9
<1>12. y <= end /\ end <= y + 2 * step  BY <1>4, <1>7
<1>. QED  BY <1>1, <1>3, <1>10, <1>11, <1>12 DEF fit, step, end

LEMMA EyebrowWithin ==
    ASSUME NEW eyebrow \in Nat, NEW limit \in Int
    PROVE  LET end == EyebrowEnd(eyebrow, limit)
           IN /\ end \in Int /\ 88 <= end /\ end <= 270 /\ end <= AtLeast(100, limit - 12)
              /\ eyebrow <= 14 => end <= 185
              /\ eyebrow > 0 /\ limit >= 830 => end >= 140
<1>1. CASE eyebrow = 0  BY <1>1 DEF EyebrowEnd, Top, GapBlock, AtLeast
<1>2. CASE eyebrow > 0
  <2>. DEFINE scale == FillScale(36, limit - 72, 108, 178)
              start == ScaledSize(32, scale, 18, 112)
              edge == limit - 24
              fit == FitFontLines(eyebrow, 912, start, 24, 2)
              step == LineHeight(fit.font, 12)
              end == LinesEnd(fit, 12, 88, edge)
  <2>1. EyebrowEnd(eyebrow, limit) = end + 12
    BY <1>2 DEF EyebrowEnd, TitleEnd, Top, Width, GapBlock, GapMedium
  <2>2. start \in Nat /\ start <= 61
    <3>1. scale \in Nat /\ scale <= 178
      <4>1. limit - 72 \in Int /\ 36 \in Nat /\ 36 > 0 /\ 108 \in Nat /\ 178 \in Nat /\ 108 <= 178  OBVIOUS
      <4>. QED  BY <4>1, FillScaleWithin
    <3>. HIDE DEF scale
    <3>. QED  BY <3>1 DEF ScaledSize, AtLeast, AtMost
  <2>. HIDE DEF start
  <2>4. /\ fit.font \in Nat /\ 24 <= fit.font /\ fit.font <= AtLeast(start, 24)
        /\ end \in Int /\ 88 <= end /\ end <= AtLeast(88, edge) /\ end <= 88 + 2 * step
        /\ Wrap(eyebrow, fit.font, 912) <= 1 => end <= 88 + step
        /\ eyebrow > 0 /\ 88 + 2 * step <= edge => 88 + step <= end
    <3>. DEFINE width == 912
                smallest == 24
                gap == 12
                y == 88
    <3>1. edge \in Int /\ y \in Int /\ width \in Nat /\ smallest \in Nat /\ smallest > 0 /\ gap \in Nat  OBVIOUS
    <3>. HIDE DEF width, smallest, gap, y, edge
    <3>2. LET f == FitFontLines(eyebrow, width, start, smallest, 2)
              d == LineHeight(f.font, gap)
              e == LinesEnd(f, gap, y, edge)
          IN /\ f.font \in Nat /\ smallest <= f.font /\ f.font <= AtLeast(start, smallest)
             /\ e \in Int /\ y <= e /\ e <= AtLeast(y, edge) /\ e <= y + 2 * d
             /\ Wrap(eyebrow, f.font, width) <= 1 => e <= y + d
             /\ eyebrow > 0 /\ y + 2 * d <= edge => y + d <= e
      BY <2>2, <3>1, TwoLines
    <3>. QED  BY <3>2 DEF width, smallest, gap, y
  <2>. HIDE DEF fit, end, edge
  <2>5. fit.font <= 61  BY <2>2, <2>4 DEF AtLeast
  <2>6. step \in Nat /\ 40 <= step /\ step <= 85  BY <2>4, <2>5 DEF LineHeight
  <2>7. ASSUME eyebrow <= 14 PROVE Wrap(eyebrow, fit.font, 912) <= 1
    <3>1. fit.font * 14 <= 912 /\ eyebrow <= 14 * 1 /\ fit.font \in Nat /\ fit.font > 0  BY <2>4, <2>5, <2>7
    <3>. QED  BY <3>1, WrapAtMost
  <2>. HIDE DEF step
  <2>8. end + 12 \in Int /\ 88 <= end + 12 /\ end + 12 <= 270  BY <2>4, <2>6
  <2>9. end + 12 <= AtLeast(100, limit - 12)  BY <2>4 DEF edge, AtLeast
  <2>10. eyebrow <= 14 => end + 12 <= 185  BY <2>4, <2>6, <2>7
  <2>11. limit >= 830 => end + 12 >= 140  BY <1>2, <2>4, <2>6 DEF edge
  <2>. QED  BY <2>1, <2>8, <2>9, <2>10, <2>11
<1>. QED  BY <1>1, <1>2

LEMMA HeadlineWithin ==
    ASSUME NEW headline \in Nat, NEW y \in Int, NEW limit \in Int
    PROVE  LET end == HeadlineEnd(y, headline, limit)
           IN /\ end \in Int /\ y <= end /\ end <= y + 268 /\ end <= AtLeast(y, limit - 24)
              /\ headline <= 8 => end <= y + 134
<1>1. CASE headline = 0  BY <1>1 DEF HeadlineEnd, AtLeast
<1>2. CASE headline > 0
  <2>. DEFINE scale == FillScale(72, limit - 72, 108, 178)
              start == ScaledSize(52, scale, 18, 112)
              edge == limit - 24
              fit == FitFontLines(headline, 920, start, 36, 2)
              step == LineHeight(fit.font, 16)
              end == LinesEnd(fit, 16, y, edge)
  <2>1. HeadlineEnd(y, headline, limit) = end
    BY <1>2 DEF HeadlineEnd, TitleEnd, Top, Width, GapBlock, GapLarge
  <2>2. start \in Nat /\ start <= 99
    <3>1. scale \in Nat /\ scale <= 178
      <4>1. limit - 72 \in Int /\ 72 \in Nat /\ 72 > 0 /\ 108 \in Nat /\ 178 \in Nat /\ 108 <= 178  OBVIOUS
      <4>. QED  BY <4>1, FillScaleWithin
    <3>. HIDE DEF scale
    <3>. QED  BY <3>1 DEF ScaledSize, AtLeast, AtMost
  <2>. HIDE DEF start
  <2>4. /\ fit.font \in Nat /\ 36 <= fit.font /\ fit.font <= AtLeast(start, 36)
        /\ end \in Int /\ y <= end /\ end <= AtLeast(y, edge) /\ end <= y + 2 * step
        /\ Wrap(headline, fit.font, 920) <= 1 => end <= y + step
    <3>. DEFINE width == 920
                smallest == 36
                gap == 16
    <3>1. edge \in Int /\ y \in Int /\ width \in Nat /\ smallest \in Nat /\ smallest > 0 /\ gap \in Nat  OBVIOUS
    <3>. HIDE DEF width, smallest, gap, edge
    <3>2. LET f == FitFontLines(headline, width, start, smallest, 2)
              d == LineHeight(f.font, gap)
              e == LinesEnd(f, gap, y, edge)
          IN /\ f.font \in Nat /\ smallest <= f.font /\ f.font <= AtLeast(start, smallest)
             /\ e \in Int /\ y <= e /\ e <= AtLeast(y, edge) /\ e <= y + 2 * d
             /\ Wrap(headline, f.font, width) <= 1 => e <= y + d
      BY <2>2, <3>1, TwoLines
    <3>. QED  BY <3>2 DEF width, smallest, gap
  <2>. HIDE DEF fit, end, edge
  <2>5. fit.font <= 99  BY <2>2, <2>4 DEF AtLeast
  <2>6. step \in Nat /\ step <= 134  BY <2>4, <2>5 DEF LineHeight
  <2>7. ASSUME headline <= 8 PROVE Wrap(headline, fit.font, 920) <= 1
    <3>1. fit.font * 8 <= 920 /\ headline <= 8 * 1 /\ fit.font \in Nat /\ fit.font > 0  BY <2>4, <2>5, <2>7
    <3>. QED  BY <3>1, WrapAtMost
  <2>. HIDE DEF step
  <2>8. end <= y + 268  BY <2>4, <2>6
  <2>9. end <= AtLeast(y, limit - 24)  BY <2>4 DEF edge
  <2>10. headline <= 8 => end <= y + 134  BY <2>4, <2>6, <2>7
  <2>. QED  BY <2>1, <2>4, <2>8, <2>9, <2>10
<1>. QED  BY <1>1, <1>2

\* The header of a card whose body is not near.
LEMMA HeaderWithin ==
    ASSUME NEW eyebrow \in Nat, NEW headline \in Nat, NEW limit \in Int, limit >= 830
    PROVE  LET header == Header(eyebrow, headline, limit)
           IN /\ header.end \in Int /\ header.next \in Int
              /\ 88 <= header.end /\ header.end <= 538 /\ header.next = header.end + 22
              /\ eyebrow <= 14 => header.end <= 453
              /\ eyebrow <= 14 /\ headline <= 8 => header.end <= 319
              /\ eyebrow > 0 => header.next >= 162
<1>. DEFINE y == EyebrowEnd(eyebrow, limit)
            end == HeadlineEnd(y, headline, limit)
<1>1. /\ y \in Int /\ 88 <= y /\ y <= 270
      /\ eyebrow <= 14 => y <= 185
      /\ eyebrow > 0 => y >= 140
  BY EyebrowWithin
<1>2. Header(eyebrow, headline, limit) = [end |-> end, next |-> AtMost(end + 22, limit)]
  BY DEF Header, HeaderTo, GapSection
<1>. HIDE DEF y
<1>3. /\ end \in Int /\ y <= end /\ end <= y + 268
      /\ headline <= 8 => end <= y + 134
  BY <1>1, HeadlineWithin
<1>. HIDE DEF end
<1>. QED  BY <1>1, <1>2, <1>3 DEF AtMost

\* And of one that must end above the limit.
LEMMA HeaderAbove ==
    ASSUME NEW eyebrow \in Nat, NEW headline \in Nat, NEW limit \in Int, limit >= 124
    PROVE  LET header == Header(eyebrow, headline, limit)
           IN /\ header.end \in Int /\ header.next \in Int
              /\ 88 <= header.end /\ header.end <= header.next /\ header.next <= limit
<1>. DEFINE y == EyebrowEnd(eyebrow, limit)
            end == HeadlineEnd(y, headline, limit)
<1>1. y \in Int /\ 88 <= y /\ y <= AtLeast(100, limit - 12)
  BY EyebrowWithin
<1>2. Header(eyebrow, headline, limit) = [end |-> end, next |-> AtMost(end + 22, limit)]
  BY DEF Header, HeaderTo, GapSection
<1>. HIDE DEF y
<1>3. end \in Int /\ y <= end /\ end <= AtLeast(y, limit - 24)
  BY <1>1, HeadlineWithin
<1>. HIDE DEF end
<1>. QED  BY <1>1, <1>2, <1>3 DEF AtMost, AtLeast

LEMMA HeaderFills ==
    ASSUME NEW header, header.end \in Int, 88 <= header.end
    PROVE  Fills(HeaderBlock(header), 72, header.end)
  BY DEF Fills, Sound, HeaderBlock, Block, Worded, AtLeast, Top

----------------------------------------------------------------------------
(* Policy cards: the mascot.                                                *)

LEMMA BubbleLinesWithin ==
    ASSUME NEW speech \in Nat, NEW font \in Nat, font > 0
    PROVE  /\ BubbleLines(speech, font) \in 0..2
           /\ speech > 0 => BubbleLines(speech, font) >= 1
<1>. DEFINE chars == AtMost(speech, 12)
            width == 388
            lines == Wrap(chars, font, width)
<1>1. chars \in Nat /\ (speech > 0 => chars > 0) /\ width \in Int  BY DEF AtMost
<1>2. BubbleLines(speech, font) = AtMost(lines, 2)  BY DEF BubbleLines
<1>. HIDE DEF chars, width
<1>3. lines \in Nat /\ (chars > 0 => lines >= 1)  BY <1>1, WrapType
<1>. HIDE DEF lines
<1>. QED  BY <1>1, <1>2, <1>3 DEF AtMost

\* PlaceMascot keeps bubble and mascot apart where the zone is high enough for both.
LEMMA PlacedMascot ==
    ASSUME NEW lines \in 0..2, NEW font \in 22..44, NEW top \in Int, NEW bottom \in Int,
           NEW zone \in Int, zone = bottom - top, zone >= 458, NEW icon \in Nat, 100 * icon <= 58 * zone
    PROVE  Fills(MascotAt(PlaceMascot(lines, font, icon, zone), top, bottom), top, bottom)
<1>. DEFINE step == (128 * font) \div 100
            my == zone - icon - 16
            high == IF lines = 0 THEN 0 ELSE 44 + step * lines
            by == AtLeast(my - 18 - high, 16)
            made == PlaceMascot(lines, font, icon, zone)
            mascot == <<top + my, top + (my + icon)>>
            bubble == <<top + by, top + (my - 18)>>
            words == <<top + (by + 22), top + (by + 22 + step * lines)>>
            columns == IF lines = 0 THEN {<<mascot>>} ELSE {<<bubble, mascot>>, <<words, mascot>>}
<1>2. step \in Nat /\ 28 <= step /\ step <= 56  OBVIOUS
<1>3. made = [mascot |-> <<my, my + icon>>, lines |-> lines, bubble |-> <<by, my - 18>>,
              words |-> <<by + 22, by + 22 + step * lines>>]
  BY DEF PlaceMascot, BubbleHeight, GapBlock
<1>4. MascotAt(made, top, bottom) = [top |-> top, bottom |-> bottom, columns |-> columns, words |-> {}]
  <2>1. made.mascot[1] = my /\ made.mascot[2] = my + icon /\ made.lines = lines  BY <1>3
  <2>2. made.bubble[1] = by /\ made.bubble[2] = my - 18  BY <1>3
  <2>3. made.words[1] = by + 22 /\ made.words[2] = by + 22 + step * lines  BY <1>3
  <2>. HIDE DEF made, by, my, step
  <2>. QED  BY <2>1, <2>2, <2>3 DEF MascotAt, Block, Worded
<1>. HIDE DEF step, made
<1>5. my \in Int /\ my >= 176 /\ my + icon <= zone  OBVIOUS
<1>6. high \in Nat /\ step * lines \in Nat /\ step * lines <= 112 /\ (lines > 0 => high = 44 + step * lines)
  <2>1. lines = 0 \/ lines = 1 \/ lines = 2  OBVIOUS
  <2>. QED  BY <1>2, <2>1
<1>. HIDE DEF my, high
<1>7. by \in Int /\ 16 <= by /\ by <= my - 18  BY <1>5, <1>6 DEF AtLeast
<1>8. lines > 0 => by + 22 + step * lines <= my  BY <1>5, <1>6 DEF AtLeast
<1>. HIDE DEF by
<1>9. top <= top + my /\ top + my <= top + (my + icon) /\ top + (my + icon) <= bottom
      /\ top + my \in Int /\ top + (my + icon) \in Int
  BY <1>5
<1>10. top <= top + by /\ top + by <= top + (my - 18) /\ top + (my - 18) <= top + my
       /\ top + by \in Int /\ top + (my - 18) \in Int
  BY <1>5, <1>7
<1>11. lines > 0 => /\ top <= top + (by + 22) /\ top + (by + 22) <= top + (by + 22 + step * lines)
                    /\ top + (by + 22 + step * lines) <= top + my
                    /\ top + (by + 22) \in Int /\ top + (by + 22 + step * lines) \in Int
  BY <1>5, <1>6, <1>7, <1>8
<1>12. Stacked(<<mascot>>, top, bottom)  BY <1>9, OnePart
<1>13. Stacked(<<bubble, mascot>>, top, bottom)  BY <1>9, <1>10, TwoParts
<1>14. lines > 0 => Stacked(<<words, mascot>>, top, bottom)  BY <1>9, <1>11, TwoParts
<1>. HIDE DEF mascot, bubble, words
<1>15. \A column \in columns : Stacked(column, top, bottom)  BY <1>12, <1>13, <1>14
<1>16. top <= bottom  OBVIOUS
<1>. HIDE DEF columns
<1>17. Sound([top |-> top, bottom |-> bottom, columns |-> columns, words |-> {}])  BY <1>15, <1>16 DEF Sound
<1>. QED  BY <1>4, <1>17 DEF made, Fills

\* In a high zone the mascot's lines are of the largest size.
LEMMA MascotFontHigh ==
    ASSUME NEW zone \in Int, zone >= 410
    PROVE  MascotFont(zone) = 44
<1>. DEFINE scale == FillScale(50, zone, 108, 155)
<1>1. scale = 155  BY DEF FillScale
<1>. HIDE DEF scale
<1>2. MascotFont(zone) = AtLeast(AtMost((36 * 108 * scale) \div 10000, 44), 30)
  BY DEF MascotFont, ScaledSize, scale
<1>3. (36 * 108 * scale) \div 10000 = 60  BY <1>1
<1>. QED  BY <1>2, <1>3 DEF AtLeast, AtMost

LEMMA CentredSound ==
    ASSUME NEW speech \in Nat, NEW top \in Int, NEW bottom \in Int, bottom - top >= 458
    PROVE  Fills(CentredBlock(speech, top, bottom), top, bottom)
<1>. DEFINE zone == bottom - top
            lines == BubbleLines(speech, 44)
            icon == AtMost(AtMost(320, AtLeast(160, (zone * 60) \div 100)), AtLeast(100, (zone * 58) \div 100))
            height == icon + 2 * 16 + (IF lines = 0 THEN 0 ELSE BubbleHeight(lines, 44) + 18)
            shrink == AtLeast(50, (100 * zone) \div height)
            small == AtLeast(22, (44 * shrink) \div 100)
            smaller == AtMost(icon, AtLeast(90, (icon * shrink) \div 100))
<1>1. zone \in Int /\ zone = bottom - top /\ zone >= 458  OBVIOUS
<1>2. CentredBlock(speech, top, bottom) = MascotAt(FitMascot(speech, lines, 44, icon, zone), top, bottom)
  <2>1. MascotFont(zone) = 44  BY <1>1, MascotFontHigh
  <2>. HIDE DEF zone
  <2>2. CentredMascot(speech, zone) = FitMascot(speech, lines, 44, icon, zone)  BY <2>1 DEF CentredMascot
  <2>. QED  BY <2>2 DEF CentredBlock, zone
<1>3. lines \in 0..2
  <2>. DEFINE font == 44
  <2>1. font \in Nat /\ font > 0  OBVIOUS
  <2>. HIDE DEF font
  <2>2. BubbleLines(speech, font) \in 0..2  BY <2>1, BubbleLinesWithin
  <2>. QED  BY <2>2 DEF font
<1>4. icon \in Nat /\ icon >= 100 /\ 100 * icon <= 58 * zone
  <2>. HIDE DEF zone
  <2>. QED  BY <1>1 DEF AtLeast, AtMost
<1>5. FitMascot(speech, lines, 44, icon, zone) =
        IF height > zone THEN PlaceMascot(BubbleLines(speech, small), small, smaller, zone)
        ELSE PlaceMascot(lines, 44, icon, zone)
  BY DEF FitMascot, ShrinkMascot, GapBlock
<1>. HIDE DEF zone, lines, icon, height
<1>6. CASE height > zone
  <2>1. height \in Int /\ height > 0
    <3>1. BubbleHeight(lines, 44) \in Int  BY <1>3 DEF BubbleHeight
    <3>. QED  BY <1>1, <1>3, <1>4, <1>6, <3>1 DEF height
  <2>2. shrink \in Int /\ 50 <= shrink /\ shrink <= 100
    <3>1. 100 * zone \in Int /\ 100 * zone < height * (100 + 1)  BY <1>1, <1>6, <2>1
    <3>2. (100 * zone) \div height \in Int  BY <2>1, <3>1, DivTimes
    <3>. DEFINE a == 100 * zone
                k == 100
    <3>3. a \in Int /\ k \in Int /\ a < height * (k + 1)  BY <3>1
    <3>. HIDE DEF a, k
    <3>4. a \div height <= k  BY <2>1, <3>3, DivAtMost
    <3>. QED  BY <3>2, <3>4 DEF a, k, AtLeast
  <2>. HIDE DEF shrink
  <2>3. small \in 22..44  BY <2>2 DEF AtLeast
  <2>4. smaller \in Nat /\ 100 * smaller <= 58 * zone
    <3>1. icon * shrink \in Nat
      BY <1>4, <2>2
    <3>2. AtLeast(90, (icon * shrink) \div 100) \in Nat  BY <3>1 DEF AtLeast
    <3>3. smaller \in Nat /\ smaller <= icon  BY <1>4, <3>2 DEF AtMost
    <3>. HIDE DEF smaller
    <3>. QED  BY <1>1, <1>4, <3>3
  <2>. HIDE DEF small, smaller
  <2>5. BubbleLines(speech, small) \in 0..2
    <3>1. small \in Nat /\ small > 0  BY <2>3
    <3>. QED  BY <3>1, BubbleLinesWithin
  <2>. DEFINE less == BubbleLines(speech, small)
  <2>6. less \in 0..2 /\ FitMascot(speech, lines, 44, icon, zone) = PlaceMascot(less, small, smaller, zone)
    BY <1>5, <1>6, <2>5
  <2>. HIDE DEF less
  <2>7. Fills(MascotAt(PlaceMascot(less, small, smaller, zone), top, bottom), top, bottom)
    BY <1>1, <2>3, <2>4, <2>6, PlacedMascot
  <2>. QED  BY <1>2, <2>6, <2>7
<1>7. CASE ~(height > zone)
  <2>. DEFINE font == 44
  <2>1. font \in 22..44  OBVIOUS
  <2>. HIDE DEF font
  <2>2. Fills(MascotAt(PlaceMascot(lines, font, icon, zone), top, bottom), top, bottom)
    BY <1>1, <1>3, <1>4, <2>1, PlacedMascot
  <2>. QED  BY <1>2, <1>5, <1>7, <2>2 DEF font
<1>. QED  BY <1>6, <1>7

\* The zone that the last card's mascot is given.
LEMMA CtaMascotZoneWithin ==
    ASSUME NEW speech \in Nat, speech > 0
    PROVE  CtaMascotZone(speech) \in {470, 526}
<1>. DEFINE lines == BubbleLines(speech, 44)
<1>1. lines \in {1, 2}
  <2>. DEFINE font == 44
  <2>1. font \in Nat /\ font > 0  OBVIOUS
  <2>. HIDE DEF font
  <2>2. BubbleLines(speech, font) \in 0..2 /\ BubbleLines(speech, font) >= 1  BY <2>1, BubbleLinesWithin
  <2>. QED  BY <2>2 DEF font
<1>2. MascotFont(560) = 44
  <2>. DEFINE zone == 560
  <2>1. zone \in Int /\ zone >= 410  OBVIOUS
  <2>. HIDE DEF zone
  <2>2. MascotFont(zone) = 44  BY <2>1, MascotFontHigh
  <2>. QED  BY <2>2 DEF zone
<1>3. CentredMascot(speech, 560) = FitMascot(speech, lines, 44, 320, 560)
  BY <1>2 DEF CentredMascot, AtLeast, AtMost
<1>. HIDE DEF lines
<1>4. FitMascot(speech, lines, 44, 320, 560) = PlaceMascot(lines, 44, 320, 560)
  BY <1>1 DEF FitMascot, BubbleHeight, GapBlock
<1>5. /\ PlaceMascot(lines, 44, 320, 560).lines = lines
      /\ PlaceMascot(lines, 44, 320, 560).bubble[1] = IF lines = 1 THEN 106 ELSE 50
  BY <1>1 DEF PlaceMascot, BubbleHeight, GapBlock, AtLeast
<1>. DEFINE made == CentredMascot(speech, 560)
<1>6. made.lines = lines /\ made.bubble[1] = IF lines = 1 THEN 106 ELSE 50  BY <1>3, <1>4, <1>5
<1>7. CtaMascotZone(speech) = AtLeast(300, AtMost(560 - (IF made.lines = 0 THEN made.mascot[1] ELSE made.bubble[1]) + 16, 1188))
  BY DEF CtaMascotZone, LowerEdge, Bottom, Top, GapBlock, AtLeast, AtMost
<1>. HIDE DEF made
<1>. QED  BY <1>1, <1>6, <1>7 DEF AtLeast, AtMost

----------------------------------------------------------------------------
(* Policy cards: rows, columns and tiles.                                   *)

LEMMA BoundsFor ==
    ASSUME NEW hasMascot \in BOOLEAN
    PROVE  LET bounds == Bounds(hasMascot)
           IN /\ hasMascot => bounds.body = 830 /\ bounds.mascot = 850
              /\ ~hasMascot => bounds.body = 1260 /\ bounds.mascot = 1260
<1>1. hasMascot \/ ~hasMascot  OBVIOUS
<1>. QED  BY <1>1 DEF Bounds, AtLeast, Top, Bottom, LowerEdge

LEMMA NarratorMade ==
    ASSUME NEW lines, NEW line, NEW icon, NEW top, NEW bottom, NEW bubble, NEW by, NEW my,
           AtMost(56 + line * lines, bottom - top - 24) = bubble,
           AtLeast(AtMost(top + AtLeast((bottom - top - bubble) \div 2, 0), bottom - 8 - bubble), top + 8) = by,
           top + AtLeast((bottom - top - icon) \div 2, 0) = my
    PROVE  NarratorOf(lines, line, icon, top, bottom) =
             [top |-> top, bottom |-> bottom,
              columns |-> {<< <<my, my + icon>> >>}
                 \cup IF lines = 0 THEN {}
                      ELSE {<< <<by, by + bubble>> >>, << <<by + 28, by + 28 + line * lines>> >>},
              words |-> {}]
  BY Zenon DEF NarratorOf, Block, Worded

\* The mascot with its bubble at its side, below the body.
LEMMA NarratorFills ==
    ASSUME NEW speech \in Nat
    PROVE  Fills(Narrator(speech, 850, 1260), 850, 1260)
<1>. DEFINE lines == AtMost(Wrap(speech, 44, 504), 3)
<1>1. lines \in 0..3
  <2>. DEFINE font == 44
              width == 504
  <2>1. font \in Nat /\ font > 0 /\ width \in Int  OBVIOUS
  <2>. HIDE DEF font, width
  <2>2. Wrap(speech, font, width) \in Nat  BY <2>1, WrapType
  <2>3. AtMost(Wrap(speech, font, width), 3) \in 0..3  BY <2>2 DEF AtMost
  <2>. QED  BY <2>3 DEF font, width
<1>2. MascotFont(410) = 44
  <2>. DEFINE zone == 410
  <2>1. zone \in Int /\ zone >= 410  OBVIOUS
  <2>. HIDE DEF zone
  <2>2. MascotFont(zone) = 44  BY <2>1, MascotFontHigh
  <2>. QED  BY <2>2 DEF zone
<1>3. Narrator(speech, 850, 1260) = NarratorBy(speech, 225, 44, 850, 1260)
  BY <1>2 DEF Narrator, AtLeast, AtMost
<1>4. NarratorBy(speech, 225, 44, 850, 1260) = NarratorOf(lines, 58, 225, 850, 1260)
  BY DEF NarratorBy, AtLeast, Width
<1>. HIDE DEF lines
<1>. DEFINE bubble == 56 + 58 * lines
            by == 850 + AtLeast((410 - bubble) \div 2, 0)
            mascot == << <<942, 1167>> >>
            speaking == << <<by, by + bubble>> >>
            words == << <<by + 28, by + 28 + 58 * lines>> >>
            columns == {mascot} \cup IF lines = 0 THEN {} ELSE {speaking, words}
<1>5. bubble \in 56..230 /\ by \in Int /\ by >= 940 /\ by + bubble <= 1252
  BY <1>1 DEF AtLeast
<1>6. NarratorOf(lines, 58, 225, 850, 1260) = [top |-> 850, bottom |-> 1260, columns |-> columns, words |-> {}]
  <2>1. AtMost(56 + 58 * lines, 1260 - 850 - 24) = bubble  BY <1>5 DEF AtMost
  <2>2. AtLeast(AtMost(850 + AtLeast((1260 - 850 - bubble) \div 2, 0), 1260 - 8 - bubble), 850 + 8) = by
    <3>1. 850 + AtLeast((1260 - 850 - bubble) \div 2, 0) = by  OBVIOUS
    <3>. HIDE DEF by
    <3>. QED  BY <1>5, <3>1 DEF AtLeast, AtMost
  <2>3. 850 + AtLeast((1260 - 850 - 225) \div 2, 0) = 942  BY DEF AtLeast
  <2>. HIDE DEF bubble, by
  <2>. QED  BY <2>1, <2>2, <2>3, NarratorMade
<1>7. 58 * lines \in Nat /\ by + 28 + 58 * lines <= by + bubble  BY <1>1, <1>5
<1>. HIDE DEF bubble, by
<1>8. Stacked(mascot, 850, 1260)  BY DEF Stacked
<1>9. Stacked(speaking, 850, 1260)
  <2>1. by + bubble \in Int /\ 850 <= by /\ by <= by + bubble /\ by + bubble <= 1260  BY <1>5
  <2>. QED  BY <1>5, <2>1, OnePart
<1>10. Stacked(words, 850, 1260)
  <2>1. by + 28 \in Int /\ by + 28 + 58 * lines \in Int /\ 850 <= by + 28 /\ by + 28 <= by + 28 + 58 * lines
        /\ by + 28 + 58 * lines <= 1260
    BY <1>5, <1>7
  <2>. QED  BY <2>1, OnePart
<1>. HIDE DEF mascot, speaking, words
<1>11. \A column \in columns : Stacked(column, 850, 1260)  BY <1>8, <1>9, <1>10
<1>. HIDE DEF columns
<1>12. Fills([top |-> 850, bottom |-> 1260, columns |-> columns, words |-> {}], 850, 1260)  BY <1>11 DEF Fills, Sound
<1>. QED  BY <1>3, <1>4, <1>6, <1>12

\* A row with its circle.
LEMMA RowFills ==
    ASSUME NEW item, NEW top \in Int, NEW bottom \in Int, NEW font, bottom - top >= 128
    PROVE  Fills(NumberedRow(item, top, bottom, font), top, bottom)
<1>. DEFINE row == bottom - top
            radius == AtLeast(26, (row * 26) \div 100)
            circle == top + (row - 2 * radius) \div 2
            columns == {<< <<circle, circle + 2 * radius>> >>}
<1>1. row \in Int /\ row >= 128 /\ bottom = top + row  OBVIOUS
<1>2. PICK words : NumberedRow(item, top, bottom, font)
                     = [top |-> top, bottom |-> bottom, columns |-> columns, words |-> words]
  BY DEF NumberedRow, Worded
<1>3. radius \in Nat /\ 2 * radius <= row
  <2>. HIDE DEF row
  <2>. QED  BY <1>1 DEF AtLeast
<1>. HIDE DEF row, radius
<1>4. circle \in Int /\ top <= circle /\ circle + 2 * radius <= bottom  BY <1>1, <1>3
<1>. HIDE DEF circle
<1>5. Stacked(<< <<circle, circle + 2 * radius>> >>, top, bottom)
  <2>1. circle + 2 * radius \in Int /\ circle <= circle + 2 * radius  BY <1>3, <1>4
  <2>. QED  BY <1>4, <2>1, OnePart
<1>6. top <= bottom  BY <1>1
<1>7. \A column \in columns : Stacked(column, top, bottom)  BY <1>5
<1>. HIDE DEF columns
<1>8. Fills([top |-> top, bottom |-> bottom, columns |-> columns, words |-> words], top, bottom)
  BY <1>6, <1>7 DEF Fills, Sound
<1>. QED  BY <1>2, <1>8

LEMMA ListOf ==
    ASSUME NEW m \in Nat, NEW S, NEW list \in [1..m -> S]
    PROVE  Len(list) = m /\ list \in Seq(S)
<1>1. list \in Seq(S) /\ DOMAIN list = 1..m  OBVIOUS
<1>2. Len(list) = m  BY <1>1
<1>. QED  BY <1>1, <1>2

\* When the rows of a card have the room they need.
Roomy(items, y, bottom) ==
    /\ y <= 560 /\ bottom \in {830, 1260}
    /\ Len(items) \in 0..2 \/ (Len(items) = 4 /\ bottom = 1260)

LEMMA RowsInOrder ==
    ASSUME NEW items \in Seq(Nat \X Nat), NEW y \in Int, NEW bottom \in Int, Roomy(items, y, bottom)
    PROVE  InOrder(NumberedRows(items, y, bottom), y, bottom)
<1>0. /\ y <= 560 /\ bottom \in {830, 1260}
      /\ Len(items) \in 0..2 \/ (Len(items) = 4 /\ bottom = 1260)
  BY DEF Roomy
<1>. DEFINE m == Len(items)
            n == AtLeast(m, 1)
            row == AtLeast(48, (bottom - y - 14 * (n - 1)) \div n)
            scale == FillScale(64 * n, bottom - y, 108, 165)
            font == ScaledSize(36, scale, 28, 48)
            rowTop(k) == y + (k - 1) * (row + 14)
            drawn == {k \in DOMAIN items : \A j \in 1..k : rowTop(j) < bottom - 16}
            list == [k \in 1..Cardinality(drawn) |-> NumberedRow(items[k], rowTop(k), AtMost(bottom, rowTop(k) + row), font)]
<1>1. NumberedRows(items, y, bottom) = list  BY DEF NumberedRows, GapBlock
<1>2. m \in Nat /\ DOMAIN items = 1..m /\ (\A k \in 1..m : items[k] \in Nat \X Nat)
      /\ (m = 0 \/ m = 1 \/ m = 2 \/ (m = 4 /\ bottom = 1260)) /\ (bottom = 830 \/ bottom = 1260)
  BY <1>0
<1>3. (n = 1 \/ n = 2 \/ (n = 4 /\ bottom = 1260)) /\ (m = n \/ m = 0)
  <2>. HIDE DEF m
  <2>. QED  BY <1>2 DEF AtLeast
<1>. HIDE DEF font, m, n
<1>5. /\ row \in Nat /\ row >= 128
      /\ n * row + 14 * (n - 1) <= bottom - y
  <2>. DEFINE h == bottom - y
              share == (h - 14 * (n - 1)) \div n
  <2>1. h \in Int /\ h >= bottom - 560
    BY <1>0, <1>2
  <2>2. row = AtLeast(48, share)  OBVIOUS
  <2>. HIDE DEF h
  <2>3. CASE n = 1  BY <1>2, <2>1, <2>2, <2>3 DEF AtLeast, h
  <2>4. CASE n = 2
    <3>1. share = (h - 14) \div 2  BY <2>4
    <3>. HIDE DEF share
    <3>2. CASE bottom = 830  BY <2>1, <2>2, <2>4, <3>1, <3>2 DEF AtLeast, h
    <3>3. CASE bottom = 1260  BY <2>1, <2>2, <2>4, <3>1, <3>3 DEF AtLeast, h
    <3>. QED  BY <1>2, <3>2, <3>3
  <2>5. CASE n = 4 /\ bottom = 1260
    <3>1. share = (h - 42) \div 4  BY <2>5
    <3>. HIDE DEF share
    <3>. QED  BY <2>1, <2>2, <2>5, <3>1 DEF AtLeast, h
  <2>. QED  BY <1>3, <2>3, <2>4, <2>5
<1>. HIDE DEF row
<1>6. ASSUME NEW k \in 1..n
      PROVE  /\ rowTop(k) \in Int /\ y <= rowTop(k) /\ rowTop(k) + row <= bottom
             /\ k < n => rowTop(k) + row <= rowTop(k + 1)
  <2>1. k = 1 \/ (k = 2 /\ n # 1) \/ (k = 3 /\ n = 4) \/ (k = 4 /\ n = 4)  BY <1>3
  <2>2. bottom \in Int /\ (n = 1 \/ n = 2 \/ n = 4)  BY <1>2, <1>3
  <2>3. CASE k = 1  BY <1>5, <2>2, <2>3
  <2>4. CASE k = 2 /\ n # 1  BY <1>5, <2>2, <2>4
  <2>5. CASE k = 3 /\ n = 4  BY <1>5, <2>2, <2>5
  <2>6. CASE k = 4 /\ n = 4  BY <1>5, <2>2, <2>6
  <2>. QED  BY <2>1, <2>3, <2>4, <2>5, <2>6
<1>. HIDE DEF rowTop
<1>7. Cardinality(drawn) = m
  <2>1. ASSUME NEW k \in 1..m, NEW j \in 1..k PROVE rowTop(j) < bottom - 16
    <3>1. j \in 1..n  BY <1>2, <1>3
    <3>2. rowTop(j) \in Int /\ rowTop(j) + row <= bottom  BY <1>6, <3>1
    <3>. QED  BY <1>2, <1>5, <3>2
  <2>2. drawn = 1..m  BY <1>2, <2>1
  <2>. HIDE DEF drawn
  <2>3. Cardinality(1..m) = m
    <3>1. 1 \in Int /\ m \in Int  BY <1>2
    <3>. DEFINE one == 1
    <3>2. Cardinality(one..m) = IF one > m THEN 0 ELSE m - one + 1
      <4>1. one \in Int /\ m \in Int  BY <1>2
      <4>. HIDE DEF one
      <4>. QED  BY <4>1, FS_Interval
    <3>. QED  BY <1>2, <3>2
  <2>. QED  BY <2>2, <2>3
<1>. HIDE DEF drawn
<1>8. ASSUME NEW k \in 1..m PROVE Fills(list[k], rowTop(k), rowTop(k) + row)
  <2>1. k \in 1..n  BY <1>2, <1>3
  <2>2. rowTop(k) \in Int /\ rowTop(k) + row <= bottom  BY <1>6, <2>1
  <2>3. AtMost(bottom, rowTop(k) + row) = rowTop(k) + row
    BY <1>2, <1>5, <2>2, SMTT(30) DEF AtMost
  <2>4. list[k] = NumberedRow(items[k], rowTop(k), rowTop(k) + row, font)  BY <1>7, <2>3
  <2>. DEFINE from == rowTop(k)
              to == rowTop(k) + row
  <2>5. from \in Int /\ to \in Int /\ to - from = row
    <3>1. from \in Int /\ to \in Int  BY <1>5, <2>2
    <3>2. to - from = row  BY <1>5, <2>2
    <3>. QED  BY <3>1, <3>2
  <2>. HIDE DEF from, to
  <2>6. to - from >= 128  BY <1>5, <2>5
  <2>7. Fills(NumberedRow(items[k], from, to, font), from, to)  BY <2>5, <2>6, RowFills
  <2>. QED  BY <2>4, <2>7 DEF from, to
<1>9. Len(list) = m /\ \E S : list \in Seq(S)
  <2>. DEFINE S == {list[k] : k \in 1..m}
  <2>1. list = [k \in 1..m |-> list[k]] /\ m \in Nat  BY <1>2, <1>7
  <2>. HIDE DEF list
  <2>2. \A k \in 1..m : list[k] \in S  OBVIOUS
  <2>. HIDE DEF S
  <2>3. list \in [1..m -> S]  BY <2>1, <2>2
  <2>4. Len(list) = m /\ list \in Seq(S)  BY <2>1, <2>3, ListOf
  <2>. QED  BY <2>4
<1>. HIDE DEF list
<1>10. ASSUME NEW k \in 1..m PROVE Sound(list[k]) /\ y <= list[k].top /\ list[k].bottom <= bottom
  <2>1. k \in 1..n  BY <1>2, <1>3
  <2>. QED  BY <1>6, <1>8, <2>1 DEF Fills
<1>11. ASSUME NEW k \in 1..m - 1 PROVE list[k].bottom <= list[k + 1].top
  <2>1. k \in 1..n /\ k < n /\ k \in 1..m /\ k + 1 \in 1..m  BY <1>2, <1>3
  <2>2. list[k].bottom = rowTop(k) + row  BY <1>8, <2>1 DEF Fills
  <2>3. list[k + 1].top = rowTop(k + 1)  BY <1>8, <2>1 DEF Fills
  <2>. QED  BY <1>6, <2>1, <2>2, <2>3
<1>12. InOrder(list, y, bottom)  BY <1>9, <1>10, <1>11 DEF InOrder
<1>. QED  BY <1>1, <1>12

\* The first items of a card.
LEMMA FirstItems ==
    ASSUME NEW items \in Seq(Nat \X Nat), NEW most \in Nat
    PROVE  LET first == SubSeq(items, 1, AtMost(most, Len(items)))
           IN /\ first \in Seq(Nat \X Nat) /\ Len(first) = AtMost(most, Len(items))
              /\ \A k \in DOMAIN first : k \in DOMAIN items /\ first[k] = items[k] /\ first[k] \in Nat \X Nat
<1>. DEFINE n == AtMost(most, Len(items))
<1>1. n \in Nat /\ n <= Len(items)  BY DEF AtMost
<1>. HIDE DEF n
<1>2. SubSeq(items, 1, n) \in Seq(Nat \X Nat) /\ Len(SubSeq(items, 1, n)) = n  BY <1>1
<1>3. ASSUME NEW k \in 1..n
      PROVE  k \in DOMAIN items /\ SubSeq(items, 1, n)[k] = items[k] /\ items[k] \in Nat \X Nat
  <2>1. k \in DOMAIN items
    <3>1. k \in 1..Len(items) /\ DOMAIN items = 1..Len(items)  BY <1>1
    <3>. QED  BY <3>1
  <2>2. SubSeq(items, 1, n)[k] = items[k]  BY <1>1
  <2>3. items[k] \in Nat \X Nat  BY <2>1
  <2>. QED  BY <2>1, <2>2, <2>3
<1>4. DOMAIN SubSeq(items, 1, n) = 1..n  BY <1>2
<1>. QED  BY <1>2, <1>3, <1>4 DEF n

LEMMA HeaderInOrder ==
    ASSUME NEW header, header.end \in Int, header.next \in Int, 88 <= header.end, header.end <= header.next
    PROVE  InOrder(<<HeaderBlock(header)>>, 72, header.next)
<1>. DEFINE top == 72
            y == header.next
            end == header.end
<1>1. Fills(HeaderBlock(header), top, end)  BY HeaderFills
<1>2. top \in Int /\ top <= top /\ end \in Int /\ end <= y /\ y \in Int  OBVIOUS
<1>. HIDE DEF top, y, end
<1>3. InOrder(<<HeaderBlock(header)>>, top, y)  BY <1>1, <1>2, OneBlock
<1>. QED  BY <1>3 DEF top, y

\* The mascot of a card, or none, below its body.
NarratorFits(hasMascot, speech) ==
    InOrder(IF hasMascot THEN <<Narrator(speech, Bounds(hasMascot).mascot, 1260)>> ELSE << >>,
            Bounds(hasMascot).body, 1260)

LEMMA NarratorInOrder ==
    ASSUME NEW hasMascot \in BOOLEAN, NEW speech \in Nat
    PROVE  NarratorFits(hasMascot, speech)
<1>. DEFINE body == Bounds(hasMascot).body
            mascot == Bounds(hasMascot).mascot
            narrator == IF hasMascot THEN <<Narrator(speech, mascot, 1260)>> ELSE << >>
            to == 1260
<1>0. /\ hasMascot => body = 830 /\ mascot = 850
      /\ ~hasMascot => body = 1260
  BY BoundsFor
<1>. HIDE DEF body, mascot
<1>1. ASSUME hasMascot PROVE InOrder(narrator, body, to)
  <2>. DEFINE block == Narrator(speech, mascot, to)
  <2>1. narrator = <<block>>  BY <1>1
  <2>2. Fills(block, mascot, to)
    <3>1. mascot = 850  BY <1>0, <1>1
    <3>2. Fills(Narrator(speech, 850, 1260), 850, 1260)  BY NarratorFills
    <3>. QED  BY <3>1, <3>2
  <2>3. mascot \in Int /\ to \in Int /\ body \in Int /\ body <= mascot /\ to <= to  BY <1>0, <1>1
  <2>. HIDE DEF to, narrator, block
  <2>4. InOrder(<<block>>, body, to)  BY <2>2, <2>3, OneBlock
  <2>. QED  BY <2>1, <2>4 DEF narrator
<1>2. ASSUME ~hasMascot PROVE InOrder(narrator, body, to)
  <2>1. narrator = << >>  BY <1>2
  <2>2. to \in Int /\ body \in Int  BY <1>0, <1>2
  <2>. HIDE DEF to, narrator
  <2>3. InOrder(<< >>, body, to)  BY <2>2, NoBlock
  <2>. QED  BY <2>1, <2>3 DEF narrator
<1>3. InOrder(narrator, body, to)  BY <1>1, <1>2
<1>. QED  BY <1>3 DEF NarratorFits, narrator, body, mascot, to

\* render_template_numbered
LEMMA NumberedInOrder ==
    ASSUME NEW card \in CardSlides, Len(card.items) \notin {3, 4}
    PROVE  InOrder(NumberedBlocks(card), 72, 1260)
<1>. DEFINE items == SubSeq(card.items, 1, AtMost(4, Len(card.items)))
            hasMascot == card.mascot /\ Len(items) <= 3
            eyebrow == IF card.eyebrow = 0 THEN 6 ELSE card.eyebrow
            headline == card.headline
            body == Bounds(hasMascot).body
            header == Header(eyebrow, headline, body)
            rowBlocks == NumberedRows(items, header.next, body)
            speech == IF card.speech = 0 THEN 4 ELSE card.speech
            narrator == IF hasMascot THEN <<Narrator(speech, Bounds(hasMascot).mascot, 1260)>> ELSE << >>
<1>1. NumberedBlocks(card) = <<HeaderBlock(header)>> \o rowBlocks \o narrator
  BY DEF NumberedBlocks, NumberedBelow, LowerEdge, Bottom
<1>2. /\ items \in Seq(Nat \X Nat) /\ Len(items) = AtMost(4, Len(card.items))
      /\ \A k \in DOMAIN items : k \in DOMAIN card.items /\ items[k] = card.items[k]
  <2>. DEFINE all == card.items
              most == 4
  <2>1. all \in Seq(Nat \X Nat) /\ most \in Nat  BY DEF CardSlides
  <2>. HIDE DEF all, most
  <2>2. LET first == SubSeq(all, 1, AtMost(most, Len(all)))
        IN /\ first \in Seq(Nat \X Nat) /\ Len(first) = AtMost(most, Len(all))
           /\ \A k \in DOMAIN first : k \in DOMAIN all /\ first[k] = all[k]
    BY <2>1, FirstItems
  <2>. QED  BY <2>2 DEF all, most
<1>3. Len(items) \in 0..2 \/ Len(items) = 4
  <2>. DEFINE l == Len(card.items)
              n == Len(items)
  <2>1. l \in Nat /\ l # 3 /\ l # 4  BY DEF CardSlides
  <2>2. n = AtMost(4, l)  BY <1>2
  <2>. HIDE DEF l, n
  <2>3. n \in 0..2 \/ n = 4  BY <2>1, <2>2 DEF AtMost
  <2>. QED  BY <2>3 DEF n
<1>. HIDE DEF items
<1>4. body \in {830, 1260} /\ (Len(items) = 4 => body = 1260)
  <2>1. hasMascot \in BOOLEAN  BY DEF CardSlides
  <2>0. Len(items) = 4 => ~hasMascot  OBVIOUS
  <2>. HIDE DEF hasMascot
  <2>2. (hasMascot => body = 830) /\ (~hasMascot => body = 1260)  BY <2>1, BoundsFor
  <2>. HIDE DEF body
  <2>. QED  BY <2>0, <2>1, <2>2
<1>5. eyebrow \in Nat /\ headline \in Nat /\ speech \in Nat /\ eyebrow > 0  BY DEF CardSlides
<1>. HIDE DEF eyebrow
<1>. HIDE DEF headline, speech, body
<1>7. body \in Int /\ body >= 830 /\ body <= 1260  BY <1>4
<1>8. /\ header.end \in Int /\ header.next \in Int /\ 88 <= header.end /\ header.end <= 538
      /\ header.next = header.end + 22
  BY <1>5, <1>7, HeaderWithin
<1>. DEFINE y == header.next
            end == header.end
<1>9. InOrder(<<HeaderBlock(header)>>, 72, y)
  <2>. HIDE DEF header
  <2>. QED  BY <1>8, HeaderInOrder
<1>10. y \in Int /\ 72 <= y /\ y <= 560 /\ y <= body  BY <1>7, <1>8
<1>11. rowBlocks = NumberedRows(items, y, body)  OBVIOUS
<1>. HIDE DEF header, y, end, rowBlocks
<1>13. InOrder(rowBlocks, y, body)
  <2>1. Len(items) \in 0..2 \/ (Len(items) = 4 /\ body = 1260)  BY <1>3, <1>4
  <2>2. Roomy(items, y, body)  BY <1>4, <1>10, <2>1 DEF Roomy
  <2>. QED  BY <1>2, <1>7, <1>10, <1>11, <2>2, RowsInOrder
<1>14. InOrder(narrator, body, 1260)
  <2>1. hasMascot \in BOOLEAN  BY DEF CardSlides
  <2>. HIDE DEF hasMascot
  <2>2. NarratorFits(hasMascot, speech)  BY <1>5, <2>1, NarratorInOrder
  <2>. QED  BY <2>2 DEF NarratorFits, narrator, body
<1>. HIDE DEF narrator
<1>15. InOrder(<<HeaderBlock(header)>> \o rowBlocks \o narrator, 72, 1260)
  <2>. DEFINE top == 72
              to == 1260
              head == <<HeaderBlock(header)>>
  <2>1. top \in Int /\ to \in Int /\ top <= y /\ top <= body /\ body <= to  BY <1>7, <1>10
  <2>2. InOrder(head, top, y) /\ InOrder(narrator, body, to)  BY <1>9, <1>14
  <2>. HIDE DEF top, to, head
  <2>3. InOrder(head \o rowBlocks, top, body)  BY <1>7, <1>10, <1>13, <2>1, <2>2, Joined
  <2>4. InOrder((head \o rowBlocks) \o narrator, top, to)  BY <1>7, <2>1, <2>2, <2>3, Joined
  <2>. QED  BY <2>4 DEF top, to, head
<1>. QED  BY <1>1, <1>15

\* A text in the middle of a space in which it fits.
LEMMA MiddleWithin ==
    ASSUME NEW fit, NEW gap \in Nat, NEW top \in Int, NEW height \in Nat,
           TextHeight(fit.lines, fit.font, gap) \in Nat, TextHeight(fit.lines, fit.font, gap) <= height
    PROVE  LET span == InMiddle(fit, gap, top, height)
           IN /\ span = <<span[1], span[2]>> /\ span[1] \in Int /\ span[2] \in Int
              /\ top <= span[1] /\ span[1] <= span[2] /\ span[2] <= top + height
<1>. DEFINE words == TextHeight(fit.lines, fit.font, gap)
            y == top + AtLeast(0, (height - words) \div 2)
<1>1. InMiddle(fit, gap, top, height) = <<y, y + words>>  BY DEF InMiddle
<1>. HIDE DEF words
<1>2. words \in Nat /\ words <= height  BY DEF words
<1>3. y \in Int /\ top <= y /\ y + words <= top + height  BY <1>2 DEF AtLeast
<1>. HIDE DEF y
<1>. QED  BY <1>1, <1>2, <1>3

\* A column that is high enough for its badge, its label and its text.
LEMMA ColumnSound ==
    ASSUME NEW item \in Nat \X Nat, NEW top \in Int, NEW bottom \in Int, NEW badge \in Nat, NEW labelHeight \in Nat,
           labelHeight >= 36, badge + labelHeight + 104 <= bottom - top
    PROVE  Stacked(ColumnOf(item, top, bottom, 254, badge, labelHeight), top, bottom)
<1>. DEFINE label == top + 22 + badge + 12
            content == label + labelHeight + 8
            room == AtLeast(40, bottom - content - 22)
            chars == IF item[1] = 0 THEN 3 ELSE item[1]
            name == FitTextInRect(chars, 254, labelHeight, 32, 24, 8)
            high == TextHeight(name.lines, name.font, 8)
            fit == FitTextInRect(item[2], 254, room, 30, 22, 12)
            span == InMiddle(fit, 12, content, room)
<1>1. ColumnOf(item, top, bottom, 254, badge, labelHeight)
        = << <<top + 22, top + 22 + badge>>, <<label, label + high>>, span >>
  BY DEF ColumnOf, PanelInset, GapMedium, GapSmall
<1>2. item[1] \in Nat /\ item[2] \in Nat /\ chars \in Nat  OBVIOUS
<1>3. label \in Int /\ content \in Int /\ content = label + labelHeight + 8 /\ room \in Nat /\ room >= 40
      /\ content + room <= bottom
  BY DEF AtLeast
<1>4. label = top + 22 + badge + 12  OBVIOUS
<1>. HIDE DEF label, content, room, chars
<1>5. high \in Nat /\ high <= labelHeight
  <2>. DEFINE width == 254
              start == 32
              smallest == 24
              gap == 8
  <2>1. width \in Nat /\ start \in Nat /\ smallest \in Nat /\ smallest > 0 /\ gap \in Nat /\ labelHeight \in Int
        /\ (6 * smallest) \div 5 <= labelHeight
    OBVIOUS
  <2>. HIDE DEF width, start, smallest, gap
  <2>2. LET f == FitTextInRect(chars, width, labelHeight, start, smallest, gap)
        IN /\ TextHeight(f.lines, f.font, gap) \in Nat
           /\ TextHeight(f.lines, f.font, gap) <= labelHeight
    BY <1>2, <2>1, FittedText
  <2>. QED  BY <2>2 DEF width, start, smallest, gap
<1>6. /\ TextHeight(fit.lines, fit.font, 12) \in Nat
      /\ TextHeight(fit.lines, fit.font, 12) <= room
  <2>. DEFINE width == 254
              start == 30
              smallest == 22
              gap == 12
              text == item[2]
  <2>1. width \in Nat /\ start \in Nat /\ smallest \in Nat /\ smallest > 0 /\ gap \in Nat /\ room \in Int
        /\ (6 * smallest) \div 5 <= room /\ text \in Nat
    BY <1>2, <1>3
  <2>. HIDE DEF width, start, smallest, gap, text
  <2>2. LET f == FitTextInRect(text, width, room, start, smallest, gap)
        IN /\ TextHeight(f.lines, f.font, gap) \in Nat
           /\ TextHeight(f.lines, f.font, gap) <= room
    BY <2>1, FittedText
  <2>. QED  BY <2>2 DEF width, start, smallest, gap, text
<1>. HIDE DEF name, high, fit
<1>7. /\ span = <<span[1], span[2]>> /\ span[1] \in Int /\ span[2] \in Int
      /\ content <= span[1] /\ span[1] <= span[2] /\ span[2] <= content + room
  <2>. DEFINE gap == 12
  <2>1. /\ gap \in Nat /\ TextHeight(fit.lines, fit.font, gap) \in Nat
        /\ TextHeight(fit.lines, fit.font, gap) <= room
    BY <1>6
  <2>. HIDE DEF gap
  <2>2. LET s == InMiddle(fit, gap, content, room)
        IN /\ s = <<s[1], s[2]>> /\ s[1] \in Int /\ s[2] \in Int
           /\ content <= s[1] /\ s[1] <= s[2] /\ s[2] <= content + room
    <3>1. content \in Int /\ room \in Nat  BY <1>3
    <3>. QED  BY <2>1, <3>1, MiddleWithin
  <2>. QED  BY <2>2 DEF gap
<1>. HIDE DEF span
<1>. DEFINE a == top + 22
            b == top + 22 + badge
            d == label + high
            e == span[1]
            f == span[2]
<1>8. a \in Int /\ b \in Int /\ d \in Int /\ top <= a /\ a <= b /\ b <= label /\ label <= d /\ d <= content
  BY <1>3, <1>4, <1>5
<1>9. e \in Int /\ f \in Int /\ d <= e /\ e <= f /\ f <= bottom  BY <1>3, <1>7, <1>8
<1>10. span = <<e, f>>  BY <1>7
<1>. HIDE DEF a, b, d, e, f
<1>11. Stacked(<< <<a, b>>, <<label, d>>, <<e, f>> >>, top, bottom)  BY <1>3, <1>8, <1>9, ThreeParts
<1>. QED  BY <1>1, <1>10, <1>11 DEF a, b, d

\* render_template_three_col
LEMMA ThreeColInOrder ==
    ASSUME NEW card \in CardSlides, Len(card.items) = 3
    PROVE  InOrder(ThreeColBlocks(card), 72, 1260)
<1>. DEFINE items == SubSeq(card.items, 1, AtMost(3, Len(card.items)))
            headline == IF card.headline = 0 THEN 6 ELSE card.headline
            eyebrow == card.eyebrow
            body == Bounds(card.mascot).body
            header == Header(eyebrow, headline, body)
            top == header.next + 16
            columns == ColumnsOf(items, top, body)
            block == Block(top, body, columns)
            speech == IF card.speech = 0 THEN 6 ELSE card.speech
            narrator == IF card.mascot THEN <<Narrator(speech, Bounds(card.mascot).mascot, 1260)>> ELSE << >>
<1>1. ThreeColBlocks(card) = <<HeaderBlock(header), block>> \o narrator
  BY DEF ThreeColBlocks, ThreeColBelow, GapBlock, LowerEdge, Bottom
<1>2. Len(items) = 3 /\ \A k \in DOMAIN items : items[k] \in Nat \X Nat
  <2>. DEFINE all == card.items
              most == 3
  <2>1. all \in Seq(Nat \X Nat) /\ most \in Nat /\ Len(all) = most  BY DEF CardSlides
  <2>. HIDE DEF all, most
  <2>2. LET first == SubSeq(all, 1, AtMost(most, Len(all)))
        IN /\ Len(first) = AtMost(most, Len(all)) /\ \A k \in DOMAIN first : first[k] \in Nat \X Nat
    BY <2>1, FirstItems
  <2>3. AtMost(most, Len(all)) = most  BY <2>1 DEF AtMost
  <2>. QED  BY <2>2, <2>3 DEF all, most
<1>. HIDE DEF items
<1>3. headline \in Nat /\ eyebrow \in Nat /\ speech \in Nat /\ card.mascot \in BOOLEAN  BY DEF CardSlides
<1>4. body \in {830, 1260}
  <2>. DEFINE hasMascot == card.mascot
  <2>1. hasMascot \in BOOLEAN  BY <1>3
  <2>. HIDE DEF hasMascot
  <2>2. Bounds(hasMascot).body \in {830, 1260}  BY <2>1, BoundsFor
  <2>. QED  BY <2>2 DEF hasMascot
<1>. HIDE DEF headline, eyebrow, speech, body
<1>5. body \in Int /\ body >= 830 /\ body <= 1260  BY <1>4
<1>6. header.end \in Int /\ header.next \in Int /\ 88 <= header.end /\ header.end <= 538
      /\ header.next = header.end + 22
  BY <1>3, <1>5, HeaderWithin
<1>. DEFINE next == header.next
<1>8. next \in Int /\ 72 <= next /\ next <= 560 /\ top = next + 16  BY <1>6
<1>. DEFINE end == header.end
            head == HeaderBlock(header)
<1>7. Fills(head, 72, end) /\ end \in Int /\ end <= top /\ end <= body /\ 72 <= top
  <2>. HIDE DEF header
  <2>1. Fills(HeaderBlock(header), 72, end)  BY <1>6, HeaderFills
  <2>. QED  BY <1>5, <1>6, <1>8, <2>1
<1>. HIDE DEF header, next, top, end, head
<1>9. Fills(block, top, body)
  <2>. DEFINE high == body - top
              badge == AtLeast(44, AtMost(56, (high * 13) \div 100))
              labelHeight == AtLeast(36, (high * 18) \div 100)
  <2>1. high \in Int /\ high >= 254 /\ high = body - top /\ top \in Int  BY <1>5, <1>8
  <2>2. columns = {ColumnOf(items[k], top, body, 254, badge, labelHeight) : k \in DOMAIN items}
    <3>1. AtLeast(Len(items), 1) = 3  BY <1>2 DEF AtLeast
    <3>2. (936 - 20 * (3 - 1)) \div 3 - 2 * 22 = 254  OBVIOUS
    <3>. QED  BY <3>1, <3>2 DEF ColumnsOf, Width, PanelInset
  <2>. HIDE DEF high, columns
  <2>3. badge \in Nat /\ labelHeight \in Nat /\ labelHeight >= 36 /\ badge + labelHeight + 104 <= high
    BY <2>1 DEF AtLeast, AtMost
  <2>. HIDE DEF badge, labelHeight
  <2>4. ASSUME NEW k \in DOMAIN items PROVE Stacked(ColumnOf(items[k], top, body, 254, badge, labelHeight), top, body)
    <3>. DEFINE item == items[k]
    <3>1. item \in Nat \X Nat  BY <1>2
    <3>2. badge + labelHeight + 104 <= body - top  BY <2>1, <2>3
    <3>. HIDE DEF item
    <3>3. Stacked(ColumnOf(item, top, body, 254, badge, labelHeight), top, body)
      BY <1>5, <2>1, <2>3, <3>1, <3>2, ColumnSound
    <3>. QED  BY <3>3 DEF item
  <2>5. \A column \in columns : Stacked(column, top, body)  BY <2>2, <2>4
  <2>6. top <= body  BY <1>5, <2>1
  <2>. QED  BY <1>5, <2>1, <2>5, <2>6 DEF Fills, Sound, Block, Worded
<1>. HIDE DEF block
<1>10. InOrder(<<head, block>>, 72, body)
  <2>. DEFINE from == 72
  <2>1. from \in Int /\ from <= from /\ top \in Int /\ body \in Int /\ body <= body /\ end \in Int
        /\ end <= top /\ end <= body /\ from <= top /\ Fills(head, from, end)
    BY <1>5, <1>7, <1>8
  <2>. HIDE DEF from
  <2>2. InOrder(<<head, block>>, from, body)  BY <1>9, <2>1, TwoBlocks
  <2>. QED  BY <2>2 DEF from
<1>11. InOrder(narrator, body, 1260)
  <2>1. NarratorFits(card.mascot, speech)  BY <1>3, NarratorInOrder
  <2>. QED  BY <2>1 DEF NarratorFits, narrator, body
<1>. HIDE DEF narrator
<1>12. InOrder(<<head, block>> \o narrator, 72, 1260)
  <2>. DEFINE from == 72
              to == 1260
              main == <<head, block>>
  <2>1. from \in Int /\ to \in Int /\ from <= body /\ body <= to /\ body \in Int  BY <1>5
  <2>2. InOrder(narrator, body, to) /\ InOrder(main, from, body)  BY <1>10, <1>11
  <2>. HIDE DEF from, to, main
  <2>3. InOrder(main \o narrator, from, to)  BY <2>1, <2>2, Joined
  <2>. QED  BY <2>3 DEF from, to, main
<1>. QED  BY <1>1, <1>12 DEF head

\* Two tiles, each a ribbon above a text, with the height they need.
LEMMA TileRowInOrder ==
    ASSUME NEW items, \A k \in DOMAIN items : items[k] \in Nat \X Nat, NEW top \in Int, NEW bottom \in Int,
           NEW ribbon \in Nat, ribbon >= 60, ribbon + 88 <= bottom - top
    PROVE  InOrder(TileRow(items, top, bottom, ribbon), top, bottom)
<1>. DEFINE content == top + ribbon + 24
            room == AtLeast(40, bottom - 24 - content)
            chars(item) == IF item[1] = 0 THEN 4 ELSE item[1]
            name(item) == FitTextInRect(chars(item), 411, ribbon - 24, 42, 30, 8)
            words(item) == TextHeight(name(item).lines, name(item).font, 8)
            text(item) == top + AtLeast(12, (ribbon - words(item)) \div 2)
            fit(item) == FitTextInRect(item[2], 411, room, 44, 30, 12)
            span(item) == InMiddle(fit(item), 12, content, room)
            middle == top + ribbon
            upper == Block(top, middle, {<< <<text(items[k]), text(items[k]) + words(items[k])>> >> : k \in DOMAIN items})
            lower == Block(middle, bottom, {<<span(items[k])>> : k \in DOMAIN items})
<1>1. TileRow(items, top, bottom, ribbon) = IF items = << >> THEN << >> ELSE <<upper, lower>>
  BY DEF TileRow, Width, GapSmall, GapMedium
<1>2. middle \in Int /\ content \in Int /\ content = middle + 24 /\ room \in Nat /\ room >= 40 /\ content + room <= bottom
  BY DEF AtLeast
<1>3. top <= middle /\ middle <= bottom  OBVIOUS
<1>. HIDE DEF content, room
<1>4. ASSUME NEW k \in DOMAIN items
      PROVE  Stacked(<< <<text(items[k]), text(items[k]) + words(items[k])>> >>, top, middle)
  <2>. DEFINE item == items[k]
  <2>1. item \in Nat \X Nat  OBVIOUS
  <2>. HIDE DEF item
  <2>2. chars(item) \in Nat  BY <2>1
  <2>3. words(item) \in Nat /\ words(item) <= ribbon - 24
    <3>. DEFINE width == 411
                start == 42
                smallest == 30
                gap == 8
                high == ribbon - 24
                letters == chars(item)
    <3>1. width \in Nat /\ start \in Nat /\ smallest \in Nat /\ smallest > 0 /\ gap \in Nat /\ high \in Int
          /\ (6 * smallest) \div 5 <= high /\ letters \in Nat
      BY <2>2
    <3>. HIDE DEF width, start, smallest, gap, letters, high
    <3>2. LET f == FitTextInRect(letters, width, high, start, smallest, gap)
          IN /\ TextHeight(f.lines, f.font, gap) \in Nat
             /\ TextHeight(f.lines, f.font, gap) <= high
      BY <3>1, FittedText
    <3>. QED  BY <3>2 DEF width, start, smallest, gap, letters, high
  <2>. DEFINE w == words(item)
              a == text(item)
              b == a + w
  <2>4. w \in Nat /\ a = top + AtLeast(12, (ribbon - w) \div 2)  BY <2>3
  <2>. HIDE DEF w, a
  <2>5. a \in Int /\ top <= a /\ a + w <= middle  BY <2>3, <2>4 DEF AtLeast, w
  <2>6. b \in Int /\ a <= b /\ b <= middle  BY <2>4, <2>5
  <2>. HIDE DEF middle, b
  <2>7. Stacked(<< <<a, b>> >>, top, middle)  BY <1>2, <2>5, <2>6, OnePart
  <2>. QED  BY <2>7 DEF a, b, w, item
<1>5. ASSUME NEW k \in DOMAIN items PROVE Stacked(<<span(items[k])>>, middle, bottom)
  <2>. DEFINE item == items[k]
  <2>1. item \in Nat \X Nat  OBVIOUS
  <2>2. item[2] \in Nat  BY <2>1
  <2>. HIDE DEF item
  <2>3. /\ TextHeight(fit(item).lines, fit(item).font, 12) \in Nat
        /\ TextHeight(fit(item).lines, fit(item).font, 12) <= room
    <3>. DEFINE width == 411
                start == 44
                smallest == 30
                gap == 12
                letters == item[2]
    <3>1. width \in Nat /\ start \in Nat /\ smallest \in Nat /\ smallest > 0 /\ gap \in Nat /\ room \in Int
          /\ (6 * smallest) \div 5 <= room /\ letters \in Nat
      BY <1>2, <2>2
    <3>. HIDE DEF width, start, smallest, gap, letters
    <3>2. LET f == FitTextInRect(letters, width, room, start, smallest, gap)
          IN /\ TextHeight(f.lines, f.font, gap) \in Nat
             /\ TextHeight(f.lines, f.font, gap) <= room
      BY <3>1, FittedText
    <3>. QED  BY <3>2 DEF width, start, smallest, gap, letters
  <2>. DEFINE f == fit(item)
              s == span(item)
  <2>4. TextHeight(f.lines, f.font, 12) \in Nat /\ TextHeight(f.lines, f.font, 12) <= room  BY <2>3
  <2>5. s = InMiddle(f, 12, content, room)  OBVIOUS
  <2>. HIDE DEF f, s
  <2>6. /\ s = <<s[1], s[2]>> /\ s[1] \in Int /\ s[2] \in Int
        /\ content <= s[1] /\ s[1] <= s[2] /\ s[2] <= content + room
    <3>. DEFINE gap == 12
    <3>1. /\ content \in Int /\ room \in Nat
          /\ gap \in Nat /\ TextHeight(f.lines, f.font, gap) \in Nat
          /\ TextHeight(f.lines, f.font, gap) <= room
      BY <1>2, <2>4
    <3>. HIDE DEF gap
    <3>2. LET x == InMiddle(f, gap, content, room)
          IN /\ x = <<x[1], x[2]>> /\ x[1] \in Int /\ x[2] \in Int
             /\ content <= x[1] /\ x[1] <= x[2] /\ x[2] <= content + room
      BY <3>1, MiddleWithin
    <3>. QED  BY <2>5, <3>2 DEF gap
  <2>. DEFINE a == s[1]
              b == s[2]
  <2>7. s = <<a, b>> /\ a \in Int /\ b \in Int /\ middle <= a /\ a <= b /\ b <= bottom  BY <1>2, <2>6
  <2>. HIDE DEF middle, a, b
  <2>8. Stacked(<< <<a, b>> >>, middle, bottom)  BY <1>2, <2>7, OnePart
  <2>. QED  BY <2>7, <2>8 DEF s, item
<1>6. CASE items = << >>
  <2>1. TileRow(items, top, bottom, ribbon) = << >>  BY <1>1, <1>6
  <2>. QED  BY <2>1, NoBlock
<1>7. CASE items # << >>
  <2>. HIDE DEF text, words, span, middle
  <2>1. Fills(upper, top, middle)  BY <1>2, <1>3, <1>4 DEF Fills, Sound, Block, Worded
  <2>2. Fills(lower, middle, bottom)  BY <1>2, <1>3, <1>5 DEF Fills, Sound, Block, Worded
  <2>. HIDE DEF upper, lower
  <2>3. InOrder(<<upper, lower>>, top, bottom)
    <3>1. top <= top /\ middle <= middle /\ bottom <= bottom /\ middle \in Int  BY <1>2
    <3>. QED  BY <1>3, <2>1, <2>2, <3>1, TwoBlocks
  <2>. QED  BY <1>1, <1>7, <2>3
<1>. QED  BY <1>6, <1>7

LEMMA TileRowFromInOrder ==
    ASSUME NEW items, \A k \in DOMAIN items : items[k] \in Nat \X Nat, NEW top \in Int, NEW tile \in Nat, tile >= 300,
           NEW bottom \in Int, bottom = top + tile, bottom <= 1260
    PROVE  InOrder(TileRowFrom(items, top, tile), top, bottom)
<1>. DEFINE ribbon == AtLeast(52, (tile * 28) \div 100)
<1>1. TileRowFrom(items, top, tile) = TileRow(items, top, bottom, ribbon)
  <2>1. AtMost(1260, top + tile) = bottom  BY DEF AtMost
  <2>2. bottom - top = tile  OBVIOUS
  <2>. QED  BY <2>1, <2>2 DEF TileRowFrom, LowerEdge, Bottom
<1>2. ribbon \in Nat /\ ribbon >= 60 /\ ribbon + 88 <= tile  BY DEF AtLeast
<1>3. ribbon + 88 <= bottom - top  BY <1>2
<1>. HIDE DEF ribbon
<1>. DEFINE row == TileRow(items, top, bottom, ribbon)
<1>4. InOrder(row, top, bottom)
  <2>1. ribbon \in Nat /\ ribbon >= 60  BY <1>2
  <2>. QED  BY <1>3, <2>1, TileRowInOrder
<1>. QED  BY <1>1, <1>4

\* render_template_grid
LEMMA GridInOrder ==
    ASSUME NEW card \in CardSlides, Len(card.items) = 4
    PROVE  InOrder(GridBlocks(card), 72, 1260)
<1>. DEFINE items == card.items
            headline == IF card.headline = 0 THEN 9 ELSE card.headline
            eyebrow == card.eyebrow
            header == Header(eyebrow, headline, 1260)
            next == header.next
            height == 1260 - next
            tile == AtLeast(120, (height - 18) \div 2)
            first == next + AtLeast(0, (height - 2 * tile - 18) \div 2)
            one == SubSeq(items, 1, AtMost(2, Len(items)))
            two == SubSeq(items, 3, AtMost(4, Len(items)))
            second == first + tile + 18
            upper == TileRowFrom(one, first, tile)
            lower == TileRowFrom(two, second, tile)
<1>1. GridBlocks(card) = <<HeaderBlock(header)>> \o (upper \o lower)
  BY DEF GridBlocks, GridBelow, Tiles, LowerEdge, Bottom
<1>2. headline \in Nat /\ eyebrow \in Nat  BY DEF CardSlides
<1>3. \A k \in DOMAIN one : one[k] \in Nat \X Nat
  <2>. DEFINE most == 2
  <2>1. items \in Seq(Nat \X Nat) /\ most \in Nat  BY DEF CardSlides
  <2>. HIDE DEF items, most
  <2>2. LET f == SubSeq(items, 1, AtMost(most, Len(items)))
        IN \A k \in DOMAIN f : f[k] \in Nat \X Nat
    BY <2>1, FirstItems
  <2>. QED  BY <2>2 DEF most
<1>4. \A k \in DOMAIN two : two[k] \in Nat \X Nat
  <2>1. items \in Seq(Nat \X Nat) /\ Len(items) = 4 /\ AtMost(4, Len(items)) = 4  BY DEF CardSlides, AtMost
  <2>. HIDE DEF items
  <2>2. SubSeq(items, 3, 4) \in Seq(Nat \X Nat)
    <3>. DEFINE m == 3
                n == 4
    <3>1. m \in Int /\ n \in Int /\ 1 <= m /\ m <= n /\ n <= Len(items)  BY <2>1
    <3>. HIDE DEF m, n
    <3>2. SubSeq(items, m, n) \in Seq(Nat \X Nat)  BY <2>1, <3>1, SMTT(30)
    <3>. QED  BY <3>2 DEF m, n
  <2>. DEFINE s == SubSeq(items, 3, 4)
  <2>3. s \in Seq(Nat \X Nat) /\ two = s  BY <2>1, <2>2
  <2>. HIDE DEF s, two
  <2>. QED  BY <2>3
<1>. HIDE DEF headline, eyebrow, items, one, two
<1>5. header.end \in Int /\ next \in Int /\ 88 <= header.end /\ header.end <= 538 /\ next = header.end + 22
  <2>. DEFINE limit == 1260
  <2>1. limit \in Int /\ limit >= 830  BY <1>2
  <2>. HIDE DEF limit
  <2>2. LET h == Header(eyebrow, headline, limit)
        IN h.end \in Int /\ h.next \in Int /\ 88 <= h.end /\ h.end <= 538 /\ h.next = h.end + 22
    BY <1>2, <2>1, HeaderWithin
  <2>. QED  BY <2>2 DEF limit
<1>6. InOrder(<<HeaderBlock(header)>>, 72, next)
  <2>. HIDE DEF header
  <2>1. header.end <= header.next  BY <1>5
  <2>. QED  BY <1>5, <2>1, HeaderInOrder
<1>7. next \in Int /\ 110 <= next /\ next <= 560  BY <1>5
<1>. HIDE DEF next
<1>8. tile \in Nat /\ tile >= 300 /\ 2 * tile + 18 <= 1260 - next  BY <1>7 DEF AtLeast
<1>9. first = next
  <2>1. height - 2 * tile - 18 \in {0, 1}  BY <1>7 DEF AtLeast
  <2>. HIDE DEF height, tile
  <2>. QED  BY <1>7, <2>1 DEF AtLeast
<1>. HIDE DEF first, tile
<1>. DEFINE middle == first + tile
            bottom == second + tile
<1>10. first \in Int /\ second \in Int /\ middle \in Int /\ bottom \in Int /\ middle <= 1260 /\ bottom <= 1260
       /\ next <= first /\ first <= middle /\ middle <= second /\ second <= bottom
  BY <1>7, <1>8, <1>9
<1>11. middle = first + tile /\ bottom = second + tile /\ tile \in Nat /\ tile >= 300  BY <1>8
<1>. HIDE DEF second, middle, bottom
<1>12. InOrder(upper, first, middle)
  <2>1. first \in Int /\ middle \in Int /\ middle <= 1260  BY <1>10
  <2>. QED  BY <1>3, <1>11, <2>1, TileRowFromInOrder
<1>13. InOrder(lower, second, bottom)
  <2>1. second \in Int /\ bottom \in Int /\ bottom <= 1260  BY <1>10
  <2>. QED  BY <1>4, <1>11, <2>1, TileRowFromInOrder
<1>. HIDE DEF upper, lower, header
<1>14. InOrder(<<HeaderBlock(header)>> \o (upper \o lower), 72, 1260)
  <2>. DEFINE from == 72
              to == 1260
              head == <<HeaderBlock(header)>>
  <2>1. from \in Int /\ to \in Int /\ from <= next /\ next <= to /\ next <= middle /\ middle <= to
        /\ next <= first /\ bottom <= to /\ middle <= second /\ first \in Int /\ middle \in Int /\ second \in Int
        /\ bottom \in Int /\ to <= to /\ next \in Int
    BY <1>7, <1>10
  <2>2. InOrder(head, from, next)  BY <1>6
  <2>. HIDE DEF from, to, head
  <2>3. InOrder(upper, next, middle)
    <3>1. middle <= middle  BY <2>1
    <3>. QED  BY <1>12, <2>1, <3>1, WiderOrder
  <2>4. InOrder(lower, middle, to)  BY <1>13, <2>1, WiderOrder
  <2>5. InOrder(upper \o lower, next, to)  BY <2>1, <2>3, <2>4, Joined
  <2>6. InOrder(head \o (upper \o lower), from, to)  BY <2>1, <2>2, <2>5, Joined
  <2>. QED  BY <2>6 DEF from, to, head
<1>. QED  BY <1>1, <1>14

----------------------------------------------------------------------------
(* Policy cards: the cover.                                                 *)

LEMMA CoverEyebrow ==
    ASSUME NEW chars \in Nat, NEW scale \in 100..178
    PROVE  LET title == CoverTitle("eyebrow", chars, scale)
           IN /\ title.fits \in Nat /\ title.drawn \in Nat /\ title.drawn <= title.fits + 8 /\ title.drawn <= 188
              /\ scale = 100 => title.drawn <= 118
<1>. DEFINE start == ScaledSize(34, scale, 18, 112)
            fit == FitFontLines(chars, 904, start, 26, 2)
<1>1. start \in Nat /\ start <= 65 /\ (scale = 100 => start <= 36)  BY DEF ScaledSize, AtLeast, AtMost
<1>. HIDE DEF start
<1>2. fit.font \in Nat /\ fit.font <= AtLeast(start, 26) /\ fit.lines \in 0..2
  <2>. DEFINE width == 904
              smallest == 26
              most == 2
  <2>1. width \in Nat /\ smallest \in Nat /\ smallest > 0 /\ most \in Nat  OBVIOUS
  <2>. HIDE DEF width, smallest, most
  <2>2. LET f == FitFontLines(chars, width, start, smallest, most)
        IN f.font \in Nat /\ f.font <= AtLeast(start, smallest) /\ f.lines \in 0..most
    BY <1>1, <2>1, FittedLines
  <2>. QED  BY <2>2 DEF width, smallest, most
<1>3. fit.font <= 65 /\ (scale = 100 => fit.font <= 36)  BY <1>1, <1>2 DEF AtLeast
<1>4. CoverFit("eyebrow", chars, scale) = fit  BY DEF CoverFit, Width, start
<1>. HIDE DEF fit
<1>. DEFINE step == (6 * fit.font) \div 5 + 8
            fits == (IF fit.lines = 0 THEN 0 ELSE fit.lines * step - 8) + 16
            drawn == fit.lines * step + 16
<1>5. CoverTitleOf("eyebrow", fit) = [fits |-> fits, drawn |-> drawn]
  BY DEF CoverTitleOf, TextHeight, LineHeight, GapSmall, GapLarge
<1>6. step \in Nat /\ step >= 8 /\ step <= 86 /\ (scale = 100 => step <= 51)  BY <1>2, <1>3
<1>. HIDE DEF step
<1>7. fit.lines = 0 \/ fit.lines = 1 \/ fit.lines = 2  BY <1>2
<1>8. fits \in Nat /\ drawn \in Nat /\ drawn <= fits + 8 /\ drawn <= 188 /\ (scale = 100 => drawn <= 118)
  BY <1>6, <1>7
<1>. HIDE DEF fits, drawn
<1>9. CASE chars = 0  BY <1>9 DEF CoverTitle
<1>10. CASE chars # 0
  <2>1. CoverTitle("eyebrow", chars, scale) = [fits |-> fits, drawn |-> drawn]  BY <1>4, <1>5, <1>10 DEF CoverTitle
  <2>. QED  BY <1>8, <2>1
<1>. QED  BY <1>9, <1>10

LEMMA CoverHeadline ==
    ASSUME NEW chars \in Nat, NEW scale \in 100..178
    PROVE  LET title == CoverTitle("headline", chars, scale)
           IN /\ title.fits \in Nat /\ title.drawn \in Nat /\ title.drawn <= title.fits + 12 /\ title.drawn <= 454
              /\ scale = 100 => title.drawn <= 328
<1>. DEFINE start == ScaledSize(72, scale, 18, 112)
            fit == FitFontLines(chars, 896, start, 48, 3)
<1>1. start \in Nat /\ start <= 112 /\ (scale = 100 => start <= 77)  BY DEF ScaledSize, AtLeast, AtMost
<1>. HIDE DEF start
<1>2. fit.font \in Nat /\ fit.font <= AtLeast(start, 48) /\ fit.lines \in 0..3
  <2>. DEFINE width == 896
              smallest == 48
              most == 3
  <2>1. width \in Nat /\ smallest \in Nat /\ smallest > 0 /\ most \in Nat  OBVIOUS
  <2>. HIDE DEF width, smallest, most
  <2>2. LET f == FitFontLines(chars, width, start, smallest, most)
        IN f.font \in Nat /\ f.font <= AtLeast(start, smallest) /\ f.lines \in 0..most
    BY <1>1, <2>1, FittedLines
  <2>. QED  BY <2>2 DEF width, smallest, most
<1>3. fit.font <= 112 /\ (scale = 100 => fit.font <= 77)  BY <1>1, <1>2 DEF AtLeast
<1>4. CoverFit("headline", chars, scale) = fit  BY DEF CoverFit, Width, start
<1>. HIDE DEF fit
<1>. DEFINE step == (6 * fit.font) \div 5 + 12
            fits == (IF fit.lines = 0 THEN 0 ELSE fit.lines * step - 12) + 16
            drawn == fit.lines * step + 16
<1>5. CoverTitleOf("headline", fit) = [fits |-> fits, drawn |-> drawn]
  BY DEF CoverTitleOf, TextHeight, LineHeight, GapMedium, GapLarge
<1>6. step \in Nat /\ step >= 12 /\ step <= 146 /\ (scale = 100 => step <= 104)  BY <1>2, <1>3
<1>. HIDE DEF step
<1>7. fit.lines = 0 \/ fit.lines = 1 \/ fit.lines = 2 \/ fit.lines = 3  BY <1>2
<1>8. fits \in Nat /\ drawn \in Nat /\ drawn <= fits + 12 /\ drawn <= 454 /\ (scale = 100 => drawn <= 328)
  BY <1>6, <1>7
<1>. HIDE DEF fits, drawn
<1>9. CASE chars = 0  BY <1>9 DEF CoverTitle
<1>10. CASE chars # 0
  <2>1. CoverTitle("headline", chars, scale) = [fits |-> fits, drawn |-> drawn]  BY <1>4, <1>5, <1>10 DEF CoverTitle
  <2>. QED  BY <1>8, <2>1
<1>. QED  BY <1>9, <1>10

LEMMA CoverHighlight ==
    ASSUME NEW chars \in Nat, NEW scale \in 100..178
    PROVE  LET title == CoverTitle("highlight", chars, scale)
           IN /\ title.fits \in Nat /\ title.drawn \in Nat /\ title.drawn = title.fits /\ title.drawn <= 340
              /\ scale = 100 => title.drawn <= 246
<1>. DEFINE start == ScaledSize(68, scale, 18, 112)
            fit == FitFontLines(chars, 896, start, 44, 2)
<1>1. start \in Nat /\ start <= 112 /\ (scale = 100 => start <= 73)  BY DEF ScaledSize, AtLeast, AtMost
<1>. HIDE DEF start
<1>2. fit.font \in Nat /\ fit.font <= AtLeast(start, 44) /\ fit.lines \in 0..2
  <2>. DEFINE width == 896
              smallest == 44
              most == 2
  <2>1. width \in Nat /\ smallest \in Nat /\ smallest > 0 /\ most \in Nat  OBVIOUS
  <2>. HIDE DEF width, smallest, most
  <2>2. LET f == FitFontLines(chars, width, start, smallest, most)
        IN f.font \in Nat /\ f.font <= AtLeast(start, smallest) /\ f.lines \in 0..most
    BY <1>1, <2>1, FittedLines
  <2>. QED  BY <2>2 DEF width, smallest, most
<1>3. fit.font <= 112 /\ (scale = 100 => fit.font <= 73)  BY <1>1, <1>2 DEF AtLeast
<1>4. CoverFit("highlight", chars, scale) = fit  BY DEF CoverFit, Width, start
<1>. HIDE DEF fit
<1>. DEFINE step == (6 * fit.font) \div 5 + 6 + 14 + 16
            fits == fit.lines * step
            drawn == fit.lines * step
<1>5. CoverTitleOf("highlight", fit) = [fits |-> fits, drawn |-> drawn]
  BY DEF CoverTitleOf, LineHeight, GapLarge
<1>6. step \in Nat /\ step <= 170 /\ (scale = 100 => step <= 123)  BY <1>2, <1>3
<1>. HIDE DEF step
<1>7. fit.lines = 0 \/ fit.lines = 1 \/ fit.lines = 2  BY <1>2
<1>8. fits \in Nat /\ drawn \in Nat /\ drawn = fits /\ drawn <= 340 /\ (scale = 100 => drawn <= 246)
  BY <1>6, <1>7
<1>. HIDE DEF fits, drawn
<1>9. CASE chars = 0  BY <1>9 DEF CoverTitle
<1>10. CASE chars # 0
  <2>1. CoverTitle("highlight", chars, scale) = [fits |-> fits, drawn |-> drawn]
    BY <1>4, <1>5, <1>10 DEF CoverTitle
  <2>. QED  BY <1>8, <2>1
<1>. QED  BY <1>9, <1>10

\* A cover's titles at a scale, drawn below one another.
TitlesWithin(card, scale) ==
    LET eyebrow == CoverTitle("eyebrow", card.eyebrow, scale).drawn
        headline == CoverTitle("headline", card.headline, scale).drawn
        highlight == CoverTitle("highlight", card.highlight, scale).drawn
        height == CoverTextHeight(card, scale)
    IN /\ eyebrow \in Nat /\ headline \in Nat /\ highlight \in Nat /\ height \in Nat /\ height >= 16
       /\ eyebrow + headline + highlight <= height + 4
       /\ eyebrow + headline + highlight <= 982
       /\ scale = 100 => eyebrow + headline + highlight <= 692

LEMMA CoverHeights ==
    ASSUME NEW card \in CardSlides, NEW scale \in 100..178
    PROVE  TitlesWithin(card, scale)
<1>. DEFINE one == card.eyebrow
            two == card.headline
            three == card.highlight
            eyebrow == CoverTitle("eyebrow", one, scale)
            headline == CoverTitle("headline", two, scale)
            highlight == CoverTitle("highlight", three, scale)
            height == CoverTextHeight(card, scale)
<1>1. one \in Nat /\ two \in Nat /\ three \in Nat  BY DEF CardSlides
<1>2. height = 16 + eyebrow.fits + headline.fits + highlight.fits  BY DEF CoverTextHeight, GapBlock
<1>. HIDE DEF one, two, three, height
<1>3. /\ eyebrow.fits \in Nat /\ eyebrow.drawn \in Nat /\ eyebrow.drawn <= eyebrow.fits + 8 /\ eyebrow.drawn <= 188
      /\ scale = 100 => eyebrow.drawn <= 118
  BY <1>1, CoverEyebrow, ZenonT(30)
<1>4. /\ headline.fits \in Nat /\ headline.drawn \in Nat /\ headline.drawn <= headline.fits + 12 /\ headline.drawn <= 454
      /\ scale = 100 => headline.drawn <= 328
  BY <1>1, CoverHeadline, ZenonT(30)
<1>5. /\ highlight.fits \in Nat /\ highlight.drawn \in Nat /\ highlight.drawn = highlight.fits /\ highlight.drawn <= 340
      /\ scale = 100 => highlight.drawn <= 246
  BY <1>1, CoverHighlight
<1>. HIDE DEF eyebrow, headline, highlight
<1>6. /\ height \in Nat /\ height >= 16
      /\ eyebrow.drawn + headline.drawn + highlight.drawn <= height + 4
      /\ eyebrow.drawn + headline.drawn + highlight.drawn <= 982
      /\ scale = 100 => eyebrow.drawn + headline.drawn + highlight.drawn <= 692
  BY <1>2, <1>3, <1>4, <1>5
<1>. QED  BY <1>3, <1>4, <1>5, <1>6 DEF TitlesWithin, eyebrow, headline, highlight, height, one, two, three

\* Lowering a scale: what fits stays, and what does not gets smaller, until it is 100.
LEMMA LoweredScale ==
    ASSUME NEW card \in CardSlides, NEW scale \in 100..178, NEW available \in Nat, NEW k \in Nat,
           CoverTextHeight(card, scale) <= available \/ scale <= AtLeast(100, 178 - 4 * k)
    PROVE  LET lower == LowerScale(card, scale, available)
           IN /\ lower \in 100..178
              /\ CoverTextHeight(card, lower) <= available \/ lower <= AtLeast(100, 178 - 4 * (k + 1))
<1>. DEFINE height == CoverTextHeight(card, scale)
            a == scale * available * 96
            b == height * 100
<1>1. LowerScale(card, scale, available) = IF scale = 100 \/ height <= available THEN scale ELSE AtLeast(a \div b, 100)
  BY DEF LowerScale
<1>2. height \in Nat /\ height >= 16  BY CoverHeights, SMTT(30) DEF TitlesWithin
<1>3. CASE height <= available
  <2>1. LowerScale(card, scale, available) = scale  BY <1>1, <1>3
  <2>. QED  BY <1>3, <2>1
<1>4. CASE scale = 100
  <2>1. LowerScale(card, scale, available) = 100  BY <1>1, <1>4
  <2>2. 100 \in 100..178 /\ 100 <= AtLeast(100, 178 - 4 * (k + 1))  BY DEF AtLeast
  <2>. QED  BY <2>1, <2>2
<1>5. CASE scale # 100 /\ height > available
  <2>1. LowerScale(card, scale, available) = AtLeast(a \div b, 100)  BY <1>1, <1>2, <1>5
  <2>. HIDE DEF height
  <2>2. scale <= AtLeast(100, 178 - 4 * k)  BY <1>2, <1>5 DEF height
  <2>3. a \in Nat /\ b \in Nat /\ b > 0  BY <1>2
  <2>4. a < b * ((scale - 4) + 1)
    <3>1. PICK m \in Nat : height = available + 1 + m
      <4>1. height - (available + 1) \in Nat  BY <1>2, <1>5
      <4>. QED  BY <1>2, <4>1
    <3>2. b * ((scale - 4) + 1) = (available + 1 + m) * (100 * scale - 300)  BY <3>1
    <3>3. (available + 1 + m) * (100 * scale - 300) = available * (100 * scale - 300) + (1 + m) * (100 * scale - 300)
      OBVIOUS
    <3>4. available * (100 * scale - 300) = a + available * (4 * scale - 300)  OBVIOUS
    <3>5. available * (4 * scale - 300) >= 0 /\ available * (4 * scale - 300) \in Int
      <4>1. 4 * scale - 300 \in Nat  OBVIOUS
      <4>. DEFINE u == 4 * scale - 300
      <4>2. u \in Nat  BY <4>1
      <4>. HIDE DEF u
      <4>3. available * u \in Nat  BY <4>2
      <4>. QED  BY <4>3 DEF u
    <3>6. (1 + m) * (100 * scale - 300) > 0
      <4>. DEFINE u == 100 * scale - 300
      <4>1. u \in Nat /\ u > 0  OBVIOUS
      <4>. HIDE DEF u
      <4>2. (1 + m) * u = u + m * u /\ m * u \in Nat  BY <3>1, <4>1
      <4>3. (1 + m) * u > 0  BY <4>1, <4>2
      <4>. QED  BY <4>3 DEF u
    <3>. QED  BY <2>3, <3>2, <3>3, <3>4, <3>5, <3>6
  <2>. DEFINE s == scale - 4
  <2>5. s \in Int /\ a < b * (s + 1)  BY <2>4
  <2>. HIDE DEF a, b, s
  <2>6. a \div b <= s  BY <2>3, <2>5, DivAtMost
  <2>7. a \div b \in Int  BY <2>3, DivTimes
  <2>8. AtLeast(a \div b, 100) \in 100..178  BY <2>6, <2>7 DEF AtLeast, s
  <2>9. AtLeast(a \div b, 100) <= AtLeast(100, 178 - 4 * (k + 1))  BY <2>2, <2>6, <2>7 DEF AtLeast, s
  <2>. QED  BY <2>1, <2>8, <2>9
<1>. QED  BY <1>2, <1>3, <1>4, <1>5

\* The scales that are tried, one after the other.
Lowers(f, card, available, n) ==
    /\ f[0] = 178
    /\ \A i \in 1..n : f[i] = LowerScale(card, f[i - 1], available)

\* Each fits, or is smaller than the one before.
ScalesTried(card, available, n) ==
    \E f \in [0..n -> 100..178] :
        /\ Lowers(f, card, available, n)
        /\ \A i \in 0..n : CoverTextHeight(card, f[i]) <= available \/ f[i] <= AtLeast(100, 178 - 4 * i)

LEMMA ScalesExist ==
    ASSUME NEW card \in CardSlides, NEW available \in Nat, NEW n \in 0..27
    PROVE  ScalesTried(card, available, n)
<1>. DEFINE Good(f, m) ==
              /\ Lowers(f, card, available, m)
              /\ \A i \in 0..m : CoverTextHeight(card, f[i]) <= available \/ f[i] <= AtLeast(100, 178 - 4 * i)
            Has(m) == \E f \in [0..m -> 100..178] : Good(f, m)
            P == {i \in 1..28 : ~Has(i - 1)}
<1>1. Has(0)
  <2>. DEFINE f == [i \in 0..0 |-> 178]
  <2>1. f \in [0..0 -> 100..178] /\ f[0] = 178  OBVIOUS
  <2>. HIDE DEF f
  <2>2. \A i \in 0..0 : i = 0  OBVIOUS
  <2>3. 178 <= AtLeast(100, 178 - 4 * 0)  BY DEF AtLeast
  <2>4. Lowers(f, card, available, 0)  BY <2>1 DEF Lowers
  <2>5. Good(f, 0)  BY <2>1, <2>2, <2>3, <2>4
  <2>. QED  BY <2>1, <2>5
<1>2. ASSUME NEW m \in 0..26, Has(m) PROVE Has(m + 1)
  <2>1. PICK f \in [0..m -> 100..178] : Good(f, m)  BY <1>2
  <2>. DEFINE s == f[m]
              t == LowerScale(card, s, available)
              g == [i \in 0..(m + 1) |-> IF i = m + 1 THEN t ELSE f[i]]
  <2>2. s \in 100..178 /\ (CoverTextHeight(card, s) <= available \/ s <= AtLeast(100, 178 - 4 * m))  BY <2>1
  <2>. HIDE DEF s
  <2>3. /\ t \in 100..178
        /\ CoverTextHeight(card, t) <= available \/ t <= AtLeast(100, 178 - 4 * (m + 1))
    <3>1. m \in Nat  OBVIOUS
    <3>. QED  BY <2>2, <3>1, LoweredScale
  <2>. HIDE DEF t
  <2>4. /\ g \in [0..(m + 1) -> 100..178] /\ g[m + 1] = t
        /\ \A i \in 0..m : g[i] = f[i]
    BY <2>1, <2>3
  <2>. HIDE DEF g
  <2>5. Lowers(g, card, available, m + 1)
    <3>1. g[0] = 178  BY <2>1, <2>4 DEF Lowers
    <3>2. ASSUME NEW i \in 1..(m + 1) PROVE g[i] = LowerScale(card, g[i - 1], available)
      <4>1. i - 1 \in 0..m /\ g[i - 1] = f[i - 1]  BY <2>4
      <4>2. CASE i = m + 1
        <5>1. g[i] = LowerScale(card, f[i - 1], available)  BY <2>4, <4>2 DEF t, s
        <5>. QED  BY <4>1, <5>1
      <4>3. CASE i \in 1..m
        <5>1. g[i] = f[i]  BY <2>4, <4>3
        <5>2. f[i] = LowerScale(card, f[i - 1], available)  BY <2>1, <4>3 DEF Lowers
        <5>. QED  BY <4>1, <5>1, <5>2
      <4>. QED  BY <4>2, <4>3
    <3>. QED  BY <3>1, <3>2 DEF Lowers
  <2>6. ASSUME NEW i \in 0..(m + 1)
        PROVE  CoverTextHeight(card, g[i]) <= available \/ g[i] <= AtLeast(100, 178 - 4 * i)
    <3>1. CASE i = m + 1  BY <2>3, <2>4, <3>1
    <3>2. CASE i \in 0..m
      <4>1. g[i] = f[i]  BY <2>4, <3>2
      <4>2. CoverTextHeight(card, f[i]) <= available \/ f[i] <= AtLeast(100, 178 - 4 * i)  BY <2>1, <3>2
      <4>. QED  BY <4>1, <4>2
    <3>. QED  BY <3>1, <3>2
  <2>. QED  BY <2>4, <2>5, <2>6
<1>. HIDE DEF Has
<1>3. P = {}
  <2>. SUFFICES ASSUME P # {} PROVE FALSE
    OBVIOUS
  <2>1. PICK i \in P : \A k \in P : i <= k
    <3>. DEFINE m == 28
    <3>1. P \in SUBSET (1..m) /\ m \in Nat  OBVIOUS
    <3>. HIDE DEF P, m
    <3>. QED  BY <3>1, LeastPosition
  <2>2. i \in 1..28 /\ ~Has(i - 1)  BY <2>1
  <2>3. i # 1  BY <1>1, <2>2
  <2>4. i - 1 \in 1..28 /\ i - 1 \notin P  BY <2>1, <2>2, <2>3
  <2>. DEFINE m == i - 2
  <2>5. m \in 0..26 /\ m + 1 = i - 1 /\ (i - 1) - 1 = m  BY <2>2, <2>3
  <2>6. Has(m)  BY <2>4, <2>5
  <2>7. Has(m + 1)  BY <1>2, <2>5, <2>6
  <2>. QED  BY <2>2, <2>5, <2>7
<1>4. n + 1 \in 1..28 /\ (n + 1) - 1 = n  OBVIOUS
<1>5. Has(n)  BY <1>3, <1>4
<1>. QED  BY <1>5 DEF Has, ScalesTried

LEMMA CoverScaleLowered ==
    ASSUME NEW card \in CardSlides, NEW available \in Nat
    PROVE  LET scale == CoverScale(card, available)
           IN scale \in 100..178 /\ (CoverTextHeight(card, scale) <= available \/ scale = 100)
<1>. DEFINE Tried(f) == f = [i \in 0..27 |-> IF i = 0 THEN 178 ELSE LowerScale(card, f[i - 1], available)]
            g == CHOOSE f : Tried(f)
<1>1. PICK f \in [0..27 -> 100..178] :
        /\ Lowers(f, card, available, 27)
        /\ \A i \in 0..27 : CoverTextHeight(card, f[i]) <= available \/ f[i] <= AtLeast(100, 178 - 4 * i)
  <2>. DEFINE n == 27
  <2>1. n \in 0..27  OBVIOUS
  <2>. HIDE DEF n
  <2>2. ScalesTried(card, available, n)  BY <2>1, ScalesExist
  <2>. QED  BY <2>2 DEF n, ScalesTried
<1>2. CoverScale(card, available) = g[27]  BY DEF CoverScale
<1>3. Tried(f)
  <2>1. \A i \in 0..27 : f[i] = IF i = 0 THEN 178 ELSE LowerScale(card, f[i - 1], available)  BY <1>1 DEF Lowers
  <2>. QED  BY <1>1, <2>1
<1>4. Tried(g)
  <2>. HIDE DEF Tried
  <2>. QED  BY <1>3
<1>. HIDE DEF g
<1>5. g[0] = 178 /\ \A i \in 1..27 : g[i] = LowerScale(card, g[i - 1], available)
  <2>1. \A i \in 0..27 : g[i] = IF i = 0 THEN 178 ELSE LowerScale(card, g[i - 1], available)  BY <1>4
  <2>2. 0 \in 0..27 /\ \A i \in 1..27 : i \in 0..27 /\ i # 0  OBVIOUS
  <2>. HIDE DEF Tried
  <2>. QED  BY <2>1, <2>2
<1>. HIDE DEF Tried
<1>. DEFINE P == {i \in 1..28 : g[i - 1] # f[i - 1]}
<1>6. P = {}
  <2>. SUFFICES ASSUME P # {} PROVE FALSE
    OBVIOUS
  <2>1. PICK i \in P : \A k \in P : i <= k
    <3>. DEFINE m == 28
    <3>1. P \in SUBSET (1..m) /\ m \in Nat  OBVIOUS
    <3>. HIDE DEF P, m
    <3>. QED  BY <3>1, LeastPosition
  <2>2. i \in 1..28 /\ g[i - 1] # f[i - 1]  BY <2>1
  <2>3. i # 1  BY <1>1, <1>5, <2>2 DEF Lowers
  <2>. DEFINE m == i - 1
  <2>4. m \in 1..27 /\ m \notin P  BY <2>1, <2>2, <2>3
  <2>5. g[m - 1] = f[m - 1]  BY <2>4
  <2>6. g[m] = LowerScale(card, g[m - 1], available) /\ f[m] = LowerScale(card, f[m - 1], available)
    BY <1>1, <1>5, <2>4 DEF Lowers
  <2>. QED  BY <2>2, <2>5, <2>6
<1>7. g[27] = f[27]
  <2>1. 28 \notin P
    <3>. HIDE DEF P
    <3>. QED  BY <1>6
  <2>. QED  BY <2>1
<1>8. f[27] \in 100..178 /\ (CoverTextHeight(card, f[27]) <= available \/ f[27] <= 100)
  <2>1. 27 \in 0..27 /\ AtLeast(100, 178 - 4 * 27) = 100  BY DEF AtLeast
  <2>2. CoverTextHeight(card, f[27]) <= available \/ f[27] <= AtLeast(100, 178 - 4 * 27)  BY <1>1, <2>1
  <2>. QED  BY <1>1, <2>1, <2>2
<1>. DEFINE s == f[27]
<1>9. s \in 100..178 /\ (CoverTextHeight(card, s) <= available \/ s = 100)
  <2>1. s \in 100..178 /\ (CoverTextHeight(card, s) <= available \/ s <= 100)  BY <1>8
  <2>. HIDE DEF s
  <2>. QED  BY <2>1
<1>. QED  BY <1>2, <1>7, <1>9

\* render_template_cover
LEMMA CoverInOrder ==
    ASSUME NEW card \in CardSlides
    PROVE  InOrder(CoverBlocks(card), 72, 1278)
<1>. DEFINE visual == card.hero \/ card.mascot
            available == IF visual THEN 530 ELSE 1188
            scale == CoverScale(card, available)
            height == CoverTextHeight(card, scale)
            slack == ((available - height) * 8) \div 100
            eyebrow == CoverTitle("eyebrow", card.eyebrow, scale).drawn
            headline == CoverTitle("headline", card.headline, scale).drawn
            highlight == CoverTitle("highlight", card.highlight, scale).drawn
            y == 72 + AtLeast(slack, 16)
            a == y + eyebrow
            b == y + eyebrow + headline
            z == y + eyebrow + headline + highlight
            titles == Block(72, z, {<< <<y, a>>, <<a, b>>, <<b, z>> >>})
            below == z + 22
            last == CoverVisual(card, below)
<1>1. CoverBlocks(card) = <<titles>> \o last
  <2>1. available = IF card.hero \/ card.mascot THEN ((Bottom - Top) * 44) \div 100 ELSE LowerEdge - Top
    BY DEF Bottom, Top, LowerEdge
  <2>. HIDE DEF available
  <2>2. CoverBlocks(card) = CoverScaled(card, scale, available)  BY <2>1 DEF CoverBlocks
  <2>3. CoverScaled(card, scale, available) = CoverAt(card, scale, slack)  BY DEF CoverScaled
  <2>. HIDE DEF scale, slack
  <2>4. CoverAt(card, scale, slack) = CoverFrom(card, y, eyebrow, headline, highlight)
    BY DEF CoverAt, Top, GapBlock
  <2>. HIDE DEF y, eyebrow, headline, highlight
  <2>5. CoverFrom(card, y, eyebrow, headline, highlight) = CoverText(card, y, a, b, z)  BY DEF CoverFrom
  <2>. HIDE DEF a, b, z
  <2>6. CoverText(card, y, a, b, z) = <<titles>> \o last  BY DEF CoverText, Top, GapSection
  <2>. QED  BY <2>2, <2>3, <2>4, <2>5, <2>6
<1>2. available \in Nat /\ (visual => available = 530) /\ (~visual => available = 1188)  OBVIOUS
<1>. HIDE DEF available
<1>3. scale \in 100..178 /\ (height <= available \/ scale = 100)  BY <1>2, CoverScaleLowered
<1>. HIDE DEF scale
<1>4. /\ eyebrow \in Nat /\ headline \in Nat /\ highlight \in Nat /\ height \in Nat /\ height >= 16
      /\ eyebrow + headline + highlight <= height + 4
      /\ eyebrow + headline + highlight <= 982
      /\ scale = 100 => eyebrow + headline + highlight <= 692
  <2>1. scale \in 100..178  BY <1>3
  <2>2. TitlesWithin(card, scale)  BY <2>1, CoverHeights
  <2>. QED  BY <2>2 DEF TitlesWithin
<1>. HIDE DEF height, eyebrow, headline, highlight
<1>5. slack \in Int /\ 100 * slack <= (available - height) * 8 /\ (height > available => slack <= 0) /\ slack <= 93
  BY <1>2, <1>4
<1>. HIDE DEF slack
<1>6. y \in Int /\ 88 <= y  BY <1>5 DEF AtLeast
<1>7. visual => z <= 780
  <2>1. CASE visual /\ height <= available  BY <1>2, <1>4, <1>5, <2>1 DEF AtLeast
  <2>2. CASE visual /\ height > available
    <3>1. scale = 100 /\ slack <= 0  BY <1>2, <1>3, <1>4, <1>5, <2>2
    <3>. QED  BY <1>4, <1>5, <3>1 DEF AtLeast
  <2>. QED  BY <1>2, <1>4, <2>1, <2>2
<1>8. z <= 1147  BY <1>4, <1>5 DEF AtLeast
<1>. HIDE DEF visual
<1>9. y <= a /\ a <= b /\ b <= z /\ a \in Int /\ b \in Int /\ z \in Int  BY <1>4, <1>6
<1>. HIDE DEF y, a, b, z
<1>10. Fills(titles, 72, z)
  <2>. DEFINE from == 72
  <2>1. from \in Int /\ from <= y /\ y <= a /\ a <= b /\ b <= z /\ a <= a /\ b <= b /\ z <= z /\ y \in Int /\ a \in Int
        /\ b \in Int /\ z \in Int /\ from <= z
    BY <1>6, <1>9
  <2>. HIDE DEF from
  <2>2. Stacked(<< <<y, a>>, <<a, b>>, <<b, z>> >>, from, z)  BY <2>1, ThreeParts
  <2>. QED  BY <2>1, <2>2 DEF Fills, Sound, Block, Worded, from
<1>. HIDE DEF titles
<1>11. below \in Int /\ z <= below /\ below <= 1169 /\ (visual => below <= 802)  BY <1>7, <1>8, <1>9
<1>12. InOrder(<<titles>>, 72, below)
  <2>. DEFINE from == 72
  <2>1. from \in Int /\ from <= from /\ z \in Int /\ z <= below /\ below \in Int /\ Fills(titles, from, z)
    BY <1>9, <1>10, <1>11
  <2>. HIDE DEF from, below
  <2>2. InOrder(<<titles>>, from, below)  BY <2>1, OneBlock
  <2>. QED  BY <2>2 DEF from
<1>. HIDE DEF below
<1>13. InOrder(last, below, 1278)
  <2>. DEFINE to == 1260
              limit == 1278
  <2>0. to \in Int /\ limit \in Int /\ to <= limit /\ below <= below  BY <1>11
  <2>1. CASE card.hero
    <3>. DEFINE photo == Block(below, to, {})
    <3>1. last = <<photo>>  BY <2>1 DEF CoverVisual, LowerEdge, Bottom
    <3>2. Fills(photo, below, to)
      <4>1. below <= 1260  BY <1>11
      <4>. QED  BY <1>11, <4>1 DEF Fills, Sound, Block, Worded
    <3>. HIDE DEF photo, to, limit, last
    <3>3. InOrder(<<photo>>, below, limit)  BY <1>11, <2>0, <3>2, OneBlock
    <3>. QED  BY <3>1, <3>3 DEF limit
  <2>2. CASE ~card.hero /\ card.mascot
    <3>. DEFINE mascot == CentredBlock(card.speech, below, to)
    <3>1. last = <<mascot>>  BY <2>2 DEF CoverVisual, LowerEdge, Bottom
    <3>2. Fills(mascot, below, to)
      <4>. DEFINE speech == card.speech
      <4>1. speech \in Nat  BY DEF CardSlides
      <4>2. to - below >= 458  BY <1>11, <2>2 DEF visual
      <4>. HIDE DEF speech, to
      <4>3. Fills(CentredBlock(speech, below, to), below, to)  BY <1>11, <2>0, <4>1, <4>2, CentredSound
      <4>. QED  BY <4>3 DEF speech
    <3>. HIDE DEF mascot, to, limit, last
    <3>3. InOrder(<<mascot>>, below, limit)  BY <1>11, <2>0, <3>2, OneBlock
    <3>. QED  BY <3>1, <3>3 DEF limit
  <2>3. CASE ~card.hero /\ ~card.mascot
    <3>1. last = << >>  BY <2>3 DEF CoverVisual
    <3>. HIDE DEF limit, last
    <3>2. InOrder(<< >>, below, limit)  BY <1>11, <2>0, NoBlock
    <3>. QED  BY <3>1, <3>2 DEF limit
  <2>. QED  BY <2>1, <2>2, <2>3
<1>. HIDE DEF last
<1>14. InOrder(<<titles>> \o last, 72, 1278)
  <2>. DEFINE from == 72
              to == 1278
              first == <<titles>>
  <2>1. from \in Int /\ to \in Int /\ from <= below /\ below <= to /\ below \in Int  BY <1>6, <1>9, <1>11
  <2>2. InOrder(first, from, below) /\ InOrder(last, below, to)  BY <1>12, <1>13
  <2>. HIDE DEF from, to, first
  <2>3. InOrder(first \o last, from, to)  BY <2>1, <2>2, Joined
  <2>. QED  BY <2>3 DEF from, to, first
<1>. QED  BY <1>1, <1>14

----------------------------------------------------------------------------
(* Policy cards: the last one.                                              *)

LEMMA GuideLinesWithin ==
    ASSUME NEW card \in CardSlides, NEW k, NEW width \in Int
    PROVE  GuideLines(card, k, width) \in 0..2
<1>1. CASE k \in DOMAIN card.terms
  <2>. DEFINE terms == card.terms
              chars == terms[k]
              font == 20
  <2>1. terms \in Seq(Nat)  BY DEF CardSlides
  <2>2. k \in DOMAIN terms  BY <1>1
  <2>. HIDE DEF terms
  <2>3. chars \in Nat /\ font \in Nat /\ font > 0  BY <2>1, <2>2
  <2>4. GuideLines(card, k, width) = AtMost(Wrap(chars, font, width), 2)  BY <1>1 DEF GuideLines, terms
  <2>. HIDE DEF chars, font
  <2>5. Wrap(chars, font, width) \in Nat  BY <2>3, WrapType
  <2>. QED  BY <2>4, <2>5 DEF AtMost
<1>2. CASE k \notin DOMAIN card.terms  BY <1>2 DEF GuideLines
<1>. QED  BY <1>1, <1>2

\* The guides: nothing, or a panel above the limit.
LEMMA PanelWithin ==
    ASSUME NEW card \in CardSlides, NEW y \in Int, NEW limit \in Int
    PROVE  LET panel == TermPanel(card, y, limit)
           IN \/ panel = << >>
              \/ \E block : \E b \in Int : panel = <<block>> /\ Fills(block, y, b) /\ b <= limit - 16
<1>. DEFINE lines == GuideLines(card, 1, 892) + GuideLines(card, 2, 892)
            words == TextHeight(AtMost(lines, 3), 20, 8)
            height == AtMost(86 + words, AtLeast(80, limit - y - 16))
            b == AtMost(limit - 16, y + height)
            block == Worded(y, b, {}, TermWords(AtMost(lines, 3), y + 11))
<1>1. CASE card.terms = << >> \/ y >= limit - 60
  <2>1. TermPanel(card, y, limit) = << >>  BY <1>1 DEF TermPanel
  <2>. QED  BY <2>1
<1>2. CASE ~(card.terms = << >> \/ y >= limit - 60)
  <2>1. TermPanel(card, y, limit) = <<TermPanelOf(lines, y, limit)>>  BY <1>2 DEF TermPanel, Width, PanelInset
  <2>2. lines \in 0..4
    <3>. DEFINE width == 892
    <3>1. width \in Int  OBVIOUS
    <3>. HIDE DEF width
    <3>2. GuideLines(card, 1, width) \in 0..2 /\ GuideLines(card, 2, width) \in 0..2  BY <3>1, GuideLinesWithin
    <3>. QED  BY <3>2 DEF width
  <2>. HIDE DEF lines
  <2>3. TermPanelOf(lines, y, limit) = block
    <3>1. 2 * 22 + LineHeight(22, 8) + 8 = 86 /\ 22 \div 2 = 11  BY DEF LineHeight
    <3>. QED  BY <3>1 DEF TermPanelOf, GapSmall, GapBlock, PanelInset
  <2>4. words \in Nat
    <3>1. AtMost(lines, 3) \in Nat  BY <2>2 DEF AtMost
    <3>. DEFINE n == AtMost(lines, 3)
    <3>2. n = 0 \/ n >= 1  BY <3>1
    <3>. HIDE DEF n
    <3>3. TextHeight(n, 20, 8) \in Nat
      <4>1. n \in Nat  BY <3>1 DEF n
      <4>. QED  BY <3>2, <4>1 DEF TextHeight, LineHeight
    <3>. QED  BY <3>3 DEF n
  <2>. HIDE DEF words
  <2>5. height \in Int /\ height >= 80  BY <2>4 DEF AtMost, AtLeast
  <2>. HIDE DEF height
  <2>6. b \in Int /\ y <= b /\ b <= limit - 16  BY <1>2, <2>5 DEF AtMost
  <2>. HIDE DEF b
  <2>7. Fills(block, y, b)  BY <2>6 DEF Fills, Sound, Block, Worded
  <2>. HIDE DEF block
  <2>8. TermPanel(card, y, limit) = <<block>>  BY <2>1, <2>3
  <2>. QED  BY <2>6, <2>7, <2>8
<1>. QED  BY <1>1, <1>2

LEMMA CtaBodyInOrder ==
    ASSUME NEW card \in CardSlides, NEW y \in Int, NEW button \in Int, y <= button
    PROVE  InOrder(CtaBody(card, y, 38, button), y, button)
<1>. DEFINE room == AtLeast((button - 16 - y) \div 53, 0)
            wrapped == Wrap(card.body, 38, 870)
            lines == AtMost(AtMost(wrapped, 2), room)
            b == y + lines * 53
            block == Block(y, b, {})
<1>1. CtaBody(card, y, 38, button) =
        IF card.body = 0 \/ y >= button - 16 \/ lines = 0 THEN << >> ELSE <<block>>
  <2>1. LineHeight(38, 8) = 53  BY DEF LineHeight
  <2>. QED  BY <2>1 DEF CtaBody, GapSmall, GapBlock, Width, PanelInset
<1>2. wrapped \in Nat
  <2>. DEFINE chars == card.body
              font == 38
              width == 870
  <2>1. chars \in Nat /\ font \in Nat /\ font > 0 /\ width \in Int  BY DEF CardSlides
  <2>. HIDE DEF chars, font, width
  <2>2. Wrap(chars, font, width) \in Nat  BY <2>1, WrapType
  <2>. QED  BY <2>2 DEF chars, font, width
<1>. HIDE DEF wrapped
<1>3. CASE card.body = 0 \/ y >= button - 16 \/ lines = 0
  <2>1. CtaBody(card, y, 38, button) = << >>  BY <1>1, <1>3
  <2>. QED  BY <2>1, NoBlock
<1>4. CASE ~(card.body = 0 \/ y >= button - 16 \/ lines = 0)
  <2>1. CtaBody(card, y, 38, button) = <<block>>  BY <1>1, <1>4
  <2>2. lines \in Nat /\ lines * 53 <= button - 16 - y  BY <1>2, <1>4 DEF AtMost, AtLeast
  <2>. HIDE DEF lines
  <2>3. b \in Int /\ y <= b /\ b <= button  BY <2>2
  <2>. HIDE DEF b
  <2>4. Fills(block, y, b)  BY <2>3 DEF Fills, Sound, Block, Worded
  <2>. HIDE DEF block
  <2>5. y <= y  OBVIOUS
  <2>6. InOrder(<<block>>, y, button)  BY <2>3, <2>4, <2>5, OneBlock
  <2>. QED  BY <2>1, <2>6
<1>. QED  BY <1>3, <1>4

\* draw_cta_action_panel
LEMMA ButtonFills ==
    ASSUME NEW chars, NEW top \in Int, NEW bottom \in Int, top <= bottom
    PROVE  Fills(Button(chars, top, bottom), top, bottom)
BY DEF Button, Worded, Fills, Sound

----------------------------------------------------------------------------
(* Policy cards: the last one, from its titles to its URL.                  *)

\* What is left for the titles above guides and body.
LEMMA CtaTitlesWithin ==
    ASSUME NEW card \in CardSlides, NEW button \in Int, button >= 506
    PROVE  CtaTitles(card, 38, button) \in Int /\ 124 <= CtaTitles(card, 38, button)
           /\ CtaTitles(card, 38, button) <= button - 38
<1>. DEFINE wide == 848
            wrapped == Wrap(card.body, 38, 880)
            guide(k) == IF k \in DOMAIN card.terms
                        THEN LineHeight(22, 8) + TextHeight(GuideLines(card, k, wide), 20, 8) ELSE 0
            first == guide(1)
            second == guide(2)
            terms == IF card.terms = << >> THEN 0 ELSE 22 + 22 + first + second
            body == IF card.body = 0 THEN 0 ELSE TextHeight(AtMost(wrapped, 2), 38, 8) + 22
<1>1. CtaTitles(card, 38, button) = AtLeast(88, button - 22 - body - terms - 16)
  <2>1. 936 - 4 * 22 = wide /\ 936 - 56 = 880 /\ 72 + 16 = 88  OBVIOUS
  <2>. QED  BY <2>1 DEF CtaTitles, Top, GapBlock, GapSection, GapSmall, PanelInset, Width
<1>2. ASSUME NEW k PROVE guide(k) \in 0..90
  <2>. DEFINE lines == GuideLines(card, k, wide)
  <2>1. lines \in 0..2
    <3>1. wide \in Int  OBVIOUS
    <3>. HIDE DEF wide
    <3>. QED  BY <3>1, GuideLinesWithin
  <2>. HIDE DEF lines, wide
  <2>2. TextHeight(lines, 20, 8) \in 0..56  BY <2>1 DEF TextHeight, LineHeight
  <2>3. LineHeight(22, 8) = 34  BY DEF LineHeight
  <2>. QED  BY <2>2, <2>3 DEF lines
<1>3. first \in 0..90 /\ second \in 0..90  BY <1>2
<1>. HIDE DEF first, second, guide
<1>4. terms \in 0..224
  <2>. DEFINE sum == 22 + 22 + first + second
  <2>1. sum \in 0..224  BY <1>3
  <2>2. terms = 0 \/ terms = sum  OBVIOUS
  <2>. HIDE DEF sum, terms
  <2>. QED  BY <2>1, <2>2
<1>5. wrapped \in Nat
  <2>. DEFINE chars == card.body
              font == 38
              width == 880
  <2>1. chars \in Nat /\ font \in Nat /\ font > 0 /\ width \in Int  BY DEF CardSlides
  <2>. HIDE DEF chars, font, width
  <2>2. Wrap(chars, font, width) \in Nat  BY <2>1, WrapType
  <2>. QED  BY <2>2 DEF chars, font, width
<1>. HIDE DEF wrapped
<1>6. body \in 0..120
  <2>. DEFINE lines == AtMost(wrapped, 2)
  <2>1. lines \in 0..2  BY <1>5 DEF AtMost
  <2>. HIDE DEF lines
  <2>2. TextHeight(lines, 38, 8) \in 0..98  BY <2>1 DEF TextHeight, LineHeight
  <2>. QED  BY <2>2 DEF lines
<1>. HIDE DEF terms, body
<1>. QED  BY <1>1, <1>4, <1>6 DEF AtLeast

\* Titles, guides and body stand above the button.
LEMMA CtaTextInOrder ==
    ASSUME NEW card \in CardSlides, NEW titles \in Int, NEW button \in Int, 124 <= titles, titles <= button - 38
    PROVE  InOrder(CtaText(card, titles, 38, button), 72, button)
<1>. DEFINE eyebrow == IF card.eyebrow = 0 THEN 3 ELSE card.eyebrow
            headline == IF card.headline = 0 THEN 12 ELSE card.headline
            header == Header(eyebrow, headline, titles)
            panel == CtaPanel(card, header, titles, button)
            y == IF panel = << >> THEN header.next ELSE panel[1].bottom + 22
            body == CtaBody(card, y, 38, button)
<1>1. CtaText(card, titles, 38, button) = <<HeaderBlock(header)>> \o panel \o body
  BY DEF CtaText, CtaHeaded, CtaGuided, GapSection
<1>2. /\ header.end \in Int /\ header.next \in Int
      /\ 88 <= header.end /\ header.end <= header.next /\ header.next <= titles
  <2>1. eyebrow \in Nat /\ headline \in Nat /\ titles >= 124  BY DEF CardSlides
  <2>. HIDE DEF eyebrow, headline
  <2>. QED  BY <2>1, HeaderAbove
<1>. HIDE DEF header
<1>. DEFINE next == header.next
            first == HeaderBlock(header)
<1>3. Fills(first, 72, header.end)  BY <1>2, HeaderFills
<1>. HIDE DEF first
<1>4. \/ panel = << >>
      \/ \E block : \E b \in Int : panel = <<block>> /\ Fills(block, next, b) /\ b <= titles - 16
  <2>1. CASE ~(next < titles)
    <3>1. panel = << >>  BY <2>1 DEF CtaPanel
    <3>. QED  BY <3>1
  <2>2. CASE next < titles
    <3>1. AtMost(titles, button - 16) = titles  BY DEF AtMost
    <3>2. panel = TermPanel(card, next, titles)  BY <2>2, <3>1 DEF CtaPanel, GapBlock
    <3>3. next \in Int  BY <1>2
    <3>. HIDE DEF next, panel
    <3>4. LET p == TermPanel(card, next, titles)
          IN \/ p = << >>
             \/ \E block : \E b \in Int : p = <<block>> /\ Fills(block, next, b) /\ b <= titles - 16
      BY <3>3, PanelWithin
    <3>. QED  BY <3>2, <3>4
  <2>. QED  BY <2>1, <2>2
<1>5. next \in Int /\ 72 <= header.end /\ header.end <= next /\ next <= titles  BY <1>2
<1>6. y \in Int /\ next <= y /\ y <= titles + 6 /\ InOrder(panel, next, y)
  <2>. HIDE DEF panel
  <2>1. CASE panel = << >>
    <3>1. y = next  BY <2>1
    <3>. HIDE DEF next, y
    <3>2. InOrder(<< >>, next, y)  BY <1>5, <3>1, NoBlock
    <3>. QED  BY <1>5, <2>1, <3>1, <3>2
  <2>2. CASE panel # << >>
    <3>1. PICK block : \E b \in Int : panel = <<block>> /\ Fills(block, next, b) /\ b <= titles - 16
      BY <1>4, <2>2
    <3>2. PICK b \in Int : panel = <<block>> /\ Fills(block, next, b) /\ b <= titles - 16  BY <3>1
    <3>3. y = b + 22  BY <2>2, <3>2 DEF Fills
    <3>4. next <= b  BY <3>2 DEF Fills, Sound
    <3>. HIDE DEF next, y
    <3>5. y \in Int /\ b <= y /\ next <= next  BY <1>5, <3>3
    <3>6. InOrder(<<block>>, next, y)  BY <1>5, <3>2, <3>5, OneBlock
    <3>7. next <= y /\ y <= titles + 6  BY <1>5, <3>2, <3>3, <3>4
    <3>. QED  BY <3>2, <3>5, <3>6, <3>7
  <2>. QED  BY <2>1, <2>2
<1>. HIDE DEF panel, y
<1>7. y <= button  BY <1>6
<1>8. InOrder(body, y, button)  BY <1>6, <1>7, CtaBodyInOrder
<1>. DEFINE top == 72
<1>9. top \in Int /\ top <= top /\ top <= next  BY <1>2, <1>5
<1>10. Fills(first, top, header.end)  BY <1>3
<1>. HIDE DEF next, body, top
<1>11. InOrder(<<first>>, top, next)  BY <1>2, <1>5, <1>9, <1>10, OneBlock
<1>12. InOrder(<<first>> \o panel, top, y)  BY <1>5, <1>6, <1>9, <1>11, Joined
<1>13. top <= y  BY <1>5, <1>6, <1>9
<1>14. InOrder((<<first>> \o panel) \o body, top, button)  BY <1>6, <1>7, <1>8, <1>9, <1>12, <1>13, Joined
<1>. QED  BY <1>1, <1>14 DEF top, first

\* Button and URL below the text, above a limit.
LEMMA CtaAboveInOrder ==
    ASSUME NEW card \in CardSlides, NEW limit \in Int, limit >= 690
    PROVE  InOrder(CtaAbove(card, limit), 72, limit)
<1>. DEFINE end == IF card.url THEN limit - 61 ELSE limit
            button == end - 108
            titles == CtaTitles(card, 38, button)
            text == CtaText(card, titles, 38, button)
            panel == Button(card.cta, button, end)
            url == Block(end, end + 37, {})
<1>1. end \in Int /\ button \in Int /\ end = button + 108 /\ 506 <= button /\ end <= limit
  <2>1. end = limit - 61 \/ end = limit  OBVIOUS
  <2>. HIDE DEF end
  <2>. QED  BY <2>1
<1>2. CtaAbove(card, limit) = (text \o <<panel>>) \o (IF card.url THEN <<url>> ELSE << >>)
  <2>1. FillScale(180, AtLeast(120, limit - 72), 108, 148) = 148  BY DEF FillScale, AtLeast
  <2>2. ScaledSize(96, 148, 76, 108) = 108  BY DEF ScaledSize, AtLeast, AtMost
  <2>3. ScaledSize(20, 148, 18, 112) = 31  BY DEF ScaledSize, AtLeast, AtMost
  <2>4. ScaledSize(24, 148, 20, 112) = 38  BY DEF ScaledSize, AtLeast, AtMost
  <2>5. LineHeight(31, 8) = 45 /\ LineHeight(31, 0) = 37  BY DEF LineHeight
  <2>6. CtaAbove(card, limit) = CtaBox(card, 108, 31, 148, limit)
    BY <2>1, <2>2, <2>3 DEF CtaAbove, CtaScaled, Top
  <2>. DEFINE urlHeight == IF card.url THEN 61 ELSE 0
  <2>7. AtLeast(limit - urlHeight - 108, 88) = button
    <3>1. limit - urlHeight = end  OBVIOUS
    <3>. HIDE DEF end, urlHeight
    <3>2. urlHeight \in Int  BY DEF urlHeight
    <3>. QED  BY <1>1, <3>1, <3>2 DEF AtLeast
  <2>8. CtaBox(card, 108, 31, 148, limit) = CtaFrom(card, 38, button, button + 108, 31, limit)
    <3>1. 72 + 16 = 88 /\ 45 + 16 = 61  OBVIOUS
    <3>2. CtaBox(card, 108, 31, 148, limit)
            = LET b == AtLeast(limit - urlHeight - 108, 88) IN CtaFrom(card, 38, b, b + 108, 31, limit)
      BY <2>4, <2>5, <3>1 DEF CtaBox, Top, GapBlock, GapSmall, GapLarge
    <3>. HIDE DEF button, urlHeight
    <3>. QED  BY <2>7, <3>2
  <2>9. card.url => CtaUrl(31, end, limit) = <<url>>
    <3>1. ASSUME card.url PROVE AtMost(end + 16, limit - 45 - 16) = end  BY <3>1 DEF AtMost
    <3>. HIDE DEF end
    <3>. QED  BY <2>5, <3>1 DEF CtaUrl, GapLarge, GapSmall, GapBlock
  <2>10. button + 108 = end  BY <1>1
  <2>11. CtaFrom(card, 38, button, end, 31, limit) = (text \o <<panel>>) \o (IF card.url THEN <<url>> ELSE << >>)
    <3>. HIDE DEF end, button
    <3>. QED  BY <2>9 DEF CtaFrom
  <2>. QED  BY <2>6, <2>8, <2>10, <2>11
<1>3. card.url => end + 37 <= limit  OBVIOUS
<1>. HIDE DEF end, url
<1>5. titles \in Int /\ 124 <= titles /\ titles <= button - 38  BY <1>1, CtaTitlesWithin
<1>. HIDE DEF titles
<1>6. InOrder(text, 72, button)  BY <1>1, <1>5, CtaTextInOrder
<1>7. Fills(panel, button, end)
  <2>1. button <= end  BY <1>1
  <2>. QED  BY <1>1, <2>1, ButtonFills
<1>. DEFINE top == 72
<1>8. top \in Int /\ top <= button /\ button <= end /\ top <= end  BY <1>1
<1>9. InOrder(text, top, button)  BY <1>6
<1>. HIDE DEF text, panel, button, top
<1>10. button <= button /\ end <= end  BY <1>1
<1>11. InOrder(<<panel>>, button, end)  BY <1>1, <1>7, <1>10, OneBlock
<1>12. InOrder(text \o <<panel>>, top, end)  BY <1>1, <1>8, <1>9, <1>11, Joined
<1>. DEFINE list == text \o <<panel>>
            below == IF card.url THEN <<url>> ELSE << >>
<1>13. InOrder(below, end, limit)
  <2>1. CASE ~card.url
    <3>1. InOrder(<< >>, end, limit)  BY <1>1, NoBlock
    <3>. QED  BY <2>1, <3>1
  <2>2. CASE card.url
    <3>. DEFINE b == end + 37
    <3>1. Fills(url, end, b)  BY <1>1 DEF url, Fills, Sound, Block, Worded
    <3>2. b \in Int /\ b <= limit  BY <1>1, <1>3, <2>2
    <3>. HIDE DEF b
    <3>3. InOrder(<<url>>, end, limit)  BY <1>1, <1>10, <3>1, <3>2, OneBlock
    <3>. QED  BY <2>2, <3>3
  <2>. QED  BY <2>1, <2>2
<1>14. InOrder(list, top, end)  BY <1>12
<1>15. CtaAbove(card, limit) = list \o below  BY <1>2
<1>. HIDE DEF list, below
<1>16. InOrder(list \o below, top, limit)  BY <1>1, <1>8, <1>13, <1>14, Joined
<1>. QED  BY <1>15, <1>16 DEF top

LEMMA CtaInOrder ==
    ASSUME NEW card \in CardSlides
    PROVE  InOrder(CtaBlocks(card), 72, 1260)
<1>. DEFINE h == card.mascot
            speech == IF card.speech = 0 THEN 10 ELSE card.speech
            bottom == 1260
            y == bottom - CtaMascotZone(speech)
            limit == y - 36
            block == CentredBlock(speech, y, bottom)
<1>1. bottom - 0 = LowerEdge  BY DEF LowerEdge, Bottom
<1>2. CASE h
  <2>1. speech \in Nat /\ speech > 0  BY DEF CardSlides
  <2>2. CtaBlocks(card) = CtaAbove(card, limit) \o <<block>>
    <3>1. LowerEdge = bottom  BY DEF LowerEdge, Bottom
    <3>. HIDE DEF bottom
    <3>2. CtaBlocks(card) = CtaWithMascot(card, speech, y)  BY <1>2, <3>1 DEF CtaBlocks
    <3>. HIDE DEF y, speech
    <3>. QED  BY <3>1, <3>2 DEF CtaWithMascot
  <2>. HIDE DEF speech
  <2>3. y = 790 \/ y = 734
    <3>1. CtaMascotZone(speech) \in {470, 526}  BY <2>1, CtaMascotZoneWithin
    <3>. QED  BY <3>1
  <2>. HIDE DEF y
  <2>4. limit \in Int /\ limit >= 690  BY <2>3
  <2>5. y \in Int /\ bottom \in Int /\ bottom - y >= 458 /\ y <= y /\ bottom <= bottom /\ y <= bottom  BY <2>3
  <2>6. limit <= y  BY <2>3
  <2>. DEFINE top == 72
  <2>7. top \in Int /\ top <= limit /\ top <= y  BY <2>3
  <2>. HIDE DEF limit, bottom
  <2>8. InOrder(CtaAbove(card, limit), 72, limit)  BY <2>4, CtaAboveInOrder
  <2>9. InOrder(CtaAbove(card, limit), top, limit)  BY <2>8
  <2>10. Fills(block, y, bottom)  BY <2>1, <2>5, CentredSound
  <2>. DEFINE list == CtaAbove(card, limit)
  <2>. HIDE DEF block, top, list
  <2>11. InOrder(<<block>>, y, bottom)  BY <2>5, <2>10, OneBlock
  <2>12. top <= top  BY <2>7
  <2>13. InOrder(list, top, limit)  BY <2>9 DEF list
  <2>14. InOrder(list, top, y)  BY <2>4, <2>5, <2>6, <2>7, <2>12, <2>13, WiderOrder
  <2>15. InOrder(list \o <<block>>, top, bottom)  BY <2>5, <2>7, <2>11, <2>14, Joined
  <2>. QED  BY <2>2, <2>15 DEF list, top, bottom
<1>3. CASE ~h
  <2>1. CtaBlocks(card) = CtaAbove(card, bottom)
    <3>1. LowerEdge = bottom  BY DEF LowerEdge, Bottom
    <3>. HIDE DEF bottom
    <3>. QED  BY <1>3, <3>1 DEF CtaBlocks
  <2>2. bottom \in Int /\ bottom >= 690  OBVIOUS
  <2>. HIDE DEF bottom
  <2>3. InOrder(CtaAbove(card, bottom), 72, bottom)  BY <2>2, CtaAboveInOrder
  <2>. QED  BY <2>1, <2>3 DEF bottom
<1>. QED  BY <1>2, <1>3

----------------------------------------------------------------------------
(* Contest cards: texts.                                                    *)

LEMMA SizedWithin ==
    ASSUME NEW size \in Nat
    PROVE  Sized(size) \in Nat /\ Sized(size) >= 18
BY DEF Sized, AtLeast

LEMMA SingleFits ==
    ASSUME NEW chars \in Nat, NEW width \in Int, NEW size \in Nat, NEW most \in Nat
    PROVE  LET fit == FitSingle(chars, width, size, most)
           IN /\ fit.font = Sized(size) /\ fit.font \in Nat /\ fit.font > 0
              /\ fit.lines \in 0..most
              /\ chars > 0 /\ most > 0 => fit.lines >= 1
<1>. DEFINE font == Sized(size)
            wrapped == Wrap(chars, font, width)
<1>1. font \in Nat /\ font > 0  BY SizedWithin
<1>2. FitSingle(chars, width, size, most) = [font |-> font, lines |-> AtMost(wrapped, most)]  BY DEF FitSingle
<1>. HIDE DEF font
<1>3. wrapped \in Nat /\ (chars > 0 => wrapped >= 1)  BY <1>1, WrapType
<1>. HIDE DEF wrapped
<1>4. AtMost(wrapped, most) \in 0..most /\ (chars > 0 /\ most > 0 => AtMost(wrapped, most) >= 1)  BY <1>3 DEF AtMost
<1>. QED  BY <1>1, <1>2, <1>4 DEF font

\* Where drawn lines end.
LEMMA EndWithin ==
    ASSUME NEW fit, fit.font \in Nat, fit.font > 0, fit.lines \in Nat, NEW y \in Int, NEW limit \in Int
    PROVE  LET end == LinesEnd(fit, 8, y, limit)
           IN end \in Int /\ y <= end /\ end <= AtLeast(y, limit)
<1>. DEFINE gap == 8
            step == LineHeight(fit.font, gap)
            end == LinesEnd(fit, gap, y, limit)
<1>1. gap \in Nat  OBVIOUS
<1>2. step \in Nat  BY DEF LineHeight
<1>. HIDE DEF gap
<1>3. PICK n \in 0..fit.lines : end = y + step * n /\ end \in Int /\ end <= AtLeast(y, limit)
  BY <1>1, LinesEndWithin
<1>. HIDE DEF step, end
<1>4. step * n >= 0  BY <1>2
<1>5. step * n \in Int  BY <1>2
<1>6. end \in Int /\ y <= end /\ end <= AtLeast(y, limit)  BY <1>3, <1>4, <1>5
<1>. QED  BY <1>6 DEF end, gap

LEMMA HeightType ==
    ASSUME NEW fit, fit.font \in Nat, fit.font > 0, fit.lines \in Nat
    PROVE  Height(fit) \in Nat
<1>. DEFINE step == LineHeight(fit.font, 8)
            lines == fit.lines
<1>1. step \in Nat /\ step >= 9  BY DEF LineHeight
<1>2. Height(fit) = IF lines = 0 THEN 0 ELSE lines * step - 8  BY DEF Height, TextHeight, GapSmall
<1>3. lines \in Nat  OBVIOUS
<1>. HIDE DEF step, lines
<1>4. CASE lines = 0  BY <1>2, <1>4
<1>5. CASE lines # 0
  <2>1. PICK m \in Nat : lines = m + 1
    <3>1. lines - 1 \in Nat  BY <1>3, <1>5
    <3>. QED  BY <1>3, <3>1
  <2>2. lines * step = m * step + step  BY <1>1, <2>1
  <2>3. m * step \in Nat  BY <1>1, <2>1
  <2>. QED  BY <1>1, <1>2, <1>5, <2>2, <2>3
<1>. QED  BY <1>4, <1>5

LEMMA TextInOrder ==
    ASSUME NEW a \in Int, NEW b \in Int, a <= b
    PROVE  InOrder(Text(a, b), a, b)
<1>1. CASE a < b
  <2>1. Fills(Block(a, b, {}), a, b)  BY DEF Fills, Sound, Block, Worded
  <2>. DEFINE block == Block(a, b, {})
  <2>2. Text(a, b) = <<block>>  BY <1>1 DEF Text
  <2>3. Fills(block, a, b)  BY <2>1
  <2>. HIDE DEF block
  <2>4. a <= a /\ b <= b  OBVIOUS
  <2>5. InOrder(<<block>>, a, b)  BY <2>3, <2>4, OneBlock
  <2>. QED  BY <2>2, <2>5
<1>2. CASE ~(a < b)
  <2>1. Text(a, b) = << >>  BY <1>2 DEF Text
  <2>2. InOrder(<< >>, a, b)  BY NoBlock
  <2>. QED  BY <2>1, <2>2
<1>. QED  BY <1>1, <1>2

\* Texts one below the other, of which those are drawn that have room above a limit.
LEMMA DrawnInOrder ==
    ASSUME NEW first, NEW second, NEW third,
           NEW a \in Int, NEW b \in Int, NEW c \in Int, NEW d \in Int, NEW e \in Int, NEW f \in Int,
           first = <<a, b>>, second = <<c, d>>, third = <<e, f>>,
           a <= b, b <= c, c <= d, d <= e, e <= f, NEW limit \in Int, a <= limit,
           b <= AtLeast(a, limit), d <= AtLeast(c, limit), f <= AtLeast(e, limit)
    PROVE  InOrder(Drawn(first, second, third), a, limit)
<1>. DEFINE low(x) == AtMost(x, limit)
            w == low(c)
            x == low(e)
<1>1. ASSUME NEW p \in Int, NEW q \in Int, p <= q, q <= AtLeast(p, limit)
      PROVE  InOrder(Text(p, q), AtMost(p, limit), AtMost(q, limit))
  <2>1. CASE p <= limit
    <3>1. AtMost(p, limit) = p /\ AtMost(q, limit) = q  BY <1>1, <2>1 DEF AtMost, AtLeast
    <3>2. InOrder(Text(p, q), p, q)  BY <1>1, TextInOrder
    <3>. QED  BY <3>1, <3>2
  <2>2. CASE p > limit
    <3>1. p = q  BY <1>1, <2>2 DEF AtLeast
    <3>2. AtMost(p, limit) = limit /\ AtMost(q, limit) = limit  BY <2>2, <3>1 DEF AtMost
    <3>3. Text(p, q) = << >>  BY <3>1 DEF Text
    <3>4. InOrder(<< >>, limit, limit)  BY NoBlock
    <3>. QED  BY <3>2, <3>3, <3>4
  <2>. QED  BY <2>1, <2>2
<1>2. InOrder(Text(a, b), low(a), low(b)) /\ InOrder(Text(c, d), low(c), low(d)) /\ InOrder(Text(e, f), low(e), low(f))
  BY <1>1
<1>3. low(a) = a  BY DEF AtMost
<1>4. /\ w \in Int /\ x \in Int /\ a <= w /\ w <= x /\ x <= limit /\ low(b) \in Int /\ low(d) \in Int /\ low(f) \in Int
      /\ low(b) <= w /\ low(d) <= x /\ low(f) <= limit
  BY DEF AtMost
<1>. DEFINE one == Text(a, b)
            two == Text(c, d)
            three == Text(e, f)
            b1 == low(b)
            d1 == low(d)
            f1 == low(f)
<1>5. InOrder(one, a, b1) /\ InOrder(two, w, d1) /\ InOrder(three, x, f1)  BY <1>2, <1>3
<1>6. b1 \in Int /\ d1 \in Int /\ f1 \in Int /\ b1 <= w /\ d1 <= x /\ f1 <= limit  BY <1>4
<1>7. Drawn(first, second, third) = (one \o two) \o three  BY DEF Drawn
<1>. HIDE DEF w, x, one, two, three, b1, d1, f1
<1>8. a <= a /\ w <= w /\ x <= x /\ a <= x  BY <1>4
<1>9. InOrder(one, a, w)  BY <1>4, <1>5, <1>6, <1>8, WiderOrder
<1>10. InOrder(two, w, x)  BY <1>4, <1>5, <1>6, <1>8, WiderOrder
<1>11. InOrder(three, x, limit)  BY <1>4, <1>5, <1>6, <1>8, WiderOrder
<1>12. InOrder(one \o two, a, x)  BY <1>4, <1>9, <1>10, Joined
<1>13. InOrder((one \o two) \o three, a, limit)  BY <1>4, <1>8, <1>11, <1>12, Joined
<1>. QED  BY <1>7, <1>13

----------------------------------------------------------------------------
(* Contest cards: texts in a space.                                         *)

LEMMA InBandWithin ==
    ASSUME NEW fit, fit.font \in Nat, fit.font > 0, fit.lines \in Nat, NEW top \in Int, NEW bottom \in Int, top <= bottom
    PROVE  \E a \in Int, b \in Int : InBand(fit, top, bottom) = <<a, b>> /\ top <= a /\ a <= b /\ b <= bottom
<1>. DEFINE high == Height(fit)
            y == Centre(top, bottom, high)
            end == LinesEnd(fit, 8, y, bottom)
<1>1. high \in Nat  BY HeightType
<1>2. InBand(fit, top, bottom) = <<y, end>>  BY DEF InBand, GapSmall
<1>. HIDE DEF high
<1>3. y \in Int /\ top <= y /\ y <= bottom  BY <1>1 DEF Centre, AtLeast
<1>. HIDE DEF y
<1>4. end \in Int /\ y <= end /\ end <= AtLeast(y, bottom)  BY <1>3, EndWithin
<1>. HIDE DEF end
<1>5. end <= bottom  BY <1>3, <1>4 DEF AtLeast
<1>. QED  BY <1>2, <1>3, <1>4, <1>5

\* draw_accent_pill: nothing, or a pill of two lines' room.
LEMMA PillInOrder ==
    ASSUME NEW chars \in Nat, NEW width \in Int, NEW top \in Int, NEW bottom \in Int, bottom - top >= 36,
           NEW size \in Nat
    PROVE  LET from == AtLeast(bottom - Height(FitSingle(chars, width - 96, size, 2)) - 36, top)
           IN from \in Int /\ top <= from /\ from <= bottom /\ InOrder(Pill(chars, width, top, bottom, size), from, bottom)
<1>. DEFINE w == width - 96
            most == 2
            fit == FitSingle(chars, w, size, most)
            high == Height(fit)
            from == AtLeast(bottom - high - 36, top)
            text == from + AtLeast(18, (bottom - from - high) \div 2)
            end == LinesEnd(fit, 8, text, bottom - 8)
            block == Block(from, bottom, {<< <<text, end>> >>})
<1>1. fit.font \in Nat /\ fit.font > 0 /\ fit.lines \in Nat
  <2>1. w \in Int /\ most \in Nat  OBVIOUS
  <2>. HIDE DEF w, most
  <2>2. fit.font \in Nat /\ fit.font > 0 /\ fit.lines \in 0..most  BY <2>1, SingleFits
  <2>. QED  BY <2>1, <2>2
<1>2. Pill(chars, width, top, bottom, size) = IF chars = 0 THEN << >> ELSE <<block>>  BY DEF Pill, GapSmall
<1>3. from = AtLeast(bottom - Height(FitSingle(chars, width - 96, size, 2)) - 36, top)  OBVIOUS
<1>. HIDE DEF fit
<1>4. high \in Nat  BY <1>1, HeightType
<1>. HIDE DEF high
<1>5. from \in Int /\ top <= from /\ from <= bottom - 36  BY <1>4 DEF AtLeast
<1>. HIDE DEF from
<1>6. text \in Int /\ from <= text /\ text <= bottom - 8  BY <1>4, <1>5 DEF AtLeast
<1>. DEFINE low == bottom - 8
<1>7. low \in Int  OBVIOUS
<1>. HIDE DEF text
<1>8. end \in Int /\ text <= end /\ end <= AtLeast(text, low)
  <2>. HIDE DEF low
  <2>1. LET e == LinesEnd(fit, 8, text, low) IN e \in Int /\ text <= e /\ e <= AtLeast(text, low)
    BY <1>1, <1>6, <1>7, EndWithin
  <2>. QED  BY <2>1 DEF low
<1>. HIDE DEF end
<1>9. end <= bottom  BY <1>6, <1>8 DEF AtLeast
<1>10. Stacked(<< <<text, end>> >>, from, bottom)  BY <1>5, <1>6, <1>8, <1>9, OnePart
<1>11. from <= bottom /\ from <= from /\ bottom <= bottom  BY <1>5
<1>12. Fills(block, from, bottom)  BY <1>5, <1>10, <1>11 DEF Fills, Sound, Block, Worded
<1>. HIDE DEF block
<1>13. InOrder(<<block>>, from, bottom)  BY <1>5, <1>11, <1>12, OneBlock
<1>14. InOrder(<< >>, from, bottom)  BY <1>5, NoBlock
<1>15. InOrder(Pill(chars, width, top, bottom, size), from, bottom)
  <2>1. CASE chars = 0  BY <1>2, <1>14, <2>1
  <2>2. CASE chars # 0  BY <1>2, <1>13, <2>2
  <2>. QED  BY <2>1, <2>2
<1>. QED  BY <1>3, <1>5, <1>11, <1>15

\* draw_point_footer
LEMMA PointInOrder ==
    ASSUME NEW card
    PROVE  InOrder(Point(card), 1222, 1270)
<1>. DEFINE a == 1222
            b == 1270
            block == Block(a, b, {})
<1>1. Point(card) = IF card.point = 0 THEN << >> ELSE <<block>>
  <2>1. Sized(32) = 40 /\ LineHeight(40, 0) = 48  BY DEF Sized, AtLeast, LineHeight
  <2>2. 1270 - 56 + 8 = a /\ a + 48 = b  OBVIOUS
  <2>. HIDE DEF a, b
  <2>. QED  BY <2>1, <2>2 DEF Point, ContestBottom, PointHeight
<1>2. a \in Int /\ b \in Int /\ a <= a /\ b <= b /\ a <= b  OBVIOUS
<1>. HIDE DEF a, b
<1>3. Fills(block, a, b)  BY <1>2 DEF Fills, Sound, Block, Worded
<1>. HIDE DEF block
<1>4. InOrder(<<block>>, a, b)  BY <1>2, <1>3, OneBlock
<1>5. InOrder(<< >>, a, b)  BY <1>2, NoBlock
<1>. QED  BY <1>1, <1>4, <1>5 DEF a, b

\* draw_wrapped_block
LEMMA WrappedWithin ==
    ASSUME NEW chars \in Nat, NEW width \in Int, NEW y \in Int, NEW limit \in Int,
           NEW start \in Nat, NEW smallest \in Nat, NEW most \in Nat
    PROVE  LET end == WrappedEnd(chars, width, y, limit, start, smallest, most)
           IN /\ end \in Int /\ y <= end /\ end <= AtLeast(y, limit)
              /\ chars = 0 => end = y
<1>. DEFINE fitting == {s \in SizesTried(start, smallest) : Height(FitSingle(chars, width, s, most)) <= limit - y}
            size == IF fitting = {} THEN smallest ELSE Max(fitting)
            fit == FitSingle(chars, width, size, most)
            end == LinesEnd(fit, 8, y, limit)
<1>1. WrappedEnd(chars, width, y, limit, start, smallest, most) = IF chars = 0 \/ limit - y < 12 THEN y ELSE end
  BY DEF WrappedEnd, GapSmall
<1>2. size \in Nat
  <2>1. CASE fitting = {}  BY <2>1
  <2>2. CASE fitting # {}
    <3>1. fitting \in SUBSET SizesTried(start, smallest)  OBVIOUS
    <3>. DEFINE P == fitting
    <3>. HIDE DEF fitting
    <3>2. Max(fitting) \in Nat  BY <2>2, <3>1, SizesTriedType
    <3>. QED  BY <2>2, <3>2
  <2>. QED  BY <2>1, <2>2
<1>. HIDE DEF size
<1>3. fit.font \in Nat /\ fit.font > 0 /\ fit.lines \in 0..most  BY <1>2, SingleFits
<1>. HIDE DEF fit
<1>4. fit.lines \in Nat  BY <1>3
<1>5. end \in Int /\ y <= end /\ end <= AtLeast(y, limit)  BY <1>3, <1>4, EndWithin
<1>. HIDE DEF end
<1>6. y <= y /\ y <= AtLeast(y, limit)  BY DEF AtLeast
<1>. QED  BY <1>1, <1>5, <1>6

\* The first size is taken where it is not too high.
LEMMA WrappedAtFirstSize ==
    ASSUME NEW chars \in Nat, NEW width \in Int, NEW y \in Int, NEW limit \in Int,
           NEW start \in Nat, NEW smallest \in Nat, smallest <= start, NEW most \in Nat,
           chars > 0, limit - y >= 12, Height(FitSingle(chars, width, start, most)) <= limit - y
    PROVE  WrappedEnd(chars, width, y, limit, start, smallest, most)
             = LinesEnd(FitSingle(chars, width, start, most), 8, y, limit)
<1>. DEFINE fitting == {s \in SizesTried(start, smallest) : Height(FitSingle(chars, width, s, most)) <= limit - y}
            size == IF fitting = {} THEN smallest ELSE Max(fitting)
<1>1. WrappedEnd(chars, width, y, limit, start, smallest, most) = LinesEnd(FitSingle(chars, width, size, most), 8, y, limit)
  BY DEF WrappedEnd, GapSmall
<1>2. start \in fitting
  <2>1. start - start = 0 /\ 0 % 2 = 0 /\ start \in smallest..start  OBVIOUS
  <2>. QED  BY <2>1 DEF SizesTried
<1>3. fitting \in SUBSET (0..start)  BY DEF SizesTried
<1>. HIDE DEF fitting
<1>4. Max(fitting) \in fitting /\ \A k \in fitting : k <= Max(fitting)  BY <1>2, <1>3, LargestSize
<1>5. Max(fitting) \in 0..start  BY <1>3, <1>4
<1>. DEFINE m == Max(fitting)
<1>6. m \in 0..start /\ start <= m  BY <1>2, <1>4, <1>5
<1>. HIDE DEF m
<1>7. m = start  BY <1>6
<1>8. size = start  BY <1>2, <1>7 DEF m
<1>. QED  BY <1>1, <1>8

----------------------------------------------------------------------------
(* Contest cards: rows.                                                     *)

\* Each row begins 22 below the one above it.
LEMMA RowOffsets ==
    ASSUME NEW n \in 0..4, NEW heights \in [1..n -> Nat]
    PROVE  /\ RowOffset(heights, 1) = 0
           /\ \A k \in 1..n : /\ RowOffset(heights, k) \in Nat
                              /\ RowOffset(heights, k + 1) = RowOffset(heights, k) + heights[k] + 22
           /\ n = 0 => Total(heights) = -22
           /\ n > 0 => Total(heights) = RowOffset(heights, n) + heights[n]
<1>. DEFINE H(j) == IF j \in 1..n THEN heights[j] + 22 ELSE 0
            a == H(1)
            b == H(2)
            c == H(3)
            d == H(4)
            sum(k) == (IF 1 < k THEN a ELSE 0) + (IF 2 < k THEN b ELSE 0) + (IF 3 < k THEN c ELSE 0)
                        + (IF 4 < k THEN d ELSE 0)
<1>1. \A k \in 1..n : heights[k] \in Nat /\ H(k) = heights[k] + 22  OBVIOUS
<1>2. a \in Nat /\ b \in Nat /\ c \in Nat /\ d \in Nat
  <2>1. ASSUME NEW j \in 1..4 PROVE H(j) \in Nat
    <3>1. CASE j \in 1..n
      <4>1. heights[j] \in Nat  BY <3>1
      <4>. QED  BY <3>1, <4>1
    <3>2. CASE j \notin 1..n  BY <3>2
    <3>. QED  BY <3>1, <3>2
  <2>. HIDE DEF H
  <2>. QED  BY <2>1
<1>3. ASSUME NEW k \in 1..5 PROVE RowOffset(heights, k) = sum(k)
  <2>1. DOMAIN heights = 1..n  OBVIOUS
  <2>. DEFINE step(j) == IF j < k /\ j \in DOMAIN heights THEN heights[j] + 22 ELSE 0
  <2>2. ASSUME NEW j \in 1..4 PROVE step(j) = IF j < k THEN H(j) ELSE 0  BY <2>1
  <2>3. RowOffset(heights, k) = step(1) + step(2) + step(3) + step(4)  BY DEF RowOffset
  <2>4. step(1) = (IF 1 < k THEN a ELSE 0) /\ step(2) = (IF 2 < k THEN b ELSE 0)
        /\ step(3) = (IF 3 < k THEN c ELSE 0) /\ step(4) = (IF 4 < k THEN d ELSE 0)
    <3>. HIDE DEF step, H
    <3>. QED  BY <2>2
  <2>. HIDE DEF step, a, b, c, d
  <2>. QED  BY <2>3, <2>4
<1>4. ASSUME NEW k \in 1..n
      PROVE  RowOffset(heights, k) \in Nat /\ RowOffset(heights, k + 1) = RowOffset(heights, k) + heights[k] + 22
  <2>1. k \in 1..4 /\ k \in 1..5 /\ k + 1 \in 1..5  OBVIOUS
  <2>2. RowOffset(heights, k) = sum(k) /\ RowOffset(heights, k + 1) = sum(k + 1)
    <3>. HIDE DEF sum
    <3>. QED  BY <1>3, <2>1
  <2>3. /\ k = 1 => H(k) = a
        /\ k = 2 => H(k) = b
        /\ k = 3 => H(k) = c
        /\ k = 4 => H(k) = d
    OBVIOUS
  <2>4. H(k) = heights[k] + 22  BY <1>1
  <2>5. H(k) \in Nat  BY <1>1
  <2>. DEFINE h == H(k)
  <2>. HIDE DEF a, b, c, d, H
  <2>6. sum(k) \in Nat /\ sum(k + 1) = sum(k) + h
    <3>. HIDE DEF h
    <3>1. (k = 1 => h = a) /\ (k = 2 => h = b) /\ (k = 3 => h = c) /\ (k = 4 => h = d)  BY <2>3 DEF h
    <3>. QED  BY <1>2, <2>1, <3>1, SMTT(30)
  <2>7. heights[k] \in Nat  BY <1>1
  <2>. HIDE DEF sum
  <2>. QED  BY <2>2, <2>4, <2>6, <2>7
<1>5. RowOffset(heights, 1) = 0
  <2>1. 1 \in 1..5 /\ sum(1) = 0  BY <1>2
  <2>. HIDE DEF sum
  <2>. QED  BY <1>3, <2>1
<1>6. Total(heights) = sum(5) - 22
  <2>1. 5 \in 1..5  OBVIOUS
  <2>. HIDE DEF sum
  <2>. QED  BY <1>3, <2>1 DEF Total
<1>7. n = 0 => Total(heights) = -22
  <2>1. n = 0 => sum(5) = 0  OBVIOUS
  <2>. HIDE DEF sum
  <2>. QED  BY <1>6, <2>1
<1>8. ASSUME n > 0 PROVE Total(heights) = RowOffset(heights, n) + heights[n]
  <2>1. n \in 1..n /\ n \in 1..5 /\ n + 1 \in 1..5  BY <1>8
  <2>2. RowOffset(heights, n) \in Nat /\ RowOffset(heights, n + 1) = RowOffset(heights, n) + heights[n] + 22
    BY <1>4, <2>1
  <2>3. RowOffset(heights, n + 1) = sum(n + 1)
    <3>. HIDE DEF sum
    <3>. QED  BY <1>3, <2>1
  <2>4. sum(n + 1) = sum(5)
    <3>1. (n < 2 => b = 0) /\ (n < 3 => c = 0) /\ (n < 4 => d = 0)  OBVIOUS
    <3>. HIDE DEF a, b, c, d
    <3>. QED  BY <1>2, <1>8, <3>1
  <2>5. heights[n] \in Nat  BY <2>1
  <2>. HIDE DEF sum
  <2>. QED  BY <1>6, <2>2, <2>3, <2>4, <2>5
<1>. QED  BY <1>4, <1>5, <1>7, <1>8

\* Rows of these heights, from a height downwards.
LEMMA RowsBelow ==
    ASSUME NEW n \in 0..4, NEW heights \in [1..n -> Nat], NEW S, NEW list \in [1..n -> S], NEW y \in Int,
           \A k \in 1..n : Fills(list[k], y + RowOffset(heights, k), y + RowOffset(heights, k) + heights[k])
    PROVE  InOrder(list, y, AtLeast(y, y + Total(heights)))
<1>. DEFINE off(k) == RowOffset(heights, k)
            end == AtLeast(y, y + Total(heights))
<1>0. n \in Nat  OBVIOUS
<1>1. Len(list) = n /\ list \in Seq(S)  BY <1>0, ListOf
<1>2. /\ off(1) = 0
      /\ \A k \in 1..n : off(k) \in Nat /\ off(k + 1) = off(k) + heights[k] + 22
      /\ n = 0 => Total(heights) = -22
      /\ n > 0 => Total(heights) = off(n) + heights[n]
  BY RowOffsets
<1>3. \A k \in 1..n : heights[k] \in Nat  OBVIOUS
<1>4. \A k \in 1..n : Fills(list[k], y + off(k), y + off(k) + heights[k])  OBVIOUS
<1>. HIDE DEF off
<1>5. Total(heights) \in Int
  <2>1. CASE n = 0  BY <1>2, <2>1
  <2>2. CASE n > 0
    <3>1. n \in 1..n  BY <2>2
    <3>2. off(n) \in Nat /\ heights[n] \in Nat  BY <1>2, <1>3, <3>1
    <3>. QED  BY <1>2, <2>2, <3>2
  <2>. QED  BY <2>1, <2>2
<1>6. ASSUME NEW k \in 1..n, k < n PROVE off(k) + heights[k] <= off(k + 1) /\ off(k) <= off(k + 1)
  <2>1. off(k) \in Nat /\ heights[k] \in Nat /\ off(k + 1) = off(k) + heights[k] + 22  BY <1>2, <1>3
  <2>. QED  BY <2>1
<1>7. ASSUME NEW k \in 1..n PROVE off(k) + heights[k] <= Total(heights)
  <2>1. \A j \in 1..n : off(j) \in Nat /\ heights[j] \in Nat  BY <1>2, <1>3
  <2>2. n > 0  OBVIOUS
  <2>3. Total(heights) = off(n) + heights[n]  BY <1>2, <2>2
  <2>4. off(n) <= Total(heights)
    <3>1. n \in 1..n  BY <2>2
    <3>2. off(n) \in Nat /\ heights[n] \in Nat  BY <2>1, <3>1
    <3>. QED  BY <2>3, <3>2
  <2>5. CASE k = n  BY <2>1, <2>3, <2>5
  <2>6. CASE k < n
    <3>. DEFINE above(j) == off(k) + heights[k] <= off(j)
    <3>1. above(k + 1)  BY <1>6, <2>6
    <3>2. ASSUME NEW j \in 1..n, j < n, above(j) PROVE above(j + 1)
      <4>1. off(j) <= off(j + 1)  BY <1>6, <3>2
      <4>2. j + 1 \in 1..n  BY <3>2
      <4>3. off(j) \in Nat /\ off(j + 1) \in Nat /\ off(k) \in Nat /\ heights[k] \in Nat  BY <2>1, <4>2
      <4>. QED  BY <3>2, <4>1, <4>3
    <3>. HIDE DEF above
    <3>3. k + 1 = n \/ k + 2 = n \/ k + 3 = n  BY <2>6
    <3>4. k + 1 < n => above(k + 2)
      <4>. DEFINE j == k + 1
      <4>1. k + 1 < n => j \in 1..n /\ j < n /\ above(j)  BY <2>6, <3>1
      <4>2. j + 1 = k + 2  OBVIOUS
      <4>. HIDE DEF j
      <4>. QED  BY <3>2, <4>1, <4>2
    <3>5. k + 2 < n => above(k + 3)
      <4>. DEFINE j == k + 2
      <4>1. k + 2 < n => j \in 1..n /\ j < n /\ above(j)  BY <2>6, <3>4
      <4>2. j + 1 = k + 3  OBVIOUS
      <4>. HIDE DEF j
      <4>. QED  BY <3>2, <4>1, <4>2
    <3>6. above(n)  BY <2>6, <3>1, <3>3, <3>4, <3>5
    <3>7. off(k) \in Nat /\ heights[k] \in Nat /\ n \in 1..n /\ off(n) \in Nat  BY <2>1, <2>2
    <3>8. Total(heights) \in Int  BY <2>1, <2>3, <3>7
    <3>. QED  BY <2>4, <3>6, <3>7, <3>8 DEF above
  <2>. QED  BY <2>5, <2>6
<1>8. ASSUME NEW k \in 1..n PROVE Sound(list[k]) /\ y <= list[k].top /\ list[k].bottom <= end
  <2>1. off(k) \in Nat /\ heights[k] \in Nat /\ off(k) + heights[k] <= Total(heights)  BY <1>2, <1>3, <1>7
  <2>2. Sound(list[k]) /\ list[k].top = y + off(k) /\ list[k].bottom = y + off(k) + heights[k]  BY <1>4 DEF Fills
  <2>3. y <= y + off(k) /\ y + off(k) + heights[k] <= end  BY <1>5, <2>1 DEF AtLeast
  <2>. HIDE DEF end
  <2>. QED  BY <2>2, <2>3
<1>9. ASSUME NEW k \in 1..n - 1 PROVE list[k].bottom <= list[k + 1].top
  <2>1. k \in 1..n /\ k < n /\ k + 1 \in 1..n  OBVIOUS
  <2>2. off(k) \in Nat /\ heights[k] \in Nat /\ off(k + 1) \in Nat /\ off(k) + heights[k] <= off(k + 1)
    BY <1>2, <1>3, <1>6, <2>1
  <2>3. list[k].bottom = y + off(k) + heights[k] /\ list[k + 1].top = y + off(k + 1)  BY <1>4, <2>1 DEF Fills
  <2>. QED  BY <2>2, <2>3
<1>. HIDE DEF end
<1>10. InOrder(list, y, end)  BY <1>1, <1>8, <1>9 DEF InOrder
<1>. QED  BY <1>10 DEF end

\* slide_items
LEMMA ItemsOf ==
    ASSUME NEW card \in ContestSlides
    PROVE  /\ Items(card) \in Seq(Nat \X Nat) /\ Len(Items(card)) \in 0..4
           /\ Len(Items(card)) = 4 => Len(card.items) >= 4
<1>. DEFINE all == card.items
            most == 4
            first == SubSeq(all, 1, AtMost(most, Len(all)))
            only == << <<0, card.body>> >>
            l == Len(all)
<1>1. all \in Seq(Nat \X Nat) /\ most \in Nat /\ card.body \in Nat  BY DEF ContestSlides
<1>2. Items(card) = IF all = << >> /\ card.body > 0 THEN only ELSE first  BY DEF Items
<1>3. only \in Seq(Nat \X Nat) /\ Len(only) = 1  BY <1>1
<1>4. first \in Seq(Nat \X Nat) /\ Len(first) = AtMost(most, l)
  <2>. HIDE DEF all, most
  <2>. QED  BY <1>1, FirstItems
<1>5. l \in Nat  BY <1>1
<1>. HIDE DEF first, only, all
<1>. DEFINE m == Len(first)
<1>6. m \in 0..4 /\ (m = 4 => l >= 4)
  <2>1. m = AtMost(4, l)  BY <1>4
  <2>. HIDE DEF m, l
  <2>. QED  BY <1>5, <2>1 DEF AtMost
<1>7. CASE all = << >> /\ card.body > 0
  <2>1. Items(card) = only  BY <1>2, <1>7
  <2>2. Items(card) \in Seq(Nat \X Nat) /\ Len(Items(card)) = 1  BY <1>3, <2>1
  <2>3. Len(Items(card)) \in 0..4 /\ Len(Items(card)) # 4  BY <2>2
  <2>. QED  BY <2>2, <2>3
<1>8. CASE ~(all = << >> /\ card.body > 0)
  <2>1. Items(card) = first  BY <1>2, <1>8
  <2>. QED  BY <1>4, <1>6, <2>1 DEF all
<1>. QED  BY <1>7, <1>8

----------------------------------------------------------------------------
(* Contest cards: the summary and the checklist.                            *)

LEMMA TableHeightWithin ==
    ASSUME NEW item \in Nat \X Nat
    PROVE  TableHeight(item) \in Nat /\ 90 <= TableHeight(item) /\ TableHeight(item) <= 267
<1>. DEFINE chars == item[2]
            lines == AtMost(Wrap(chars, 43, 780), 3)
<1>1. Sized(34) = 43 /\ LineHeight(43, 8) = 59  BY DEF Sized, AtLeast, LineHeight
<1>2. TableText(item).font = 43 /\ TableText(item).lines = lines
  BY <1>1 DEF TableText, FitSingle, Column
<1>3. TableHeight(item) = 90 + lines * 59
  <2>. HIDE DEF lines
  <2>. QED  BY <1>1, <1>2 DEF TableHeight, GapSmall
<1>4. chars \in Nat  OBVIOUS
<1>5. lines \in 0..3
  <2>. DEFINE font == 43
              width == 780
              wrapped == Wrap(chars, font, width)
  <2>1. font \in Nat /\ font > 0 /\ width \in Int  OBVIOUS
  <2>. HIDE DEF font, width, chars
  <2>2. wrapped \in Nat  BY <1>4, <2>1, WrapType
  <2>3. lines = AtMost(wrapped, 3)  BY DEF font, width
  <2>. HIDE DEF wrapped, lines
  <2>. QED  BY <2>2, <2>3 DEF AtMost
<1>. HIDE DEF lines
<1>. QED  BY <1>3, <1>5

LEMMA TableRowFills ==
    ASSUME NEW item \in Nat \X Nat, NEW top \in Int, NEW bottom \in Int, bottom - top >= 90
    PROVE  Fills(TableRow(item, top, bottom), top, bottom)
<1>. DEFINE label == FitSingle(IF item[1] = 0 THEN 2 ELSE item[1], 780, 28, 1)
            text == TableText(item)
            mid == top + 58
            low == top + 66
            end == bottom - 8
            span == InBand(label, top, mid)
            below == InBand(text, low, end)
<1>1. TableRow(item, top, bottom) = Block(top, bottom, {<<span, below>>})
  <2>1. 812 - 32 = 780  OBVIOUS
  <2>. QED  BY <2>1 DEF TableRow, Column
<1>2. label.font \in Nat /\ label.font > 0 /\ label.lines \in Nat
  <2>. DEFINE chars == IF item[1] = 0 THEN 2 ELSE item[1]
              width == 780
              size == 28
              most == 1
  <2>1. chars \in Nat /\ width \in Int /\ size \in Nat /\ most \in Nat  OBVIOUS
  <2>. HIDE DEF chars, width, size, most
  <2>2. LET fit == FitSingle(chars, width, size, most) IN fit.font \in Nat /\ fit.font > 0 /\ fit.lines \in 0..most
    BY <2>1, SingleFits
  <2>3. LET fit == FitSingle(chars, width, size, most) IN fit.font \in Nat /\ fit.font > 0 /\ fit.lines \in Nat
    BY <2>1, <2>2
  <2>. QED  BY <2>3 DEF chars, width, size, most
<1>3. text.font \in Nat /\ text.font > 0 /\ text.lines \in Nat
  <2>. DEFINE chars == item[2]
              width == 780
              size == 34
              most == 3
  <2>1. chars \in Nat /\ width \in Int /\ size \in Nat /\ most \in Nat  OBVIOUS
  <2>2. text = FitSingle(chars, width, size, most)  BY DEF TableText, Column
  <2>. HIDE DEF chars, width, size, most, text
  <2>3. LET fit == FitSingle(chars, width, size, most) IN fit.font \in Nat /\ fit.font > 0 /\ fit.lines \in 0..most
    BY <2>1, SingleFits
  <2>. QED  BY <2>1, <2>2, <2>3
<1>4. mid \in Int /\ top <= mid /\ low \in Int /\ mid <= low /\ end \in Int /\ low <= end /\ end <= bottom  OBVIOUS
<1>. HIDE DEF label, text, mid, low, end
<1>5. PICK a \in Int, b \in Int : span = <<a, b>> /\ top <= a /\ a <= b /\ b <= mid  BY <1>2, <1>4, InBandWithin
<1>6. PICK c \in Int, d \in Int : below = <<c, d>> /\ low <= c /\ c <= d /\ d <= end  BY <1>3, <1>4, InBandWithin
<1>. HIDE DEF span, below
<1>7. b <= c /\ d <= bottom  BY <1>4, <1>5, <1>6
<1>8. Stacked(<< <<a, b>>, <<c, d>> >>, top, bottom)  BY <1>5, <1>6, <1>7, TwoParts
<1>9. top <= bottom  BY <1>4
<1>10. Fills(Block(top, bottom, {<< <<a, b>>, <<c, d>> >>}), top, bottom)  BY <1>8, <1>9 DEF Fills, Sound, Block, Worded
<1>. QED  BY <1>1, <1>5, <1>6, <1>10

LEMMA TableRowsInOrder ==
    ASSUME NEW items \in Seq(Nat \X Nat), Len(items) \in 0..4, NEW heights,
           heights = [k \in DOMAIN items |-> TableHeight(items[k])], NEW y \in Int
    PROVE  InOrder(TableRows(items, heights, y), y, AtLeast(y, y + Total(heights)))
<1>. DEFINE n == Len(items)
            at(k) == y + RowOffset(heights, k)
            row(k) == TableRow(items[k], at(k), at(k) + heights[k])
            list == [k \in 1..n |-> row(k)]
            S == {row(k) : k \in 1..n}
<1>1. DOMAIN items = 1..n /\ n \in 0..4 /\ \A k \in 1..n : items[k] \in Nat \X Nat  OBVIOUS
<1>2. TableRows(items, heights, y) = list  BY <1>1 DEF TableRows
<1>3. ASSUME NEW k \in 1..n PROVE heights[k] \in Nat /\ heights[k] >= 90
  <2>1. items[k] \in Nat \X Nat  BY <1>1
  <2>2. heights[k] = TableHeight(items[k])  BY <1>1
  <2>3. TableHeight(items[k]) \in Nat /\ 90 <= TableHeight(items[k])  BY <2>1, TableHeightWithin
  <2>. QED  BY <2>2, <2>3
<1>4. heights \in [1..n -> Nat]  BY <1>1, <1>3
<1>. HIDE DEF n
<1>5. \A k \in 1..n : RowOffset(heights, k) \in Nat  BY <1>1, <1>4, RowOffsets
<1>6. ASSUME NEW k \in 1..n PROVE Fills(row(k), at(k), at(k) + heights[k])
  <2>. DEFINE a == at(k)
              b == at(k) + heights[k]
              item == items[k]
  <2>1. item \in Nat \X Nat  BY <1>1
  <2>2. a \in Int /\ b \in Int /\ b - a >= 90
    <3>. DEFINE off == RowOffset(heights, k)
                h == heights[k]
    <3>1. off \in Nat /\ h \in Nat /\ h >= 90  BY <1>3, <1>5
    <3>2. a = y + off /\ b = y + off + h  OBVIOUS
    <3>. HIDE DEF off, h, a, b
    <3>. QED  BY <3>1, <3>2
  <2>. HIDE DEF a, b, item
  <2>3. Fills(TableRow(item, a, b), a, b)  BY <2>1, <2>2, TableRowFills
  <2>. QED  BY <2>3 DEF a, b, item
<1>7. list \in [1..n -> S] /\ \A k \in 1..n : list[k] = row(k)
  <2>. HIDE DEF row
  <2>. QED  OBVIOUS
<1>8. \A k \in 1..n : Fills(list[k], at(k), at(k) + heights[k])
  <2>. HIDE DEF row, at, list
  <2>. QED  BY <1>6, <1>7
<1>. HIDE DEF row, list, S
<1>9. InOrder(list, y, AtLeast(y, y + Total(heights)))  BY <1>1, <1>4, <1>7, <1>8, RowsBelow
<1>. QED  BY <1>2, <1>9

\* Titles of summary and checklist.
LEMMA RowTitleWithin ==
    ASSUME NEW chars \in Nat, NEW limit \in Int, limit >= 344
    PROVE  LET end == LinesEnd(TitleFit(chars, 44), 8, 194, limit)
           IN end \in Int /\ 194 <= end /\ end <= 344
<1>. DEFINE lines == AtMost(Wrap(chars, 56, 812), 2)
            fit == TitleFit(chars, 44)
            end == LinesEnd(fit, 8, 194, limit)
<1>1. Sized(44) = 56 /\ LineHeight(56, 8) = 75  BY DEF Sized, AtLeast, LineHeight
<1>2. fit = [font |-> 56, lines |-> lines]  BY <1>1 DEF TitleFit, FitSingle, Column
<1>3. lines \in 0..2
  <2>. DEFINE font == 56
              width == 812
              wrapped == Wrap(chars, font, width)
  <2>1. font \in Nat /\ font > 0 /\ width \in Int  OBVIOUS
  <2>. HIDE DEF font, width
  <2>2. wrapped \in Nat  BY <2>1, WrapType
  <2>3. lines = AtMost(wrapped, 2)  BY DEF font, width
  <2>. HIDE DEF wrapped, lines
  <2>. QED  BY <2>2, <2>3 DEF AtMost
<1>. HIDE DEF lines
<1>4. end = 194 + 75 * AtMost(lines, AtLeast((limit - 194) \div 75, 0))  BY <1>1, <1>2 DEF LinesEnd
<1>5. AtLeast((limit - 194) \div 75, 0) >= 2 /\ AtLeast((limit - 194) \div 75, 0) \in Int  BY DEF AtLeast
<1>6. AtMost(lines, AtLeast((limit - 194) \div 75, 0)) = lines  BY <1>3, <1>5 DEF AtMost
<1>7. end = 194 + 75 * lines  BY <1>4, <1>6
<1>. HIDE DEF end
<1>8. end \in Int /\ 194 <= end /\ end <= 344  BY <1>3, <1>7
<1>. QED  BY <1>8 DEF end

\* All rows together.
LEMMA TotalOf ==
    ASSUME NEW n \in 0..4, NEW heights \in [1..n -> Nat]
    PROVE  Total(heights) = (IF n >= 1 THEN heights[1] + 22 ELSE 0) + (IF n >= 2 THEN heights[2] + 22 ELSE 0)
                              + (IF n >= 3 THEN heights[3] + 22 ELSE 0) + (IF n >= 4 THEN heights[4] + 22 ELSE 0) - 22
<1>1. DOMAIN heights = 1..n  OBVIOUS
<1>. DEFINE step(j) == IF j < 5 /\ j \in DOMAIN heights THEN heights[j] + 22 ELSE 0
<1>2. RowOffset(heights, 5) = step(1) + step(2) + step(3) + step(4)  BY DEF RowOffset
<1>3. step(1) = IF n >= 1 THEN heights[1] + 22 ELSE 0  BY <1>1
<1>4. step(2) = IF n >= 2 THEN heights[2] + 22 ELSE 0  BY <1>1
<1>5. step(3) = IF n >= 3 THEN heights[3] + 22 ELSE 0  BY <1>1
<1>6. step(4) = IF n >= 4 THEN heights[4] + 22 ELSE 0  BY <1>1
<1>. HIDE DEF step
<1>. QED  BY <1>2, <1>3, <1>4, <1>5, <1>6 DEF Total

LEMMA TotalAtMost ==
    ASSUME NEW n \in 0..4, NEW heights \in [1..n -> Nat], NEW most \in Nat, \A k \in 1..n : heights[k] <= most
    PROVE  /\ Total(heights) \in Int /\ Total(heights) >= -22
           /\ n < 4 => Total(heights) <= 3 * most + 44
           /\ Total(heights) <= 4 * most + 66
<1>. DEFINE a == IF n >= 1 THEN heights[1] + 22 ELSE 0
            b == IF n >= 2 THEN heights[2] + 22 ELSE 0
            c == IF n >= 3 THEN heights[3] + 22 ELSE 0
            d == IF n >= 4 THEN heights[4] + 22 ELSE 0
            high == most + 22
<1>1. Total(heights) = a + b + c + d - 22  BY TotalOf
<1>2. high \in Nat  OBVIOUS
<1>3. ASSUME NEW k \in 1..n PROVE heights[k] + 22 \in Nat /\ heights[k] + 22 <= high
  <2>1. heights[k] \in Nat /\ heights[k] <= most  OBVIOUS
  <2>. QED  BY <2>1
<1>4. a \in Nat /\ a <= high
  <2>1. CASE 1 \in 1..n  BY <1>3, <2>1
  <2>2. CASE 1 \notin 1..n
    <3>1. a = 0  BY <2>2
    <3>. HIDE DEF a, high
    <3>. QED  BY <1>2, <3>1
  <2>. QED  BY <2>1, <2>2
<1>5. b \in Nat /\ b <= high
  <2>1. CASE 2 \in 1..n  BY <1>3, <2>1
  <2>2. CASE 2 \notin 1..n
    <3>1. b = 0  BY <2>2
    <3>. HIDE DEF b, high
    <3>. QED  BY <1>2, <3>1
  <2>. QED  BY <2>1, <2>2
<1>6. c \in Nat /\ c <= high
  <2>1. CASE 3 \in 1..n  BY <1>3, <2>1
  <2>2. CASE 3 \notin 1..n
    <3>1. c = 0  BY <2>2
    <3>. HIDE DEF c, high
    <3>. QED  BY <1>2, <3>1
  <2>. QED  BY <2>1, <2>2
<1>7. d \in Nat /\ d <= high /\ (n < 4 => d = 0)
  <2>1. CASE 4 \in 1..n  BY <1>3, <2>1
  <2>2. CASE 4 \notin 1..n
    <3>1. d = 0  BY <2>2
    <3>. HIDE DEF d, high
    <3>. QED  BY <1>2, <3>1
  <2>. QED  BY <2>1, <2>2
<1>8. high = most + 22  OBVIOUS
<1>. HIDE DEF a, b, c, d, high
<1>9. Total(heights) \in Int /\ Total(heights) >= -22  BY <1>1, <1>4, <1>5, <1>6, <1>7
<1>10. n < 4 => Total(heights) <= 3 * most + 44  BY <1>1, <1>4, <1>5, <1>6, <1>7, <1>8
<1>11. Total(heights) <= 4 * most + 66  BY <1>1, <1>4, <1>5, <1>6, <1>7, <1>8
<1>. QED  BY <1>9, <1>10, <1>11

\* The rows of the summary.
LEMMA TableTotal ==
    ASSUME NEW items \in Seq(Nat \X Nat), Len(items) \in 0..3, NEW heights,
           heights = [k \in DOMAIN items |-> TableHeight(items[k])]
    PROVE  Total(heights) \in Int /\ Total(heights) >= -22 /\ Total(heights) <= 845
<1>. DEFINE n == Len(items)
            most == 267
            total == Total(heights)
<1>1. DOMAIN items = 1..n /\ n < 4 /\ n \in 0..4 /\ \A k \in 1..n : items[k] \in Nat \X Nat
  <2>1. DOMAIN items = 1..n /\ \A k \in 1..n : items[k] \in Nat \X Nat  OBVIOUS
  <2>. HIDE DEF n
  <2>2. n \in 0..3  BY DEF n
  <2>3. n < 4 /\ n \in 0..4  BY <2>2
  <2>. QED  BY <2>1, <2>3
<1>2. most \in Nat  OBVIOUS
<1>3. ASSUME NEW k \in 1..n PROVE heights[k] \in Nat /\ heights[k] <= most
  <2>. DEFINE item == items[k]
  <2>1. item \in Nat \X Nat  BY <1>1
  <2>2. heights[k] = TableHeight(item)  BY <1>1
  <2>. HIDE DEF item
  <2>3. TableHeight(item) \in Nat /\ TableHeight(item) <= most  BY <2>1, TableHeightWithin
  <2>. QED  BY <2>2, <2>3
<1>4. heights \in [1..n -> Nat]  BY <1>1, <1>3
<1>. HIDE DEF n, most
<1>5. \A k \in 1..n : heights[k] <= most  BY <1>3
<1>6. total \in Int /\ total >= -22 /\ total <= 3 * most + 44  BY <1>1, <1>2, <1>4, <1>5, TotalAtMost
<1>. HIDE DEF total
<1>7. total <= 845  BY <1>6 DEF most
<1>. QED  BY <1>6, <1>7 DEF total

LEMMA TableInOrder ==
    ASSUME NEW card \in ContestSlides, Len(card.items) < 4
    PROVE  InOrder(ContestTable(card), 166, 1270)
<1>. DEFINE items == Items(card)
            heights == [k \in DOMAIN items |-> TableHeight(items[k])]
            chars == IF card.headline = 0 THEN 6 ELSE card.headline
            total == Total(heights)
            bottom == 1214
            a == 194
            gap == 8
            title == LinesEnd(TitleFit(chars, 44), gap, a, bottom)
            y == Centre(title + 30, 1194, total)
            rowBlocks == TableRows(items, heights, y)
            point == Point(card)
            b == 1222
            c == 1270
            end == AtLeast(y, y + total)
            text == Text(a, title)
<1>1. title \in Int /\ 194 <= title /\ title <= 344
  <2>1. chars \in Nat /\ bottom \in Int /\ bottom >= 344  BY DEF ContestSlides
  <2>. HIDE DEF chars, bottom
  <2>. QED  BY <2>1, RowTitleWithin
<1>2. ContestTable(card) = (text \o rowBlocks) \o point
  <2>. DEFINE low == 1194
              from == title + 30
  <2>1. ContentBottom(FALSE, TRUE) = bottom /\ ContestTop + 28 = a /\ GapSmall = gap /\ bottom - ElementGap = low
    BY DEF ContentBottom, ContestBottom, ContestTop, PointHeight, GapSmall, ElementGap
  <2>2. title + 10 + ElementGap = from
    <3>. HIDE DEF title
    <3>. QED  BY <1>1 DEF ElementGap
  <2>. HIDE DEF a, gap, bottom, low, from
  <2>3. ContestTable(card) = TableBelow(card, heights, title)  BY <2>1 DEF ContestTable
  <2>4. y = Centre(from, low, total)  BY DEF from, low
  <2>. HIDE DEF title, heights, y
  <2>5. TableBelow(card, heights, title) = (text \o rowBlocks) \o point
    BY <2>1, <2>2, <2>4 DEF TableBelow
  <2>. QED  BY <2>3, <2>5
<1>3. items \in Seq(Nat \X Nat) /\ Len(items) \in 0..3
  <2>. DEFINE n == Len(items)
              l == Len(card.items)
  <2>1. items \in Seq(Nat \X Nat) /\ n \in 0..4 /\ (n = 4 => l >= 4)  BY ItemsOf
  <2>2. l \in Nat /\ l < 4  BY DEF ContestSlides
  <2>. HIDE DEF n, l
  <2>3. n \in 0..3  BY <2>1, <2>2
  <2>. QED  BY <2>1, <2>3 DEF n
<1>. HIDE DEF items, chars, title
<1>5. total \in Int /\ total >= -22 /\ total <= 845  BY <1>3, TableTotal
<1>. HIDE DEF heights, total
<1>7. y \in Int /\ a <= y /\ title <= y /\ y <= b /\ y + total <= b
  <2>. DEFINE space == 1164 - title - total
              extra == AtLeast(space \div 2, 0)
  <2>1. total \in Int /\ space \in Int  BY <1>1, <1>5
  <2>2. y = title + 30 + extra
    <3>1. 1194 - (title + 30) - total = space  BY <1>1, <2>1
    <3>. HIDE DEF space
    <3>. QED  BY <3>1 DEF Centre
  <2>3. space = 1164 - title - total  OBVIOUS
  <2>. HIDE DEF space, y
  <2>4. extra \in Nat /\ (extra = 0 \/ 2 * extra <= space)  BY <2>1 DEF AtLeast
  <2>. HIDE DEF extra
  <2>5. y \in Int /\ title + 30 <= y  BY <1>1, <2>2, <2>4
  <2>6. a <= y /\ title <= y /\ y <= b
    <3>1. total \in Int /\ total >= -22  BY <1>5
    <3>. QED  BY <1>1, <2>2, <2>3, <2>4, <2>5, <3>1
  <2>7. y + total <= b  BY <1>1, <1>5, <2>1, <2>2, <2>3, <2>4
  <2>. QED  BY <2>5, <2>6, <2>7
<1>. HIDE DEF y
<1>8. a \in Int /\ b \in Int /\ c \in Int /\ a <= title /\ b <= c /\ a <= b /\ a <= a  BY <1>1
<1>9. end \in Int /\ end <= b  BY <1>5, <1>7 DEF AtLeast
<1>10. InOrder(rowBlocks, y, end)
  <2>1. Len(items) \in 0..4  BY <1>3
  <2>. QED  BY <1>3, <1>7, <2>1, TableRowsInOrder, ZenonT(30) DEF heights, total
<1>. HIDE DEF b, c
<1>11. InOrder(point, b, c)  BY PointInOrder DEF b, c
<1>. HIDE DEF a, end
<1>12. InOrder(text, a, title)  BY <1>1, <1>8, TextInOrder
<1>. HIDE DEF text, rowBlocks, point
<1>13. InOrder(text, a, y)  BY <1>1, <1>7, <1>8, <1>12, WiderOrder
<1>14. y <= y  BY <1>7
<1>15. InOrder(rowBlocks, y, b)  BY <1>7, <1>8, <1>9, <1>10, <1>14, WiderOrder
<1>16. InOrder(text \o rowBlocks, a, b)  BY <1>7, <1>8, <1>13, <1>15, Joined
<1>17. InOrder((text \o rowBlocks) \o point, a, c)  BY <1>8, <1>11, <1>16, Joined
<1>. DEFINE top == 166
<1>18. top \in Int /\ top <= a /\ c <= c  BY <1>8 DEF a
<1>. HIDE DEF top
<1>. DEFINE list == (text \o rowBlocks) \o point
<1>19. InOrder(list, a, c)  BY <1>17
<1>. HIDE DEF list
<1>20. InOrder(list, top, c)  BY <1>8, <1>18, <1>19, WiderOrder
<1>. QED  BY <1>2, <1>20 DEF list, top, c

LEMMA CheckHeightWithin ==
    ASSUME NEW item \in Nat \X Nat
    PROVE  CheckHeight(item) \in Nat /\ 64 <= CheckHeight(item) /\ CheckHeight(item) <= 144
           /\ CheckText(item).font \in Nat /\ CheckText(item).font > 0 /\ CheckText(item).lines \in Nat
<1>. DEFINE chars == item[2]
            width == 734
            size == 32
            most == 2
            text == FitSingle(chars, width, size, most)
            lines == text.lines
            high == lines * 56 + 32
<1>1. chars \in Nat /\ width \in Int /\ size \in Nat /\ most \in Nat  OBVIOUS
<1>2. CheckText(item) = text  BY DEF CheckText, Column
<1>3. text.font = Sized(size) /\ text.font \in Nat /\ text.font > 0 /\ text.lines \in 0..most
  <2>. HIDE DEF chars, width, size, most
  <2>. QED  BY <1>1, SingleFits
<1>4. Sized(size) = 40 /\ LineHeight(40, 8) = 56  BY DEF Sized, AtLeast, LineHeight
<1>. HIDE DEF text
<1>5. CheckHeight(item) = AtLeast(64, high)  BY <1>2, <1>3, <1>4 DEF CheckHeight, GapSmall
<1>6. lines \in 0..2  BY <1>3
<1>. HIDE DEF lines
<1>7. high \in Nat /\ high <= 144  BY <1>6
<1>. HIDE DEF high
<1>8. AtLeast(64, high) \in Nat /\ 64 <= AtLeast(64, high) /\ AtLeast(64, high) <= 144  BY <1>7 DEF AtLeast
<1>9. text.lines \in Nat  BY <1>6 DEF lines
<1>. QED  BY <1>2, <1>3, <1>5, <1>8, <1>9

LEMMA CheckRowFills ==
    ASSUME NEW item \in Nat \X Nat, NEW top \in Int, NEW bottom \in Int, bottom - top >= 64
    PROVE  Fills(CheckRow(item, top, bottom), top, bottom)
<1>. DEFINE text == CheckText(item)
            from == top + 8
            to == bottom - 8
            span == InBand(text, from, to)
            icon == top + (bottom - top - 34) \div 2
            foot == icon + 34
<1>1. CheckRow(item, top, bottom) = Block(top, bottom, {<<span>>, << <<icon, foot>> >>})  BY DEF CheckRow
<1>2. text.font \in Nat /\ text.font > 0 /\ text.lines \in Nat  BY CheckHeightWithin
<1>3. from \in Int /\ to \in Int /\ from <= to /\ top <= from /\ to <= bottom  OBVIOUS
<1>4. icon \in Int /\ top <= icon /\ icon + 34 <= bottom  OBVIOUS
<1>5. foot \in Int /\ icon <= foot /\ foot <= bottom  BY <1>4
<1>. HIDE DEF text, from, to, icon, foot
<1>6. PICK a \in Int, b \in Int : span = <<a, b>> /\ from <= a /\ a <= b /\ b <= to  BY <1>2, <1>3, InBandWithin
<1>. HIDE DEF span
<1>7. top <= a /\ b <= bottom  BY <1>3, <1>6
<1>8. Stacked(<< <<a, b>> >>, top, bottom)  BY <1>6, <1>7, OnePart
<1>9. Stacked(<< <<icon, foot>> >>, top, bottom)  BY <1>4, <1>5, OnePart
<1>10. top <= bottom  OBVIOUS
<1>11. Fills(Block(top, bottom, {<< <<a, b>> >>, << <<icon, foot>> >>}), top, bottom)
  BY <1>8, <1>9, <1>10 DEF Fills, Sound, Block, Worded
<1>. QED  BY <1>1, <1>6, <1>11

LEMMA CheckTotal ==
    ASSUME NEW items \in Seq(Nat \X Nat), Len(items) \in 0..4, NEW heights,
           heights = [k \in DOMAIN items |-> CheckHeight(items[k])]
    PROVE  Total(heights) \in Int /\ Total(heights) >= -22 /\ Total(heights) <= 642
<1>. DEFINE n == Len(items)
            most == 144
            total == Total(heights)
<1>1. DOMAIN items = 1..n /\ n \in 0..4 /\ \A k \in 1..n : items[k] \in Nat \X Nat  OBVIOUS
<1>2. ASSUME NEW k \in 1..n PROVE heights[k] \in Nat /\ heights[k] <= most
  <2>1. items[k] \in Nat \X Nat  BY <1>1
  <2>2. heights[k] = CheckHeight(items[k])  BY <1>1
  <2>3. CheckHeight(items[k]) \in Nat /\ CheckHeight(items[k]) <= most  BY <2>1, CheckHeightWithin
  <2>. QED  BY <2>2, <2>3
<1>3. heights \in [1..n -> Nat]  BY <1>1, <1>2
<1>4. most \in Nat /\ \A k \in 1..n : heights[k] <= most  BY <1>2
<1>. HIDE DEF n, most
<1>5. total \in Int /\ total >= -22 /\ total <= 4 * most + 66  BY <1>1, <1>3, <1>4, TotalAtMost
<1>. HIDE DEF total
<1>6. total <= 642  BY <1>5 DEF most
<1>. QED  BY <1>5, <1>6 DEF total

LEMMA CheckRowsInOrder ==
    ASSUME NEW items \in Seq(Nat \X Nat), Len(items) \in 0..4, NEW heights,
           heights = [k \in DOMAIN items |-> CheckHeight(items[k])], NEW y \in Int
    PROVE  InOrder(CheckRows(items, heights, y), y, AtLeast(y, y + Total(heights)))
<1>. DEFINE n == Len(items)
            at(k) == y + RowOffset(heights, k)
            row(k) == CheckRow(items[k], at(k), at(k) + heights[k])
            list == [k \in 1..n |-> row(k)]
            S == {row(k) : k \in 1..n}
<1>1. DOMAIN items = 1..n /\ n \in 0..4 /\ \A k \in 1..n : items[k] \in Nat \X Nat  OBVIOUS
<1>2. CheckRows(items, heights, y) = list  BY <1>1 DEF CheckRows
<1>3. ASSUME NEW k \in 1..n PROVE heights[k] \in Nat /\ heights[k] >= 64
  <2>1. items[k] \in Nat \X Nat  BY <1>1
  <2>2. heights[k] = CheckHeight(items[k])  BY <1>1
  <2>3. CheckHeight(items[k]) \in Nat /\ 64 <= CheckHeight(items[k])  BY <2>1, CheckHeightWithin
  <2>. QED  BY <2>2, <2>3
<1>4. heights \in [1..n -> Nat]  BY <1>1, <1>3
<1>. HIDE DEF n
<1>5. \A k \in 1..n : RowOffset(heights, k) \in Nat  BY <1>1, <1>4, RowOffsets
<1>6. ASSUME NEW k \in 1..n PROVE Fills(row(k), at(k), at(k) + heights[k])
  <2>. DEFINE a == at(k)
              b == at(k) + heights[k]
              item == items[k]
  <2>1. item \in Nat \X Nat  BY <1>1
  <2>2. a \in Int /\ b \in Int /\ b - a >= 64
    <3>. DEFINE off == RowOffset(heights, k)
                h == heights[k]
    <3>1. off \in Nat /\ h \in Nat /\ h >= 64  BY <1>3, <1>5
    <3>2. a = y + off /\ b = y + off + h  OBVIOUS
    <3>. HIDE DEF off, h, a, b
    <3>. QED  BY <3>1, <3>2
  <2>. HIDE DEF a, b, item
  <2>3. Fills(CheckRow(item, a, b), a, b)  BY <2>1, <2>2, CheckRowFills
  <2>. QED  BY <2>3 DEF a, b, item
<1>7. list \in [1..n -> S] /\ \A k \in 1..n : list[k] = row(k)
  <2>. HIDE DEF row
  <2>. QED  OBVIOUS
<1>8. \A k \in 1..n : Fills(list[k], at(k), at(k) + heights[k])
  <2>. HIDE DEF row, at, list
  <2>. QED  BY <1>6, <1>7
<1>. HIDE DEF row, list, S
<1>9. InOrder(list, y, AtLeast(y, y + Total(heights)))  BY <1>1, <1>4, <1>7, <1>8, RowsBelow
<1>. QED  BY <1>2, <1>9

LEMMA ChecklistInOrder ==
    ASSUME NEW card \in ContestSlides
    PROVE  InOrder(ContestChecklist(card), 166, 1270)
<1>. DEFINE items == Items(card)
            heights == [k \in DOMAIN items |-> CheckHeight(items[k])]
            chars == IF card.headline = 0 THEN 7 ELSE card.headline
            total == Total(heights)
            limit == 394
            a == 194
            gap == 8
            title == LinesEnd(TitleFit(chars, 44), gap, a, limit)
            y == Centre(title + 30, 1194, total)
            rowBlocks == CheckRows(items, heights, y)
            point == Point(card)
            b == 1222
            c == 1270
            end == AtLeast(y, y + total)
            text == Text(a, title)
<1>1. title \in Int /\ 194 <= title /\ title <= 344
  <2>1. chars \in Nat /\ limit \in Int /\ limit >= 344  BY DEF ContestSlides
  <2>. HIDE DEF chars, limit
  <2>. QED  BY <2>1, RowTitleWithin
<1>2. items # << >> => ContestChecklist(card) = (text \o rowBlocks) \o point
  <2>. DEFINE low == 1194
              from == title + 30
              bottom == 1214
  <2>1. ContentBottom(FALSE, TRUE) = bottom /\ ContestTop + 28 = a /\ ContestTop + 228 = limit
        /\ GapSmall = gap /\ bottom - ElementGap = low
    BY DEF ContentBottom, ContestBottom, ContestTop, PointHeight, GapSmall, ElementGap
  <2>2. title + 10 + ElementGap = from
    <3>. HIDE DEF title
    <3>. QED  BY <1>1 DEF ElementGap
  <2>. HIDE DEF a, gap, bottom, low, from, limit
  <2>3. items # << >> => ContestChecklist(card) = ChecklistBelow(card, heights, title)  BY <2>1 DEF ContestChecklist
  <2>4. y = Centre(from, low, total)  BY DEF from, low
  <2>. HIDE DEF title, heights, y
  <2>5. ChecklistBelow(card, heights, title) = (text \o rowBlocks) \o point
    BY <2>1, <2>2, <2>4 DEF ChecklistBelow
  <2>. QED  BY <2>3, <2>5
<1>3. items = << >> => ContestChecklist(card) = << >>  BY DEF ContestChecklist
<1>4. items \in Seq(Nat \X Nat) /\ Len(items) \in 0..4  BY ItemsOf
<1>. HIDE DEF items, chars, title
<1>5. total \in Int /\ total >= -22 /\ total <= 642  BY <1>4, CheckTotal
<1>. HIDE DEF total
<1>6. y \in Int /\ a <= y /\ title <= y /\ y <= b /\ y + total <= b
  <2>. DEFINE space == 1164 - title - total
              extra == AtLeast(space \div 2, 0)
  <2>1. total \in Int /\ space \in Int  BY <1>1, <1>5
  <2>2. y = title + 30 + extra
    <3>1. 1194 - (title + 30) - total = space  BY <1>1, <2>1
    <3>. HIDE DEF space
    <3>. QED  BY <3>1 DEF Centre
  <2>3. space = 1164 - title - total  OBVIOUS
  <2>. HIDE DEF space, y
  <2>4. extra \in Nat /\ (extra = 0 \/ 2 * extra <= space)  BY <2>1 DEF AtLeast
  <2>. HIDE DEF extra
  <2>5. y \in Int /\ title + 30 <= y  BY <1>1, <2>2, <2>4
  <2>6. a <= y /\ title <= y /\ y <= b
    BY <1>1, <1>5, <2>2, <2>3, <2>4, <2>5
  <2>7. y + total <= b  BY <1>1, <1>5, <2>1, <2>2, <2>3, <2>4
  <2>. QED  BY <2>5, <2>6, <2>7
<1>. HIDE DEF y
<1>8. a \in Int /\ b \in Int /\ c \in Int /\ a <= title /\ b <= c /\ a <= b /\ a <= a  BY <1>1
<1>9. end \in Int /\ end <= b  BY <1>5, <1>6 DEF AtLeast
<1>10. InOrder(rowBlocks, y, end)  BY <1>4, <1>6, CheckRowsInOrder, ZenonT(30) DEF total
<1>. HIDE DEF b, c, heights
<1>11. InOrder(point, b, c)  BY PointInOrder DEF b, c
<1>. HIDE DEF a, end
<1>12. InOrder(text, a, title)  BY <1>1, <1>8, TextInOrder
<1>. HIDE DEF text, rowBlocks, point
<1>13. InOrder(text, a, y)  BY <1>1, <1>6, <1>8, <1>12, WiderOrder
<1>14. y <= y  BY <1>6
<1>15. InOrder(rowBlocks, y, b)  BY <1>6, <1>8, <1>9, <1>10, <1>14, WiderOrder
<1>16. InOrder(text \o rowBlocks, a, b)  BY <1>6, <1>8, <1>13, <1>15, Joined
<1>17. InOrder((text \o rowBlocks) \o point, a, c)  BY <1>8, <1>11, <1>16, Joined
<1>. DEFINE top == 166
<1>18. top \in Int /\ top <= a /\ c <= c  BY <1>8 DEF a
<1>. HIDE DEF top
<1>. DEFINE list == (text \o rowBlocks) \o point
<1>19. InOrder(list, a, c)  BY <1>17
<1>. HIDE DEF list
<1>20. InOrder(list, top, c)  BY <1>8, <1>18, <1>19, WiderOrder
<1>21. InOrder(<< >>, top, c)  BY <1>8, <1>18, NoBlock
<1>22. CASE items = << >>
  <2>1. ContestChecklist(card) = << >>  BY <1>3, <1>22
  <2>. QED  BY <1>21, <2>1 DEF top, c
<1>23. CASE items # << >>
  <2>1. ContestChecklist(card) = list  BY <1>2, <1>23 DEF list
  <2>. QED  BY <1>20, <2>1 DEF top, c
<1>. QED  BY <1>22, <1>23

----------------------------------------------------------------------------
(* Contest cards: a text, with or without a box.                            *)

\* The short title above them.
LEMMA ShortTitle ==
    ASSUME NEW y \in Int, NEW limit \in Int, limit = y + 200
    PROVE  LinesEnd(TitleFit(5, 42), 8, y, limit) = y + 71
<1>1. Sized(42) = 53 /\ LineHeight(53, 8) = 71  BY DEF Sized, AtLeast, LineHeight
<1>2. Wrap(5, 53, 812) = 1  BY DEF Wrap, AtLeast
<1>3. TitleFit(5, 42) = [font |-> 53, lines |-> 1]  BY <1>1, <1>2 DEF TitleFit, FitSingle, Column, AtMost
<1>4. limit - y = 200  OBVIOUS
<1>5. AtMost(1, AtLeast(200 \div 71, 0)) = 1  BY DEF AtMost, AtLeast
<1>6. LinesEnd(TitleFit(5, 42), 8, y, limit) = y + 71 * 1  BY <1>1, <1>3, <1>4, <1>5 DEF LinesEnd
<1>. QED  BY <1>6

LEMMA BodyInOrder ==
    ASSUME NEW card \in ContestSlides
    PROVE  InOrder(ContestBody(card), 166, 1270)
<1>. DEFINE words == IF card.body > 0 THEN card.body ELSE card.headline
            width == 764
            size == 38
            lines == 12
            fit == FitSingle(words, width, size, lines)
            high == Height(fit) + 48
            top == 222
            bottom == 1214
            box == Centre(top, bottom, high)
            from == box + 24
            to == box + high - 20
            w == 756
            smallest == 30
            end == WrappedEnd(words, w, from, to, size, smallest, lines)
            foot == box + high
            block == Block(box, foot, {<< <<from, end>> >>})
            a == 172
            gap == 8
            limit == 372
            title == LinesEnd(TitleFit(5, 42), gap, a, limit)
            text == Text(a, title)
            point == Point(card)
            b == 1222
            c == 1270
<1>1. words \in Nat /\ width \in Int /\ size \in Nat /\ lines \in Nat /\ w \in Int /\ smallest \in Nat
  BY DEF ContestSlides
<1>2. words # 0 => ContestBody(card) = (text \o <<block>>) \o point
  <2>1. ContestTop + 56 = top /\ ContentBottom(FALSE, TRUE) = bottom /\ ContestTop + 6 = a /\ ContestTop + 206 = limit
        /\ GapSmall = gap /\ Column - 48 = width /\ Column - 56 = w
    BY DEF ContestTop, ContentBottom, ContestBottom, PointHeight, GapSmall, Column
  <2>. HIDE DEF top, bottom, width, a, w, gap, limit
  <2>. HIDE DEF words
  <2>2. words # 0 => Boxed(card, words) = (text \o <<block>>) \o point  BY <2>1, ZenonT(30) DEF Boxed
  <2>. QED  BY <2>2 DEF ContestBody, words
<1>3. words = 0 => ContestBody(card) = << >>
  <2>1. words = 0 => Boxed(card, words) = << >>
    <3>. HIDE DEF words
    <3>. QED  BY DEF Boxed
  <2>. QED  BY <2>1 DEF ContestBody
<1>4. title = 243
  <2>1. a \in Int /\ 372 \in Int /\ 372 = a + 200  OBVIOUS
  <2>2. title = a + 71
    <3>. HIDE DEF a
    <3>. QED  BY <2>1, ShortTitle
  <2>. HIDE DEF title
  <2>. QED  BY <2>2
<1>. HIDE DEF title
<1>5. fit.font = Sized(size) /\ fit.font \in Nat /\ fit.font > 0 /\ fit.lines \in 0..lines
  <2>. HIDE DEF words, width, size, lines
  <2>. QED  BY <1>1, SingleFits
<1>. HIDE DEF fit
<1>6. high \in Nat /\ 48 <= high /\ high <= 820
  <2>1. Sized(size) = 48 /\ LineHeight(48, 8) = 65  BY DEF Sized, AtLeast, LineHeight
  <2>. DEFINE n == fit.lines
              h == Height(fit)
  <2>2. h = IF n = 0 THEN 0 ELSE n * 65 - 8  BY <1>5, <2>1 DEF Height, TextHeight, GapSmall
  <2>3. n \in 0..12  BY <1>5
  <2>. HIDE DEF n, h
  <2>4. h \in Nat /\ h <= 772  BY <2>2, <2>3
  <2>5. high = h + 48  BY DEF h
  <2>. HIDE DEF high
  <2>. QED  BY <2>4, <2>5
<1>. HIDE DEF high
<1>7. box \in Int /\ 308 <= box /\ box + high <= 1214
  <2>. DEFINE extra == AtLeast((992 - high) \div 2, 0)
  <2>1. box = 222 + extra  BY <1>6 DEF Centre
  <2>2. extra \in Int /\ 86 <= extra /\ 2 * extra <= 992 - high  BY <1>6 DEF AtLeast
  <2>. HIDE DEF extra, box
  <2>. QED  BY <1>6, <2>1, <2>2
<1>. HIDE DEF box
<1>8. from \in Int /\ to \in Int /\ foot \in Int /\ box <= from /\ from <= foot /\ to <= foot /\ box <= foot
  BY <1>6, <1>7
<1>. HIDE DEF words, width, size, lines, w, smallest, from, to
<1>9. end \in Int /\ from <= end /\ end <= AtLeast(from, to)  BY <1>1, <1>8, WrappedWithin
<1>. HIDE DEF end
<1>10. end <= foot  BY <1>8, <1>9 DEF AtLeast
<1>11. a \in Int /\ b \in Int /\ c \in Int /\ title \in Int /\ a <= title /\ title <= box /\ foot <= b /\ b <= c
       /\ a <= box /\ a <= b
  BY <1>4, <1>6, <1>7
<1>. HIDE DEF foot
<1>12. Stacked(<< <<from, end>> >>, box, foot)  BY <1>7, <1>8, <1>9, <1>10, OnePart
<1>13. Fills(block, box, foot)  BY <1>7, <1>8, <1>12 DEF Fills, Sound, Block, Worded
<1>. HIDE DEF block
<1>14. InOrder(point, b, c)  BY PointInOrder
<1>. HIDE DEF a, b, c
<1>15. InOrder(text, a, title)  BY <1>11, TextInOrder
<1>. HIDE DEF text, point
<1>16. a <= a /\ box <= box  BY <1>7, <1>11
<1>17. InOrder(text, a, box)  BY <1>7, <1>11, <1>15, <1>16, WiderOrder
<1>18. InOrder(<<block>>, box, b)  BY <1>7, <1>8, <1>11, <1>13, <1>16, OneBlock
<1>19. box <= b  BY <1>7, <1>8, <1>11
<1>20. InOrder(text \o <<block>>, a, b)  BY <1>7, <1>11, <1>17, <1>18, <1>19, Joined
<1>21. InOrder((text \o <<block>>) \o point, a, c)  BY <1>11, <1>14, <1>20, Joined
<1>. DEFINE ceiling == 166
<1>22. ceiling \in Int /\ ceiling <= a /\ c <= c  BY <1>11 DEF a
<1>. HIDE DEF ceiling
<1>. DEFINE list == (text \o <<block>>) \o point
<1>23. InOrder(list, a, c)  BY <1>21
<1>. HIDE DEF list
<1>24. InOrder(list, ceiling, c)  BY <1>11, <1>22, <1>23, WiderOrder
<1>25. InOrder(<< >>, ceiling, c)  BY <1>11, <1>22, NoBlock
<1>26. CASE words = 0
  <2>1. ContestBody(card) = << >>  BY <1>3, <1>26
  <2>. QED  BY <1>25, <2>1 DEF ceiling, c
<1>27. CASE words # 0
  <2>1. ContestBody(card) = list  BY <1>2, <1>27 DEF list
  <2>. QED  BY <1>24, <2>1 DEF ceiling, c
<1>. QED  BY <1>26, <1>27

\* The text of a headline card ends above the one below it, whatever their lengths.
LEMMA HeadlineTextWithin ==
    ASSUME NEW words \in Nat, words > 0
    PROVE  LET high == TextHeight(FitSingle(words, 812, 54, 5).lines, Sized(36), 8)
               y == Centre(218, 1154, high)
               end == WrappedEnd(words, 812, y, 1164, 54, 36, 6)
           IN y \in Int /\ 245 <= y /\ end \in Int /\ y <= end /\ end <= 1124
<1>. DEFINE width == 812
            size == 54
            smallest == 36
            six == 6
            limit == 1164
            wrapped == Wrap(words, 69, width)
            five == FitSingle(words, width, size, 5)
            fit == FitSingle(words, width, size, six)
            high == TextHeight(five.lines, Sized(36), 8)
            y == Centre(218, 1154, high)
            end == WrappedEnd(words, width, y, limit, size, smallest, six)
<1>1. Sized(54) = 69 /\ LineHeight(69, 8) = 90 /\ Sized(36) = 46 /\ LineHeight(46, 8) = 63
  BY DEF Sized, AtLeast, LineHeight
<1>2. wrapped \in Nat /\ wrapped >= 1
  <2>. DEFINE font == 69
  <2>1. font \in Nat /\ font > 0 /\ width \in Int  OBVIOUS
  <2>. HIDE DEF font, width
  <2>2. Wrap(words, font, width) \in Nat /\ Wrap(words, font, width) >= 1  BY <2>1, WrapType
  <2>. QED  BY <2>2 DEF font
<1>3. five.lines = AtMost(wrapped, 5) /\ fit = [font |-> 69, lines |-> AtMost(wrapped, 6)]
  <2>. HIDE DEF width
  <2>. QED  BY <1>1 DEF FitSingle
<1>. HIDE DEF wrapped
<1>. DEFINE m == AtMost(wrapped, 5)
            n == AtMost(wrapped, 6)
<1>4. m \in 1..5 /\ n \in 1..6 /\ (n = m \/ (m = 5 /\ n = 6))  BY <1>2 DEF AtMost
<1>5. five.lines = m /\ fit.font = 69 /\ fit.lines = n  BY <1>3
<1>. HIDE DEF five, fit, m, n
<1>6. high = 63 * m - 8  BY <1>1, <1>4, <1>5 DEF TextHeight
<1>. HIDE DEF high
<1>7. y \in Int /\ 532 <= y /\ y + 90 * n <= 1124
  <2>. DEFINE extra == AtLeast((936 - high) \div 2, 0)
  <2>1. y = 218 + extra  BY <1>4, <1>6 DEF Centre
  <2>2. high \in Nat /\ high <= 307  BY <1>4, <1>6
  <2>3. extra \in Int /\ 2 * extra <= 936 - high /\ 936 - high <= 2 * extra + 1  BY <2>2 DEF AtLeast
  <2>. HIDE DEF extra, y
  <2>4. y \in Int /\ 532 <= y  BY <2>1, <2>2, <2>3
  <2>5. y + 90 * n <= 1124
    <3>1. CASE n = m  BY <1>4, <1>6, <2>1, <2>3, <3>1
    <3>2. CASE m = 5 /\ n = 6  BY <1>4, <1>6, <2>1, <2>3, <3>2
    <3>. QED  BY <1>4, <3>1, <3>2
  <2>. QED  BY <2>4, <2>5
<1>. HIDE DEF y
<1>8. Height(fit) = 90 * n - 8  BY <1>1, <1>4, <1>5 DEF Height, TextHeight, GapSmall
<1>9. end = LinesEnd(fit, 8, y, limit)
  <2>1. width \in Int /\ limit \in Int /\ size \in Nat /\ smallest \in Nat /\ smallest <= size /\ six \in Nat
        /\ limit - y >= 12
    BY <1>4, <1>7
  <2>2. Height(fit) <= limit - y
    <3>. DEFINE h == Height(fit)
    <3>1. h = 90 * n - 8  BY <1>8
    <3>. HIDE DEF h
    <3>2. h <= limit - y  BY <1>4, <1>7, <3>1
    <3>. QED  BY <3>2 DEF h
  <2>. HIDE DEF width, limit, size, smallest, six
  <2>3. y \in Int /\ words > 0  BY <1>7
  <2>4. Height(FitSingle(words, width, size, six)) <= limit - y  BY <2>2 DEF fit
  <2>. HIDE DEF end
  <2>5. WrappedEnd(words, width, y, limit, size, smallest, six) = LinesEnd(FitSingle(words, width, size, six), 8, y, limit)
    BY <2>1, <2>3, <2>4, WrappedAtFirstSize, SMTT(60)
  <2>. QED  BY <2>5 DEF fit, end
<1>10. end = y + 90 * n
  <2>1. end = y + 90 * AtMost(n, AtLeast((limit - y) \div 90, 0))  BY <1>1, <1>5, <1>9 DEF LinesEnd
  <2>2. n <= (limit - y) \div 90  BY <1>4, <1>7
  <2>3. AtMost(n, AtLeast((limit - y) \div 90, 0)) = n
    <3>. DEFINE room == (limit - y) \div 90
    <3>1. room \in Int /\ n <= room  BY <1>7, <2>2
    <3>. HIDE DEF room
    <3>2. AtMost(n, AtLeast(room, 0)) = n  BY <1>4, <3>1 DEF AtMost, AtLeast
    <3>. QED  BY <3>2 DEF room
  <2>. QED  BY <2>1, <2>3
<1>. HIDE DEF end
<1>11. y \in Int /\ 245 <= y /\ end \in Int /\ y <= end /\ end <= 1124  BY <1>4, <1>7, <1>10
<1>. QED  BY <1>11 DEF end, y, high, five

LEMMA HeadlineInOrder ==
    ASSUME NEW card \in ContestSlides
    PROVE  InOrder(ContestHeadline(card), 166, 1270)
<1>. DEFINE words == card.headline + (IF card.highlight > 0 /\ card.headline > 0 THEN 1 ELSE 0) + card.highlight
            high == TextHeight(FitSingle(words, 812, 54, 5).lines, Sized(36), 8)
            y == Centre(218, 1154, high)
            end == WrappedEnd(words, 812, y, 1164, 54, 36, 6)
            a == 174
            title == LinesEnd(TitleFit(5, 42), 8, a, 374)
            p == 1124
            q == 1202
            chars == card.body
            width == 812
            size == 34
            smallest == 28
            two == 2
            foot == WrappedEnd(chars, width, p, q, size, smallest, two)
            b == 1222
            c == 1270
            first == Text(a, title)
            second == Text(y, end)
            third == Text(p, foot)
            point == Point(card)
<1>1. words \in Nat /\ chars \in Nat
  <2>. DEFINE one == IF card.highlight > 0 /\ card.headline > 0 THEN 1 ELSE 0
  <2>1. one = 0 \/ one = 1  OBVIOUS
  <2>2. card.headline \in Nat /\ card.highlight \in Nat /\ card.body \in Nat  BY DEF ContestSlides
  <2>. HIDE DEF one
  <2>3. card.headline + one + card.highlight \in Nat  BY <2>1, <2>2
  <2>. QED  BY <2>2, <2>3 DEF one
<1>. HIDE DEF words
<1>2. Headlined(card, words) = IF words = 0 THEN << >> ELSE ((first \o second) \o third) \o point
  <2>. DEFINE top == 218
              low == 1154
              edge == 1164
              bottom == 1214
              till == 374
              gap == 8
  <2>1. ContestTop + 52 = top /\ ContentBottom(FALSE, TRUE) = bottom /\ bottom - 60 = low /\ bottom - 50 = edge
        /\ ContestTop + 8 = a /\ ContestTop + 208 = till /\ bottom - 90 = p /\ bottom - 12 = q /\ GapSmall = gap
        /\ Column = width
    BY DEF ContestTop, ContentBottom, ContestBottom, PointHeight, GapSmall, Column
  <2>2. Headlined(card, words)
          = LET h == TextHeight(FitSingle(words, width, 54, 5).lines, Sized(36), gap)
                x == Centre(top, low, h)
            IN  IF words = 0 THEN << >>
                ELSE Text(a, LinesEnd(TitleFit(5, 42), gap, a, till)) \o Text(x, WrappedEnd(words, width, x, edge, 54, 36, 6))
                     \o Text(p, WrappedEnd(card.body, width, p, q, 34, 28, 2)) \o Point(card)
    <3>. HIDE DEF top, low, edge, bottom, till, gap, a, p, q, width
    <3>. QED  BY <2>1, ZenonT(30) DEF Headlined
  <2>. QED  BY <2>2
<1>3. title = 245
  <2>1. a \in Int /\ 374 \in Int /\ 374 = a + 200  OBVIOUS
  <2>2. title = a + 71
    <3>. HIDE DEF a
    <3>. QED  BY <2>1, ShortTitle
  <2>. HIDE DEF title
  <2>. QED  BY <2>2
<1>. HIDE DEF title
<1>4. words > 0 => y \in Int /\ 245 <= y /\ end \in Int /\ y <= end /\ end <= 1124
  BY <1>1, HeadlineTextWithin
<1>. HIDE DEF y, end
<1>5. foot \in Int /\ p <= foot /\ foot <= q
  <2>1. width \in Int /\ p \in Int /\ q \in Int /\ size \in Nat /\ smallest \in Nat /\ two \in Nat  OBVIOUS
  <2>2. AtLeast(p, q) = q  BY DEF AtLeast
  <2>. HIDE DEF width, p, q, size, smallest, two, chars
  <2>3. foot \in Int /\ p <= foot /\ foot <= AtLeast(p, q)  BY <1>1, <2>1, WrappedWithin
  <2>. QED  BY <2>2, <2>3
<1>. HIDE DEF foot
<1>6. a \in Int /\ p \in Int /\ q \in Int /\ b \in Int /\ c \in Int /\ title \in Int /\ a <= title /\ a <= a
      /\ foot <= b /\ b <= c /\ p <= b /\ a <= p /\ a <= b /\ p <= p
  BY <1>3, <1>5
<1>7. words > 0 => title <= y /\ a <= y /\ y <= y /\ end <= p /\ y <= p  BY <1>3, <1>4
<1>8. InOrder(point, b, c)  BY PointInOrder
<1>. DEFINE top == 166
<1>9. top \in Int /\ top <= a /\ c <= c /\ top <= c  OBVIOUS
<1>. HIDE DEF a, p, q, b, c, top
<1>10. InOrder(first, a, title)  BY <1>6, TextInOrder
<1>11. InOrder(third, p, foot)  BY <1>5, <1>6, TextInOrder
<1>12. CASE words = 0
  <2>1. ContestHeadline(card) = << >>  BY <1>2, <1>12 DEF ContestHeadline, words
  <2>2. InOrder(<< >>, top, c)  BY <1>6, <1>9, NoBlock
  <2>. QED  BY <2>1, <2>2 DEF top, c
<1>13. CASE words # 0
  <2>1. words > 0  BY <1>1, <1>13
  <2>2. y \in Int /\ end \in Int /\ y <= end /\ title <= y /\ a <= y /\ y <= y /\ end <= p /\ y <= p
    BY <1>4, <1>7, <2>1
  <2>3. InOrder(second, y, end)  BY <2>2, TextInOrder
  <2>. HIDE DEF first, second, third, point
  <2>4. InOrder(first, a, y)  BY <1>6, <1>10, <2>2, WiderOrder
  <2>5. InOrder(second, y, p)  BY <1>6, <2>2, <2>3, WiderOrder
  <2>6. InOrder(third, p, b)  BY <1>5, <1>6, <1>11, WiderOrder
  <2>7. InOrder(first \o second, a, p)  BY <1>6, <2>2, <2>4, <2>5, Joined
  <2>8. InOrder((first \o second) \o third, a, b)  BY <1>6, <2>6, <2>7, Joined
  <2>9. InOrder(((first \o second) \o third) \o point, a, c)  BY <1>6, <1>8, <2>8, Joined
  <2>. DEFINE list == ((first \o second) \o third) \o point
  <2>10. ContestHeadline(card) = list  BY <1>2, <1>13 DEF ContestHeadline, words
  <2>11. InOrder(list, a, c)  BY <2>9
  <2>. HIDE DEF list
  <2>12. InOrder(list, top, c)  BY <1>6, <1>9, <2>11, WiderOrder
  <2>. QED  BY <2>10, <2>12 DEF top, c
<1>. QED  BY <1>12, <1>13

----------------------------------------------------------------------------
(* Contest cards: the mascot.                                               *)

LEMMA SpeechWithin ==
    ASSUME NEW card \in ContestSlides
    PROVE  Speech(card) \in 0..14
<1>. DEFINE s == card.speech
            c == card.cta
<1>1. s \in Nat /\ c \in Nat  BY DEF ContestSlides
<1>2. Speech(card) = CASE s > 0 -> AtMost(s, 14)
                       [] s = 0 /\ card.layout = "cover" -> 6
                       [] s = 0 /\ card.layout # "cover" -> IF c \in 1..14 THEN AtMost(c + 1, 14) ELSE 0
  BY DEF Speech
<1>. HIDE DEF s, c
<1>3. CASE s > 0
  <2>1. Speech(card) = AtMost(s, 14)  BY <1>2, <1>3
  <2>2. AtMost(s, 14) \in 0..14  BY <1>1 DEF AtMost
  <2>. QED  BY <2>1, <2>2
<1>4. CASE s = 0 /\ card.layout = "cover"
  <2>1. Speech(card) = 6  BY <1>2, <1>4
  <2>. QED  BY <2>1
<1>5. CASE s = 0 /\ card.layout # "cover" /\ c \in 1..14
  <2>1. Speech(card) = AtMost(c + 1, 14)  BY <1>2, <1>5
  <2>2. AtMost(c + 1, 14) \in 0..14  BY <1>1 DEF AtMost
  <2>. QED  BY <2>1, <2>2
<1>6. CASE s = 0 /\ card.layout # "cover" /\ c \notin 1..14
  <2>1. Speech(card) = 0  BY <1>2, <1>6
  <2>. QED  BY <2>1
<1>. QED  BY <1>1, <1>3, <1>4, <1>5, <1>6

LEMMA NoMascot ==
    ASSUME NEW card \in ContestSlides, ~card.mascot
    PROVE  MascotBlock(card) = << >>
BY DEF MascotBlock

\* A bubble of one line has room above the mascot.
LEMMA MascotInOrder ==
    ASSUME NEW card \in ContestSlides
    PROVE  InOrder(MascotBlock(card), 938, 1226)
<1>. DEFINE h == card.mascot
            speech == Speech(card)
            high == SpeechHeight(speech)
            top == 938
            bottom == 1226
            head == bottom - MascotHeight
            icon == AtLeast(100, AtMost(200, MascotHeight - high - 46))
            my == bottom - icon - 12
            by == my - 22 - high
            tooHigh == high > 0 /\ by < head + 8
            from == IF tooHigh THEN head + 8 ELSE by
            foot == IF tooHigh THEN AtLeast(AtMost(my, from + high + 22 + icon), head + high + 30) ELSE my
            mascot == <<foot, foot + icon>>
            alone == Block(1014, bottom, {<< <<1014, 1214>> >>})
            both == Block(938, bottom, {<< <<938, 1020>>, <<1042, 1214>> >>, << <<954, 1004>>, <<1042, 1214>> >>})
<1>1. speech \in 0..14  BY SpeechWithin
<1>2. high = IF speech = 0 THEN 0 ELSE 82
  <2>. DEFINE bubble == FitSingle(speech, 888, 28, 2)
  <2>. HIDE DEF speech
  <2>1. Sized(28) = 35  BY DEF Sized, AtLeast
  <2>2. AtLeast(888 \div 35, 1) = 25  BY DEF AtLeast
  <2>3. Wrap(speech, 35, 888) = (speech + 24) \div 25  BY <1>1, <2>2 DEF Wrap
  <2>4. (speech + 24) \div 25 = IF speech = 0 THEN 0 ELSE 1  BY <1>1
  <2>5. AtMost(0, 2) = 0 /\ AtMost(1, 2) = 1  BY DEF AtMost
  <2>6. bubble.font = 35 /\ bubble.lines = (IF speech = 0 THEN 0 ELSE 1)
    BY <2>1, <2>3, <2>4, <2>5 DEF FitSingle
  <2>7. high = IF bubble.lines = 0 THEN 0 ELSE 32 + bubble.lines * LineHeight(bubble.font, GapSmall)
    BY DEF SpeechHeight
  <2>8. LineHeight(35, GapSmall) = 50  BY DEF LineHeight, GapSmall
  <2>. HIDE DEF bubble, high
  <2>. QED  BY <2>6, <2>7, <2>8
<1>. HIDE DEF speech, high
<1>3. head = 926  BY DEF MascotHeight
<1>4. MascotUnder(high, bottom) = IF high = 0 THEN <<alone>> ELSE <<both>>
  <2>1. CASE high = 0
    <3>1. MascotUnder(high, bottom) = <<Block(my, bottom, {<< <<my, my + icon>> >>})>>
      BY <2>1 DEF MascotUnder
    <3>2. icon = 200  BY <2>1 DEF AtLeast, AtMost, MascotHeight
    <3>. HIDE DEF icon
    <3>3. my = 1014 /\ my + icon = 1214  BY <3>2
    <3>. HIDE DEF my
    <3>. QED  BY <2>1, <3>1, <3>3
  <2>2. CASE high = 82
    <3>1. MascotUnder(high, bottom) = <<Block(from, bottom, {<< <<from, from + high>>, mascot >>,
                                                               << <<from + 16, from + high - 16>>, mascot >>})>>
      BY <2>2 DEF MascotUnder
    <3>2. icon = 172  BY <2>2 DEF AtLeast, AtMost, MascotHeight
    <3>. HIDE DEF icon, head
    <3>3. my = 1042  BY <3>2
    <3>. HIDE DEF my
    <3>4. by = 938  BY <2>2, <3>3
    <3>. HIDE DEF by
    <3>5. ~tooHigh  BY <1>3, <3>4
    <3>. HIDE DEF tooHigh
    <3>6. from = 938 /\ foot = 1042  BY <3>3, <3>4, <3>5
    <3>. HIDE DEF from, foot
    <3>7. from + high = 1020 /\ from + 16 = 954 /\ from + high - 16 = 1004 /\ mascot = <<1042, 1214>>
      BY <2>2, <3>2, <3>6
    <3>. HIDE DEF mascot
    <3>. QED  BY <2>2, <3>1, <3>6, <3>7
  <2>. QED  BY <1>2, <2>1, <2>2
<1>5. MascotBlock(card) = IF h THEN MascotUnder(high, bottom) ELSE << >>
  <2>1. ContestBottom + 12 - PointHeight = 1226  BY DEF ContestBottom, PointHeight
  <2>. QED  BY <2>1 DEF MascotBlock, speech, high
<1>6. InOrder(<< >>, top, bottom)  BY NoBlock
<1>7. InOrder(<<alone>>, top, bottom)
  <2>. DEFINE a == 1014
  <2>1. Stacked(<< <<1014, 1214>> >>, a, bottom)  BY DEF Stacked
  <2>2. Fills(alone, a, bottom)  BY <2>1 DEF Fills, Sound, Block, Worded
  <2>3. a \in Int /\ top \in Int /\ bottom \in Int /\ top <= a /\ bottom <= bottom  OBVIOUS
  <2>. HIDE DEF a, top, bottom, alone
  <2>. QED  BY <2>2, <2>3, OneBlock
<1>8. InOrder(<<both>>, top, bottom)
  <2>1. Stacked(<< <<938, 1020>>, <<1042, 1214>> >>, top, bottom)  BY DEF Stacked
  <2>2. Stacked(<< <<954, 1004>>, <<1042, 1214>> >>, top, bottom)  BY DEF Stacked
  <2>3. Fills(both, top, bottom)  BY <2>1, <2>2 DEF Fills, Sound, Block, Worded
  <2>4. top \in Int /\ bottom \in Int /\ top <= top /\ bottom <= bottom  OBVIOUS
  <2>. HIDE DEF top, bottom, both
  <2>. QED  BY <2>3, <2>4, OneBlock
<1>. HIDE DEF alone, both
<1>. QED  BY <1>4, <1>5, <1>6, <1>7, <1>8

----------------------------------------------------------------------------
(* Contest cards: the last one.                                             *)

LEMMA StackPartType ==
    ASSUME NEW chars \in Nat, NEW size \in Nat, NEW smallest \in Nat
    PROVE  StackPart(chars, size, smallest) \in Nat
<1>. DEFINE width == 812
            most == 3
            lines == FitSingle(chars, width, size, most).lines
            font == Sized(smallest)
            fit == [font |-> font, lines |-> lines]
<1>1. lines \in Nat
  <2>1. width \in Int /\ most \in Nat  OBVIOUS
  <2>. HIDE DEF width, most
  <2>2. LET f == FitSingle(chars, width, size, most) IN f.lines \in 0..most  BY <2>1, SingleFits
  <2>. QED  BY <2>1, <2>2
<1>2. font \in Nat /\ font > 0  BY SizedWithin
<1>3. StackPart(chars, size, smallest) = IF chars = 0 THEN 0 ELSE Height(fit) + 20
  BY DEF StackPart, Height, Column, ElementGap
<1>. HIDE DEF lines, font
<1>4. fit.font \in Nat /\ fit.font > 0 /\ fit.lines \in Nat  BY <1>1, <1>2
<1>. HIDE DEF fit
<1>5. Height(fit) \in Nat  BY <1>4, HeightType
<1>. QED  BY <1>3, <1>5

\* The titles and the text.
LEMMA CtaSpansInOrder ==
    ASSUME NEW card \in ContestSlides, NEW limit \in Int, limit >= 166
    PROVE  InOrder(CtaSpans(card, limit), 166, limit)
<1>. DEFINE h == card.headline
            g == card.highlight
            t == card.body
            width == 812
            top == 166
            stack == StackPart(h, 50, 34) + StackPart(g, 50, 34) + StackPart(t, 34, 28)
            a == Centre(top, limit, AtLeast(stack - 20, 0))
            b == WrappedEnd(h, width, a, limit, 50, 34, 2)
            c == Below(h, <<a, b>>, 14)
            d == WrappedEnd(g, width, c, limit, 50, 34, 2)
            e == Below(g, <<c, d>>, 14)
            f == WrappedEnd(t, width, e, limit, 34, 28, 3)
<1>1. h \in Nat /\ g \in Nat /\ t \in Nat  BY DEF ContestSlides
<1>2. CtaSpans(card, limit) = Drawn(<<a, b>>, <<c, d>>, <<e, f>>)
  <2>1. CtaSpans(card, limit) = CtaFirst(card, a, limit)
    BY DEF CtaSpans, ContestTop, ElementGap
  <2>. HIDE DEF a
  <2>2. CtaFirst(card, a, limit) = CtaSecond(card, <<a, b>>, c, limit)  BY DEF CtaFirst, Column
  <2>. HIDE DEF b, c
  <2>3. CtaSecond(card, <<a, b>>, c, limit) = CtaThird(card, <<a, b>>, <<c, d>>, e, limit)  BY DEF CtaSecond, Column
  <2>. HIDE DEF d, e
  <2>4. CtaThird(card, <<a, b>>, <<c, d>>, e, limit) = Drawn(<<a, b>>, <<c, d>>, <<e, f>>)  BY DEF CtaThird, Column
  <2>. QED  BY <2>1, <2>2, <2>3, <2>4
<1>. HIDE DEF h, g, t
<1>3. stack \in Nat
  <2>1. StackPart(h, 50, 34) \in Nat /\ StackPart(g, 50, 34) \in Nat /\ StackPart(t, 34, 28) \in Nat
    BY <1>1, StackPartType
  <2>. QED  BY <2>1
<1>. HIDE DEF stack
<1>4. a \in Int /\ top <= a /\ a <= limit  BY <1>3 DEF Centre, AtLeast
<1>. HIDE DEF a
<1>. DEFINE s1 == 50
            m1 == 34
            s2 == 34
            m2 == 28
            n1 == 2
            n2 == 3
<1>5. width \in Int /\ s1 \in Nat /\ m1 \in Nat /\ s2 \in Nat /\ m2 \in Nat /\ n1 \in Nat /\ n2 \in Nat  OBVIOUS
<1>6. b = WrappedEnd(h, width, a, limit, s1, m1, n1)  OBVIOUS
<1>7. d = WrappedEnd(g, width, c, limit, s1, m1, n1)  OBVIOUS
<1>8. f = WrappedEnd(t, width, e, limit, s2, m2, n2)  OBVIOUS
<1>9. c = IF h = 0 THEN a ELSE b + 14  BY DEF Below
<1>10. e = IF g = 0 THEN c ELSE d + 14
  <2>. HIDE DEF c, d
  <2>. QED  BY DEF Below
<1>. HIDE DEF b, c, d, e, f, width, s1, m1, s2, m2, n1, n2
<1>11. b \in Int /\ a <= b /\ b <= AtLeast(a, limit) /\ (h = 0 => b = a)
  <2>1. LET end == WrappedEnd(h, width, a, limit, s1, m1, n1)
        IN end \in Int /\ a <= end /\ end <= AtLeast(a, limit)
    BY <1>1, <1>4, <1>5, WrappedWithin
  <2>2. h = 0 => WrappedEnd(h, width, a, limit, s1, m1, n1) = a  BY DEF WrappedEnd
  <2>. QED  BY <1>6, <2>1, <2>2
<1>12. c \in Int /\ b <= c  BY <1>4, <1>9, <1>11
<1>13. d \in Int /\ c <= d /\ d <= AtLeast(c, limit) /\ (g = 0 => d = c)
  <2>1. LET end == WrappedEnd(g, width, c, limit, s1, m1, n1)
        IN end \in Int /\ c <= end /\ end <= AtLeast(c, limit)
    BY <1>1, <1>5, <1>12, WrappedWithin
  <2>2. g = 0 => WrappedEnd(g, width, c, limit, s1, m1, n1) = c  BY DEF WrappedEnd
  <2>. QED  BY <1>7, <2>1, <2>2
<1>14. e \in Int /\ d <= e  BY <1>10, <1>12, <1>13
<1>15. f \in Int /\ e <= f /\ f <= AtLeast(e, limit)  BY <1>1, <1>14, <1>5, <1>8, WrappedWithin
<1>. DEFINE list == Drawn(<<a, b>>, <<c, d>>, <<e, f>>)
<1>16. InOrder(list, a, limit)  BY <1>4, <1>11, <1>12, <1>13, <1>14, <1>15, DrawnInOrder
<1>17. list = CtaSpans(card, limit)  BY <1>2
<1>. HIDE DEF list
<1>18. top \in Int /\ limit <= limit  OBVIOUS
<1>. HIDE DEF top
<1>19. InOrder(list, top, limit)  BY <1>4, <1>16, <1>18, WiderOrder
<1>. QED  BY <1>17, <1>19 DEF top

\* Titles, text and button.
LEMMA CtaButtonInOrder ==
    ASSUME NEW card \in ContestSlides, NEW label \in Nat, NEW button \in Int, 107 <= button, button <= 170,
           NEW bottom \in Int, bottom >= 600
    PROVE  InOrder(CtaButton(card, label, button, bottom), 166, bottom - 20)
<1>. DEFINE low == bottom - 20
            limit == low - button
            start == limit + 12
            width == 732
            size == 36
            top == 166
            spans == CtaSpans(card, limit)
            pill == Pill(label, width, start, low, size)
<1>1. CtaButton(card, label, button, bottom) = spans \o pill
  <2>1. 812 - 80 = width  OBVIOUS
  <2>. HIDE DEF width
  <2>. QED  BY <2>1 DEF CtaButton, ElementGap, Column
<1>2. low \in Int /\ limit \in Int /\ limit >= 166 /\ start \in Int /\ limit <= start /\ low - start >= 36 /\ limit <= low
      /\ top \in Int /\ top <= top /\ top <= start /\ low <= low /\ width \in Int /\ size \in Nat
  OBVIOUS
<1>3. InOrder(spans, top, limit)  BY <1>2, CtaSpansInOrder
<1>. HIDE DEF limit, spans, start, low, width, size, top
<1>4. InOrder(spans, top, start)  BY <1>2, <1>3, WiderOrder
<1>. DEFINE from == AtLeast(low - Height(FitSingle(label, width - 96, size, 2)) - 36, start)
<1>5. from \in Int /\ start <= from /\ from <= low /\ InOrder(pill, from, low)  BY <1>2, PillInOrder
<1>. HIDE DEF from, pill
<1>6. InOrder(pill, start, low)  BY <1>2, <1>5, WiderOrder
<1>7. start <= low  BY <1>2, <1>5
<1>8. InOrder(spans \o pill, top, low)  BY <1>2, <1>4, <1>6, <1>7, Joined
<1>. QED  BY <1>1, <1>8 DEF low, top

\* The URL below the button, the mascot below both.
LEMMA ContestCtaInOrder ==
    ASSUME NEW card \in ContestSlides
    PROVE  InOrder(ContestCta(card), 166, 1270)
<1>. DEFINE h == card.mascot
            u == card.url
            bottom == IF h THEN 946 ELSE 1270
            label == IF card.cta = 0 THEN 8 ELSE card.cta
            fit == FitSingle(label, 692, 36, 2)
            button == Height(fit) + 52
            end == bottom - 14
            from == bottom - 58
            low == IF u THEN bottom - 54 ELSE bottom
            titles == CtaButton(card, label, button, low)
            source == IF u THEN Text(from, end) ELSE << >>
            mascot == MascotBlock(card)
            top == 166
            last == 1270
<1>1. h \in BOOLEAN /\ u \in BOOLEAN /\ label \in Nat /\ label > 0  BY DEF ContestSlides
<1>2. bottom \in {946, 1270}  OBVIOUS
<1>3. ContentBottom(h, FALSE) = bottom
  BY <1>1 DEF ContentBottom, ContestBottom, MascotHeight
<1>4. LinesEnd([font |-> Sized(24), lines |-> 2], 8, bottom - 58, bottom - 6) = end
  <2>. HIDE DEF bottom
  <2>. DEFINE b == bottom
  <2>1. b \in Int  BY <1>2
  <2>. HIDE DEF b
  <2>2. Sized(24) = 30  BY DEF Sized, AtLeast
  <2>3. LineHeight(30, 8) = 44  BY DEF LineHeight
  <2>4. (b - 6) - (b - 58) = 52 /\ 52 \div 44 = 1  BY <2>1
  <2>5. AtLeast(1, 0) = 1 /\ AtMost(2, 1) = 1 /\ 44 * 1 = 44  BY DEF AtLeast, AtMost
  <2>6. (b - 58) + 44 = b - 14  BY <2>1
  <2>7. LinesEnd([font |-> Sized(24), lines |-> 2], 8, b - 58, b - 6)
          = (b - 58) + LineHeight(Sized(24), 8) * AtMost(2, AtLeast(((b - 6) - (b - 58)) \div LineHeight(Sized(24), 8), 0))
    BY DEF LinesEnd
  <2>. QED  BY <2>2, <2>3, <2>4, <2>5, <2>6, <2>7 DEF b
<1>5. ContestCta(card) = (titles \o source) \o mascot
  <2>. HIDE DEF bottom
  <2>1. Column - 120 = 692 /\ GapSmall = 8  BY DEF Column, GapSmall
  <2>. DEFINE w == 692
              g == 8
  <2>2. Column - 120 = w /\ GapSmall = g  BY <2>1
  <2>3. LinesEnd([font |-> Sized(24), lines |-> 2], g, bottom - 58, bottom - 6) = end  BY <1>4
  <2>4. button = Height(FitSingle(label, w, 36, 2)) + 52  OBVIOUS
  <2>. HIDE DEF w, g, end, button, fit
  <2>5. CASE u
    <3>1. low = bottom - 54 /\ source = Text(from, end)  BY <2>5
    <3>. HIDE DEF low, source
    <3>. QED  BY <1>3, <2>2, <2>3, <2>4, <2>5, <3>1 DEF ContestCta
  <2>6. CASE ~u
    <3>1. low = bottom /\ source = << >>  BY <2>6
    <3>. HIDE DEF low, source
    <3>. QED  BY <1>3, <2>2, <2>4, <2>6, <3>1 DEF ContestCta
  <2>. QED  BY <2>5, <2>6
<1>6. button \in Int /\ 107 <= button /\ button <= 170
  <2>. DEFINE w == 692
              s == 36
              m == 2
  <2>1. w \in Int /\ s \in Nat /\ m \in Nat /\ m = 2  OBVIOUS
  <2>2. fit = FitSingle(label, w, s, m)  OBVIOUS
  <2>3. Sized(s) = 46  BY DEF Sized, AtLeast
  <2>. HIDE DEF w, s, m, label, fit
  <2>4. LET f == FitSingle(label, w, s, m) IN f.font = Sized(s) /\ f.lines \in 0..m /\ (label > 0 /\ m > 0 => f.lines >= 1)
    BY <1>1, <2>1, SingleFits
  <2>5. fit.font = 46 /\ fit.lines \in 1..2  BY <1>1, <2>1, <2>2, <2>3, <2>4
  <2>6. LineHeight(46, 8) = 63  BY DEF LineHeight
  <2>7. Height(fit) = IF fit.lines = 0 THEN 0 ELSE fit.lines * 63 - 8
    BY <2>5, <2>6 DEF Height, TextHeight, GapSmall
  <2>8. fit.lines = 1 \/ fit.lines = 2  BY <2>5
  <2>9. Height(fit) = 55 \/ Height(fit) = 118  BY <2>7, <2>8
  <2>. QED  BY <2>9
<1>. HIDE DEF button, label
<1>7. low \in Int /\ low >= 600 /\ low <= bottom /\ (u => low = bottom - 54)
  <2>. HIDE DEF bottom
  <2>1. low = bottom \/ low = bottom - 54  OBVIOUS
  <2>2. u => low = bottom - 54  OBVIOUS
  <2>. HIDE DEF low
  <2>. QED  BY <1>2, <2>1, <2>2
<1>. DEFINE lowEnd == low - 20
<1>8. InOrder(titles, top, lowEnd)
  <2>. HIDE DEF low
  <2>1. InOrder(CtaButton(card, label, button, low), 166, low - 20)  BY <1>1, <1>6, <1>7, CtaButtonInOrder
  <2>. QED  BY <2>1
<1>9. /\ end \in Int /\ from \in Int /\ from <= end /\ lowEnd \in Int /\ lowEnd <= end /\ (u => lowEnd <= from)
      /\ top \in Int /\ top <= lowEnd /\ top <= from /\ top <= end
  <2>. HIDE DEF low, bottom
  <2>. QED  BY <1>2, <1>7
<1>10. (h => end <= 938) /\ end <= 1270
  <2>1. h => bottom = 946  OBVIOUS
  <2>. HIDE DEF bottom
  <2>. QED  BY <1>2, <2>1
<1>. HIDE DEF titles, end, from, lowEnd, low, bottom, top
<1>11. InOrder(titles \o source, top, end)
  <2>1. CASE ~u
    <3>1. InOrder(titles, top, end)
      <4>1. top <= top  BY <1>9
      <4>. QED  BY <1>8, <1>9, <4>1, WiderOrder
    <3>2. InOrder(<< >>, end, end)  BY <1>9, NoBlock
    <3>3. end <= end  BY <1>9
    <3>4. InOrder(titles \o << >>, top, end)  BY <1>9, <3>1, <3>2, <3>3, Joined
    <3>. QED  BY <2>1, <3>4
  <2>2. CASE u
    <3>. DEFINE text == Text(from, end)
    <3>1. InOrder(text, from, end)  BY <1>9, TextInOrder
    <3>2. top <= top /\ lowEnd <= from  BY <1>9, <2>2
    <3>3. InOrder(titles, top, from)  BY <1>8, <1>9, <3>2, WiderOrder
    <3>. HIDE DEF text
    <3>4. InOrder(titles \o text, top, end)  BY <1>9, <3>1, <3>3, Joined
    <3>. QED  BY <2>2, <3>4 DEF text
  <2>. QED  BY <2>1, <2>2
<1>. DEFINE above == titles \o source
<1>12. InOrder(above, top, end)  BY <1>11
<1>13. ContestCta(card) = above \o mascot  BY <1>5
<1>. HIDE DEF above
<1>14. InOrder(above \o mascot, top, last)
  <2>1. CASE ~h
    <3>1. mascot = << >>  BY <2>1, NoMascot
    <3>2. end <= last /\ last \in Int  BY <1>10
    <3>. HIDE DEF last
    <3>3. InOrder(<< >>, end, last)  BY <1>9, <3>2, NoBlock
    <3>4. InOrder(above \o << >>, top, last)  BY <1>9, <1>12, <3>2, <3>3, Joined
    <3>. QED  BY <3>1, <3>4
  <2>2. CASE h
    <3>. DEFINE a == 938
                b == 1226
    <3>1. InOrder(mascot, a, b)  BY MascotInOrder
    <3>2. a \in Int /\ b \in Int /\ last \in Int /\ end <= a /\ b <= last /\ end <= last  BY <1>10, <2>2
    <3>. HIDE DEF a, b, last, mascot
    <3>3. InOrder(mascot, end, last)  BY <1>9, <3>1, <3>2, WiderOrder
    <3>. QED  BY <1>9, <1>12, <3>2, <3>3, Joined
  <2>. QED  BY <2>1, <2>2
<1>. QED  BY <1>13, <1>14 DEF top

----------------------------------------------------------------------------
(* Contest cards: the titles of a cover.                                    *)

\* Where the titles of a cover are.
CoverPlaces(card, limit, a, b, c, d, e, f) ==
    /\ CoverSpans(card, limit) = Drawn(<<a, b>>, <<c, d>>, <<e, f>>)
    /\ a = Centre(166, limit, AtLeast((StackPart(card.eyebrow, 38, 28) + StackPart(card.headline, 72, 40)
                                         + StackPart(card.highlight, 72, 40)) - 20, 0))
    /\ <<a, b>> = CoverSpan(card.eyebrow, 812, 38, a, limit)
    /\ c = IF card.eyebrow = 0 THEN a ELSE b + 20
    /\ <<c, d>> = CoverSpan(card.headline, 804, 72, c, limit)
    /\ e = IF card.headline = 0 THEN c ELSE d + 20
    /\ <<e, f>> = CoverSpan(card.highlight, 804, 72, e, limit)

EndsAt(end, chars, y, limit) == y <= end /\ end <= AtLeast(y, limit) /\ (chars = 0 => end = y)

LEMMA CoverSpanWithin ==
    ASSUME NEW chars \in Nat, NEW width \in Int, NEW size \in Nat, NEW y \in Int, NEW limit \in Int
    PROVE  \E end \in Int : CoverSpan(chars, width, size, y, limit) = <<y, end>> /\ EndsAt(end, chars, y, limit)
<1>. DEFINE most == 2
            fit == FitSingle(chars, width, size, most)
            end == LinesEnd(fit, 8, y, limit)
<1>1. CoverSpan(chars, width, size, y, limit) = <<y, end>>  BY DEF CoverSpan, GapSmall
<1>2. fit.font \in Nat /\ fit.font > 0 /\ fit.lines \in 0..most
  <2>1. most \in Nat  OBVIOUS
  <2>. HIDE DEF most
  <2>. QED  BY <2>1, SingleFits
<1>3. fit.lines \in Nat  BY <1>2
<1>4. chars = 0 => end = y
  <2>. SUFFICES ASSUME chars = 0 PROVE end = y  OBVIOUS
  <2>. DEFINE font == Sized(size)
  <2>1. font \in Nat /\ font > 0  BY SizedWithin
  <2>2. fit.lines = AtMost(Wrap(0, font, width), 2)  BY DEF FitSingle
  <2>. HIDE DEF font
  <2>. DEFINE q == AtLeast(width \div font, 1)
  <2>3. q \in Nat /\ q >= 1  BY <2>1 DEF AtLeast
  <2>4. Wrap(0, font, width) = (0 + q - 1) \div q  BY DEF Wrap
  <2>. HIDE DEF q
  <2>5. (0 + q - 1) \div q = 0
    <3>. DEFINE x == q - 1
                z == x \div q
    <3>1. z \in Int /\ q * z <= x /\ x < q * z + q  BY <2>3
    <3>2. 0 + q - 1 = x /\ x < q /\ x >= 0  BY <2>3
    <3>. HIDE DEF x, z
    <3>3. q * z < q /\ q * z > 0 - q
      <4>1. q * z \in Int  BY <2>3, <3>1
      <4>. QED  BY <2>3, <3>1, <3>2, <4>1
    <3>4. ~(z >= 1)
      <4>. SUFFICES ASSUME z >= 1 PROVE FALSE  OBVIOUS
      <4>1. PICK u \in Nat : z = 1 + u
        <5>1. z - 1 \in Nat  BY <3>1
        <5>. QED  BY <3>1, <5>1
      <4>2. q * z = q + q * u /\ q * u >= 0  BY <2>3, <4>1
      <4>. QED  BY <2>3, <3>3, <4>2
    <3>5. ~(z <= 0 - 1)
      <4>. SUFFICES ASSUME z <= 0 - 1 PROVE FALSE  OBVIOUS
      <4>1. PICK u \in Nat : z = 0 - 1 - u
        <5>1. 0 - 1 - z \in Nat  BY <3>1
        <5>. QED  BY <3>1, <5>1
      <4>2. q * z = 0 - q - q * u /\ q * u >= 0  BY <2>3, <4>1
      <4>. QED  BY <2>3, <3>3, <4>2
    <3>6. z = 0  BY <3>1, <3>4, <3>5
    <3>. QED  BY <3>2, <3>6 DEF z
  <2>6. AtMost(0, 2) = 0  BY DEF AtMost
  <2>7. fit.lines = 0  BY <2>2, <2>4, <2>5, <2>6
  <2>. DEFINE step == LineHeight(fit.font, 8)
              room == (limit - y) \div step
              some == AtLeast(room, 0)
  <2>8. step \in Nat /\ step > 0  BY <1>2 DEF LineHeight
  <2>9. end = y + step * AtMost(fit.lines, some)  BY DEF LinesEnd
  <2>. HIDE DEF step, fit, end
  <2>10. room \in Int  BY <2>8
  <2>. HIDE DEF room
  <2>11. some \in Nat  BY <2>10 DEF AtLeast
  <2>. HIDE DEF some
  <2>12. AtMost(0, some) = 0  BY <2>11 DEF AtMost
  <2>13. step * 0 = 0  BY <2>8
  <2>. QED  BY <2>7, <2>9, <2>12, <2>13
<1>. HIDE DEF fit
<1>5. end \in Int /\ y <= end /\ end <= AtLeast(y, limit)  BY <1>2, <1>3, EndWithin
<1>. HIDE DEF end
<1>. QED  BY <1>1, <1>4, <1>5 DEF EndsAt

LEMMA CoverSpansDrawn ==
    ASSUME NEW card \in ContestSlides, NEW limit \in Int, limit >= 166
    PROVE  \E a, b, c, d, e, f \in Int :
              /\ CoverPlaces(card, limit, a, b, c, d, e, f)
              /\ 166 <= a /\ a <= limit /\ a <= b /\ b <= c /\ c <= d /\ d <= e /\ e <= f
              /\ b <= AtLeast(a, limit) /\ d <= AtLeast(c, limit) /\ f <= AtLeast(e, limit)
<1>. DEFINE t == card.eyebrow
            h == card.headline
            g == card.highlight
            stack == StackPart(t, 38, 28) + StackPart(h, 72, 40) + StackPart(g, 72, 40)
            a == Centre(166, limit, AtLeast(stack - 20, 0))
<1>1. t \in Nat /\ h \in Nat /\ g \in Nat  BY DEF ContestSlides
<1>2. stack \in Nat
  <2>. HIDE DEF t, h, g
  <2>1. StackPart(t, 38, 28) \in Nat /\ StackPart(h, 72, 40) \in Nat /\ StackPart(g, 72, 40) \in Nat
    BY <1>1, StackPartType
  <2>. QED  BY <2>1
<1>3. CoverSpans(card, limit) = CoverSecond(card, CoverSpan(t, 812, 38, a, limit), limit)
  BY DEF CoverSpans, ContestTop, ElementGap, Column
<1>. HIDE DEF stack
<1>4. a \in Int /\ 166 <= a /\ a <= limit  BY <1>2 DEF Centre, AtLeast
<1>. DEFINE w1 == 812
            w2 == 804
            s1 == 38
            s2 == 72
<1>5. w1 \in Int /\ w2 \in Int /\ s1 \in Nat /\ s2 \in Nat  OBVIOUS
<1>. HIDE DEF a, w1, w2, s1, s2, t, h, g
<1>6. PICK b \in Int : CoverSpan(t, w1, s1, a, limit) = <<a, b>> /\ EndsAt(b, t, a, limit)
  BY <1>1, <1>4, <1>5, CoverSpanWithin
<1>. DEFINE c == IF t = 0 THEN a ELSE b + 20
<1>7. c \in Int /\ b <= c  BY <1>4, <1>6 DEF EndsAt
<1>8. Below(t, <<a, b>>, 20) = c  BY DEF Below
<1>. HIDE DEF c
<1>9. PICK d \in Int : CoverSpan(h, w2, s2, c, limit) = <<c, d>> /\ EndsAt(d, h, c, limit)
  BY <1>1, <1>5, <1>7, CoverSpanWithin
<1>. DEFINE e == IF h = 0 THEN c ELSE d + 20
<1>10. e \in Int /\ d <= e  BY <1>7, <1>9 DEF EndsAt
<1>11. Below(h, <<c, d>>, 20) = e  BY DEF Below
<1>. HIDE DEF e
<1>12. PICK f \in Int : CoverSpan(g, w2, s2, e, limit) = <<e, f>> /\ EndsAt(f, g, e, limit)
  BY <1>1, <1>5, <1>10, CoverSpanWithin
<1>13. CoverSpans(card, limit) = Drawn(<<a, b>>, <<c, d>>, <<e, f>>)
  <2>1. CoverSpans(card, limit) = CoverSecond(card, <<a, b>>, limit)  BY <1>3, <1>6 DEF w1, s1
  <2>2. 812 - 8 = w2 /\ 72 = s2  BY DEF w2, s2
  <2>3. Column - 8 = w2 /\ ElementGap = 20  BY <2>2 DEF Column, ElementGap
  <2>4. CoverSecond(card, <<a, b>>, limit) = CoverThird(card, <<a, b>>, <<c, d>>, limit)
    BY <1>8, <1>9, <2>2, <2>3 DEF CoverSecond, t, h
  <2>5. CoverThird(card, <<a, b>>, <<c, d>>, limit) = Drawn(<<a, b>>, <<c, d>>, <<e, f>>)
    BY <1>11, <1>12, <2>2, <2>3 DEF CoverThird, h, g
  <2>. QED  BY <2>1, <2>4, <2>5
<1>14. CoverPlaces(card, limit, a, b, c, d, e, f)
  <2>1. a = Centre(166, limit, AtLeast(stack - 20, 0))  BY DEF a
  <2>2. <<a, b>> = CoverSpan(card.eyebrow, 812, 38, a, limit)  BY <1>6 DEF t, w1, s1
  <2>3. <<c, d>> = CoverSpan(card.headline, 804, 72, c, limit)  BY <1>9 DEF h, w2, s2
  <2>4. <<e, f>> = CoverSpan(card.highlight, 804, 72, e, limit)  BY <1>12 DEF g, w2, s2
  <2>5. c = IF card.eyebrow = 0 THEN a ELSE b + 20  BY DEF c, t
  <2>6. e = IF card.headline = 0 THEN c ELSE d + 20  BY DEF e, h
  <2>7. a = Centre(166, limit, AtLeast((StackPart(card.eyebrow, 38, 28) + StackPart(card.headline, 72, 40)
                                         + StackPart(card.highlight, 72, 40)) - 20, 0))
    BY <2>1 DEF stack, t, h, g
  <2>. QED  BY <1>13, <2>2, <2>3, <2>4, <2>5, <2>6, <2>7 DEF CoverPlaces
<1>15. /\ 166 <= a /\ a <= limit /\ a <= b /\ b <= c /\ c <= d /\ d <= e /\ e <= f
       /\ b <= AtLeast(a, limit) /\ d <= AtLeast(c, limit) /\ f <= AtLeast(e, limit)
  BY <1>4, <1>6, <1>7, <1>9, <1>10, <1>12 DEF EndsAt
<1>. QED  BY <1>4, <1>7, <1>10, <1>14, <1>15

LEMMA CoverInLimit ==
    ASSUME NEW card \in ContestSlides, NEW limit \in Int, limit >= 166
    PROVE  InOrder(CoverSpans(card, limit), 166, limit)
<1>1. PICK a, b, c, d, e, f \in Int :
              /\ CoverPlaces(card, limit, a, b, c, d, e, f)
              /\ 166 <= a /\ a <= limit /\ a <= b /\ b <= c /\ c <= d /\ d <= e /\ e <= f
              /\ b <= AtLeast(a, limit) /\ d <= AtLeast(c, limit) /\ f <= AtLeast(e, limit)
  BY CoverSpansDrawn
<1>. DEFINE list == Drawn(<<a, b>>, <<c, d>>, <<e, f>>)
            top == 166
<1>2. InOrder(list, a, limit)  BY <1>1, DrawnInOrder
<1>3. CoverSpans(card, limit) = list  BY <1>1 DEF CoverPlaces
<1>4. top \in Int /\ top <= a /\ limit <= limit  BY <1>1
<1>. HIDE DEF list, top
<1>5. InOrder(list, top, limit)  BY <1>1, <1>2, <1>4, WiderOrder
<1>. QED  BY <1>3, <1>5 DEF top

\* A pill stands where it may.
LEMMA PillWithin ==
    ASSUME NEW chars \in Nat, NEW width \in Int, NEW top \in Int, NEW bottom \in Int, bottom - top >= 36,
           NEW size \in Nat
    PROVE  InOrder(Pill(chars, width, top, bottom, size), top, bottom)
<1>. DEFINE from == AtLeast(bottom - Height(FitSingle(chars, width - 96, size, 2)) - 36, top)
            list == Pill(chars, width, top, bottom, size)
<1>1. from \in Int /\ top <= from /\ from <= bottom /\ InOrder(list, from, bottom)  BY PillInOrder
<1>. HIDE DEF from, list
<1>2. bottom <= bottom  OBVIOUS
<1>. QED  BY <1>1, <1>2, WiderOrder DEF list

\* What is kept free for a pill.
LEMMA CoverReservedWithin ==
    ASSUME NEW pill \in Nat
    PROVE  CoverReserved(pill) \in Nat /\ CoverReserved(pill) <= 122
<1>. DEFINE width == 712
            size == 34
            most == 2
            lines == FitSingle(pill, width, size, most).lines
<1>1. lines = 0 \/ lines = 1 \/ lines = 2
  <2>1. width \in Int /\ size \in Nat /\ most \in Nat  OBVIOUS
  <2>. HIDE DEF width, size, most
  <2>2. lines \in 0..most  BY <2>1, SingleFits
  <2>. QED  BY <2>2 DEF most
<1>2. Column - 100 = width /\ 34 = size  BY DEF Column
<1>3. CoverReserved(pill) = IF pill = 0 THEN 0 ELSE TextHeight(lines, Sized(26), 8) + 36
  <2>1. Column - 100 = 712  BY DEF Column
  <2>. QED  BY <2>1 DEF CoverReserved, GapSmall
<1>. HIDE DEF lines
<1>4. Sized(26) = 33 /\ LineHeight(33, 8) = 47  BY DEF Sized, AtLeast, LineHeight
<1>5. TextHeight(lines, Sized(26), 8) = IF lines = 0 THEN 0 ELSE lines * 47 - 8  BY <1>4 DEF TextHeight
<1>. QED  BY <1>1, <1>3, <1>5

LEMMA OnePill ==
    ASSUME NEW chars \in Nat, chars # 0, NEW width, NEW top, NEW bottom, NEW size
    PROVE  Len(Pill(chars, width, top, bottom, size)) = 1
<1>1. PICK block : Pill(chars, width, top, bottom, size) = <<block>>  BY DEF Pill
<1>. QED  BY <1>1

LEMMA OneMascot ==
    ASSUME NEW card \in ContestSlides, card.mascot
    PROVE  Len(MascotBlock(card)) = 1
<1>1. PICK block : MascotUnder(SpeechHeight(Speech(card)), ContestBottom + 12 - PointHeight) = <<block>>
  BY DEF MascotUnder
<1>. QED  BY <1>1 DEF MascotBlock

\* The blocks of a list that follows another of which only the first may come over it.
LEMMA Regrouped ==
    ASSUME NEW first, NEW second, NEW third, NEW top, NEW bottom, NEW above, NEW below, NEW over, NEW under,
           InOrder(first, top, bottom), InOrder(second, above, below), InOrder(third, over, under)
    PROVE  /\ (first \o second) \o third = first \o (second \o third)
           /\ Len(first \o (second \o third)) = Len(first) + (Len(second) + Len(third))
           /\ Len(first) \in Nat /\ Len(second) \in Nat /\ Len(third) \in Nat
<1>1. PICK S : first \in Seq(S)  BY DEF InOrder
<1>2. PICK T : second \in Seq(T)  BY DEF InOrder
<1>3. PICK U : third \in Seq(U)  BY DEF InOrder
<1>. DEFINE A == S \cup T \cup U
<1>4. first \in Seq(A) /\ second \in Seq(A) /\ third \in Seq(A)  BY <1>1, <1>2, <1>3
<1>. HIDE DEF A
<1>5. (first \o second) \o third = first \o (second \o third)  BY <1>4, ConcatAssociative
<1>6. second \o third \in Seq(A) /\ Len(second \o third) = Len(second) + Len(third)  BY <1>4
<1>7. Len(first \o (second \o third)) = Len(first) + (Len(second) + Len(third))  BY <1>4, <1>6
<1>. QED  BY <1>4, <1>5, <1>7

\* The place of a cover's pill.
PillPlace(card, pill) ==
    IF pill = 0 THEN {} ELSE {Len(CoverOver(card, pill)) - (IF card.mascot THEN 1 ELSE 0)}

\* Titles, pill and mascot, above a bottom.
LEMMA CoverOverInOrder ==
    ASSUME NEW card \in ContestSlides, NEW pill \in Nat
    PROVE  InOrderBut(CoverOver(card, pill), PillPlace(card, pill), 166, 1270)
<1>. DEFINE h == card.mascot
            bottom == IF h THEN 946 ELSE 1270
            low == bottom - 20
            top == 166
            reserved == CoverReserved(pill)
            limit == low - reserved
            width == 740
            size == 34
            spans == CoverSpans(card, limit)
            block == Pill(pill, width, top, low, size)
            mascot == MascotBlock(card)
            last == 1270
<1>1. h \in BOOLEAN  BY DEF ContestSlides
<1>2. ContentBottom(h, FALSE) = bottom
  BY <1>1 DEF ContentBottom, ContestBottom, MascotHeight
<1>3. bottom \in {1270, 946}  OBVIOUS
<1>4. low \in {1250, 926}  OBVIOUS
<1>5. reserved \in Nat /\ reserved <= 122  BY CoverReservedWithin
<1>. HIDE DEF reserved
<1>6. CoverOver(card, pill) = (spans \o block) \o mascot
  <2>. DEFINE gap == 20
  <2>1. ElementGap = gap /\ Column - 72 = width /\ ContestTop = top /\ size = 34
    BY DEF ElementGap, Column, ContestTop
  <2>2. bottom - gap = low /\ bottom - reserved - gap = limit
    <3>. HIDE DEF bottom
    <3>. QED  BY <1>3, <1>5
  <2>3. CoverOver(card, pill) = CoverPilled(card, pill, reserved, bottom)
    <3>. HIDE DEF bottom
    <3>. QED  BY <1>2 DEF CoverOver, reserved
  <2>. HIDE DEF gap, limit, low, top, width, bottom
  <2>. QED  BY <2>1, <2>2, <2>3 DEF CoverPilled
<1>7. /\ low \in Int /\ top \in Int /\ last \in Int /\ limit \in Int /\ width \in Int /\ size \in Nat
      /\ top <= low /\ low - top >= 36 /\ low <= low /\ low <= last /\ top <= top
      /\ 166 <= limit /\ limit <= last /\ (h => low = 926)
  BY <1>4, <1>5
<1>8. InOrder(spans, top, last)
  <2>1. InOrder(CoverSpans(card, limit), 166, limit)  BY <1>7, CoverInLimit
  <2>2. InOrder(spans, top, limit)  BY <2>1
  <2>. HIDE DEF spans, top, last, limit
  <2>. QED  BY <1>7, <2>2, WiderOrder
<1>9. InOrder(block, top, low)
  <2>. HIDE DEF top, low, width, size
  <2>. QED  BY <1>7, PillWithin
<1>10. InOrder(mascot, low, last) /\ Len(mascot) = (IF h THEN 1 ELSE 0)
  <2>. HIDE DEF low, last
  <2>1. CASE ~h
    <3>1. mascot = << >>  BY <2>1, NoMascot
    <3>2. InOrder(<< >>, low, last)  BY <1>7, NoBlock
    <3>. QED  BY <2>1, <3>1, <3>2
  <2>2. CASE h
    <3>. DEFINE a == 938
                b == 1226
    <3>1. InOrder(mascot, a, b)  BY MascotInOrder
    <3>2. a \in Int /\ b \in Int /\ low <= a /\ b <= last  BY <1>7, <2>2 DEF last
    <3>3. Len(mascot) = 1  BY <2>2, OneMascot
    <3>. HIDE DEF a, b, mascot
    <3>4. InOrder(mascot, low, last)  BY <1>7, <3>1, <3>2, WiderOrder
    <3>. QED  BY <2>2, <3>3, <3>4
  <2>. QED  BY <2>1, <2>2
<1>11. pill # 0 => Len(block) = 1  BY OnePill
<1>12. pill = 0 => block = << >>  BY DEF Pill
<1>. HIDE DEF spans, block, mascot, low, limit, last, top
<1>. DEFINE after == block \o mascot
<1>13. /\ CoverOver(card, pill) = spans \o after
       /\ Len(CoverOver(card, pill)) = Len(spans) + (Len(block) + Len(mascot))
       /\ Len(spans) \in Nat /\ Len(block) \in Nat /\ Len(mascot) \in Nat
  <2>. HIDE DEF after
  <2>1. /\ (spans \o block) \o mascot = spans \o (block \o mascot)
        /\ Len(spans \o (block \o mascot)) = Len(spans) + (Len(block) + Len(mascot))
        /\ Len(spans) \in Nat /\ Len(block) \in Nat /\ Len(mascot) \in Nat
    <3>1. InOrder(spans, top, last) /\ InOrder(block, top, low) /\ InOrder(mascot, low, last)  BY <1>8, <1>9, <1>10
    <3>. QED  BY ONLY <3>1, Regrouped
  <2>. QED  BY <1>6, <2>1 DEF after
<1>14. InOrder(after, top, last)  BY <1>7, <1>9, <1>10, Joined
<1>. DEFINE list == CoverOver(card, pill)
<1>15. InOrderBut(list, PillPlace(card, pill), top, last)
  <2>1. CASE pill # 0
    <3>1. InOrderBut(spans \o after, {Len(spans) + 1}, top, last)  BY <1>7, <1>8, <1>14, JoinedOver
    <3>2. Len(list) - (IF h THEN 1 ELSE 0) = Len(spans) + 1
      <4>1. Len(list) = Len(spans) + (1 + (IF h THEN 1 ELSE 0))  BY <1>10, <1>11, <1>13, <2>1
      <4>. DEFINE n == Len(spans)
                  l == Len(list)
                  m == IF h THEN 1 ELSE 0
      <4>2. n \in Nat /\ l = n + (1 + m) /\ m \in Nat  BY <1>13, <4>1
      <4>. HIDE DEF n, l, m
      <4>3. l - m = n + 1  BY <4>2
      <4>. QED  BY <4>3 DEF n, l, m
    <3>3. PillPlace(card, pill) = {Len(spans) + 1}  BY <2>1, <3>2 DEF PillPlace
    <3>. QED  BY <1>13, <3>1, <3>3
  <2>2. CASE pill = 0
    <3>1. limit <= low /\ block = << >>  BY <1>5, <1>7, <1>12, <2>2 DEF limit
    <3>2. InOrder(CoverSpans(card, limit), 166, limit)  BY <1>7, CoverInLimit
    <3>3. InOrder(spans, top, limit)  BY <3>2 DEF spans, top
    <3>4. InOrder(spans, top, low)  BY <1>7, <3>1, <3>3, WiderOrder
    <3>5. InOrder(spans \o << >>, top, low)
      <4>1. InOrder(<< >>, low, low)  BY <1>7, NoBlock
      <4>. QED  BY <1>7, <3>4, <4>1, Joined
    <3>6. InOrder((spans \o << >>) \o mascot, top, last)  BY <1>7, <1>10, <3>5, Joined
    <3>7. list = (spans \o << >>) \o mascot  BY <1>6, <3>1
    <3>. HIDE DEF list
    <3>8. InOrder(list, top, last)  BY <3>6, <3>7
    <3>. QED  BY <3>8, OrderedBut
  <2>. QED  BY <2>1, <2>2
<1>. QED  BY <1>15 DEF top, last

----------------------------------------------------------------------------
(* Every card.                                                              *)

LEMMA PolicyCards ==
    ASSUME NEW card \in CardSlides
    PROVE  ~IsContest(card)
BY DEF CardSlides, IsContest

LEMMA PolicyInOrder ==
    ASSUME NEW card \in CardSlides
    PROVE  /\ Kind(card) \in {"cover", "cta", "numbered", "three_col", "grid"}
           /\ Kind(card) = "cover" => InOrder(CoverBlocks(card), 72, 1278)
           /\ Kind(card) = "cta" => InOrder(CtaBlocks(card), 72, 1278)
           /\ Kind(card) = "numbered" => InOrder(NumberedBlocks(card), 72, 1278)
           /\ Kind(card) = "three_col" => InOrder(ThreeColBlocks(card), 72, 1278)
           /\ Kind(card) = "grid" => InOrder(GridBlocks(card), 72, 1278)
<1>. DEFINE i == card.index
            n == card.total
            l == Len(card.items)
            top == 72
            low == 1260
            bottom == 1278
<1>1. i \in Nat /\ n \in Nat /\ l \in Nat  BY DEF CardSlides
<1>2. Kind(card) = CASE i = 1 -> "cover" [] i > 1 /\ i = n -> "cta"
                     [] OTHER -> IF l = 3 THEN "three_col" ELSE IF l = 4 THEN "grid" ELSE "numbered"
  BY DEF Kind
<1>. HIDE DEF i, n, l
<1>3. /\ Kind(card) \in {"cover", "cta", "numbered", "three_col", "grid"}
      /\ (Kind(card) = "three_col" => l = 3) /\ (Kind(card) = "grid" => l = 4) /\ (Kind(card) = "numbered" => l \notin {3, 4})
  BY <1>1, <1>2
<1>5. ASSUME NEW list, InOrder(list, 72, 1260) PROVE InOrder(list, 72, 1278)
  <2>1. InOrder(list, top, low) /\ top \in Int /\ low \in Int /\ bottom \in Int /\ top <= top /\ low <= bottom
    BY <1>5
  <2>. HIDE DEF top, low, bottom
  <2>2. InOrder(list, top, bottom)  BY <2>1, WiderOrder
  <2>. QED  BY <2>2 DEF top, bottom
<1>6. InOrder(CoverBlocks(card), 72, 1278)  BY CoverInOrder
<1>7. ASSUME Kind(card) = "cta" PROVE InOrder(CtaBlocks(card), 72, 1278)
  <2>1. InOrder(CtaBlocks(card), 72, 1260)  BY CtaInOrder
  <2>. QED  BY <1>5, <2>1
<1>8. ASSUME Kind(card) = "numbered" PROVE InOrder(NumberedBlocks(card), 72, 1278)
  <2>1. Len(card.items) \notin {3, 4}  BY <1>3, <1>8 DEF l
  <2>2. InOrder(NumberedBlocks(card), 72, 1260)  BY <2>1, NumberedInOrder
  <2>. QED  BY <1>5, <2>2
<1>9. ASSUME Kind(card) = "three_col" PROVE InOrder(ThreeColBlocks(card), 72, 1278)
  <2>1. Len(card.items) = 3  BY <1>3, <1>9 DEF l
  <2>2. InOrder(ThreeColBlocks(card), 72, 1260)  BY <2>1, ThreeColInOrder
  <2>. QED  BY <1>5, <2>2
<1>10. ASSUME Kind(card) = "grid" PROVE InOrder(GridBlocks(card), 72, 1278)
  <2>1. Len(card.items) = 4  BY <1>3, <1>10 DEF l
  <2>2. InOrder(GridBlocks(card), 72, 1260)  BY <2>1, GridInOrder
  <2>. QED  BY <1>5, <2>2
<1>. QED  BY <1>3, <1>6, <1>7, <1>8, <1>9, <1>10

LEMMA ContestInOrder ==
    ASSUME NEW card \in ContestSlides, ~HasHighRows(card)
    PROVE  /\ IsContest(card)
           /\ card.layout \in {"cover", "headline", "body", "table", "three_col", "checklist", "cta"}
           /\ card.layout = "cover" => InOrderBut(ContestCover(card), PillPlaces(card, ContestCover(card)), 166, 1270)
           /\ card.layout = "headline" => InOrder(ContestHeadline(card), 166, 1270)
           /\ card.layout = "body" => InOrder(ContestBody(card), 166, 1270)
           /\ card.layout \in {"table", "three_col"} => InOrder(ContestTable(card), 166, 1270)
           /\ card.layout = "checklist" => InOrder(ContestChecklist(card), 166, 1270)
           /\ card.layout = "cta" => InOrder(ContestCta(card), 166, 1270)
<1>1. IsContest(card) /\ card.layout \in {"cover", "headline", "body", "table", "three_col", "checklist", "cta"}
  BY DEF ContestSlides, IsContest
<1>2. card.layout \in {"table", "three_col"} => Len(card.items) < 4
  <2>. DEFINE n == Len(card.items)
  <2>1. n \in Nat  BY DEF ContestSlides
  <2>2. card.layout \in {"table", "three_col"} => ~(n >= 4)  BY <1>1 DEF HasHighRows
  <2>. HIDE DEF n
  <2>3. card.layout \in {"table", "three_col"} => n < 4  BY <2>1, <2>2
  <2>. QED  BY <2>3 DEF n
<1>3. ASSUME card.layout = "cover"
      PROVE  InOrderBut(ContestCover(card), PillPlaces(card, ContestCover(card)), 166, 1270)
  <2>. DEFINE body == card.body
              cta == card.cta
              pill == IF body > 0 THEN body ELSE cta
              list == ContestCover(card)
  <2>1. body \in Nat /\ cta \in Nat  BY DEF ContestSlides
  <2>2. list = CoverOver(card, pill)  BY DEF ContestCover
  <2>3. PillPlaces(card, list) = IF body > 0 \/ cta > 0 THEN {Len(list) - (IF card.mascot THEN 1 ELSE 0)} ELSE {}
    BY <1>1, <1>3 DEF PillPlaces
  <2>. HIDE DEF body, cta, list
  <2>4. pill \in Nat /\ (pill = 0 <=> ~(body > 0 \/ cta > 0))  BY <2>1
  <2>. HIDE DEF pill
  <2>5. PillPlaces(card, list) = PillPlace(card, pill)  BY <2>2, <2>3, <2>4 DEF PillPlace
  <2>6. InOrderBut(list, PillPlaces(card, list), 166, 1270)  BY <2>2, <2>4, <2>5, CoverOverInOrder
  <2>. QED  BY <2>6 DEF list
<1>4. card.layout \in {"table", "three_col"} => InOrder(ContestTable(card), 166, 1270)  BY <1>2, TableInOrder
<1>5. InOrder(ContestHeadline(card), 166, 1270)  BY HeadlineInOrder
<1>6. InOrder(ContestBody(card), 166, 1270)  BY BodyInOrder
<1>7. InOrder(ContestChecklist(card), 166, 1270)  BY ChecklistInOrder
<1>8. InOrder(ContestCta(card), 166, 1270)  BY ContestCtaInOrder
<1>. QED  BY <1>1, <1>3, <1>4, <1>5, <1>6, <1>7, <1>8

\* What is drawn of a slide is in order on its card.
Laid(card, list) ==
    list # << >> /\ ~HasHighRows(card) =>
        IF IsContest(card) THEN InOrderBut(list, PillPlaces(card, list), 166, 1270)
        ELSE InOrderBut(list, PillPlaces(card, list), 72, 1278)

LEMMA PolicyLaid ==
    ASSUME NEW card \in CardSlides, NEW list, InOrder(list, 72, 1278)
    PROVE  Laid(card, list)
BY PolicyCards, OrderedBut DEF Laid

LEMMA ContestLaid ==
    ASSUME NEW card \in ContestSlides, NEW list, InOrder(list, 166, 1270)
    PROVE  Laid(card, list)
<1>1. IsContest(card)  BY DEF ContestSlides, IsContest
<1>. QED  BY <1>1, OrderedBut DEF Laid

LayoutInv == Laid(slide, blocks)

\* The parts of a card do not lie over each other: for texts of any length, titles, rows,
\* columns, tiles, panels, button, photo and mascot follow one another inside the card, and
\* what the code fits into each of them stays in it; but for the rows of a high table and the
\* pill of a contest's cover.
THEOREM CardsInOrder == LayoutSpec => []CardPartsStayApart
<1>1. LayoutInit => LayoutInv  BY DEF LayoutInit, LayoutInv, Laid
<1>2. LayoutInv /\ [DrawCard]_layoutVars => LayoutInv'
  <2>. SUFFICES ASSUME LayoutInv, [DrawCard]_layoutVars PROVE LayoutInv'  OBVIOUS
  <2>1. CASE DrawSlideCard
    <3>1. PICK card \in Cards :
            /\ slide' = card
            /\ blocks' = CASE Kind(card) = "cover"     -> CoverBlocks(card)
                           [] Kind(card) = "cta"       -> CtaBlocks(card)
                           [] Kind(card) = "numbered"  -> NumberedBlocks(card)
                           [] Kind(card) = "three_col" -> ThreeColBlocks(card)
                           [] Kind(card) = "grid"      -> GridBlocks(card)
      BY <2>1 DEF DrawSlideCard
    <3>2. card \in CardSlides  BY CardsAssumption
    <3>3. InOrder(blocks', 72, 1278)
      <4>1. Kind(card) \in {"cover", "cta", "numbered", "three_col", "grid"}  BY <3>2, PolicyInOrder
      <4>2. CASE Kind(card) = "cover"
        <5>1. blocks' = CoverBlocks(card)  BY <3>1, <4>2
        <5>. QED  BY <3>2, <4>2, <5>1, PolicyInOrder
      <4>3. CASE Kind(card) = "cta"
        <5>1. blocks' = CtaBlocks(card)  BY <3>1, <4>3
        <5>. QED  BY <3>2, <4>3, <5>1, PolicyInOrder
      <4>4. CASE Kind(card) = "numbered"
        <5>1. blocks' = NumberedBlocks(card)  BY <3>1, <4>4
        <5>. QED  BY <3>2, <4>4, <5>1, PolicyInOrder
      <4>5. CASE Kind(card) = "three_col"
        <5>1. blocks' = ThreeColBlocks(card)  BY <3>1, <4>5
        <5>. QED  BY <3>2, <4>5, <5>1, PolicyInOrder
      <4>6. CASE Kind(card) = "grid"
        <5>1. blocks' = GridBlocks(card)  BY <3>1, <4>6
        <5>. QED  BY <3>2, <4>6, <5>1, PolicyInOrder
      <4>. QED  BY <4>1, <4>2, <4>3, <4>4, <4>5, <4>6
    <3>4. Laid(card, blocks')  BY <3>2, <3>3, PolicyLaid
    <3>. QED  BY <3>1, <3>4 DEF LayoutInv
  <2>2. CASE DrawContestCard
    <3>1. PICK card \in ContestCards :
            /\ slide' = card
            /\ blocks' = CASE card.layout = "cover"     -> ContestCover(card)
                           [] card.layout = "headline"  -> ContestHeadline(card)
                           [] card.layout = "body"      -> ContestBody(card)
                           [] card.layout \in {"table", "three_col"} -> ContestTable(card)
                           [] card.layout = "checklist" -> ContestChecklist(card)
                           [] card.layout = "cta"       -> ContestCta(card)
      BY <2>2 DEF DrawContestCard
    <3>2. card \in ContestSlides  BY ContestCardsAssumption
    <3>3. CASE HasHighRows(card)  BY <3>1, <3>3 DEF LayoutInv, Laid
    <3>4. CASE ~HasHighRows(card)
      <4>1. card.layout \in {"cover", "headline", "body", "table", "three_col", "checklist", "cta"} /\ IsContest(card)
        BY <3>2, <3>4, ContestInOrder
      <4>2. Laid(card, blocks')
        <5>1. CASE card.layout = "cover"
          <6>1. blocks' = ContestCover(card)  BY <3>1, <5>1
          <6>. QED  BY <3>2, <3>4, <4>1, <5>1, <6>1, ContestInOrder DEF Laid
        <5>2. CASE card.layout = "headline"
          <6>1. blocks' = ContestHeadline(card)  BY <3>1, <5>2
          <6>. QED  BY <3>2, <3>4, <5>2, <6>1, ContestInOrder, ContestLaid
        <5>3. CASE card.layout = "body"
          <6>1. blocks' = ContestBody(card)  BY <3>1, <5>3
          <6>. QED  BY <3>2, <3>4, <5>3, <6>1, ContestInOrder, ContestLaid
        <5>4. CASE card.layout \in {"table", "three_col"}
          <6>1. blocks' = ContestTable(card)  BY <3>1, <5>4
          <6>. QED  BY <3>2, <3>4, <5>4, <6>1, ContestInOrder, ContestLaid
        <5>5. CASE card.layout = "checklist"
          <6>1. blocks' = ContestChecklist(card)  BY <3>1, <5>5
          <6>. QED  BY <3>2, <3>4, <5>5, <6>1, ContestInOrder, ContestLaid
        <5>6. CASE card.layout = "cta"
          <6>1. blocks' = ContestCta(card)  BY <3>1, <5>6
          <6>. QED  BY <3>2, <3>4, <5>6, <6>1, ContestInOrder, ContestLaid
        <5>. QED  BY <4>1, <5>1, <5>2, <5>3, <5>4, <5>5, <5>6
      <4>. QED  BY <3>1, <4>2 DEF LayoutInv
    <3>. QED  BY <3>3, <3>4
  <2>3. CASE UNCHANGED layoutVars  BY <2>3 DEF layoutVars, LayoutInv
  <2>. QED  BY <2>1, <2>2, <2>3 DEF DrawCard
<1>3. LayoutInv => CardPartsStayApart
  <2>. DEFINE top == IF IsContest(slide) THEN ContestTop ELSE Top
              bottom == IF IsContest(slide) THEN ContestBottom ELSE Bottom
              free == PillPlaces(slide, blocks)
  <2>. SUFFICES ASSUME LayoutInv, blocks # << >>, ~HasHighRows(slide)
                PROVE  /\ \A k \in DOMAIN blocks : top <= blocks[k].top /\ blocks[k].top <= blocks[k].bottom
                                                   /\ blocks[k].bottom <= bottom
                       /\ \A k \in DOMAIN blocks \ free : k > 1 => blocks[k - 1].bottom <= blocks[k].top
                       /\ \A k \in DOMAIN blocks : \A column \in blocks[k].columns :
                            Stacked(column, blocks[k].top, blocks[k].bottom)
    BY DEF CardPartsStayApart
  <2>1. InOrderBut(blocks, free, top, bottom)
    BY DEF LayoutInv, Laid, ContestTop, ContestBottom, Top, Bottom
  <2>. HIDE DEF top, bottom, free
  <2>2. PICK S : blocks \in Seq(S)  BY <2>1 DEF InOrderBut
  <2>3. DOMAIN blocks = 1..Len(blocks) /\ Len(blocks) \in Nat  BY <2>2
  <2>4. \A k \in DOMAIN blocks : Sound(blocks[k]) /\ top <= blocks[k].top /\ blocks[k].bottom <= bottom
    BY <2>1, <2>3 DEF InOrderBut
  <2>5. ASSUME NEW k \in DOMAIN blocks \ free, k > 1 PROVE blocks[k - 1].bottom <= blocks[k].top
    <3>1. k - 1 \in 1..Len(blocks) - 1 /\ (k - 1) + 1 = k  BY <2>3, <2>5
    <3>. QED  BY <2>1, <3>1 DEF InOrderBut
  <2>. QED  BY <2>4, <2>5 DEF Sound
<1>. QED  BY <1>1, <1>2, <1>3, PTL DEF LayoutSpec

----------------------------------------------------------------------------
(* The images of a pin in S3.                                               *)

USE ImagesAssumption

Early == {"idle", "loaded", "uploaded", "listed", "deleted", "saved"}

\* The values of the variables, without the relation of mains and rows.
Values ==
    /\ rows \subseteq Images
    /\ mains \subseteq Images
    /\ s3 \subseteq Images
    /\ rowLock \in [Images -> Requests \cup {None}]
    /\ phase \in [Requests -> Phases]
    /\ seen \in [Requests -> SUBSET Images]
    /\ seenMains \in [Requests -> SUBSET Images]
    /\ plan \in [Requests -> Plans]
    /\ doomed \in [Requests -> SUBSET Images]
    /\ overlap \in BOOLEAN
    /\ faulted \in BOOLEAN
    /\ unknown \subseteq Requests

\* An image exists outside its request only once that has committed.
NewImagesAreUnknown ==
    \A r \in Requests :
        /\ plan[r].new \subseteq {r}
        /\ phase[r] \in Early =>
             /\ r \notin rows
             /\ \A q \in Requests : r \notin seen[q] \cup doomed[q]

\* The new object is there while its row is not.
UploadsAreKept ==
    \A r \in Requests :
        phase[r] \in {"uploaded", "listed", "deleted", "saved"} =>
            plan[r].new \subseteq s3

\* What an edit will remove from S3 is, from the listing on, among the rows it
\* deletes, and from the commit on no row.
RemovedKeysAreDoomed ==
    \A r \in Requests :
        /\ phase[r] \in {"listed", "deleted", "saved"} =>
             RemovedKeys(r) \cap rows \subseteq doomed[r]
        /\ phase[r] = "committed" => RemovedKeys(r) \cap rows = {}

\* The rows an edit has deleted or marked are locked by it.
LocksAreHeld ==
    \A r \in Requests :
        /\ phase[r] \in {"deleted", "saved"} =>
             \A i \in doomed[r] \cap rows : rowLock[i] = r
        /\ phase[r] = "saved" =>
             \A i \in Remarked(r) : i \in rows /\ rowLock[i] = r

\* An edit that leaves the images alone deletes and marks nothing.
EmptyPlans ==
    \A r \in Requests :
        /\ plan[r].unchanged => plan[r].kept = {} /\ plan[r].new = {}
        /\ phase[r] \in {"idle", "loaded", "uploaded"} => doomed[r] = {}

DoomedAreNotKept == \A r \in Requests : doomed[r] \cap plan[r].kept = {}

IInv ==
    /\ Values
    /\ mains \subseteq rows
    /\ NewImagesAreUnknown
    /\ EmptyPlans
    /\ DoomedAreNotKept
    /\ UploadsAreKept
    /\ RemovedKeysAreDoomed
    /\ LocksAreHeld
    /\ RowsHaveObjects

----------------------------------------------------------------------------
\* The plan of a request that has none yet is a plan.
LEMMA NoPlanIsPlan == NoPlan \in Plans
  BY DEF NoPlan, Plans

\* The invariant holds at first.
LEMMA InitIInv == Init => IInv
<1> SUFFICES ASSUME Init PROVE IInv
  OBVIOUS
<1> USE DEF Init
<1>1. Values
  BY NoPlanIsPlan DEF Values, Phases, Unfinished, Images
<1>2. mains \subseteq rows /\ RowsHaveObjects
  BY DEF RowsHaveObjects
<1>3. NewImagesAreUnknown
  BY DEF NewImagesAreUnknown, NoPlan, Images
<1>4. UploadsAreKept /\ RemovedKeysAreDoomed /\ LocksAreHeld /\ EmptyPlans
      /\ DoomedAreNotKept
  BY DEF UploadsAreKept, RemovedKeysAreDoomed, LocksAreHeld, EmptyPlans, NoPlan,
         DoomedAreNotKept
<1> QED
  BY <1>1, <1>2, <1>3, <1>4 DEF IInv

\* What the best-effort deletion of some objects does, whatever it leaves.
LEMMA DeletionRemovesOnly ==
  ASSUME NEW keys, DeleteBestEffort(keys), Values
  PROVE  s3' \subseteq s3 /\ s3 \ keys \subseteq s3' /\ faulted' \in BOOLEAN
  BY DEF DeleteBestEffort, Values

\* A refusal changes nothing but where its request is, and what it wanted.
LEMMA RefusedPlan ==
  ASSUME Values, NEW r \in Requests, Refuse(r)
  PROVE  /\ UNCHANGED <<rows, mains, s3, rowLock, seen, seenMains, doomed, overlap, faulted, unknown>>
         /\ phase[r] = "idle" /\ phase' = [phase EXCEPT ![r] = "refused"]
         /\ plan' \in [Requests -> Plans] /\ plan'[r].new \subseteq {r}
         /\ plan'[r].unchanged => plan'[r].kept = {} /\ plan'[r].new = {}
         /\ \A q \in Requests \ {r} : plan'[q] = plan[q]
<1>1. /\ UNCHANGED <<rows, mains, s3, rowLock, seen, seenMains, doomed, overlap, faulted, unknown>>
      /\ phase[r] = "idle" /\ phase' = [phase EXCEPT ![r] = "refused"]
  BY DEF Refuse, imageVars, historyVars
<1>2. \E p \in Plans : /\ p.new \subseteq {r} /\ (p.unchanged => p.kept = {} /\ p.new = {})
                       /\ plan' = [plan EXCEPT ![r] = p]
  <2>1. CASE plan' = [plan EXCEPT ![r] = NoPlan]
    <3>1. NoPlan.new = {} /\ NoPlan.kept = {}
      BY DEF NoPlan
    <3> QED
      BY <2>1, <3>1, NoPlanIsPlan
  <2>2. ASSUME NEW kept \in SUBSET rows, NEW new \in SUBSET {r},
               NEW main \in kept \cup new \cup {None},
               plan' = [plan EXCEPT ![r] = [unchanged |-> FALSE, kept |-> kept,
                                            new |-> new, main |-> main]]
        PROVE  \E p \in Plans : /\ p.new \subseteq {r} /\ (p.unchanged => p.kept = {} /\ p.new = {})
                                /\ plan' = [plan EXCEPT ![r] = p]
    <3>1. [unchanged |-> FALSE, kept |-> kept, new |-> new, main |-> main] \in Plans
      BY DEF Plans, Values, Images
    <3> QED
      BY <2>2, <3>1
  <2> QED
    BY <2>1, <2>2 DEF Refuse
<1> QED
  BY <1>1, <1>2 DEF Values

\* A step of a request keeps the types.
LEMMA NextValues ==
  ASSUME Values, NEW r \in Requests, Step(r)
  PROVE  Values'
<1> USE DEF Values, Phases, Unfinished, Images, imageVars, requestVars, historyVars,
            Released, Locked
<1>1. CASE Load(r)
  <2>1. plan' \in [Requests -> Plans]
    <3>1. CASE plan' = [plan EXCEPT ![r] = NoPlan]
      BY <3>1, NoPlanIsPlan
    <3>2. ASSUME NEW kept \in SUBSET rows, NEW new \in SUBSET {r},
                 NEW main \in kept \cup new,
                 plan' = [plan EXCEPT ![r] = [unchanged |-> FALSE, kept |-> kept,
                                              new |-> new, main |-> main]]
          PROVE  plan' \in [Requests -> Plans]
      <4>1. [unchanged |-> FALSE, kept |-> kept, new |-> new, main |-> main] \in Plans
        BY DEF Plans
      <4> QED
        BY <3>2, <4>1
    <3> QED
      BY <1>1, <3>1, <3>2 DEF Load
  <2>2. overlap' \in BOOLEAN
    BY <1>1 DEF Load
  <2> QED
    BY <1>1, <2>1, <2>2 DEF Load
<1>2. CASE Upload(r)         BY <1>2 DEF Upload, Plans
<1>3. CASE List(r)           BY <1>3 DEF List
<1>4. CASE Delete(r)         BY <1>4 DEF Delete
<1>5. CASE Save(r)           BY <1>5 DEF Save
<1>6. CASE Commit(r)         BY <1>6 DEF Commit, RowsAfter, Remarked, Plans
<1>7. CASE CommitUnknown(r)  BY <1>7 DEF CommitUnknown, RowsAfter, Remarked, Plans
<1>8. CASE RollBack(r)       BY <1>8, DeletionRemovesOnly DEF RollBack
<1>9. CASE CleanUp(r)        BY <1>9, DeletionRemovesOnly DEF CleanUp
<1>10. CASE Die(r)           BY <1>10 DEF Die
<1>11. CASE Refuse(r)        BY <1>11, RefusedPlan
<1> QED
  BY <1>1, <1>2, <1>3, <1>4, <1>5, <1>6, <1>7, <1>8, <1>9, <1>10, <1>11 DEF Step

\* What a step does to the plan of its own request, and of every other.
LEMMA PlansAreFixed ==
  ASSUME Values, NEW r \in Requests, Step(r), ~Load(r), ~Refuse(r)
  PROVE  UNCHANGED <<plan, seen, seenMains>>
  BY DEF Step, Upload, List, Delete, Save, Commit, CommitUnknown, RollBack, CleanUp,
         Die

\* A request that loads plans for itself, from the rows as they are.
LEMMA LoadedPlan ==
  ASSUME Values, NEW r \in Requests, Load(r)
  PROVE  /\ plan'[r].new \subseteq {r}
         /\ \A q \in Requests \ {r} : plan'[q] = plan[q] /\ seen'[q] = seen[q]
                                      /\ seenMains'[q] = seenMains[q]
         /\ seen'[r] = rows
  BY DEF Load, NoPlan, Values

\* Nobody knows of the new image of a request before it is written.
LEMMA NextNew ==
  ASSUME IInv, NEW r \in Requests, Step(r)
  PROVE  NewImagesAreUnknown'
<1> USE DEF IInv, Values, NewImagesAreUnknown, Early, imageVars, requestVars,
            historyVars
<1>1. CASE Load(r)
  <2>1. UNCHANGED <<rows, doomed>> /\ phase[r] \in Early
        /\ phase' = [phase EXCEPT ![r] = "loaded"]
    BY <1>1 DEF Load
  <2>2. \A q \in Requests : plan'[q].new \subseteq {q}
    BY <1>1, LoadedPlan
  <2>3. ASSUME NEW q \in Requests, phase'[q] \in Early, NEW p \in Requests
        PROVE  q \notin rows /\ q \notin seen'[p] \cup doomed[p]
    <3>1. phase[q] \in Early
      BY <2>1, <2>3
    <3>2. q \notin rows /\ q \notin seen[p] \cup doomed[p]
      BY <3>1
    <3>3. seen'[p] = seen[p] \/ seen'[p] = rows
      BY <1>1, LoadedPlan
    <3> QED
      BY <3>2, <3>3
  <2> QED
    BY <2>1, <2>2, <2>3
<1>2. CASE Upload(r)         BY <1>2 DEF Upload
<1>3. CASE List(r)           BY <1>3 DEF List
<1>4. CASE Delete(r)         BY <1>4 DEF Delete
<1>5. CASE Save(r)           BY <1>5 DEF Save
<1>6. CASE Commit(r)         BY <1>6 DEF Commit, RowsAfter
<1>7. CASE CommitUnknown(r)  BY <1>7 DEF CommitUnknown, RowsAfter
<1>8. CASE RollBack(r)       BY <1>8 DEF RollBack
<1>9. CASE CleanUp(r)        BY <1>9 DEF CleanUp
<1>10. CASE Die(r)           BY <1>10 DEF Die
<1>11. CASE Refuse(r)        BY <1>11, RefusedPlan
<1> QED
  BY <1>1, <1>2, <1>3, <1>4, <1>5, <1>6, <1>7, <1>8, <1>9, <1>10, <1>11 DEF Step

\* What a request uploaded is in the bucket when its row is written.
LEMMA NextUploads ==
  ASSUME IInv, NEW r \in Requests, Step(r)
  PROVE  UploadsAreKept'
<1> USE DEF IInv, Values, UploadsAreKept, imageVars, requestVars, historyVars
<1>1. CASE Load(r)           BY <1>1, LoadedPlan DEF Load
<1>2. CASE Upload(r)         BY <1>2 DEF Upload
<1>3. CASE List(r)           BY <1>3 DEF List
<1>4. CASE Delete(r)         BY <1>4 DEF Delete
<1>5. CASE Save(r)           BY <1>5 DEF Save
<1>6. CASE Commit(r)         BY <1>6 DEF Commit, RowsAfter
<1>7. CASE CommitUnknown(r)
      BY <1>7 DEF CommitUnknown, RowsAfter, NewImagesAreUnknown
<1>8. CASE RollBack(r)
  <2>1. s3 \ plan[r].new \subseteq s3'
    BY <1>8, DeletionRemovesOnly DEF RollBack
  <2> QED
    BY <1>8, <2>1 DEF RollBack, NewImagesAreUnknown
<1>9. CASE CleanUp(r)
  <2>1. s3 \ RemovedKeys(r) \subseteq s3'
    BY <1>9, DeletionRemovesOnly DEF CleanUp
  <2>2. \A q \in Requests : phase[q] \in Early => q \notin RemovedKeys(r)
    BY DEF RemovedKeys, NewImagesAreUnknown
  <2> QED
    BY <1>9, <2>1, <2>2 DEF CleanUp, NewImagesAreUnknown, Early
<1>10. CASE Die(r)           BY <1>10 DEF Die
<1>11. CASE Refuse(r)        BY <1>11, RefusedPlan
<1> QED
  BY <1>1, <1>2, <1>3, <1>4, <1>5, <1>6, <1>7, <1>8, <1>9, <1>10, <1>11 DEF Step

\* A commit adds only an image no other edit knows.
LEMMA CommitAddsUnknown ==
  ASSUME IInv, NEW r \in Requests, phase[r] = "saved", RowsAfter(r)
  PROVE  /\ \A q \in Requests : (seen[q] \cup doomed[q]) \cap rows' \subseteq rows
         /\ doomed[r] \cap rows' = {}
  BY DEF IInv, RowsAfter, NewImagesAreUnknown, Early

\* What a request removes from the bucket it has doomed, or no row has it.
LEMMA NextRemoved ==
  ASSUME IInv, NEW r \in Requests, Step(r)
  PROVE  RemovedKeysAreDoomed'
<1> USE DEF IInv, Values, RemovedKeysAreDoomed, RemovedKeys, imageVars, requestVars,
            historyVars
<1>1. CASE Load(r)
  <2>1. \A q \in Requests \ {r} : RemovedKeys(q)' = RemovedKeys(q)
    BY <1>1, LoadedPlan
  <2> QED
    BY <1>1, <2>1 DEF Load
<1>2. CASE Upload(r)
  BY <1>2 DEF Upload
<1>3. CASE List(r)           BY <1>3 DEF List
<1>4. CASE Delete(r)         BY <1>4 DEF Delete
<1>5. CASE Save(r)           BY <1>5 DEF Save
<1>6. CASE Commit(r)         BY <1>6, CommitAddsUnknown DEF Commit
<1>7. CASE CommitUnknown(r)  BY <1>7, CommitAddsUnknown DEF CommitUnknown
<1>8. CASE RollBack(r)       BY <1>8 DEF RollBack
<1>9. CASE CleanUp(r)        BY <1>9 DEF CleanUp
<1>10. CASE Die(r)           BY <1>10 DEF Die
<1>11. CASE Refuse(r)
  <2>1. \A q \in Requests \ {r} : RemovedKeys(q)' = RemovedKeys(q)
    BY <1>11, RefusedPlan
  <2> QED
    BY <1>11, <2>1, RefusedPlan
<1> QED
  BY <1>1, <1>2, <1>3, <1>4, <1>5, <1>6, <1>7, <1>8, <1>9, <1>10, <1>11 DEF Step

\* A commit takes no row that another uncommitted edit has written.
LEMMA CommitSparesLocked ==
  ASSUME IInv, NEW r \in Requests, phase[r] = "saved", RowsAfter(r),
         NEW q \in Requests \ {r}
  PROVE  /\ phase[q] = "saved" =>
              \A i \in Remarked(q) : i \in rows' /\ rowLock'[i] = q
         /\ phase[q] \in {"deleted", "saved"} =>
              \A i \in doomed[q] \cap rows' : rowLock'[i] = q
<1> USE DEF IInv, Values, LocksAreHeld, RowsAfter, Released
<1>1. \A i \in Remarked(q) : i \in Images
  BY DEF Remarked, Plans
<1>2. ASSUME phase[q] = "saved", NEW i \in Remarked(q)
      PROVE  i \in rows' /\ rowLock'[i] = q
  <2>1. i \in rows /\ rowLock[i] = q /\ i \in Images
    BY <1>1, <1>2
  <2>2. i \notin doomed[r]
    BY <2>1
  <2> QED
    BY <2>1, <2>2
<1>3. ASSUME phase[q] \in {"deleted", "saved"}, NEW i \in doomed[q] \cap rows'
      PROVE  rowLock'[i] = q
  BY <1>3, CommitAddsUnknown
<1> QED
  BY <1>2, <1>3

\* A request that leaves the images alone plans none, and none is doomed early.
LEMMA NextEmpty ==
  ASSUME IInv, NEW r \in Requests, Step(r)
  PROVE  EmptyPlans'
<1> USE DEF IInv, Values, EmptyPlans, imageVars, requestVars, historyVars
<1>1. CASE Load(r)
  <2>1. plan'[r].unchanged => plan'[r].kept = {} /\ plan'[r].new = {}
    BY <1>1 DEF Load, NoPlan
  <2>2. \A q \in Requests \ {r} : plan'[q] = plan[q]
    BY <1>1, LoadedPlan
  <2> QED
    BY <1>1, <2>1, <2>2 DEF Load
<1>2. CASE Refuse(r)
  BY <1>2, RefusedPlan
<1>3. CASE ~Load(r) /\ ~Refuse(r)
  BY <1>3, PlansAreFixed
  DEF Step, Upload, List, Delete, Save, Commit, CommitUnknown, RollBack, CleanUp, Die
<1> QED
  BY <1>1, <1>2, <1>3

\* No request dooms an image that it keeps.
LEMMA NextNotKept ==
  ASSUME IInv, NEW r \in Requests, Step(r)
  PROVE  DoomedAreNotKept'
<1> USE DEF IInv, Values, DoomedAreNotKept, imageVars, requestVars, historyVars
<1>1. CASE Load(r)
  <2>1. \A q \in Requests \ {r} : plan'[q] = plan[q]
    BY <1>1, LoadedPlan
  <2>2. doomed[r] = {}
    BY <1>1 DEF Load, EmptyPlans
  <2> QED
    BY <1>1, <2>1, <2>2 DEF Load
<1>2. CASE List(r)
  BY <1>2 DEF List
<1>3. CASE UNCHANGED <<plan, doomed>>
  BY <1>3
<1>4. CASE Refuse(r)
  <2>1. doomed[r] = {}
    BY <1>4, RefusedPlan DEF EmptyPlans
  <2> QED
    BY <1>4, <2>1, RefusedPlan
<1> QED
  BY <1>1, <1>2, <1>3, <1>4
  DEF Step, Upload, Delete, Save, Commit, CommitUnknown, RollBack, CleanUp, Die

\* The rows that a request deletes or marks anew are locked by it.
LEMMA NextLocks ==
  ASSUME IInv, NEW r \in Requests, Step(r)
  PROVE  LocksAreHeld'
<1> USE DEF IInv, Values, LocksAreHeld, imageVars, requestVars, historyVars
<1>0. \A q \in Requests : Remarked(q) \subseteq Images /\ doomed[q] \subseteq Images
  BY DEF Remarked, Plans
<1>1. CASE Load(r)
  <2>1. \A q \in Requests \ {r} : Remarked(q)' = Remarked(q)
    BY <1>1, LoadedPlan DEF Remarked
  <2> QED
    BY <1>1, <2>1 DEF Load
<1>2. CASE Upload(r)
  <2>1. phase'[r] = "saved" => Remarked(r) = {}
    BY <1>2 DEF Upload, Remarked, EmptyPlans
  <2>2. doomed[r] = {}
    BY <1>2 DEF Upload, EmptyPlans
  <2> QED
    BY <1>2, <2>1, <2>2 DEF Upload, Remarked
<1>3. CASE List(r)           BY <1>3 DEF List, Remarked
<1>4. CASE Delete(r)
  <2>1. \A i \in Images : i \in doomed[r] \cap rows => rowLock'[i] = r
    BY <1>4 DEF Delete, Locked
  <2>2. \A i \in Images, q \in Requests \ {r} : rowLock[i] = q => rowLock'[i] = q
    BY <1>4 DEF Delete, Locked, CanLock
  <2>3. \A q \in Requests : Remarked(q)' = Remarked(q)
    BY <1>4 DEF Delete, Remarked
  <2>4. UNCHANGED <<rows, doomed>> /\ phase' = [phase EXCEPT ![r] = "deleted"]
    BY <1>4 DEF Delete
  <2> QED
    BY <1>0, <2>1, <2>2, <2>3, <2>4
<1>5. CASE Save(r)
  <2>1. \A i \in Remarked(r) : i \in rows /\ rowLock'[i] = r
    BY <1>0, <1>5 DEF Save, Locked
  <2>2. \A i \in Images, q \in Requests : rowLock[i] = q => rowLock'[i] = q
    BY <1>5 DEF Save, Locked, CanLock
  <2>3. \A q \in Requests : Remarked(q)' = Remarked(q)
    BY <1>5 DEF Save, Remarked
  <2>4. /\ UNCHANGED <<rows, doomed>>
        /\ phase' = [phase EXCEPT ![r] = "saved"] /\ phase[r] = "deleted"
    BY <1>5 DEF Save
  <2> QED
    BY <1>0, <2>1, <2>2, <2>3, <2>4
<1>6. CASE Commit(r)
  <2>1. \A q \in Requests : Remarked(q)' = Remarked(q)
    BY <1>6 DEF Commit, Remarked
  <2> QED
    BY <1>6, <2>1, CommitSparesLocked DEF Commit
<1>7. CASE CommitUnknown(r)
  <2>1. \A q \in Requests : Remarked(q)' = Remarked(q)
    BY <1>7 DEF CommitUnknown, Remarked
  <2> QED
    BY <1>7, <2>1, CommitSparesLocked DEF CommitUnknown
<1>8. CASE RollBack(r)       BY <1>0, <1>8 DEF RollBack, Released, Remarked
<1>9. CASE CleanUp(r)        BY <1>9 DEF CleanUp, Remarked
<1>10. CASE Die(r)           BY <1>0, <1>10 DEF Die, Released, Remarked
<1>11. CASE Refuse(r)
  <2>1. \A q \in Requests \ {r} : Remarked(q)' = Remarked(q)
    BY <1>11, RefusedPlan DEF Remarked
  <2> QED
    BY <1>11, <2>1, RefusedPlan
<1> QED
  BY <1>1, <1>2, <1>3, <1>4, <1>5, <1>6, <1>7, <1>8, <1>9, <1>10, <1>11 DEF Step

\* Only the two outcomes of a commit change rows and marks, and only the
\* uploads and deletions of objects change s3.
LEMMA NextMains ==
  ASSUME IInv, NEW r \in Requests, Step(r)
  PROVE  (mains \subseteq rows)'
<1>1. ASSUME phase[r] = "saved", RowsAfter(r) PROVE mains' \subseteq rows'
  <2>1. Remarked(r) \subseteq rows
    BY <1>1 DEF IInv, LocksAreHeld
  <2>2. Remarked(r) \cap doomed[r] = {}
    BY <1>1 DEF IInv, DoomedAreNotKept, Remarked
  <2> QED
    BY <1>1, <2>1, <2>2 DEF RowsAfter, IInv
<1>2. CASE Commit(r)         BY <1>1, <1>2 DEF Commit
<1>3. CASE CommitUnknown(r)  BY <1>1, <1>3 DEF CommitUnknown
<1>4. CASE UNCHANGED <<rows, mains>>
  BY <1>4 DEF IInv
<1> QED
  BY <1>2, <1>3, <1>4
  DEF Step, Load, Refuse, Upload, List, Delete, Save, RollBack, CleanUp, Die, imageVars

\* Every row has its object, whatever a request does.
LEMMA NextObjects ==
  ASSUME IInv, NEW r \in Requests, Step(r)
  PROVE  RowsHaveObjects'
<1> USE DEF IInv, RowsHaveObjects, imageVars, historyVars
<1>1. CASE Commit(r)
  BY <1>1 DEF Commit, RowsAfter, UploadsAreKept
<1>2. CASE CommitUnknown(r)
  BY <1>2 DEF CommitUnknown, RowsAfter, NewImagesAreUnknown
<1>3. CASE RollBack(r)
  <2>1. s3 \ plan[r].new \subseteq s3'
    BY <1>3, DeletionRemovesOnly DEF RollBack
  <2>2. plan[r].new \cap rows = {}
    BY <1>3 DEF RollBack, NewImagesAreUnknown, Early
  <2> QED
    BY <1>3, <2>1, <2>2 DEF RollBack
<1>4. CASE CleanUp(r)
  <2>1. s3 \ RemovedKeys(r) \subseteq s3'
    BY <1>4, DeletionRemovesOnly DEF CleanUp
  <2>2. RemovedKeys(r) \cap rows = {}
    BY <1>4 DEF CleanUp, RemovedKeysAreDoomed
  <2> QED
    BY <1>4, <2>1, <2>2 DEF CleanUp
<1>5. CASE Upload(r)         BY <1>5 DEF Upload
<1>6. CASE UNCHANGED <<rows, s3, unknown>>
  BY <1>6
<1> QED
  BY <1>1, <1>2, <1>3, <1>4, <1>5, <1>6
  DEF Step, Load, Refuse, List, Delete, Save, Die

\* Every step keeps the invariant.
LEMMA NextIInv == IInv /\ [Next]_vars => IInv'
<1>1. ASSUME IInv, NEW r \in Requests, Step(r) PROVE IInv'
  BY <1>1, NextValues, NextMains, NextNew, NextEmpty, NextNotKept, NextUploads,
     NextRemoved, NextLocks, NextObjects DEF IInv
<1>2. IInv /\ UNCHANGED vars => IInv'
  BY DEF IInv, vars, imageVars, requestVars, historyVars, Values,
         NewImagesAreUnknown, EmptyPlans, DoomedAreNotKept, UploadsAreKept,
         RemovedKeysAreDoomed, RemovedKeys, LocksAreHeld, Remarked, RowsHaveObjects
<1> QED
  BY <1>1, <1>2 DEF Next

\* The invariant holds in every state.
LEMMA Invariance == Spec => []IInv
  BY InitIInv, NextIInv, PTL DEF Spec

----------------------------------------------------------------------------
(* The results.                                                            *)

\* Types; and however edits overlap, no mark is written for a row that is gone.
THEOREM TypeCorrect == Spec => []TypeOK
<1>1. IInv => TypeOK
  BY DEF IInv, Values, TypeOK
<1> QED
  BY <1>1, Invariance, PTL

\* However edits overlap, fail or die, a committed row points at an object in
\* S3, unless its own commit reported a failure it did not have.
THEOREM RowsKeepObjects == Spec => []RowsHaveObjects
<1>1. IInv => RowsHaveObjects
  BY DEF IInv
<1> QED
  BY <1>1, Invariance, PTL
----------------------------------------------------------------------------
(* Edits that do not overlap *)

\* Edits that do not overlap are alone.
Alone == \A r, q \in InFlight : r = q

\* What such an edit has planned is valid, and for the rows as they are until its commit.
PlanHolds(r) ==
    /\ seen[r] = rows /\ seenMains[r] = mains
    /\ plan[r].kept \subseteq rows
    /\ IF plan[r].unchanged
       THEN /\ doomed[r] = {} /\ plan[r].kept = {} /\ plan[r].new = {}
            /\ phase[r] \in {"loaded", "saved"}
       ELSE /\ ValidPlan(r, plan[r].kept, plan[r].new, plan[r].main)
            /\ phase[r] \in {"listed", "deleted", "saved"} => doomed[r] = rows \ plan[r].kept

\* The images are valid between two edits, and during one.
ValidInv ==
    /\ Cardinality(rows) \in 1 .. MaxImages
    /\ \E m \in Images : mains = {m}
    /\ \A r \in Requests :
         phase[r] \in {"loaded", "uploaded", "listed", "deleted", "saved"} => PlanHolds(r)

\* Besides the objects of the rows there are those an edit has uploaded, or will remove.
ObjectsInv ==
    /\ InFlight = {} => s3 = rows
    /\ \A r \in Requests :
         /\ phase[r] = "loaded" => s3 = rows
         /\ phase[r] \in {"uploaded", "listed", "deleted", "saved"} => s3 = rows \cup plan[r].new
         /\ phase[r] = "committed" => s3 = rows \cup RemovedKeys(r)

SerialInv == ~ overlap => Alone /\ ValidInv /\ (~ faulted => ObjectsInv)

\* Whoever loads is alone then, and nobody else enters the flight.
LEMMA SerialAlone ==
    ASSUME Values, NEW r \in Requests, Step(r), ~ Refuse(r), ~ overlap', ~ overlap => Alone
    PROVE  /\ ~ overlap /\ Alone'
           /\ \A q \in Requests : q # r => phase'[q] = phase[q] /\ phase'[q] \notin Unfinished
<1>. USE DEF Values, Phases, Unfinished, InFlight, imageVars, requestVars, historyVars
<1>1. phase' = [phase EXCEPT ![r] = phase'[r]] /\ overlap' \in {overlap, TRUE}
  BY DEF Step, Load, Refuse, Upload, List, Delete, Save, Commit, CommitUnknown, RollBack, CleanUp, Die
<1>2. ~ overlap /\ Alone  BY <1>1
<1>3. CASE Load(r)
  <2>1. InFlight = {}  BY <1>3 DEF Load
  <2>2. \A q \in Requests : q # r => phase'[q] = phase[q] /\ phase[q] \notin Unfinished  BY <1>1, <2>1
  <2>. QED  BY <1>2, <2>2 DEF Alone
<1>4. CASE ~ Load(r)
  <2>1. r \in InFlight
    BY <1>4 DEF Step, Upload, List, Delete, Save, Commit, CommitUnknown, RollBack, CleanUp, Die
  <2>2. \A q \in Requests : q # r => phase'[q] = phase[q] /\ phase[q] \notin Unfinished
    BY <1>1, <1>2, <2>1 DEF Alone
  <2>. QED  BY <1>2, <2>2 DEF Alone
<1>. QED  BY <1>3, <1>4

\* While the rows stay, a plan stays what it is.
LEMMA PlanStays ==
    ASSUME NEW r \in Requests, PlanHolds(r), rows' = rows, mains' = mains, seen' = seen,
           seenMains' = seenMains, plan' = plan, doomed'[r] = doomed[r],
           phase'[r] \in {"listed", "deleted", "saved"} => phase[r] \in {"listed", "deleted", "saved"},
           plan[r].unchanged => phase'[r] \in {"loaded", "saved"}
    PROVE  PlanHolds(r)'
  BY DEF PlanHolds, ValidPlan

\* The commit of a plan that holds leaves valid images.
LEMMA CommitIsValid ==
    ASSUME IInv, ValidInv, NEW r \in Requests, phase[r] = "saved", RowsAfter(r)
    PROVE  Cardinality(rows') \in 1 .. MaxImages /\ \E m \in Images : mains' = {m}
<1>1. PlanHolds(r)  BY DEF ValidInv
<1>2. PICK m \in Images : mains = {m}  BY DEF ValidInv
<1>3. CASE plan[r].unchanged
  <2>1. doomed[r] = {} /\ plan[r].new = {} /\ Remarked(r) = {}  BY <1>1, <1>3 DEF PlanHolds, Remarked
  <2>2. rows' = rows /\ mains' = mains  BY <2>1 DEF RowsAfter
  <2>. QED  BY <2>2 DEF ValidInv
<1>4. CASE ~ plan[r].unchanged
  <2>. DEFINE kept == plan[r].kept
              new == plan[r].new
              main == plan[r].main
  <2>1. /\ kept \subseteq rows /\ main \in kept \cup new /\ Cardinality(kept \cup new) \in 1 .. MaxImages
        /\ doomed[r] = rows \ kept /\ seenMains[r] = {m}
    BY <1>1, <1>2, <1>4 DEF PlanHolds, ValidPlan
  <2>2. new \cap rows = {} /\ new \subseteq Images /\ m \in rows /\ kept \subseteq Images
    BY <1>2, <2>1 DEF IInv, NewImagesAreUnknown, Early, Values, Plans, Images
  <2>3. rows' = kept \cup new  BY <2>1 DEF RowsAfter
  <2>4. Remarked(r) = {i \in kept : (i = m) # (i = main)}  BY <2>1 DEF Remarked
  <2>5. mains' = ({m} \ ((rows \ kept) \cup Remarked(r))) \cup ((Remarked(r) \cup new) \cap {main})
    BY <1>2, <2>1 DEF RowsAfter
  <2>. HIDE DEF kept, new, main
  <2>6. mains' = {main}  BY <2>1, <2>2, <2>4, <2>5
  <2>. QED  BY <2>1, <2>2, <2>3, <2>6
<1>. QED  BY <1>3, <1>4

\* Edits that do not overlap keep the images valid.
LEMMA SerialValid ==
    ASSUME IInv, NEW r \in Requests, Step(r), ~ Refuse(r), ~ overlap', ~ overlap => Alone /\ ValidInv
    PROVE  ValidInv'
<1>. USE DEF imageVars, requestVars, historyVars
<1>0. Values  BY DEF IInv
<1>1. /\ ~ overlap /\ ValidInv
      /\ \A q \in Requests : q # r =>
           phase'[q] \notin {"loaded", "uploaded", "listed", "deleted", "saved"}
  BY <1>0, SerialAlone DEF Unfinished
<1>2. CASE Load(r)
  <2>1. /\ rows' = rows /\ mains' = mains /\ seen'[r] = rows /\ seenMains'[r] = mains
        /\ doomed' = doomed /\ doomed[r] = {} /\ phase'[r] = "loaded"
    BY <1>0, <1>2 DEF Load, Values, IInv, EmptyPlans
  <2>2. CASE plan' = [plan EXCEPT ![r] = NoPlan]
    BY <1>0, <1>1, <2>1, <2>2 DEF Values, NoPlan, PlanHolds, ValidInv
  <2>3. ASSUME NEW kept \in SUBSET rows, NEW new \in SUBSET {r}, NEW main \in kept \cup new,
               ValidPlan(r, kept, new, main),
               plan' = [plan EXCEPT ![r] = [unchanged |-> FALSE, kept |-> kept, new |-> new,
               main |-> main]]
        PROVE  ValidInv'
    <3>1. plan'[r] = [unchanged |-> FALSE, kept |-> kept, new |-> new, main |-> main]
      BY <1>0, <2>3 DEF Values
    <3>2. PlanHolds(r)'
      BY <2>1, <2>3, <3>1 DEF PlanHolds, ValidPlan
    <3>. QED  BY <1>1, <2>1, <3>2 DEF ValidInv
  <2>. QED  BY <1>2, <2>2, <2>3 DEF Load
<1>3. CASE Upload(r) \/ Delete(r) \/ Save(r)
  <2>1. /\ rows' = rows /\ mains' = mains /\ seen' = seen /\ seenMains' = seenMains /\ plan' = plan
        /\ doomed' = doomed
    BY <1>3 DEF Upload, Delete, Save
  <2>2. PlanHolds(r)  BY <1>1, <1>3 DEF Upload, Delete, Save, ValidInv
  <2>0. plan[r].unchanged => phase'[r] = "saved"
    BY <1>0, <1>3, <2>2 DEF Upload, Delete, Save, PlanHolds, Values
  <2>3. CASE phase'[r] \in {"listed", "deleted", "saved"} => phase[r] \in {"listed", "deleted", "saved"}
    BY <1>1, <2>0, <2>1, <2>2, <2>3, PlanStays DEF ValidInv
  <2>4. CASE ~ (phase'[r] \in {"listed", "deleted", "saved"} => phase[r] \in {"listed", "deleted",
     "saved"})
    <3>1. plan[r].unchanged  BY <1>0, <1>3, <2>4 DEF Upload, Delete, Save, Values
    <3>2. PlanHolds(r)'  BY <2>0, <2>1, <2>2, <3>1 DEF PlanHolds
    <3>. QED  BY <1>1, <2>1, <3>2 DEF ValidInv
  <2>. QED  BY <2>3, <2>4
<1>4. CASE List(r)
  <2>1. /\ rows' = rows /\ mains' = mains /\ seen' = seen /\ seenMains' = seenMains /\ plan' = plan
        /\ doomed'[r] = rows \ plan[r].kept /\ phase[r] = "uploaded"
    BY <1>0, <1>4 DEF List, Values
  <2>2. PlanHolds(r)  BY <1>1, <2>1 DEF ValidInv
  <2>3. ~ plan[r].unchanged  BY <2>1, <2>2 DEF PlanHolds
  <2>. QED  BY <1>1, <2>1, <2>2, <2>3 DEF PlanHolds, ValidPlan, ValidInv
<1>5. CASE Commit(r) \/ CommitUnknown(r)
  <2>1. phase[r] = "saved" /\ RowsAfter(r) /\ phase'[r] \in {"committed", "failed"}
    BY <1>0, <1>5 DEF Commit, CommitUnknown, Values
  <2>. QED  BY <1>1, <2>1, CommitIsValid DEF ValidInv
<1>6. CASE RollBack(r) \/ CleanUp(r) \/ Die(r)
  <2>1. rows' = rows /\ mains' = mains /\ phase'[r] \in {"failed", "done"}
    BY <1>0, <1>6 DEF RollBack, CleanUp, Die, Values
  <2>. QED  BY <1>1, <2>1 DEF ValidInv
<1>. QED  BY <1>2, <1>3, <1>4, <1>5, <1>6 DEF Step

\* A best-effort deletion in which nothing goes wrong deletes everything.
LEMMA FaultlessDeletion ==
    ASSUME NEW keys, DeleteBestEffort(keys), ~ faulted', faulted \in BOOLEAN
    PROVE  s3' = s3 \ keys /\ ~ faulted
  BY DEF DeleteBestEffort

\* Faultless edits that do not overlap account for every object.
LEMMA SerialObjects ==
    ASSUME IInv, NEW r \in Requests, Step(r), ~ Refuse(r), ~ overlap', ~ faulted',
           ~ overlap => Alone /\ ValidInv, ~ overlap /\ ~ faulted => ObjectsInv
    PROVE  ObjectsInv'
<1>. USE DEF imageVars, requestVars, historyVars
<1>0. Values  BY DEF IInv
<1>1. /\ ~ overlap /\ Alone /\ ValidInv
      /\ \A q \in Requests : q # r => phase'[q] \notin Unfinished
  BY <1>0, SerialAlone
<1>2. ~ faulted /\ ObjectsInv
  <2>1. ~ faulted
    BY <1>0, FaultlessDeletion
       DEF Step, Load, Upload, List, Delete, Save, Commit, CommitUnknown, RollBack, CleanUp, Die, Values
  <2>. QED  BY <1>1, <2>1
<1>3. plan[r].new \subseteq {r} /\ (phase[r] \in Early => r \notin rows)
  BY DEF IInv, NewImagesAreUnknown
<1>4. ASSUME s3' = rows', phase'[r] \in {"loaded", "done", "failed"} PROVE ObjectsInv'
  BY <1>1, <1>4 DEF ObjectsInv, Unfinished
<1>5. ASSUME s3' = rows' \cup plan'[r].new, phase'[r] \in {"uploaded", "listed", "deleted", "saved"}
      PROVE  ObjectsInv'
  <2>1. InFlight' # {}  BY <1>5 DEF InFlight, Unfinished
  <2>. QED  BY <1>1, <1>5, <2>1 DEF ObjectsInv, Unfinished
<1>6. CASE Load(r)
  <2>1. InFlight = {}  BY <1>6 DEF Load
  <2>2. s3' = s3 /\ rows' = rows /\ phase'[r] = "loaded"  BY <1>0, <1>6 DEF Load, Values
  <2>. QED  BY <1>2, <1>4, <2>1, <2>2 DEF ObjectsInv
<1>7. CASE Upload(r)
  <2>1. /\ s3 = rows /\ s3' = s3 \cup plan[r].new /\ rows' = rows /\ plan' = plan
        /\ phase'[r] \in {"saved", "uploaded"}
    BY <1>0, <1>2, <1>7 DEF Upload, ObjectsInv, Values
  <2>. QED  BY <1>5, <2>1
<1>8. CASE List(r) \/ Delete(r) \/ Save(r)
  <2>1. /\ s3 = rows \cup plan[r].new /\ s3' = s3 /\ rows' = rows /\ plan' = plan
        /\ phase'[r] \in {"listed", "deleted", "saved"}
    BY <1>0, <1>2, <1>8 DEF List, Delete, Save, ObjectsInv, Values
  <2>. QED  BY <1>5, <2>1
<1>9. CASE Commit(r)
  <2>1. /\ phase[r] = "saved" /\ phase'[r] = "committed" /\ s3 = rows \cup plan[r].new
        /\ s3' = s3 /\ rows' = (rows \ doomed[r]) \cup plan[r].new
        /\ UNCHANGED <<plan, seen>>
    BY <1>0, <1>2, <1>9 DEF Commit, RowsAfter, ObjectsInv, Values
  <2>2. PlanHolds(r)  BY <1>1, <2>1 DEF ValidInv
  <2>3. doomed[r] = RemovedKeys(r) /\ doomed[r] \subseteq rows /\ RemovedKeys(r)' = RemovedKeys(r)
    BY <2>1, <2>2 DEF PlanHolds, RemovedKeys
  <2>4. s3' = rows' \cup RemovedKeys(r)'  BY <2>1, <2>3
  <2>5. InFlight' # {}  BY <2>1 DEF InFlight, Unfinished
  <2>. QED  BY <1>1, <2>1, <2>4, <2>5 DEF ObjectsInv, Unfinished
<1>10. CASE RollBack(r)
  <2>1. s3' = s3 \ plan[r].new /\ rows' = rows /\ phase'[r] = "failed"
    BY <1>0, <1>10, FaultlessDeletion DEF RollBack, Values
  <2>2. s3 \in {rows, rows \cup plan[r].new} /\ r \notin rows
    BY <1>2, <1>3, <1>10 DEF RollBack, ObjectsInv, Early
  <2>. QED  BY <1>3, <1>4, <2>1, <2>2
<1>11. CASE CleanUp(r)
  <2>1. /\ s3' = s3 \ RemovedKeys(r) /\ rows' = rows /\ phase[r] = "committed" /\ phase'[r] = "done"
    BY <1>0, <1>11, FaultlessDeletion DEF CleanUp, Values
  <2>2. s3 = rows \cup RemovedKeys(r) /\ RemovedKeys(r) \cap rows = {}
    BY <1>2, <2>1 DEF ObjectsInv, IInv, RemovedKeysAreDoomed
  <2>. QED  BY <1>4, <2>1, <2>2
<1>12. ~ CommitUnknown(r) /\ ~ Die(r)  BY DEF CommitUnknown, Die
<1>. QED  BY <1>6, <1>7, <1>8, <1>9, <1>10, <1>11, <1>12 DEF Step

\* A refusal disturbs no edit.
LEMMA SerialRefusal ==
    ASSUME Values, SerialInv, NEW r \in Requests, Refuse(r)
    PROVE  SerialInv'
<1>. USE DEF Phases, Unfinished
<1>1. /\ UNCHANGED <<rows, mains, s3, seen, seenMains, doomed, overlap, faulted>>
      /\ phase[r] = "idle" /\ phase' = [phase EXCEPT ![r] = "refused"]
      /\ \A q \in Requests \ {r} : plan'[q] = plan[q]
  BY RefusedPlan
<1>2. \A q \in Requests : phase'[q] \in Unfinished => q # r /\ phase'[q] = phase[q]
  BY <1>1 DEF Values
<1>3. InFlight' = InFlight
  BY <1>1 DEF InFlight, Values
<1>4. ASSUME ~ overlap PROVE Alone' /\ ValidInv'
  <2>1. Alone /\ ValidInv
    BY <1>4 DEF SerialInv
  <2>2. Alone'
    BY <1>3, <2>1 DEF Alone
  <2>3. \A q \in Requests \ {r} : PlanHolds(q) => PlanHolds(q)'
    BY <1>1 DEF PlanHolds, ValidPlan
  <2>4. \A q \in Requests :
          phase'[q] \in {"loaded", "uploaded", "listed", "deleted", "saved"} => PlanHolds(q)'
    BY <1>2, <2>1, <2>3 DEF ValidInv
  <2>. QED  BY <1>1, <2>1, <2>2, <2>4 DEF ValidInv
<1>5. ASSUME ~ overlap, ~ faulted PROVE ObjectsInv'
  <2>1. ObjectsInv
    BY <1>5 DEF SerialInv
  <2>2. \A q \in Requests \ {r} : RemovedKeys(q)' = RemovedKeys(q) /\ plan'[q] = plan[q]
    BY <1>1 DEF RemovedKeys
  <2>. QED  BY <1>1, <1>2, <1>3, <2>1, <2>2 DEF ObjectsInv
<1>. QED  BY <1>1, <1>4, <1>5 DEF SerialInv

\* The serial invariant holds throughout.
LEMMA SerialInvariance == Spec => []SerialInv
<1>1. Init => SerialInv
  <2>. SUFFICES ASSUME Init PROVE SerialInv
    OBVIOUS
  <2>1. InFlight = {} /\ (\A r \in Requests : phase[r] = "idle")  BY DEF Init, InFlight, Unfinished
  <2>2. Cardinality(Initial) \in 1 .. MaxImages
    BY FS_CardinalityType, FS_EmptySet, BoundsAssumption
  <2>3. ValidInv  BY <2>1, <2>2 DEF Init, ValidInv, Images
  <2>4. Alone /\ ObjectsInv  BY <2>1 DEF Init, Alone, ObjectsInv
  <2>. QED  BY <2>3, <2>4 DEF SerialInv
<1>2. IInv /\ SerialInv /\ [Next]_vars => SerialInv'
  <2>. SUFFICES ASSUME IInv, SerialInv, [Next]_vars PROVE SerialInv'
    OBVIOUS
  <2>1. ASSUME NEW r \in Requests, Refuse(r) PROVE SerialInv'
    BY <2>1, SerialRefusal DEF IInv
  <2>2. ASSUME NEW r \in Requests, Step(r), ~ Refuse(r) PROVE SerialInv'
    <3>1. Values  BY DEF IInv
    <3>2. ~ overlap => Alone /\ ValidInv  BY DEF SerialInv
    <3>3. ~ overlap /\ ~ faulted => ObjectsInv  BY DEF SerialInv
    <3>4. ~ overlap' => Alone' /\ ValidInv'
      BY <2>2, <3>1, <3>2, SerialAlone, SerialValid
    <3>5. ~ overlap' /\ ~ faulted' => ObjectsInv'
      BY <2>2, <3>2, <3>3, SerialObjects
    <3>. QED  BY <3>4, <3>5 DEF SerialInv
  <2>3. ASSUME UNCHANGED vars PROVE SerialInv'
    BY <2>3 DEF vars, imageVars, requestVars, historyVars, SerialInv, Alone, InFlight, ValidInv,
       PlanHolds,
                ValidPlan, ObjectsInv, RemovedKeys
  <2>. QED  BY <2>1, <2>2, <2>3 DEF Next
<1>. QED  BY <1>1, <1>2, Invariance, PTL DEF Spec

\* As long as edits do not overlap, the pin keeps between one and MaxImages images and one
\* main image, whatever fails (_build_update_pin_image_plan, _sync_pin_images_after_update).
THEOREM SerialEditsAreValid == Spec => []SerialEditsKeepImagesValid
<1>1. SerialInv => SerialEditsKeepImagesValid
  BY FS_Singleton DEF SerialInv, ValidInv, SerialEditsKeepImagesValid
<1>. QED  BY <1>1, SerialInvariance, PTL

\* As long as edits do not overlap and nothing fails, every object has its row when nothing
\* is under way (_cleanup_removed_pin_images_best_effort, the rollback of an update).
THEOREM SerialEditsAreClean == Spec => []SerialEditsLeaveNoOrphans
<1>1. SerialInv => SerialEditsLeaveNoOrphans
  BY DEF SerialInv, ObjectsInv, SerialEditsLeaveNoOrphans
<1>. QED  BY <1>1, SerialInvariance, PTL
=============================================================================
