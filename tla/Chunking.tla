------------------------------ MODULE Chunking ------------------------------
(***************************************************************************)
(* How a document of the complaint corpus becomes texts of the vector      *)
(* table: it is cleaned (preprocess_module), cut into chunks that overlap  *)
(* (chunk_module), and every chunk is normalised before it is stored: it   *)
(* loses its labels, section headings, greetings and leading marks, and    *)
(* what follows its footer (chunk_text_normalize).                         *)
(*                                                                         *)
(* A text is a sequence of classes of characters.  A chunk is an interval  *)
(* of positions <<a, b>>: cutting never reorders, and what a chunk takes   *)
(* over from the one before is the end of that one.  Each step is one turn *)
(* of a loop: over lines, then over chunks, cutting those that are long.   *)
(***************************************************************************)
EXTENDS Naturals, Sequences, SequencesExt, FiniteSetsExt

CONSTANTS
    Texts,      \* the documents, as clean_text leaves them
    Sizes       \* chunk sizes

\* "stop" ends a sentence.  The others mean something at the beginning of a line: "label"
\* and "footer" are the prefixes of the lists, "end" is the word that is a footer before
\* a stop or alone, "heading" and "greeting" are whole lines, "qa" and "bullet" lead one.
\* A mark is a character here, which no cut divides.
White == {"space", "break"}
Plain == {"letter", "stop"}
Visible == Plain \cup {"label", "footer", "end", "heading", "greeting", "qa", "bullet"}

\* clean_text: no line is empty, none begins or ends with white space, which is single.
Clean(t) ==
    /\ t # << >> => t[1] \in Visible /\ t[Len(t)] \in Visible
    /\ \A i \in 1..(Len(t) - 1) : ~ (t[i] \in White /\ t[i + 1] \in White)

ASSUME TextsAssumption == \A t \in Texts : t \in Seq(White \cup Visible) /\ Clean(t)
ASSUME ChunkingAssumption == Sizes \subseteq Nat \ {0}

VARIABLES
    text,       \* the document
    size,
    overlap,
    next,       \* where the next line begins
    current,    \* the chunk that lines are added to, or << >>
    made,       \* the chunks of whole lines that are still to be refined
    at,         \* where the next piece of the first of them begins; 0 before it is cut
    chunks      \* the refined ones

chunkVars == <<text, size, overlap, next, current, made, at, chunks>>
-----------------------------------------------------------------------------
\* strip(): without the white space at the ends.
Shown(a, b) == {i \in a..b : text[i] \in Visible}
Strip(a, b) == <<Min(Shown(a, b)), Max(Shown(a, b))>>

\* Where the line ends that begins at a position.
LineEnd(a) == Min({i \in a..Len(text) : i = Len(text) \/ text[i + 1] = "break"})

\* _make_overlap_text: where the end of a chunk <<a, b>> begins that the next one repeats,
\* at a sentence if the last characters hold the beginning of one, at a word if not.
OverlapStart(a, b) ==
    LET tail == (b - overlap + 1)..b
        ends == {i \in tail : text[i] = "break" \/ (text[i] = "space" /\ i - 1 \in tail /\ text[i - 1] = "stop")}
        words == {i \in tail : text[i] \in White}
    IN CASE b - a + 1 <= overlap -> a
         [] b - a + 1 > overlap /\ ends # {} -> Max(ends) + 1
         [] b - a + 1 > overlap /\ ends = {} /\ words # {} -> Max(words) + 1
         [] OTHER -> b - overlap + 1

\* chunk_by_paragraph: the next line is added to the current chunk, or, if it does not
\* fit, begins a new one after the overlap.
AddLine ==
    /\ next <= Len(text)
    /\ LET end == LineEnd(next) IN
        /\ \/ current = << >> /\ current' = <<next, end>> /\ UNCHANGED made
           \/ /\ current # << >> /\ end - current[1] < size
              /\ current' = <<current[1], end>> /\ UNCHANGED made
           \/ /\ current # << >> /\ end - current[1] >= size
              /\ made' = Append(made, current)
              /\ current' = <<IF overlap = 0 THEN next ELSE OverlapStart(current[1], current[2]), end>>
        /\ next' = end + 2
    /\ UNCHANGED <<text, size, overlap, at, chunks>>

LastChunk ==
    /\ next > Len(text) /\ current # << >>
    /\ made' = Append(made, current)
    /\ current' = << >>
    /\ UNCHANGED <<text, size, overlap, next, at, chunks>>

Refining == next > Len(text) /\ current = << >> /\ made # << >>
IsShort(c) == c[2] - c[1] < size

KeepChunk ==
    /\ Refining /\ at = 0 /\ IsShort(Head(made))
    /\ chunks' = Append(chunks, Head(made))
    /\ made' = Tail(made)
    /\ UNCHANGED <<text, size, overlap, next, current, at>>

\* a variant: the overlap is added
SkippedPiece(start) == start + size + overlap

\* chunk_fixed: the next piece, unless it is blank.
NextPiece(start) == start + size - overlap

CutChunk ==
    /\ Refining /\ (at = 0 => ~ IsShort(Head(made)))
    /\ LET c == Head(made)
           start == IF at = 0 THEN c[1] ELSE at
           end == IF start + size - 1 < c[2] THEN start + size - 1 ELSE c[2]
       IN /\ chunks' = IF Shown(start, end) = {} THEN chunks ELSE Append(chunks, Strip(start, end))
          /\ IF end = c[2] THEN made' = Tail(made) /\ at' = 0 ELSE at' = NextPiece(start) /\ UNCHANGED made
    /\ UNCHANGED <<text, size, overlap, next, current>>
-----------------------------------------------------------------------------
\* The lines of a chunk, as intervals.
LinesOf(c) ==
    {l \in (c[1]..c[2]) \X (c[1]..c[2]) :
        /\ l[1] = c[1] \/ text[l[1] - 1] = "break"
        /\ l[2] = c[2] \/ text[l[2] + 1] = "break"
        /\ l[1] <= l[2] /\ \A i \in l[1]..l[2] : text[i] # "break"}

\* Where a line goes on after "Q:" or "A:", and after its bullets.
Beyond(a, b, class) == Min({i \in a..(b + 1) : i = b + 1 \/ text[i] \notin class})
AfterQa(l) == IF text[l[1]] = "qa" THEN Beyond(l[1] + 1, l[2], {"space"}) ELSE l[1]
AfterBullets(l) == Beyond(AfterQa(l), l[2], {"space", "bullet"})

IsFooter(l) ==
    \/ text[l[1]] = "footer"
    \/ text[l[1]] = "end" /\ (l[1] = l[2] \/ text[l[1] + 1] = "stop")
IsWhole(a, l, mark) == a = l[2] /\ text[a] = mark
IsDropped(l) ==
    \/ text[l[1]] = "label"
    \/ IsWhole(AfterQa(l), l, "heading")
    \/ IsWhole(AfterBullets(l), l, "greeting")

\* normalize_chunk: the positions of a chunk that are stored.
Stored(c) ==
    UNION {Shown(AfterBullets(l), l[2]) :
        l \in {m \in LinesOf(c) : ~ IsDropped(m) /\ \A f \in LinesOf(c) : IsFooter(f) => m[1] < f[1]}}
-----------------------------------------------------------------------------
ChunkingInit ==
    /\ text \in Texts
    /\ size \in Sizes
    /\ overlap \in 0..(size - 1)
    /\ next = 1 /\ current = << >> /\ made = << >> /\ at = 0 /\ chunks = << >>

\* build_qna_paragraph_chunks
Split == AddLine \/ LastChunk \/ KeepChunk \/ CutChunk

ChunkingSpec == ChunkingInit /\ [][Split]_chunkVars

Document == <<1, Len(text)>>

\* A line that the chunk has and the document has not begins with what may be a mark, at
\* or before a position.
ReadAsMark(c, i) ==
    \E l \in LinesOf(c) \ LinesOf(Document) : l[1] <= i /\ text[l[1]] \notin Plain

\* No combination of sizes, overlaps and breaks loses a character at the border of two
\* chunks: each is in some chunk, and what normalising the document would store is stored
\* of every chunk it is in, unless the cut has left a line that reads as a mark.  A chunk
\* is never longer than asked for, and repeats no more of the one before than asked for.
ChunksKeepTheText ==
    /\ next > Len(text) /\ current = << >> /\ made = << >> =>
            \A i \in Shown(1, Len(text)) : \E k \in DOMAIN chunks : i \in chunks[k][1]..chunks[k][2]
    /\ chunks # << >> =>
            LET kept == Stored(Document) IN
            \A k \in DOMAIN chunks : \A i \in kept \cap (chunks[k][1]..chunks[k][2]) :
                i \in Stored(chunks[k]) \/ ReadAsMark(chunks[k], i)
    /\ \A k \in DOMAIN chunks : chunks[k][2] - chunks[k][1] < size
    /\ \A k \in 2..Len(chunks) : chunks[k - 1][2] - chunks[k][1] < overlap
=============================================================================
