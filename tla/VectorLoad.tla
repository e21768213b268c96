----------------------------- MODULE VectorLoad -----------------------------
(***************************************************************************)
(* The scripts that fill the vector table of past complaints: documents    *)
(* become chunks with ids (build_qna_chunks, build_tl1_chunks), and        *)
(* insert_chunks_to_vector embeds and inserts the chunks in batches, one   *)
(* after the other or several at a time.  A run that failed is resumed     *)
(* with --start-offset, at the line the last progress message tells.       *)
(*                                                                         *)
(* The chunks of one text are numbered; Chunking says what they are.  A    *)
(* batch is embedded before anything of it is inserted, in one             *)
(* transaction (llama_index, external).                                    *)
(***************************************************************************)
EXTENDS Naturals, FiniteSets, Sequences, SequencesExt

CONSTANTS
    Corpora,        \* collections of documents: [kind, docs], see CorpusOK
    Pieces,         \* Pieces[c]: into how many chunks content c is cut
    Blank,          \* contents of whose chunks nothing is left when they are normalised
    BatchSize,      \* --batch-size
    Workers,        \* values of --concurrency
    MaxPending,     \* --max-pending-batches
    MaxRuns,        \* bound: runs of the script
    MaxLoadFaults   \* bound: failing batches, killed runs

CorpusOK(c) ==
    /\ c.kind \in {"qna", "tl1"}
    /\ IsFiniteSet(DOMAIN c.docs)
    /\ \A i \in DOMAIN c.docs : c.docs[i].content \in DOMAIN Pieces

ASSUME LoadAssumption ==
    /\ \A c \in Corpora : CorpusOK(c)
    /\ \A content \in DOMAIN Pieces : Pieces[content] \in Nat
    /\ BatchSize \in Nat \ {0} /\ Workers \subseteq Nat \ {0} /\ MaxPending \in Nat \ {0}
    /\ MaxRuns \in Nat /\ MaxLoadFaults \in Nat

VARIABLES
    rows,       \* the file of chunks: [id, text, category]
    workers,    \* of the run
    phase,      \* of the run: idle, reading, inserting, done, failed, and queueing,
                \* draining, gathering when it has several workers
    offset,     \* --start-offset
    pos,        \* how many rows were read
    seen,       \* seen_ids
    inserted,   \* counters of the run, of which the first two are printed after a batch
    skipped,
    printed,
    batch,      \* nodes, nodes_buf: a set of positions in rows
    tasks,      \* of a parallel run: [batch, step]
    \* what really happened
    table,      \* table[i]: how often row i was inserted
    runs,       \* how many runs there were
    unsure,     \* whether the last progress message is wrong about the table
    loadFaults,
    embed,      \* the run of embed_chunks_gemini: its model, start and out_rows
    vectors     \* what it wrote: the rows whose vectors they are

runVars == <<offset, pos, seen, inserted, skipped, printed, batch, tasks>>
insertVars == <<rows, workers, phase, runVars, table, runs, unsure, loadFaults>>
embedVars == <<embed, vectors>>
loadVars == <<insertVars, embedVars>>
-----------------------------------------------------------------------------
\* make_chunk_id_base: the id of the document, in its file, and a number.
ChunkRow(doc, n) ==
    [id |-> <<doc.id, n>>, text |-> <<doc.content, n>>, category |-> doc.category]

\* dedup_rows: a question and answer that appears twice is kept once.
Deduped(docs) == {i \in DOMAIN docs : \A j \in 1..(i - 1) : docs[j] # docs[i]}

\* build_qna_paragraph_chunks, build_tl1_no_split: the chunks <<document, number>> in order.
ChunksOf(corpus) ==
    IF corpus.kind = "qna"
    THEN UNION {{i} \X (1..Pieces[corpus.docs[i].content]) : i \in Deduped(corpus.docs)}
    ELSE (DOMAIN corpus.docs) \X {1}

NotAfter(p, q) == p[1] < q[1] \/ (p[1] = q[1] /\ p[2] <= q[2])

BuildChunks(corpus) ==
    LET cs == ChunksOf(corpus)
        Line(k) == CHOOSE c \in cs : Cardinality({d \in cs : NotAfter(d, c)}) = k
    IN [k \in 1..Cardinality(cs) |-> ChunkRow(corpus.docs[Line(k)[1]], Line(k)[2])]

\* main, of the two scripts: the files they write.
Files == {BuildChunks(c) : c \in Corpora}

\* row_to_node raises when nothing is left of the text.
Usable(i) == rows[i].text[1] \notin Blank

NotEmbedding == [model |-> "none", start |-> 0, out |-> << >>]

LoadInit ==
    /\ rows \in Files
    /\ workers \in Workers
    /\ phase = "idle"
    /\ offset = 0 /\ pos = 0 /\ seen = {} /\ inserted = 0 /\ skipped = 0 /\ printed = 0
    /\ batch = {} /\ tasks = << >>
    /\ table = [i \in DOMAIN rows |-> 0]
    /\ runs = 0 /\ unsure = FALSE /\ loadFaults = 0
    /\ embed = NotEmbedding /\ vectors = << >>

LoadFault == loadFaults < MaxLoadFaults /\ loadFaults' = loadFaults + 1

With(lines) == [i \in DOMAIN rows |-> IF i \in lines THEN table[i] + 1 ELSE table[i]]
Added(lines) == table' = With(lines)
-----------------------------------------------------------------------------
(* embed_chunks_gemini: vectors to a file, for which the table is not needed *)

\* The rows that have a text, in order.
Work ==
    LET worth == {i \in DOMAIN rows : Usable(i)}
    IN [k \in 1..Cardinality(worth) |-> CHOOSE i \in worth : Cardinality({j \in worth : j <= i}) = k]

\* A model that takes several texts at a time may answer fewer vectors; gemini-embedding-2
\* answers one, and is asked for one.
EmbedBatchSize(model) == IF model = "gemini-embedding-2" THEN 1 ELSE BatchSize
Answers(model, texts) == {n \in 0..texts : model = "gemini-embedding-2" => n <= 1}

\* build_embedding_rows, for a model: the texts of the next request.
StartEmbedding ==
    /\ embed = NotEmbedding /\ vectors = << >>
    /\ \E model \in {"gemini-embedding-2", "gemini-embedding-001"} : embed' = [NotEmbedding EXCEPT !.model = model]
    /\ UNCHANGED <<insertVars, vectors>>

NextBatch == embed.start + EmbedBatchSize(embed.model)
EmbedBatch == SubSeq(Work, embed.start + 1, IF NextBatch < Len(Work) THEN NextBatch ELSE Len(Work))

\* a variant: zip takes what there is
AnyAnswer(texts, n) == n > 0

\* embed_texts raises when a vector is missing.
WholeAnswer(texts, n) == n = texts

\* A batch is answered, or the script ends with an exception and has written nothing.
EmbedTexts ==
    /\ embed # NotEmbedding /\ embed.start < Len(Work)
    /\ \E n \in Answers(embed.model, Len(EmbedBatch)) :
         embed' = IF WholeAnswer(Len(EmbedBatch), n)
                  THEN [embed EXCEPT !.start = NextBatch, !.out = @ \o SubSeq(EmbedBatch, 1, n)]
                  ELSE NotEmbedding
    /\ UNCHANGED <<insertVars, vectors>>

\* main: the file is written after the last batch.
WriteVectors ==
    /\ embed # NotEmbedding /\ embed.start >= Len(Work)
    /\ vectors' = embed.out
    /\ embed' = NotEmbedding
    /\ UNCHANGED insertVars
-----------------------------------------------------------------------------
(* insert_chunks_to_vector *)

\* The script is started, for the first time or to go on where a run of one worker failed.
StartRun ==
    /\ phase \in {"idle", "failed"} /\ runs < MaxRuns
    /\ phase = "failed" => workers = 1
    /\ runs' = runs + 1
    /\ phase' = "reading"
    /\ offset' = offset + printed
    /\ pos' = offset'
    /\ seen' = {} /\ inserted' = 0 /\ skipped' = 0 /\ printed' = 0
    /\ batch' = {} /\ tasks' = << >>
    /\ UNCHANGED <<rows, workers, table, unsure, loadFaults, embedVars>>

\* a variant: rows whose chunk is not there for the first time are inserted again
EveryRow(i) == Usable(i)

\* A row is skipped when it has no text, or when its id was seen in this run.
Fresh(i) ==
    /\ Usable(i)
    /\ rows[i].id \notin seen
    /\ \A j \in (pos + 1)..(i - 1) : Usable(j) => rows[j].id # rows[i].id

\* Rows are read until the batch is full, or none is left; nothing is awaited.
Read ==
    /\ phase = "reading"
    /\ \E last \in pos..Len(rows) :
         LET fresh == {i \in (pos + 1)..last : Fresh(i)} IN
         /\ \/ Cardinality(fresh) = BatchSize /\ last \in fresh
            \/ Cardinality(fresh) < BatchSize /\ last = Len(rows)
         /\ pos' = last
         /\ batch' = fresh
         /\ seen' = seen \cup {rows[i].id : i \in fresh}
         /\ skipped' = skipped + (last - pos) - Cardinality(fresh)
    /\ phase' = IF workers = 1
                THEN IF batch' # {} THEN "inserting" ELSE "done"
                ELSE IF batch' # {} THEN "queueing" ELSE "gathering"
    /\ UNCHANGED <<rows, workers, offset, inserted, printed, tasks, table, runs, unsure, loadFaults, embedVars>>
-----------------------------------------------------------------------------
(* One batch after the other *)

\* insert_batch_with_retry, which may have failed to embed the batch before.  The last
\* batch, when it is not full, is followed by the end of the run and no progress message.
Insert ==
    /\ phase = "inserting"
    /\ Added(batch)
    /\ inserted' = inserted + Cardinality(batch)
    /\ batch' = {}
    /\ IF Cardinality(batch) = BatchSize
       THEN printed' = inserted' + skipped /\ phase' = "reading"
       ELSE printed' = printed /\ phase' = "done"
    /\ UNCHANGED <<rows, workers, offset, pos, seen, skipped, tasks, runs, unsure, loadFaults, embedVars>>

\* It cannot be embedded, or the database raises, before or after it is committed.
InsertFails ==
    /\ phase = "inserting"
    /\ LoadFault
    /\ phase' = "failed"
    /\ \/ UNCHANGED <<table, unsure>>
       \/ Added(batch) /\ unsure' = TRUE
    /\ UNCHANGED <<rows, workers, runVars, runs, embedVars>>
-----------------------------------------------------------------------------
(* Several at a time *)

\* Of the tasks of the run: those that main still has in its list.
Listed == {k \in DOMAIN tasks : tasks[k].step # "taken"}
At(step) == {k \in DOMAIN tasks : tasks[k].step = step}
Move(k, step) == tasks' = [tasks EXCEPT ![k].step = step]

\* The batch becomes a task, unless too many are waiting.
Queue ==
    /\ phase = "queueing"
    /\ IF Cardinality(Listed) < MaxPending
       THEN /\ tasks' = Append(tasks, [batch |-> batch, step |-> "waiting"])
            /\ batch' = {}
            /\ phase' = "reading"
       ELSE /\ phase' = "draining"
            /\ UNCHANGED <<tasks, batch>>
    /\ UNCHANGED <<rows, workers, offset, pos, seen, inserted, skipped, printed, table, runs, unsure, loadFaults, embedVars>>

\* Tasks run while main awaits: the next one gets a service of the pool,
Awaiting == phase \in {"draining", "gathering"}
Unmoved == UNCHANGED <<rows, workers, phase, offset, pos, seen, inserted, skipped, printed, batch, runs, unsure, embedVars>>

TakeService ==
    /\ Awaiting
    /\ Cardinality(At("inserting")) < workers
    /\ At("waiting") # {}
    /\ \E k \in At("waiting") : (\A j \in At("waiting") : k <= j) /\ Move(k, "inserting")
    /\ Unmoved /\ UNCHANGED <<table, loadFaults>>

\* and inserts its batch, or fails to.
TaskEnds(k) ==
    /\ Awaiting
    /\ k \in At("inserting")
    /\ \/ Added(tasks[k].batch) /\ Move(k, "ok") /\ UNCHANGED loadFaults
       \/ LoadFault /\ Move(k, "error") /\ (UNCHANGED table \/ Added(tasks[k].batch))
    /\ Unmoved

Batches(ks) == UNION {tasks[k].batch : k \in ks}

\* The run ends with an exception.  What is in a thread goes on to its end.
Abort ==
    /\ phase' = "failed" /\ unsure' = TRUE
    /\ \E ks \in SUBSET At("inserting") : table' = With(Batches(ks))

\* drain_some_tasks: the first to be ready, and all that are, are counted.
Drain ==
    /\ phase = "draining"
    /\ At("ok") \cup At("error") # {}
    /\ IF At("error") # {}
       THEN Abort /\ UNCHANGED <<tasks, inserted>>
       ELSE /\ tasks' = [k \in DOMAIN tasks |-> IF k \in At("ok") THEN [tasks[k] EXCEPT !.step = "taken"] ELSE tasks[k]]
            /\ inserted' = inserted + Cardinality(Batches(At("ok")))
            /\ phase' = "queueing"
            /\ UNCHANGED <<table, unsure>>
    /\ UNCHANGED <<rows, workers, offset, pos, seen, skipped, printed, batch, runs, loadFaults, embedVars>>

\* gather: all the others.
Gather ==
    /\ phase = "gathering"
    /\ \/ At("error") # {} /\ Abort /\ UNCHANGED inserted
       \/ /\ Listed = At("ok")
          /\ inserted' = inserted + Cardinality(Batches(At("ok")))
          /\ phase' = "done"
          /\ UNCHANGED <<table, unsure>>
    /\ UNCHANGED <<rows, workers, offset, pos, seen, skipped, printed, batch, tasks, runs, loadFaults, embedVars>>

\* The run is killed; the transaction of a batch may be committed all the same.
Killed ==
    /\ phase \notin {"idle", "done", "failed"}
    /\ LoadFault
    /\ phase' = "failed"
    /\ LET open == IF phase = "inserting" THEN batch ELSE {}
       IN \E ks \in SUBSET At("inserting"), lines \in {{}, open} :
            /\ table' = With(Batches(ks) \cup lines)
            /\ unsure' = (unsure \/ table' # table \/ workers > 1)
    /\ UNCHANGED <<rows, workers, runVars, runs, embedVars>>
-----------------------------------------------------------------------------
EmbedNext == StartEmbedding \/ EmbedTexts \/ WriteVectors

InsertNext ==
    \/ StartRun \/ Read \/ Insert \/ InsertFails
    \/ Queue \/ TakeService \/ Drain \/ Gather \/ Killed
    \/ \E k \in DOMAIN tasks : TaskEnds(k)

LoadNext == EmbedNext \/ InsertNext

LoadSpec == LoadInit /\ [][LoadNext]_loadVars
-----------------------------------------------------------------------------
\* When the script says it is done, every chunk is in the table, under its id, no row of
\* the file was inserted twice, and no id by the same run: whatever was skipped, retried
\* or resumed, in one run or in several, unless a run ended unsure of its last batch, or
\* a parallel run failed.
LoadedOnce ==
    phase = "done" /\ ~ unsure =>
        LET there == {i \in DOMAIN rows : table[i] > 0}
        IN /\ \A i \in DOMAIN rows : table[i] <= 1
           /\ {rows[i].id : i \in {j \in DOMAIN rows : Usable(j)}} = {rows[i].id : i \in there}
           /\ runs = 1 => \A i, j \in there : rows[i].id = rows[j].id => i = j

\* The file of vectors has one for every chunk with a text, in order: a request that is
\* answered in part, or not at all, never shifts or drops the vectors of others.
VectorsAreWhole ==
    vectors # << >> =>
        /\ {vectors[k] : k \in DOMAIN vectors} = {i \in DOMAIN rows : Usable(i)}
        /\ \A j, k \in DOMAIN vectors : j < k => vectors[j] < vectors[k]
=============================================================================
