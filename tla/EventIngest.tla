---------------------------- MODULE EventIngest ----------------------------
(***************************************************************************)
(* How policy news and contests become pins (PolicyPinService,             *)
(* PolicyEventIngestService and their contest twins): documents are        *)
(* fetched into one JSONL file, transformed by an LLM into rows of a       *)
(* second one, the handoff, and imported into the database; what is        *)
(* imported is pruned from both files.  A daily sync does all of it in     *)
(* batches, and an administrator may run a sync or any of the steps at the *)
(* same time: nothing keeps two operations apart.                          *)
(*                                                                         *)
(* All operations run in one process.  Its event loop resumes one of them  *)
(* at a time and does not leave it between two awaits; only the import     *)
(* reads the handoff, and prunes, in a worker thread.  A file is a set of  *)
(* documents that is read and written whole.                               *)
(***************************************************************************)
EXTENDS Naturals, FiniteSets

CONSTANTS
    Docs,       \* the documents of the source, by API id
    Ops,        \* the operations
    Daily,      \* those among them that are the scheduler's sync, run again and again
    Batch,      \* documents in a batch of a sync
    BadText,    \* documents the transform fails on whenever it is tried
    BadRow,     \* documents whose row the database never accepts
    Expiring,   \* contests whose deadline may pass
    Setups,     \* the settings and pipelines to consider, a subset of AllSetups
    MaxFaults   \* how many failures there may be

\* crawls: the contest pipeline, where the crawler awaits between reading and
\* writing the documents.  merges: a sync adds to the documents (contest, or
\* policy_sync_merge_documents); otherwise it replaces them, the default of the
\* policy pipeline.  prunes: *_prune_pipeline_after_import.
AllSetups == {s \in [crawls : BOOLEAN, merges : BOOLEAN, prunes : BOOLEAN] :
                s.crawls => s.merges}

ASSUME IngestAssumption ==
    /\ IsFiniteSet(Docs) /\ IsFiniteSet(Ops)
    /\ Daily \subseteq Ops
    /\ Batch \in Nat \ {0}
    /\ BadText \cup BadRow \cup Expiring \subseteq Docs
    /\ Setups \subseteq AllSetups
    /\ MaxFaults \in Nat

\* Batches are taken from the head of the files.  As many hopeless documents
\* as a batch holds would keep every sync busy with them alone.
ASSUME FewBadDocuments == Cardinality(BadText) < Batch /\ Cardinality(BadRow) < Batch

VARIABLES
    setup,      \* the settings, fixed at the start
    documents,  \* policy_documents.jsonl, contest_documents.jsonl
    handoff,    \* policy_pins_for_db.jsonl and its contest twin
    pins,       \* how many committed event_pin rows each document has
    expired,    \* contests whose deadline has passed
    op,         \* the state of each operation
    \* what really happened
    fetched,    \* documents stored by a fetch that no later sync has replaced
    stale,      \* whether a changed documents file was ever overwritten with an older copy
    faults      \* failures so far

vars == <<setup, documents, handoff, pins, expired, op, fetched, stale, faults>>

Kinds == {"sync", "fetch", "transform", "import"}

\* What an operation does next.  "prune" is the whole of prune_pipeline_imported:
\* read and write the documents, then the handoff.
PrunePhases == {"prune", "pruneDocuments", "pruneHandoff", "pruneRows"}
Phases == PrunePhases \cup {"idle", "fetch", "merge", "known", "transform", "llm", "import",
                            "split", "insert", "imported", "drain", "ended"}

\* Why it prunes or imports: the sweep that begins a sync; an import of the
\* transform loop, with documents left or not; of the loop that drains the
\* handoff; of an administrator.
Modes == {"sweep", "batch", "last", "drain", "alone"}

OpState == [pc : Phases, kind : Kinds, mode : Modes,
            known : SUBSET Docs,   \* db_ids of a sync or transform
            seen : SUBSET Docs,    \* a file as it was read
            rows : SUBSET Docs,    \* the handoff as it was read; then pending_rows
            work : SUBSET Docs,    \* the batch, what is left of it
            made : SUBSET Docs,    \* rows the import has inserted
            doomed : SUBSET Docs,  \* the ids to prune
            left : Nat]            \* last_import.pending_import_count

Fresh(pc) == [pc |-> pc, kind |-> "sync", mode |-> "alone", known |-> {}, seen |-> {},
              rows |-> {}, work |-> {}, made |-> {}, doomed |-> {}, left |-> 0]

Pinned == {d \in Docs : pins[d] > 0}

\* What an open transaction has inserted.
Draft(o) == IF op[o].pc = "insert" THEN op[o].made ELSE {}

Init ==
    /\ setup \in Setups
    /\ documents = {} /\ handoff = {}
    /\ pins = [d \in Docs |-> 0]
    /\ expired = {}
    /\ op = [o \in Ops |-> Fresh("idle")]
    /\ fetched = {}
    /\ stale = FALSE
    /\ faults = 0

----------------------------------------------------------------------------
(* Helpers.                                                                 *)

Go(o, state) == op' = [op EXCEPT ![o] = state]

\* The operation returns or raises; the scheduler logs it and waits for the
\* next day.
End(o) == Go(o, Fresh(IF o \in Daily THEN "idle" ELSE "ended"))

Fault == faults < MaxFaults /\ faults' = faults + 1

\* rows[:limit]: a sync takes a batch of any of the rows, over-approximating
\* their order; an administrator chooses the limit.
Portions(rows, kind) ==
    {p \in SUBSET rows : IF kind = "sync"
                         THEN Cardinality(p) = Batch \/ (Cardinality(rows) < Batch /\ p = rows)
                         ELSE rows # {} => p # {}}

\* list_pending_transform_rows
PendingTransform(docs, rows, known) == docs \ (known \cup rows \cup expired)

\* An operation keeps the event loop to itself until its next await: while it
\* sweeps, merges what the policy API has returned, loads the files for a
\* transform, transforms nothing, or looks for rows to drain.
HoldsLoop(o) ==
    \/ op[o].mode = "sweep" /\ op[o].pc \in PrunePhases \ {"prune"}
    \/ op[o].pc = "merge" /\ ~setup.crawls
    \/ op[o].pc \in {"transform", "drain"}
    \/ op[o].pc = "llm" /\ op[o].work = {}

LoopFree(o) == \A p \in Ops \ {o} : ~HoldsLoop(p)

\* The documents file is replaced by what was made of the copy read before.
SaveDocuments(o, docs) ==
    /\ documents' = docs
    /\ stale' = (stale \/ documents # op[o].seen)

----------------------------------------------------------------------------
(* Start, and the sweep of what earlier runs imported and did not prune.    *)

BeginSync(o) ==
    /\ op[o].pc = "idle"
    /\ Go(o, IF setup.prunes /\ Pinned # {}
             THEN [Fresh("prune") EXCEPT !.mode = "sweep", !.doomed = Pinned]
             ELSE Fresh("fetch"))
    /\ UNCHANGED <<setup, documents, handoff, pins, expired, fetched, stale, faults>>

\* The transform-batch route passes the imported ids, the transform route none.
BeginStep(o) ==
    /\ op[o].pc = "idle" /\ o \notin Daily
    /\ \/ Go(o, [Fresh("fetch") EXCEPT !.kind = "fetch"])
       \/ \E ids \in {{}, Pinned} :
            Go(o, [Fresh("transform") EXCEPT !.kind = "transform", !.known = ids])
       \/ Go(o, [Fresh("import") EXCEPT !.kind = "import"])
    /\ UNCHANGED <<setup, documents, handoff, pins, expired, fetched, stale, faults>>

Pruned(o) ==
    Go(o, IF op[o].mode = "sweep" THEN Fresh("fetch")
          ELSE [op[o] EXCEPT !.pc = "imported", !.seen = {}, !.doomed = {}])

\* prune_jsonl_by_policy_api_ids of the documents, then of the handoff.  A file
\* is written only if there is something to remove.
PruneReadDocuments(o) ==
    /\ op[o].pc = "prune"
    /\ Go(o, IF documents \cap op[o].doomed = {}
             THEN [op[o] EXCEPT !.pc = "pruneHandoff"]
             ELSE [op[o] EXCEPT !.pc = "pruneDocuments", !.seen = documents])
    /\ UNCHANGED <<setup, documents, handoff, pins, expired, fetched, stale, faults>>

PruneWriteDocuments(o) ==
    /\ op[o].pc = "pruneDocuments"
    /\ SaveDocuments(o, op[o].seen \ op[o].doomed)
    /\ Go(o, [op[o] EXCEPT !.pc = "pruneHandoff", !.seen = {}])
    /\ UNCHANGED <<setup, handoff, pins, expired, fetched, faults>>

PruneReadHandoff(o) ==
    /\ op[o].pc = "pruneHandoff"
    /\ IF handoff \cap op[o].doomed = {}
       THEN Pruned(o)
       ELSE Go(o, [op[o] EXCEPT !.pc = "pruneRows", !.seen = handoff])
    /\ UNCHANGED <<setup, documents, handoff, pins, expired, fetched, stale, faults>>

PruneWriteHandoff(o) ==
    /\ op[o].pc = "pruneRows"
    /\ handoff' = op[o].seen \ op[o].doomed
    /\ Pruned(o)
    /\ UNCHANGED <<setup, documents, pins, expired, fetched, stale, faults>>

----------------------------------------------------------------------------
(* Fetch: search_and_save, or the crawl of run_crawl.                       *)

\* `work` is what is not past its deadline today.
FetchLoad(o) ==
    /\ op[o].pc = "fetch"
    /\ Go(o, [op[o] EXCEPT !.pc = "merge", !.seen = documents, !.work = Docs \ expired])
    /\ UNCHANGED <<setup, documents, handoff, pins, expired, fetched, stale, faults>>

\* A variant: every fetch replaces what was fetched before.
FetchReplaces(o) ==
    /\ op[o].pc = "merge"
    /\ \E found \in SUBSET op[o].work :
         /\ documents' = found
         /\ fetched' = IF op[o].kind = "sync" /\ ~setup.merges THEN found
                       ELSE fetched \cup found
    /\ IF op[o].kind = "sync" THEN Go(o, Fresh("known")) ELSE End(o)
    /\ UNCHANGED <<setup, handoff, pins, expired, stale, faults>>

\* The source lists any of its documents.
FetchSave(o) ==
    /\ op[o].pc = "merge"
    /\ \E found \in SUBSET op[o].work :
         IF op[o].kind = "sync" /\ ~setup.merges
         THEN /\ documents' = found
              /\ fetched' = found
              /\ UNCHANGED stale
         ELSE /\ SaveDocuments(o, op[o].seen \cup found)
              /\ fetched' = fetched \cup found
    /\ IF op[o].kind = "sync" THEN Go(o, Fresh("known")) ELSE End(o)
    /\ UNCHANGED <<setup, handoff, pins, expired, faults>>

----------------------------------------------------------------------------
(* Transform: transform_documents_jsonl.                                    *)

ReadKnown(o) ==
    /\ op[o].pc = "known"
    /\ Go(o, [op[o] EXCEPT !.pc = "transform", !.known = Pinned])
    /\ UNCHANGED <<setup, documents, handoff, pins, expired, fetched, stale, faults>>

TransformLoad(o) ==
    /\ op[o].pc = "transform"
    /\ \E batch \in Portions(PendingTransform(documents, handoff, op[o].known), op[o].kind) :
         Go(o, [op[o] EXCEPT !.pc = "llm", !.seen = documents, !.rows = handoff, !.work = batch])
    /\ UNCHANGED <<setup, documents, handoff, pins, expired, fetched, stale, faults>>

\* The rows read before the LLM calls are written back with the new ones.  A
\* sync goes on to import what it has just transformed.
TransformSave(o, done) ==
    LET rows == op[o].rows \cup done
        remaining == PendingTransform(op[o].seen, rows, op[o].known)
    IN  /\ op[o].pc = "llm"
        /\ handoff' = rows
        /\ IF op[o].kind = "transform" THEN End(o)
           ELSE Go(o, IF done = {} THEN [Fresh("drain") EXCEPT !.left = op[o].left]
                      ELSE [Fresh("import") EXCEPT
                               !.mode = IF remaining = {} THEN "last" ELSE "batch",
                               !.known = op[o].known, !.left = op[o].left])
        /\ UNCHANGED <<setup, documents, pins, expired, fetched, stale>>

Transform(o) == TransformSave(o, op[o].work \ BadText) /\ UNCHANGED faults

TransformPartly(o) ==
    /\ op[o].work \ BadText # {}
    /\ \E done \in SUBSET (op[o].work \ BadText) :
         done # op[o].work \ BadText /\ TransformSave(o, done)
    /\ Fault

----------------------------------------------------------------------------
(* Import: import_handoff_batch.                                            *)

ImportLoad(o) ==
    /\ op[o].pc = "import"
    /\ Go(o, [op[o] EXCEPT !.pc = "split", !.rows = handoff])
    /\ UNCHANGED <<setup, documents, handoff, pins, expired, fetched, stale, faults>>

\* An empty handoff is an error as long as something is to be transformed.
ImportNothing(o) ==
    /\ op[o].pc = "split" /\ op[o].rows = {}
    /\ IF PendingTransform(documents, {}, Pinned) # {}
       THEN End(o)
       ELSE Go(o, [op[o] EXCEPT !.pc = "imported"])
    /\ UNCHANGED <<setup, documents, handoff, pins, expired, fetched, stale, faults>>

\* Rows that are imported or expired are to be pruned, a batch of the others
\* is to be inserted.
Split(o) ==
    LET rows == op[o].rows \ Pinned IN
    /\ op[o].pc = "split" /\ op[o].rows # {}
    /\ \E batch \in Portions(rows \ expired, op[o].kind) :
         Go(o, [op[o] EXCEPT !.pc = "insert", !.rows = rows, !.work = batch,
                             !.doomed = op[o].rows \cap (Pinned \cup expired)])
    /\ UNCHANGED <<setup, documents, handoff, pins, expired, fetched, stale, faults>>

SkipExpired(o, d) ==
    /\ op[o].pc = "insert" /\ d \in op[o].work \cap expired
    /\ Go(o, [op[o] EXCEPT !.work = @ \ {d}, !.doomed = @ \cup {d}])
    /\ UNCHANGED <<setup, documents, handoff, pins, expired, fetched, stale, faults>>

\* The unique API id: an INSERT waits for an open transaction that has
\* inserted the same, and fails if there is a committed row.
RowIsFree(o, d) == \A p \in Ops \ {o} : d \notin Draft(p)

\* A variant: there is no unique constraint.
InsertDuplicate(o, d) ==
    /\ op[o].pc = "insert" /\ d \in op[o].work \ (expired \cup BadRow)
    /\ Go(o, [op[o] EXCEPT !.work = @ \ {d}, !.made = @ \cup {d}, !.doomed = @ \cup {d}])
    /\ UNCHANGED <<setup, documents, handoff, pins, expired, fetched, stale, faults>>

Insert(o, d) ==
    /\ op[o].pc = "insert" /\ d \in op[o].work \ expired
    /\ RowIsFree(o, d)
    /\ d \notin Pinned \cup BadRow
    /\ Go(o, [op[o] EXCEPT !.work = @ \ {d}, !.made = @ \cup {d}, !.doomed = @ \cup {d}])
    /\ UNCHANGED <<setup, documents, handoff, pins, expired, fetched, stale, faults>>

\* The savepoint is rolled back and the row reported: a duplicate, a row the
\* database does not take, a victim of a deadlock.
InsertFails(o, d) ==
    /\ op[o].pc = "insert" /\ d \in op[o].work \ expired
    /\ \/ RowIsFree(o, d) /\ d \in Pinned \cup BadRow
       \/ \E p \in Ops \ {o} : d \in Draft(p) /\ op[p].work \cap Draft(o) # {}
    /\ Go(o, [op[o] EXCEPT !.work = @ \ {d}])
    /\ UNCHANGED <<setup, documents, handoff, pins, expired, fetched, stale, faults>>

Committed(o) == [d \in Docs |-> pins[d] + IF d \in op[o].made THEN 1 ELSE 0]

Commit(o) ==
    /\ op[o].pc = "insert" /\ op[o].work = {}
    /\ pins' = Committed(o)
    /\ Go(o, [op[o] EXCEPT !.pc = IF setup.prunes /\ op[o].doomed # {} THEN "prune"
                                  ELSE "imported"])
    /\ UNCHANGED <<setup, documents, handoff, expired, fetched, stale, faults>>

\* pending_import_count
PendingImport(o) == Cardinality(op[o].rows \ (op[o].made \cup expired))

\* What ends the draining loop while rows are pending; the variant: nothing.
NeverStuck(o, pending) == FALSE
Stuck(o, pending) == op[o].made = {} /\ pending >= op[o].left

\* The transform loop goes on as long as something is pending, the draining
\* loop as long as it gets anywhere.
Imported(o) ==
    LET pending == PendingImport(o)
        known == op[o].known \cup op[o].made
    IN  /\ op[o].pc = "imported"
        /\ \/ op[o].mode = "alone" /\ End(o)
           \/ op[o].mode = "batch"
              /\ Go(o, [Fresh("transform") EXCEPT !.known = known, !.left = pending])
           \/ op[o].mode = "last" /\ Go(o, [Fresh("drain") EXCEPT !.left = pending])
           \/ op[o].mode = "drain"
              /\ IF pending = 0 \/ Stuck(o, pending) THEN End(o)
                 ELSE Go(o, [Fresh("drain") EXCEPT !.left = pending])
        /\ UNCHANGED <<setup, documents, handoff, pins, expired, fetched, stale, faults>>

\* A variant: a sync does not look at what earlier ones left in the handoff.
DrainNothing(o) ==
    /\ op[o].pc = "drain"
    /\ End(o)
    /\ UNCHANGED <<setup, documents, handoff, pins, expired, fetched, stale, faults>>

\* while load_jsonl_rows(handoff_path)
Drain(o) ==
    /\ op[o].pc = "drain"
    /\ IF handoff = {} THEN End(o)
       ELSE Go(o, [op[o] EXCEPT !.pc = "import", !.mode = "drain"])
    /\ UNCHANGED <<setup, documents, handoff, pins, expired, fetched, stale, faults>>

----------------------------------------------------------------------------
(* Failures, and the passing of deadlines.                                  *)

\* An exception ends the operation, and rolls back what it has not committed:
\* the source cannot be reached, the crawler dies, the database fails.
Fails(o) ==
    /\ Fault
    /\ \/ op[o].pc \in {"fetch", "known", "split", "insert"}
       \/ op[o].pc = "merge" /\ setup.crawls
    /\ End(o)
    /\ UNCHANGED <<setup, documents, handoff, pins, expired, fetched, stale>>

\* One row fails.
RowFails(o, d) ==
    /\ Fault
    /\ op[o].pc = "insert" /\ d \in op[o].work \ expired
    /\ Go(o, [op[o] EXCEPT !.work = @ \ {d}])
    /\ UNCHANGED <<setup, documents, handoff, pins, expired, fetched, stale>>

\* The commit takes effect and reports failure.
CommitUnknown(o) ==
    /\ Fault
    /\ op[o].pc = "insert" /\ op[o].work = {}
    /\ pins' = Committed(o)
    /\ End(o)
    /\ UNCHANGED <<setup, documents, handoff, expired, fetched, stale>>

\* The process ends between two file accesses, and all operations with it.
Crash ==
    /\ Fault
    /\ op' = [o \in Ops |-> IF op[o].pc = "idle" \/ o \in Daily THEN Fresh("idle")
                            ELSE Fresh("ended")]
    /\ UNCHANGED <<setup, documents, handoff, pins, expired, fetched, stale>>

Expire(d) ==
    /\ setup.crawls
    /\ d \in Expiring \ expired
    /\ expired' = expired \cup {d}
    /\ UNCHANGED <<setup, documents, handoff, pins, op, fetched, stale, faults>>

----------------------------------------------------------------------------
Prune(o) ==
    \/ PruneReadDocuments(o)
    \/ PruneWriteDocuments(o)
    \/ PruneReadHandoff(o)
    \/ PruneWriteHandoff(o)

\* What a worker thread does for an operation, whatever the event loop does.
ThreadStep(o) ==
    \/ ImportLoad(o)
    \/ op[o].mode # "sweep" /\ Prune(o)

LoopStep(o) ==
    \/ BeginSync(o)
    \/ BeginStep(o)
    \/ op[o].mode = "sweep" /\ Prune(o)
    \/ FetchLoad(o)
    \/ FetchSave(o)
    \/ ReadKnown(o)
    \/ TransformLoad(o)
    \/ Transform(o)
    \/ ImportNothing(o)
    \/ Split(o)
    \/ \E d \in Docs : SkipExpired(o, d) \/ Insert(o, d) \/ InsertFails(o, d)
    \/ Commit(o)
    \/ Imported(o)
    \/ Drain(o)

FaultStep(o) ==
    \/ TransformPartly(o)
    \/ Fails(o)
    \/ \E d \in Docs : RowFails(o, d)
    \/ CommitUnknown(o)

Step(o) == ThreadStep(o) \/ (LoopFree(o) /\ LoopStep(o))

Next ==
    \/ \E o \in Ops : Step(o) \/ (LoopFree(o) /\ FaultStep(o))
    \/ Crash
    \/ \E d \in Docs : Expire(d)

\* A new day comes, and what was started goes on: the event loop resumes its
\* coroutines in turn and the database serves waiting transactions in turn,
\* so nobody is passed over for ever.  No administrator has to do anything.
Fairness ==
    /\ \A o \in Daily : SF_vars(Step(o))
    /\ \A o \in Ops \ Daily : SF_vars(op[o].pc # "idle" /\ Step(o))

Spec == Init /\ [][Next]_vars
FairSpec == Spec /\ Fairness

----------------------------------------------------------------------------
(* Correctness.                                                             *)

TypeOK ==
    /\ setup \in Setups
    /\ documents \subseteq Docs /\ handoff \subseteq Docs /\ fetched \subseteq Docs
    /\ pins \in [Docs -> Nat]
    /\ expired \subseteq Expiring
    /\ op \in [Ops -> OpState]
    /\ \A o \in Ops : op[o].kind = "sync" /\ op[o].pc \in {"llm", "insert"}
                     => Cardinality(op[o].work) <= Batch
    /\ stale \in BOOLEAN
    /\ faults \in 0 .. MaxFaults

\* Whatever overlaps, fails or is repeated, a document becomes one pin, which
\* is the pin of no second open transaction either.
OnePinPerDocument ==
    \A d \in Docs : pins[d] + Cardinality({o \in Ops : d \in Draft(o)}) <= 1

\* Only what is in the database for good, or past its deadline, is removed
\* from the files.
PrunesOnlyImported ==
    \A o \in Ops : op[o].pc \in PrunePhases => op[o].doomed \subseteq Pinned \cup expired

\* A fetched document is kept until it has a pin or expires.  Lost handoff
\* rows, failures and crashes do not matter; only an older copy of the
\* documents, written over a newer one, can lose it.
DocumentsAreKept ==
    stale \/ fetched \subseteq documents \cup Pinned \cup expired

\* A fetched document becomes a pin in the end, unless it cannot, it expires,
\* or it is no longer among the documents because a sync replaced them or an
\* older copy was written over them.
FetchedIsImported ==
    \A d \in Docs \ (BadText \cup BadRow) :
        d \in fetched ~> (d \in Pinned \cup expired \/ d \notin fetched \/ stale)

\* The daily sync comes to an end, though a sync of an administrator may undo
\* part of what it does.
DailySyncEnds ==
    \A o \in Daily : op[o].pc # "idle" ~> op[o].pc = "idle"
=============================================================================
