--------------------------- MODULE FestivalIngest ---------------------------
(***************************************************************************)
(* How festivals become pins (FestivalEventIngestService,                  *)
(* FestivalPinService, festival_pin_transform, fetch_visitkorea).  Every   *)
(* step is a request of its own: collect festivals from TourAPI into the   *)
(* documents file, transform a page of them by the LLM into the handoff,   *)
(* import handoff rows as pins or update their pins, publish their         *)
(* positions in Redis, reset the files.  Nothing keeps two requests apart. *)
(*                                                                         *)
(* A document is identified by its content id; of its content only the     *)
(* text matters: "full", or "bare" when TourAPI gave no details and the    *)
(* title stands in for them.  A file maps ids to contents, or to None.     *)
(* The order of its rows, which decides what a page or a batch contains,   *)
(* is left open.                                                           *)
(***************************************************************************)
EXTENDS Naturals, FiniteSets

CONSTANTS
    Festivals,  \* the content ids TourAPI lists
    PageOf,     \* the page of its list each of them is on
    LastPage,   \* the last page that has entries, as the total count tells or as one short
    AreaOf,     \* the area of each, once its details are known
    Unplaced,   \* those whose list entry tells no area
    Requests,   \* request slots: how many requests are handled at once
    Kinds,      \* what each slot may be asked to do
    Size,       \* the rows of a page, and of a batch
    None,
    Patchy,     \* the festivals whose details TourAPI may fail to give
    Faults      \* "api", "llm", "row", "commit", "unknown", "redis", "crash"

Raw == {"bare", "full"}
AllKinds == {"fetch", "search", "transform", "import", "reset"}

ASSUME FestivalAssumption ==
    /\ IsFiniteSet(Festivals) /\ IsFiniteSet(Requests)
    /\ LastPage \in Nat
    /\ PageOf \in [Festivals -> 1..LastPage]
    /\ DOMAIN AreaOf = Festivals
    /\ Unplaced \cup Patchy \subseteq Festivals
    /\ Kinds \in [Requests -> SUBSET AllKinds]
    /\ Size \in Nat \ {0}
    /\ None \notin Raw \cup Festivals

VARIABLES
    documents,  \* festival_documents.jsonl
    handoff,    \* festival_pins_for_db.jsonl
    pins,       \* the text of each committed pin
    images,     \* its committed pin_image rows, as groups [of, no, raw] inserted together
    cache,      \* the row its position and details in Redis come from
    req,        \* the state of each request
    \* what really happened
    orderly     \* no two imports were under way together, and none committed without publishing

vars == <<documents, handoff, pins, images, cache, req, orderly>>

Empty == [f \in Festivals |-> None]

Idle == [kind |-> "none", pc |-> "idle", only |-> {}, room |-> 0, page |-> 0,
         update |-> FALSE, copy |-> Empty, dirty |-> FALSE, work |-> {}, row |-> None,
         seen |-> {}, draft |-> Empty, gone |-> {}]

Init ==
    /\ documents = Empty /\ handoff = Empty /\ pins = Empty /\ cache = Empty
    /\ images = [f \in Festivals |-> {}]
    /\ req = [r \in Requests |-> Idle]
    /\ orderly = TRUE

\* What tells apart the groups of images a festival has, or had in somebody's eyes.
Numbers == 1..(2 * Cardinality(Requests) + 1)

Known(file) == {f \in Festivals : file[f] # None}

\* row_matches_area_filter: the area of a request, or none.
Filters == {Festivals} \cup {{f \in Festivals : AreaOf[f] = a} : a \in {AreaOf[g] : g \in Festivals}}

\* A write of the documents falsifies the copies that others hold.
OthersAreDirty(r) ==
    [s \in Requests |-> IF s # r /\ req[s].kind = "fetch" THEN [req[s] EXCEPT !.dirty = TRUE] ELSE req[s]]

SaveDocuments(r, file, next) ==
    /\ documents' = file
    /\ req' = [(IF file = documents THEN req ELSE OthersAreDirty(r)) EXCEPT ![r] = next]

Database == <<pins, images>>
-----------------------------------------------------------------------------
(* Collecting *)

\* a variant: the documents on file are not loaded
StartFetchEmpty(r) ==
    /\ req[r] = Idle /\ "fetch" \in Kinds[r]
    /\ \E only \in Filters, limit \in 1..Cardinality(Festivals) :
         req' = [req EXCEPT ![r] = [Idle EXCEPT !.kind = "fetch", !.pc = "page", !.only = only,
                                                !.room = limit, !.page = 1]]
    /\ UNCHANGED <<documents, handoff, cache, Database, orderly>>

\* fetch_and_save, fetch_year_and_save: load the documents, then go through the
\* pages until the list ends or `limit' documents were added.
StartFetch(r) ==
    /\ req[r] = Idle /\ "fetch" \in Kinds[r]
    /\ \E only \in Filters, limit \in 1..Cardinality(Festivals) :
         req' = [req EXCEPT ![r] = [Idle EXCEPT !.kind = "fetch", !.pc = "page", !.only = only,
                                                !.room = limit, !.page = 1, !.copy = documents]]
    /\ UNCHANGED <<documents, handoff, cache, Database, orderly>>

\* search_and_save collects from nothing, and so does the nightly script.
StartSearch(r) ==
    /\ req[r] = Idle /\ "search" \in Kinds[r]
    /\ \E limit \in 1..Cardinality(Festivals) :
         req' = [req EXCEPT ![r] = [Idle EXCEPT !.kind = "search", !.pc = "page", !.only = Festivals,
                                                !.room = limit, !.page = 1]]
    /\ UNCHANGED <<documents, handoff, cache, Database, orderly>>

\* The entries of a page that are taken: unknown so far, and of the area, which
\* must be told by the entry itself when a filter is set.
Wanted(r) ==
    {f \in Festivals : /\ PageOf[f] = req[r].page
                       /\ req[r].copy[f] = None
                       /\ f \in req[r].only
                       /\ req[r].only # Festivals => f \notin Unplaced}

\* What the details of a festival may turn out to be.
Details(f) == IF f \in Patchy THEN Raw ELSE {"full"}

\* One page: list it, ask for the details of each new entry, all failures of which
\* are swallowed, and build its row.  The entries after the limit are left out.
TakenSets(r) ==
    IF Cardinality(Wanted(r)) <= req[r].room
    THEN {Wanted(r)}
    ELSE {new \in SUBSET Wanted(r) : Cardinality(new) = req[r].room}

PagesRead(r) ==
    {[copy |-> [f \in Festivals |-> IF f \in new THEN got[f] ELSE req[r].copy[f]],
      room |-> req[r].room - Cardinality(new)] :
        new \in TakenSets(r), got \in {d \in [Festivals -> Raw] : \A f \in Festivals : d[f] \in Details(f)}}

AfterPage(r, page) ==
    IF page.room = 0 \/ req[r].page >= LastPage
    THEN Idle
    ELSE [req[r] EXCEPT !.copy = page.copy, !.room = page.room, !.page = @ + 1, !.dirty = FALSE]

\* fetch_and_save writes all it knows after every page, ...
AfterFetch(r, page) ==
    IF AfterPage(r, page) = Idle
    THEN [Idle EXCEPT !.kind = "fetch", !.pc = "close", !.copy = page.copy] ELSE AfterPage(r, page)

FetchPage(r) ==
    /\ req[r].kind = "fetch" /\ req[r].pc = "page"
    /\ \E page \in PagesRead(r) : SaveDocuments(r, page.copy, AfterFetch(r, page))
    /\ UNCHANGED <<handoff, cache, Database, orderly>>

\* ... and once more when it has closed the client, before which it may have asked for a
\* page that was empty.
FetchEnd(r) ==
    /\ req[r].kind = "fetch" /\ req[r].pc = "close"
    /\ SaveDocuments(r, req[r].copy, Idle)
    /\ UNCHANGED <<handoff, cache, Database, orderly>>

\* A list that cannot be read ends the fetch; the pages before stay.
FetchFails(r) ==
    /\ "api" \in Faults
    /\ req[r].kind = "fetch"
    /\ req' = [req EXCEPT ![r] = Idle]
    /\ UNCHANGED <<documents, handoff, cache, Database, orderly>>

\* fetch_festival_documents, with the one write of search_and_save at the end: a page
\* that reports failure ends the loop as the last page does.
SearchPage(r) ==
    /\ req[r].kind = "search" /\ req[r].pc = "page"
    /\ \E page \in PagesRead(r) :
         IF AfterPage(r, page) = Idle
         THEN SaveDocuments(r, page.copy, Idle)
         ELSE /\ req' = [req EXCEPT ![r] = AfterPage(r, page)]
              /\ UNCHANGED documents
    /\ UNCHANGED <<handoff, cache, Database, orderly>>

SearchBreaks(r) ==
    /\ "api" \in Faults
    /\ req[r].kind = "search" /\ req[r].pc = "page"
    /\ SaveDocuments(r, req[r].copy, Idle)
    /\ UNCHANGED <<handoff, cache, Database, orderly>>

\* reset_festival_dedup_cache deletes both files; the database stays.
Reset(r) ==
    /\ req[r] = Idle /\ "reset" \in Kinds[r]
    /\ SaveDocuments(r, Empty, Idle)
    /\ handoff' = Empty
    /\ UNCHANGED <<cache, Database, orderly>>
-----------------------------------------------------------------------------
(* Transforming *)

\* list_pending_transform_rows: not in the handoff, or in it with another text.
Pending(only) == {f \in only : documents[f] # None /\ documents[f] # handoff[f]}

\* transform_documents_batch reads both files and hands a page of what is pending to
\* the LLM.  Without documents it refuses; with nothing pending it writes the handoff
\* back as it is.
StartTransform(r) ==
    /\ req[r] = Idle /\ "transform" \in Kinds[r]
    /\ \E only \in Filters : \E rows \in SUBSET Pending(only) :
         /\ rows # {}
         /\ Cardinality(rows) <= Size
         /\ req' = [req EXCEPT ![r] = [Idle EXCEPT !.kind = "transform", !.pc = "llm", !.copy = handoff,
                       !.draft = [f \in Festivals |-> IF f \in rows THEN documents[f] ELSE None]]]
    /\ UNCHANGED <<documents, handoff, cache, Database, orderly>>

\* All rows have been answered or have failed: the handoff is written with the former.
Transform(r) ==
    /\ req[r].pc = "llm"
    /\ \E good \in SUBSET Known(req[r].draft) :
         /\ "llm" \notin Faults => good = Known(req[r].draft)
         /\ handoff' = [f \in Festivals |-> IF f \in good THEN req[r].draft[f] ELSE req[r].copy[f]]
    /\ req' = [req EXCEPT ![r] = Idle]
    /\ UNCHANGED <<documents, cache, Database, orderly>>
-----------------------------------------------------------------------------
(* Importing *)

Importing(r) == req[r].kind = "import"

\* _import_handoff_rows reads the handoff, and refuses without one.
StartImport(r) ==
    /\ req[r] = Idle /\ "import" \in Kinds[r]
    /\ Known(handoff) # {}
    /\ \E only \in Filters, update \in BOOLEAN, limit \in {Size, Cardinality(Festivals)} :
         req' = [req EXCEPT ![r] = [Idle EXCEPT !.kind = "import", !.pc = "ids", !.only = only,
                                                !.room = limit, !.update = update, !.copy = handoff]]
    /\ orderly' = (orderly /\ \A s \in Requests : ~Importing(s))
    /\ UNCHANGED <<documents, handoff, cache, Database>>

\* Then the ids that are imported already: the rows to go through are those without a
\* pin, or all of them for an update, up to batch_size (import-all: no limit).
ReadIds(r) ==
    /\ req[r].pc = "ids"
    /\ LET rows == {f \in req[r].only \cap Known(req[r].copy) : pins[f] = None \/ req[r].update}
       IN \E work \in SUBSET rows :
            /\ Cardinality(work) = IF Cardinality(rows) <= req[r].room THEN Cardinality(rows) ELSE req[r].room
            /\ req' = [req EXCEPT ![r].pc = "rows", ![r].work = work, ![r].only = {}, ![r].room = 0,
                     ![r].copy = [f \in Festivals |-> IF f \in work THEN req[r].copy[f] ELSE None]]
    /\ UNCHANGED <<documents, handoff, cache, Database, orderly>>

\* get_by_festival_api_id decides between INSERT and UPDATE; a row that got its pin
\* since the ids were read is passed over unless updates are allowed.  Then the core
\* is asked for the location.
PickRow(r) ==
    /\ req[r].pc = "rows"
    /\ \E f \in req[r].work :
         req' = [req EXCEPT ![r].work = @ \ {f},
                   ![r].row = IF pins[f] = None \/ req[r].update THEN f ELSE None,
                   ![r].copy[f] = IF pins[f] = None \/ req[r].update THEN @ ELSE None,
                   ![r].pc = IF pins[f] = None THEN "insert"
                             ELSE IF req[r].update THEN "update" ELSE "rows"]
    /\ UNCHANGED <<documents, handoff, cache, Database, orderly>>

\* What an uncommitted import has written of a festival: a new row with its unique
\* festival_api_id, or an updated one.  Another transaction that writes the same waits.
Holds(s, f) == Importing(s) /\ req[s].pc # "publish" /\ req[s].draft[f] # None

Held(f, r) == \E s \in Requests \ {r} : Holds(s, f)

\* _insert_festival_pin: pin, event pin, location and images in one savepoint.
Insert(r) ==
    LET f == req[r].row IN
    /\ req[r].pc = "insert"
    /\ ~Held(f, r)
    /\ pins[f] = None
    /\ req' = [req EXCEPT ![r].draft[f] = req[r].copy[f], ![r].copy[f] = None, ![r].row = None, ![r].pc = "rows"]
    /\ UNCHANGED <<documents, handoff, cache, Database, orderly>>

\* a variant: no row is written when text and location are what they were
UpdateRowsIfChanged(r) ==
    LET f == req[r].row IN
    /\ req[r].pc = "update"
    /\ req[r].copy[f] = pins[f] \/ ~Held(f, r)
    /\ req' = [req EXCEPT ![r].draft[f] = req[r].copy[f], ![r].copy[f] = None, ![r].pc = "delete"]
    /\ UNCHANGED <<documents, handoff, cache, Database, orderly>>

\* _update_festival_pin: the flushes before the images.  The location is always
\* written, its new point never compares equal to the loaded one; so the rows of the
\* pin are locked from here on.
UpdateRows(r) ==
    LET f == req[r].row IN
    /\ req[r].pc = "update"
    /\ ~Held(f, r)
    /\ req' = [req EXCEPT ![r].draft[f] = req[r].copy[f], ![r].copy[f] = None, ![r].pc = "delete"]
    /\ UNCHANGED <<documents, handoff, cache, Database, orderly>>

\* delete_by_pin_id: DELETE sees the rows committed when it starts; it waits for a row
\* that another transaction has deleted, and passes over it if that one commits.
SeeImages(r) ==
    /\ req[r].pc = "delete"
    /\ req' = [req EXCEPT ![r].seen = images[req[r].row], ![r].pc = "images"]
    /\ UNCHANGED <<documents, handoff, cache, Database, orderly>>

ReplaceImages(r) ==
    LET f == req[r].row IN
    /\ req[r].pc = "images"
    /\ \A s \in Requests \ {r} : req[r].seen \cap req[s].gone = {}
    /\ req' = [req EXCEPT ![r].gone = @ \cup (req[r].seen \cap images[f]), ![r].seen = {},
                               ![r].row = None, ![r].pc = "rows"]
    /\ UNCHANGED <<documents, handoff, cache, Database, orderly>>
-----------------------------------------------------------------------------
(* The end of an import *)

WaitsFor(r, s) ==
    \/ req[r].pc \in {"insert", "update"} /\ Holds(s, req[r].row)
    \/ req[r].pc = "images" /\ req[r].seen \cap req[s].gone # {}

Deadlocked(r) ==
    \E set \in SUBSET Requests :
      r \in set /\ \A s \in set : \E t, u \in set \ {s} : WaitsFor(s, t) /\ WaitsFor(u, s)

\* The savepoint of a row takes back what was written of it; the loop goes on.
RowEnds(r) ==
    LET f == req[r].row IN
    /\ req' = [req EXCEPT ![r].draft[f] = None, ![r].copy[f] = None, ![r].seen = {}, ![r].row = None, ![r].pc = "rows"]
    /\ UNCHANGED <<documents, handoff, cache, Database, orderly>>

\* The row turns out to be unique no more, or PostgreSQL breaks a deadlock.
RowFails(r) ==
    /\ req[r].pc \in {"insert", "update", "delete", "images"}
    /\ \/ req[r].pc = "insert" /\ pins[req[r].row] # None
       \/ Deadlocked(r)
    /\ RowEnds(r)

\* No location can be found, or the database refuses the row.
RowRefused(r) ==
    /\ "row" \in Faults
    /\ req[r].pc \in {"insert", "update", "delete", "images"}
    /\ RowEnds(r)

Drafted(r) == Known(req[r].draft)

\* The key of a new group of images, which no transaction refers to.
FreeNumber(f, r) ==
    LET taken == (images[f] \ req[r].gone) \cup UNION {req[s].seen \cup req[s].gone : s \in Requests \ {r}}
    IN CHOOSE n \in Numbers : \A g \in taken : g.of = f => g.no # n

Committed(r) ==
    /\ pins' = [f \in Festivals |-> IF f \in Drafted(r) THEN req[r].draft[f] ELSE pins[f]]
    /\ images' = [f \in Festivals |->
         IF f \in Drafted(r)
         THEN (images[f] \ req[r].gone) \cup {[of |-> f, no |-> FreeNumber(f, r), raw |-> req[r].draft[f]]}
         ELSE images[f]]

\* One commit for all rows.
Commit(r) ==
    /\ req[r].pc = "rows" /\ req[r].work = {}
    /\ Committed(r)
    /\ req' = [req EXCEPT ![r] = [Idle EXCEPT !.kind = "import", !.pc = "publish", !.draft = req[r].draft]]
    /\ UNCHANGED <<documents, handoff, cache, orderly>>

\* The commit fails, or fails to be answered: the route rolls back and nothing is published.
CommitFails(r) ==
    /\ req[r].pc = "rows" /\ req[r].work = {}
    /\ \/ "commit" \in Faults /\ UNCHANGED <<Database, orderly>>
       \/ "unknown" \in Faults /\ Committed(r) /\ orderly' = FALSE
    /\ req' = [req EXCEPT ![r] = Idle]
    /\ UNCHANGED <<documents, handoff, cache>>

\* a variant: only new pins are published
PublishNew(r) ==
    /\ req[r].pc = "publish"
    /\ cache' = [f \in Festivals |-> IF f \in Drafted(r) /\ cache[f] = None THEN req[r].draft[f] ELSE cache[f]]
    /\ req' = [req EXCEPT ![r] = Idle]
    /\ UNCHANGED <<documents, handoff, Database, orderly>>

\* add_pins_batch: position and details of every row, in one pipeline.
Publish(r) ==
    /\ req[r].pc = "publish"
    /\ cache' = [f \in Festivals |-> IF f \in Drafted(r) THEN req[r].draft[f] ELSE cache[f]]
    /\ req' = [req EXCEPT ![r] = Idle]
    /\ UNCHANGED <<documents, handoff, Database, orderly>>

\* Redis fails somewhere in the pipeline, which is logged and forgotten.
PublishFails(r) ==
    /\ "redis" \in Faults
    /\ req[r].pc = "publish"
    /\ \E done \in SUBSET Drafted(r) :
         cache' = [f \in Festivals |-> IF f \in done THEN req[r].draft[f] ELSE cache[f]]
    /\ orderly' = FALSE
    /\ req' = [req EXCEPT ![r] = Idle]
    /\ UNCHANGED <<documents, handoff, Database>>

\* The process dies: open transactions are rolled back, the files stay as they are.
Crash ==
    /\ "crash" \in Faults
    /\ \E r \in Requests : req[r] # Idle
    /\ orderly' = (orderly /\ \A r \in Requests : req[r].pc # "publish")
    /\ req' = [r \in Requests |-> Idle]
    /\ UNCHANGED <<documents, handoff, cache, Database>>
-----------------------------------------------------------------------------
Start(r) == StartFetch(r) \/ StartSearch(r) \/ StartTransform(r) \/ StartImport(r) \/ Reset(r)

\* What a request does of itself, and what fails under it.
Step(r) ==
    \/ FetchPage(r) \/ FetchEnd(r) \/ SearchPage(r) \/ Transform(r)
    \/ ReadIds(r) \/ PickRow(r) \/ Insert(r) \/ UpdateRows(r) \/ SeeImages(r) \/ ReplaceImages(r)
    \/ RowFails(r) \/ Commit(r) \/ Publish(r)

Fault(r) == FetchFails(r) \/ SearchBreaks(r) \/ RowRefused(r) \/ CommitFails(r) \/ PublishFails(r)

Next ==
    \/ \E r \in Requests : Start(r) \/ Step(r) \/ Fault(r)
    \/ Crash

Spec == Init /\ [][Next]_vars
-----------------------------------------------------------------------------
File == [Festivals -> Raw \cup {None}]
Groups == [of : Festivals, no : Numbers, raw : Raw]

RequestStates ==
    [kind : AllKinds \cup {"none"},
     pc : {"idle", "page", "close", "llm", "ids", "rows", "insert", "update", "delete", "images", "publish"},
     only : SUBSET Festivals, room : Nat, page : Nat, update : BOOLEAN,
     copy : File, dirty : BOOLEAN, work : SUBSET Festivals, row : Festivals \cup {None},
     seen : SUBSET Groups, draft : File, gone : SUBSET Groups]

TypeOK ==
    /\ documents \in File /\ handoff \in File /\ pins \in File /\ cache \in File
    /\ images \in [Festivals -> SUBSET Groups]
    /\ orderly \in BOOLEAN
    /\ req \in [Requests -> RequestStates]

\* A pin's images are those of the row its text comes from, inserted once, whatever
\* imports and updates overlap (_insert_festival_pin, _update_festival_pin).
ImagesAreOfTheText ==
    \A f \in Festivals :
      IF pins[f] = None THEN images[f] = {}
      ELSE \E n \in Numbers : images[f] = {[of |-> f, no |-> n, raw |-> pins[f]]}

\* Redis shows nothing that is not in the database (_import_handoff_rows publishes
\* after the commit, and only rows whose savepoint was released).
CacheShowsPins == \A f \in Festivals : cache[f] # None => pins[f] # None

\* Unless imports overlapped or a publication was lost, Redis shows what the database
\* holds once no import is about to publish.
SerialCacheIsCurrent ==
    \/ ~orderly
    \/ \E r \in Requests : req[r].pc = "publish"
    \/ \A f \in Festivals : cache[f] = pins[f]

\* fetch_and_save only adds: while it runs every document stays as it is, unless
\* somebody else has written the file since the page before.
FetchKeepsDocuments ==
    [][\A r \in Requests : req[r].kind = "fetch" /\ ~req[r].dirty /\ ~req'[r].dirty
         => \A f \in Known(documents) : documents'[f] = documents[f]]_vars
=============================================================================
