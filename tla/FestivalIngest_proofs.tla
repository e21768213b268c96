------------------------ MODULE FestivalIngest_proofs ------------------------
(***************************************************************************)
(* Festivals and their pins, for any number of festivals, pages and        *)
(* overlapping requests, and every fault: the images of a pin are of its   *)
(* text, Redis shows nothing that is not in the database, and a fetch      *)
(* keeps the documents it found.                                           *)
(***************************************************************************)
EXTENDS FestivalIngest, FiniteSetTheorems, TLAPS

ImportSteps == {"ids", "rows", "insert", "update", "delete", "images", "publish"}

\* A request is at a step of its kind; only an import has seen, or deleted, images.
StepsInv ==
    \A r \in Requests :
        /\ req[r].pc \in ImportSteps <=> Importing(r)
        /\ req[r].kind = "fetch" => req[r].pc \in {"page", "close"}
        /\ req[r].pc \in {"insert", "update", "delete", "images"} =>
             req[r].row \in Festivals /\ req[r].row \notin req[r].work
        /\ req[r].pc # "images" => req[r].seen = {}
        /\ req[r].pc \notin ImportSteps \ {"ids", "publish"} => req[r].gone = {}

\* A festival is written by one uncommitted import at a time.
LocksInv == \A f \in Festivals : \A r, s \in Requests : Holds(r, f) /\ Holds(s, f) => r = s

\* An import sees the images of the festival it is at, has deleted only those of festivals it
\* is done with, and of no festival more than one group.
GroupsInv ==
    \A r \in Requests :
        /\ \A g \in req[r].seen : g.of = req[r].row
        /\ \A g \in req[r].gone :
             /\ g.of \notin req[r].work
             /\ req[r].pc \in {"insert", "update", "delete", "images"} => g.of # req[r].row
        /\ \A g, h \in req[r].seen \cup req[r].gone : g.of = h.of => g.no = h.no

\* What an import has written of a festival replaces all its images, or is about to.
ReplacedInv ==
    \A r \in Requests : \A f \in Festivals :
        Holds(r, f) =>
          \/ images[f] \subseteq req[r].gone
          \/ req[r].row = f /\ req[r].pc = "delete"
          \/ req[r].row = f /\ req[r].pc = "images" /\ req[r].seen = images[f]

FestivalInv == TypeOK /\ StepsInv /\ LocksInv /\ GroupsInv /\ ReplacedInv /\ ImagesAreOfTheText

\* What is about to be published is in the database.
PublishInv ==
    \A r \in Requests : \A f \in Festivals :
        req[r].pc = "publish" /\ req[r].draft[f] # None => pins[f] # None

\* While imports do not overlap, Redis lacks only what one is about to publish.
CurrentInv ==
    orderly =>
      /\ \A r, s \in Requests : Importing(r) /\ Importing(s) => r = s
      /\ \A f \in Festivals :
           \/ cache[f] = pins[f]
           \/ \E r \in Requests : req[r].pc = "publish" /\ req[r].draft[f] # None
      /\ \A r \in Requests : \A f \in Festivals :
           req[r].pc = "publish" /\ req[r].draft[f] # None => pins[f] = req[r].draft[f]

\* A fetch knows the documents on file, unless somebody else has written it.
CopyInv ==
    \A r \in Requests :
        req[r].kind = "fetch" /\ ~ req[r].dirty =>
          \A f \in Known(documents) : req[r].copy[f] = documents[f]
-----------------------------------------------------------------------------
(* The types *)

\* What is done to the requests when a file is saved: the others at most become dirty.
Alike(s) ==
    /\ req'[s] = [req[s] EXCEPT !.dirty = req'[s].dirty]
    /\ req'[s].dirty \in {req[s].dirty, TRUE}

\* A request that does nothing is of the declared type.
LEMMA IdleType == Idle \in RequestStates /\ Empty \in File
  BY FestivalAssumption DEF Idle, Empty, RequestStates, File, AllKinds

\* SaveDocuments: the file is the new one, the request goes on, and the others know as
\* much as before; a fetch that is not dirty yet knows that nothing has changed.
LEMMA Saved ==
    ASSUME TypeOK, NEW r \in Requests, NEW file \in File, NEW next \in RequestStates,
           SaveDocuments(r, file, next)
    PROVE  /\ documents' = file
           /\ req' \in [Requests -> RequestStates]
           /\ req'[r] = next
           /\ \A s \in Requests \ {r} : Alike(s)
           /\ \A s \in Requests \ {r} : req[s].kind = "fetch" /\ ~ req'[s].dirty => documents' = documents
  <1>1. documents' = file /\ req'[r] = next
    BY DEF SaveDocuments, TypeOK, OthersAreDirty
  <1>2. CASE file = documents
    <2>1. req' = [req EXCEPT ![r] = next]
      BY <1>2 DEF SaveDocuments
    <2>2. \A s \in Requests \ {r} : req'[s] = req[s]
      BY <2>1 DEF TypeOK
    <2>3. \A s \in Requests \ {r} : Alike(s)
      BY <2>2 DEF Alike, TypeOK, RequestStates
    <2>. QED BY <1>1, <1>2, <2>1, <2>3 DEF TypeOK
  <1>3. CASE file # documents
    <2>1. req' = [OthersAreDirty(r) EXCEPT ![r] = next]
      BY <1>3 DEF SaveDocuments
    <2>2. \A s \in Requests \ {r} :
            req'[s] = IF req[s].kind = "fetch" THEN [req[s] EXCEPT !.dirty = TRUE] ELSE req[s]
      BY <2>1 DEF OthersAreDirty
    <2>3. \A s \in Requests \ {r} : Alike(s) /\ req'[s] \in RequestStates
      <3>1. ASSUME NEW s \in Requests \ {r}, req[s].kind = "fetch"
            PROVE  Alike(s) /\ req'[s] \in RequestStates
        <4>1. req'[s] = [req[s] EXCEPT !.dirty = TRUE] /\ req[s] \in RequestStates
          BY <2>2, <3>1 DEF TypeOK
        <4>2. req'[s].dirty = TRUE /\ req'[s] \in RequestStates
          BY <4>1 DEF RequestStates
        <4>. QED BY <4>1, <4>2 DEF Alike
      <3>2. ASSUME NEW s \in Requests \ {r}, req[s].kind # "fetch"
            PROVE  Alike(s) /\ req'[s] \in RequestStates
        <4>1. req'[s] = req[s] /\ req[s] \in RequestStates
          BY <2>2, <3>2 DEF TypeOK
        <4>. QED BY <4>1 DEF Alike, RequestStates
      <3>. QED BY <3>1, <3>2
    <2>4. DOMAIN req' = Requests /\ req' = [s \in Requests |-> req'[s]]
      BY <2>1 DEF OthersAreDirty
    <2>5. \A s \in Requests \ {r} : req[s].kind = "fetch" => req'[s].dirty
      BY <2>2 DEF TypeOK, RequestStates
    <2>. QED BY <1>1, <2>3, <2>4, <2>5
  <1>. QED BY <1>2, <1>3

\* PagesRead: a page adds to what the request knows, and takes from its room.
LEMMA PageAdds ==
    ASSUME TypeOK, NEW r \in Requests, NEW page \in PagesRead(r)
    PROVE  /\ page.copy \in File /\ page.room \in Nat
           /\ \A f \in Festivals : req[r].copy[f] # None => page.copy[f] = req[r].copy[f]
  <1>1. PICK new \in TakenSets(r), got \in [Festivals -> Raw] :
          page = [copy |-> [f \in Festivals |-> IF f \in new THEN got[f] ELSE req[r].copy[f]],
                  room |-> req[r].room - Cardinality(new)]
    BY DEF PagesRead
  <1>2. req[r].copy \in File /\ req[r].room \in Nat
    BY DEF TypeOK, RequestStates
  <1>3. new \in SUBSET Wanted(r) /\ Cardinality(new) <= req[r].room
    BY <1>2 DEF TakenSets
  <1>4. IsFiniteSet(new)
    <2>1. new \in SUBSET Festivals
      BY <1>3 DEF Wanted
    <2>. QED BY <2>1, FS_Subset, FestivalAssumption
  <1>5. Cardinality(new) \in Nat
    BY <1>4, FS_CardinalityType
  <1>6. page.room = req[r].room - Cardinality(new)
    BY <1>1
  <1>7. page.room \in Nat
    BY <1>2, <1>3, <1>5, <1>6
  <1>8. page.copy = [f \in Festivals |-> IF f \in new THEN got[f] ELSE req[r].copy[f]]
    BY <1>1
  <1>9. page.copy \in File
    BY <1>2, <1>8 DEF File
  <1>10. \A f \in new : req[r].copy[f] = None
    BY <1>3 DEF Wanted
  <1>. QED BY <1>7, <1>8, <1>9, <1>10

\* AfterPage: a request that read a page is done, or goes on with what it knows.
LEMMA AfterPageType ==
    ASSUME TypeOK, NEW r \in Requests, NEW page \in PagesRead(r)
    PROVE  /\ AfterPage(r, page) \in RequestStates
           /\ \/ AfterPage(r, page) = Idle
              \/ /\ AfterPage(r, page) =
                     [req[r] EXCEPT !.copy = page.copy, !.room = page.room, !.page = @ + 1, !.dirty = FALSE]
                 /\ AfterPage(r, page).copy = page.copy
                 /\ AfterPage(r, page).kind = req[r].kind
                 /\ AfterPage(r, page).pc = req[r].pc
                 /\ AfterPage(r, page).seen = req[r].seen
                 /\ AfterPage(r, page).gone = req[r].gone
                 /\ AfterPage(r, page).row = req[r].row
                 /\ AfterPage(r, page).work = req[r].work
                 /\ AfterPage(r, page).draft = req[r].draft
  <1>1. page.copy \in File /\ page.room \in Nat
    BY PageAdds
  <1>2. req[r] \in RequestStates
    BY DEF TypeOK
  <1>3. CASE AfterPage(r, page) = Idle
    BY <1>3, IdleType
  <1>4. CASE AfterPage(r, page) # Idle
    <2>1. AfterPage(r, page) = [req[r] EXCEPT !.copy = page.copy, !.room = page.room, !.page = @ + 1,
                                             !.dirty = FALSE]
      BY <1>4 DEF AfterPage
    <2>2. req[r].page + 1 \in Nat
      BY <1>2 DEF RequestStates
    <2>3. AfterPage(r, page) \in RequestStates
      BY <1>1, <1>2, <2>1, <2>2 DEF RequestStates
    <2>. QED BY <1>2, <2>1, <2>3 DEF RequestStates
  <1>. QED BY <1>3, <1>4

\* AfterFetch: a fetch goes on, or is about to close, with what it has written.
LEMMA AfterFetchType ==
    ASSUME TypeOK, NEW r \in Requests, NEW page \in PagesRead(r)
    PROVE  /\ AfterFetch(r, page) \in RequestStates
           /\ AfterFetch(r, page).copy = page.copy
           /\ \/ AfterFetch(r, page) = AfterPage(r, page) /\ AfterPage(r, page) # Idle
              \/ AfterFetch(r, page) = [Idle EXCEPT !.kind = "fetch", !.pc = "close", !.copy = page.copy]
  <1>1. page.copy \in File
    BY PageAdds
  <1>2. CASE AfterPage(r, page) = Idle
    <2>. DEFINE next == [Idle EXCEPT !.kind = "fetch", !.pc = "close", !.copy = page.copy]
    <2>1. AfterFetch(r, page) = next
      BY <1>2 DEF AfterFetch
    <2>2. next \in RequestStates /\ next.copy = page.copy
      BY <1>1, IdleType DEF Idle, RequestStates, AllKinds
    <2>. QED BY <2>1, <2>2
  <1>3. CASE AfterPage(r, page) # Idle
    BY <1>3, AfterPageType DEF AfterFetch
  <1>. QED BY <1>2, <1>3

-----------------------------------------------------------------------------
(* Collecting and transforming: no import is touched *)

\* A request as far as imports are concerned.
Import(p) == <<p.kind, p.pc, p.row, p.work, p.seen, p.gone, p.draft>>

NoImport(p) ==
    /\ p.kind # "import" /\ p.pc \notin ImportSteps /\ p.seen = {} /\ p.gone = {}
    /\ p.kind = "fetch" => p.pc \in {"page", "close"}

QuietStep ==
    /\ UNCHANGED <<Database, cache, orderly>>
    /\ \A s \in Requests : Import(req'[s]) = Import(req[s]) \/ (NoImport(req[s]) /\ NoImport(req'[s]))

CollectingStep(r) ==
    StartFetch(r) \/ StartSearch(r) \/ FetchPage(r) \/ FetchEnd(r) \/ FetchFails(r) \/ SearchPage(r) \/ SearchBreaks(r)
    \/ Reset(r) \/ StartTransform(r) \/ Transform(r)

\* The limits a request may give are numbers.
LEMMA LimitType == \A limit \in 1..Cardinality(Festivals) : limit \in Nat
  <1>1. Cardinality(Festivals) \in Nat
    BY FS_CardinalityType, FestivalAssumption
  <1>. QED BY <1>1

\* A filter is a set of festivals.
LEMMA FilterType == \A only \in Filters : only \in SUBSET Festivals
  BY DEF Filters

\* A request that starts, or that ends, is of its type, and the others are as they were.
LEMMA Moved ==
    ASSUME TypeOK, NEW r \in Requests, NEW next \in RequestStates, req' = [req EXCEPT ![r] = next]
    PROVE  /\ req' \in [Requests -> RequestStates]
           /\ req'[r] = next
           /\ \A s \in Requests \ {r} : req'[s] = req[s]
  BY DEF TypeOK

\* If a request that is no import moves, the imports do not.
LEMMA QuietlyMoved ==
    ASSUME NEW r \in Requests, NoImport(req[r]), NoImport(req'[r]),
           \A s \in Requests \ {r} : req'[s] = req[s], UNCHANGED <<Database, cache, orderly>>
    PROVE  QuietStep
  <1>1. ASSUME NEW s \in Requests
        PROVE  Import(req'[s]) = Import(req[s]) \/ (NoImport(req[s]) /\ NoImport(req'[s]))
    <2>1. CASE s = r
      BY <2>1
    <2>2. CASE s # r
      <3>1. req'[s] = req[s]
        BY <2>2
      <3>. QED BY <3>1 DEF Import
    <2>. QED BY <2>1, <2>2
  <1>. QED BY <1>1 DEF QuietStep

\* What a request that collects or transforms looks like to the imports.
LEMMA NoImportStates ==
    ASSUME TypeOK, StepsInv, NEW r \in Requests, req[r].pc \notin ImportSteps
    PROVE  NoImport(req[r]) /\ NoImport(Idle)
  BY DEF TypeOK, RequestStates, StepsInv, NoImport, Idle, Importing, ImportSteps

\* Who saves a file without being an import touches none.
LEMMA SavedQuietly ==
    ASSUME TypeOK, StepsInv, NEW r \in Requests, req[r].pc \notin ImportSteps,
           NEW file \in File, NEW next \in RequestStates, NoImport(next),
           SaveDocuments(r, file, next), UNCHANGED <<Database, cache, orderly>>
    PROVE  QuietStep
  <1>1. req'[r] = next /\ \A s \in Requests \ {r} : Alike(s)
    BY Saved
  <1>2. \A s \in Requests \ {r} : Import(req'[s]) = Import(req[s])
    <2>. SUFFICES ASSUME NEW s \in Requests \ {r}
         PROVE  Import(req'[s]) = Import(req[s])
      OBVIOUS
    <2>1. req[s] \in RequestStates /\ req'[s] = [req[s] EXCEPT !.dirty = req'[s].dirty]
      BY <1>1 DEF Alike, TypeOK
    <2>2. /\ req'[s].kind = req[s].kind /\ req'[s].pc = req[s].pc /\ req'[s].row = req[s].row
          /\ req'[s].work = req[s].work /\ req'[s].seen = req[s].seen /\ req'[s].gone = req[s].gone
          /\ req'[s].draft = req[s].draft
      BY <2>1 DEF RequestStates
    <2>. QED BY <2>2 DEF Import
  <1>3. NoImport(req[r]) /\ NoImport(req'[r])
    BY <1>1, NoImportStates
  <1>4. ASSUME NEW s \in Requests
        PROVE  Import(req'[s]) = Import(req[s]) \/ (NoImport(req[s]) /\ NoImport(req'[s]))
    <2>1. CASE s = r
      BY <1>3, <2>1
    <2>2. CASE s # r
      BY <1>2, <2>2
    <2>. QED BY <2>1, <2>2
  <1>. QED BY <1>4 DEF QuietStep

\* The actions that collect and transform keep the types and do not touch imports.
LEMMA StartsCollecting ==
    ASSUME TypeOK, StepsInv, NEW r \in Requests, StartFetch(r) \/ StartSearch(r)
    PROVE  TypeOK' /\ QuietStep
  <1>1. \E next \in RequestStates : NoImport(next) /\ req' = [req EXCEPT ![r] = next]
    <2>1. CASE StartFetch(r)
      <3>1. PICK only \in Filters, limit \in 1..Cardinality(Festivals) :
              req' = [req EXCEPT ![r] = [Idle EXCEPT !.kind = "fetch", !.pc = "page", !.only = only,
                                                     !.room = limit, !.page = 1, !.copy = documents]]
        BY <2>1 DEF StartFetch
      <3>. DEFINE next == [Idle EXCEPT !.kind = "fetch", !.pc = "page", !.only = only,
                                       !.room = limit, !.page = 1, !.copy = documents]
      <3>2. only \in SUBSET Festivals /\ limit \in Nat /\ documents \in File
        BY FilterType, LimitType DEF TypeOK
      <3>3. next \in RequestStates /\ NoImport(next)
        BY <3>2, IdleType DEF Idle, RequestStates, AllKinds, NoImport, ImportSteps
      <3>. HIDE DEF next
      <3>4. req' = [req EXCEPT ![r] = next]
        BY <3>1 DEF next
      <3>. QED BY <3>3, <3>4
    <2>2. CASE StartSearch(r)
      <3>1. PICK limit \in 1..Cardinality(Festivals) :
              req' = [req EXCEPT ![r] = [Idle EXCEPT !.kind = "search", !.pc = "page", !.only = Festivals,
                                                     !.room = limit, !.page = 1]]
        BY <2>2 DEF StartSearch
      <3>. DEFINE next == [Idle EXCEPT !.kind = "search", !.pc = "page", !.only = Festivals,
                                       !.room = limit, !.page = 1]
      <3>2. limit \in Nat
        BY LimitType
      <3>3. next \in RequestStates /\ NoImport(next)
        BY <3>2, IdleType DEF Idle, RequestStates, AllKinds, NoImport, ImportSteps
      <3>. HIDE DEF next
      <3>4. req' = [req EXCEPT ![r] = next]
        BY <3>1 DEF next
      <3>. QED BY <3>3, <3>4
    <2>. QED BY <2>1, <2>2
  <1>3. req[r] = Idle
    BY DEF StartFetch, StartSearch
  <1>4. NoImport(req[r])
    BY <1>3 DEF Idle, NoImport, ImportSteps
  <1>5. PICK next \in RequestStates : NoImport(next) /\ req' = [req EXCEPT ![r] = next]
    BY <1>1
  <1>6. req' \in [Requests -> RequestStates] /\ req'[r] = next /\ \A s \in Requests \ {r} : req'[s] = req[s]
    BY <1>5, Moved
  <1>7. UNCHANGED <<documents, handoff, cache, Database, orderly>>
    BY DEF StartFetch, StartSearch
  <1>8. TypeOK'
    BY <1>6, <1>7 DEF TypeOK, Database
  <1>. QED BY <1>4, <1>5, <1>6, <1>7, <1>8, QuietlyMoved

\* Reading pages, failing to, and resetting the files.
LEMMA Collects ==
    ASSUME TypeOK, StepsInv, NEW r \in Requests,
           FetchPage(r) \/ FetchEnd(r) \/ FetchFails(r) \/ SearchPage(r) \/ SearchBreaks(r) \/ Reset(r)
    PROVE  TypeOK' /\ QuietStep
  <1>1. req[r].pc \notin ImportSteps
    BY DEF StepsInv, Importing, FetchPage, FetchEnd, FetchFails, SearchPage, SearchBreaks, Reset, Idle, ImportSteps
  <1>2. UNCHANGED <<cache, Database, orderly>> /\ NoImport(req[r]) /\ NoImport(Idle)
    BY <1>1, NoImportStates DEF FetchPage, FetchEnd, FetchFails, SearchPage, SearchBreaks, Reset
  <1>3. handoff' \in File
    BY IdleType DEF FetchPage, FetchEnd, FetchFails, SearchPage, SearchBreaks, Reset, TypeOK
  <1>4. \A page \in PagesRead(r) : NoImport(AfterPage(r, page))
    BY <1>2, AfterPageType DEF NoImport
  <1>5. CASE \E file \in File, next \in RequestStates : NoImport(next) /\ SaveDocuments(r, file, next)
    <2>1. PICK file \in File, next \in RequestStates : NoImport(next) /\ SaveDocuments(r, file, next)
      BY <1>5
    <2>2. documents' = file /\ req' \in [Requests -> RequestStates]
      BY <2>1, Saved
    <2>3. TypeOK'
      BY <1>2, <1>3, <2>2 DEF TypeOK, Database
    <2>. QED BY <1>1, <1>2, <2>1, <2>3, SavedQuietly
  <1>6. CASE /\ \E next \in RequestStates : NoImport(next) /\ req' = [req EXCEPT ![r] = next]
             /\ documents' = documents
    <2>1. PICK next \in RequestStates : NoImport(next) /\ req' = [req EXCEPT ![r] = next]
      BY <1>6
    <2>2. req' \in [Requests -> RequestStates] /\ req'[r] = next /\ \A s \in Requests \ {r} : req'[s] = req[s]
      BY <2>1, Moved
    <2>3. TypeOK'
      BY <1>2, <1>3, <1>6, <2>2 DEF TypeOK, Database
    <2>. QED BY <1>2, <2>1, <2>2, <2>3, QuietlyMoved
  <1>7. CASE FetchPage(r)
    <2>1. PICK page \in PagesRead(r) : SaveDocuments(r, page.copy, AfterFetch(r, page))
      BY <1>7 DEF FetchPage
    <2>2. NoImport(AfterFetch(r, page))
      <3>1. CASE AfterFetch(r, page) = AfterPage(r, page)
        BY <1>4, <3>1
      <3>2. CASE AfterFetch(r, page) = [Idle EXCEPT !.kind = "fetch", !.pc = "close", !.copy = page.copy]
        BY <3>2 DEF NoImport, Idle, ImportSteps
      <3>. QED BY <3>1, <3>2, AfterFetchType
    <2>. QED BY <1>5, <2>1, <2>2, PageAdds, AfterFetchType
  <1>12. CASE FetchEnd(r)
    <2>1. req[r].copy \in File
      BY DEF TypeOK, RequestStates
    <2>. QED BY <1>2, <1>5, <1>12, <2>1, IdleType DEF FetchEnd
  <1>8. CASE FetchFails(r)
    BY <1>2, <1>6, <1>8, IdleType DEF FetchFails
  <1>9. CASE SearchPage(r)
    <2>1. PICK page \in PagesRead(r) :
            IF AfterPage(r, page) = Idle
            THEN SaveDocuments(r, page.copy, Idle)
            ELSE req' = [req EXCEPT ![r] = AfterPage(r, page)] /\ UNCHANGED documents
      BY <1>9 DEF SearchPage
    <2>2. CASE AfterPage(r, page) = Idle
      BY <1>2, <1>5, <2>1, <2>2, PageAdds, IdleType
    <2>3. CASE AfterPage(r, page) # Idle
      BY <1>4, <1>6, <2>1, <2>3, AfterPageType
    <2>. QED BY <2>2, <2>3
  <1>10. CASE SearchBreaks(r)
    <2>1. req[r].copy \in File
      BY DEF TypeOK, RequestStates
    <2>. QED BY <1>2, <1>5, <1>10, <2>1, IdleType DEF SearchBreaks
  <1>11. CASE Reset(r)
    BY <1>2, <1>5, <1>11, IdleType DEF Reset
  <1>. QED BY <1>7, <1>8, <1>9, <1>10, <1>11, <1>12

\* Transforming: the handoff is a file before and after.
LEMMA Transforms ==
    ASSUME TypeOK, StepsInv, NEW r \in Requests, StartTransform(r) \/ Transform(r)
    PROVE  TypeOK' /\ QuietStep
  <1>1. req[r].pc \notin ImportSteps
    <2>1. CASE StartTransform(r)
      <3>1. req[r] = Idle
        BY <2>1 DEF StartTransform
      <3>. QED BY <3>1 DEF Idle, ImportSteps
    <2>2. CASE Transform(r)
      BY <2>2 DEF Transform, ImportSteps
    <2>. QED BY <2>1, <2>2
  <1>2. UNCHANGED <<documents, cache, Database, orderly>> /\ NoImport(req[r]) /\ NoImport(Idle)
    BY <1>1, NoImportStates DEF StartTransform, Transform
  <1>3. /\ \E next \in RequestStates : NoImport(next) /\ req' = [req EXCEPT ![r] = next]
        /\ handoff' \in File
    <2>1. CASE StartTransform(r)
      <3>1. PICK rows \in SUBSET Festivals :
              /\ rows \subseteq Known(documents)
              /\ req' = [req EXCEPT ![r] = [Idle EXCEPT !.kind = "transform", !.pc = "llm", !.copy = handoff,
                           !.draft = [f \in Festivals |-> IF f \in rows THEN documents[f] ELSE None]]]
        <4>1. \A only \in Filters : Pending(only) \subseteq Known(documents)
          BY FilterType DEF Pending, Known
        <4>. QED BY <2>1, <4>1 DEF StartTransform, Known
      <3>. DEFINE next == [Idle EXCEPT !.kind = "transform", !.pc = "llm", !.copy = handoff,
                           !.draft = [f \in Festivals |-> IF f \in rows THEN documents[f] ELSE None]]
      <3>2. [f \in Festivals |-> IF f \in rows THEN documents[f] ELSE None] \in File
        BY DEF TypeOK, File
      <3>3. next \in RequestStates /\ NoImport(next)
        BY <3>2, IdleType DEF TypeOK, Idle, RequestStates, AllKinds, NoImport, ImportSteps
      <3>. QED BY <2>1, <3>1, <3>3 DEF StartTransform, TypeOK
    <2>2. CASE Transform(r)
      <3>1. PICK good \in SUBSET Known(req[r].draft) :
              handoff' = [f \in Festivals |-> IF f \in good THEN req[r].draft[f] ELSE req[r].copy[f]]
        BY <2>2 DEF Transform
      <3>2. req[r].draft \in File /\ req[r].copy \in File
        BY DEF TypeOK, RequestStates
      <3>3. handoff' \in File
        BY <3>1, <3>2 DEF File
      <3>. QED BY <1>2, <2>2, <3>3, IdleType DEF Transform
    <2>. QED BY <2>1, <2>2
  <1>4. PICK next \in RequestStates : NoImport(next) /\ req' = [req EXCEPT ![r] = next]
    BY <1>3
  <1>5. req' \in [Requests -> RequestStates] /\ req'[r] = next /\ \A s \in Requests \ {r} : req'[s] = req[s]
    BY <1>4, Moved
  <1>6. TypeOK'
    BY <1>2, <1>3, <1>5 DEF TypeOK, Database
  <1>. QED BY <1>2, <1>4, <1>5, <1>6, QuietlyMoved

\* All steps that collect or transform.
LEMMA CollectingIsQuiet ==
    ASSUME TypeOK, StepsInv, NEW r \in Requests, CollectingStep(r)
    PROVE  TypeOK' /\ QuietStep
  BY StartsCollecting, Collects, Transforms DEF CollectingStep

\* A step that touches no import keeps what is said of imports.
LEMMA QuietKeeps ==
    ASSUME TypeOK, TypeOK', StepsInv, LocksInv, GroupsInv, ReplacedInv, ImagesAreOfTheText, QuietStep
    PROVE  StepsInv' /\ LocksInv' /\ GroupsInv' /\ ReplacedInv' /\ ImagesAreOfTheText'
  <1>. USE DEF QuietStep, Import, NoImport, Database, Importing, ImportSteps
  <1>1. StepsInv'
    BY DEF StepsInv
  <1>2. \A r \in Requests : \A f \in Festivals :
          Holds(r, f)' => Holds(r, f) /\ Import(req'[r]) = Import(req[r])
    BY DEF Holds
  <1>3. LocksInv'
    BY <1>2 DEF LocksInv
  <1>4. GroupsInv'
    <2>. SUFFICES ASSUME NEW s \in Requests
         PROVE  (/\ \A g \in req[s].seen : g.of = req[s].row
                 /\ \A g \in req[s].gone :
                      /\ g.of \notin req[s].work
                      /\ req[s].pc \in {"insert", "update", "delete", "images"} => g.of # req[s].row
                 /\ \A g, h \in req[s].seen \cup req[s].gone : g.of = h.of => g.no = h.no)'
      BY DEF GroupsInv
    <2>1. CASE Import(req'[s]) = Import(req[s])
      BY <2>1 DEF GroupsInv
    <2>2. CASE NoImport(req'[s])
      BY <2>2
    <2>. QED BY <2>1, <2>2
  <1>5. ReplacedInv'
    BY <1>2 DEF ReplacedInv
  <1>6. ImagesAreOfTheText'
    BY DEF ImagesAreOfTheText
  <1>. QED BY <1>1, <1>3, <1>4, <1>5, <1>6

-----------------------------------------------------------------------------
(* Importing: the types *)

\* A new group of images finds a number: every other request keeps at most one of those
\* of the festival from being used.
LEMMA ANumberIsFree ==
    ASSUME TypeOK, StepsInv, GroupsInv, ReplacedInv, NEW r \in Requests, NEW f \in Festivals,
           Holds(r, f), req[r].pc = "rows"
    PROVE  FreeNumber(f, r) \in Numbers
  <1>. DEFINE taken == (images[f] \ req[r].gone) \cup UNION {req[s].seen \cup req[s].gone : s \in Requests \ {r}}
              Has(n, s) == \E g \in req[s].seen \cup req[s].gone : g.of = f /\ g.no = n
              Owner == [n \in Numbers |-> CHOOSE s \in Requests : Has(n, s)]
  <1>1. \E n \in Numbers : \A g \in taken : g.of = f => g.no # n
    <2>1. SUFFICES ASSUME \A n \in Numbers : \E g \in taken : g.of = f /\ g.no = n
                   PROVE  FALSE
      OBVIOUS
    <2>2. images[f] \subseteq req[r].gone
      BY DEF ReplacedInv
    <2>3. \A n \in Numbers : \E s \in Requests : Has(n, s)
      BY <2>1, <2>2
    <2>. HIDE DEF Has, taken
    <2>4. Owner \in [Numbers -> Requests] /\ \A n \in Numbers : Has(n, Owner[n])
      BY <2>3
    <2>5. Cardinality(Requests) \in Nat /\ IsFiniteSet(Requests)
      BY FS_CardinalityType, FestivalAssumption
    <2>6. IsFiniteSet(Numbers) /\ Cardinality(Numbers) = 2 * Cardinality(Requests) + 1
      <3>1. 2 * Cardinality(Requests) + 1 \in Int /\ ~ (1 > 2 * Cardinality(Requests) + 1)
        BY <2>5
      <3>2. IsFiniteSet(1..(2 * Cardinality(Requests) + 1))
            /\ Cardinality(1..(2 * Cardinality(Requests) + 1)) = (2 * Cardinality(Requests) + 1) - 1 + 1
        BY <3>1, FS_Interval
      <3>. QED BY <2>5, <3>2 DEF Numbers
    <2>7. Cardinality(Requests) < Cardinality(Numbers)
      BY <2>5, <2>6
    <2>. HIDE DEF Owner
    <2>8. PICK m \in Numbers, n \in Numbers : m # n /\ Owner[m] = Owner[n]
      BY <2>4, <2>5, <2>6, <2>7, FS_PigeonHole
    <2>9. Has(m, Owner[m]) /\ Has(n, Owner[m]) /\ Owner[m] \in Requests
      BY <2>4, <2>8
    <2>. QED BY <2>8, <2>9 DEF Has, GroupsInv
  <1>. HIDE DEF taken
  <1>2. FreeNumber(f, r) = CHOOSE n \in Numbers : \A g \in taken : g.of = f => g.no # n
    BY DEF FreeNumber, taken
  <1>. QED BY <1>1, <1>2

\* Committed: pins and images get what the request has written.
LEMMA CommittedType ==
    ASSUME TypeOK, StepsInv, GroupsInv, ReplacedInv, NEW r \in Requests, req[r].pc = "rows", Committed(r)
    PROVE  /\ pins' \in File /\ images' \in [Festivals -> SUBSET Groups]
           /\ \A f \in Drafted(r) : /\ pins'[f] = req[r].draft[f]
                                    /\ \E n \in Numbers : images'[f] = {[of |-> f, no |-> n, raw |-> pins'[f]]}
           /\ \A f \in Festivals \ Drafted(r) : pins'[f] = pins[f] /\ images'[f] = images[f]
  <1>1. req[r].draft \in File
    BY DEF TypeOK, RequestStates
  <1>2. \A f \in Drafted(r) : f \in Festivals /\ Holds(r, f) /\ req[r].draft[f] \in Raw
    BY <1>1 DEF Drafted, Known, Holds, StepsInv, ImportSteps, File
  <1>3. \A f \in Drafted(r) : FreeNumber(f, r) \in Numbers /\ images[f] \subseteq req[r].gone
    BY <1>2, ANumberIsFree DEF ReplacedInv
  <1>4. pins' = [f \in Festivals |-> IF f \in Drafted(r) THEN req[r].draft[f] ELSE pins[f]]
    BY DEF Committed
  <1>5. pins' \in File
    BY <1>2, <1>4 DEF TypeOK, File
  <1>6. \A f \in Drafted(r) : images'[f] = {[of |-> f, no |-> FreeNumber(f, r), raw |-> req[r].draft[f]]}
    BY <1>2, <1>3 DEF Committed
  <1>7. \A f \in Festivals \ Drafted(r) : images'[f] = images[f]
    BY DEF Committed
  <1>8. images' \in [Festivals -> SUBSET Groups]
    <2>1. images' = [f \in Festivals |-> images'[f]]
      BY DEF Committed
    <2>2. \A f \in Drafted(r) : images'[f] \in SUBSET Groups
      BY <1>2, <1>3, <1>6 DEF Groups
    <2>3. \A f \in Festivals \ Drafted(r) : images'[f] \in SUBSET Groups
      BY <1>7 DEF TypeOK
    <2>. QED BY <2>1, <2>2, <2>3
  <1>9. \A f \in Drafted(r) : pins'[f] = req[r].draft[f]
    BY <1>2, <1>4
  <1>10. \A f \in Drafted(r) : \E n \in Numbers : images'[f] = {[of |-> f, no |-> n, raw |-> pins'[f]]}
    BY <1>3, <1>6, <1>9
  <1>11. \A f \in Festivals \ Drafted(r) : pins'[f] = pins[f]
    BY <1>4
  <1>. QED BY <1>5, <1>7, <1>8, <1>9, <1>10, <1>11

\* The actions of an import keep the types.
LEMMA ImportType ==
    ASSUME TypeOK, StepsInv, GroupsInv, ReplacedInv, NEW r \in Requests,
           StartImport(r) \/ ReadIds(r) \/ PickRow(r) \/ Insert(r) \/ UpdateRows(r) \/ SeeImages(r)
           \/ ReplaceImages(r) \/ RowFails(r) \/ RowRefused(r) \/ Commit(r) \/ CommitFails(r) \/ Publish(r)
           \/ PublishFails(r)
    PROVE  TypeOK'
  <1>. USE DEF Database
  <1>1. req[r] \in RequestStates
    BY DEF TypeOK
  <1>2. CASE /\ \E next \in RequestStates : req' = [req EXCEPT ![r] = next]
             /\ UNCHANGED <<documents, handoff, cache, Database>> /\ orderly' \in BOOLEAN
    BY <1>2, Moved DEF TypeOK
  <1>3. CASE StartImport(r)
    <2>1. PICK only \in Filters, update \in BOOLEAN, limit \in {Size, Cardinality(Festivals)} :
            req' = [req EXCEPT ![r] = [Idle EXCEPT !.kind = "import", !.pc = "ids", !.only = only,
                                                   !.room = limit, !.update = update, !.copy = handoff]]
      BY <1>3 DEF StartImport
    <2>. DEFINE next == [Idle EXCEPT !.kind = "import", !.pc = "ids", !.only = only,
                                     !.room = limit, !.update = update, !.copy = handoff]
    <2>2. only \in SUBSET Festivals /\ limit \in Nat /\ handoff \in File
      BY FilterType, FS_CardinalityType, FestivalAssumption DEF TypeOK
    <2>3. next \in RequestStates
      BY <2>2, IdleType DEF Idle, RequestStates, AllKinds
    <2>. QED BY <1>2, <1>3, <2>1, <2>3 DEF StartImport, TypeOK
  <1>4. CASE ReadIds(r)
    <2>1. PICK work \in SUBSET Festivals :
            req' = [req EXCEPT ![r].pc = "rows", ![r].work = work, ![r].only = {}, ![r].room = 0,
                     ![r].copy = [f \in Festivals |-> IF f \in work THEN req[r].copy[f] ELSE None]]
      BY <1>4, <1>1 DEF ReadIds, RequestStates
    <2>. DEFINE next == [req[r] EXCEPT !.pc = "rows", !.work = work, !.only = {}, !.room = 0,
                           !.copy = [f \in Festivals |-> IF f \in work THEN req[r].copy[f] ELSE None]]
    <2>2. [f \in Festivals |-> IF f \in work THEN req[r].copy[f] ELSE None] \in File
      BY <1>1 DEF RequestStates, File
    <2>3. next \in RequestStates
      BY <1>1, <2>2 DEF RequestStates
    <2>4. req' = [req EXCEPT ![r] = next]
      BY <2>1 DEF TypeOK
    <2>. QED BY <1>2, <1>4, <2>3, <2>4 DEF ReadIds, TypeOK
  <1>5. CASE PickRow(r)
    <2>1. PICK f \in req[r].work :
            req' = [req EXCEPT ![r].work = @ \ {f},
                   ![r].row = IF pins[f] = None \/ req[r].update THEN f ELSE None,
                   ![r].copy[f] = IF pins[f] = None \/ req[r].update THEN @ ELSE None,
                   ![r].pc = IF pins[f] = None THEN "insert"
                             ELSE IF req[r].update THEN "update" ELSE "rows"]
      BY <1>5 DEF PickRow
    <2>. DEFINE next == [req[r] EXCEPT !.work = @ \ {f},
                   !.row = IF pins[f] = None \/ req[r].update THEN f ELSE None,
                   !.copy[f] = IF pins[f] = None \/ req[r].update THEN @ ELSE None,
                   !.pc = IF pins[f] = None THEN "insert" ELSE IF req[r].update THEN "update" ELSE "rows"]
    <2>2. f \in Festivals
      BY <1>1 DEF RequestStates
    <2>3. [req[r].copy EXCEPT ![f] = IF pins[f] = None \/ req[r].update THEN @ ELSE None] \in File
      BY <1>1, <2>2 DEF RequestStates, File
    <2>4. next \in RequestStates
      BY <1>1, <2>2, <2>3 DEF RequestStates
    <2>5. req' = [req EXCEPT ![r] = next]
      BY <2>1 DEF TypeOK
    <2>. QED BY <1>2, <1>5, <2>4, <2>5 DEF PickRow, TypeOK
  <1>6. CASE Insert(r)
    BY <1>6, FestivalAssumption DEF Insert, TypeOK, RequestStates, File
  <1>7. CASE UpdateRows(r)
    <2>. DEFINE f == req[r].row
                next == [req[r] EXCEPT !.draft[f] = req[r].copy[f], !.copy[f] = None, !.pc = "delete"]
    <2>1. f \in Festivals
      BY <1>7 DEF UpdateRows, StepsInv
    <2>2. [req[r].draft EXCEPT ![f] = req[r].copy[f]] \in File /\ [req[r].copy EXCEPT ![f] = None] \in File
      BY <1>1, <2>1 DEF RequestStates, File
    <2>3. next \in RequestStates
      BY <1>1, <2>2 DEF RequestStates
    <2>4. req' = [req EXCEPT ![r] = next]
      BY <1>7 DEF UpdateRows, TypeOK
    <2>. QED BY <1>2, <1>7, <2>3, <2>4 DEF UpdateRows, TypeOK
  <1>8. CASE SeeImages(r)
    BY <1>8 DEF SeeImages, TypeOK, RequestStates, StepsInv
  <1>9. CASE ReplaceImages(r)
    <2>1. req[r].row \in Festivals
      BY <1>9 DEF ReplaceImages, StepsInv
    <2>. DEFINE next == [req[r] EXCEPT !.gone = @ \cup (req[r].seen \cap images[req[r].row]), !.seen = {},
                                       !.row = None, !.pc = "rows"]
    <2>2. next \in RequestStates
      BY <1>1 DEF RequestStates
    <2>3. req' = [req EXCEPT ![r] = next]
      BY <1>9 DEF ReplaceImages, TypeOK
    <2>. QED BY <1>2, <1>9, <2>2, <2>3 DEF ReplaceImages, TypeOK
  <1>10. CASE RowFails(r) \/ RowRefused(r)
    <2>. DEFINE f == req[r].row
                next == [req[r] EXCEPT !.draft[f] = None, !.copy[f] = None, !.seen = {}, !.row = None, !.pc = "rows"]
    <2>1. RowEnds(r)
      BY <1>10 DEF RowFails, RowRefused
    <2>2. [req[r].draft EXCEPT ![f] = None] \in File /\ [req[r].copy EXCEPT ![f] = None] \in File
      BY <1>1 DEF RequestStates, File
    <2>3. next \in RequestStates
      BY <1>1, <2>2 DEF RequestStates
    <2>4. req' = [req EXCEPT ![r] = next]
      BY <2>1 DEF RowEnds, TypeOK
    <2>. QED BY <1>2, <2>1, <2>3, <2>4 DEF RowEnds, TypeOK
  <1>11. CASE Commit(r) \/ CommitFails(r)
    <2>1. pins' \in File /\ images' \in [Festivals -> SUBSET Groups]
      BY <1>11, CommittedType DEF Commit, CommitFails, TypeOK
    <2>2. [Idle EXCEPT !.kind = "import", !.pc = "publish", !.draft = req[r].draft] \in RequestStates
      BY <1>1, IdleType DEF Idle, RequestStates, AllKinds
    <2>3. \E next \in RequestStates : req' = [req EXCEPT ![r] = next]
      BY <1>11, <2>2, IdleType DEF Commit, CommitFails
    <2>4. req' \in [Requests -> RequestStates]
      BY <2>3, Moved
    <2>5. UNCHANGED <<documents, handoff, cache>> /\ orderly' \in BOOLEAN
      BY <1>11 DEF Commit, CommitFails, TypeOK
    <2>. QED BY <2>1, <2>4, <2>5 DEF TypeOK
  <1>12. CASE Publish(r) \/ PublishFails(r)
    <2>1. PICK done \in SUBSET Festivals :
            cache' = [f \in Festivals |-> IF f \in done THEN req[r].draft[f] ELSE cache[f]]
      <3>1. Drafted(r) \in SUBSET Festivals
        BY DEF Drafted, Known
      <3>. QED BY <1>12, <3>1 DEF Publish, PublishFails
    <2>2. cache' \in File
      BY <1>1, <2>1 DEF TypeOK, RequestStates, File
    <2>3. req' \in [Requests -> RequestStates]
      BY <1>12, IdleType, Moved DEF Publish, PublishFails
    <2>4. UNCHANGED <<documents, handoff, Database>> /\ orderly' \in BOOLEAN
      BY <1>12 DEF Publish, PublishFails, TypeOK
    <2>. QED BY <2>2, <2>3, <2>4 DEF TypeOK
  <1>. QED BY <1>3, <1>4, <1>5, <1>6, <1>7, <1>8, <1>9, <1>10, <1>11, <1>12

-----------------------------------------------------------------------------
(* Importing: what a step changes of the request that takes it *)

\* Of all imports only one is touched, and nothing is committed.
Others(r) ==
    /\ UNCHANGED <<pins, images>>
    /\ \A s \in Requests \ {r} : req'[s] = req[s]
    /\ req'[r].kind = req[r].kind /\ Importing(r)

\* ReadIds.
LEMMA ReadIdsMoves ==
    ASSUME TypeOK, StepsInv, NEW r \in Requests, ReadIds(r)
    PROVE  /\ Others(r)
           /\ req[r].pc = "ids" /\ req'[r].pc = "rows"
           /\ req'[r].row = req[r].row /\ req'[r].seen = req[r].seen /\ req'[r].gone = req[r].gone
           /\ req'[r].draft = req[r].draft
  BY DEF ReadIds, Others, Database, TypeOK, RequestStates, StepsInv, ImportSteps

\* PickRow: a row of the work at hand.
LEMMA PickRowMoves ==
    ASSUME TypeOK, StepsInv, NEW r \in Requests, PickRow(r)
    PROVE  \E f \in req[r].work :
             /\ Others(r)
             /\ \/ req'[r].pc \in {"insert", "update"} /\ req'[r].row = f
                \/ req'[r].pc = "rows"
             /\ req[r].pc = "rows"
             /\ req'[r].work = req[r].work \ {f}
             /\ req'[r].seen = req[r].seen /\ req'[r].gone = req[r].gone
             /\ req'[r].draft = req[r].draft
  BY DEF PickRow, Others, Database, TypeOK, RequestStates, StepsInv, ImportSteps

\* Insert: a festival without a pin that nobody else is writing.
LEMMA InsertMoves ==
    ASSUME TypeOK, StepsInv, NEW r \in Requests, Insert(r)
    PROVE  /\ Others(r)
           /\ req[r].pc = "insert" /\ req'[r].pc = "rows"
           /\ ~ Held(req[r].row, r) /\ pins[req[r].row] = None
           /\ req'[r].work = req[r].work /\ req'[r].seen = req[r].seen /\ req'[r].gone = req[r].gone
           /\ \A f \in Festivals : f # req[r].row => req'[r].draft[f] = req[r].draft[f]
  BY DEF Insert, Others, Database, TypeOK, RequestStates, StepsInv, ImportSteps, File

\* UpdateRows: a festival nobody else is writing.
LEMMA UpdateRowsMoves ==
    ASSUME TypeOK, StepsInv, NEW r \in Requests, UpdateRows(r)
    PROVE  /\ Others(r)
           /\ req[r].pc = "update" /\ req'[r].pc = "delete"
           /\ ~ Held(req[r].row, r)
           /\ req'[r].row = req[r].row /\ req'[r].work = req[r].work
           /\ req'[r].seen = req[r].seen /\ req'[r].gone = req[r].gone
           /\ \A f \in Festivals : f # req[r].row => req'[r].draft[f] = req[r].draft[f]
  BY DEF UpdateRows, Others, Database, TypeOK, RequestStates, StepsInv, ImportSteps, File

\* SeeImages: exactly the committed images.
LEMMA SeeImagesMoves ==
    ASSUME TypeOK, StepsInv, NEW r \in Requests, SeeImages(r)
    PROVE  /\ Others(r)
           /\ req[r].pc = "delete" /\ req'[r].pc = "images"
           /\ req'[r].row = req[r].row /\ req'[r].work = req[r].work
           /\ req'[r].seen = images[req[r].row] /\ req'[r].gone = req[r].gone
           /\ req'[r].draft = req[r].draft
  BY DEF SeeImages, Others, Database, TypeOK, RequestStates, StepsInv, ImportSteps

\* ReplaceImages: what was seen and is still there is deleted.
LEMMA ReplaceImagesMoves ==
    ASSUME TypeOK, StepsInv, NEW r \in Requests, ReplaceImages(r)
    PROVE  /\ Others(r)
           /\ req[r].pc = "images" /\ req'[r].pc = "rows"
           /\ req'[r].work = req[r].work
           /\ req'[r].seen = {} /\ req'[r].gone = req[r].gone \cup (req[r].seen \cap images[req[r].row])
           /\ req'[r].draft = req[r].draft
  BY DEF ReplaceImages, Others, Database, TypeOK, RequestStates, StepsInv, ImportSteps

\* RowFails and RowRefused: the draft of the row is gone.
LEMMA RowEndsMoves ==
    ASSUME TypeOK, StepsInv, NEW r \in Requests, RowFails(r) \/ RowRefused(r)
    PROVE  /\ Others(r)
           /\ req[r].pc \in {"insert", "update", "delete", "images"} /\ req'[r].pc = "rows"
           /\ req'[r].work = req[r].work
           /\ req'[r].seen = {} /\ req'[r].gone = req[r].gone
           /\ req'[r].draft[req[r].row] = None
           /\ \A f \in Festivals : f # req[r].row => req'[r].draft[f] = req[r].draft[f]
  BY DEF RowFails, RowRefused, RowEnds, Others, Database, TypeOK, RequestStates, StepsInv, ImportSteps,
     File

-----------------------------------------------------------------------------
(* Importing: the invariants *)

\* What a request that writes nothing yet holds, or an uncommitted step changes of it.
LEMMA ImagesStay ==
    ASSUME NEW r \in Requests, Others(r), ImagesAreOfTheText
    PROVE  ImagesAreOfTheText'
  BY DEF Others, ImagesAreOfTheText

\* ReadIds: nothing is seen, written or deleted yet.
LEMMA ReadIdsKeeps ==
    ASSUME FestivalInv, TypeOK', NEW r \in Requests, ReadIds(r)
    PROVE  StepsInv' /\ LocksInv' /\ GroupsInv' /\ ReplacedInv' /\ ImagesAreOfTheText'
  <1>. USE DEF FestivalInv
  <1>1. StepsInv'
    BY ReadIdsMoves DEF Others, StepsInv, ImportSteps, Importing, TypeOK, RequestStates
  <1>2. LocksInv'
    BY ReadIdsMoves DEF LocksInv, Holds, Held, Others, StepsInv, ImportSteps, Importing, TypeOK,
       RequestStates
  <1>3. GroupsInv'
    BY ReadIdsMoves DEF GroupsInv, ImagesAreOfTheText, Others, StepsInv, ImportSteps, Importing,
       TypeOK, RequestStates
  <1>4. ReplacedInv'
    BY ReadIdsMoves DEF ReplacedInv, LocksInv, Holds, Held, ImagesAreOfTheText, Others, StepsInv,
       ImportSteps, Importing, TypeOK, RequestStates
  <1>5. ImagesAreOfTheText'
    BY ReadIdsMoves, ImagesStay
  <1>. QED BY <1>1, <1>2, <1>3, <1>4, <1>5

\* PickRow: the row it is at was still to come.
LEMMA PickRowKeeps ==
    ASSUME FestivalInv, TypeOK', NEW r \in Requests, PickRow(r)
    PROVE  StepsInv' /\ LocksInv' /\ GroupsInv' /\ ReplacedInv' /\ ImagesAreOfTheText'
  <1>. USE DEF FestivalInv
  <1>1. StepsInv'
    BY PickRowMoves DEF Others, StepsInv, ImportSteps, Importing, TypeOK, RequestStates
  <1>2. LocksInv'
    BY PickRowMoves DEF LocksInv, Holds, Held, Others, StepsInv, ImportSteps, Importing, TypeOK,
       RequestStates
  <1>3. GroupsInv'
    BY PickRowMoves DEF GroupsInv, ImagesAreOfTheText, Others, StepsInv, ImportSteps, Importing,
       TypeOK, RequestStates
  <1>4. ReplacedInv'
    BY PickRowMoves DEF ReplacedInv, LocksInv, Holds, Held, ImagesAreOfTheText, Others, StepsInv,
       ImportSteps, Importing, TypeOK, RequestStates
  <1>5. ImagesAreOfTheText'
    BY PickRowMoves, ImagesStay
  <1>. QED BY <1>1, <1>2, <1>3, <1>4, <1>5

\* Insert: nobody else holds the festival, and it has no images.
LEMMA InsertKeeps ==
    ASSUME FestivalInv, TypeOK', NEW r \in Requests, Insert(r)
    PROVE  StepsInv' /\ LocksInv' /\ GroupsInv' /\ ReplacedInv' /\ ImagesAreOfTheText'
  <1>. USE DEF FestivalInv
  <1>1. StepsInv'
    BY InsertMoves DEF Others, StepsInv, ImportSteps, Importing, TypeOK, RequestStates
  <1>2. LocksInv'
    BY InsertMoves DEF LocksInv, Holds, Held, Others, StepsInv, ImportSteps, Importing, TypeOK,
       RequestStates
  <1>3. GroupsInv'
    BY InsertMoves DEF GroupsInv, ImagesAreOfTheText, Others, StepsInv, ImportSteps, Importing, TypeOK,
       RequestStates
  <1>4. ReplacedInv'
    BY InsertMoves DEF ReplacedInv, LocksInv, Holds, Held, ImagesAreOfTheText, Others, StepsInv,
       ImportSteps, Importing, TypeOK, RequestStates
  <1>5. ImagesAreOfTheText'
    BY InsertMoves, ImagesStay
  <1>. QED BY <1>1, <1>2, <1>3, <1>4, <1>5

\* UpdateRows: nobody else holds the festival.
LEMMA UpdateRowsKeeps ==
    ASSUME FestivalInv, TypeOK', NEW r \in Requests, UpdateRows(r)
    PROVE  StepsInv' /\ LocksInv' /\ GroupsInv' /\ ReplacedInv' /\ ImagesAreOfTheText'
  <1>. USE DEF FestivalInv
  <1>1. StepsInv'
    BY UpdateRowsMoves DEF Others, StepsInv, ImportSteps, Importing, TypeOK, RequestStates
  <1>2. LocksInv'
    BY UpdateRowsMoves DEF LocksInv, Holds, Held, Others, StepsInv, ImportSteps, Importing, TypeOK,
       RequestStates
  <1>3. GroupsInv'
    BY UpdateRowsMoves DEF GroupsInv, ImagesAreOfTheText, Others, StepsInv, ImportSteps, Importing,
       TypeOK, RequestStates
  <1>4. ReplacedInv'
    BY UpdateRowsMoves DEF ReplacedInv, LocksInv, Holds, Held, ImagesAreOfTheText, Others, StepsInv,
       ImportSteps, Importing, TypeOK, RequestStates
  <1>5. ImagesAreOfTheText'
    BY UpdateRowsMoves, ImagesStay
  <1>. QED BY <1>1, <1>2, <1>3, <1>4, <1>5

\* SeeImages: the images are one group, of the festival at hand.
LEMMA SeeImagesKeeps ==
    ASSUME FestivalInv, TypeOK', NEW r \in Requests, SeeImages(r)
    PROVE  StepsInv' /\ LocksInv' /\ GroupsInv' /\ ReplacedInv' /\ ImagesAreOfTheText'
  <1>. USE DEF FestivalInv
  <1>1. StepsInv'
    BY SeeImagesMoves DEF Others, StepsInv, ImportSteps, Importing, TypeOK, RequestStates
  <1>2. LocksInv'
    BY SeeImagesMoves DEF LocksInv, Holds, Held, Others, StepsInv, ImportSteps, Importing, TypeOK,
       RequestStates
  <1>3. GroupsInv'
    BY SeeImagesMoves DEF GroupsInv, ImagesAreOfTheText, Others, StepsInv, ImportSteps, Importing,
       TypeOK, RequestStates
  <1>4. ReplacedInv'
    BY SeeImagesMoves DEF ReplacedInv, LocksInv, Holds, Held, ImagesAreOfTheText, Others, StepsInv,
       ImportSteps, Importing, TypeOK, RequestStates
  <1>5. ImagesAreOfTheText'
    BY SeeImagesMoves, ImagesStay
  <1>. QED BY <1>1, <1>2, <1>3, <1>4, <1>5

\* ReplaceImages: what was seen is what there is.
LEMMA ReplaceImagesKeeps ==
    ASSUME FestivalInv, TypeOK', NEW r \in Requests, ReplaceImages(r)
    PROVE  StepsInv' /\ LocksInv' /\ GroupsInv' /\ ReplacedInv' /\ ImagesAreOfTheText'
  <1>. USE DEF FestivalInv
  <1>1. StepsInv'
    BY ReplaceImagesMoves DEF Others, StepsInv, ImportSteps, Importing, TypeOK, RequestStates
  <1>2. LocksInv'
    BY ReplaceImagesMoves DEF LocksInv, Holds, Held, Others, StepsInv, ImportSteps, Importing, TypeOK,
       RequestStates
  <1>3. GroupsInv'
    BY ReplaceImagesMoves DEF GroupsInv, ImagesAreOfTheText, Others, StepsInv, ImportSteps, Importing,
       TypeOK, RequestStates
  <1>4. ReplacedInv'
    BY ReplaceImagesMoves DEF ReplacedInv, LocksInv, Holds, Held, ImagesAreOfTheText, Others, StepsInv,
       ImportSteps, Importing, TypeOK, RequestStates
  <1>5. ImagesAreOfTheText'
    BY ReplaceImagesMoves, ImagesStay
  <1>. QED BY <1>1, <1>2, <1>3, <1>4, <1>5

\* RowFails and RowRefused: what was written of the row is taken back.
LEMMA RowEndsKeeps ==
    ASSUME FestivalInv, TypeOK', NEW r \in Requests, RowFails(r) \/ RowRefused(r)
    PROVE  StepsInv' /\ LocksInv' /\ GroupsInv' /\ ReplacedInv' /\ ImagesAreOfTheText'
  <1>. USE DEF FestivalInv
  <1>1. StepsInv'
    BY RowEndsMoves DEF Others, StepsInv, ImportSteps, Importing, TypeOK, RequestStates
  <1>2. LocksInv'
    BY RowEndsMoves DEF LocksInv, Holds, Held, Others, StepsInv, ImportSteps, Importing, TypeOK,
       RequestStates
  <1>3. GroupsInv'
    BY RowEndsMoves DEF GroupsInv, ImagesAreOfTheText, Others, StepsInv, ImportSteps, Importing,
       TypeOK, RequestStates
  <1>4. ReplacedInv'
    BY RowEndsMoves DEF ReplacedInv, LocksInv, Holds, Held, ImagesAreOfTheText, Others, StepsInv,
       ImportSteps, Importing, TypeOK, RequestStates
  <1>5. ImagesAreOfTheText'
    BY RowEndsMoves, ImagesStay
  <1>. QED BY <1>1, <1>2, <1>3, <1>4, <1>5

\* An import starts with nothing seen, written or deleted, and so it is after its end.
LEMMA StartImportKeeps ==
    ASSUME FestivalInv, TypeOK', NEW r \in Requests, StartImport(r)
    PROVE  StepsInv' /\ LocksInv' /\ GroupsInv' /\ ReplacedInv' /\ ImagesAreOfTheText'
  <1>1. PICK only \in Filters, update \in BOOLEAN, limit \in {Size, Cardinality(Festivals)} :
          req' = [req EXCEPT ![r] = [Idle EXCEPT !.kind = "import", !.pc = "ids", !.only = only,
                                                 !.room = limit, !.update = update, !.copy = handoff]]
    BY DEF StartImport
  <1>2. /\ req'[r].kind = "import" /\ req'[r].pc = "ids" /\ req'[r].row = None /\ req'[r].work = {}
        /\ req'[r].seen = {} /\ req'[r].gone = {} /\ req'[r].draft = Empty
        /\ \A s \in Requests \ {r} : req'[s] = req[s]
    BY <1>1 DEF Idle, FestivalInv, TypeOK
  <1>3. UNCHANGED <<pins, images>>
    BY DEF StartImport, Database
  <1>4. \A f \in Festivals : ~ Holds(r, f)'
    BY <1>2 DEF Holds, Empty
  <1>5. \A s \in Requests \ {r} : \A f \in Festivals : Holds(s, f)' = Holds(s, f)
    BY <1>2 DEF Holds, Importing
  <1>6. StepsInv'
    BY <1>2 DEF FestivalInv, StepsInv, Importing, ImportSteps
  <1>7. LocksInv'
    BY <1>4, <1>5 DEF FestivalInv, LocksInv
  <1>8. GroupsInv'
    BY <1>2 DEF FestivalInv, GroupsInv
  <1>9. ReplacedInv'
    BY <1>2, <1>3, <1>4, <1>5 DEF FestivalInv, ReplacedInv
  <1>10. ImagesAreOfTheText'
    BY <1>3 DEF FestivalInv, ImagesAreOfTheText
  <1>. QED BY <1>6, <1>7, <1>8, <1>9, <1>10

\* A request that ends an import, or commits it, holds nothing any more; what another holds
\* is not among what was committed.
LEMMA EndKeeps ==
    ASSUME FestivalInv, TypeOK', NEW r \in Requests,
           Commit(r) \/ CommitFails(r) \/ Publish(r) \/ PublishFails(r)
    PROVE  StepsInv' /\ LocksInv' /\ GroupsInv' /\ ReplacedInv' /\ ImagesAreOfTheText'
  <1>. USE DEF FestivalInv
  <1>1. /\ \/ req'[r] = Idle
           \/ /\ req'[r].kind = "import" /\ req'[r].pc = "publish" /\ req'[r].seen = {} /\ req'[r].gone = {}
        /\ \A s \in Requests \ {r} : req'[s] = req[s]
    BY DEF Commit, CommitFails, Publish, PublishFails, TypeOK, Idle
  <1>2. req'[r].seen = {} /\ req'[r].gone = {} /\ \A f \in Festivals : ~ Holds(r, f)'
    BY <1>1 DEF Idle, Holds, Importing
  <1>3. \A s \in Requests \ {r} : \A f \in Festivals : Holds(s, f)' = Holds(s, f)
    BY <1>1 DEF Holds, Importing
  <1>4. StepsInv'
    BY <1>1 DEF StepsInv, Importing, ImportSteps, Idle
  <1>5. LocksInv'
    BY <1>2, <1>3 DEF LocksInv
  <1>6. GroupsInv'
    BY <1>1, <1>2 DEF GroupsInv
  <1>7. \/ UNCHANGED <<pins, images>>
        \/ req[r].pc = "rows" /\ Committed(r)
    BY DEF Commit, CommitFails, Publish, PublishFails, Database
  <1>8. ReplacedInv' /\ ImagesAreOfTheText'
    <2>1. CASE UNCHANGED <<pins, images>>
      BY <1>1, <1>2, <1>3, <2>1 DEF ReplacedInv, ImagesAreOfTheText
    <2>2. CASE req[r].pc = "rows" /\ Committed(r)
      <3>1. \A f \in Drafted(r) : Holds(r, f) /\ f \in Festivals
        BY <2>2 DEF Drafted, Known, Holds, StepsInv, ImportSteps
      <3>2. ImagesAreOfTheText'
        <4>1. \A f \in Drafted(r) :
                pins'[f] # None /\ \E n \in Numbers : images'[f] = {[of |-> f, no |-> n, raw |-> pins'[f]]}
          BY <2>2, CommittedType DEF Drafted, Known
        <4>2. \A f \in Festivals \ Drafted(r) : pins'[f] = pins[f] /\ images'[f] = images[f]
          BY <2>2, CommittedType
        <4>. QED BY <4>1, <4>2 DEF ImagesAreOfTheText
      <3>3. \A s \in Requests \ {r} : \A f \in Festivals : Holds(s, f)' => Holds(s, f) /\ images'[f] = images[f]
        <4>. SUFFICES ASSUME NEW s \in Requests \ {r}, NEW f \in Festivals, Holds(s, f)'
             PROVE  Holds(s, f) /\ images'[f] = images[f]
          OBVIOUS
        <4>1. Holds(s, f)
          BY <1>3
        <4>2. f \notin Drafted(r)
          BY <3>1, <4>1 DEF LocksInv
        <4>. QED BY <2>2, <4>1, <4>2, CommittedType
      <3>4. ReplacedInv'
        BY <1>1, <1>2, <3>3 DEF ReplacedInv
      <3>. QED BY <3>2, <3>4
    <2>. QED BY <1>7, <2>1, <2>2
  <1>. QED BY <1>4, <1>5, <1>6, <1>8

\* A crash ends every request.
LEMMA CrashKeeps ==
    ASSUME FestivalInv, Crash
    PROVE  FestivalInv'
  <1>1. req' = [s \in Requests |-> Idle] /\ UNCHANGED <<documents, handoff, cache, pins, images>>
        /\ orderly' \in BOOLEAN
    BY DEF Crash, Database, FestivalInv, TypeOK
  <1>2. TypeOK'
    BY <1>1, IdleType DEF FestivalInv, TypeOK
  <1>3. StepsInv' /\ LocksInv' /\ GroupsInv' /\ ReplacedInv'
    BY <1>1 DEF StepsInv, LocksInv, GroupsInv, ReplacedInv, Holds, Importing, ImportSteps, Idle
  <1>4. ImagesAreOfTheText'
    BY <1>1 DEF FestivalInv, ImagesAreOfTheText
  <1>. QED BY <1>2, <1>3, <1>4 DEF FestivalInv

ImportingStep(r) ==
    StartImport(r) \/ ReadIds(r) \/ PickRow(r) \/ Insert(r) \/ UpdateRows(r) \/ SeeImages(r) \/ ReplaceImages(r)
    \/ RowFails(r) \/ RowRefused(r) \/ Commit(r) \/ CommitFails(r) \/ Publish(r) \/ PublishFails(r)

\* Next, by what the steps are about.
LEMMA NextCases ==
    ASSUME Next
    PROVE  (\E r \in Requests : CollectingStep(r) \/ ImportingStep(r)) \/ Crash
  BY DEF Next, Start, Step, Fault, CollectingStep, ImportingStep

\* Every step of an import keeps the invariant.
LEMMA ImportingKeeps ==
    ASSUME FestivalInv, NEW r \in Requests, ImportingStep(r)
    PROVE  FestivalInv'
  <1>1. TypeOK'
    BY ImportType DEF FestivalInv, ImportingStep
  <1>2. StepsInv' /\ LocksInv' /\ GroupsInv' /\ ReplacedInv' /\ ImagesAreOfTheText'
    BY <1>1, StartImportKeeps, ReadIdsKeeps, PickRowKeeps, InsertKeeps, UpdateRowsKeeps, SeeImagesKeeps,
       ReplaceImagesKeeps, RowEndsKeeps, EndKeeps DEF ImportingStep
  <1>. QED BY <1>1, <1>2 DEF FestivalInv

\* The invariant is inductive.
LEMMA FestivalStep == FestivalInv /\ [Next]_vars => FestivalInv'
  <1>. SUFFICES ASSUME FestivalInv, [Next]_vars PROVE FestivalInv'
    OBVIOUS
  <1>1. CASE UNCHANGED vars
    BY <1>1 DEF FestivalInv, vars, TypeOK, StepsInv, LocksInv, GroupsInv, ReplacedInv,
       ImagesAreOfTheText, Holds, Importing
  <1>2. CASE \E r \in Requests : CollectingStep(r)
    BY <1>2, CollectingIsQuiet, QuietKeeps DEF FestivalInv
  <1>3. CASE \E r \in Requests : ImportingStep(r)
    BY <1>3, ImportingKeeps
  <1>4. CASE Crash
    BY <1>4, CrashKeeps
  <1>. QED BY <1>1, <1>2, <1>3, <1>4, NextCases

\* It holds at the start.
LEMMA FestivalInit == Init => FestivalInv
  <1>. SUFFICES ASSUME Init PROVE FestivalInv
    OBVIOUS
  <1>1. TypeOK
    BY IdleType DEF Init, TypeOK
  <1>2. StepsInv /\ LocksInv /\ GroupsInv /\ ReplacedInv
    BY DEF Init, StepsInv, LocksInv, GroupsInv, ReplacedInv, Holds, Importing, ImportSteps, Idle
  <1>3. ImagesAreOfTheText
    BY DEF Init, ImagesAreOfTheText, Empty
  <1>. QED BY <1>1, <1>2, <1>3 DEF FestivalInv

\* The invariant of an import (FestivalInv): its steps, the locks of its rows, and what it
\* has seen and deleted of their images.
THEOREM FestivalsHold == Spec => []FestivalInv
  <1>. QED BY FestivalInit, FestivalStep, PTL DEF Spec

\* Files, pins, images, Redis rows and requests are of their types.
THEOREM TypeCorrect == Spec => []TypeOK
  <1>1. FestivalInv => TypeOK
    BY DEF FestivalInv
  <1>. QED BY <1>1, FestivalsHold, PTL

\* A pin's images are those of the row its text comes from, inserted once, whatever
\* imports and updates overlap and fail (_insert_festival_pin, _update_festival_pin).
THEOREM ImagesMatch == Spec => []ImagesAreOfTheText
  <1>1. FestivalInv => ImagesAreOfTheText
    BY DEF FestivalInv
  <1>. QED BY <1>1, FestivalsHold, PTL

-----------------------------------------------------------------------------
(* Redis *)

\* What is published next, and where: f of request r.
Publishing(r, f) == req[r].pc = "publish" /\ req[r].draft[f] # None

\* The steps between the start of an import and its commit leave pins and Redis alone, and
\* publish nothing.
RowStep(r) ==
    ReadIds(r) \/ PickRow(r) \/ Insert(r) \/ UpdateRows(r) \/ SeeImages(r) \/ ReplaceImages(r)
    \/ RowFails(r) \/ RowRefused(r)

\* Neither pins nor Redis change before the commit.
LEMMA RowStepMoves ==
    ASSUME TypeOK, StepsInv, NEW r \in Requests, RowStep(r)
    PROVE  /\ UNCHANGED <<pins, cache, orderly>>
           /\ req'[r].pc # "publish" /\ req[r].pc # "publish" /\ req'[r].kind = req[r].kind
           /\ \A s \in Requests \ {r} : req'[s] = req[s]
  <1>1. UNCHANGED <<cache, orderly>> /\ req[r].pc # "publish"
    BY DEF RowStep, ReadIds, PickRow, Insert, UpdateRows, SeeImages, ReplaceImages, RowFails,
       RowRefused, RowEnds
  <1>2. Others(r) /\ req'[r].pc # "publish"
    BY ReadIdsMoves, PickRowMoves, InsertMoves, UpdateRowsMoves, SeeImagesMoves, ReplaceImagesMoves,
       RowEndsMoves
       DEF RowStep
  <1>. QED BY <1>1, <1>2 DEF Others

\* An import starts as the only one, or history tells.
LEMMA StartImportMoves ==
    ASSUME TypeOK, NEW r \in Requests, StartImport(r)
    PROVE  /\ UNCHANGED <<pins, cache>>
           /\ req'[r].pc = "ids" /\ req'[r].kind = "import" /\ req[r] = Idle
           /\ \A s \in Requests \ {r} : req'[s] = req[s]
           /\ orderly' => orderly /\ \A s \in Requests : ~ Importing(s)
  BY DEF StartImport, Database, TypeOK, Idle

\* What a step does to those that are about to publish, and to Redis.
LEMMA Publishers ==
    ASSUME FestivalInv, [Next]_vars
    PROVE  \/ /\ UNCHANGED <<pins, cache>>
              /\ \A r \in Requests : req'[r].pc = "publish" => req[r].pc = "publish" /\ req'[r].draft = req[r].draft
           \/ \E r \in Requests :
                /\ Commit(r) \/ CommitFails(r) \/ Publish(r) \/ PublishFails(r)
                /\ \A s \in Requests \ {r} : req'[s] = req[s]
  <1>. USE DEF FestivalInv
  <1>1. CASE UNCHANGED vars
    BY <1>1 DEF vars
  <1>2. ASSUME NEW r \in Requests, CollectingStep(r)
        PROVE  /\ UNCHANGED <<pins, cache>>
               /\ \A s \in Requests : req'[s].pc = "publish" => req[s].pc = "publish" /\ req'[s].draft = req[s].draft
    BY <1>2, CollectingIsQuiet DEF QuietStep, Import, NoImport, ImportSteps, Database
  <1>3. ASSUME NEW r \in Requests, StartImport(r) \/ RowStep(r)
        PROVE  /\ UNCHANGED <<pins, cache>>
               /\ \A s \in Requests : req'[s].pc = "publish" => req[s].pc = "publish" /\ req'[s].draft = req[s].draft
    BY <1>3, RowStepMoves, StartImportMoves
  <1>4. ASSUME NEW r \in Requests, Commit(r) \/ CommitFails(r) \/ Publish(r) \/ PublishFails(r)
        PROVE  \A s \in Requests \ {r} : req'[s] = req[s]
    BY <1>4 DEF Commit, CommitFails, Publish, PublishFails, TypeOK
  <1>5. CASE Crash
    <2>1. UNCHANGED <<pins, cache>> /\ \A s \in Requests : req'[s] = Idle
      BY <1>5 DEF Crash, Database
    <2>. QED BY <2>1 DEF Idle
  <1>. QED BY <1>1, <1>2, <1>3, <1>4, <1>5, NextCases DEF ImportingStep, RowStep

\* What is published has a pin.
LEMMA PublishStep == FestivalInv /\ PublishInv /\ CacheShowsPins /\ [Next]_vars => PublishInv' /\ CacheShowsPins'
  <1>. SUFFICES ASSUME FestivalInv, PublishInv, CacheShowsPins, [Next]_vars PROVE PublishInv' /\ CacheShowsPins'
    OBVIOUS
  <1>1. CASE /\ UNCHANGED <<pins, cache>>
             /\ \A r \in Requests : req'[r].pc = "publish" => req[r].pc = "publish" /\ req'[r].draft = req[r].draft
    BY <1>1 DEF PublishInv, CacheShowsPins
  <1>2. ASSUME NEW r \in Requests, Commit(r) \/ CommitFails(r), \A s \in Requests \ {r} : req'[s] = req[s]
        PROVE  PublishInv' /\ CacheShowsPins'
    <2>1. UNCHANGED cache /\ req[r].pc = "rows" /\ (UNCHANGED pins \/ Committed(r))
      BY <1>2 DEF Commit, CommitFails, Database
    <2>2. \A f \in Festivals :
            (pins[f] # None => pins'[f] # None) /\ (Committed(r) /\ f \in Drafted(r) => pins'[f] # None)
      BY <2>1, CommittedType DEF FestivalInv, Drafted, Known
    <2>3. \/ req'[r] = Idle
          \/ /\ req'[r].pc = "publish" /\ req'[r].draft = req[r].draft
             /\ Committed(r)
      BY <1>2 DEF Commit, CommitFails, FestivalInv, TypeOK, Idle
    <2>4. req'[r].pc = "publish" => Committed(r) /\ req'[r].draft = req[r].draft
      BY <2>3 DEF Idle
    <2>5. PublishInv'
      BY <1>2, <2>2, <2>4 DEF PublishInv, Drafted, Known
    <2>6. CacheShowsPins'
      BY <2>1, <2>2 DEF CacheShowsPins
    <2>. QED BY <2>5, <2>6
  <1>3. ASSUME NEW r \in Requests, Publish(r) \/ PublishFails(r), \A s \in Requests \ {r} : req'[s] = req[s]
        PROVE  PublishInv' /\ CacheShowsPins'
    <2>1. UNCHANGED pins /\ req[r].pc = "publish" /\ req'[r] = Idle
      BY <1>3 DEF Publish, PublishFails, Database, FestivalInv, TypeOK
    <2>2. \A f \in Festivals : cache'[f] = cache[f] \/ (f \in Drafted(r) /\ cache'[f] = req[r].draft[f])
      BY <1>3 DEF Publish, PublishFails
    <2>3. PublishInv'
      BY <1>3, <2>1 DEF PublishInv, Idle
    <2>4. CacheShowsPins'
      BY <2>1, <2>2 DEF PublishInv, CacheShowsPins, Drafted, Known
    <2>. QED BY <2>3, <2>4
  <1>. QED BY <1>1, <1>2, <1>3, Publishers

\* Redis shows nothing that is not in the database: a position is published only after the
\* commit, and no pin is ever taken back (_import_handoff_rows).
THEOREM RedisShowsPins == Spec => []CacheShowsPins
  <1>1. Init => PublishInv /\ CacheShowsPins
    BY DEF Init, PublishInv, CacheShowsPins, Idle, Empty
  <1>2. Spec => [](PublishInv /\ CacheShowsPins)
    BY <1>1, FestivalsHold, PublishStep, PTL DEF Spec
  <1>. QED BY <1>2, PTL

\* Unless imports overlapped or a publication was lost, nobody else imports, and what is
\* published is all that Redis lacks.
LEMMA CurrentStep == FestivalInv /\ CurrentInv /\ [Next]_vars => CurrentInv'
  <1>. SUFFICES ASSUME FestivalInv, CurrentInv, [Next]_vars, orderly' PROVE CurrentInv'
    BY DEF CurrentInv
  <1>1. CASE UNCHANGED vars
    BY <1>1 DEF vars, CurrentInv, Importing
  <1>2. ASSUME NEW r \in Requests, CollectingStep(r)
        PROVE  CurrentInv'
    <2>1. UNCHANGED <<pins, cache, orderly>>
      BY <1>2, CollectingIsQuiet DEF QuietStep, FestivalInv, Database
    <2>2. \A s \in Requests : /\ (Importing(s)' <=> Importing(s))
                              /\ (req'[s].pc = "publish" <=> req[s].pc = "publish")
                              /\ (req'[s].pc = "publish" => req'[s].draft = req[s].draft)
      BY <1>2, CollectingIsQuiet DEF QuietStep, FestivalInv, Import, NoImport, ImportSteps, Importing
    <2>. QED BY <2>1, <2>2 DEF CurrentInv
  <1>3. ASSUME NEW r \in Requests, RowStep(r)
        PROVE  CurrentInv'
    <2>1. UNCHANGED <<pins, cache, orderly>>
      BY <1>3, RowStepMoves DEF FestivalInv
    <2>2. \A s \in Requests : /\ (Importing(s)' <=> Importing(s))
                              /\ (req'[s].pc = "publish" <=> req[s].pc = "publish")
                              /\ (req'[s].pc = "publish" => req'[s].draft = req[s].draft)
      BY <1>3, RowStepMoves DEF FestivalInv, Importing
    <2>. QED BY <2>1, <2>2 DEF CurrentInv
  <1>4. ASSUME NEW r \in Requests, StartImport(r)
        PROVE  CurrentInv'
    BY <1>4, StartImportMoves DEF CurrentInv, FestivalInv, Importing, Idle
  <1>5. ASSUME NEW r \in Requests, Commit(r) \/ CommitFails(r)
        PROVE  CurrentInv'
    <2>1. req[r].pc = "rows" /\ orderly /\ UNCHANGED cache /\ Importing(r)
      BY <1>5 DEF Commit, CommitFails, FestivalInv, StepsInv, ImportSteps
    <2>2. \A s \in Requests \ {r} : req'[s] = req[s] /\ ~ Importing(s) /\ req[s].pc # "publish"
      BY <1>5, <2>1 DEF Commit, CommitFails, FestivalInv, TypeOK, StepsInv, ImportSteps, CurrentInv
    <2>3. \A f \in Festivals : cache[f] = pins[f]
      BY <2>1, <2>2 DEF CurrentInv
    <2>4. CASE Commit(r)
      <3>1. req'[r].pc = "publish" /\ req'[r].draft = req[r].draft /\ Importing(r)'
        BY <2>4 DEF Commit, FestivalInv, TypeOK, Idle, Importing
      <3>2. \A f \in Festivals : IF f \in Drafted(r) THEN pins'[f] = req[r].draft[f] /\ req[r].draft[f] # None
                                 ELSE pins'[f] = pins[f] /\ req[r].draft[f] = None
        BY <2>4, CommittedType DEF Commit, FestivalInv, Drafted, Known
      <3>. QED BY <2>1, <2>2, <2>3, <3>1, <3>2 DEF CurrentInv, Importing
    <2>5. CASE CommitFails(r)
      <3>1. req'[r] = Idle /\ UNCHANGED pins
        BY <2>5 DEF CommitFails, FestivalInv, TypeOK, Database
      <3>. QED BY <2>1, <2>2, <2>3, <3>1 DEF CurrentInv, Importing, Idle
    <2>. QED BY <1>5, <2>4, <2>5
  <1>6. ASSUME NEW r \in Requests, Publish(r) \/ PublishFails(r)
        PROVE  CurrentInv'
    <2>1. Publish(r) /\ orderly
      BY <1>6 DEF Publish, PublishFails
    <2>2. req[r].pc = "publish" /\ Importing(r) /\ req'[r] = Idle /\ UNCHANGED <<pins, orderly>>
          /\ \A s \in Requests \ {r} : req'[s] = req[s] /\ ~ Importing(s) /\ req[s].pc # "publish"
      BY <2>1 DEF Publish, FestivalInv, TypeOK, StepsInv, ImportSteps, CurrentInv, Database
    <2>3. \A f \in Festivals : cache'[f] = IF f \in Drafted(r) THEN req[r].draft[f] ELSE cache[f]
      BY <2>1 DEF Publish
    <2>4. \A f \in Festivals : cache'[f] = pins[f]
      BY <2>1, <2>2, <2>3 DEF CurrentInv, Drafted, Known
    <2>. QED BY <2>2, <2>4 DEF CurrentInv, Importing, Idle
  <1>7. CASE Crash
    <2>1. orderly /\ \A s \in Requests : req[s].pc # "publish" /\ req'[s] = Idle
      BY <1>7 DEF Crash
    <2>2. UNCHANGED <<cache, pins>>
      BY <1>7 DEF Crash, Database
    <2>. QED BY <2>1, <2>2 DEF CurrentInv, Importing, Idle
  <1>. QED BY <1>1, <1>2, <1>3, <1>4, <1>5, <1>6, <1>7, NextCases DEF ImportingStep, RowStep

\* Unless imports overlapped or a publication was lost, Redis shows what the database
\* holds whenever no import is about to publish (_import_handoff_rows, add_pins_batch).
THEOREM RedisIsCurrent == Spec => []SerialCacheIsCurrent
  <1>1. Init => CurrentInv
    BY DEF Init, CurrentInv, Importing, Idle, Empty
  <1>2. CurrentInv => SerialCacheIsCurrent
    BY DEF CurrentInv, SerialCacheIsCurrent
  <1>. QED BY <1>1, <1>2, FestivalsHold, CurrentStep, PTL DEF Spec

-----------------------------------------------------------------------------
(* The documents *)

\* What a step means for the fetches under way: the documents a clean one knows stay, and
\* it still knows all of them.
Kept ==
    \A r \in Requests : req[r].kind = "fetch" /\ ~ req[r].dirty /\ ~ req'[r].dirty
      => \A f \in Known(documents) : documents'[f] = documents[f]

\* A request that is no fetch afterwards, while the file stays.
LEMMA FileStays ==
    ASSUME CopyInv, UNCHANGED documents,
           \A s \in Requests : req'[s] = req[s] \/ req'[s].kind # "fetch"
    PROVE  Kept /\ CopyInv'
  BY DEF Kept, CopyInv, Known

\* A request that is no fetch writes the file: every fetch that sees a change becomes dirty.
LEMMA OthersWrite ==
    ASSUME TypeOK, CopyInv, NEW r \in Requests, NEW file \in File, NEW next \in RequestStates,
           SaveDocuments(r, file, next)
    PROVE  \A s \in Requests \ {r} :
             /\ req[s].kind = "fetch" /\ ~ req[s].dirty /\ ~ req'[s].dirty
                  => \A f \in Known(documents) : documents'[f] = documents[f]
             /\ req'[s].kind = "fetch" /\ ~ req'[s].dirty
                  => \A f \in Known(documents') : req'[s].copy[f] = documents'[f]
  <1>. SUFFICES ASSUME NEW s \in Requests \ {r}
       PROVE  /\ req[s].kind = "fetch" /\ ~ req[s].dirty /\ ~ req'[s].dirty
                   => \A f \in Known(documents) : documents'[f] = documents[f]
              /\ req'[s].kind = "fetch" /\ ~ req'[s].dirty
                   => \A f \in Known(documents') : req'[s].copy[f] = documents'[f]
    OBVIOUS
  <1>1. Alike(s) /\ (req[s].kind = "fetch" /\ ~ req'[s].dirty => documents' = documents)
    BY Saved
  <1>2. req[s] \in RequestStates
    BY DEF TypeOK
  <1>3. req'[s].kind = req[s].kind /\ req'[s].copy = req[s].copy /\ (~ req'[s].dirty => ~ req[s].dirty)
    BY <1>1, <1>2 DEF Alike, RequestStates
  <1>. QED BY <1>1, <1>3 DEF CopyInv, Known

\* The steps that write the documents file.
LEMMA CollectingKeeps ==
    ASSUME FestivalInv, CopyInv, NEW r \in Requests, CollectingStep(r)
    PROVE  Kept /\ CopyInv'
  <1>. USE DEF FestivalInv
  <1>1. CASE StartFetch(r)
    <2>1. UNCHANGED documents /\ req'[r].copy = documents /\ req[r] = Idle
          /\ \A s \in Requests \ {r} : req'[s] = req[s]
      BY <1>1 DEF StartFetch, TypeOK, Idle
    <2>. QED BY <2>1 DEF Kept, CopyInv, Known, Idle
  <1>2. CASE StartSearch(r) \/ FetchFails(r) \/ StartTransform(r) \/ Transform(r)
    <2>1. UNCHANGED documents /\ \A s \in Requests : req'[s] = req[s] \/ req'[s].kind # "fetch"
      <3>1. UNCHANGED documents
        BY <1>2 DEF StartSearch, FetchFails, StartTransform, Transform
      <3>2. \E next : next.kind # "fetch" /\ req' = [req EXCEPT ![r] = next]
        <4>1. CASE StartSearch(r)
          BY <4>1 DEF StartSearch, Idle
        <4>2. CASE FetchFails(r) \/ Transform(r)
          BY <4>2 DEF FetchFails, Transform, Idle
        <4>3. CASE StartTransform(r)
          BY <4>3 DEF StartTransform, Idle
        <4>. QED BY <1>2, <4>1, <4>2, <4>3
      <3>. QED BY <3>1, <3>2 DEF TypeOK
    <2>. QED BY <2>1, FileStays
  <1>3. CASE FetchPage(r)
    <2>1. PICK page \in PagesRead(r) : SaveDocuments(r, page.copy, AfterFetch(r, page))
      BY <1>3 DEF FetchPage
    <2>2. page.copy \in File /\ AfterFetch(r, page) \in RequestStates
      BY PageAdds, AfterFetchType
    <2>3. documents' = page.copy /\ req'[r] = AfterFetch(r, page)
      BY <2>1, <2>2, Saved
    <2>4. req'[r].copy = documents'
      BY <2>3, AfterFetchType
    <2>5. req[r].kind = "fetch" /\ ~ req[r].dirty => \A f \in Known(documents) : documents'[f] = documents[f]
      BY <2>3, PageAdds DEF CopyInv, Known
    <2>. QED BY <2>1, <2>2, <2>4, <2>5, OthersWrite DEF Kept, CopyInv, Known
  <1>5. CASE FetchEnd(r)
    <2>1. SaveDocuments(r, req[r].copy, Idle) /\ req[r].copy \in File
      BY <1>5 DEF FetchEnd, TypeOK, RequestStates
    <2>2. documents' = req[r].copy /\ req'[r] = Idle
      BY <2>1, IdleType, Saved
    <2>3. req[r].kind = "fetch" /\ ~ req[r].dirty => \A f \in Known(documents) : documents'[f] = documents[f]
      BY <2>2 DEF CopyInv, Known
    <2>4. req'[r].kind # "fetch"
      BY <2>2 DEF Idle
    <2>. QED BY <2>1, <2>3, <2>4, IdleType, OthersWrite DEF Kept, CopyInv, Known
  <1>4. CASE SearchPage(r) \/ SearchBreaks(r) \/ Reset(r)
    <2>1. req[r].kind # "fetch"
      BY <1>4 DEF SearchPage, SearchBreaks, Reset, Idle
    <2>2. \/ \E file \in File : SaveDocuments(r, file, Idle)
          \/ /\ UNCHANGED documents
             /\ \E page \in PagesRead(r) : req' = [req EXCEPT ![r] = AfterPage(r, page)]
      <3>1. req[r].copy \in File
        BY DEF TypeOK, RequestStates
      <3>. QED BY <1>4, <3>1, PageAdds, IdleType DEF SearchPage, SearchBreaks, Reset
    <2>3. CASE \E file \in File : SaveDocuments(r, file, Idle)
      <3>1. PICK file \in File : SaveDocuments(r, file, Idle)
        BY <2>3
      <3>2. req'[r].kind # "fetch"
        BY <3>1, IdleType, Saved DEF Idle
      <3>. QED BY <2>1, <3>1, <3>2, IdleType, OthersWrite DEF Kept, CopyInv
    <2>4. CASE UNCHANGED documents /\ \E page \in PagesRead(r) : req' = [req EXCEPT ![r] = AfterPage(r, page)]
      <3>1. PICK page \in PagesRead(r) : req' = [req EXCEPT ![r] = AfterPage(r, page)]
        BY <2>4
      <3>2. req'[r] = AfterPage(r, page) /\ \A s \in Requests \ {r} : req'[s] = req[s]
        BY <3>1 DEF TypeOK
      <3>3. AfterPage(r, page).kind \in {"none", req[r].kind}
        <4>1. CASE AfterPage(r, page) = Idle
          BY <4>1 DEF Idle
        <4>2. CASE AfterPage(r, page).kind = req[r].kind
          BY <4>2
        <4>. QED BY <4>1, <4>2, AfterPageType
      <3>4. req'[r].kind # "fetch"
        BY <2>1, <3>2, <3>3
      <3>. QED BY <2>4, <3>2, <3>4, FileStays
    <2>. QED BY <2>2, <2>3, <2>4
  <1>. QED BY <1>1, <1>2, <1>3, <1>4, <1>5 DEF CollectingStep

\* Every step keeps what the fetches know.
LEMMA DocumentsStep == FestivalInv /\ CopyInv /\ [Next]_vars => CopyInv' /\ [Kept]_vars
  <1>. SUFFICES ASSUME FestivalInv, CopyInv, [Next]_vars PROVE CopyInv' /\ [Kept]_vars
    OBVIOUS
  <1>1. CASE UNCHANGED vars
    BY <1>1 DEF vars, CopyInv, Known
  <1>2. CASE \E r \in Requests : CollectingStep(r)
    BY <1>2, CollectingKeeps
  <1>3. ASSUME NEW r \in Requests, ImportingStep(r)
        PROVE  CopyInv' /\ Kept
    <2>1. UNCHANGED documents
      BY <1>3 DEF ImportingStep, StartImport, ReadIds, PickRow, Insert, UpdateRows, SeeImages,
         ReplaceImages,
                  RowFails, RowRefused, RowEnds, Commit, CommitFails, Publish, PublishFails
    <2>2. CASE StartImport(r) \/ RowStep(r)
      <3>1. req'[r].kind # "fetch" /\ \A s \in Requests \ {r} : req'[s] = req[s]
        <4>1. CASE StartImport(r)
          BY <4>1, StartImportMoves DEF FestivalInv
        <4>2. CASE RowStep(r)
          <5>1. req[r].kind = "import"
            BY <4>2 DEF RowStep, ReadIds, PickRow, Insert, UpdateRows, SeeImages, ReplaceImages,
               RowFails,
                        RowRefused, FestivalInv, StepsInv, ImportSteps, Importing
          <5>. QED BY <4>2, <5>1, RowStepMoves DEF FestivalInv
        <4>. QED BY <2>2, <4>1, <4>2
      <3>. QED BY <2>1, <3>1, FileStays
    <2>3. CASE Commit(r) \/ CommitFails(r) \/ Publish(r) \/ PublishFails(r)
      <3>1. req'[r].kind # "fetch" /\ \A s \in Requests \ {r} : req'[s] = req[s]
        <4>1. req' = [req EXCEPT ![r] = Idle] \/
              req' = [req EXCEPT ![r] = [Idle EXCEPT !.kind = "import", !.pc = "publish", !.draft = req[r].draft]]
          BY <2>3 DEF Commit, CommitFails, Publish, PublishFails
        <4>2. \E next : next.kind # "fetch" /\ req' = [req EXCEPT ![r] = next]
          BY <4>1 DEF Idle
        <4>. QED BY <4>2 DEF FestivalInv, TypeOK
      <3>. QED BY <2>1, <3>1, FileStays
    <2>. QED BY <1>3, <2>2, <2>3 DEF ImportingStep, RowStep
  <1>4. CASE Crash
    <2>1. UNCHANGED documents /\ \A s \in Requests : req'[s].kind # "fetch"
      BY <1>4 DEF Crash, Idle
    <2>. QED BY <2>1, FileStays
  <1>. QED BY <1>1, <1>2, <1>3, <1>4, NextCases

\* fetch_and_save only adds: while it runs every document stays as it is, unless somebody
\* else has written the file since the page before.
THEOREM DocumentsStay == Spec => FetchKeepsDocuments
  <1>1. Init => CopyInv
    BY DEF Init, CopyInv, Idle
  <1>2. Spec => [][Kept]_vars
    BY <1>1, FestivalsHold, DocumentsStep, PTL DEF Spec
  <1>. QED BY <1>2 DEF FetchKeepsDocuments, Kept
=============================================================================
