-------------------------- MODULE EventPins_proofs --------------------------
(***************************************************************************)
(* What holds of policies and contests on their way to a pin, whatever     *)
(* fails.  EventIngest, for any number of documents and of overlapping     *)
(* operations: one pin per document, and no document is removed from the   *)
(* files before it is imported or expired.  CardDeck, for any answers of   *)
(* the LLM, any pipeline and any number of transforms: the card news of a  *)
(* document begins and ends as it should, and its row lists what the       *)
(* objects show.                                                           *)
(***************************************************************************)
EXTENDS EventIngest, CardDeck, FiniteSetTheorems, TLAPS

USE IngestAssumption

----------------------------------------------------------------------------
(* Types.                                                                   *)

\* A batch of a sync is not larger than it may be.
Fits(s) == s.kind = "sync" /\ s.pc \in {"llm", "insert"} => Cardinality(s.work) <= Batch

Values ==
    /\ setup \in Setups
    /\ documents \subseteq Docs /\ handoff \subseteq Docs /\ fetched \subseteq Docs
    /\ pins \in [Docs -> Nat]
    /\ expired \subseteq Expiring
    /\ stale \in BOOLEAN
    /\ faults \in 0 .. MaxFaults

OpsFit == op \in [Ops -> OpState] /\ \A o \in Ops : Fits(op[o])

\* The type invariant in two parts: the shared state, and the operations.
LEMMA TypeOKIsValuesAndFit == TypeOK <=> Values /\ OpsFit
  BY DEF TypeOK, Values, OpsFit, Fits

\* A fresh operation is one.
LEMMA FreshType ==
  ASSUME NEW pc \in Phases
  PROVE  Fresh(pc) \in OpState
  BY DEF Fresh, OpState, Kinds, Modes

\* A step of one operation leaves the others fitting.
LEMMA GoFits ==
  ASSUME OpsFit, NEW o \in Ops, NEW s \in OpState, Fits(s), Go(o, s)
  PROVE  OpsFit'
  BY DEF OpsFit, Go

\* So does its end.
LEMMA EndFits ==
  ASSUME OpsFit, NEW o \in Ops, End(o)
  PROVE  OpsFit'
<1>1. Fresh(IF o \in Daily THEN "idle" ELSE "ended") \in OpState
  BY FreshType DEF Phases
<1>2. Fits(Fresh(IF o \in Daily THEN "idle" ELSE "ended"))
  BY DEF Fits, Fresh
<1> QED
  BY <1>1, <1>2, GoFits DEF End

\* A smaller batch fits as well.
LEMMA SmallerFits ==
  ASSUME NEW s \in OpState, NEW t \in OpState, Fits(s), t.work \subseteq s.work,
         t.kind = s.kind, t.pc = s.pc
  PROVE  Fits(t)
<1>1. IsFiniteSet(s.work)
  BY FS_Subset DEF OpState
<1>2. Cardinality(t.work) <= Cardinality(s.work)
  BY <1>1, FS_Subset
<1>3. Cardinality(t.work) \in Nat /\ Cardinality(s.work) \in Nat
  BY <1>1, FS_Subset, FS_CardinalityType
<1> QED
  BY <1>2, <1>3 DEF Fits

\* A portion of rows is of them, and in a sync no larger than a batch.
LEMMA PortionsFit ==
  ASSUME NEW rows \in SUBSET Docs, NEW kind, NEW p \in Portions(rows, kind)
  PROVE  p \subseteq rows /\ (kind = "sync" => Cardinality(p) <= Batch)
<1>1. Cardinality(rows) \in Nat
  BY FS_Subset, FS_CardinalityType
<1> QED
  BY <1>1 DEF Portions

\* The types hold at first.
LEMMA InitType == Init => TypeOK
<1> SUFFICES ASSUME Init PROVE TypeOK
  OBVIOUS
<1>1. Values
  <2>1. 0 \in 0 .. MaxFaults
    OBVIOUS
  <2>2. [d \in Docs |-> 0] \in [Docs -> Nat]
    OBVIOUS
  <2> QED
    BY <2>1, <2>2 DEF Init, Values
<1>2. Fresh("idle") \in OpState /\ Fits(Fresh("idle"))
  BY FreshType DEF Phases, Fits, Fresh
<1>3. OpsFit
  BY <1>2 DEF Init, OpsFit
<1> QED
  BY <1>1, <1>3, TypeOKIsValuesAndFit

\* Pruning keeps the types.
LEMMA PruneType ==
  ASSUME TypeOK, NEW o \in Ops, Prune(o)
  PROVE  TypeOK'
<1> Values /\ OpsFit
  BY TypeOKIsValuesAndFit
<1> op[o] \in OpState
  BY DEF OpsFit
<1> USE DEF Phases, PrunePhases
<1>1. ASSUME Pruned(o) PROVE OpsFit'
  <2>1. CASE op[o].mode = "sweep"
    <3>1. Fresh("fetch") \in OpState /\ Fits(Fresh("fetch"))
      BY FreshType DEF Fits, Fresh
    <3> QED
      BY <1>1, <2>1, <3>1, GoFits DEF Pruned
  <2>2. CASE op[o].mode # "sweep"
    <3> DEFINE s == [op[o] EXCEPT !.pc = "imported", !.seen = {}, !.doomed = {}]
    <3>1. s \in OpState /\ Fits(s)
      BY DEF OpState, Fits
    <3> QED
      BY <1>1, <2>2, <3>1, GoFits DEF Pruned
  <2> QED
    BY <2>1, <2>2
<1>2. CASE PruneReadDocuments(o)
  <2> DEFINE s == IF documents \cap op[o].doomed = {}
                  THEN [op[o] EXCEPT !.pc = "pruneHandoff"]
                  ELSE [op[o] EXCEPT !.pc = "pruneDocuments", !.seen = documents]
  <2>1. s \in OpState /\ Fits(s)
    BY DEF OpState, Fits, Values
  <2>2. OpsFit'
    BY <1>2, <2>1, GoFits DEF PruneReadDocuments
  <2> QED
    BY <1>2, <2>2 DEF PruneReadDocuments, Values, OpsFit, Fits, TypeOK
<1>3. CASE PruneWriteDocuments(o)
  <2> DEFINE s == [op[o] EXCEPT !.pc = "pruneHandoff", !.seen = {}]
  <2>1. s \in OpState /\ Fits(s)
    BY DEF OpState, Fits
  <2>2. OpsFit'
    BY <1>3, <2>1, GoFits DEF PruneWriteDocuments
  <2>3. documents' \subseteq Docs /\ stale' \in BOOLEAN
    BY <1>3 DEF PruneWriteDocuments, SaveDocuments, OpState, Values
  <2> QED
    BY <1>3, <2>2, <2>3 DEF PruneWriteDocuments, Values, OpsFit, Fits, TypeOK
<1>4. CASE PruneReadHandoff(o)
  <2> DEFINE s == [op[o] EXCEPT !.pc = "pruneRows", !.seen = handoff]
  <2>1. s \in OpState /\ Fits(s)
    BY DEF OpState, Fits, Values
  <2>2. OpsFit'
    BY <1>1, <1>4, <2>1, GoFits DEF PruneReadHandoff
  <2> QED
    BY <1>4, <2>2 DEF PruneReadHandoff, Values, OpsFit, Fits, TypeOK
<1>5. CASE PruneWriteHandoff(o)
  <2>1. handoff' \subseteq Docs
    BY <1>5 DEF PruneWriteHandoff, OpState, Values
  <2> QED
    BY <1>1, <1>5, <2>1 DEF PruneWriteHandoff, Values, OpsFit, Fits, TypeOK
<1> QED
  BY <1>2, <1>3, <1>4, <1>5 DEF Prune

\* So do the start of an operation and the fetch.
LEMMA BeginAndFetchType ==
  ASSUME TypeOK, NEW o \in Ops,
         BeginSync(o) \/ BeginStep(o) \/ FetchLoad(o) \/ FetchSave(o)
  PROVE  TypeOK'
<1> Values /\ OpsFit
  BY TypeOKIsValuesAndFit
<1> op[o] \in OpState
  BY DEF OpsFit
<1> USE DEF Phases, PrunePhases
<1>1. Pinned \subseteq Docs
  BY DEF Pinned
<1>2. CASE BeginSync(o)
  <2>1. [Fresh("prune") EXCEPT !.mode = "sweep", !.doomed = Pinned] \in OpState
    BY <1>1, FreshType DEF OpState, Modes
  <2>2. Fits([Fresh("prune") EXCEPT !.mode = "sweep", !.doomed = Pinned])
    BY DEF Fits, Fresh
  <2>3. Fresh("fetch") \in OpState /\ Fits(Fresh("fetch"))
    BY FreshType DEF Fits, Fresh
  <2>4. OpsFit'
    BY <1>2, <2>1, <2>2, <2>3, GoFits DEF BeginSync
  <2> QED
    BY <1>2, <2>4 DEF BeginSync, Values, OpsFit, Fits, TypeOK
<1>3. CASE BeginStep(o)
  <2>1. [Fresh("fetch") EXCEPT !.kind = "fetch"] \in OpState
        /\ Fits([Fresh("fetch") EXCEPT !.kind = "fetch"])
    BY FreshType DEF OpState, Kinds, Fits, Fresh
  <2>2. [Fresh("import") EXCEPT !.kind = "import"] \in OpState
        /\ Fits([Fresh("import") EXCEPT !.kind = "import"])
    BY FreshType DEF OpState, Kinds, Fits, Fresh
  <2>3. ASSUME NEW ids \in {{}, Pinned}
        PROVE  [Fresh("transform") EXCEPT !.kind = "transform", !.known = ids] \in OpState
               /\ Fits([Fresh("transform") EXCEPT !.kind = "transform", !.known = ids])
    BY <1>1, FreshType DEF OpState, Kinds, Fits, Fresh
  <2>4. OpsFit'
    BY <1>3, <2>1, <2>2, <2>3, GoFits DEF BeginStep
  <2> QED
    BY <1>3, <2>4 DEF BeginStep, Values, OpsFit, Fits, TypeOK
<1>4. CASE FetchLoad(o)
  <2> DEFINE s == [op[o] EXCEPT !.pc = "merge", !.seen = documents, !.work = Docs \ expired]
  <2>1. s \in OpState /\ Fits(s)
    BY DEF OpState, Fits, Values
  <2>2. OpsFit'
    BY <1>4, <2>1, GoFits DEF FetchLoad
  <2> QED
    BY <1>4, <2>2 DEF FetchLoad, Values, OpsFit, Fits, TypeOK
<1>5. CASE FetchSave(o)
  <2>1. Fresh("known") \in OpState /\ Fits(Fresh("known"))
    BY FreshType DEF Fits, Fresh
  <2>2. OpsFit'
    BY <1>5, <2>1, GoFits, EndFits DEF FetchSave
  <2>3. documents' \subseteq Docs /\ fetched' \subseteq Docs /\ stale' \in BOOLEAN
    BY <1>5 DEF FetchSave, SaveDocuments, OpState, Values
  <2> QED
    BY <1>5, <2>2, <2>3 DEF FetchSave, Values, OpsFit, Fits, TypeOK
<1> QED
  BY <1>2, <1>3, <1>4, <1>5

\* So does saving what was transformed.
LEMMA TransformSaveType ==
  ASSUME TypeOK, NEW o \in Ops, NEW done \in SUBSET op[o].work, TransformSave(o, done),
         faults' \in 0 .. MaxFaults
  PROVE  TypeOK'
<1> Values /\ OpsFit
  BY TypeOKIsValuesAndFit
<1> op[o] \in OpState
  BY DEF OpsFit
<1> USE DEF Phases, PrunePhases
<1> DEFINE drain == [Fresh("drain") EXCEPT !.left = op[o].left]
           batch(mode) == [Fresh("import") EXCEPT !.mode = mode, !.known = op[o].known,
                                                  !.left = op[o].left]
<1>1. drain \in OpState /\ Fits(drain)
  BY FreshType DEF OpState, Fits, Fresh
<1>2. ASSUME NEW mode \in {"last", "batch"} PROVE batch(mode) \in OpState /\ Fits(batch(mode))
  BY FreshType DEF OpState, Modes, Fits, Fresh
<1>3. OpsFit'
  <2>1. CASE op[o].kind = "transform"
    BY <2>1, EndFits DEF TransformSave
  <2>2. CASE op[o].kind # "transform"
    <3> HIDE DEF drain, batch
    <3>1. Go(o, drain) \/ Go(o, batch("last")) \/ Go(o, batch("batch"))
      BY <2>2 DEF TransformSave, drain, batch
    <3> QED
      BY <1>1, <1>2, <3>1, GoFits
  <2> QED
    BY <2>1, <2>2
<1>4. handoff' \subseteq Docs
  BY DEF TransformSave, OpState, Values
<1> QED
  BY <1>3, <1>4 DEF TransformSave, Values, OpsFit, Fits, TypeOK

\* So do the steps of a transform.
LEMMA TransformType ==
  ASSUME TypeOK, NEW o \in Ops,
         ReadKnown(o) \/ TransformLoad(o) \/ Transform(o) \/ TransformPartly(o)
  PROVE  TypeOK'
<1> Values /\ OpsFit
  BY TypeOKIsValuesAndFit
<1> op[o] \in OpState
  BY DEF OpsFit
<1> USE DEF Phases, PrunePhases
<1>1. CASE ReadKnown(o)
  <2> DEFINE s == [op[o] EXCEPT !.pc = "transform", !.known = Pinned]
  <2>1. s \in OpState /\ Fits(s)
    BY DEF OpState, Fits, Pinned
  <2>2. OpsFit'
    BY <1>1, <2>1, GoFits DEF ReadKnown
  <2> QED
    BY <1>1, <2>2 DEF ReadKnown, Values, OpsFit, Fits, TypeOK
<1>2. CASE TransformLoad(o)
  <2> DEFINE pending == PendingTransform(documents, handoff, op[o].known)
  <2>1. pending \in SUBSET Docs
    BY DEF PendingTransform, Values
  <2>2. PICK p \in Portions(pending, op[o].kind) :
          Go(o, [op[o] EXCEPT !.pc = "llm", !.seen = documents, !.rows = handoff, !.work = p])
    BY <1>2 DEF TransformLoad
  <2> DEFINE s == [op[o] EXCEPT !.pc = "llm", !.seen = documents, !.rows = handoff, !.work = p]
  <2>3. p \subseteq pending /\ (op[o].kind = "sync" => Cardinality(p) <= Batch)
    BY <2>1, PortionsFit
  <2>4. s \in OpState /\ Fits(s)
    BY <2>1, <2>3 DEF OpState, Fits, Values
  <2>5. OpsFit'
    BY <2>2, <2>4, GoFits
  <2> QED
    BY <1>2, <2>5 DEF TransformLoad, Values, OpsFit, Fits, TypeOK
<1>3. CASE Transform(o)
  <2>1. faults' \in 0 .. MaxFaults
    BY <1>3 DEF Transform, Values
  <2> QED
    BY <1>3, <2>1, TransformSaveType DEF Transform
<1>4. CASE TransformPartly(o)
  <2>1. faults' \in 0 .. MaxFaults
    BY <1>4 DEF TransformPartly, Fault, Values
  <2> QED
    BY <1>4, <2>1, TransformSaveType DEF TransformPartly
<1> QED
  BY <1>1, <1>2, <1>3, <1>4

\* Of a batch that is being inserted, one row is done with.
LEMMA RowType ==
  ASSUME TypeOK, NEW o \in Ops, NEW d \in Docs,
         SkipExpired(o, d) \/ Insert(o, d) \/ InsertFails(o, d) \/ RowFails(o, d)
  PROVE  TypeOK'
<1> Values /\ OpsFit
  BY TypeOKIsValuesAndFit
<1>1. op[o] \in OpState /\ Fits(op[o])
  BY DEF OpsFit
<1> DEFINE skipped == [op[o] EXCEPT !.work = @ \ {d}, !.doomed = @ \cup {d}]
           inserted == [op[o] EXCEPT !.work = @ \ {d}, !.made = @ \cup {d},
                                     !.doomed = @ \cup {d}]
           failed == [op[o] EXCEPT !.work = @ \ {d}]
<1>2. skipped \in OpState /\ skipped.work \subseteq op[o].work
      /\ skipped.kind = op[o].kind /\ skipped.pc = op[o].pc
  BY <1>1 DEF OpState
<1>3. inserted \in OpState /\ inserted.work \subseteq op[o].work
      /\ inserted.kind = op[o].kind /\ inserted.pc = op[o].pc
  BY <1>1 DEF OpState
<1>4. failed \in OpState /\ failed.work \subseteq op[o].work
      /\ failed.kind = op[o].kind /\ failed.pc = op[o].pc
  BY <1>1 DEF OpState
<1>5. Go(o, skipped) \/ Go(o, inserted) \/ Go(o, failed)
  BY DEF SkipExpired, Insert, InsertFails, RowFails
<1> HIDE DEF skipped, inserted, failed
<1>6. OpsFit'
  BY <1>1, <1>2, <1>3, <1>4, <1>5, SmallerFits, GoFits
<1>7. faults' \in 0 .. MaxFaults
  BY DEF SkipExpired, Insert, InsertFails, RowFails, Fault, Values
<1> QED
  BY <1>6, <1>7 DEF SkipExpired, Insert, InsertFails, RowFails, Values, OpsFit, Fits, TypeOK

\* So do the steps that prepare an import.
LEMMA ImportType ==
  ASSUME TypeOK, NEW o \in Ops, ImportLoad(o) \/ ImportNothing(o) \/ Split(o)
  PROVE  TypeOK'
<1> Values /\ OpsFit
  BY TypeOKIsValuesAndFit
<1> op[o] \in OpState
  BY DEF OpsFit
<1> USE DEF Phases, PrunePhases
<1>1. CASE ImportLoad(o)
  <2> DEFINE s == [op[o] EXCEPT !.pc = "split", !.rows = handoff]
  <2>1. s \in OpState /\ Fits(s)
    BY DEF OpState, Fits, Values
  <2>2. OpsFit'
    BY <1>1, <2>1, GoFits DEF ImportLoad
  <2> QED
    BY <1>1, <2>2 DEF ImportLoad, Values, OpsFit, Fits, TypeOK
<1>2. CASE ImportNothing(o)
  <2> DEFINE s == [op[o] EXCEPT !.pc = "imported"]
  <2>1. s \in OpState /\ Fits(s)
    BY DEF OpState, Fits
  <2>2. OpsFit'
    BY <1>2, <2>1, GoFits, EndFits DEF ImportNothing
  <2> QED
    BY <1>2, <2>2 DEF ImportNothing, Values, OpsFit, Fits, TypeOK
<1>3. CASE Split(o)
  <2> DEFINE rows == op[o].rows \ Pinned
             doomed == op[o].rows \cap (Pinned \cup expired)
             waiting == rows \ expired
  <2>1. rows \subseteq Docs /\ doomed \subseteq Docs /\ waiting \in SUBSET Docs
    BY DEF OpState
  <2>2. PICK p \in Portions(waiting, op[o].kind) :
          Go(o, [op[o] EXCEPT !.pc = "insert", !.rows = rows, !.work = p, !.doomed = doomed])
    BY <1>3 DEF Split
  <2>3. p \subseteq Docs /\ (op[o].kind = "sync" => Cardinality(p) <= Batch)
    <3> HIDE DEF waiting
    <3> QED
      BY <2>1, PortionsFit
  <2> DEFINE s == [op[o] EXCEPT !.pc = "insert", !.rows = rows, !.work = p, !.doomed = doomed]
  <2>4. s \in OpState /\ Fits(s)
    BY <2>1, <2>3 DEF OpState, Fits
  <2>5. OpsFit'
    BY <2>2, <2>4, GoFits
  <2> QED
    BY <1>3, <2>5 DEF Split, Values, OpsFit, Fits, TypeOK
<1> QED
  BY <1>1, <1>2, <1>3

\* The pins after a commit are numbers of pins.
LEMMA CommittedType ==
  ASSUME TypeOK, NEW o \in Ops
  PROVE  Committed(o) \in [Docs -> Nat]
  BY DEF Committed, TypeOK

\* The commit and what follows it keep the types.
LEMMA CommitType ==
  ASSUME TypeOK, NEW o \in Ops, Commit(o) \/ Imported(o) \/ Drain(o)
  PROVE  TypeOK'
<1> Values /\ OpsFit
  BY TypeOKIsValuesAndFit
<1> op[o] \in OpState
  BY DEF OpsFit
<1> USE DEF Phases, PrunePhases
<1>1. CASE Commit(o)
  <2> DEFINE s == [op[o] EXCEPT !.pc = IF setup.prunes /\ op[o].doomed # {} THEN "prune"
                                       ELSE "imported"]
  <2>1. s \in OpState /\ Fits(s)
    BY DEF OpState, Fits
  <2>2. OpsFit'
    BY <1>1, <2>1, GoFits DEF Commit
  <2> QED
    BY <1>1, <2>2, CommittedType DEF Commit, Values, OpsFit, Fits, TypeOK
<1>2. CASE Imported(o)
  <2> DEFINE pending == PendingImport(o)
             again == [Fresh("transform") EXCEPT !.known = op[o].known \cup op[o].made,
                                                 !.left = pending]
             drain == [Fresh("drain") EXCEPT !.left = pending]
  <2>1. pending \in Nat
    <3>1. op[o].rows \ (op[o].made \cup expired) \in SUBSET Docs
      BY DEF OpState
    <3> QED
      BY <3>1, FS_Subset, FS_CardinalityType DEF PendingImport
  <2>2. again \in OpState /\ Fits(again)
    <3> HIDE DEF pending
    <3> QED
      BY <2>1, FreshType DEF OpState, Fits, Fresh
  <2>3. drain \in OpState /\ Fits(drain)
    <3> HIDE DEF pending
    <3> QED
      BY <2>1, FreshType DEF OpState, Fits, Fresh
  <2>4. End(o) \/ Go(o, again) \/ Go(o, drain)
    BY <1>2 DEF Imported
  <2>5. OpsFit'
    <3> HIDE DEF again, drain
    <3> QED
      BY <2>2, <2>3, <2>4, GoFits, EndFits
  <2> QED
    BY <1>2, <2>5 DEF Imported, Values, OpsFit, Fits, TypeOK
<1>3. CASE Drain(o)
  <2> DEFINE s == [op[o] EXCEPT !.pc = "import", !.mode = "drain"]
  <2>1. s \in OpState /\ Fits(s)
    BY DEF OpState, Modes, Fits
  <2>2. OpsFit'
    BY <1>3, <2>1, GoFits, EndFits DEF Drain
  <2> QED
    BY <1>3, <2>2 DEF Drain, Values, OpsFit, Fits, TypeOK
<1> QED
  BY <1>1, <1>2, <1>3

\* So do failures, a crash and a deadline that passes.
LEMMA FailureType ==
  ASSUME TypeOK, (\E o \in Ops : Fails(o) \/ CommitUnknown(o)) \/ Crash
                 \/ \E d \in Docs : Expire(d)
  PROVE  TypeOK'
<1> Values /\ OpsFit
  BY TypeOKIsValuesAndFit
<1>1. ASSUME Fault PROVE faults' \in 0 .. MaxFaults
  BY <1>1 DEF Fault, Values
<1>2. ASSUME NEW o \in Ops, Fails(o) PROVE TypeOK'
  <2>1. OpsFit'
    BY <1>2, EndFits DEF Fails
  <2> QED
    BY <1>1, <1>2, <2>1 DEF Fails, Values, OpsFit, Fits, TypeOK
<1>3. ASSUME NEW o \in Ops, CommitUnknown(o) PROVE TypeOK'
  <2>1. OpsFit'
    BY <1>3, EndFits DEF CommitUnknown
  <2> QED
    BY <1>1, <1>3, <2>1, CommittedType DEF CommitUnknown, Values, OpsFit, Fits, TypeOK
<1>4. CASE Crash
  <2>1. Fresh("idle") \in OpState /\ Fits(Fresh("idle"))
        /\ Fresh("ended") \in OpState /\ Fits(Fresh("ended"))
    BY FreshType DEF Phases, Fits, Fresh
  <2>2. OpsFit'
    BY <1>4, <2>1 DEF Crash, OpsFit
  <2> QED
    BY <1>1, <1>4, <2>2 DEF Crash, Values, OpsFit, Fits, TypeOK
<1>5. ASSUME NEW d \in Docs, Expire(d) PROVE TypeOK'
  BY <1>5 DEF Expire, TypeOK
<1> QED
  BY <1>2, <1>3, <1>4, <1>5

\* One step of one operation, or one of the whole system.
LEMMA Steps ==
  ASSUME Next
  PROVE  \/ \E o \in Ops :
              \/ Prune(o)
              \/ BeginSync(o) \/ BeginStep(o) \/ FetchLoad(o) \/ FetchSave(o)
              \/ ReadKnown(o) \/ TransformLoad(o) \/ Transform(o) \/ TransformPartly(o)
              \/ ImportLoad(o) \/ ImportNothing(o) \/ Split(o)
              \/ \E d \in Docs : SkipExpired(o, d) \/ Insert(o, d) \/ InsertFails(o, d)
                                 \/ RowFails(o, d)
              \/ Commit(o) \/ Imported(o) \/ Drain(o)
              \/ Fails(o) \/ CommitUnknown(o)
         \/ Crash
         \/ \E d \in Docs : Expire(d)
  BY DEF Next, Step, ThreadStep, LoopStep, FaultStep

\* Every step keeps the types.
LEMMA NextType ==
  ASSUME TypeOK, [Next]_vars
  PROVE  TypeOK'
<1>1. CASE Next
  BY <1>1, Steps, PruneType, BeginAndFetchType, TransformType, ImportType, RowType,
     CommitType, FailureType
<1>2. CASE UNCHANGED vars
  BY <1>2 DEF vars, TypeOK
<1> QED
  BY <1>1, <1>2

\* The state keeps its type, and no batch of a sync exceeds the batch size.
THEOREM TypeCorrect == Spec => []TypeOK
<1>1. Init => TypeOK
  BY InitType
<1>2. TypeOK /\ [Next]_vars => TypeOK'
  BY NextType
<1> QED
  BY <1>1, <1>2, PTL DEF Spec

----------------------------------------------------------------------------
(* What is pruned.                                                          *)

\* Rows the import has inserted are those of its own transaction; what it is
\* going to prune it has inserted, or found to be imported or expired; and it
\* prunes only once it has committed.
Safe(s, imported, gone) ==
    /\ s.pc \in {"drain", "import", "split"} => s.made = {}
    /\ s.pc = "insert" => s.doomed \subseteq s.made \cup imported \cup gone
    /\ s.pc \in PrunePhases => s.doomed \subseteq imported \cup gone

OpsSafe == \A o \in Ops : Safe(op[o], Pinned, expired)

\* Imported documents stay imported, expired ones expired.
LEMMA Monotone ==
  ASSUME TypeOK, [Next]_vars
  PROVE  Pinned \subseteq Pinned' /\ expired \subseteq expired'
<1>1. ASSUME NEW o \in Ops, Commit(o) \/ CommitUnknown(o)
      PROVE  Pinned \subseteq Pinned' /\ expired \subseteq expired'
  BY <1>1 DEF Commit, CommitUnknown, Committed, Pinned, TypeOK
<1>2. CASE UNCHANGED vars
  BY <1>2 DEF vars, Pinned
<1>3. ASSUME NEW o \in Ops, Prune(o)
      PROVE  Pinned \subseteq Pinned' /\ expired \subseteq expired'
  BY <1>3 DEF Prune, PruneReadDocuments, PruneWriteDocuments, PruneReadHandoff,
         PruneWriteHandoff, Pinned
<1>4. ASSUME NEW o \in Ops,
             \/ BeginSync(o) \/ BeginStep(o) \/ FetchLoad(o) \/ FetchSave(o)
             \/ ReadKnown(o) \/ TransformLoad(o) \/ Transform(o) \/ TransformPartly(o)
      PROVE  Pinned \subseteq Pinned' /\ expired \subseteq expired'
  BY <1>4 DEF BeginSync, BeginStep, FetchLoad, FetchSave, ReadKnown, TransformLoad,
         Transform, TransformPartly, TransformSave, Pinned
<1>5. ASSUME NEW o \in Ops,
             \/ ImportLoad(o) \/ ImportNothing(o) \/ Split(o)
             \/ \E d \in Docs : SkipExpired(o, d) \/ Insert(o, d) \/ InsertFails(o, d)
                                \/ RowFails(o, d)
             \/ Imported(o) \/ Drain(o) \/ Fails(o)
      PROVE  Pinned \subseteq Pinned' /\ expired \subseteq expired'
  BY <1>5 DEF ImportLoad, ImportNothing, Split, SkipExpired, Insert, InsertFails, RowFails,
         Imported, Drain, Fails, Pinned
<1>6. CASE Crash \/ \E d \in Docs : Expire(d)
  BY <1>6 DEF Crash, Expire, Pinned
<1> QED
  BY <1>1, <1>2, <1>3, <1>4, <1>5, <1>6, Steps

\* A fresh operation means to remove nothing.
LEMMA FreshSafe ==
  ASSUME NEW pc \in Phases, NEW imported, NEW gone
  PROVE  Safe(Fresh(pc), imported, gone)
  BY DEF Safe, Fresh

\* A step of a safe operation leaves the others safe.
LEMMA GoSafe ==
  ASSUME TypeOK, OpsSafe, [Next]_vars, NEW o \in Ops, NEW s, Go(o, s),
         Safe(s, Pinned', expired')
  PROVE  OpsSafe'
<1>1. ASSUME NEW p \in Ops, Safe(op[p], Pinned, expired)
      PROVE  Safe(op[p], Pinned', expired')
  BY <1>1, Monotone DEF Safe
<1> QED
  BY <1>1 DEF OpsSafe, Go, TypeOK

\* So does its end.
LEMMA EndSafe ==
  ASSUME TypeOK, OpsSafe, [Next]_vars, NEW o \in Ops, End(o)
  PROVE  OpsSafe'
<1>1. Safe(Fresh(IF o \in Daily THEN "idle" ELSE "ended"), Pinned', expired')
  BY FreshSafe DEF Phases
<1> QED
  BY <1>1, GoSafe DEF End

\* Pruning removes only what is imported or expired.
LEMMA PruneSafe ==
  ASSUME TypeOK, OpsSafe, Next, NEW o \in Ops, Prune(o)
  PROVE  OpsSafe'
<1>1. op[o] \in OpState /\ Safe(op[o], Pinned', expired')
  BY Monotone DEF OpsSafe, Safe, TypeOK
<1> USE DEF PrunePhases
<1>2. CASE Pruned(o)
  <2>1. Safe(Fresh("fetch"), Pinned', expired')
    BY FreshSafe DEF Phases
  <2>2. Safe([op[o] EXCEPT !.pc = "imported", !.seen = {}, !.doomed = {}], Pinned', expired')
    BY <1>1 DEF Safe, OpState
  <2> QED
    BY <1>2, <2>1, <2>2, GoSafe DEF Pruned
<1>3. CASE PruneReadDocuments(o)
  <2>1. Safe([op[o] EXCEPT !.pc = "pruneHandoff"], Pinned', expired')
    BY <1>1, <1>3 DEF Safe, OpState, PruneReadDocuments
  <2>2. Safe([op[o] EXCEPT !.pc = "pruneDocuments", !.seen = documents], Pinned', expired')
    BY <1>1, <1>3 DEF Safe, OpState, PruneReadDocuments
  <2> QED
    BY <1>3, <2>1, <2>2, GoSafe DEF PruneReadDocuments
<1>4. CASE PruneWriteDocuments(o)
  <2>1. Safe([op[o] EXCEPT !.pc = "pruneHandoff", !.seen = {}], Pinned', expired')
    BY <1>1, <1>4 DEF Safe, OpState, PruneWriteDocuments
  <2> QED
    BY <1>4, <2>1, GoSafe DEF PruneWriteDocuments
<1>5. CASE PruneReadHandoff(o)
  <2>1. Safe([op[o] EXCEPT !.pc = "pruneRows", !.seen = handoff], Pinned', expired')
    BY <1>1, <1>5 DEF Safe, OpState, PruneReadHandoff
  <2> QED
    BY <1>2, <1>5, <2>1, GoSafe DEF PruneReadHandoff
<1>6. CASE PruneWriteHandoff(o)
  BY <1>2, <1>6 DEF PruneWriteHandoff
<1> QED
  BY <1>3, <1>4, <1>5, <1>6 DEF Prune

\* The start of an operation and the fetch keep that.
LEMMA BeginAndFetchSafe ==
  ASSUME TypeOK, OpsSafe, Next, NEW o \in Ops,
         BeginSync(o) \/ BeginStep(o) \/ FetchLoad(o) \/ FetchSave(o)
  PROVE  OpsSafe'
<1> USE DEF PrunePhases
<1>1. Pinned \subseteq Pinned'
  BY Monotone
<1>2. CASE BeginSync(o)
  <2>1. Safe([Fresh("prune") EXCEPT !.mode = "sweep", !.doomed = Pinned], Pinned', expired')
    BY <1>1 DEF Safe, Fresh
  <2>2. Safe(Fresh("fetch"), Pinned', expired')
    BY FreshSafe DEF Phases
  <2> QED
    BY <1>2, <2>1, <2>2, GoSafe DEF BeginSync
<1>3. CASE BeginStep(o)
  <2>1. Safe([Fresh("fetch") EXCEPT !.kind = "fetch"], Pinned', expired')
    BY DEF Safe, Fresh
  <2>2. ASSUME NEW ids
        PROVE  Safe([Fresh("transform") EXCEPT !.kind = "transform", !.known = ids],
                    Pinned', expired')
    BY DEF Safe, Fresh
  <2>3. Safe([Fresh("import") EXCEPT !.kind = "import"], Pinned', expired')
    BY DEF Safe, Fresh
  <2> QED
    BY <1>3, <2>1, <2>2, <2>3, GoSafe DEF BeginStep
<1>4. CASE FetchLoad(o)
  <2>1. Safe([op[o] EXCEPT !.pc = "merge", !.seen = documents, !.work = Docs \ expired],
             Pinned', expired')
    BY DEF Safe, TypeOK, OpState
  <2> QED
    BY <1>4, <2>1, GoSafe DEF FetchLoad
<1>5. CASE FetchSave(o)
  <2>1. Safe(Fresh("known"), Pinned', expired')
    BY FreshSafe DEF Phases
  <2> QED
    BY <1>5, <2>1, GoSafe, EndSafe DEF FetchSave
<1> QED
  BY <1>2, <1>3, <1>4, <1>5

\* So does a transform.
LEMMA TransformSafe ==
  ASSUME TypeOK, OpsSafe, Next, NEW o \in Ops,
         ReadKnown(o) \/ TransformLoad(o) \/ Transform(o) \/ TransformPartly(o)
  PROVE  OpsSafe'
<1> USE DEF PrunePhases
<1>1. CASE ReadKnown(o)
  <2>1. Safe([op[o] EXCEPT !.pc = "transform", !.known = Pinned], Pinned', expired')
    BY DEF Safe, TypeOK, OpState
  <2> QED
    BY <1>1, <2>1, GoSafe DEF ReadKnown
<1>2. CASE TransformLoad(o)
  <2>1. ASSUME NEW p
        PROVE  Safe([op[o] EXCEPT !.pc = "llm", !.seen = documents, !.rows = handoff,
                                  !.work = p], Pinned', expired')
    BY DEF Safe, TypeOK, OpState
  <2> QED
    BY <1>2, <2>1, GoSafe DEF TransformLoad
<1>3. ASSUME NEW done, TransformSave(o, done) PROVE OpsSafe'
  <2>1. Safe([Fresh("drain") EXCEPT !.left = op[o].left], Pinned', expired')
    BY DEF Safe, Fresh
  <2>2. ASSUME NEW mode
        PROVE  Safe([Fresh("import") EXCEPT !.mode = mode, !.known = op[o].known,
                                            !.left = op[o].left], Pinned', expired')
    BY DEF Safe, Fresh
  <2> QED
    BY <1>3, <2>1, <2>2, GoSafe, EndSafe DEF TransformSave
<1> QED
  BY <1>1, <1>2, <1>3 DEF Transform, TransformPartly

\* So does each row of an import.
LEMMA RowSafe ==
  ASSUME TypeOK, OpsSafe, Next, NEW o \in Ops, NEW d \in Docs,
         SkipExpired(o, d) \/ Insert(o, d) \/ InsertFails(o, d) \/ RowFails(o, d)
  PROVE  OpsSafe'
<1> USE DEF PrunePhases
<1>1. op[o] \in OpState /\ op[o].pc = "insert" /\ Safe(op[o], Pinned', expired')
  BY Monotone DEF OpsSafe, Safe, TypeOK, SkipExpired, Insert, InsertFails, RowFails
<1>2. CASE SkipExpired(o, d)
  <2>1. d \in expired'
    BY <1>2, Monotone DEF SkipExpired
  <2>2. Safe([op[o] EXCEPT !.work = @ \ {d}, !.doomed = @ \cup {d}], Pinned', expired')
    BY <1>1, <2>1 DEF Safe, OpState
  <2> QED
    BY <1>2, <2>2, GoSafe DEF SkipExpired
<1>3. CASE Insert(o, d)
  <2>1. Safe([op[o] EXCEPT !.work = @ \ {d}, !.made = @ \cup {d}, !.doomed = @ \cup {d}],
             Pinned', expired')
    BY <1>1 DEF Safe, OpState
  <2> QED
    BY <1>3, <2>1, GoSafe DEF Insert
<1>4. CASE InsertFails(o, d) \/ RowFails(o, d)
  <2>1. Safe([op[o] EXCEPT !.work = @ \ {d}], Pinned', expired')
    BY <1>1 DEF Safe, OpState
  <2> QED
    BY <1>4, <2>1, GoSafe DEF InsertFails, RowFails
<1> QED
  BY <1>2, <1>3, <1>4

\* So do the other steps of an import.
LEMMA ImportSafe ==
  ASSUME TypeOK, OpsSafe, Next, NEW o \in Ops,
         \/ ImportLoad(o) \/ ImportNothing(o) \/ Split(o)
         \/ Commit(o) \/ Imported(o) \/ Drain(o)
  PROVE  OpsSafe'
<1> USE DEF PrunePhases
<1>1. op[o] \in OpState /\ Safe(op[o], Pinned, expired) /\ Safe(op[o], Pinned', expired')
  BY Monotone DEF OpsSafe, Safe, TypeOK
<1>2. CASE ImportLoad(o)
  <2>1. Safe([op[o] EXCEPT !.pc = "split", !.rows = handoff], Pinned', expired')
    BY <1>1, <1>2 DEF Safe, OpState, ImportLoad
  <2> QED
    BY <1>2, <2>1, GoSafe DEF ImportLoad
<1>3. CASE ImportNothing(o)
  <2>1. Safe([op[o] EXCEPT !.pc = "imported"], Pinned', expired')
    BY <1>1 DEF Safe, OpState
  <2> QED
    BY <1>3, <2>1, GoSafe, EndSafe DEF ImportNothing
<1>4. CASE Split(o)
  <2> DEFINE s(p) == [op[o] EXCEPT !.pc = "insert", !.rows = op[o].rows \ Pinned, !.work = p,
                                   !.doomed = op[o].rows \cap (Pinned \cup expired)]
  <2>1. Pinned \cup expired \subseteq Pinned' \cup expired'
    BY Monotone
  <2>2. ASSUME NEW p PROVE Safe(s(p), Pinned', expired')
    BY <1>1, <2>1 DEF Safe, OpState
  <2>3. PICK p : Go(o, s(p))
    BY <1>4 DEF Split
  <2> HIDE DEF s
  <2> QED
    BY <2>2, <2>3, GoSafe
<1>5. CASE Commit(o)
  <2> DEFINE s == [op[o] EXCEPT !.pc = IF setup.prunes /\ op[o].doomed # {} THEN "prune"
                                       ELSE "imported"]
  <2>1. op[o].made \subseteq Pinned'
    BY <1>1, <1>5 DEF Commit, Committed, Pinned, OpState, TypeOK
  <2>2. op[o].doomed \subseteq Pinned' \cup expired'
    BY <1>1, <1>5, <2>1 DEF Safe, Commit
  <2>3. Safe(s, Pinned', expired')
    BY <1>1, <2>2 DEF Safe, OpState
  <2> QED
    BY <1>5, <2>3, GoSafe DEF Commit
<1>6. CASE Imported(o)
  <2>1. ASSUME NEW known, NEW left
        PROVE  /\ Safe([Fresh("transform") EXCEPT !.known = known, !.left = left],
                       Pinned', expired')
               /\ Safe([Fresh("drain") EXCEPT !.left = left], Pinned', expired')
    BY DEF Safe, Fresh
  <2> QED
    BY <1>6, <2>1, GoSafe, EndSafe DEF Imported
<1>7. CASE Drain(o)
  <2>1. Safe([op[o] EXCEPT !.pc = "import", !.mode = "drain"], Pinned', expired')
    BY <1>1, <1>7 DEF Safe, OpState, Drain
  <2> QED
    BY <1>7, <2>1, GoSafe, EndSafe DEF Drain
<1> QED
  BY <1>2, <1>3, <1>4, <1>5, <1>6, <1>7

\* So do failures, a crash and a deadline that passes.
LEMMA FailureSafe ==
  ASSUME TypeOK, OpsSafe, Next,
         (\E o \in Ops : Fails(o) \/ CommitUnknown(o)) \/ Crash \/ \E d \in Docs : Expire(d)
  PROVE  OpsSafe'
<1>1. ASSUME NEW o \in Ops, Fails(o) \/ CommitUnknown(o) PROVE OpsSafe'
  BY <1>1, EndSafe DEF Fails, CommitUnknown
<1>2. CASE Crash
  <2>1. Safe(Fresh("idle"), Pinned', expired') /\ Safe(Fresh("ended"), Pinned', expired')
    BY FreshSafe DEF Phases
  <2> QED
    BY <1>2, <2>1 DEF Crash, OpsSafe
<1>3. ASSUME NEW d \in Docs, Expire(d) PROVE OpsSafe'
  BY <1>3 DEF Expire, OpsSafe, Safe, Pinned
<1> QED
  BY <1>1, <1>2, <1>3

\* Every step does.
LEMMA NextSafe ==
  ASSUME TypeOK, OpsSafe, [Next]_vars
  PROVE  OpsSafe'
<1>1. CASE Next
  BY <1>1, Steps, PruneSafe, BeginAndFetchSafe, TransformSafe, RowSafe, ImportSafe,
     FailureSafe
<1>2. CASE UNCHANGED vars
  BY <1>2 DEF vars, OpsSafe, Pinned
<1> QED
  BY <1>1, <1>2

\* Only what is imported or expired is ever removed from the files, however
\* imports overlap and fail.
THEOREM OnlyImportedIsPruned == Spec => []PrunesOnlyImported
<1>1. Init => TypeOK /\ OpsSafe
  BY InitType, FreshSafe DEF Init, OpsSafe, Phases
<1>2. TypeOK /\ OpsSafe /\ [Next]_vars => TypeOK' /\ OpsSafe'
  BY NextType, NextSafe
<1>3. OpsSafe => PrunesOnlyImported
  BY DEF OpsSafe, Safe, PrunesOnlyImported
<1> QED
  BY <1>1, <1>2, <1>3, PTL DEF Spec

----------------------------------------------------------------------------
(* What is kept.                                                            *)

\* Two steps change the documents; of what they remove, the one has found it
\* imported or expired, and the other replaces what was fetched as well.
LEMMA NextKept ==
  ASSUME TypeOK, OpsSafe, DocumentsAreKept, [Next]_vars
  PROVE  DocumentsAreKept'
<1>1. Pinned \subseteq Pinned' /\ expired \subseteq expired'
  BY Monotone
<1>2. ASSUME NEW o \in Ops, PruneWriteDocuments(o) PROVE DocumentsAreKept'
  <2>1. op[o].doomed \subseteq Pinned \cup expired
    BY <1>2 DEF PruneWriteDocuments, OpsSafe, Safe, PrunePhases
  <2> QED
    BY <1>1, <1>2, <2>1 DEF PruneWriteDocuments, SaveDocuments, DocumentsAreKept
<1>3. ASSUME NEW o \in Ops, FetchSave(o) PROVE DocumentsAreKept'
  BY <1>1, <1>3 DEF FetchSave, SaveDocuments, DocumentsAreKept
<1>4. ASSUME UNCHANGED <<documents, fetched, stale>> PROVE DocumentsAreKept'
  BY <1>1, <1>4 DEF DocumentsAreKept
<1>5. ASSUME NEW o \in Ops, Prune(o) PROVE DocumentsAreKept'
  BY <1>2, <1>4, <1>5 DEF Prune, PruneReadDocuments, PruneReadHandoff, PruneWriteHandoff
<1>6. ASSUME NEW o \in Ops,
             \/ BeginSync(o) \/ BeginStep(o) \/ FetchLoad(o)
             \/ ReadKnown(o) \/ TransformLoad(o) \/ Transform(o) \/ TransformPartly(o)
      PROVE  DocumentsAreKept'
  BY <1>4, <1>6 DEF BeginSync, BeginStep, FetchLoad, ReadKnown, TransformLoad, Transform,
         TransformPartly, TransformSave
<1>7. ASSUME NEW o \in Ops,
             \/ ImportLoad(o) \/ ImportNothing(o) \/ Split(o)
             \/ \E d \in Docs : SkipExpired(o, d) \/ Insert(o, d) \/ InsertFails(o, d)
                                \/ RowFails(o, d)
             \/ Commit(o) \/ Imported(o) \/ Drain(o) \/ Fails(o) \/ CommitUnknown(o)
      PROVE  DocumentsAreKept'
  BY <1>4, <1>7 DEF ImportLoad, ImportNothing, Split, SkipExpired, Insert, InsertFails,
         RowFails, Commit, Imported, Drain, Fails, CommitUnknown
<1>8. CASE Crash \/ \E d \in Docs : Expire(d)
  BY <1>4, <1>8 DEF Crash, Expire
<1>9. CASE UNCHANGED vars
  BY <1>4, <1>9 DEF vars
<1> QED
  BY <1>3, <1>5, <1>6, <1>7, <1>8, <1>9, Steps

\* A fetched document is in the documents file until it is imported or expired,
\* unless the file was overwritten with an older copy.
THEOREM FetchedDocumentsAreKept == Spec => []DocumentsAreKept
<1>1. Init => TypeOK /\ OpsSafe /\ DocumentsAreKept
  BY InitType, FreshSafe DEF Init, OpsSafe, Phases, DocumentsAreKept
<1>2. TypeOK /\ OpsSafe /\ DocumentsAreKept /\ [Next]_vars
        => TypeOK' /\ OpsSafe' /\ DocumentsAreKept'
  BY NextType, NextSafe, NextKept
<1> QED
  BY <1>1, <1>2, PTL DEF Spec

----------------------------------------------------------------------------
(* One pin per document.                                                    *)

\* What a transaction has inserted is in no other one, and not committed.
DraftsAreNew ==
    /\ \A d \in Docs : pins[d] <= 1
    /\ \A o \in Ops : \A d \in Draft(o) :
         pins[d] = 0 /\ \A p \in Ops \ {o} : d \notin Draft(p)

\* The pins of an open transaction are of documents.
LEMMA DraftType ==
  ASSUME TypeOK, NEW o \in Ops
  PROVE  Draft(o) \subseteq Docs
  BY DEF TypeOK, Draft, OpState

\* If what is in a transaction is new, a document has one pin.
LEMMA OneInAll ==
  ASSUME TypeOK, DraftsAreNew
  PROVE  OnePinPerDocument
<1> SUFFICES ASSUME NEW d \in Docs
             PROVE  pins[d] + Cardinality({o \in Ops : d \in Draft(o)}) <= 1
  BY DEF OnePinPerDocument
<1> DEFINE drafts == {o \in Ops : d \in Draft(o)}
<1> SUFFICES pins[d] + Cardinality(drafts) <= 1
  OBVIOUS
<1>0. pins[d] \in Nat /\ pins[d] <= 1
  BY DEF DraftsAreNew, TypeOK
<1>1. CASE drafts = {}
  <2>1. Cardinality(drafts) = 0
    BY <1>1, FS_EmptySet
  <2> HIDE DEF drafts
  <2> QED
    BY <1>0, <2>1
<1>2. CASE drafts # {}
  <2>1. PICK o \in Ops : d \in Draft(o)
    BY <1>2
  <2>2. drafts = {o} /\ pins[d] = 0
    BY <2>1 DEF DraftsAreNew
  <2>3. Cardinality(drafts) = 1
    BY <2>2, FS_Singleton
  <2> HIDE DEF drafts
  <2> QED
    BY <2>2, <2>3
<1> QED
  BY <1>1, <1>2

\* A step that inserts and commits nothing.
LEMMA DraftsShrink ==
  ASSUME TypeOK, DraftsAreNew, pins' = pins, \A p \in Ops : Draft(p)' \subseteq Draft(p)
  PROVE  DraftsAreNew'
  BY DraftType DEF DraftsAreNew

\* A step that inserts nothing makes no open transaction larger.
LEMMA GoShrinks ==
  ASSUME TypeOK, NEW o \in Ops, NEW s, Go(o, s), s.pc = "insert" => s.made \subseteq Draft(o)
  PROVE  \A p \in Ops : Draft(p)' \subseteq Draft(p)
  BY DEF TypeOK, Go, Draft

\* Nor does the end of an operation.
LEMMA EndShrinks ==
  ASSUME TypeOK, NEW o \in Ops, End(o)
  PROVE  \A p \in Ops : Draft(p)' \subseteq Draft(p)
  BY GoShrinks DEF End, Fresh

\* A commit adds one pin to documents that had none.
LEMMA CommitKeepsOne ==
  ASSUME TypeOK, DraftsAreNew, NEW o \in Ops, op[o].pc = "insert", pins' = Committed(o),
         NEW s, Go(o, s), s.pc # "insert"
  PROVE  DraftsAreNew'
<1>1. Draft(o)' = {} /\ \A p \in Ops \ {o} : Draft(p)' = Draft(p)
  BY DEF TypeOK, Go, Draft
<1>2. \A d \in Docs : pins'[d] = pins[d] + IF d \in Draft(o) THEN 1 ELSE 0
  BY DEF Committed, Draft
<1>3. \A d \in Docs : pins'[d] <= 1
  BY <1>2 DEF DraftsAreNew, TypeOK
<1>4. ASSUME NEW p \in Ops, NEW d \in Draft(p)'
      PROVE  pins'[d] = 0 /\ \A q \in Ops \ {p} : d \notin Draft(q)'
  <2>1. p # o /\ d \in Draft(p) /\ d \notin Draft(o) /\ d \in Docs
    BY <1>1, <1>4, DraftType DEF DraftsAreNew
  <2>2. pins'[d] = 0
    BY <1>2, <2>1 DEF DraftsAreNew, TypeOK
  <2>3. ASSUME NEW q \in Ops \ {p} PROVE d \notin Draft(q)'
    BY <1>1, <2>1 DEF DraftsAreNew
  <2> QED
    BY <2>2, <2>3
<1> QED
  BY <1>3, <1>4 DEF DraftsAreNew

\* An insert is of a document without a pin, and in no other transaction.
LEMMA InsertKeepsOne ==
  ASSUME TypeOK, DraftsAreNew, NEW o \in Ops, NEW d \in Docs, Insert(o, d)
  PROVE  DraftsAreNew'
<1>1. Draft(o)' = Draft(o) \cup {d} /\ \A p \in Ops \ {o} : Draft(p)' = Draft(p)
  BY DEF TypeOK, OpState, Insert, Go, Draft
<1>2. pins' = pins /\ pins[d] = 0 /\ \A p \in Ops \ {o} : d \notin Draft(p)
  BY DEF Insert, Pinned, RowIsFree, TypeOK
<1> QED
  BY <1>1, <1>2 DEF DraftsAreNew

\* A row that is not inserted changes nothing.
LEMMA RowKeepsOne ==
  ASSUME TypeOK, DraftsAreNew, NEW o \in Ops, NEW d \in Docs,
         SkipExpired(o, d) \/ InsertFails(o, d) \/ RowFails(o, d)
  PROVE  DraftsAreNew'
<1>1. op[o] \in OpState /\ op[o].pc = "insert"
  BY DEF TypeOK, SkipExpired, InsertFails, RowFails
<1>2. Draft(o) = op[o].made
  BY <1>1 DEF Draft
<1>3. CASE SkipExpired(o, d)
  <2> DEFINE s == [op[o] EXCEPT !.work = @ \ {d}, !.doomed = @ \cup {d}]
  <2>1. s.made = op[o].made
    BY <1>1 DEF OpState
  <2>2. Go(o, s) /\ pins' = pins
    BY <1>3 DEF SkipExpired
  <2> HIDE DEF s
  <2> QED
    BY <1>2, <2>1, <2>2, GoShrinks, DraftsShrink
<1>4. CASE InsertFails(o, d) \/ RowFails(o, d)
  <2> DEFINE s == [op[o] EXCEPT !.work = @ \ {d}]
  <2>1. s.made = op[o].made
    BY <1>1 DEF OpState
  <2>2. Go(o, s) /\ pins' = pins
    BY <1>4 DEF InsertFails, RowFails
  <2> HIDE DEF s
  <2> QED
    BY <1>2, <2>1, <2>2, GoShrinks, DraftsShrink
<1> QED
  BY <1>3, <1>4

\* A new batch begins with nothing inserted.
LEMMA SplitKeepsOne ==
  ASSUME TypeOK, OpsSafe, DraftsAreNew, NEW o \in Ops, Split(o)
  PROVE  DraftsAreNew'
<1> DEFINE s(p) == [op[o] EXCEPT !.pc = "insert", !.rows = op[o].rows \ Pinned, !.work = p,
                                 !.doomed = op[o].rows \cap (Pinned \cup expired)]
<1>1. op[o] \in OpState /\ op[o].made = {}
  BY DEF Split, OpsSafe, Safe, TypeOK
<1>2. ASSUME NEW p PROVE s(p).made = {}
  BY <1>1 DEF OpState
<1>3. PICK p : Go(o, s(p)) /\ pins' = pins
  BY DEF Split
<1> HIDE DEF s
<1> QED
  BY <1>2, <1>3, GoShrinks, DraftsShrink

\* The other steps leave no draft behind and begin none.
LEMMA OthersKeepOne ==
  ASSUME TypeOK, DraftsAreNew, NEW o \in Ops,
         \/ Prune(o)
         \/ BeginSync(o) \/ BeginStep(o) \/ FetchLoad(o) \/ FetchSave(o)
         \/ ReadKnown(o) \/ TransformLoad(o) \/ Transform(o) \/ TransformPartly(o)
         \/ ImportLoad(o) \/ ImportNothing(o) \/ Imported(o) \/ Drain(o)
         \/ Fails(o)
  PROVE  DraftsAreNew'
<1>1. op[o] \in OpState
  BY DEF TypeOK
<1>2. ASSUME NEW s, Go(o, s), s.pc # "insert", pins' = pins PROVE DraftsAreNew'
  BY <1>2, GoShrinks, DraftsShrink
<1>3. ASSUME End(o), pins' = pins PROVE DraftsAreNew'
  BY <1>3, EndShrinks, DraftsShrink
<1>5. CASE Prune(o)
  <2>1. ASSUME Pruned(o), pins' = pins PROVE DraftsAreNew'
    BY <1>1, <1>2, <2>1 DEF Pruned, Fresh, OpState
  <2>2. CASE PruneReadDocuments(o)
    BY <1>1, <1>2, <2>2 DEF PruneReadDocuments, OpState
  <2>3. CASE PruneWriteDocuments(o)
    BY <1>1, <1>2, <2>3 DEF PruneWriteDocuments, OpState
  <2>4. CASE PruneReadHandoff(o)
    BY <1>1, <1>2, <2>1, <2>4 DEF PruneReadHandoff, OpState
  <2>5. CASE PruneWriteHandoff(o)
    BY <2>1, <2>5 DEF PruneWriteHandoff
  <2> QED
    BY <1>5, <2>2, <2>3, <2>4, <2>5 DEF Prune
<1>6. CASE BeginSync(o)
  BY <1>2, <1>6 DEF BeginSync, Fresh
<1>7. CASE BeginStep(o)
  BY <1>2, <1>7 DEF BeginStep, Fresh
<1>8. CASE FetchLoad(o)
  BY <1>1, <1>2, <1>8 DEF FetchLoad, OpState
<1>9. CASE FetchSave(o)
  BY <1>2, <1>3, <1>9 DEF FetchSave, Fresh
<1>10. CASE ReadKnown(o)
  BY <1>1, <1>2, <1>10 DEF ReadKnown, OpState
<1>11. CASE TransformLoad(o)
  BY <1>1, <1>2, <1>11 DEF TransformLoad, OpState
<1>12. CASE Transform(o) \/ TransformPartly(o)
  <2>1. PICK done : TransformSave(o, done)
    BY <1>12 DEF Transform, TransformPartly
  <2> QED
    BY <1>2, <1>3, <2>1 DEF TransformSave, Fresh
<1>13. CASE ImportLoad(o)
  BY <1>1, <1>2, <1>13 DEF ImportLoad, OpState
<1>14. CASE ImportNothing(o)
  BY <1>1, <1>2, <1>3, <1>14 DEF ImportNothing, OpState
<1>15. CASE Imported(o)
  BY <1>2, <1>3, <1>15 DEF Imported, Fresh
<1>16. CASE Drain(o)
  BY <1>1, <1>2, <1>3, <1>16 DEF Drain, OpState
<1>17. CASE Fails(o)
  BY <1>3, <1>17 DEF Fails
<1> QED
  BY <1>5, <1>6, <1>7, <1>8, <1>9, <1>10, <1>11, <1>12, <1>13, <1>14, <1>15, <1>16, <1>17

\* Every step keeps what is in a transaction new.
LEMMA NextKeepsOne ==
  ASSUME TypeOK, OpsSafe, DraftsAreNew, [Next]_vars
  PROVE  DraftsAreNew'
<1>1. ASSUME NEW o \in Ops, Commit(o) \/ CommitUnknown(o) PROVE DraftsAreNew'
  <2>1. CASE Commit(o)
    <3> DEFINE s == [op[o] EXCEPT !.pc = IF setup.prunes /\ op[o].doomed # {} THEN "prune"
                                         ELSE "imported"]
    <3>1. s.pc # "insert"
      BY DEF TypeOK, OpState
    <3>2. op[o].pc = "insert" /\ pins' = Committed(o) /\ Go(o, s)
      BY <2>1 DEF Commit
    <3> HIDE DEF s
    <3> QED
      BY <3>1, <3>2, CommitKeepsOne
  <2>2. CASE CommitUnknown(o)
    BY <2>2, CommitKeepsOne DEF CommitUnknown, End, Fresh
  <2> QED
    BY <1>1, <2>1, <2>2
<1>2. CASE Crash
  <2>1. \A p \in Ops : Draft(p)' = {}
    BY <1>2 DEF Crash, Draft, Fresh
  <2> QED
    BY <1>2, <2>1, DraftsShrink DEF Crash
<1>3. ASSUME NEW d \in Docs, Expire(d) PROVE DraftsAreNew'
  BY <1>3 DEF Expire, DraftsAreNew, Draft
<1>4. CASE UNCHANGED vars
  BY <1>4 DEF vars, DraftsAreNew, Draft
<1> QED
  BY <1>1, <1>2, <1>3, <1>4, Steps, InsertKeepsOne, RowKeepsOne, SplitKeepsOne, OthersKeepOne

\* However operations overlap, fail and are repeated, a document becomes at
\* most one pin.
THEOREM OnePin == Spec => []OnePinPerDocument
<1>1. Init => TypeOK /\ OpsSafe /\ DraftsAreNew
  <2>1. Init => DraftsAreNew
    BY DEF Init, DraftsAreNew, Draft, Fresh
  <2> QED
    BY <2>1, InitType, FreshSafe DEF Init, OpsSafe, Phases
<1>2. TypeOK /\ OpsSafe /\ DraftsAreNew /\ [Next]_vars => TypeOK' /\ OpsSafe' /\ DraftsAreNew'
  BY NextType, NextSafe, NextKeepsOne
<1>3. TypeOK /\ DraftsAreNew => OnePinPerDocument
  BY OneInAll
<1> QED
  BY <1>1, <1>2, <1>3, PTL DEF Spec
-----------------------------------------------------------------------------
(* CardDeck: which slides are kept.                                        *)

\* Positions have ranks: each one below the number of positions is that of one of them.
LEMMA Ranks ==
    ASSUME NEW m \in Nat, NEW P \in SUBSET (1..m)
    PROVE  /\ IsFiniteSet(P) /\ Cardinality(P) \in Nat /\ Cardinality(P) <= m
           /\ \A n \in 1..Cardinality(P) : Nth(P, n) \in P
           /\ \A k \in P : /\ Cardinality({j \in P : j <= k}) \in 1..Cardinality(P)
                           /\ Nth(P, Cardinality({j \in P : j <= k})) = k
           /\ \A n, k \in 1..Cardinality(P) : Nth(P, n) = Nth(P, k) => n = k
<1>. DEFINE Upto(k) == {j \in P : j <= k}
            rank == [k \in P |-> Cardinality(Upto(k))]
<1>1. IsFiniteSet(1..m) /\ Cardinality(1..m) = m
  BY FS_Interval
<1>2. IsFiniteSet(P) /\ Cardinality(P) \in Nat /\ Cardinality(P) <= m
  BY <1>1, FS_Subset, FS_CardinalityType
<1>3. \A k \in P : Cardinality(Upto(k)) \in 1..Cardinality(P)
  <2>. SUFFICES ASSUME NEW k \in P PROVE Cardinality(Upto(k)) \in 1..Cardinality(P)
    OBVIOUS
  <2>1. Upto(k) \subseteq P /\ Upto(k) # {}  OBVIOUS
  <2>2. IsFiniteSet(Upto(k)) /\ Cardinality(Upto(k)) <= Cardinality(P)  BY <1>2, <2>1, FS_Subset
  <2>3. Cardinality(Upto(k)) \in Nat /\ Cardinality(Upto(k)) # 0
    BY <2>1, <2>2, FS_CardinalityType, FS_EmptySet
  <2>. QED  BY <1>2, <2>2, <2>3
<1>4. ASSUME NEW j \in P, NEW k \in P, j < k
      PROVE  Cardinality(Upto(j)) # Cardinality(Upto(k))
  <2>1. Upto(j) \subseteq Upto(k) /\ k \in Upto(k) /\ k \notin Upto(j)
    <3>1. j \in Int /\ k \in Int /\ \A i \in P : i \in Int  OBVIOUS
    <3>2. k \in Upto(k) /\ k \notin Upto(j)  BY <1>4, <3>1
    <3>3. \A i \in P : i <= j => i <= k  BY <1>4, <3>1
    <3>. QED  BY <3>2, <3>3
  <2>2. IsFiniteSet(Upto(k))  BY <1>2, FS_Subset
  <2>. QED  BY <2>1, <2>2, FS_Subset
<1>5. rank \in Injection(P, 1..Cardinality(P))
  <2>1. rank \in [P -> 1..Cardinality(P)]  BY <1>3
  <2>2. \A j, k \in P : rank[j] = rank[k] => j = k
    <3>1. \A j, k \in P : j < k \/ k < j \/ j = k  OBVIOUS
    <3>. QED  BY <1>4, <3>1
  <2>. QED  BY <2>1, <2>2 DEF Injection, IsInjective
<1>6. rank \in Surjection(P, 1..Cardinality(P))
  <2>1. IsFiniteSet(1..Cardinality(P)) /\ Cardinality(1..Cardinality(P)) = Cardinality(P)
    BY <1>2, FS_Interval
  <2>. HIDE DEF rank
  <2>. QED  BY <1>5, <2>1, FS_Injection
<1>7. \A n \in 1..Cardinality(P) : \E k \in P : rank[k] = n
  BY <1>6 DEF Surjection
<1>8. \A n \in 1..Cardinality(P) : Nth(P, n) \in P /\ Cardinality(Upto(Nth(P, n))) = n
  <2>. SUFFICES ASSUME NEW n \in 1..Cardinality(P)
                PROVE  Nth(P, n) \in P /\ Cardinality(Upto(Nth(P, n))) = n
    OBVIOUS
  <2>1. \E k \in P : Cardinality({j \in P : j <= k}) = n  BY <1>7
  <2>. QED  BY <2>1 DEF Nth
<1>9. \A k \in P : Nth(P, Cardinality(Upto(k))) = k
  <2>. SUFFICES ASSUME NEW k \in P PROVE Nth(P, Cardinality(Upto(k))) = k
    OBVIOUS
  <2>1. \A i \in P : Cardinality(Upto(i)) = Cardinality(Upto(k)) => i = k
    <3>1. \A i \in P : i < k \/ k < i \/ i = k  OBVIOUS
    <3>. QED  BY <1>4, <3>1
  <2>2. Nth(P, Cardinality(Upto(k))) \in P /\ Cardinality(Upto(Nth(P, Cardinality(Upto(k))))) = Cardinality(Upto(k))
    BY <1>3, <1>8
  <2>. QED  BY <2>1, <2>2
<1>. QED  BY <1>2, <1>3, <1>8, <1>9
-----------------------------------------------------------------------------
\* What is drawn: slides in order, whose numbers, and those of whose files, are Numbers.
Decks == {deck \in Seq(Entries) : \A k \in DOMAIN deck : k \in Numbers /\ deck[k].number \in Numbers}

\* No slide is there twice.
Distinct(deck) == \A j, k \in DOMAIN deck : deck[j].name = deck[k].name => j = k

\* The same slide, under another number.
Same(d, e) ==
    /\ d.name = e.name /\ d.layout = e.layout /\ d.words = e.words
    /\ d.button = e.button /\ d.items = e.items /\ d.chars = e.chars

\* A deck begins and ends like the slides it is made of.
SameEnds(deck, slides) ==
    /\ Len(deck) = 0 <=> Len(slides) = 0
    /\ Len(deck) = 1 <=> Len(slides) = 1
    /\ Len(slides) > 0 => Same(deck[1], slides[1]) /\ Same(deck[Len(deck)], slides[Len(slides)])

\* Slides that are kept are a deck, in order, and none of them twice.
LEMMA KeepType ==
    ASSUME NEW slides \in Decks, Distinct(slides), NEW P \in SUBSET DOMAIN slides
    PROVE  /\ Keep(slides, P) \in Decks /\ Distinct(Keep(slides, P))
           /\ Len(Keep(slides, P)) = Cardinality(P) /\ Cardinality(P) \in Nat /\ Cardinality(P) <= Len(slides)
           /\ 1 \in P => Cardinality(P) > 0 /\ Keep(slides, P)[1] = slides[1]
           /\ Len(slides) \in P => Keep(slides, P)[Cardinality(P)] = slides[Len(slides)]
<1>. DEFINE m == Len(slides)
            n == Cardinality(P)
            kept == Keep(slides, P)
<1>1. slides \in Seq(Entries) /\ m \in Nat /\ DOMAIN slides = 1..m
      /\ \A k \in 1..m : slides[k] \in Entries /\ k \in Numbers /\ slides[k].number \in Numbers
  BY DEF Decks
<1>2. P \in SUBSET (1..m)  BY <1>1
<1>3. /\ n \in Nat /\ n <= m
      /\ \A k \in 1..n : Nth(P, k) \in P
      /\ \A j, k \in 1..n : Nth(P, j) = Nth(P, k) => j = k
      /\ \A k \in P : Cardinality({j \in P : j <= k}) \in 1..n /\ Nth(P, Cardinality({j \in P : j <= k})) = k
  <2>. HIDE DEF m
  <2>. QED  BY <1>1, <1>2, Ranks
<1>4. kept = [k \in 1..n |-> slides[Nth(P, k)]]
  BY DEF Keep
<1>. HIDE DEF m, n, kept
<1>5. kept \in Decks /\ Len(kept) = n
  <2>1. \A k \in 1..n : slides[Nth(P, k)] \in Entries /\ slides[Nth(P, k)].number \in Numbers
    BY <1>1, <1>2, <1>3
  <2>2. \A k \in 1..n : k \in Numbers  BY <1>1, <1>3
  <2>3. kept \in Seq(Entries) /\ Len(kept) = n /\ DOMAIN kept = 1..n  BY <1>3, <1>4, <2>1
  <2>. QED  BY <1>4, <2>1, <2>2, <2>3 DEF Decks
<1>6. Distinct(kept)
  <2>. SUFFICES ASSUME NEW j \in 1..n, NEW k \in 1..n, kept[j].name = kept[k].name PROVE j = k
    BY <1>4 DEF Distinct
  <2>1. Nth(P, j) \in DOMAIN slides /\ Nth(P, k) \in DOMAIN slides  BY <1>3
  <2>2. slides[Nth(P, j)].name = slides[Nth(P, k)].name  BY <1>4
  <2>3. Nth(P, j) = Nth(P, k)  BY <2>1, <2>2 DEF Distinct
  <2>. QED  BY <1>3, <2>3
<1>7. ASSUME 1 \in P PROVE n > 0 /\ kept[1] = slides[1]
  <2>1. \A j \in P : j <= 1 <=> j = 1  BY <1>1, <1>2
  <2>2. {j \in P : j <= 1} = {1}  BY <1>7, <2>1
  <2>3. Cardinality({j \in P : j <= 1}) = 1  BY <2>2, FS_Singleton
  <2>. QED  BY <1>3, <1>4, <1>7, <2>3
<1>8. ASSUME m \in P PROVE kept[n] = slides[m]
  <2>1. \A j \in P : j <= m  BY <1>1, <1>2
  <2>2. {j \in P : j <= m} = P  BY <2>1
  <2>. QED  BY <1>3, <1>4, <1>8, <2>2 DEF n
<1>. QED  BY <1>3, <1>5, <1>6, <1>7, <1>8 DEF m, n, kept

\* An answer is a deck, and so is what of it has content.
LEMMA FilledType ==
    ASSUME NEW answer \in SlideAnswers
    PROVE  Filled(answer) \in Decks /\ Distinct(Filled(answer))
<1>1. answer \in Seq(Entries) /\ Distinct(answer)  BY CardDeckAssumption DEF Distinct
<1>2. \A k \in DOMAIN answer : k \in Numbers /\ answer[k].number \in Numbers  BY DEF Numbers
<1>3. answer \in Decks  BY <1>1, <1>2 DEF Decks
<1>4. {k \in DOMAIN answer : HasContent(answer[k])} \in SUBSET DOMAIN answer  OBVIOUS
<1>. QED  BY <1>1, <1>3, <1>4, KeepType DEF Filled

\* A slide under another number.
LEMMA Renumber ==
    ASSUME NEW e \in Entries, NEW n \in Numbers, n \in Nat
    PROVE  [e EXCEPT !.number = n] \in Entries /\ [e EXCEPT !.number = n].number = n
           /\ Same([e EXCEPT !.number = n], e)
  BY DEF Entries, Same

\* Of the slides the first two and the last.
LEMMA PolicyDeck ==
    ASSUME NEW slides \in Decks, Distinct(slides), NEW deck, deck = AtMostThree(Numbered(slides))
    PROVE  deck \in Decks /\ Distinct(deck) /\ SameEnds(deck, slides) /\ Len(deck) <= 3
<1>. DEFINE m == Len(slides)
            all == Numbered(slides)
<1>1. /\ slides \in Seq(Entries) /\ m \in Nat /\ DOMAIN slides = 1..m
      /\ \A k \in 1..m : slides[k] \in Entries /\ k \in Numbers /\ k \in Nat /\ slides[k].number \in Numbers
      /\ \A k \in 1..m : slides[k].number \in Nat
  <2>1. \A e \in Entries : e.number \in Nat  BY DEF Entries
  <2>. QED  BY <2>1 DEF Decks
<1>2. all = [k \in 1..m |-> [slides[k] EXCEPT !.number = IF slides[k].number = 0 THEN k ELSE slides[k].number]]
  BY <1>1 DEF Numbered
<1>3. \A k \in 1..m : all[k] \in Entries /\ all[k].number \in Numbers /\ Same(all[k], slides[k])
  <2>. SUFFICES ASSUME NEW k \in 1..m
                PROVE  all[k] \in Entries /\ all[k].number \in Numbers /\ Same(all[k], slides[k])
    OBVIOUS
  <2>. DEFINE n == IF slides[k].number = 0 THEN k ELSE slides[k].number
  <2>1. n \in Numbers /\ n \in Nat /\ slides[k] \in Entries  BY <1>1
  <2>2. all[k] = [slides[k] EXCEPT !.number = n]  BY <1>2
  <2>. HIDE DEF n, all
  <2>. QED  BY <2>1, <2>2, Renumber
<1>. HIDE DEF all
<1>4. all \in Seq(Entries) /\ Len(all) = m /\ DOMAIN all = 1..m
  <2>1. all \in [1..m -> Entries]  BY <1>2, <1>3
  <2>. HIDE DEF m
  <2>. QED  BY <1>1, <2>1
<1>5. \A j, k \in 1..m : all[j].name = all[k].name => j = k
  BY <1>1, <1>3 DEF Distinct, Same
<1>6. CASE m <= 3
  <2>1. deck = all  BY <1>4, <1>6 DEF AtMostThree, all
  <2>. QED  BY <1>1, <1>3, <1>4, <1>5, <1>6, <2>1 DEF Decks, Distinct, SameEnds
<1>7. CASE m > 3
  <2>1. deck = <<all[1], all[2], all[m]>>  BY <1>4, <1>7 DEF AtMostThree, all, Last
  <2>2. 1 \in 1..m /\ 2 \in 1..m /\ 3 \in 1..m /\ m \in 1..m /\ m # 1 /\ m # 2  BY <1>1, <1>7
  <2>3. deck \in Seq(Entries) /\ Len(deck) = 3 /\ DOMAIN deck = 1..3
        /\ deck[1] = all[1] /\ deck[2] = all[2] /\ deck[3] = all[m]
    BY <1>3, <2>1, <2>2
  <2>4. \A k \in 1..3 : k = 1 \/ k = 2 \/ k = 3  OBVIOUS
  <2>5. deck \in Decks  BY <1>1, <1>3, <2>2, <2>3, <2>4 DEF Decks
  <2>6. Distinct(deck)  BY <1>5, <2>2, <2>3, <2>4 DEF Distinct
  <2>7. SameEnds(deck, slides)  BY <1>1, <1>3, <1>7, <2>2, <2>3 DEF SameEnds
  <2>. QED  BY <2>3, <2>5, <2>6, <2>7
<1>. QED  BY <1>1, <1>6, <1>7

\* Of the slides the first, the best of the next ones, and the last, numbered.
LEMMA ContestDeck ==
    ASSUME NEW slides \in Decks, Distinct(slides), NEW deck, deck = ParseContest(slides)
    PROVE  deck \in Decks /\ Distinct(deck) /\ SameEnds(deck, slides) /\ Len(deck) <= 3
<1>. DEFINE m == Len(slides)
            four == IF m > 4 THEN Append(SubSeq(slides, 1, 3), Last(slides)) ELSE slides
            few == CompactContestDeck(four)
<1>1. slides \in Seq(Entries) /\ m \in Nat /\ DOMAIN slides = 1..m
      /\ \A k \in 1..m : slides[k] \in Entries /\ k \in Numbers /\ k \in Nat /\ slides[k].number \in Numbers
  BY DEF Decks
<1>2. deck = [k \in DOMAIN few |-> [few[k] EXCEPT !.number = k]]
  BY DEF ParseContest
<1>3. \A j, k \in 1..m : slides[j].name = slides[k].name => j = k
  BY <1>1 DEF Distinct
<1>4. /\ few \in Seq(Entries) /\ Len(few) \in Nat /\ Len(few) <= 3 /\ Len(few) <= m
      /\ Len(few) = 0 <=> m = 0
      /\ Len(few) = 1 <=> m = 1
      /\ m > 0 => few[1] = slides[1] /\ few[Len(few)] = slides[m]
      /\ \A j, k \in 1..Len(few) : few[j].name = few[k].name => j = k
  <2>1. CASE m <= 3
    <3>1. four = slides  BY <1>1, <2>1
    <3>2. few = slides  BY <2>1, <3>1 DEF CompactContestDeck
    <3>. HIDE DEF few, four
    <3>. QED  BY <1>1, <1>3, <2>1, <3>2
  <2>2. CASE m > 3
    <3>1. /\ 1 \in 1..m /\ 2 \in 1..m /\ 3 \in 1..m /\ m \in 1..m /\ m # 1 /\ m # 2 /\ m # 3
      BY <1>1, <2>2
    <3>2. /\ four \in Seq(Entries) /\ Len(four) = 4
          /\ four[1] = slides[1] /\ four[2] = slides[2] /\ four[3] = slides[3] /\ four[4] = slides[m]
      <4>1. CASE m > 4
        <5>1. SubSeq(slides, 1, 3) \in Seq(Entries) /\ Len(SubSeq(slides, 1, 3)) = 3
              /\ SubSeq(slides, 1, 3)[1] = slides[1] /\ SubSeq(slides, 1, 3)[2] = slides[2]
              /\ SubSeq(slides, 1, 3)[3] = slides[3]
          BY <1>1, <4>1
        <5>2. Last(slides) \in Entries /\ Last(slides) = slides[m]  BY <1>1, <3>1 DEF Last
        <5>3. four = Append(SubSeq(slides, 1, 3), Last(slides))  BY <1>1, <4>1
        <5>. DEFINE three == SubSeq(slides, 1, 3)
                    last == Last(slides)
        <5>4. \A s \in Seq(Entries), e \in Entries :
                /\ Append(s, e) \in Seq(Entries) /\ Len(Append(s, e)) = Len(s) + 1
                /\ Append(s, e)[Len(s) + 1] = e /\ \A i \in 1..Len(s) : Append(s, e)[i] = s[i]
          OBVIOUS
        <5>5. /\ Append(three, last) \in Seq(Entries) /\ Len(Append(three, last)) = 3 + 1
              /\ Append(three, last)[3 + 1] = last /\ \A i \in 1..3 : Append(three, last)[i] = three[i]
          <6>. HIDE DEF three, last
          <6>1. three \in Seq(Entries) /\ Len(three) = 3 /\ last \in Entries  BY <5>1, <5>2 DEF three, last
          <6>2. /\ Append(three, last) \in Seq(Entries) /\ Len(Append(three, last)) = Len(three) + 1
                /\ Append(three, last)[Len(three) + 1] = last
                /\ \A i \in 1..Len(three) : Append(three, last)[i] = three[i]
            BY <5>4, <6>1
          <6>. QED  BY <6>1, <6>2, Zenon
        <5>6. 3 + 1 = 4 /\ 1 \in 1..3 /\ 2 \in 1..3 /\ 3 \in 1..3  OBVIOUS
        <5>. HIDE DEF four
        <5>. QED  BY <5>1, <5>2, <5>3, <5>5, <5>6, Zenon
      <4>2. CASE m = 4
        BY <1>1, <4>2
      <4>3. m > 4 \/ m = 4  BY <1>1, <2>2
      <4>. HIDE DEF four, m
      <4>. QED  BY <4>1, <4>2, <4>3
    <3>. DEFINE best == IF RanksBefore(four[3], four[2]) THEN four[3] ELSE four[2]
    <3>3. PICK b \in {2, 3} : best = slides[b]  BY <3>2
    <3>4. AsSummary(best) \in Entries /\ AsSummary(best).name = best.name
      <4>1. best \in Entries  BY <1>1, <3>1, <3>3
      <4>. HIDE DEF best
      <4>. QED  BY <4>1 DEF AsSummary, Entries
    <3>5. few = <<four[1], AsSummary(best), four[4]>>
      <4>1. Last(four) = four[4] /\ ~ (Len(four) <= 3)  BY <3>2 DEF Last
      <4>. HIDE DEF four
      <4>. QED  BY <4>1 DEF CompactContestDeck
    <3>. HIDE DEF few, four, best
    <3>6. /\ few \in Seq(Entries) /\ Len(few) = 3
          /\ few[1] = slides[1] /\ few[2] = AsSummary(best) /\ few[3] = slides[m]
      BY <1>1, <3>1, <3>2, <3>4, <3>5
    <3>7. \A k \in 1..3 : k = 1 \/ k = 2 \/ k = 3  OBVIOUS
    <3>8. b \in 1..m /\ b # 1 /\ b # m /\ few[2].name = slides[b].name  BY <2>2, <3>1, <3>3, <3>4, <3>6
    <3>9. \A j, k \in 1..3 : few[j].name = few[k].name => j = k
      BY <1>3, <3>1, <3>6, <3>7, <3>8
    <3>. QED  BY <1>1, <2>2, <3>6, <3>9
  <2>3. m <= 3 \/ m > 3  BY <1>1
  <2>. HIDE DEF few, four, m
  <2>. QED  BY <2>1, <2>2, <2>3
<1>. HIDE DEF few, four
<1>5. DOMAIN few = 1..Len(few)  BY <1>4
<1>6. \A k \in 1..Len(few) : /\ k \in Numbers /\ deck[k] \in Entries /\ deck[k].number \in Numbers
                             /\ Same(deck[k], few[k])
  <2>1. \A k \in 1..Len(few) : few[k] \in Entries /\ k \in Numbers /\ k \in Nat  BY <1>1, <1>4
  <2>. SUFFICES ASSUME NEW k \in 1..Len(few)
                PROVE  /\ k \in Numbers /\ deck[k] \in Entries /\ deck[k].number \in Numbers
                       /\ Same(deck[k], few[k])
    OBVIOUS
  <2>2. deck[k] = [few[k] EXCEPT !.number = k]  BY <1>2, <1>5
  <2>. QED  BY <2>1, <2>2, Renumber
<1>7. deck \in Seq(Entries) /\ Len(deck) = Len(few) /\ DOMAIN deck = 1..Len(few)
  <2>1. deck \in [1..Len(few) -> Entries]  BY <1>2, <1>5, <1>6
  <2>. QED  BY <1>4, <2>1
<1>8. deck \in Decks  BY <1>6, <1>7 DEF Decks
<1>9. Distinct(deck)  BY <1>4, <1>6, <1>7 DEF Distinct, Same
<1>10. SameEnds(deck, slides)
  <2>1. Len(few) > 0 => 1 \in 1..Len(few) /\ Len(few) \in 1..Len(few)  BY <1>4
  <2>. QED  BY <1>1, <1>4, <1>6, <1>7, <2>1 DEF SameEnds
<1>. QED  BY <1>4, <1>7, <1>8, <1>9, <1>10

\* What the LLM answers becomes a deck with the same ends, of three slides at most.
LEMMA ParseType ==
    ASSUME NEW answer \in SlideAnswers
    PROVE  /\ ParseSlides(answer) \in Decks /\ Distinct(ParseSlides(answer))
           /\ SameEnds(ParseSlides(answer), Filled(answer)) /\ Len(ParseSlides(answer)) <= 3
<1>1. Filled(answer) \in Decks /\ Distinct(Filled(answer))  BY FilledType
<1>2. CASE cardSetup.contest
  <2>1. ParseSlides(answer) = ParseContest(Filled(answer))  BY <1>2 DEF ParseSlides
  <2>. QED  BY <1>1, <2>1, ContestDeck
<1>3. CASE ~ cardSetup.contest
  <2>1. ParseSlides(answer) = AtMostThree(Numbered(Filled(answer)))  BY <1>3 DEF ParseSlides
  <2>. QED  BY <1>1, <2>1, PolicyDeck
<1>. QED  BY <1>2, <1>3

\* What the property DeckKeepsItsEnds says of a deck and the slides it is made of.
EndsKept(deck, slides) ==
    /\ Len(deck) <= 3 /\ Distinct(deck) /\ Len(slides) > 0
    /\ Shows(slides[1], LayoutAt(slides, 1)) => deck[1].name = slides[1].name
    /\ Shows(slides[Len(slides)], LayoutAt(slides, Len(slides))) => deck[Len(deck)].name = slides[Len(slides)].name

\* The same ends show the same.
LEMMA SameEndsShow ==
    ASSUME NEW deck \in Decks, NEW slides \in Decks, SameEnds(deck, slides), Len(deck) > 0
    PROVE  /\ Shows(deck[1], LayoutAt(deck, 1)) <=> Shows(slides[1], LayoutAt(slides, 1))
           /\ Shows(deck[Len(deck)], LayoutAt(deck, Len(deck)))
                <=> Shows(slides[Len(slides)], LayoutAt(slides, Len(slides)))
<1>1. Len(deck) \in Nat /\ Len(slides) \in Nat  BY DEF Decks
<1>2. Len(slides) > 0 /\ (Len(deck) = 1 <=> Len(slides) = 1)
      /\ Same(deck[1], slides[1]) /\ Same(deck[Len(deck)], slides[Len(slides)])
  BY <1>1 DEF SameEnds
<1>3. LayoutAt(deck, 1) = LayoutAt(slides, 1)
  BY <1>2 DEF LayoutAt, Same
<1>4. LayoutAt(deck, Len(deck)) = LayoutAt(slides, Len(slides))
  BY <1>1, <1>2 DEF LayoutAt, Same
<1>5. \A d, e, layout : Same(d, e) => (Shows(d, layout) <=> Shows(e, layout))
  BY DEF Same, Shows, PolicyShows, ContestShows
<1>. QED  BY <1>2, <1>3, <1>4, <1>5

\* What Pillow draws is a deck that keeps the ends that show.
LEMMA DrawableType ==
    ASSUME NEW deck \in Decks, Distinct(deck), Len(deck) <= 3,
           NEW slides \in Decks, SameEnds(deck, slides), Len(deck) > 0
    PROVE  /\ Drawable(deck) \in Decks /\ Len(Drawable(deck)) \in Nat
           /\ EndsKept(Drawable(deck), slides)
<1>. DEFINE m == Len(deck)
            P == {k \in DOMAIN deck : Shows(deck[k], LayoutAt(deck, k))}
<1>1. m \in Nat /\ DOMAIN deck = 1..m /\ 1 \in 1..m /\ m \in 1..m  BY DEF Decks
<1>2. P \in SUBSET DOMAIN deck  OBVIOUS
<1>3. 1 \in P <=> Shows(slides[1], LayoutAt(slides, 1))  BY <1>1, SameEndsShow
<1>4. m \in P <=> Shows(slides[Len(slides)], LayoutAt(slides, Len(slides)))  BY <1>1, SameEndsShow
<1>5. /\ deck[1].name = slides[1].name /\ deck[m].name = slides[Len(slides)].name /\ Len(slides) > 0
  <2>1. Len(slides) \in Nat  BY DEF Decks
  <2>. QED  BY <1>1, <2>1 DEF SameEnds, Same
<1>6. Drawable(deck) = Keep(deck, P)  BY DEF Drawable
<1>. HIDE DEF P, m
<1>7. /\ Keep(deck, P) \in Decks /\ Distinct(Keep(deck, P))
      /\ Len(Keep(deck, P)) = Cardinality(P) /\ Cardinality(P) \in Nat /\ Cardinality(P) <= Len(deck)
      /\ 1 \in P => Cardinality(P) > 0 /\ Keep(deck, P)[1] = deck[1]
      /\ Len(deck) \in P => Keep(deck, P)[Cardinality(P)] = deck[Len(deck)]
  BY <1>2, KeepType
<1>8. Cardinality(P) <= 3  BY <1>1, <1>7 DEF m
<1>. QED  BY <1>3, <1>4, <1>5, <1>6, <1>7, <1>8 DEF EndsKept, m
-----------------------------------------------------------------------------
(* The states of a transform.                                              *)

TheCards == (Transforms \X Names) \cup {Nothing}
Pictures == [no : Numbers, card : TheCards]
JobStates ==
    [pc : {"idle", "ask", "draw", "upload", "render", "read", "put", "done", "failed"},
     answer : SlideAnswers \cup {<< >>}, deck : Decks, left : Seq(Numbers), drawn : Seq(Pictures),
     model : Nat, attempt : Nat, images : Seq(Pictures)]

\* The type invariant, with what there is to draw, to read or to upload.
CardTypeOK ==
    /\ cardSetup \in CardSetups
    /\ job \in [Transforms -> JobStates]
    /\ local \in [Numbers -> TheCards] /\ bucket \in [Numbers -> TheCards]
    /\ \A t \in Transforms :
         /\ job[t].pc \in {"idle", "ask"} => job[t].left = << >> /\ job[t].drawn = << >> /\ job[t].images = << >>
         /\ job[t].pc \in {"draw", "upload"} => job[t].left = << >> /\ cardSetup.imageModel
         /\ job[t].pc = "draw" => Len(job[t].drawn) < Len(job[t].deck) /\ job[t].images = << >>
         /\ job[t].pc \in {"upload", "put"} => Len(job[t].drawn) > 0
         /\ job[t].pc \in {"read", "put"} => Len(job[t].left) > 0

\* The deck is of the answer; Pillow's is what of it shows.
DecksInv ==
    \A t \in Transforms :
      /\ job[t].pc \in {"draw", "upload", "render"} =>
           /\ job[t].answer \in SlideAnswers
           /\ SameEnds(job[t].deck, Filled(job[t].answer)) /\ Distinct(job[t].deck)
           /\ Len(job[t].deck) <= 3 /\ Len(job[t].deck) > 0
      /\ job[t].pc \in {"read", "put", "done"} =>
           /\ job[t].answer \in SlideAnswers
           /\ Len(job[t].deck) > 0 /\ EndsKept(job[t].deck, Filled(job[t].answer))

\* A deck of the image model keeps the ends, too.
LEMMA WholeDeckKeepsEnds ==
    ASSUME NEW answer \in SlideAnswers, NEW deck \in Decks,
           SameEnds(deck, Filled(answer)), Distinct(deck), Len(deck) <= 3, Len(deck) > 0
    PROVE  EndsKept(deck, Filled(answer))
<1>1. Filled(answer) \in Decks /\ Len(Filled(answer)) \in Nat  BY FilledType DEF Decks
<1>2. /\ Same(deck[1], Filled(answer)[1]) /\ Same(deck[Len(deck)], Filled(answer)[Len(Filled(answer))])
      /\ Len(Filled(answer)) > 0
  <2>1. Len(deck) \in Nat  BY DEF Decks
  <2>. QED  BY <1>1, <2>1 DEF SameEnds
<1>. QED  BY <1>2 DEF EndsKept, Same

\* A card of a deck, and the picture of it.
LEMMA PictureType ==
    ASSUME NEW t \in Transforms, NEW deck \in Decks, NEW k \in 1..Len(deck)
    PROVE  /\ Card(t, deck[k]) \in TheCards
           /\ k \in Numbers /\ deck[k].number \in Numbers
           /\ [no |-> deck[k].number, card |-> Card(t, deck[k])] \in Pictures
           /\ [no |-> k, card |-> Card(t, deck[k])] \in Pictures
<1>1. k \in DOMAIN deck /\ deck[k] \in Entries  BY DEF Decks
<1>2. k \in Numbers /\ deck[k].number \in Numbers  BY <1>1 DEF Decks
<1>3. Card(t, deck[k]) \in TheCards  BY <1>1 DEF Card, TheCards, Entries
<1>. QED  BY <1>2, <1>3 DEF Pictures

\* What RenderDeck does: it draws what shows of the deck, card k into file k.
LEMMA Rendering ==
    ASSUME CardTypeOK, DecksInv, NEW t \in Transforms, RenderDeck(t)
    PROVE  LET deck == Drawable(job[t].deck)
           IN /\ deck \in Decks /\ EndsKept(deck, Filled(job[t].answer)) /\ Len(deck) \in Nat
              /\ \/ job' = [job EXCEPT ![t] = [job[t] EXCEPT !.pc = "failed"]] /\ local' = local
                 \/ /\ Len(deck) > 0
                    /\ job' = [job EXCEPT ![t] = [job[t] EXCEPT !.pc = "read", !.deck = deck,
                                                                !.left = [k \in 1..Len(deck) |-> k]]]
                    /\ local' = [no \in Numbers |-> IF no \in 1..Len(deck) THEN Card(t, deck[no]) ELSE local[no]]
              /\ job[t].pc = "render" /\ cardSetup' = cardSetup /\ bucket' = bucket
              /\ handoffRow' = handoffRow /\ mixed' = mixed
<1>. DEFINE deck == Drawable(job[t].deck)
            numbers == [k \in DOMAIN deck |-> FileNumber(deck, k)]
            at(no) == {k \in DOMAIN deck : numbers[k] = no}
<1>1. /\ job[t].pc = "render" /\ job[t] \in JobStates /\ cardSetup' = cardSetup /\ bucket' = bucket
      /\ handoffRow' = handoffRow /\ mixed' = mixed
  BY DEF RenderDeck, CardTypeOK
<1>2. \/ deck = << >> /\ job' = [job EXCEPT ![t] = [job[t] EXCEPT !.pc = "failed"]] /\ local' = local
      \/ /\ deck # << >>
         /\ job' = [job EXCEPT ![t] = [job[t] EXCEPT !.pc = "read", !.deck = deck, !.left = numbers]]
         /\ local' = [no \in Numbers |-> IF at(no) = {} THEN local[no] ELSE Card(t, deck[Max(at(no))])]
  BY DEF RenderDeck, Becomes
<1>3. /\ job[t].deck \in Decks /\ job[t].answer \in SlideAnswers
      /\ SameEnds(job[t].deck, Filled(job[t].answer)) /\ Distinct(job[t].deck)
      /\ Len(job[t].deck) <= 3 /\ Len(job[t].deck) > 0
  BY <1>1 DEF DecksInv, JobStates
<1>4. Filled(job[t].answer) \in Decks  BY <1>3, FilledType
<1>5. deck \in Decks /\ Len(deck) \in Nat /\ EndsKept(deck, Filled(job[t].answer))
  BY <1>3, <1>4, DrawableType
<1>. HIDE DEF deck
<1>6. DOMAIN deck = 1..Len(deck) /\ (deck # << >> => Len(deck) > 0)  BY <1>5 DEF Decks
<1>7. numbers = [k \in 1..Len(deck) |-> k]  BY <1>6 DEF FileNumber
<1>8. \A no : at(no) = IF no \in 1..Len(deck) THEN {no} ELSE {}  BY <1>6, <1>7
<1>9. ASSUME NEW no \in 1..Len(deck) PROVE Max({no}) = no
  <2>1. \E x \in {no} : \A y \in {no} : x >= y  OBVIOUS
  <2>. QED  BY <2>1 DEF Max
<1>10. \A no \in Numbers : (IF at(no) = {} THEN local[no] ELSE Card(t, deck[Max(at(no))]))
                          = IF no \in 1..Len(deck) THEN Card(t, deck[no]) ELSE local[no]
  <2>. HIDE DEF at
  <2>. QED  BY <1>8, <1>9
<1>. HIDE DEF at, numbers
<1>. QED  BY <1>1, <1>2, <1>5, <1>6, <1>7, <1>10 DEF deck

\* The step of one transform: the others are as they were.
LEMMA CardTypeStep == CardTypeOK /\ DecksInv /\ [CardNext]_cardVars => CardTypeOK'
<1>. SUFFICES ASSUME CardTypeOK, DecksInv, [CardNext]_cardVars PROVE CardTypeOK'
  OBVIOUS
<1>1. CASE UNCHANGED cardVars  BY <1>1 DEF cardVars, CardTypeOK
<1>2. ASSUME NEW t \in Transforms, BeginDeck(t) PROVE CardTypeOK'
  BY <1>2 DEF BeginDeck, Becomes, CardTypeOK, JobStates
<1>3. ASSUME NEW t \in Transforms, AskSlides(t) PROVE CardTypeOK'
  <2>1. cardSetup' = cardSetup /\ local' = local /\ bucket' = bucket /\ job[t].pc = "ask" /\ job[t] \in JobStates
    BY <1>3 DEF AskSlides, CardTypeOK
  <2>2. PICK j : job' = [job EXCEPT ![t] = j]
                 /\ \/ j = [job[t] EXCEPT !.pc = "failed"]
                    \/ \E answer \in SlideAnswers :
                         /\ ParseSlides(answer) # << >>
                         /\ j = [job[t] EXCEPT !.answer = answer, !.deck = ParseSlides(answer),
                                               !.pc = IF cardSetup.imageModel THEN "draw" ELSE "render"]
    BY <1>3, Zenon DEF AskSlides, Becomes
  <2>3. CASE j = [job[t] EXCEPT !.pc = "failed"]
    BY <2>1, <2>2, <2>3 DEF CardTypeOK, JobStates
  <2>4. ASSUME NEW answer \in SlideAnswers, ParseSlides(answer) # << >>,
               j = [job[t] EXCEPT !.answer = answer, !.deck = ParseSlides(answer),
                                 !.pc = IF cardSetup.imageModel THEN "draw" ELSE "render"]
        PROVE  CardTypeOK'
    <3>. DEFINE deck == ParseSlides(answer)
    <3>1. deck \in Decks  BY ParseType
    <3>2. Len(deck) > 0
      <4>1. deck \in Seq(Entries) /\ deck # << >>  BY <2>4, <3>1 DEF Decks
      <4>. HIDE DEF deck
      <4>. QED  BY <4>1
    <3>. HIDE DEF deck
    <3>3. j = [job[t] EXCEPT !.answer = answer, !.deck = deck,
                             !.pc = IF cardSetup.imageModel THEN "draw" ELSE "render"]
      BY <2>4 DEF deck
    <3>4. job[t].left = << >> /\ job[t].drawn = << >> /\ job[t].images = << >>
      BY <2>1 DEF CardTypeOK
    <3>5. /\ j \in JobStates /\ j.left = << >> /\ j.drawn = << >> /\ j.images = << >> /\ j.deck = deck
          /\ j.pc = IF cardSetup.imageModel THEN "draw" ELSE "render"
      BY <2>1, <3>1, <3>3, <3>4 DEF JobStates
    <3>. QED  BY <2>1, <2>2, <3>2, <3>5 DEF CardTypeOK
  <2>. QED  BY <2>2, <2>3, <2>4
<1>4. ASSUME NEW t \in Transforms, DrawSlide(t) PROVE CardTypeOK'
  <2>. DEFINE k == Len(job[t].drawn) + 1
              image == [no |-> job[t].deck[k].number, card |-> Card(t, job[t].deck[k])]
              drawn == [job[t] EXCEPT !.drawn = Append(@, image), !.model = 1, !.attempt = 1]
  <2>1. /\ cardSetup' = cardSetup /\ local' = local /\ bucket' = bucket /\ job[t].pc = "draw"
        /\ job[t] \in JobStates
    BY <1>4 DEF DrawSlide, CardTypeOK
  <2>2. /\ job[t].left = << >> /\ job[t].images = << >> /\ cardSetup.imageModel
        /\ Len(job[t].drawn) < Len(job[t].deck)
    BY <2>1 DEF CardTypeOK
  <2>3. job[t].deck \in Decks /\ job[t].drawn \in Seq(Pictures) /\ Len(job[t].deck) \in Nat /\ Len(job[t].drawn) \in Nat
        /\ job[t].model \in Nat /\ job[t].attempt \in Nat
    BY <2>1 DEF JobStates, Decks
  <2>4. k \in 1..Len(job[t].deck)  BY <2>2, <2>3
  <2>5. image \in Pictures  BY <2>3, <2>4, PictureType
  <2>. HIDE DEF image
  <2>6. Append(job[t].drawn, image) \in Seq(Pictures) /\ Len(Append(job[t].drawn, image)) = k
    BY <2>3, <2>5
  <2>7. /\ drawn \in JobStates /\ drawn.pc = "draw" /\ drawn.deck = job[t].deck /\ drawn.left = << >>
        /\ drawn.images = << >> /\ Len(drawn.drawn) = k
    BY <2>1, <2>2, <2>3, <2>6 DEF JobStates
  <2>8. PICK j : job' = [job EXCEPT ![t] = j]
                 /\ \/ j = drawn /\ k # Len(job[t].deck)
                    \/ j = [drawn EXCEPT !.pc = "upload"]
                    \/ j = [job[t] EXCEPT !.attempt = @ + 1]
                    \/ j = [job[t] EXCEPT !.model = @ + 1, !.attempt = 1]
                    \/ j = FallBack(job[t])
    BY <1>4 DEF DrawSlide, Becomes, image
  <2>. HIDE DEF drawn
  <2>9. /\ j \in JobStates /\ j.left = << >> /\ j.pc \in {"draw", "upload", "render", "failed"}
        /\ j.pc = "draw" => Len(j.drawn) < Len(j.deck) /\ j.images = << >>
        /\ j.pc = "upload" => Len(j.drawn) > 0
    <3>1. CASE j = drawn /\ k # Len(job[t].deck)
      <4>1. k < Len(job[t].deck)  BY <2>3, <2>4, <3>1
      <4>. QED  BY <2>7, <3>1, <4>1
    <3>2. CASE j = [drawn EXCEPT !.pc = "upload"]
      <4>1. j \in JobStates  BY <2>7, <3>2 DEF JobStates
      <4>2. j.left = drawn.left /\ j.drawn = drawn.drawn /\ j.pc = "upload"  BY <2>7, <3>2 DEF JobStates
      <4>. QED  BY <2>4, <2>7, <4>1, <4>2
    <3>3. CASE j = [job[t] EXCEPT !.attempt = @ + 1] \/ j = [job[t] EXCEPT !.model = @ + 1, !.attempt = 1]
      <4>1. 1 \in Nat /\ job[t].attempt + 1 \in Nat /\ job[t].model + 1 \in Nat  BY <2>3
      <4>2. j \in JobStates  BY <2>1, <3>3, <4>1 DEF JobStates
      <4>3. j.left = job[t].left /\ j.drawn = job[t].drawn /\ j.pc = "draw" /\ j.deck = job[t].deck
            /\ j.images = job[t].images
        BY <2>1, <3>3 DEF JobStates
      <4>. QED  BY <2>2, <4>2, <4>3
    <3>4. CASE j = FallBack(job[t])
      BY <2>1, <2>2, <3>4 DEF FallBack, JobStates
    <3>. QED  BY <2>8, <3>1, <3>2, <3>3, <3>4
  <2>. QED  BY <2>1, <2>2, <2>8, <2>9 DEF CardTypeOK
<1>5. ASSUME NEW t \in Transforms, UploadDrawn(t) PROVE CardTypeOK'
  <2>. DEFINE image == Head(job[t].drawn)
              images == Append(job[t].images, image)
  <2>1. cardSetup' = cardSetup /\ job[t].pc = "upload" /\ job[t] \in JobStates
    BY <1>5 DEF UploadDrawn, CardTypeOK
  <2>2. job[t].left = << >> /\ cardSetup.imageModel /\ Len(job[t].drawn) > 0
    BY <2>1 DEF CardTypeOK
  <2>3. job[t].drawn \in Seq(Pictures) /\ job[t].images \in Seq(Pictures)
    BY <2>1 DEF JobStates
  <2>4. image \in Pictures /\ Tail(job[t].drawn) \in Seq(Pictures) /\ Len(Tail(job[t].drawn)) = Len(job[t].drawn) - 1
        /\ Len(job[t].drawn) \in Nat
    BY <2>2, <2>3
  <2>5. images \in Seq(Pictures)  BY <2>3, <2>4
  <2>6. image.no \in Numbers /\ image.card \in TheCards  BY <2>4 DEF Pictures
  <2>. HIDE DEF image, images
  <2>7. local' \in [Numbers -> TheCards] /\ bucket' \in [Numbers -> TheCards]
    <3>1. local \in [Numbers -> TheCards] /\ bucket \in [Numbers -> TheCards]  BY DEF CardTypeOK
    <3>2. [no \in Numbers |-> Nothing] \in [Numbers -> TheCards]  BY DEF TheCards
    <3>3. [local EXCEPT ![image.no] = image.card] \in [Numbers -> TheCards]
          /\ [bucket EXCEPT ![image.no] = image.card] \in [Numbers -> TheCards]
      BY <2>6, <3>1
    <3>. QED  BY <1>5, <3>1, <3>2, <3>3 DEF UploadDrawn, Put, Finish, image
  <2>8. PICK j : job' = [job EXCEPT ![t] = j]
                 /\ \/ j = [job[t] EXCEPT !.pc = "done", !.images = images]
                    \/ j = [job[t] EXCEPT !.images = images, !.drawn = Tail(@)] /\ Len(job[t].drawn) # 1
                    \/ j = FallBack(job[t])
    BY <1>5 DEF UploadDrawn, Becomes, Finish, image, images
  <2>9. /\ j \in JobStates /\ j.left = << >> /\ j.pc \in {"done", "upload", "render", "failed"}
        /\ j.pc = "upload" => Len(j.drawn) > 0
    <3>1. CASE j = [job[t] EXCEPT !.pc = "done", !.images = images]
      BY <2>1, <2>2, <2>5, <3>1 DEF JobStates
    <3>2. CASE j = [job[t] EXCEPT !.images = images, !.drawn = Tail(@)] /\ Len(job[t].drawn) # 1
      <4>1. j \in JobStates  BY <2>1, <2>4, <2>5, <3>2 DEF JobStates
      <4>2. j.left = job[t].left /\ j.drawn = Tail(job[t].drawn) /\ j.pc = "upload"  BY <2>1, <3>2 DEF JobStates
      <4>3. Len(job[t].drawn) # 1  BY <3>2
      <4>4. Len(Tail(job[t].drawn)) > 0
        <5>1. \A n, r \in Nat : n > 0 /\ n # 1 /\ r = n - 1 => r > 0  OBVIOUS
        <5>2. Len(job[t].drawn) \in Nat /\ Len(Tail(job[t].drawn)) \in Nat  BY <2>4
        <5>. QED  BY <2>2, <2>4, <4>3, <5>1, <5>2, Zenon
      <4>. QED  BY <2>2, <4>1, <4>2, <4>4
    <3>3. CASE j = FallBack(job[t])
      BY <2>1, <2>2, <3>3 DEF FallBack, JobStates
    <3>. QED  BY <2>8, <3>1, <3>2, <3>3
  <2>. QED  BY <2>1, <2>2, <2>7, <2>8, <2>9 DEF CardTypeOK
<1>6. ASSUME NEW t \in Transforms, RenderDeck(t) PROVE CardTypeOK'
  <2>. DEFINE deck == Drawable(job[t].deck)
              numbers == [k \in 1..Len(deck) |-> k]
  <2>1. /\ deck \in Decks /\ Len(deck) \in Nat /\ job[t].pc = "render" /\ cardSetup' = cardSetup /\ bucket' = bucket
        /\ \/ job' = [job EXCEPT ![t] = [job[t] EXCEPT !.pc = "failed"]] /\ local' = local
           \/ /\ Len(deck) > 0
              /\ job' = [job EXCEPT ![t] = [job[t] EXCEPT !.pc = "read", !.deck = deck, !.left = numbers]]
              /\ local' = [no \in Numbers |-> IF no \in 1..Len(deck) THEN Card(t, deck[no]) ELSE local[no]]
    BY <1>6, Rendering
  <2>. HIDE DEF deck
  <2>2. job[t] \in JobStates  BY DEF CardTypeOK
  <2>3. numbers \in Seq(Numbers) /\ Len(numbers) = Len(deck)
    <3>1. \A k \in 1..Len(deck) : k \in Numbers  BY <2>1, PictureType
    <3>2. numbers \in [1..Len(deck) -> Numbers]  BY <3>1
    <3>. QED  BY <2>1, <3>2
  <2>4. \A no \in 1..Len(deck) : Card(t, deck[no]) \in TheCards  BY <2>1, PictureType
  <2>. HIDE DEF numbers
  <2>5. local' \in [Numbers -> TheCards]  BY <2>1, <2>4 DEF CardTypeOK
  <2>6. CASE job' = [job EXCEPT ![t] = [job[t] EXCEPT !.pc = "failed"]]
    BY <2>1, <2>2, <2>5, <2>6 DEF CardTypeOK, JobStates
  <2>7. CASE Len(deck) > 0 /\ job' = [job EXCEPT ![t] = [job[t] EXCEPT !.pc = "read", !.deck = deck, !.left = numbers]]
    <3>. DEFINE j == [job[t] EXCEPT !.pc = "read", !.deck = deck, !.left = numbers]
    <3>1. j \in JobStates /\ j.pc = "read" /\ j.left = numbers  BY <2>1, <2>2, <2>3 DEF JobStates
    <3>. HIDE DEF j
    <3>2. job' = [job EXCEPT ![t] = j] /\ Len(j.left) > 0  BY <2>3, <2>7, <3>1 DEF j
    <3>. QED  BY <2>1, <2>5, <3>1, <3>2 DEF CardTypeOK
  <2>. QED  BY <2>1, <2>6, <2>7
<1>7. ASSUME NEW t \in Transforms, ReadCard(t) PROVE CardTypeOK'
  <2>. DEFINE no == Head(job[t].left)
              picture == [no |-> no, card |-> local[no]]
  <2>1. /\ cardSetup' = cardSetup /\ bucket' = bucket /\ local' = local
        /\ job[t].pc = "read" /\ job[t] \in JobStates
    BY <1>7 DEF ReadCard, CardTypeOK
  <2>2. job[t].left \in Seq(Numbers) /\ Len(job[t].left) > 0  BY <2>1 DEF JobStates, CardTypeOK
  <2>3. no \in Numbers  BY <2>2
  <2>4. picture \in Pictures  BY <2>3 DEF CardTypeOK, Pictures
  <2>. HIDE DEF no, picture
  <2>5. <<picture>> \in Seq(Pictures) /\ Len(<<picture>>) > 0  BY <2>4
  <2>6. PICK j : /\ job' = [job EXCEPT ![t] = j]
                 /\ j \in {[job[t] EXCEPT !.pc = "failed"], [job[t] EXCEPT !.pc = "put", !.drawn = <<picture>>]}
    BY <1>7 DEF ReadCard, Becomes, no, picture
  <2>7. /\ j \in JobStates /\ j.pc \in {"put", "failed"} /\ j.left = job[t].left
        /\ j.pc = "put" => Len(j.drawn) > 0
    BY <2>1, <2>2, <2>5, <2>6 DEF JobStates
  <2>. QED  BY <2>1, <2>2, <2>6, <2>7 DEF CardTypeOK
<1>8. ASSUME NEW t \in Transforms, UploadCard(t) PROVE CardTypeOK'
  <2>. DEFINE image == Head(job[t].drawn)
              images == Append(job[t].images, image)
  <2>1. cardSetup' = cardSetup /\ job[t].pc = "put" /\ job[t] \in JobStates
    BY <1>8 DEF UploadCard, CardTypeOK
  <2>2. Len(job[t].left) > 0 /\ Len(job[t].drawn) > 0
    BY <2>1 DEF CardTypeOK
  <2>3. job[t].drawn \in Seq(Pictures) /\ job[t].images \in Seq(Pictures) /\ job[t].left \in Seq(Numbers)
    BY <2>1 DEF JobStates
  <2>4. image \in Pictures /\ Tail(job[t].left) \in Seq(Numbers) /\ Len(Tail(job[t].left)) = Len(job[t].left) - 1
        /\ Len(job[t].left) \in Nat
    BY <2>2, <2>3
  <2>5. images \in Seq(Pictures)  BY <2>3, <2>4
  <2>6. image.no \in Numbers /\ image.card \in TheCards  BY <2>4 DEF Pictures
  <2>. HIDE DEF image, images
  <2>7. local' \in [Numbers -> TheCards] /\ bucket' \in [Numbers -> TheCards]
    <3>1. local \in [Numbers -> TheCards] /\ bucket \in [Numbers -> TheCards]  BY DEF CardTypeOK
    <3>2. [no \in Numbers |-> Nothing] \in [Numbers -> TheCards]  BY DEF TheCards
    <3>3. [bucket EXCEPT ![image.no] = image.card] \in [Numbers -> TheCards]
      BY <2>6, <3>1
    <3>. QED  BY <1>8, <3>1, <3>2, <3>3 DEF UploadCard, Put, Finish, image
  <2>8. PICK j : job' = [job EXCEPT ![t] = j]
                 /\ \/ j = [job[t] EXCEPT !.pc = "done", !.images = images]
                    \/ j = [job[t] EXCEPT !.pc = "read", !.left = Tail(@), !.images = images] /\ Len(job[t].left) # 1
                    \/ j = [job[t] EXCEPT !.pc = "failed"]
    BY <1>8 DEF UploadCard, Becomes, Finish, image, images
  <2>9. /\ j \in JobStates /\ j.pc \in {"done", "read", "failed"}
        /\ j.pc = "read" => Len(j.left) > 0
    <3>1. CASE j = [job[t] EXCEPT !.pc = "done", !.images = images] \/ j = [job[t] EXCEPT !.pc = "failed"]
      BY <2>1, <2>5, <3>1 DEF JobStates
    <3>2. CASE j = [job[t] EXCEPT !.pc = "read", !.left = Tail(@), !.images = images] /\ Len(job[t].left) # 1
      <4>1. j \in JobStates  BY <2>1, <2>4, <2>5, <3>2 DEF JobStates
      <4>2. j.left = Tail(job[t].left) /\ j.pc = "read"  BY <2>1, <3>2 DEF JobStates
      <4>3. Len(job[t].left) # 1  BY <3>2
      <4>4. Len(Tail(job[t].left)) > 0
        <5>1. \A n, r \in Nat : n > 0 /\ n # 1 /\ r = n - 1 => r > 0  OBVIOUS
        <5>2. Len(job[t].left) \in Nat /\ Len(Tail(job[t].left)) \in Nat  BY <2>4
        <5>. QED  BY <2>2, <2>4, <4>3, <5>1, <5>2, Zenon
      <4>. QED  BY <4>1, <4>2, <4>4
    <3>. QED  BY <2>8, <3>1, <3>2
  <2>. QED  BY <2>1, <2>7, <2>8, <2>9 DEF CardTypeOK
<1>. QED  BY <1>1, <1>2, <1>3, <1>4, <1>5, <1>6, <1>7, <1>8 DEF CardNext

\* The decks of the others stay.
LEMMA DecksStep ==
    ASSUME CardTypeOK, DecksInv, NEW t \in Transforms, cardSetup' = cardSetup, NEW j,
           job' = [job EXCEPT ![t] = j],
           j.pc \in {"draw", "upload", "render"} =>
             /\ j.answer \in SlideAnswers
             /\ SameEnds(j.deck, Filled(j.answer)) /\ Distinct(j.deck)
             /\ Len(j.deck) <= 3 /\ Len(j.deck) > 0,
           j.pc \in {"read", "put", "done"} =>
             /\ j.answer \in SlideAnswers
             /\ Len(j.deck) > 0 /\ EndsKept(j.deck, Filled(j.answer))
    PROVE  DecksInv'
<1>1. job'[t] = j /\ \A o \in Transforms \ {t} : job'[o] = job[o]  BY DEF CardTypeOK
<1>2. \A o \in Transforms :
        /\ job'[o].pc \in {"draw", "upload", "render"} =>
             /\ job'[o].answer \in SlideAnswers
             /\ SameEnds(job'[o].deck, Filled(job'[o].answer)) /\ Distinct(job'[o].deck)
             /\ Len(job'[o].deck) <= 3 /\ Len(job'[o].deck) > 0
        /\ job'[o].pc \in {"read", "put", "done"} =>
             /\ job'[o].answer \in SlideAnswers
             /\ Len(job'[o].deck) > 0 /\ EndsKept(job'[o].deck, Filled(job'[o].answer))
  BY <1>1 DEF DecksInv
<1>3. \A o \in Transforms : EndsKept(job'[o].deck, Filled(job'[o].answer)) => EndsKept(job[o].deck, Filled(job[o].answer))'
  BY DEF EndsKept, Shows, LayoutAt
<1>. QED  BY <1>2, <1>3 DEF DecksInv

\* And so does one that is only drawn, read or uploaded.
LEMMA DecksStay ==
    ASSUME CardTypeOK, DecksInv, NEW t \in Transforms, cardSetup' = cardSetup, NEW j,
           job' = [job EXCEPT ![t] = j], j.answer = job[t].answer, j.deck = job[t].deck,
           j.pc \in {"draw", "upload", "render"} => job[t].pc \in {"draw", "upload", "render"},
           j.pc \in {"read", "put", "done"} =>
               job[t].pc \in {"draw", "upload", "render", "read", "put", "done"}
    PROVE  DecksInv'
<1>1. ASSUME job[t].pc \in {"draw", "upload", "render"}
      PROVE  EndsKept(job[t].deck, Filled(job[t].answer))
  <2>1. job[t].deck \in Decks  BY DEF CardTypeOK, JobStates
  <2>. QED  BY <1>1, <2>1, WholeDeckKeepsEnds DEF DecksInv
<1>. QED  BY <1>1, DecksStep DEF DecksInv

\* Every step keeps the ends of every deck.
LEMMA DecksNext == CardTypeOK /\ DecksInv /\ [CardNext]_cardVars => DecksInv'
<1>. SUFFICES ASSUME CardTypeOK, DecksInv, [CardNext]_cardVars PROVE DecksInv'
  OBVIOUS
<1>1. CASE UNCHANGED cardVars
  BY <1>1 DEF cardVars, DecksInv, EndsKept, Shows, LayoutAt
<1>2. ASSUME NEW t \in Transforms, BeginDeck(t) PROVE DecksInv'
  <2>. DEFINE j == [job[t] EXCEPT !.pc = "ask"]
  <2>1. cardSetup' = cardSetup /\ job' = [job EXCEPT ![t] = j]  BY <1>2 DEF BeginDeck, Becomes
  <2>2. j.answer = job[t].answer /\ j.deck = job[t].deck /\ j.pc = "ask"  BY DEF CardTypeOK, JobStates
  <2>. HIDE DEF j
  <2>. QED  BY <2>1, <2>2, DecksStay
<1>3. ASSUME NEW t \in Transforms, AskSlides(t) PROVE DecksInv'
  <2>1. cardSetup' = cardSetup /\ job[t] \in JobStates /\ job[t].pc = "ask"  BY <1>3 DEF AskSlides, CardTypeOK
  <2>2. CASE job' = [job EXCEPT ![t] = [job[t] EXCEPT !.pc = "failed"]]
    <3>. DEFINE j == [job[t] EXCEPT !.pc = "failed"]
    <3>1. j.answer = job[t].answer /\ j.deck = job[t].deck /\ j.pc = "failed"  BY <2>1 DEF JobStates
    <3>. HIDE DEF j
    <3>. QED  BY <2>1, <2>2, <3>1, DecksStay DEF j
  <2>3. ASSUME NEW answer \in SlideAnswers, ParseSlides(answer) # << >>,
               job' = [job EXCEPT ![t] = [job[t] EXCEPT !.answer = answer, !.deck = ParseSlides(answer),
                                            !.pc = IF cardSetup.imageModel THEN "draw" ELSE "render"]]
        PROVE  DecksInv'
    <3>. DEFINE deck == ParseSlides(answer)
                j == [job[t] EXCEPT !.answer = answer, !.deck = deck,
                                    !.pc = IF cardSetup.imageModel THEN "draw" ELSE "render"]
    <3>1. deck \in Decks /\ Distinct(deck) /\ SameEnds(deck, Filled(answer)) /\ Len(deck) <= 3  BY ParseType
    <3>2. Len(deck) > 0
      <4>1. deck \in Seq(Entries) /\ deck # << >>  BY <2>3, <3>1 DEF Decks
      <4>. HIDE DEF deck
      <4>. QED  BY <4>1
    <3>3. job' = [job EXCEPT ![t] = j]  BY <2>3
    <3>. HIDE DEF deck
    <3>4. j.answer = answer /\ j.deck = deck /\ j.pc \in {"draw", "render"}  BY <2>1 DEF JobStates
    <3>. HIDE DEF j
    <3>. QED  BY <2>1, <3>1, <3>2, <3>3, <3>4, DecksStep
  <2>. QED  BY <1>3, <2>2, <2>3 DEF AskSlides, Becomes
<1>4. ASSUME NEW t \in Transforms, DrawSlide(t) PROVE DecksInv'
  <2>1. cardSetup' = cardSetup /\ job[t].pc = "draw" /\ job[t] \in JobStates  BY <1>4 DEF DrawSlide, CardTypeOK
  <2>. DEFINE k == Len(job[t].drawn) + 1
              image == [no |-> job[t].deck[k].number, card |-> Card(t, job[t].deck[k])]
              drawn == [job[t] EXCEPT !.drawn = Append(@, image), !.model = 1, !.attempt = 1]
  <2>2. PICK j : /\ job' = [job EXCEPT ![t] = j]
                 /\ \/ j = drawn
                    \/ j = [drawn EXCEPT !.pc = "upload"]
                    \/ j = [job[t] EXCEPT !.attempt = @ + 1]
                    \/ j = [job[t] EXCEPT !.model = @ + 1, !.attempt = 1]
                    \/ j = FallBack(job[t])
    BY <1>4 DEF DrawSlide, Becomes
  <2>3. /\ j.answer = job[t].answer /\ j.deck = job[t].deck
        /\ j.pc \in {"draw", "upload", "render", "failed"}
    BY <2>1, <2>2 DEF FallBack, JobStates
  <2>. QED  BY <2>1, <2>2, <2>3, DecksStay
<1>5. ASSUME NEW t \in Transforms, UploadDrawn(t) PROVE DecksInv'
  <2>1. cardSetup' = cardSetup /\ job[t].pc = "upload" /\ job[t] \in JobStates  BY <1>5 DEF UploadDrawn, CardTypeOK
  <2>2. PICK j, images : /\ job' = [job EXCEPT ![t] = j]
                         /\ \/ j = [job[t] EXCEPT !.pc = "done", !.images = images]
                            \/ j = [job[t] EXCEPT !.images = images, !.drawn = Tail(@)]
                            \/ j = FallBack(job[t])
    BY <1>5 DEF UploadDrawn, Becomes, Finish
  <2>3. /\ j.answer = job[t].answer /\ j.deck = job[t].deck
        /\ j.pc \in {"upload", "done", "render", "failed"}
    BY <2>1, <2>2 DEF FallBack, JobStates
  <2>. QED  BY <2>1, <2>2, <2>3, DecksStay
<1>6. ASSUME NEW t \in Transforms, RenderDeck(t) PROVE DecksInv'
  <2>. DEFINE deck == Drawable(job[t].deck)
  <2>1. /\ job[t].pc = "render" /\ cardSetup' = cardSetup /\ EndsKept(deck, Filled(job[t].answer))
        /\ \/ job' = [job EXCEPT ![t] = [job[t] EXCEPT !.pc = "failed"]]
           \/ Len(deck) > 0 /\ job' = [job EXCEPT ![t] = [job[t] EXCEPT !.pc = "read", !.deck = deck,
                                                                         !.left = [k \in 1..Len(deck) |-> k]]]
    BY <1>6, Rendering
  <2>. HIDE DEF deck
  <2>2. job[t] \in JobStates /\ job[t].answer \in SlideAnswers  BY <2>1 DEF CardTypeOK, DecksInv
  <2>3. PICK j : /\ job' = [job EXCEPT ![t] = j]
                 /\ \/ j = [job[t] EXCEPT !.pc = "failed"]
                    \/ Len(deck) > 0 /\ j = [job[t] EXCEPT !.pc = "read", !.deck = deck,
                                                          !.left = [k \in 1..Len(deck) |-> k]]
    BY <2>1
  <2>4. j.answer = job[t].answer /\ (j.pc = "failed" \/ (j.pc = "read" /\ j.deck = deck /\ Len(deck) > 0))
    BY <2>2, <2>3 DEF JobStates
  <2>. QED  BY <2>1, <2>2, <2>3, <2>4, DecksStep
<1>7. ASSUME NEW t \in Transforms, ReadCard(t) PROVE DecksInv'
  <2>1. cardSetup' = cardSetup /\ job[t].pc = "read" /\ job[t] \in JobStates  BY <1>7 DEF ReadCard, CardTypeOK
  <2>2. PICK j, drawn : /\ job' = [job EXCEPT ![t] = j]
                        /\ \/ j = [job[t] EXCEPT !.pc = "failed"]
                           \/ j = [job[t] EXCEPT !.pc = "put", !.drawn = drawn]
    BY <1>7 DEF ReadCard, Becomes
  <2>3. j.answer = job[t].answer /\ j.deck = job[t].deck /\ j.pc \in {"put", "failed"}
    BY <2>1, <2>2 DEF JobStates
  <2>. QED  BY <2>1, <2>2, <2>3, DecksStay
<1>8. ASSUME NEW t \in Transforms, UploadCard(t) PROVE DecksInv'
  <2>1. cardSetup' = cardSetup /\ job[t].pc = "put" /\ job[t] \in JobStates  BY <1>8 DEF UploadCard, CardTypeOK
  <2>2. PICK j, images : /\ job' = [job EXCEPT ![t] = j]
                         /\ \/ j = [job[t] EXCEPT !.pc = "done", !.images = images]
                            \/ j = [job[t] EXCEPT !.pc = "read", !.left = Tail(@), !.images = images]
                            \/ j = [job[t] EXCEPT !.pc = "failed"]
    BY <1>8 DEF UploadCard, Becomes, Finish
  <2>3. j.answer = job[t].answer /\ j.deck = job[t].deck /\ j.pc \in {"read", "done", "failed"}
    BY <2>1, <2>2 DEF JobStates
  <2>. QED  BY <2>1, <2>2, <2>3, DecksStay
<1>. QED  BY <1>1, <1>2, <1>3, <1>4, <1>5, <1>6, <1>7, <1>8 DEF CardNext

\* At first there is no deck.
LEMMA DecksInit == CardInit => CardTypeOK /\ DecksInv
<1>. SUFFICES ASSUME CardInit PROVE CardTypeOK /\ DecksInv
  OBVIOUS
<1>1. << >> \in Decks /\ << >> \in Seq(Numbers) /\ << >> \in Seq(Pictures)  BY DEF Decks
<1>2. Nothing \in TheCards  BY DEF TheCards
<1>. QED  BY <1>1, <1>2 DEF CardInit, CardTypeOK, DecksInv, JobStates

\* The property, from the invariant.
LEMMA EndsProperty == CardTypeOK /\ DecksInv => DeckKeepsItsEnds
<1>. SUFFICES ASSUME CardTypeOK, DecksInv, NEW t \in Transforms,
                     job[t].pc \in {"draw", "upload", "read", "put", "done"}
              PROVE  LET slides == Filled(job[t].answer)
                         names == [k \in DOMAIN job[t].deck |-> job[t].deck[k].name]
                     IN /\ Len(names) <= 3
                        /\ IsInjective(names)
                        /\ Shows(Head(slides), LayoutAt(slides, 1)) => Head(names) = Head(slides).name
                        /\ Shows(Last(slides), LayoutAt(slides, Len(slides))) => Last(names) = Last(slides).name
  BY DEF DeckKeepsItsEnds
<1>. DEFINE deck == job[t].deck
            slides == Filled(job[t].answer)
            names == [k \in DOMAIN deck |-> deck[k].name]
<1>1. job[t].answer \in SlideAnswers /\ deck \in Decks /\ EndsKept(deck, slides) /\ Len(deck) > 0
  <2>1. deck \in Decks  BY DEF CardTypeOK, JobStates
  <2>. QED  BY <2>1, WholeDeckKeepsEnds DEF DecksInv
<1>2. slides \in Decks  BY <1>1, FilledType
<1>3. deck \in Seq(Entries) /\ slides \in Seq(Entries)  BY <1>1, <1>2 DEF Decks
<1>. HIDE DEF deck, slides
<1>4. names \in Seq(Names) /\ Len(names) = Len(deck)
  <2>1. \A e \in Entries : e.name \in Names  BY DEF Entries
  <2>2. \A k \in 1..Len(deck) : deck[k].name \in Names  BY <1>3, <2>1
  <2>. QED  BY <1>3, <2>2
<1>5. IsInjective(names)  BY <1>1 DEF EndsKept, Distinct, IsInjective
<1>6. Len(names) <= 3 /\ Len(deck) \in Nat /\ Len(slides) \in Nat /\ Len(slides) > 0  BY <1>1, <1>3, <1>4 DEF EndsKept
<1>7. /\ Head(slides) = slides[1] /\ Last(slides) = slides[Len(slides)]
      /\ Head(names) = deck[1].name /\ Last(names) = deck[Len(deck)].name
  <2>1. 1 \in 1..Len(deck) /\ Len(deck) \in 1..Len(deck) /\ DOMAIN deck = 1..Len(deck)  BY <1>1, <1>3, <1>6
  <2>2. names[1] = deck[1].name /\ names[Len(deck)] = deck[Len(deck)].name  BY <2>1
  <2>. HIDE DEF names
  <2>. QED  BY <1>1, <1>3, <1>4, <1>6, <2>2 DEF Last
<1>8. /\ Shows(slides[1], LayoutAt(slides, 1)) => deck[1].name = slides[1].name
      /\ Shows(slides[Len(slides)], LayoutAt(slides, Len(slides))) => deck[Len(deck)].name = slides[Len(slides)].name
  BY <1>1 DEF EndsKept
<1>. HIDE DEF names
<1>. QED  BY <1>5, <1>6, <1>7, <1>8 DEF deck, slides, names

\* Whatever the LLM answers, the cards of a policy or contest are three at most, none of them
\* twice, and they begin and end with the slides that do, if those show something
\* (parse_cardnews_slides_json, compact_contest_deck, compact_cardnews_slides).
THEOREM DeckEnds == CardSpec => []DeckKeepsItsEnds
<1>1. CardSpec => [](CardTypeOK /\ DecksInv)
  BY DecksInit, CardTypeStep, DecksNext, PTL DEF CardSpec
<1>. QED  BY <1>1, EndsProperty, PTL
-----------------------------------------------------------------------------
(* The row of a transform that ran alone.                                  *)

\* The image of card k of a deck, in the object of some number.
Image(t, deck, k, no) == [no |-> no, card |-> Card(t, deck[k])]

\* What the image model drew: the images that are uploaded, then those that are not, are
\* the deck, each under the number that it was given.
ModelsWork(t, deck, images, drawn, objects) ==
    /\ Len(images) + Len(drawn) <= Len(deck)
    /\ \A k \in 1..Len(images) : images[k] = Image(t, deck, k, deck[k].number)
    /\ \A i \in 1..Len(drawn) :
         drawn[i] = Image(t, deck, Len(images) + i, deck[Len(images) + i].number)
    /\ (\A j, k \in DOMAIN deck : deck[j].number = deck[k].number => j = k) =>
           \A k \in 1..Len(images) : objects[deck[k].number] = Card(t, deck[k])

\* What Pillow drew: the files are the deck, and all but those that are left are the
\* last images, and in the objects.
PillowsWork(t, deck, left, images, objects, files) ==
    LET n == Len(deck) - Len(left)
        more == Len(images) - n
    IN /\ n >= 0 /\ more >= 0
       /\ \A i \in 1..Len(left) : left[i] = n + i
       /\ \A k \in 1..n : images[more + k] = Image(t, deck, k, k) /\ objects[k] = Card(t, deck[k])
       /\ \A k \in 1..Len(deck) : files[k] = Card(t, deck[k])

\* What RowShowsItsDeck says of the row of a deck.
RowOf(t, deck, row, objects) ==
    LET cards == [k \in DOMAIN deck |-> Card(t, deck[k])]
        more == Len(row) - Len(deck)
        images == SubSeq(row, more + 1, Len(row))
        listed == [k \in DOMAIN images |-> images[k].card]
        numbers == [k \in DOMAIN images |-> images[k].no]
    IN /\ more >= 0
       /\ listed = cards
       /\ IsInjective(numbers)
       /\ \A k \in DOMAIN images : objects[numbers[k]] = listed[k]

\* A row that ends with a deck, each card in an object of its own that shows it.
LEMMA RowEnds ==
    ASSUME NEW t \in Transforms, NEW deck \in Decks, NEW row \in Seq(Pictures), NEW objects,
           Len(row) - Len(deck) >= 0,
           \A k \in 1..Len(deck) : /\ row[(Len(row) - Len(deck)) + k].card = Card(t, deck[k])
                                   /\ objects[row[(Len(row) - Len(deck)) + k].no] = Card(t, deck[k]),
           \A j, k \in 1..Len(deck) :
               row[(Len(row) - Len(deck)) + j].no = row[(Len(row) - Len(deck)) + k].no => j = k
    PROVE  RowOf(t, deck, row, objects)
<1>. DEFINE m == Len(deck)
            more == Len(row) - Len(deck)
            images == SubSeq(row, more + 1, Len(row))
            listed == [k \in DOMAIN images |-> images[k].card]
            numbers == [k \in DOMAIN images |-> images[k].no]
<1>1. m \in Nat /\ DOMAIN deck = 1..m  BY DEF Decks
<1>2. more \in Nat /\ Len(row) = more + m
  <2>1. Len(row) \in Nat  OBVIOUS
  <2>. HIDE DEF m
  <2>. QED  BY <1>1, <2>1 DEF m
<1>3. DOMAIN images = 1..m /\ \A k \in 1..m : images[k] = row[more + k]
  <2>1. images = SubSeq(row, more + 1, more + m)  BY <1>2
  <2>2. (more + m) - (more + 1) + 1 = m /\ \A k \in 1..m : (more + 1) + k - 1 = more + k  BY <1>1, <1>2
  <2>. HIDE DEF m, more, images
  <2>3. \A a, b \in Nat : /\ DOMAIN SubSeq(row, a, b) = 1..(b - a + 1)
                         /\ \A k \in 1..(b - a + 1) : SubSeq(row, a, b)[k] = row[a + k - 1]
    OBVIOUS
  <2>4. more + 1 \in Nat /\ more + m \in Nat  BY <1>1, <1>2
  <2>. QED  BY <1>1, <1>2, <2>1, <2>2, <2>3, <2>4
<1>4. \A k \in 1..m : images[k].card = Card(t, deck[k]) /\ objects[images[k].no] = Card(t, deck[k])
  <2>. HIDE DEF images
  <2>. QED  BY <1>3
<1>5. \A j, k \in 1..m : images[j].no = images[k].no => j = k
  <2>. HIDE DEF images
  <2>. QED  BY <1>3
<1>. HIDE DEF m, more, images
<1>6. listed = [k \in DOMAIN deck |-> Card(t, deck[k])]  BY <1>1, <1>3, <1>4
<1>7. IsInjective(numbers)
  <2>1. DOMAIN numbers = 1..m /\ \A k \in 1..m : numbers[k] = images[k].no  BY <1>3
  <2>. HIDE DEF numbers
  <2>. QED  BY <1>5, <2>1 DEF IsInjective
<1>8. \A k \in DOMAIN images : objects[numbers[k]] = listed[k]
  BY <1>3, <1>4
<1>9. more >= 0  BY <1>2
<1>. HIDE DEF listed, numbers
<1>. QED  BY <1>6, <1>7, <1>8, <1>9 DEF RowOf, more, images, listed, numbers

\* One more image of the model is uploaded.
LEMMA ModelUploads ==
    ASSUME NEW t \in Transforms, NEW deck \in Decks, NEW images \in Seq(Pictures), NEW drawn \in Seq(Pictures),
           NEW objects \in [Numbers -> TheCards], ModelsWork(t, deck, images, drawn, objects), Len(drawn) > 0
    PROVE  /\ Len(Append(images, Head(drawn))) + Len(Tail(drawn)) = Len(images) + Len(drawn)
           /\ ModelsWork(t, deck, Append(images, Head(drawn)), Tail(drawn),
                         [objects EXCEPT ![Head(drawn).no] = Head(drawn).card])
<1>. DEFINE n == Len(images)
            d == Len(drawn)
            m == Len(deck)
            image == Head(drawn)
            after == [objects EXCEPT ![image.no] = image.card]
            uploaded == Append(images, image)
            rest == Tail(drawn)
<1>1. n \in Nat /\ d \in Nat /\ m \in Nat /\ d > 0 /\ n + d <= m /\ DOMAIN deck = 1..m  BY DEF ModelsWork, Decks
<1>2. image = drawn[1] /\ image \in Pictures  OBVIOUS
<1>3. /\ uploaded \in Seq(Pictures) /\ Len(uploaded) = n + 1 /\ uploaded[n + 1] = image
      /\ \A k \in 1..n : uploaded[k] = images[k]
  BY <1>2
<1>4. rest \in Seq(Pictures) /\ Len(rest) = d - 1 /\ \A i \in 1..(d - 1) : rest[i] = drawn[i + 1]
  BY <1>1
<1>5. /\ \A k \in 1..n : images[k] = Image(t, deck, k, deck[k].number)
      /\ \A i \in 1..d : drawn[i] = Image(t, deck, n + i, deck[n + i].number)
  BY DEF ModelsWork
<1>6. image = Image(t, deck, n + 1, deck[n + 1].number)  BY <1>1, <1>2, <1>5
<1>7. ASSUME \A j, k \in DOMAIN deck : deck[j].number = deck[k].number => j = k,
             NEW k \in 1..(n + 1)
      PROVE  after[deck[k].number] = Card(t, deck[k])
  <2>1. k \in 1..m /\ (n + 1) \in 1..m /\ (k = n + 1 \/ k \in 1..n)  BY <1>1
  <2>2. deck[k].number \in Numbers /\ deck[n + 1].number \in Numbers  BY <1>1, <2>1 DEF Decks
  <2>3. image.no = deck[n + 1].number /\ image.card = Card(t, deck[n + 1])  BY <1>6 DEF Image
  <2>. HIDE DEF image
  <2>4. CASE k = n + 1  BY <2>2, <2>3, <2>4
  <2>5. CASE k \in 1..n
    <3>1. objects[deck[k].number] = Card(t, deck[k])  BY <1>7, <2>5 DEF ModelsWork
    <3>2. k # n + 1  BY <1>1, <2>5
    <3>3. deck[k].number # deck[n + 1].number  BY <1>1, <1>7, <2>1, <3>2
    <3>. QED  BY <2>2, <2>3, <3>1, <3>3
  <2>. QED  BY <2>1, <2>4, <2>5
<1>. HIDE DEF n, d, m, image, after, uploaded, rest
<1>8. Len(uploaded) + Len(rest) = n + d  BY <1>1, <1>3, <1>4
<1>9. \A k \in 1..(n + 1) : uploaded[k] = Image(t, deck, k, deck[k].number)
  BY <1>1, <1>3, <1>5, <1>6
<1>10. \A i \in 1..(d - 1) : rest[i] = Image(t, deck, (n + 1) + i, deck[(n + 1) + i].number)
  <2>. SUFFICES ASSUME NEW i \in 1..(d - 1)
                PROVE  rest[i] = Image(t, deck, (n + 1) + i, deck[(n + 1) + i].number)
    OBVIOUS
  <2>1. (i + 1) \in 1..d /\ n + (i + 1) = (n + 1) + i  BY <1>1
  <2>2. rest[i] = drawn[i + 1]  BY <1>4
  <2>3. drawn[i + 1] = Image(t, deck, n + (i + 1), deck[n + (i + 1)].number)  BY <1>5, <2>1
  <2>. QED  BY <2>1, <2>2, <2>3
<1>11. ModelsWork(t, deck, uploaded, rest, after)
  <2>1. Len(uploaded) + Len(rest) <= Len(deck)  BY <1>1, <1>8 DEF m
  <2>. QED  BY <1>3, <1>4, <1>7, <1>9, <1>10, <2>1 DEF ModelsWork
<1>. QED  BY <1>8, <1>11 DEF n, d, image, after, uploaded, rest

\* All images of the model are uploaded.
LEMMA ModelsRow ==
    ASSUME NEW t \in Transforms, NEW deck \in Decks, NEW images \in Seq(Pictures), NEW drawn, NEW objects,
           ModelsWork(t, deck, images, drawn, objects), Len(images) = Len(deck),
           \A j, k \in DOMAIN deck : deck[j].number = deck[k].number => j = k
    PROVE  RowOf(t, deck, images, objects)
<1>. DEFINE more == Len(images) - Len(deck)
<1>1. Len(deck) \in Nat /\ DOMAIN deck = 1..Len(deck)  BY DEF Decks
<1>2. more = 0 /\ \A k \in 1..Len(deck) : more + k = k  BY <1>1
<1>. HIDE DEF more
<1>3. \A k \in 1..Len(deck) : images[k] = Image(t, deck, k, deck[k].number) /\ objects[deck[k].number] = Card(t, deck[k])
  BY DEF ModelsWork
<1>4. \A k \in 1..Len(deck) : /\ images[more + k].no = deck[k].number
                              /\ images[more + k].card = Card(t, deck[k])
                              /\ objects[images[more + k].no] = Card(t, deck[k])
  <2>. SUFFICES ASSUME NEW k \in 1..Len(deck)
                PROVE  /\ images[more + k].no = deck[k].number
                       /\ images[more + k].card = Card(t, deck[k])
                       /\ objects[images[more + k].no] = Card(t, deck[k])
    OBVIOUS
  <2>1. images[more + k] = Image(t, deck, k, deck[k].number)  BY <1>2, <1>3
  <2>2. images[more + k].no = deck[k].number /\ images[more + k].card = Card(t, deck[k])  BY <2>1 DEF Image
  <2>. QED  BY <1>3, <2>2
<1>5. \A j, k \in 1..Len(deck) : images[more + j].no = images[more + k].no => j = k  BY <1>1, <1>4
<1>6. more >= 0  BY <1>2
<1>. QED  BY <1>4, <1>5, <1>6, RowEnds DEF more

\* One more card of Pillow's is uploaded.
LEMMA PillowUploads ==
    ASSUME NEW t \in Transforms, NEW deck \in Decks, NEW left \in Seq(Numbers), NEW images \in Seq(Pictures),
           NEW objects \in [Numbers -> TheCards], NEW files, Len(left) > 0,
           PillowsWork(t, deck, left, images, objects, files),
           NEW image \in Pictures, image = Image(t, deck, Head(left), Head(left))
    PROVE  PillowsWork(t, deck, Tail(left), Append(images, image),
                       [objects EXCEPT ![image.no] = image.card], files)
<1>. DEFINE m == Len(deck)
            l == Len(left)
            c == Len(images)
            n == m - l
            more == c - n
            after == [objects EXCEPT ![image.no] = image.card]
            uploaded == Append(images, image)
            rest == Tail(left)
<1>1. m \in Nat /\ l \in Nat /\ c \in Nat /\ l > 0 /\ n >= 0 /\ more >= 0 /\ DOMAIN deck = 1..m
  BY DEF PillowsWork, Decks
<1>2. n \in Nat /\ more \in Nat /\ n + 1 \in 1..m /\ n + 1 = m - (l - 1) /\ c = more + n  BY <1>1
<1>3. /\ \A i \in 1..l : left[i] = n + i
      /\ \A k \in 1..n : images[more + k] = Image(t, deck, k, k) /\ objects[k] = Card(t, deck[k])
      /\ \A k \in 1..m : files[k] = Card(t, deck[k])
  BY DEF PillowsWork
<1>4. Head(left) = n + 1  BY <1>1, <1>3
<1>5. image.no = n + 1 /\ image.card = Card(t, deck[n + 1])  BY <1>4 DEF Image
<1>6. /\ uploaded \in Seq(Pictures) /\ Len(uploaded) = c + 1 /\ uploaded[c + 1] = image
      /\ \A k \in 1..c : uploaded[k] = images[k]
  OBVIOUS
<1>7. Len(rest) = l - 1 /\ \A i \in 1..(l - 1) : rest[i] = left[i + 1]  BY <1>1
<1>8. \A k \in 1..(n + 1) : k \in Numbers  BY <1>1, <1>2 DEF Decks
<1>. HIDE DEF m, l, c, uploaded, rest
<1>9. (c + 1) - (n + 1) = more  BY <1>1, <1>2
<1>10. \A i \in 1..(l - 1) : rest[i] = (n + 1) + i
  <2>. SUFFICES ASSUME NEW i \in 1..(l - 1) PROVE rest[i] = (n + 1) + i
    OBVIOUS
  <2>1. i + 1 \in 1..l /\ n + (i + 1) = (n + 1) + i  BY <1>1, <1>2
  <2>. QED  BY <1>3, <1>7, <2>1
<1>. HIDE DEF n, more
<1>11. \A k \in 1..(n + 1) : uploaded[more + k] = Image(t, deck, k, k) /\ after[k] = Card(t, deck[k])
  <2>. SUFFICES ASSUME NEW k \in 1..(n + 1)
                PROVE  uploaded[more + k] = Image(t, deck, k, k) /\ after[k] = Card(t, deck[k])
    OBVIOUS
  <2>1. k \in Numbers /\ n + 1 \in Numbers  BY <1>2, <1>8
  <2>2. CASE k = n + 1
    <3>1. more + k = c + 1  BY <1>1, <1>2, <2>2
    <3>2. image = Image(t, deck, k, k)  BY <1>4, <2>2
    <3>. QED  BY <1>5, <1>6, <2>1, <2>2, <3>1, <3>2
  <2>3. CASE k \in 1..n
    <3>1. more + k \in 1..c /\ k # n + 1  BY <1>1, <1>2, <2>3
    <3>. QED  BY <1>3, <1>5, <1>6, <2>1, <2>3, <3>1
  <2>4. k = n + 1 \/ k \in 1..n  BY <1>2
  <2>. QED  BY <2>2, <2>3, <2>4
<1>12. Len(deck) - Len(rest) = n + 1 /\ Len(uploaded) - (n + 1) = more  BY <1>2, <1>6, <1>7, <1>9 DEF m
<1>. HIDE DEF after
<1>13. PillowsWork(t, deck, rest, uploaded, after, files)
  <2>1. n + 1 >= 0 /\ more >= 0  BY <1>2
  <2>. QED  BY <1>3, <1>7, <1>10, <1>11, <1>12, <2>1 DEF PillowsWork, m
<1>. QED  BY <1>13 DEF uploaded, rest, after

\* All cards of Pillow's are uploaded.
LEMMA PillowsRow ==
    ASSUME NEW t \in Transforms, NEW deck \in Decks, NEW left, NEW images \in Seq(Pictures), NEW objects, NEW files,
           PillowsWork(t, deck, left, images, objects, files), Len(left) = 0
    PROVE  RowOf(t, deck, images, objects)
<1>. DEFINE more == Len(images) - Len(deck)
<1>1. Len(deck) \in Nat  BY DEF Decks
<1>2. Len(deck) - Len(left) = Len(deck)  BY <1>1
<1>3. more >= 0 /\ \A k \in 1..Len(deck) : images[more + k] = Image(t, deck, k, k) /\ objects[k] = Card(t, deck[k])
  BY <1>2 DEF PillowsWork
<1>. HIDE DEF more
<1>4. \A k \in 1..Len(deck) : /\ images[more + k].no = k
                              /\ images[more + k].card = Card(t, deck[k])
                              /\ objects[images[more + k].no] = Card(t, deck[k])
  <2>. SUFFICES ASSUME NEW k \in 1..Len(deck)
                PROVE  /\ images[more + k].no = k
                       /\ images[more + k].card = Card(t, deck[k])
                       /\ objects[images[more + k].no] = Card(t, deck[k])
    OBVIOUS
  <2>1. images[more + k] = Image(t, deck, k, k)  BY <1>3
  <2>2. images[more + k].no = k /\ images[more + k].card = Card(t, deck[k])  BY <2>1 DEF Image
  <2>. QED  BY <1>3, <2>2
<1>5. \A j, k \in 1..Len(deck) : images[more + j].no = images[more + k].no => j = k  BY <1>4
<1>. QED  BY <1>3, <1>4, <1>5, RowEnds DEF more
-----------------------------------------------------------------------------
\* What a transform that runs alone has done.
Working(t, j, objects, files) ==
    /\ j.pc \in {"draw", "upload"} => ModelsWork(t, j.deck, j.images, j.drawn, objects)
    /\ j.pc = "upload" => Len(j.images) + Len(j.drawn) = Len(j.deck)
    /\ j.pc \in {"read", "put"} => PillowsWork(t, j.deck, j.left, j.images, objects, files)
    /\ j.pc = "put" => Head(j.drawn) = Image(t, j.deck, Head(j.left), Head(j.left))

\* What its row lists, with the exception of RowShowsItsDeck.
RowListed(t, j, row, objects, byModel) ==
    (\A i, k \in DOMAIN j.deck : j.deck[i].number = j.deck[k].number => i = k) \/ ~ (byModel /\ j.left = << >>)
        => RowOf(t, j.deck, row, objects)

\* Two that are at work are both mixed; one that is not has its work to itself; and once
\* its row is there nobody works, or begins.
RowsInv ==
    /\ \A o, t \in Transforms : o # t /\ AtWork(o) /\ AtWork(t) => o \in mixed
    /\ \A t \in Transforms : t \notin mixed => Working(t, job[t], bucket, local)
    /\ handoffRow # Nothing /\ handoffRow.by \notin mixed =>
         /\ \A t \in Transforms : ~ AtWork(t)
         /\ RowListed(handoffRow.by, job[handoffRow.by], handoffRow.images, bucket, cardSetup.imageModel)

\* A step of a transform that goes on, or fails.
LEMMA RowsStay ==
    ASSUME CardTypeOK, RowsInv, NEW t \in Transforms, NEW j, job' = [job EXCEPT ![t] = j], AtWork(t),
           mixed' = mixed, handoffRow' = handoffRow,
           t \notin mixed => Working(t, j, bucket', local')
    PROVE  RowsInv'
<1>1. job'[t] = j /\ \A o \in Transforms \ {t} : job'[o] = job[o]  BY DEF CardTypeOK
<1>2. ASSUME NEW o \in Transforms, NEW p \in Transforms, o # p, AtWork(o)', AtWork(p)'
      PROVE  o \in mixed'
  <2>1. AtWork(o) /\ AtWork(p)  BY <1>1, <1>2 DEF AtWork
  <2>. QED  BY <1>2, <2>1 DEF RowsInv
<1>3. ASSUME NEW o \in Transforms, o \notin mixed'
      PROVE  Working(o, job[o], bucket, local)'
  <2>1. CASE o = t  BY <1>1, <1>3, <2>1 DEF Working, ModelsWork, PillowsWork
  <2>2. CASE o # t
    <3>1. ~ AtWork(o)  BY <1>3, <2>2 DEF RowsInv
    <3>2. job'[o].pc \in {"idle", "done", "failed"}  BY <1>1, <2>2, <3>1 DEF AtWork
    <3>. QED  BY <3>2 DEF Working
  <2>. QED  BY <2>1, <2>2
<1>4. ~ (handoffRow' # Nothing /\ handoffRow'.by \notin mixed')  BY DEF RowsInv
<1>. QED  BY <1>2, <1>3, <1>4 DEF RowsInv

\* The last step of a transform.
LEMMA RowsFinish ==
    ASSUME CardTypeOK, RowsInv, NEW t \in Transforms, NEW j, job' = [job EXCEPT ![t] = j], AtWork(t),
           mixed' = mixed, NEW images, handoffRow' = [by |-> t, images |-> images], j.pc = "done",
           t \notin mixed => RowListed(t, j, images, bucket', cardSetup'.imageModel)
    PROVE  RowsInv'
<1>1. job'[t] = j /\ \A o \in Transforms \ {t} : job'[o] = job[o]  BY DEF CardTypeOK
<1>2. ASSUME NEW o \in Transforms, NEW p \in Transforms, o # p, AtWork(o)', AtWork(p)'
      PROVE  o \in mixed'
  <2>1. AtWork(o) /\ AtWork(p)  BY <1>1, <1>2 DEF AtWork
  <2>. QED  BY <1>2, <2>1 DEF RowsInv
<1>3. ASSUME NEW o \in Transforms, o \notin mixed'
      PROVE  Working(o, job[o], bucket, local)'
  <2>1. job'[o].pc \in {"idle", "done", "failed"}
    <3>1. CASE o = t  BY <1>1, <3>1
    <3>2. CASE o # t
      <4>1. ~ AtWork(o)  BY <1>3, <3>2 DEF RowsInv
      <4>. QED  BY <1>1, <3>2, <4>1 DEF AtWork
    <3>. QED  BY <3>1, <3>2
  <2>. QED  BY <2>1 DEF Working
<1>4. handoffRow'.by = t /\ handoffRow'.images = images  OBVIOUS
<1>5. ASSUME t \notin mixed'
      PROVE  /\ \A o \in Transforms : ~ AtWork(o)'
             /\ RowListed(t, j, images, bucket', cardSetup'.imageModel)
  <2>1. \A o \in Transforms \ {t} : ~ AtWork(o)  BY <1>5 DEF RowsInv
  <2>2. \A o \in Transforms : job'[o].pc \in {"idle", "done", "failed"}  BY <1>1, <2>1 DEF AtWork
  <2>3. \A o \in Transforms : ~ AtWork(o)'  BY <2>2 DEF AtWork
  <2>4. RowListed(t, j, images, bucket', cardSetup'.imageModel)  BY <1>5
  <2>. QED  BY <2>3, <2>4
<1>6. ASSUME handoffRow' # Nothing, handoffRow'.by \notin mixed'
      PROVE  /\ \A o \in Transforms : ~ AtWork(o)'
             /\ RowListed(handoffRow.by, job[handoffRow.by], handoffRow.images, bucket, cardSetup.imageModel)'
  <2>1. t \notin mixed'  BY <1>4, <1>6
  <2>2. \A o \in Transforms : ~ AtWork(o)'  BY <1>5, <2>1
  <2>3. RowListed(t, j, images, bucket', cardSetup'.imageModel)  BY <1>5, <2>1
  <2>4. RowListed(handoffRow.by, job[handoffRow.by], handoffRow.images, bucket, cardSetup.imageModel)'
    <3>1. handoffRow'.by = t /\ handoffRow'.images = images /\ job'[t] = j  BY <1>1, <1>4
    <3>. QED  BY <2>3, <3>1, Zenon
  <2>. QED  BY <2>2, <2>4
<1>. QED  BY <1>2, <1>3, <1>6 DEF RowsInv

\* Every step keeps what is known of those that run alone, and of the row.
LEMMA RowsNext == CardTypeOK /\ DecksInv /\ RowsInv /\ [CardNext]_cardVars => RowsInv'
<1>. SUFFICES ASSUME CardTypeOK, DecksInv, RowsInv, [CardNext]_cardVars PROVE RowsInv'
  OBVIOUS
<1>1. CASE UNCHANGED cardVars
  BY <1>1 DEF cardVars, RowsInv, AtWork, Working, RowListed, ModelsWork, PillowsWork, RowOf
<1>2. ASSUME NEW t \in Transforms, BeginDeck(t) PROVE RowsInv'
  <2>. DEFINE others == {o \in Transforms \ {t} : AtWork(o)}
  <2>1. /\ mixed' = mixed \cup (IF others = {} THEN {} ELSE others \cup {t}) /\ job[t].pc = "idle"
        /\ handoffRow = Nothing /\ handoffRow' = handoffRow
        /\ job' = [job EXCEPT ![t] = [job[t] EXCEPT !.pc = "ask"]]
    BY <1>2 DEF BeginDeck, Becomes
  <2>2. job'[t].pc = "ask" /\ \A o \in Transforms \ {t} : job'[o] = job[o]
    BY <2>1 DEF CardTypeOK, JobStates
  <2>3. ASSUME NEW o \in Transforms, NEW p \in Transforms, o # p, AtWork(o)', AtWork(p)'
        PROVE  o \in mixed'
    <3>1. CASE o = t
      <4>1. p \in others  BY <2>2, <2>3, <3>1 DEF AtWork
      <4>. QED  BY <2>1, <3>1, <4>1
    <3>2. CASE p = t
      <4>1. o \in others  BY <2>2, <2>3, <3>2 DEF AtWork
      <4>. QED  BY <2>1, <4>1
    <3>3. CASE o # t /\ p # t
      <4>1. AtWork(o) /\ AtWork(p)  BY <2>2, <2>3, <3>3 DEF AtWork
      <4>. QED  BY <2>1, <2>3, <4>1 DEF RowsInv
    <3>. QED  BY <3>1, <3>2, <3>3
  <2>4. ASSUME NEW o \in Transforms, o \notin mixed' PROVE Working(o, job[o], bucket, local)'
    <3>1. job'[o].pc \in {"idle", "done", "failed", "ask"}
      <4>1. CASE o = t  BY <2>2, <4>1
      <4>2. CASE o # t
        <5>1. ~ AtWork(o)
          <6>1. AtWork(o) => o \in others  BY <4>2
          <6>. HIDE DEF others
          <6>2. o \in others => o \in mixed'  BY <2>1
          <6>. QED  BY <2>4, <6>1, <6>2
        <5>. QED  BY <2>2, <4>2, <5>1 DEF AtWork
      <4>. QED  BY <4>1, <4>2
    <3>. QED  BY <3>1 DEF Working
  <2>. QED  BY <2>1, <2>3, <2>4 DEF RowsInv
<1>3. ASSUME NEW t \in Transforms, AskSlides(t) PROVE RowsInv'
  <2>1. /\ job[t] \in JobStates /\ job[t].pc = "ask" /\ AtWork(t) /\ mixed' = mixed /\ handoffRow' = handoffRow
        /\ job[t].drawn = << >> /\ job[t].images = << >>
    BY <1>3 DEF AskSlides, CardTypeOK, AtWork
  <2>2. PICK j, answer, deck : /\ job' = [job EXCEPT ![t] = j]
                               /\ \/ j = [job[t] EXCEPT !.pc = "failed"]
                                  \/ /\ answer \in SlideAnswers /\ deck = ParseSlides(answer)
                                     /\ j = [job[t] EXCEPT !.answer = answer, !.deck = deck,
                                                           !.pc = IF cardSetup.imageModel THEN "draw" ELSE "render"]
    BY <1>3, Zenon DEF AskSlides, Becomes
  <2>3. CASE j = [job[t] EXCEPT !.pc = "failed"]
    <3>1. j.pc = "failed"  BY <2>1, <2>3 DEF JobStates
    <3>. QED  BY <2>1, <2>2, <3>1, RowsStay DEF Working
  <2>4. CASE /\ answer \in SlideAnswers /\ deck = ParseSlides(answer)
             /\ j = [job[t] EXCEPT !.answer = answer, !.deck = deck,
                                   !.pc = IF cardSetup.imageModel THEN "draw" ELSE "render"]
    <3>1. j.pc \in {"draw", "render"} /\ j.drawn = << >> /\ j.images = << >> /\ j.deck = deck
      BY <2>1, <2>4 DEF JobStates
    <3>2. Len(deck) \in Nat  BY <2>4, ParseType DEF Decks
    <3>3. ModelsWork(t, deck, << >>, << >>, bucket')  BY <3>2 DEF ModelsWork
    <3>4. Working(t, j, bucket', local')  BY <3>1, <3>3 DEF Working
    <3>. QED  BY <2>1, <2>2, <3>4, RowsStay
  <2>. QED  BY <2>2, <2>3, <2>4
<1>4. ASSUME NEW t \in Transforms, DrawSlide(t) PROVE RowsInv'
  <2>. DEFINE k == Len(job[t].drawn) + 1
              deck == job[t].deck
              image == [no |-> deck[k].number, card |-> Card(t, deck[k])]
              drawn == [job[t] EXCEPT !.drawn = Append(@, image), !.model = 1, !.attempt = 1]
  <2>1. /\ job[t] \in JobStates /\ job[t].pc = "draw" /\ AtWork(t) /\ mixed' = mixed /\ handoffRow' = handoffRow
        /\ bucket' = bucket /\ local' = local
    BY <1>4 DEF DrawSlide, CardTypeOK, AtWork
  <2>2. job[t].images = << >> /\ Len(job[t].drawn) < Len(deck)  BY <2>1 DEF CardTypeOK
  <2>3. deck \in Decks /\ Len(deck) \in Nat /\ job[t].drawn \in Seq(Pictures) /\ Len(job[t].drawn) \in Nat
    BY <2>1 DEF JobStates, Decks
  <2>4. PICK j : /\ job' = [job EXCEPT ![t] = j]
                 /\ \/ j = drawn
                    \/ j = [drawn EXCEPT !.pc = "upload"] /\ k = Len(deck)
                    \/ j = [job[t] EXCEPT !.attempt = @ + 1]
                    \/ j = [job[t] EXCEPT !.model = @ + 1, !.attempt = 1]
                    \/ j = FallBack(job[t])
    BY <1>4 DEF DrawSlide, Becomes
  <2>5. k \in 1..Len(deck)  BY <2>2, <2>3
  <2>6. image \in Pictures /\ image = Image(t, deck, k, deck[k].number)  BY <2>3, <2>5, PictureType DEF Image
  <2>. DEFINE more == Append(job[t].drawn, image)
  <2>7. /\ Len(more) = k /\ more[k] = image /\ \A i \in 1..(k - 1) : more[i] = job[t].drawn[i]
    <3>. HIDE DEF image
    <3>. QED  BY <2>3, <2>6
  <2>. HIDE DEF image, more
  <2>8. ASSUME t \notin mixed PROVE Working(t, j, bucket', local')
    <3>1. ModelsWork(t, deck, << >>, job[t].drawn, bucket)  BY <2>1, <2>2, <2>8 DEF RowsInv, Working
    <3>2. ModelsWork(t, deck, << >>, more, bucket)
      <4>1. \A i \in 1..Len(job[t].drawn) : job[t].drawn[i] = Image(t, deck, i, deck[i].number)
        <5>1. Len(<< >>) = 0 /\ \A i \in 1..Len(job[t].drawn) : 0 + i = i  BY <2>3
        <5>. QED  BY <3>1, <5>1 DEF ModelsWork
      <4>2. \A i \in 1..k : more[i] = Image(t, deck, 0 + i, deck[0 + i].number)
        <5>1. \A i \in 1..k : 0 + i = i /\ (i = k \/ i \in 1..(k - 1)) /\ k - 1 = Len(job[t].drawn)  BY <2>3, <2>5
        <5>. QED  BY <2>6, <2>7, <4>1, <5>1
      <4>3. 0 + k <= Len(deck)  BY <2>3, <2>5
      <4>4. Len(<< >>) = 0 /\ \A i \in 1..0 : FALSE  OBVIOUS
      <4>. HIDE DEF k, deck
      <4>. QED  BY <2>7, <4>2, <4>3, <4>4 DEF ModelsWork
    <3>3. drawn.pc = "draw" /\ drawn.deck = deck /\ drawn.images = << >> /\ drawn.drawn = more
      BY <2>1, <2>2 DEF JobStates, more
    <3>4. CASE j = drawn  BY <2>1, <3>2, <3>3, <3>4 DEF Working
    <3>5. CASE j = [drawn EXCEPT !.pc = "upload"] /\ k = Len(deck)
      <4>1. j.pc = "upload" /\ j.deck = deck /\ j.images = << >> /\ j.drawn = more
        BY <2>1, <2>2, <3>5 DEF JobStates, more
      <4>2. Len(j.images) + Len(j.drawn) = Len(j.deck)
        <5>1. Len(j.images) = 0 /\ Len(j.drawn) = k /\ Len(j.deck) = k  BY <2>7, <3>5, <4>1
        <5>2. k \in Nat  BY <2>3
        <5>. HIDE DEF k
        <5>. QED  BY <5>1, <5>2
      <4>. QED  BY <2>1, <3>2, <4>1, <4>2 DEF Working
    <3>6. CASE j = [job[t] EXCEPT !.attempt = @ + 1] \/ j = [job[t] EXCEPT !.model = @ + 1, !.attempt = 1]
      <4>1. j.pc = "draw" /\ j.deck = deck /\ j.images = << >> /\ j.drawn = job[t].drawn
        BY <2>1, <2>2, <3>6 DEF JobStates
      <4>. QED  BY <2>1, <3>1, <4>1 DEF Working
    <3>7. CASE j = FallBack(job[t])
      <4>1. j.pc \in {"render", "failed"}  BY <2>1, <3>7 DEF FallBack, JobStates
      <4>. QED  BY <4>1 DEF Working
    <3>. QED  BY <2>4, <3>4, <3>5, <3>6, <3>7
  <2>. QED  BY <2>1, <2>4, <2>8, RowsStay
<1>5. ASSUME NEW t \in Transforms, UploadDrawn(t) PROVE RowsInv'
  <2>. DEFINE deck == job[t].deck
              image == Head(job[t].drawn)
              images == Append(job[t].images, image)
              rest == Tail(job[t].drawn)
              after == [bucket EXCEPT ![image.no] = image.card]
  <2>1. /\ job[t] \in JobStates /\ job[t].pc = "upload" /\ AtWork(t) /\ mixed' = mixed /\ cardSetup' = cardSetup
    BY <1>5 DEF UploadDrawn, CardTypeOK, AtWork
  <2>2. /\ deck \in Decks /\ job[t].images \in Seq(Pictures) /\ job[t].drawn \in Seq(Pictures)
        /\ Len(job[t].drawn) > 0 /\ bucket \in [Numbers -> TheCards]
    BY <2>1 DEF CardTypeOK, JobStates
  <2>3. \/ /\ job' = [job EXCEPT ![t] = [job[t] EXCEPT !.pc = "done", !.images = images]]
           /\ Len(job[t].drawn) = 1 /\ handoffRow' = [by |-> t, images |-> images] /\ bucket' = after
        \/ /\ job' = [job EXCEPT ![t] = [job[t] EXCEPT !.images = images, !.drawn = rest]]
           /\ handoffRow' = handoffRow /\ bucket' = after
        \/ job' = [job EXCEPT ![t] = FallBack(job[t])] /\ handoffRow' = handoffRow
    BY <1>5 DEF UploadDrawn, Becomes, Finish, Put
  <2>4. images \in Seq(Pictures)
    <3>1. image \in Pictures  BY <2>2
    <3>. QED  BY <2>2, <3>1
  <2>5. ASSUME t \notin mixed
        PROVE  /\ ModelsWork(t, deck, images, rest, after)
               /\ Len(images) + Len(rest) = Len(deck)
    <3>1. ModelsWork(t, deck, job[t].images, job[t].drawn, bucket) /\ Len(job[t].images) + Len(job[t].drawn) = Len(deck)
      BY <2>1, <2>5 DEF RowsInv, Working
    <3>. QED  BY <2>2, <3>1, ModelUploads
  <2>6. Len(job[t].drawn) = 1 => Len(rest) = 0 /\ Len(images) \in Nat  BY <2>2, <2>4
  <2>. HIDE DEF image, images, rest, after
  <2>7. CASE /\ job' = [job EXCEPT ![t] = [job[t] EXCEPT !.pc = "done", !.images = images]]
             /\ Len(job[t].drawn) = 1 /\ handoffRow' = [by |-> t, images |-> images] /\ bucket' = after
    <3>. DEFINE j == [job[t] EXCEPT !.pc = "done", !.images = images]
    <3>1. j.pc = "done" /\ j.deck = deck /\ j.left = job[t].left  BY <2>1 DEF JobStates
    <3>2. job[t].left = << >> /\ cardSetup.imageModel  BY <2>1 DEF CardTypeOK
    <3>3. job' = [job EXCEPT ![t] = j]  BY <2>7
    <3>. HIDE DEF j
    <3>4. ASSUME t \notin mixed PROVE RowListed(t, j, images, bucket', cardSetup'.imageModel)
      <4>. SUFFICES ASSUME \A i, k \in DOMAIN deck : deck[i].number = deck[k].number => i = k
                    PROVE  RowOf(t, deck, images, after)
        BY <2>1, <2>7, <3>1, <3>2 DEF RowListed
      <4>1. Len(images) = Len(deck)
        <5>1. Len(images) + 0 = Len(deck) /\ Len(images) \in Nat  BY <2>5, <2>6, <2>7, <3>4
        <5>. QED  BY <5>1
      <4>. QED  BY <2>2, <2>4, <2>5, <3>4, <4>1, ModelsRow
    <3>. QED  BY <2>1, <2>7, <3>1, <3>3, <3>4, RowsFinish
  <2>8. CASE /\ job' = [job EXCEPT ![t] = [job[t] EXCEPT !.images = images, !.drawn = rest]]
             /\ handoffRow' = handoffRow /\ bucket' = after
    <3>. DEFINE j == [job[t] EXCEPT !.images = images, !.drawn = rest]
    <3>1. j.pc = "upload" /\ j.deck = deck /\ j.images = images /\ j.drawn = rest  BY <2>1 DEF JobStates
    <3>2. job' = [job EXCEPT ![t] = j]  BY <2>8
    <3>. HIDE DEF j
    <3>3. t \notin mixed => Working(t, j, bucket', local')  BY <2>5, <2>8, <3>1 DEF Working
    <3>. QED  BY <2>1, <2>8, <3>2, <3>3, RowsStay
  <2>9. CASE job' = [job EXCEPT ![t] = FallBack(job[t])] /\ handoffRow' = handoffRow
    <3>. DEFINE j == FallBack(job[t])
    <3>1. j.pc \in {"render", "failed"}  BY <2>1 DEF FallBack, JobStates
    <3>2. job' = [job EXCEPT ![t] = j]  BY <2>9
    <3>. HIDE DEF j
    <3>3. Working(t, j, bucket', local')  BY <3>1 DEF Working
    <3>. QED  BY <2>1, <2>9, <3>2, <3>3, RowsStay
  <2>. QED  BY <2>3, <2>7, <2>8, <2>9
<1>6. ASSUME NEW t \in Transforms, RenderDeck(t) PROVE RowsInv'
  <2>. DEFINE deck == Drawable(job[t].deck)
              numbers == [k \in 1..Len(deck) |-> k]
  <2>1. /\ deck \in Decks /\ Len(deck) \in Nat /\ job[t].pc = "render" /\ bucket' = bucket
        /\ mixed' = mixed /\ handoffRow' = handoffRow
        /\ \/ job' = [job EXCEPT ![t] = [job[t] EXCEPT !.pc = "failed"]]
           \/ /\ job' = [job EXCEPT ![t] = [job[t] EXCEPT !.pc = "read", !.deck = deck, !.left = numbers]]
              /\ local' = [no \in Numbers |-> IF no \in 1..Len(deck) THEN Card(t, deck[no]) ELSE local[no]]
    BY <1>6, Rendering
  <2>. HIDE DEF deck
  <2>2. job[t] \in JobStates /\ AtWork(t) /\ job[t].images \in Seq(Pictures)
    BY <2>1 DEF CardTypeOK, AtWork, JobStates
  <2>3. Len(numbers) = Len(deck) /\ \A k \in 1..Len(deck) : numbers[k] = k  BY <2>1
  <2>4. \A k \in 1..Len(deck) : k \in Numbers  BY <2>1, PictureType
  <2>. HIDE DEF numbers
  <2>5. CASE job' = [job EXCEPT ![t] = [job[t] EXCEPT !.pc = "failed"]]
    <3>. DEFINE j == [job[t] EXCEPT !.pc = "failed"]
    <3>1. j.pc = "failed"  BY <2>2 DEF JobStates
    <3>2. job' = [job EXCEPT ![t] = j]  BY <2>5
    <3>. HIDE DEF j
    <3>3. Working(t, j, bucket', local')  BY <3>1 DEF Working
    <3>. QED  BY <2>1, <2>2, <3>2, <3>3, RowsStay
  <2>6. CASE /\ job' = [job EXCEPT ![t] = [job[t] EXCEPT !.pc = "read", !.deck = deck, !.left = numbers]]
             /\ local' = [no \in Numbers |-> IF no \in 1..Len(deck) THEN Card(t, deck[no]) ELSE local[no]]
    <3>. DEFINE j == [job[t] EXCEPT !.pc = "read", !.deck = deck, !.left = numbers]
    <3>1. j.pc = "read" /\ j.deck = deck /\ j.left = numbers /\ j.images = job[t].images  BY <2>2 DEF JobStates
    <3>2. job' = [job EXCEPT ![t] = j]  BY <2>6
    <3>. HIDE DEF j
    <3>3. PillowsWork(t, deck, numbers, job[t].images, bucket', local')
      <4>1. Len(deck) - Len(numbers) = 0 /\ Len(job[t].images) \in Nat  BY <2>1, <2>2, <2>3
      <4>2. \A k \in 1..Len(deck) : local'[k] = Card(t, deck[k])  BY <2>4, <2>6
      <4>3. /\ 0 >= 0 /\ Len(job[t].images) - 0 >= 0 /\ \A k \in 1..0 : FALSE
            /\ \A i \in 1..Len(numbers) : numbers[i] = 0 + i
        BY <2>1, <2>3, <4>1
      <4>. QED  BY <4>1, <4>2, <4>3 DEF PillowsWork
    <3>4. Working(t, j, bucket', local')  BY <3>1, <3>3 DEF Working
    <3>. QED  BY <2>1, <2>2, <3>2, <3>4, RowsStay
  <2>. QED  BY <2>1, <2>5, <2>6
<1>7. ASSUME NEW t \in Transforms, ReadCard(t) PROVE RowsInv'
  <2>. DEFINE no == Head(job[t].left)
              deck == job[t].deck
              left == job[t].left
              picture == [no |-> no, card |-> local[no]]
  <2>1. /\ job[t] \in JobStates /\ job[t].pc = "read" /\ AtWork(t) /\ mixed' = mixed /\ handoffRow' = handoffRow
        /\ bucket' = bucket /\ local' = local
    BY <1>7 DEF ReadCard, CardTypeOK, AtWork
  <2>2. /\ deck \in Decks /\ Len(deck) \in Nat /\ left \in Seq(Numbers) /\ Len(left) > 0 /\ Len(left) \in Nat
    <3>1. deck \in Decks /\ left \in Seq(Numbers) /\ Len(left) > 0  BY <2>1 DEF CardTypeOK, JobStates
    <3>2. deck \in Seq(Entries)  BY <3>1 DEF Decks
    <3>. QED  BY <3>1, <3>2
  <2>3. PICK j : /\ job' = [job EXCEPT ![t] = j]
                 /\ \/ j = [job[t] EXCEPT !.pc = "failed"]
                    \/ j = [job[t] EXCEPT !.pc = "put", !.drawn = <<picture>>]
    BY <1>7 DEF ReadCard, Becomes
  <2>4. Head(<<picture>>) = picture  OBVIOUS
  <2>. HIDE DEF picture
  <2>5. ASSUME t \notin mixed PROVE Working(t, j, bucket', local')
    <3>1. CASE j = [job[t] EXCEPT !.pc = "failed"]
      <4>1. j.pc = "failed"  BY <2>1, <3>1 DEF JobStates
      <4>. QED  BY <4>1 DEF Working
    <3>2. CASE j = [job[t] EXCEPT !.pc = "put", !.drawn = <<picture>>]
      <4>1. /\ j.pc = "put" /\ j.deck = deck /\ j.left = left /\ j.images = job[t].images
            /\ Head(j.drawn) = picture
        BY <2>1, <2>4, <3>2 DEF JobStates
      <4>2. PillowsWork(t, deck, left, job[t].images, bucket, local)  BY <2>1, <2>5 DEF RowsInv, Working
      <4>3. local[no] = Card(t, deck[no])
        <5>1. no = left[1] /\ 1 \in 1..Len(left)  BY <2>2
        <5>2. left[1] = (Len(deck) - Len(left)) + 1 /\ Len(deck) - Len(left) >= 0  BY <4>2, <5>1 DEF PillowsWork
        <5>3. \A d, l \in Nat : l > 0 /\ d - l >= 0 => (d - l) + 1 \in 1..d  OBVIOUS
        <5>4. no \in 1..Len(deck)  BY <2>2, <5>1, <5>2, <5>3
        <5>. QED  BY <4>2, <5>4 DEF PillowsWork
      <4>4. picture = Image(t, deck, no, no)  BY <4>3 DEF picture, Image
      <4>. QED  BY <2>1, <4>1, <4>2, <4>4 DEF Working
    <3>. QED  BY <2>3, <3>1, <3>2
  <2>. QED  BY <2>1, <2>3, <2>5, RowsStay
<1>8. ASSUME NEW t \in Transforms, UploadCard(t) PROVE RowsInv'
  <2>. DEFINE deck == job[t].deck
              left == job[t].left
              image == Head(job[t].drawn)
              images == Append(job[t].images, image)
              rest == Tail(left)
              after == [bucket EXCEPT ![image.no] = image.card]
  <2>1. /\ job[t] \in JobStates /\ job[t].pc = "put" /\ AtWork(t) /\ mixed' = mixed
    BY <1>8 DEF UploadCard, CardTypeOK, AtWork
  <2>2. /\ deck \in Decks /\ job[t].images \in Seq(Pictures) /\ job[t].drawn \in Seq(Pictures)
        /\ left \in Seq(Numbers) /\ Len(left) > 0 /\ Len(job[t].drawn) > 0 /\ bucket \in [Numbers -> TheCards]
    BY <2>1 DEF CardTypeOK, JobStates
  <2>3. \/ /\ job' = [job EXCEPT ![t] = [job[t] EXCEPT !.pc = "done", !.images = images]]
           /\ Len(left) = 1 /\ handoffRow' = [by |-> t, images |-> images] /\ bucket' = after
        \/ /\ job' = [job EXCEPT ![t] = [job[t] EXCEPT !.pc = "read", !.left = rest, !.images = images]]
           /\ handoffRow' = handoffRow /\ bucket' = after /\ local' = local
        \/ job' = [job EXCEPT ![t] = [job[t] EXCEPT !.pc = "failed"]] /\ handoffRow' = handoffRow
    BY <1>8 DEF UploadCard, Becomes, Finish, Put
  <2>4. image \in Pictures  BY <2>2
  <2>5. images \in Seq(Pictures)  BY <2>2, <2>4
  <2>6. ASSUME t \notin mixed PROVE PillowsWork(t, deck, rest, images, after, local)
    <3>1. /\ PillowsWork(t, deck, left, job[t].images, bucket, local)
          /\ image = Image(t, deck, Head(left), Head(left))
      BY <2>1, <2>6 DEF RowsInv, Working
    <3>. HIDE DEF image
    <3>. QED  BY <2>2, <2>4, <3>1, PillowUploads
  <2>7. (Len(left) = 1 => Len(rest) = 0) /\ left # << >>  BY <2>2
  <2>. HIDE DEF image, images, rest, after
  <2>8. CASE /\ job' = [job EXCEPT ![t] = [job[t] EXCEPT !.pc = "done", !.images = images]]
             /\ Len(left) = 1 /\ handoffRow' = [by |-> t, images |-> images] /\ bucket' = after
    <3>. DEFINE j == [job[t] EXCEPT !.pc = "done", !.images = images]
    <3>1. j.pc = "done" /\ j.deck = deck  BY <2>1 DEF JobStates
    <3>2. job' = [job EXCEPT ![t] = j]  BY <2>8
    <3>. HIDE DEF j
    <3>3. ASSUME t \notin mixed PROVE RowListed(t, j, images, bucket', cardSetup'.imageModel)
      <4>1. RowOf(t, deck, images, after)  BY <2>2, <2>5, <2>6, <2>7, <2>8, <3>3, PillowsRow
      <4>. QED  BY <2>8, <3>1, <4>1 DEF RowListed
    <3>. QED  BY <2>1, <2>8, <3>1, <3>2, <3>3, RowsFinish
  <2>9. CASE /\ job' = [job EXCEPT ![t] = [job[t] EXCEPT !.pc = "read", !.left = rest, !.images = images]]
             /\ handoffRow' = handoffRow /\ bucket' = after /\ local' = local
    <3>. DEFINE j == [job[t] EXCEPT !.pc = "read", !.left = rest, !.images = images]
    <3>1. j.pc = "read" /\ j.deck = deck /\ j.images = images /\ j.left = rest  BY <2>1 DEF JobStates
    <3>2. job' = [job EXCEPT ![t] = j]  BY <2>9
    <3>. HIDE DEF j
    <3>3. t \notin mixed => Working(t, j, bucket', local')  BY <2>6, <2>9, <3>1 DEF Working
    <3>. QED  BY <2>1, <2>9, <3>2, <3>3, RowsStay
  <2>10. CASE job' = [job EXCEPT ![t] = [job[t] EXCEPT !.pc = "failed"]] /\ handoffRow' = handoffRow
    <3>. DEFINE j == [job[t] EXCEPT !.pc = "failed"]
    <3>1. j.pc = "failed"  BY <2>1 DEF JobStates
    <3>2. job' = [job EXCEPT ![t] = j]  BY <2>10
    <3>. HIDE DEF j
    <3>3. Working(t, j, bucket', local')  BY <3>1 DEF Working
    <3>. QED  BY <2>1, <2>10, <3>2, <3>3, RowsStay
  <2>. QED  BY <2>3, <2>8, <2>9, <2>10
<1>. QED  BY <1>1, <1>2, <1>3, <1>4, <1>5, <1>6, <1>7, <1>8 DEF CardNext

\* At first there is no row, and nobody works.
LEMMA RowsInit == CardInit => RowsInv
<1>. SUFFICES ASSUME CardInit PROVE RowsInv
  OBVIOUS
<1>1. /\ handoffRow = Nothing
      /\ \A t \in Transforms : job[t].pc = "idle"
  BY DEF CardInit
<1>2. \A t \in Transforms : ~ AtWork(t)  BY <1>1 DEF AtWork
<1>. QED  BY <1>1, <1>2 DEF RowsInv, Working

\* The property, from the invariant.
LEMMA RowsProperty == CardTypeOK /\ RowsInv => RowShowsItsDeck
<1>. SUFFICES ASSUME CardTypeOK, RowsInv, handoffRow # Nothing, handoffRow.by \notin mixed
              PROVE  RowShowsItsDeck
  BY DEF RowShowsItsDeck
<1>. DEFINE t == handoffRow.by
            deck == job[t].deck
            given == [k \in DOMAIN deck |-> deck[k].number]
<1>1. RowListed(t, job[t], handoffRow.images, bucket, cardSetup.imageModel)  BY DEF RowsInv
<1>2. IsInjective(given) => \A i, k \in DOMAIN deck : deck[i].number = deck[k].number => i = k
  BY DEF IsInjective
<1>3. IsInjective(given) \/ ~ (cardSetup.imageModel /\ job[t].left = << >>)
      => RowOf(t, deck, handoffRow.images, bucket)
  BY <1>1, <1>2 DEF RowListed
<1>. QED  BY <1>3 DEF RowShowsItsDeck, RowOf

\* Whatever fails, and whoever draws, the row of a transform that ran alone ends with its
\* deck, in order, and each image it lists is of an object that shows that card
\* (generate_cardnews_s3_images, _upload_local_handoff_path).
THEOREM RowOfItsDeck == CardSpec => []RowShowsItsDeck
<1>1. CardSpec => [](CardTypeOK /\ DecksInv /\ RowsInv)
  BY DecksInit, RowsInit, CardTypeStep, DecksNext, RowsNext, PTL DEF CardSpec
<1>. QED  BY <1>1, RowsProperty, PTL
=============================================================================
