----------------------------- MODULE PinImages -----------------------------
(***************************************************************************)
(* The images of one issue pin: pin_image rows in PostgreSQL, objects in   *)
(* S3, and the PATCH requests of IssueService that change both without a   *)
(* transaction that spans them.                                            *)
(*                                                                         *)
(* A request adds at most one image, which bears the request's name.  The  *)
(* edits considered leave title and content alone: writing those would     *)
(* lock the pin row and only take interleavings away.  The pin is          *)
(* BEFORE_PROGRESS throughout and its quota is not used up.                *)
(***************************************************************************)
EXTENDS Naturals, FiniteSets

CONSTANTS
    Initial,      \* the images the pin was created with
    InitialMain,  \* the main one
    Requests,     \* the PATCH requests
    None,         \* no request
    MaxImages,    \* settings.issue_pin_max_images
    MaxInFlight,  \* how many requests are handled at once
    Faults        \* the faults that may happen, a subset of FaultKinds

FaultKinds == {"s3", "commit", "crash"}

ASSUME ImagesAssumption ==
    /\ IsFiniteSet(Initial) /\ IsFiniteSet(Requests)
    /\ Initial \cap Requests = {}
    /\ None \notin Initial \cup Requests
    /\ InitialMain \in Initial
    /\ Cardinality(Initial) <= MaxImages
ASSUME BoundsAssumption ==
    /\ MaxImages \in Nat \ {0}
    /\ MaxInFlight \in Nat \ {0}
    /\ Faults \subseteq FaultKinds

Images == Initial \cup Requests

VARIABLES
    rows,       \* the committed pin_image rows
    mains,      \* those with is_main
    s3,         \* the objects of the pin
    rowLock,    \* the uncommitted request that deleted or updated each row
    phase,      \* how far each request is
    seen,       \* the rows each request loaded with the pin (existing_images)
    seenMains,  \* those it saw as main
    plan,       \* what each request wants: its _UpdatePinImagePlan
    doomed,     \* remove_ids: the rows each request is to delete
    overlap,    \* whether two requests were ever under way together
    faulted,    \* whether a fault ever happened
    unknown     \* the requests whose commit took effect and reported failure

imageVars == <<rows, mains, s3, rowLock>>
requestVars == <<phase, seen, seenMains, plan, doomed>>
historyVars == <<overlap, faulted, unknown>>
vars == <<imageVars, requestVars, historyVars>>

Unfinished == {"loaded", "uploaded", "listed", "deleted", "saved", "committed"}
Phases == Unfinished \cup {"idle", "refused", "done", "failed"}
InFlight == {r \in Requests : phase[r] \in Unfinished}

NoPlan == [unchanged |-> TRUE, kept |-> {}, new |-> {}, main |-> None]

Init ==
    /\ rows = Initial
    /\ mains = {InitialMain}
    /\ s3 = Initial
    /\ rowLock = [i \in Images |-> None]
    /\ phase = [r \in Requests |-> "idle"]
    /\ seen = [r \in Requests |-> {}]
    /\ seenMains = [r \in Requests |-> {}]
    /\ plan = [r \in Requests |-> NoPlan]
    /\ doomed = [r \in Requests |-> {}]
    /\ overlap = FALSE
    /\ faulted = FALSE
    /\ unknown = {}

----------------------------------------------------------------------------
(* The plan.  The definitions called variants are slips the code could have *)
(* made, kept to see that a property notices them.                          *)

\* A variant: the images that remain are not counted.
UncountedPlan(r, kept, new, main) == main \in kept \cup new

\* _build_update_pin_image_plan: between one image and MaxImages remain, one of
\* them marked as main.
ValidPlan(r, kept, new, main) ==
    /\ Cardinality(kept \cup new) \in 1 .. MaxImages
    /\ main \in kept \cup new

\* The kept rows whose is_main changes: the others are not written.
Remarked(r) ==
    {i \in plan[r].kept : (i \in seenMains[r]) # (i = plan[r].main)}

\* removed_s3_keys: of the loaded images, not of the rows that are deleted.
RemovedKeys(r) == IF plan[r].unchanged THEN {} ELSE seen[r] \ plan[r].kept

\* delete_objects_best_effort: some deletions may fail.
DeleteBestEffort(keys) ==
    \E left \in IF "s3" \in Faults THEN SUBSET keys ELSE {{}} :
        /\ s3' = s3 \ (keys \ left)
        /\ faulted' = (faulted \/ left \cap s3 # {})

\* The locks after request r's transaction has ended.
Released(r) == [i \in Images |-> IF rowLock[i] = r THEN None ELSE rowLock[i]]

\* The rows in S may be written by r: nobody else's transaction holds them.
CanLock(r, S) == \A i \in S : rowLock[i] \in {r, None}
Locked(r, S) == [i \in Images |-> IF i \in S THEN r ELSE rowLock[i]]

----------------------------------------------------------------------------
\* The pin is loaded with its images, and the plan is built from them.
Load(r) ==
    /\ phase[r] = "idle"
    /\ Cardinality(InFlight) < MaxInFlight
    /\ phase' = [phase EXCEPT ![r] = "loaded"]
    /\ seen' = [seen EXCEPT ![r] = rows]
    /\ seenMains' = [seenMains EXCEPT ![r] = mains]
    /\ overlap' = (overlap \/ InFlight # {})
    /\ \/ /\ rows # {}
          /\ plan' = [plan EXCEPT ![r] = NoPlan]
       \/ \E kept \in SUBSET rows, new \in SUBSET {r} : \E main \in kept \cup new :
            /\ ValidPlan(r, kept, new, main)
            /\ plan' = [plan EXCEPT ![r] = [unchanged |-> FALSE, kept |-> kept,
                                            new |-> new, main |-> main]]
    /\ UNCHANGED <<imageVars, doomed, faulted, unknown>>

\* An edit that would leave no image, or too many, or not one main one, is refused, and so
\* is one that leaves the images of a pin alone that has none.
Refuse(r) ==
    /\ phase[r] = "idle"
    /\ Cardinality(InFlight) < MaxInFlight
    /\ phase' = [phase EXCEPT ![r] = "refused"]
    /\ \/ /\ rows = {}
          /\ plan' = [plan EXCEPT ![r] = NoPlan]
       \/ \E kept \in SUBSET rows, new \in SUBSET {r} : \E main \in kept \cup new \cup {None} :
            /\ ~ValidPlan(r, kept, new, main)
            /\ plan' = [plan EXCEPT ![r] = [unchanged |-> FALSE, kept |-> kept,
                                            new |-> new, main |-> main]]
    /\ UNCHANGED <<imageVars, seen, seenMains, doomed, historyVars>>

\* _upload_new_pin_images_with_is_main
Upload(r) ==
    /\ phase[r] = "loaded"
    /\ phase' = [phase EXCEPT
                   ![r] = IF plan[r].unchanged THEN "saved" ELSE "uploaded"]
    /\ s3' = s3 \cup plan[r].new
    /\ UNCHANGED <<rows, mains, rowLock, seen, seenMains, plan, doomed, historyVars>>

\* _sync_pin_images_after_update: the committed rows are listed again.
List(r) ==
    /\ phase[r] = "uploaded"
    /\ phase' = [phase EXCEPT ![r] = "listed"]
    /\ doomed' = [doomed EXCEPT ![r] = rows \ plan[r].kept]
    /\ UNCHANGED <<imageVars, seen, seenMains, plan, historyVars>>

\* delete_by_ids waits for the locks of other transactions.
Delete(r) ==
    /\ phase[r] = "listed"
    /\ CanLock(r, doomed[r])
    /\ phase' = [phase EXCEPT ![r] = "deleted"]
    /\ rowLock' = Locked(r, doomed[r] \cap rows)
    /\ UNCHANGED <<rows, mains, s3, seen, seenMains, plan, doomed, historyVars>>

\* A variant: the removed objects are deleted before the commit.
SaveAndCleanUp(r) ==
    /\ phase[r] = "deleted"
    /\ CanLock(r, Remarked(r))
    /\ Remarked(r) \subseteq rows
    /\ phase' = [phase EXCEPT ![r] = "saved"]
    /\ rowLock' = Locked(r, Remarked(r))
    /\ s3' = s3 \ RemovedKeys(r)
    /\ UNCHANGED <<rows, mains, seen, seenMains, plan, doomed, historyVars>>

\* The kept rows are flushed: an UPDATE for a row that is gone fails.  Then the
\* new one is inserted.
Save(r) ==
    /\ phase[r] = "deleted"
    /\ CanLock(r, Remarked(r))
    /\ Remarked(r) \subseteq rows
    /\ phase' = [phase EXCEPT ![r] = "saved"]
    /\ rowLock' = Locked(r, Remarked(r))
    /\ UNCHANGED <<rows, mains, s3, seen, seenMains, plan, doomed, historyVars>>

\* What the commit of r makes of the rows.
RowsAfter(r) ==
    /\ rows' = (rows \ doomed[r]) \cup plan[r].new
    /\ mains' = (mains \ (doomed[r] \cup Remarked(r)))
                  \cup ((Remarked(r) \cup plan[r].new) \cap {plan[r].main})
    /\ rowLock' = Released(r)

Commit(r) ==
    /\ phase[r] = "saved"
    /\ phase' = [phase EXCEPT ![r] = "committed"]
    /\ RowsAfter(r)
    /\ UNCHANGED <<s3, seen, seenMains, plan, doomed, historyVars>>

\* The commit takes effect and its answer is lost: the new object is deleted.
CommitUnknown(r) ==
    /\ "commit" \in Faults
    /\ phase[r] = "saved"
    /\ phase' = [phase EXCEPT ![r] = "failed"]
    /\ RowsAfter(r)
    /\ s3' = s3 \ plan[r].new
    /\ faulted' = TRUE
    /\ unknown' = unknown \cup {r}
    /\ UNCHANGED <<seen, seenMains, plan, doomed, overlap>>

\* A variant: the rollback leaves the uploaded object behind.
RollBackOnly(r) ==
    /\ phase[r] \in {"loaded", "uploaded", "listed", "deleted", "saved"}
    /\ phase' = [phase EXCEPT ![r] = "failed"]
    /\ rowLock' = Released(r)
    /\ UNCHANGED <<rows, mains, s3, seen, seenMains, plan, doomed, historyVars>>

\* An upload, a statement, a deadlock, the reset, cancel or the commit fails:
\* rollback, and the uploaded object is deleted.
RollBack(r) ==
    /\ phase[r] \in {"loaded", "uploaded", "listed", "deleted", "saved"}
    /\ phase' = [phase EXCEPT ![r] = "failed"]
    /\ rowLock' = Released(r)
    /\ DeleteBestEffort(plan[r].new)
    /\ UNCHANGED <<rows, mains, seen, seenMains, plan, doomed, overlap, unknown>>

\* _cleanup_removed_pin_images_best_effort, after the commit.
CleanUp(r) ==
    /\ phase[r] = "committed"
    /\ phase' = [phase EXCEPT ![r] = "done"]
    /\ DeleteBestEffort(RemovedKeys(r))
    /\ UNCHANGED <<rows, mains, rowLock, seen, seenMains, plan, doomed, overlap,
                   unknown>>

\* The request dies with its process, or is cancelled: neither except clause
\* runs, PostgreSQL rolls the transaction back.
Die(r) ==
    /\ "crash" \in Faults
    /\ r \in InFlight
    /\ phase' = [phase EXCEPT ![r] = "failed"]
    /\ rowLock' = Released(r)
    /\ faulted' = TRUE
    /\ UNCHANGED <<rows, mains, s3, seen, seenMains, plan, doomed, overlap, unknown>>

Step(r) ==
    \/ Load(r)
    \/ Refuse(r)
    \/ Upload(r)
    \/ List(r)
    \/ Delete(r)
    \/ Save(r)
    \/ Commit(r)
    \/ CommitUnknown(r)
    \/ RollBack(r)
    \/ CleanUp(r)
    \/ Die(r)

Next == \E r \in Requests : Step(r)

Spec == Init /\ [][Next]_vars

----------------------------------------------------------------------------
(* Correctness.                                                            *)

Plans == [unchanged : BOOLEAN, kept : SUBSET Images, new : SUBSET Requests,
          main : Images \cup {None}]

TypeOK ==
    /\ rows \subseteq Images
    /\ mains \subseteq rows
    /\ s3 \subseteq Images
    /\ rowLock \in [Images -> Requests \cup {None}]
    /\ phase \in [Requests -> Phases]
    /\ seen \in [Requests -> SUBSET Images]
    /\ seenMains \in [Requests -> SUBSET Images]
    /\ plan \in [Requests -> Plans]
    /\ doomed \in [Requests -> SUBSET Images]
    /\ overlap \in BOOLEAN
    /\ faulted \in BOOLEAN
    /\ unknown \subseteq Requests

\* A committed row points at an object that exists, whatever overlaps, fails or
\* dies: objects are uploaded before their rows are committed and deleted after
\* theirs are gone.  Only a commit whose answer was lost breaks this.
RowsHaveObjects == rows \ s3 \subseteq unknown

\* As long as edits do not overlap, the pin keeps between one and MaxImages
\* images, exactly one of them main, whatever fails.  So has it the code, and so
\* its tests (test_issue_pin_image_required.py); a document
\* (issue-pin-create-and-reliability.md:287) lets edits remove all images.
SerialEditsKeepImagesValid ==
    ~overlap =>
        /\ Cardinality(rows) \in 1 .. MaxImages
        /\ Cardinality(mains) = 1


\* As long as edits do not overlap and no fault happens, no object is left
\* behind, be it by a successful edit or by one that was rolled back.
SerialEditsLeaveNoOrphans ==
    ~overlap /\ ~faulted /\ InFlight = {} => s3 = rows
=============================================================================
