------------------------- MODULE ReliabilityRunner -------------------------
(***************************************************************************)
(* The reliability score of one issue pin: the requests that create and    *)
(* edit the pin (IssueService), the background jobs that score it          *)
(* (IssuePinBackgroundRunner), the generation counter that is to keep      *)
(* superseded jobs from writing, and the score columns of the issue_pin    *)
(* row, which all of them share.  Every piece of state of the runner is    *)
(* kept per pin, so one pin is enough.                                     *)
(*                                                                         *)
(* A step is what runs between two awaits that other coroutines can tell   *)
(* apart.  A request schedules at most one job, so a job is named by its   *)
(* request.  The POST that created the pin is the request Creator, which   *)
(* starts out committed.                                                   *)
(***************************************************************************)
EXTENDS Naturals, FiniteSets

CONSTANTS
    Requests,     \* the POST and the PATCH requests on the pin
    Creator,      \* the POST
    None,         \* no request
    Stores,       \* where generations may live: "redis", "local"
    Dispatches,   \* how jobs may be started: "background", "task"
    Faults,       \* the faults that may happen, a subset of FaultKinds
    EditKinds,    \* what an edit may change: sets of "text", "images"
    MaxInFlight   \* how many requests may be handled at once

FaultKinds == {"store", "commit", "response", "db", "crash"}

ASSUME RequestsAssumption ==
    /\ IsFiniteSet(Requests)
    /\ Creator \in Requests
    /\ None \notin Requests
ASSUME ConfigAssumption ==
    /\ Stores \subseteq {"redis", "local"}
    /\ Dispatches \subseteq {"background", "task"}
    /\ Faults \subseteq FaultKinds
    /\ EditKinds \subseteq SUBSET {"text", "images"}
    /\ MaxInFlight \in Nat

VARIABLES
    store,        \* the generation store this deployment has
    dispatch,     \* how this deployment starts jobs
    \* the requests
    phase,        \* how far each request is
    edits,        \* what each request changes of the pin
    seenText,     \* the pin text each request loaded
    \* the runner
    generation,   \* the pin's generation in the store (absent: 0)
    activeCount,  \* _ACTIVE_JOB_COUNT_BY_PIN
    tasks,        \* _TASKS_BY_PIN: the asyncio tasks that are not done
    cancelled,    \* the tasks on which cancel() was called
    stage,        \* how far each job is
    gen,          \* the generation each job was given
    jobText,      \* the text each job scores
    jobImages,    \* the images each job has read from the database
    \* the committed rows of the pin
    pinText,      \* pin.pin_title, pin.pin_content: the request that wrote them
    pinImages,    \* the pin_image rows: the request that wrote them
    status,       \* what issue_confidence, confidence_content say
    author,       \* the request whose reset or whose job wrote them
    lock          \* the uncommitted edit that holds the issue_pin row's lock

config == <<store, dispatch>>
requestVars == <<phase, edits, seenText>>
jobVars == <<stage, gen, jobText, jobImages>>
runnerVars == <<generation, activeCount, tasks, cancelled>>
pinVars == <<pinText, pinImages>>
rowVars == <<status, author>>
vars == <<config, requestVars, jobVars, runnerVars, pinVars, rowVars, lock>>

Phases == {"idle", "read", "reset", "cancelling", "cancelled", "committed",
           "scheduling", "scheduled", "done", "failed"}

\* The stages a job leaves through _assert_job_active, and where it goes.
StageAfterCheck ==
    [queued |-> "rag", rag |-> "s3", download |-> "exif", exif |-> "vlm",
     vlm |-> "persist"]
CheckedStages == {"queued", "rag", "download", "exif", "vlm"}
PipelineStages == {"rag", "s3", "download", "exif", "vlm"}
LiveStages == {"queued", "persist", "fallback"} \cup PipelineStages
Stages == LiveStages \cup {"none", "ended", "lost"}

Live(r) == stage[r] \in LiveStages
InFlight == {r \in Requests : phase[r] \notin {"idle", "done", "failed"}}

Init ==
    /\ store \in Stores
    /\ dispatch \in Dispatches
    /\ phase = [r \in Requests |-> IF r = Creator THEN "committed" ELSE "idle"]
    /\ edits = [r \in Requests |->
                  IF r = Creator THEN {"text", "images"} ELSE {}]
    /\ seenText = [r \in Requests |-> Creator]
    /\ generation = 0
    /\ activeCount = 0
    /\ tasks = {}
    /\ cancelled = {}
    /\ stage = [r \in Requests |-> "none"]
    /\ gen = [r \in Requests |-> 0]
    /\ jobText = [r \in Requests |-> None]
    /\ jobImages = [r \in Requests |-> None]
    /\ pinText = Creator
    /\ pinImages = Creator
    /\ status = "pending"
    /\ author = Creator
    /\ lock = None

----------------------------------------------------------------------------
(* The bookkeeping of the runner.  The definitions called variants, here and *)
(* below, are not part of the specification: each is a slip the code could   *)
(* have made, kept to see that a property notices it.                        *)

\* _next_generation.  An INCR the client had to send again skips a number, which
\* nothing can tell: generations are only compared for equality.
NextGeneration == generation + 1

\* schedule passes on the value its increment returned; the variant passes on
\* the value before it.
OldGeneration == generation
JobGeneration == NextGeneration

\* _mark_job_started; the variant forgets it.
UncountedStart == activeCount
StartedCount == activeCount + 1

\* _mark_job_finished
FinishedCount == IF activeCount <= 1 THEN 0 ELSE activeCount - 1

\* _maybe_cleanup_pin_state: without Redis the counter of a pin nobody works on
\* is dropped.  The variant looks at the tracked tasks only.
CleanedUpIgnoringCount(count, tracked) ==
    IF store = "local" /\ tracked = {} THEN 0 ELSE generation
CleanedUp(count, tracked) ==
    IF store = "local" /\ count = 0 /\ tracked = {} THEN 0 ELSE generation

----------------------------------------------------------------------------
(* The requests.                                                           *)

\* update_issue_pin up to its try block: the pin is loaded and checked, the
\* request decides what it will change by comparing with what it loaded.
ReadPin(r) ==
    /\ phase[r] = "idle"
    /\ Cardinality(InFlight) < MaxInFlight
    /\ phase' = [phase EXCEPT ![r] = "read"]
    /\ \E e \in EditKinds : edits' = [edits EXCEPT ![r] = e]
    /\ seenText' = [seenText EXCEPT ![r] = pinText]
    /\ UNCHANGED <<config, runnerVars, jobVars, pinVars, rowVars, lock>>

\* reset_confidence: the UPDATE waits for the row lock and keeps it.  The
\* flushed text and image changes become visible with it, at the commit.
ResetConfidence(r) ==
    /\ phase[r] = "read"
    /\ lock = None
    /\ lock' = r
    /\ phase' = [phase EXCEPT ![r] = "reset"]
    /\ UNCHANGED <<config, edits, seenText, runnerVars, jobVars, pinVars, rowVars>>

\* What a request's end without commit undoes.
RollBack(r) ==
    /\ phase' = [phase EXCEPT ![r] = "failed"]
    /\ lock' = IF lock = r THEN None ELSE lock
    /\ UNCHANGED <<config, edits, seenText, jobVars, pinVars, rowVars>>

\* An upload, a flush or a check fails before cancel is called.
EditFails(r) ==
    /\ phase[r] \in {"read", "reset"}
    /\ RollBack(r)
    /\ UNCHANGED runnerVars

CancelTrackedTasks(r) ==
    /\ phase' = [phase EXCEPT ![r] = "cancelled"]
    /\ cancelled' = cancelled \cup tasks

\* cancel: a new generation, then task.cancel() on every tracked task.  With
\* Redis the tasks are looked up when its answer is back.
Cancel(r) ==
    /\ phase[r] = "reset"
    /\ generation' = NextGeneration
    /\ \/ /\ store = "local"
          /\ CancelTrackedTasks(r)
       \/ /\ store = "redis"
          /\ phase' = [phase EXCEPT ![r] = "cancelling"]
          /\ UNCHANGED cancelled
    /\ UNCHANGED <<config, edits, seenText, activeCount, tasks, jobVars, pinVars,
                   rowVars, lock>>

CancelTasks(r) ==
    /\ phase[r] = "cancelling"
    /\ CancelTrackedTasks(r)
    /\ UNCHANGED <<config, edits, seenText, generation, activeCount, tasks, jobVars,
                   pinVars, rowVars, lock>>

\* The store fails under _next_generation: INCR failed, or EXPIRE after it.
StoreFails ==
    /\ "store" \in Faults
    /\ store = "redis"
    /\ generation' \in {generation, NextGeneration}
    /\ UNCHANGED <<activeCount, tasks, cancelled>>

CancelFails(r) ==
    /\ phase[r] = "reset"
    /\ StoreFails
    /\ RollBack(r)

CommitFails(r) ==
    /\ "commit" \in Faults
    /\ phase[r] = "cancelled"
    /\ RollBack(r)
    /\ UNCHANGED runnerVars

Commit(r) ==
    /\ phase[r] = "cancelled"
    /\ phase' = [phase EXCEPT ![r] = "committed"]
    /\ pinText' = IF "text" \in edits[r] THEN r ELSE pinText
    /\ pinImages' = IF "images" \in edits[r] THEN r ELSE pinImages
    /\ status' = "pending"
    /\ author' = r
    /\ lock' = None
    /\ UNCHANGED <<config, edits, seenText, runnerVars, jobVars>>

StartJob(r) ==
    /\ phase' = [phase EXCEPT ![r] = "scheduled"]
    /\ activeCount' = StartedCount
    /\ stage' = [stage EXCEPT ![r] = "queued"]
    /\ tasks' = IF dispatch = "task" THEN tasks \cup {r} ELSE tasks

\* schedule: the job carries the request's own title and content, which are
\* the loaded ones when the request left them alone.  With Redis the job starts
\* when its answer is back.
Schedule(r) ==
    /\ phase[r] = "committed"
    /\ generation' = NextGeneration
    /\ gen' = [gen EXCEPT ![r] = JobGeneration]
    /\ jobText' = [jobText EXCEPT
                     ![r] = IF "text" \in edits[r] THEN r ELSE seenText[r]]
    /\ \/ /\ store = "local"
          /\ StartJob(r)
       \/ /\ store = "redis"
          /\ phase' = [phase EXCEPT ![r] = "scheduling"]
          /\ UNCHANGED <<activeCount, stage, tasks>>
    /\ UNCHANGED <<config, edits, seenText, cancelled, jobImages, pinVars, rowVars,
                   lock>>

StartScheduled(r) ==
    /\ phase[r] = "scheduling"
    /\ StartJob(r)
    /\ UNCHANGED <<config, edits, seenText, generation, cancelled, gen, jobText,
                   jobImages, pinVars, rowVars, lock>>

\* The edit stays committed and the client gets an error.
ScheduleFails(r) ==
    /\ phase[r] = "committed"
    /\ StoreFails
    /\ phase' = [phase EXCEPT ![r] = "failed"]
    /\ UNCHANGED <<config, edits, seenText, jobVars, pinVars, rowVars, lock>>

Respond(r) ==
    /\ phase[r] = "scheduled"
    /\ phase' = [phase EXCEPT ![r] = "done"]
    /\ UNCHANGED <<config, edits, seenText, runnerVars, jobVars, pinVars, rowVars,
                   lock>>

\* Building the response raises: the BackgroundTasks of a response that is
\* never sent are never run, an asyncio task is running already.
ResponseFails(r) ==
    /\ "response" \in Faults
    /\ phase[r] = "scheduled"
    /\ phase' = [phase EXCEPT ![r] = "failed"]
    /\ stage' = IF dispatch = "background" THEN [stage EXCEPT ![r] = "lost"]
                                           ELSE stage
    /\ UNCHANGED <<config, edits, seenText, runnerVars, gen, jobText, jobImages,
                   pinVars, rowVars, lock>>

----------------------------------------------------------------------------
(* The jobs.                                                               *)

\* The job's coroutine is resumed without a CancelledError.  BackgroundTasks
\* start once the response is sent.
Runs(r) ==
    /\ Live(r)
    /\ r \notin cancelled
    /\ stage[r] = "queued" /\ dispatch = "background" => phase[r] = "done"

\* _mark_job_finished, _untrack_task and the clean-up both end with, in one
\* step: a done callback runs right after its task and no count is read between.
Finish(r) ==
    /\ activeCount' = FinishedCount
    /\ tasks' = tasks \ {r}
    /\ generation' = CleanedUp(activeCount', tasks')
    /\ UNCHANGED cancelled

End(r) ==
    /\ stage' = [stage EXCEPT ![r] = "ended"]
    /\ Finish(r)
    /\ UNCHANGED <<config, requestVars, gen, jobText, jobImages, pinVars, lock>>

\* A variant: only a generation the store has not reached counts as stale.
IsKnown(r) == gen[r] <= generation

\* _assert_job_active
IsActive(r) == gen[r] = generation

PassCheck(r) ==
    /\ Runs(r)
    /\ stage[r] \in CheckedStages
    /\ IsActive(r)
    /\ stage' = [stage EXCEPT ![r] = StageAfterCheck[@]]
    /\ UNCHANGED <<config, requestVars, runnerVars, gen, jobText, jobImages, pinVars,
                   rowVars, lock>>

\* A variant: the job carries its own request's images, as it did before it
\* loaded them from S3.
LoadOwnImages(r) ==
    /\ Runs(r)
    /\ stage[r] = "s3"
    /\ stage' = [stage EXCEPT ![r] = "download"]
    /\ jobImages' = [jobImages EXCEPT ![r] = r]
    /\ UNCHANGED <<config, requestVars, runnerVars, gen, jobText, pinVars, rowVars,
                   lock>>

\* _load_snapshots_from_s3 reads the pin_image rows, then downloads.
LoadImages(r) ==
    /\ Runs(r)
    /\ stage[r] = "s3"
    /\ stage' = [stage EXCEPT ![r] = "download"]
    /\ jobImages' = [jobImages EXCEPT ![r] = pinImages]
    /\ UNCHANGED <<config, requestVars, runnerVars, gen, jobText, pinVars, rowVars,
                   lock>>

StaleSkip(r) ==
    /\ Runs(r)
    /\ stage[r] \in CheckedStages
    /\ ~IsActive(r)
    /\ End(r)
    /\ UNCHANGED rowVars

\* The store cannot be read: the job gives up without a failure record.
CheckFails(r) ==
    /\ "store" \in Faults
    /\ store = "redis"
    /\ Runs(r)
    /\ stage[r] \in CheckedStages
    /\ End(r)
    /\ UNCHANGED rowVars

\* A stage raises or times out, or the total timeout strikes.
StageFails(r) ==
    /\ Runs(r)
    /\ stage[r] \in PipelineStages
    /\ stage' = [stage EXCEPT ![r] = "fallback"]
    /\ UNCHANGED <<config, requestVars, runnerVars, gen, jobText, jobImages, pinVars,
                   rowVars, lock>>

\* The UPDATE of the row, in a session and transaction of its own: it waits
\* for the lock of an uncommitted edit, and looks at no generation.
WriteRow(r, outcome) ==
    /\ lock = None
    /\ status' = outcome
    /\ author' = r

Persist(r) ==
    /\ Runs(r)
    /\ stage[r] = "persist"
    /\ WriteRow(r, "scored")
    /\ End(r)

\* The write fails, or the total timeout strikes under it: before the commit
\* has taken effect, or after it.
PersistFails(r) ==
    /\ Runs(r)
    /\ stage[r] = "persist"
    /\ stage' = [stage EXCEPT ![r] = "fallback"]
    /\ WriteRow(r, "scored") \/ UNCHANGED rowVars
    /\ UNCHANGED <<config, requestVars, runnerVars, gen, jobText, jobImages, pinVars,
                   lock>>

\* A variant: the finally block writes nothing.
EndSilently(r) ==
    /\ Runs(r)
    /\ stage[r] = "fallback"
    /\ End(r)
    /\ UNCHANGED rowVars

\* _persist_failure_confidence in the finally block.
Fallback(r) ==
    /\ Runs(r)
    /\ stage[r] = "fallback"
    /\ WriteRow(r, "failed")
    /\ End(r)

FallbackFails(r) ==
    /\ "db" \in Faults
    /\ Runs(r)
    /\ stage[r] = "fallback"
    /\ End(r)
    /\ UNCHANGED rowVars

\* CancelledError reaches a task that has run: the except clause ends it.
StopCancelled(r) ==
    /\ r \in cancelled
    /\ stage[r] \in PipelineStages \cup {"persist"}
    /\ End(r)
    /\ UNCHANGED rowVars

\* CancelledError reaches a task before its first step, or inside the finally
\* block: _mark_job_finished is not called, only the task is untracked.
DropCancelled(r) ==
    /\ r \in cancelled
    /\ stage[r] \in {"queued", "fallback"}
    /\ stage' = [stage EXCEPT ![r] = "lost"]
    /\ tasks' = tasks \ {r}
    /\ generation' = CleanedUp(activeCount, tasks')
    /\ UNCHANGED <<config, requestVars, activeCount, cancelled, gen, jobText,
                   jobImages, pinVars, rowVars, lock>>

----------------------------------------------------------------------------
\* The process dies: transactions roll back, jobs and module state are gone,
\* what Redis holds stays.
Crash ==
    /\ "crash" \in Faults
    /\ phase' = [r \in Requests |-> IF r \in InFlight THEN "failed" ELSE phase[r]]
    /\ stage' = [r \in Requests |-> IF Live(r) THEN "lost" ELSE stage[r]]
    /\ activeCount' = 0
    /\ tasks' = {}
    /\ cancelled' = {}
    /\ generation' = IF store = "local" THEN 0 ELSE generation
    /\ lock' = None
    /\ UNCHANGED <<config, edits, seenText, gen, jobText, jobImages, pinVars, rowVars>>

RequestStep(r) ==
    \/ ReadPin(r)
    \/ ResetConfidence(r)
    \/ EditFails(r)
    \/ Cancel(r)
    \/ CancelTasks(r)
    \/ CancelFails(r)
    \/ CommitFails(r)
    \/ Commit(r)
    \/ Schedule(r)
    \/ StartScheduled(r)
    \/ ScheduleFails(r)
    \/ Respond(r)
    \/ ResponseFails(r)

JobStep(r) ==
    \/ PassCheck(r)
    \/ LoadImages(r)
    \/ StaleSkip(r)
    \/ CheckFails(r)
    \/ StageFails(r)
    \/ Persist(r)
    \/ PersistFails(r)
    \/ Fallback(r)
    \/ FallbackFails(r)
    \/ StopCancelled(r)
    \/ DropCancelled(r)

Next ==
    \/ \E r \in Requests : RequestStep(r)
    \/ \E r \in Requests : JobStep(r)
    \/ Crash

\* A request that was started and a job that was dispatched go on: the event
\* loop resumes every ready coroutine, every stage of a job is under wait_for.
\* No client has to send a request.
Fairness ==
    \A r \in Requests :
        /\ WF_vars(phase[r] # "idle" /\ RequestStep(r))
        /\ WF_vars(JobStep(r))

Spec == Init /\ [][Next]_vars
FairSpec == Spec /\ Fairness

----------------------------------------------------------------------------
(* Correctness.                                                            *)

TypeOK ==
    /\ store \in {"redis", "local"}
    /\ dispatch \in {"background", "task"}
    /\ phase \in [Requests -> Phases]
    /\ edits \in [Requests -> SUBSET {"text", "images"}]
    /\ seenText \in [Requests -> Requests]
    /\ generation \in Nat
    /\ activeCount \in Nat
    /\ tasks \subseteq Requests
    /\ cancelled \subseteq Requests
    /\ stage \in [Requests -> Stages]
    /\ gen \in [Requests -> Nat]
    /\ jobText \in [Requests -> Requests \cup {None}]
    /\ jobImages \in [Requests -> Requests \cup {None}]
    /\ pinText \in Requests
    /\ pinImages \in Requests
    /\ status \in {"pending", "scored", "failed"}
    /\ author \in Requests
    /\ lock \in Requests \cup {None}

LiveJobs == {r \in Requests : Live(r)}

\* No two live jobs of the pin have the same generation, and none has one the
\* store has not reached: the counter is never thrown away by
\* _maybe_cleanup_pin_state, nor reset by anything else in the runner, while a
\* job that could be mistaken for a newer one is still alive.
GenerationsIdentifyJobs ==
    \A r \in LiveJobs :
        /\ gen[r] \in 1 .. generation
        /\ \A q \in LiveJobs : gen[q] = gen[r] => q = r

\* Each live job is counted in _ACTIVE_JOB_COUNT_BY_PIN, whatever fails.  Jobs
\* that vanish without _mark_job_finished only make the count too large.
LiveJobsAreCounted == Cardinality(LiveJobs) <= activeCount

\* Once the counter has moved past a job that has a check ahead of it, that
\* job never becomes the current one again and never gets to write a score:
\* cancel and schedule do invalidate it, even where the counter is thrown away
\* and starts over.
SupersededNeverPersists ==
    [][\A r \in Requests :
         Live(r) /\ gen[r] # generation /\ stage[r] # "persist" =>
            /\ stage'[r] # "persist"
            /\ Live(r)' => gen'[r] # generation']_vars

\* Who will still replace the "pending" of the committed row: a request that
\* is about to schedule a job, or a job that was not cancelled and that the
\* generation check will let through or is past already.
OwingRequests ==
    {r \in Requests :
        \/ phase[r] \in {"cancelling", "cancelled", "committed"}
        \/ phase[r] = "scheduling" /\ gen[r] = generation}
OwingJobs ==
    {r \in LiveJobs \ cancelled :
        gen[r] = generation \/ stage[r] \in {"persist", "fallback"}}

\* The committed row says "pending" only while someone will still answer.
PendingHasOwner == status = "pending" => OwingRequests \cup OwingJobs # {}

\* The job that may write has read the images that are committed, unless an
\* edit is about to commit or to schedule a newer job: cancel, commit and
\* schedule come in the order that makes the S3 stage see the edit.
CurrentJobReadCurrentImages ==
    OwingRequests = {} =>
        \A r \in LiveJobs :
            /\ gen[r] = generation
            /\ stage[r] \in {"download", "exif", "vlm", "persist"}
            => jobImages[r] = pinImages

\* A committed edit never leaves the pin "pending" for ever: a score or the
\* failure text follows.
PendingIsResolved == (status = "pending") ~> (status # "pending")

\* What docs/issue-pin-create-and-reliability.md promises of an edit: a result
\* that an edit has superseded is blocked.
SupersededResultIsBlocked ==
    [][\A r \in Requests :
         /\ stage[r] \in {"persist", "fallback"}
         /\ gen[r] # generation
         => ~(author' = r /\ rowVars' # rowVars)]_vars
=============================================================================
