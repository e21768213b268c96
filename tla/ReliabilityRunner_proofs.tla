---------------------- MODULE ReliabilityRunner_proofs ----------------------
(***************************************************************************)
(* What holds of ReliabilityRunner for any number of requests, in every    *)
(* deployment and under every fault: types, the identification of jobs by  *)
(* generations, the counting of live jobs and the finality of being        *)
(* superseded; and, without faults, that "pending" always has an owner.    *)
(***************************************************************************)
EXTENDS ReliabilityRunner, FiniteSetTheorems, TLAPS

USE DEF FaultKinds

----------------------------------------------------------------------------
(* Types.                                                                  *)

\* The types hold at first.
LEMMA InitType == Init => TypeOK
  BY RequestsAssumption, ConfigAssumption
  DEF Init, TypeOK, Phases, Stages, LiveStages, PipelineStages

\* A step of a request keeps the types.
LEMMA RequestStepType ==
  ASSUME TypeOK, NEW r \in Requests, RequestStep(r)
  PROVE  TypeOK'
<1> USE RequestsAssumption, ConfigAssumption
    DEF TypeOK, vars, config, requestVars, jobVars, runnerVars, pinVars, rowVars,
        Phases, Stages, LiveStages, PipelineStages
<1>1. CASE ReadPin(r)          BY <1>1 DEF ReadPin
<1>2. CASE ResetConfidence(r)  BY <1>2 DEF ResetConfidence
<1>3. CASE EditFails(r)        BY <1>3 DEF EditFails, RollBack
<1>4. CASE Cancel(r)
      BY <1>4 DEF Cancel, CancelTrackedTasks, NextGeneration
<1>5. CASE CancelFails(r)      BY <1>5 DEF CancelFails, StoreFails, RollBack,
                                           NextGeneration
<1>6. CASE CommitFails(r)      BY <1>6 DEF CommitFails, RollBack
<1>7. CASE Commit(r)           BY <1>7 DEF Commit
<1>8. CASE Schedule(r)
      BY <1>8 DEF Schedule, StartJob, NextGeneration, JobGeneration, StartedCount
<1>9. CASE ScheduleFails(r)    BY <1>9 DEF ScheduleFails, StoreFails, NextGeneration
<1>10. CASE Respond(r)         BY <1>10 DEF Respond
<1>11. CASE ResponseFails(r)   BY <1>11 DEF ResponseFails
<1>12. CASE CancelTasks(r)     BY <1>12 DEF CancelTasks, CancelTrackedTasks
<1>13. CASE StartScheduled(r)
       BY <1>13 DEF StartScheduled, StartJob, StartedCount
<1> QED
  BY <1>1, <1>2, <1>3, <1>4, <1>5, <1>6, <1>7, <1>8, <1>9, <1>10, <1>11, <1>12, <1>13
  DEF RequestStep

\* So does the end of a job.
LEMMA EndType ==
  ASSUME TypeOK, NEW r \in Requests, End(r),
         status' \in {"pending", "scored", "failed"}, author' \in Requests
  PROVE  TypeOK'
  BY DEF TypeOK, End, Finish, FinishedCount, CleanedUp, config, requestVars,
         pinVars, Stages

\* So does any step of a job.
LEMMA JobStepType ==
  ASSUME TypeOK, NEW r \in Requests, JobStep(r)
  PROVE  TypeOK'
<1> USE DEF TypeOK, vars, config, requestVars, jobVars, runnerVars, pinVars, rowVars
<1>1. CASE PassCheck(r)
      BY <1>1 DEF PassCheck, StageAfterCheck, CheckedStages, Stages, LiveStages,
                  PipelineStages
<1>2. CASE LoadImages(r)
      BY <1>2 DEF LoadImages, Stages, LiveStages, PipelineStages
<1>3. CASE StaleSkip(r)     BY <1>3, EndType DEF StaleSkip
<1>4. CASE CheckFails(r)    BY <1>4, EndType DEF CheckFails
<1>5. CASE StageFails(r)    BY <1>5 DEF StageFails, Stages, LiveStages
<1>6. CASE Persist(r)       BY <1>6, EndType DEF Persist, WriteRow
<1>7. CASE PersistFails(r)  BY <1>7 DEF PersistFails, WriteRow, Stages, LiveStages
<1>8. CASE Fallback(r)      BY <1>8, EndType DEF Fallback, WriteRow
<1>9. CASE FallbackFails(r) BY <1>9, EndType DEF FallbackFails
<1>10. CASE StopCancelled(r) BY <1>10, EndType DEF StopCancelled
<1>11. CASE DropCancelled(r)
       BY <1>11 DEF DropCancelled, CleanedUp, Stages
<1> QED
  BY <1>1, <1>2, <1>3, <1>4, <1>5, <1>6, <1>7, <1>8, <1>9, <1>10, <1>11
  DEF JobStep

\* So does a crash.
LEMMA CrashType == TypeOK /\ Crash => TypeOK'
  BY DEF TypeOK, Crash, config, pinVars, rowVars, Phases, Stages

\* Every step keeps the types.
LEMMA NextType == TypeOK /\ [Next]_vars => TypeOK'
<1>1. TypeOK /\ Next => TypeOK'
  BY RequestStepType, JobStepType, CrashType DEF Next
<1>2. TypeOK /\ UNCHANGED vars => TypeOK'
  BY DEF TypeOK, vars, config, requestVars, jobVars, runnerVars, pinVars, rowVars
<1> QED
  BY <1>1, <1>2

\* Every variable keeps the values the code can give it.
THEOREM TypeCorrect == Spec => []TypeOK
  BY InitType, NextType, PTL DEF Spec

----------------------------------------------------------------------------
(* The bookkeeping.                                                        *)

\* Only a request that has started its job has one, and only a job that was
\* started has a task.  Requests wait for the store only where it is Redis.
JobsFollowCommits ==
    /\ \A r \in Requests :
         phase[r] \in {"idle", "read", "reset", "cancelling", "cancelled",
                       "committed", "scheduling"}
         => stage[r] = "none"
    /\ \A r \in Requests :
         phase[r] \in {"cancelling", "scheduling"} => store = "redis"
    /\ \A r \in tasks \cup cancelled : stage[r] # "none"

\* A generation names one job, also while it is on its way from the store to
\* the request that is to start the job.
Numbered == {r \in Requests : Live(r) \/ phase[r] = "scheduling"}

NumbersAreUnique ==
    \A r \in Numbered :
        /\ gen[r] \in 1 .. generation
        /\ \A q \in Numbered : gen[q] = gen[r] => q = r

\* The inductive invariant.
IInv ==
    /\ TypeOK
    /\ JobsFollowCommits
    /\ NumbersAreUnique
    /\ LiveJobsAreCounted

\* What is counted as nothing is empty.
LEMMA EmptyByCount ==
  ASSUME NEW S, IsFiniteSet(S), NEW n \in Nat, Cardinality(S) <= n, n = 0
  PROVE  S = {}
  BY FS_CardinalityType, FS_EmptySet

\* One more member is at most one more in the count.
LEMMA CountWithOneMore ==
  ASSUME NEW S, IsFiniteSet(S), NEW e
  PROVE  /\ Cardinality(S \cup {e}) <= Cardinality(S) + 1
         /\ Cardinality(S \cup {e}) \in Nat
<1>1. Cardinality(S) \in Nat
  BY FS_CardinalityType
<1>2. Cardinality(S \cup {e}) = IF e \in S THEN Cardinality(S)
                                           ELSE Cardinality(S) + 1
  BY FS_AddElement
<1> QED
  BY <1>1, <1>2

\* There are finitely many live jobs.
LEMMA LiveJobsFinite == IsFiniteSet(LiveJobs) /\ Cardinality(LiveJobs) \in Nat
  BY RequestsAssumption, FS_Subset, FS_CardinalityType DEF LiveJobs

\* Numbers that are unique among the live jobs tell them apart.
LEMMA NumbersIdentifyJobs == NumbersAreUnique => GenerationsIdentifyJobs
  BY DEF NumbersAreUnique, GenerationsIdentifyJobs, Numbered, LiveJobs

\* A step that starts no job, counts no job down and does not lower the
\* generation keeps the bookkeeping right.
LEMMA NoNewJob ==
  ASSUME IInv, TypeOK', LiveJobs' \subseteq LiveJobs, Numbered' \subseteq Numbered,
         gen' = gen, generation' >= generation, activeCount' = activeCount
  PROVE  NumbersAreUnique' /\ LiveJobsAreCounted'
<1>1. NumbersAreUnique'
  BY DEF IInv, NumbersAreUnique, TypeOK, Numbered
<1>2. Cardinality(LiveJobs') <= Cardinality(LiveJobs) /\ Cardinality(LiveJobs') \in Nat
  BY LiveJobsFinite, FS_Subset, FS_CardinalityType
<1>3. LiveJobsAreCounted'
  BY <1>2, LiveJobsFinite DEF IInv, TypeOK, LiveJobsAreCounted
<1> QED
  BY <1>1, <1>3

\* So does a step after which no job is alive or about to be.
LEMMA NoJobLeft ==
  ASSUME LiveJobs' = {}, Numbered' = {}, TypeOK'
  PROVE  NumbersAreUnique' /\ LiveJobsAreCounted'
<1>1. Cardinality(LiveJobs') = 0
  BY FS_EmptySet
<1> QED
  BY <1>1 DEF NumbersAreUnique, LiveJobsAreCounted, TypeOK

\* A job that is started is counted.
LEMMA StartIsCounted ==
  ASSUME IInv, NEW r \in Requests, LiveJobs' = LiveJobs \cup {r},
         activeCount' = activeCount + 1
  PROVE  LiveJobsAreCounted'
<1>1. Cardinality(LiveJobs') <= Cardinality(LiveJobs) + 1
      /\ Cardinality(LiveJobs') \in Nat
  BY CountWithOneMore, LiveJobsFinite
<1> QED
  BY <1>1, LiveJobsFinite DEF LiveJobsAreCounted, IInv, TypeOK

\* schedule: the new number is one nobody else has.
LEMMA ScheduleBooks ==
  ASSUME IInv, NEW r \in Requests, Schedule(r)
  PROVE  NumbersAreUnique' /\ LiveJobsAreCounted'
<1> USE DEF IInv, TypeOK, Schedule, StartJob, NextGeneration, JobGeneration,
            StartedCount
<1>1. NumbersAreUnique'
  <2>1. gen'[r] = generation + 1 /\ generation' = generation + 1
    OBVIOUS
  <2>2. Numbered' \subseteq Numbered \cup {r}
    BY DEF Numbered, Live
  <2>3. \A q \in Numbered : q # r => gen'[q] = gen[q] /\ gen[q] \in 1 .. generation
    BY DEF NumbersAreUnique, Numbered
  <2> QED
    BY <2>1, <2>2, <2>3 DEF NumbersAreUnique, Numbered
<1>2. LiveJobsAreCounted'
  <2>1. CASE store = "local"
    <3>1. LiveJobs' = LiveJobs \cup {r}
      BY <2>1 DEF LiveJobs, Live, LiveStages
    <3> QED
      BY <2>1, <3>1, StartIsCounted
  <2>2. CASE store = "redis"
    <3>1. LiveJobs' = LiveJobs /\ activeCount' = activeCount
      BY <2>2 DEF LiveJobs, Live
    <3> QED
      BY <3>1 DEF LiveJobsAreCounted
  <2> QED
    BY <2>1, <2>2
<1> QED
  BY <1>1, <1>2

\* schedule, when the store has answered: the number is in use already.
LEMMA StartBooks ==
  ASSUME IInv, NEW r \in Requests, StartScheduled(r)
  PROVE  NumbersAreUnique' /\ LiveJobsAreCounted'
<1> USE DEF IInv, TypeOK, StartScheduled, StartJob, StartedCount
<1>1. Numbered' = Numbered
  BY DEF Numbered, Live, LiveStages
<1>2. LiveJobs' = LiveJobs \cup {r}
  BY DEF LiveJobs, Live, LiveStages
<1>3. NumbersAreUnique'
  BY <1>1 DEF NumbersAreUnique
<1> QED
  BY <1>2, <1>3, StartIsCounted

\* A job that ends is counted down once, and the counter of the generations is
\* thrown away only when it was the last.
LEMMA EndBooks ==
  ASSUME IInv, NEW r \in Requests, Live(r), End(r)
  PROVE  /\ LiveJobs' = LiveJobs \ {r}
         /\ \/ generation' = generation
            \/ LiveJobs' = {} /\ Numbered' = {} /\ store = "local"
         /\ NumbersAreUnique'
         /\ LiveJobsAreCounted'
<1> USE DEF IInv, TypeOK, End, Finish, FinishedCount, CleanedUp
<1>1. LiveJobs' = LiveJobs \ {r} /\ r \in LiveJobs
  BY DEF LiveJobs, Live, LiveStages, PipelineStages
<1>2. Cardinality(LiveJobs') = Cardinality(LiveJobs) - 1
      /\ IsFiniteSet(LiveJobs') /\ Cardinality(LiveJobs') \in Nat
  BY <1>1, LiveJobsFinite, FS_RemoveElement, FS_CardinalityType
<1>3. LiveJobsAreCounted'
  BY <1>2, LiveJobsFinite DEF LiveJobsAreCounted
<1>4. generation' = generation \/ (store = "local" /\ LiveJobs' = {})
  <2>1. CASE activeCount' = 0
    BY <2>1, <1>2, <1>3, EmptyByCount DEF LiveJobsAreCounted
  <2>2. CASE activeCount' # 0
    BY <2>2
  <2> QED
    BY <2>1, <2>2
<1>5. Numbered' \subseteq Numbered
  BY DEF Numbered, Live, requestVars, LiveStages, PipelineStages
<1>6. store = "local" /\ LiveJobs' = {} => Numbered' = {}
  BY DEF JobsFollowCommits, Numbered, LiveJobs, requestVars
<1>7. NumbersAreUnique'
  BY <1>4, <1>5, <1>6 DEF NumbersAreUnique, Numbered
<1> QED
  BY <1>1, <1>3, <1>4, <1>6, <1>7

\* A task that goes without being counted down leaves the counter alone.
LEMMA DropBooks ==
  ASSUME IInv, NEW r \in Requests, DropCancelled(r)
  PROVE  /\ LiveJobs' \subseteq LiveJobs
         /\ generation' = generation
         /\ NumbersAreUnique'
         /\ LiveJobsAreCounted'
<1> USE DEF DropCancelled
<1>1. LiveJobs' \subseteq LiveJobs /\ r \in LiveJobs
  BY DEF LiveJobs, Live, LiveStages, IInv, TypeOK
<1>2. activeCount # 0
  BY <1>1, LiveJobsFinite, EmptyByCount DEF IInv, TypeOK, LiveJobsAreCounted
<1>3. generation' = generation
  BY <1>2 DEF CleanedUp
<1>4. TypeOK'
  BY JobStepType DEF JobStep, IInv
<1>5. Numbered' \subseteq Numbered
  BY DEF Numbered, Live, LiveStages, IInv, TypeOK, requestVars
<1> QED
  BY <1>1, <1>3, <1>4, <1>5, NoNewJob DEF IInv, TypeOK

\* What a request's step does to the bookkeeping, all but schedule.
LEMMA RequestStepBooks ==
  ASSUME IInv, NEW r \in Requests, RequestStep(r), ~Schedule(r), ~StartScheduled(r)
  PROVE  LiveJobs' \subseteq LiveJobs /\ Numbered' \subseteq Numbered
         /\ gen' = gen /\ generation' >= generation /\ activeCount' = activeCount
<1> USE DEF IInv, TypeOK, vars, config, requestVars, jobVars, runnerVars, pinVars,
            rowVars, LiveJobs, Live, Numbered, RollBack, StoreFails, NextGeneration
<1>1. CASE ReadPin(r)          BY <1>1 DEF ReadPin
<1>2. CASE ResetConfidence(r)  BY <1>2 DEF ResetConfidence
<1>3. CASE EditFails(r)        BY <1>3 DEF EditFails
<1>4. CASE Cancel(r)           BY <1>4 DEF Cancel, CancelTrackedTasks
<1>5. CASE CancelFails(r)      BY <1>5 DEF CancelFails
<1>6. CASE CommitFails(r)      BY <1>6 DEF CommitFails
<1>7. CASE Commit(r)           BY <1>7 DEF Commit
<1>8. CASE ScheduleFails(r)    BY <1>8 DEF ScheduleFails
<1>9. CASE Respond(r)          BY <1>9 DEF Respond
<1>10. CASE ResponseFails(r)
       BY <1>10 DEF ResponseFails, LiveStages, PipelineStages
<1>11. CASE CancelTasks(r)     BY <1>11 DEF CancelTasks, CancelTrackedTasks
<1> QED
  BY <1>1, <1>2, <1>3, <1>4, <1>5, <1>6, <1>7, <1>8, <1>9, <1>10, <1>11
  DEF RequestStep

\* A job's step either leaves the books alone, or ends or drops the job.
LEMMA JobStepBooks ==
  ASSUME IInv, NEW r \in Requests, JobStep(r)
  PROVE  /\ Live(r) /\ gen' = gen /\ phase' = phase
         /\ \/ /\ LiveJobs' = LiveJobs /\ Numbered' = Numbered
               /\ UNCHANGED <<generation, activeCount, tasks, cancelled>>
            \/ End(r)
            \/ DropCancelled(r)
<1> USE DEF IInv, TypeOK, vars, config, requestVars, jobVars, runnerVars, pinVars,
            rowVars, LiveJobs, Live, LiveStages, PipelineStages, Runs, Numbered
<1>1. CASE PassCheck(r)
      BY <1>1 DEF PassCheck, StageAfterCheck, CheckedStages
<1>2. CASE LoadImages(r)     BY <1>2 DEF LoadImages
<1>3. CASE StaleSkip(r)      BY <1>3 DEF StaleSkip, End
<1>4. CASE CheckFails(r)     BY <1>4 DEF CheckFails, End
<1>5. CASE StageFails(r)     BY <1>5 DEF StageFails
<1>6. CASE Persist(r)        BY <1>6 DEF Persist, End
<1>7. CASE PersistFails(r)   BY <1>7 DEF PersistFails
<1>8. CASE Fallback(r)       BY <1>8 DEF Fallback, End
<1>9. CASE FallbackFails(r)  BY <1>9 DEF FallbackFails, End
<1>10. CASE StopCancelled(r) BY <1>10 DEF StopCancelled, End
<1>11. CASE DropCancelled(r) BY <1>11 DEF DropCancelled
<1> QED
  BY <1>1, <1>2, <1>3, <1>4, <1>5, <1>6, <1>7, <1>8, <1>9, <1>10, <1>11
  DEF JobStep

\* A crash leaves no live job, and no job with a number.
LEMMA CrashBooks == TypeOK /\ Crash => LiveJobs' = {} /\ Numbered' = {}
  BY DEF Crash, LiveJobs, Numbered, InFlight, Live, LiveStages, PipelineStages, TypeOK

\* A step of a request keeps jobs behind the commits of their edits.
LEMMA RequestStepFollows ==
  ASSUME IInv, NEW r \in Requests, RequestStep(r)
  PROVE  JobsFollowCommits'
<1> USE DEF IInv, TypeOK, JobsFollowCommits, vars, config, requestVars, jobVars,
            runnerVars, pinVars, rowVars, RollBack, StoreFails, CancelTrackedTasks,
            StartJob
<1>1. CASE ReadPin(r)          BY <1>1 DEF ReadPin
<1>2. CASE ResetConfidence(r)  BY <1>2 DEF ResetConfidence
<1>3. CASE EditFails(r)        BY <1>3 DEF EditFails
<1>4. CASE Cancel(r)           BY <1>4 DEF Cancel
<1>5. CASE CancelFails(r)      BY <1>5 DEF CancelFails
<1>6. CASE CommitFails(r)      BY <1>6 DEF CommitFails
<1>7. CASE Commit(r)           BY <1>7 DEF Commit
<1>8. CASE Schedule(r)         BY <1>8 DEF Schedule
<1>9. CASE ScheduleFails(r)    BY <1>9 DEF ScheduleFails
<1>10. CASE Respond(r)         BY <1>10 DEF Respond
<1>11. CASE ResponseFails(r)   BY <1>11 DEF ResponseFails
<1>12. CASE CancelTasks(r)     BY <1>12 DEF CancelTasks
<1>13. CASE StartScheduled(r)  BY <1>13 DEF StartScheduled
<1> QED
  BY <1>1, <1>2, <1>3, <1>4, <1>5, <1>6, <1>7, <1>8, <1>9, <1>10, <1>11, <1>12, <1>13
  DEF RequestStep

\* So does the end of a job.
LEMMA EndFollows ==
  ASSUME IInv, NEW r \in Requests, Live(r), End(r)
  PROVE  JobsFollowCommits'
  BY DEF IInv, TypeOK, JobsFollowCommits, End, Finish, config, requestVars, Live,
         LiveStages, PipelineStages

\* So does any step of a job.
LEMMA JobStepFollows ==
  ASSUME IInv, NEW r \in Requests, JobStep(r)
  PROVE  JobsFollowCommits'
<1> USE DEF IInv, TypeOK, JobsFollowCommits, vars, config, requestVars, jobVars,
            runnerVars, pinVars, rowVars, Runs, Live, LiveStages, PipelineStages
<1>1. CASE PassCheck(r)
      BY <1>1 DEF PassCheck, StageAfterCheck, CheckedStages
<1>2. CASE LoadImages(r)     BY <1>2 DEF LoadImages
<1>3. CASE StageFails(r)     BY <1>3 DEF StageFails
<1>4. CASE PersistFails(r)   BY <1>4 DEF PersistFails
<1>5. CASE DropCancelled(r)  BY <1>5 DEF DropCancelled
<1>6. CASE End(r)            BY <1>6, JobStepBooks, EndFollows
<1> QED
  BY <1>1, <1>2, <1>3, <1>4, <1>5, <1>6
  DEF JobStep, StaleSkip, CheckFails, Persist, Fallback, FallbackFails, StopCancelled

\* So does a crash.
LEMMA CrashFollows == IInv /\ Crash => JobsFollowCommits'
  BY DEF IInv, TypeOK, JobsFollowCommits, Crash, InFlight, Live, LiveStages,
         PipelineStages

\* The invariant holds at first.
LEMMA InitIInv == Init => IInv
<1> SUFFICES ASSUME Init PROVE IInv
  OBVIOUS
<1>1. LiveJobs = {} /\ Numbered = {}
  BY DEF Init, LiveJobs, Numbered, Live, LiveStages, PipelineStages
<1>2. Cardinality(LiveJobs) = 0
  BY <1>1, FS_EmptySet
<1> QED
  BY <1>1, <1>2, InitType
  DEF Init, IInv, JobsFollowCommits, NumbersAreUnique, LiveJobsAreCounted

\* Every step keeps the invariant.
LEMMA NextIInv == IInv /\ [Next]_vars => IInv'
<1> SUFFICES ASSUME IInv, [Next]_vars PROVE IInv'
  OBVIOUS
<1>0. TypeOK'
  BY NextType DEF IInv
<1>1. ASSUME NEW r \in Requests, RequestStep(r) PROVE IInv'
  <2>1. CASE Schedule(r)
    BY <1>0, <1>1, <2>1, ScheduleBooks, RequestStepFollows DEF IInv
  <2>2. CASE StartScheduled(r)
    BY <1>0, <1>1, <2>2, StartBooks, RequestStepFollows DEF IInv
  <2>3. CASE ~Schedule(r) /\ ~StartScheduled(r)
    BY <1>0, <1>1, <2>3, RequestStepBooks, RequestStepFollows, NoNewJob DEF IInv
  <2> QED
    BY <2>1, <2>2, <2>3
<1>2. ASSUME NEW r \in Requests, JobStep(r) PROVE IInv'
  <2>1. CASE End(r)
    BY <1>0, <1>2, <2>1, JobStepBooks, EndBooks, JobStepFollows DEF IInv
  <2>2. CASE DropCancelled(r)
    BY <1>0, <1>2, <2>2, DropBooks, JobStepFollows DEF IInv
  <2>3. CASE /\ LiveJobs' = LiveJobs /\ Numbered' = Numbered
             /\ UNCHANGED <<generation, activeCount>>
    BY <1>0, <1>2, <2>3, JobStepBooks, NoNewJob, JobStepFollows DEF IInv, TypeOK
  <2> QED
    BY <1>2, <2>1, <2>2, <2>3, JobStepBooks
<1>3. CASE Crash
  BY <1>0, <1>3, CrashBooks, CrashFollows, NoJobLeft DEF IInv
<1>4. CASE UNCHANGED vars
  <2>1. LiveJobs' = LiveJobs /\ Numbered' = Numbered
    BY <1>4 DEF vars, jobVars, requestVars, LiveJobs, Numbered, Live
  <2>2. JobsFollowCommits'
    BY <1>4 DEF vars, config, jobVars, requestVars, runnerVars, JobsFollowCommits, IInv
  <2> QED
    BY <1>0, <1>4, <2>1, <2>2, NoNewJob DEF vars, jobVars, runnerVars, IInv, TypeOK
<1> QED
  BY <1>1, <1>2, <1>3, <1>4 DEF Next

\* The invariant holds in every state.
LEMMA Invariance == Spec => []IInv
  BY InitIInv, NextIInv, PTL DEF Spec

\* The generation of a live job names it, in every deployment, under any fault
\* and for any number of edits: neither the clean-up of the local counter nor a
\* restart lets two live jobs hold the same one.
THEOREM GenerationsAreUnique == Spec => []GenerationsIdentifyJobs
<1>1. IInv => GenerationsIdentifyJobs
  BY NumbersIdentifyJobs DEF IInv
<1> QED
  BY <1>1, Invariance, PTL

\* No live job is missing from _ACTIVE_JOB_COUNT_BY_PIN.
THEOREM CountingIsComplete == Spec => []LiveJobsAreCounted
<1>1. IInv => LiveJobsAreCounted
  BY DEF IInv
<1> QED
  BY <1>1, Invariance, PTL

----------------------------------------------------------------------------
(* Superseded jobs.                                                        *)

StaysSuperseded ==
    \A r \in Requests :
        Live(r) /\ gen[r] # generation /\ stage[r] # "persist" =>
            /\ stage'[r] # "persist"
            /\ Live(r)' => gen'[r] # generation'

\* A superseded live job is behind the counter, so it stays so in every step
\* that does not lower the counter and does not give it a new generation.
LEMMA BehindStaysBehind ==
  ASSUME IInv, NEW r \in Requests, Live(r), gen[r] # generation,
         gen'[r] = gen[r], generation' >= generation, TypeOK'
  PROVE  gen'[r] # generation'
  BY NumbersIdentifyJobs DEF IInv, TypeOK, GenerationsIdentifyJobs, LiveJobs

\* A job that was superseded stays so when a request steps.
LEMMA SupersededByRequest ==
  ASSUME IInv, NEW q \in Requests, RequestStep(q)
  PROVE  StaysSuperseded
<1>0. TypeOK'
  BY RequestStepType DEF IInv
<1>1. CASE Schedule(q) \/ StartScheduled(q)
  <2>1. stage[q] = "none"
    BY <1>1 DEF Schedule, StartScheduled, IInv, JobsFollowCommits
  <2>2. \A r \in Requests : Live(r) => r # q
    BY <2>1 DEF Live, LiveStages, PipelineStages
  <2>3. \A r \in Requests \ {q} : gen'[r] = gen[r] /\ stage'[r] = stage[r]
    BY <1>1 DEF Schedule, StartScheduled, StartJob, IInv, TypeOK
  <2>4. generation' >= generation
    BY <1>1 DEF Schedule, StartScheduled, NextGeneration, IInv, TypeOK
  <2> QED
    BY <1>0, <2>2, <2>3, <2>4, BehindStaysBehind DEF StaysSuperseded
<1>2. CASE ~Schedule(q) /\ ~StartScheduled(q)
  <2>1. gen' = gen /\ generation' >= generation
    BY <1>2, RequestStepBooks
  <2>2. \A r \in Requests : stage'[r] = stage[r] \/ stage'[r] = "lost"
    BY <1>2
    DEF RequestStep, ReadPin, ResetConfidence, EditFails, Cancel, CancelTasks,
        CancelFails, CommitFails, Commit, ScheduleFails, Respond, ResponseFails,
        RollBack, StoreFails, jobVars, IInv, TypeOK
  <2> QED
    BY <1>0, <2>1, <2>2, BehindStaysBehind DEF StaysSuperseded
<1> QED
  BY <1>1, <1>2

\* And when a job does, itself or another.
LEMMA SupersededByJob ==
  ASSUME IInv, NEW q \in Requests, JobStep(q)
  PROVE  StaysSuperseded
<1>0. TypeOK'
  BY JobStepType DEF IInv
<1>1. gen' = gen /\ (generation' = generation \/ LiveJobs' = {})
  BY JobStepBooks, EndBooks, DropBooks
<1>2. \A r \in Requests : Live(r)' => r \in LiveJobs'
  BY DEF LiveJobs
<1>3. ASSUME NEW r \in Requests, gen[r] # generation, stage[r] # "persist"
      PROVE  stage'[r] # "persist"
  <2> USE <1>3 DEF IInv, TypeOK
  <2>1. CASE PassCheck(q)
    BY <2>1 DEF PassCheck, IsActive
  <2>2. CASE LoadImages(q)     BY <2>2 DEF LoadImages
  <2>3. CASE StageFails(q)     BY <2>3 DEF StageFails
  <2>4. CASE PersistFails(q)   BY <2>4 DEF PersistFails
  <2>5. CASE DropCancelled(q)  BY <2>5 DEF DropCancelled
  <2>6. CASE End(q)            BY <2>6 DEF End
  <2> QED
    BY <2>1, <2>2, <2>3, <2>4, <2>5, <2>6
    DEF JobStep, StaleSkip, CheckFails, Persist, Fallback, FallbackFails,
        StopCancelled
<1>4. generation' = generation => generation' >= generation
  BY DEF IInv, TypeOK
<1> QED
  BY <1>0, <1>1, <1>2, <1>3, <1>4, BehindStaysBehind DEF StaysSuperseded, IInv, TypeOK

\* Once the counter has passed a job that still has a check ahead, no step of
\* anyone, not even a restart, lets it write a score.
THEOREM SupersededStaysSuperseded == Spec => SupersededNeverPersists
<1>1. IInv /\ Next => StaysSuperseded
  <2>1. IInv /\ Crash => StaysSuperseded
    BY DEF Crash, StaysSuperseded, Live, LiveStages, PipelineStages, IInv, TypeOK
  <2> QED
    BY <2>1, SupersededByRequest, SupersededByJob DEF Next
<1>2. IInv /\ [Next]_vars => [StaysSuperseded]_vars
  BY <1>1
<1>3. [StaysSuperseded]_vars <=>
      [\A r \in Requests :
         Live(r) /\ gen[r] # generation /\ stage[r] # "persist" =>
            /\ stage'[r] # "persist"
            /\ Live(r)' => gen'[r] # generation']_vars
  BY DEF StaysSuperseded
<1> QED
  BY <1>2, <1>3, Invariance, PTL DEF Spec, SupersededNeverPersists

----------------------------------------------------------------------------
(* Without faults the pending row has an owner.                            *)

\* At first no pin waits for a score.
LEMMA InitPending == Init => PendingHasOwner
  BY RequestsAssumption DEF Init, PendingHasOwner, OwingRequests

\* A step of a request: who owes stays, or the request that bumps the counter
\* owes itself.
LEMMA PendingByRequest ==
  ASSUME Faults = {}, IInv, PendingHasOwner, NEW r \in Requests, RequestStep(r)
  PROVE  PendingHasOwner'
<1> USE DEF IInv, TypeOK, PendingHasOwner, OwingRequests, OwingJobs, LiveJobs, Live,
            vars, config, requestVars, jobVars, runnerVars, pinVars, rowVars,
            RollBack
<1>1. CASE ReadPin(r)          BY <1>1 DEF ReadPin
<1>2. CASE ResetConfidence(r)  BY <1>2 DEF ResetConfidence
<1>3. CASE EditFails(r)        BY <1>3 DEF EditFails
<1>4. CASE Cancel(r) \/ CancelTasks(r) \/ Commit(r)
  <2>1. r \in OwingRequests'
    BY <1>4 DEF Cancel, CancelTasks, CancelTrackedTasks, Commit
  <2> QED
    BY <2>1
<1>5. CASE Schedule(r) /\ store = "redis"
  <2>1. r \in OwingRequests'
    BY <1>5 DEF Schedule, JobGeneration, NextGeneration
  <2> QED
    BY <2>1
<1>6. CASE Schedule(r) /\ store = "local"
  <2>1. r \notin cancelled
    BY <1>6 DEF Schedule, JobsFollowCommits
  <2>2. r \in OwingJobs'
    BY <1>6, <2>1 DEF Schedule, StartJob, JobGeneration, NextGeneration, LiveStages
  <2> QED
    BY <2>2
<1>7. CASE StartScheduled(r)
  <2>1. r \notin cancelled
    BY <1>7 DEF StartScheduled, JobsFollowCommits
  <2>2. gen[r] = generation => r \in OwingJobs'
    BY <1>7, <2>1 DEF StartScheduled, StartJob, LiveStages
  <2>3. OwingRequests \ {r} \subseteq OwingRequests'
    <3>1. \A q \in Requests \ {r} : phase'[q] = phase[q]
      BY <1>7 DEF StartScheduled, StartJob
    <3> QED
      BY <1>7, <3>1 DEF StartScheduled
  <2>4. OwingJobs \subseteq OwingJobs'
    <3>1. r \notin LiveJobs
      BY <1>7 DEF StartScheduled, JobsFollowCommits, LiveStages, PipelineStages
    <3>2. \A q \in LiveJobs : stage'[q] = stage[q]
      BY <1>7, <3>1 DEF StartScheduled, StartJob
    <3> QED
      BY <1>7, <3>2 DEF StartScheduled
  <2>5. gen[r] # generation => r \notin OwingRequests
    BY <1>7 DEF StartScheduled
  <2> QED
    BY <1>7, <2>2, <2>3, <2>4, <2>5 DEF StartScheduled
<1>8. CASE Respond(r)          BY <1>8 DEF Respond
<1> QED
  BY <1>1, <1>2, <1>3, <1>4, <1>5, <1>6, <1>7, <1>8
  DEF RequestStep, CancelFails, CommitFails, ScheduleFails, ResponseFails, StoreFails

\* A step of a job: the job that ends has written, or was not owing.
LEMMA PendingByJob ==
  ASSUME Faults = {}, IInv, PendingHasOwner, NEW r \in Requests, JobStep(r)
  PROVE  PendingHasOwner'
<1> USE DEF IInv, TypeOK, PendingHasOwner, OwingRequests, OwingJobs,
            vars, config, requestVars, jobVars, runnerVars, pinVars, rowVars
<1>1. CASE PassCheck(r)
      BY <1>1 DEF PassCheck, StageAfterCheck, CheckedStages, LiveStages,
                  PipelineStages, LiveJobs, Live
<1>2. CASE LoadImages(r)
      BY <1>2 DEF LoadImages, LiveStages, PipelineStages, LiveJobs, Live
<1>3. CASE StageFails(r)
      BY <1>3 DEF StageFails, LiveStages, PipelineStages, LiveJobs, Live
<1>4. CASE PersistFails(r)
      BY <1>4 DEF PersistFails, LiveStages, PipelineStages, WriteRow, LiveJobs, Live
<1>5. CASE Persist(r)   BY <1>5 DEF Persist, WriteRow
<1>6. CASE Fallback(r)  BY <1>6 DEF Fallback, WriteRow
<1>7. ASSUME End(r), UNCHANGED rowVars, r \notin OwingJobs PROVE PendingHasOwner'
  <2>1. /\ LiveJobs' = LiveJobs \ {r}
        /\ \/ generation' = generation
           \/ LiveJobs' = {} /\ Numbered' = {} /\ store = "local"
    BY <1>7, JobStepBooks, EndBooks
  <2>2. UNCHANGED <<phase, cancelled, gen>> /\ \A q \in Requests \ {r} : stage'[q] = stage[q]
    BY <1>7 DEF End, Finish
  <2>3. \A q \in OwingJobs : q \in LiveJobs' /\ q \in OwingJobs'
    BY <1>7, <2>1, <2>2 DEF LiveJobs
  <2>4. OwingRequests' = OwingRequests
    BY <2>1, <2>2 DEF JobsFollowCommits
  <2> QED
    BY <1>7, <2>3, <2>4
<1>8. CASE StaleSkip(r)
  BY <1>7, <1>8 DEF StaleSkip, IsActive, CheckedStages
<1>9. CASE StopCancelled(r)
  BY <1>7, <1>9 DEF StopCancelled
<1>10. CASE DropCancelled(r)
  <2>1. generation' = generation
    BY <1>10, DropBooks
  <2>2. r \notin OwingJobs
    BY <1>10 DEF DropCancelled
  <2>3. \A q \in OwingJobs : q \in OwingJobs'
    BY <1>10, <2>1, <2>2 DEF DropCancelled, LiveJobs, Live
  <2>4. OwingRequests' = OwingRequests
    BY <1>10, <2>1 DEF DropCancelled
  <2> QED
    BY <1>10, <2>3, <2>4 DEF DropCancelled
<1> QED
  BY <1>1, <1>2, <1>3, <1>4, <1>5, <1>6, <1>8, <1>9, <1>10
  DEF JobStep, CheckFails, FallbackFails

\* Without faults, and for any number of overlapping edits, a pin never shows
\* "pending" with nobody left to score it.
THEOREM PendingIsOwned == ASSUME Faults = {} PROVE Spec => []PendingHasOwner
<1>1. IInv /\ PendingHasOwner /\ [Next]_vars => PendingHasOwner'
  <2>1. PendingHasOwner /\ UNCHANGED vars => PendingHasOwner'
    BY DEF PendingHasOwner, OwingRequests, OwingJobs, LiveJobs, Live, vars,
           requestVars, jobVars, runnerVars, rowVars
  <2>2. ~Crash
    BY DEF Crash
  <2> QED
    BY <2>1, <2>2, PendingByRequest, PendingByJob DEF Next
<1> QED
  BY <1>1, InitPending, Invariance, PTL DEF Spec

----------------------------------------------------------------------------
(* Without faults the current job has read the current images.             *)

\* At first there is no job that could have read old images.
LEMMA InitImages == Init => CurrentJobReadCurrentImages
  BY DEF Init, CurrentJobReadCurrentImages, LiveJobs, Live, LiveStages,
         PipelineStages

\* A request's step changes the images while it owes, and stops owing by making
\* every job but its own a superseded one.
LEMMA ImagesByRequest ==
  ASSUME Faults = {}, IInv, CurrentJobReadCurrentImages,
         NEW r \in Requests, RequestStep(r)
  PROVE  CurrentJobReadCurrentImages'
<1> USE DEF IInv, TypeOK, CurrentJobReadCurrentImages, OwingRequests, LiveJobs, Live,
            vars, config, requestVars, jobVars, runnerVars, pinVars, rowVars,
            RollBack
<1>1. CASE ReadPin(r)          BY <1>1 DEF ReadPin
<1>2. CASE ResetConfidence(r)  BY <1>2 DEF ResetConfidence
<1>3. CASE EditFails(r)        BY <1>3 DEF EditFails
<1>4. CASE Cancel(r) \/ CancelTasks(r) \/ Commit(r)
  <2>1. r \in OwingRequests'
    BY <1>4 DEF Cancel, CancelTasks, CancelTrackedTasks, Commit
  <2> QED
    BY <2>1
<1>5. CASE Schedule(r) /\ store = "redis"
  <2>1. r \in OwingRequests'
    BY <1>5 DEF Schedule, JobGeneration, NextGeneration
  <2> QED
    BY <2>1
<1>6. CASE Schedule(r) /\ store = "local"
  <2>1. stage'[r] = "queued" /\ generation' = generation + 1
    BY <1>6 DEF Schedule, StartJob, NextGeneration
  <2>2. \A q \in LiveJobs' \ {r} : q \in LiveJobs /\ gen'[q] = gen[q]
    BY <1>6 DEF Schedule, StartJob
  <2>3. \A q \in LiveJobs' \ {r} : gen'[q] # generation'
    BY <2>1, <2>2, NumbersIdentifyJobs DEF GenerationsIdentifyJobs
  <2> QED
    BY <2>1, <2>3
<1>7. CASE StartScheduled(r)
  <2>1. stage'[r] = "queued" /\ UNCHANGED <<generation, gen, jobImages, pinImages>>
    BY <1>7 DEF StartScheduled, StartJob
  <2>2. \A q \in LiveJobs' \ {r} : q \in LiveJobs /\ stage'[q] = stage[q] /\ q # r
    BY <1>7 DEF StartScheduled, StartJob
  <2>3. CASE gen[r] = generation
    <3>1. r \in Numbered /\ LiveJobs \subseteq Numbered
      BY <1>7 DEF StartScheduled, Numbered
    <3>2. \A q \in LiveJobs' \ {r} : gen'[q] # generation'
      BY <2>1, <2>2, <2>3, <3>1 DEF NumbersAreUnique
    <3> QED
      BY <2>1, <3>2
  <2>4. CASE gen[r] # generation
    <3>1. OwingRequests' = OwingRequests
      BY <1>7, <2>4 DEF StartScheduled, StartJob
    <3> QED
      BY <2>1, <2>2, <2>4, <3>1
  <2> QED
    BY <2>3, <2>4
<1>8. CASE Respond(r)          BY <1>8 DEF Respond
<1> QED
  BY <1>1, <1>2, <1>3, <1>4, <1>5, <1>6, <1>7, <1>8
  DEF RequestStep, CancelFails, CommitFails, ScheduleFails, ResponseFails, StoreFails

\* A step of a job leaves the current one with the current images.
LEMMA ImagesByJob ==
  ASSUME IInv, CurrentJobReadCurrentImages, NEW r \in Requests, JobStep(r)
  PROVE  CurrentJobReadCurrentImages'
<1> USE DEF IInv, TypeOK, CurrentJobReadCurrentImages, OwingRequests, vars, config,
            requestVars, jobVars, runnerVars, pinVars, rowVars
<1>1. CASE PassCheck(r)
      BY <1>1 DEF PassCheck, StageAfterCheck, CheckedStages, LiveStages,
                  PipelineStages, LiveJobs, Live
<1>2. CASE LoadImages(r)
      BY <1>2 DEF LoadImages, LiveStages, PipelineStages, LiveJobs, Live
<1>3. CASE StageFails(r)
      BY <1>3 DEF StageFails, LiveStages, PipelineStages, LiveJobs, Live
<1>4. CASE PersistFails(r)
      BY <1>4 DEF PersistFails, LiveStages, PipelineStages, LiveJobs, Live
<1>5. CASE End(r)
  <2>1. /\ LiveJobs' = LiveJobs \ {r}
        /\ generation' = generation \/ LiveJobs' = {}
    BY <1>5, JobStepBooks, EndBooks
  <2>2. UNCHANGED <<phase, gen, jobImages, pinImages>>
        /\ \A q \in Requests \ {r} : stage'[q] = stage[q]
    BY <1>5 DEF End
  <2> QED
    BY <2>1, <2>2 DEF LiveJobs
<1>6. CASE DropCancelled(r)
  <2>1. generation' = generation /\ LiveJobs' \subseteq LiveJobs
    BY <1>6, DropBooks
  <2>2. UNCHANGED <<phase, gen, jobImages, pinImages>>
        /\ \A q \in Requests \ {r} : stage'[q] = stage[q]
    BY <1>6 DEF DropCancelled
  <2>3. r \notin LiveJobs'
    BY <1>6 DEF DropCancelled, LiveJobs, Live, LiveStages, PipelineStages
  <2> QED
    BY <2>1, <2>2, <2>3 DEF LiveJobs
<1> QED
  BY <1>1, <1>2, <1>3, <1>4, <1>5, <1>6
  DEF JobStep, StaleSkip, CheckFails, Persist, Fallback, FallbackFails, StopCancelled

\* Without faults, the job that is allowed to score has looked at the images
\* that are committed, for any number of overlapping edits.
THEOREM CurrentImagesAreRead ==
  ASSUME Faults = {} PROVE Spec => []CurrentJobReadCurrentImages
<1>1. IInv /\ CurrentJobReadCurrentImages /\ [Next]_vars
      => CurrentJobReadCurrentImages'
  <2>1. CurrentJobReadCurrentImages /\ UNCHANGED vars => CurrentJobReadCurrentImages'
    BY DEF CurrentJobReadCurrentImages, OwingRequests, LiveJobs, Live, vars,
           requestVars, jobVars, runnerVars, pinVars
  <2>2. ~Crash
    BY DEF Crash
  <2> QED
    BY <2>1, <2>2, ImagesByRequest, ImagesByJob DEF Next
<1> QED
  BY <1>1, InitImages, Invariance, PTL DEF Spec
=============================================================================
