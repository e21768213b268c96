----------------------------- MODULE Schedules -----------------------------
(***************************************************************************)
(* When the schedulers run (ComplaintPetitionSchedulerService,             *)
(* PolicyPinSchedulerService, ContestPinSchedulerService), and which days  *)
(* of the policy news the syncs look at (PolicyPinService,                 *)
(* fetch_policy_news).  A loop sleeps until its hour, every day; the       *)
(* policy sync is skipped unless the last one ended long enough ago.       *)
(*                                                                         *)
(* Time is in hours, in KST, and day d begins at hour 24 * d.  Times of    *)
(* wake-ups are exact, or an hour early.                                   *)
(***************************************************************************)
EXTENDS Integers, FiniteSets, FiniteSetsExt

CONSTANTS
    Others,         \* the schedulers that run every day: complaint, contest
    Policy,
    Hour,           \* Hour[s]: the hour at which s runs
    IntervalDays,   \* policy_sync_interval_days
    LookbackDays,   \* policy_sync_lookback_days
    Behind,         \* by how many hours the clock of the server's host is behind KST
    FirstDay,       \* the server is first started on this day
    LastDay,        \* bound: time ends
    MaxTroubles,    \* bound: whatever is out of the ordinary
    Never

Loops == Others \cup {Policy}
ChunkDays == 3  \* iter_date_chunks: max_days

ASSUME ScheduleAssumption ==
    /\ Policy \notin Others
    /\ Hour \in [Loops -> 0..23]
    /\ IntervalDays \in Nat \ {0} /\ LookbackDays \in Nat \ {0}
    /\ Behind \in 0..23
    /\ FirstDay \in Nat /\ LastDay \in Nat /\ MaxTroubles \in Nat
    /\ Never \notin Nat

VARIABLES
    now,
    loop,       \* loop[s]: "off", "asleep", or what it does: "search", "rest"
    wake,       \* wake[s]: the hour it sleeps until
    began,      \* when the policy sync began
    lastSync,   \* last_sync_at, or Never
    \* what really happened
    asked,      \* the days a request that was answered asked for
    fetched,    \* those of them that were over, so that all their news were fetched
    disturbed,  \* a search failed or was missed, a sync took too long, or was made by hand
    troubles    \* how many troubles there were

scheduleVars == <<now, loop, wake, began, lastSync, asked, fetched, disturbed, troubles>>

ScheduleInit ==
    /\ now \in (24 * FirstDay)..(24 * FirstDay + 23)
    /\ loop = [s \in Loops |-> "off"]
    /\ wake = [s \in Loops |-> 0]
    /\ began = Never /\ lastSync = Never
    /\ asked = {} /\ fetched = {} /\ disturbed = FALSE /\ troubles = 0

Trouble == troubles < MaxTroubles /\ troubles' = troubles + 1

\* _seconds_until_next_schedule_kst: the next time it is this hour, never now.
NextRun(s) ==
    LET today == 24 * (now \div 24) + Hour[s]
    IN IF now >= today THEN today + 24 ELSE today

\* a variant: the interval is measured exactly
DueExactly == lastSync = Never \/ now - lastSync >= 24 * IntervalDays

\* _should_run_sync
Due == lastSync = Never \/ now - lastSync >= 24 * IntervalDays - 1

\* default_date_range, by the date of the server's host.
Window(time) ==
    LET today == (time - Behind) \div 24
    IN (today - LookbackDays + 1)..today

\* iter_date_chunks: what one request to the news service may ask for.
Chunks(days) ==
    {{d \in days : d >= first /\ d < first + ChunkDays} :
        first \in {d \in days : (d - Min(days)) % ChunkDays = 0}}

\* Of the days asked for at a time, those that are over: of others news may still come.
Over(days, time) == {d \in days : 24 * (d + 1) <= time}
-----------------------------------------------------------------------------
Running == loop[Policy] \in {"search", "rest"}

\* The hour of a sync that is due, and nobody there.
Missed == loop[Policy] = "off" /\ asked # {} /\ now % 24 = Hour[Policy] /\ Due

\* start(): at the start of the server
StartLoops ==
    /\ \A s \in Loops : loop[s] = "off"
    /\ loop' = [s \in Loops |-> "asleep"]
    /\ wake' = [s \in Loops |-> NextRun(s)]
    /\ disturbed' = (disturbed \/ Missed)
    /\ UNCHANGED <<now, began, lastSync, asked, fetched, troubles>>

\* stop(), or the death of the server: what a sync has not written is lost.
StopLoops ==
    /\ \E s \in Loops : loop[s] # "off"
    /\ Trouble
    /\ loop' = [s \in Loops |-> "off"]
    /\ began' = Never
    /\ disturbed' = (disturbed \/ loop[Policy] = "search")
    /\ UNCHANGED <<now, wake, lastSync, asked, fetched>>

\* A loop that only runs once a day does so, and sleeps again.
WakeOther(s) ==
    /\ loop[s] = "asleep" /\ now = wake[s]
    /\ wake' = [wake EXCEPT ![s] = NextRun(s)]
    /\ UNCHANGED <<now, loop, began, lastSync, asked, fetched, disturbed, troubles>>

\* The policy loop wakes, at its hour or early: it syncs, or sleeps until the next day.
WakePolicy ==
    /\ loop[Policy] = "asleep"
    /\ \/ now = wake[Policy] /\ UNCHANGED troubles
       \/ now = wake[Policy] - 1 /\ Trouble
    /\ IF Due
       THEN /\ loop' = [loop EXCEPT ![Policy] = "search"]
            /\ began' = now
            /\ UNCHANGED wake
       ELSE /\ wake' = [wake EXCEPT ![Policy] = NextRun(Policy)]
            /\ UNCHANGED <<loop, began>>
    /\ UNCHANGED <<now, lastSync, asked, fetched, disturbed>>

\* search_and_save: a request that fails is counted, and passed over.
Search ==
    /\ loop[Policy] = "search"
    /\ \E failed \in SUBSET Chunks(Window(began)) :
         /\ IF failed = {} THEN UNCHANGED troubles ELSE Trouble
         /\ asked' = asked \cup UNION (Chunks(Window(began)) \ failed)
         /\ fetched' = fetched \cup UNION {Over(c, began) : c \in Chunks(Window(began)) \ failed}
         /\ disturbed' = (disturbed \/ failed # {})
    /\ loop' = [loop EXCEPT ![Policy] = "rest"]
    /\ UNCHANGED <<now, wake, began, lastSync>>

\* The sync ends: only now is its time written.
SyncEnds ==
    /\ loop[Policy] = "rest"
    /\ lastSync' = now
    /\ began' = Never
    /\ loop' = [loop EXCEPT ![Policy] = "asleep"]
    /\ wake' = [wake EXCEPT ![Policy] = NextRun(Policy)]
    /\ UNCHANGED <<now, asked, fetched, disturbed, troubles>>

\* It raises somewhere, and is tried again the next day.
SyncFails ==
    /\ Running
    /\ Trouble
    /\ disturbed' = (disturbed \/ loop[Policy] = "search")
    /\ began' = Never
    /\ loop' = [loop EXCEPT ![Policy] = "asleep"]
    /\ wake' = [wake EXCEPT ![Policy] = NextRun(Policy)]
    /\ UNCHANGED <<now, lastSync, asked, fetched>>

\* POST /policy-admin/sync: no interval is looked at, the time is written all the same.
SyncByHand ==
    /\ Trouble
    /\ asked' = asked \cup Window(now)
    /\ fetched' = fetched \cup Over(Window(now), now)
    /\ lastSync' = now
    /\ disturbed' = TRUE
    /\ UNCHANGED <<now, loop, wake, began>>

\* An hour passes, in which no loop oversleeps; a sync may run on for more than one, and
\* the server may be off at the hour of a sync that is due.
Tick ==
    /\ now < 24 * LastDay
    /\ \A s \in Loops : loop[s] = "asleep" => now < wake[s]
    /\ now' = now + 1
    /\ IF Running /\ now > began THEN Trouble ELSE UNCHANGED troubles
    /\ disturbed' = (disturbed \/ Missed \/ (Running /\ now > began))
    /\ UNCHANGED <<loop, wake, began, lastSync, asked, fetched>>
-----------------------------------------------------------------------------
ScheduleNext ==
    \/ StartLoops \/ StopLoops \/ WakePolicy \/ Search \/ SyncEnds \/ SyncFails \/ SyncByHand \/ Tick
    \/ \E s \in Others : WakeOther(s)

ScheduleSpec == ScheduleInit /\ [][ScheduleNext]_scheduleVars
-----------------------------------------------------------------------------
ScheduleTypeOK ==
    /\ now \in Nat
    /\ loop \in [Loops -> {"off", "asleep", "search", "rest"}]
    /\ wake \in [Loops -> Nat]
    /\ began \in Nat \cup {Never}
    /\ Running <=> began # Never
    /\ lastSync \in Nat \cup {Never}
    /\ asked \subseteq Int /\ fetched \subseteq asked
    /\ \A d \in fetched : 24 * (d + 1) <= now
    /\ disturbed \in BOOLEAN /\ troubles \in 0..MaxTroubles

\* The windows of the syncs leave no day between them: once the news were asked for, every
\* later day is asked for within the interval of its end.  No wake-up slips by a day
\* because the sync before took its time.  It takes syncs that find the news service, and
\* one of at most an hour; restarts, early wake-ups and failures after the search do no harm.
SteadySyncsAskForEveryDay ==
    ~ disturbed /\ asked # {} =>
        \A d \in FirstDay..LastDay :
            d >= Min(asked) /\ now > 24 * (d + IntervalDays) + Hour[Policy] + 1 => d \in asked

\* As the settings and the route read, every sync collects the news of the last days, today
\* included, that is, of all the days since the sync before: so every day's news are fetched,
\* all of them, within the interval of its end.
SteadySyncsMissNoDay ==
    ~ disturbed /\ fetched # {} =>
        \A d \in FirstDay..LastDay :
            d >= Min(fetched) /\ now > 24 * (d + IntervalDays) + Hour[Policy] + 1 => d \in fetched
=============================================================================
