--------------------------- MODULE DailyRateLimit ---------------------------
(***************************************************************************)
(* The daily limit on successful AI drafts, posts and edits:               *)
(* IssuePinDailyRateLimitService and the order in which IssueService calls *)
(* it.  A call asks whether its quota is used up, does its work, and       *)
(* records its success with a Lua script in Redis.  Each pair of a kind    *)
(* and a subject (uid or pin_id) has keys of its own, so one pair is       *)
(* enough; its keys differ in the KST date.                                *)
(*                                                                         *)
(* Left out: the quota shown to the client, which is only read, and the    *)
(* expiry of a key, an hour after its day is over, when no call that       *)
(* computed it is still under way.                                         *)
(***************************************************************************)
EXTENDS Naturals, FiniteSets

CONSTANTS
    Calls,        \* the API calls of one kind for one subject
    Limit,        \* daily_limit
    MaxInFlight,  \* how many of the calls are handled at once
    MaxDay,       \* the last day considered
    MaxSends,     \* how often the Redis client sends a command that gets no reply
    Faults        \* the faults that may happen, a subset of FaultKinds

FaultKinds == {"read", "record", "crash"}

ASSUME CallsAssumption == IsFiniteSet(Calls)
ASSUME LimitAssumption ==
    /\ Limit \in Nat \ {0}
    /\ MaxInFlight \in Nat \ {0}
    /\ MaxDay \in Nat \ {0}
    /\ MaxSends \in Nat \ {0}
    /\ Faults \subseteq FaultKinds

Days == 1 .. MaxDay

VARIABLES
    day,      \* the KST date
    count,    \* what Redis holds under each date (absent: 0)
    progress, \* how far each call is
    askDay,   \* the date in the key a call checks (0: none yet)
    recDay,   \* the date in the key a call records under (0: none yet)
    faulty    \* the dates under which Redis failed a call, or a call died

vars == <<day, count, progress, askDay, recDay, faulty>>

InFlightSteps == {"asking", "admitted", "worked", "recording"}
Steps == InFlightSteps \cup {"idle", "refused", "failed", "done", "lost"}

InFlight == {c \in Calls : progress[c] \in InFlightSteps}

Init ==
    /\ day = 1
    /\ count = [d \in Days |-> 0]
    /\ progress = [c \in Calls |-> "idle"]
    /\ askDay = [c \in Calls |-> 0]
    /\ recDay = [c \in Calls |-> 0]
    /\ faulty = {}

----------------------------------------------------------------------------
(* The definitions called variants are slips the code could have made, kept *)
(* to see that a property notices them.                                     *)

\* assert_daily_quota_available: is the quota used up?  The variant lets one
\* call too many through.
BeyondLimit(n) == n > Limit
AtLimit(n) == n >= Limit

\* The Lua script: the counter after it.  The variant increments without
\* looking at the limit.
CountedWithoutLimit(n, times) == n + times
Counted(n, times) == IF n + times >= Limit THEN Limit ELSE n + times

\* assert_daily_quota_available: the key is computed, then Redis is asked.
AskQuota(c) ==
    /\ progress[c] = "idle"
    /\ Cardinality(InFlight) < MaxInFlight
    /\ progress' = [progress EXCEPT ![c] = "asking"]
    /\ askDay' = [askDay EXCEPT ![c] = day]
    /\ UNCHANGED <<day, count, recDay, faulty>>

\* The answer.  At the limit the call ends with 429.
Admit(c) ==
    /\ progress[c] = "asking"
    /\ progress' = [progress EXCEPT
                  ![c] = IF AtLimit(count[askDay[c]]) THEN "refused" ELSE "admitted"]
    /\ UNCHANGED <<day, count, askDay, recDay, faulty>>

\* Redis cannot be read: the check is skipped.
AdmitUnchecked(c) ==
    /\ "read" \in Faults
    /\ progress[c] = "asking"
    /\ progress' = [progress EXCEPT ![c] = "admitted"]
    /\ faulty' = faulty \cup {askDay[c]}
    /\ UNCHANGED <<day, count, askDay, recDay>>

\* The LLM answers, or the commit succeeds.
Succeed(c) ==
    /\ progress[c] = "admitted"
    /\ progress' = [progress EXCEPT ![c] = "worked"]
    /\ UNCHANGED <<day, count, askDay, recDay, faulty>>

\* Validation, LLM, upload or commit fails: nothing is recorded.
Fail(c) ==
    /\ progress[c] = "admitted"
    /\ progress' = [progress EXCEPT ![c] = "failed"]
    /\ UNCHANGED <<day, count, askDay, recDay, faulty>>

\* record_daily_quota_success: the key is computed anew, with the date of now.
BeginRecord(c) ==
    /\ progress[c] = "worked"
    /\ progress' = [progress EXCEPT ![c] = "recording"]
    /\ recDay' = [recDay EXCEPT ![c] = day]
    /\ UNCHANGED <<day, count, askDay, faulty>>

\* The script runs, in one step of Redis.
Record(c) ==
    /\ progress[c] = "recording"
    /\ progress' = [progress EXCEPT ![c] = "done"]
    /\ count' = [count EXCEPT ![recDay[c]] = Counted(@, 1)]
    /\ UNCHANGED <<day, askDay, recDay, faulty>>

\* Connections break: the client sends the script again, up to MaxSends times,
\* and each time it may or may not have run.  What is raised in the end is
\* logged and ignored.
RecordUnreliably(c) ==
    /\ "record" \in Faults
    /\ progress[c] = "recording"
    /\ progress' = [progress EXCEPT ![c] = "done"]
    /\ \E times \in 0 .. MaxSends :
         count' = [count EXCEPT ![recDay[c]] = Counted(@, times)]
    /\ faulty' = faulty \cup {recDay[c]}
    /\ UNCHANGED <<day, askDay, recDay>>

Midnight ==
    /\ day < MaxDay
    /\ day' = day + 1
    /\ UNCHANGED <<count, progress, askDay, recDay, faulty>>

\* The process dies: what succeeded and was not recorded stays unrecorded.
Crash ==
    /\ "crash" \in Faults
    /\ progress' = [c \in Calls |-> IF c \in InFlight THEN "lost" ELSE progress[c]]
    /\ faulty' = faulty \cup {day}
                        \cup {recDay[c] : c \in {q \in Calls : progress[q] = "recording"}}
    /\ UNCHANGED <<day, count, askDay, recDay>>

CallStep(c) ==
    \/ AskQuota(c)
    \/ Admit(c)
    \/ AdmitUnchecked(c)
    \/ Succeed(c)
    \/ Fail(c)
    \/ BeginRecord(c)
    \/ Record(c)
    \/ RecordUnreliably(c)

Next ==
    \/ \E c \in Calls : CallStep(c)
    \/ Midnight
    \/ Crash

Spec == Init /\ [][Next]_vars

----------------------------------------------------------------------------
(* Correctness.                                                            *)

\* The counter of a day never exceeds the limit, whatever the faults; and no
\* call checks or records under a day still to come.
TypeOK ==
    /\ day \in Days
    /\ count \in [Days -> 0 .. Limit]
    /\ progress \in [Calls -> Steps]
    /\ askDay \in [Calls -> 0 .. day]
    /\ recDay \in [Calls -> 0 .. day]
    /\ faulty \subseteq Days

\* The successes charged to a day, and those among them the script has counted.
Charged(d) == {c \in Calls : recDay[c] = d}
Recorded(d) == {c \in Charged(d) : progress[c] = "done"}

CleanDays == Days \ faulty

\* On a day without faults every success is counted once, up to the limit, in
\* whatever order checks, work and records of concurrent calls fall.
CleanDayCountIsExact ==
    \A d \in CleanDays :
        count[d] = IF Cardinality(Recorded(d)) >= Limit
                   THEN Limit ELSE Cardinality(Recorded(d))

\* The check and the record are two steps, so concurrent calls can exceed the
\* limit; but only by the calls that were under way together, on this day or
\* since the day before.
OvershootIsBounded ==
    \A d \in CleanDays :
        Cardinality(Charged(d)) <= Limit + MaxInFlight - 1

\* Nobody is refused before Limit successes were charged to the day of the
\* refusal: failures are not counted, nor are successes of another day.
RefusedOnlyAtLimit ==
    \A c \in Calls :
        progress[c] = "refused" /\ askDay[c] \in CleanDays =>
            Cardinality(Recorded(askDay[c])) >= Limit

\* What the quota promises, DailyQuota: the calls charged and refused, the counter, and
\* the days on which a fault may have made a difference.  The check and the record are two
\* steps, so the calls handled together exceed the limit, by all of them but one.
Quota == INSTANCE DailyQuota WITH
    Callers <- Calls,
    Slack <- MaxInFlight - 1,
    today <- day,
    charged <- {c \in Calls : recDay[c] # 0},
    charges <- [d \in Days |-> Cardinality(Charged(d))],
    counter <- count,
    refused <- {<<c, askDay[c]>> : c \in {q \in Calls : progress[q] = "refused"}},
    disturbed <- faulty

\* However checks, records and midnight interleave and whatever fails or is sent again,
\* the service does nothing that a quota of this kind would not.
ImplementsDailyQuota == Quota!QuotaSpec
=============================================================================
