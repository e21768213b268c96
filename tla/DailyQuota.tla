----------------------------- MODULE DailyQuota -----------------------------
(***************************************************************************)
(* What a daily quota promises, which DailyRateLimit is shown to keep:     *)
(* successes are charged to the day, and on a day that nothing disturbs,   *)
(* no call is refused before Limit successes were charged to it, and no    *)
(* success is charged once Limit + Slack have been.  The counter that      *)
(* decides this never falls and never passes Limit, whatever is disturbed. *)
(* How a success is counted, and how long it takes, is left open.          *)
(***************************************************************************)
EXTENDS Naturals

CONSTANTS
    Callers,
    Limit,
    Slack,      \* how many successes may come after the one that reaches the limit
    MaxDay

Days == 1..MaxDay

VARIABLES
    today,
    charged,    \* the calls that succeeded
    charges,    \* how many of them each day has
    counter,    \* how many of these are known, up to Limit
    refused,    \* <<call, day>>: who was refused for which day
    disturbed   \* days on which something went wrong

quotaVars == <<today, charged, charges, counter, refused, disturbed>>

QuotaInit ==
    /\ today = 1
    /\ charged = {}
    /\ charges = [d \in Days |-> 0]
    /\ counter = [d \in Days |-> 0]
    /\ refused = {}
    /\ disturbed = {}

\* A call ends once: it is charged to one day or refused.
Open(c) == c \notin charged /\ \A d \in Days : <<c, d>> \notin refused

Charge(c) ==
    /\ Open(c)
    /\ today \notin disturbed => charges[today] < Limit + Slack
    /\ charged' = charged \cup {c}
    /\ charges' = [charges EXCEPT ![today] = @ + 1]
    /\ UNCHANGED <<today, counter, refused, disturbed>>

Refuse(c, d) ==
    /\ Open(c)
    /\ d <= today
    /\ d \notin disturbed => charges[d] >= Limit
    /\ refused' = refused \cup {<<c, d>>}
    /\ UNCHANGED <<today, charged, charges, counter, disturbed>>

\* A success that was charged is counted: once, unless the day is disturbed.
Count(d, n, disturbance) ==
    /\ n \in counter[d]..Limit
    /\ d \notin disturbed \cup disturbance => n <= counter[d] + 1 /\ n <= charges[d]
    /\ counter' = [counter EXCEPT ![d] = n]
    /\ disturbed' = disturbed \cup disturbance
    /\ UNCHANGED <<today, charged, charges, refused>>

Disturb(days) ==
    /\ disturbed' = disturbed \cup days
    /\ UNCHANGED <<today, charged, charges, counter, refused>>

NextDay ==
    /\ today < MaxDay
    /\ today' = today + 1
    /\ UNCHANGED <<charged, charges, counter, refused, disturbed>>

QuotaNext ==
    \/ \E c \in Callers : Charge(c) \/ \E d \in Days : Refuse(c, d)
    \/ \E d \in Days, n \in 0..Limit, disturbance \in SUBSET Days : Count(d, n, disturbance)
    \/ \E days \in SUBSET Days : Disturb(days)
    \/ NextDay

QuotaSpec == QuotaInit /\ [][QuotaNext]_quotaVars
=============================================================================
