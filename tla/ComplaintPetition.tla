------------------------- MODULE ComplaintPetition -------------------------
(***************************************************************************)
(* The petitions of one issue pin (ComplaintPetitionService): their        *)
(* creation by an admin's apply request or a scheduled run, and the bulk   *)
(* requests that mail them to the department and move the pin on.  Every   *)
(* check of the service is per pin, so one pin is enough; a petition is    *)
(* named by the operation that creates it.                                 *)
(*                                                                         *)
(* Each operation is one READ COMMITTED transaction.  PostgreSQL is the    *)
(* row locks, the unique (issue_pin_id, generated_on) index and the        *)
(* detection of deadlocks.  Both callers pass enforce_threshold=False, and *)
(* nothing in the service moves a pin back to BEFORE_PROGRESS.             *)
(***************************************************************************)
EXTENDS Naturals, FiniteSets

CONSTANTS
    Creates,     \* the operations that create a petition of the pin
    Sends,       \* the bulk send requests
    None,        \* no petition, no request
    MaxDay,      \* the last KST date considered
    MaxCopies,   \* how often a request may list one petition
    Faults       \* the faults that may happen, a subset of FaultKinds

FaultKinds == {"mail", "raise", "db", "commit", "crash"}

ASSUME OperationsAssumption ==
    /\ IsFiniteSet(Creates) /\ IsFiniteSet(Sends)
    /\ None \notin Creates \cup Sends
ASSUME BoundsAssumption ==
    /\ MaxDay \in Nat \ {0}
    /\ MaxCopies \in Nat \ {0}
    /\ Faults \subseteq FaultKinds

Days == 1 .. MaxDay

VARIABLES
    day,       \* the KST date
    \* the committed rows
    status,    \* complaint_petition.status ("none": no row)
    pinState,  \* issue_pin.issue_pin_state
    \* the creations
    making,    \* how far each is
    date,      \* generated_on (0: not chosen yet)
    \* the bulk sends
    sending,   \* how far each is
    pending,   \* how many mails of each petition it has still to send
    result,    \* send_results
    todo,      \* the petitions it has not updated yet
    target,    \* the petition it is updating
    draft,     \* the statuses it has written and not committed
    rowLock,   \* the request that holds each petition row
    pinLock,   \* the request that holds the issue_pin row
    \* what really happened
    mailed,    \* how many mails of each petition were delivered
    blurred,   \* the petitions listed twice, or met by a fault while being sent
    overlap    \* whether two operations were ever under way together

makeVars == <<making, date>>
lockVars == <<rowLock, pinLock>>
sendVars == <<sending, pending, result, todo, target, draft, lockVars>>
rowVars == <<status, pinState>>
historyVars == <<mailed, blurred, overlap>>
vars == <<day, rowVars, makeVars, sendVars, historyVars>>

MakingPhases == {"listed", "unique", "dated", "prepared", "inserted"}
SendingPhases == {"mailing", "choosing", "status", "state"}

Making == {c \in Creates : making[c] \in MakingPhases}
Sending == {s \in Sends : sending[s] \in SendingPhases}

Init ==
    /\ day = 1
    /\ status = [c \in Creates |-> "none"]
    /\ pinState = "BEFORE_PROGRESS"
    /\ making = [c \in Creates |-> "idle"]
    /\ date = [c \in Creates |-> 0]
    /\ sending = [s \in Sends |-> "idle"]
    /\ pending = [s \in Sends |-> [c \in Creates |-> 0]]
    /\ result = [s \in Sends |-> [c \in Creates |-> "none"]]
    /\ todo = [s \in Sends |-> {}]
    /\ target = [s \in Sends |-> None]
    /\ draft = [s \in Sends |-> [c \in Creates |-> "none"]]
    /\ rowLock = [c \in Creates |-> None]
    /\ pinLock = None
    /\ mailed = [c \in Creates |-> 0]
    /\ blurred = {}
    /\ overlap = FALSE

----------------------------------------------------------------------------
(* create_petition_for_issue_pin.  The definitions called variants are      *)
(* slips the code could have made, kept to see that a property notices them. *)

\* has_active_petition; the variant takes a petition that was sent for done.
HasUnsentPetition == \E c \in Creates : status[c] = "CREATED"
HasActivePetition == \E c \in Creates : status[c] \in {"CREATED", "SENT"}

\* exists_by_issue_pin_and_generated_on
ExistsOn(d) == \E c \in Creates : status[c] # "none" /\ date[c] = d

\* _today_kst; the variant is the date in UTC, the day before until nine.
UtcToday == day - 1
Today == day

\* An admin applies; or a scheduled run lists the pin, with the date the run
\* began on.
StartCreate(c) ==
    /\ making[c] = "idle"
    /\ making' = [making EXCEPT ![c] = "listed"]
    /\ \/ UNCHANGED date
       \/ /\ pinState = "BEFORE_PROGRESS"
          /\ date' = [date EXCEPT ![c] = Today]
    /\ overlap' = (overlap \/ Making # {} \/ Sending # {})
    /\ UNCHANGED <<day, rowVars, sendVars, mailed, blurred>>

Continue(c, ok, next) ==
    making' = [making EXCEPT ![c] = IF ok THEN next ELSE "ended"]

CheckActive(c) ==
    /\ making[c] = "listed"
    /\ Continue(c, ~HasActivePetition, "unique")
    /\ UNCHANGED <<day, rowVars, date, sendVars, historyVars>>

CheckDate(c) ==
    /\ making[c] = "unique"
    /\ date' = [date EXCEPT ![c] = IF @ = 0 THEN Today ELSE @]
    /\ Continue(c, ~ExistsOn(date'[c]), "dated")
    /\ UNCHANGED <<day, rowVars, sendVars, historyVars>>

\* Images, LLM, PDF, department and upload, each of which may fail.
Prepare(c) ==
    /\ making[c] = "dated"
    /\ \E ok \in BOOLEAN : Continue(c, ok, "prepared")
    /\ UNCHANGED <<day, rowVars, date, sendVars, historyVars>>

\* A variant: the table has no unique constraint.
InsertAnyway(c) ==
    /\ making[c] = "prepared"
    /\ Continue(c, TRUE, "inserted")
    /\ UNCHANGED <<day, rowVars, date, sendVars, historyVars>>

\* The INSERT waits for an uncommitted row of the same date, and fails on a
\* committed one.
Insert(c) ==
    /\ making[c] = "prepared"
    /\ \A q \in Creates : making[q] = "inserted" => date[q] # date[c]
    /\ Continue(c, ~ExistsOn(date[c]), "inserted")
    /\ UNCHANGED <<day, rowVars, date, sendVars, historyVars>>

CommitCreate(c) ==
    /\ making[c] = "inserted"
    /\ making' = [making EXCEPT ![c] = "committed"]
    /\ status' = [status EXCEPT ![c] = "CREATED"]
    /\ UNCHANGED <<day, pinState, date, sendVars, historyVars>>

CommitCreateFails(c) ==
    /\ "commit" \in Faults
    /\ making[c] = "inserted"
    /\ making' = [making EXCEPT ![c] = "ended"]
    /\ UNCHANGED <<day, rowVars, date, sendVars, historyVars>>

----------------------------------------------------------------------------
(* send_bulk.                                                              *)

\* A variant: every listed petition is mailed again.
AnySendable(c) == status[c] # "none"

\* Only a petition in state CREATED is a send target.
Sendable(c) == status[c] = "CREATED"

\* The listed rows are loaded, the targets chosen.
StartSend(s) ==
    /\ sending[s] = "idle"
    /\ \E ids \in SUBSET {c \in Creates : Sendable(c)} \ {{}} :
         \E copies \in [ids -> 1 .. MaxCopies] :
           /\ pending' = [pending EXCEPT
                ![s] = [c \in Creates |-> IF c \in ids THEN copies[c] ELSE 0]]
           /\ todo' = [todo EXCEPT ![s] = ids]
           /\ blurred' = blurred \cup {c \in ids : copies[c] > 1}
    /\ sending' = [sending EXCEPT ![s] = "mailing"]
    /\ overlap' = (overlap \/ Making # {} \/ Sending # {})
    /\ UNCHANGED <<day, rowVars, makeVars, result, target, draft, lockVars, mailed>>

\* One _send_one ends: its mail was delivered or not, and it says so or not.
\* The results are kept per petition, the last one stays.
MailEnds(s, c, delivered, ok) ==
    /\ pending[s][c] > 0
    /\ pending' = [pending EXCEPT ![s][c] = @ - 1]
    /\ mailed' = [mailed EXCEPT ![c] = IF delivered THEN @ + 1 ELSE @]
    /\ result' = [result EXCEPT ![s][c] = IF ok THEN "ok" ELSE "failed"]

Mail(s, c) ==
    /\ sending[s] = "mailing"
    /\ \E ok \in BOOLEAN : MailEnds(s, c, ok, ok)
    /\ UNCHANGED <<day, rowVars, makeVars, sending, todo, target, draft, lockVars,
                   blurred, overlap>>

\* The server has taken the mail when the connection fails or times out.
MailUnknown(s, c) ==
    /\ "mail" \in Faults
    /\ sending[s] = "mailing"
    /\ MailEnds(s, c, TRUE, FALSE)
    /\ blurred' = blurred \cup {c}
    /\ UNCHANGED <<day, rowVars, makeVars, sending, todo, target, draft, lockVars,
                   overlap>>

\* A header is refused while the mail is built: gather raises, the request is
\* rolled back, the mails of the other petitions go on.
MailRaises(s, c) ==
    /\ "raise" \in Faults
    /\ sending[s] = "mailing"
    /\ pending[s][c] > 0
    /\ pending' = [pending EXCEPT ![s][c] = 0]
    /\ sending' = [sending EXCEPT ![s] = "failed"]
    /\ blurred' = blurred \cup todo[s]
    /\ UNCHANGED <<day, rowVars, makeVars, result, todo, target, draft, lockVars,
                   mailed, overlap>>

MailLate(s, c) ==
    /\ sending[s] = "failed"
    /\ \E ok \in BOOLEAN : MailEnds(s, c, ok, ok)
    /\ UNCHANGED <<day, rowVars, makeVars, sending, todo, target, draft, lockVars,
                   blurred, overlap>>

\* gather returns, or the next petition's update begins: the order is that of
\* the list, which is the caller's.  A petition listed twice is updated twice, to
\* the same status, under locks it has already: once is enough.
Choose(s) ==
    /\ \/ sending[s] = "mailing" /\ \A c \in Creates : pending[s][c] = 0
       \/ sending[s] = "choosing"
    /\ \E c \in todo[s] :
         /\ target' = [target EXCEPT ![s] = c]
         /\ todo' = [todo EXCEPT ![s] = @ \ {c}]
    /\ sending' = [sending EXCEPT ![s] = "status"]
    /\ UNCHANGED <<day, rowVars, makeVars, pending, result, draft, lockVars,
                   historyVars>>

\* A variant: what counts is that the mail was tried.
AlwaysSent(s, c) == "SENT"

\* next_status
NextStatus(s, c) == IF result[s][c] = "ok" THEN "SENT" ELSE "FAILED"

\* update_status waits for the row.
UpdateStatus(s) ==
    /\ sending[s] = "status"
    /\ rowLock[target[s]] \in {s, None}
    /\ rowLock' = [rowLock EXCEPT ![target[s]] = s]
    /\ draft' = [draft EXCEPT ![s][target[s]] = NextStatus(s, target[s])]
    /\ sending' = [sending EXCEPT
                     ![s] = IF NextStatus(s, target[s]) = "SENT" THEN "state"
                                                               ELSE "choosing"]
    /\ UNCHANGED <<day, rowVars, makeVars, pending, result, todo, target, pinLock,
                   historyVars>>

\* update_state waits for the issue_pin row.
UpdateState(s) ==
    /\ sending[s] = "state"
    /\ pinLock \in {s, None}
    /\ pinLock' = s
    /\ sending' = [sending EXCEPT ![s] = "choosing"]
    /\ UNCHANGED <<day, rowVars, makeVars, pending, result, todo, target, draft,
                   rowLock, historyVars>>

\* Whom a request waits for.
Holder(s) ==
    CASE sending[s] = "status" /\ rowLock[target[s]] # s -> rowLock[target[s]]
      [] sending[s] = "state" /\ pinLock # s -> pinLock
      [] OTHER -> None

Deadlocked(s) ==
    \E S \in SUBSET Sends : s \in S /\ {Holder(q) : q \in S} = S

\* A variant: back to the savepoint, and the update is tried again.
RetryUpdate(s) ==
    /\ sending[s] \in {"status", "state"}
    /\ "db" \in Faults \/ Deadlocked(s)
    /\ rowLock' = [rowLock EXCEPT ![target[s]] = IF @ = s THEN None ELSE @]
    /\ draft' = [draft EXCEPT ![s][target[s]] = "none"]
    /\ sending' = [sending EXCEPT ![s] = "status"]
    /\ blurred' = blurred \cup {target[s]}
    /\ UNCHANGED <<day, rowVars, makeVars, pending, result, todo, target, pinLock,
                   mailed, overlap>>

\* An update fails, or is the victim of a deadlock: back to the savepoint.
UpdateFails(s) ==
    /\ sending[s] \in {"status", "state"}
    /\ "db" \in Faults \/ Deadlocked(s)
    /\ rowLock' = [rowLock EXCEPT ![target[s]] = IF @ = s THEN None ELSE @]
    /\ draft' = [draft EXCEPT ![s][target[s]] = "none"]
    /\ sending' = [sending EXCEPT ![s] = "choosing"]
    /\ blurred' = blurred \cup {target[s]}
    /\ UNCHANGED <<day, rowVars, makeVars, pending, result, todo, target, pinLock,
                   mailed, overlap>>

\* The transaction of s ends, and PostgreSQL releases its locks.
Release(s) ==
    /\ rowLock' = [c \in Creates |-> IF rowLock[c] = s THEN None ELSE rowLock[c]]
    /\ pinLock' = IF pinLock = s THEN None ELSE pinLock

CommitSend(s) ==
    /\ sending[s] = "choosing"
    /\ todo[s] = {}
    /\ sending' = [sending EXCEPT ![s] = "committed"]
    /\ status' = [c \in Creates |->
                    IF draft[s][c] = "none" THEN status[c] ELSE draft[s][c]]
    /\ pinState' = IF \E c \in Creates : draft[s][c] = "SENT" THEN "IN_PROGRESS"
                                                            ELSE pinState
    /\ Release(s)
    /\ UNCHANGED <<day, makeVars, pending, result, todo, target, draft, historyVars>>

\* The mails are out, and nothing says so.
CommitSendFails(s) ==
    /\ "commit" \in Faults
    /\ sending[s] = "choosing"
    /\ todo[s] = {}
    /\ sending' = [sending EXCEPT ![s] = "failed"]
    /\ blurred' = blurred \cup {c \in Creates : result[s][c] # "none"}
    /\ Release(s)
    /\ UNCHANGED <<day, rowVars, makeVars, pending, result, todo, target, draft,
                   mailed, overlap>>

----------------------------------------------------------------------------
Midnight ==
    /\ day < MaxDay
    /\ day' = day + 1
    /\ UNCHANGED <<rowVars, makeVars, sendVars, historyVars>>

\* The process dies, every transaction is rolled back.
Crash ==
    /\ "crash" \in Faults
    /\ making' = [c \in Creates |-> IF c \in Making THEN "ended" ELSE making[c]]
    /\ sending' = [s \in Sends |-> IF s \in Sending THEN "failed" ELSE sending[s]]
    /\ pending' = [s \in Sends |-> [c \in Creates |-> 0]]
    /\ rowLock' = [c \in Creates |-> None]
    /\ pinLock' = None
    /\ blurred' = blurred \cup {c \in Creates : \E s \in Sending :
                                  pending[s][c] > 0 \/ result[s][c] # "none"}
    /\ UNCHANGED <<day, rowVars, date, result, todo, target, draft, mailed, overlap>>

CreateStep(c) ==
    \/ StartCreate(c)
    \/ CheckActive(c)
    \/ CheckDate(c)
    \/ Prepare(c)
    \/ Insert(c)
    \/ CommitCreate(c)
    \/ CommitCreateFails(c)

SendStep(s) ==
    \/ StartSend(s)
    \/ \E c \in Creates :
         \/ Mail(s, c)
         \/ MailUnknown(s, c)
         \/ MailRaises(s, c)
         \/ MailLate(s, c)
    \/ Choose(s)
    \/ UpdateStatus(s)
    \/ UpdateState(s)
    \/ UpdateFails(s)
    \/ CommitSend(s)
    \/ CommitSendFails(s)

Next ==
    \/ \E c \in Creates : CreateStep(c)
    \/ \E s \in Sends : SendStep(s)
    \/ Midnight
    \/ Crash

Spec == Init /\ [][Next]_vars

\* What a request does by itself: the SMTP server answers or times out, a waiting
\* statement goes on when its row is free, and PostgreSQL breaks a deadlock.
Work(s) ==
    \/ \E c \in Creates : Mail(s, c)
    \/ Choose(s)
    \/ UpdateStatus(s)
    \/ UpdateState(s)
    \/ Deadlocked(s) /\ UpdateFails(s)
    \/ CommitSend(s)

FairSpec == Spec /\ \A s \in Sends : WF_vars(Work(s))

----------------------------------------------------------------------------
(* Correctness.                                                            *)

TypeOK ==
    /\ day \in Days
    /\ status \in [Creates -> {"none", "CREATED", "SENT", "FAILED"}]
    /\ pinState \in {"BEFORE_PROGRESS", "IN_PROGRESS"}
    /\ making \in [Creates -> MakingPhases \cup {"idle", "committed", "ended"}]
    /\ date \in [Creates -> 0 .. day]
    /\ \A c \in Creates : making[c] \in {"dated", "prepared", "inserted", "committed"}
                          => date[c] # 0
    /\ sending \in [Sends -> SendingPhases \cup {"idle", "committed", "failed"}]
    /\ pending \in [Sends -> [Creates -> 0 .. MaxCopies]]
    /\ result \in [Sends -> [Creates -> {"none", "ok", "failed"}]]
    /\ todo \in [Sends -> SUBSET Creates]
    /\ target \in [Sends -> Creates \cup {None}]
    /\ draft \in [Sends -> [Creates -> {"none", "SENT", "FAILED"}]]
    /\ rowLock \in [Creates -> Sends \cup {None}]
    /\ pinLock \in Sends \cup {None}
    /\ mailed \in [Creates -> Nat]
    /\ blurred \subseteq Creates
    /\ overlap \in BOOLEAN

\* Whatever overlaps, fails or dies: a petition that says SENT was mailed, and
\* its pin is IN_PROGRESS.
SentWasMailed ==
    \A c \in Creates :
        status[c] = "SENT" => mailed[c] > 0 /\ pinState = "IN_PROGRESS"

\* One petition a pin and date, whatever is created at the same time.
OnePerDate ==
    \A c, q \in Creates :
        status[c] # "none" /\ status[q] # "none" /\ date[c] = date[q] => c = q

\* As long as operations do not overlap a pin has one petition that is not
\* FAILED, on whatever days it was applied for.
SerialOneActive ==
    ~overlap => Cardinality({c \in Creates : status[c] \in {"CREATED", "SENT"}}) <= 1

\* As long as operations do not overlap, a petition that no fault met and no
\* request listed twice is mailed at most once, and when nothing is being sent
\* its status says whether it was.
SerialStatusTellsMail ==
    ~overlap =>
        \A c \in Creates \ blurred :
            /\ mailed[c] <= 1
            /\ Sending = {} => (mailed[c] = 1 <=> status[c] = "SENT")

\* Every bulk send comes to an end, in whatever orders two of them list the same
\* petitions: each keeps the rows it has updated locked while it waits for the next, and
\* the one whose update is given up lets its request finish, and the other go on.
BulkSendsEnd ==
    \A s \in Sends : sending[s] # "idle" ~> sending[s] \in {"committed", "failed"}
=============================================================================
