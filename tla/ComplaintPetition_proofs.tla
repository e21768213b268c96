----------------------- MODULE ComplaintPetition_proofs -----------------------
(***************************************************************************)
(* The petitions of a pin, for any number of creations, bulk sends, days   *)
(* and copies, and every fault.                                            *)
(***************************************************************************)
EXTENDS ComplaintPetition, FiniteSetTheorems, TLAPS

\* A petition has a row from the commit of its creation on.
RowsInv == \A c \in Creates : making[c] = "committed" <=> status[c] # "none"

\* A send works on petitions that have a row.
TargetsInv ==
    \A s \in Sends :
        /\ sending[s] \in {"status", "state"} => target[s] \in Creates
        /\ \A c \in Creates :
             c \in todo[s] \/ c = target[s] \/ draft[s][c] # "none" => status[c] # "none"

\* Rows of one pin, committed or not, have different dates.
DatesInv ==
    \A c, q \in Creates :
        making[c] \in {"inserted", "committed"} /\ making[q] \in {"inserted", "committed"}
          /\ date[c] = date[q] => c = q

\* What a send takes for sent was delivered.
SentInv ==
    /\ \A s \in Sends : \A c \in Creates :
         result[s][c] = "ok" \/ draft[s][c] = "SENT" => mailed[c] > 0
    /\ SentWasMailed

PetitionInv == TypeOK /\ RowsInv /\ TargetsInv /\ DatesInv /\ SentInv

\* A send has written nothing while it mails, and mails nothing when it writes; what is
\* still under way after it failed is blurred.
PhasesInv ==
    \A s \in Sends : \A c \in Creates :
        /\ sending[s] = "idle" => pending[s][c] = 0 /\ result[s][c] = "none"
        /\ sending[s] \in {"idle", "mailing"} => draft[s][c] = "none"
        /\ sending[s] \in {"choosing", "status", "state", "committed"} => pending[s][c] = 0
        /\ sending[s] = "mailing" /\ pending[s][c] > 0 => c \in todo[s]
        /\ sending[s] = "failed" /\ pending[s][c] > 0 => c \in blurred

\* Operations that do not overlap are alone,
AloneInv ==
    /\ \A c, q \in Making : c = q
    /\ \A s, t \in Sending : s = t
    /\ Making = {} \/ Sending = {}

Active(c) == status[c] \in {"CREATED", "SENT"}

\* so a creation that found no active petition is right to the end, a send finds the rows
\* as it loaded them,
ActiveInv ==
    /\ \A c, q \in Creates : Active(c) /\ Active(q) => c = q
    /\ \A c, q \in Creates :
         making[c] \in {"unique", "dated", "prepared", "inserted"} => ~ Active(q)
    /\ \A s \in Sending : \A c \in Creates :
         \/ c \in todo[s]
         \/ sending[s] \in {"status", "state"} /\ c = target[s]
         \/ draft[s][c] # "none"
         => status[c] = "CREATED"

\* and a petition no fault met is mailed as often as its status says, or as the send that
\* is at work knows.
MailInv ==
    \A c \in Creates \ blurred :
        /\ Sending = {} => mailed[c] = IF status[c] = "SENT" THEN 1 ELSE 0
        /\ \A s \in Sending :
             /\ mailed[c] = IF result[s][c] = "ok" \/ status[c] = "SENT" THEN 1 ELSE 0
             /\ pending[s][c] > 0 =>
                  pending[s][c] = 1 /\ result[s][c] = "none" /\ status[c] = "CREATED"
             /\ result[s][c] # "none" => status[c] = "CREATED"
             /\ sending[s] = "mailing" /\ result[s][c] # "none" => c \in todo[s]
             /\ draft[s][c] # "none" => draft[s][c] = NextStatus(s, c)
             /\ result[s][c] # "none" =>
                  \/ c \in todo[s]
                  \/ sending[s] = "status" /\ target[s] = c
                  \/ draft[s][c] # "none"

SerialInv == PhasesInv /\ (~ overlap => AloneInv /\ ActiveInv /\ MailInv)
-----------------------------------------------------------------------------
(* Safety *)


\* A creation keeps it: dates are compared with committed rows when they are chosen and,
\* with those of other transactions too, when the row is inserted.
LEMMA CreationKeepsPetitions ==
    ASSUME PetitionInv, NEW c \in Creates, CreateStep(c) PROVE PetitionInv'
<1>0. day \in Nat \ {0}  BY BoundsAssumption DEF PetitionInv, TypeOK, Days
<1>. USE OperationsAssumption, BoundsAssumption
     DEF PetitionInv, TypeOK, RowsInv, TargetsInv, DatesInv, SentInv, SentWasMailed,
         Days, Making, Sending, MakingPhases, SendingPhases, rowVars, makeVars, lockVars, sendVars,
         historyVars
<1>1. CASE StartCreate(c)
  <2>1. TypeOK'
    <3>1. day \in Nat \ {0} /\ day' = day  BY <1>0, <1>1 DEF StartCreate
    <3>2. date' \in [Creates -> 0 .. day]
      <4>1. date \in [Creates -> 0 .. day] /\ day \in 0 .. day  BY <1>0
      <4>2. date' = date \/ date' = [date EXCEPT ![c] = day]  BY <1>1 DEF StartCreate, Today
      <4>. QED  BY ONLY <4>1, <4>2, c \in Creates
    <3>3. \A q \in Creates : making'[q] \in {"dated", "prepared", "inserted",
       "committed"} => date'[q] = date[q]
      BY <1>1 DEF StartCreate
    <3>4. \A q \in Creates : making'[q] \in {"dated", "prepared", "inserted",
       "committed"} => date'[q] # 0
      <4>1. \A q \in Creates : making'[q] \in {"dated", "prepared", "inserted",
         "committed"} => making'[q] = making[q]
        BY <1>1 DEF StartCreate
      <4>. QED  BY <3>3, <4>1
    <3>5. making' \in [Creates -> MakingPhases \cup {"idle", "committed",
       "ended"}] /\ overlap' \in BOOLEAN
      BY <1>1 DEF StartCreate
    <3>. QED  BY <1>1, <3>1, <3>2, <3>4, <3>5 DEF StartCreate
  <2>2. RowsInv' /\ TargetsInv' /\ SentInv'  BY <1>1 DEF StartCreate
  <2>3. DatesInv'  BY <1>1 DEF StartCreate
  <2>. QED  BY <2>1, <2>2, <2>3
<1>2. CASE CheckActive(c)  BY <1>2 DEF CheckActive, Continue, HasActivePetition
<1>3. CASE CheckDate(c)  BY <1>3 DEF CheckDate, Continue, Today, ExistsOn
<1>4. CASE Prepare(c)  BY <1>4 DEF Prepare, Continue
<1>5. CASE Insert(c)  BY <1>5 DEF Insert, Continue, ExistsOn
<1>6. CASE CommitCreate(c)  BY <1>6 DEF CommitCreate
<1>7. CASE CommitCreateFails(c)  BY <1>7 DEF CommitCreateFails
<1>. HIDE DEF PetitionInv
<1>. QED  BY <1>1, <1>2, <1>3, <1>4, <1>5, <1>6, <1>7 DEF CreateStep

\* A bulk send keeps it: what it writes follows what it was told, and it lets go of its
\* locks however it ends.
LEMMA SendKeepsPetitions ==
    ASSUME PetitionInv, NEW s \in Sends, SendStep(s) PROVE PetitionInv'
<1>. USE OperationsAssumption, BoundsAssumption
     DEF PetitionInv, TypeOK, RowsInv, TargetsInv, DatesInv, SentInv, SentWasMailed,
         Days, Making, Sending, MakingPhases, SendingPhases, rowVars, makeVars, lockVars, sendVars,
         historyVars
<1>1. CASE StartSend(s)  BY <1>1 DEF StartSend, Sendable
<1>2. ASSUME NEW c \in Creates, Mail(s, c) PROVE PetitionInv'  BY <1>2 DEF Mail, MailEnds
<1>3. ASSUME NEW c \in Creates, MailUnknown(s, c) PROVE PetitionInv'  BY <1>3 DEF MailUnknown, MailEnds
<1>4. ASSUME NEW c \in Creates, MailRaises(s, c) PROVE PetitionInv'  BY <1>4 DEF MailRaises
<1>5. ASSUME NEW c \in Creates, MailLate(s, c) PROVE PetitionInv'  BY <1>5 DEF MailLate, MailEnds
<1>6. CASE Choose(s)  BY <1>6 DEF Choose
<1>7. CASE UpdateStatus(s)  BY <1>7 DEF UpdateStatus, NextStatus
<1>8. CASE UpdateState(s)  BY <1>8 DEF UpdateState
<1>9. CASE UpdateFails(s)  BY <1>9 DEF UpdateFails
<1>10. CASE CommitSend(s)  BY <1>10 DEF CommitSend, Release
<1>11. CASE CommitSendFails(s)  BY <1>11 DEF CommitSendFails, Release
<1>. HIDE DEF PetitionInv
<1>. QED  BY <1>1, <1>2, <1>3, <1>4, <1>5, <1>6, <1>7, <1>8, <1>9, <1>10, <1>11 DEF SendStep

\* The invariant holds throughout.
LEMMA PetitionInvariant == Spec => []PetitionInv
<1>1. Init => PetitionInv
  <2>1. Init => TypeOK
    <3>1. 1 \in Days /\ 0 \in 0 .. 1 /\ 0 \in 0 .. MaxCopies  BY BoundsAssumption DEF Days
    <3>2. Init => /\ pending \in [Sends -> [Creates -> 0 .. MaxCopies]]
                  /\ result \in [Sends -> [Creates -> {"none", "ok", "failed"}]]
                  /\ draft \in [Sends -> [Creates -> {"none", "SENT", "FAILED"}]]
      BY <3>1 DEF Init
    <3>3. Init => date \in [Creates -> 0 .. day] /\ mailed \in [Creates -> Nat]
      BY <3>1 DEF Init
    <3>4. Init => /\ making \in [Creates -> MakingPhases \cup {"idle", "committed", "ended"}]
                  /\ \A c \in Creates : making[c] = "idle"
                  /\ sending \in [Sends -> SendingPhases \cup {"idle", "committed", "failed"}]
      BY DEF Init
    <3>5. Init => /\ status \in [Creates -> {"none", "CREATED", "SENT", "FAILED"}]
                  /\ todo \in [Sends -> SUBSET Creates]
                  /\ target \in [Sends -> Creates \cup {None}]
                  /\ rowLock \in [Creates -> Sends \cup {None}]
      BY DEF Init
    <3>6. Init => /\ day \in Days /\ pinState = "BEFORE_PROGRESS" /\ pinLock = None
                  /\ blurred = {} /\ overlap \in BOOLEAN
      BY <3>1 DEF Init
    <3>. QED  BY <3>2, <3>3, <3>4, <3>5, <3>6 DEF TypeOK
  <2>2. Init => RowsInv /\ DatesInv /\ SentInv
    BY DEF Init, RowsInv, DatesInv, SentInv, SentWasMailed
  <2>3. Init => TargetsInv  BY OperationsAssumption DEF Init, TargetsInv
  <2>. QED  BY <2>1, <2>2, <2>3 DEF PetitionInv
<1>2. PetitionInv /\ [Next]_vars => PetitionInv'
  <2>. SUFFICES ASSUME PetitionInv, [Next]_vars PROVE PetitionInv'
    OBVIOUS
  <2>. USE OperationsAssumption, BoundsAssumption
       DEF PetitionInv, TypeOK, RowsInv, TargetsInv, DatesInv, SentInv, SentWasMailed,
             Days, Making, Sending, MakingPhases, SendingPhases, rowVars, makeVars, lockVars, sendVars,
             historyVars
  <2>1. ASSUME NEW c \in Creates, CreateStep(c) PROVE PetitionInv'  BY <2>1, CreationKeepsPetitions
  <2>2. ASSUME NEW s \in Sends, SendStep(s) PROVE PetitionInv'  BY <2>2, SendKeepsPetitions
  <2>3. CASE Midnight  BY <2>3 DEF Midnight
  <2>4. CASE Crash  BY <2>4 DEF Crash
  <2>5. CASE UNCHANGED vars  BY <2>5 DEF vars
  <2>. QED  BY <2>1, <2>2, <2>3, <2>4, <2>5 DEF Next
<1>. QED  BY <1>1, <1>2, PTL DEF Spec

\* The types of the rows, of creations and of bulk sends.
THEOREM TypeCorrect == Spec => []TypeOK
<1>1. PetitionInv => TypeOK  BY DEF PetitionInv
<1>. QED  BY <1>1, PetitionInvariant, PTL

\* However creations overlap, a pin has one petition a date (create_petition_for_issue_pin).
THEOREM OneADate == Spec => []OnePerDate
<1>1. PetitionInv => OnePerDate
  BY DEF PetitionInv, RowsInv, DatesInv, OnePerDate
<1>. QED  BY <1>1, PetitionInvariant, PTL

\* Whatever overlaps, fails or dies, a petition that says SENT was mailed, and its pin
\* is IN_PROGRESS (send_bulk).
THEOREM SentIsMailed == Spec => []SentWasMailed
<1>1. PetitionInv => SentWasMailed  BY DEF PetitionInv, SentInv
<1>. QED  BY <1>1, PetitionInvariant, PTL
-----------------------------------------------------------------------------
(* Operations that do not overlap *)

\* A creation that is alone keeps the petitions in order: it has found none active.
LEMMA CreationKeepsSerial ==
    ASSUME PetitionInv, SerialInv, NEW c \in Creates, CreateStep(c) PROVE SerialInv'
<1>. USE OperationsAssumption, BoundsAssumption
     DEF PetitionInv, TypeOK, RowsInv, TargetsInv, SerialInv, PhasesInv, AloneInv, ActiveInv, MailInv,
         NextStatus, Active, Making, Sending, MakingPhases, SendingPhases,
         rowVars, makeVars, lockVars, sendVars, historyVars
<1>1. CASE StartCreate(c)
  <2>1. PhasesInv'  BY <1>1 DEF StartCreate
  <2>2. ASSUME ~ overlap' PROVE AloneInv' /\ ActiveInv' /\ MailInv'
    <3>1. ~ overlap /\ Making = {} /\ Sending = {}  BY <1>1, <2>2 DEF StartCreate
    <3>2. \A q \in Creates : q # c => making'[q] \notin MakingPhases  BY <1>1, <3>1 DEF StartCreate
    <3>3. \A s \in Sends : sending'[s] \notin SendingPhases  BY <1>1, <3>1 DEF StartCreate
    <3>4. AloneInv'  BY <3>2, <3>3
    <3>5. ActiveInv'  BY <1>1, <3>1, <3>2, <3>3 DEF StartCreate
    <3>6. MailInv'  BY <1>1, <3>1, <3>3 DEF StartCreate
    <3>. QED  BY <3>4, <3>5, <3>6
  <2>. QED  BY <2>1, <2>2
<1>2. CASE CheckActive(c)  BY <1>2 DEF CheckActive, Continue, HasActivePetition
<1>3. CASE CheckDate(c)  BY <1>3 DEF CheckDate, Continue, Today, ExistsOn
<1>4. CASE Prepare(c)  BY <1>4 DEF Prepare, Continue
<1>5. CASE Insert(c)  BY <1>5 DEF Insert, Continue, ExistsOn
<1>6. CASE CommitCreate(c)  BY <1>6 DEF CommitCreate
<1>7. CASE CommitCreateFails(c)  BY <1>7 DEF CommitCreateFails
<1>. HIDE DEF SerialInv
<1>. QED  BY <1>1, <1>2, <1>3, <1>4, <1>5, <1>6, <1>7 DEF CreateStep

\* So does a bulk send that is alone: what it finds are the rows it has loaded.
LEMMA SendKeepsSerial ==
    ASSUME PetitionInv, SerialInv, NEW s \in Sends, SendStep(s) PROVE SerialInv'
<1>. USE OperationsAssumption, BoundsAssumption
     DEF PetitionInv, TypeOK, RowsInv, TargetsInv, SerialInv, PhasesInv, AloneInv, ActiveInv, MailInv,
         NextStatus, Active, Making, Sending, MakingPhases, SendingPhases,
         rowVars, makeVars, lockVars, sendVars, historyVars
<1>1. CASE StartSend(s)
  <2>1. PhasesInv'  BY <1>1 DEF StartSend, Sendable
  <2>2. ASSUME ~ overlap' PROVE AloneInv' /\ ActiveInv' /\ MailInv'
    <3>1. ~ overlap /\ Making = {} /\ Sending = {}  BY <1>1, <2>2 DEF StartSend
    <3>2. AloneInv'  BY <1>1, <3>1 DEF StartSend
    <3>3. ActiveInv'  BY <1>1, <3>1 DEF StartSend, Sendable
    <3>4. MailInv'  BY <1>1, <3>1 DEF StartSend, Sendable
    <3>. QED  BY <3>2, <3>3, <3>4
  <2>. QED  BY <2>1, <2>2
<1>2. ASSUME NEW c \in Creates, Mail(s, c) PROVE SerialInv'  BY <1>2 DEF Mail, MailEnds
<1>3. ASSUME NEW c \in Creates, MailUnknown(s, c) PROVE SerialInv'  BY <1>3 DEF MailUnknown, MailEnds
<1>4. ASSUME NEW c \in Creates, MailRaises(s, c) PROVE SerialInv'  BY <1>4 DEF MailRaises
<1>5. ASSUME NEW c \in Creates, MailLate(s, c) PROVE SerialInv'  BY <1>5 DEF MailLate, MailEnds
<1>6. CASE Choose(s)  BY <1>6 DEF Choose
<1>7. CASE UpdateStatus(s)  BY <1>7 DEF UpdateStatus, NextStatus
<1>8. CASE UpdateState(s)  BY <1>8 DEF UpdateState
<1>9. CASE UpdateFails(s)  BY <1>9 DEF UpdateFails
<1>10. CASE CommitSend(s)
  <2>1. PhasesInv'  BY <1>10 DEF CommitSend
  <2>2. ASSUME ~ overlap' PROVE AloneInv' /\ ActiveInv' /\ MailInv'
    <3>1. ~ overlap /\ s \in Sending /\ Sending' = {}  BY <1>10, <2>2 DEF CommitSend
    <3>2. AloneInv'  BY <1>10, <3>1 DEF CommitSend
    <3>3. ActiveInv'  BY <1>10, <3>1 DEF CommitSend
    <3>4. ASSUME NEW c \in Creates \ blurred PROVE mailed[c] = IF status'[c] = "SENT" THEN 1 ELSE 0
      <4>1. status'[c] = IF draft[s][c] = "none" THEN status[c] ELSE draft[s][c]
        BY <1>10 DEF CommitSend
      <4>2. result[s][c] # "none" => draft[s][c] # "none"  BY <1>10, <3>1 DEF CommitSend
      <4>3. /\ mailed[c] = IF result[s][c] = "ok" \/ status[c] = "SENT" THEN 1 ELSE 0
            /\ draft[s][c] # "none" => draft[s][c] = NextStatus(s, c) /\ status[c] = "CREATED"
        BY <3>1
      <4>. QED  BY <4>1, <4>2, <4>3
    <3>5. MailInv'  BY <1>10, <3>1, <3>4 DEF CommitSend
    <3>. QED  BY <3>2, <3>3, <3>5
  <2>. QED  BY <2>1, <2>2
<1>11. CASE CommitSendFails(s)  BY <1>11 DEF CommitSendFails, Release
<1>. HIDE DEF SerialInv
<1>. QED  BY <1>1, <1>2, <1>3, <1>4, <1>5, <1>6, <1>7, <1>8, <1>9, <1>10, <1>11 DEF SendStep

\* The invariant holds throughout.
LEMMA SerialInvariant == Spec => []SerialInv
<1>1. Init => SerialInv
  BY DEF Init, SerialInv, PhasesInv, AloneInv, ActiveInv, Active, MailInv, Making, Sending,
         MakingPhases, SendingPhases
<1>2. PetitionInv /\ SerialInv /\ [Next]_vars => SerialInv'
  <2>. SUFFICES ASSUME PetitionInv, SerialInv, [Next]_vars PROVE SerialInv'
    OBVIOUS
  <2>. USE OperationsAssumption, BoundsAssumption
       DEF PetitionInv, TypeOK, RowsInv, TargetsInv, SerialInv, PhasesInv, AloneInv, ActiveInv, MailInv,
             NextStatus, Active, Making, Sending, MakingPhases, SendingPhases,
             rowVars, makeVars, lockVars, sendVars, historyVars
  <2>1. ASSUME NEW c \in Creates, CreateStep(c) PROVE SerialInv'  BY <2>1, CreationKeepsSerial
  <2>2. ASSUME NEW s \in Sends, SendStep(s) PROVE SerialInv'  BY <2>2, SendKeepsSerial
  <2>3. CASE Midnight  BY <2>3 DEF Midnight
  <2>4. CASE Crash  BY <2>4 DEF Crash
  <2>5. CASE UNCHANGED vars  BY <2>5 DEF vars
  <2>. QED  BY <2>1, <2>2, <2>3, <2>4, <2>5 DEF Next
<1>. QED  BY <1>1, <1>2, PetitionInvariant, PTL DEF Spec

\* As long as operations do not overlap, a pin has at most one petition that is not FAILED
\* (has_active_petition).
THEOREM OneActive == Spec => []SerialOneActive
<1>1. SerialInv => SerialOneActive
  <2>. SUFFICES ASSUME SerialInv, ~ overlap
                PROVE  Cardinality({c \in Creates : status[c] \in {"CREATED", "SENT"}}) <= 1
    BY DEF SerialOneActive
  <2>. DEFINE active == {c \in Creates : status[c] \in {"CREATED", "SENT"}}
  <2>1. \A c, q \in active : c = q  BY DEF SerialInv, ActiveInv, Active
  <2>2. CASE active = {}  BY <2>2, FS_EmptySet
  <2>3. CASE active # {}
    <3>1. PICK c \in active : active = {c}  BY <2>1, <2>3
    <3>. QED  BY <3>1, FS_Singleton
  <2>. QED  BY <2>2, <2>3
<1>. QED  BY <1>1, SerialInvariant, PTL

\* As long as operations do not overlap, a petition that no fault met and no request listed
\* twice is mailed at most once, and its status says whether it was (send_bulk).
THEOREM StatusTellsMail == Spec => []SerialStatusTellsMail
<1>1. SerialInv => SerialStatusTellsMail
  <2>. SUFFICES ASSUME SerialInv, ~ overlap, NEW c \in Creates \ blurred
                PROVE  mailed[c] <= 1 /\ (Sending = {} => (mailed[c] = 1 <=> status[c] = "SENT"))
    BY DEF SerialStatusTellsMail
  <2>1. CASE Sending = {}  BY <2>1 DEF SerialInv, MailInv
  <2>2. CASE Sending # {}
    <3>1. PICK s \in Sending : mailed[c] = IF result[s][c] = "ok" \/ status[c] = "SENT" THEN 1 ELSE 0
      BY <2>2 DEF SerialInv, MailInv
    <3>. QED  BY <2>2, <3>1
  <2>. QED  BY <2>1, <2>2
<1>. QED  BY <1>1, SerialInvariant, PTL
=============================================================================
