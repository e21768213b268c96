------------------------ MODULE DailyRateLimit_proofs ------------------------
(***************************************************************************)
(* What holds of DailyRateLimit for any number of calls and days, any      *)
(* limit and any degree of concurrency, under every fault.                 *)
(***************************************************************************)
EXTENDS DailyRateLimit, FiniteSetTheorems, TLAPS

USE CallsAssumption, LimitAssumption

----------------------------------------------------------------------------
(* Counting finite sets.                                                   *)

\* A part has no more members than the whole.
LEMMA SubsetCount ==
  ASSUME NEW S, NEW T, IsFiniteSet(T), S \subseteq T
  PROVE  IsFiniteSet(S) /\ Cardinality(S) \in Nat /\ Cardinality(T) \in Nat
         /\ Cardinality(S) <= Cardinality(T)
  BY FS_Subset, FS_CardinalityType

\* Two sets together have no more members than each of them in turn.
LEMMA UnionCount ==
  ASSUME NEW S, NEW T, IsFiniteSet(S), IsFiniteSet(T)
  PROVE  IsFiniteSet(S \cup T)
         /\ Cardinality(S \cup T) <= Cardinality(S) + Cardinality(T)
<1>1. IsFiniteSet(S \cup T)
      /\ Cardinality(S \cup T) =
           Cardinality(S) + Cardinality(T) - Cardinality(S \cap T)
  BY FS_Union
<1>2. IsFiniteSet(S \cap T) /\ Cardinality(S \cap T) \in Nat
  BY SubsetCount
<1>3. Cardinality(S) \in Nat /\ Cardinality(T) \in Nat
  BY FS_CardinalityType
<1> QED
  BY <1>1, <1>2, <1>3

\* A new member is one more.
LEMMA OneMoreCount ==
  ASSUME NEW S, NEW e, IsFiniteSet(S), e \notin S
  PROVE  IsFiniteSet(S \cup {e}) /\ Cardinality(S) \in Nat
         /\ Cardinality(S \cup {e}) = Cardinality(S) + 1
  BY FS_AddElement, FS_CardinalityType

\* A member less is one less.
LEMMA OneLessCount ==
  ASSUME NEW S, NEW e, IsFiniteSet(S), e \in S
  PROVE  IsFiniteSet(S \ {e}) /\ Cardinality(S) \in Nat
         /\ Cardinality(S \ {e}) = Cardinality(S) - 1
  BY FS_RemoveElement, FS_CardinalityType

----------------------------------------------------------------------------
(* The inductive invariant.                                                *)

\* Which dates a call carries at which step.
DatesFollowSteps ==
    /\ \A c \in Calls :
         /\ progress[c] = "idle" => askDay[c] = 0
         /\ progress[c] \in {"asking", "admitted", "worked", "recording"}
            => askDay[c] \in 1 .. day
         /\ recDay[c] # 0 => progress[c] \in {"recording", "done", "lost"}
         /\ progress[c] = "recording" => recDay[c] \in 1 .. day
         /\ progress[c] = "lost" => recDay[c] \notin CleanDays
    /\ \A d \in Days : d > day => count[d] = 0

InFlightIsBounded == Cardinality(InFlight) <= MaxInFlight

\* The calls that may still be charged to d when its limit is reached: those
\* that were let through, and those that ask about an earlier day.
Threat(d) ==
    {c \in Calls : \/ progress[c] = "asking" /\ askDay[c] < d
                   \/ progress[c] \in {"admitted", "worked"} /\ askDay[c] <= d}

Late(d) == Charged(d) \cup Threat(d)

LateIsBounded ==
    \A d \in CleanDays :
        count[d] >= Limit => Cardinality(Late(d)) <= Limit + MaxInFlight - 1

IInv ==
    /\ TypeOK
    /\ DatesFollowSteps
    /\ InFlightIsBounded
    /\ CleanDayCountIsExact
    /\ LateIsBounded
    /\ RefusedOnlyAtLimit

----------------------------------------------------------------------------
\* The invariant holds at first.
LEMMA InitIInv == Init => IInv
<1> SUFFICES ASSUME Init PROVE IInv
  OBVIOUS
<1>1. TypeOK /\ DatesFollowSteps
  BY DEF Init, TypeOK, DatesFollowSteps, Days, Steps, InFlightSteps
<1>2. InFlight = {}
  BY DEF Init, InFlight, InFlightSteps
<1>3. \A d \in Days : Recorded(d) = {}
  BY DEF Init, Recorded, Charged, Days
<1>4. InFlightIsBounded
  BY <1>2, FS_EmptySet DEF InFlightIsBounded
<1>5. CleanDayCountIsExact
  BY <1>3, FS_EmptySet DEF Init, CleanDayCountIsExact, CleanDays
<1>6. LateIsBounded /\ RefusedOnlyAtLimit
  BY DEF Init, LateIsBounded, RefusedOnlyAtLimit, CleanDays
<1> QED
  BY <1>1, <1>4, <1>5, <1>6 DEF IInv

\* Every step keeps the types, and calls dated by their steps.
LEMMA NextType == TypeOK /\ DatesFollowSteps /\ [Next]_vars
                  => TypeOK' /\ DatesFollowSteps'
<1> SUFFICES ASSUME TypeOK, DatesFollowSteps, [Next]_vars
             PROVE  TypeOK' /\ DatesFollowSteps'
  OBVIOUS
<1> USE DEF TypeOK, DatesFollowSteps, CleanDays, Days, Steps, InFlightSteps
<1>1. ASSUME NEW c \in Calls, CallStep(c) PROVE TypeOK' /\ DatesFollowSteps'
  <2>1. CASE AskQuota(c)               BY <2>1 DEF AskQuota
  <2>2. CASE Admit(c)             BY <2>2 DEF Admit
  <2>3. CASE AdmitUnchecked(c)
    <3>1. askDay[c] \in Days /\ faulty' = faulty \cup {askDay[c]}
      BY <2>3 DEF AdmitUnchecked
    <3>2. faulty' \subseteq Days /\ CleanDays' \subseteq CleanDays
      BY <3>1
    <3> QED
      BY <2>3, <3>2 DEF AdmitUnchecked
  <2>4. CASE Succeed(c)           BY <2>4 DEF Succeed
  <2>5. CASE Fail(c)              BY <2>5 DEF Fail
  <2>6. CASE BeginRecord(c)       BY <2>6 DEF BeginRecord
  <2>7. CASE Record(c)            BY <2>7 DEF Record, Counted
  <2>8. CASE RecordUnreliably(c)
    <3>0. recDay[c] \in Days /\ faulty' = faulty \cup {recDay[c]}
      BY <2>8 DEF RecordUnreliably
    <3>1. faulty' \subseteq Days /\ CleanDays' \subseteq CleanDays
      BY <3>0
    <3>2. PICK times \in 0 .. MaxSends :
            count' = [count EXCEPT ![recDay[c]] = Counted(@, times)]
      BY <2>8 DEF RecordUnreliably
    <3>3. /\ count' \in [Days -> 0 .. Limit]
          /\ \A d \in Days : d > day => count'[d] = 0
      BY <2>8, <3>2 DEF RecordUnreliably, Counted
    <3> QED
      BY <2>8, <3>1, <3>3 DEF RecordUnreliably
  <2> QED
    BY <1>1, <2>1, <2>2, <2>3, <2>4, <2>5, <2>6, <2>7, <2>8 DEF CallStep
<1>2. CASE Midnight        BY <1>2 DEF Midnight
<1>3. CASE Crash
  <2>0. {recDay[c] : c \in {q \in Calls : progress[q] = "recording"}} \subseteq Days
    OBVIOUS
  <2>1. faulty' \subseteq Days /\ CleanDays' \subseteq CleanDays
    BY <1>3, <2>0 DEF Crash
  <2>2. \A c \in Calls : progress[c] = "recording" => recDay[c] \notin CleanDays'
    BY <1>3 DEF Crash
  <2>3. \A c \in Calls : recDay[c] = 0 => recDay[c] \notin CleanDays'
    OBVIOUS
  <2> QED
    BY <1>3, <2>1, <2>2, <2>3 DEF Crash, InFlight
<1>4. CASE UNCHANGED vars  BY <1>4 DEF vars
<1> QED
  BY <1>1, <1>2, <1>3, <1>4 DEF Next

\* The sets of calls that the invariant counts are finite.
LEMMA CallsAreFinite ==
  /\ IsFiniteSet(InFlight) /\ Cardinality(InFlight) \in Nat
  /\ \A d : IsFiniteSet(Recorded(d)) /\ Cardinality(Recorded(d)) \in Nat
  /\ \A d : IsFiniteSet(Charged(d)) /\ Cardinality(Charged(d)) \in Nat
  /\ \A d : IsFiniteSet(Late(d)) /\ Cardinality(Late(d)) \in Nat
<1>1. InFlight \subseteq Calls
  BY DEF InFlight
<1>2. \A d : Recorded(d) \subseteq Calls /\ Charged(d) \subseteq Calls
             /\ Late(d) \subseteq Calls
  BY DEF Recorded, Charged, Late, Threat
<1> QED
  BY <1>1, <1>2, SubsetCount

\* No step lets more calls in than may be at work (generate, the semaphore).
LEMMA NextInFlight ==
  ASSUME IInv, Next
  PROVE  InFlightIsBounded'
<1>1. ASSUME NEW c \in Calls, AskQuota(c) PROVE InFlightIsBounded'
  <2>1. InFlight' = InFlight \cup {c} /\ c \notin InFlight
    BY <1>1 DEF AskQuota, InFlight, InFlightSteps, IInv, TypeOK
  <2>2. Cardinality(InFlight') = Cardinality(InFlight) + 1
    BY <2>1, OneMoreCount, CallsAreFinite
  <2>3. Cardinality(InFlight) < MaxInFlight
    BY <1>1 DEF AskQuota
  <2> QED
    BY <2>2, <2>3, CallsAreFinite DEF InFlightIsBounded
<1>2. ASSUME InFlight' \subseteq InFlight PROVE InFlightIsBounded'
  <2>1. Cardinality(InFlight') <= Cardinality(InFlight)
        /\ Cardinality(InFlight') \in Nat
    BY <1>2, SubsetCount, CallsAreFinite
  <2> QED
    BY <2>1, CallsAreFinite DEF IInv, InFlightIsBounded
<1>3. ASSUME NEW c \in Calls, CallStep(c), ~AskQuota(c) PROVE InFlight' \subseteq InFlight
  BY <1>3 DEF CallStep, Admit, AdmitUnchecked, Succeed, Fail, BeginRecord, Record,
              RecordUnreliably, InFlight, InFlightSteps, IInv, TypeOK
<1>4. Midnight \/ Crash => InFlight' \subseteq InFlight
  BY DEF Midnight, Crash, InFlight, InFlightSteps
<1> QED
  BY <1>1, <1>2, <1>3, <1>4 DEF Next

\* On a day that is clean after the step, every step but the script leaves the
\* counter and what it has counted alone, and adds no late call once the limit
\* is reached.
Undisturbed(d) ==
    /\ d \in CleanDays
    /\ count'[d] = count[d]
    /\ Recorded(d)' = Recorded(d)
    /\ count[d] >= Limit => Late(d)' \subseteq Late(d)

\* A step of a call that records nothing leaves the counts of clean days alone.
LEMMA OtherSteps ==
  ASSUME IInv, NEW c \in Calls, CallStep(c), ~Record(c), NEW d \in CleanDays'
  PROVE  Undisturbed(d)
<1> USE DEF IInv, TypeOK, DatesFollowSteps, CleanDays, Days, Undisturbed, Recorded,
            Charged, Late, Threat
<1>1. CASE AskQuota(c)
  <2>1. count[d] >= Limit => d <= day
    OBVIOUS
  <2> QED
    BY <1>1, <2>1 DEF AskQuota
<1>2. CASE Admit(c)        BY <1>2 DEF Admit, AtLimit
<1>3. CASE AdmitUnchecked(c)
  <2>1. askDay[c] # d
    BY <1>3 DEF AdmitUnchecked
  <2> QED
    BY <1>3, <2>1 DEF AdmitUnchecked
<1>4. CASE Succeed(c)      BY <1>4 DEF Succeed
<1>5. CASE Fail(c)         BY <1>5 DEF Fail
<1>6. CASE BeginRecord(c)  BY <1>6 DEF BeginRecord
<1>7. CASE RecordUnreliably(c)
  <2>1. recDay[c] # d /\ recDay[c] \in Days
    BY <1>7 DEF RecordUnreliably
  <2> QED
    BY <1>7, <2>1 DEF RecordUnreliably
<1> QED
  BY <1>1, <1>2, <1>3, <1>4, <1>5, <1>6, <1>7 DEF CallStep

\* So does midnight, and a crash makes its days unclean.
LEMMA SystemSteps ==
  ASSUME IInv, Midnight \/ Crash, NEW d \in CleanDays'
  PROVE  Undisturbed(d)
<1> USE DEF IInv, TypeOK, CleanDays, Days, Undisturbed, Recorded, Charged, Late,
            Threat
<1>1. CASE Midnight  BY <1>1 DEF Midnight
<1>2. CASE Crash     BY <1>2 DEF Crash, InFlight, InFlightSteps
<1> QED
  BY <1>1, <1>2

\* What is undisturbed on every clean day stays correct.
LEMMA UndisturbedStep ==
  ASSUME IInv, \A d \in CleanDays' : Undisturbed(d)
  PROVE  CleanDayCountIsExact' /\ LateIsBounded'
<1>1. CleanDayCountIsExact'
  BY DEF IInv, CleanDayCountIsExact, Undisturbed
<1>2. ASSUME NEW d \in CleanDays', count'[d] >= Limit
      PROVE  Cardinality(Late(d)') <= Limit + MaxInFlight - 1
  <2>1. d \in CleanDays /\ count[d] >= Limit /\ Late(d)' \subseteq Late(d)
    BY <1>2 DEF Undisturbed
  <2>2. Cardinality(Late(d)) <= Limit + MaxInFlight - 1
    BY <2>1 DEF IInv, LateIsBounded
  <2>3. Cardinality(Late(d)') <= Cardinality(Late(d))
        /\ Cardinality(Late(d)') \in Nat
    BY <2>1, SubsetCount, CallsAreFinite
  <2> QED
    BY <2>2, <2>3, CallsAreFinite
<1> QED
  BY <1>1, <1>2 DEF LateIsBounded

\* The script: one more success is counted on its day.
LEMMA RecordStep ==
  ASSUME IInv, NEW c \in Calls, Record(c)
  PROVE  CleanDayCountIsExact' /\ LateIsBounded'
<1> USE DEF IInv, TypeOK, DatesFollowSteps, Record
<1> DEFINE e == recDay[c]
<1>1. e \in Days /\ CleanDays' = CleanDays /\ c \in InFlight
  BY DEF Days, CleanDays, InFlight, InFlightSteps
<1>2. ASSUME NEW d \in CleanDays, d # e PROVE Undisturbed(d)
  BY <1>2 DEF Undisturbed, Recorded, Charged, Late, Threat, CleanDays, Days
<1>3. Recorded(e)' = Recorded(e) \cup {c} /\ c \notin Recorded(e)
  BY DEF Recorded, Charged
<1>4. Cardinality(Recorded(e)') = Cardinality(Recorded(e)) + 1
  BY <1>3, OneMoreCount, CallsAreFinite
<1>5. count'[e] = Counted(count[e], 1)
  BY <1>1
<1>6. CleanDayCountIsExact'
  <2>1. ASSUME NEW d \in CleanDays'
        PROVE  count'[d] = IF Cardinality(Recorded(d)') >= Limit
                           THEN Limit ELSE Cardinality(Recorded(d)')
    <3>1. CASE d # e
      BY <1>1, <1>2, <2>1, <3>1 DEF Undisturbed, CleanDayCountIsExact
    <3>2. CASE d = e
      <4>1. count[e] = IF Cardinality(Recorded(e)) >= Limit
                       THEN Limit ELSE Cardinality(Recorded(e))
        BY <1>1, <2>1, <3>2 DEF CleanDayCountIsExact
      <4> QED
        BY <1>4, <1>5, <3>2, <4>1, CallsAreFinite DEF Counted
    <3> QED
      BY <3>1, <3>2
  <2> QED
    BY <2>1 DEF CleanDayCountIsExact
<1>7. ASSUME e \in CleanDays, count[e] >= Limit
      PROVE  Cardinality(Late(e)') <= Limit + MaxInFlight - 1
  <2>1. Late(e)' = Late(e)
    BY DEF Late, Charged, Threat
  <2> QED
    BY <1>7, <2>1 DEF LateIsBounded
<1>8. ASSUME e \in CleanDays, count[e] < Limit, count'[e] >= Limit
      PROVE  Cardinality(Late(e)') <= Limit + MaxInFlight - 1
  <2>1. Cardinality(Recorded(e)) = count[e] /\ count[e] + 1 = Limit
    BY <1>1, <1>5, <1>8, CallsAreFinite DEF CleanDayCountIsExact, Counted
  <2>2. Late(e)' \subseteq Recorded(e)' \cup (InFlight \ {c})
    BY <1>8 DEF Late, Charged, Threat, Recorded, InFlight, InFlightSteps, CleanDays,
                Days
  <2>3. IsFiniteSet(InFlight \ {c})
        /\ Cardinality(InFlight \ {c}) = Cardinality(InFlight) - 1
    BY <1>1, OneLessCount, CallsAreFinite
  <2>4. IsFiniteSet(Recorded(e)') /\ Cardinality(Recorded(e)') = Limit
    BY <1>3, <1>4, <2>1, OneMoreCount, CallsAreFinite
  <2>5. /\ IsFiniteSet(Recorded(e)' \cup (InFlight \ {c}))
        /\ Cardinality(Recorded(e)' \cup (InFlight \ {c}))
             <= Limit + (Cardinality(InFlight) - 1)
    BY <2>3, <2>4, UnionCount
  <2>6. /\ Cardinality(Late(e)') \in Nat
        /\ Cardinality(Recorded(e)' \cup (InFlight \ {c})) \in Nat
        /\ Cardinality(Late(e)')
             <= Cardinality(Recorded(e)' \cup (InFlight \ {c}))
    BY <2>2, <2>5, SubsetCount
  <2> QED
    BY <2>5, <2>6, CallsAreFinite DEF InFlightIsBounded
<1>9. LateIsBounded'
  <2>1. ASSUME NEW d \in CleanDays', count'[d] >= Limit
        PROVE  Cardinality(Late(d)') <= Limit + MaxInFlight - 1
    <3>1. CASE d # e
      <4>1. Late(d)' \subseteq Late(d) /\ count[d] >= Limit /\ d \in CleanDays
        BY <1>1, <1>2, <2>1, <3>1 DEF Undisturbed
      <4>2. Cardinality(Late(d)') <= Cardinality(Late(d))
            /\ Cardinality(Late(d)') \in Nat
        BY <4>1, SubsetCount, CallsAreFinite
      <4> QED
        BY <4>1, <4>2, CallsAreFinite DEF LateIsBounded
    <3>2. CASE d = e
      <4>1. e \in CleanDays /\ count[e] \in Nat
        BY <1>1, <2>1, <3>2
      <4> QED
        BY <1>7, <1>8, <2>1, <3>2, <4>1
    <3> QED
      BY <3>1, <3>2
  <2> QED
    BY <2>1 DEF LateIsBounded
<1> QED
  BY <1>6, <1>9

\* A call is refused when the limit is reached, and what was counted stays.
LEMMA NextRefused ==
  ASSUME IInv, Next
  PROVE  RefusedOnlyAtLimit'
<1> USE DEF IInv, TypeOK
<1>1. CleanDays' \subseteq CleanDays /\ \A d : Recorded(d) \subseteq Recorded(d)'
  BY DEF Next, CallStep, AskQuota, Admit, AdmitUnchecked, Succeed, Fail, BeginRecord,
         Record, RecordUnreliably, Midnight, Crash, CleanDays, Recorded, Charged,
         InFlight, InFlightSteps
<1>2. \A d : Cardinality(Recorded(d)) <= Cardinality(Recorded(d)')
             /\ Cardinality(Recorded(d)') \in Nat
  <2>1. \A d : IsFiniteSet(Recorded(d)')
    <3>1. \A d : Recorded(d)' \subseteq Calls
      BY DEF Recorded, Charged
    <3> QED
      BY <3>1, FS_Subset
  <2> QED
    BY <1>1, <2>1, SubsetCount
<1>3. ASSUME NEW c \in Calls, progress'[c] = "refused", askDay'[c] \in CleanDays'
      PROVE  Cardinality(Recorded(askDay[c])) >= Limit /\ askDay'[c] = askDay[c]
  <2>1. askDay'[c] = askDay[c]
    BY <1>3 DEF Next, CallStep, AskQuota, Admit, AdmitUnchecked, Succeed, Fail,
                BeginRecord, Record, RecordUnreliably, Midnight, Crash
  <2>2. CASE progress[c] = "refused"
    BY <1>1, <1>3, <2>1, <2>2 DEF RefusedOnlyAtLimit
  <2>3. CASE progress[c] # "refused"
    <3>1. Admit(c)
      BY <1>3, <2>3
      DEF Next, CallStep, AskQuota, Admit, AdmitUnchecked, Succeed, Fail, BeginRecord,
          Record, RecordUnreliably, Midnight, Crash
    <3>2. AtLimit(count[askDay[c]])
      BY <1>3, <3>1 DEF Admit
    <3>3. askDay[c] \in CleanDays
      BY <1>1, <1>3, <2>1
    <3>4. count[askDay[c]] = IF Cardinality(Recorded(askDay[c])) >= Limit
                             THEN Limit ELSE Cardinality(Recorded(askDay[c]))
      BY <3>3 DEF CleanDayCountIsExact
    <3> QED
      BY <2>1, <3>2, <3>4, CallsAreFinite DEF AtLimit
  <2> QED
    BY <2>2, <2>3
<1> QED
  BY <1>2, <1>3, CallsAreFinite DEF RefusedOnlyAtLimit

\* Every step keeps the invariant.
LEMMA NextIInv == IInv /\ [Next]_vars => IInv'
<1> SUFFICES ASSUME IInv, [Next]_vars PROVE IInv'
  OBVIOUS
<1>1. TypeOK' /\ DatesFollowSteps'
  BY NextType DEF IInv
<1>2. CASE Next
  <2>1. CleanDayCountIsExact' /\ LateIsBounded'
    <3>1. ASSUME NEW c \in Calls, Record(c)
          PROVE  CleanDayCountIsExact' /\ LateIsBounded'
      BY <3>1, RecordStep
    <3>2. ASSUME NEW c \in Calls, CallStep(c), ~Record(c)
          PROVE  CleanDayCountIsExact' /\ LateIsBounded'
      BY <3>2, OtherSteps, UndisturbedStep
    <3>3. ASSUME Midnight \/ Crash PROVE CleanDayCountIsExact' /\ LateIsBounded'
      BY <3>3, SystemSteps, UndisturbedStep
    <3> QED
      BY <1>2, <3>1, <3>2, <3>3 DEF Next
  <2> QED
    BY <1>1, <1>2, <2>1, NextInFlight, NextRefused DEF IInv
<1>3. CASE UNCHANGED vars
  BY <1>3
  DEF vars, IInv, TypeOK, DatesFollowSteps, InFlightIsBounded, InFlight,
      CleanDayCountIsExact, CleanDays, Recorded, Charged, LateIsBounded, Late, Threat,
      RefusedOnlyAtLimit
<1> QED
  BY <1>2, <1>3

\* The invariant holds in every state.
LEMMA Invariance == Spec => []IInv
  BY InitIInv, NextIInv, PTL DEF Spec

----------------------------------------------------------------------------
(* The results.                                                            *)

\* The counter in Redis never exceeds the limit, with repeated scripts and all.
THEOREM TypeCorrect == Spec => []TypeOK
<1>1. IInv => TypeOK
  BY DEF IInv
<1> QED
  BY <1>1, Invariance, PTL

\* On a day without faults the counter is the number of recorded successes, up
\* to the limit.
THEOREM CountIsExact == Spec => []CleanDayCountIsExact
<1>1. IInv => CleanDayCountIsExact
  BY DEF IInv
<1> QED
  BY <1>1, Invariance, PTL

\* Nobody is refused because of a failure, or of another day's successes.
THEOREM RefusalsAreJust == Spec => []RefusedOnlyAtLimit
<1>1. IInv => RefusedOnlyAtLimit
  BY DEF IInv
<1> QED
  BY <1>1, Invariance, PTL

\* Checking and recording in two steps costs at most one success more than the
\* limit for each further call handled at once, midnight included.
THEOREM OvershootBound == Spec => []OvershootIsBounded
<1>1. ASSUME IInv, NEW d \in CleanDays
      PROVE  Cardinality(Charged(d)) <= Limit + MaxInFlight - 1
  <2> USE <1>1 DEF IInv
  <2>1. CASE count[d] >= Limit
    <3>1. Cardinality(Charged(d)) <= Cardinality(Late(d))
      BY CallsAreFinite, SubsetCount DEF Late
    <3>2. Cardinality(Late(d)) <= Limit + MaxInFlight - 1
      BY <2>1 DEF LateIsBounded
    <3> QED
      BY <3>1, <3>2, CallsAreFinite
  <2>2. CASE count[d] < Limit
    <3>1. Charged(d) \subseteq Recorded(d) \cup InFlight
      BY DEF Charged, Recorded, InFlight, InFlightSteps, DatesFollowSteps, CleanDays,
             Days
    <3>2. Cardinality(Recorded(d)) <= Limit - 1
      BY <2>2, CallsAreFinite DEF CleanDayCountIsExact
    <3>3. /\ IsFiniteSet(Recorded(d) \cup InFlight)
          /\ Cardinality(Recorded(d) \cup InFlight)
               <= Cardinality(Recorded(d)) + Cardinality(InFlight)
      BY CallsAreFinite, UnionCount
    <3>4. Cardinality(Charged(d)) <= Cardinality(Recorded(d) \cup InFlight)
          /\ Cardinality(Recorded(d) \cup InFlight) \in Nat
      BY <3>1, <3>3, SubsetCount
    <3> QED
      BY <3>2, <3>3, <3>4, CallsAreFinite DEF InFlightIsBounded
  <2>3. count[d] \in Nat
    BY DEF TypeOK, CleanDays
  <2> QED
    BY <2>1, <2>2, <2>3
<1>2. IInv => OvershootIsBounded
  BY <1>1 DEF OvershootIsBounded
<1> QED
  BY <1>2, Invariance, PTL

----------------------------------------------------------------------------
(* DailyRateLimit implements DailyQuota: each step of a call, and each     *)
(* fault, is a step of the quota or changes nothing that the quota shows.  *)

ChargedCalls == {c \in Calls : recDay[c] # 0}
Charges == [d \in Days |-> Cardinality(Charged(d))]
RefusedCalls == {<<c, askDay[c]>> : c \in {q \in Calls : progress[q] = "refused"}}

\* A call that has come as far as recording, and no further, is charged to no
\* day and refused for none.
LEMMA StillOpen ==
  ASSUME IInv, NEW c \in Calls, progress[c] \in {"asking", "admitted", "worked"}
  PROVE  c \notin ChargedCalls /\ \A d \in Days : <<c, d>> \notin RefusedCalls
  BY DEF IInv, DatesFollowSteps, TypeOK, ChargedCalls, RefusedCalls

\* Steps that touch neither dates nor refusals leave what the quota shows of them.
LEMMA SameView ==
  ASSUME recDay' = recDay
  PROVE  ChargedCalls' = ChargedCalls /\ Charges' = Charges
  BY DEF ChargedCalls, Charges, Charged, Days

\* A step that refuses no call leaves the refused ones as they are.
LEMMA SameRefusals ==
  ASSUME IInv, NEW c \in Calls, NEW s \in Steps \ {"refused"},
         progress' = [progress EXCEPT ![c] = s], progress[c] # "refused",
         \A q \in Calls : progress[q] = "refused" => askDay'[q] = askDay[q]
  PROVE  RefusedCalls' = RefusedCalls
<1>1. \A q \in Calls : progress'[q] = "refused" <=> progress[q] = "refused"
  BY DEF IInv, TypeOK
<1> QED
  BY <1>1 DEF RefusedCalls

\* A call refuses for the day it asked for.
LEMMA RefusalStep ==
  ASSUME IInv, IInv', NEW c \in Calls, Admit(c), AtLimit(count[askDay[c]]),
         NEW d, d = askDay[c]
  PROVE  Quota!Refuse(c, d) /\ d \in Days
<1>1. /\ d \in Days /\ d <= day /\ day \in Days
      /\ progress[c] = "asking" /\ progress' = [progress EXCEPT ![c] = "refused"]
      /\ UNCHANGED <<day, count, askDay, recDay, faulty>>
  BY DEF Admit, IInv, TypeOK, DatesFollowSteps, Days
<1>2. ChargedCalls' = ChargedCalls /\ Charges' = Charges
  BY <1>1, SameView
<1>3. RefusedCalls' = RefusedCalls \cup {<<c, d>>}
  <2>1. \A q \in Calls : progress'[q] = "refused" <=> progress[q] = "refused" \/ q = c
    BY <1>1 DEF IInv, TypeOK
  <2> QED
    BY <2>1, <1>1 DEF RefusedCalls
<1>4. c \notin ChargedCalls /\ \A e \in Days : <<c, e>> \notin RefusedCalls
  BY <1>1, StillOpen
<1>5. d \notin faulty => Charges[d] >= Limit
  <2> SUFFICES ASSUME d \notin faulty PROVE Cardinality(Charged(d)) >= Limit
    BY <1>1 DEF Charges
  <2>1. Cardinality(Recorded(d)) >= Limit
    <3>1. count[d] >= Limit /\ count[d] \in Nat
      BY <1>1 DEF AtLimit, IInv, TypeOK
    <3> QED
      BY <3>1, <1>1, CallsAreFinite DEF IInv, CleanDayCountIsExact, CleanDays
  <2>2. Recorded(d) \subseteq Charged(d)
    BY DEF Recorded
  <2> QED
    BY <2>1, <2>2, SubsetCount, CallsAreFinite
<1> QED
  BY <1>1, <1>2, <1>3, <1>4, <1>5 DEF Quota!Refuse, Quota!Open, Quota!Days, Days, ChargedCalls, Charges, RefusedCalls

\* A success is charged when its record is begun.
LEMMA ChargeStep ==
  ASSUME IInv, IInv', OvershootIsBounded', NEW c \in Calls, BeginRecord(c)
  PROVE  Quota!Charge(c)
<1>1. /\ day \in Days /\ progress[c] = "worked" /\ progress' = [progress EXCEPT ![c] = "recording"]
      /\ recDay' = [recDay EXCEPT ![c] = day]
      /\ UNCHANGED <<day, count, askDay, faulty>>
  BY DEF BeginRecord, IInv, TypeOK
<1>2. c \notin ChargedCalls /\ \A d \in Days : <<c, d>> \notin RefusedCalls
  BY <1>1, StillOpen
<1>3. RefusedCalls' = RefusedCalls
  BY <1>1, SameRefusals DEF Steps, InFlightSteps
<1>4. Charged(day)' = Charged(day) \cup {c}
  BY <1>1 DEF Charged, IInv, TypeOK
<1>5. ChargedCalls' = ChargedCalls \cup {c} /\ Charges' = [Charges EXCEPT ![day] = @ + 1]
  <2>1. \A d \in Days : d # day => Charged(d)' = Charged(d)
    <3> SUFFICES ASSUME NEW d \in Days, d # day PROVE Charged(d)' = Charged(d)
      OBVIOUS
    <3>1. recDay[c] = 0 /\ d # 0
      BY <1>2 DEF ChargedCalls, Days
    <3> QED
      BY <1>1, <3>1 DEF Charged, IInv, TypeOK
  <2>2. Cardinality(Charged(day)') = Cardinality(Charged(day)) + 1
    <3>1. c \notin Charged(day)
      BY <1>1, <1>2 DEF ChargedCalls, Charged, Days
    <3> QED
      BY <1>4, <3>1, OneMoreCount, CallsAreFinite
  <2>3. ChargedCalls' = ChargedCalls \cup {c}
    BY <1>1 DEF ChargedCalls, IInv, TypeOK, Days
  <2>4. Charges' = [Charges EXCEPT ![day] = @ + 1]
    BY <2>1, <2>2, <1>1 DEF Charges, Days
  <2> QED
    BY <2>3, <2>4
<1>6. day \notin faulty => Charges[day] < Limit + (MaxInFlight - 1)
  <2> SUFFICES ASSUME day \notin faulty
               PROVE  Cardinality(Charged(day)) < Limit + (MaxInFlight - 1)
    BY <1>1 DEF Charges
  <2>1. c \notin Charged(day)
    BY <1>1, <1>2 DEF ChargedCalls, Charged, Days
  <2>2. Cardinality(Charged(day)') = Cardinality(Charged(day)) + 1
    BY <1>4, <2>1, OneMoreCount, CallsAreFinite
  <2>3. Cardinality(Charged(day)') <= Limit + MaxInFlight - 1
    BY <1>1 DEF OvershootIsBounded, CleanDays, Days
  <2> QED
    BY <2>2, <2>3, CallsAreFinite
<1> QED
  BY <1>1, <1>2, <1>3, <1>5, <1>6 DEF Quota!Charge, Quota!Open, Quota!Days, Days, ChargedCalls, Charges, RefusedCalls

\* The script counts a success once, or, where it is lost or sent again, on a
\* day that is then disturbed.
LEMMA CountStep ==
  ASSUME IInv, IInv', NEW c \in Calls, Record(c) \/ RecordUnreliably(c)
  PROVE  Quota!QuotaNext
<1> DEFINE d == recDay[c]
           n == count'[d]
           disturbance == IF Record(c) THEN {} ELSE {d}
<1>1. /\ d \in Days /\ progress[c] = "recording" /\ progress' = [progress EXCEPT ![c] = "done"]
      /\ UNCHANGED <<day, askDay, recDay>>
      /\ faulty' = faulty \cup disturbance /\ disturbance \in SUBSET Days
  BY DEF Record, RecordUnreliably, IInv, TypeOK, DatesFollowSteps, Days
<1>2. PICK times \in Nat : /\ count' = [count EXCEPT ![d] = Counted(@, times)]
                           /\ Record(c) => times = 1
  BY DEF Record, RecordUnreliably
<1>3. /\ n \in count[d] .. Limit /\ n \in 0 .. Limit
      /\ count' = [count EXCEPT ![d] = n]
      /\ Record(c) => n <= count[d] + 1
  BY <1>1, <1>2 DEF Counted, IInv, TypeOK
<1>4. ChargedCalls' = ChargedCalls /\ Charges' = Charges /\ RefusedCalls' = RefusedCalls
  BY <1>1, SameView, SameRefusals DEF Steps, InFlightSteps
<1>5. d \notin faulty \cup disturbance =>
        n <= count[d] + 1 /\ n <= Charges[d]
  <2> SUFFICES ASSUME d \notin faulty', Record(c)
               PROVE  n <= count[d] + 1 /\ n <= Cardinality(Charged(d))
    BY <1>1 DEF Charges
  <2>1. Charged(d)' = Charged(d)
    BY <1>1 DEF Charged
  <2>2. n <= Cardinality(Recorded(d)') /\ n \in Nat /\ Cardinality(Recorded(d)') \in Nat
    <3>1. IsFiniteSet(Recorded(d)')
      BY SubsetCount DEF Recorded, Charged
    <3>2. Cardinality(Recorded(d)') \in Nat
      BY <3>1, FS_CardinalityType
    <3>3. n = IF Cardinality(Recorded(d)') >= Limit THEN Limit ELSE Cardinality(Recorded(d)')
      BY <1>1 DEF IInv, CleanDayCountIsExact, CleanDays, Days
    <3> QED
      BY <3>2, <3>3
  <2>3. Recorded(d)' \subseteq Charged(d)
    BY <2>1 DEF Recorded
  <2>4. Cardinality(Recorded(d)') <= Cardinality(Charged(d))
    BY <2>3, SubsetCount, CallsAreFinite
  <2> QED
    BY <2>2, <2>4, <1>3, CallsAreFinite
<1>6. Quota!Count(d, n, disturbance)
  BY <1>1, <1>3, <1>4, <1>5 DEF Quota!Count, ChargedCalls, Charges, RefusedCalls
<1> QED
  BY <1>1, <1>3, <1>6 DEF Quota!QuotaNext, Quota!Days, Days

\* Redis fails to answer a check, or the process dies.
LEMMA DisturbingStep ==
  ASSUME IInv, (\E c \in Calls : AdmitUnchecked(c)) \/ Crash
  PROVE  Quota!QuotaNext
<1>1. CASE Crash
  <2>1. RefusedCalls' = RefusedCalls /\ ChargedCalls' = ChargedCalls /\ Charges' = Charges
    <3>1. \A q \in Calls : progress'[q] = "refused" <=> progress[q] = "refused"
      BY <1>1 DEF Crash, InFlight, InFlightSteps, IInv, TypeOK
    <3> QED
      BY <1>1, <3>1, SameView DEF Crash, RefusedCalls
  <2>2. PICK days \in SUBSET Days : faulty' = faulty \cup days
    <3> DEFINE days == {day} \cup {recDay[c] : c \in {q \in Calls : progress[q] = "recording"}}
    <3>1. days \in SUBSET Days
      BY DEF IInv, TypeOK, DatesFollowSteps, Days
    <3>2. faulty' = faulty \cup days
      BY <1>1 DEF Crash
    <3> QED
      BY <3>1, <3>2
  <2>3. Quota!Disturb(days)
    BY <1>1, <2>1, <2>2 DEF Crash, Quota!Disturb, ChargedCalls, Charges, RefusedCalls
  <2> QED
    BY <2>2, <2>3 DEF Quota!QuotaNext, Quota!Days, Days
<1>2. ASSUME NEW c \in Calls, AdmitUnchecked(c) PROVE Quota!QuotaNext
  <2>1. /\ progress[c] = "asking" /\ progress' = [progress EXCEPT ![c] = "admitted"]
        /\ UNCHANGED <<day, count, askDay, recDay>>
        /\ faulty' = faulty \cup {askDay[c]} /\ askDay[c] \in Days
    BY <1>2 DEF AdmitUnchecked, IInv, TypeOK, DatesFollowSteps, Days
  <2>2. RefusedCalls' = RefusedCalls /\ ChargedCalls' = ChargedCalls /\ Charges' = Charges
    BY <2>1, SameView, SameRefusals DEF Steps, InFlightSteps
  <2>3. Quota!Disturb({askDay[c]})
    BY <2>1, <2>2 DEF Quota!Disturb, ChargedCalls, Charges, RefusedCalls
  <2> QED
    BY <2>1, <2>3 DEF Quota!QuotaNext, Quota!Days, Days
<1> QED
  BY <1>1, <1>2

\* Every step is one of the quota the service promises, or none.
LEMMA ImplementationStep ==
  ASSUME IInv, IInv', OvershootIsBounded', [Next]_vars
  PROVE  [Quota!QuotaNext]_(Quota!quotaVars)
<1> DEFINE Same == UNCHANGED <<day, ChargedCalls, Charges, count, RefusedCalls, faulty>>
<1>0. Same => UNCHANGED Quota!quotaVars
  BY DEF Quota!quotaVars, ChargedCalls, Charges, RefusedCalls
<1>1. ASSUME NEW c \in Calls, CallStep(c) PROVE Quota!QuotaNext \/ Same
  <2>1. CASE AskQuota(c)
    <3>1. \A q \in Calls : progress[q] = "refused" => askDay'[q] = askDay[q]
      BY <2>1 DEF AskQuota, IInv, TypeOK
    <3> QED
      BY <2>1, <3>1, SameView, SameRefusals DEF AskQuota, Steps, InFlightSteps
  <2>2. CASE Admit(c)
    <3>1. CASE AtLimit(count[askDay[c]])
      <4>1. PICK d : d = askDay[c]
        OBVIOUS
      <4>2. Quota!Refuse(c, d) /\ d \in Quota!Days
        BY <2>2, <3>1, <4>1, RefusalStep DEF Quota!Days, Days
      <4> QED
        BY <4>2 DEF Quota!QuotaNext
    <3>2. CASE ~AtLimit(count[askDay[c]])
      BY <2>2, <3>2, SameView, SameRefusals DEF Admit, Steps, InFlightSteps
    <3> QED
      BY <3>1, <3>2
  <2>3. CASE AdmitUnchecked(c)     BY <2>3, DisturbingStep
  <2>4. CASE Succeed(c) \/ Fail(c)
    BY <2>4, SameView, SameRefusals DEF Succeed, Fail, Steps, InFlightSteps
  <2>5. CASE BeginRecord(c)
    BY <2>5, ChargeStep DEF Quota!QuotaNext
  <2>6. CASE Record(c) \/ RecordUnreliably(c)
    BY <2>6, CountStep
  <2> QED
    BY <1>1, <2>1, <2>2, <2>3, <2>4, <2>5, <2>6 DEF CallStep
<1>2. CASE Midnight
  <2>1. RefusedCalls' = RefusedCalls /\ ChargedCalls' = ChargedCalls /\ Charges' = Charges
    BY <1>2, SameView DEF Midnight, RefusedCalls
  <2>2. Quota!NextDay
    BY <1>2, <2>1 DEF Midnight, Quota!NextDay, ChargedCalls, Charges, RefusedCalls
  <2> QED
    BY <2>2 DEF Quota!QuotaNext
<1>3. CASE Crash              BY <1>3, DisturbingStep
<1>4. CASE UNCHANGED vars
  <2>1. recDay' = recDay /\ RefusedCalls' = RefusedCalls
    BY <1>4 DEF vars, RefusedCalls
  <2>2. Same
    BY <1>4, <2>1, SameView DEF vars
  <2> QED
    BY <1>0, <2>2
<1> QED
  BY <1>0, <1>1, <1>2, <1>3, <1>4 DEF Next

\* For any number of calls and days, any limit and any degree of concurrency, and whatever
\* Redis and the process do: the service behaves as a daily quota whose limit is exceeded
\* by at most MaxInFlight - 1 successes of a day.
THEOREM QuotaIsImplemented == Spec => ImplementsDailyQuota
<1>1. Init => Quota!QuotaInit
  <2> SUFFICES ASSUME Init PROVE Quota!QuotaInit
    OBVIOUS
  <2>1. \A d \in Days : Charged(d) = {}
    BY DEF Init, Charged, Days
  <2>2. \A d \in Days : Cardinality(Charged(d)) = 0
    BY <2>1, FS_EmptySet
  <2> QED
    BY <2>2 DEF Init, Quota!QuotaInit, Days, Quota!Days
<1>2. IInv /\ IInv' /\ OvershootIsBounded' /\ [Next]_vars => [Quota!QuotaNext]_(Quota!quotaVars)
  BY ImplementationStep
<1>3. Spec => Quota!QuotaSpec
  BY <1>1, <1>2, Invariance, OvershootBound, PTL DEF Spec, Quota!QuotaSpec
<1> QED
  BY <1>3 DEF ImplementsDailyQuota
=============================================================================
