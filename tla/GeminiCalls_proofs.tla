------------------------- MODULE GeminiCalls_proofs -------------------------
(***************************************************************************)
(* The pool's invariants, for any number of callers, keys and models; and  *)
(* what a petition claims, for any replies.                                *)
(***************************************************************************)
EXTENDS Assessments, FiniteSetTheorems, WellFoundedInduction, TLAPS

\* Modulo, as far as it is needed: below twice the modulus.
LEMMA ModSmall ==
    ASSUME NEW K \in Nat \ {0}, NEW x \in Nat, x < 2 * K
    PROVE  x % K = IF x < K THEN x ELSE x - K
  BY SMT

\* Modulo KeyCount there are only keys.
LEMMA KeysModulo == ASSUME NEW x \in Nat PROVE x % KeyCount \in Keys
  BY CallAssumption, SMT DEF Keys

\* The keys to fail over to are keys.
LEMMA FailoverType ==
    ASSUME NEW start \in Keys
    PROVE  FailoverIndices(start) \in Seq(Keys)
<1>1. KeyCount - 1 \in Nat  BY CallAssumption
<1>2. \A i \in 1..(KeyCount - 1) : (start + i) % KeyCount \in Keys
  BY <1>1, KeysModulo DEF Keys
<1>. QED  BY <1>1, <1>2 DEF FailoverIndices

\* Beginning an attempt keeps a call in order.
LEMMA BeginType ==
    ASSUME TypeOK, NEW c \in Callers, Begin(c)
    PROVE  /\ state' \in [Callers -> {"idle", "turn", "read", "write", "ask", "pause"} \cup Ended]
           /\ ring' \in [Callers -> Seq(Keys)]
           /\ state'[c] = "ask" => ring'[c] # << >>
           /\ \A d \in Callers : d # c => state'[d] = state[d] /\ ring'[d] = ring[d]
           /\ state'[c] \in {"turn", "ask"}
<1>1. 0 \in Keys  BY CallAssumption DEF Keys
<1>2. <<0>> \in Seq(Keys) /\ << >> \in Seq(Keys) /\ <<0>> # << >>  BY <1>1
<1>. QED  BY <1>2 DEF Begin, TypeOK

USE DEF Ended

\* A call that asks has a model and a key to ask.
LEMMA Asking ==
    ASSUME TypeOK, NEW c \in Callers, state[c] = "ask"
    PROVE  /\ kind[c] \in Kinds
           /\ Model(c) \in Models
           /\ ring[c] \in Seq(Keys) /\ Len(ring[c]) \in Nat \ {0}
           /\ Head(ring[c]) \in Keys
           /\ Tail(ring[c]) \in Seq(Keys)
           /\ Len(ring[c]) > 1 => Tail(ring[c]) # << >>
<1>1. kind[c] \in Kinds /\ model[c] \in 1..Len(Chain[kind[c]]) /\ ring[c] # << >>
  BY DEF TypeOK
<1>2. Chain[kind[c]] \in Seq(Models)  BY <1>1, CallAssumption
<1>3. Model(c) \in Models  BY <1>1, <1>2 DEF Model
<1>4. ring[c] \in Seq(Keys)  BY DEF TypeOK
<1>5. \A s \in Seq(Keys) : s # << >> =>
        /\ Len(s) \in Nat \ {0} /\ Head(s) \in Keys /\ Tail(s) \in Seq(Keys)
        /\ Len(s) > 1 => Len(Tail(s)) > 0
  OBVIOUS
<1>6. \A s \in Seq(Keys) : Len(s) > 0 => s # << >>  OBVIOUS
<1>7. /\ Len(ring[c]) \in Nat \ {0} /\ Head(ring[c]) \in Keys /\ Tail(ring[c]) \in Seq(Keys)
      /\ Len(ring[c]) > 1 => Len(Tail(ring[c])) > 0
  BY <1>1, <1>4, <1>5, Zenon
<1>. QED  BY <1>1, <1>3, <1>4, <1>6, <1>7, Zenon

\* Asking without an answer adds a pair of a model and a key.
LEMMA UnansweredType ==
    ASSUME TypeOK, NEW c \in Callers, Unanswered(c)
    PROVE  asked' \in [Callers -> SUBSET (Models \X Keys)]
<1>1. state[c] = "ask"  BY DEF Unanswered
<1>2. <<Model(c), Head(ring[c])>> \in Models \X Keys  BY <1>1, Asking
<1>. QED  BY <1>2 DEF Unanswered, TypeOK

\* A call that stops asking, for now or for good.
LEMMA StopType ==
    ASSUME TypeOK, NEW c \in Callers, state[c] = "ask",
           NEW how \in {"pause", "failed"},
           state' = [state EXCEPT ![c] = how], ring' = [ring EXCEPT ![c] = << >>],
           UNCHANGED <<poolVars, kind, model>>,
           attempt' \in [Callers -> Nat],
           \A d \in Callers : attempt'[d] = attempt[d] \/ attempt'[d] \in 1..Attempts[kind[d]],
           error' \in [Callers -> Errors \cup {None}],
           skipped' \in [Callers -> SUBSET Models],
           asked' \in [Callers -> SUBSET (Models \X Keys)]
    PROVE  TypeOK'
<1>1. state' \in [Callers -> {"idle", "turn", "read", "write", "ask", "pause"} \cup Ended]
  BY DEF TypeOK
<1>2. << >> \in Seq(Keys)  OBVIOUS
<1>3. ring' \in [Callers -> Seq(Keys)]  BY <1>2 DEF TypeOK
<1>4. ASSUME NEW d \in Callers, state'[d] # "idle"
      PROVE  /\ kind'[d] \in Kinds
             /\ model'[d] \in 1..Len(Chain[kind'[d]])
             /\ attempt'[d] \in 1..Attempts[kind'[d]]
             /\ state'[d] = "ask" => ring'[d] # << >>
  <2>1. state[d] # "idle" /\ kind' = kind /\ model' = model  BY <1>4 DEF TypeOK
  <2>2. state'[d] = "ask" => d # c /\ state[d] = "ask"  BY DEF TypeOK
  <2>3. d # c => ring'[d] = ring[d]  BY DEF TypeOK
  <2>. QED  BY <2>1, <2>2, <2>3 DEF TypeOK
<1>. QED  BY <1>1, <1>3, <1>4 DEF TypeOK, poolVars

\* Leaving a model, for the next one or for good.
LEMMA LeaveModelType ==
    ASSUME TypeOK, NEW c \in Callers, state[c] = "ask", LeaveModel(c),
           UNCHANGED <<poolVars, kind>>,
           error' \in [Callers -> Errors \cup {None}],
           skipped' \in [Callers -> SUBSET Models],
           asked' \in [Callers -> SUBSET (Models \X Keys)]
    PROVE  TypeOK'
<1>1. kind[c] \in Kinds /\ model[c] \in 1..Len(Chain[kind[c]]) /\ attempt[c] \in 1..Attempts[kind[c]]
  BY DEF TypeOK
<1>2. Len(Chain[kind[c]]) \in Nat /\ Attempts[kind[c]] \in Nat \ {0}
  BY <1>1, CallAssumption
<1>3. CASE model[c] < Len(Chain[kind[c]])
  <2>1. Begin(c)  BY <1>3 DEF LeaveModel
  <2>2. /\ model' = [model EXCEPT ![c] = @ + 1]
        /\ attempt' = [attempt EXCEPT ![c] = 1]
    BY <1>3 DEF LeaveModel
  <2>3. model[c] + 1 \in 1..Len(Chain[kind[c]]) /\ 1 \in 1..Attempts[kind[c]]
    BY <1>1, <1>2, <1>3
  <2>. QED  BY <2>1, <2>2, <2>3, <1>1, BeginType DEF TypeOK, poolVars
<1>4. CASE ~ (model[c] < Len(Chain[kind[c]]))
  <2>1. /\ state' = [state EXCEPT ![c] = "failed"]
        /\ ring' = [ring EXCEPT ![c] = << >>]
        /\ UNCHANGED <<model, attempt>>
    BY <1>4 DEF LeaveModel
  <2>2. attempt' \in [Callers -> Nat]  BY <2>1 DEF TypeOK
  <2>. QED  BY <2>1, <2>2, StopType
<1>. QED  BY <1>3, <1>4

\* The types of the pool and of the calls, for any callers, keys, chains and attempts.
THEOREM TypeCorrect == Calls => []TypeOK
<1>1. Init => TypeOK
  BY CallAssumption DEF Init, TypeOK, Keys
<1>2. TypeOK /\ [Next]_vars => TypeOK'
  <2>. SUFFICES ASSUME TypeOK, [Next]_vars PROVE TypeOK'
    OBVIOUS
  <2>1. ASSUME NEW c \in Callers, NEW k \in Kinds, Start(c, k) PROVE TypeOK'
    <3>1. Begin(c)  BY <2>1 DEF Start
    <3>2. 1 \in 1..Len(Chain[k]) /\ 1 \in 1..Attempts[k]  BY CallAssumption
    <3>. QED  BY <2>1, <3>1, <3>2, BeginType DEF Start, TypeOK, poolVars
  <2>2. ASSUME NEW c \in Callers, Enter(c) PROVE TypeOK'
    BY <2>2 DEF Enter, TypeOK
  <2>3. ASSUME NEW c \in Callers, ReadIndex(c) PROVE TypeOK'
    BY <2>3 DEF ReadIndex, TypeOK
  <2>4. ASSUME NEW c \in Callers, WriteIndex(c) PROVE TypeOK'
    <3>1. mine[c] \in Keys /\ taken \in Seq(Keys)  BY DEF TypeOK
    <3>2. mine[c] + 1 \in Nat /\ 0 \in Keys  BY <3>1, CallAssumption DEF Keys
    <3>3. index' \in Keys  BY <2>4, <3>2, KeysModulo DEF WriteIndex
    <3>4. taken' \in Seq(Keys)  BY <2>4, <3>1 DEF WriteIndex
    <3>5. <<mine[c]>> \o FailoverIndices(mine[c]) \in Seq(Keys) \ {<< >>}
      <4>1. FailoverIndices(mine[c]) \in Seq(Keys)  BY <3>1, FailoverType
      <4>2. <<mine[c]>> \in Seq(Keys)  BY <3>1
      <4>. QED  BY <4>1, <4>2
    <3>. QED  BY <2>4, <3>2, <3>3, <3>4, <3>5 DEF WriteIndex, TypeOK
  <2>5. ASSUME NEW c \in Callers, Answers(c) \/ Cancel(c) PROVE TypeOK'
    <3>1. \E how \in Ended : Over(c, how)  BY <2>5 DEF Answers, Cancel
    <3>2. state[c] # "idle"  BY <2>5 DEF Answers, Cancel
    <3>3. kind[c] \in Kinds  BY <3>2 DEF TypeOK
    <3>4. 1 \in 1..Len(Chain[kind[c]]) /\ 1 \in 1..Attempts[kind[c]]  BY <3>3, CallAssumption
    <3>. QED  BY <3>1, <3>4, <3>3 DEF Over, TypeOK, poolVars
  <2>6. ASSUME NEW c \in Callers, NextKey(c) PROVE TypeOK'
    <3>1. state[c] = "ask" /\ Unanswered(c)  BY <2>6 DEF NextKey, Unanswered
    <3>2. Tail(ring[c]) \in Seq(Keys) \ {<< >>}  BY <2>6, <3>1, Asking DEF NextKey
    <3>. QED  BY <2>6, <3>1, <3>2, UnansweredType DEF NextKey, TypeOK, poolVars
  <2>7. ASSUME NEW c \in Callers, SkipModel(c) PROVE TypeOK'
    <3>1. PICK e \in Skipping : Leaves(c, e)  BY <2>7 DEF SkipModel
    <3>2. state[c] = "ask" /\ Unanswered(c)  BY <3>1 DEF Leaves, Unanswered
    <3>3. error' \in [Callers -> Errors \cup {None}]
      BY <3>1 DEF Leaves, TypeOK, Skipping, Errors
    <3>4. skipped' \in [Callers -> SUBSET Models]
      BY <2>7, <3>2, Asking DEF SkipModel, TypeOK
    <3>. QED  BY <2>7, <3>2, <3>3, <3>4, UnansweredType, LeaveModelType DEF SkipModel
  <2>8. ASSUME NEW c \in Callers, Exhausted(c) PROVE TypeOK'
    <3>1. PICK e \in Retryable : Leaves(c, e)  BY <2>8 DEF Exhausted
    <3>2. state[c] = "ask" /\ Unanswered(c)  BY <3>1 DEF Leaves, Unanswered
    <3>3. error' \in [Callers -> Errors \cup {None}]
      BY <3>1 DEF Leaves, TypeOK, Retryable, Errors
    <3>4. skipped' \in [Callers -> SUBSET Models]
      BY <2>8 DEF Exhausted, TypeOK
    <3>. QED  BY <2>8, <3>2, <3>3, <3>4, UnansweredType, LeaveModelType DEF Exhausted
  <2>9. ASSUME NEW c \in Callers, Pause(c) PROVE TypeOK'
    <3>1. PICK e \in Retryable : Leaves(c, e)  BY <2>9 DEF Pause
    <3>2. state[c] = "ask" /\ Unanswered(c)  BY <3>1 DEF Leaves, Unanswered
    <3>3. error' \in [Callers -> Errors \cup {None}]
      BY <3>1 DEF Leaves, TypeOK, Retryable, Errors
    <3>4. kind[c] \in Kinds /\ attempt[c] \in 1..Attempts[kind[c]]  BY <3>2 DEF TypeOK
    <3>5. Attempts[kind[c]] \in Nat  BY <3>4, CallAssumption
    <3>6. attempt[c] + 1 \in 1..Attempts[kind[c]]  BY <2>9, <3>4, <3>5 DEF Pause
    <3>7. /\ attempt' \in [Callers -> Nat]
          /\ \A d \in Callers : attempt'[d] = attempt[d] \/ attempt'[d] \in 1..Attempts[kind[d]]
      BY <2>9, <3>6 DEF Pause, TypeOK
    <3>8. skipped' \in [Callers -> SUBSET Models]  BY <2>9 DEF Pause, TypeOK
    <3>. QED  BY <2>9, <3>2, <3>3, <3>7, <3>8, UnansweredType, StopType DEF Pause
  <2>10. ASSUME NEW c \in Callers, Resume(c) PROVE TypeOK'
    <3>1. Begin(c)  BY <2>10 DEF Resume
    <3>2. state[c] = "pause"  BY <2>10 DEF Resume
    <3>. QED  BY <2>10, <3>1, <3>2, BeginType DEF Resume, TypeOK, poolVars
  <2>11. ASSUME NEW c \in Callers, Raise(c) PROVE TypeOK'
    <3>1. PICK e \in Errors : Leaves(c, e)  BY <2>11 DEF Raise
    <3>2. state[c] = "ask" /\ Unanswered(c)  BY <3>1 DEF Leaves, Unanswered
    <3>3. error' \in [Callers -> Errors \cup {None}]
      BY <3>1 DEF Leaves, TypeOK
    <3>4. attempt' \in [Callers -> Nat] /\ skipped' \in [Callers -> SUBSET Models]
      BY <2>11 DEF Raise, TypeOK
    <3>5. attempt' = attempt  BY <2>11 DEF Raise
    <3>. QED  BY <2>11, <3>2, <3>3, <3>4, <3>5, UnansweredType, StopType DEF Raise
  <2>12. ASSUME UNCHANGED vars PROVE TypeOK'
    BY <2>12 DEF vars, poolVars, callVars, TypeOK, Model
  <2>. QED
    BY <2>1, <2>2, <2>3, <2>4, <2>5, <2>6, <2>7, <2>8, <2>9, <2>10, <2>11, <2>12 DEF Next, Step
<1>. QED  BY <1>1, <1>2, PTL DEF Calls
-----------------------------------------------------------------------------
(* Taking turns *)

\* Who is inside _advance_index has the lock, and the index it has read still holds.
Inside ==
    \A c \in Callers :
        /\ state[c] \in {"read", "write"} => poolLock = c
        /\ state[c] = "write" => mine[c] = index

\* The keys were taken one after the other, and the next one is next.
InRow ==
    /\ Len(taken) <= KeyCount
    /\ \A i \in 1..Len(taken) : taken[i] = (taken[1] + i - 1) % KeyCount
    /\ taken # << >> => index = (taken[1] + Len(taken)) % KeyCount

TurnInv == Inside /\ InRow

\* At most as many keys in a row as there are keys are all different.
LEMMA InRowDistinct == ASSUME TypeOK, InRow PROVE KeysTakeTurns
<1>. SUFFICES ASSUME NEW i \in 1..Len(taken), NEW j \in 1..Len(taken), i < j
     PROVE  taken[i] # taken[j]
  BY DEF KeysTakeTurns
<1>1. KeyCount \in Nat \ {0} /\ Len(taken) \in Nat /\ taken[1] \in Keys
  BY CallAssumption DEF TypeOK
<1>. DEFINE x == taken[1] + i - 1
            y == taken[1] + j - 1
<1>a. Len(taken) <= KeyCount  BY DEF InRow
<1>b. taken[1] \in Nat /\ taken[1] < KeyCount  BY <1>1 DEF Keys
<1>c. i \in Nat /\ j \in Nat /\ 1 <= i /\ j <= Len(taken)  BY <1>1
<1>2. /\ x \in Nat /\ y \in Nat /\ x < y /\ y - x < KeyCount
      /\ x < 2 * KeyCount /\ y < 2 * KeyCount
  BY <1>1, <1>a, <1>b, <1>c
<1>3. taken[i] = x % KeyCount /\ taken[j] = y % KeyCount  BY DEF InRow
<1>. HIDE DEF x, y
<1>4. x % KeyCount = IF x < KeyCount THEN x ELSE x - KeyCount  BY <1>1, <1>2, ModSmall
<1>5. y % KeyCount = IF y < KeyCount THEN y ELSE y - KeyCount  BY <1>1, <1>2, ModSmall
<1>. QED  BY <1>1, <1>2, <1>3, <1>4, <1>5

\* What does not touch the pool, and lets nobody in, disturbs nothing.
LEMMA OutsideThePool ==
    ASSUME TypeOK, TypeOK', TurnInv, UNCHANGED poolVars,
           \A d \in Callers : state'[d] \in {"read", "write"} => state'[d] = state[d]
    PROVE  TurnInv'
  BY DEF TurnInv, Inside, InRow, poolVars

\* Every step that does not take a turn is such a step.
LEMMA OtherSteps ==
    ASSUME TypeOK, NEW c \in Callers,
           \/ \E k \in Kinds : Start(c, k)
           \/ Answers(c) \/ NextKey(c) \/ SkipModel(c) \/ Exhausted(c) \/ Pause(c) \/ Resume(c) \/ Raise(c)
           \/ Cancel(c)
    PROVE  /\ UNCHANGED poolVars
           /\ \A d \in Callers : state'[d] \in {"read", "write"} => state'[d] = state[d]
<1>. DEFINE Quiet == /\ UNCHANGED poolVars
                     /\ \A d \in Callers : state'[d] \in {"read", "write"} => state'[d] = state[d]
<1>1. ASSUME Begin(c) PROVE \A d \in Callers : state'[d] \in {"read", "write"} => state'[d] = state[d]
  BY <1>1, BeginType
<1>2. ASSUME LeaveModel(c) PROVE \A d \in Callers : state'[d] \in {"read", "write"} => state'[d] = state[d]
  BY <1>1, <1>2 DEF LeaveModel, TypeOK
<1>3. ASSUME NEW k \in Kinds, Start(c, k) PROVE Quiet
  BY <1>1, <1>3 DEF Start
<1>4. CASE Answers(c) \/ Cancel(c)
  BY <1>4 DEF Answers, Cancel, Over, TypeOK
<1>5. CASE NextKey(c)
  BY <1>5 DEF NextKey
<1>6. CASE SkipModel(c) \/ Exhausted(c)
  BY <1>2, <1>6 DEF SkipModel, Exhausted
<1>7. CASE Pause(c) \/ Raise(c)
  BY <1>7 DEF Pause, Raise, TypeOK
<1>8. CASE Resume(c)
  BY <1>1, <1>8 DEF Resume
<1>. QED  BY <1>3, <1>4, <1>5, <1>6, <1>7, <1>8

\* However tasks, threads and failures interleave, the keys take turns.
THEOREM TurnsAreKept == Calls => []KeysTakeTurns
<1>1. Init => TurnInv
  BY CallAssumption DEF Init, TurnInv, Inside, InRow
<1>2. TypeOK /\ TypeOK' /\ TurnInv /\ [Next]_vars => TurnInv'
  <2>. SUFFICES ASSUME TypeOK, TypeOK', TurnInv, [Next]_vars PROVE TurnInv'
    OBVIOUS
  <2>1. ASSUME NEW c \in Callers, Enter(c) PROVE TurnInv'
    <3>1. None \notin Callers  BY CallAssumption
    <3>2. \A d \in Callers : state[d] \notin {"read", "write"}
      BY <2>1, <3>1 DEF Enter, TurnInv, Inside
    <3>3. Inside'  BY <2>1, <3>2 DEF Enter, Inside, TypeOK
    <3>4. InRow'  BY <2>1 DEF Enter, InRow, TurnInv
    <3>. QED  BY <3>3, <3>4 DEF TurnInv
  <2>2. ASSUME NEW c \in Callers, ReadIndex(c) PROVE TurnInv'
    <3>1. poolLock = c  BY <2>2 DEF ReadIndex, TurnInv, Inside
    <3>2. Inside'  BY <2>2, <3>1 DEF ReadIndex, TurnInv, Inside, TypeOK
    <3>3. InRow'  BY <2>2 DEF ReadIndex, InRow, TurnInv
    <3>. QED  BY <3>2, <3>3 DEF TurnInv
  <2>3. ASSUME NEW c \in Callers, WriteIndex(c) PROVE TurnInv'
    <3>1. poolLock = c /\ mine[c] = index /\ state[c] = "write"
      BY <2>3 DEF WriteIndex, TurnInv, Inside
    <3>2. \A d \in Callers : d # c => state[d] \notin {"read", "write"}
      BY <3>1 DEF TurnInv, Inside
    <3>3. Inside'  BY <2>3, <3>2 DEF WriteIndex, Inside, TypeOK
    <3>4. InRow'
      <4>1. /\ index \in Keys /\ index \in Nat /\ KeyCount \in Nat \ {0} /\ index < KeyCount
            /\ taken \in Seq(Keys) /\ Len(taken) \in Nat
        BY CallAssumption DEF TypeOK, Keys
      <4>2. index' = (index + 1) % KeyCount  BY <2>3, <3>1 DEF WriteIndex
      <4>6. index < 2 * KeyCount /\ index + 1 \in Nat /\ index + 1 < 2 * KeyCount
        BY <4>1
      <4>3. index % KeyCount = index  BY <4>1, <4>6, ModSmall
      <4>4. CASE Len(taken) = KeyCount \/ taken = << >>
        <5>a. Append(<< >>, index) = <<index>> /\ Len(<< >>) = 0  OBVIOUS
        <5>1. taken' = <<index>>  BY <2>3, <3>1, <4>1, <4>4, <5>a DEF WriteIndex
        <5>2. Len(taken') = 1 /\ taken'[1] = index  BY <5>1
        <5>. QED  BY <4>1, <4>2, <4>3, <5>2 DEF InRow
      <4>5. CASE Len(taken) # KeyCount /\ taken # << >>
        <5>1. taken' = Append(taken, index)  BY <2>3, <3>1, <4>5 DEF WriteIndex
        <5>2. /\ Len(taken') = Len(taken) + 1 /\ taken'[Len(taken) + 1] = index
              /\ \A i \in 1..Len(taken) : taken'[i] = taken[i]
          BY <4>1, <5>1
        <5>3. Len(taken) > 0 /\ taken[1] \in Keys /\ taken'[1] = taken[1]
          BY <4>1, <4>5, <5>2
        <5>4. index = (taken[1] + Len(taken)) % KeyCount  BY <4>5 DEF TurnInv, InRow
        <5>5. Len(taken) <= KeyCount - 1  BY <4>1, <4>5 DEF TurnInv, InRow
        <5>6. \A i \in 1..Len(taken') : taken'[i] = (taken'[1] + i - 1) % KeyCount
          <6>. TAKE i \in 1..Len(taken')
          <6>1. CASE i \in 1..Len(taken)
            BY <6>1, <5>2, <5>3 DEF TurnInv, InRow
          <6>2. CASE i = Len(taken) + 1
            <7>1. taken[1] + i - 1 = taken[1] + Len(taken)  BY <6>2, <5>3, <4>1 DEF Keys
            <7>. QED  BY <6>2, <7>1, <5>2, <5>3, <5>4
          <6>. QED  BY <6>1, <6>2, <5>2, <4>1
        <5>7. index' = (taken'[1] + Len(taken')) % KeyCount
          <6>. DEFINE x == taken[1] + Len(taken)
                      y == x + 1
                      z == index + 1
          <6>0. taken[1] \in Nat /\ taken[1] < KeyCount  BY <5>3, <4>1 DEF Keys
          <6>1. x \in Nat /\ x < 2 * KeyCount /\ y \in Nat /\ y < 2 * KeyCount /\ y = x + 1
            BY <6>0, <5>5, <4>1
          <6>2. index = x % KeyCount  BY <5>4
          <6>3. taken'[1] + Len(taken') = y
            <7>1. Len(taken') = Len(taken) + 1 /\ taken'[1] = taken[1]  BY <5>2, <5>3
            <7>2. \A a, b \in Nat : a + (b + 1) = (a + b) + 1  OBVIOUS
            <7>. QED  BY <7>1, <7>2, <6>0, <4>1
          <6>7. z \in Nat /\ z < 2 * KeyCount /\ z = index + 1  BY <4>1
          <6>8. index' = z % KeyCount  BY <4>2
          <6>. HIDE DEF x, y, z
          <6>4. x % KeyCount = IF x < KeyCount THEN x ELSE x - KeyCount  BY <6>1, <4>1, ModSmall
          <6>5. y % KeyCount = IF y < KeyCount THEN y ELSE y - KeyCount  BY <6>1, <4>1, ModSmall
          <6>6. z % KeyCount = IF z < KeyCount THEN z ELSE z - KeyCount  BY <6>7, <4>1, ModSmall
          <6>9. y % KeyCount = z % KeyCount
            <7>. DEFINE xk == x % KeyCount
                        yk == y % KeyCount
                        zk == z % KeyCount
            <7>1. xk = IF x < KeyCount THEN x ELSE x - KeyCount  BY <6>4
            <7>2. yk = IF y < KeyCount THEN y ELSE y - KeyCount  BY <6>5
            <7>3. zk = IF z < KeyCount THEN z ELSE z - KeyCount  BY <6>6
            <7>4. index = xk  BY <6>2
            <7>. HIDE DEF xk, yk, zk
            <7>5. yk = zk  BY <7>1, <7>2, <7>3, <7>4, <6>1, <6>7, <4>1
            <7>. QED  BY <7>5 DEF yk, zk
          <6>. QED  BY <6>3, <6>8, <6>9
        <5>. QED  BY <5>2, <5>5, <5>6, <5>7, <4>1 DEF InRow
      <4>. QED  BY <4>4, <4>5
    <3>. QED  BY <3>3, <3>4 DEF TurnInv
  <2>4. ASSUME NEW c \in Callers,
               \/ \E k \in Kinds : Start(c, k)
               \/ Answers(c) \/ NextKey(c) \/ SkipModel(c) \/ Exhausted(c) \/ Pause(c) \/ Resume(c) \/ Raise(c)
               \/ Cancel(c)
        PROVE  TurnInv'
    BY <2>4, OtherSteps, OutsideThePool
  <2>5. ASSUME UNCHANGED vars PROVE TurnInv'
    BY <2>5, OutsideThePool DEF vars, poolVars, callVars
  <2>. QED  BY <2>1, <2>2, <2>3, <2>4, <2>5 DEF Next, Step
<1>3. TypeOK /\ TurnInv => KeysTakeTurns  BY InRowDistinct DEF TurnInv
<1>. QED  BY <1>1, <1>2, <1>3, TypeCorrect, PTL DEF Calls
-----------------------------------------------------------------------------
(* Giving up last *)

\* A model of the chain that the call is done with: skipped, or every key was asked for it.
Covered(c, i) ==
    \/ Chain[kind[c]][i] \in skipped[c]
    \/ \A k \in Keys : <<Chain[kind[c]][i], k>> \in asked[c]

\* A call at work is done with the models before its model, and will ask of it every key
\* that it has not asked; one that was told only to try again later is done with all.
CallInv(c) ==
    /\ state[c] \in {"turn", "read", "write", "ask", "pause"} =>
         \A i \in 1..Len(Chain[kind[c]]) : i < model[c] => Covered(c, i)
    /\ state[c] = "ask" =>
         \A k \in Keys : \/ <<Model(c), k>> \in asked[c]
                        \/ \E j \in 1..Len(ring[c]) : ring[c][j] = k
    /\ state[c] = "failed" /\ error[c] \in Retryable \cap Caught(c) =>
         \A i \in 1..Len(Chain[kind[c]]) : Covered(c, i)

\* From any key on, the ring goes through all keys.
LEMMA RingCovers ==
    ASSUME NEW start \in Keys, NEW k \in Keys
    PROVE  LET r == <<start>> \o FailoverIndices(start)
           IN \E j \in 1..Len(r) : r[j] = k
<1>. DEFINE r == <<start>> \o FailoverIndices(start)
<1>1. KeyCount \in Nat \ {0} /\ start \in 0..(KeyCount - 1) /\ k \in 0..(KeyCount - 1)
  BY CallAssumption DEF Keys
<1>2. /\ FailoverIndices(start) \in Seq(Keys) /\ Len(FailoverIndices(start)) = KeyCount - 1
      /\ \A i \in 1..(KeyCount - 1) : FailoverIndices(start)[i] = (start + i) % KeyCount
  <2>1. KeyCount - 1 \in Nat  BY <1>1
  <2>. QED  BY <2>1, FailoverType DEF FailoverIndices
<1>3. /\ Len(r) = KeyCount /\ r[1] = start
      /\ \A i \in 1..(KeyCount - 1) : r[i + 1] = FailoverIndices(start)[i]
  BY <1>1, <1>2
<1>. SUFFICES \E j \in 1..KeyCount : r[j] = k  BY <1>3
<1>. HIDE DEF r
<1>4. CASE k = start  BY <1>1, <1>3, <1>4
<1>5. CASE k # start
  <2>. DEFINE i == IF k > start THEN k - start ELSE k - start + KeyCount
              x == start + i
  <2>1. i \in 1..(KeyCount - 1) /\ i + 1 \in 1..KeyCount  BY <1>1, <1>5
  <2>2. x \in Nat /\ x < 2 * KeyCount /\ (IF x < KeyCount THEN x ELSE x - KeyCount) = k  BY <1>1, <1>5
  <2>3. r[i + 1] = x % KeyCount  BY <1>2, <1>3, <2>1
  <2>. HIDE DEF i, x
  <2>4. x % KeyCount = k  BY <1>1, <2>2, ModSmall
  <2>. QED  BY <2>1, <2>3, <2>4
<1>. QED  BY <1>4, <1>5

\* What a step does not touch of a call keeps it in order.
LEMMA Elsewhere ==
    ASSUME NEW d \in Callers, CallInv(d),
           state'[d] = state[d], kind'[d] = kind[d], ring'[d] = ring[d], model'[d] = model[d],
           error'[d] = error[d], skipped'[d] = skipped[d], asked'[d] = asked[d]
    PROVE  CallInv(d)'
  BY DEF CallInv, Covered, Model, Caught

\* A step of one call does not touch the others.
LEMMA OnlyTheOne ==
    ASSUME TypeOK, NEW c \in Callers, (\E k \in Kinds : Start(c, k)) \/ Step(c) \/ Cancel(c),
           NEW d \in Callers, d # c
    PROVE  /\ state'[d] = state[d] /\ kind'[d] = kind[d] /\ ring'[d] = ring[d] /\ model'[d] = model[d]
           /\ error'[d] = error[d] /\ skipped'[d] = skipped[d] /\ asked'[d] = asked[d]
<1>. DEFINE Untouched ==
         /\ state'[d] = state[d] /\ kind'[d] = kind[d] /\ ring'[d] = ring[d] /\ model'[d] = model[d]
         /\ error'[d] = error[d] /\ skipped'[d] = skipped[d] /\ asked'[d] = asked[d]
<1>1. ASSUME NEW k \in Kinds, Start(c, k) PROVE Untouched
  BY <1>1 DEF Start, Begin, TypeOK
<1>2. CASE Enter(c) \/ ReadIndex(c) \/ WriteIndex(c)
  BY <1>2 DEF Enter, ReadIndex, WriteIndex, TypeOK
<1>3. CASE Answers(c) \/ Cancel(c)
  BY <1>3 DEF Answers, Cancel, Over, TypeOK
<1>4. CASE NextKey(c)
  BY <1>4 DEF NextKey, Unanswered, TypeOK
<1>5. CASE SkipModel(c) \/ Exhausted(c)
  BY <1>5 DEF SkipModel, Exhausted, Leaves, Unanswered, LeaveModel, Begin, TypeOK
<1>6. CASE Pause(c) \/ Resume(c) \/ Raise(c)
  BY <1>6 DEF Pause, Resume, Raise, Leaves, Unanswered, Begin, TypeOK
<1>. QED  BY <1>1, <1>2, <1>3, <1>4, <1>5, <1>6 DEF Step

\* An attempt that begins without the pool asks the one key there is.
LEMMA BeginCovers ==
    ASSUME TypeOK, NEW c \in Callers, Begin(c)
    PROVE  /\ state'[c] \in {"turn", "ask"}
           /\ state'[c] = "ask" => \A k \in Keys : \E j \in 1..Len(ring'[c]) : ring'[c][j] = k
<1>1. state'[c] = (IF Enabled THEN "turn" ELSE "ask") /\ ring'[c] = IF Enabled THEN << >> ELSE <<0>>
  BY DEF Begin, TypeOK
<1>2. ~ Enabled => Keys = {0}  BY CallAssumption DEF Enabled, Keys
<1>3. Len(<<0>>) = 1 /\ <<0>>[1] = 0  OBVIOUS
<1>. QED  BY <1>1, <1>2, <1>3

\* When the last key of the ring is asked, all keys have been asked for the model.
LEMMA AllAsked ==
    ASSUME TypeOK, NEW c \in Callers, CallInv(c), Unanswered(c)
    PROVE  /\ asked[c] \subseteq asked'[c]
           /\ Len(ring[c]) = 1 => \A k \in Keys : <<Model(c), k>> \in asked'[c]
<1>1. state[c] = "ask" /\ asked'[c] = asked[c] \cup {<<Model(c), Head(ring[c])>>}
  BY DEF Unanswered, TypeOK
<1>2. ring[c] \in Seq(Keys) /\ Head(ring[c]) = ring[c][1]  BY <1>1, Asking
<1>3. \A k \in Keys : <<Model(c), k>> \in asked[c] \/ \E j \in 1..Len(ring[c]) : ring[c][j] = k
  BY <1>1 DEF CallInv
<1>. QED  BY <1>1, <1>2, <1>3

\* A model that is left when it was skipped, or when every key was asked for it.
LEMMA LeavingCovers ==
    ASSUME TypeOK, NEW c \in Callers, CallInv(c), state[c] = "ask", LeaveModel(c),
           kind' = kind, asked[c] \subseteq asked'[c], skipped[c] \subseteq skipped'[c],
           Model(c) \in skipped'[c] \/ \A k \in Keys : <<Model(c), k>> \in asked'[c]
    PROVE  CallInv(c)'
<1>. DEFINE n == Len(Chain[kind[c]])
            Done(i) == Chain[kind[c]][i] \in skipped'[c]
                         \/ \A k \in Keys : <<Chain[kind[c]][i], k>> \in asked'[c]
<1>1. model[c] \in 1..n /\ n \in Nat
  <2>1. kind[c] \in Kinds /\ model[c] \in 1..n  BY DEF TypeOK
  <2>. QED  BY <2>1, CallAssumption
<1>2. \A i \in 1..n : i < model[c] => Done(i)  BY DEF CallInv, Covered
<1>3. Done(model[c])  BY DEF Model
<1>4. \A i \in 1..n : i <= model[c] => Done(i)
  <2>1. \A i \in 1..n : i <= model[c] => i < model[c] \/ i = model[c]  BY <1>1
  <2>. HIDE DEF Done, n
  <2>. QED  BY <1>2, <1>3, <2>1
<1>5. CASE model[c] < n
  <2>1. model'[c] = model[c] + 1 /\ Begin(c)  BY <1>5 DEF LeaveModel, TypeOK
  <2>2. \A i \in 1..n : i < model'[c] => Done(i)  BY <1>1, <1>4, <2>1
  <2>. QED  BY <2>1, <2>2, BeginCovers DEF CallInv, Covered
<1>6. CASE ~ (model[c] < n)
  <2>1. state'[c] = "failed"  BY <1>6 DEF LeaveModel, TypeOK
  <2>2. \A i \in 1..n : Done(i)  BY <1>1, <1>4, <1>6
  <2>. QED  BY <2>1, <2>2 DEF CallInv, Covered
<1>. QED  BY <1>5, <1>6

\* A call that was told only to try again later has asked every key for every model it did
\* not skip, whatever the other calls do.
THEOREM CallsGiveUpLast == Calls => []GivesUpLast
<1>. DEFINE AllCalls == \A c \in Callers : CallInv(c)
<1>1. Init => AllCalls
  BY DEF Init, CallInv
<1>2. TypeOK /\ AllCalls /\ [Next]_vars => AllCalls'
  <2>. SUFFICES ASSUME TypeOK, AllCalls, [Next]_vars PROVE AllCalls'
    OBVIOUS
  <2>1. ASSUME UNCHANGED vars PROVE AllCalls'
    BY <2>1, Elsewhere DEF vars, callVars
  <2>2. ASSUME NEW c \in Callers, (\E k \in Kinds : Start(c, k)) \/ Step(c) \/ Cancel(c)
        PROVE  AllCalls'
    <3>0. CallInv(c)  OBVIOUS
    <3>. SUFFICES CallInv(c)'  BY <2>2, OnlyTheOne, Elsewhere
    <3>1. ASSUME NEW k \in Kinds, Start(c, k) PROVE CallInv(c)'
      <4>1. Begin(c) /\ model'[c] = 1  BY <3>1 DEF Start, TypeOK
      <4>2. \A i \in 1..Len(Chain[kind'[c]]) : ~ (i < model'[c])  BY <4>1
      <4>. QED  BY <4>1, <4>2, BeginCovers DEF CallInv
    <3>2. CASE Enter(c) \/ ReadIndex(c)
      BY <3>0, <3>2 DEF Enter, ReadIndex, CallInv, Covered, TypeOK
    <3>3. CASE WriteIndex(c)
      <4>1. /\ state[c] = "write" /\ state'[c] = "ask" /\ UNCHANGED <<model, error, skipped, asked, kind>>
            /\ ring'[c] = <<mine[c]>> \o FailoverIndices(mine[c]) /\ mine[c] \in Keys
        BY <3>3 DEF WriteIndex, TypeOK
      <4>2. \A k \in Keys : \E j \in 1..Len(ring'[c]) : ring'[c][j] = k  BY <4>1, RingCovers
      <4>. QED  BY <3>0, <4>1, <4>2 DEF CallInv, Covered
    <3>4. CASE Answers(c) \/ Cancel(c)
      BY <3>4 DEF Answers, Cancel, Over, TypeOK, CallInv
    <3>5. CASE NextKey(c)
      <4>1. /\ Unanswered(c) /\ state[c] = "ask" /\ Len(ring[c]) > 1 /\ ring'[c] = Tail(ring[c])
            /\ UNCHANGED <<state, model, error, skipped, kind>>
            /\ asked'[c] = asked[c] \cup {<<Model(c), Head(ring[c])>>}
        BY <3>5 DEF NextKey, Unanswered, TypeOK
      <4>2. ring[c] \in Seq(Keys)  BY DEF TypeOK
      <4>3. \A k \in Keys : k = Head(ring[c]) \/ <<Model(c), k>> \in asked[c]
                                \/ \E j \in 1..Len(ring'[c]) : ring'[c][j] = k
        <5>. SUFFICES ASSUME NEW k \in Keys, NEW j \in 1..Len(ring[c]), ring[c][j] = k, j # 1
                      PROVE  \E m \in 1..Len(ring'[c]) : ring'[c][m] = k
          BY <3>0, <4>1, <4>2 DEF CallInv
        <5>1. j - 1 \in 1..Len(Tail(ring[c])) /\ Tail(ring[c])[j - 1] = ring[c][j]  BY <4>1, <4>2
        <5>. QED  BY <4>1, <5>1
      <4>. QED  BY <3>0, <4>1, <4>3 DEF CallInv, Covered, Model
    <3>6. CASE SkipModel(c)
      <4>1. PICK e \in Skipping : Leaves(c, e)  BY <3>6 DEF SkipModel
      <4>2. /\ Unanswered(c) /\ state[c] = "ask" /\ LeaveModel(c) /\ kind' = kind
            /\ skipped'[c] = skipped[c] \cup {Model(c)}
        BY <3>6, <4>1 DEF SkipModel, Leaves, Unanswered, TypeOK
      <4>. QED  BY <3>0, <4>2, AllAsked, LeavingCovers
    <3>7. CASE Exhausted(c)
      <4>1. PICK e \in Retryable \cap Caught(c) : Leaves(c, e)  BY <3>7 DEF Exhausted
      <4>2. /\ Unanswered(c) /\ state[c] = "ask" /\ LeaveModel(c) /\ kind' = kind /\ skipped' = skipped
            /\ Len(ring[c]) = 1
        BY <3>7, <4>1 DEF Exhausted, Leaves, Unanswered
      <4>. QED  BY <3>0, <4>2, AllAsked, LeavingCovers
    <3>8. CASE Pause(c)
      <4>1. Unanswered(c) /\ state[c] = "ask" /\ state'[c] = "pause" /\ UNCHANGED <<model, skipped, kind>>
        BY <3>8 DEF Pause, Leaves, Unanswered, TypeOK
      <4>. QED  BY <3>0, <4>1, AllAsked DEF CallInv, Covered
    <3>9. CASE Resume(c)
      <4>1. state[c] = "pause" /\ Begin(c) /\ UNCHANGED <<model, error, skipped, asked, kind>>
        BY <3>9 DEF Resume
      <4>. QED  BY <3>0, <4>1, BeginCovers DEF CallInv, Covered
    <3>10. CASE Raise(c)
      <4>1. state'[c] = "failed" /\ kind' = kind /\ error'[c] \notin Retryable \cap Caught(c)
        BY <3>10 DEF Raise, Leaves, TypeOK
      <4>. QED  BY <4>1 DEF CallInv, Caught
    <3>. QED  BY <2>2, <3>1, <3>2, <3>3, <3>4, <3>5, <3>6, <3>7, <3>8, <3>9, <3>10 DEF Step
  <2>. QED  BY <2>1, <2>2 DEF Next
<1>3. AllCalls => GivesUpLast
  BY DEF CallInv, Covered, GivesUpLast
<1>. QED  BY <1>1, <1>2, <1>3, TypeCorrect, PTL DEF Calls
-----------------------------------------------------------------------------
(* What a petition claims.  The greatest element of a set of positions     *)
(* exists by induction, which the well-foundedness of the finite sets      *)
(* gives without an operator for the induction hypothesis.                 *)

\* A set of positions that is not empty has a greatest one: the sets of positions beyond
\* each of them are finite, and a smallest of them is empty.
LEMMA GreatestPosition ==
    ASSUME NEW n \in Nat, NEW P \in SUBSET (1..n), P # {}
    PROVE  Max(P) \in P /\ \A i \in P : i <= Max(P)
<1>. DEFINE Beyond == {{j \in P : j > i} : i \in P}
<1>1. IsFiniteSet(P)
  <2>1. IsFiniteSet(1..n)  BY FS_Interval
  <2>. QED  BY <2>1, FS_Subset
<1>2. Beyond \subseteq FiniteSubsetsOf(P)
  <2>. SUFFICES ASSUME NEW i \in P PROVE {j \in P : j > i} \in FiniteSubsetsOf(P)
    OBVIOUS
  <2>. QED  BY <1>1, FS_Subset DEF FiniteSubsetsOf
<1>3. PICK least \in Beyond : \A other \in Beyond : ~ (<<other, least>> \in StrictSubsetOrdering(P))
  <2>1. Beyond # {}  OBVIOUS
  <2>. HIDE DEF Beyond
  <2>. QED  BY <1>2, <2>1, FS_StrictSubsetOrderingWellFounded, WFMin
<1>4. PICK i \in P : least = {j \in P : j > i}
  BY <1>3
<1>5. \A k \in P : k <= i
  <2>. SUFFICES ASSUME NEW k \in P, k > i PROVE FALSE
    OBVIOUS
  <2>1. {j \in P : j > k} \in Beyond
    OBVIOUS
  <2>2. {j \in P : j > k} \subseteq least /\ k \in least /\ k \notin {j \in P : j > k}
    <3>1. P \subseteq Int  OBVIOUS
    <3>2. i \in Int /\ k \in Int /\ \A j \in P : j > k => j > i  BY <3>1
    <3>3. k \in least  BY <1>4
    <3>4. k \notin {j \in P : j > k}  BY <3>2
    <3>5. {j \in P : j > k} \subseteq least  BY <1>4, <3>2
    <3>. QED  BY <3>3, <3>4, <3>5
  <2>3. <<{j \in P : j > k}, least>> \in StrictSubsetOrdering(P)
    BY <1>4, <2>2 DEF StrictSubsetOrdering
  <2>. QED  BY <1>3, <2>1, <2>3
<1>6. \E x \in P : \A y \in P : x >= y
  BY <1>5
<1>. QED  BY <1>6 DEF Max

\* Clamp and the caps, as comparisons.
LEMMA MinMaxOfTwo ==
    ASSUME NEW a \in Int, NEW b \in Int
    PROVE  /\ Min({a, b}) = IF a <= b THEN a ELSE b
           /\ Max({a, b}) = IF a >= b THEN a ELSE b
<1>1. \E x \in {a, b} : \A y \in {a, b} : x <= y  OBVIOUS
<1>2. \E x \in {a, b} : \A y \in {a, b} : x >= y  OBVIOUS
<1>. QED  BY <1>1, <1>2 DEF Min, Max

\* The lines a petition shows with a core warning are of different core axes, and each is
\* an item that is counted.
LEMMA ShownIsCounted ==
    ASSUME NEW fields, fields.basis \in Seq(Items), fields.place = "none"
    PROVE  LET shown == {axis \in DOMAIN Basis(fields, TRUE) \cap CoreAxes :
                            Basis(fields, TRUE)[axis].status = "warn"}
           IN  /\ Cardinality(shown) \in Nat /\ CoreWarns(fields.basis) \in Nat
               /\ Cardinality(shown) <= CoreWarns(fields.basis)
<1>. DEFINE items == Coerced(fields.basis)
            lines == Basis(fields, TRUE)
            shown == {axis \in DOMAIN lines \cap CoreAxes : lines[axis].status = "warn"}
            counted == {i \in DOMAIN items : items[i].status = "warn" /\ items[i].axis \in CoreAxes}
<1>1. PICK n \in Nat : DOMAIN fields.basis = 1..n
  OBVIOUS
<1>2. DOMAIN items \subseteq 1..n
  BY <1>1 DEF Coerced
<1>3. IsFiniteSet(counted) /\ Cardinality(counted) \in Nat
  <2>1. IsFiniteSet(1..n)  BY FS_Interval
  <2>. QED  BY <1>2, <2>1, FS_Subset, FS_CardinalityType
<1>4. ASSUME NEW axis \in shown
      PROVE  Max(Of(axis, items)) \in counted /\ items[Max(Of(axis, items))].axis = axis
  <2>1. axis \in DOMAIN lines /\ axis \in CoreAxes /\ lines[axis].status = "warn"  OBVIOUS
  <2>2. lines # OneLine
    <3>1. \A a \in DOMAIN OneLine : OneLine[a].status = "ok"  BY DEF OneLine, Line
    <3>. QED  BY <2>1, <3>1
  <2>3. lines # Fallback(fields, TRUE)
    <3>1. \A a \in DOMAIN Fallback(fields, TRUE) \cap CoreAxes : Fallback(fields, TRUE)[a].status = "ok"
      <4>. SUFFICES ASSUME NEW a \in CoreAxes, a \in DOMAIN Fallback(fields, TRUE)
                    PROVE  Fallback(fields, TRUE)[a].status = "ok"
        OBVIOUS
      <4>1. a = "content"
        BY DEF Fallback, OneLine, CoreAxes, Axes
      <4>2. [content |-> "ok", location |-> fields.place, caution |-> "warn"][a] = "ok"
        BY <4>1
      <4>3. Fallback(fields, TRUE)[a] = Line(a, "ok", TRUE)
        BY <4>1, <4>2 DEF Fallback, OneLine
      <4>4. Line(a, "ok", TRUE).status = "ok"  BY DEF Line
      <4>. QED  BY <4>3, <4>4, Zenon
    <3>. QED  BY <2>1, <3>1
  <2>4. lines = Rendered(items, TRUE)
    BY <2>2, <2>3 DEF Basis
  <2>5. Of(axis, items) # {} /\ lines[axis] = LastOf(axis, items)
    BY <2>1, <2>4 DEF Rendered
  <2>6. Max(Of(axis, items)) \in Of(axis, items)
    BY <1>2, <2>5, GreatestPosition DEF Of
  <2>. QED  BY <2>1, <2>5, <2>6 DEF Of, LastOf
<1>. HIDE DEF shown, counted
<1>5. Cardinality(shown) \in Nat /\ Cardinality(shown) <= Cardinality(counted)
  <2>. DEFINE last == [axis \in shown |-> Max(Of(axis, items))]
  <2>1. last \in [shown -> counted]
    BY <1>4
  <2>2. \A a, b \in shown : last[a] = last[b] => a = b
    BY <1>4
  <2>3. last \in Injection(shown, counted)
    BY <2>1, <2>2 DEF Injection, IsInjective
  <2>. HIDE DEF last
  <2>. QED  BY <1>3, <2>3, FS_Injection, FS_CardinalityType
<1>. QED  BY <1>3, <1>5 DEF CoreWarns, shown, counted

\* What PetitionClaimsAreBorneOut says of a verdict.
BorneOut(v) ==
    LET shown == Cardinality({axis \in DOMAIN v.basis \cap CoreAxes : v.basis[axis].status = "warn"})
    IN \/ shown = 0
       \/ shown = 1 /\ v.score <= 84
       \/ v.score <= 64 /\ ~ v.valid

\* However a reply reads, what is made of it for a petition is borne out.
LEMMA VerdictIsBorneOut ==
    ASSUME NEW r \in Given PROVE BorneOut(PetitionVerdict(r))
<1>. DEFINE fields == Fields(r)
            v == PetitionVerdict(r)
            shown == Cardinality({axis \in DOMAIN v.basis \cap CoreAxes : v.basis[axis].status = "warn"})
            warns == CoreWarns(fields.basis)
            clamped == Clamp(fields.score)
<1>1. fields.basis \in Seq(Items) /\ fields.place = "none" /\ fields.score \in Int /\ fields.valid \in BOOLEAN
  <2>1. r \in Replies(Int, Seq(Items)) /\ r.place = "none"  BY GivenAssumption
  <2>2. r.basis \in Seq(Items) /\ r.score \in Int /\ r.valid \in BOOLEAN  BY <2>1 DEF Replies
  <2>3. << >> \in Seq(Items)  OBVIOUS
  <2>4. CASE r.shape = "object"  BY <2>1, <2>2, <2>4 DEF Fields
  <2>5. CASE r.shape # "object"
    <3>1. DOMAIN r = {"shape", "score", "valid", "basis", "legacy", "summary", "place", "risk"}
      BY <2>1 DEF Replies
    <3>. QED  BY <2>3, <2>5, <3>1 DEF Fields, NoNumber
  <2>. QED  BY <2>4, <2>5
<1>2. v.basis = Basis(fields, TRUE)
  BY DEF PetitionVerdict
<1>3. shown \in Nat /\ warns \in Nat /\ shown <= warns
  BY <1>1, <1>2, ShownIsCounted
<1>4. clamped \in Int
  <2>. DEFINE least == Min({100, fields.score})
  <2>1. least \in Int  BY <1>1, MinMaxOfTwo
  <2>2. Max({0, least}) \in Int
    <3>. HIDE DEF least
    <3>1. Max({0, least}) = IF 0 >= least THEN 0 ELSE least  BY <2>1, MinMaxOfTwo
    <3>. QED  BY <2>1, <3>1
  <2>. QED  BY <2>2 DEF Clamp
<1>5. v.score = Capped(clamped, fields) /\ v.valid = Validity(v.score, fields)
  BY DEF PetitionVerdict
<1>6. /\ warns >= 2 => v.score <= 64 /\ v.score \in Int
      /\ warns = 1 => v.score <= 84
  BY <1>3, <1>4, <1>5, MinMaxOfTwo DEF Capped
<1>7. warns >= 2 => ~ v.valid
  BY <1>3, <1>5 DEF Validity
<1>8. \/ shown = 0
      \/ shown = 1 /\ v.score <= 84
      \/ v.score <= 64 /\ ~ v.valid
  BY <1>3, <1>6, <1>7
<1>. QED  BY <1>8 DEF BorneOut

\* Any number of petitions and jobs, any replies with any items, every failure: a petition's
\* mail never claims a score or a validity that its own warnings forbid
\* (cap_confidence_score_by_basis_warns, derive_complaint_email_validity).
THEOREM ClaimsAreBorneOut == AssessmentSpec => []PetitionClaimsAreBorneOut
<1>. DEFINE Verdicts == /\ verdict = [c \in Callers |-> verdict[c]]
                        /\ \A c \in Callers \ Jobs : verdict[c] = None \/ BorneOut(verdict[c])
<1>1. AssessmentInit => Verdicts
  BY DEF AssessmentInit
<1>2. Verdicts /\ [AssessmentNext]_assessmentVars => Verdicts'
  <2>. SUFFICES ASSUME Verdicts, [AssessmentNext]_assessmentVars PROVE Verdicts'
    OBVIOUS
  <2>1. CASE UNCHANGED verdict
    BY <2>1
  <2>2. ASSUME NEW c \in Callers, Take(c) PROVE Verdicts'
    BY <2>2 DEF Take
  <2>3. ASSUME NEW c \in Callers, Judge(c), ~ UNCHANGED verdict PROVE Verdicts'
    <3>1. PICK r \in Given, images \in BOOLEAN :
             verdict' = [verdict EXCEPT ![c] = IF c \in Jobs THEN JobVerdict(r, images) ELSE PetitionVerdict(r)]
      BY <2>3 DEF Judge, EndAs
    <3>2. BorneOut(PetitionVerdict(r))  BY VerdictIsBorneOut
    <3>. QED  BY <3>1, <3>2
  <2>4. ASSUME NEW c \in Callers, Proceed(c) \/ FallBack(c) \/ TimedOut(c) \/ Breaks(c) \/ CallStep(c)
        PROVE  UNCHANGED verdict
    BY <2>4 DEF Proceed, FallBack, TimedOut, Breaks, CallStep, Make, EndAs
  <2>5. CASE UNCHANGED assessmentVars
    BY <2>1, <2>5 DEF assessmentVars
  <2>. QED  BY <2>1, <2>2, <2>3, <2>4, <2>5 DEF AssessmentNext, AssessmentStep
<1>3. Verdicts => PetitionClaimsAreBorneOut
  BY DEF BorneOut, PetitionClaimsAreBorneOut
<1>. QED  BY <1>1, <1>2, <1>3, PTL DEF AssessmentSpec
-----------------------------------------------------------------------------
(* The assessments use the pool as it is meant to be used.                 *)

\* However many jobs and petitions are assessed at a time, and whatever falls back, times
\* out or breaks: what they do to the pool is nothing but calls, and a call begins only
\* where the one before it has ended (generate_content_with_retry is all they share).
THEOREM AssessmentsAreCalls == AssessmentSpec => Calls
<1>1. AssessmentInit => Init
  BY DEF AssessmentInit
<1>2. [AssessmentNext]_assessmentVars => [Next]_vars
  <2>1. JobKinds \cup PetitionKinds = Kinds  BY AssessmentAssumption
  <2>2. ASSUME NEW c \in Callers, Take(c) PROVE Next
    BY <2>1, <2>2 DEF Take, Next, JobKinds, PetitionKinds
  <2>3. ASSUME NEW c \in Callers, NEW k \in Kinds, Make(c, k) PROVE Next
    BY <2>3 DEF Make, Next
  <2>4. ASSUME NEW c \in Callers, Proceed(c) \/ FallBack(c) \/ Judge(c) \/ TimedOut(c) \/ Breaks(c)
        PROVE  Next \/ UNCHANGED vars
    <3>1. {"search", "judge", "retrieve", "rerank", "each", "opinion", "validate"} \subseteq Kinds
      BY <2>1 DEF JobKinds, PetitionKinds
    <3>. QED  BY <2>3, <2>4, <3>1 DEF Proceed, FallBack, Judge, TimedOut, Breaks, EndAs
  <2>5. ASSUME NEW c \in Callers, CallStep(c) PROVE Next
    BY <2>5 DEF CallStep, Next
  <2>6. UNCHANGED assessmentVars => UNCHANGED vars
    BY DEF assessmentVars
  <2>. QED  BY <2>2, <2>4, <2>5, <2>6 DEF AssessmentNext, AssessmentStep
<1>. QED  BY <1>1, <1>2, PTL DEF AssessmentSpec, Calls

\* So what holds of calls holds of assessments: keys take turns, and a call of an assessment
\* that was only told to try again later fails after it asked every key it could.
THEOREM AssessmentsKeepThePool == AssessmentSpec => []KeysTakeTurns /\ []GivesUpLast
  BY AssessmentsAreCalls, TurnsAreKept, CallsGiveUpLast
=============================================================================
