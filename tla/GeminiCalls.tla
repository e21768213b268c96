---------------------------- MODULE GeminiCalls ----------------------------
(***************************************************************************)
(* Calls of Gemini (gemini_key_pool, gemini_retry,                         *)
(* rotating_gemini_embedding).  The API keys are used in turn: every       *)
(* attempt of a call takes the next key, and asks the others, in order,    *)
(* when it is told to try again later.  A generation has several attempts  *)
(* per model, with pauses between them, and falls back to other models; an *)
(* embedding has one attempt.  Calls run on the event loop and in worker   *)
(* threads, and share the pool.                                            *)
(*                                                                         *)
(* What Gemini answers is left open.                                       *)
(***************************************************************************)
EXTENDS Naturals, Sequences, FiniteSets

CONSTANTS
    Callers,    \* tasks and threads, each of which makes one call at a time
    KeyCount,   \* how many distinct API keys are configured
    Models,
    Kinds,      \* the kinds of calls
    Chain,      \* Chain[k]: the model of a kind of calls, and its fallback models, without repetition
    Attempts,   \* Attempts[k]: max_attempts_per_model
    Embeddings, \* the kinds that embed; all others generate
    Hurried,    \* the kinds whose caller stops waiting after a while
    None

Keys == 0..(KeyCount - 1)

\* How a request may fail: a busy server (429, 5xx); a model that is unknown or not
\* usable (400, 404), which the message may call unavailable as well; a refused key; no
\* answer in time; no connection.  The last two are no APIErrors.
Errors == {"busy", "gone", "withdrawn", "refused", "slow", "down"}

ASSUME CallAssumption ==
    /\ KeyCount \in Nat \ {0}
    /\ Chain \in [Kinds -> Seq(Models)] /\ \A k \in Kinds : Chain[k] # << >>
    /\ Attempts \in [Kinds -> Nat \ {0}]
    /\ Embeddings \subseteq Kinds /\ Hurried \subseteq Kinds
    /\ \A k \in Embeddings : Attempts[k] = 1 /\ Len(Chain[k]) = 1
    /\ None \notin Callers \cup Errors \cup Kinds

VARIABLES
    index,      \* _index: whose turn it is
    poolLock,   \* the caller that is inside _advance_index
    state,      \* state[c]: where the last call of c is
    kind,       \* kind[c]: what kind of call it is
    mine,       \* mine[c]: the index it has read, and not yet moved on
    ring,       \* ring[c]: the keys it still asks in this attempt
    model,      \* model[c]: the position of its model in the chain
    attempt,    \* attempt[c]: its attempt with this model
    error,      \* error[c]: last_error
    \* what really happened
    taken,      \* the keys taken since every key had its last turn
    skipped,    \* skipped[c]: the models that the call gave up at once
    asked       \* asked[c]: the pairs <<model, key>> that it has asked

poolVars == <<index, poolLock, mine, taken>>
callVars == <<state, kind, ring, model, attempt, error, skipped, asked>>
vars == <<poolVars, callVars>>

\* GeminiKeyPool.enabled
Enabled == KeyCount >= 2

Init ==
    /\ index = 0 /\ poolLock = None
    /\ state = [c \in Callers |-> "idle"]
    /\ mine = [c \in Callers |-> 0]
    /\ ring = [c \in Callers |-> << >>]
    /\ model = [c \in Callers |-> 1]
    /\ attempt = [c \in Callers |-> 1]
    /\ error = [c \in Callers |-> None]
    /\ taken = << >>
    /\ kind = [c \in Callers |-> None]
    /\ skipped = [c \in Callers |-> {}]
    /\ asked = [c \in Callers |-> {}]
-----------------------------------------------------------------------------
(* Taking a turn *)

\* An attempt begins: with the pool it takes a key in turn, without it the one key.
Begin(c) ==
    /\ state' = [state EXCEPT ![c] = IF Enabled THEN "turn" ELSE "ask"]
    /\ ring' = [ring EXCEPT ![c] = IF Enabled THEN << >> ELSE <<0>>]

Ended == {"answered", "failed", "cancelled"}

Start(c, k) ==
    /\ state[c] \in {"idle"} \cup Ended
    /\ Begin(c)
    /\ kind' = [kind EXCEPT ![c] = k]
    /\ model' = [model EXCEPT ![c] = 1]
    /\ attempt' = [attempt EXCEPT ![c] = 1]
    /\ error' = [error EXCEPT ![c] = None]
    /\ skipped' = [skipped EXCEPT ![c] = {}]
    /\ asked' = [asked EXCEPT ![c] = {}]
    /\ UNCHANGED poolVars

\* a variant: the lock is not looked at
EnterFreely(c) ==
    /\ state[c] = "turn"
    /\ poolLock' = c
    /\ state' = [state EXCEPT ![c] = "read"]
    /\ UNCHANGED <<index, mine, taken, ring, model, attempt, error, skipped, asked, kind>>

\* _advance_index: with the lock held, read the index and write the next one.
Enter(c) ==
    /\ state[c] = "turn"
    /\ poolLock = None
    /\ poolLock' = c
    /\ state' = [state EXCEPT ![c] = "read"]
    /\ UNCHANGED <<index, mine, taken, ring, model, attempt, error, skipped, asked, kind>>

ReadIndex(c) ==
    /\ state[c] = "read"
    /\ mine' = [mine EXCEPT ![c] = index]
    /\ state' = [state EXCEPT ![c] = "write"]
    /\ UNCHANGED <<index, poolLock, taken, ring, model, attempt, error, skipped, asked, kind>>

\* a variant: the last of the other keys is forgotten
FailoverWithoutLast(start) == [i \in 1..(KeyCount - 2) |-> (start + i) % KeyCount]

\* failover_indices
FailoverIndices(start) == [i \in 1..(KeyCount - 1) |-> (start + i) % KeyCount]

WriteIndex(c) ==
    /\ state[c] = "write"
    /\ index' = (mine[c] + 1) % KeyCount
    /\ poolLock' = None
    /\ taken' = IF Len(taken) = KeyCount THEN <<mine[c]>> ELSE Append(taken, mine[c])
    /\ ring' = [ring EXCEPT ![c] = <<mine[c]>> \o FailoverIndices(mine[c])]
    /\ state' = [state EXCEPT ![c] = "ask"]
    /\ mine' = [mine EXCEPT ![c] = 0]
    /\ UNCHANGED <<model, attempt, error, skipped, asked, kind>>
-----------------------------------------------------------------------------
(* Asking *)

\* is_retryable_gemini_error, by status or by what the message says
Retryable == {"busy", "withdrawn", "slow"}
\* should_skip_gemini_model
Skipping == {"gone", "withdrawn"}
\* ServerError, APIError: what a generation catches.  An embedding catches everything.
Caught(c) == IF kind[c] \in Embeddings THEN Errors ELSE {"busy", "gone", "withdrawn", "refused"}

Model(c) == Chain[kind[c]][model[c]]

\* The call returns, or is cut off: what it kept is gone.
Over(c, how) ==
    /\ state' = [state EXCEPT ![c] = how]
    /\ ring' = [ring EXCEPT ![c] = << >>]
    /\ model' = [model EXCEPT ![c] = 1]
    /\ attempt' = [attempt EXCEPT ![c] = 1]
    /\ error' = [error EXCEPT ![c] = None]
    /\ skipped' = [skipped EXCEPT ![c] = {}]
    /\ asked' = [asked EXCEPT ![c] = {}]
    /\ UNCHANGED <<poolVars, kind>>

Answers(c) ==
    /\ state[c] = "ask"
    /\ Over(c, "answered")

\* The request to the next key of the ring is not answered.
Unanswered(c) ==
    /\ state[c] = "ask"
    /\ asked' = [asked EXCEPT ![c] = @ \cup {<<Model(c), Head(ring[c])>>}]

\* _generate_with_key_failover: on to the next key.
NextKey(c) ==
    /\ Retryable \cap Caught(c) # {}
    /\ Unanswered(c)
    /\ Len(ring[c]) > 1
    /\ ring' = [ring EXCEPT ![c] = Tail(@)]
    /\ UNCHANGED <<poolVars, state, model, attempt, error, skipped, kind>>

\* The error leaves the attempt: no key is left, or it is none to try again after.
Leaves(c, e) ==
    /\ Unanswered(c)
    /\ error' = [error EXCEPT ![c] = e]
    /\ e \in Retryable \cap Caught(c) => Len(ring[c]) = 1

\* The model is left: the next one of the chain, or the end of the call.
LeaveModel(c) ==
    IF model[c] < Len(Chain[kind[c]])
    THEN /\ model' = [model EXCEPT ![c] = @ + 1]
         /\ attempt' = [attempt EXCEPT ![c] = 1]
         /\ Begin(c)
    ELSE /\ state' = [state EXCEPT ![c] = "failed"]
         /\ ring' = [ring EXCEPT ![c] = << >>]
         /\ UNCHANGED <<model, attempt>>

\* generate_content_with_retry: a model that cannot be used is skipped,
SkipModel(c) ==
    /\ kind[c] \notin Embeddings
    /\ \E e \in Skipping : Leaves(c, e)
    /\ skipped' = [skipped EXCEPT ![c] = @ \cup {Model(c)}]
    /\ LeaveModel(c)
    /\ UNCHANGED <<poolVars, kind>>

\* one that had all its attempts is left,
Exhausted(c) ==
    /\ \E e \in (Retryable \cap Caught(c)) \ (IF kind[c] \in Embeddings THEN {} ELSE Skipping) : Leaves(c, e)
    /\ attempt[c] = Attempts[kind[c]]
    /\ LeaveModel(c)
    /\ UNCHANGED <<poolVars, skipped, kind>>

\* a variant: attempts are not counted
PauseUncounted(c) ==
    /\ \E e \in {"busy"} : Leaves(c, e)
    /\ attempt[c] < Attempts[kind[c]]
    /\ ring' = [ring EXCEPT ![c] = << >>]
    /\ state' = [state EXCEPT ![c] = "pause"]
    /\ UNCHANGED <<poolVars, model, attempt, skipped, kind>>

\* and otherwise there is a pause before the next attempt.
Pause(c) ==
    /\ kind[c] \notin Embeddings
    /\ \E e \in (Retryable \cap Caught(c)) \ Skipping : Leaves(c, e)
    /\ attempt[c] < Attempts[kind[c]]
    /\ attempt' = [attempt EXCEPT ![c] = @ + 1]
    /\ ring' = [ring EXCEPT ![c] = << >>]
    /\ state' = [state EXCEPT ![c] = "pause"]
    /\ UNCHANGED <<poolVars, model, skipped, kind>>

Resume(c) ==
    /\ state[c] = "pause"
    /\ Begin(c)
    /\ UNCHANGED <<poolVars, model, attempt, error, skipped, asked, kind>>

\* Any other error is the caller's, whatever keys and models are left.
Raise(c) ==
    /\ \E e \in Errors \ ((Retryable \cap Caught(c)) \cup IF kind[c] \in Embeddings THEN {} ELSE Skipping) : Leaves(c, e)
    /\ state' = [state EXCEPT ![c] = "failed"]
    /\ ring' = [ring EXCEPT ![c] = << >>]
    /\ UNCHANGED <<poolVars, model, attempt, skipped, kind>>

\* The caller's timeout cancels the call where it awaits.
Cancel(c) ==
    /\ kind[c] \in Hurried
    /\ state[c] \in {"ask", "pause"}
    /\ Over(c, "cancelled")
-----------------------------------------------------------------------------
\* What a call does once it was started.
Step(c) ==
    \/ Enter(c) \/ ReadIndex(c) \/ WriteIndex(c)
    \/ Answers(c) \/ NextKey(c) \/ SkipModel(c) \/ Exhausted(c) \/ Pause(c) \/ Resume(c) \/ Raise(c)

Next == \E c \in Callers : (\E k \in Kinds : Start(c, k)) \/ Step(c) \/ Cancel(c)

\* A call that was made goes on: threads are scheduled, requests are answered or fail.
\* Those who wait for the lock, which is held over two assignments, all get it in the end.
Fairness == \A c \in Callers : WF_vars(Step(c)) /\ SF_vars(Enter(c))

Calls == Init /\ [][Next]_vars
Spec == Calls /\ Fairness
-----------------------------------------------------------------------------
TypeOK ==
    /\ index \in Keys
    /\ poolLock \in Callers \cup {None}
    /\ state \in [Callers -> {"idle", "turn", "read", "write", "ask", "pause"} \cup Ended]
    /\ mine \in [Callers -> Keys]
    /\ ring \in [Callers -> Seq(Keys)]
    /\ kind \in [Callers -> Kinds \cup {None}]
    /\ model \in [Callers -> Nat] /\ attempt \in [Callers -> Nat]
    /\ \A c \in Callers : state[c] # "idle" =>
         /\ kind[c] \in Kinds
         /\ model[c] \in 1..Len(Chain[kind[c]])
         /\ attempt[c] \in 1..Attempts[kind[c]]
         /\ state[c] = "ask" => ring[c] # << >>
    /\ error \in [Callers -> Errors \cup {None}]
    /\ skipped \in [Callers -> SUBSET Models]
    /\ asked \in [Callers -> SUBSET (Models \X Keys)]
    /\ taken \in Seq(Keys)

\* However tasks, threads and failures interleave, the keys take turns: no key begins
\* another attempt before every other has begun one.
KeysTakeTurns ==
    \A i, j \in 1..Len(taken) : i # j => taken[i] # taken[j]

\* A call that was told only to try again later gives up last: it fails only after every
\* key was asked for every model of the chain that was not skipped.
GivesUpLast ==
    \A c \in Callers :
        /\ state[c] = "failed"
        /\ error[c] \in Retryable \cap Caught(c)
        => \A i \in 1..Len(Chain[kind[c]]) :
             \/ Chain[kind[c]][i] \in skipped[c]
             \/ \A k \in Keys : <<Chain[kind[c]][i], k>> \in asked[c]

\* Every call ends: attempts, keys and models are gone through once.
CallsEnd == \A c \in Callers : state[c] # "idle" ~> state[c] \in Ended
=============================================================================
