---------------------------- MODULE ModelLoading ----------------------------
(***************************************************************************)
(* The lazily loaded models: audits and requests run on threads that share *)
(* one Reranker and one EmbeddingService, and each thread asks for the     *)
(* model through a property that looks without a lock, looks again under   *)
(* the global lock, and loads under the lock of the instance, taking the   *)
(* global one inside it.                                                   *)
(*                                                                         *)
(* The two differ in what becomes of a failure: the reranker remembers it, *)
(* a failed prediction too, and returns no model; the embedding service    *)
(* raises and tries again at the next call.  reranks tells the two kinds   *)
(* of instance apart.  A thread's step ends where another thread can see   *)
(* the difference.                                                         *)
(***************************************************************************)
EXTENDS Naturals

CONSTANTS
  Threads,      \* workflow threads, request threads and the preload at startup
  MaxCalls      \* bound: calls a thread makes

ASSUME MaxCallsAssumption == MaxCalls \in Nat

VARIABLES
  reranks,      \* this is a Reranker, not an EmbeddingService
  model,        \* self._model is set
  failed,       \* self._model_failed
  shared,       \* GLOBAL_..._MODEL is set
  sharedFailed, \* the name is in GLOBAL_RERANKER_MODEL_FAILED
  globalLock,   \* the thread that holds GLOBAL_..._MODEL_LOCK, or none
  ownLock,      \* the thread that holds self._model_lock, or none
  at,           \* at[t]: the step thread t takes next
  calls,        \* calls[t]: calls made by t
  ready,        \* ready[t]: the model was loaded when t's call began
  loads,        \* loads attempted, to MaxLoads
  loaded        \* loads that succeeded, to MaxLoads

vars == <<reranks, model, failed, shared, sharedFailed, globalLock, ownLock, at, calls,
          ready, loads, loaded>>
flags == <<model, failed, shared, sharedFailed>>
counts == <<loads, loaded>>

MaxLoads == 3
Free == {}

Steps == {"idle", "look_global", "wait_own", "load", "publish", "give_up",
          "predict", "distrust", "with_model", "without", "raised"}
Ended == {"with_model", "without", "raised"}

TypeOK ==
  /\ {reranks, model, failed, shared, sharedFailed} \subseteq BOOLEAN
  /\ globalLock \in SUBSET Threads /\ ownLock \in SUBSET Threads
  /\ at \in [Threads -> Steps]
  /\ calls \in [Threads -> 0..MaxCalls]
  /\ ready \in [Threads -> BOOLEAN]
  /\ loads \in 0..MaxLoads /\ loaded \in 0..MaxLoads

Init ==
  /\ reranks \in BOOLEAN
  /\ model = FALSE /\ failed = FALSE /\ shared = FALSE /\ sharedFailed = FALSE
  /\ globalLock = Free /\ ownLock = Free
  /\ at = [t \in Threads |-> "idle"]
  /\ calls = [t \in Threads |-> 0]
  /\ ready = [t \in Threads |-> FALSE]
  /\ loads = 0 /\ loaded = 0

Goto(t, next) == at' = [at EXCEPT ![t] = next]
Count(n) == IF n < MaxLoads THEN n + 1 ELSE n

-----------------------------------------------------------------------------
(* Mutants: plausible bugs in the definitions below. *)

\* LookAgain, trusting the look under the global lock.
LoadUnseen(t) ==
  /\ at[t] = "wait_own"
  /\ ownLock = Free
  /\ ownLock' = {t} /\ Goto(t, "load")
  /\ UNCHANGED <<flags, globalLock, calls, ready, counts>>

\* Distrust, dropping the model.
DistrustAndDrop(t) ==
  /\ at[t] = "distrust"
  /\ globalLock = Free
  /\ sharedFailed' = TRUE /\ failed' = TRUE /\ model' = FALSE
  /\ Goto(t, "without")
  /\ UNCHANGED <<shared, globalLock, ownLock, calls, ready, counts>>

\* LookGlobal, going to the lock of the instance inside the global one.
LookInside(t) ==
  /\ at[t] = "look_global"
  /\ globalLock = Free
  /\ globalLock' = {t} /\ Goto(t, "wait_own")
  /\ UNCHANGED <<flags, ownLock, calls, ready, counts>>
-----------------------------------------------------------------------------
\* The property's result: a model to predict with, or None.
Answer == IF model' THEN "predict" ELSE "without"

\* A call looks first without a lock.
Begin(t) ==
  /\ at[t] \in {"idle"} \cup Ended
  /\ calls[t] < MaxCalls
  /\ calls' = [calls EXCEPT ![t] = @ + 1]
  /\ ready' = [ready EXCEPT ![t] = model]
  /\ Goto(t, CASE model -> "predict"
               [] ~model /\ failed -> "without"
               [] OTHER -> "look_global")
  /\ UNCHANGED <<flags, globalLock, ownLock, counts>>

\* Under the global lock, held for this step only: the model another instance
\* published, or the failure the reranker noted.
LookGlobal(t) ==
  /\ at[t] = "look_global"
  /\ globalLock = Free
  /\ model' = (model \/ shared)
  /\ failed' = (failed \/ (~shared /\ sharedFailed))
  /\ Goto(t, CASE shared -> "predict"
               [] ~shared /\ sharedFailed -> "without"
               [] OTHER -> "wait_own")
  /\ UNCHANGED <<shared, sharedFailed, globalLock, ownLock, calls, ready, counts>>

\* Under the lock of the instance the flags are read once more.
LookAgain(t) ==
  /\ at[t] = "wait_own"
  /\ ownLock = Free
  /\ \/ ~model /\ ~failed /\ ownLock' = {t} /\ Goto(t, "load") /\ UNCHANGED flags
     \/ (model \/ failed) /\ UNCHANGED <<flags, ownLock>> /\ Goto(t, Answer)
  /\ UNCHANGED <<globalLock, calls, ready, counts>>

\* The constructor returns, or raises (reranker.py:40, embeddings.py:29); the reranker
\* sets its flag at once.
Load(t) ==
  /\ at[t] = "load"
  /\ loads' = Count(loads)
  /\ \/ /\ model' = TRUE
        /\ loaded' = Count(loaded)
        /\ Goto(t, "publish")
        /\ UNCHANGED <<failed, ownLock>>
     \/ /\ reranks
        /\ failed' = TRUE
        /\ Goto(t, "give_up")
        /\ UNCHANGED <<model, loaded, ownLock>>
     \/ /\ ~reranks
        /\ ownLock' = Free
        /\ Goto(t, "raised")
        /\ UNCHANGED <<model, failed, loaded>>
  /\ UNCHANGED <<shared, sharedFailed, globalLock, calls, ready>>

\* Into the globals, inside the lock of the instance, which is released with it.
Publish(t) ==
  /\ at[t] = "publish"
  /\ globalLock = Free
  /\ shared' = TRUE
  /\ ownLock' = Free
  /\ Goto(t, "predict")
  /\ UNCHANGED <<model, failed, sharedFailed, globalLock, calls, ready, counts>>

GiveUp(t) ==
  /\ at[t] = "give_up"
  /\ globalLock = Free
  /\ sharedFailed' = TRUE
  /\ ownLock' = Free
  /\ Goto(t, "without")
  /\ UNCHANGED <<model, failed, shared, globalLock, calls, ready, counts>>

\* The model is used without a lock; only the reranker's failures are kept.
Predict(t) ==
  /\ at[t] = "predict"
  /\ \/ Goto(t, "with_model") /\ UNCHANGED failed
     \/ reranks /\ failed' = TRUE /\ Goto(t, "distrust")
     \/ ~reranks /\ Goto(t, "raised") /\ UNCHANGED failed
  /\ UNCHANGED <<model, shared, sharedFailed, globalLock, ownLock, calls, ready, counts>>

\* A failed prediction leaves the model in place: the next call uses it again.
Distrust(t) ==
  /\ at[t] = "distrust"
  /\ globalLock = Free
  /\ sharedFailed' = TRUE
  /\ Goto(t, "with_model")
  /\ UNCHANGED <<model, failed, shared, globalLock, ownLock, calls, ready, counts>>

Step(t) ==
  /\ \/ LookGlobal(t) \/ LookAgain(t) \/ Load(t) \/ Publish(t) \/ GiveUp(t)
     \/ Predict(t) \/ Distrust(t)
  /\ UNCHANGED reranks

Next == \E t \in Threads : (Begin(t) /\ UNCHANGED reranks) \/ Step(t)

Spec == Init /\ [][Next]_vars

\* Threads are scheduled; with finitely many calls no lock is contended for ever.
FairSpec == Spec /\ \A t \in Threads : WF_vars(Step(t))
-----------------------------------------------------------------------------
(***************************************************************************)
(* Loading takes seconds and hundreds of megabytes: however many threads   *)
(* ask at once, the model is in memory once, and the reranker, which does  *)
(* not try again after a failure, never even starts a second load.         *)
(***************************************************************************)
LoadedOnce == loaded <= 1 /\ (reranks => loads <= 1)

(***************************************************************************)
(* A call that begins when the model is loaded uses it, though predictions *)
(* of other threads fail meanwhile and mark the model as failed.           *)
(***************************************************************************)
ReadyCallsUseModel == \A t \in Threads : ready[t] => at[t] # "without"

\* No thread waits for ever on the two locks.
EveryCallEnds == \A t \in Threads : (at[t] \notin {"idle"} \cup Ended) ~> (at[t] \in Ended)
=============================================================================
