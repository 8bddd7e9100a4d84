------------------------- MODULE ModelLoadingProofs -------------------------
(***************************************************************************)
(* The safety of the lazily loaded models, for any number of threads and   *)
(* calls.  The looks without the instance's lock are harmless because the  *)
(* flags only ever go from false to true, and because what the globals say *)
(* is known to the instance already; the look under the lock is what keeps *)
(* a second thread from loading.                                           *)
(***************************************************************************)
EXTENDS ModelLoading, TLAPS

\* The lock of the instance is held by the thread that loads, from its last
\* look to what it notes in the globals; the global lock never outlives a step.
Holding == {"load", "publish", "give_up"}

LocksFollowSteps ==
  /\ globalLock = Free
  /\ \A t \in Threads : at[t] \in Holding <=> ownLock = {t}

\* The globals know nothing the instance does not.
GlobalsFollow == (shared => model) /\ (sharedFailed => failed)

\* What a thread is about to do has its reason in the flags.
StepsFollowFlags ==
  \A t \in Threads :
    /\ at[t] = "load" => ~model /\ ~failed
    /\ at[t] \in {"publish", "predict", "distrust"} => model
    /\ at[t] \in {"give_up", "distrust"} => failed

\* Every load that succeeded left the model in place, and every load of the
\* reranker that ended left one of its flags.
LoadsLeaveFlags ==
  /\ loaded = IF model THEN 1 ELSE 0
  /\ reranks => loads <= 1 /\ (loads = 1 => model \/ failed)

\* A call that saw the model never comes near the locks.
ReadyStayAway ==
  \A t \in Threads : ready[t] =>
    model /\ at[t] \notin Holding \cup {"idle", "look_global", "wait_own", "without"}

IInv ==
  /\ TypeOK /\ LocksFollowSteps /\ GlobalsFollow
  /\ StepsFollowFlags /\ LoadsLeaveFlags /\ ReadyStayAway

-----------------------------------------------------------------------------
LEMMA InitInv == Init => IInv
<1> SUFFICES ASSUME Init PROVE IInv
  OBVIOUS
<1>1. TypeOK
  <2>1. {reranks, model, failed, shared, sharedFailed} \subseteq BOOLEAN
    BY DEF Init
  <2>2. at \in [Threads -> Steps]
    BY DEF Init, Steps
  <2>3. calls \in [Threads -> 0..MaxCalls] /\ ready \in [Threads -> BOOLEAN]
    BY MaxCallsAssumption DEF Init
  <2>4. QED BY <2>1, <2>2, <2>3 DEF Init, TypeOK, Free, MaxLoads
<1>2. LocksFollowSteps
  BY DEF Init, LocksFollowSteps, Holding, Free
<1>3. GlobalsFollow /\ StepsFollowFlags /\ ReadyStayAway
  BY DEF Init, GlobalsFollow, StepsFollowFlags, ReadyStayAway
<1>4. LoadsLeaveFlags
  BY DEF Init, LoadsLeaveFlags
<1>5. QED BY <1>1, <1>2, <1>3, <1>4 DEF IInv

LEMMA BeginInv ==
  ASSUME IInv, NEW t \in Threads, Begin(t), UNCHANGED reranks
  PROVE  IInv'
<1>1. TypeOK'
  <2>1. calls' \in [Threads -> 0..MaxCalls]
    BY MaxCallsAssumption DEF IInv, TypeOK, Begin
  <2>2. ready' \in [Threads -> BOOLEAN]
    BY DEF IInv, TypeOK, Begin
  <2>3. at' \in [Threads -> Steps]
    BY DEF IInv, TypeOK, Begin, Goto, Steps
  <2>4. QED BY <2>1, <2>2, <2>3 DEF IInv, TypeOK, Begin, flags, counts
<1>2. LocksFollowSteps'
  BY DEF IInv, LocksFollowSteps, Begin, Goto, Ended, Holding
<1>3. GlobalsFollow'
  BY DEF IInv, GlobalsFollow, Begin, flags
<1>4. StepsFollowFlags'
  BY DEF IInv, StepsFollowFlags, Begin, Goto, flags
<1>5. LoadsLeaveFlags'
  BY DEF IInv, LoadsLeaveFlags, Begin, flags, counts
<1>6. ReadyStayAway'
  BY DEF IInv, TypeOK, ReadyStayAway, Begin, Goto, flags, Holding
<1> QED BY <1>1, <1>2, <1>3, <1>4, <1>5, <1>6 DEF IInv

LEMMA LookGlobalInv ==
  ASSUME IInv, NEW t \in Threads, LookGlobal(t), UNCHANGED reranks
  PROVE  IInv'
<1>1. TypeOK'
  BY DEF IInv, TypeOK, LookGlobal, Goto, counts, Steps
<1>2. LocksFollowSteps'
  BY DEF IInv, LocksFollowSteps, LookGlobal, Goto, Holding
<1>3. GlobalsFollow'
  BY DEF IInv, GlobalsFollow, LookGlobal
<1>4. StepsFollowFlags'
  BY DEF IInv, TypeOK, GlobalsFollow, StepsFollowFlags, LookGlobal, Goto
<1>5. LoadsLeaveFlags'
  BY DEF IInv, GlobalsFollow, LoadsLeaveFlags, LookGlobal, counts
<1>6. ReadyStayAway'
  BY DEF IInv, TypeOK, ReadyStayAway, LookGlobal, Goto
<1> QED BY <1>1, <1>2, <1>3, <1>4, <1>5, <1>6 DEF IInv

LEMMA LookAgainInv ==
  ASSUME IInv, NEW t \in Threads, LookAgain(t), UNCHANGED reranks
  PROVE  IInv'
<1>1. TypeOK'
  BY DEF IInv, TypeOK, LookAgain, Goto, flags, counts, Steps, Answer
<1>2. LocksFollowSteps'
  BY DEF IInv, TypeOK, LocksFollowSteps, LookAgain, Goto, Free, Holding, Answer
<1>3. GlobalsFollow'
  BY DEF IInv, GlobalsFollow, LookAgain, flags
<1>4. StepsFollowFlags'
  BY DEF IInv, TypeOK, StepsFollowFlags, LookAgain, Goto, flags, Answer
<1>5. LoadsLeaveFlags'
  BY DEF IInv, LoadsLeaveFlags, LookAgain, flags, counts
<1>6. ReadyStayAway'
  BY DEF IInv, TypeOK, ReadyStayAway, LookAgain, Goto, flags
<1> QED BY <1>1, <1>2, <1>3, <1>4, <1>5, <1>6 DEF IInv

LEMMA LoadInv ==
  ASSUME IInv, NEW t \in Threads, Load(t), UNCHANGED reranks
  PROVE  IInv'
<1>1. TypeOK'
  <2>1. loads' \in 0..MaxLoads /\ loaded' \in 0..MaxLoads
    BY DEF IInv, TypeOK, Load, Count, MaxLoads
  <2>2. at' \in [Threads -> Steps]
    BY DEF IInv, TypeOK, Load, Goto, Steps
  <2>3. model' \in BOOLEAN /\ failed' \in BOOLEAN
    BY DEF IInv, TypeOK, Load
  <2>4. ownLock' \in SUBSET Threads
    BY DEF IInv, TypeOK, Load, Free
  <2>5. QED BY <2>1, <2>2, <2>3, <2>4 DEF IInv, TypeOK, Load
<1>2. LocksFollowSteps'
  BY DEF IInv, TypeOK, LocksFollowSteps, Load, Goto, Free, Holding
<1>3. GlobalsFollow'
  BY DEF IInv, GlobalsFollow, Load
<1>4. StepsFollowFlags'
  BY DEF IInv, TypeOK, LocksFollowSteps, StepsFollowFlags, Load, Goto, Holding
<1>5. LoadsLeaveFlags'
  BY DEF IInv, TypeOK, StepsFollowFlags, LoadsLeaveFlags, Load, MaxLoads, Count
<1>6. ReadyStayAway'
  BY DEF IInv, StepsFollowFlags, ReadyStayAway, Load
<1> QED BY <1>1, <1>2, <1>3, <1>4, <1>5, <1>6 DEF IInv

LEMMA PublishInv ==
  ASSUME IInv, NEW t \in Threads, Publish(t), UNCHANGED reranks
  PROVE  IInv'
<1>1. TypeOK'
  BY DEF IInv, TypeOK, Publish, Goto, counts, Steps
<1>2. LocksFollowSteps'
  BY DEF IInv, TypeOK, LocksFollowSteps, Publish, Goto, Free, Holding
<1>3. GlobalsFollow'
  BY DEF IInv, GlobalsFollow, StepsFollowFlags, Publish
<1>4. StepsFollowFlags'
  BY DEF IInv, StepsFollowFlags, Publish, Goto
<1>5. LoadsLeaveFlags'
  BY DEF IInv, LoadsLeaveFlags, Publish, counts
<1>6. ReadyStayAway'
  BY DEF IInv, ReadyStayAway, Publish, Goto, Holding
<1> QED BY <1>1, <1>2, <1>3, <1>4, <1>5, <1>6 DEF IInv

LEMMA GiveUpInv ==
  ASSUME IInv, NEW t \in Threads, GiveUp(t), UNCHANGED reranks
  PROVE  IInv'
<1>1. TypeOK'
  BY DEF IInv, TypeOK, GiveUp, Goto, counts, Steps
<1>2. LocksFollowSteps'
  BY DEF IInv, TypeOK, LocksFollowSteps, GiveUp, Goto, Free, Holding
<1>3. GlobalsFollow'
  BY DEF IInv, GlobalsFollow, StepsFollowFlags, GiveUp
<1>4. StepsFollowFlags'
  BY DEF IInv, StepsFollowFlags, GiveUp, Goto
<1>5. LoadsLeaveFlags'
  BY DEF IInv, LoadsLeaveFlags, GiveUp, counts
<1>6. ReadyStayAway'
  BY DEF IInv, ReadyStayAway, GiveUp, Goto, Holding
<1> QED BY <1>1, <1>2, <1>3, <1>4, <1>5, <1>6 DEF IInv

LEMMA PredictInv ==
  ASSUME IInv, NEW t \in Threads, Predict(t), UNCHANGED reranks
  PROVE  IInv'
<1>1. TypeOK'
  BY DEF IInv, TypeOK, Predict, Goto, counts, Steps
<1>2. LocksFollowSteps'
  BY DEF IInv, TypeOK, LocksFollowSteps, Predict, Goto, Holding
<1>3. GlobalsFollow'
  BY DEF IInv, GlobalsFollow, Predict
<1>4. StepsFollowFlags'
  BY DEF IInv, TypeOK, StepsFollowFlags, Predict, Goto
<1>5. LoadsLeaveFlags'
  BY DEF IInv, LoadsLeaveFlags, Predict, counts
<1>6. ReadyStayAway'
  BY DEF IInv, TypeOK, ReadyStayAway, Predict, Goto, Holding
<1> QED BY <1>1, <1>2, <1>3, <1>4, <1>5, <1>6 DEF IInv

LEMMA DistrustInv ==
  ASSUME IInv, NEW t \in Threads, Distrust(t), UNCHANGED reranks
  PROVE  IInv'
<1>1. TypeOK'
  BY DEF IInv, TypeOK, Distrust, Goto, counts, Steps
<1>2. LocksFollowSteps'
  BY DEF IInv, LocksFollowSteps, Distrust, Goto, Holding
<1>3. GlobalsFollow'
  BY DEF IInv, GlobalsFollow, StepsFollowFlags, Distrust
<1>4. StepsFollowFlags'
  BY DEF IInv, StepsFollowFlags, Distrust, Goto
<1>5. LoadsLeaveFlags'
  BY DEF IInv, LoadsLeaveFlags, Distrust, counts
<1>6. ReadyStayAway'
  BY DEF IInv, ReadyStayAway, Distrust, Goto, Holding
<1> QED BY <1>1, <1>2, <1>3, <1>4, <1>5, <1>6 DEF IInv

-----------------------------------------------------------------------------
LEMMA StepKeepsInv == IInv /\ [Next]_vars => IInv'
<1> SUFFICES ASSUME IInv, [Next]_vars PROVE IInv'
  OBVIOUS
<1>1. CASE UNCHANGED vars
  BY <1>1 DEF vars, IInv, TypeOK, LocksFollowSteps, GlobalsFollow, StepsFollowFlags,
              LoadsLeaveFlags, ReadyStayAway
<1>2. ASSUME NEW t \in Threads, Begin(t), UNCHANGED reranks PROVE IInv'
  BY <1>2, BeginInv
<1>3. ASSUME NEW t \in Threads, Step(t) PROVE IInv'
  BY <1>3, LookGlobalInv, LookAgainInv, LoadInv, PublishInv, GiveUpInv, PredictInv,
     DistrustInv DEF Step
<1>4. QED BY <1>1, <1>2, <1>3 DEF Next

(***************************************************************************)
(* Locks, flags and positions agree in every state, however many threads   *)
(* ask for the model (Reranker.model, EmbeddingService.model).             *)
(***************************************************************************)
THEOREM Inductive == Spec => []IInv
<1>1. QED BY InitInv, StepKeepsInv, PTL DEF Spec

(***************************************************************************)
(* The model is in memory once, and the reranker never starts a second     *)
(* load, however many threads ask at once (Reranker.model,                 *)
(* EmbeddingService.model).                                                *)
(***************************************************************************)
THEOREM ModelLoadedOnce == Spec => []LoadedOnce
<1>1. IInv => LoadedOnce
  BY DEF IInv, LoadsLeaveFlags, LoadedOnce
<1>2. QED BY <1>1, Inductive, PTL

(***************************************************************************)
(* A call that begins when the model is loaded uses it (Reranker.rerank).  *)
(***************************************************************************)
THEOREM ReadyCallsGetModel == Spec => []ReadyCallsUseModel
<1>1. IInv => ReadyCallsUseModel
  BY DEF IInv, ReadyStayAway, ReadyCallsUseModel
<1>2. QED BY <1>1, Inductive, PTL
=============================================================================
