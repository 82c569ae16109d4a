---------------------------- MODULE StackProofs ----------------------------
(***************************************************************************)
(* Theorems about the pool on the real queue (PoolOnQueue), for any number *)
(* of workers, callers and envelopes and any capacity: what it does to the *)
(* pool is what ThreadPool may do, so everything proved there holds with   *)
(* the locks, waits and notifications of BlockingQueue in place, and       *)
(* nobody is inside the queue when it is destroyed.                        *)
(***************************************************************************)
EXTENDS PoolOnQueue, FutureProofs

-----------------------------------------------------------------------------
(* The pool: every effect on the queue is the step of the atomic channel.  *)

LEMMA TakesEffect ==
  ASSUME NEW t \in Threads, TakeEffect(t)
  PROVE  QueueStep(t)
<1>1. t \in Everyone /\ t \notin Workers
  BY WorkerAssumption DEF Everyone
<1>2. CASE Accepted(t) /\ B!PushBack(t)
  <2>1. queue' = Append(queue, env[t])
    BY <1>1, <1>2 DEF B!PushBack
  <2> QED
    BY <1>2, <2>1 DEF B!PushBack, B!CanPush, QueueStep, SubmitAccept, Q!Push
<1>3. CASE Refused(t) /\ B!PushRefuse(t)
  BY <1>3 DEF B!PushRefuse, B!state, QueueStep, SubmitRefuse, Q!Refuse
<1>4. CASE Closed(t) /\ (B!CloseSet(t) \/ B!CloseAgain(t))
  BY <1>4 DEF B!CloseSet, B!CloseAgain, B!state, QueueStep, Close, Q!Close
<1>5. CASE Drained(t) /\ B!DrainBody(t)
  BY <1>5 DEF B!DrainBody, QueueStep, CloseAndDrain, Q!CloseAndDrain
<1> QED
  BY <1>2, <1>3, <1>4, <1>5 DEF TakeEffect

LEMMA PopsEffect ==
  ASSUME NEW w \in Workers, PopEffect(w)
  PROVE  WorkerStep(w)
<1>1. CASE queue # <<>> /\ Took(w) /\ B!PopTake(w)
  BY <1>1 DEF B!PopTake, WorkerStep, WorkerPop, Q!Pop
<1>2. CASE Left(w) /\ B!PopFinish(w)
  BY <1>2 DEF B!PopFinish, B!CanPop, B!state, WorkerStep, WorkerExit, Q!Finish
<1> QED
  BY <1>1, <1>2 DEF PopEffect

LEMMA StackStep == [StackNext]_stackVars => [Next]_vars
<1> SUFFICES ASSUME [StackNext]_stackVars PROVE [Next]_vars
  OBVIOUS
<1>1. CASE UNCHANGED stackVars
  BY <1>1 DEF stackVars
<1>2. CASE Spawned \/ SpawnFailed \/ DestroyCalled \/ StackGone
  BY <1>2 DEF Spawned, SpawnFailed, DestroyCalled, StackGone, Next
<1>3. ASSUME NEW c \in Callers, SubmitCalled(c) \/ ShutdownCalled(c) \/ ShutdownNowCalled(c)
      PROVE  [Next]_vars
  BY <1>3 DEF SubmitCalled, ShutdownCalled, ShutdownNowCalled, Next
<1>4. ASSUME NEW t \in Threads, ThreadStep(t) PROVE [Next]_vars
  BY <1>4, TakesEffect DEF ThreadStep, WaitsOrNotifies, Local, Next, CallStep
<1>5. ASSUME NEW w \in Workers, PoolWorkerStep(w) PROVE [Next]_vars
  BY <1>5, PopsEffect DEF PoolWorkerStep, PopCalled, WaitsOrNotifies, Working, Next, WorkerStep
<1>6. ASSUME NEW t \in Everyone, Locks(t) \/ Spurious(t) PROVE [Next]_vars
  BY <1>6 DEF Locks, Spurious
<1> QED
  BY <1>1, <1>2, <1>3, <1>4, <1>5, <1>6 DEF StackNext

(* The pool on the detailed queue is a pool: the safety part of            *)
(* ImplementsPool.                                                         *)
THEOREM StackIsAPool == StackSpec => Spec
  BY StackStep, PTL DEF StackSpec, StackInit, Spec

(* So the promises of the pool are kept by the code with its locks: every  *)
(* future is fulfilled once, no future is left behind by a pool that is    *)
(* gone, and the samples and the count of the rejected tell what happened. *)
THEOREM StackKeepsPromises ==
  StackSpec => HonoursContract /\ [](GoneIsClean /\ SamplesMatchFutures /\ RejectedIsCounted)
  BY StackIsAPool, PoolHonoursContract, GonePoolIsClean, SamplesAreTheFutures,
     RejectionsAreCounted, PTL

-----------------------------------------------------------------------------
(* The queue: who is inside it. *)

Held == {"push_held", "pop_held", "close_held", "drain_held"}

(* Whoever owns mutex_ is in a locked section. *)
MutexInside ==
  /\ qpc \in [Everyone -> B!Labels]
  /\ mutex # None => mutex \in Everyone /\ qpc[mutex] \in Held

(* Nobody is inside queue_ who has no business there: a worker that is not *)
(* in its loop, a caller of a pool that is not open, the owner of a pool   *)
(* that is gone.                                                           *)
NobodyInside ==
  /\ \A w \in Workers : wpc[w] \in {"unborn", "exited"} => Outside(w)
  /\ life # "open" => \A c \in Callers : Outside(c)
  /\ life \in {"threw", "destroyed"} => Outside(Owner)

InsideInv == MutexInside /\ NobodyInside

(* A step of t inside the queue leaves the others where they are, but for  *)
(* the waiters it wakes.                                                   *)
Others(t) ==
  \A u \in Everyone \ {t} :
    \/ qpc'[u] = qpc[u]
    \/ qpc[u] \in {"push_wait", "pop_wait"} /\ qpc'[u] \in {"push_lock", "pop_lock"}

(* A call begins: t goes from outside the queue to asking for mutex_.      *)
Enters(t) == qpc[t] = "idle" /\ Others(t)

(* t goes on inside a call. *)
GoesOn(t) == qpc[t] # "idle" /\ Others(t)

LEMMA Entering ==
  ASSUME MutexInside, NEW t \in Everyone,
         B!PushCall(t) \/ B!PopCall(t) \/ B!CloseCall(t) \/ B!DrainCall(t)
  PROVE  MutexInside' /\ Enters(t)
<1>1. PICK to \in {"push_lock", "pop_lock", "close_lock", "drain_lock"} :
        qpc[t] = "idle" /\ qpc' = [qpc EXCEPT ![t] = to] /\ mutex' = mutex
  BY DEF B!PushCall, B!PopCall, B!CloseCall, B!DrainCall, B!Go
<1> QED
  BY <1>1 DEF MutexInside, Enters, Others, Held, B!Labels

LEMMA Locking ==
  ASSUME MutexInside, NEW t \in Everyone, Locks(t)
  PROVE  MutexInside' /\ GoesOn(t)
<1>1. PICK to \in Held :
        /\ qpc[t] \in {"push_lock", "pop_lock", "close_lock", "drain_lock"}
        /\ qpc' = [qpc EXCEPT ![t] = to] /\ mutex = None /\ mutex' = t
  BY DEF Locks, B!PushLock, B!PopLock, B!CloseLock, B!DrainLock, B!Lock, B!Go, Held
<1> QED
  BY <1>1 DEF MutexInside, GoesOn, Others, Held, B!Labels

LEMMA Unlocking ==
  ASSUME MutexInside, NEW t \in Everyone, NEW from, NEW to,
         from \in Held, to \in B!Labels, B!Unlock(t, from, to)
  PROVE  MutexInside' /\ GoesOn(t) /\ qpc'[t] = to
  BY DEF MutexInside, GoesOn, Others, Held, B!Labels, B!Unlock, B!Go

LEMMA Notifying ==
  ASSUME MutexInside, NEW t \in Everyone,
         B!PushNotify(t) \/ B!PopNotify(t) \/ B!NotifyNotEmpty(t) \/ B!NotifyNotFull(t)
  PROVE  MutexInside' /\ GoesOn(t)
<1> USE DEF MutexInside, GoesOn, Others, Held, B!Labels
<1>1. B!Threads = Everyone
  BY DEF B!Threads, Everyone, Threads
<1>2. CASE B!PushNotify(t)
  BY <1>1, <1>2 DEF B!PushNotify, B!NotifyOne
<1>3. CASE B!PopNotify(t)
  BY <1>1, <1>3 DEF B!PopNotify, B!NotifyOne
<1>4. CASE B!NotifyNotEmpty(t)
  BY <1>1, <1>4 DEF B!NotifyNotEmpty, B!NotifyAll
<1>5. CASE B!NotifyNotFull(t)
  BY <1>1, <1>5 DEF B!NotifyNotFull, B!NotifyAll
<1> QED
  BY <1>2, <1>3, <1>4, <1>5

LEMMA WaitingOrNotifying ==
  ASSUME MutexInside, NEW t \in Everyone, WaitsOrNotifies(t)
  PROVE  MutexInside' /\ GoesOn(t)
<1>1. CASE B!PushWait(t)
  BY <1>1, Unlocking DEF B!PushWait, B!Wait, Held, B!Labels
<1>2. CASE B!PopWait(t)
  BY <1>2, Unlocking DEF B!PopWait, B!Wait, Held, B!Labels
<1> QED
  BY <1>1, <1>2, Notifying DEF WaitsOrNotifies

LEMMA WakingUp ==
  ASSUME MutexInside, NEW t \in Everyone, Spurious(t)
  PROVE  MutexInside' /\ GoesOn(t)
  BY DEF Spurious, B!SpuriousWake, B!Go, MutexInside, GoesOn, Others, Held, B!Labels

(* A thread or worker t that goes on inside a call, while nobody else      *)
(* starts or ends: t had business there, and everyone else stays.          *)
LEMMA StaysInside ==
  ASSUME NobodyInside, NEW t \in Everyone, GoesOn(t), life' = life, wpc' = wpc
  PROVE  NobodyInside'
<1>1. \A u \in Everyone \ {t} : Outside(u) => Outside(u)'
  BY DEF GoesOn, Others, Outside
<1>2. ~Outside(t)
  BY DEF GoesOn, Outside
<1> QED
  BY <1>1, <1>2 DEF NobodyInside, Everyone, Threads

LEMMA StartInside ==
  ASSUME ShutdownInv, InsideInv, Spawned \/ SpawnFailed \/ DestroyCalled
  PROVE  InsideInv'
<1> Owner \in Threads /\ Callers \subseteq Everyone /\ Owner \in Everyone
    /\ Owner \notin Callers /\ Owner \notin Workers
  BY NameAssumption, WorkerAssumption DEF Threads, Everyone
<1> USE DEF InsideInv
<1>1. CASE Spawned
  BY <1>1 DEF Spawned, Spawn, Inner, MutexInside, NobodyInside, Outside, ShutdownInv, Types
<1>2. CASE SpawnFailed \/ DestroyCalled
  <2>1. /\ MutexInside' /\ Enters(Owner) /\ life' \in {"failing", "destroying"}
        /\ wpc' = wpc /\ \A c \in Callers : Outside(c)
    BY <1>2, Entering
       DEF SpawnFailed, DestroyCalled, SpawnFails, Destroy, workers, NobodyInside
  <2>2. \A u \in Everyone \ {Owner} : Outside(u) => Outside(u)'
    BY <2>1 DEF Enters, Others, Outside
  <2> QED
    BY <2>1, <2>2 DEF NobodyInside, Everyone
<1> QED
  BY <1>1, <1>2

LEMMA CallInside ==
  ASSUME InsideInv, NEW c \in Callers,
         SubmitCalled(c) \/ ShutdownCalled(c) \/ ShutdownNowCalled(c)
  PROVE  InsideInv'
<1> c \in Everyone /\ c \notin Workers
  BY WorkerAssumption DEF Everyone, Threads
<1> USE DEF InsideInv
<1>1. MutexInside' /\ Enters(c)
  BY Entering DEF SubmitCalled, ShutdownCalled, ShutdownNowCalled
<1>2. life = "open" /\ life' = life /\ wpc' = wpc
  BY DEF SubmitCalled, ShutdownCalled, ShutdownNowCalled, SubmitCall, SubmitEnvelope,
         ShutdownCall, ShutdownNowCall, workers
<1>3. \A u \in Everyone \ {c} : Outside(u) => Outside(u)'
  BY <1>1 DEF Enters, Others, Outside
<1> QED
  BY <1>1, <1>2, <1>3 DEF NobodyInside, Everyone

LEMMA ThreadInside ==
  ASSUME ShutdownInv, InsideInv, NEW t \in Threads, ThreadStep(t)
  PROVE  InsideInv'
<1> t \in Everyone /\ t \notin Workers
  BY WorkerAssumption DEF Everyone
<1> USE DEF InsideInv
<1>1. CASE TakeEffect(t)
  <2>1. MutexInside' /\ GoesOn(t)
    BY <1>1, Unlocking
       DEF TakeEffect, B!PushBack, B!PushRefuse, B!CloseSet, B!CloseAgain, B!DrainBody,
           Held, B!Labels
  <2>2. life' = life /\ wpc' = wpc
    BY <1>1 DEF TakeEffect, Accepted, Refused, Closed, Drained, workers
  <2> QED
    BY <2>1, <2>2, StaysInside
<1>2. CASE WaitsOrNotifies(t)
  <2>1. life' = life /\ wpc' = wpc
    BY <1>2 DEF WaitsOrNotifies, vars, workers
  <2> QED
    BY <1>2, <2>1, WaitingOrNotifying, StaysInside
<1>3. CASE Local(t)
  <2>1. Outside(t) /\ UNCHANGED <<qpc, mutex>> /\ wpc' = wpc
    BY <1>3 DEF Local, Inner, LocalStep, SubmitReject, SubmitCount, RejectNext,
       CountDiscarded, JoinAgain, JoinStart, JoinWorker, JoinDone, Return, workers
  <2>2. \/ life' = life
        \/ t = Owner /\ life # "open" /\ life' # "open"
    <3>1. CASE SubmitReject(t) \/ SubmitCount(t) \/ RejectNext(t) \/ CountDiscarded(t)
               \/ JoinStart(t) \/ JoinWorker(t)
      BY <3>1 DEF SubmitReject, SubmitCount, RejectNext, CountDiscarded, JoinStart, JoinWorker
    <3>2. CASE JoinAgain(t) \/ JoinDone(t)
      BY <3>2 DEF JoinAgain, JoinDone, Return, ShutdownInv, OwnerCalls
    <3> QED
      BY <1>3, <3>1, <3>2 DEF Local, LocalStep
  <2> QED
    BY <2>1, <2>2 DEF MutexInside, NobodyInside, Outside
<1> QED
  BY <1>1, <1>2, <1>3 DEF ThreadStep

LEMMA WorkerInside ==
  ASSUME ShutdownInv, InsideInv, NEW w \in Workers, PoolWorkerStep(w)
  PROVE  InsideInv'
<1> w \in Everyone /\ w \notin Callers /\ w # Owner
  BY WorkerAssumption DEF Everyone, Threads
<1> USE DEF InsideInv
<1>1. CASE PopCalled(w)
  <2>1. MutexInside' /\ Enters(w) /\ wpc[w] = "pop" /\ life' = life /\ wpc' = wpc
    BY <1>1, Entering DEF PopCalled, vars, workers
  <2>2. \A u \in Everyone \ {w} : Outside(u) => Outside(u)'
    BY <2>1 DEF Enters, Others, Outside
  <2> QED
    BY <2>1, <2>2 DEF NobodyInside, Everyone, Threads
<1>2. CASE PopEffect(w)
  <2>1. /\ MutexInside' /\ GoesOn(w) /\ life' = life
        /\ \A v \in Workers \ {w} : wpc'[v] = wpc[v]
        /\ wpc'[w] = "run" \/ (wpc'[w] = "exited" /\ qpc'[w] = "idle")
    <3>1. CASE Took(w) /\ B!PopTake(w)
      BY <3>1, Unlocking DEF Took, B!PopTake, Held, B!Labels, ShutdownInv, Types
    <3>2. CASE Left(w) /\ B!PopFinish(w)
      BY <3>2, Unlocking DEF Left, B!PopFinish, Held, B!Labels, ShutdownInv, Types
    <3> QED
      BY <1>2, <3>1, <3>2 DEF PopEffect
  <2>2. \A u \in Everyone \ {w} : Outside(u) => Outside(u)'
    BY <2>1 DEF GoesOn, Others, Outside
  <2> QED
    BY <2>1, <2>2 DEF NobodyInside, Everyone, Threads, Outside
<1>3. CASE WaitsOrNotifies(w)
  <2>1. life' = life /\ wpc' = wpc
    BY <1>3 DEF WaitsOrNotifies, vars, workers
  <2> QED
    BY <1>3, <2>1, WaitingOrNotifying, StaysInside
<1>4. CASE Working(w)
  <2>1. /\ UNCHANGED <<qpc, mutex, life>> /\ wpc'[w] \in {"record", "pop"}
        /\ \A v \in Workers \ {w} : wpc'[v] = wpc[v]
    BY <1>4 DEF Working, WorkerRun, WorkerRecord, Inner, ShutdownInv, Types
  <2> QED
    BY <2>1 DEF MutexInside, NobodyInside, Outside
<1> QED
  BY <1>1, <1>2, <1>3, <1>4 DEF PoolWorkerStep

LEMMA StepInside == ShutdownInv /\ InsideInv /\ [StackNext]_stackVars => InsideInv'
<1> SUFFICES ASSUME ShutdownInv, InsideInv, [StackNext]_stackVars PROVE InsideInv'
  OBVIOUS
<1>1. CASE UNCHANGED stackVars \/ StackGone
  BY <1>1 DEF StackGone, Gone, stackVars, Inner, vars, workers, InsideInv, MutexInside,
     NobodyInside, Outside
<1>2. ASSUME NEW t \in Everyone, Locks(t) \/ Spurious(t) PROVE InsideInv'
  <2>1. life' = life /\ wpc' = wpc
    BY <1>2 DEF Locks, Spurious, vars, workers
  <2> QED
    BY <1>2, <2>1, Locking, WakingUp, StaysInside DEF InsideInv
<1> QED
  BY <1>1, <1>2, StartInside, CallInside, ThreadInside, WorkerInside DEF StackNext

LEMMA InitInside == StackInit => InsideInv
<1>1. B!Threads = Everyone
  BY DEF B!Threads, Everyone, Threads
<1>2. Owner \in Everyone /\ Callers \subseteq Everyone /\ Workers \subseteq Everyone
  BY DEF Everyone, Threads
<1> QED
  BY <1>1, <1>2 DEF StackInit, Init, B!Init, InsideInv, MutexInside, NobodyInside,
     Outside, B!Labels

(* When the destructor, or a failing constructor, has let the members go,  *)
(* no thread is left in a call of queue_, waiting or about to notify:      *)
(* neither mutex_ nor a condition variable is used after it is destroyed.  *)
THEOREM QueueOutlivesItsCalls == StackSpec => []GoneIsUntouched
<1>1. ShutdownInv /\ EndInv /\ InsideInv => GoneIsUntouched
  <2> SUFFICES ASSUME ShutdownInv, EndInv, InsideInv, life \in {"threw", "destroyed"}
               PROVE  mutex = None /\ \A t \in Everyone : Outside(t)
    BY DEF GoneIsUntouched
  <2>1. \A w \in Workers : Outside(w)
    BY QuietWhenJoined DEF EndInv, JoinedIsQuiet, InsideInv, NobodyInside
  <2>2. \A t \in Everyone : Outside(t)
    BY <2>1 DEF InsideInv, NobodyInside, Everyone, Threads
  <2> QED
    BY <2>2 DEF InsideInv, MutexInside, Outside, Held
<1> QED
  BY <1>1, InitInside, StepInside, StackIsAPool, ShutdownInvariant, EndInvariant, PTL
     DEF StackSpec
=============================================================================
