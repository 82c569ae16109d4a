---------------------------- MODULE PoolOnQueue ----------------------------
(***************************************************************************)
(* The two concurrent components put together: ThreadPool with its queue_  *)
(* replaced by BlockingQueue itself, mutex_, condition variables and all.  *)
(* Workers are the queue's consumers and the outside threads its producers *)
(* and closers.  A queue call that ThreadPool makes in one step is here a  *)
(* call, a lock, perhaps waits, an effect and a notification, and what the *)
(* pool does next has to wait until the call has returned.                 *)
(* Summaries do not touch the queue; they are explored in ThreadPool.      *)
(***************************************************************************)
EXTENDS ThreadPool

ASSUME WorkerAssumption == Workers \cap (Threads \cup {None}) = {}

VARIABLES
  qpc,               \* per thread: where it is inside a call of queue_
  mutex,             \* the owner of queue_'s mutex_
  accepted, taken    \* history: the envelopes that went in and came out

Everyone == Workers \cup Threads

Inner == <<qpc, mutex, accepted, taken>>
stackVars == <<vars, Inner>>

(* What the queue calls its argument, its result and its drained batch are *)
(* what the pool's threads hold; allocation succeeds.                      *)
B == INSTANCE BlockingQueue WITH
  Producers <- Callers, Consumers <- Workers, Closers <- Threads,
  Items <- Envelopes, NoItem <- None, NoThread <- None, AllocMayFail <- FALSE,
  items <- queue, pc <- qpc, threw <- ~TRUE,
  val <- [t \in Everyone |-> IF t \notin Workers THEN env[t]
                             ELSE IF hold[t] = None THEN None ELSE hold[t].id],
  batch <- [t \in Everyone |-> IF t \in Workers THEN <<>> ELSE batch[t]],
  fresh <- {e \in Envelopes : promise[e] = "none"},
  finished <- {w \in Workers : wpc[w] = "exited"}

StackInit == Init /\ B!Init

Outside(t) == qpc[t] = "idle"        \* t is in no call of queue_

-----------------------------------------------------------------------------
(* The start of a call. *)

SubmitCalled(c) == SubmitCall(c) /\ B!PushCall(c)
ShutdownCalled(c) == ShutdownCall(c) /\ B!CloseCall(c)
ShutdownNowCalled(c) == ShutdownNowCall(c) /\ B!DrainCall(c)
PopCalled(w) == wpc[w] = "pop" /\ UNCHANGED vars /\ B!PopCall(w)

Spawned == Spawn /\ UNCHANGED Inner
SpawnFailed == SpawnFails /\ B!CloseCall(Owner)

(* The pool may be destroyed when every call on it has returned. *)
DestroyCalled ==
  (\A c \in Callers : Outside(c)) /\ Destroy /\ B!CloseCall(Owner)

(* The effect of a call, in the locked section of the queue. *)

TakeEffect(t) ==
  \/ Accepted(t) /\ B!PushBack(t)
  \/ Refused(t) /\ B!PushRefuse(t)
  \/ Closed(t) /\ (B!CloseSet(t) \/ B!CloseAgain(t))
  \/ Drained(t) /\ B!DrainBody(t)

PopEffect(w) ==
  \/ queue # <<>> /\ Took(w) /\ B!PopTake(w)
  \/ Left(w) /\ B!PopFinish(w)

(* What goes on inside the queue and the pool does not see. *)

Locks(t) ==
  /\ UNCHANGED vars
  /\ B!PushLock(t) \/ B!PopLock(t) \/ B!CloseLock(t) \/ B!DrainLock(t)

WaitsOrNotifies(t) ==
  /\ UNCHANGED vars
  /\ \/ B!PushWait(t) \/ B!PopWait(t) \/ B!PushNotify(t) \/ B!PopNotify(t)
     \/ B!NotifyNotEmpty(t) \/ B!NotifyNotFull(t)

Spurious(t) == UNCHANGED vars /\ B!SpuriousWake(t)

(* What goes on outside the queue. *)

Local(t) == Outside(t) /\ LocalStep(t) /\ UNCHANGED Inner

Working(w) == Outside(w) /\ (WorkerRun(w) \/ WorkerRecord(w)) /\ UNCHANGED Inner

-----------------------------------------------------------------------------
ThreadStep(t) == TakeEffect(t) \/ WaitsOrNotifies(t) \/ Local(t)

PoolWorkerStep(w) ==
  PopCalled(w) \/ PopEffect(w) \/ WaitsOrNotifies(w) \/ Working(w)

StackGone == Gone /\ UNCHANGED Inner

StackNext ==
  \/ Spawned \/ SpawnFailed \/ DestroyCalled
  \/ \E c \in Callers :
       SubmitCalled(c) \/ ShutdownCalled(c) \/ ShutdownNowCalled(c)
  \/ \E t \in Threads : ThreadStep(t)
  \/ \E w \in Workers : PoolWorkerStep(w)
  \/ \E t \in Everyone : Locks(t) \/ Spurious(t)
  \/ StackGone

StackSpec == StackInit /\ [][StackNext]_stackVars

(* As in BlockingQueue and ThreadPool: who keeps asking for mutex_ gets    *)
(* it, who can run does, and tasks end.                                    *)
StackFairness ==
  /\ WF_stackVars(Spawned)
  /\ \A t \in Everyone : SF_stackVars(Locks(t))
  /\ \A t \in Threads : WF_stackVars(ThreadStep(t))
  /\ \A w \in Workers : WF_stackVars(PoolWorkerStep(w))

StackFairSpec == StackSpec /\ StackFairness

-----------------------------------------------------------------------------
(* Properties *)

(* The pool on the real queue does what the pool on the atomic channel may *)
(* do and no more, and gets as far as that one must: what is checked and   *)
(* proved of ThreadPool, its fairness included, holds of the code with its *)
(* locks, waits, spurious wake-ups and late notifications.                 *)
ImplementsPool == FairSpec

(* Nobody touches queue_ after it is destroyed, although notifications are *)
(* sent after mutex_ is released: when the pool is gone no thread is       *)
(* inside one of the queue's calls.                                        *)
GoneIsUntouched ==
  life \in {"threw", "destroyed"} => mutex = None /\ \A t \in Everyone : Outside(t)

(* Every call on the pool returns and leaves the queue, however a full     *)
(* queue, both ways to stop, their overlap and the worker's own waiting    *)
(* fall together.                                                          *)
CallsReturn ==
  \A c \in Callers : ~(pc[c] = "idle" /\ Outside(c)) ~> pc[c] = "idle" /\ Outside(c)
=============================================================================
