--------------------------- MODULE BlockingQueue ---------------------------
(***************************************************************************)
(* BlockingQueue<T> of include/taskengine/concurrency/blocking_queue.hpp:  *)
(* a mutex, two condition variables, a deque and a closed flag.            *)
(*                                                                         *)
(* A thread's pc says where it is inside a call.  XX_lock: it is about to  *)
(* acquire mutex_, for the first time or on its way out of a wait;         *)
(* XX_held: it owns mutex_ and is about to evaluate the wait predicate and *)
(* run the rest of the locked section, which nobody else can observe half  *)
(* done and is therefore one step; XX_wait: it is blocked on its condition *)
(* variable, so the waiters of a condition variable are the threads at     *)
(* that pc; XX_notify: it has released mutex_ and has still to notify.     *)
(***************************************************************************)
EXTENDS Naturals, Sequences, FiniteSets

CONSTANTS
  Producers, Consumers, Closers,   \* the threads, by what they call
  Items,                           \* the values of T, each offered once
  NoItem,                          \* nullopt, a moved-from value
  NoThread,                        \* nobody owns mutex_
  Capacity,                        \* capacity_
  AllocMayFail                     \* can an allocation throw bad_alloc?

Threads == Producers \cup Consumers \cup Closers

(* The constructor throws invalid_argument for a zero capacity. *)
ASSUME CapacityAssumption == Capacity \in Nat \ {0}

ASSUME ThreadAssumption ==
  /\ NoThread \notin Threads
  /\ Producers \cap Consumers = {}
  /\ IsFiniteSet(Threads)

ASSUME ItemAssumption == NoItem \notin Items

ASSUME AllocAssumption == AllocMayFail \in BOOLEAN

VARIABLES
  items,      \* items_, oldest first
  closed,     \* closed_
  mutex,      \* the owner of mutex_
  pc,         \* per thread: where it is
  val,        \* per thread: a producer's argument, a consumer's result
  batch,      \* per thread: what its last close_and_drain returned
  fresh,      \* the values no producer has offered yet
  accepted,   \* history: the values push_back put in, in order
  taken,      \* history: the values that were taken out, in order
  finished,   \* history: the consumers that have been given nullopt
  threw       \* history: has a call thrown bad_alloc?

vars == <<items, closed, mutex, pc, val, batch, fresh, accepted, taken, finished,
          threw>>

state == <<items, closed>>              \* what mutex_ guards
local == <<val, batch, fresh>>          \* what the callers hold
history == <<accepted, taken, finished, threw>>

Init ==
  /\ items = <<>>
  /\ closed = FALSE
  /\ mutex = NoThread
  /\ pc = [t \in Threads |-> "idle"]
  /\ val = [t \in Threads |-> NoItem]
  /\ batch = [t \in Threads |-> <<>>]
  /\ fresh = Items
  /\ accepted = <<>>
  /\ taken = <<>>
  /\ finished = {}
  /\ threw = FALSE

-----------------------------------------------------------------------------
(* mutex_ and the condition variables *)

Go(t, from, to) == pc[t] = from /\ pc' = [pc EXCEPT ![t] = to]

Lock(t, from, to) ==
  /\ Go(t, from, to)
  /\ mutex = NoThread
  /\ mutex' = t
  /\ UNCHANGED <<state, local, history>>

(* The end of a locked section: lock goes out of scope. *)
Unlock(t, from, to) ==
  /\ Go(t, from, to)
  /\ mutex = t
  /\ mutex' = NoThread

(* cv.wait(lock): give mutex_ up and block, in one step. *)
Wait(t, from, to) == Unlock(t, from, to) /\ UNCHANGED <<state, local, history>>

(* notify_one by t: some thread blocked at `waiting`, if there is one, goes *)
(* back to acquire mutex_ and to evaluate its predicate again.              *)
NotifyOne(t, from, waiting, woken) ==
  /\ pc[t] = from
  /\ IF \E w \in Threads : pc[w] = waiting
     THEN \E w \in Threads :
            /\ pc[w] = waiting
            /\ pc' = [pc EXCEPT ![t] = "idle", ![w] = woken]
     ELSE pc' = [pc EXCEPT ![t] = "idle"]
  /\ UNCHANGED <<state, mutex, local, history>>

NotifyAll(t, from, to, waiting, woken) ==
  /\ pc[t] = from
  /\ pc' = [u \in Threads |->
              IF u = t THEN to ELSE IF pc[u] = waiting THEN woken ELSE pc[u]]
  /\ UNCHANGED <<state, mutex, local, history>>

-----------------------------------------------------------------------------
(* push *)

\* Mutant of CanPush: a full queue still counts as having room.
CanPushOffByOne == closed \/ Len(items) <= Capacity

CanPush == closed \/ Len(items) < Capacity       \* the predicate of not_full_

PushCall(p) ==
  /\ Go(p, "idle", "push_lock")
  /\ \E v \in fresh : fresh' = fresh \ {v} /\ val' = [val EXCEPT ![p] = v]
  /\ UNCHANGED <<state, mutex, batch, history>>

PushLock(p) == Lock(p, "push_lock", "push_held")

PushWait(p) == ~CanPush /\ Wait(p, "push_held", "push_wait")

(* return false: value is left untouched. *)
PushRefuse(p) ==
  /\ CanPush /\ closed
  /\ Unlock(p, "push_held", "idle")
  /\ UNCHANGED <<state, local, history>>

\* Mutants of PushBack: closed_ is not looked at again after the wait; the
\* argument is queued after it has been moved from.
PushBackUnchecked(p) ==
  /\ CanPush
  /\ Unlock(p, "push_held", "push_notify")
  /\ items' = Append(items, val[p])
  /\ accepted' = Append(accepted, val[p])
  /\ val' = [val EXCEPT ![p] = NoItem]
  /\ UNCHANGED <<closed, batch, fresh, taken, finished, threw>>

PushBackMovedFrom(p) ==
  /\ CanPush /\ ~closed
  /\ Unlock(p, "push_held", "push_notify")
  /\ val' = [val EXCEPT ![p] = NoItem]
  /\ items' = Append(items, val'[p])
  /\ accepted' = Append(accepted, val'[p])
  /\ UNCHANGED <<closed, batch, fresh, taken, finished, threw>>

PushBack(p) ==
  /\ CanPush /\ ~closed
  /\ Unlock(p, "push_held", "push_notify")
  /\ items' = Append(items, val[p])
  /\ accepted' = Append(accepted, val[p])
  /\ val' = [val EXCEPT ![p] = NoItem]
  /\ UNCHANGED <<closed, batch, fresh, taken, finished, threw>>

(* push_back throws: nothing is queued, nobody is notified. *)
PushBadAlloc(p) ==
  /\ AllocMayFail
  /\ CanPush /\ ~closed
  /\ Unlock(p, "push_held", "idle")
  /\ threw' = TRUE
  /\ UNCHANGED <<state, local, accepted, taken, finished>>

\* Mutant of PushNotify: the wrong condition variable.
PushNotifyWrong(p) == NotifyOne(p, "push_notify", "push_wait", "push_lock")

PushNotify(p) == NotifyOne(p, "push_notify", "pop_wait", "pop_lock")

-----------------------------------------------------------------------------
(* pop *)

CanPop == closed \/ items # <<>>                 \* the predicate of not_empty_

PopCall(c) ==
  /\ Go(c, "idle", "pop_lock")
  /\ val' = [val EXCEPT ![c] = NoItem]
  /\ UNCHANGED <<state, mutex, batch, fresh, history>>

PopLock(c) == Lock(c, "pop_lock", "pop_held")

PopWait(c) == ~CanPop /\ Wait(c, "pop_held", "pop_wait")

\* Mutant of PopFinish: the predicate is not evaluated again after a wake-up.
PopFinishEarly(c) ==
  /\ items = <<>>
  /\ Unlock(c, "pop_held", "idle")
  /\ finished' = finished \cup {c}
  /\ UNCHANGED <<state, local, accepted, taken, threw>>

(* return nullopt *)
PopFinish(c) ==
  /\ CanPop /\ items = <<>>
  /\ Unlock(c, "pop_held", "idle")
  /\ finished' = finished \cup {c}
  /\ UNCHANGED <<state, local, accepted, taken, threw>>

PopTake(c) ==
  /\ CanPop /\ items # <<>>
  /\ Unlock(c, "pop_held", "pop_notify")
  /\ val' = [val EXCEPT ![c] = Head(items)]
  /\ items' = Tail(items)
  /\ taken' = Append(taken, Head(items))
  /\ UNCHANGED <<closed, batch, fresh, accepted, finished, threw>>

\* Mutant of PopNotify: nobody is told that there is room.
PopNotifyNobody(c) ==
  Go(c, "pop_notify", "idle") /\ UNCHANGED <<state, mutex, local, history>>

PopNotify(c) == NotifyOne(c, "pop_notify", "push_wait", "push_lock")

-----------------------------------------------------------------------------
(* close and close_and_drain *)

CloseCall(k) ==
  /\ Go(k, "idle", "close_lock")
  /\ UNCHANGED <<state, mutex, local, history>>

CloseLock(k) == Lock(k, "close_lock", "close_held")

(* Already closed: return at once, and notify nobody. *)
CloseAgain(k) ==
  /\ closed
  /\ Unlock(k, "close_held", "idle")
  /\ UNCHANGED <<state, local, history>>

CloseSet(k) ==
  /\ ~closed
  /\ Unlock(k, "close_held", "notify_not_empty")
  /\ closed' = TRUE
  /\ UNCHANGED <<items, local, history>>

DrainCall(k) ==
  /\ Go(k, "idle", "drain_lock")
  /\ UNCHANGED <<state, mutex, local, history>>

DrainLock(k) == Lock(k, "drain_lock", "drain_held")

\* Mutants of DrainBody: items_.clear() is missing; closed_ is not set.
DrainBodyNoClear(k) ==
  /\ Unlock(k, "drain_held", "notify_not_empty")
  /\ closed' = TRUE
  /\ batch' = [batch EXCEPT ![k] = items]
  /\ taken' = taken \o items
  /\ UNCHANGED <<items, val, fresh, accepted, finished, threw>>

DrainBodyOpen(k) ==
  /\ Unlock(k, "drain_held", "notify_not_empty")
  /\ items' = <<>>
  /\ batch' = [batch EXCEPT ![k] = items]
  /\ taken' = taken \o items
  /\ UNCHANGED <<closed, val, fresh, accepted, finished, threw>>

(* Unlike close, a drain of a closed queue goes all the way through. *)
DrainBody(k) ==
  /\ Unlock(k, "drain_held", "notify_not_empty")
  /\ closed' = TRUE
  /\ items' = <<>>
  /\ batch' = [batch EXCEPT ![k] = items]
  /\ taken' = taken \o items
  /\ UNCHANGED <<val, fresh, accepted, finished, threw>>

(* reserve throws (it allocates only when there is something to reserve    *)
(* for): closed_ is already set, nothing has moved, nobody is notified.    *)
DrainBadAlloc(k) ==
  /\ AllocMayFail
  /\ items # <<>>
  /\ Unlock(k, "drain_held", "idle")
  /\ closed' = TRUE
  /\ threw' = TRUE
  /\ UNCHANGED <<items, local, accepted, taken, finished>>

\* Mutants of the tail: notify_one where all must be woken; one of the two
\* condition variables forgotten.
NotifyNotEmptyOne(k) ==
  /\ pc[k] = "notify_not_empty"
  /\ \/ \E w \in Threads :
          /\ pc[w] = "pop_wait"
          /\ pc' = [pc EXCEPT ![k] = "notify_not_full", ![w] = "pop_lock"]
     \/ /\ \A w \in Threads : pc[w] # "pop_wait"
        /\ pc' = [pc EXCEPT ![k] = "notify_not_full"]
  /\ UNCHANGED <<state, mutex, local, history>>

NotifyNotFullSkipped(k) ==
  /\ Go(k, "notify_not_full", "idle")
  /\ UNCHANGED <<state, mutex, local, history>>

(* The common tail: not_empty_.notify_all(); not_full_.notify_all(). *)
NotifyNotEmpty(k) ==
  NotifyAll(k, "notify_not_empty", "notify_not_full", "pop_wait", "pop_lock")

NotifyNotFull(k) ==
  NotifyAll(k, "notify_not_full", "idle", "push_wait", "push_lock")

-----------------------------------------------------------------------------
(* A condition variable may release a waiter for no reason. *)
SpuriousWake(t) ==
  /\ Go(t, "push_wait", "push_lock") \/ Go(t, "pop_wait", "pop_lock")
  /\ UNCHANGED <<state, mutex, local, history>>

PushStep(p) ==
  \/ PushWait(p) \/ PushRefuse(p) \/ PushBack(p) \/ PushBadAlloc(p)
  \/ PushNotify(p)

PopStep(c) == PopWait(c) \/ PopFinish(c) \/ PopTake(c) \/ PopNotify(c)

CloseStep(k) ==
  \/ CloseAgain(k) \/ CloseSet(k)
  \/ DrainBody(k) \/ DrainBadAlloc(k)
  \/ NotifyNotEmpty(k) \/ NotifyNotFull(k)

Next ==
  \/ \E p \in Producers : PushCall(p) \/ PushLock(p) \/ PushStep(p)
  \/ \E c \in Consumers : PopCall(c) \/ PopLock(c) \/ PopStep(c)
  \/ \E k \in Closers :
       CloseCall(k) \/ CloseLock(k) \/ DrainCall(k) \/ DrainLock(k) \/ CloseStep(k)
  \/ \E t \in Producers \cup Consumers : SpuriousWake(t)

Spec == Init /\ [][Next]_vars

(* A thread inside a call keeps running, and a thread that keeps asking    *)
(* for mutex_ gets it.  A consumer that has not been given nullopt calls   *)
(* pop again: the loop of ThreadPool::worker_loop.  Nobody has to call     *)
(* push or close, and no spurious wake-up has to happen.                   *)
Fairness ==
  /\ \A p \in Producers : SF_vars(PushLock(p)) /\ WF_vars(PushStep(p))
  /\ \A c \in Consumers :
       /\ SF_vars(PopLock(c)) /\ WF_vars(PopStep(c))
       /\ WF_vars(c \notin finished /\ PopCall(c))
  /\ \A k \in Closers :
       SF_vars(CloseLock(k)) /\ SF_vars(DrainLock(k)) /\ WF_vars(CloseStep(k))

FairSpec == Spec /\ Fairness

-----------------------------------------------------------------------------
(* Properties *)

Labels ==
  {"idle",
   "push_lock", "push_held", "push_wait", "push_notify",
   "pop_lock", "pop_held", "pop_wait", "pop_notify",
   "close_lock", "close_held", "drain_lock", "drain_held",
   "notify_not_empty", "notify_not_full"}

(* Every variable has its type; in particular a moved-from value is never  *)
(* in the queue, in a drained batch or counted as taken.                   *)
TypeOK ==
  /\ items \in Seq(Items)
  /\ closed \in BOOLEAN
  /\ mutex \in Threads \cup {NoThread}
  /\ pc \in [Threads -> Labels]
  /\ val \in [Threads -> Items \cup {NoItem}]
  /\ batch \in [Threads -> Seq(Items)]
  /\ fresh \in SUBSET Items
  /\ accepted \in Seq(Items)
  /\ taken \in Seq(Items)
  /\ finished \in SUBSET Consumers
  /\ threw \in BOOLEAN

(* Every value that push accepted comes out exactly once and in the order  *)
(* it went in, through pop or through a drain, whatever the interleaving:  *)
(* no step loses, duplicates or reorders one.                              *)
FifoConservation == accepted = taken \o items

(* "never above capacity": the room a producer saw is still there when it  *)
(* pushes, also when it was woken together with others.                    *)
WithinCapacity == Len(items) <= Capacity

(* A consumer that was given nullopt has seen the end: the queue is closed *)
(* and empty and stays so, although producers may still be inside push and *)
(* the wake-up may have been spurious.                                     *)
EndIsFinal == finished # {} => closed /\ items = <<>>

(* Once closed_ is set it stays set and no value enters any more: a push   *)
(* that was waiting for room when the queue was closed is refused.         *)
NothingEntersClosed == [][closed => closed' /\ accepted' = accepted]_vars

(* A waiting consumer is never forgotten: as long as the queue is open,    *)
(* every queued value is matched by a producer that has still to notify or *)
(* by a consumer that is awake and will look at the queue.                 *)
NoLostItemWakeup ==
  ~closed /\ (\E c \in Consumers : pc[c] = "pop_wait") =>
    Len(items) <= Cardinality({t \in Threads :
                    pc[t] \in {"push_notify", "pop_lock", "pop_held"}})

(* A waiting producer is never forgotten: as long as the queue is open and *)
(* no push has thrown, every free place is matched by a consumer that has  *)
(* still to notify or by a producer that is awake and will look.           *)
NoLostSpaceWakeup ==
  ~closed /\ ~threw /\ (\E p \in Producers : pc[p] = "push_wait") =>
    Capacity <= Len(items) + Cardinality({t \in Threads :
                    pc[t] \in {"pop_notify", "push_lock", "push_held"}})

(* Nobody stays asleep at a closed queue, unless a call has thrown: while  *)
(* a thread waits, some call of close or close_and_drain has still to      *)
(* notify its condition variable.                                          *)
NoSleeperWhenClosed ==
  closed /\ ~threw =>
    /\ (\E c \in Consumers : pc[c] = "pop_wait") =>
         \E k \in Closers : pc[k] = "notify_not_empty"
    /\ (\E p \in Producers : pc[p] = "push_wait") =>
         \E k \in Closers : pc[k] \in {"notify_not_empty", "notify_not_full"}

(* While consumers keep popping, every push returns: the queue being full, *)
(* other producers being woken first and spurious wake-ups only delay it.  *)
PushReturns == \A p \in Producers : pc[p] = "push_lock" ~> pc[p] = "idle"

(* A stop releases every thread that was blocked in push or pop when it    *)
(* was called, whichever of the two calls it was and whoever else stops    *)
(* the queue at the same time.                                             *)
Blocked(t) == pc[t] \in {"push_wait", "pop_wait"}

StopReleasesAll ==
  \A k \in Closers, t \in Producers \cup Consumers :
    pc[k] \in {"close_lock", "drain_lock"} /\ Blocked(t) ~> pc[t] = "idle"

(* The same of close alone: the claim of the comment on close().           *)
CloseReleasesAll ==
  \A k \in Closers, t \in Producers \cup Consumers :
    pc[k] = "close_lock" /\ Blocked(t) ~> pc[t] = "idle"

(* A consumer that pops until it gets nullopt does get it once the queue   *)
(* is closed, and then everything that was accepted has been taken.        *)
ConsumersFinish ==
  closed ~> Consumers \subseteq finished /\ taken = accepted

(* A blocked push proceeds when there is room: no producer waits for ever  *)
(* while the queue stays open and not full.                                *)
RoomIsUsed ==
  \A p \in Producers :
    ~<>[](pc[p] = "push_wait" /\ ~closed /\ Len(items) < Capacity)

-----------------------------------------------------------------------------
(* BoundedChannel is what the callers see: mutex_, the waiting and the     *)
(* waking are hidden, and a call takes effect in its locked section.       *)

Phase(label) ==
  CASE label = "idle" -> "idle"
    [] label \in {"push_lock", "push_held", "push_wait"} -> "pushing"
    [] label \in {"pop_lock", "pop_held", "pop_wait"} -> "popping"
    [] label \in {"close_lock", "close_held"} -> "closing"
    [] label \in {"drain_lock", "drain_held"} -> "draining"
    [] OTHER -> "returning"

Chan == INSTANCE BoundedChannel WITH
  chan <- items, shut <- closed, phase <- [t \in Threads |-> Phase(pc[t])]

(* Every behaviour of the queue is one of the atomic channel: each call    *)
(* takes effect at one moment between its start and its return.            *)
ImplementsChannel == Chan!Spec
=============================================================================
