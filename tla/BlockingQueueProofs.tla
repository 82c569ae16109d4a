------------------------ MODULE BlockingQueueProofs ------------------------
(***************************************************************************)
(* Theorems about BlockingQueue for any number of threads and values, any  *)
(* capacity, and with or without failing allocations: its types and its    *)
(* refinement of Channel first, then the threads that sleep on not_empty_  *)
(* and not_full_.                                                          *)
(***************************************************************************)
EXTENDS BlockingQueue, TLAPS, FiniteSetTheorems

(* TypeOK alone is not inductive: that push_back queues a value and not a  *)
(* moved-from one needs to know that a thread inside push, also while it   *)
(* waits and after it was woken, still has its argument.                   *)
ArgumentHeld ==
  \A t \in Threads :
    pc[t] \in {"push_lock", "push_held", "push_wait"} => val[t] \in Items

TypeInv == TypeOK /\ ArgumentHeld

(* The steps grouped by what they touch: Moves only moves threads and the  *)
(* mutex (lock, wait, refuse, notify, wake).                               *)
Moves == UNCHANGED <<state, local, history>>

LEMMA InitType == Init => TypeInv
<1> SUFFICES ASSUME Init PROVE TypeInv
  OBVIOUS
<1>1. <<>> \in Seq(Items)
  OBVIOUS
<1>2. ArgumentHeld
  BY DEF Init, ArgumentHeld
<1>3. TypeOK
  BY <1>1 DEF Init, TypeOK, Labels
<1> QED
  BY <1>2, <1>3 DEF TypeInv

(* Acquiring, waiting, notifying and waking keep the argument in place.    *)
LEMMA MovesType ==
  ASSUME TypeInv, Moves,
         pc' \in [Threads -> Labels], mutex' \in Threads \cup {NoThread},
         \A t \in Threads :
           pc'[t] \in {"push_lock", "push_held", "push_wait"} =>
             pc[t] \in {"push_lock", "push_held", "push_wait"}
  PROVE  TypeInv'
  BY DEF TypeInv, TypeOK, ArgumentHeld, Moves, state, local, history

LEMMA PushType ==
  ASSUME TypeInv, NEW p \in Producers,
         PushCall(p) \/ PushLock(p) \/ PushStep(p)
  PROVE  TypeInv'
<1> p \in Threads
  BY DEF Threads
<1> USE DEF TypeInv, TypeOK
<1>1. CASE PushCall(p)
  BY <1>1 DEF PushCall, Go, state, history, ArgumentHeld, Labels
<1>2. CASE PushLock(p)
  BY <1>2, MovesType DEF PushLock, Lock, Go, Moves, Labels
<1>3. CASE PushWait(p)
  BY <1>3, MovesType DEF PushWait, Wait, Unlock, Go, Moves, Labels
<1>4. CASE PushRefuse(p)
  BY <1>4, MovesType DEF PushRefuse, Unlock, Go, Moves, Labels
<1>5. CASE PushBack(p)
  <2>1. val[p] \in Items
    BY <1>5 DEF PushBack, Unlock, Go, ArgumentHeld
  <2>2. items' \in Seq(Items) /\ accepted' \in Seq(Items)
    BY <1>5, <2>1 DEF PushBack
  <2> QED
    BY <1>5, <2>2 DEF PushBack, Unlock, Go, ArgumentHeld, Labels
<1>6. CASE PushBadAlloc(p)
  BY <1>6 DEF PushBadAlloc, Unlock, Go, ArgumentHeld, state, local, Labels
<1>7. CASE PushNotify(p)
  BY <1>7, MovesType DEF PushNotify, NotifyOne, Moves, Labels
<1> QED
  BY <1>1, <1>2, <1>3, <1>4, <1>5, <1>6, <1>7 DEF PushStep

LEMMA PopType ==
  ASSUME TypeInv, NEW c \in Consumers,
         PopCall(c) \/ PopLock(c) \/ PopStep(c)
  PROVE  TypeInv'
<1> c \in Threads
  BY DEF Threads
<1> USE DEF TypeInv, TypeOK
<1>1. CASE PopCall(c)
  BY <1>1 DEF PopCall, Go, state, history, ArgumentHeld, Labels
<1>2. CASE PopLock(c)
  BY <1>2, MovesType DEF PopLock, Lock, Go, Moves, Labels
<1>3. CASE PopWait(c)
  BY <1>3, MovesType DEF PopWait, Wait, Unlock, Go, Moves, Labels
<1>4. CASE PopFinish(c)
  BY <1>4 DEF PopFinish, Unlock, Go, state, local, ArgumentHeld, Labels
<1>5. CASE PopTake(c)
  <2>1. /\ Head(items) \in Items
        /\ items' \in Seq(Items)
        /\ taken' \in Seq(Items)
    BY <1>5 DEF PopTake
  <2> QED
    BY <1>5, <2>1 DEF PopTake, Unlock, Go, ArgumentHeld, Labels
<1>6. CASE PopNotify(c)
  BY <1>6, MovesType DEF PopNotify, NotifyOne, Moves, Labels
<1> QED
  BY <1>1, <1>2, <1>3, <1>4, <1>5, <1>6 DEF PopStep

LEMMA CloseType ==
  ASSUME TypeInv, NEW k \in Closers,
         CloseCall(k) \/ CloseLock(k) \/ DrainCall(k) \/ DrainLock(k) \/ CloseStep(k)
  PROVE  TypeInv'
<1> k \in Threads
  BY DEF Threads
<1> USE DEF TypeInv, TypeOK
<1>1. CASE CloseCall(k) \/ DrainCall(k)
  BY <1>1, MovesType DEF CloseCall, DrainCall, Go, Moves, Labels
<1>2. CASE CloseLock(k) \/ DrainLock(k)
  BY <1>2, MovesType DEF CloseLock, DrainLock, Lock, Go, Moves, Labels
<1>3. CASE CloseAgain(k)
  BY <1>3, MovesType DEF CloseAgain, Unlock, Go, Moves, Labels
<1>4. CASE CloseSet(k) \/ DrainBadAlloc(k)
  BY <1>4 DEF CloseSet, DrainBadAlloc, Unlock, Go, local, history, ArgumentHeld, Labels
<1>5. CASE DrainBody(k)
  <2>1. taken' \in Seq(Items) /\ items' \in Seq(Items)
    BY <1>5 DEF DrainBody
  <2> QED
    BY <1>5, <2>1 DEF DrainBody, Unlock, Go, ArgumentHeld, Labels
<1>6. CASE NotifyNotEmpty(k)
  BY <1>6, MovesType DEF NotifyNotEmpty, NotifyAll, Moves, Labels
<1>7. CASE NotifyNotFull(k)
  BY <1>7, MovesType DEF NotifyNotFull, NotifyAll, Moves, Labels
<1> QED
  BY <1>1, <1>2, <1>3, <1>4, <1>5, <1>6, <1>7 DEF CloseStep

LEMMA StepType == TypeInv /\ [Next]_vars => TypeInv'
<1> SUFFICES ASSUME TypeInv, [Next]_vars PROVE TypeInv'
  OBVIOUS
<1>1. CASE \E t \in Producers \cup Consumers : SpuriousWake(t)
  BY <1>1, MovesType
     DEF SpuriousWake, Go, Moves, TypeInv, TypeOK, Threads, Labels
<1>2. CASE UNCHANGED vars
  BY <1>2 DEF vars, TypeInv, TypeOK, ArgumentHeld
<1> QED
  BY <1>1, <1>2, PushType, PopType, CloseType DEF Next

(* Every reachable state of the queue is well typed, for every number of   *)
(* threads, values and places.                                             *)
THEOREM TypeCorrect == Spec => []TypeOK
<1>1. TypeInv => TypeOK
  BY DEF TypeInv
<1> QED
  BY <1>1, InitType, StepType, PTL DEF Spec

-----------------------------------------------------------------------------
(* What is in the queue.  Most steps leave the queue and its histories     *)
(* alone; the others are the locked sections that change them.             *)

Quiet == UNCHANGED <<items, closed, accepted, taken, finished>>

LEMMA StepEffect ==
  ASSUME [Next]_vars
  PROVE  \/ Quiet
         \/ \E p \in Producers : PushBack(p)
         \/ \E c \in Consumers : PopTake(c) \/ PopFinish(c)
         \/ \E k \in Closers : CloseSet(k) \/ DrainBody(k) \/ DrainBadAlloc(k)
<1> USE DEF Quiet, state, history
<1>1. ASSUME NEW p \in Producers, PushCall(p) \/ PushLock(p) \/ PushStep(p)
      PROVE  Quiet \/ PushBack(p)
  BY <1>1 DEF PushStep, PushCall, PushLock, Lock, PushWait, Wait, PushRefuse,
              PushBadAlloc, PushNotify, NotifyOne
<1>2. ASSUME NEW c \in Consumers, PopCall(c) \/ PopLock(c) \/ PopStep(c)
      PROVE  Quiet \/ PopTake(c) \/ PopFinish(c)
  BY <1>2 DEF PopStep, PopCall, PopLock, Lock, PopWait, Wait, PopNotify, NotifyOne
<1>3. ASSUME NEW k \in Closers,
             CloseCall(k) \/ CloseLock(k) \/ DrainCall(k) \/ DrainLock(k) \/ CloseStep(k)
      PROVE  Quiet \/ CloseSet(k) \/ DrainBody(k) \/ DrainBadAlloc(k)
  BY <1>3 DEF CloseStep, CloseCall, CloseLock, DrainCall, DrainLock, Lock,
              CloseAgain, NotifyNotEmpty, NotifyNotFull, NotifyAll
<1>4. CASE \E t \in Producers \cup Consumers : SpuriousWake(t)
  BY <1>4 DEF SpuriousWake
<1>5. CASE UNCHANGED vars
  BY <1>5 DEF vars
<1> QED
  BY <1>1, <1>2, <1>3, <1>4, <1>5 DEF Next

(* The three facts about the contents are inductive together with the      *)
(* types: the order and the number of the values, the bound, and that the  *)
(* end of the queue, once reported, is the end.                            *)
QueueInv == TypeInv /\ FifoConservation /\ WithinCapacity /\ EndIsFinal

(* Sequences: what the three ways to change the queue do to the histories. *)
LEMMA AppendBoth ==
  \A s, u \in Seq(Items), v \in Items : Append(s \o u, v) = s \o Append(u, v)
  OBVIOUS

LEMMA MoveHead ==
  \A s, u \in Seq(Items) : u # <<>> => s \o u = Append(s, Head(u)) \o Tail(u)
  OBVIOUS

LEMMA ConcatEmpty == \A s \in Seq(Items) : s \o <<>> = s
  OBVIOUS

LEMMA StepQueue ==
  ASSUME QueueInv, [Next]_vars
  PROVE  FifoConservation' /\ WithinCapacity' /\ EndIsFinal'
<1> USE DEF QueueInv, FifoConservation, WithinCapacity, EndIsFinal
<1> items \in Seq(Items) /\ taken \in Seq(Items) /\ accepted \in Seq(Items)
  BY DEF TypeInv, TypeOK
<1>1. CASE Quiet
  BY <1>1 DEF Quiet
<1>2. ASSUME NEW p \in Producers, PushBack(p)
      PROVE  FifoConservation' /\ WithinCapacity' /\ EndIsFinal'
  <2>1. val[p] \in Items
    BY <1>2 DEF PushBack, Unlock, Go, TypeInv, ArgumentHeld, Threads
  <2>2. FifoConservation'
    BY <1>2, <2>1, AppendBoth DEF PushBack
  <2>3. WithinCapacity'
    BY <1>2, <2>1, CapacityAssumption DEF PushBack, CanPush
  <2> QED
    BY <1>2, <2>2, <2>3 DEF PushBack
<1>3. ASSUME NEW c \in Consumers, PopTake(c)
      PROVE  FifoConservation' /\ WithinCapacity' /\ EndIsFinal'
  <2>1. FifoConservation'
    BY <1>3, MoveHead DEF PopTake
  <2>2. WithinCapacity'
    BY <1>3, CapacityAssumption DEF PopTake
  <2> QED
    BY <1>3, <2>1, <2>2 DEF PopTake
<1>4. ASSUME NEW c \in Consumers, PopFinish(c)
      PROVE  FifoConservation' /\ WithinCapacity' /\ EndIsFinal'
  BY <1>4 DEF PopFinish, CanPop, state
<1>5. ASSUME NEW k \in Closers, CloseSet(k) \/ DrainBadAlloc(k)
      PROVE  FifoConservation' /\ WithinCapacity' /\ EndIsFinal'
  BY <1>5 DEF CloseSet, DrainBadAlloc, history
<1>6. ASSUME NEW k \in Closers, DrainBody(k)
      PROVE  FifoConservation' /\ WithinCapacity' /\ EndIsFinal'
  <2>1. taken' \in Seq(Items)
    BY <1>6 DEF DrainBody
  <2>2. FifoConservation'
    BY <1>6, <2>1, ConcatEmpty DEF DrainBody
  <2> QED
    BY <1>6, <2>2, CapacityAssumption DEF DrainBody
<1> QED
  BY <1>1, <1>2, <1>3, <1>4, <1>5, <1>6, StepEffect

LEMMA QueueInvariant == Spec => []QueueInv
<1>1. Init => QueueInv
  <2> SUFFICES ASSUME Init PROVE QueueInv
    OBVIOUS
  <2>1. FifoConservation /\ WithinCapacity /\ EndIsFinal
    BY CapacityAssumption
       DEF Init, FifoConservation, WithinCapacity, EndIsFinal
  <2> QED
    BY <2>1, InitType DEF QueueInv
<1>2. QueueInv /\ [Next]_vars => QueueInv'
  BY StepQueue, StepType DEF QueueInv
<1> QED
  BY <1>1, <1>2, PTL DEF Spec

(* No interleaving of push, pop, close and close_and_drain, with or        *)
(* without failing allocations, loses, duplicates or reorders a value.     *)
THEOREM FifoConserved == Spec => []FifoConservation
<1>1. QueueInv => FifoConservation
  BY DEF QueueInv
<1> QED
  BY <1>1, QueueInvariant, PTL

(* However many producers are woken for one free place, the deque never    *)
(* holds more than capacity_ values.                                       *)
THEOREM CapacityKept == Spec => []WithinCapacity
<1>1. QueueInv => WithinCapacity
  BY DEF QueueInv
<1> QED
  BY <1>1, QueueInvariant, PTL

(* The contract worker_loop relies on to exit: nullopt is only ever seen   *)
(* at the real end of the queue, and nothing is queued behind it.          *)
THEOREM EndReportedOnce == Spec => []EndIsFinal
<1>1. QueueInv => EndIsFinal
  BY DEF QueueInv
<1> QED
  BY <1>1, QueueInvariant, PTL

(* Closing is final: nobody opens the queue again and no push that raced   *)
(* with the close gets its value in.                                       *)
THEOREM ClosedIsFinal == Spec => NothingEntersClosed
<1>1. TypeInv /\ [Next]_vars => [closed => closed' /\ accepted' = accepted]_vars
  <2> SUFFICES ASSUME TypeInv, [Next]_vars, closed
               PROVE  closed' /\ accepted' = accepted
    OBVIOUS
  <2> QED
    BY StepEffect
       DEF Quiet, PushBack, PopTake, PopFinish, CloseSet, DrainBody,
           DrainBadAlloc, state, history, TypeInv, TypeOK
<1> QED
  BY <1>1, InitType, StepType, PTL DEF Spec, NothingEntersClosed

-----------------------------------------------------------------------------
(* BlockingQueue implements BoundedChannel: under the mapping of Chan,     *)
(* which forgets mutex_, the waiting and the waking, every step of the     *)
(* queue is one atomic step of the channel or none, for any number of      *)
(* threads and values and any capacity.                                    *)

(* The channel's view of where the threads are. *)
Phases(p) == [t \in Threads |-> Phase(p[t])]

(* Where each label is in the eyes of a caller. *)
LEMMA PhaseOf ==
  /\ Phase("idle") = "idle"
  /\ Phase("push_lock") = "pushing" /\ Phase("push_held") = "pushing"
  /\ Phase("push_wait") = "pushing" /\ Phase("push_notify") = "returning"
  /\ Phase("pop_lock") = "popping" /\ Phase("pop_held") = "popping"
  /\ Phase("pop_wait") = "popping" /\ Phase("pop_notify") = "returning"
  /\ Phase("close_lock") = "closing" /\ Phase("close_held") = "closing"
  /\ Phase("drain_lock") = "draining" /\ Phase("drain_held") = "draining"
  /\ Phase("notify_not_empty") = "returning" /\ Phase("notify_not_full") = "returning"
  BY DEF Phase

(* A thread that moves on is a thread that moves on for the channel too,   *)
(* or, if its phase stays the same, nothing happens.                       *)
LEMMA GoPhase ==
  ASSUME TypeInv, NEW t \in Threads, NEW from, NEW to, Go(t, from, to)
  PROVE  /\ Phases(pc)[t] = Phase(from)
         /\ Phases(pc') = [Phases(pc) EXCEPT ![t] = Phase(to)]
         /\ Phase(from) = Phase(to) => Phases(pc') = Phases(pc)
  BY DEF Go, Phases, TypeInv, TypeOK

(* Whom a notification wakes does not show; that the call returns does.    *)
LEMMA NotifyPhase ==
  ASSUME TypeInv, NEW t \in Threads, NEW from, NEW waiting, NEW woken,
         NotifyOne(t, from, waiting, woken), from # waiting,
         Phase(waiting) = Phase(woken)
  PROVE  /\ Phases(pc)[t] = Phase(from)
         /\ Phases(pc') = [Phases(pc) EXCEPT ![t] = Phase("idle")]
<1>1. CASE \E w \in Threads : pc[w] = waiting
  <2>1. PICK w \in Threads :
          pc[w] = waiting /\ pc' = [pc EXCEPT ![t] = "idle", ![w] = woken]
    BY <1>1 DEF NotifyOne
  <2> QED
    BY <2>1 DEF NotifyOne, Phases, TypeInv, TypeOK
<1>2. CASE ~ \E w \in Threads : pc[w] = waiting
  BY <1>2 DEF NotifyOne, Phases, TypeInv, TypeOK
<1> QED
  BY <1>1, <1>2

LEMMA NotifyAllPhase ==
  ASSUME TypeInv, NEW t \in Threads, NEW from, NEW to, NEW waiting, NEW woken,
         NotifyAll(t, from, to, waiting, woken), Phase(waiting) = Phase(woken)
  PROVE  /\ Phases(pc)[t] = Phase(from)
         /\ Phases(pc') = [Phases(pc) EXCEPT ![t] = Phase(to)]
         /\ Phase(from) = Phase(to) => Phases(pc') = Phases(pc)
  BY DEF NotifyAll, Phases, TypeInv, TypeOK

-----------------------------------------------------------------------------
(* A step of the queue is a step of the channel, or the channel stutters.  *)

Stutters == UNCHANGED <<items, closed, fresh, val, batch, threw, Phases(pc)>>

LEMMA PushRefines ==
  ASSUME TypeInv, NEW p \in Producers, PushCall(p) \/ PushLock(p) \/ PushStep(p)
  PROVE  \/ Stutters \/ Chan!Call(p) \/ Chan!Return(p)
         \/ Chan!PushAccepted(p) \/ Chan!PushRefused(p) \/ Chan!PushThrew(p)
<1> p \in Threads
  BY DEF Threads
<1> USE PhaseOf DEF state, local, history
<1>1. CASE PushCall(p)
  <2>1. Chan!Step(p, "idle", "pushing")
    BY <1>1, GoPhase DEF PushCall, Chan!Step, Phases
  <2> QED
    BY <1>1, <2>1 DEF PushCall, Chan!Call
<1>2. CASE PushLock(p)
  BY <1>2, GoPhase DEF PushLock, Lock, Stutters
<1>3. CASE PushWait(p)
  BY <1>3, GoPhase DEF PushWait, Wait, Unlock, Stutters
<1>4. CASE PushRefuse(p)
  <2>1. Chan!Step(p, "pushing", "idle")
    BY <1>4, GoPhase DEF PushRefuse, Unlock, Chan!Step, Phases
  <2> QED
    BY <1>4, <2>1 DEF PushRefuse, Chan!PushRefused, Chan!Refuse
<1>5. CASE PushBack(p)
  <2>1. Chan!Step(p, "pushing", "returning")
    BY <1>5, GoPhase DEF PushBack, Unlock, Chan!Step, Phases
  <2> QED
    BY <1>5, <2>1 DEF PushBack, CanPush, Chan!PushAccepted, Chan!Push
<1>6. CASE PushNotify(p)
  <2>1. Chan!Step(p, "returning", "idle")
    BY <1>6, NotifyPhase DEF PushNotify, Chan!Step, Phases
  <2> QED
    BY <1>6, <2>1 DEF PushNotify, NotifyOne, Chan!Return
<1>7. CASE PushBadAlloc(p)
  <2>1. Chan!Step(p, "pushing", "idle")
    BY <1>7, GoPhase DEF PushBadAlloc, Unlock, Chan!Step, Phases
  <2> QED
    BY <1>7, <2>1 DEF PushBadAlloc, Chan!PushThrew
<1> QED
  BY <1>1, <1>2, <1>3, <1>4, <1>5, <1>6, <1>7 DEF PushStep

LEMMA PopRefines ==
  ASSUME TypeInv, NEW c \in Consumers, PopCall(c) \/ PopLock(c) \/ PopStep(c)
  PROVE  \/ Stutters \/ Chan!Call(c) \/ Chan!Return(c)
         \/ Chan!PopTaken(c) \/ Chan!PopFinished(c)
<1> c \in Threads
  BY DEF Threads
<1> USE PhaseOf DEF state, local, history
<1>1. CASE PopCall(c)
  <2>1. Chan!Step(c, "idle", "popping")
    BY <1>1, GoPhase DEF PopCall, Chan!Step, Phases
  <2> QED
    BY <1>1, <2>1 DEF PopCall, Chan!Call
<1>2. CASE PopLock(c)
  BY <1>2, GoPhase DEF PopLock, Lock, Stutters
<1>3. CASE PopWait(c)
  BY <1>3, GoPhase DEF PopWait, Wait, Unlock, Stutters
<1>4. CASE PopFinish(c)
  <2>1. Chan!Step(c, "popping", "idle")
    BY <1>4, GoPhase DEF PopFinish, Unlock, Chan!Step, Phases
  <2> QED
    BY <1>4, <2>1 DEF PopFinish, CanPop, Chan!PopFinished, Chan!Finish
<1>5. CASE PopTake(c)
  <2>1. Chan!Step(c, "popping", "returning")
    BY <1>5, GoPhase DEF PopTake, Unlock, Chan!Step, Phases
  <2> QED
    BY <1>5, <2>1 DEF PopTake, Chan!PopTaken, Chan!Pop
<1>6. CASE PopNotify(c)
  <2>1. Chan!Step(c, "returning", "idle")
    BY <1>6, NotifyPhase DEF PopNotify, Chan!Step, Phases
  <2> QED
    BY <1>6, <2>1 DEF PopNotify, NotifyOne, Chan!Return
<1> QED
  BY <1>1, <1>2, <1>3, <1>4, <1>5, <1>6 DEF PopStep

LEMMA CloseRefines ==
  ASSUME TypeInv, NEW k \in Closers,
         CloseCall(k) \/ CloseLock(k) \/ DrainCall(k) \/ DrainLock(k) \/ CloseStep(k)
  PROVE  \/ Stutters \/ Chan!Call(k) \/ Chan!Return(k)
         \/ Chan!CloseDone(k) \/ Chan!DrainDone(k)
<1> k \in Threads
  BY DEF Threads
<1> USE PhaseOf DEF state, local, history
<1>1. CASE CloseCall(k)
  <2>1. Chan!Step(k, "idle", "closing")
    BY <1>1, GoPhase DEF CloseCall, Chan!Step, Phases
  <2> QED
    BY <1>1, <2>1 DEF CloseCall, Chan!Call
<1>2. CASE DrainCall(k)
  <2>1. Chan!Step(k, "idle", "draining")
    BY <1>2, GoPhase DEF DrainCall, Chan!Step, Phases
  <2> QED
    BY <1>2, <2>1 DEF DrainCall, Chan!Call
<1>3. CASE CloseLock(k) \/ DrainLock(k)
  BY <1>3, GoPhase DEF CloseLock, DrainLock, Lock, Stutters
<1>4. CASE CloseAgain(k)
  <2>1. Chan!Step(k, "closing", "idle")
    BY <1>4, GoPhase DEF CloseAgain, Unlock, Chan!Step, Phases
  <2>2. closed' = TRUE
    BY <1>4 DEF CloseAgain, TypeInv, TypeOK
  <2> QED
    BY <1>4, <2>1, <2>2 DEF CloseAgain, Chan!CloseDone, Chan!Close
<1>5. CASE CloseSet(k)
  <2>1. Chan!Step(k, "closing", "returning")
    BY <1>5, GoPhase DEF CloseSet, Unlock, Chan!Step, Phases
  <2> QED
    BY <1>5, <2>1 DEF CloseSet, Chan!CloseDone, Chan!Close
<1>6. CASE DrainBody(k)
  <2>1. Chan!Step(k, "draining", "returning")
    BY <1>6, GoPhase DEF DrainBody, Unlock, Chan!Step, Phases
  <2> QED
    BY <1>6, <2>1 DEF DrainBody, Chan!DrainDone, Chan!CloseAndDrain
<1>7. CASE DrainBadAlloc(k)
  <2>1. Chan!Step(k, "draining", "idle")
    BY <1>7, GoPhase DEF DrainBadAlloc, Unlock, Chan!Step, Phases
  <2> QED
    BY <1>7, <2>1 DEF DrainBadAlloc, Chan!DrainDone, Chan!Close
<1>8. CASE NotifyNotEmpty(k)
  <2>1. Phases(pc') = Phases(pc)
    BY <1>8, NotifyAllPhase DEF NotifyNotEmpty
  <2> QED
    BY <1>8, <2>1 DEF NotifyNotEmpty, NotifyAll, Stutters
<1>9. CASE NotifyNotFull(k)
  <2>1. Chan!Step(k, "returning", "idle")
    BY <1>9, NotifyAllPhase DEF NotifyNotFull, Chan!Step, Phases
  <2> QED
    BY <1>9, <2>1 DEF NotifyNotFull, NotifyAll, Chan!Return
<1> QED
  BY <1>1, <1>2, <1>3, <1>4, <1>5, <1>6, <1>7, <1>8, <1>9 DEF CloseStep

LEMMA StepRefines == TypeInv /\ [Next]_vars => [Chan!Next]_(Chan!vars)
<1> SUFFICES ASSUME TypeInv, [Next]_vars PROVE [Chan!Next]_(Chan!vars)
  OBVIOUS
<1>1. Stutters => UNCHANGED Chan!vars
  BY DEF Stutters, Phases, Chan!vars
<1>2. ASSUME NEW p \in Producers, PushCall(p) \/ PushLock(p) \/ PushStep(p)
      PROVE  [Chan!Next]_(Chan!vars)
  <2>1. p \in Chan!Threads
    BY DEF Chan!Threads
  <2> QED
    BY <1>1, <1>2, <2>1, PushRefines DEF Chan!Next
<1>3. ASSUME NEW c \in Consumers, PopCall(c) \/ PopLock(c) \/ PopStep(c)
      PROVE  [Chan!Next]_(Chan!vars)
  <2>1. c \in Chan!Threads
    BY DEF Chan!Threads
  <2> QED
    BY <1>1, <1>3, <2>1, PopRefines DEF Chan!Next
<1>4. ASSUME NEW k \in Closers,
             CloseCall(k) \/ CloseLock(k) \/ DrainCall(k) \/ DrainLock(k) \/ CloseStep(k)
      PROVE  [Chan!Next]_(Chan!vars)
  <2>1. k \in Chan!Threads
    BY DEF Chan!Threads
  <2> QED
    BY <1>1, <1>4, <2>1, CloseRefines DEF Chan!Next
<1>5. ASSUME NEW t \in Producers \cup Consumers, SpuriousWake(t)
      PROVE  Stutters
  <2>1. t \in Threads
    BY DEF Threads
  <2> QED
    BY <1>5, <2>1, GoPhase, PhaseOf DEF SpuriousWake, Stutters, state, local, history
<1>6. CASE UNCHANGED vars
  BY <1>1, <1>6 DEF vars, Stutters, Phases
<1> QED
  BY <1>1, <1>2, <1>3, <1>4, <1>5, <1>6 DEF Next

(* The callers of push, pop, close and close_and_drain cannot tell the     *)
(* queue from a channel whose calls take effect in one step: neither the   *)
(* waits, the spurious wake-ups and the late notifications show, nor an    *)
(* allocation that fails half way.                                         *)
THEOREM QueueIsAChannel == Spec => ImplementsChannel
<1>1. Init => Chan!Init
  BY PhaseOf DEF Init, Chan!Init, Chan!ChannelInit, Chan!Threads, Threads
<1> QED
  BY <1>1, InitType, StepType, StepRefines, PTL DEF Spec, ImplementsChannel, Chan!Spec

-----------------------------------------------------------------------------
(* Wake-ups: no notification is lost.  The two counting invariants are     *)
(* inductive with the types alone.  What they count are the threads at     *)
(* some labels, so their proof compares cardinalities before and after a   *)
(* step, and the lemmas about At say how a step that moves one or two      *)
(* threads changes them.                                                   *)

(* The threads that are at one of the labels L, when p is the pc.          *)
At(p, L) == {t \in Threads : p[t] \in L}

(* A set of threads is finite and has a natural number of elements.        *)
LEMMA AtFinite ==
  ASSUME NEW p, NEW L
  PROVE  IsFiniteSet(At(p, L)) /\ Cardinality(At(p, L)) \in Nat
<1>1. At(p, L) \in SUBSET Threads
  BY DEF At
<1>2. IsFiniteSet(At(p, L))
  BY <1>1, FS_Subset, ThreadAssumption
<1> QED
  BY <1>2, FS_CardinalityType

(* No thread leaves the labels: there are at least as many as before.      *)
LEMMA NobodyLeaves ==
  ASSUME NEW p, NEW q, NEW L,
         \A t \in Threads : p[t] \in L => q[t] \in L
  PROVE  Cardinality(At(p, L)) <= Cardinality(At(q, L))
<1>1. At(p, L) \in SUBSET At(q, L)
  BY DEF At
<1> QED
  BY <1>1, AtFinite, FS_Subset

(* One thread leaves the labels.                                           *)
LEMMA OneLeaves ==
  ASSUME NEW p, NEW q, NEW L, NEW t \in Threads,
         p[t] \in L, q[t] \notin L, \A u \in Threads \ {t} : q[u] = p[u]
  PROVE  Cardinality(At(q, L)) = Cardinality(At(p, L)) - 1
<1>1. At(q, L) = At(p, L) \ {t}
  BY DEF At
<1>2. t \in At(p, L)
  BY DEF At
<1>3. Cardinality(At(p, L) \ {t}) = Cardinality(At(p, L)) - 1
  BY <1>2, AtFinite, FS_RemoveElement
<1> QED
  BY <1>1, <1>3

(* One thread comes to one of the labels.                                  *)
LEMMA OneEnters ==
  ASSUME NEW p, NEW q, NEW L, NEW t \in Threads,
         p[t] \notin L, q[t] \in L, \A u \in Threads \ {t} : q[u] = p[u]
  PROVE  Cardinality(At(q, L)) = Cardinality(At(p, L)) + 1
<1>1. At(q, L) = At(p, L) \cup {t}
  BY DEF At
<1>2. t \notin At(p, L)
  BY DEF At
<1>3. Cardinality(At(p, L) \cup {t}) = Cardinality(At(p, L)) + 1
  BY <1>2, AtFinite, FS_AddElement
<1> QED
  BY <1>1, <1>3

(* The notifying thread leaves and the thread it wakes takes its place.    *)
LEMMA OneReplaced ==
  ASSUME NEW p, NEW q, NEW L, NEW t \in Threads, NEW w \in Threads,
         p[t] \in L, q[t] \notin L, p[w] \notin L, q[w] \in L,
         \A u \in Threads \ {t, w} : q[u] = p[u]
  PROVE  Cardinality(At(q, L)) = Cardinality(At(p, L))
<1> DEFINE Others == At(p, L) \ {t}
<1>1. At(q, L) = Others \cup {w}
  BY DEF At
<1>2. t \in At(p, L) /\ w \notin Others
  BY DEF At
<1>3. IsFiniteSet(Others) /\ Cardinality(Others) = Cardinality(At(p, L)) - 1
  BY <1>2, AtFinite, FS_RemoveElement
<1> HIDE DEF Others
<1>4. Cardinality(Others \cup {w}) = Cardinality(Others) + 1
  BY <1>2, <1>3, FS_AddElement
<1>5. Cardinality(At(p, L)) \in Nat
  BY AtFinite
<1> QED
  BY <1>1, <1>3, <1>4, <1>5

-----------------------------------------------------------------------------
(* A closed queue lets nobody sleep.  Whoever sets closed_ has both        *)
(* notifications before it, nobody falls asleep afterwards because the     *)
(* predicate is evaluated under mutex_, and a notify_all leaves no sleeper *)
(* behind: inductive with the types.                                       *)

SleepInv == TypeInv /\ NoSleeperWhenClosed

(* Sleepers that were there before keep their notifier: the steps that     *)
(* leave closed_ and threw alone, put nobody to sleep and do not notify.   *)
LEMMA SleepersKeepNotifier ==
  ASSUME NoSleeperWhenClosed, closed' = closed, threw' = threw,
         \A u \in Threads :
           /\ pc'[u] \in {"push_wait", "pop_wait"} => pc'[u] = pc[u]
           /\ pc[u] \in {"notify_not_empty", "notify_not_full"} => pc'[u] = pc[u]
  PROVE  NoSleeperWhenClosed'
  BY DEF NoSleeperWhenClosed, Threads

LEMMA StepSleep ==
  ASSUME SleepInv, [Next]_vars
  PROVE  NoSleeperWhenClosed'
<1> USE DEF SleepInv, TypeInv, TypeOK
<1> Producers \subseteq Threads /\ Consumers \subseteq Threads /\ Closers \subseteq Threads
  BY DEF Threads
<1>1. ASSUME NEW p \in Producers, PushCall(p) \/ PushLock(p) \/ PushStep(p)
      PROVE  NoSleeperWhenClosed'
  <2>1. CASE PushCall(p) \/ PushLock(p) \/ PushRefuse(p) \/ PushBack(p)
    BY <2>1, SleepersKeepNotifier
       DEF PushCall, PushLock, Lock, PushRefuse, PushBack, Unlock, Go, state, history
  <2>2. CASE PushNotify(p)
    BY <2>2, SleepersKeepNotifier DEF PushNotify, NotifyOne, state, history
  <2>3. CASE PushWait(p)
    BY <2>3 DEF PushWait, CanPush, Wait, state, NoSleeperWhenClosed
  <2>4. CASE PushBadAlloc(p)
    BY <2>4 DEF PushBadAlloc, NoSleeperWhenClosed
  <2> QED
    BY <1>1, <2>1, <2>2, <2>3, <2>4 DEF PushStep
<1>2. ASSUME NEW c \in Consumers, PopCall(c) \/ PopLock(c) \/ PopStep(c)
      PROVE  NoSleeperWhenClosed'
  <2>1. CASE PopCall(c) \/ PopLock(c) \/ PopFinish(c) \/ PopTake(c)
    BY <2>1, SleepersKeepNotifier
       DEF PopCall, PopLock, Lock, PopFinish, PopTake, Unlock, Go, state, history
  <2>2. CASE PopNotify(c)
    BY <2>2, SleepersKeepNotifier DEF PopNotify, NotifyOne, state, history
  <2>3. CASE PopWait(c)
    BY <2>3 DEF PopWait, CanPop, Wait, state, NoSleeperWhenClosed
  <2> QED
    BY <1>2, <2>1, <2>2, <2>3 DEF PopStep
<1>3. ASSUME NEW k \in Closers,
             CloseCall(k) \/ CloseLock(k) \/ DrainCall(k) \/ DrainLock(k) \/ CloseStep(k)
      PROVE  NoSleeperWhenClosed'
  <2>1. CASE \/ CloseCall(k) \/ CloseLock(k) \/ DrainCall(k) \/ DrainLock(k)
             \/ CloseAgain(k)
    BY <2>1, SleepersKeepNotifier
       DEF CloseCall, CloseLock, DrainCall, DrainLock, Lock, CloseAgain, Unlock, Go,
           state, history
  <2>2. CASE CloseSet(k) \/ DrainBody(k)
    BY <2>2 DEF CloseSet, DrainBody, Unlock, Go, NoSleeperWhenClosed
  <2>3. CASE DrainBadAlloc(k)
    BY <2>3 DEF DrainBadAlloc, NoSleeperWhenClosed
  <2>4. CASE NotifyNotEmpty(k)
    BY <2>4 DEF NotifyNotEmpty, NotifyAll, NoSleeperWhenClosed
  <2>5. CASE NotifyNotFull(k)
    BY <2>5 DEF NotifyNotFull, NotifyAll, NoSleeperWhenClosed, state, history
  <2> QED
    BY <1>3, <2>1, <2>2, <2>3, <2>4, <2>5 DEF CloseStep
<1>4. CASE \E t \in Producers \cup Consumers : SpuriousWake(t)
  BY <1>4, SleepersKeepNotifier DEF SpuriousWake, Go, state, history
<1>5. CASE UNCHANGED vars
  BY <1>5 DEF vars, NoSleeperWhenClosed
<1> QED
  BY <1>1, <1>2, <1>3, <1>4, <1>5 DEF Next

(* Once the queue is closed, and as long as no call has thrown, a thread   *)
(* that still sleeps in push or pop is about to be woken.                  *)
THEOREM SleepersAreWoken == Spec => []NoSleeperWhenClosed
<1>1. Init => SleepInv
  BY InitType DEF SleepInv, Init, NoSleeperWhenClosed
<1>2. SleepInv /\ [Next]_vars => SleepInv'
  BY StepSleep, StepType DEF SleepInv
<1>3. SleepInv => NoSleeperWhenClosed
  BY DEF SleepInv
<1> QED
  BY <1>1, <1>2, <1>3, PTL DEF Spec

-----------------------------------------------------------------------------
(* No wake-up for an item is lost.  While somebody sleeps on not_empty_    *)
(* each queued value has a producer about to notify or a consumer about to *)
(* look; the count is inductive with the types.                            *)

LookForItem == {"push_notify", "pop_lock", "pop_held"}

ItemInv == TypeInv /\ NoLostItemWakeup

(* A step that adds no value and calls nobody off keeps the promise, if    *)
(* who sleeps after it slept before it.                                    *)
LEMMA ItemKept ==
  ASSUME ItemInv, items' = items, closed' = closed,
         \A u \in Threads :
           /\ pc'[u] = "pop_wait" => pc[u] = "pop_wait"
           /\ pc[u] \in LookForItem => pc'[u] \in LookForItem
  PROVE  NoLostItemWakeup'
<1> USE DEF ItemInv, TypeInv, TypeOK
<1>1. Cardinality(At(pc, LookForItem)) <= Cardinality(At(pc', LookForItem))
  BY NobodyLeaves
<1>2. Cardinality(At(pc, LookForItem)) \in Nat /\ Cardinality(At(pc', LookForItem)) \in Nat
  BY AtFinite
<1>3. (\E c \in Consumers : pc'[c] = "pop_wait") => \E c \in Consumers : pc[c] = "pop_wait"
  BY DEF Threads
<1>4. Len(items) \in Nat
  OBVIOUS
<1> QED
  BY <1>1, <1>2, <1>3, <1>4 DEF NoLostItemWakeup, At, LookForItem

LEMMA PushItem ==
  ASSUME ItemInv, NEW p \in Producers, PushCall(p) \/ PushLock(p) \/ PushStep(p)
  PROVE  NoLostItemWakeup'
<1> USE DEF ItemInv, TypeInv, TypeOK
<1> p \in Threads /\ Consumers \subseteq Threads
  BY DEF Threads
<1>1. CASE \/ PushCall(p) \/ PushLock(p) \/ PushWait(p) \/ PushRefuse(p)
           \/ PushBadAlloc(p)
  BY <1>1, ItemKept DEF PushCall, PushLock, Lock, PushWait, Wait, PushRefuse,
       PushBadAlloc, Unlock, Go, state, LookForItem
<1>2. CASE PushBack(p)
  <2>0. /\ pc[p] \notin LookForItem /\ pc'[p] \in LookForItem
        /\ \A u \in Threads \ {p} : pc'[u] = pc[u]
    BY <1>2 DEF PushBack, Unlock, Go, LookForItem
  <2>1. Cardinality(At(pc', LookForItem)) = Cardinality(At(pc, LookForItem)) + 1
    BY <2>0, OneEnters
  <2>2. Len(items') = Len(items) + 1 /\ Len(items) \in Nat
    BY <1>2 DEF PushBack
  <2>3. \A c \in Consumers : pc'[c] = "pop_wait" => pc[c] = "pop_wait"
    BY <1>2 DEF PushBack, Unlock, Go
  <2>4. Cardinality(At(pc, LookForItem)) \in Nat
    BY AtFinite
  <2> QED
    BY <1>2, <2>1, <2>2, <2>3, <2>4 DEF PushBack, NoLostItemWakeup, At, LookForItem
<1>3. CASE PushNotify(p)
  <2>1. CASE \E w \in Threads : pc[w] = "pop_wait"
    <3>1. PICK w \in Threads :
            pc[w] = "pop_wait" /\ pc' = [pc EXCEPT ![p] = "idle", ![w] = "pop_lock"]
      BY <1>3, <2>1 DEF PushNotify, NotifyOne
    <3>0. /\ pc[p] \in LookForItem /\ pc'[p] \notin LookForItem
          /\ pc[w] \notin LookForItem /\ pc'[w] \in LookForItem
          /\ \A u \in Threads \ {p, w} : pc'[u] = pc[u]
      BY <1>3, <3>1 DEF PushNotify, NotifyOne, LookForItem
    <3>2. Cardinality(At(pc', LookForItem)) = Cardinality(At(pc, LookForItem))
      BY <3>0, OneReplaced
    <3>3. \A c \in Consumers : pc'[c] = "pop_wait" => pc[c] = "pop_wait"
      BY <3>1
    <3> QED
      BY <1>3, <3>2, <3>3 DEF PushNotify, NotifyOne, state, NoLostItemWakeup, At, LookForItem
  <2>2. CASE ~ \E w \in Threads : pc[w] = "pop_wait"
    BY <1>3, <2>2 DEF PushNotify, NotifyOne, NoLostItemWakeup
  <2> QED
    BY <2>1, <2>2
<1> QED
  BY <1>1, <1>2, <1>3 DEF PushStep

LEMMA PopItem ==
  ASSUME ItemInv, NEW c \in Consumers, PopCall(c) \/ PopLock(c) \/ PopStep(c)
  PROVE  NoLostItemWakeup'
<1> USE DEF ItemInv, TypeInv, TypeOK
<1> c \in Threads /\ Consumers \subseteq Threads
  BY DEF Threads
<1>1. CASE PopCall(c) \/ PopLock(c)
  BY <1>1, ItemKept DEF PopCall, PopLock, Lock, Go, state, LookForItem
<1>2. CASE PopNotify(c)
  BY <1>2, ItemKept DEF PopNotify, NotifyOne, state, LookForItem
<1>3. CASE PopWait(c)
  <2>1. Len(items') = 0
    BY <1>3 DEF PopWait, CanPop, Wait, state
  <2>2. Cardinality(At(pc', LookForItem)) \in Nat
    BY AtFinite
  <2> QED
    BY <2>1, <2>2 DEF NoLostItemWakeup, At, LookForItem
<1>4. CASE PopFinish(c)
  BY <1>4 DEF PopFinish, CanPop, state, NoLostItemWakeup
<1>5. CASE PopTake(c)
  <2>0. /\ pc[c] \in LookForItem /\ pc'[c] \notin LookForItem
        /\ \A u \in Threads \ {c} : pc'[u] = pc[u]
    BY <1>5 DEF PopTake, Unlock, Go, LookForItem
  <2>1. Cardinality(At(pc', LookForItem)) = Cardinality(At(pc, LookForItem)) - 1
    BY <2>0, OneLeaves
  <2>2. Len(items') = Len(items) - 1 /\ Len(items) \in Nat
    BY <1>5 DEF PopTake
  <2>3. \A d \in Consumers : pc'[d] = "pop_wait" => pc[d] = "pop_wait"
    BY <1>5 DEF PopTake, Unlock, Go
  <2>4. Cardinality(At(pc, LookForItem)) \in Nat
    BY AtFinite
  <2> QED
    BY <1>5, <2>1, <2>2, <2>3, <2>4 DEF PopTake, NoLostItemWakeup, At, LookForItem
<1> QED
  BY <1>1, <1>2, <1>3, <1>4, <1>5 DEF PopStep

LEMMA StepItem ==
  ASSUME ItemInv, [Next]_vars
  PROVE  NoLostItemWakeup'
<1> USE DEF ItemInv, TypeInv, TypeOK
<1>1. ASSUME NEW k \in Closers,
             CloseCall(k) \/ CloseLock(k) \/ DrainCall(k) \/ DrainLock(k) \/ CloseStep(k)
      PROVE  NoLostItemWakeup'
  <2> k \in Threads
    BY DEF Threads
  <2>1. CASE CloseCall(k) \/ CloseLock(k) \/ DrainCall(k) \/ DrainLock(k) \/ CloseAgain(k)
    BY <2>1, ItemKept
       DEF CloseCall, CloseLock, DrainCall, DrainLock, Lock, CloseAgain, Unlock, Go,
           state, LookForItem
  <2>2. CASE CloseSet(k) \/ DrainBody(k) \/ DrainBadAlloc(k)
    BY <2>2 DEF CloseSet, DrainBody, DrainBadAlloc, NoLostItemWakeup
  <2>3. CASE NotifyNotEmpty(k) \/ NotifyNotFull(k)
    BY <2>3, ItemKept DEF NotifyNotEmpty, NotifyNotFull, NotifyAll, state, LookForItem
  <2> QED
    BY <1>1, <2>1, <2>2, <2>3 DEF CloseStep
<1>2. CASE \E t \in Producers \cup Consumers : SpuriousWake(t)
  BY <1>2, ItemKept DEF SpuriousWake, Go, state, LookForItem
<1>3. CASE UNCHANGED vars
  BY <1>3, ItemKept DEF vars, LookForItem
<1> QED
  BY <1>1, <1>2, <1>3, PushItem, PopItem DEF Next

(* A consumer asleep on an open queue is never forgotten: notify_one by    *)
(* the producers, spurious wake-ups and values taken by consumers that     *)
(* came later never leave a value behind without somebody to look at it.   *)
THEOREM ItemsAreNoticed == Spec => []NoLostItemWakeup
<1>1. Init => ItemInv
  BY InitType DEF ItemInv, Init, NoLostItemWakeup, Threads
<1>2. ItemInv /\ [Next]_vars => ItemInv'
  BY StepItem, StepType DEF ItemInv
<1>3. ItemInv => NoLostItemWakeup
  BY DEF ItemInv
<1> QED
  BY <1>1, <1>2, <1>3, PTL DEF Spec

-----------------------------------------------------------------------------
(* No wake-up for a free place is lost: the same of not_full_, with the    *)
(* free places counted.  A push that throws takes a wake-up with it, so    *)
(* the promise ends there.                                                 *)

LookForSpace == {"pop_notify", "push_lock", "push_held"}

SpaceInv == TypeInv /\ NoLostSpaceWakeup

(* A step that frees no place and calls nobody off keeps the promise, if   *)
(* who sleeps after it slept before it.                                    *)
LEMMA SpaceKept ==
  ASSUME SpaceInv, items' = items, closed' = closed, threw' = threw,
         \A u \in Threads :
           /\ pc'[u] = "push_wait" => pc[u] = "push_wait"
           /\ pc[u] \in LookForSpace => pc'[u] \in LookForSpace
  PROVE  NoLostSpaceWakeup'
<1> USE DEF SpaceInv, TypeInv, TypeOK
<1>1. Cardinality(At(pc, LookForSpace)) <= Cardinality(At(pc', LookForSpace))
  BY NobodyLeaves
<1>2. Cardinality(At(pc, LookForSpace)) \in Nat /\ Cardinality(At(pc', LookForSpace)) \in Nat
  BY AtFinite
<1>3. (\E p \in Producers : pc'[p] = "push_wait") => \E p \in Producers : pc[p] = "push_wait"
  BY DEF Threads
<1>4. Len(items) \in Nat
  OBVIOUS
<1> QED
  BY <1>1, <1>2, <1>3, <1>4, CapacityAssumption DEF NoLostSpaceWakeup, At, LookForSpace

LEMMA PushSpace ==
  ASSUME SpaceInv, NEW p \in Producers, PushCall(p) \/ PushLock(p) \/ PushStep(p)
  PROVE  NoLostSpaceWakeup'
<1> USE DEF SpaceInv, TypeInv, TypeOK
<1> p \in Threads /\ Producers \subseteq Threads
  BY DEF Threads
<1>1. CASE PushCall(p) \/ PushLock(p)
  BY <1>1, SpaceKept DEF PushCall, PushLock, Lock, Go, state, history, LookForSpace
<1>2. CASE PushNotify(p)
  BY <1>2, SpaceKept DEF PushNotify, NotifyOne, state, history, LookForSpace
<1>3. CASE PushWait(p)
  <2>1. Len(items') >= Capacity /\ Len(items') \in Nat
    BY <1>3, CapacityAssumption DEF PushWait, CanPush, Wait, state
  <2>2. Cardinality(At(pc', LookForSpace)) \in Nat
    BY AtFinite
  <2> QED
    BY <2>1, <2>2, CapacityAssumption DEF NoLostSpaceWakeup, At, LookForSpace
<1>4. CASE PushRefuse(p) \/ PushBadAlloc(p)
  BY <1>4 DEF PushRefuse, PushBadAlloc, state, NoLostSpaceWakeup
<1>5. CASE PushBack(p)
  <2>0. /\ pc[p] \in LookForSpace /\ pc'[p] \notin LookForSpace
        /\ \A u \in Threads \ {p} : pc'[u] = pc[u]
    BY <1>5 DEF PushBack, Unlock, Go, LookForSpace
  <2>1. Cardinality(At(pc', LookForSpace)) = Cardinality(At(pc, LookForSpace)) - 1
    BY <2>0, OneLeaves
  <2>2. Len(items') = Len(items) + 1 /\ Len(items) \in Nat
    BY <1>5 DEF PushBack
  <2>3. \A q \in Producers : pc'[q] = "push_wait" => pc[q] = "push_wait"
    BY <1>5 DEF PushBack, Unlock, Go
  <2>4. Cardinality(At(pc, LookForSpace)) \in Nat
    BY AtFinite
  <2> QED
    BY <1>5, <2>1, <2>2, <2>3, <2>4, CapacityAssumption
       DEF PushBack, NoLostSpaceWakeup, At, LookForSpace
<1> QED
  BY <1>1, <1>2, <1>3, <1>4, <1>5 DEF PushStep

LEMMA PopSpace ==
  ASSUME SpaceInv, NEW c \in Consumers, PopCall(c) \/ PopLock(c) \/ PopStep(c)
  PROVE  NoLostSpaceWakeup'
<1> USE DEF SpaceInv, TypeInv, TypeOK
<1> c \in Threads /\ Producers \subseteq Threads
  BY DEF Threads
<1>1. CASE PopCall(c) \/ PopLock(c) \/ PopWait(c) \/ PopFinish(c)
  BY <1>1, SpaceKept DEF PopCall, PopLock, Lock, PopWait, Wait, PopFinish, Unlock,
       Go, state, history, LookForSpace
<1>2. CASE PopTake(c)
  <2>0. /\ pc[c] \notin LookForSpace /\ pc'[c] \in LookForSpace
        /\ \A u \in Threads \ {c} : pc'[u] = pc[u]
    BY <1>2 DEF PopTake, Unlock, Go, LookForSpace
  <2>1. Cardinality(At(pc', LookForSpace)) = Cardinality(At(pc, LookForSpace)) + 1
    BY <2>0, OneEnters
  <2>2. Len(items') = Len(items) - 1 /\ Len(items) \in Nat
    BY <1>2 DEF PopTake
  <2>3. \A q \in Producers : pc'[q] = "push_wait" => pc[q] = "push_wait"
    BY <1>2 DEF PopTake, Unlock, Go
  <2>4. Cardinality(At(pc, LookForSpace)) \in Nat
    BY AtFinite
  <2> QED
    BY <1>2, <2>1, <2>2, <2>3, <2>4, CapacityAssumption
       DEF PopTake, NoLostSpaceWakeup, At, LookForSpace
<1>3. CASE PopNotify(c)
  <2>1. CASE \E w \in Threads : pc[w] = "push_wait"
    <3>1. PICK w \in Threads :
            pc[w] = "push_wait" /\ pc' = [pc EXCEPT ![c] = "idle", ![w] = "push_lock"]
      BY <1>3, <2>1 DEF PopNotify, NotifyOne
    <3>0. /\ pc[c] \in LookForSpace /\ pc'[c] \notin LookForSpace
          /\ pc[w] \notin LookForSpace /\ pc'[w] \in LookForSpace
          /\ \A u \in Threads \ {c, w} : pc'[u] = pc[u]
      BY <1>3, <3>1 DEF PopNotify, NotifyOne, LookForSpace
    <3>2. Cardinality(At(pc', LookForSpace)) = Cardinality(At(pc, LookForSpace))
      BY <3>0, OneReplaced
    <3>3. \A q \in Producers : pc'[q] = "push_wait" => pc[q] = "push_wait"
      BY <3>1
    <3> QED
      BY <1>3, <3>2, <3>3
         DEF PopNotify, NotifyOne, state, history, NoLostSpaceWakeup, At, LookForSpace
  <2>2. CASE ~ \E w \in Threads : pc[w] = "push_wait"
    BY <1>3, <2>2 DEF PopNotify, NotifyOne, NoLostSpaceWakeup
  <2> QED
    BY <2>1, <2>2
<1> QED
  BY <1>1, <1>2, <1>3 DEF PopStep

LEMMA StepSpace ==
  ASSUME SpaceInv, [Next]_vars
  PROVE  NoLostSpaceWakeup'
<1> USE DEF SpaceInv, TypeInv, TypeOK
<1>1. ASSUME NEW k \in Closers,
             CloseCall(k) \/ CloseLock(k) \/ DrainCall(k) \/ DrainLock(k) \/ CloseStep(k)
      PROVE  NoLostSpaceWakeup'
  <2> k \in Threads
    BY DEF Threads
  <2>1. CASE CloseCall(k) \/ CloseLock(k) \/ DrainCall(k) \/ DrainLock(k) \/ CloseAgain(k)
    BY <2>1, SpaceKept
       DEF CloseCall, CloseLock, DrainCall, DrainLock, Lock, CloseAgain, Unlock, Go,
           state, history, LookForSpace
  <2>2. CASE CloseSet(k) \/ DrainBody(k) \/ DrainBadAlloc(k)
    BY <2>2 DEF CloseSet, DrainBody, DrainBadAlloc, NoLostSpaceWakeup
  <2>3. CASE NotifyNotEmpty(k) \/ NotifyNotFull(k)
    BY <2>3, SpaceKept
       DEF NotifyNotEmpty, NotifyNotFull, NotifyAll, state, history, LookForSpace
  <2> QED
    BY <1>1, <2>1, <2>2, <2>3 DEF CloseStep
<1>2. CASE \E t \in Producers \cup Consumers : SpuriousWake(t)
  BY <1>2, SpaceKept DEF SpuriousWake, Go, state, history, LookForSpace
<1>3. CASE UNCHANGED vars
  BY <1>3, SpaceKept DEF vars, LookForSpace
<1> QED
  BY <1>1, <1>2, <1>3, PushSpace, PopSpace DEF Next

(* A producer asleep on an open queue is never forgotten, as long as no    *)
(* push has thrown: every place that pop frees is noticed.                 *)
THEOREM SpaceIsNoticed == Spec => []NoLostSpaceWakeup
<1>1. Init => SpaceInv
  BY InitType DEF SpaceInv, Init, NoLostSpaceWakeup, Threads
<1>2. SpaceInv /\ [Next]_vars => SpaceInv'
  BY StepSpace, StepType DEF SpaceInv
<1>3. SpaceInv => NoLostSpaceWakeup
  BY DEF SpaceInv
<1> QED
  BY <1>1, <1>2, <1>3, PTL DEF Spec
=============================================================================
