-------------------------- MODULE ThreadPoolProofs --------------------------
(***************************************************************************)
(* Theorems about ThreadPool, for any number of workers, callers and       *)
(* envelopes and any capacity: the shutdown protocol first, then what      *)
(* becomes of the tasks that were handed over.                             *)
(***************************************************************************)
EXTENDS ThreadPool, TLAPS, FiniteSetTheorems

(* What the shutdown protocol rests on.                                    *)
Types ==
  /\ wpc \in [Workers -> {"unborn", "pop", "run", "record", "exited"}]
  /\ pc \in [Threads -> {"idle", "push", "reject", "count", "close", "drain",
                         "discard", "join", "joining", "summary", "merge"}]
  /\ joinable \subseteq Workers
  /\ joined \in BOOLEAN
  /\ closed \in BOOLEAN

(* The owner only constructs and destroys, one call at a time.             *)
OwnerCalls ==
  /\ pc[Owner] \in {"idle", "close", "join", "joining"}
  /\ pc[Owner] # "idle" => life \in {"failing", "destroying"}

(* Nobody uses a pool that is not constructed, so nothing is queued; a     *)
(* constructed pool has all its workers.                                   *)
Constructed ==
  /\ life \in {"building", "failing", "threw", "open", "destroying", "destroyed"}
  /\ life \in {"building", "failing", "threw"} =>
       queue = <<>> /\ \A c \in Callers : pc[c] = "idle"
  /\ life \in {"open", "destroying", "destroyed"} =>
       \A w \in Workers : wpc[w] # "unborn"

(* A worker has left its loop only at the end of the queue, and one that   *)
(* has not left it is still to be joined.                                  *)
WorkersAccounted ==
  \A w \in Workers :
    /\ wpc[w] = "exited" => closed /\ queue = <<>>
    /\ wpc[w] \in {"pop", "run", "record"} => w \in joinable

(* Whoever joins has closed the queue before; joined_ means all joined.    *)
JoinAfterClose ==
  /\ \A t \in Threads : pc[t] \in {"discard", "join", "joining"} => closed
  /\ joined => joinable = {} /\ closed /\ life # "building"

(* A caller that is merging has seen joined_. *)
MergeAfterJoin == \A c \in Callers : pc[c] = "merge" => joined

ShutdownInv ==
  /\ Types /\ OwnerCalls /\ Constructed
  /\ WorkersAccounted /\ JoinAfterClose /\ MergeAfterJoin

LEMMA InitShutdown == Init => ShutdownInv
<1> SUFFICES ASSUME Init PROVE ShutdownInv
  OBVIOUS
<1> Owner \in Threads /\ Callers \subseteq Threads
  BY DEF Threads
<1> USE DEF Init, Q!ChannelInit
<1>1. Types
  BY DEF Types
<1>2. OwnerCalls
  BY DEF OwnerCalls
<1>3. Constructed
  BY DEF Constructed
<1>4. WorkersAccounted
  BY DEF WorkersAccounted
<1>5. JoinAfterClose /\ MergeAfterJoin
  BY DEF JoinAfterClose, MergeAfterJoin
<1> QED
  BY <1>1, <1>2, <1>3, <1>4, <1>5 DEF ShutdownInv

(* The workers. *)
LEMMA WorkerShutdown ==
  ASSUME ShutdownInv, NEW w \in Workers, WorkerStep(w)
  PROVE  ShutdownInv'
<1> USE DEF ShutdownInv, Types, OwnerCalls, Constructed, WorkersAccounted,
            JoinAfterClose, MergeAfterJoin
<1>1. CASE WorkerPop(w)
  BY <1>1 DEF WorkerPop, Took, Q!Pop, join
<1>2. CASE WorkerRun(w)
  BY <1>2 DEF WorkerRun, pool, join
<1>3. CASE WorkerRecord(w)
  BY <1>3 DEF WorkerRecord, pool, join
<1>4. CASE WorkerExit(w)
  BY <1>4 DEF WorkerExit, Left, Q!Finish, join
<1> QED
  BY <1>1, <1>2, <1>3, <1>4 DEF WorkerStep

(* The constructor and the start of the destructor. *)
LEMMA OwnerShutdown ==
  ASSUME ShutdownInv, Spawn \/ SpawnFails \/ Destroy
  PROVE  ShutdownInv'
<1> Owner \in Threads /\ Callers \subseteq Threads /\ Owner \notin Callers
  BY NameAssumption DEF Threads
<1> USE DEF ShutdownInv, Types, OwnerCalls, Constructed, WorkersAccounted,
            JoinAfterClose, MergeAfterJoin
<1>1. CASE Spawn
  <2>1. PICK w \in Workers :
          /\ wpc[w] = "unborn"
          /\ \A v \in Workers : v < w => wpc[v] # "unborn"
          /\ wpc' = [wpc EXCEPT ![w] = "pop"]
          /\ joinable' = joinable \cup {w}
          /\ life' = IF w = NWorkers THEN "open" ELSE "building"
    BY <1>1 DEF Spawn
  <2>2. life' = "open" => \A v \in Workers : wpc'[v] # "unborn"
    BY <2>1, SizeAssumption DEF Workers
  <2> QED
    BY <1>1, <2>1, <2>2 DEF Spawn, pool
<1>2. CASE SpawnFails
  BY <1>2 DEF SpawnFails, Go, pool, workers, join
<1>3. CASE Destroy
  BY <1>3 DEF Destroy, Go, pool, workers, join
<1> QED
  BY <1>1, <1>2, <1>3

(* The start of a call on an open pool. *)
LEMMA CallShutdown ==
  ASSUME ShutdownInv, NEW c \in Callers,
         SubmitCall(c) \/ ShutdownCall(c) \/ ShutdownNowCall(c) \/ SummaryCall(c)
  PROVE  ShutdownInv'
<1> Owner \in Threads /\ Callers \subseteq Threads /\ Owner \notin Callers
  BY NameAssumption DEF Threads
<1> USE DEF ShutdownInv, Types, OwnerCalls, Constructed, WorkersAccounted,
            JoinAfterClose, MergeAfterJoin, Go, pool, workers, join
<1>1. CASE SubmitCall(c)
  BY <1>1 DEF SubmitCall, SubmitEnvelope
<1>2. CASE ShutdownCall(c)
  BY <1>2 DEF ShutdownCall
<1>3. CASE ShutdownNowCall(c)
  BY <1>3 DEF ShutdownNowCall
<1>4. CASE SummaryCall(c)
  BY <1>4 DEF SummaryCall
<1> QED
  BY <1>1, <1>2, <1>3, <1>4

(* The steps inside a call. *)
LEMMA InCallShutdown ==
  ASSUME ShutdownInv, NEW t \in Threads, CallStep(t)
  PROVE  ShutdownInv'
<1> Owner \in Threads /\ Callers \subseteq Threads /\ Owner \notin Callers
  BY NameAssumption DEF Threads
<1> t # Owner => t \in Callers
  BY DEF Threads
<1> USE DEF ShutdownInv, Types, OwnerCalls, Constructed, WorkersAccounted,
            JoinAfterClose, MergeAfterJoin, Go, pool, workers, join
<1>1. CASE SubmitAccept(t)
  BY <1>1 DEF SubmitAccept, Accepted, Q!Push
<1>2. CASE SubmitRefuse(t)
  BY <1>2 DEF SubmitRefuse, Refused, Q!Refuse
<1>3. CASE SubmitReject(t)
  BY <1>3 DEF SubmitReject
<1>4. CASE SubmitCount(t)
  BY <1>4 DEF SubmitCount
<1>5. CASE Close(t)
  BY <1>5 DEF Close, Closed, Q!Close
<1>6. CASE CloseAndDrain(t)
  BY <1>6 DEF CloseAndDrain, Drained, Q!CloseAndDrain
<1>7. CASE RejectNext(t)
  BY <1>7 DEF RejectNext
<1>8. CASE CountDiscarded(t)
  BY <1>8 DEF CountDiscarded
<1>9. CASE JoinAgain(t)
  BY <1>9 DEF JoinAgain, Return
<1>10. CASE JoinStart(t)
  BY <1>10 DEF JoinStart
<1>11. CASE JoinWorker(t)
  BY <1>11 DEF JoinWorker
<1>12. CASE JoinDone(t)
  BY <1>12 DEF JoinDone, Return
<1>13. CASE CollectCheck(t)
  BY <1>13 DEF CollectCheck
<1>14. CASE CollectThrows(t)
  BY <1>14 DEF CollectThrows, SummaryEnds
<1>15. CASE CollectMerge(t)
  BY <1>15 DEF CollectMerge
<1>16. CASE RejectedCount(t)
  BY <1>16 DEF RejectedCount
<1>17. CASE SummaryReturn(t)
  BY <1>17 DEF SummaryReturn, SummaryEnds
<1> QED
  BY <1>1, <1>2, <1>3, <1>4, <1>5, <1>6, <1>7, <1>8, <1>9, <1>10, <1>11, <1>12,
     <1>13, <1>14, <1>15, <1>16, <1>17 DEF CallStep, QueueStep, LocalStep, SummaryStep

LEMMA ShutdownInvariant == Spec => []ShutdownInv
<1>1. ShutdownInv /\ [Next]_vars => ShutdownInv'
  <2> SUFFICES ASSUME ShutdownInv, [Next]_vars PROVE ShutdownInv'
    OBVIOUS
  <2>1. CASE UNCHANGED vars
    BY <2>1 DEF vars, pool, workers, join, ShutdownInv, Types, OwnerCalls,
       Constructed, WorkersAccounted, JoinAfterClose, MergeAfterJoin
  <2> QED
    BY <2>1, WorkerShutdown, OwnerShutdown, CallShutdown, InCallShutdown
       DEF Next, Gone
<1> QED
  BY <1>1, InitShutdown, PTL DEF Spec

(* When there is nobody left to join, nobody is left in worker_loop and    *)
(* nothing in the queue.                                                   *)
LEMMA NobodyLeft ==
  ASSUME ShutdownInv, joinable = {}
  PROVE  queue = <<>> /\ \A w \in Workers : wpc[w] \in {"exited", "unborn"}
<1> USE DEF ShutdownInv, Types, Constructed, WorkersAccounted
<1>1. \A w \in Workers : wpc[w] \in {"exited", "unborn"}
  OBVIOUS
<1>2. queue = <<>>
  <2>1. CASE \E w \in Workers : wpc[w] = "exited"
    BY <2>1
  <2>2. CASE \A w \in Workers : wpc[w] = "unborn"
    <3>1. 1 \in Workers
      BY SizeAssumption DEF Workers
    <3> QED
      BY <2>2, <3>1
  <2> QED
    BY <1>1, <2>1, <2>2
<1> QED
  BY <1>1, <1>2

LEMMA QuietWhenJoined == ShutdownInv => JoinedIsQuiet
  BY NobodyLeft DEF JoinedIsQuiet, ShutdownInv, JoinAfterClose

(* However shutdown, shutdown_now, the destructor and a failing            *)
(* constructor overlap: when joined_ is set every worker has left its loop *)
(* and the queue is closed and empty.                                      *)
THEOREM JoinedPoolIsQuiet == Spec => []JoinedIsQuiet
  BY ShutdownInvariant, QuietWhenJoined, PTL

(* collect_samples reads the buffers without a lock, and no worker writes  *)
(* to one while it does.                                                   *)
THEOREM SamplesReadWithoutRace == Spec => MergeIsStable
<1>1. ShutdownInv /\ [Next]_vars =>
        [(\E c \in Callers : pc[c] = "merge") => samples' = samples]_vars
  <2> SUFFICES ASSUME ShutdownInv, Next, NEW c \in Callers, pc[c] = "merge"
               PROVE  samples' = samples
    BY DEF vars, workers
  <2>1. \A w \in Workers : wpc[w] \in {"exited", "unborn"}
    BY QuietWhenJoined DEF JoinedIsQuiet, ShutdownInv, MergeAfterJoin
  <2>2. ASSUME NEW w \in Workers, WorkerStep(w) PROVE samples' = samples
    BY <2>1, <2>2 DEF WorkerStep, WorkerPop, Took, WorkerRun, WorkerRecord, WorkerExit, Left
  <2>3. CASE Spawn \/ SpawnFails \/ Destroy \/ Gone
    BY <2>3 DEF Spawn, SpawnFails, Destroy, Gone, vars, workers
  <2>4. ASSUME NEW d \in Callers,
               SubmitCall(d) \/ ShutdownCall(d) \/ ShutdownNowCall(d) \/ SummaryCall(d)
        PROVE  samples' = samples
    BY <2>4 DEF SubmitCall, SubmitEnvelope, ShutdownCall, ShutdownNowCall,
                SummaryCall, workers
  <2>5. ASSUME NEW t \in Threads, CallStep(t) PROVE samples' = samples
    BY <2>5 DEF CallStep, QueueStep, LocalStep, SummaryStep, SubmitAccept,
       Accepted, SubmitRefuse, Refused, SubmitReject, SubmitCount, Close, Closed,
       CloseAndDrain, Drained, RejectNext, CountDiscarded, JoinAgain, JoinStart,
       JoinWorker, JoinDone, Return, CollectCheck, CollectThrows, CollectMerge,
       RejectedCount, SummaryReturn, SummaryEnds, workers
  <2> QED
    BY <2>2, <2>3, <2>4, <2>5 DEF Next
<1> QED
  BY <1>1, ShutdownInvariant, PTL DEF Spec, MergeIsStable

-----------------------------------------------------------------------------
(* Ownership: an envelope is a move-only value with one owner.  A          *)
(* submitted envelope is in exactly one place (the argument of a submit,   *)
(* the queue, a worker's hand, the discarded batch of a shutdown_now), the *)
(* state of its promise tells in which, and it leaves that place only for  *)
(* the next one.  From this follow that no promise is set twice or broken, *)
(* that the samples are those of the futures, that rejections are counted  *)
(* once, and that the pool keeps the contract of TaskContract.             *)

Ran == {"Succeeded", "Failed"}

Busy(w) == wpc[w] \in {"run", "record"}

(* The types of what the envelopes pass through. *)
ResultTypes ==
  /\ queue \in Seq(Envelopes)
  /\ hold \in [Workers -> SampleOf({"Running"} \cup Ran) \cup {None}]
  /\ samples \in [Workers -> Seq(SampleOf(Ran))]
  /\ promise \in [Envelopes -> {"none", "unset"} \cup Terminal]
  /\ env \in [Threads -> Envelopes \cup {None}]
  /\ batch \in [Threads -> Seq(Envelopes)]
  /\ todo \in [Threads -> Seq(Envelopes)]

(* The argument of submit is unset until it is rejected, and no two        *)
(* callers have the same one.                                              *)
EnvOwned ==
  /\ \A t \in Threads :
       /\ pc[t] \in {"push", "reject"} => env[t] # None /\ promise[env[t]] = "unset"
       /\ pc[t] = "count" => env[t] # None /\ promise[env[t]] = "Rejected"
       /\ pc[t] \notin {"push", "reject", "count"} => env[t] = None
  /\ \A t, u \in Threads : env[t] = env[u] /\ env[t] # None => t = u

(* What is queued is unset and queued once. *)
QueueOwned ==
  /\ \A i \in 1 .. Len(queue) : promise[queue[i]] = "unset"
  /\ \A i, j \in 1 .. Len(queue) : queue[i] = queue[j] => i = j

(* A worker has one envelope in hand, unset while the task runs; then its  *)
(* future has the state the sample will have.                              *)
HoldOwned ==
  /\ \A w \in Workers :
       /\ wpc[w] = "run" =>
            hold[w] \in SampleOf({"Running"}) /\ promise[hold[w].id] = "unset"
       /\ wpc[w] = "record" =>
            hold[w] \in SampleOf(Ran) /\ promise[hold[w].id] = hold[w].state
  /\ \A w, v \in Workers : Busy(w) /\ Busy(v) /\ hold[w].id = hold[v].id => w = v

(* A discarded batch is rejected from the front; todo is the rest of it,   *)
(* and every envelope is in one batch, once.                               *)
Done(t) == Len(batch[t]) - Len(todo[t])

BatchOf(t) ==
  /\ pc[t] \notin {"discard", "join", "joining"} => batch[t] = <<>>
  /\ pc[t] # "discard" => todo[t] = <<>>
  /\ Len(todo[t]) <= Len(batch[t])
  /\ \A i \in 1 .. Len(todo[t]) : todo[t][i] = batch[t][Done(t) + i]
  /\ \A i \in 1 .. Len(batch[t]) :
       promise[batch[t][i]] = IF i <= Done(t) THEN "Rejected" ELSE "unset"

BatchOwned ==
  /\ \A t \in Threads : BatchOf(t)
  /\ \A t, u \in Threads : \A i \in 1 .. Len(batch[t]), j \in 1 .. Len(batch[u]) :
       batch[t][i] = batch[u][j] => t = u /\ i = j

(* A sample has the state of its future, and a task has one sample. *)
SamplesOwned ==
  /\ \A w \in Workers : \A i \in 1 .. Len(samples[w]) :
       promise[samples[w][i].id] = samples[w][i].state
  /\ \A w, v \in Workers : \A i \in 1 .. Len(samples[w]), j \in 1 .. Len(samples[v]) :
       samples[w][i].id = samples[v][j].id => w = v /\ i = j

(* No envelope is in two places. *)
OneOwner ==
  /\ \A t \in Threads :
       /\ \A i \in 1 .. Len(queue) : env[t] # queue[i]
       /\ \A w \in Workers : Busy(w) => env[t] # hold[w].id
       /\ \A u \in Threads : \A j \in 1 .. Len(batch[u]) : env[t] # batch[u][j]
  /\ \A i \in 1 .. Len(queue) :
       /\ \A w \in Workers : Busy(w) => queue[i] # hold[w].id
       /\ \A u \in Threads : \A j \in 1 .. Len(batch[u]) : queue[i] # batch[u][j]
  /\ \A w \in Workers : Busy(w) =>
       /\ \A u \in Threads : \A j \in 1 .. Len(batch[u]) : hold[w].id # batch[u][j]
       /\ \A v \in Workers : \A j \in 1 .. Len(samples[v]) : hold[w].id # samples[v][j].id

(* No envelope is lost: an unset one is somewhere, and one that ran is in  *)
(* a worker's hand or among the samples.                                   *)
InEnv(e) == \E t \in Threads : env[t] = e
InQueue(e) == \E i \in 1 .. Len(queue) : queue[i] = e
InHand(e, where) == \E w \in Workers : wpc[w] = where /\ hold[w].id = e
InBatch(e) == \E t \in Threads : \E i \in 1 .. Len(batch[t]) : batch[t][i] = e
InSamples(e) == \E w \in Workers : \E i \in 1 .. Len(samples[w]) : samples[w][i].id = e

Somewhere(e) == InEnv(e) \/ InQueue(e) \/ InHand(e, "run") \/ InBatch(e)

HasSample(e) == InHand(e, "record") \/ InSamples(e)

NoneLost ==
  \A e \in Envelopes :
    /\ promise[e] = "unset" => Somewhere(e)
    /\ promise[e] \in Ran => HasSample(e)

Owned ==
  /\ ResultTypes
  /\ EnvOwned /\ QueueOwned /\ HoldOwned /\ BatchOwned /\ SamplesOwned
  /\ OneOwner /\ NoneLost

OwnerInv == ShutdownInv /\ Owned

LEMMA InitOwned == Init => Owned
<1> SUFFICES ASSUME Init PROVE Owned
  OBVIOUS
<1> USE DEF Init, Q!ChannelInit
<1>1. ResultTypes
  BY DEF ResultTypes, SampleOf
<1>2. EnvOwned /\ QueueOwned /\ BatchOwned /\ SamplesOwned
  BY DEF EnvOwned, QueueOwned, BatchOwned, BatchOf, SamplesOwned, Done
<1>3. HoldOwned /\ OneOwner /\ NoneLost
  BY DEF HoldOwned, OneOwner, NoneLost, Busy, Ran
<1> QED
  BY <1>1, <1>2, <1>3 DEF Owned

-----------------------------------------------------------------------------
(* The promise.  Settling an unset one gives it its outcome; destroying    *)
(* envelopes whose promises are set does nothing.                          *)

LEMMA SettleUnset ==
  ASSUME ResultTypes, NEW e \in Envelopes, NEW outcome, promise[e] = "unset",
         Settle(e, outcome)
  PROVE  promise' = [promise EXCEPT ![e] = outcome]
  BY DEF Settle, ResultTypes

LEMMA DropSettled ==
  ASSUME ResultTypes, NEW E, \A e \in E : promise[e] # "unset", Drop(E)
  PROVE  promise' = promise
  BY DEF Drop, ResultTypes

(* Most steps leave the envelopes where they are: they move a thread in or *)
(* out of a call, or within it, that has to do with no envelope.           *)
Places == <<queue, hold, samples, promise, env, batch, todo>>

LEMMA BatchKept ==
  ASSUME BatchOwned, UNCHANGED <<batch, todo>>,
         \A t \in Threads :
           /\ pc'[t] \notin {"discard", "join", "joining"} =>
                pc[t] \notin {"discard", "join", "joining"}
           /\ pc'[t] # "discard" => todo[t] = <<>>,
         \A t \in Threads : \A i \in 1 .. Len(batch[t]) :
           promise'[batch[t][i]] = promise[batch[t][i]]
  PROVE  BatchOwned'
<1>1. ASSUME NEW t \in Threads PROVE BatchOf(t)'
  <2>1. BatchOf(t) /\ Done(t)' = Done(t)
    BY DEF BatchOwned, Done
  <2> QED
    BY <2>1 DEF BatchOf
<1> QED
  BY <1>1 DEF BatchOwned

LEMMA Untouched ==
  ASSUME Owned, UNCHANGED Places,
         \A w \in Workers :
           wpc'[w] = wpc[w] \/ (~Busy(w) /\ wpc'[w] \notin {"run", "record"}),
         \A t \in Threads :
           \/ pc'[t] = pc[t]
           \/ /\ pc[t] \in {"push", "reject"} <=> pc'[t] \in {"push", "reject"}
              /\ pc[t] = "count" <=> pc'[t] = "count"
              /\ pc[t] \in {"discard", "join", "joining"} =>
                   pc'[t] \in {"discard", "join", "joining"}
              /\ pc'[t] # "discard" => todo[t] = <<>>
  PROVE  Owned'
<1> USE DEF Owned, Places
<1>1. ResultTypes'
  BY DEF ResultTypes
<1>2. EnvOwned' /\ QueueOwned' /\ SamplesOwned'
  BY DEF EnvOwned, QueueOwned, SamplesOwned
<1>3. \A w \in Workers : (Busy(w)' <=> Busy(w)) /\ (Busy(w) => wpc'[w] = wpc[w])
  BY DEF Busy
<1>4. HoldOwned'
  BY <1>3 DEF HoldOwned, Busy
<1>5. BatchOwned'
  <2>1. \A t \in Threads :
          /\ pc'[t] \notin {"discard", "join", "joining"} =>
               pc[t] \notin {"discard", "join", "joining"}
          /\ pc'[t] # "discard" => todo[t] = <<>>
    BY DEF BatchOwned, BatchOf
  <2> QED
    BY <2>1, BatchKept
<1>6. OneOwner'
  BY <1>3 DEF OneOwner
<1>7. NoneLost'
  BY <1>3 DEF NoneLost, Somewhere, HasSample, InEnv, InQueue, InHand, InBatch, InSamples, Busy
<1> QED
  BY <1>1, <1>2, <1>4, <1>5, <1>6, <1>7

-----------------------------------------------------------------------------
(* The workers: from the queue into a hand, from the hand to the samples.  *)

(* Sequences: what is left when the first element is taken. *)
LEMMA TailElements ==
  ASSUME NEW S, NEW s \in Seq(S), s # <<>>
  PROVE  /\ Head(s) = s[1] /\ Head(s) \in S /\ 1 \in 1 .. Len(s)
         /\ Tail(s) \in Seq(S) /\ Len(Tail(s)) = Len(s) - 1
         /\ \A i \in 1 .. Len(Tail(s)) : i + 1 \in 1 .. Len(s) /\ i + 1 # 1 /\ Tail(s)[i] = s[i + 1]
         /\ \A i \in 1 .. Len(s) : i = 1 \/ \E j \in 1 .. Len(Tail(s)) : i = j + 1
<1>1. Len(s) \in Nat /\ Len(s) # 0
  OBVIOUS
<1>2. /\ Head(s) = s[1] /\ Head(s) \in S
      /\ Tail(s) \in Seq(S) /\ Len(Tail(s)) = Len(s) - 1
      /\ \A i \in 1 .. Len(Tail(s)) : Tail(s)[i] = s[i + 1]
  OBVIOUS
<1>3. \A i \in 1 .. Len(s) : i = 1 \/ \E j \in 1 .. Len(Tail(s)) : i = j + 1
  <2> SUFFICES ASSUME NEW i \in 1 .. Len(s), i # 1
               PROVE  \E j \in 1 .. Len(Tail(s)) : i = j + 1
    OBVIOUS
  <2>1. i - 1 \in 1 .. Len(Tail(s)) /\ i = (i - 1) + 1
    BY <1>1, <1>2
  <2> QED
    BY <2>1
<1> QED
  BY <1>1, <1>2, <1>3

(* What the samples are about has run. *)
LEMMA SamplesRan ==
  ASSUME Owned, NEW w \in Workers, NEW i \in 1 .. Len(samples[w])
  PROVE  samples[w][i] \in SampleOf(Ran) /\ promise[samples[w][i].id] \in Ran
<1>1. samples[w] \in Seq(SampleOf(Ran))
  BY DEF Owned, ResultTypes
<1>2. samples[w][i] \in SampleOf(Ran)
  BY <1>1
<1> QED
  BY <1>2 DEF Owned, SamplesOwned, SampleOf

LEMMA PopOwned ==
  ASSUME OwnerInv, NEW w \in Workers, WorkerPop(w)
  PROVE  Owned'
<1> USE DEF OwnerInv, Owned
<1> DEFINE e == Head(queue)
<1>1. /\ queue \in Seq(Envelopes) /\ queue # <<>> /\ queue' = Tail(queue)
      /\ hold' = [hold EXCEPT ![w] = [id |-> e, state |-> "Running"]]
      /\ wpc[w] = "pop" /\ wpc' = [wpc EXCEPT ![w] = "run"]
      /\ UNCHANGED <<samples, promise, pc, env, batch, todo>>
  BY DEF WorkerPop, Took, Q!Pop, discard, ResultTypes
<1>2. /\ e \in Envelopes /\ e = queue[1] /\ 1 \in 1 .. Len(queue)
      /\ \A i \in 1 .. Len(queue') :
           i + 1 \in 1 .. Len(queue) /\ i + 1 # 1 /\ queue'[i] = queue[i + 1]
      /\ \A i \in 1 .. Len(queue) : i = 1 \/ \E j \in 1 .. Len(queue') : i = j + 1
      /\ queue' \in Seq(Envelopes)
  BY <1>1, TailElements
<1> HIDE DEF e
<1>3. /\ hold'[w].id = e /\ hold'[w] \in SampleOf({"Running"})
      /\ \A v \in Workers \ {w} : hold'[v] = hold[v] /\ wpc'[v] = wpc[v]
      /\ ~Busy(w) /\ Busy(w)'
      /\ \A v \in Workers \ {w} : Busy(v)' <=> Busy(v)
  BY <1>1, <1>2 DEF Busy, ResultTypes, SampleOf, ShutdownInv, Types
<1>4. ResultTypes'
  BY <1>1, <1>2 DEF ResultTypes, SampleOf
<1>5. EnvOwned' /\ SamplesOwned'
  BY <1>1 DEF EnvOwned, SamplesOwned
<1>6. BatchOwned'
  BY <1>1, BatchKept DEF BatchOwned, BatchOf
<1>7. QueueOwned'
  BY <1>1, <1>2 DEF QueueOwned
<1>8. promise[e] = "unset"
  BY <1>2 DEF QueueOwned
<1>9. HoldOwned'
  BY <1>1, <1>2, <1>3, <1>8 DEF HoldOwned, OneOwner
<1>10. OneOwner'
  <2>1. \A v \in Workers : \A j \in 1 .. Len(samples[v]) : e # samples[v][j].id
    BY <1>8, SamplesRan DEF Ran
  <2> QED
    BY <1>1, <1>2, <1>3, <2>1 DEF OneOwner, QueueOwned
<1>11. NoneLost'
  <2> SUFFICES ASSUME NEW f \in Envelopes
               PROVE  (Somewhere(f) => Somewhere(f)') /\ (HasSample(f) => HasSample(f)')
    BY <1>1 DEF NoneLost
  <2>1. InQueue(f) => InQueue(f)' \/ InHand(f, "run")'
    <3> SUFFICES ASSUME NEW i \in 1 .. Len(queue), queue[i] = f
                 PROVE  InQueue(f)' \/ InHand(f, "run")'
      BY DEF InQueue
    <3>1. CASE i = 1
      BY <1>1, <1>2, <1>3, <3>1 DEF InHand, ShutdownInv, Types
    <3>2. CASE \E j \in 1 .. Len(queue') : i = j + 1
      BY <1>2, <3>2 DEF InQueue
    <3> QED
      BY <1>2, <3>1, <3>2
  <2>2. (InHand(f, "run") => InHand(f, "run")') /\ (InHand(f, "record") => InHand(f, "record")')
    BY <1>1, <1>3 DEF InHand
  <2>3. /\ InEnv(f) => InEnv(f)'
        /\ InBatch(f) => InBatch(f)'
        /\ InSamples(f) => InSamples(f)'
    BY <1>1 DEF InEnv, InBatch, InSamples
  <2> QED
    BY <2>1, <2>2, <2>3 DEF Somewhere, HasSample
<1> QED
  BY <1>4, <1>5, <1>6, <1>7, <1>9, <1>10, <1>11

LEMMA RunOwned ==
  ASSUME OwnerInv, NEW w \in Workers, WorkerRun(w)
  PROVE  Owned'
<1> USE DEF OwnerInv, Owned
<1> DEFINE e == hold[w].id
<1>1. wpc[w] = "run" /\ Busy(w) /\ e \in Envelopes /\ promise[e] = "unset"
  BY DEF WorkerRun, HoldOwned, SampleOf, Busy
<1>2. PICK outcome \in Ran :
        /\ promise' = [promise EXCEPT ![e] = outcome]
        /\ hold' = [hold EXCEPT ![w] = [id |-> e, state |-> outcome]]
  BY <1>1, SettleUnset DEF WorkerRun, Ran
<1>3. /\ wpc' = [wpc EXCEPT ![w] = "record"]
      /\ UNCHANGED <<queue, samples, pc, env, batch, todo>>
  BY DEF WorkerRun, pool, discard
<1>4. /\ \A t \in Threads : env[t] # e
      /\ \A i \in 1 .. Len(queue) : queue[i] # e
      /\ \A v \in Workers \ {w} : Busy(v) => hold[v].id # e
      /\ \A t \in Threads : \A i \in 1 .. Len(batch[t]) : batch[t][i] # e
      /\ \A v \in Workers : \A i \in 1 .. Len(samples[v]) : samples[v][i].id # e
  BY <1>1 DEF OneOwner, HoldOwned
<1> HIDE DEF e
<1>5. /\ hold'[w].id = e /\ hold'[w].state = outcome /\ hold'[w] \in SampleOf(Ran)
      /\ promise'[e] = outcome /\ wpc'[w] = "record"
      /\ \A v \in Workers \ {w} : hold'[v] = hold[v] /\ wpc'[v] = wpc[v]
      /\ \A f \in Envelopes \ {e} : promise'[f] = promise[f]
      /\ \A v \in Workers : Busy(v)' <=> Busy(v)
  BY <1>1, <1>2, <1>3 DEF Busy, ResultTypes, SampleOf, ShutdownInv, Types
<1>6. ResultTypes'
  BY <1>1, <1>2, <1>3 DEF ResultTypes, SampleOf, Ran, Terminal
<1>7. EnvOwned' /\ QueueOwned'
  BY <1>3, <1>4, <1>5 DEF EnvOwned, QueueOwned, ResultTypes
<1>8. HoldOwned'
  BY <1>1, <1>4, <1>5 DEF HoldOwned, SampleOf, Busy
<1>9. BatchOwned'
  <2>1. \A t \in Threads : \A i \in 1 .. Len(batch[t]) : batch[t][i] \in Envelopes
    BY DEF ResultTypes
  <2>2. \A t \in Threads : \A i \in 1 .. Len(batch[t]) :
          promise'[batch[t][i]] = promise[batch[t][i]]
    BY <1>4, <1>5, <2>1
  <2>3. \A t \in Threads : pc'[t] # "discard" => todo[t] = <<>>
    BY <1>3 DEF BatchOwned, BatchOf
  <2> QED
    BY <1>3, <2>2, <2>3, BatchKept
<1>10. SamplesOwned'
  <2>1. ASSUME NEW v \in Workers, NEW i \in 1 .. Len(samples[v])
        PROVE  promise'[samples[v][i].id] = samples[v][i].state
    <3>1. samples[v][i].id \in Envelopes \ {e}
      BY <1>4, SamplesRan DEF SampleOf
    <3> QED
      BY <1>5, <3>1 DEF SamplesOwned
  <2> QED
    BY <1>3, <2>1 DEF SamplesOwned
<1>11. OneOwner'
  <2>1. \A v \in Workers : hold'[v].id = hold[v].id
    BY <1>5 DEF e
  <2> QED
    BY <1>3, <1>5, <2>1 DEF OneOwner
<1>12. NoneLost'
  <2> SUFFICES ASSUME NEW f \in Envelopes
               PROVE  /\ promise'[f] = "unset" => Somewhere(f)'
                      /\ promise'[f] \in Ran => HasSample(f)'
    BY DEF NoneLost
  <2>1. CASE f = e
    <3>1. InHand(f, "record")'
      BY <1>5, <2>1 DEF InHand
    <3> QED
      BY <1>5, <2>1, <3>1 DEF HasSample, Ran
  <2>2. CASE f # e
    <3>1. (InHand(f, "run") => InHand(f, "run")') /\ (InHand(f, "record") => InHand(f, "record")')
      BY <1>1, <1>5, <2>2 DEF InHand, e
    <3>2. /\ InEnv(f) => InEnv(f)'
          /\ InQueue(f) => InQueue(f)'
          /\ InBatch(f) => InBatch(f)'
          /\ InSamples(f) => InSamples(f)'
      BY <1>3 DEF InEnv, InQueue, InBatch, InSamples
    <3>3. promise'[f] = promise[f]
      BY <1>5, <2>2
    <3> QED
      BY <3>1, <3>2, <3>3 DEF Somewhere, HasSample, NoneLost
  <2> QED
    BY <2>1, <2>2
<1> QED
  BY <1>6, <1>7, <1>8, <1>9, <1>10, <1>11, <1>12

(* The task a worker records has been given its outcome. *)
LEMMA RecordSettled ==
  ASSUME OwnerInv, NEW w \in Workers, WorkerRecord(w)
  PROVE  /\ hold[w] \in SampleOf(Ran) /\ promise[hold[w].id] = hold[w].state
         /\ promise' = promise
<1> USE DEF OwnerInv, Owned
<1>1. hold[w] \in SampleOf(Ran) /\ promise[hold[w].id] = hold[w].state
  BY DEF WorkerRecord, HoldOwned
<1>2. \A f \in {hold[w].id} : promise[f] # "unset"
  BY <1>1 DEF Ran, SampleOf
<1> QED
  BY <1>1, <1>2, DropSettled DEF WorkerRecord

LEMMA RecordOwned ==
  ASSUME OwnerInv, NEW w \in Workers, WorkerRecord(w)
  PROVE  Owned'
<1> USE DEF OwnerInv, Owned
<1> DEFINE h == hold[w]
<1>1. /\ wpc[w] = "record" /\ Busy(w) /\ h \in SampleOf(Ran)
      /\ h.id \in Envelopes /\ promise[h.id] = h.state /\ h.state \in Ran
  BY RecordSettled DEF WorkerRecord, SampleOf, Busy
<1>2. promise' = promise
  BY RecordSettled
<1>3. /\ samples' = [samples EXCEPT ![w] = Append(samples[w], h)]
      /\ hold' = [hold EXCEPT ![w] = None]
      /\ wpc' = [wpc EXCEPT ![w] = "pop"]
      /\ UNCHANGED <<queue, pc, env, batch, todo>>
  BY DEF WorkerRecord, pool, discard
<1>4. /\ \A v \in Workers \ {w} : Busy(v) => hold[v].id # h.id
      /\ \A v \in Workers : \A i \in 1 .. Len(samples[v]) : samples[v][i].id # h.id
  BY <1>1 DEF OneOwner, HoldOwned
<1> HIDE DEF h
<1>5. /\ hold'[w] = None /\ wpc'[w] = "pop" /\ ~Busy(w)'
      /\ \A v \in Workers \ {w} :
           /\ hold'[v] = hold[v] /\ wpc'[v] = wpc[v] /\ samples'[v] = samples[v]
           /\ Busy(v)' <=> Busy(v)
  BY <1>3 DEF Busy, ResultTypes, ShutdownInv, Types
<1>6. /\ samples[w] \in Seq(SampleOf(Ran)) /\ samples'[w] = Append(samples[w], h)
      /\ Len(samples'[w]) = Len(samples[w]) + 1
      /\ Len(samples'[w]) \in 1 .. Len(samples'[w]) /\ samples'[w][Len(samples'[w])] = h
      /\ \A i \in 1 .. Len(samples'[w]) :
           i = Len(samples'[w]) \/ (i \in 1 .. Len(samples[w]) /\ samples'[w][i] = samples[w][i])
      /\ \A i \in 1 .. Len(samples[w]) :
           i \in 1 .. Len(samples'[w]) /\ samples'[w][i] = samples[w][i]
  <2>1. samples[w] \in Seq(SampleOf(Ran)) /\ samples'[w] = Append(samples[w], h)
    BY <1>1, <1>3 DEF ResultTypes
  <2> QED
    BY <1>1, <2>1
<1>7. ResultTypes'
  <2>1. samples' \in [Workers -> Seq(SampleOf(Ran))]
    BY <1>1, <1>3 DEF ResultTypes
  <2> QED
    BY <1>2, <1>3, <2>1 DEF ResultTypes
<1>8. EnvOwned' /\ QueueOwned'
  BY <1>2, <1>3 DEF EnvOwned, QueueOwned
<1>9. HoldOwned'
  BY <1>2, <1>5 DEF HoldOwned
<1>10. BatchOwned'
  BY <1>2, <1>3, BatchKept DEF BatchOwned, BatchOf
<1>11. SamplesOwned'
  <2>1. ASSUME NEW v \in Workers, NEW i \in 1 .. Len(samples'[v])
        PROVE  promise'[samples'[v][i].id] = samples'[v][i].state
    <3>1. CASE v = w /\ i = Len(samples'[w])
      BY <1>1, <1>2, <1>6, <3>1
    <3>2. CASE i \in 1 .. Len(samples[v]) /\ samples'[v][i] = samples[v][i]
      BY <1>2, <3>2 DEF SamplesOwned
    <3> QED
      BY <1>5, <1>6, <3>1, <3>2
  <2>2. ASSUME NEW v \in Workers, NEW i \in 1 .. Len(samples'[v]),
               NEW u \in Workers, NEW j \in 1 .. Len(samples'[u]),
               samples'[v][i].id = samples'[u][j].id
        PROVE  v = u /\ i = j
    <3>1. CASE v = w /\ i = Len(samples'[w]) /\ u = w /\ j = Len(samples'[w])
      BY <3>1
    <3>2. CASE /\ v = w /\ i = Len(samples'[w])
               /\ j \in 1 .. Len(samples[u]) /\ samples'[u][j] = samples[u][j]
      BY <1>4, <1>6, <2>2, <3>2
    <3>3. CASE /\ u = w /\ j = Len(samples'[w])
               /\ i \in 1 .. Len(samples[v]) /\ samples'[v][i] = samples[v][i]
      BY <1>4, <1>6, <2>2, <3>3
    <3>4. CASE /\ i \in 1 .. Len(samples[v]) /\ samples'[v][i] = samples[v][i]
               /\ j \in 1 .. Len(samples[u]) /\ samples'[u][j] = samples[u][j]
      BY <2>2, <3>4 DEF SamplesOwned
    <3> QED
      BY <1>5, <1>6, <3>1, <3>2, <3>3, <3>4
  <2> QED
    BY <2>1, <2>2 DEF SamplesOwned
<1>12. OneOwner'
  <2>1. ASSUME NEW v \in Workers, Busy(v)',
               NEW u \in Workers, NEW j \in 1 .. Len(samples'[u])
        PROVE  hold'[v].id # samples'[u][j].id
    <3>1. v # w /\ hold'[v] = hold[v] /\ Busy(v)
      BY <1>5, <2>1
    <3>2. CASE u = w /\ j = Len(samples'[w])
      BY <1>4, <1>6, <3>1, <3>2
    <3>3. CASE j \in 1 .. Len(samples[u]) /\ samples'[u][j] = samples[u][j]
      BY <3>1, <3>3 DEF OneOwner
    <3> QED
      BY <1>5, <1>6, <3>2, <3>3
  <2>2. ASSUME NEW v \in Workers, Busy(v)' PROVE Busy(v) /\ hold'[v] = hold[v]
    BY <1>5, <2>2
  <2> QED
    BY <1>3, <2>1, <2>2 DEF OneOwner
<1>13. NoneLost'
  <2> SUFFICES ASSUME NEW f \in Envelopes
               PROVE  (Somewhere(f) => Somewhere(f)') /\ (HasSample(f) => HasSample(f)')
    BY <1>2 DEF NoneLost
  <2>1. InHand(f, "run") => InHand(f, "run")'
    BY <1>1, <1>5 DEF InHand
  <2>2. InHand(f, "record") => InHand(f, "record")' \/ InSamples(f)'
    BY <1>5, <1>6 DEF InHand, InSamples, h
  <2>3. ASSUME NEW v \in Workers, NEW i \in 1 .. Len(samples[v]), samples[v][i].id = f
        PROVE  InSamples(f)'
    <3>1. i \in 1 .. Len(samples'[v]) /\ samples'[v][i] = samples[v][i]
      BY <1>5, <1>6
    <3> QED
      BY <2>3, <3>1 DEF InSamples
  <2>4. /\ InEnv(f) => InEnv(f)'
        /\ InQueue(f) => InQueue(f)'
        /\ InBatch(f) => InBatch(f)'
    BY <1>3 DEF InEnv, InQueue, InBatch
  <2> QED
    BY <2>1, <2>2, <2>3, <2>4 DEF Somewhere, HasSample, InSamples
<1> QED
  BY <1>7, <1>8, <1>9, <1>10, <1>11, <1>12, <1>13

-----------------------------------------------------------------------------
(* submit: an envelope that is nowhere yet becomes the argument, and the   *)
(* argument goes to the queue or is rejected and destroyed.                *)

LEMMA NotYetSubmitted ==
  ASSUME OwnerInv, NEW e \in Envelopes, promise[e] = "none"
  PROVE  /\ \A t \in Threads : env[t] # e
         /\ \A i \in 1 .. Len(queue) : queue[i] # e
         /\ \A w \in Workers : Busy(w) => hold[w].id # e
         /\ \A t \in Threads : \A i \in 1 .. Len(batch[t]) : batch[t][i] # e
         /\ \A w \in Workers : \A i \in 1 .. Len(samples[w]) : samples[w][i].id # e
<1> USE DEF OwnerInv, Owned
<1>1. \A t \in Threads : env[t] # e
  BY NameAssumption DEF EnvOwned
<1>2. \A i \in 1 .. Len(queue) : queue[i] # e
  BY DEF QueueOwned
<1>3. \A w \in Workers : Busy(w) => hold[w].id # e
  BY DEF HoldOwned, Busy, SampleOf, Ran
<1>4. \A t \in Threads : \A i \in 1 .. Len(batch[t]) : batch[t][i] # e
  BY DEF BatchOwned, BatchOf
<1>5. \A w \in Workers : \A i \in 1 .. Len(samples[w]) : samples[w][i].id # e
  BY SamplesRan DEF Ran
<1> QED
  BY <1>1, <1>2, <1>3, <1>4, <1>5

(* A promise that changes while its envelope is in one place does not      *)
(* disturb the others.                                                     *)
LEMMA BatchKeptBut ==
  ASSUME Owned, NEW e \in Envelopes, NEW x,
         promise' = [promise EXCEPT ![e] = x], UNCHANGED <<batch, todo>>,
         \A t \in Threads : \A i \in 1 .. Len(batch[t]) : batch[t][i] # e,
         \A t \in Threads :
           /\ pc[t] \in {"discard", "join", "joining"} => pc'[t] = pc[t]
           /\ pc[t] \notin {"discard", "join", "joining"} => pc'[t] # "discard"
  PROVE  BatchOwned'
<1> USE DEF Owned
<1>1. \A t \in Threads : \A i \in 1 .. Len(batch[t]) : batch[t][i] \in Envelopes
  BY DEF ResultTypes
<1>2. \A t \in Threads : \A i \in 1 .. Len(batch[t]) :
        promise'[batch[t][i]] = promise[batch[t][i]]
  BY <1>1 DEF ResultTypes
<1>3. \A t \in Threads :
        /\ pc'[t] \notin {"discard", "join", "joining"} =>
             pc[t] \notin {"discard", "join", "joining"}
        /\ pc'[t] # "discard" => todo[t] = <<>>
  BY DEF BatchOwned, BatchOf
<1> QED
  BY <1>2, <1>3, BatchKept

LEMMA SamplesKeptBut ==
  ASSUME Owned, NEW e \in Envelopes, NEW x,
         promise' = [promise EXCEPT ![e] = x], promise[e] \notin Ran, UNCHANGED samples
  PROVE  SamplesOwned'
<1> USE DEF Owned
<1>1. \A w \in Workers : \A i \in 1 .. Len(samples[w]) :
        samples[w][i].id \in Envelopes /\ samples[w][i].id # e
  BY SamplesRan DEF SampleOf
<1>2. \A f \in Envelopes \ {e} : promise'[f] = promise[f]
  BY DEF ResultTypes
<1>3. \A w \in Workers : \A i \in 1 .. Len(samples[w]) :
        promise'[samples[w][i].id] = samples[w][i].state
  BY <1>1, <1>2 DEF SamplesOwned
<1> QED
  BY <1>3 DEF SamplesOwned

LEMMA SubmitOwned ==
  ASSUME OwnerInv, NEW c \in Callers, NEW e \in Envelopes, SubmitEnvelope(c, e)
  PROVE  Owned'
<1> USE DEF OwnerInv, Owned
<1> c \in Threads
  BY DEF Threads
<1>1. /\ pc[c] = "idle" /\ pc' = [pc EXCEPT ![c] = "push"]
      /\ promise[e] = "none" /\ promise' = [promise EXCEPT ![e] = "unset"]
      /\ env' = [env EXCEPT ![c] = e]
      /\ UNCHANGED <<queue, wpc, hold, samples, batch, todo>>
  BY DEF SubmitEnvelope, Go, pool, workers, discard
<1>2. /\ \A t \in Threads : env[t] # e
      /\ \A i \in 1 .. Len(queue) : queue[i] # e
      /\ \A w \in Workers : Busy(w) => hold[w].id # e
      /\ \A t \in Threads : \A i \in 1 .. Len(batch[t]) : batch[t][i] # e
      /\ \A w \in Workers : \A i \in 1 .. Len(samples[w]) : samples[w][i].id # e
  BY <1>1, NotYetSubmitted
<1>3. /\ pc'[c] = "push" /\ env'[c] = e /\ promise'[e] = "unset" /\ e # None
      /\ \A t \in Threads \ {c} : pc'[t] = pc[t] /\ env'[t] = env[t]
      /\ \A f \in Envelopes \ {e} : promise'[f] = promise[f]
      /\ \A w \in Workers : Busy(w)' <=> Busy(w)
  BY <1>1, NameAssumption DEF ResultTypes, ShutdownInv, Types, Busy
<1>4. ResultTypes'
  BY <1>1 DEF ResultTypes
<1>5. EnvOwned'
  <2>1. ASSUME NEW t \in Threads, env[t] # None PROVE promise'[env[t]] = promise[env[t]]
    BY <1>2, <1>3, <2>1 DEF ResultTypes
  <2>2. ASSUME NEW t \in Threads
        PROVE  /\ pc'[t] \in {"push", "reject"} => env'[t] # None /\ promise'[env'[t]] = "unset"
               /\ pc'[t] = "count" => env'[t] # None /\ promise'[env'[t]] = "Rejected"
               /\ pc'[t] \notin {"push", "reject", "count"} => env'[t] = None
    BY <1>3, <2>1 DEF EnvOwned
  <2>3. ASSUME NEW t \in Threads, NEW u \in Threads, env'[t] = env'[u], env'[t] # None
        PROVE  t = u
    BY <1>2, <1>3, <2>3 DEF EnvOwned
  <2> QED
    BY <2>2, <2>3 DEF EnvOwned
<1>6. QueueOwned'
  BY <1>1, <1>2, <1>3 DEF QueueOwned, ResultTypes
<1>7. HoldOwned'
  BY <1>1, <1>2, <1>3 DEF HoldOwned, SampleOf, Busy
<1>8. BatchOwned'
  BY <1>1, <1>2, <1>3, BatchKeptBut
<1>9. SamplesOwned'
  BY <1>1, SamplesKeptBut DEF Ran
<1>10. OneOwner'
  BY <1>1, <1>2, <1>3 DEF OneOwner
<1>11. NoneLost'
  <2> SUFFICES ASSUME NEW f \in Envelopes
               PROVE  /\ promise'[f] = "unset" => Somewhere(f)'
                      /\ promise'[f] \in Ran => HasSample(f)'
    BY DEF NoneLost
  <2>1. CASE f = e
    <3>1. InEnv(f)'
      BY <1>3, <2>1 DEF InEnv
    <3> QED
      BY <1>3, <2>1, <3>1 DEF Somewhere, Ran
  <2>2. CASE f # e
    <3>1. InEnv(f) => InEnv(f)'
      <4> SUFFICES ASSUME NEW t \in Threads, env[t] = f PROVE InEnv(f)'
        BY DEF InEnv
      <4>1. env[c] # f
        BY <1>1, NameAssumption DEF EnvOwned
      <4> QED
        BY <1>3, <4>1 DEF InEnv
    <3>2. /\ InQueue(f) => InQueue(f)'
          /\ InHand(f, "run") => InHand(f, "run")'
          /\ InHand(f, "record") => InHand(f, "record")'
          /\ InBatch(f) => InBatch(f)'
          /\ InSamples(f) => InSamples(f)'
      BY <1>1 DEF InQueue, InHand, InBatch, InSamples
    <3>3. promise'[f] = promise[f]
      BY <1>3, <2>2
    <3> QED
      BY <3>1, <3>2, <3>3 DEF Somewhere, HasSample, NoneLost
  <2> QED
    BY <2>1, <2>2
<1> QED
  BY <1>4, <1>5, <1>6, <1>7, <1>8, <1>9, <1>10, <1>11

LEMMA AcceptOwned ==
  ASSUME OwnerInv, NEW c \in Threads, SubmitAccept(c)
  PROVE  Owned'
<1> USE DEF OwnerInv, Owned
<1> DEFINE e == env[c]
           n == Len(queue')
<1>1. /\ pc[c] = "push" /\ pc' = [pc EXCEPT ![c] = "idle"]
      /\ queue' = Append(queue, e) /\ env' = [env EXCEPT ![c] = None]
      /\ UNCHANGED <<wpc, hold, samples, promise, batch, todo>>
  BY DEF SubmitAccept, Accepted, Q!Push, Go, workers, discard
<1>2. e \in Envelopes /\ e # None /\ promise[e] = "unset"
  BY <1>1 DEF EnvOwned, ResultTypes
<1>3. /\ \A t \in Threads \ {c} : env[t] # e
      /\ \A i \in 1 .. Len(queue) : queue[i] # e
      /\ \A w \in Workers : Busy(w) => hold[w].id # e
      /\ \A t \in Threads : \A i \in 1 .. Len(batch[t]) : batch[t][i] # e
  BY <1>2 DEF OneOwner, EnvOwned
<1>4. /\ pc'[c] = "idle" /\ env'[c] = None
      /\ \A t \in Threads \ {c} : pc'[t] = pc[t] /\ env'[t] = env[t]
      /\ \A w \in Workers : Busy(w)' <=> Busy(w)
  BY <1>1 DEF ResultTypes, ShutdownInv, Types, Busy
<1>5. /\ queue' \in Seq(Envelopes) /\ n \in 1 .. n /\ queue'[n] = e
      /\ \A i \in 1 .. n : i = n \/ (i \in 1 .. Len(queue) /\ queue'[i] = queue[i])
      /\ \A i \in 1 .. Len(queue) : i \in 1 .. n /\ queue'[i] = queue[i]
  <2>1. queue \in Seq(Envelopes)
    BY DEF ResultTypes
  <2> QED
    BY <1>1, <1>2, <2>1
<1> HIDE DEF e, n
<1>6. ResultTypes'
  BY <1>1, <1>5 DEF ResultTypes
<1>7. EnvOwned'
  BY <1>1, <1>4 DEF EnvOwned
<1>8. QueueOwned'
  <2>1. \A i \in 1 .. n : promise[queue'[i]] = "unset"
    BY <1>2, <1>5 DEF QueueOwned
  <2>2. \A i, j \in 1 .. n : queue'[i] = queue'[j] => i = j
    BY <1>3, <1>5 DEF QueueOwned
  <2> QED
    BY <1>1, <2>1, <2>2 DEF QueueOwned, n
<1>9. HoldOwned' /\ SamplesOwned'
  BY <1>1, <1>4 DEF HoldOwned, SamplesOwned, Busy
<1>10. BatchOwned'
  <2>1. \A t \in Threads :
          /\ pc'[t] \notin {"discard", "join", "joining"} =>
               pc[t] \notin {"discard", "join", "joining"}
          /\ pc'[t] # "discard" => todo[t] = <<>>
    BY <1>1, <1>4 DEF BatchOwned, BatchOf
  <2> QED
    BY <1>1, <2>1, BatchKept
<1>11. OneOwner'
  <2>1. ASSUME NEW t \in Threads, NEW i \in 1 .. n PROVE env'[t] # queue'[i]
    <3>1. queue'[i] \in Envelopes
      BY <1>5 DEF n
    <3>2. CASE t = c
      BY <1>4, <3>1, <3>2, NameAssumption
    <3>3. CASE t # c
      BY <1>3, <1>4, <1>5, <3>3 DEF OneOwner
    <3> QED
      BY <3>2, <3>3
  <2>2. \A w \in Workers : Busy(w) => \A i \in 1 .. n : queue'[i] # hold[w].id
    BY <1>3, <1>5 DEF OneOwner
  <2>3. \A i \in 1 .. n : \A u \in Threads : \A j \in 1 .. Len(batch[u]) : queue'[i] # batch[u][j]
    BY <1>3, <1>5 DEF OneOwner
  <2>4. \A t \in Threads : \A w \in Workers : Busy(w) => env'[t] # hold[w].id
    BY <1>4, NameAssumption DEF OneOwner, HoldOwned, SampleOf, Busy
  <2>5. \A t, u \in Threads : \A j \in 1 .. Len(batch[u]) : env'[t] # batch[u][j]
    BY <1>4, NameAssumption DEF OneOwner, ResultTypes
  <2> QED
    BY <1>1, <1>4, <2>1, <2>2, <2>3, <2>4, <2>5 DEF OneOwner, n
<1>12. NoneLost'
  <2> SUFFICES ASSUME NEW f \in Envelopes
               PROVE  (Somewhere(f) => Somewhere(f)') /\ (HasSample(f) => HasSample(f)')
    BY <1>1 DEF NoneLost
  <2>1. InEnv(f) => InEnv(f)' \/ InQueue(f)'
    BY <1>4, <1>5 DEF InEnv, InQueue, e, n
  <2>2. InQueue(f) => InQueue(f)'
    BY <1>5 DEF InQueue, n
  <2>3. /\ InHand(f, "run") => InHand(f, "run")'
        /\ InHand(f, "record") => InHand(f, "record")'
        /\ InBatch(f) => InBatch(f)'
        /\ InSamples(f) => InSamples(f)'
    BY <1>1 DEF InHand, InBatch, InSamples
  <2> QED
    BY <2>1, <2>2, <2>3 DEF Somewhere, HasSample
<1> QED
  BY <1>6, <1>7, <1>8, <1>9, <1>10, <1>11, <1>12

LEMMA RejectSettles ==
  ASSUME OwnerInv, NEW c \in Threads, SubmitReject(c)
  PROVE  /\ env[c] \in Envelopes /\ env[c] # None /\ promise[env[c]] = "unset"
         /\ promise' = [promise EXCEPT ![env[c]] = "Rejected"]
<1> USE DEF OwnerInv, Owned
<1>1. env[c] \in Envelopes /\ env[c] # None /\ promise[env[c]] = "unset"
  BY DEF SubmitReject, Go, EnvOwned, ResultTypes
<1> QED
  BY <1>1, SettleUnset DEF SubmitReject

LEMMA RejectOwned ==
  ASSUME OwnerInv, NEW c \in Threads, SubmitReject(c)
  PROVE  Owned'
<1> USE DEF OwnerInv, Owned
<1> DEFINE e == env[c]
<1>1. /\ pc[c] = "reject" /\ pc' = [pc EXCEPT ![c] = "count"]
      /\ UNCHANGED <<queue, wpc, hold, samples, env, batch, todo>>
  BY DEF SubmitReject, Go, pool, workers, discard
<1>2. e \in Envelopes /\ e # None /\ promise[e] = "unset"
  BY RejectSettles
<1>3. promise' = [promise EXCEPT ![e] = "Rejected"]
  BY RejectSettles
<1>4. /\ \A t \in Threads \ {c} : env[t] # e
      /\ \A i \in 1 .. Len(queue) : queue[i] # e
      /\ \A w \in Workers : Busy(w) => hold[w].id # e
      /\ \A t \in Threads : \A i \in 1 .. Len(batch[t]) : batch[t][i] # e
  BY <1>2 DEF OneOwner, EnvOwned
<1> HIDE DEF e
<1>5. /\ pc'[c] = "count" /\ promise'[e] = "Rejected"
      /\ \A t \in Threads \ {c} : pc'[t] = pc[t]
      /\ \A f \in Envelopes \ {e} : promise'[f] = promise[f]
      /\ \A w \in Workers : Busy(w)' <=> Busy(w)
  BY <1>1, <1>2, <1>3 DEF ResultTypes, ShutdownInv, Types, Busy
<1>6. ResultTypes'
  BY <1>1, <1>2, <1>3 DEF ResultTypes, Terminal
<1>7. EnvOwned'
  <2>1. ASSUME NEW t \in Threads \ {c}, env[t] # None PROVE promise'[env[t]] = promise[env[t]]
    BY <1>4, <1>5, <2>1 DEF ResultTypes
  <2>2. ASSUME NEW t \in Threads
        PROVE  /\ pc'[t] \in {"push", "reject"} => env[t] # None /\ promise'[env[t]] = "unset"
               /\ pc'[t] = "count" => env[t] # None /\ promise'[env[t]] = "Rejected"
               /\ pc'[t] \notin {"push", "reject", "count"} => env[t] = None
    <3>1. CASE t = c
      BY <1>2, <1>5, <3>1 DEF e
    <3>2. CASE t # c
      BY <1>5, <2>1, <3>2 DEF EnvOwned
    <3> QED
      BY <3>1, <3>2
  <2> QED
    BY <1>1, <2>2 DEF EnvOwned
<1>8. QueueOwned'
  <2>1. \A i \in 1 .. Len(queue) : queue[i] \in Envelopes \ {e}
    BY <1>4 DEF ResultTypes
  <2> QED
    BY <1>1, <1>5, <2>1 DEF QueueOwned
<1>9. HoldOwned'
  BY <1>1, <1>4, <1>5 DEF HoldOwned, SampleOf, Busy
<1>10. BatchOwned'
  BY <1>1, <1>2, <1>3, <1>4, <1>5, BatchKeptBut
<1>11. SamplesOwned'
  BY <1>1, <1>2, <1>3, SamplesKeptBut DEF Ran
<1>12. OneOwner'
  BY <1>1, <1>5 DEF OneOwner
<1>13. NoneLost'
  <2> SUFFICES ASSUME NEW f \in Envelopes
               PROVE  /\ promise'[f] = "unset" => Somewhere(f)'
                      /\ promise'[f] \in Ran => HasSample(f)'
    BY DEF NoneLost
  <2>1. CASE f = e
    BY <1>5, <2>1 DEF Ran
  <2>2. CASE f # e
    <3>1. Somewhere(f)' = Somewhere(f) /\ HasSample(f)' = HasSample(f)
      BY <1>1 DEF Somewhere, HasSample, InEnv, InQueue, InHand, InBatch, InSamples
    <3>2. promise'[f] = promise[f]
      BY <1>5, <2>2
    <3> QED
      BY <3>1, <3>2 DEF NoneLost
  <2> QED
    BY <2>1, <2>2
<1> QED
  BY <1>6, <1>7, <1>8, <1>9, <1>10, <1>11, <1>12, <1>13

LEMMA CountSettled ==
  ASSUME OwnerInv, NEW c \in Threads, SubmitCount(c)
  PROVE  /\ env[c] \in Envelopes /\ promise[env[c]] = "Rejected"
         /\ promise' = promise
<1> USE DEF OwnerInv, Owned
<1>1. env[c] \in Envelopes /\ promise[env[c]] = "Rejected"
  BY DEF SubmitCount, Go, EnvOwned, ResultTypes
<1> QED
  BY <1>1, DropSettled DEF SubmitCount

LEMMA CountOwned ==
  ASSUME OwnerInv, NEW c \in Threads, SubmitCount(c)
  PROVE  Owned'
<1> USE DEF OwnerInv, Owned
<1>1. /\ pc[c] = "count" /\ pc' = [pc EXCEPT ![c] = "idle"]
      /\ env' = [env EXCEPT ![c] = None]
      /\ UNCHANGED <<queue, wpc, hold, samples, batch, todo>>
  BY DEF SubmitCount, Go, pool, workers, discard
<1>2. promise[env[c]] = "Rejected" /\ promise' = promise
  BY CountSettled
<1>3. /\ pc'[c] = "idle" /\ env'[c] = None
      /\ \A t \in Threads \ {c} : pc'[t] = pc[t] /\ env'[t] = env[t]
      /\ \A w \in Workers : Busy(w)' <=> Busy(w)
  BY <1>1 DEF ResultTypes, ShutdownInv, Types, Busy
<1>4. ResultTypes'
  BY <1>1, <1>2 DEF ResultTypes
<1>9. QueueOwned' /\ HoldOwned' /\ SamplesOwned'
  BY <1>1, <1>2, <1>3 DEF QueueOwned, HoldOwned, SamplesOwned
<1>5. EnvOwned'
  BY <1>2, <1>3 DEF EnvOwned
<1>6. BatchOwned'
  <2>1. \A t \in Threads :
          /\ pc'[t] \notin {"discard", "join", "joining"} =>
               pc[t] \notin {"discard", "join", "joining"}
          /\ pc'[t] # "discard" => todo[t] = <<>>
    BY <1>1, <1>3 DEF BatchOwned, BatchOf
  <2> QED
    BY <1>1, <1>2, <2>1, BatchKept
<1>7. OneOwner'
  <2>1. \A t \in Threads : \A i \in 1 .. Len(queue) : env'[t] # queue[i]
    BY <1>3, NameAssumption DEF OneOwner, ResultTypes
  <2>2. \A t \in Threads : \A w \in Workers : Busy(w) => env'[t] # hold[w].id
    BY <1>3, NameAssumption DEF OneOwner, HoldOwned, SampleOf, Busy
  <2>3. \A t, u \in Threads : \A j \in 1 .. Len(batch[u]) : env'[t] # batch[u][j]
    BY <1>3, NameAssumption DEF OneOwner, ResultTypes
  <2> QED
    BY <1>1, <1>3, <2>1, <2>2, <2>3 DEF OneOwner
<1>8. NoneLost'
  <2> SUFFICES ASSUME NEW f \in Envelopes
               PROVE  /\ promise[f] = "unset" => Somewhere(f)'
                      /\ promise[f] \in Ran => HasSample(f)'
    BY <1>2 DEF NoneLost
  <2>1. promise[f] = "unset" /\ InEnv(f) => InEnv(f)'
    BY <1>2, <1>3 DEF InEnv
  <2>2. /\ InQueue(f) => InQueue(f)'
        /\ InHand(f, "run") => InHand(f, "run")'
        /\ InHand(f, "record") => InHand(f, "record")'
        /\ InBatch(f) => InBatch(f)'
        /\ InSamples(f) => InSamples(f)'
    BY <1>1 DEF InQueue, InHand, InBatch, InSamples
  <2> QED
    BY <2>1, <2>2 DEF Somewhere, HasSample, NoneLost
<1> QED
  BY <1>4, <1>5, <1>6, <1>7, <1>8, <1>9

-----------------------------------------------------------------------------
(* shutdown_now: the queue becomes the batch, the batch is rejected one by *)
(* one and, when the call returns, destroyed.                              *)

LEMMA DrainOwned ==
  ASSUME OwnerInv, NEW c \in Threads, CloseAndDrain(c)
  PROVE  Owned'
<1> USE DEF OwnerInv, Owned
<1>1. /\ pc[c] = "drain" /\ pc' = [pc EXCEPT ![c] = "discard"]
      /\ queue' = <<>> /\ batch' = [batch EXCEPT ![c] = queue] /\ todo' = [todo EXCEPT ![c] = queue]
      /\ UNCHANGED <<wpc, hold, samples, promise, env>>
  BY DEF CloseAndDrain, Drained, Q!CloseAndDrain, Go, workers
<1>0. queue \in Seq(Envelopes) /\ batch \in [Threads -> Seq(Envelopes)]
      /\ todo \in [Threads -> Seq(Envelopes)]
  BY DEF ResultTypes
<1>2. /\ batch[c] = <<>> /\ queue \in Seq(Envelopes) /\ Len(queue') = 0
      /\ pc'[c] = "discard" /\ batch'[c] = queue /\ todo'[c] = queue
      /\ \A t \in Threads \ {c} :
           pc'[t] = pc[t] /\ batch'[t] = batch[t] /\ todo'[t] = todo[t]
      /\ \A w \in Workers : Busy(w)' <=> Busy(w)
  <2>1. batch[c] = <<>>
    BY <1>1 DEF BatchOwned, BatchOf
  <2>2. pc'[c] = "discard" /\ \A t \in Threads \ {c} : pc'[t] = pc[t]
    BY <1>1 DEF ShutdownInv, Types
  <2>3. \A w \in Workers : Busy(w)' <=> Busy(w)
    BY <1>1 DEF Busy
  <2> QED
    BY <1>0, <1>1, <2>1, <2>2, <2>3
<1>3. ResultTypes'
  <2>1. /\ queue' \in Seq(Envelopes)
        /\ batch' \in [Threads -> Seq(Envelopes)] /\ todo' \in [Threads -> Seq(Envelopes)]
    BY <1>0, <1>1
  <2> QED
    BY <1>1, <2>1 DEF ResultTypes
<1>4. EnvOwned'
  BY <1>1, <1>2 DEF EnvOwned
<1>5. QueueOwned' /\ HoldOwned' /\ SamplesOwned'
  BY <1>1, <1>2 DEF QueueOwned, HoldOwned, SamplesOwned
<1>6. BatchOwned'
  <2>1. ASSUME NEW t \in Threads PROVE BatchOf(t)'
    <3>1. CASE t = c
      <4>1. Done(c)' = 0 /\ Len(queue) \in Nat
        BY <1>2 DEF Done
      <4>2. /\ \A i \in 1 .. Len(queue) : queue[i] = queue[Done(c)' + i]
            /\ \A i \in 1 .. Len(queue) : promise[queue[i]] = "unset" /\ ~(i <= Done(c)')
        BY <1>2, <4>1 DEF QueueOwned
      <4> QED
        BY <1>1, <1>2, <3>1, <4>1, <4>2 DEF BatchOf
    <3>2. CASE t # c
      <4>1. BatchOf(t) /\ Done(t)' = Done(t)
        BY <1>2, <3>2 DEF BatchOwned, Done
      <4> QED
        BY <1>1, <1>2, <3>2, <4>1 DEF BatchOf
    <3> QED
      BY <3>1, <3>2
  <2>2. ASSUME NEW t \in Threads, NEW u \in Threads,
               NEW i \in 1 .. Len(batch'[t]), NEW j \in 1 .. Len(batch'[u]),
               batch'[t][i] = batch'[u][j]
        PROVE  t = u /\ i = j
    <3>1. CASE t = c /\ u = c
      BY <1>2, <2>2, <3>1 DEF QueueOwned
    <3>2. CASE t # c /\ u # c
      BY <1>2, <2>2, <3>2 DEF BatchOwned
    <3>3. CASE t = c /\ u # c
      BY <1>2, <2>2, <3>3 DEF OneOwner
    <3>4. CASE t # c /\ u = c
      BY <1>2, <2>2, <3>4 DEF OneOwner
    <3> QED
      BY <3>1, <3>2, <3>3, <3>4
  <2> QED
    BY <2>1, <2>2 DEF BatchOwned
<1>7. OneOwner'
  <2>1. ASSUME NEW t \in Threads, NEW u \in Threads, NEW j \in 1 .. Len(batch'[u])
        PROVE  env[t] # batch'[u][j]
    BY <1>2 DEF OneOwner
  <2>2. ASSUME NEW w \in Workers, Busy(w), NEW u \in Threads, NEW j \in 1 .. Len(batch'[u])
        PROVE  hold[w].id # batch'[u][j]
    BY <1>2, <2>2 DEF OneOwner
  <2> QED
    BY <1>1, <1>2, <2>1, <2>2 DEF OneOwner
<1>8. NoneLost'
  <2> SUFFICES ASSUME NEW f \in Envelopes
               PROVE  (Somewhere(f) => Somewhere(f)') /\ (HasSample(f) => HasSample(f)')
    BY <1>1 DEF NoneLost
  <2>1. InQueue(f) => InBatch(f)'
    BY <1>2 DEF InQueue, InBatch
  <2>2. InBatch(f) => InBatch(f)'
    <3> SUFFICES ASSUME NEW t \in Threads, NEW i \in 1 .. Len(batch[t]), batch[t][i] = f
                 PROVE  InBatch(f)'
      BY DEF InBatch
    <3>1. t # c
      BY <1>2
    <3> QED
      BY <1>2, <3>1 DEF InBatch
  <2>3. /\ InEnv(f) => InEnv(f)'
        /\ InHand(f, "run") => InHand(f, "run")'
        /\ InHand(f, "record") => InHand(f, "record")'
        /\ InSamples(f) => InSamples(f)'
    BY <1>1 DEF InEnv, InHand, InSamples
  <2> QED
    BY <2>1, <2>2, <2>3 DEF Somewhere, HasSample
<1> QED
  BY <1>3, <1>4, <1>5, <1>6, <1>7, <1>8

(* The next envelope that shutdown_now rejects is the first of its batch   *)
(* whose promise is unset.                                                 *)
LEMMA NextToReject ==
  ASSUME OwnerInv, NEW c \in Threads, RejectNext(c)
  PROVE  /\ Head(todo[c]) \in Envelopes /\ promise[Head(todo[c])] = "unset"
         /\ promise' = [promise EXCEPT ![Head(todo[c])] = "Rejected"]
         /\ Done(c) \in Nat /\ Done(c) + 1 \in 1 .. Len(batch[c])
         /\ Head(todo[c]) = batch[c][Done(c) + 1]
<1> USE DEF OwnerInv, Owned
<1> DEFINE e == Head(todo[c])
           k == Done(c) + 1
<1>1. /\ todo[c] \in Seq(Envelopes) /\ batch[c] \in Seq(Envelopes)
      /\ Len(todo[c]) \in Nat /\ Len(batch[c]) \in Nat /\ BatchOf(c)
  BY DEF ResultTypes, BatchOwned
<1>2. todo[c] # <<>> /\ Settle(e, "Rejected")
  BY DEF RejectNext
<1>3. e = todo[c][1] /\ e \in Envelopes /\ 1 \in 1 .. Len(todo[c])
  BY <1>1, <1>2, TailElements
<1>4. Len(todo[c]) <= Len(batch[c]) /\ Len(todo[c]) >= 1
  BY <1>1, <1>3 DEF BatchOf
<1>5. Done(c) \in Nat /\ k \in 1 .. Len(batch[c]) /\ ~(k <= Done(c))
  <2>1. \A b, d \in Nat : d <= b /\ d >= 1 =>
          b - d \in Nat /\ (b - d) + 1 \in 1 .. b /\ ~((b - d) + 1 <= b - d)
    OBVIOUS
  <2> QED
    BY <1>1, <1>4, <2>1 DEF Done
<1>6. todo[c][1] = batch[c][Done(c) + 1]
  BY <1>1, <1>3 DEF BatchOf
<1>7. promise[batch[c][k]] = "unset"
  <2> HIDE DEF k
  <2> QED
    BY <1>1, <1>5 DEF BatchOf
<1>8. promise' = [promise EXCEPT ![e] = "Rejected"]
  BY <1>2, <1>3, <1>6, <1>7, SettleUnset
<1> QED
  BY <1>3, <1>5, <1>6, <1>7, <1>8

LEMMA RejectNextOwned ==
  ASSUME OwnerInv, NEW c \in Threads, RejectNext(c)
  PROVE  Owned'
<1> USE DEF OwnerInv, Owned
<1> DEFINE e == Head(todo[c])
           k == Done(c) + 1
<1>1. /\ pc[c] = "discard" /\ todo[c] # <<>>
      /\ todo' = [todo EXCEPT ![c] = Tail(todo[c])]
      /\ UNCHANGED <<queue, wpc, hold, samples, env, batch, pc>>
  BY DEF RejectNext, pool, workers
<1>2. /\ todo[c] \in Seq(Envelopes) /\ batch[c] \in Seq(Envelopes)
      /\ Len(todo[c]) \in Nat /\ Len(batch[c]) \in Nat /\ BatchOf(c)
  BY DEF ResultTypes, BatchOwned
<1>3. /\ e = todo[c][1] /\ e \in Envelopes /\ 1 \in 1 .. Len(todo[c])
      /\ Tail(todo[c]) \in Seq(Envelopes) /\ Len(Tail(todo[c])) = Len(todo[c]) - 1
      /\ \A i \in 1 .. Len(Tail(todo[c])) :
           i + 1 \in 1 .. Len(todo[c]) /\ Tail(todo[c])[i] = todo[c][i + 1]
  BY <1>1, <1>2, TailElements
<1>4. /\ k \in 1 .. Len(batch[c]) /\ e = batch[c][k] /\ promise[e] = "unset"
      /\ Done(c) \in Nat
  BY NextToReject
<1>5. promise' = [promise EXCEPT ![e] = "Rejected"]
  BY NextToReject
<1>6. /\ \A t \in Threads : env[t] # e
      /\ \A i \in 1 .. Len(queue) : queue[i] # e
      /\ \A w \in Workers : Busy(w) => hold[w].id # e
      /\ \A t \in Threads : \A i \in 1 .. Len(batch[t]) : batch[t][i] = e => t = c /\ i = k
  BY <1>4 DEF OneOwner, BatchOwned
<1> HIDE DEF e, k
<1>7. /\ promise'[e] = "Rejected"
      /\ \A f \in Envelopes \ {e} : promise'[f] = promise[f]
      /\ todo'[c] = Tail(todo[c])
      /\ \A t \in Threads \ {c} : todo'[t] = todo[t]
      /\ \A w \in Workers : Busy(w)' <=> Busy(w)
  BY <1>1, <1>3, <1>5 DEF ResultTypes, Busy
<1>8. ResultTypes'
  BY <1>1, <1>3, <1>5 DEF ResultTypes, Terminal
<1>9. EnvOwned'
  <2>1. \A t \in Threads : env[t] # None => env[t] \in Envelopes \ {e}
    BY <1>6 DEF ResultTypes
  <2> QED
    BY <1>1, <1>7, <2>1 DEF EnvOwned
<1>10. QueueOwned'
  <2>1. \A i \in 1 .. Len(queue) : queue[i] \in Envelopes \ {e}
    BY <1>6 DEF ResultTypes
  <2> QED
    BY <1>1, <1>7, <2>1 DEF QueueOwned
<1>11. HoldOwned'
  BY <1>1, <1>6, <1>7 DEF HoldOwned, SampleOf, Busy
<1>12. SamplesOwned'
  BY <1>1, <1>3, <1>4, <1>5, SamplesKeptBut DEF Ran
<1>13. BatchOwned'
  <2>1. ASSUME NEW t \in Threads PROVE BatchOf(t)'
    <3>0. \A i \in 1 .. Len(batch[t]) : batch[t][i] \in Envelopes
      BY DEF ResultTypes
    <3>1. CASE t = c
      <4>1. Done(c)' = k /\ k = Done(c) + 1
        <5>1. Done(c)' = Len(batch[c]) - (Len(todo[c]) - 1)
          BY <1>1, <1>3, <1>7 DEF Done
        <5>2. Done(c) = Len(batch[c]) - Len(todo[c])
          BY DEF Done
        <5> QED
          BY <1>2, <5>1, <5>2 DEF k
      <4>2. \A i \in 1 .. Len(todo'[c]) : todo'[c][i] = batch[c][k + i]
        <5> SUFFICES ASSUME NEW i \in 1 .. Len(todo'[c])
                     PROVE  todo'[c][i] = batch[c][k + i]
          OBVIOUS
        <5>1. i + 1 \in 1 .. Len(todo[c]) /\ todo'[c][i] = todo[c][i + 1]
          BY <1>3, <1>7
        <5>2. todo[c][i + 1] = batch[c][Done(c) + (i + 1)]
          BY <1>2, <5>1 DEF BatchOf
        <5>3. Done(c) + (i + 1) = k + i
          BY <1>4, <4>1
        <5> QED
          BY <5>1, <5>2, <5>3
      <4>3. \A i \in 1 .. Len(batch[c]) :
              promise'[batch[c][i]] = IF i <= k THEN "Rejected" ELSE "unset"
        <5> SUFFICES ASSUME NEW i \in 1 .. Len(batch[c])
                     PROVE  promise'[batch[c][i]] = IF i <= k THEN "Rejected" ELSE "unset"
          OBVIOUS
        <5>1. CASE i = k
          BY <1>4, <1>7, <5>1
        <5>2. CASE i # k
          <6>1. promise'[batch[c][i]] = promise[batch[c][i]]
            BY <1>6, <1>7, <3>0, <3>1, <5>2
          <6>2. i <= k <=> i <= Done(c)
            BY <1>4, <4>1, <5>2
          <6> QED
            BY <1>2, <6>1, <6>2 DEF BatchOf
        <5> QED
          BY <5>1, <5>2
      <4>4. Len(todo'[c]) <= Len(batch[c])
        BY <1>2, <1>3, <1>7 DEF BatchOf
      <4> QED
        BY <1>1, <1>2, <3>1, <4>1, <4>2, <4>3, <4>4 DEF BatchOf
    <3>2. CASE t # c
      <4>1. BatchOf(t) /\ Done(t)' = Done(t)
        BY <1>1, <1>7, <3>2 DEF BatchOwned, Done
      <4>2. \A i \in 1 .. Len(batch[t]) : promise'[batch[t][i]] = promise[batch[t][i]]
        BY <1>6, <1>7, <3>0, <3>2
      <4> QED
        BY <1>1, <1>7, <3>2, <4>1, <4>2 DEF BatchOf
    <3> QED
      BY <3>1, <3>2
  <2> QED
    BY <1>1, <2>1 DEF BatchOwned
<1>14. OneOwner'
  BY <1>1, <1>7 DEF OneOwner
<1>15. NoneLost'
  <2> SUFFICES ASSUME NEW f \in Envelopes
               PROVE  /\ promise'[f] = "unset" => Somewhere(f)'
                      /\ promise'[f] \in Ran => HasSample(f)'
    BY DEF NoneLost
  <2>1. CASE f = e
    BY <1>7, <2>1 DEF Ran
  <2>2. CASE f # e
    <3>1. Somewhere(f)' = Somewhere(f) /\ HasSample(f)' = HasSample(f)
      BY <1>1 DEF Somewhere, HasSample, InEnv, InQueue, InHand, InBatch, InSamples
    <3>2. promise'[f] = promise[f]
      BY <1>7, <2>2
    <3> QED
      BY <3>1, <3>2 DEF NoneLost
  <2> QED
    BY <2>1, <2>2
<1> QED
  BY <1>8, <1>9, <1>10, <1>11, <1>12, <1>13, <1>14, <1>15

(* What Return destroys has been rejected, and there is no queue to break. *)
LEMMA ReturnSettled ==
  ASSUME OwnerInv, NEW t \in Threads, JoinAgain(t) \/ JoinDone(t)
  PROVE  /\ \A i \in 1 .. Len(batch[t]) : promise[batch[t][i]] = "Rejected"
         /\ promise' = promise
<1> USE DEF OwnerInv, Owned
<1>1. queue = <<>>
  <2>1. joinable = {}
    BY DEF JoinAgain, JoinDone, ShutdownInv, JoinAfterClose
  <2> QED
    BY <2>1, NobodyLeft
<1>2. batch[t] \in Seq(Envelopes) /\ BatchOf(t)
  BY DEF ResultTypes, BatchOwned
<1>3. \A i \in 1 .. Len(batch[t]) : promise[batch[t][i]] = "Rejected"
  <2>1. todo[t] = <<>>
    BY <1>2 DEF JoinAgain, JoinDone, BatchOf
  <2>2. Done(t) = Len(batch[t])
    BY <1>2, <2>1 DEF Done
  <2>3. \A i \in 1 .. Len(batch[t]) : i <= Done(t)
    BY <1>2, <2>2
  <2> QED
    BY <1>2, <2>3 DEF BatchOf
<1>4. promise' = promise
  <2>1. Elements(queue) = {}
    BY <1>1 DEF Elements
  <2>2. Drop(Elements(batch[t]))
    <3>1. \/ Drop(Elements(batch[t]) \cup {})
          \/ Drop(Elements(batch[t]) \cup Elements(queue))
      BY DEF JoinAgain, JoinDone, Return
    <3> QED
      BY <2>1, <3>1
  <2>3. \A e \in Elements(batch[t]) : promise[e] # "unset"
    BY <1>3 DEF Elements
  <2> QED
    BY <2>2, <2>3, DropSettled
<1> QED
  BY <1>3, <1>4

LEMMA ReturnOwned ==
  ASSUME OwnerInv, NEW t \in Threads, JoinAgain(t) \/ JoinDone(t)
  PROVE  Owned'
<1> USE DEF OwnerInv, Owned
<1>1. /\ pc[t] \in {"join", "joining"} /\ pc' = [pc EXCEPT ![t] = "idle"]
      /\ batch' = [batch EXCEPT ![t] = <<>>]
      /\ UNCHANGED <<queue, wpc, hold, samples, env, todo>>
  BY DEF JoinAgain, JoinDone, Return, Go, pool, workers
<1>3. /\ batch[t] \in Seq(Envelopes) /\ BatchOf(t)
      /\ \A u \in Threads : batch[u] \in Seq(Envelopes)
  BY DEF ResultTypes, BatchOwned
<1>4. \A i \in 1 .. Len(batch[t]) : promise[batch[t][i]] = "Rejected"
  BY ReturnSettled
<1>5. promise' = promise
  BY ReturnSettled
<1>6. /\ pc'[t] = "idle" /\ batch'[t] = <<>> /\ Len(batch'[t]) = 0
      /\ \A u \in Threads \ {t} : pc'[u] = pc[u] /\ batch'[u] = batch[u]
      /\ \A w \in Workers : Busy(w)' <=> Busy(w)
  BY <1>1 DEF ResultTypes, ShutdownInv, Types, Busy
<1>7. ResultTypes'
  <2>1. batch' \in [Threads -> Seq(Envelopes)]
    BY <1>1 DEF ResultTypes
  <2> QED
    BY <1>1, <1>5, <2>1 DEF ResultTypes
<1>8. EnvOwned'
  BY <1>1, <1>5, <1>6 DEF EnvOwned
<1>9. QueueOwned' /\ HoldOwned' /\ SamplesOwned'
  BY <1>1, <1>5, <1>6 DEF QueueOwned, HoldOwned, SamplesOwned
<1>10. BatchOwned'
  <2>1. ASSUME NEW u \in Threads PROVE BatchOf(u)'
    <3>1. CASE u = t
      <4>1. todo'[u] = <<>> /\ batch'[u] = <<>>
        BY <1>1, <1>3, <1>6, <3>1 DEF BatchOf
      <4> QED
        BY <4>1 DEF BatchOf
    <3>2. CASE u # t
      <4>1. BatchOf(u) /\ Done(u)' = Done(u)
        BY <1>1, <1>6, <3>2 DEF BatchOwned, Done
      <4> QED
        BY <1>1, <1>5, <1>6, <3>2, <4>1 DEF BatchOf
    <3> QED
      BY <3>1, <3>2
  <2>2. ASSUME NEW u \in Threads, NEW i \in 1 .. Len(batch'[u])
        PROVE  u # t /\ batch'[u] = batch[u]
    BY <1>6, <2>2
  <2> QED
    BY <2>1, <2>2 DEF BatchOwned
<1>11. OneOwner'
  <2>1. ASSUME NEW u \in Threads, NEW i \in 1 .. Len(batch'[u])
        PROVE  batch'[u] = batch[u]
    BY <1>6, <2>1
  <2> QED
    BY <1>1, <1>6, <2>1 DEF OneOwner
<1>12. NoneLost'
  <2> SUFFICES ASSUME NEW f \in Envelopes
               PROVE  /\ promise[f] = "unset" => Somewhere(f)'
                      /\ promise[f] \in Ran => HasSample(f)'
    BY <1>5 DEF NoneLost
  <2>1. promise[f] = "unset" /\ InBatch(f) => InBatch(f)'
    BY <1>4, <1>6 DEF InBatch
  <2>2. /\ InEnv(f) => InEnv(f)'
        /\ InQueue(f) => InQueue(f)'
        /\ InHand(f, "run") => InHand(f, "run")'
        /\ InHand(f, "record") => InHand(f, "record")'
        /\ InSamples(f) => InSamples(f)'
    BY <1>1 DEF InEnv, InQueue, InHand, InSamples
  <2> QED
    BY <2>1, <2>2 DEF Somewhere, HasSample, NoneLost
<1> QED
  BY <1>7, <1>8, <1>9, <1>10, <1>11, <1>12

-----------------------------------------------------------------------------
(* Together: every step keeps every envelope with its one owner. *)

LEMMA WorkerOwned ==
  ASSUME OwnerInv, NEW w \in Workers, WorkerStep(w)
  PROVE  Owned'
<1>1. CASE WorkerExit(w)
  BY <1>1, Untouched DEF WorkerExit, Left, Q!Finish, discard, Places, Busy, OwnerInv,
       ShutdownInv, Types
<1> QED
  BY <1>1, PopOwned, RunOwned, RecordOwned DEF WorkerStep

LEMMA LifeOwned ==
  ASSUME OwnerInv, Spawn \/ SpawnFails \/ Destroy
  PROVE  Owned'
<1> Owner \in Threads
  BY DEF Threads
<1> USE DEF OwnerInv, Places, pool, workers, discard, ShutdownInv, Types
<1>1. todo[Owner] = <<>>
  BY DEF Owned, BatchOwned, BatchOf, OwnerCalls
<1>2. CASE Spawn
  BY <1>2, Untouched DEF Spawn, Busy
<1>3. CASE SpawnFails \/ Destroy
  BY <1>1, <1>3, Untouched DEF SpawnFails, Destroy, Go
<1> QED
  BY <1>2, <1>3

LEMMA CallOwned ==
  ASSUME OwnerInv, NEW c \in Callers,
         SubmitCall(c) \/ ShutdownCall(c) \/ ShutdownNowCall(c) \/ SummaryCall(c)
  PROVE  Owned'
<1> c \in Threads
  BY DEF Threads
<1>1. CASE SubmitCall(c)
  BY <1>1, SubmitOwned DEF SubmitCall
<1>2. CASE ShutdownCall(c) \/ ShutdownNowCall(c) \/ SummaryCall(c)
  <2>1. pc[c] = "idle" /\ UNCHANGED Places /\ wpc' = wpc
    BY <1>2 DEF ShutdownCall, ShutdownNowCall, SummaryCall, Go, pool, workers, discard, Places
  <2>2. todo[c] = <<>>
    BY <2>1 DEF OwnerInv, Owned, BatchOwned, BatchOf
  <2>3. PICK to \in {"close", "drain", "summary"} : pc' = [pc EXCEPT ![c] = to]
    BY <1>2 DEF ShutdownCall, ShutdownNowCall, SummaryCall, Go
  <2> QED
    BY <2>1, <2>2, <2>3, Untouched DEF OwnerInv, ShutdownInv, Types
<1> QED
  BY <1>1, <1>2

LEMMA SummaryOwned ==
  ASSUME OwnerInv, NEW t \in Threads, SummaryStep(t)
  PROVE  Owned'
<1>1. /\ UNCHANGED Places /\ wpc' = wpc /\ pc[t] \in {"summary", "merge"}
      /\ \E to \in {"idle", "summary", "merge"} : pc' = [pc EXCEPT ![t] = to]
  <2>1. CASE RejectedCount(t)
    BY <2>1 DEF RejectedCount, pool, workers, discard, Places, OwnerInv, ShutdownInv, Types
  <2>2. CASE CollectCheck(t) \/ CollectMerge(t)
    BY <2>2 DEF CollectCheck, CollectMerge, Go, pool, workers, discard, Places
  <2>3. CASE CollectThrows(t) \/ SummaryReturn(t)
    BY <2>3 DEF CollectThrows, SummaryReturn, SummaryEnds, Go, pool, workers, discard, Places
  <2> QED
    BY <2>1, <2>2, <2>3 DEF SummaryStep
<1>2. todo[t] = <<>>
  BY <1>1 DEF OwnerInv, Owned, BatchOwned, BatchOf
<1> QED
  BY <1>1, <1>2, Untouched DEF OwnerInv, ShutdownInv, Types

LEMMA InCallOwned ==
  ASSUME OwnerInv, NEW t \in Threads, CallStep(t)
  PROVE  Owned'
<1> USE DEF OwnerInv
<1>1. CASE SubmitRefuse(t)
  <2>1. todo[t] = <<>>
    BY <1>1 DEF SubmitRefuse, Refused, Go, Owned, BatchOwned, BatchOf
  <2> QED
    BY <1>1, <2>1, Untouched
       DEF SubmitRefuse, Refused, Q!Refuse, Go, workers, discard, Places, ShutdownInv, Types
<1>2. CASE Close(t)
  <2>1. todo[t] = <<>>
    BY <1>2 DEF Close, Closed, Go, Owned, BatchOwned, BatchOf
  <2> QED
    BY <1>2, <2>1, Untouched
       DEF Close, Closed, Q!Close, Go, workers, discard, Places, ShutdownInv, Types
<1>3. CASE CountDiscarded(t)
  BY <1>3, Untouched
     DEF CountDiscarded, Go, pool, workers, discard, Places, ShutdownInv, Types
<1>4. CASE JoinStart(t)
  <2>1. todo[t] = <<>>
    BY <1>4 DEF JoinStart, Go, Owned, BatchOwned, BatchOf
  <2> QED
    BY <1>4, <2>1, Untouched
       DEF JoinStart, Go, pool, workers, discard, Places, ShutdownInv, Types
<1>5. CASE JoinWorker(t)
  BY <1>5, Untouched DEF JoinWorker, pool, workers, discard, Places
<1> QED
  BY <1>1, <1>2, <1>3, <1>4, <1>5, AcceptOwned, RejectOwned, CountOwned, DrainOwned,
     RejectNextOwned, ReturnOwned, SummaryOwned DEF CallStep, QueueStep, LocalStep

LEMMA StepOwned == OwnerInv /\ [Next]_vars => Owned'
<1> SUFFICES ASSUME OwnerInv, [Next]_vars PROVE Owned'
  OBVIOUS
<1>1. CASE UNCHANGED vars
  BY <1>1, Untouched DEF OwnerInv, vars, pool, workers, discard, Places
<1> QED
  BY <1>1, WorkerOwned, LifeOwned, CallOwned, InCallOwned DEF Next, Gone

LEMMA OwnerInvariant == Spec => []OwnerInv
<1>1. Init => Owned
  BY InitOwned
<1>2. OwnerInv /\ [Next]_vars => Owned'
  BY StepOwned
<1> QED
  BY <1>1, <1>2, ShutdownInvariant, PTL DEF Spec, OwnerInv
=============================================================================
