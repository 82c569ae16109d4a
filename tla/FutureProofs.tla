---------------------------- MODULE FutureProofs ----------------------------
(***************************************************************************)
(* What the ownership of the envelopes (ThreadPoolProofs) means for the    *)
(* futures and the counts of ThreadPool, for any number of workers,        *)
(* callers and envelopes and any capacity: the samples are those of the    *)
(* futures, a pool that is gone has resolved every future, every task      *)
(* keeps the lifecycle of TaskContract, rejected_ counts each rejection    *)
(* once, and a summary made while nobody else is in a call adds up.        *)
(***************************************************************************)
EXTENDS ThreadPoolProofs

-----------------------------------------------------------------------------
(* The samples *)

LEMMA OwnedSamplesMatch == OwnerInv => SamplesMatchFutures
<1> SUFFICES ASSUME OwnerInv PROVE SamplesMatchFutures
  OBVIOUS
<1> USE DEF OwnerInv, Owned
<1>1. \A w, v \in Workers : \A i \in 1 .. Len(samples[w]), j \in 1 .. Len(samples[v]) :
        samples[w][i].id = samples[v][j].id => w = v /\ i = j
  BY DEF SamplesOwned
<1>2. \A s : s \in Recorded <=>
        \E w \in Workers : \E i \in 1 .. Len(samples[w]) : s = samples[w][i]
  BY DEF Recorded, Elements
<1>3. \A s \in Recorded : s.id \in Envelopes /\ promise[s.id] = s.state /\ s.state \in Ran
  <2> SUFFICES ASSUME NEW w \in Workers, NEW i \in 1 .. Len(samples[w])
               PROVE  /\ samples[w][i].id \in Envelopes
                      /\ promise[samples[w][i].id] = samples[w][i].state
                      /\ samples[w][i].state \in Ran
    BY <1>2
  <2> QED
    BY SamplesRan DEF SamplesOwned, SampleOf
<1>4. ASSUME joined, NEW e \in Envelopes, promise[e] \in Ran
      PROVE  \E s \in Recorded : s.id = e
  <2>1. ~InHand(e, "record")
    BY <1>4, QuietWhenJoined DEF JoinedIsQuiet, InHand
  <2>2. PICK w \in Workers : \E i \in 1 .. Len(samples[w]) : samples[w][i].id = e
    BY <1>4, <2>1 DEF NoneLost, HasSample, InSamples
  <2> QED
    BY <1>2, <2>2
<1> QED
  BY <1>1, <1>3, <1>4 DEF SamplesMatchFutures, Ran

(* What collect_samples returns is what the futures say: one sample per    *)
(* task that ran, with the state its caller was told, and after the join   *)
(* none is missing.                                                        *)
THEOREM SamplesAreTheFutures == Spec => []SamplesMatchFutures
  BY OwnerInvariant, OwnedSamplesMatch, PTL

-----------------------------------------------------------------------------
(* The end of the pool *)

(* Nobody is inside a call when the destructor runs, the pool is gone only *)
(* after its workers were joined, and an aborted queue stays empty.        *)
EndInv ==
  /\ life \in {"destroying", "destroyed"} => \A c \in Callers : pc[c] = "idle"
  /\ life \in {"threw", "destroyed"} => joined
  /\ aborted => closed /\ queue = <<>>

LEMMA StepEnd == ShutdownInv /\ EndInv /\ [Next]_vars => EndInv'
<1> SUFFICES ASSUME ShutdownInv, EndInv, [Next]_vars PROVE EndInv'
  OBVIOUS
<1> Owner \in Threads /\ Callers \subseteq Threads /\ Owner \notin Callers
  BY NameAssumption DEF Threads
<1> \A t \in Threads : t # Owner => t \in Callers
  BY DEF Threads
<1> USE DEF ShutdownInv, Types, OwnerCalls, JoinAfterClose, EndInv, Go, pool, workers, join
<1>1. CASE UNCHANGED vars \/ Gone
  BY <1>1 DEF vars, Gone
<1>2. CASE Spawn \/ SpawnFails \/ Destroy
  <2>1. CASE Spawn
    BY <2>1 DEF Spawn
  <2>2. CASE SpawnFails \/ Destroy
    BY <2>2 DEF SpawnFails, Destroy
  <2> QED
    BY <1>2, <2>1, <2>2
<1>3. ASSUME NEW w \in Workers, WorkerStep(w) PROVE EndInv'
  BY <1>3 DEF WorkerStep, WorkerPop, Took, Q!Pop, WorkerRun, WorkerRecord,
              WorkerExit, Left, Q!Finish
<1>4. ASSUME NEW c \in Callers,
             SubmitCall(c) \/ ShutdownCall(c) \/ ShutdownNowCall(c) \/ SummaryCall(c)
      PROVE  EndInv'
  BY <1>4 DEF SubmitCall, SubmitEnvelope, ShutdownCall, ShutdownNowCall, SummaryCall
<1>5. ASSUME NEW t \in Threads, QueueStep(t) PROVE EndInv'
  BY <1>5 DEF QueueStep, SubmitAccept, Accepted, Q!Push, SubmitRefuse, Refused,
              Q!Refuse, Close, Closed, Q!Close, CloseAndDrain, Drained, Q!CloseAndDrain
<1>6. ASSUME NEW t \in Threads, LocalStep(t) PROVE EndInv'
  <2>1. CASE SubmitReject(t) \/ SubmitCount(t) \/ RejectNext(t) \/ CountDiscarded(t)
    BY <2>1 DEF SubmitReject, SubmitCount, RejectNext, CountDiscarded
  <2>2. CASE JoinStart(t) \/ JoinWorker(t)
    BY <2>2 DEF JoinStart, JoinWorker
  <2>3. CASE JoinAgain(t) \/ JoinDone(t)
    BY <2>3 DEF JoinAgain, JoinDone, Return
  <2> QED
    BY <1>6, <2>1, <2>2, <2>3 DEF LocalStep
<1>7. ASSUME NEW t \in Threads, SummaryStep(t) PROVE EndInv'
  BY <1>7 DEF SummaryStep, CollectCheck, CollectThrows, CollectMerge, RejectedCount,
              SummaryReturn, SummaryEnds
<1> QED
  BY <1>1, <1>2, <1>3, <1>4, <1>5, <1>6, <1>7 DEF Next, CallStep

LEMMA EndInvariant == Spec => []EndInv
<1>1. Init => EndInv
  BY DEF Init, EndInv
<1> QED
  BY <1>1, StepEnd, ShutdownInvariant, PTL DEF Spec

(* When the workers are joined and nobody submits or stops the pool, no    *)
(* envelope has an owner left: none is unset.                              *)
Settled == joined /\ \A t \in Threads : pc[t] \in {"idle", "summary", "merge"}

LEMMA NothingUnset ==
  ASSUME OwnerInv, Settled, NEW e \in Envelopes
  PROVE  promise[e] # "unset"
<1> USE DEF OwnerInv, Owned
<1>1. queue = <<>> /\ \A w \in Workers : wpc[w] \in {"exited", "unborn"}
  BY QuietWhenJoined DEF Settled, JoinedIsQuiet
<1>2. \A t \in Threads : env[t] = None /\ batch[t] = <<>>
  BY DEF Settled, EnvOwned, BatchOwned, BatchOf
<1>3. ~InEnv(e)
  BY <1>2, NameAssumption DEF InEnv
<1>4. ~InQueue(e) /\ ~InHand(e, "run")
  BY <1>1 DEF InQueue, InHand
<1>5. ~InBatch(e)
  BY <1>2 DEF InBatch
<1> QED
  BY <1>3, <1>4, <1>5 DEF NoneLost, Somewhere

LEMMA NothingLeftBehind == OwnerInv /\ EndInv => GoneIsClean
<1> SUFFICES ASSUME OwnerInv, EndInv, life \in {"threw", "destroyed"}
             PROVE  /\ \A w \in Workers : wpc[w] \in {"exited", "unborn"}
                    /\ \A e \in Envelopes : promise[e] \in Terminal \cup {"none"}
  BY DEF GoneIsClean
<1>1. \A w \in Workers : wpc[w] \in {"exited", "unborn"}
  BY QuietWhenJoined DEF OwnerInv, EndInv, JoinedIsQuiet
<1>2. Settled
  BY DEF Settled, EndInv, OwnerInv, ShutdownInv, OwnerCalls, Constructed, Threads
<1> QED
  BY <1>1, <1>2, NothingUnset DEF OwnerInv, Owned, ResultTypes

(* The destructor, and a constructor that fails part way, leave no worker  *)
(* behind and no future that its caller would wait for in vain.            *)
THEOREM GonePoolIsClean == Spec => []GoneIsClean
  BY OwnerInvariant, EndInvariant, NothingLeftBehind, PTL

-----------------------------------------------------------------------------
(* The contract.  The future of a task changes with its promise, and with  *)
(* the worker that has it in hand.                                         *)

FutureOf == [e \in Envelopes |-> Future(e)]

LEMMA SameFutures ==
  ASSUME promise' = promise,
         \A e \in Envelopes : InHand(e, "run")' <=> InHand(e, "run")
  PROVE  FutureOf' = FutureOf
<1>1. \A e \in Envelopes : Future(e)' = Future(e)
  BY DEF Future, InHand
<1> QED
  BY <1>1 DEF FutureOf

LEMMA OneTurn ==
  ASSUME NEW e \in Envelopes, NEW from, NEW to, Future(e) = from, Future(e)' = to,
         \A f \in Envelopes \ {e} : Future(f)' = Future(f)
  PROVE  Contract!Turn(e, from, to)
  BY DEF Contract!Turn

LEMMA PopStarts ==
  ASSUME OwnerInv, EndInv, NEW w \in Workers, WorkerPop(w)
  PROVE  \E e \in Envelopes : Contract!Start(e)
<1> USE DEF OwnerInv, Owned
<1>1. /\ queue \in Seq(Envelopes) /\ queue # <<>>
      /\ hold' = [hold EXCEPT ![w] = [id |-> Head(queue), state |-> "Running"]]
      /\ wpc[w] = "pop" /\ wpc' = [wpc EXCEPT ![w] = "run"]
      /\ UNCHANGED <<promise, aborted>>
  BY DEF WorkerPop, Took, Q!Pop, ResultTypes
<1>2. PICK e \in Envelopes : e = Head(queue) /\ e = queue[1] /\ 1 \in 1 .. Len(queue)
  BY <1>1, TailElements
<1>3. promise[e] = "unset" /\ \A v \in Workers : Busy(v) => hold[v].id # e
  BY <1>2 DEF QueueOwned, OneOwner
<1>4. /\ hold'[w].id = e /\ wpc'[w] = "run"
      /\ \A v \in Workers \ {w} : hold'[v] = hold[v] /\ wpc'[v] = wpc[v]
  BY <1>1, <1>2 DEF ResultTypes, ShutdownInv, Types
<1>5. Future(e) = "Queued"
  BY <1>3 DEF Future, Busy
<1>6. Future(e)' = "Running"
  BY <1>1, <1>3, <1>4 DEF Future
<1>7. ASSUME NEW f \in Envelopes \ {e} PROVE Future(f)' = Future(f)
  BY <1>1, <1>4 DEF Future
<1>8. Contract!Turn(e, "Queued", "Running")
  BY <1>2, <1>5, <1>6, <1>7, OneTurn
<1> QED
  BY <1>1, <1>2, <1>8 DEF Contract!Start, EndInv

LEMMA RunFinishes ==
  ASSUME OwnerInv, NEW w \in Workers, WorkerRun(w)
  PROVE  \E e \in Envelopes : Contract!Finish(e)
<1> USE DEF OwnerInv, Owned
<1>1. PICK e \in Envelopes :
        wpc[w] = "run" /\ Busy(w) /\ e = hold[w].id /\ promise[e] = "unset"
  BY DEF WorkerRun, HoldOwned, SampleOf, Busy
<1>2. PICK outcome \in Ran :
        /\ promise' = [promise EXCEPT ![e] = outcome]
        /\ hold' = [hold EXCEPT ![w] = [id |-> e, state |-> outcome]]
  BY <1>1, SettleUnset DEF WorkerRun, Ran
<1>3. wpc' = [wpc EXCEPT ![w] = "record"] /\ UNCHANGED aborted
  BY DEF WorkerRun
<1>4. \A v \in Workers \ {w} : Busy(v) => hold[v].id # e
  BY <1>1 DEF HoldOwned
<1>5. Future(e) = "Running"
  BY <1>1 DEF Future
<1>6. /\ promise'[e] = outcome /\ wpc'[w] = "record"
      /\ \A f \in Envelopes \ {e} : promise'[f] = promise[f]
      /\ \A v \in Workers \ {w} : hold'[v] = hold[v] /\ wpc'[v] = wpc[v]
  BY <1>1, <1>2, <1>3 DEF ResultTypes, ShutdownInv, Types
<1>7. Future(e)' = outcome
  BY <1>6 DEF Future, Ran
<1>8. ASSUME NEW f \in Envelopes \ {e} PROVE Future(f)' = Future(f)
  <2>1. InHand(f, "run")' <=> InHand(f, "run")
    BY <1>1, <1>6 DEF InHand
  <2> QED
    BY <1>6, <2>1 DEF Future, InHand
<1>9. Contract!Turn(e, "Running", outcome)
  BY <1>1, <1>5, <1>7, <1>8, OneTurn
<1> QED
  BY <1>1, <1>3, <1>9 DEF Contract!Finish, Ran

(* An envelope that no worker has in hand is Queued until it is settled. *)
LEMMA RejectTurns ==
  ASSUME OwnerInv, NEW e \in Envelopes, promise[e] = "unset",
         \A w \in Workers : Busy(w) => hold[w].id # e,
         promise' = [promise EXCEPT ![e] = "Rejected"], UNCHANGED <<wpc, hold, aborted>>
  PROVE  Contract!Reject(e)
<1> USE DEF OwnerInv, Owned
<1>1. /\ promise'[e] = "Rejected"
      /\ \A f \in Envelopes \ {e} : promise'[f] = promise[f]
  BY DEF ResultTypes
<1>2. Future(e) = "Queued" /\ Future(e)' = "Rejected"
  BY <1>1 DEF Future, Busy
<1>3. ASSUME NEW f \in Envelopes \ {e} PROVE Future(f)' = Future(f)
  BY <1>1 DEF Future
<1> QED
  BY <1>2, <1>3, OneTurn DEF Contract!Reject

LEMMA SubmitTurns ==
  ASSUME OwnerInv, NEW c \in Callers, NEW e \in Envelopes, SubmitEnvelope(c, e)
  PROVE  Contract!Submit(e)
<1> USE DEF OwnerInv, Owned
<1>1. /\ promise[e] = "none" /\ promise' = [promise EXCEPT ![e] = "unset"]
      /\ UNCHANGED <<wpc, hold, aborted>>
  BY DEF SubmitEnvelope, workers
<1>2. \A w \in Workers : Busy(w) => hold[w].id # e
  BY <1>1, NotYetSubmitted
<1>3. /\ promise'[e] = "unset"
      /\ \A f \in Envelopes \ {e} : promise'[f] = promise[f]
  BY <1>1 DEF ResultTypes
<1>4. Future(e) = "none" /\ Future(e)' = "Queued"
  BY <1>1, <1>2, <1>3 DEF Future, Busy
<1>5. ASSUME NEW f \in Envelopes \ {e} PROVE Future(f)' = Future(f)
  BY <1>1, <1>3 DEF Future
<1> QED
  BY <1>1, <1>4, <1>5, OneTurn DEF Contract!Submit

(* The steps of the contract, and the ones it does not see. *)
Honours == [Contract!Next]_<<FutureOf, aborted>>

LEMMA WorkerHonours ==
  ASSUME OwnerInv, EndInv, NEW w \in Workers, WorkerStep(w)
  PROVE  Honours
<1>1. CASE WorkerPop(w)
  BY <1>1, PopStarts DEF Honours, Contract!Next
<1>2. CASE WorkerRun(w)
  BY <1>2, RunFinishes DEF Honours, Contract!Next
<1>3. CASE WorkerRecord(w)
  <2>1. promise' = promise
    BY <1>3, RecordSettled
  <2>2. /\ wpc[w] = "record" /\ wpc'[w] = "pop" /\ UNCHANGED aborted
        /\ \A v \in Workers \ {w} : hold'[v] = hold[v] /\ wpc'[v] = wpc[v]
    BY <1>3 DEF WorkerRecord, OwnerInv, Owned, ResultTypes, ShutdownInv, Types
  <2>3. \A e \in Envelopes : InHand(e, "run")' <=> InHand(e, "run")
    BY <2>2 DEF InHand
  <2> QED
    BY <2>1, <2>2, <2>3, SameFutures DEF Honours
<1>4. CASE WorkerExit(w)
  <2>1. /\ wpc[w] = "pop" /\ wpc'[w] = "exited" /\ UNCHANGED <<promise, hold, aborted>>
        /\ \A v \in Workers \ {w} : wpc'[v] = wpc[v]
    BY <1>4 DEF WorkerExit, Left, OwnerInv, ShutdownInv, Types
  <2>2. \A e \in Envelopes : InHand(e, "run")' <=> InHand(e, "run")
    BY <2>1 DEF InHand
  <2> QED
    BY <2>1, <2>2, SameFutures DEF Honours
<1> QED
  BY <1>1, <1>2, <1>3, <1>4 DEF WorkerStep

LEMMA UnseenByContract ==
  ASSUME UNCHANGED <<promise, wpc, hold, aborted>>
  PROVE  Honours
<1>1. \A e \in Envelopes : InHand(e, "run")' <=> InHand(e, "run")
  BY DEF InHand
<1> QED
  BY <1>1, SameFutures DEF Honours

LEMMA QueueHonours ==
  ASSUME OwnerInv, NEW t \in Threads, QueueStep(t)
  PROVE  Honours
<1>1. CASE SubmitAccept(t) \/ SubmitRefuse(t) \/ Close(t)
  BY <1>1, UnseenByContract
     DEF SubmitAccept, Accepted, SubmitRefuse, Refused, Close, Closed, workers
<1>2. CASE CloseAndDrain(t)
  <2>1. FutureOf' = FutureOf
    <3>1. UNCHANGED <<promise, wpc, hold>>
      BY <1>2 DEF CloseAndDrain, Drained, workers
    <3> QED
      BY <3>1, SameFutures DEF InHand
  <2>2. aborted' = TRUE
    BY <1>2 DEF CloseAndDrain, Drained
  <2> QED
    BY <2>1, <2>2 DEF Honours, Contract!Next, Contract!Abort, FutureOf
<1> QED
  BY <1>1, <1>2 DEF QueueStep

LEMMA LocalHonours ==
  ASSUME OwnerInv, NEW t \in Threads, LocalStep(t)
  PROVE  Honours
<1>1. CASE SubmitReject(t)
  <2>1. PICK e \in Envelopes :
          /\ e = env[t] /\ promise[e] = "unset"
          /\ promise' = [promise EXCEPT ![e] = "Rejected"]
    BY <1>1, RejectSettles
  <2>2. \A w \in Workers : Busy(w) => hold[w].id # e
    BY <2>1 DEF OwnerInv, Owned, OneOwner
  <2>3. UNCHANGED <<wpc, hold, aborted>>
    BY <1>1 DEF SubmitReject, workers
  <2> QED
    BY <2>1, <2>2, <2>3, RejectTurns DEF Honours, Contract!Next
<1>2. CASE RejectNext(t)
  <2>1. PICK e \in Envelopes :
          /\ e = batch[t][Done(t) + 1] /\ Done(t) + 1 \in 1 .. Len(batch[t])
          /\ promise[e] = "unset" /\ promise' = [promise EXCEPT ![e] = "Rejected"]
    BY <1>2, NextToReject
  <2>2. \A w \in Workers : Busy(w) => hold[w].id # e
    BY <2>1 DEF OwnerInv, Owned, OneOwner
  <2>3. UNCHANGED <<wpc, hold, aborted>>
    BY <1>2 DEF RejectNext, workers
  <2> QED
    BY <2>1, <2>2, <2>3, RejectTurns DEF Honours, Contract!Next
<1>3. CASE SubmitCount(t)
  BY <1>3, CountSettled, UnseenByContract DEF SubmitCount, workers
<1>4. CASE JoinAgain(t) \/ JoinDone(t)
  BY <1>4, ReturnSettled, UnseenByContract DEF JoinAgain, JoinDone, Return, workers
<1>5. CASE CountDiscarded(t) \/ JoinStart(t) \/ JoinWorker(t)
  BY <1>5, UnseenByContract DEF CountDiscarded, JoinStart, JoinWorker, workers
<1> QED
  BY <1>1, <1>2, <1>3, <1>4, <1>5 DEF LocalStep

LEMMA StepHonours == OwnerInv /\ EndInv /\ [Next]_vars => Honours
<1> SUFFICES ASSUME OwnerInv, EndInv, [Next]_vars PROVE Honours
  OBVIOUS
<1>1. CASE UNCHANGED vars \/ Gone
  BY <1>1, UnseenByContract DEF Gone, vars, workers
<1>2. CASE Spawn
  <2>1. PICK w \in Workers : wpc[w] = "unborn" /\ wpc' = [wpc EXCEPT ![w] = "pop"]
    BY <1>2 DEF Spawn
  <2>2. wpc'[w] = "pop" /\ \A v \in Workers \ {w} : wpc'[v] = wpc[v]
    BY <2>1 DEF OwnerInv, ShutdownInv, Types
  <2>3. UNCHANGED <<promise, hold, aborted>>
    BY <1>2 DEF Spawn
  <2>4. \A e \in Envelopes : InHand(e, "run")' <=> InHand(e, "run")
    BY <2>1, <2>2, <2>3 DEF InHand
  <2> QED
    BY <2>3, <2>4, SameFutures DEF Honours
<1>3. CASE SpawnFails \/ Destroy
  BY <1>3, UnseenByContract DEF SpawnFails, Destroy, workers
<1>4. ASSUME NEW c \in Callers, SubmitCall(c) PROVE Honours
  BY <1>4, SubmitTurns DEF SubmitCall, Honours, Contract!Next
<1>5. ASSUME NEW c \in Callers, ShutdownCall(c) \/ ShutdownNowCall(c) \/ SummaryCall(c)
      PROVE  Honours
  BY <1>5, UnseenByContract DEF ShutdownCall, ShutdownNowCall, SummaryCall, workers
<1>6. ASSUME NEW t \in Threads, SummaryStep(t) PROVE Honours
  BY <1>6, UnseenByContract
     DEF SummaryStep, CollectCheck, CollectThrows, CollectMerge, RejectedCount,
         SummaryReturn, SummaryEnds, workers
<1> QED
  BY <1>1, <1>2, <1>3, <1>4, <1>5, <1>6, WorkerHonours, QueueHonours, LocalHonours
     DEF Next, CallStep

LEMMA InitHonours == Init => Contract!Init
<1> SUFFICES ASSUME Init PROVE Contract!Init
  OBVIOUS
<1>1. \A e \in Envelopes : Future(e) = "none"
  BY DEF Init, Future
<1> QED
  BY <1>1 DEF Init, Contract!Init

(* Every future is fulfilled exactly once, every task runs on one worker   *)
(* or is rejected without having run, and no task starts after an abort.   *)
THEOREM PoolHonoursContract == Spec => HonoursContract
<1>1. OwnerInv /\ EndInv /\ [Next]_vars =>
        [Contract!Next]_<<[e \in Envelopes |-> Future(e)], aborted>>
  BY StepHonours DEF Honours, FutureOf
<1> QED
  BY <1>1, InitHonours, OwnerInvariant, EndInvariant, PTL
     DEF Spec, HonoursContract, Contract!Spec

-----------------------------------------------------------------------------
(* The count of the rejected.  Counted is what rejected_ should count: it  *)
(* grows by one when submit counts, by the batch when shutdown_now does,   *)
(* and no other step changes it.                                           *)

IsCounted(e) ==
  /\ promise[e] = "Rejected"
  /\ \A c \in Callers :
       /\ pc[c] = "count" => env[c] # e
       /\ pc[c] = "discard" => \A i \in 1 .. Len(batch[c]) : batch[c][i] # e

Counted == {e \in Envelopes : IsCounted(e)}

LEMMA CountedIs == RejectedIsCounted <=> rejected = Cardinality(Counted)
<1>1. \A e \in Envelopes :
        e \in Uncounted <=>
          \/ \E c \in Callers : pc[c] = "count" /\ env[c] = e
          \/ \E c \in Callers : pc[c] = "discard" /\ \E i \in 1 .. Len(batch[c]) : batch[c][i] = e
  BY DEF Uncounted, Elements
<1>2. {e \in Envelopes : promise[e] = "Rejected"} \ Uncounted = Counted
  BY <1>1 DEF Counted, IsCounted
<1> QED
  BY <1>2 DEF RejectedIsCounted

LEMMA CountedIsNext == RejectedIsCounted' <=> (rejected = Cardinality(Counted))'
  BY CountedIs, PTL

LEMMA CountedFinite ==
  IsFiniteSet(Counted) /\ Cardinality(Counted) \in Nat
    /\ Cardinality(Counted) <= Cardinality(Envelopes) /\ Cardinality(Envelopes) \in Nat
<1>1. Counted \subseteq Envelopes
  BY DEF Counted
<1> QED
  BY <1>1, NameAssumption, FS_Subset, FS_CardinalityType

LEMMA CountedKept ==
  ASSUME RejectedIsCounted, UNCHANGED rejected,
         \A e \in Envelopes : promise'[e] = "Rejected" <=> promise[e] = "Rejected",
         \A c \in Callers :
           /\ pc'[c] = "count" <=> pc[c] = "count"
           /\ pc'[c] = "discard" <=> pc[c] = "discard"
           /\ pc[c] = "count" => env'[c] = env[c]
           /\ pc[c] = "discard" => batch'[c] = batch[c]
  PROVE  RejectedIsCounted'
<1>1. \A e \in Envelopes : IsCounted(e)' <=> IsCounted(e)
  BY DEF IsCounted
<1>2. Counted' = Counted
  BY <1>1 DEF Counted
<1> QED
  BY <1>2, CountedIs, CountedIsNext

(* A sequence without repetition has as many elements as positions. *)
LEMMA ElementsCount ==
  ASSUME NEW S, NEW s \in Seq(S), \A i, j \in 1 .. Len(s) : s[i] = s[j] => i = j
  PROVE  IsFiniteSet(Elements(s)) /\ Cardinality(Elements(s)) = Len(s)
<1>1. Len(s) \in Nat /\ s \in [1 .. Len(s) -> S]
  OBVIOUS
<1>2. s \in [1 .. Len(s) -> Elements(s)]
  BY <1>1 DEF Elements
<1>3. s \in Injection(1 .. Len(s), Elements(s))
  BY <1>2 DEF Injection, IsInjective
<1>4. s \in Surjection(1 .. Len(s), Elements(s))
  BY <1>2 DEF Surjection, Elements
<1>5. ExistsBijection(1 .. Len(s), Elements(s))
  BY <1>3, <1>4 DEF ExistsBijection, Bijection
<1> QED
  BY <1>1, <1>5, FS_CountingElements, FS_NatBijection

LEMMA CountAddsOne ==
  ASSUME OwnerInv, RejectedIsCounted, NEW c \in Callers, SubmitCount(c)
  PROVE  RejectedIsCounted'
<1> USE DEF OwnerInv, Owned
<1> c \in Threads /\ Callers \subseteq Threads
  BY DEF Threads
<1>1. PICK e \in Envelopes : e = env[c] /\ promise[e] = "Rejected" /\ promise' = promise
  BY CountSettled
<1>2. /\ pc[c] = "count" /\ pc'[c] = "idle" /\ rejected' = rejected + 1 /\ batch' = batch
      /\ \A d \in Threads \ {c} : pc'[d] = pc[d] /\ env'[d] = env[d]
  BY DEF SubmitCount, Go, discard, ResultTypes, ShutdownInv, Types
<1>3. /\ \A d \in Threads \ {c} : env[d] # e
      /\ \A d \in Threads : \A i \in 1 .. Len(batch[d]) : batch[d][i] # e
  BY <1>1, NameAssumption DEF EnvOwned, OneOwner
<1>4. ~IsCounted(e) /\ IsCounted(e)'
  BY <1>1, <1>2, <1>3 DEF IsCounted
<1>5. ASSUME NEW f \in Envelopes \ {e} PROVE IsCounted(f)' <=> IsCounted(f)
  BY <1>1, <1>2 DEF IsCounted
<1>6. Counted' = Counted \cup {e} /\ e \notin Counted
  BY <1>4, <1>5 DEF Counted
<1>7. Cardinality(Counted') = Cardinality(Counted) + 1
  BY <1>6, CountedFinite, FS_AddElement
<1> QED
  BY <1>2, <1>7, CountedIs, CountedIsNext

LEMMA DiscardAddsBatch ==
  ASSUME OwnerInv, RejectedIsCounted, NEW c \in Callers, CountDiscarded(c)
  PROVE  RejectedIsCounted'
<1> USE DEF OwnerInv, Owned
<1> c \in Threads /\ Callers \subseteq Threads
  BY DEF Threads
<1> DEFINE b == batch[c]
<1>1. /\ todo[c] = <<>> /\ pc[c] = "discard" /\ pc'[c] = "join"
      /\ rejected' = rejected + Len(b) /\ UNCHANGED <<promise, env, batch>>
      /\ \A d \in Threads \ {c} : pc'[d] = pc[d]
  BY DEF CountDiscarded, Go, discard, ShutdownInv, Types
<1>2. b \in Seq(Envelopes) /\ BatchOf(c) /\ Len(b) \in Nat
  BY DEF ResultTypes, BatchOwned
<1>3. \A i \in 1 .. Len(b) : promise[b[i]] = "Rejected"
  <2>1. Done(c) = Len(b)
    BY <1>1, <1>2 DEF Done
  <2> QED
    BY <1>2, <2>1 DEF BatchOf
<1>4. IsFiniteSet(Elements(b)) /\ Cardinality(Elements(b)) = Len(b)
  <2>1. \A i, j \in 1 .. Len(b) : b[i] = b[j] => i = j
    BY DEF BatchOwned
  <2> QED
    BY <1>2, <2>1, ElementsCount
<1>5. ASSUME NEW i \in 1 .. Len(b)
      PROVE  b[i] \in Envelopes /\ ~IsCounted(b[i]) /\ IsCounted(b[i])'
  <2>1. b[i] \in Envelopes /\ \A d \in Threads : env[d] # b[i]
    BY <1>2 DEF OneOwner
  <2>2. \A d \in Threads \ {c} : \A j \in 1 .. Len(batch[d]) : batch[d][j] # b[i]
    BY DEF BatchOwned
  <2>3. ~IsCounted(b[i])
    BY <1>1 DEF IsCounted
  <2>4. promise[b[i]] = "Rejected"
    BY <1>3
  <2>5. IsCounted(b[i])'
    BY <1>1, <2>1, <2>2, <2>4 DEF IsCounted
  <2> QED
    BY <2>1, <2>3, <2>5
<1>6. ASSUME NEW f \in Envelopes, \A i \in 1 .. Len(b) : b[i] # f
      PROVE  IsCounted(f)' <=> IsCounted(f)
  BY <1>1, <1>6 DEF IsCounted
<1>7. Counted' = Counted \cup Elements(b) /\ Counted \cap Elements(b) = {}
  BY <1>1, <1>5, <1>6 DEF Counted, Elements
<1>8. Cardinality(Counted') = Cardinality(Counted) + Len(b)
  <2>1. Cardinality(Counted \cup Elements(b)) = Cardinality(Counted) + Len(b) - Cardinality({})
    BY <1>4, <1>7, CountedFinite, FS_Union
  <2> QED
    BY <1>2, <1>7, <2>1, CountedFinite, FS_EmptySet
<1> QED
  BY <1>1, <1>8, CountedIs, CountedIsNext

(* Rejecting an envelope does not yet count it. *)
LEMMA RejectUncounted ==
  ASSUME OwnerInv, RejectedIsCounted, NEW c \in Callers, NEW e \in Envelopes,
         promise[e] = "unset", promise' = [promise EXCEPT ![e] = "Rejected"],
         UNCHANGED <<env, batch, rejected>>,
         \A d \in Callers \ {c} : pc'[d] = pc[d],
         \/ pc[c] = "reject" /\ pc'[c] = "count" /\ env[c] = e
         \/ /\ pc[c] = "discard" /\ pc'[c] = "discard"
            /\ \E i \in 1 .. Len(batch[c]) : batch[c][i] = e
  PROVE  RejectedIsCounted'
<1>1. promise'[e] = "Rejected" /\ \A f \in Envelopes \ {e} : promise'[f] = promise[f]
  BY DEF OwnerInv, Owned, ResultTypes
<1>2. ~IsCounted(e) /\ ~IsCounted(e)'
  BY DEF IsCounted
<1>3. ASSUME NEW f \in Envelopes \ {e} PROVE IsCounted(f)' <=> IsCounted(f)
  BY <1>1 DEF IsCounted
<1>4. Counted' = Counted
  BY <1>2, <1>3 DEF Counted
<1> QED
  BY <1>4, CountedIs, CountedIsNext

(* The batch of a shutdown_now is counted when it has been rejected. *)
LEMMA DrainUncounted ==
  ASSUME OwnerInv, RejectedIsCounted, NEW c \in Callers, CloseAndDrain(c)
  PROVE  RejectedIsCounted'
<1> USE DEF OwnerInv, Owned
<1> c \in Threads /\ Callers \subseteq Threads
  BY DEF Threads
<1>1. /\ pc[c] = "drain" /\ pc'[c] = "discard" /\ batch'[c] = queue
      /\ UNCHANGED <<promise, env, rejected>>
      /\ \A d \in Threads \ {c} : pc'[d] = pc[d] /\ batch'[d] = batch[d]
  BY DEF CloseAndDrain, Drained, Go, ResultTypes, ShutdownInv, Types
<1>2. \A i \in 1 .. Len(queue) : promise[queue[i]] # "Rejected"
  BY DEF QueueOwned
<1>3. ASSUME NEW f \in Envelopes PROVE IsCounted(f)' <=> IsCounted(f)
  BY <1>1, <1>2 DEF IsCounted
<1>4. Counted' = Counted
  BY <1>3 DEF Counted
<1> QED
  BY <1>1, <1>4, CountedIs, CountedIsNext

LEMMA StepCounted == OwnerInv /\ RejectedIsCounted /\ [Next]_vars => RejectedIsCounted'
<1> SUFFICES ASSUME OwnerInv, RejectedIsCounted, [Next]_vars PROVE RejectedIsCounted'
  OBVIOUS
<1> Callers \subseteq Threads /\ Owner \notin Callers /\ Owner \in Threads
  BY NameAssumption DEF Threads
<1> \A t \in Threads : pc[t] \notin {"idle", "close", "join", "joining"} => t \in Callers
  BY DEF Threads, OwnerInv, ShutdownInv, OwnerCalls
<1> USE DEF OwnerInv, ShutdownInv, Types
<1>1. CASE UNCHANGED vars \/ Gone
  BY <1>1, CountedKept DEF Gone, vars, discard
<1>2. CASE Spawn \/ SpawnFails \/ Destroy
  BY <1>2, CountedKept DEF Spawn, SpawnFails, Destroy, Go, discard
<1>3. ASSUME NEW w \in Workers, WorkerStep(w) PROVE RejectedIsCounted'
  <2>1. UNCHANGED <<rejected, pc, env, batch>>
    BY <1>3 DEF WorkerStep, WorkerPop, Took, WorkerRun, WorkerRecord, WorkerExit, Left, discard
  <2>2. \A e \in Envelopes : promise'[e] = "Rejected" <=> promise[e] = "Rejected"
    <3>1. CASE WorkerRun(w)
      <4>1. hold[w].id \in Envelopes /\ promise[hold[w].id] = "unset"
        BY <3>1 DEF WorkerRun, Owned, HoldOwned, SampleOf
      <4>2. PICK outcome \in Ran : promise' = [promise EXCEPT ![hold[w].id] = outcome]
        BY <3>1, <4>1, SettleUnset DEF Owned, WorkerRun, Ran
      <4> QED
        BY <4>1, <4>2 DEF Owned, ResultTypes, Ran
    <3>2. CASE WorkerRecord(w)
      BY <3>2, RecordSettled
    <3>3. CASE WorkerPop(w) \/ WorkerExit(w)
      BY <3>3 DEF WorkerPop, Took, WorkerExit, Left
    <3> QED
      BY <1>3, <3>1, <3>2, <3>3 DEF WorkerStep
  <2> QED
    BY <2>1, <2>2, CountedKept
<1>4. ASSUME NEW c \in Callers,
             SubmitCall(c) \/ ShutdownCall(c) \/ ShutdownNowCall(c) \/ SummaryCall(c)
      PROVE  RejectedIsCounted'
  <2>1. CASE SubmitCall(c)
    <3>1. \A e \in Envelopes : promise'[e] = "Rejected" <=> promise[e] = "Rejected"
      BY <2>1 DEF SubmitCall, SubmitEnvelope, Owned, ResultTypes
    <3>2. /\ pc[c] = "idle" /\ pc'[c] = "push" /\ UNCHANGED <<rejected, batch>>
          /\ \A d \in Threads \ {c} : pc'[d] = pc[d] /\ env'[d] = env[d]
      BY <2>1 DEF SubmitCall, SubmitEnvelope, Go, discard, Owned, ResultTypes
    <3> QED
      BY <3>1, <3>2, CountedKept
  <2>2. CASE ShutdownCall(c) \/ ShutdownNowCall(c) \/ SummaryCall(c)
    BY <2>2, CountedKept DEF ShutdownCall, ShutdownNowCall, SummaryCall, Go, discard
  <2> QED
    BY <1>4, <2>1, <2>2
<1>5. ASSUME NEW t \in Threads, QueueStep(t) PROVE RejectedIsCounted'
  <2>1. CASE SubmitAccept(t)
    <3>1. /\ pc[t] = "push" /\ pc'[t] = "idle" /\ UNCHANGED <<rejected, promise, batch>>
          /\ \A d \in Threads \ {t} : pc'[d] = pc[d] /\ env'[d] = env[d]
      BY <2>1 DEF SubmitAccept, Accepted, Go, discard, Owned, ResultTypes
    <3> QED
      BY <3>1, CountedKept
  <2>2. CASE SubmitRefuse(t) \/ Close(t)
    BY <2>2, CountedKept DEF SubmitRefuse, Refused, Close, Closed, Go, discard
  <2>3. CASE CloseAndDrain(t)
    BY <2>3, DrainUncounted DEF CloseAndDrain, Drained, Go
  <2> QED
    BY <1>5, <2>1, <2>2, <2>3 DEF QueueStep
<1>6. ASSUME NEW t \in Threads, LocalStep(t) PROVE RejectedIsCounted'
  <2>1. CASE SubmitReject(t)
    <3>1. PICK e \in Envelopes :
            /\ e = env[t] /\ promise[e] = "unset"
            /\ promise' = [promise EXCEPT ![e] = "Rejected"]
      BY <2>1, RejectSettles
    <3>2. /\ pc[t] = "reject" /\ pc'[t] = "count" /\ UNCHANGED <<env, batch, rejected>>
          /\ \A d \in Threads \ {t} : pc'[d] = pc[d]
      BY <2>1 DEF SubmitReject, Go, discard
    <3>3. t \in Callers /\ \A d \in Callers \ {t} : pc'[d] = pc[d]
      BY <3>2
    <3> QED
      BY <3>1, <3>2, <3>3, RejectUncounted
  <2>2. CASE RejectNext(t)
    <3>1. PICK e \in Envelopes :
            /\ \E i \in 1 .. Len(batch[t]) : batch[t][i] = e
            /\ promise[e] = "unset" /\ promise' = [promise EXCEPT ![e] = "Rejected"]
      BY <2>2, NextToReject
    <3>2. /\ pc[t] = "discard" /\ pc'[t] = "discard" /\ UNCHANGED <<env, batch, rejected>>
          /\ \A d \in Callers \ {t} : pc'[d] = pc[d]
      BY <2>2 DEF RejectNext
    <3> QED
      BY <3>1, <3>2, RejectUncounted
  <2>3. CASE SubmitCount(t)
    BY <2>3, CountAddsOne DEF SubmitCount, Go
  <2>4. CASE CountDiscarded(t)
    BY <2>4, DiscardAddsBatch DEF CountDiscarded, Go
  <2>5. CASE JoinAgain(t) \/ JoinDone(t)
    <3>1. /\ pc[t] \in {"join", "joining"} /\ pc'[t] = "idle" /\ UNCHANGED <<rejected, env>>
          /\ \A d \in Threads \ {t} : pc'[d] = pc[d] /\ batch'[d] = batch[d]
      BY <2>5 DEF JoinAgain, JoinDone, Return, Go, Owned, ResultTypes
    <3>2. promise' = promise
      BY <2>5, ReturnSettled
    <3> QED
      BY <3>1, <3>2, CountedKept
  <2>6. CASE JoinStart(t) \/ JoinWorker(t)
    BY <2>6, CountedKept DEF JoinStart, JoinWorker, Go, discard
  <2> QED
    BY <1>6, <2>1, <2>2, <2>3, <2>4, <2>5, <2>6 DEF LocalStep
<1>7. ASSUME NEW t \in Threads, SummaryStep(t) PROVE RejectedIsCounted'
  <2>1. /\ UNCHANGED <<promise, rejected, env, batch>> /\ pc[t] \in {"summary", "merge"}
        /\ \E to \in {"idle", "summary", "merge"} : pc' = [pc EXCEPT ![t] = to]
    BY <1>7 DEF SummaryStep, CollectCheck, CollectThrows, CollectMerge, RejectedCount,
                SummaryReturn, SummaryEnds, Go, discard
  <2> QED
    BY <2>1, CountedKept
<1> QED
  BY <1>1, <1>2, <1>3, <1>4, <1>5, <1>6, <1>7 DEF Next, CallStep

LEMMA InitCounted == Init => RejectedIsCounted
<1> SUFFICES ASSUME Init PROVE RejectedIsCounted
  OBVIOUS
<1>1. Counted = {}
  BY DEF Init, Counted, IsCounted
<1> QED
  BY <1>1, CountedIs, FS_EmptySet DEF Init

(* rejected_ is the number of Rejected futures but for those whose submit  *)
(* or shutdown_now is between rejecting and counting: no refused or        *)
(* discarded task is counted twice or forgotten.                           *)
THEOREM RejectionsAreCounted == Spec => []RejectedIsCounted
  BY OwnerInvariant, InitCounted, StepCounted, PTL DEF Spec

-----------------------------------------------------------------------------
(* The types of the rest. *)

ReadTypes ==
  /\ shutdownMutex \in Threads \cup {None}
  /\ got \in [Threads -> [Workers -> Seq(SampleOf(Ran))] \cup {None}]
  /\ cnt \in [Threads -> Nat \cup {None}]
  /\ asked \in [Threads -> SUBSET Envelopes]
  /\ aborted \in BOOLEAN

LEMMA RejectedBounded == RejectedIsCounted => rejected \in 0 .. Cardinality(Envelopes)
  BY CountedIs, CountedFinite

LEMMA StepRead ==
  OwnerInv /\ RejectedIsCounted /\ ReadTypes /\ [Next]_vars => ReadTypes'
<1> SUFFICES ASSUME OwnerInv, RejectedIsCounted, ReadTypes, [Next]_vars PROVE ReadTypes'
  OBVIOUS
<1> Callers \subseteq Threads
  BY DEF Threads
<1> USE DEF ReadTypes, join, reading
<1>1. CASE UNCHANGED vars \/ Gone
  BY <1>1 DEF Gone, vars
<1>2. CASE Spawn \/ SpawnFails \/ Destroy
  BY <1>2 DEF Spawn, SpawnFails, Destroy
<1>3. ASSUME NEW w \in Workers, WorkerStep(w) PROVE ReadTypes'
  BY <1>3 DEF WorkerStep, WorkerPop, Took, WorkerRun, WorkerRecord, WorkerExit, Left
<1>4. ASSUME NEW c \in Callers,
             SubmitCall(c) \/ ShutdownCall(c) \/ ShutdownNowCall(c) \/ SummaryCall(c)
      PROVE  ReadTypes'
  BY <1>4 DEF SubmitCall, SubmitEnvelope, ShutdownCall, ShutdownNowCall, SummaryCall
<1>5. ASSUME NEW t \in Threads, QueueStep(t) \/ LocalStep(t) PROVE ReadTypes'
  BY <1>5 DEF QueueStep, LocalStep, SubmitAccept, Accepted, SubmitRefuse, Refused,
     Close, Closed, CloseAndDrain, Drained, SubmitReject, SubmitCount, RejectNext,
     CountDiscarded, JoinAgain, JoinStart, JoinWorker, JoinDone, Return
<1>6. ASSUME NEW t \in Threads, SummaryStep(t) PROVE ReadTypes'
  <2>1. samples \in [Workers -> Seq(SampleOf(Ran))]
    BY DEF OwnerInv, Owned, ResultTypes
  <2>2. rejected \in Nat
    BY RejectedBounded, CountedFinite
  <2>3. UNCHANGED <<shutdownMutex, aborted>>
    BY <1>6 DEF SummaryStep, CollectCheck, CollectThrows, CollectMerge, RejectedCount,
                SummaryReturn, SummaryEnds
  <2>4. CASE CollectMerge(t)
    BY <2>1, <2>3, <2>4 DEF CollectMerge
  <2>5. CASE RejectedCount(t)
    BY <2>2, <2>3, <2>5 DEF RejectedCount
  <2>6. CASE CollectCheck(t) \/ CollectThrows(t) \/ SummaryReturn(t)
    BY <2>3, <2>6 DEF CollectCheck, CollectThrows, SummaryReturn, SummaryEnds
  <2> QED
    BY <1>6, <2>4, <2>5, <2>6 DEF SummaryStep
<1> QED
  BY <1>1, <1>2, <1>3, <1>4, <1>5, <1>6 DEF Next, CallStep

LEMMA ReadInvariant == Spec => []ReadTypes
<1>1. Init => ReadTypes
  <2> SUFFICES ASSUME Init PROVE ReadTypes
    OBVIOUS
  <2>1. shutdownMutex = None /\ aborted = FALSE
    BY DEF Init
  <2>2. /\ got \in [Threads -> {None}] /\ cnt \in [Threads -> {None}]
        /\ asked \in [Threads -> SUBSET Envelopes]
    BY DEF Init
  <2> QED
    BY <2>1, <2>2 DEF ReadTypes
<1> QED
  BY <1>1, StepRead, OwnerInvariant, RejectionsAreCounted, PTL DEF Spec

(* Every variable keeps its type, and rejected_ never exceeds the number   *)
(* of tasks there are.                                                     *)
THEOREM PoolTypeCorrect == Spec => []TypeOK
<1>1. OwnerInv /\ RejectedIsCounted /\ ReadTypes => TypeOK
  BY RejectedBounded DEF OwnerInv, ShutdownInv, Types, Constructed, Owned, ResultTypes,
     ReadTypes, TypeOK, SampleOf, Ran
<1> QED
  BY <1>1, OwnerInvariant, RejectionsAreCounted, ReadInvariant, PTL

-----------------------------------------------------------------------------
(* What a summary counts.  Once the workers are joined there are as many   *)
(* samples as futures of tasks that ran, state by state; once the pool is  *)
(* settled rejected_ is the number of Rejected futures.                    *)

SamplesWith(states) ==
  {p \in UNION {{w} \X (1 .. Len(samples[w])) : w \in Workers} :
     samples[p[1]][p[2]].state \in states}

FuturesWith(states) == {e \in Envelopes : promise[e] \in states}

LEMMA SamplesCount ==
  ASSUME OwnerInv, joined, NEW states \in SUBSET Ran
  PROVE  Cardinality(SamplesWith(states)) = Cardinality(FuturesWith(states))
<1> DEFINE S == SamplesWith(states)
           E == FuturesWith(states)
           f == [p \in S |-> samples[p[1]][p[2]].id]
<1>1. ASSUME NEW p \in S
      PROVE  /\ p[1] \in Workers /\ p[2] \in 1 .. Len(samples[p[1]])
             /\ p = <<p[1], p[2]>> /\ samples[p[1]][p[2]].state \in states
  BY DEF SamplesWith
<1>2. ASSUME NEW w \in Workers, NEW i \in 1 .. Len(samples[w]), samples[w][i].state \in states
      PROVE  <<w, i>> \in S
  BY <1>2 DEF SamplesWith
<1>3. ASSUME NEW w \in Workers, NEW i \in 1 .. Len(samples[w])
      PROVE  samples[w][i].id \in Envelopes /\ promise[samples[w][i].id] = samples[w][i].state
  BY SamplesRan DEF OwnerInv, Owned, SamplesOwned, SampleOf
<1>4. f \in [S -> E]
  BY <1>1, <1>3 DEF FuturesWith
<1>5. \A p, q \in S : f[p] = f[q] => p = q
  <2> SUFFICES ASSUME NEW p \in S, NEW q \in S, f[p] = f[q] PROVE p = q
    OBVIOUS
  <2>1. samples[p[1]][p[2]].id = samples[q[1]][q[2]].id
    OBVIOUS
  <2>2. p[1] = q[1] /\ p[2] = q[2]
    BY <1>1, <2>1 DEF OwnerInv, Owned, SamplesOwned
  <2> QED
    BY <1>1, <2>2
<1>6. ASSUME NEW e \in E PROVE \E p \in S : f[p] = e
  <2>1. e \in Envelopes /\ promise[e] \in Ran /\ promise[e] \in states
    BY DEF FuturesWith
  <2>2. ~InHand(e, "record")
    BY QuietWhenJoined DEF OwnerInv, JoinedIsQuiet, InHand
  <2>3. PICK w \in Workers : \E i \in 1 .. Len(samples[w]) : samples[w][i].id = e
    BY <2>1, <2>2 DEF OwnerInv, Owned, NoneLost, HasSample, InSamples
  <2>4. PICK i \in 1 .. Len(samples[w]) : samples[w][i].id = e
    BY <2>3
  <2>5. <<w, i>> \in S
    BY <1>2, <1>3, <2>1, <2>4
  <2>6. f[<<w, i>>] = e
    BY <2>4, <2>5
  <2> QED
    BY <2>5, <2>6
<1>7. f \in Injection(S, E) /\ f \in Surjection(S, E)
  <2> HIDE DEF f, S, E
  <2> QED
    BY <1>4, <1>5, <1>6 DEF Injection, IsInjective, Surjection
<1>8. IsFiniteSet(E)
  BY NameAssumption, FS_Subset DEF FuturesWith
<1> QED
  BY <1>7, <1>8, FS_Injection

LEMMA SettledCount ==
  ASSUME OwnerInv, RejectedIsCounted, Settled
  PROVE  rejected = Cardinality(FuturesWith({"Rejected"}))
<1>1. \A c \in Callers : pc[c] \notin {"count", "discard"}
  BY DEF Settled, Threads
<1>2. Counted = FuturesWith({"Rejected"})
  BY <1>1 DEF Counted, IsCounted, FuturesWith
<1> QED
  BY <1>2, CountedIs

LEMMA FuturesFinite ==
  ASSUME NEW states
  PROVE  IsFiniteSet(FuturesWith(states)) /\ Cardinality(FuturesWith(states)) \in Nat
  BY NameAssumption, FS_Subset, FS_CardinalityType DEF FuturesWith

LEMMA DisjointCounts ==
  ASSUME NEW S, NEW T, S \cap T = {}
  PROVE  Cardinality(FuturesWith(S \cup T))
           = Cardinality(FuturesWith(S)) + Cardinality(FuturesWith(T))
<1> DEFINE A == FuturesWith(S)
           B == FuturesWith(T)
<1>1. FuturesWith(S \cup T) = A \cup B /\ A \cap B = {}
  BY DEF FuturesWith
<1>2. IsFiniteSet(A) /\ IsFiniteSet(B) /\ Cardinality(A) \in Nat /\ Cardinality(B) \in Nat
  BY FuturesFinite
<1> HIDE DEF A, B
<1>3. Cardinality(A \cup B) = Cardinality(A) + Cardinality(B) - Cardinality(A \cap B)
  BY <1>2, FS_Union
<1>4. Cardinality(A \cap B) = 0
  BY <1>1, FS_EmptySet
<1>5. Cardinality(A \cup B) = Cardinality(A) + Cardinality(B)
  BY <1>2, <1>3, <1>4
<1> QED
  BY <1>1, <1>5 DEF A, B

(* Each task is in one of the three counts. *)
LEMMA CountsPartition ==
  ASSUME OwnerInv, Settled
  PROVE  /\ Cardinality(FuturesWith(Ran)) + Cardinality(FuturesWith({"Rejected"}))
              = Cardinality({e \in Envelopes : promise[e] # "none"})
         /\ Cardinality(FuturesWith(Ran))
              = Cardinality(FuturesWith({"Succeeded"})) + Cardinality(FuturesWith({"Failed"}))
<1>1. {e \in Envelopes : promise[e] # "none"} = FuturesWith(Ran \cup {"Rejected"})
  BY NothingUnset DEF OwnerInv, Owned, ResultTypes, Ran, Terminal, FuturesWith
<1>2. /\ Ran \cap {"Rejected"} = {}
      /\ Ran = {"Succeeded"} \cup {"Failed"} /\ {"Succeeded"} \cap {"Failed"} = {}
  BY DEF Ran
<1>3. Cardinality(FuturesWith(Ran \cup {"Rejected"}))
        = Cardinality(FuturesWith(Ran)) + Cardinality(FuturesWith({"Rejected"}))
  BY <1>2, DisjointCounts
<1>4. Cardinality(FuturesWith({"Succeeded"} \cup {"Failed"}))
        = Cardinality(FuturesWith({"Succeeded"})) + Cardinality(FuturesWith({"Failed"}))
  BY <1>2, DisjointCounts
<1> QED
  BY <1>1, <1>2, <1>3, <1>4

(* The pool's steps other than the submission of a new task.  None of      *)
(* them makes a promise, or takes one back.                                *)
NoSubmission ==
  \/ UNCHANGED vars \/ Gone
  \/ Spawn \/ SpawnFails \/ Destroy
  \/ \E w \in Workers : WorkerStep(w)
  \/ \E c \in Callers : ShutdownCall(c) \/ ShutdownNowCall(c) \/ SummaryCall(c)
  \/ \E t \in Threads : CallStep(t)

LEMMA NoPromiseMade ==
  ASSUME OwnerInv, NoSubmission
  PROVE  \A e \in Envelopes : promise'[e] = "none" <=> promise[e] = "none"
<1> promise \in [Envelopes -> {"none", "unset"} \cup Terminal]
  BY DEF OwnerInv, Owned, ResultTypes
<1>1. CASE UNCHANGED vars \/ Gone \/ Spawn \/ SpawnFails \/ Destroy
  BY <1>1 DEF vars, Gone, Spawn, SpawnFails, Destroy
<1>2. ASSUME NEW w \in Workers, WorkerStep(w)
      PROVE  \A e \in Envelopes : promise'[e] = "none" <=> promise[e] = "none"
  <2>1. CASE WorkerRun(w)
    <3>1. hold[w].id \in Envelopes /\ promise[hold[w].id] = "unset"
      BY <2>1 DEF WorkerRun, OwnerInv, Owned, HoldOwned, SampleOf
    <3> QED
      BY <2>1, <3>1 DEF WorkerRun, Settle
  <2>2. CASE WorkerPop(w) \/ WorkerExit(w)
    BY <2>2 DEF WorkerPop, Took, WorkerExit, Left
  <2>3. CASE WorkerRecord(w)
    BY <2>3, RecordSettled
  <2> QED
    BY <1>2, <2>1, <2>2, <2>3 DEF WorkerStep
<1>3. ASSUME NEW c \in Callers, ShutdownCall(c) \/ ShutdownNowCall(c) \/ SummaryCall(c)
      PROVE  promise' = promise
  BY <1>3 DEF ShutdownCall, ShutdownNowCall, SummaryCall
<1>4. ASSUME NEW t \in Threads, QueueStep(t) \/ SummaryStep(t)
      PROVE  promise' = promise
  BY <1>4 DEF QueueStep, SubmitAccept, Accepted, SubmitRefuse, Refused, Close, Closed,
     CloseAndDrain, Drained, SummaryStep, CollectCheck, CollectThrows, CollectMerge,
     RejectedCount, SummaryReturn, SummaryEnds
<1>5. ASSUME NEW t \in Threads, LocalStep(t)
      PROVE  \A e \in Envelopes : promise'[e] = "none" <=> promise[e] = "none"
  <2>1. CASE SubmitReject(t)
    BY <2>1, RejectSettles
  <2>2. CASE RejectNext(t)
    BY <2>2, NextToReject
  <2>3. CASE SubmitCount(t)
    BY <2>3, CountSettled
  <2>4. CASE JoinAgain(t) \/ JoinDone(t)
    BY <2>4, ReturnSettled
  <2>5. CASE CountDiscarded(t) \/ JoinStart(t) \/ JoinWorker(t)
    BY <2>5 DEF CountDiscarded, JoinStart, JoinWorker
  <2> QED
    BY <1>5, <2>1, <2>2, <2>3, <2>4, <2>5 DEF LocalStep
<1> QED
  BY <1>1, <1>2, <1>3, <1>4, <1>5 DEF NoSubmission, CallStep

(* A summary made while no other call is in progress.  The samples and     *)
(* the count that it has read stay what they are: the workers are joined,  *)
(* and nobody else rejects anything.                                       *)
InSummary(c) == pc[c] \in {"summary", "merge"}

Alone == \A c \in Callers : InSummary(c) => \A t \in Threads \ {c} : pc[t] = "idle"

ReadsOf(c) ==
  /\ ~InSummary(c) => got[c] = None /\ cnt[c] = None
  /\ got[c] # None => joined /\ got[c] = samples
  /\ cnt[c] # None => cnt[c] = rejected

ReadsExact == \A c \in Callers : ReadsOf(c)

(* Outside a call of summary there is nothing to read. *)
LEMMA ReadsKept ==
  ASSUME ReadsExact, UNCHANGED <<got, cnt>>,
         \A c \in Callers : InSummary(c) => InSummary(c)',
         \A c \in Callers : InSummary(c) =>
           rejected' = rejected /\ (joined => joined' /\ samples' = samples)
  PROVE  ReadsExact'
  BY DEF ReadsExact, ReadsOf

LEMMA StepReads ==
  ASSUME ShutdownInv, ReadTypes, Alone, ReadsExact, [Next]_vars
  PROVE  ReadsExact'
<1> Callers \subseteq Threads /\ Owner \in Threads /\ Owner \notin Callers
  BY NameAssumption DEF Threads
<1> USE DEF InSummary, Go, reading, workers, join, discard
<1>1. CASE UNCHANGED vars \/ Gone
  BY <1>1, ReadsKept DEF vars, Gone
<1>2. CASE Spawn \/ SpawnFails \/ Destroy
  <2>1. \A c \in Callers : pc'[c] = pc[c]
    BY <1>2 DEF Spawn, SpawnFails, Destroy, ShutdownInv, Types
  <2> QED
    BY <1>2, <2>1, ReadsKept DEF Spawn, SpawnFails, Destroy
<1>3. ASSUME NEW w \in Workers, WorkerStep(w) PROVE ReadsExact'
  <2>1. ~joined
    BY <1>3, QuietWhenJoined DEF JoinedIsQuiet, WorkerStep, WorkerPop, Took, WorkerRun,
       WorkerRecord, WorkerExit, Left
  <2> QED
    BY <1>3, <2>1, ReadsKept DEF WorkerStep, WorkerPop, Took, WorkerRun, WorkerRecord,
       WorkerExit, Left
<1>4. ASSUME NEW c \in Callers,
             SubmitCall(c) \/ ShutdownCall(c) \/ ShutdownNowCall(c) \/ SummaryCall(c)
      PROVE  ReadsExact'
  <2>1. /\ pc[c] = "idle" /\ \A d \in Callers \ {c} : pc'[d] = pc[d]
        /\ UNCHANGED <<got, cnt, rejected, samples, joined>>
    BY <1>4 DEF SubmitCall, SubmitEnvelope, ShutdownCall, ShutdownNowCall, SummaryCall,
       ShutdownInv, Types
  <2> QED
    BY <2>1, ReadsKept
<1>5. ASSUME NEW t \in Threads, QueueStep(t) \/ LocalStep(t) PROVE ReadsExact'
  <2>1. /\ pc[t] \in {"push", "reject", "count", "close", "drain", "discard", "join", "joining"}
        /\ UNCHANGED <<got, cnt>>
    BY <1>5 DEF QueueStep, LocalStep, SubmitAccept, Accepted, SubmitRefuse, Refused, Close,
       Closed, CloseAndDrain, Drained, SubmitReject, SubmitCount, RejectNext, CountDiscarded,
       JoinAgain, JoinStart, JoinWorker, JoinDone, Return
  <2>2. \A c \in Callers : ~InSummary(c)
    BY <2>1 DEF Alone
  <2> QED
    BY <2>1, <2>2, ReadsKept
<1>6. ASSUME NEW t \in Threads, SummaryStep(t) PROVE ReadsExact'
  <2>1. t \in Callers
    BY <1>6 DEF ShutdownInv, OwnerCalls, Threads, SummaryStep, CollectCheck, CollectThrows,
       CollectMerge, RejectedCount, SummaryReturn
  <2>2. /\ UNCHANGED <<samples, joined, rejected>>
        /\ \A c \in Callers \ {t} : pc'[c] = pc[c] /\ got'[c] = got[c] /\ cnt'[c] = cnt[c]
    BY <1>6 DEF ShutdownInv, Types, ReadTypes, SummaryStep, CollectCheck, CollectThrows,
       CollectMerge, RejectedCount, SummaryReturn, SummaryEnds
  <2>3. ReadsOf(t)'
    <3> USE <2>1, <2>2 DEF ReadsExact, ReadsOf, ShutdownInv, Types, ReadTypes
    <3>1. CASE CollectCheck(t)
      BY <3>1 DEF CollectCheck
    <3>2. CASE CollectThrows(t) \/ SummaryReturn(t)
      BY <3>2 DEF CollectThrows, SummaryReturn, SummaryEnds
    <3>3. CASE CollectMerge(t)
      BY <3>3 DEF CollectMerge, MergeAfterJoin
    <3>4. CASE RejectedCount(t)
      BY <3>4 DEF RejectedCount
    <3> QED
      BY <1>6, <3>1, <3>2, <3>3, <3>4 DEF SummaryStep
  <2> QED
    BY <2>2, <2>3 DEF ReadsExact, ReadsOf
<1> QED
  BY <1>1, <1>2, <1>3, <1>4, <1>5, <1>6 DEF Next, CallStep

LEMMA InitReads == Init => ReadsExact
  BY DEF Init, ReadsExact, ReadsOf, InSummary, Threads

(* What such a summary adds up to. *)
LEMMA ExactCounts ==
  ASSUME OwnerInv, RejectedIsCounted, Alone, ReadsExact,
         NEW c \in Callers, pc[c] = "summary", got[c] # None, cnt[c] # None
  PROVE  /\ got[c] = samples
         /\ cnt[c] = Cardinality(FuturesWith({"Rejected"}))
         /\ Total(c) = Cardinality({e \in Envelopes : promise[e] # "none"})
<1>1. joined /\ got[c] = samples /\ cnt[c] = rejected
  BY DEF ReadsExact, ReadsOf
<1>2. Settled
  BY <1>1 DEF Alone, InSummary, Settled
<1>3. UNION {{w} \X (1 .. Len(got[c][w])) : w \in Workers} = SamplesWith(Ran)
  <2>1. ASSUME NEW w \in Workers, NEW i \in 1 .. Len(samples[w])
        PROVE  samples[w][i].state \in Ran
    BY SamplesRan DEF OwnerInv, Owned, SampleOf
  <2>2. \A p \in UNION {{w} \X (1 .. Len(samples[w])) : w \in Workers} :
          samples[p[1]][p[2]].state \in Ran
    BY <2>1
  <2> QED
    BY <1>1, <2>2 DEF SamplesWith
<1>4. Cardinality(FuturesWith(Ran)) \in Nat /\ Cardinality(FuturesWith({"Rejected"})) \in Nat
  BY FuturesFinite
<1>5. Cardinality(SamplesWith(Ran)) = Cardinality(FuturesWith(Ran))
  BY <1>1, SamplesCount
<1>6. cnt[c] = Cardinality(FuturesWith({"Rejected"}))
  BY <1>1, <1>2, SettledCount
<1>7. Total(c) = Cardinality(FuturesWith({"Rejected"})) + Cardinality(FuturesWith(Ran))
  BY <1>3, <1>5, <1>6 DEF Total
<1> QED
  BY <1>1, <1>2, <1>4, <1>6, <1>7, CountsPartition
=============================================================================
