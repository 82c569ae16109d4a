---------------------------- MODULE TimedProofs ----------------------------
(***************************************************************************)
(* Theorems about the time stamps and the summaries of TimedEngine, for    *)
(* any number of workers, callers and tasks and a clock that goes as far   *)
(* as it likes.                                                            *)
(*                                                                         *)
(* The engine with its clock is a pool (every step is one of ThreadPool or *)
(* leaves the pool alone), so that the ownership of the envelopes can be   *)
(* used here: who has an envelope in hand is the only one to stamp it, and *)
(* a result that was given is never stamped again.                         *)
(***************************************************************************)
EXTENDS TimedEngine, FutureProofs

LEMMA TimedStep == [TimedNext]_timedVars => [Next]_vars
<1> SUFFICES ASSUME [TimedNext]_timedVars PROVE [Next]_vars
  OBVIOUS
<1>1. CASE UNCHANGED timedVars \/ Tick
  BY <1>1 DEF timedVars, Tick
<1>2. CASE Untimed
  BY <1>2 DEF Untimed, Next, WorkerStep, CallStep, LocalStep
<1>3. ASSUME NEW w \in Workers, ReadDequeued(w) \/ Run(w) PROVE [Next]_vars
  BY <1>3 DEF ReadDequeued, Run, Next, WorkerStep
<1>4. ASSUME NEW c \in Callers,
             Submit(c) \/ RejectRefused(c) \/ ReadAbort(c) \/ RejectDiscarded(c) \/ DiscardEnds(c)
      PROVE  [Next]_vars
  <2>1. c \in Threads
    BY DEF Threads
  <2> QED
    BY <1>4, <2>1 DEF Submit, EngineSubmit, SubmitCall, RejectRefused, ReadAbort,
       RejectDiscarded, DiscardEnds, Next, CallStep, LocalStep
<1> QED
  BY <1>1, <1>2, <1>3, <1>4 DEF TimedNext

LEMMA TimedIsAPool == TimedSpec => Spec
  BY TimedStep, PTL DEF TimedSpec, TimedInit, EngineInit, Spec

LEMMA TimedOwned == TimedSpec => []OwnerInv
  BY TimedIsAPool, OwnerInvariant, PTL

-----------------------------------------------------------------------------
(* The inductive invariant *)

Times == [submitted : Nat, dequeued : Nat, finished : Nat]

TimeTypes ==
  /\ clock \in Nat
  /\ submitted \in [Envelopes -> Nat \cup {None}]
  /\ dequeued \in [Workers -> Nat \cup {None}]
  /\ finished \in [Threads -> Nat \cup {None}]
  /\ timings \in [Envelopes -> Times \cup {None}]

(* A submitted envelope has been stamped. *)
SubmitStamped ==
  \A e \in Envelopes : promise[e] # "none" => submitted[e] \in Nat /\ submitted[e] <= clock

(* A worker that has read the clock has done so after the submission, and  *)
(* after the end of everything it has recorded.                            *)
DequeueStamped ==
  \A w \in Workers : dequeued[w] # None =>
    /\ wpc[w] = "run" /\ dequeued[w] \in Nat /\ dequeued[w] <= clock
    /\ submitted[hold[w].id] <= dequeued[w]
    /\ \A i \in 1 .. Len(samples[w]) : timings[samples[w][i].id].finished <= dequeued[w]

(* The instant of a shutdown_now is later than the submission of all that  *)
(* it still has to reject.                                                 *)
AbortStamped ==
  \A t \in Threads : finished[t] # None =>
    /\ pc[t] = "discard" /\ finished[t] \in Nat /\ finished[t] <= clock
    /\ \A i \in 1 .. Len(todo[t]) : submitted[todo[t][i]] <= finished[t]

(* A result has its times, in order. *)
ResultStamped ==
  \A e \in Envelopes : promise[e] \in Terminal =>
    /\ timings[e] \in Times
    /\ timings[e].submitted <= timings[e].dequeued
    /\ timings[e].dequeued <= timings[e].finished
    /\ timings[e].finished <= clock
    /\ promise[e] = "Rejected" => timings[e].dequeued = timings[e].finished

(* The sample in a worker's hand begins after the recorded ones have ended. *)
HandAfterSamples ==
  \A w \in Workers : wpc[w] = "record" =>
    \A i \in 1 .. Len(samples[w]) :
      timings[samples[w][i].id].finished <= timings[hold[w].id].dequeued

TimedInv ==
  /\ TimeTypes /\ SubmitStamped /\ DequeueStamped /\ AbortStamped
  /\ ResultStamped /\ HandAfterSamples /\ WindowsDisjoint

(* What of the pool a step without a time stamp leaves alone: the          *)
(* promises, a worker that runs or has run a task, a shutdown_now that     *)
(* rejects.  Only the sample in hand is recorded.                          *)
RunningKept ==
  \A w \in Workers :
    /\ wpc[w] = "run" => wpc'[w] = "run" /\ hold'[w] = hold[w] /\ samples'[w] = samples[w]
    /\ wpc'[w] = "record" =>
         wpc[w] = "record" /\ hold'[w] = hold[w] /\ samples'[w] = samples[w]

DiscardKept ==
  \A t \in Threads : pc[t] = "discard" => pc'[t] = "discard" /\ todo'[t] = todo[t]

SamplesKept ==
  \A w \in Workers :
    \/ samples'[w] = samples[w]
    \/ wpc[w] = "record" /\ samples'[w] = Append(samples[w], hold[w])

UntimedEffect == promise' = promise /\ RunningKept /\ DiscardKept /\ SamplesKept

LEMMA UntimedWorker ==
  ASSUME OwnerInv, NEW w \in Workers, WorkerPop(w) \/ WorkerRecord(w) \/ WorkerExit(w)
  PROVE  UntimedEffect
<1> USE DEF OwnerInv, Owned, ResultTypes, ShutdownInv, Types, UntimedEffect, RunningKept,
            DiscardKept, SamplesKept, discard
<1>1. CASE WorkerPop(w)
  BY <1>1 DEF WorkerPop, Took
<1>2. CASE WorkerRecord(w)
  <2>1. promise' = promise
    BY <1>2, RecordSettled
  <2>2. /\ wpc[w] = "record" /\ wpc'[w] = "pop" /\ samples'[w] = Append(samples[w], hold[w])
        /\ \A v \in Workers \ {w} :
             wpc'[v] = wpc[v] /\ hold'[v] = hold[v] /\ samples'[v] = samples[v]
        /\ UNCHANGED <<pc, todo>>
    BY <1>2 DEF WorkerRecord
  <2> QED
    BY <2>1, <2>2
<1>3. CASE WorkerExit(w)
  BY <1>3 DEF WorkerExit, Left
<1> QED
  BY <1>1, <1>2, <1>3

LEMMA UntimedThread ==
  ASSUME OwnerInv, NEW t \in Threads,
         \/ QueueStep(t) \/ SubmitCount(t) \/ SummaryStep(t)
         \/ JoinAgain(t) \/ JoinStart(t) \/ JoinWorker(t) \/ JoinDone(t)
  PROVE  UntimedEffect
<1>1. UNCHANGED <<wpc, hold, samples>>
  BY DEF QueueStep, SubmitAccept, Accepted, SubmitRefuse, Refused, Close, Closed,
     CloseAndDrain, Drained, SubmitCount, SummaryStep, CollectCheck, CollectThrows,
     CollectMerge, RejectedCount, SummaryReturn, SummaryEnds, JoinAgain, JoinStart,
     JoinWorker, JoinDone, Return, workers
<1>2. promise' = promise
  <2>1. CASE SubmitCount(t)
    BY <2>1, CountSettled
  <2>2. CASE JoinAgain(t) \/ JoinDone(t)
    BY <2>2, ReturnSettled
  <2> QED
    BY <2>1, <2>2
       DEF QueueStep, SubmitAccept, Accepted, SubmitRefuse, Refused, Close, Closed,
       CloseAndDrain, Drained, SummaryStep, CollectCheck, CollectThrows,
       CollectMerge, RejectedCount, SummaryReturn, SummaryEnds, JoinStart, JoinWorker
<1>3. DiscardKept
  <2> USE DEF OwnerInv, Owned, ResultTypes, ShutdownInv, Types, DiscardKept, discard, Go
  <2>1. CASE QueueStep(t)
    BY <2>1 DEF QueueStep, SubmitAccept, Accepted, SubmitRefuse, Refused, Close, Closed,
       CloseAndDrain, Drained
  <2>2. CASE SubmitCount(t) \/ JoinAgain(t) \/ JoinStart(t) \/ JoinWorker(t) \/ JoinDone(t)
    BY <2>2 DEF SubmitCount, JoinAgain, JoinStart, JoinWorker, JoinDone, Return
  <2>3. CASE SummaryStep(t)
    BY <2>3 DEF SummaryStep, CollectCheck, CollectThrows, CollectMerge, RejectedCount,
       SummaryReturn, SummaryEnds
  <2> QED
    BY <2>1, <2>2, <2>3
<1> QED
  BY <1>1, <1>2, <1>3 DEF UntimedEffect, RunningKept, SamplesKept

LEMMA UntimedPool == OwnerInv /\ Untimed => UntimedEffect
<1> SUFFICES ASSUME OwnerInv, Untimed PROVE UntimedEffect
  OBVIOUS
<1> Owner \in Threads /\ Callers \subseteq Threads
  BY DEF Threads
<1>1. CASE Spawn
  BY <1>1 DEF Spawn, UntimedEffect, RunningKept, DiscardKept, SamplesKept, discard,
     OwnerInv, ShutdownInv, Types
<1>2. CASE SpawnFails \/ Destroy
  BY <1>2 DEF SpawnFails, Destroy, Go, UntimedEffect, RunningKept, DiscardKept,
     SamplesKept, discard, workers, OwnerInv, ShutdownInv, Types
<1>3. ASSUME NEW c \in Callers, ShutdownCall(c) \/ ShutdownNowCall(c) \/ SummaryCall(c)
      PROVE  UntimedEffect
  BY <1>3 DEF ShutdownCall, ShutdownNowCall, SummaryCall, Go, UntimedEffect, RunningKept,
     DiscardKept, SamplesKept, discard, workers, OwnerInv, ShutdownInv, Types
<1>4. CASE Gone
  BY <1>4 DEF Gone, vars, UntimedEffect, RunningKept, DiscardKept, SamplesKept, discard,
     workers
<1> QED
  BY <1>1, <1>2, <1>3, <1>4, UntimedWorker, UntimedThread DEF Untimed

-----------------------------------------------------------------------------
(* What is stamped, and by whom *)

(* What a worker runs, and what a shutdown_now has still to reject, has no *)
(* result; what a worker has recorded or is about to has one.              *)
LEMMA WhoHasAResult ==
  ASSUME OwnerInv
  PROVE  /\ \A w \in Workers : wpc[w] = "run" =>
              hold[w].id \in Envelopes /\ promise[hold[w].id] = "unset"
         /\ \A w \in Workers : wpc[w] = "record" =>
              hold[w].id \in Envelopes /\ promise[hold[w].id] \in Ran
         /\ \A w \in Workers : \A i \in 1 .. Len(samples[w]) :
              samples[w][i].id \in Envelopes /\ promise[samples[w][i].id] \in Ran
         /\ \A t \in Threads : \A i \in 1 .. Len(todo[t]) :
              todo[t][i] \in Envelopes /\ promise[todo[t][i]] = "unset"
<1> USE DEF OwnerInv, Owned
<1>1. \A w \in Workers : wpc[w] = "run" =>
        hold[w].id \in Envelopes /\ promise[hold[w].id] = "unset"
  BY DEF HoldOwned, SampleOf
<1>2. \A w \in Workers : wpc[w] = "record" =>
        hold[w].id \in Envelopes /\ promise[hold[w].id] \in Ran
  BY DEF HoldOwned, SampleOf
<1>3. \A w \in Workers : \A i \in 1 .. Len(samples[w]) :
        samples[w][i].id \in Envelopes /\ promise[samples[w][i].id] \in Ran
  BY SamplesRan DEF SampleOf
<1>4. ASSUME NEW t \in Threads, NEW i \in 1 .. Len(todo[t])
      PROVE  todo[t][i] \in Envelopes /\ promise[todo[t][i]] = "unset"
  <2>1. /\ todo[t] \in Seq(Envelopes) /\ batch[t] \in Seq(Envelopes) /\ BatchOf(t)
        /\ Len(todo[t]) \in Nat /\ Len(batch[t]) \in Nat /\ Len(todo[t]) <= Len(batch[t])
    BY DEF ResultTypes, BatchOwned, BatchOf
  <2>2. \A b, d \in Nat : d <= b =>
          \A k \in 1 .. d : (b - d) + k \in 1 .. b /\ ~((b - d) + k <= b - d)
    OBVIOUS
  <2>3. Done(t) + i \in 1 .. Len(batch[t]) /\ ~(Done(t) + i <= Done(t))
    BY <2>1, <2>2 DEF Done
  <2>4. todo[t][i] = batch[t][Done(t) + i]
    BY <2>1 DEF BatchOf
  <2>5. promise[batch[t][Done(t) + i]] = "unset"
    <3> DEFINE k == Done(t) + i
    <3> HIDE DEF k
    <3>1. k \in 1 .. Len(batch[t]) /\ ~(k <= Done(t)) => promise[batch[t][k]] = "unset"
      BY <2>1 DEF BatchOf
    <3> QED
      BY <2>3, <3>1 DEF k
  <2> QED
    BY <2>1, <2>4, <2>5
<1> QED
  BY <1>1, <1>2, <1>3, <1>4

(* A step that stamps nothing. *)
LEMMA UntimedInv ==
  ASSUME OwnerInv, TimedInv, UntimedEffect, UNCHANGED times
  PROVE  TimedInv'
<1> USE DEF TimedInv, times
<1>1. TimeTypes' /\ SubmitStamped' /\ ResultStamped'
  BY DEF UntimedEffect, TimeTypes, SubmitStamped, ResultStamped
<1>2. DequeueStamped'
  BY DEF UntimedEffect, RunningKept, DequeueStamped
<1>3. AbortStamped'
  BY DEF UntimedEffect, DiscardKept, AbortStamped
<1>4. HandAfterSamples'
  BY DEF UntimedEffect, RunningKept, HandAfterSamples
<1>5. WindowsDisjoint'
  <2> SUFFICES ASSUME NEW w \in Workers, NEW j \in 2 .. Len(samples'[w])
               PROVE  timings[samples'[w][j - 1].id].finished
                        <= timings[samples'[w][j].id].dequeued
    BY DEF WindowsDisjoint
  <2>1. samples[w] \in Seq(SampleOf(Ran)) /\ Len(samples[w]) \in Nat
    BY DEF OwnerInv, Owned, ResultTypes
  <2>2. CASE samples'[w] = samples[w]
    BY <2>2 DEF WindowsDisjoint
  <2>3. CASE wpc[w] = "record" /\ samples'[w] = Append(samples[w], hold[w])
    <3>1. /\ hold[w] \in SampleOf(Ran) /\ Len(samples'[w]) = Len(samples[w]) + 1
          /\ samples'[w][Len(samples[w]) + 1] = hold[w]
          /\ \A i \in 1 .. Len(samples[w]) : samples'[w][i] = samples[w][i]
      BY <2>1, <2>3 DEF OwnerInv, Owned, HoldOwned
    <3>2. CASE j = Len(samples[w]) + 1
      <4>1. j - 1 \in 1 .. Len(samples[w]) /\ samples'[w][j] = hold[w]
        BY <2>1, <3>1, <3>2
      <4>2. samples'[w][j - 1] = samples[w][j - 1]
        BY <3>1, <4>1
      <4> QED
        BY <2>3, <4>1, <4>2 DEF HandAfterSamples
    <3>3. CASE j # Len(samples[w]) + 1
      <4>1. /\ j \in 2 .. Len(samples[w])
            /\ j \in 1 .. Len(samples[w]) /\ j - 1 \in 1 .. Len(samples[w])
        BY <2>1, <3>1, <3>3
      <4> QED
        BY <3>1, <4>1 DEF WindowsDisjoint
    <3> QED
      BY <3>2, <3>3
  <2> QED
    BY <2>2, <2>3 DEF UntimedEffect, SamplesKept
<1> QED
  BY <1>1, <1>2, <1>3, <1>4, <1>5

(* Time passes. *)
LEMMA TickInv ==
  ASSUME TimedInv, Tick
  PROVE  TimedInv'
<1> USE DEF TimedInv
<1>1. /\ clock \in Nat /\ clock' = clock + 1
      /\ UNCHANGED <<promise, wpc, hold, samples, pc, todo, submitted, dequeued, finished, timings>>
  BY DEF Tick, TimeTypes, vars, workers, discard
<1>2. \A n \in Nat : n <= clock => n <= clock'
  BY <1>1
<1>3. TimeTypes' /\ SubmitStamped' /\ HandAfterSamples' /\ WindowsDisjoint'
  BY <1>1, <1>2 DEF TimeTypes, SubmitStamped, HandAfterSamples, WindowsDisjoint
<1>4. DequeueStamped'
  BY <1>1, <1>2 DEF DequeueStamped
<1>5. AbortStamped'
  BY <1>1, <1>2 DEF AbortStamped
<1>6. ResultStamped'
  <2> SUFFICES ASSUME NEW e \in Envelopes, promise[e] \in Terminal
               PROVE  timings[e].finished <= clock'
    BY <1>1 DEF ResultStamped
  <2>1. timings[e].finished \in Nat /\ timings[e].finished <= clock
    BY DEF ResultStamped, Times
  <2> QED
    BY <1>2, <2>1
<1> QED
  BY <1>3, <1>4, <1>5, <1>6

LEMMA ReadDequeuedInv ==
  ASSUME OwnerInv, TimedInv, NEW w \in Workers, ReadDequeued(w)
  PROVE  TimedInv'
<1> USE DEF TimedInv
<1>1. /\ wpc[w] = "run" /\ dequeued' = [dequeued EXCEPT ![w] = clock]
      /\ UNCHANGED <<promise, wpc, hold, samples, pc, todo, clock, submitted, finished, timings>>
  BY DEF ReadDequeued, vars, workers, discard
<1>2. clock \in Nat /\ dequeued'[w] = clock /\ \A v \in Workers \ {w} : dequeued'[v] = dequeued[v]
  BY <1>1 DEF TimeTypes
<1>3. /\ TimeTypes' /\ SubmitStamped' /\ AbortStamped' /\ ResultStamped' /\ HandAfterSamples'
      /\ WindowsDisjoint'
  BY <1>1, <1>2 DEF TimeTypes, SubmitStamped, AbortStamped, ResultStamped, HandAfterSamples,
     WindowsDisjoint
<1>4. submitted[hold[w].id] <= clock
  BY <1>1, WhoHasAResult DEF SubmitStamped
<1>5. \A i \in 1 .. Len(samples[w]) : timings[samples[w][i].id].finished <= clock
  BY WhoHasAResult DEF ResultStamped, Ran, Terminal
<1>6. DequeueStamped'
  BY <1>1, <1>2, <1>4, <1>5 DEF DequeueStamped
<1> QED
  BY <1>3, <1>6

LEMMA ReadAbortInv ==
  ASSUME OwnerInv, TimedInv, NEW c \in Threads, ReadAbort(c)
  PROVE  TimedInv'
<1> USE DEF TimedInv
<1>1. /\ pc[c] = "discard" /\ finished' = [finished EXCEPT ![c] = clock]
      /\ UNCHANGED <<promise, wpc, hold, samples, pc, todo, clock, submitted, dequeued, timings>>
  BY DEF ReadAbort, vars, workers, discard
<1>2. clock \in Nat /\ finished'[c] = clock /\ \A t \in Threads \ {c} : finished'[t] = finished[t]
  BY <1>1 DEF TimeTypes
<1>3. /\ TimeTypes' /\ SubmitStamped' /\ DequeueStamped' /\ ResultStamped' /\ HandAfterSamples'
      /\ WindowsDisjoint'
  BY <1>1, <1>2 DEF TimeTypes, SubmitStamped, DequeueStamped, ResultStamped, HandAfterSamples,
     WindowsDisjoint
<1>4. \A i \in 1 .. Len(todo[c]) : submitted[todo[c][i]] <= clock
  BY WhoHasAResult DEF SubmitStamped
<1>5. AbortStamped'
  BY <1>1, <1>2, <1>4 DEF AbortStamped
<1> QED
  BY <1>3, <1>5

LEMMA SubmitInv ==
  ASSUME OwnerInv, TimedInv, NEW c \in Callers, Submit(c)
  PROVE  TimedInv'
<1> USE DEF TimedInv
<1> c \in Threads
  BY DEF Threads
<1>1. PICK e \in Envelopes :
        /\ e = nextId /\ promise[e] = "none" /\ promise' = [promise EXCEPT ![e] = "unset"]
        /\ submitted' = [submitted EXCEPT ![e] = clock]
        /\ pc[c] = "idle" /\ pc' = [pc EXCEPT ![c] = "push"]
        /\ UNCHANGED <<wpc, hold, samples, todo, clock, dequeued, finished, timings>>
  BY DEF Submit, EngineSubmit, SubmitEnvelope, Go, workers, discard
<1>2. /\ clock \in Nat /\ submitted'[e] = clock /\ promise'[e] = "unset"
      /\ \A f \in Envelopes \ {e} : submitted'[f] = submitted[f] /\ promise'[f] = promise[f]
      /\ \A t \in Threads : pc[t] = "discard" => pc'[t] = "discard"
  BY <1>1 DEF TimeTypes, OwnerInv, Owned, ResultTypes, ShutdownInv, Types
<1>3. TimeTypes' /\ SubmitStamped' /\ HandAfterSamples' /\ WindowsDisjoint'
  BY <1>1, <1>2 DEF TimeTypes, SubmitStamped, HandAfterSamples, WindowsDisjoint
<1>4. ResultStamped'
  BY <1>1, <1>2 DEF ResultStamped, Terminal
<1>5. DequeueStamped'
  BY <1>1, <1>2, WhoHasAResult DEF DequeueStamped
<1>6. AbortStamped'
  BY <1>1, <1>2, WhoHasAResult DEF AbortStamped
<1> QED
  BY <1>3, <1>4, <1>5, <1>6

(* A result is given: the envelope's times are set, and nobody else's. *)
Gives(e, outcome, x) ==
  /\ promise' = [promise EXCEPT ![e] = outcome]
  /\ timings' = [timings EXCEPT ![e] = x]
  /\ UNCHANGED <<clock, submitted>>

LEMMA GivesResult ==
  ASSUME OwnerInv, TimedInv, NEW e \in Envelopes, promise[e] = "unset",
         NEW outcome \in Terminal, NEW x \in Times,
         x.submitted <= x.dequeued, x.dequeued <= x.finished, x.finished <= clock,
         outcome = "Rejected" => x.dequeued = x.finished,
         Gives(e, outcome, x)
  PROVE  /\ timings' \in [Envelopes -> Times \cup {None}]
         /\ timings'[e] = x
         /\ SubmitStamped' /\ ResultStamped'
         /\ \A f \in Envelopes : promise[f] \in Ran => timings'[f] = timings[f]
<1> USE DEF TimedInv
<1>1. /\ promise'[e] = outcome /\ timings'[e] = x
      /\ \A f \in Envelopes \ {e} : promise'[f] = promise[f] /\ timings'[f] = timings[f]
  BY DEF Gives, OwnerInv, Owned, ResultTypes, TimeTypes
<1>2. timings' \in [Envelopes -> Times \cup {None}]
  BY DEF Gives, TimeTypes
<1>3. SubmitStamped'
  BY <1>1 DEF Gives, SubmitStamped
<1>4. ResultStamped'
  <2> SUFFICES ASSUME NEW f \in Envelopes, promise'[f] \in Terminal
               PROVE  /\ timings'[f] \in Times
                      /\ timings'[f].submitted <= timings'[f].dequeued
                      /\ timings'[f].dequeued <= timings'[f].finished
                      /\ timings'[f].finished <= clock
                      /\ promise'[f] = "Rejected" => timings'[f].dequeued = timings'[f].finished
    BY DEF Gives, ResultStamped
  <2>1. CASE f = e
    BY <1>1, <2>1
  <2>2. CASE f # e
    BY <1>1, <2>2 DEF ResultStamped
  <2> QED
    BY <2>1, <2>2
<1> QED
  BY <1>1, <1>2, <1>3, <1>4 DEF Ran

LEMMA RunInv ==
  ASSUME OwnerInv, TimedInv, NEW w \in Workers, Run(w)
  PROVE  TimedInv'
<1> USE DEF TimedInv
<1>1. PICK e \in Envelopes : e = hold[w].id /\ promise[e] = "unset" /\ wpc[w] = "run"
  BY WhoHasAResult DEF Run, WorkerRun
<1>2. PICK outcome \in Ran :
        /\ promise' = [promise EXCEPT ![e] = outcome]
        /\ hold' = [hold EXCEPT ![w] = [id |-> e, state |-> outcome]]
  BY <1>1, SettleUnset DEF Run, WorkerRun, Ran, OwnerInv, Owned
<1>3. /\ wpc' = [wpc EXCEPT ![w] = "record"]
      /\ dequeued' = [dequeued EXCEPT ![w] = None]
      /\ timings' = [timings EXCEPT ![e] = TaskTimings(submitted[e], dequeued[w], clock)]
      /\ dequeued[w] # None
      /\ UNCHANGED <<samples, pc, todo, clock, submitted, finished>>
  BY <1>1 DEF Run, WorkerRun, discard
<1>4. PICK x \in Times : x = TaskTimings(submitted[e], dequeued[w], clock)
  BY <1>1, <1>3 DEF TaskTimings, Times, SubmitStamped, DequeueStamped, TimeTypes
<1>5. /\ x.submitted <= x.dequeued /\ x.dequeued <= x.finished /\ x.finished <= clock
      /\ x.dequeued = dequeued[w]
  BY <1>1, <1>3, <1>4 DEF TaskTimings, DequeueStamped, TimeTypes
<1>6. outcome \in Terminal /\ outcome # "Rejected" /\ Gives(e, outcome, x)
  BY <1>2, <1>3, <1>4 DEF Ran, Terminal, Gives
<1>7. /\ timings' \in [Envelopes -> Times \cup {None}] /\ timings'[e] = x
      /\ SubmitStamped' /\ ResultStamped'
      /\ \A f \in Envelopes : promise[f] \in Ran => timings'[f] = timings[f]
  BY <1>1, <1>5, <1>6, GivesResult
<1>8. /\ wpc'[w] = "record" /\ hold'[w].id = e /\ dequeued'[w] = None
      /\ \A v \in Workers \ {w} :
           wpc'[v] = wpc[v] /\ hold'[v] = hold[v] /\ dequeued'[v] = dequeued[v]
  BY <1>2, <1>3 DEF OwnerInv, Owned, ResultTypes, ShutdownInv, Types, TimeTypes
<1>9. \A v \in Workers : \A i \in 1 .. Len(samples[v]) :
        timings'[samples[v][i].id] = timings[samples[v][i].id]
  BY <1>7, WhoHasAResult
<1>10. TimeTypes'
  BY <1>3, <1>7 DEF TimeTypes
<1>11. DequeueStamped'
  BY <1>3, <1>8, <1>9 DEF DequeueStamped
<1>12. AbortStamped'
  BY <1>3 DEF AbortStamped
<1>13. HandAfterSamples'
  <2> SUFFICES ASSUME NEW v \in Workers, wpc'[v] = "record", NEW i \in 1 .. Len(samples[v])
               PROVE  timings[samples[v][i].id].finished <= timings'[hold'[v].id].dequeued
    BY <1>3, <1>9 DEF HandAfterSamples
  <2>1. CASE v = w
    BY <1>3, <1>5, <1>7, <1>8, <2>1 DEF DequeueStamped
  <2>2. CASE v # w
    <3>1. wpc[v] = "record" /\ hold'[v] = hold[v]
      BY <1>8, <2>2
    <3>2. timings'[hold[v].id] = timings[hold[v].id]
      BY <1>7, <3>1, WhoHasAResult
    <3> QED
      BY <3>1, <3>2 DEF HandAfterSamples
  <2> QED
    BY <2>1, <2>2
<1>14. WindowsDisjoint'
  <2> SUFFICES ASSUME NEW v \in Workers, NEW j \in 2 .. Len(samples[v])
               PROVE  timings'[samples[v][j - 1].id].finished
                        <= timings'[samples[v][j].id].dequeued
    BY <1>3 DEF WindowsDisjoint
  <2>1. samples[v] \in Seq(SampleOf(Ran)) /\ Len(samples[v]) \in Nat
    BY DEF OwnerInv, Owned, ResultTypes
  <2>2. j \in 1 .. Len(samples[v]) /\ j - 1 \in 1 .. Len(samples[v])
    BY <2>1
  <2> QED
    BY <1>9, <2>2 DEF WindowsDisjoint
<1> QED
  BY <1>7, <1>10, <1>11, <1>12, <1>13, <1>14

(* A rejection, with its one instant at. *)
LEMMA RejectInv ==
  ASSUME OwnerInv, TimedInv, NEW c \in Threads, NEW e \in Envelopes, promise[e] = "unset",
         NEW at \in Nat, submitted[e] <= at, at <= clock,
         promise' = [promise EXCEPT ![e] = "Rejected"],
         timings' = [timings EXCEPT ![e] = RejectedTimings(submitted[e], at)],
         UNCHANGED <<wpc, hold, samples, clock, submitted, dequeued, finished>>,
         AbortStamped'
  PROVE  TimedInv'
<1> USE DEF TimedInv
<1>1. PICK x \in Times : x = RejectedTimings(submitted[e], at)
  BY DEF RejectedTimings, TaskTimings, Times, SubmitStamped
<1>2. /\ x.submitted <= x.dequeued /\ x.dequeued = x.finished
      /\ x.dequeued <= x.finished /\ x.finished <= clock
  BY <1>1 DEF RejectedTimings, TaskTimings
<1>3. "Rejected" \in Terminal /\ Gives(e, "Rejected", x)
  BY <1>1 DEF Terminal, Gives
<1>4. /\ timings' \in [Envelopes -> Times \cup {None}]
      /\ SubmitStamped' /\ ResultStamped'
      /\ \A f \in Envelopes : promise[f] \in Ran => timings'[f] = timings[f]
  BY <1>2, <1>3, GivesResult
<1>5. /\ \A v \in Workers : \A i \in 1 .. Len(samples[v]) :
           timings'[samples[v][i].id] = timings[samples[v][i].id]
      /\ \A v \in Workers : wpc[v] = "record" => timings'[hold[v].id] = timings[hold[v].id]
  BY <1>4, WhoHasAResult
<1>6. TimeTypes'
  BY <1>4 DEF TimeTypes
<1>7. DequeueStamped' /\ HandAfterSamples'
  BY <1>5 DEF DequeueStamped, HandAfterSamples
<1>8. WindowsDisjoint'
  <2> SUFFICES ASSUME NEW v \in Workers, NEW j \in 2 .. Len(samples[v])
               PROVE  timings'[samples[v][j - 1].id].finished
                        <= timings'[samples[v][j].id].dequeued
    BY DEF WindowsDisjoint
  <2>1. samples[v] \in Seq(SampleOf(Ran)) /\ Len(samples[v]) \in Nat
    BY DEF OwnerInv, Owned, ResultTypes
  <2>2. j \in 1 .. Len(samples[v]) /\ j - 1 \in 1 .. Len(samples[v])
    BY <2>1
  <2> QED
    BY <1>5, <2>2 DEF WindowsDisjoint
<1> QED
  BY <1>4, <1>6, <1>7, <1>8

LEMMA RejectRefusedInv ==
  ASSUME OwnerInv, TimedInv, NEW c \in Threads, RejectRefused(c)
  PROVE  TimedInv'
<1> USE DEF TimedInv
<1>1. PICK e \in Envelopes :
        /\ e = env[c] /\ promise[e] = "unset"
        /\ promise' = [promise EXCEPT ![e] = "Rejected"]
  BY RejectSettles DEF RejectRefused
<1>2. /\ timings' = [timings EXCEPT ![e] = RejectedTimings(submitted[e], clock)]
      /\ UNCHANGED <<wpc, hold, samples, todo, clock, submitted, dequeued, finished>>
      /\ pc[c] = "reject" /\ pc' = [pc EXCEPT ![c] = "count"]
  BY <1>1 DEF RejectRefused, SubmitReject, Go, workers, discard
<1>3. clock \in Nat /\ submitted[e] <= clock /\ clock <= clock
  BY <1>1 DEF TimeTypes, SubmitStamped
<1>4. AbortStamped'
  BY <1>2 DEF AbortStamped, OwnerInv, ShutdownInv, Types
<1> QED
  BY <1>1, <1>2, <1>3, <1>4, RejectInv

LEMMA RejectDiscardedInv ==
  ASSUME OwnerInv, TimedInv, NEW c \in Threads, RejectDiscarded(c)
  PROVE  TimedInv'
<1> USE DEF TimedInv
<1>1. PICK e \in Envelopes :
        /\ e = Head(todo[c]) /\ promise[e] = "unset"
        /\ promise' = [promise EXCEPT ![e] = "Rejected"]
  BY NextToReject DEF RejectDiscarded
<1>2. /\ timings' = [timings EXCEPT ![e] = RejectedTimings(submitted[e], finished[c])]
      /\ UNCHANGED <<wpc, hold, samples, pc, clock, submitted, dequeued, finished>>
      /\ finished[c] # None /\ todo[c] # <<>> /\ todo' = [todo EXCEPT ![c] = Tail(todo[c])]
  BY <1>1 DEF RejectDiscarded, RejectNext, workers
<1>3. /\ todo[c] \in Seq(Envelopes) /\ e = todo[c][1] /\ 1 \in 1 .. Len(todo[c])
      /\ \A i \in 1 .. Len(Tail(todo[c])) :
           i + 1 \in 1 .. Len(todo[c]) /\ Tail(todo[c])[i] = todo[c][i + 1]
  <2>1. todo[c] \in Seq(Envelopes)
    BY DEF OwnerInv, Owned, ResultTypes
  <2> QED
    BY <1>1, <1>2, <2>1, TailElements
<1>4. PICK at \in Nat : at = finished[c] /\ submitted[e] <= at /\ at <= clock
  BY <1>2, <1>3 DEF AbortStamped
<1>5. AbortStamped'
  <2>1. todo'[c] = Tail(todo[c]) /\ \A t \in Threads \ {c} : todo'[t] = todo[t]
    BY <1>2 DEF OwnerInv, Owned, ResultTypes
  <2> QED
    BY <1>2, <1>3, <2>1 DEF AbortStamped
<1> QED
  BY <1>1, <1>2, <1>4, <1>5, RejectInv

LEMMA DiscardEndsInv ==
  ASSUME OwnerInv, TimedInv, NEW c \in Threads, DiscardEnds(c)
  PROVE  TimedInv'
<1> USE DEF TimedInv
<1>1. /\ finished' = [finished EXCEPT ![c] = None] /\ pc' = [pc EXCEPT ![c] = "join"]
      /\ UNCHANGED <<promise, wpc, hold, samples, todo, clock, submitted, dequeued, timings>>
  BY DEF DiscardEnds, CountDiscarded, Go, workers, discard
<1>2. /\ finished'[c] = None
      /\ \A t \in Threads \ {c} : finished'[t] = finished[t] /\ pc'[t] = pc[t]
  BY <1>1 DEF TimeTypes, OwnerInv, ShutdownInv, Types
<1>3. /\ TimeTypes' /\ SubmitStamped' /\ DequeueStamped' /\ ResultStamped' /\ HandAfterSamples'
      /\ WindowsDisjoint'
  BY <1>1 DEF TimeTypes, SubmitStamped, DequeueStamped, ResultStamped, HandAfterSamples,
     WindowsDisjoint
<1>4. AbortStamped'
  BY <1>1, <1>2 DEF AbortStamped
<1> QED
  BY <1>3, <1>4

LEMMA StepTimed == OwnerInv /\ TimedInv /\ [TimedNext]_timedVars => TimedInv'
<1> SUFFICES ASSUME OwnerInv, TimedInv, [TimedNext]_timedVars PROVE TimedInv'
  OBVIOUS
<1> Callers \subseteq Threads
  BY DEF Threads
<1>1. CASE UNCHANGED timedVars
  <2>1. UntimedEffect /\ UNCHANGED times
    BY <1>1 DEF timedVars, vars, workers, discard, UntimedEffect, RunningKept, DiscardKept,
       SamplesKept
  <2> QED
    BY <2>1, UntimedInv
<1>2. CASE Untimed
  BY <1>2, UntimedPool, UntimedInv DEF Untimed
<1> QED
  BY <1>1, <1>2, TickInv, ReadDequeuedInv, RunInv, SubmitInv, RejectRefusedInv, ReadAbortInv,
     RejectDiscardedInv, DiscardEndsInv DEF TimedNext

LEMMA InitTimed == TimedInit => TimedInv
  BY DEF TimedInit, EngineInit, Init, TimedInv, TimeTypes, SubmitStamped, DequeueStamped,
     AbortStamped, ResultStamped, HandAfterSamples, WindowsDisjoint, Terminal

LEMMA TimedInvariant == TimedSpec => []TimedInv
  BY InitTimed, StepTimed, TimedOwned, PTL DEF TimedSpec

(* No measured duration is negative, on whichever threads its instants     *)
(* were read and however the task ended, and a task that never ran has no  *)
(* execution time.                                                         *)
THEOREM DurationsAreNotNegative == TimedSpec => []TimingsOrdered
<1>1. TimedInv => TimingsOrdered
  BY DEF TimedInv, ResultStamped, TimingsOrdered
<1> QED
  BY <1>1, TimedInvariant, PTL

(* The samples of a worker are of executions that do not overlap, in the   *)
(* order in which they are recorded.                                       *)
THEOREM WorkersRunOneAtATime == TimedSpec => []WindowsDisjoint
<1>1. TimedInv => WindowsDisjoint
  BY DEF TimedInv
<1> QED
  BY <1>1, TimedInvariant, PTL

-----------------------------------------------------------------------------
(* What a summary says.  It is asked for when no other call is in          *)
(* progress, and no call begins until it returns; ids are handed out in    *)
(* order.                                                                  *)

OneSummary == \A c, d \in Callers : InSummary(c) /\ d # c => pc[d] = "idle"

IdsInOrder ==
  /\ nextId \in 1 .. MaxTasks + 1
  /\ \A e \in Envelopes : promise[e] # "none" <=> e < nextId

SummaryInv == OneSummary /\ IdsInOrder /\ ReadsExact

(* Whoever calls, the owner does not: the pool is open. *)
LEMMA SummaryAlone == ShutdownInv /\ EndInv /\ OneSummary => Alone
<1> SUFFICES ASSUME ShutdownInv, EndInv, OneSummary,
                    NEW c \in Callers, InSummary(c), NEW t \in Threads \ {c}
             PROVE  pc[t] = "idle"
  BY DEF Alone
<1>1. CASE t \in Callers
  BY <1>1 DEF OneSummary
<1>2. CASE t = Owner
  <2>1. life = "open"
    BY DEF InSummary, ShutdownInv, Constructed, EndInv
  <2> QED
    BY <1>2, <2>1 DEF ShutdownInv, OwnerCalls
<1> QED
  BY <1>1, <1>2 DEF Threads

(* Nobody begins a call. *)
CallersStay ==
  \A c \in Callers :
    (pc[c] = "idle" => pc'[c] = "idle") /\ (InSummary(c)' => InSummary(c))

LEMMA OneSummaryStays == OneSummary /\ CallersStay => OneSummary'
  BY DEF OneSummary, CallersStay

LEMMA InCallStays ==
  ASSUME ShutdownInv, NEW t \in Threads, CallStep(t)
  PROVE  CallersStay
<1> Callers \subseteq Threads
  BY DEF Threads
<1> USE DEF ShutdownInv, Types, CallersStay, InSummary, Go
<1>1. CASE QueueStep(t)
  BY <1>1 DEF QueueStep, SubmitAccept, Accepted, SubmitRefuse, Refused, Close, Closed,
     CloseAndDrain, Drained
<1>2. CASE LocalStep(t)
  BY <1>2 DEF LocalStep, SubmitReject, SubmitCount, RejectNext, CountDiscarded, JoinAgain,
     JoinStart, JoinWorker, JoinDone, Return
<1>3. CASE SummaryStep(t)
  BY <1>3 DEF SummaryStep, CollectCheck, CollectThrows, CollectMerge, RejectedCount,
     SummaryReturn, SummaryEnds
<1> QED
  BY <1>1, <1>2, <1>3 DEF CallStep

LEMMA StepOneSummary ==
  ASSUME ShutdownInv, OneSummary, [TimedNext]_timedVars
  PROVE  OneSummary'
<1> Callers \subseteq Threads /\ Owner \in Threads /\ Owner \notin Callers
  BY NameAssumption DEF Threads
<1>1. CASE UNCHANGED vars \/ Gone \/ Spawn \/ SpawnFails \/ Destroy
  BY <1>1, OneSummaryStays DEF vars, Gone, Spawn, SpawnFails, Destroy, Go, CallersStay,
     InSummary, ShutdownInv, Types
<1>2. ASSUME NEW w \in Workers, WorkerStep(w) PROVE OneSummary'
  BY <1>2, OneSummaryStays DEF WorkerStep, WorkerPop, Took, WorkerRun, WorkerRecord,
     WorkerExit, Left, CallersStay, InSummary
<1>3. ASSUME NEW t \in Threads, CallStep(t) PROVE OneSummary'
  BY <1>3, InCallStays, OneSummaryStays
<1>4. ASSUME NEW c \in Callers, ~Summarising,
             Submit(c) \/ ShutdownCall(c) \/ ShutdownNowCall(c)
      PROVE  OneSummary'
  <2>1. \A d \in Callers : ~InSummary(d)'
    BY <1>4 DEF Submit, EngineSubmit, SubmitEnvelope, ShutdownCall, ShutdownNowCall, Go,
       Summarising, InSummary, ShutdownInv, Types
  <2> QED
    BY <2>1 DEF OneSummary
<1>5. ASSUME NEW c \in Callers, SummaryCall(c), \A d \in Callers : pc[d] = "idle"
      PROVE  OneSummary'
  BY <1>5 DEF SummaryCall, Go, OneSummary, InSummary, ShutdownInv, Types
<1> QED
  BY <1>1, <1>2, <1>3, <1>4, <1>5
     DEF TimedNext, timedVars, Tick, Untimed, ReadDequeued, Run, RejectRefused, ReadAbort,
     RejectDiscarded, DiscardEnds, WorkerStep, CallStep, LocalStep

LEMMA StepIds ==
  ASSUME OwnerInv, IdsInOrder, [TimedNext]_timedVars
  PROVE  IdsInOrder'
<1> Callers \subseteq Threads
  BY DEF Threads
<1>1. ASSUME NEW c \in Callers, EngineSubmit(c) PROVE IdsInOrder'
  <2>1. /\ MaxTasks \in Nat /\ nextId \in 1 .. MaxTasks /\ nextId' = nextId + 1
        /\ promise' = [promise EXCEPT ![nextId] = "unset"]
    BY <1>1, IdAssumption DEF EngineSubmit, SubmitEnvelope
  <2>2. ASSUME NEW e \in Envelopes PROVE (promise[e] # "none" <=> e < nextId)'
    BY <2>1, IdAssumption DEF IdsInOrder, OwnerInv, Owned, ResultTypes
  <2> QED
    BY <2>1, <2>2 DEF IdsInOrder
<1>2. CASE NoSubmission /\ nextId' = nextId
  BY <1>2, NoPromiseMade DEF IdsInOrder
<1> QED
  BY <1>1, <1>2
     DEF TimedNext, timedVars, Tick, Untimed, ReadDequeued, Run, Submit, RejectRefused,
     ReadAbort, RejectDiscarded, DiscardEnds, NoSubmission, WorkerStep, CallStep, LocalStep

LEMMA SummaryInvariant == TimedSpec => []SummaryInv
<1>1. TimedInit => SummaryInv
  BY IdAssumption DEF TimedInit, EngineInit, Init, SummaryInv, OneSummary, IdsInOrder,
     ReadsExact, ReadsOf, InSummary, Threads
<1>2. /\ OwnerInv /\ EndInv /\ ReadTypes /\ SummaryInv /\ [TimedNext]_timedVars
      => SummaryInv'
  BY StepOneSummary, StepIds, TimedStep, SummaryAlone, StepReads DEF SummaryInv, OwnerInv
<1> QED
  BY <1>1, <1>2, TimedIsAPool, TimedOwned, EndInvariant, ReadInvariant, PTL DEF TimedSpec

(* A summary taken while no other call is in progress is exact: what it    *)
(* counts is what the futures say, and its total is the number of ids that *)
(* were handed out, whoever submitted and however the engine was stopped.  *)
THEOREM SummaryTellsTheFutures == TimedSpec => []SummaryIsExact
<1>1. OwnerInv /\ EndInv /\ RejectedIsCounted /\ SummaryInv => SummaryIsExact
  <2> SUFFICES ASSUME OwnerInv, EndInv, RejectedIsCounted, SummaryInv, NEW c \in Callers,
                      pc[c] = "summary", got[c] # None, cnt[c] # None
               PROVE  Summary(c) =
                        [total |-> submitted_count, succeeded |-> With("Succeeded"),
                         failed |-> With("Failed"), rejected |-> With("Rejected")]
    BY DEF SummaryIsExact
  <2>1. Alone /\ ReadsExact
    BY SummaryAlone DEF SummaryInv, OwnerInv
  <2>2. /\ got[c] = samples /\ joined
        /\ cnt[c] = Cardinality(FuturesWith({"Rejected"}))
        /\ Total(c) = Cardinality({e \in Envelopes : promise[e] # "none"})
    BY <2>1, ExactCounts DEF ReadsExact, ReadsOf
  <2>3. \A state : With(state) = Cardinality(FuturesWith({state}))
    <3> SUFFICES ASSUME NEW state
                 PROVE  {e \in Envelopes : promise[e] = state} = FuturesWith({state})
      BY DEF With
    <3> QED
      BY DEF FuturesWith
  <2>4. ASSUME NEW state \in Ran
        PROVE  Cardinality(SamplesIn(c, state)) = With(state)
    <3>1. SamplesIn(c, state) = SamplesWith({state})
      BY <2>2 DEF SamplesIn, SamplesWith
    <3> QED
      BY <2>2, <2>3, <3>1, SamplesCount
  <2>5. Total(c) = submitted_count
    <3>1. {e \in Envelopes : promise[e] # "none"} = 1 .. nextId - 1
      BY IdAssumption DEF SummaryInv, IdsInOrder
    <3>2. Cardinality(1 .. nextId - 1) = nextId - 1
      BY IdAssumption, FS_Interval DEF SummaryInv, IdsInOrder
    <3> QED
      BY <2>2, <3>1, <3>2 DEF submitted_count
  <2> QED
    BY <2>2, <2>3, <2>4, <2>5 DEF Summary, Ran
<1> QED
  BY <1>1, TimedIsAPool, TimedOwned, EndInvariant, RejectionsAreCounted, SummaryInvariant, PTL
=============================================================================
