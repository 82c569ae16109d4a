---------------------------- MODULE TimedEngine ----------------------------
(***************************************************************************)
(* The engine with its clock: where the three instants of TaskTimings are  *)
(* read, and what a result and a sample carry of them.  The time stamps    *)
(* are taken on different threads, each in a step of its own between two   *)
(* steps of the pool, while the others go on and time passes.              *)
(*                                                                         *)
(* Several threads submit, sharing the counter of ids.  Of what a submit   *)
(* does before the push only the id and the stamp can be seen by others,   *)
(* and they are independent: one step.  A summary is asked for only while  *)
(* no other call is in progress; ThreadPool explores the other case.       *)
(***************************************************************************)
EXTENDS TaskEngine

CONSTANT MaxTime     \* how far the clock goes

ASSUME TimeAssumption == MaxTime \in Nat

VARIABLES
  clock,             \* steady_clock
  submitted,         \* per envelope: submitted_
  dequeued,          \* per worker: the argument of run, once it is evaluated
  finished,          \* per caller: the finished of shutdown_now
  timings            \* per envelope: the TaskTimings of its result

times == <<clock, submitted, dequeued, finished, timings>>
timedVars == <<vars, nextId, times>>

TimedInit ==
  /\ EngineInit
  /\ clock = 0
  /\ submitted = [e \in Envelopes |-> None]
  /\ dequeued = [w \in Workers |-> None]
  /\ finished = [t \in Threads |-> None]
  /\ timings = [e \in Envelopes |-> None]

(* steady_clock never goes back; it may stand still between two reads. *)
Tick ==
  /\ clock < MaxTime
  /\ clock' = clock + 1
  /\ UNCHANGED <<vars, nextId, submitted, dequeued, finished, timings>>

TaskTimings(s, d, f) == [submitted |-> s, dequeued |-> d, finished |-> f]

(* TaskResult::rejected: there is no execution, and no time spent in it. *)
RejectedTimings(s, f) == TaskTimings(s, f, f)

-----------------------------------------------------------------------------
(* The envelope is stamped when it is constructed, before the push. *)
Submit(c) ==
  /\ EngineSubmit(c)
  /\ submitted' = [submitted EXCEPT ![nextId] = clock]
  /\ UNCHANGED <<clock, dequeued, finished, timings>>

RejectRefused(c) ==
  /\ SubmitReject(c)
  /\ timings' = [timings EXCEPT ![env[c]] = RejectedTimings(submitted[env[c]], clock)]
  /\ UNCHANGED <<nextId, clock, submitted, dequeued, finished>>

\* Mutant of ReadDequeued: the time in the queue counts as execution.
ReadDequeuedAtSubmit(w) ==
  /\ wpc[w] = "run" /\ dequeued[w] = None
  /\ dequeued' = [dequeued EXCEPT ![w] = submitted[hold[w].id]]
  /\ UNCHANGED <<vars, nextId, clock, submitted, finished, timings>>

(* run(Clock::now()): the instant the worker has the envelope in hand. *)
ReadDequeued(w) ==
  /\ wpc[w] = "run" /\ dequeued[w] = None
  /\ dequeued' = [dequeued EXCEPT ![w] = clock]
  /\ UNCHANGED <<vars, nextId, clock, submitted, finished, timings>>

(* The task has run: the result, and the sample with it, get their times. *)
Run(w) ==
  /\ dequeued[w] # None
  /\ WorkerRun(w)
  /\ timings' = [timings EXCEPT ![hold[w].id] =
                   TaskTimings(submitted[hold[w].id], dequeued[w], clock)]
  /\ dequeued' = [dequeued EXCEPT ![w] = None]
  /\ UNCHANGED <<nextId, clock, submitted, finished>>

\* Mutant of ReadAbort: the instant may be taken before the drain.
ReadAbortEarly(c) ==
  /\ pc[c] \in {"drain", "discard"} /\ finished[c] = None
  /\ finished' = [finished EXCEPT ![c] = clock]
  /\ UNCHANGED <<vars, nextId, clock, submitted, dequeued, timings>>

(* shutdown_now reads the clock once, when the queue has been drained. *)
ReadAbort(c) ==
  /\ pc[c] = "discard" /\ finished[c] = None
  /\ finished' = [finished EXCEPT ![c] = clock]
  /\ UNCHANGED <<vars, nextId, clock, submitted, dequeued, timings>>

RejectDiscarded(c) ==
  /\ finished[c] # None
  /\ RejectNext(c)
  /\ LET e == Head(todo[c]) IN
       timings' = [timings EXCEPT ![e] = RejectedTimings(submitted[e], finished[c])]
  /\ UNCHANGED <<nextId, clock, submitted, dequeued, finished>>

DiscardEnds(c) ==
  /\ finished[c] # None
  /\ CountDiscarded(c)
  /\ finished' = [finished EXCEPT ![c] = None]
  /\ UNCHANGED <<nextId, clock, submitted, dequeued, timings>>

(* Everything else takes no time stamp. *)
Summarising == \E c \in Callers : pc[c] \in {"summary", "merge"}

Untimed ==
  /\ \/ Spawn \/ SpawnFails \/ Destroy
     \/ \E w \in Workers : WorkerPop(w) \/ WorkerRecord(w) \/ WorkerExit(w)
     \/ \E c \in Callers :
          /\ ~Summarising
          /\ \/ ShutdownCall(c) \/ ShutdownNowCall(c)
             \/ SummaryCall(c) /\ \A d \in Callers : pc[d] = "idle"
     \/ \E t \in Threads :
          \/ QueueStep(t) \/ SubmitCount(t) \/ SummaryStep(t)
          \/ JoinAgain(t) \/ JoinStart(t) \/ JoinWorker(t) \/ JoinDone(t)
     \/ Gone
  /\ UNCHANGED <<nextId, times>>

TimedNext ==
  \/ Tick \/ Untimed
  \/ \E w \in Workers : ReadDequeued(w) \/ Run(w)
  \/ \E c \in Callers :
       \/ ~Summarising /\ Submit(c)
       \/ RejectRefused(c) \/ ReadAbort(c) \/ RejectDiscarded(c) \/ DiscardEnds(c)

TimedSpec == TimedInit /\ [][TimedNext]_timedVars

-----------------------------------------------------------------------------
(* Properties *)

(* "A measured duration can never come out negative", although the three   *)
(* instants are read on two or three threads and a task may end in four    *)
(* ways: every result has its times, they are in order and not in the      *)
(* future, and a task that never ran has no execution time.                *)
TimingsOrdered ==
  \A e \in Envelopes :
    promise[e] \in Terminal =>
      /\ timings[e].submitted <= timings[e].dequeued
      /\ timings[e].dequeued <= timings[e].finished
      /\ timings[e].finished <= clock
      /\ promise[e] = "Rejected" => timings[e].dequeued = timings[e].finished

(* A worker runs one task at a time, and its samples say so: in each       *)
(* buffer an execution begins after the one recorded before it has ended.  *)
WindowsDisjoint ==
  \A w \in Workers : \A j \in 2 .. Len(samples[w]) :
    timings[samples[w][j - 1].id].finished <= timings[samples[w][j].id].dequeued

(* A summary taken when no other call is in progress is exact, whoever     *)
(* submitted and however the engine was stopped: its counts are those of   *)
(* the futures and the total is the number of ids handed out.              *)
With(state) == Cardinality({e \in Envelopes : promise[e] = state})

SummaryIsExact ==
  \A c \in Callers :
    pc[c] = "summary" /\ got[c] # None /\ cnt[c] # None =>
      Summary(c) = [total |-> submitted_count, succeeded |-> With("Succeeded"),
                    failed |-> With("Failed"), rejected |-> With("Rejected")]
=============================================================================
