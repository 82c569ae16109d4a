----------------------------- MODULE CliProofs -----------------------------
(***************************************************************************)
(* Theorems about run() of the command line, for any number of workers and *)
(* tasks, any capacity, any values of --fail-every and a signal at any     *)
(* moment of the run.                                                      *)
(*                                                                         *)
(* The program uses the engine as a pool is meant to be used: one thread   *)
(* calls it, one call after the other.  So every step is one of            *)
(* ThreadPool, and the summary it prints is made while nobody else is in a *)
(* call.                                                                   *)
(***************************************************************************)
EXTENDS CliRun, FutureProofs

LEMMA CliStep == [CliNext]_allVars => [Next]_vars
<1> SUFFICES ASSUME [CliNext]_allVars PROVE [Next]_vars
  OBVIOUS
<1> Main \in Callers /\ Main \in Threads
  BY MainAssumption DEF Threads
<1>1. CASE UNCHANGED allVars \/ Exited \/ Signal
  BY <1>1 DEF Exited, Signal, allVars
<1>2. CASE EngineStep
  BY <1>2 DEF EngineStep, Next
<1>3. CASE \/ ShowText \/ UsageError \/ StartRun \/ RunThrows \/ LoopCheck
           \/ MakeTaskThrows \/ SubmitReturned \/ Exit
  BY <1>3 DEF ShowText, UsageError, StartRun, RunThrows, LoopCheck, MakeTaskThrows,
     SubmitReturned, Exit
<1>4. CASE LoopSubmit \/ Stop \/ Stopped \/ Report \/ Unwind
  BY <1>4 DEF LoopSubmit, EngineSubmit, SubmitCall, Stop, Stopped, Report, Unwind, Next,
     CallStep, SummaryStep
<1> QED
  BY <1>1, <1>2, <1>3, <1>4 DEF CliNext, MainStep

LEMMA CliIsAPool == CliSpec => Spec
  BY CliStep, PTL DEF CliSpec, CliInit, EngineInit, Spec

-----------------------------------------------------------------------------
(* The inductive invariant *)

IdsInOrder ==
  /\ nextId \in 1 .. MaxTasks + 1
  /\ \A e \in Envelopes : promise[e] # "none" <=> e < nextId

(* Which calls the main thread makes, and when. *)
MainIsAt ==
  /\ cli \in {"main", "loop", "checked", "submitting", "stopping", "summarising",
              "returning", "destroying", "exited"}
  /\ cli \in {"main", "loop", "checked", "returning", "destroying", "exited"} =>
       pc[Main] = "idle"
  /\ cli = "submitting" => pc[Main] \in {"push", "reject", "count", "idle"}
  /\ cli = "stopping" =>
       /\ pc[Main] \in {"close", "drain", "discard", "join", "joining", "idle"}
       /\ pc[Main] = "idle" => joined
  /\ cli = "summarising" => pc[Main] \in {"summary", "merge"} /\ joined

(* What was asked for; without a run nothing is submitted. *)
CommandLine ==
  \/ action = "Run" /\ options \in [tasks : 0 .. MaxTasks, fail_every : FailEvery]
  \/ action \in {"ShowHelp", "ShowVersion", "Fail"} /\ cli \in {"main", "exited"} /\ nextId = 1

(* The loop counter is the engine's count, but for a submission under way. *)
LoopCounts ==
  /\ submitted \in Nat
  /\ submitted_count = IF cli = "submitting" THEN submitted + 1 ELSE submitted
  /\ action = "Run" => submitted <= options.tasks
  /\ cli \in {"checked", "submitting"} => submitted < options.tasks

(* After the signal only a submission that was past the check is made. *)
Signalled ==
  /\ flag \in BOOLEAN
  /\ flag => /\ atSignal.count \in Nat
             /\ submitted_count <= atSignal.count + 1
             /\ cli = "checked" => submitted_count <= atSignal.count

(* A run that was interrupted, and no other, drains the queue. *)
Abandons ==
  /\ interrupted \in BOOLEAN
  /\ IF pc[Main] = "drain" THEN interrupted /\ ~aborted ELSE aborted <=> interrupted
  /\ cli \in {"main", "loop", "checked", "submitting"} => ~interrupted
  /\ cli \in {"stopping", "summarising"} /\ submitted < options.tasks => interrupted

(* A run ends with a report and the code that goes with it, when all is    *)
(* settled, or in an exception.                                            *)
ReportTells ==
  /\ report.succeeded = With("Succeeded")
  /\ report.failed = With("Failed")
  /\ report.rejected = With("Rejected")
  /\ report.submitted = report.succeeded + report.failed + report.rejected
  /\ report.submitted = submitted /\ submitted = submitted_count
  /\ report.durations <=> With("Succeeded") + With("Failed") > 0
  /\ report.interrupted = IF aborted THEN <<submitted, options.tasks>> ELSE None
  /\ submitted < options.tasks => aborted

CodeTells ==
  \/ code = kExitSuccess /\ With("Succeeded") = options.tasks
  \/ code = kExitTaskFailure /\ (interrupted \/ With("Failed") + With("Rejected") > 0)

Ending ==
  /\ cli \notin {"returning", "destroying", "exited"} => report = None
  /\ cli \in {"returning", "destroying", "exited"} /\ action = "Run" =>
       \/ code = kExitTaskFailure /\ report = None
       \/ joined /\ ReportTells /\ CodeTells
  /\ cli = "exited" /\ action # "Run" =>
       report = None /\ code = IF action = "Fail" THEN kExitUsage ELSE kExitSuccess

CliInv ==
  /\ IdsInOrder /\ ReadsExact
  /\ MainIsAt /\ CommandLine /\ LoopCounts /\ Signalled /\ Abandons /\ Ending

-----------------------------------------------------------------------------
(* The pool under the command line *)

LEMMA MainAlone == ShutdownInv /\ EndInv => Alone
<1> SUFFICES ASSUME ShutdownInv, EndInv, NEW c \in Callers, InSummary(c),
                    NEW t \in Threads \ {c}
             PROVE  pc[t] = "idle"
  BY DEF Alone
<1>1. t = Owner
  BY MainAssumption DEF Threads
<1>2. life = "open"
  BY DEF InSummary, ShutdownInv, Constructed, EndInv
<1> QED
  BY <1>1, <1>2 DEF ShutdownInv, OwnerCalls

LEMMA StepIds ==
  ASSUME OwnerInv, IdsInOrder, [CliNext]_allVars
  PROVE  IdsInOrder'
<1> Main \in Callers /\ Main \in Threads
  BY MainAssumption DEF Threads
<1>1. CASE EngineSubmit(Main)
  <2>1. /\ MaxTasks \in Nat /\ nextId \in 1 .. MaxTasks /\ nextId' = nextId + 1
        /\ promise' = [promise EXCEPT ![nextId] = "unset"]
    BY <1>1, IdAssumption DEF EngineSubmit, SubmitEnvelope
  <2>2. ASSUME NEW e \in Envelopes PROVE (promise[e] # "none" <=> e < nextId)'
    BY <2>1, IdAssumption DEF IdsInOrder, OwnerInv, Owned, ResultTypes
  <2> QED
    BY <2>1, <2>2 DEF IdsInOrder
<1>2. CASE NoSubmission /\ nextId' = nextId
  BY <1>2, NoPromiseMade DEF IdsInOrder
<1>3. CASE UNCHANGED allVars \/ Exited \/ Signal \/ EngineStep
  BY <1>2, <1>3 DEF Exited, Signal, EngineStep, allVars, NoSubmission
<1>4. CASE \/ ShowText \/ UsageError \/ StartRun \/ RunThrows \/ LoopCheck
           \/ MakeTaskThrows \/ SubmitReturned \/ Exit
  BY <1>2, <1>4 DEF ShowText, UsageError, StartRun, RunThrows, LoopCheck, MakeTaskThrows,
     SubmitReturned, Exit, NoSubmission
<1>5. CASE LoopSubmit \/ Stop \/ Stopped \/ Report \/ Unwind
  BY <1>1, <1>2, <1>5 DEF LoopSubmit, Stop, Stopped, Report, Unwind, NoSubmission, CallStep,
     SummaryStep
<1> QED
  BY <1>3, <1>4, <1>5 DEF CliNext, MainStep

(* How far a step of the engine takes the call that the main thread is in. *)
CallGoesOn ==
  /\ pc[Main] = "idle" => pc'[Main] = "idle"
  /\ pc[Main] \in {"push", "reject", "count"} => pc'[Main] \in {"push", "reject", "count", "idle"}
  /\ pc[Main] \in {"close", "drain", "discard", "join", "joining"} =>
       \/ pc'[Main] \in {"close", "drain", "discard", "join", "joining"}
       \/ pc'[Main] = "idle" /\ joined'
  /\ pc[Main] \in {"summary", "merge"} /\ joined => pc'[Main] \in {"summary", "merge"}

AbortGoesOn ==
  /\ joined => joined'
  /\ pc[Main] # "drain" => pc'[Main] # "drain" /\ aborted' = aborted
  /\ pc[Main] = "drain" => IF pc'[Main] = "drain" THEN aborted' = aborted ELSE aborted'

LEMMA EngineGoesOn ==
  ASSUME ShutdownInv, EngineStep
  PROVE  CallGoesOn /\ AbortGoesOn
<1> Main \in Callers /\ Main \in Threads /\ Owner \in Threads /\ Owner # Main
  BY MainAssumption, NameAssumption DEF Threads
<1> USE DEF ShutdownInv, Types, OwnerCalls, CallGoesOn, AbortGoesOn, Go, join
<1>1. CASE Spawn \/ SpawnFails
  BY <1>1 DEF Spawn, SpawnFails
<1>2. ASSUME NEW w \in Workers, WorkerStep(w) PROVE CallGoesOn /\ AbortGoesOn
  BY <1>2 DEF WorkerStep, WorkerPop, Took, WorkerRun, WorkerRecord, WorkerExit, Left
<1>3. ASSUME NEW t \in Threads, QueueStep(t) PROVE CallGoesOn /\ AbortGoesOn
  <2>1. CASE SubmitAccept(t) \/ SubmitRefuse(t)
    BY <2>1 DEF SubmitAccept, Accepted, SubmitRefuse, Refused
  <2>2. CASE Close(t)
    BY <2>2 DEF Close, Closed
  <2>3. CASE CloseAndDrain(t)
    <3>1. t = Main /\ pc' = [pc EXCEPT ![Main] = "discard"] /\ pc[Main] = "drain" /\ aborted'
          /\ joined' = joined
      BY <2>3, MainAssumption DEF CloseAndDrain, Drained, Threads
    <3> QED
      BY <3>1
  <2> QED
    BY <1>3, <2>1, <2>2, <2>3 DEF QueueStep
<1>4. ASSUME NEW t \in Threads, LocalStep(t) PROVE CallGoesOn /\ AbortGoesOn
  <2>1. CASE SubmitReject(t) \/ SubmitCount(t) \/ RejectNext(t) \/ CountDiscarded(t)
    BY <2>1 DEF SubmitReject, SubmitCount, RejectNext, CountDiscarded
  <2>2. CASE JoinAgain(t) \/ JoinStart(t) \/ JoinWorker(t) \/ JoinDone(t)
    BY <2>2 DEF JoinAgain, JoinStart, JoinWorker, JoinDone, Return
  <2> QED
    BY <1>4, <2>1, <2>2 DEF LocalStep
<1>5. ASSUME NEW t \in Threads, SummaryStep(t), ~SummaryReturn(t)
      PROVE  CallGoesOn /\ AbortGoesOn
  BY <1>5 DEF SummaryStep, CollectCheck, CollectThrows, CollectMerge, RejectedCount,
     SummaryEnds
<1> QED
  BY <1>1, <1>2, <1>3, <1>4, <1>5 DEF EngineStep, CallStep

(* Once the workers are joined and the main thread is in no call, what is  *)
(* left is the destruction of the engine: it gives no result.              *)
LEMMA ResultsAreFinal ==
  ASSUME OwnerInv, joined, pc[Main] = "idle", EngineStep
  PROVE  promise' = promise
<1>1. \A w \in Workers : ~WorkerStep(w)
  BY QuietWhenJoined DEF OwnerInv, JoinedIsQuiet, WorkerStep, WorkerPop, Took, WorkerRun,
     WorkerRecord, WorkerExit, Left
<1>2. CASE Spawn \/ SpawnFails
  BY <1>2 DEF Spawn, SpawnFails
<1>3. ASSUME NEW t \in Threads, CallStep(t) PROVE promise' = promise
  <2>1. CASE QueueStep(t) \/ SummaryStep(t) \/ CountDiscarded(t) \/ JoinStart(t) \/ JoinWorker(t)
    BY <2>1 DEF QueueStep, SubmitAccept, Accepted, SubmitRefuse, Refused, Close, Closed,
       CloseAndDrain, Drained, SummaryStep, CollectCheck, CollectThrows, CollectMerge,
       RejectedCount, SummaryReturn, SummaryEnds, CountDiscarded, JoinStart, JoinWorker
  <2>2. CASE JoinAgain(t) \/ JoinDone(t)
    BY <2>2, ReturnSettled
  <2>3. CASE SubmitCount(t)
    BY <2>3, CountSettled
  <2>4. ~SubmitReject(t) /\ ~RejectNext(t)
    BY MainAssumption DEF OwnerInv, ShutdownInv, OwnerCalls, Threads, SubmitReject, Go, RejectNext
  <2> QED
    BY <1>3, <2>1, <2>2, <2>3, <2>4 DEF CallStep, LocalStep
<1> QED
  BY <1>1, <1>2, <1>3 DEF EngineStep

-----------------------------------------------------------------------------
(* Every step keeps the invariant *)

(* The part of it that is about run() and not about the engine. *)
RunInv == MainIsAt /\ CommandLine /\ LoopCounts /\ Signalled /\ Abandons /\ Ending

LEMMA EngineRun ==
  ASSUME OwnerInv, RunInv, EngineStep
  PROVE  RunInv'
<1> USE DEF RunInv
<1>1. /\ CallGoesOn /\ AbortGoesOn
      /\ UNCHANGED <<nextId, action, options, cli, flag, submitted, interrupted, report, code,
                     atSignal>>
  BY EngineGoesOn DEF OwnerInv, EngineStep, cliVars, parsed
<1>2. MainIsAt'
  BY <1>1 DEF MainIsAt, CallGoesOn, AbortGoesOn
<1>3. CommandLine' /\ LoopCounts' /\ Signalled'
  BY <1>1 DEF CommandLine, LoopCounts, Signalled, submitted_count
<1>4. Abandons'
  BY <1>1 DEF Abandons, AbortGoesOn
<1>5. Ending'
  <2>1. CASE cli \in {"returning", "destroying", "exited"} /\ joined
    <3>1. pc[Main] = "idle" /\ promise' = promise /\ joined' /\ aborted' = aborted
      BY <1>1, <2>1, ResultsAreFinal DEF MainIsAt, AbortGoesOn
    <3>2. \A state : With(state)' = With(state)
      BY <3>1 DEF With
    <3>3. (ReportTells <=> ReportTells') /\ (CodeTells <=> CodeTells')
      BY <1>1, <3>1, <3>2 DEF ReportTells, CodeTells, submitted_count
    <3> QED
      BY <1>1, <3>1, <3>3 DEF Ending
  <2>2. CASE ~(cli \in {"returning", "destroying", "exited"} /\ joined)
    BY <1>1, <2>2 DEF Ending
  <2> QED
    BY <2>1, <2>2
<1> QED
  BY <1>2, <1>3, <1>4, <1>5

(* The steps that do not touch the engine. *)
LEMMA OwnStepRun ==
  ASSUME RunInv, IdsInOrder,
         \/ Signal \/ ShowText \/ UsageError \/ StartRun \/ RunThrows \/ LoopCheck
         \/ MakeTaskThrows \/ SubmitReturned \/ Exit
  PROVE  RunInv'
<1> USE DEF RunInv
<1>1. UNCHANGED <<nextId, pc, joined, promise, aborted, action, options, interrupted>>
  BY DEF Signal, ShowText, UsageError, StartRun, RunThrows, LoopCheck, MakeTaskThrows,
     SubmitReturned, Exit, vars, join, parsed
<1>2. submitted_count' = submitted_count /\ \A state : With(state)' = With(state)
  BY <1>1 DEF submitted_count, With
<1>3. submitted_count \in Nat
  BY IdAssumption DEF IdsInOrder, submitted_count
<1>4. UNCHANGED <<submitted, report>> =>
        (ReportTells <=> ReportTells') /\ (UNCHANGED code => (CodeTells <=> CodeTells'))
  BY <1>1, <1>2 DEF ReportTells, CodeTells
<1> USE DEF parsed, Ending, Abandons
<1>5. CASE Signal
  <2>1. /\ flag' /\ atSignal'.count = submitted_count /\ Running
        /\ UNCHANGED <<cli, submitted, report, code>>
    BY <1>5 DEF Signal
  <2>2. Signalled'
    BY <1>2, <1>3, <1>5, <2>1 DEF Signal, Signalled
  <2> QED
    BY <1>1, <1>2, <1>4, <2>1, <2>2 DEF MainIsAt, CommandLine, LoopCounts
<1>6. CASE ShowText \/ UsageError
  BY <1>1, <1>2, <1>6 DEF ShowText, UsageError, MainIsAt, CommandLine, LoopCounts, Signalled
<1>7. CASE StartRun
  BY <1>1, <1>2, <1>7 DEF StartRun, MainIsAt, CommandLine, LoopCounts, Signalled
<1>8. CASE RunThrows
  BY <1>1, <1>2, <1>8 DEF RunThrows, MainIsAt, CommandLine, LoopCounts, Signalled
<1>9. CASE LoopCheck
  BY <1>1, <1>2, <1>9 DEF LoopCheck, MainIsAt, CommandLine, LoopCounts, Signalled
<1>10. CASE MakeTaskThrows
  BY <1>1, <1>2, <1>10 DEF MakeTaskThrows, MainIsAt, CommandLine, LoopCounts, Signalled
<1>11. CASE SubmitReturned
  BY <1>1, <1>2, <1>11 DEF SubmitReturned, MainIsAt, CommandLine, LoopCounts, Signalled
<1>12. CASE Exit
  BY <1>1, <1>2, <1>4, <1>12 DEF Exit, MainIsAt, CommandLine, LoopCounts, Signalled
<1> QED
  BY <1>5, <1>6, <1>7, <1>8, <1>9, <1>10, <1>11, <1>12

(* The steps with which run() calls the engine, or a call returns. *)
LEMMA SubmitRun ==
  ASSUME ShutdownInv, RunInv, IdsInOrder, LoopSubmit
  PROVE  RunInv'
<1> USE DEF RunInv
<1> Main \in Threads
  BY MainAssumption DEF Threads
<1>1. /\ cli = "checked" /\ cli' = "submitting" /\ nextId' = nextId + 1 /\ nextId \in Nat
      /\ pc'[Main] = "push" /\ UNCHANGED <<joined, aborted>>
      /\ UNCHANGED <<action, options, flag, submitted, interrupted, report, code, atSignal>>
  BY IdAssumption DEF LoopSubmit, EngineSubmit, SubmitEnvelope, Go, parsed, join, IdsInOrder,
     ShutdownInv, Types
<1>2. submitted_count' = submitted_count + 1 /\ submitted_count \in Nat
  BY <1>1, IdAssumption DEF submitted_count, IdsInOrder
<1>3. action = "Run"
  BY <1>1 DEF CommandLine
<1>4. MainIsAt' /\ CommandLine'
  BY <1>1, <1>3 DEF MainIsAt, CommandLine
<1>5. LoopCounts'
  BY <1>1, <1>2 DEF LoopCounts
<1>6. Signalled'
  BY <1>1, <1>2 DEF Signalled
<1>7. Abandons' /\ Ending'
  BY <1>1, <1>3 DEF Abandons, Ending, MainIsAt
<1> QED
  BY <1>4, <1>5, <1>6, <1>7

LEMMA StopRun ==
  ASSUME ShutdownInv, RunInv, Stop \/ Stopped
  PROVE  RunInv'
<1> USE DEF RunInv
<1> Main \in Threads
  BY MainAssumption DEF Threads
<1>1. /\ UNCHANGED <<nextId, joined, aborted>>
      /\ UNCHANGED <<action, options, flag, submitted, report, code, atSignal>>
  BY DEF Stop, Stopped, ShutdownCall, ShutdownNowCall, SummaryCall, parsed, join
<1>2. submitted_count' = submitted_count
  BY <1>1 DEF submitted_count
<1>3. action = "Run" /\ options.tasks \in Nat
  BY IdAssumption DEF CommandLine, Stop, Stopped
<1>4. CASE Stop
  <2>1. /\ cli = "loop" /\ cli' = "stopping" /\ interrupted' = flag /\ ~aborted
        /\ pc'[Main] = IF flag THEN "drain" ELSE "close"
    BY <1>4 DEF Stop, ShutdownCall, ShutdownNowCall, Go, ShutdownInv, Types, Abandons, MainIsAt
  <2>2. MainIsAt' /\ CommandLine' /\ LoopCounts' /\ Signalled' /\ Ending'
    BY <1>1, <1>2, <1>3, <2>1 DEF MainIsAt, CommandLine, LoopCounts, Signalled, Ending
  <2>3. Abandons'
    BY <1>1, <1>3, <1>4, <2>1 DEF Abandons, Stop, Signalled, LoopCounts
  <2> QED
    BY <2>2, <2>3
<1>5. CASE Stopped
  <2>1. /\ cli = "stopping" /\ cli' = "summarising" /\ interrupted' = interrupted
        /\ pc[Main] = "idle" /\ pc'[Main] = "summary"
    BY <1>5 DEF Stopped, SummaryCall, Go, ShutdownInv, Types
  <2>2. MainIsAt' /\ CommandLine' /\ LoopCounts' /\ Signalled' /\ Ending'
    BY <1>1, <1>2, <1>3, <2>1 DEF MainIsAt, CommandLine, LoopCounts, Signalled, Ending
  <2>3. Abandons'
    BY <1>1, <1>3, <2>1 DEF Abandons
  <2> QED
    BY <2>2, <2>3
<1> QED
  BY <1>4, <1>5

LEMMA UnwindRun ==
  ASSUME ShutdownInv, RunInv, Unwind
  PROVE  RunInv'
<1> USE DEF RunInv
<1>1. /\ UNCHANGED <<nextId, joined, aborted, promise>>
      /\ UNCHANGED <<action, options, flag, submitted, interrupted, report, code, atSignal>>
      /\ cli = "returning" /\ cli' = "destroying" /\ pc'[Main] = pc[Main]
  BY MainAssumption, NameAssumption
     DEF Unwind, Destroy, Go, parsed, join, ShutdownInv, Types, Threads
<1>2. submitted_count' = submitted_count /\ \A state : With(state)' = With(state)
  BY <1>1 DEF submitted_count, With
<1>3. (ReportTells <=> ReportTells') /\ (CodeTells <=> CodeTells')
  BY <1>1, <1>2 DEF ReportTells, CodeTells
<1> QED
  BY <1>1, <1>2, <1>3 DEF MainIsAt, CommandLine, LoopCounts, Signalled, Abandons, Ending

(* The summary that is printed: nobody else is in a call, so it is exact. *)
LEMMA PrintedSummary ==
  ASSUME OwnerInv, EndInv, RejectedIsCounted, IdsInOrder, ReadsExact, SummaryReturn(Main)
  PROVE  /\ Summary(Main) = [total |-> submitted_count, succeeded |-> With("Succeeded"),
                             failed |-> With("Failed"), rejected |-> With("Rejected")]
         /\ submitted_count = With("Succeeded") + With("Failed") + With("Rejected")
         /\ \A state : With(state) \in Nat
<1> Main \in Callers
  BY MainAssumption
<1>1. Alone /\ pc[Main] = "summary" /\ got[Main] # None /\ cnt[Main] # None
  BY MainAlone DEF OwnerInv, SummaryReturn, Go
<1>2. /\ got[Main] = samples /\ joined
      /\ cnt[Main] = Cardinality(FuturesWith({"Rejected"}))
      /\ Total(Main) = Cardinality({e \in Envelopes : promise[e] # "none"})
  BY <1>1, ExactCounts DEF ReadsExact, ReadsOf
<1>3. \A state : With(state) = Cardinality(FuturesWith({state}))
  <2> SUFFICES ASSUME NEW state
               PROVE  {e \in Envelopes : promise[e] = state} = FuturesWith({state})
    BY DEF With
  <2> QED
    BY DEF FuturesWith
<1>4. ASSUME NEW state \in Ran
      PROVE  Cardinality(SamplesIn(Main, state)) = With(state)
  <2>1. SamplesIn(Main, state) = SamplesWith({state})
    BY <1>2 DEF SamplesIn, SamplesWith
  <2> QED
    BY <1>2, <1>3, <2>1, SamplesCount
<1>5. Total(Main) = submitted_count
  <2>1. {e \in Envelopes : promise[e] # "none"} = 1 .. nextId - 1
    BY IdAssumption DEF IdsInOrder
  <2>2. Cardinality(1 .. nextId - 1) = nextId - 1
    BY IdAssumption, FS_Interval DEF IdsInOrder
  <2> QED
    BY <1>2, <2>1, <2>2 DEF submitted_count
<1>6. Settled
  BY <1>1, <1>2 DEF Alone, InSummary, Settled
<1>7. \A state : With(state) \in Nat
  BY <1>3, FuturesFinite
<1>8. submitted_count = With("Succeeded") + With("Failed") + With("Rejected")
  BY <1>2, <1>3, <1>5, <1>6, <1>7, CountsPartition
<1> QED
  BY <1>2, <1>3, <1>4, <1>5, <1>7, <1>8 DEF Summary, Ran

LEMMA ReportRun ==
  ASSUME OwnerInv, EndInv, RejectedIsCounted, IdsInOrder, ReadsExact, RunInv, Report
  PROVE  RunInv'
<1> USE DEF RunInv
<1> Main \in Threads
  BY MainAssumption DEF Threads
<1>1. /\ SummaryReturn(Main) /\ cli = "summarising" /\ cli' = "returning"
      /\ pc[Main] = "summary" /\ pc'[Main] = "idle" /\ joined
      /\ UNCHANGED <<nextId, joined, aborted, promise>>
      /\ UNCHANGED <<action, options, flag, submitted, interrupted, atSignal>>
  BY DEF Report, SummaryReturn, SummaryEnds, Go, parsed, join, OwnerInv, ShutdownInv, Types,
     MainIsAt
<1>2. submitted_count' = submitted_count /\ \A state : With(state)' = With(state)
  BY <1>1 DEF submitted_count, With
<1>3. action = "Run" /\ options.tasks \in Nat
  BY <1>1, IdAssumption DEF CommandLine
<1>4. MainIsAt' /\ CommandLine' /\ LoopCounts' /\ Signalled' /\ Abandons'
  BY <1>1, <1>2, <1>3 DEF MainIsAt, CommandLine, LoopCounts, Signalled, Abandons
<1> DEFINE s == With("Succeeded")
           f == With("Failed")
           r == With("Rejected")
<1>5. /\ s \in Nat /\ f \in Nat /\ r \in Nat
      /\ submitted = submitted_count /\ submitted_count = s + f + r
      /\ report' = [submitted |-> submitted_count, succeeded |-> s, failed |-> f, rejected |-> r,
                    interrupted |->
                      IF interrupted THEN <<submitted_count, options.tasks>> ELSE None,
                    durations |-> submitted_count > r]
  BY <1>1, PrintedSummary DEF Report, print_outcome, LoopCounts
<1>6. code' = IF interrupted \/ f # 0 \/ r # 0 THEN kExitTaskFailure ELSE kExitSuccess
  BY <1>5 DEF Report, exit_code_for
<1>7. /\ aborted <=> interrupted
      /\ submitted < options.tasks => interrupted
      /\ submitted <= options.tasks /\ submitted \in Nat
  BY <1>1, <1>3 DEF Abandons, LoopCounts
<1> HIDE DEF s, f, r
<1>8. s + f + r > r <=> s + f > 0
  BY <1>5
<1>9. ReportTells'
  BY <1>1, <1>2, <1>5, <1>7, <1>8 DEF ReportTells, s, f, r
<1>10. CASE interrupted \/ f # 0 \/ r # 0
  <2>1. interrupted \/ f + r > 0
    BY <1>5, <1>10
  <2> QED
    BY <1>1, <1>2, <1>3, <1>4, <1>6, <1>9, <1>10, <2>1 DEF CodeTells, Ending, f, r
<1>11. CASE ~(interrupted \/ f # 0 \/ r # 0)
  <2>1. s = options.tasks
    BY <1>3, <1>5, <1>7, <1>11
  <2> QED
    BY <1>1, <1>2, <1>3, <1>4, <1>6, <1>9, <1>11, <2>1 DEF CodeTells, Ending, s
<1> QED
  BY <1>10, <1>11

LEMMA StepCli ==
  ASSUME OwnerInv, EndInv, RejectedIsCounted, ReadTypes, CliInv, [CliNext]_allVars
  PROVE  CliInv'
<1>1. IdsInOrder' /\ ReadsExact'
  BY StepIds, CliStep, MainAlone, StepReads DEF CliInv, OwnerInv
<1>2. RunInv
  BY DEF CliInv, RunInv
<1>3. CASE UNCHANGED allVars \/ Exited
  <2>1. UNCHANGED <<vars, nextId, action, options, cli, flag, submitted, interrupted, report, code,
                    atSignal>>
    BY <1>3 DEF Exited, allVars, cliVars, parsed
  <2>2. submitted_count' = submitted_count /\ \A state : With(state)' = With(state)
    BY <2>1 DEF vars, submitted_count, With
  <2>3. (ReportTells <=> ReportTells') /\ (CodeTells <=> CodeTells')
    BY <2>1, <2>2 DEF vars, ReportTells, CodeTells
  <2>4. RunInv'
    BY <1>2, <2>1, <2>2, <2>3 DEF vars, join, RunInv, MainIsAt, CommandLine, LoopCounts,
       Signalled, Abandons, Ending
  <2> QED
    BY <1>1, <2>4 DEF RunInv, CliInv
<1>4. CASE EngineStep
  BY <1>1, <1>2, <1>4, EngineRun DEF RunInv, CliInv
<1>5. CASE \/ Signal \/ ShowText \/ UsageError \/ StartRun \/ RunThrows \/ LoopCheck
           \/ MakeTaskThrows \/ SubmitReturned \/ Exit
  BY <1>1, <1>2, <1>5, OwnStepRun DEF RunInv, CliInv
<1>6. CASE LoopSubmit \/ Stop \/ Stopped \/ Unwind
  BY <1>1, <1>2, <1>6, SubmitRun, StopRun, UnwindRun DEF RunInv, CliInv, OwnerInv
<1>7. CASE Report
  BY <1>1, <1>2, <1>7, ReportRun DEF RunInv, CliInv
<1> QED
  BY <1>3, <1>4, <1>5, <1>6, <1>7 DEF CliNext, MainStep

LEMMA InitCli == CliInit => CliInv
<1> SUFFICES ASSUME CliInit PROVE CliInv
  OBVIOUS
<1> Main \in Threads
  BY MainAssumption DEF Threads
<1>1. ReadsExact
  BY InitReads DEF CliInit, EngineInit
<1>2. IdsInOrder
  BY IdAssumption DEF CliInit, EngineInit, Init, IdsInOrder
<1>3. MainIsAt /\ CommandLine /\ Signalled /\ Abandons /\ Ending
  BY DEF CliInit, EngineInit, Init, MainIsAt, CommandLine, Signalled, Abandons, Ending
<1>4. LoopCounts
  BY IdAssumption DEF CliInit, EngineInit, LoopCounts, submitted_count
<1> QED
  BY <1>1, <1>2, <1>3, <1>4 DEF CliInv

LEMMA CliInvariant == CliSpec => []CliInv
<1>1. /\ OwnerInv /\ EndInv /\ RejectedIsCounted /\ ReadTypes /\ CliInv /\ [CliNext]_allVars
      => CliInv'
  BY StepCli
<1> QED
  BY <1>1, InitCli, CliIsAPool, OwnerInvariant, EndInvariant, RejectionsAreCounted,
     ReadInvariant, PTL DEF CliSpec

-----------------------------------------------------------------------------
(* At most one task is submitted after the signal: the one whose check of  *)
(* the flag was already made.                                              *)
THEOREM SignalStopsSubmission == CliSpec => []AtMostOneMore
<1>1. CliInv => AtMostOneMore
  BY DEF CliInv, Signalled, AtMostOneMore
<1> QED
  BY <1>1, CliInvariant, PTL

(* The report that run() prints agrees with the futures and with the       *)
(* number of submissions, interrupted or not, and goes on doing so while   *)
(* the engine is destroyed.                                                *)
THEOREM PrintedReportIsExact == CliSpec => []ReportIsExact
<1>1. CliInv => ReportIsExact
  <2> SUFFICES ASSUME CliInv, report # None PROVE ReportTells
    BY DEF ReportIsExact, ReportTells
  <2> QED
    BY DEF CliInv, Ending, CommandLine
<1> QED
  BY <1>1, CliInvariant, PTL

(* The exit code: 0 for a run only if every task asked for succeeded, 1    *)
(* only if the run was interrupted, threw or lost work, 2 exactly for a    *)
(* mistake on the command line.                                            *)
THEOREM ExitCodeIsTrue == CliSpec => []ExitCodeTellsTheOutcome
<1>1. CliInv => ExitCodeTellsTheOutcome
  <2> SUFFICES ASSUME CliInv, cli = "exited"
               PROVE  /\ code = kExitSuccess /\ action = "Run" => With("Succeeded") = options.tasks
                      /\ code = kExitTaskFailure =>
                           interrupted \/ report = None \/ With("Failed") + With("Rejected") > 0
                      /\ (code = kExitUsage) <=> (action = "Fail")
                      /\ action # "Run" => submitted_count = 0 /\ code # kExitTaskFailure
    BY DEF ExitCodeTellsTheOutcome
  <2>1. CASE action = "Run"
    BY <2>1 DEF CliInv, Ending, CodeTells, kExitSuccess, kExitTaskFailure, kExitUsage
  <2>2. CASE action # "Run"
    BY <2>2 DEF CliInv, Ending, CommandLine, submitted_count, kExitSuccess, kExitTaskFailure,
       kExitUsage
  <2> QED
    BY <2>1, <2>2
<1> QED
  BY <1>1, CliInvariant, PTL
=============================================================================
