------------------------------- MODULE CliRun -------------------------------
(***************************************************************************)
(* main() and run() of src/app/main.cpp on top of the engine: main acts on *)
(* what parse_args made of the command line; run submits the tasks one by  *)
(* one, looks at g_interrupted between two submissions, drains or aborts,  *)
(* reports, and turns the report into an exit code; the engine is          *)
(* destroyed on the way out.  A SIGINT or SIGTERM may arrive at any moment *)
(* of run(), also while the main thread is blocked.                        *)
(***************************************************************************)
EXTENDS TaskEngine

CONSTANTS
  Main,              \* the thread that runs main()
  FailEvery          \* the values of --fail-every to consider, 0 for never

ASSUME MainAssumption == Callers = {Main} /\ FailEvery \subseteq Nat

VARIABLES
  action, options,   \* ParseResult: what parse_args made of the command line
  cli,               \* where main() and run() are
  flag,              \* g_interrupted
  submitted,         \* run()'s loop counter
  interrupted,       \* run()'s copy of the flag
  report,            \* the summary it printed
  code,              \* what it returns
  atSignal           \* history: what the signal found

parsed == <<action, options>>
cliVars == <<parsed, cli, flag, submitted, interrupted, report, code, atSignal>>
allVars == <<vars, nextId, cliVars>>

kExitSuccess == 0
kExitTaskFailure == 1
kExitUsage == 2

CliInit ==
  /\ EngineInit
  /\ \/ action = "Run" /\ options \in [tasks : 0 .. MaxTasks, fail_every : FailEvery]
     \/ action \in {"ShowHelp", "ShowVersion", "Fail"} /\ options = None
  /\ cli = "main"
  /\ flag = FALSE
  /\ submitted = 0
  /\ interrupted = FALSE
  /\ report = None
  /\ code = None
  /\ atSignal = None

(* make_task: every fail_every-th task throws, the others succeed. *)
Outcome(id) ==
  IF options.fail_every # 0 /\ id % options.fail_every = 0 THEN "Failed" ELSE "Succeeded"

\* Mutant of exit_code_for: only rejections make a run a failure.
exit_code_for_rejected(failed, rejects) ==
  IF rejects = 0 THEN kExitSuccess ELSE kExitTaskFailure

exit_code_for(failed, rejects) ==
  IF failed = 0 /\ rejects = 0 THEN kExitSuccess ELSE kExitTaskFailure

(* What is printed about a run, without the layout and the durations: the  *)
(* counts, how far an interrupted run had got, and whether there is a      *)
(* table of durations (there is, if some task ran).                        *)
print_outcome(summary, requested, stopped) ==
  [submitted |-> summary.total, succeeded |-> summary.succeeded,
   failed |-> summary.failed, rejected |-> summary.rejected,
   interrupted |-> IF stopped THEN <<summary.total, requested>> ELSE None,
   durations |-> summary.total > summary.rejected]

-----------------------------------------------------------------------------
(* main(): the switch on parsed.action. *)

ShowText ==
  /\ cli = "main" /\ action \in {"ShowHelp", "ShowVersion"}
  /\ cli' = "exited"
  /\ code' = kExitSuccess
  /\ UNCHANGED <<vars, nextId, parsed, flag, submitted, interrupted, report, atSignal>>

UsageError ==
  /\ cli = "main" /\ action = "Fail"
  /\ cli' = "exited"
  /\ code' = kExitUsage
  /\ UNCHANGED <<vars, nextId, parsed, flag, submitted, interrupted, report, atSignal>>

(* run() begins: from here on signals are handled, and the engine exists. *)
StartRun ==
  /\ cli = "main" /\ action = "Run"
  /\ cli' = "loop"
  /\ UNCHANGED <<vars, nextId, parsed, flag, submitted, interrupted, report, code,
                 atSignal>>

Running == cli \notin {"main", "exited"}

(* handle_interrupt, on whichever thread the signal is delivered to. *)
Signal ==
  /\ Running /\ ~flag
  /\ flag' = TRUE
  /\ atSignal' = [queued |-> queue # <<>>, count |-> submitted_count]
  /\ UNCHANGED <<vars, nextId, parsed, cli, submitted, interrupted, report, code>>

(* The engine's own steps: workers, and calls in progress. *)
EngineStep ==
  /\ Running
  /\ \/ Spawn \/ SpawnFails
     \/ \E w \in Workers :
          WorkerStep(w) /\ (wpc[w] = "run" => hold'[w].state = Outcome(hold[w].id))
     \/ \E t \in Threads : CallStep(t) /\ ~SummaryReturn(t)
  /\ UNCHANGED <<nextId, cliVars>>

(* The engine could not be constructed: main catches a std::exception. *)
RunThrows ==
  /\ cli = "loop" /\ life = "threw"
  /\ cli' = "exited"
  /\ code' = kExitTaskFailure
  /\ UNCHANGED <<vars, nextId, parsed, flag, submitted, interrupted, report, atSignal>>

\* Mutant of LoopCheck: the flag is looked at only before the first submission.
LoopCheckOnce ==
  /\ cli = "loop" /\ life = "open" /\ submitted < options.tasks
  /\ submitted = 0 => ~flag
  /\ cli' = "checked"
  /\ UNCHANGED <<vars, nextId, parsed, flag, submitted, interrupted, report, code,
                 atSignal>>

(* The loop condition and the load of g_interrupted... *)
LoopCheck ==
  /\ cli = "loop" /\ life = "open" /\ submitted < options.tasks
  /\ ~flag
  /\ cli' = "checked"
  /\ UNCHANGED <<vars, nextId, parsed, flag, submitted, interrupted, report, code,
                 atSignal>>

(* ... and the submission, which no longer depends on it. *)
LoopSubmit ==
  /\ cli = "checked"
  /\ EngineSubmit(Main)
  /\ cli' = "submitting"
  /\ UNCHANGED <<parsed, flag, submitted, interrupted, report, code, atSignal>>

(* make_task cannot allocate: the exception leaves run(), whose engine     *)
(* drains in its destructor, and is caught by main.                        *)
MakeTaskThrows ==
  /\ cli = "checked"
  /\ code' = kExitTaskFailure
  /\ cli' = "returning"
  /\ UNCHANGED <<vars, nextId, parsed, flag, submitted, interrupted, report, atSignal>>

SubmitReturned ==
  /\ cli = "submitting" /\ pc[Main] = "idle"
  /\ submitted' = submitted + 1
  /\ cli' = "loop"
  /\ UNCHANGED <<vars, nextId, parsed, flag, interrupted, report, code, atSignal>>

(* After the loop, or out of it by the break: abort or drain. *)
Stop ==
  /\ cli = "loop" /\ (submitted = options.tasks \/ flag)
  /\ interrupted' = flag
  /\ IF flag THEN ShutdownNowCall(Main) ELSE ShutdownCall(Main)
  /\ cli' = "stopping"
  /\ UNCHANGED <<nextId, parsed, flag, submitted, report, code, atSignal>>

Stopped ==
  /\ cli = "stopping" /\ pc[Main] = "idle"
  /\ SummaryCall(Main)
  /\ cli' = "summarising"
  /\ UNCHANGED <<nextId, parsed, flag, submitted, interrupted, report, code, atSignal>>

(* The report, and the value run() returns. *)
Report ==
  /\ cli = "summarising"
  /\ SummaryReturn(Main)
  /\ report' = print_outcome(Summary(Main), options.tasks, interrupted)
  /\ code' = IF interrupted THEN kExitTaskFailure
             ELSE exit_code_for(report'.failed, report'.rejected)
  /\ cli' = "returning"
  /\ UNCHANGED <<nextId, parsed, flag, submitted, interrupted, atSignal>>

Unwind ==
  /\ cli = "returning" /\ Destroy
  /\ cli' = "destroying"
  /\ UNCHANGED <<nextId, parsed, flag, submitted, interrupted, report, code, atSignal>>

Exit ==
  /\ cli = "destroying" /\ life = "destroyed"
  /\ cli' = "exited"
  /\ UNCHANGED <<vars, nextId, parsed, flag, submitted, interrupted, report, code, atSignal>>

MainStep ==
  \/ ShowText \/ UsageError \/ StartRun
  \/ RunThrows \/ LoopCheck \/ LoopSubmit \/ MakeTaskThrows \/ SubmitReturned
  \/ Stop \/ Stopped \/ Report \/ Unwind \/ Exit

Exited == cli = "exited" /\ UNCHANGED allVars

CliNext == Signal \/ EngineStep \/ MainStep \/ Exited

CliSpec == CliInit /\ [][CliNext]_allVars

(* Every thread keeps running and every task ends; no signal has to come. *)
CliFairness ==
  /\ WF_allVars(EngineStep /\ Spawn)
  /\ \A w \in Workers : WF_allVars(EngineStep /\ WorkerStep(w))
  /\ \A t \in Threads : WF_allVars(EngineStep /\ CallStep(t))
  /\ WF_allVars(MainStep)

CliFairSpec == CliSpec /\ CliFairness

-----------------------------------------------------------------------------
(* Properties *)

With(state) == Cardinality({e \in Envelopes : promise[e] = state})

(* The printed report is exact, interrupted or not: its counts are those   *)
(* of the futures, they partition the number of tasks submitted, durations *)
(* are shown if and only if something ran, and a run that abandoned its    *)
(* work says so, and after how many of the submissions asked for.          *)
ReportIsExact ==
  report # None =>
    /\ report.succeeded = With("Succeeded")
    /\ report.failed = With("Failed")
    /\ report.rejected = With("Rejected")
    /\ report.submitted = report.succeeded + report.failed + report.rejected
    /\ report.submitted = submitted /\ submitted = submitted_count
    /\ report.durations <=> With("Succeeded") + With("Failed") > 0
    /\ report.interrupted = IF aborted THEN <<submitted, options.tasks>> ELSE None
    /\ submitted < options.tasks => aborted

(* The three exit codes tell a script what happened: 0 only when nothing   *)
(* was asked for or all the tasks asked for ran and succeeded, 1 only when *)
(* the run was interrupted, ended in an exception without a report or lost *)
(* work, 2 only, and always, for a mistake on the command line, with       *)
(* nothing submitted.                                                      *)
ExitCodeTellsTheOutcome ==
  cli = "exited" =>
    /\ code = kExitSuccess /\ action = "Run" => With("Succeeded") = options.tasks
    /\ code = kExitTaskFailure =>
         interrupted \/ report = None \/ With("Failed") + With("Rejected") > 0
    /\ (code = kExitUsage) <=> (action = "Fail")
    /\ action # "Run" => submitted_count = 0 /\ code # kExitTaskFailure

(* Interruption is "noticed between submissions", with a latency "bounded  *)
(* by one task": at most one task is submitted after the signal, also when *)
(* it arrives between the load of the flag and the submission.             *)
AtMostOneMore == flag => submitted_count <= atSignal.count + 1

(* The process ends, however the signal, the full queue and a failing      *)
(* constructor fall together.                                              *)
RunEnds == <>(cli = "exited")

(* A signal that finds work still queued stops the run: that work is       *)
(* abandoned and the exit code is 1.                                       *)
SignalStopsTheRun ==
  cli = "exited" /\ flag /\ atSignal.queued => code = kExitTaskFailure
=============================================================================
