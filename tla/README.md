# TLA+ specifications of the concurrent task engine

This directory models the C++ task engine of this repository: the blocking
queue, the thread pool with its envelopes, the engine in front of it, the run
summary, the option parser and the command-line run. TLC checks the models on
small instances; TLAPS proves the safety properties and the refinements of the
concurrent part for every number of threads, values, workers and tasks.

Paths below are relative to the repository's root (`include/taskengine` and
`src`).

## The system

| Component | State | Operations | Talks to |
|---|---|---|---|
| `BlockingQueue<T>` (`concurrency/blocking_queue.hpp`) | `mutex_`, `not_empty_`, `not_full_`, `items_`, `closed_`, `capacity_` | `push`, `pop`, `close`, `close_and_drain` | called by the pool and its workers |
| `TaskEnvelope` (`core/task_envelope.*`) | id, task, submission time, one promise | `get_future`, `run`, `reject` | fulfils the caller's future |
| `ThreadPool` (`concurrency/thread_pool.*`) | `queue_`, `samples_`, `rejected_`, `joined_` under `shutdown_mutex_`, `threads_` | constructor, destructor, `submit`, `shutdown`, `shutdown_now`, `collect_samples`, `rejected_count`, `worker_loop` | owns the queue and the workers |
| `TaskEngine` (`execution/task_engine.*`) | `next_id_`, the pool | `submit`, `shutdown`, `shutdown_now`, `summary`, `submitted_count` | delegates to the pool, calls `summarize` |
| Run summary (`metrics/run_summary.*`) | none | `summarize`, `nearest_rank_index`, `mean` | pure |
| Options (`cli/options.*`) | none | `parse_args`, `exit_code_for`, `default_worker_count` | pure |
| Application (`app/main.cpp`) | `g_interrupted` | `main`, `run`, the signal handler | drives the engine |
| `Task`, `ComputeTask`, `SleepTask`, benchmarks | none shared | `execute` | run by workers |

What is hard in this code:

* **Interleaving.** Producers, workers and any number of stopping threads meet
  at one mutex and two condition variables; notifications are sent after the
  unlock and mostly one at a time; wake-ups may be spurious.
* **Overlapping shutdowns.** Both modes and the destructor may run at once, and
  a summary may be asked for at any time.
* **Failure.** Tasks throw, threads cannot be started, allocations fail in the
  middle of a locked section.
* **Composition.** The pool is written as if a queue call were one step. It is
  many, and the queue is destroyed soon after its last one.
* **Time.** The three instants of a task are read on different threads, while
  others submit, drain and run.
* **A late signal.** It may arrive while the only thread that looks at the flag
  is blocked, between its look and the submission, or after its last look.
* **Exactly once.** Each promise has to be fulfilled once, on every path.
* **Boundaries.** Capacity, percentile ranks, empty runs, argument pairs.

`PROJECT.json` lists each of these at the line where it bites, with the
properties that watch it.

## Modules

```
Options   RunSummary      CliRun      TimedEngine        main.cpp; the clock
                              \         /   EXTEND
                              TaskEngine                 ids, summary counts
                                   |  EXTENDS
 TaskContract <-- implements -- ThreadPool <-- implements -- PoolOnQueue
                                   |  INSTANCE                  |  INSTANCE
                                 Channel                        |
                                   ^  EXTENDS                   |
 BoundedChannel <-- implements -- BlockingQueue <---------------+
```

* **`BlockingQueue`**: one action per critical section, wait and notification.
  A thread's `pc` says where it is; the waiters of a condition variable are the
  threads at its `..._wait` label. A locked section between two waits is one
  step, because nothing outside it can see the guarded data half changed.
  `PushBadAlloc` and `DrainBadAlloc` are `push_back` and `reserve` throwing
  (`AllocMayFail`); `pop` and `close` do not allocate. Each value is offered
  once (`fresh`), which makes the histories `accepted` and `taken` unambiguous.
  A thread may be a producer and a closer, as the pool's callers are; in the
  queue's own runs the threads are divided by what they call.
* **`Channel`, `BoundedChannel`**: the atomic effect of each queue operation,
  and the abstract specification built from them: a call takes effect in one
  step between its start and its return, a refusal only because the channel is
  stopped. `ImplementsChannel` is the refinement,
  and it is what entitles `ThreadPool` to use `Channel` as its `queue_`.
* **`ThreadPool`**: `life` follows constructor and destructor; workers start one
  by one inside the constructor and pop at once; `SpawnFails` is a thread that
  cannot be created. `submit` is the push, then `reject`, then the count, each a
  step; `shutdown_now` is the drain, one step per rejected envelope, the count,
  and the join. `join_workers` holds `shutdown_mutex_` from `JoinStart` to
  `JoinDone` and joins in order. A promise is `unset` until `Settle`; a second
  `Settle` would be `terminate` (both callers are `noexcept`), and `Drop` breaks
  a promise destroyed unset. `summary` reads `joined_`, then the buffers without
  the mutex, and the rejection counter before or after them: C++ leaves the
  order of the two arguments open (`EitherOrder`).
  The reads that change nothing (`worker_count`, `queued`, `is_shut_down`) are
  left out. Destroying the pool while a caller is inside it is a caller's error,
  so `Destroy` waits until nobody is.
* **`TaskContract`**: the lifecycle of `TaskState`, and "nothing starts after an
  abort", as an abstract specification. `HonoursContract` is the refinement.
* **`PoolOnQueue`**: `ThreadPool` and `BlockingQueue` as one system. What the
  pool does when a queue call takes effect (`Took`, `Left`, `Accepted`,
  `Refused`, `Closed`, `Drained`) is kept apart in `ThreadPool`; here it is
  conjoined with the action of `BlockingQueue` that has the effect, the start of
  a call with the queue's start, and locks, waits, notifications and spurious
  wake-ups are steps that leave the pool alone. What a queue call holds as
  argument, result or batch is what the pool's thread holds, so no state is kept
  twice. After the effect a thread is still inside the queue, to notify, and the
  pool's next step waits for it (`Outside`). Summaries do not touch the queue
  and are left to `ThreadPool`; allocation succeeds.
* **`TaskEngine`**: ids, and the counts of a summary.
* **`TimedEngine`**: the engine with a clock that may tick at any moment.
  `submitted` is read by the constructor of the envelope, `dequeued` in a step
  of its own after the pop, `finished` at the end of `run`; a refused envelope
  is stamped when it is rejected, and all discarded ones with one instant read
  after the drain. Several threads submit. A summary is taken only while no
  other call is in progress: the other case is `pool_summary_race`.
* **`CliRun`**: `main()` acts on the parsed command line (help, version, a usage
  error, or `run()`); `run()` goes step by step on the main thread, with a
  signal at any moment from the installation of the handlers to the exit. The
  look at the flag and the submission after it are two steps. The options vary
  over the initial states; a task fails as `make_task` decides, and `make_task`
  itself may throw, like the constructor of the engine. The `invalid_argument`
  of the engine cannot happen, since `parse_args` refuses what would cause it.
* **`RunSummary`, `Options`**: pure code, as operators; a small state machine
  supplies the inputs (samples one by one; the rounds of the parsing loop), and
  the properties compare the result with an independent definition. Command
  line tokens are abstract except for what `from_chars` answers about numbers.
  `std::sort` puts a value behind the smaller ones and behind the equal ones
  that came before it, and the sum is taken over the sorted values, round by
  round, as the loop does.
  `Options` includes the empty argument and a bare `--`, which the code takes
  for an unrecognised argument; the parser's decision for all kinds of bad
  argument is the same, only the message differs. `MCPureCode` puts the two
  behind one another as `main()` does; runs are recorded behind one command line
  only, since what is recorded does not depend on the options.

An operator introduced as "Mutant of X" is X with a plausible mistake in it. It
is not used by the model; it serves to see that the named property notices.

## Runs

| Run | Instance | States | Checks |
|---|---|---|---|
| `bq_safety` | 2 producers, 2 consumers, 2 closers, 3 values, capacity 2, failing allocations | 168,661 | `TypeOK`, `FifoConservation`, `WithinCapacity`, `EndIsFinal`, `NothingEntersClosed`, `NoLostItemWakeup`, `NoLostSpaceWakeup`, `NoSleeperWhenClosed`, `ImplementsChannel` |
| `bq_liveness` | 2 producers, 2 consumers, 1 closer, 2 values, capacity 1 | 39,170 | `PushReturns`, `StopReleasesAll`, `ConsumersFinish` |
| `pool_safety` | 2 workers, capacity 2, 2 callers, 3 tasks | 126,193 | `TypeOK`, `JoinedIsQuiet`, `SamplesMatchFutures`, `RejectedIsCounted`, `GoneIsClean`, `MergeIsStable`, `HonoursContract` |
| `stack` | 1 worker, capacity 1, 2 callers, 2 tasks, the queue in detail | 41,481 | `GoneIsUntouched`, `ImplementsPool`, `CallsReturn`, `FuturesResolve` |
| `engine_times` | 2 workers, capacity 2, 2 callers, 2 tasks, clock 0..2 | 2,092,691 | `TimingsOrdered`, `WindowsDisjoint`, `SummaryIsExact` |
| `cli_run` | 2 workers, capacity 1, up to 4 tasks, `--fail-every` 0 or 2 | 67,334 | `ReportIsExact`, `ExitCodeTellsTheOutcome`, `AtMostOneMore`, `RunEnds`, `ConstructorUnwinds` |
| `pure_code` | 4 arguments out of 17 tokens; clock 0..2, 3 arbitrary samples or 20 of falling latency, 1 rejection | 201,036 | `ParsesAsMeant`, `DistributionsAreRight`, `OrderDoesNotMatter`, `DistributionsAgree` |

Why the bounds are enough. Two threads of each kind and more values than
places are what a lost wake-up, a stolen value and two stops at once need
(liveness has one closer; `NoSleeperWhenClosed` watches two). The pool has more
tasks than places, so callers block; two callers overlap both shutdown modes and
a summary. The stack has one worker, because two workers meet at the queue in
the queue's own runs and at the join in `pool_safety`; its two callers fill a
queue of one, block, stop in both modes at once and are refused, with the owner's
destructor behind them. Three instants are what it takes for a submission, a
drain and a run to be told apart. Four tasks on a queue of one let the
main thread block with work queued, running and still to submit. Twenty
samples are the first length at which p95 is not the maximum. Four
arguments are two rounds of the parsing loop, so a value can be taken for an
option and an option given twice.

`ImplementsPool` is the fair specification of `ThreadPool`, so the refinement
carries its liveness over as well as its safety. It is checked in both
directions of interest: that the detailed pool takes no step the atomic one
could not, and that it does not stop where the atomic one has to go on. The
invariants of `pool_safety` and the theorems about `ThreadPool` therefore speak
about the pool on its real queue.

Symmetry is used in the safety runs only: over threads of one kind and values
in the queue, over callers and envelopes in the pool (runs with ids or liveness have none).
Deadlock is checked everywhere but in the two pure modules, whose machines stop
after the last input. A pool or process that is gone stutters (`Gone`,
`Exited`); a deadlock before that is an error.

### What the runs found

Five runs are expected to fail. Each checks one statement of the documentation, a
comment or a test that the code does not keep; `PROJECT.json` quotes it.

| Run | Statement | What happens |
|---|---|---|
| `bq_drain_bad_alloc` | `CloseReleasesAll` | `close_and_drain` throws from `reserve` with `closed_` set and nobody notified; a later `close` returns early, and a consumer blocked in `pop` sleeps for ever, so the destructor's join hangs. |
| `bq_push_bad_alloc` | `RoomIsUsed` | A producer woken for a free place throws from `push_back`; the wake-up is spent and another producer waits beside a queue with room. |
| `pool_summary_race` | `SummaryIsComplete` | While one thread is between draining and counting in `shutdown_now`, another completes `shutdown` and gets a summary without the drained tasks. |
| `cli_late_signal` | `SignalStopsTheRun` | A signal during the final drain is never looked at; the queued work runs and the exit code can be 0. |
| `options_help` | `HelpIsNeverAnError` | The parser returns at the first mistake and does not see a help flag behind it. |

`pool_summary_race` has the samples read first, so that the order of the two
arguments in `TaskEngine::summary` plays no part in it. With the count read first
(`EitherOrder`) a whole `shutdown_now` fits between the two reads and the summary
lacks what it rejected, although every rejection was counted by the time
`joined_` was checked. Without another call in progress the order does not
matter: `SummaryIsExact` and `ReportIsExact` are checked with both.

The unit test that asks for help over mistakes (`options_test.cpp`, lines 99 to
104) puts the help in front of the mistake, where the code does give it.
`ParsesAsMeant` says nothing about a line that asks for help behind its first
mistake or behind `--version`, except that it is not run; `HelpIsNeverAnError`
is the test's claim about mistakes. It leaves out a help flag right behind two
dashes, which may be meant as the value of that option.

A smaller inaccuracy shows in `cli_run`: when the signal comes between the last
submission and the copy of the flag, `run()` prints "interrupted before
submitting all tasks" (`main.cpp`, line 217) although all of them were. The
report's own line, "after N of M submissions", is right in every case
(`ReportIsExact`).

The first two need an allocation to fail. Without one the same holds:
`StopReleasesAll` in `bq_liveness` is the stronger form of the first, and
`PushReturns` covers the second. In `bq_safety` the history variable `threw`
separates the two cases.

## Fairness

* A thread inside a call keeps running (weak fairness of its next step), and a
  worker keeps running. The operating system schedules runnable threads.
* A thread that asks for `mutex_` again and again gets it (strong fairness of
  the lock actions of `BlockingQueue`): another thread may hold the mutex at any
  given moment. `std::mutex` gives no such guarantee on paper; without it any
  queue built on a mutex can starve a caller.
* A consumer that has not been given `nullopt` calls `pop` again: the loop of
  `worker_loop`.
* Tasks end. `WorkerRun` is one step; a task that never returns stops its worker
  by design.
* Nobody has to call `push`, `submit`, `close` or `shutdown`, no signal has to
  come, no thread creation or allocation has to fail, and no spurious wake-up
  has to happen.
* `ThreadPool` needs weak fairness only: there a queue operation is one step.
  `ImplementsPool` shows that the strong fairness of `mutex_` delivers it.

## Proofs

Every invariant, action property and refinement that a passing run checks is a
theorem, for every value of the constants; only liveness is left to TLC. The
proofs are laid out along the refinements: what is proved of the queue entitles
the pool to take a queue call for one step, and what is proved of the pool holds
of every system whose steps are steps of the pool.

```
 BlockingQueueProofs                              queue
 ThreadPoolProofs <- FutureProofs                 pool
                       ^   ^   ^
            StackProofs    |    CliProofs         EXTEND
                      TimedProofs
 SummaryProofs     OptionsProofs                  pure code
```

The assumptions are the named `ASSUME`s of the modules: a capacity and a number
of workers of at least one (the constructors throw otherwise), distinct names
for different threads, finitely many of them and of tasks, ids that number the
envelopes, one thread that runs `main()`. Each inductive invariant below was
checked by TLC on the constants of the run it belongs to before it was proved.

**The queue** (`BlockingQueueProofs`), with or without failing allocations:

* `TypeCorrect`: `TypeOK` is not inductive: that `push_back` queues a value and
  not a moved-from one depends on a thread inside `push` still holding its
  argument after it waited and was woken. `TypeInv` adds `ArgumentHeld`. Lock,
  wait, notify and wake steps share one lemma (`MovesType`): they change only
  `pc` and `mutex`, and move nobody into `push`.
* `FifoConserved`, `CapacityKept`, `EndReportedOnce`, from `QueueInv` on top of
  `TypeInv`. Only four actions change the contents or the histories;
  `EndIsFinal` survives `PushBack` because its guard excludes a closed queue.
* `ClosedIsFinal`: `Spec => NothingEntersClosed`, an action property.
* `QueueIsAChannel`: `Spec => ImplementsChannel`. Under the mapping of labels to
  phases a locked section is the effect of a call, the first step of a call its
  start, its last notification its return, and everything else a stutter.
* `SleepersAreWoken`, `ItemsAreNoticed`, `SpaceIsNoticed`: the three wake-up
  invariants, each inductive with `TypeInv` (`SleepInv`, `ItemInv`, `SpaceInv`).
  Nobody falls asleep at a closed queue, because the predicate of a wait is
  evaluated under the mutex, and whoever set `closed_` has both notifications
  before it. The other two compare a length with the number of threads at some
  labels. A step moves one thread, or two when one wakes another, and the
  lemmas about `At` say how that number changes with it.

**The pool** (`ThreadPoolProofs`, `FutureProofs`):

* `JoinedPoolIsQuiet`. `ShutdownInv` says why: a worker leaves its loop only when
  the queue is closed and empty (`WorkersAccounted`); one that has not left is
  still joinable; whoever joins has closed the queue first (`JoinAfterClose`);
  the owner's calls happen only while constructing or destroying (`OwnerCalls`),
  and a pool that is not fully constructed has no tasks (`Constructed`).
* `SamplesReadWithoutRace`: `Spec => MergeIsStable`, because a caller that is
  merging has seen `joined_` (`MergeAfterJoin`), `joined_` is never reset, and no
  worker is left to write.
* Exclusive ownership, `OwnerInv`, is what the C++ expresses by moving a
  `unique_ptr`: an envelope is in one place (the argument of a `submit`, the
  queue, a worker's hand, the batch of a `shutdown_now`, or no more than a
  sample), once (`OneOwner` and the uniqueness in each place); its promise is
  unset in just those places where somebody has still to set it; and no unset
  promise is without an owner (`NoneLost`). Every action is shown to hand an
  envelope on or to let it go settled. The futures follow from it:
* `SamplesAreTheFutures`, `GonePoolIsClean` (with `EndInv`: the destructor is
  alone, and a pool that is gone has been joined), and `PoolHonoursContract`,
  the refinement of `TaskContract`: only an unset promise is settled, and only
  by its owner.
* `RejectionsAreCounted`: the futures that `rejected_` should count (`Counted`)
  grow by one when `submit` counts and by the length of the batch when
  `shutdown_now` does, a batch having no envelope twice; no other step changes
  them. `PoolTypeCorrect` needs this for the bound of `rejected_`.

**The pool on its real queue** (`StackProofs`):

* `StackIsAPool`: `StackSpec => Spec` of `ThreadPool`, the safety part of
  `ImplementsPool`; `StackKeepsPromises` draws the conclusion for the contract
  and the counts.
* `QueueOutlivesItsCalls`: `GoneIsUntouched`, from `InsideInv`: who holds the
  mutex is inside a locked section, and a thread whose pool call is over, or
  that has left its loop, is outside the queue.

**The engine and the clock** (`TimedProofs`): every step of `TimedEngine` is one
of the pool or leaves it alone, so `OwnerInv` holds.

* `DurationsAreNotNegative`, `WorkersRunOneAtATime`. `TimedInv` says what each
  stamp already taken is later than: a submission than nothing, the dequeue
  stamp of a worker than the submission and than all its recorded ends, the
  instant of an abort than the submission of all it has still to reject. As a
  result that is given is never stamped again (ownership), the order stays.
* `SummaryTellsTheFutures`: `SummaryIsExact`. While one caller is in `summary`
  no other is in a call (`OneSummary`), so what it has read stays true
  (`ReadsExact`). Samples and futures of tasks that ran are then in bijection,
  `rejected_` counts all the others, and ids are handed out without gaps
  (`IdsInOrder`).

**The command line** (`CliProofs`): one thread calls the engine, so the same
argument makes the report exact.

* `SignalStopsSubmission`: `AtMostOneMore` is not inductive; `Signalled` adds
  that a run which is past its check has not submitted yet.
* `PrintedReportIsExact`, `ExitCodeIsTrue`: `CliInv` follows `run()`: which call
  the main thread can be in (`MainIsAt`), the loop counter against the engine's
  (`LoopCounts`), the drained queue against the copy of the flag (`Abandons`).
  After the report the workers are joined and what is left is the destructor,
  which gives no result (`ResultsAreFinal`), so the report stays true (`Ending`).

**The run summary** (`SummaryProofs`), for any clock and any number of samples.
The state invariant is only that the samples are samples (`SampleTypes`); the
work is in what the operators compute for sequences of any length. The
library's induction theorems take an operator as a parameter, which the provers
cannot instantiate. `SetInduction` is the same principle for a set of numbers,
from the well-foundedness of `<` (a least element outside the set), and every
induction here is one over a set. The sum is treated once: its recursion has a
solution (`TotalsExist`), and whatever grows by the next value in every round is
the partial sum (`TotalsUnique`). Identities between sums then need a formula
for the partial sums and no induction of their own.

* `PercentilesAreRight`: `DistributionsAreRight`. No two values get the same
  place, so every place is taken (`PlacesDiffer`, `PlacesTaken`) and sorting
  permutes; the value at place k has k values that do not exceed it and fewer
  than k below it (`KthValue`). `nearest_rank_index` is in range and the first
  rank that covers the percentage (`NearestRank`).
* `MergeOrderIsFree`: `OrderDoesNotMatter`. The counts above determine the
  sorted sequence (`CountsDetermineSort`) and no permutation changes them, so
  none of the samples shows in the summary (`PermutedSummary`).
* `SummaryAgrees`: `DistributionsAgree`. The three distributions are sorted
  separately and summed after sorting, so that the sums agree needs that sorting
  does not change a sum: values up to M add up to the number of values that
  reach 1, plus those that reach 2, and so on (`TotalByLayers`), and these
  numbers do not depend on the order. The rest is arithmetic of `\div`
  (`MeanBetween`, `MeanOfSum`).

**The options** (`OptionsProofs`), for command lines of any length:

* `ParserIsRight`: `ParsesAsMeant`. `ParserInv` says that the loop is between two
  pairs, has consumed only good ones, and that each option has the value of the
  last consumed pair that names it or its default (`BetweenPairs`), and for each
  decision why it was taken (`DecidedBecause`). When something is left, the
  argument behind the consumed pairs is the only one that can be the first odd
  one (`FirstOdd`); when nothing is, the options are those of the whole line
  (`AllConsumed`).

Only model-checked:

* Liveness: `PushReturns`, `StopReleasesAll`, `ConsumersFinish`, `CallsReturn`,
  `FuturesResolve`, `RunEnds`, `ConstructorUnwinds`, and the fairness part of
  `ImplementsPool`. Liveness under fairness is out of the prover's reach. The
  wake-up theorems are its safety core: nobody sleeps whom nobody will wake.
* The five runs that are expected to fail, which are counterexamples.

## Not modelled

* Error texts, `TaskError`, the layout and units of what is printed, wall time
  and throughput, the usage text, `version()`.
* The tasks themselves, which share nothing: `ComputeTask` is an arithmetic loop
  on its own members, `SleepTask` a sleep. A task that calls its own pool is
  documented as unsupported (`docs/ARCHITECTURE.md` 3.4, `thread_pool.hpp`).
* Allocation failure on a worker (`samples.push_back`, the copy of an error
  message inside the `noexcept` `run`): it terminates the process.
* An `argc` of zero, and a signal before `run()` has installed its handlers,
  which kills the process by default.
* Reads without effect: `size`, `empty`, `capacity`, `is_closed`,
  `worker_count`, `queued`, `is_shut_down`.
* Wrap-around of 64-bit ids and counters.
* The benchmark harness: one thread that submits, shuts down and asks for the
  summary, as `run()` does, and floating-point statistics of wall-clock times.

## Plan

Done: all components with state of their own, alone and composed, with the runs
above; every invariant, action property and refinement the runs check proved (of
`ImplementsPool` the safety part).

Left: shorter proofs where two of them still go through the same cases (ids in
`TimedProofs` and `CliProofs`).
