----------------------------- MODULE ThreadPool -----------------------------
(***************************************************************************)
(* ThreadPool of src/concurrency/thread_pool.cpp, with the envelopes of    *)
(* src/core/task_envelope.cpp and the two reads that TaskEngine::summary   *)
(* makes.  queue_ is the atomic channel that BlockingQueue implements, so  *)
(* a call of push, pop, close or close_and_drain is one step here.         *)
(*                                                                         *)
(* Callers are the threads that use an open pool, each of them for any of  *)
(* its operations; Owner is the thread that constructs and destroys it.    *)
(* Allocation is assumed to succeed; starting a thread may fail.           *)
(***************************************************************************)
EXTENDS Naturals, Sequences, FiniteSets

CONSTANTS
  NWorkers,          \* worker_count
  Capacity,          \* queue_capacity
  Callers, Owner,    \* the threads outside the pool
  Envelopes,         \* the tasks that may be submitted, each once
  None,              \* no thread, no envelope, no result yet
  EitherOrder        \* may summary() read rejected_ before the samples?

Workers == 1 .. NWorkers
Threads == Callers \cup {Owner}

(* The constructor throws for no workers and for no capacity. *)
ASSUME SizeAssumption == NWorkers \in Nat \ {0} /\ Capacity \in Nat \ {0}

ASSUME NameAssumption ==
  /\ Owner \notin Callers
  /\ None \notin Threads \cup Envelopes
  /\ IsFiniteSet(Callers) /\ IsFiniteSet(Envelopes)

ASSUME OrderAssumption == EitherOrder \in BOOLEAN

VARIABLES
  queue, closed,     \* queue_
  life,              \* where the pool is between constructor and destructor
  wpc, hold,         \* per worker: where it is, the Sample it is making
  samples,           \* samples_: one buffer per worker
  joinable,          \* the elements of threads_ that can still be joined
  joined,            \* joined_
  shutdownMutex,     \* the owner of shutdown_mutex_
  rejected,          \* rejected_
  promise,           \* per envelope: the state of its promise
  pc,                \* per outside thread: where it is
  env,               \* per caller: the argument of submit
  batch, todo,       \* per caller: discarded, and what is left of the loop
  got, cnt,          \* per caller: what summary has read so far
  asked,             \* history: the tasks a summary in progress has to cover
  aborted            \* history: has a shutdown_now drained the queue?

pool == <<queue, closed>>
workers == <<wpc, hold, samples>>
join == <<joinable, joined, shutdownMutex>>
reading == <<got, cnt, asked>>
discard == <<batch, todo>>

vars == <<pool, life, workers, join, rejected, promise, pc, env, discard,
          reading, aborted>>

Q == INSTANCE Channel WITH chan <- queue, shut <- closed

Init ==
  /\ Q!ChannelInit
  /\ life = "building"
  /\ wpc = [w \in Workers |-> "unborn"]
  /\ hold = [w \in Workers |-> None]
  /\ samples = [w \in Workers |-> <<>>]
  /\ joinable = {}
  /\ joined = FALSE
  /\ shutdownMutex = None
  /\ rejected = 0
  /\ promise = [e \in Envelopes |-> "none"]
  /\ pc = [t \in Threads |-> "idle"]
  /\ env = [t \in Threads |-> None]
  /\ batch = [t \in Threads |-> <<>>]
  /\ todo = [t \in Threads |-> <<>>]
  /\ got = [t \in Threads |-> None]
  /\ cnt = [t \in Threads |-> None]
  /\ asked = [t \in Threads |-> {}]
  /\ aborted = FALSE

Go(t, from, to) == pc[t] = from /\ pc' = [pc EXCEPT ![t] = to]

Elements(s) == {s[i] : i \in 1 .. Len(s)}

-----------------------------------------------------------------------------
(* std::promise: a second set_value throws, and run and reject are         *)
(* noexcept, so the process terminates; destroying an envelope whose       *)
(* promise was never set breaks the future.                                *)

Settle(e, outcome) ==
  promise' = [promise EXCEPT ![e] = IF @ = "unset" THEN outcome ELSE "terminate"]

Drop(E) ==
  promise' = [e \in Envelopes |->
                IF e \in E /\ promise[e] = "unset" THEN "broken" ELSE promise[e]]

-----------------------------------------------------------------------------
(* The constructor: workers start one by one and run at once.              *)

Spawn ==
  /\ life = "building"
  /\ \E w \in Workers :
       /\ wpc[w] = "unborn"
       /\ \A v \in Workers : v < w => wpc[v] # "unborn"
       /\ wpc' = [wpc EXCEPT ![w] = "pop"]
       /\ joinable' = joinable \cup {w}
       /\ life' = IF w = NWorkers THEN "open" ELSE "building"
  /\ UNCHANGED <<pool, hold, samples, joined, shutdownMutex, rejected, promise,
                 pc, env, discard, reading, aborted>>

\* Mutant of SpawnFails: join_workers() without queue_.close().
SpawnFailsOpen ==
  /\ life = "building"
  /\ life' = "failing"
  /\ Go(Owner, "idle", "join")
  /\ UNCHANGED <<pool, workers, join, rejected, promise, env, discard, reading,
                 aborted>>

(* emplace_back throws: close, join what was started, rethrow. *)
SpawnFails ==
  /\ life = "building"
  /\ life' = "failing"
  /\ Go(Owner, "idle", "close")
  /\ UNCHANGED <<pool, workers, join, rejected, promise, env, discard, reading,
                 aborted>>

\* Mutant of Destroy: a defaulted destructor.
DestroyDefaulted ==
  /\ life = "open"
  /\ \A c \in Callers : pc[c] = "idle"
  /\ life' = "destroyed"
  /\ Drop(Elements(queue))
  /\ UNCHANGED <<pool, workers, join, rejected, pc, env, discard, reading, aborted>>

(* The destructor.  Using the pool while it runs is the caller's error. *)
Destroy ==
  /\ life = "open"
  /\ \A c \in Callers : pc[c] = "idle"
  /\ life' = "destroying"
  /\ Go(Owner, "idle", "close")
  /\ UNCHANGED <<pool, workers, join, rejected, promise, env, discard, reading,
                 aborted>>

-----------------------------------------------------------------------------
(* worker_loop.  Here and below, what the pool does when a queue call takes *)
(* effect (Took, Left, Accepted, Refused, Closed, Drained) is kept apart    *)
(* from the effect on the queue, so that PoolOnQueue can put the pool on    *)
(* the detailed queue.                                                      *)

Took(w) ==
  /\ wpc[w] = "pop"
  /\ hold' = [hold EXCEPT ![w] = [id |-> Head(queue), state |-> "Running"]]
  /\ wpc' = [wpc EXCEPT ![w] = "run"]
  /\ UNCHANGED <<life, samples, join, rejected, promise, pc, env, discard,
                 reading, aborted>>

WorkerPop(w) == Q!Pop /\ Took(w)

(* TaskEnvelope::run: a task that throws is a Failed result. *)
WorkerRun(w) ==
  /\ wpc[w] = "run"
  /\ \E outcome \in {"Succeeded", "Failed"} :
       /\ Settle(hold[w].id, outcome)
       /\ hold' = [hold EXCEPT ![w] = [id |-> hold[w].id, state |-> outcome]]
  /\ wpc' = [wpc EXCEPT ![w] = "record"]
  /\ UNCHANGED <<pool, life, samples, join, rejected, pc, env, discard, reading,
                 aborted>>

\* Mutant of WorkerRecord: a failed task leaves no sample.
WorkerRecordSuccess(w) ==
  /\ wpc[w] = "record"
  /\ samples' = IF hold[w].state = "Failed" THEN samples
                ELSE [samples EXCEPT ![w] = Append(@, hold[w])]
  /\ Drop({hold[w].id})
  /\ hold' = [hold EXCEPT ![w] = None]
  /\ wpc' = [wpc EXCEPT ![w] = "pop"]
  /\ UNCHANGED <<pool, life, join, rejected, pc, env, discard, reading, aborted>>

(* samples.push_back, and the envelope goes out of scope. *)
WorkerRecord(w) ==
  /\ wpc[w] = "record"
  /\ samples' = [samples EXCEPT ![w] = Append(@, hold[w])]
  /\ Drop({hold[w].id})
  /\ hold' = [hold EXCEPT ![w] = None]
  /\ wpc' = [wpc EXCEPT ![w] = "pop"]
  /\ UNCHANGED <<pool, life, join, rejected, pc, env, discard, reading, aborted>>

Left(w) ==
  /\ wpc[w] = "pop"
  /\ wpc' = [wpc EXCEPT ![w] = "exited"]
  /\ UNCHANGED <<life, hold, samples, join, rejected, promise, pc, env, discard,
                 reading, aborted>>

WorkerExit(w) == Q!Finish /\ Left(w)

-----------------------------------------------------------------------------
(* submit *)

SubmitEnvelope(c, e) ==
  /\ life = "open"
  /\ Go(c, "idle", "push")
  /\ promise[e] = "none"
  /\ promise' = [promise EXCEPT ![e] = "unset"]
  /\ env' = [env EXCEPT ![c] = e]
  /\ UNCHANGED <<pool, life, workers, join, rejected, discard, reading, aborted>>

SubmitCall(c) == \E e \in Envelopes : SubmitEnvelope(c, e)

Accepted(c) ==
  /\ Go(c, "push", "idle")
  /\ env' = [env EXCEPT ![c] = None]
  /\ UNCHANGED <<life, workers, join, rejected, promise, discard, reading, aborted>>

SubmitAccept(c) == Q!Push(env[c]) /\ Accepted(c)

\* Mutant of Refused: the refused envelope is destroyed unfulfilled.
RefusedDropped(c) ==
  /\ Go(c, "push", "idle")
  /\ Drop({env[c]})
  /\ env' = [env EXCEPT ![c] = None]
  /\ UNCHANGED <<life, workers, join, rejected, discard, reading, aborted>>

(* push returns false and leaves the envelope where it was. *)
Refused(c) ==
  /\ Go(c, "push", "reject")
  /\ UNCHANGED <<life, workers, join, rejected, promise, env, discard, reading,
                 aborted>>

SubmitRefuse(c) == Q!Refuse /\ Refused(c)

SubmitReject(c) ==
  /\ Go(c, "reject", "count")
  /\ Settle(env[c], "Rejected")
  /\ UNCHANGED <<pool, life, workers, join, rejected, env, discard, reading, aborted>>

\* Mutant of SubmitCount: the refusal is not counted.
SubmitUncounted(c) ==
  /\ Go(c, "count", "idle")
  /\ Drop({env[c]})
  /\ env' = [env EXCEPT ![c] = None]
  /\ UNCHANGED <<pool, life, workers, join, rejected, discard, reading, aborted>>

SubmitCount(c) ==
  /\ Go(c, "count", "idle")
  /\ rejected' = rejected + 1
  /\ Drop({env[c]})
  /\ env' = [env EXCEPT ![c] = None]
  /\ UNCHANGED <<pool, life, workers, join, discard, reading, aborted>>

-----------------------------------------------------------------------------
(* shutdown and shutdown_now *)

ShutdownCall(c) ==
  /\ life = "open"
  /\ Go(c, "idle", "close")
  /\ UNCHANGED <<pool, life, workers, join, rejected, promise, env, discard,
                 reading, aborted>>

ShutdownNowCall(c) ==
  /\ life = "open"
  /\ Go(c, "idle", "drain")
  /\ UNCHANGED <<pool, life, workers, join, rejected, promise, env, discard,
                 reading, aborted>>

(* Close first, join second. *)
Closed(t) ==
  /\ Go(t, "close", "join")
  /\ UNCHANGED <<life, workers, join, rejected, promise, env, discard, reading,
                 aborted>>

\* Mutant of Close: join without closing.
CloseSkipped(t) == Closed(t) /\ UNCHANGED pool

Close(t) == Q!Close /\ Closed(t)

Drained(c) ==
  /\ Go(c, "drain", "discard")
  /\ batch' = [batch EXCEPT ![c] = queue]
  /\ todo' = [todo EXCEPT ![c] = queue]
  /\ aborted' = TRUE
  /\ UNCHANGED <<life, workers, join, rejected, promise, env, reading>>

CloseAndDrain(c) == Q!CloseAndDrain /\ Drained(c)

\* Mutant of RejectNext: discarded envelopes are not rejected.
RejectSkipped(c) ==
  /\ pc[c] = "discard"
  /\ todo[c] # <<>>
  /\ todo' = [todo EXCEPT ![c] = Tail(@)]
  /\ UNCHANGED <<pool, life, workers, join, rejected, promise, pc, env, batch,
                 reading, aborted>>

RejectNext(c) ==
  /\ pc[c] = "discard"
  /\ todo[c] # <<>>
  /\ Settle(Head(todo[c]), "Rejected")
  /\ todo' = [todo EXCEPT ![c] = Tail(@)]
  /\ UNCHANGED <<pool, life, workers, join, rejected, pc, env, batch, reading,
                 aborted>>

\* Mutants of CountDiscarded: one for the whole batch; every envelope both in
\* the loop and after it.
CountDiscardedOne(c) ==
  /\ todo[c] = <<>>
  /\ Go(c, "discard", "join")
  /\ rejected' = rejected + 1
  /\ UNCHANGED <<pool, life, workers, join, promise, env, discard, reading, aborted>>

CountDiscardedTwice(c) ==
  /\ todo[c] = <<>>
  /\ Go(c, "discard", "join")
  /\ rejected' = rejected + 2 * Len(batch[c])
  /\ UNCHANGED <<pool, life, workers, join, promise, env, discard, reading, aborted>>

CountDiscarded(c) ==
  /\ todo[c] = <<>>
  /\ Go(c, "discard", "join")
  /\ rejected' = rejected + Len(batch[c])
  /\ UNCHANGED <<pool, life, workers, join, promise, env, discard, reading, aborted>>

-----------------------------------------------------------------------------
(* join_workers, up to the return of the call that made it: discarded is   *)
(* destroyed; a failing constructor rethrows; the destructor goes on to    *)
(* destroy the members, and with queue_ whatever is still queued.          *)

Return(t) ==
  /\ Go(t, pc[t], "idle")
  /\ Drop(Elements(batch[t]) \cup
            IF t = Owner /\ life = "destroying" THEN Elements(queue) ELSE {})
  /\ batch' = [batch EXCEPT ![t] = <<>>]
  /\ life' = IF t # Owner THEN life
             ELSE IF life = "failing" THEN "threw" ELSE "destroyed"
  /\ UNCHANGED <<pool, workers, rejected, env, todo, reading, aborted>>

JoinAgain(t) ==
  /\ pc[t] = "join" /\ shutdownMutex = None
  /\ joined
  /\ Return(t)
  /\ UNCHANGED join

JoinStart(t) ==
  /\ shutdownMutex = None
  /\ ~joined
  /\ Go(t, "join", "joining")
  /\ shutdownMutex' = t
  /\ UNCHANGED <<pool, life, workers, joinable, joined, rejected, promise, env,
                 discard, reading, aborted>>

(* worker.join() returns once that worker has. *)
JoinWorker(t) ==
  /\ pc[t] = "joining"
  /\ \E w \in joinable :
       /\ \A v \in joinable : w <= v
       /\ wpc[w] = "exited"
       /\ joinable' = joinable \ {w}
  /\ UNCHANGED <<pool, life, workers, joined, shutdownMutex, rejected, promise,
                 pc, env, discard, reading, aborted>>

\* Mutant of JoinDone: joined_ is set while workers are still being joined.
JoinDoneEarly(t) ==
  /\ pc[t] = "joining"
  /\ joined' = TRUE
  /\ shutdownMutex' = None
  /\ Return(t)
  /\ UNCHANGED joinable

JoinDone(t) ==
  /\ pc[t] = "joining"
  /\ joinable = {}
  /\ joined' = TRUE
  /\ shutdownMutex' = None
  /\ Return(t)
  /\ UNCHANGED joinable

-----------------------------------------------------------------------------
(* TaskEngine::summary passes collect_samples() and rejected_count() as    *)
(* arguments of one call, so the build decides which is read first.        *)

SummaryCall(c) ==
  /\ life = "open"
  /\ Go(c, "idle", "summary")
  /\ asked' = [asked EXCEPT ![c] =
       {e \in Envelopes : promise[e] # "none" /\ \A d \in Callers : env[d] # e}]
  /\ UNCHANGED <<pool, life, workers, join, rejected, promise, env, discard, got,
                 cnt, aborted>>

\* Mutant of CollectCheck: the buffers are read without asking joined_.
CollectUnchecked(c) ==
  /\ got[c] = None
  /\ Go(c, "summary", "merge")
  /\ UNCHANGED <<pool, life, workers, join, rejected, promise, env, discard,
                 reading, aborted>>

(* workers_joined() under shutdown_mutex_, released before the buffers are read. *)
CollectCheck(c) ==
  /\ shutdownMutex = None
  /\ got[c] = None
  /\ joined
  /\ Go(c, "summary", "merge")
  /\ UNCHANGED <<pool, life, workers, join, rejected, promise, env, discard,
                 reading, aborted>>

SummaryEnds(c) ==
  /\ got' = [got EXCEPT ![c] = None]
  /\ cnt' = [cnt EXCEPT ![c] = None]
  /\ asked' = [asked EXCEPT ![c] = {}]
  /\ UNCHANGED <<pool, life, workers, join, rejected, promise, env, discard, aborted>>

(* logic_error: the workers have not been joined. *)
CollectThrows(c) ==
  /\ shutdownMutex = None
  /\ got[c] = None
  /\ ~joined
  /\ Go(c, "summary", "idle")
  /\ SummaryEnds(c)

CollectMerge(c) ==
  /\ Go(c, "merge", "summary")
  /\ got' = [got EXCEPT ![c] = samples]
  /\ UNCHANGED <<pool, life, workers, join, rejected, promise, env, discard, cnt,
                 asked, aborted>>

RejectedCount(c) ==
  /\ pc[c] = "summary"
  /\ cnt[c] = None
  /\ EitherOrder \/ got[c] # None
  /\ cnt' = [cnt EXCEPT ![c] = rejected]
  /\ UNCHANGED <<pool, life, workers, join, rejected, promise, pc, env, discard,
                 got, asked, aborted>>

SummaryReturn(c) ==
  /\ got[c] # None /\ cnt[c] # None
  /\ Go(c, "summary", "idle")
  /\ SummaryEnds(c)

-----------------------------------------------------------------------------
WorkerStep(w) == WorkerPop(w) \/ WorkerRun(w) \/ WorkerRecord(w) \/ WorkerExit(w)

(* The steps inside a call: calls of queue_, the rest of submit and of the *)
(* shutdowns, and the reads of a summary.                                  *)
QueueStep(t) ==
  SubmitAccept(t) \/ SubmitRefuse(t) \/ Close(t) \/ CloseAndDrain(t)

LocalStep(t) ==
  \/ SubmitReject(t) \/ SubmitCount(t)
  \/ RejectNext(t) \/ CountDiscarded(t)
  \/ JoinAgain(t) \/ JoinStart(t) \/ JoinWorker(t) \/ JoinDone(t)

SummaryStep(t) ==
  \/ CollectCheck(t) \/ CollectThrows(t) \/ CollectMerge(t)
  \/ RejectedCount(t) \/ SummaryReturn(t)

CallStep(t) == QueueStep(t) \/ LocalStep(t) \/ SummaryStep(t)

(* The pool is gone: nothing is left to do. *)
Gone == life \in {"threw", "destroyed"} /\ UNCHANGED vars

Next ==
  \/ Spawn \/ SpawnFails \/ Destroy
  \/ \E w \in Workers : WorkerStep(w)
  \/ \E c \in Callers :
       SubmitCall(c) \/ ShutdownCall(c) \/ ShutdownNowCall(c) \/ SummaryCall(c)
  \/ \E t \in Threads : CallStep(t)
  \/ Gone

Spec == Init /\ [][Next]_vars

(* Every thread inside a call and every worker keeps running, and tasks    *)
(* end.  Nobody has to call anything.                                      *)
Fairness ==
  /\ WF_vars(Spawn)
  /\ \A w \in Workers : WF_vars(WorkerStep(w))
  /\ \A t \in Threads : WF_vars(CallStep(t))

FairSpec == Spec /\ Fairness

-----------------------------------------------------------------------------
(* Properties *)

Terminal == {"Succeeded", "Failed", "Rejected"}

SampleOf(states) == [id : Envelopes, state : states]

(* Every variable has its type; rejected_ never exceeds the tasks there are. *)
TypeOK ==
  /\ queue \in Seq(Envelopes)
  /\ closed \in BOOLEAN
  /\ life \in {"building", "failing", "threw", "open", "destroying", "destroyed"}
  /\ wpc \in [Workers -> {"unborn", "pop", "run", "record", "exited"}]
  /\ hold \in [Workers ->
       SampleOf({"Running", "Succeeded", "Failed"}) \cup {None}]
  /\ samples \in [Workers -> Seq(SampleOf({"Succeeded", "Failed"}))]
  /\ joinable \subseteq Workers
  /\ joined \in BOOLEAN
  /\ shutdownMutex \in Threads \cup {None}
  /\ rejected \in 0 .. Cardinality(Envelopes)
  /\ promise \in [Envelopes -> {"none", "unset", "terminate", "broken"} \cup Terminal]
  /\ pc \in [Threads -> {"idle", "push", "reject", "count", "close", "drain",
                         "discard", "join", "joining", "summary", "merge"}]
  /\ env \in [Threads -> Envelopes \cup {None}]
  /\ batch \in [Threads -> Seq(Envelopes)]
  /\ todo \in [Threads -> Seq(Envelopes)]
  /\ got \in [Threads ->
       [Workers -> Seq(SampleOf({"Succeeded", "Failed"}))] \cup {None}]
  /\ cnt \in [Threads -> Nat \cup {None}]
  /\ asked \in [Threads -> SUBSET Envelopes]
  /\ aborted \in BOOLEAN

(* "joined_ being true happens-after every worker finished writing": once  *)
(* joined_ is set no worker is left, nothing is queued and nothing can be. *)
JoinedIsQuiet ==
  joined => closed /\ queue = <<>> /\ \A w \in Workers : wpc[w] \in {"exited", "unborn"}

(* No data race on samples_: between the check of joined_ and the merge no *)
(* worker writes to a buffer, although shutdown_mutex_ is not held.        *)
MergeIsStable == [][(\E c \in Callers : pc[c] = "merge") => samples' = samples]_vars

(* The buffers tell what the futures tell: no task is recorded twice, a    *)
(* sample has the state its future was given, and once the workers are     *)
(* joined every task that ran, and no other, has a sample.                 *)
Recorded == UNION {Elements(samples[w]) : w \in Workers}

SamplesMatchFutures ==
  /\ \A w, v \in Workers : \A i \in 1 .. Len(samples[w]), j \in 1 .. Len(samples[v]) :
       samples[w][i].id = samples[v][j].id => w = v /\ i = j
  /\ \A s \in Recorded : promise[s.id] = s.state
  /\ joined =>
       {s.id : s \in Recorded} = {e \in Envelopes : promise[e] \in {"Succeeded", "Failed"}}

(* rejected_ counts each Rejected future once: the only ones it misses are *)
(* those whose submit or shutdown_now is still between rejecting and       *)
(* counting.                                                               *)
Uncounted ==
  {env[c] : c \in {d \in Callers : pc[d] = "count"}}
    \cup UNION {Elements(batch[c]) : c \in {d \in Callers : pc[d] = "discard"}}

RejectedIsCounted ==
  rejected = Cardinality({e \in Envelopes : promise[e] = "Rejected"} \ Uncounted)

(* A pool that is gone, by its destructor or by a constructor that failed  *)
(* part way, leaves no worker running and no future unresolved.            *)
GoneIsClean ==
  life \in {"threw", "destroyed"} =>
    /\ \A w \in Workers : wpc[w] \in {"exited", "unborn"}
    /\ \A e \in Envelopes : promise[e] \in Terminal \cup {"none"}

(* A summary covers every task whose submit had returned when summary was  *)
(* called: "every submitted task lands in exactly one" of its counts.      *)
Total(c) ==
  cnt[c] + Cardinality(UNION {{w} \X (1 .. Len(got[c][w])) : w \in Workers})

SummaryIsComplete ==
  \A c \in Callers :
    pc[c] = "summary" /\ got[c] # None /\ cnt[c] # None =>
      Total(c) >= Cardinality(asked[c])

(* "A caller blocked in future::get() is never left waiting": every future *)
(* that was handed out is resolved, on every path, also when the task      *)
(* throws, the submission is refused, or the pool is stopped or destroyed. *)
FuturesResolve == \A e \in Envelopes : promise[e] = "unset" ~> promise[e] \in Terminal

(* A constructor that cannot start all its workers gets rid of the ones it *)
(* did start and throws: it does not hang in their join.                   *)
ConstructorUnwinds == life = "failing" ~> life = "threw"

-----------------------------------------------------------------------------
(* The lifecycle of every task, as TaskContract states it. *)

Future(e) ==
  IF promise[e] # "unset" THEN promise[e]
  ELSE IF \E w \in Workers : wpc[w] = "run" /\ hold[w].id = e THEN "Running"
  ELSE "Queued"

Contract == INSTANCE TaskContract WITH
  future <- [e \in Envelopes |-> Future(e)]

(* Every future is fulfilled exactly once and every task either runs on    *)
(* one worker or is rejected without having run; an abort is not followed  *)
(* by the start of a task it should have discarded.                        *)
HonoursContract == Contract!Spec
=============================================================================
