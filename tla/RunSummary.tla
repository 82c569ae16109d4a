----------------------------- MODULE RunSummary -----------------------------
(***************************************************************************)
(* src/metrics/run_summary.cpp: a pure function of the recorded samples    *)
(* and the number of rejections.  The state machine only supplies inputs,  *)
(* one more sample or rejection at a time; every definition above it is    *)
(* the code's, and the properties compare it with what the numbers mean.   *)
(* A time is a number of clock ticks.                                      *)
(***************************************************************************)
EXTENDS Naturals, Sequences, FiniteSets

CONSTANTS
  MaxTime,        \* the last tick of the clock
  MaxSamples,     \* how many samples a run of arbitrary samples records
  MaxLong,        \* how many samples a long run records
  MaxRejected     \* how many rejections a run counts

ASSUME BoundAssumption ==
  /\ MaxTime \in Nat /\ MaxSamples \in Nat /\ MaxLong \in Nat
  /\ MaxRejected \in Nat

VARIABLES
  samples, rejected,
  long            \* is this a run of many samples, in order of falling latency?

Samples ==
  {s \in [state : {"Succeeded", "Failed"}, submitted : 0 .. MaxTime,
          dequeued : 0 .. MaxTime, finished : 0 .. MaxTime] :
     s.submitted <= s.dequeued /\ s.dequeued <= s.finished}

(* TaskTimings *)
queue_wait(s) == s.dequeued - s.submitted

\* Mutant of execution_time: measured from the submission.
execution_time_submitted(s) == s.finished - s.submitted

execution_time(s) == s.finished - s.dequeued
total_latency(s) == s.finished - s.submitted

-----------------------------------------------------------------------------
\* Mutant of nearest_rank_index: rounds the rank down.
nearest_rank_index_floor(percent, n) ==
  LET rank == (percent * n) \div 100
      clamped == IF rank < 1 THEN 1 ELSE IF rank > n THEN n ELSE rank
  IN  IF n = 0 THEN 0 ELSE clamped - 1

nearest_rank_index(percent, n) ==
  LET rank == (percent * n + 99) \div 100
      clamped == IF rank < 1 THEN 1 ELSE IF rank > n THEN n ELSE rank
  IN  IF n = 0 THEN 0 ELSE clamped - 1

(* std::sort: a value goes behind the smaller ones, and behind the equal   *)
(* ones that came before it.                                               *)
place(values, i) ==
  Cardinality({j \in DOMAIN values :
    values[j] < values[i] \/ (values[j] = values[i] /\ j <= i)})

sort(values) ==
  LET placed == {<<place(values, i), values[i]>> : i \in DOMAIN values}
  IN  [k \in DOMAIN values |-> (CHOOSE p \in placed : p[1] = k)[2]]

(* The loop that adds the values up, after n rounds. *)
totals(values) ==
  LET sum[n \in 0 .. Len(values)] == IF n = 0 THEN 0 ELSE sum[n - 1] + values[n]
  IN  sum

total(values) == totals(values)[Len(values)]

NoStats == [count |-> 0, min |-> 0, p50 |-> 0, p95 |-> 0, max |-> 0, total |-> 0]

\* Mutant of stats_from: the values are not sorted.
stats_from_unsorted(values) ==
  LET n == Len(values)
      At(percent) == values[nearest_rank_index(percent, n) + 1]
  IN  IF n = 0 THEN NoStats
      ELSE [count |-> n, min |-> values[1], p50 |-> At(50), p95 |-> At(95),
            max |-> values[n], total |-> total(values)]

stats_from(values) ==
  LET n == Len(values)
      sorted == sort(values)
      At(percent) == sorted[nearest_rank_index(percent, n) + 1]
  IN  IF n = 0 THEN NoStats
      ELSE [count |-> n, min |-> sorted[1], p50 |-> At(50), p95 |-> At(95),
            max |-> sorted[n], total |-> total(sorted)]

mean(stats) == IF stats.count = 0 THEN 0 ELSE stats.total \div stats.count

CountOf(S, state) == Cardinality({i \in DOMAIN S : S[i].state = state})

(* A worker records only Succeeded and Failed samples, so the other cases  *)
(* of the switch are not reached.                                          *)
summarize(S, rejects) ==
  [total |-> Len(S) + rejects,
   succeeded |-> CountOf(S, "Succeeded"),
   failed |-> CountOf(S, "Failed"),
   rejected |-> rejects,
   queue_wait |-> stats_from([i \in DOMAIN S |-> queue_wait(S[i])]),
   execution_time |-> stats_from([i \in DOMAIN S |-> execution_time(S[i])]),
   total_latency |-> stats_from([i \in DOMAIN S |-> total_latency(S[i])])]

-----------------------------------------------------------------------------
Init == samples = <<>> /\ rejected = 0 /\ long \in BOOLEAN

RecordAny ==
  /\ ~long /\ Len(samples) < MaxSamples
  /\ \E s \in Samples : samples' = Append(samples, s)
  /\ UNCHANGED <<rejected, long>>

(* Long runs: samples that differ only in when they finished. *)
RecordLong ==
  /\ long /\ Len(samples) < MaxLong
  /\ \E s \in Samples :
       /\ s.state = "Succeeded" /\ s.dequeued = 0
       /\ samples # <<>> => total_latency(s) <= total_latency(samples[Len(samples)])
       /\ samples' = Append(samples, s)
  /\ UNCHANGED <<rejected, long>>

Reject ==
  /\ rejected < MaxRejected
  /\ rejected' = rejected + 1
  /\ UNCHANGED <<samples, long>>

Next == RecordAny \/ RecordLong \/ Reject

Spec == Init /\ [][Next]_<<samples, rejected, long>>

-----------------------------------------------------------------------------
(* Properties *)

Summary == summarize(samples, rejected)

(* The p-th percentile by nearest rank: the smallest recorded value that   *)
(* at least p percent of the values do not exceed.                         *)
IsPercentile(v, percent, values) ==
  LET n == Len(values)
      NotAbove(x) == Cardinality({i \in DOMAIN values : values[i] <= x})
  IN  /\ \E i \in DOMAIN values : values[i] = v
      /\ 100 * NotAbove(v) >= percent * n
      /\ \A i \in DOMAIN values :
           values[i] < v => 100 * NotAbove(values[i]) < percent * n

(* Each distribution describes its durations: p50 and p95 are the nearest  *)
(* rank percentiles, min and max are attained bounds; nothing is reported  *)
(* for an empty run.                                                       *)
Describes(stats, values) ==
  IF values = <<>> THEN stats = NoStats /\ mean(stats) = 0
  ELSE /\ stats.count = Len(values)
       /\ IsPercentile(stats.p50, 50, values) /\ IsPercentile(stats.p95, 95, values)
       /\ IsPercentile(stats.min, 0, values) /\ IsPercentile(stats.max, 100, values)

DistributionsAreRight ==
  /\ Describes(Summary.queue_wait, [i \in DOMAIN samples |-> queue_wait(samples[i])])
  /\ Describes(Summary.execution_time, [i \in DOMAIN samples |-> execution_time(samples[i])])
  /\ Describes(Summary.total_latency, [i \in DOMAIN samples |-> total_latency(samples[i])])

(* The samples are merged from one buffer per worker, in the order of the  *)
(* workers, and which worker ran a task is chance: wherever the merged     *)
(* samples are cut in two buffers, merging these the other way round gives *)
(* the same summary.                                                       *)
OrderDoesNotMatter ==
  \A k \in 1 .. Len(samples) :
    summarize(SubSeq(samples, k, Len(samples)) \o SubSeq(samples, 1, k - 1), rejected)
      = Summary

(* The numbers of one summary tell the same story: succeeded, failed and   *)
(* rejected partition the total, each distribution is over the tasks that  *)
(* ran, latency is queue wait plus execution in total, and its mean is     *)
(* theirs up to the rounding of the integer division; every mean lies      *)
(* between min and max.                                                    *)
DistributionsAgree ==
  LET q == Summary.queue_wait e == Summary.execution_time l == Summary.total_latency
  IN  /\ Summary.total = Summary.succeeded + Summary.failed + Summary.rejected
      /\ \A d \in {q, e, l} : d.count = Summary.total - Summary.rejected
      /\ l.total = q.total + e.total
      /\ mean(l) - (mean(q) + mean(e)) \in 0 .. 1
      /\ \A d \in {q, e, l} : d.min <= mean(d) /\ mean(d) <= d.max
=============================================================================
