----------------------------- MODULE TaskEngine -----------------------------
(***************************************************************************)
(* TaskEngine of src/execution/task_engine.cpp: a pool and a counter of    *)
(* ids.  Everything else is delegation to ThreadPool; the counts of a      *)
(* summary are those summarize() makes of what the pool hands over.        *)
(***************************************************************************)
EXTENDS ThreadPool

CONSTANT MaxTasks    \* how many tasks a run may submit

(* An envelope is known by the id it is given. *)
ASSUME IdAssumption == MaxTasks \in Nat /\ Envelopes = 1 .. MaxTasks

VARIABLE nextId      \* next_id_

EngineInit == Init /\ nextId = 1

(* fetch_add, get_future and the call of pool_.submit. *)
EngineSubmit(c) ==
  /\ nextId \in Envelopes
  /\ SubmitEnvelope(c, nextId)
  /\ nextId' = nextId + 1

submitted_count == nextId - 1

SamplesIn(c, state) ==
  {p \in UNION {{w} \X (1 .. Len(got[c][w])) : w \in Workers} :
     got[c][p[1]][p[2]].state = state}

Summary(c) ==
  [total     |-> Total(c),
   succeeded |-> Cardinality(SamplesIn(c, "Succeeded")),
   failed    |-> Cardinality(SamplesIn(c, "Failed")),
   rejected  |-> cnt[c]]
=============================================================================
