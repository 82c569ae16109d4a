--------------------------- MODULE TaskContract ---------------------------
(***************************************************************************)
(* What the pool promises about every task it is handed, whatever happens  *)
(* to the pool: the lifecycle of TaskState.  A task is Queued, then either *)
(* Rejected without ever having run, or Running on one worker and then     *)
(* Succeeded or Failed; it reaches exactly one terminal state, once, and   *)
(* after an abort no further task starts to run.                           *)
(***************************************************************************)
CONSTANT Envelopes

VARIABLES
  future,     \* per task: what its caller will find, or how far it has come
  aborted     \* has shutdown_now discarded the queue?

Terminal == {"Succeeded", "Failed", "Rejected"}

Init == future = [e \in Envelopes |-> "none"] /\ aborted = FALSE

Turn(e, from, to) == future[e] = from /\ future' = [future EXCEPT ![e] = to]

Submit(e) == Turn(e, "none", "Queued") /\ UNCHANGED aborted

Start(e) == ~aborted /\ Turn(e, "Queued", "Running") /\ UNCHANGED aborted

Finish(e) ==
  /\ Turn(e, "Running", "Succeeded") \/ Turn(e, "Running", "Failed")
  /\ UNCHANGED aborted

Reject(e) == Turn(e, "Queued", "Rejected") /\ UNCHANGED aborted

Abort == aborted' = TRUE /\ UNCHANGED future

Next ==
  \/ Abort
  \/ \E e \in Envelopes : Submit(e) \/ Start(e) \/ Finish(e) \/ Reject(e)

Spec == Init /\ [][Next]_<<future, aborted>>
=============================================================================
