---------------------------- MODULE MCThreadPool ----------------------------
(***************************************************************************)
(* ThreadPool for TLC: callers and envelopes are model values.             *)
(***************************************************************************)
EXTENDS ThreadPool, TLC

(* Callers are interchangeable, and so are envelopes; workers are not,     *)
(* because they are started and joined in order.                           *)
Symmetry == Permutations(Callers) \cup Permutations(Envelopes)
=============================================================================
