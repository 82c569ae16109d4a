-------------------------- MODULE MCBlockingQueue --------------------------
(***************************************************************************)
(* BlockingQueue for TLC: threads and values are model values.             *)
(***************************************************************************)
EXTENDS BlockingQueue, TLC

(* The threads of one kind and the values are interchangeable. *)
Symmetry ==
  Permutations(Producers) \cup Permutations(Consumers)
    \cup Permutations(Closers) \cup Permutations(Items)
=============================================================================
