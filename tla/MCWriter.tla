------------------------------ MODULE MCWriter ------------------------------
(***************************************************************************)
(* Small instances of Writer.  Capacity 1 and batches of 2 make the queue  *)
(* fill, batches complete and partial batches remain for the ticker and    *)
(* the drain; two writers let a producer hold a pointer across Close and a *)
(* second Init.                                                            *)
(***************************************************************************)
EXTENDS Writer, TLC

MCBlock == {[complete |-> TRUE, capacity |-> 1, batch |-> 2, policy |-> "Block"]}

\* A zero size, which takes the default, and the ways in which Config is refused.
MCMixed ==
  {[complete |-> TRUE, capacity |-> 0, batch |-> 0, policy |-> "Block"],
   [complete |-> TRUE, capacity |-> 1, batch |-> 1, policy |-> "Drop"],
   [complete |-> FALSE, capacity |-> 1, batch |-> 1, policy |-> "Drop"],
   [complete |-> TRUE, capacity |-> -1, batch |-> 1, policy |-> "Drop"],
   [complete |-> TRUE, capacity |-> 1, batch |-> -1, policy |-> "Drop"],
   [complete |-> TRUE, capacity |-> 1, batch |-> 1, policy |-> "Other"]}

MCSymmetry ==
  Permutations(Producers) \cup Permutations(Callers) \cup Permutations(Writers)
=============================================================================
