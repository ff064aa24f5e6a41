------------------------------ MODULE MCThreads ------------------------------
(***************************************************************************)
(* Threads for TLC: contexts and stack areas are interchangeable, because  *)
(* mmap and get_new_ctx may pick any that is free.                         *)
(***************************************************************************)
EXTENDS Threads, TLC

Symmetry == Permutations(Pids \ Sleepers) \cup Permutations(Stacks)
=============================================================================
