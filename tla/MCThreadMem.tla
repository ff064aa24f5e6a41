---------------------------- MODULE MCThreadMem ----------------------------
(***************************************************************************)
(* ThreadMem for TLC: threads are interchangeable, and so are addresses.   *)
(***************************************************************************)
EXTENDS ThreadMem, TLC

Symmetry == Permutations(Threads) \cup Permutations(Areas)
=============================================================================
