------------------------------ MODULE MCIm2dJob ------------------------------
(* Im2dJobList for TLC: threads and addresses are interchangeable.           *)
EXTENDS Im2dJobList, TLC

Symmetry == Permutations(Threads) \cup Permutations(Handles \ OwnedHandles) \cup Permutations(Jobs)
=============================================================================
