---------------------------- MODULE MCRockchipRga ----------------------------
(* RockchipRga for TLC; the drawing threads and the addresses are           *)
(* interchangeable.                                                         *)
EXTENDS RockchipRga, TLC

Symmetry == Permutations(Threads \ Objects) \cup Permutations(Ctxs) \cup Permutations(Fds)
=============================================================================
