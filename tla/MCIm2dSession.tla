---------------------------- MODULE MCIm2dSession ----------------------------
(* Im2dSession for TLC: one core of each kind rga_get_info tells apart, and  *)
(* lists that mix them; single cores come through the old ioctls. *)
EXTENDS Im2dBuffers, TLC

CONSTANTS rga3, rga2e, rga1, odd

MCMergedCores == {rga3, rga2e}
MCStringCores == {rga1}
MCUnknownCores == {odd}
MCCoreLists == {<<rga3, rga2e>>, <<rga2e, odd>>, <<rga1, odd>>}
MCReleases == {<<1, 0, 3>>, <<1, 7, 2>>, <<1, 10, 5>>}
MCDrivers == {<<1, 1, 5>>, <<1, 2, 4>>, <<1, 3, 0>>}
\* Header words: a version each, at and around the rows, and a build number.
MCHeaders == {((v[1] * 2^8 + v[2]) * 2^8 + v[3]) * 2^8 + 11 :
                v \in {<<1, 0, 2>>, <<1, 0, 3>>, <<1, 3, 9>>, <<1, 4, 0>>, <<1, 10, 5>>, <<2, 0, 1>>}}
Symmetry == Permutations(Importers) \cup Permutations(Threads \ Importers)
=============================================================================
