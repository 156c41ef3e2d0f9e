---------------------------- MODULE MCRgaContext ----------------------------
(* RgaContext for TLC.  The run checks liveness, so threads and addresses   *)
(* are not declared symmetric: TLC's symmetry reduction is sound for safety *)
(* only.                                                                    *)
EXTENDS RgaContext
=============================================================================
