----------------------------- MODULE MCIm2dFences -----------------------------
(* Im2dFences for TLC: without 0 the descriptors are interchangeable in every *)
(* test but "> 0", which all of them pass.                                    *)
EXTENDS Im2dFences

Sides == {"tb", "lr"}
AllBorders == SUBSET Sides
SomeBorder == SUBSET Sides \ {{}}
FullBorder == {Sides}
===============================================================================
