----------------------------- MODULE MCSmscSweep -----------------------------
(* SmscSweep on a small table. *)
EXTENDS SmscSweep

CONSTANTS u1, u2, r1

\* Two messages whose handsets do not answer, both newer than one whose does.
ThreeRows == <<u1, u2, r1>>
=============================================================================
