--------------------------- MODULE MCSmscDelivery ---------------------------
(* SmscDelivery on small instances. *)
EXTENDS SmscDelivery, TLC

\* Submissions are interchangeable.
Symmetry == Permutations(Sms)
=============================================================================
