---------------------------- MODULE MCMscSmsLink ----------------------------
(* Instances of MscSmsLink for TLC. *)
EXTENDS MscSmsLink
=============================================================================
