------------------------------ MODULE MCWaitDie -----------------------------
(* WaitDie for TLC.  The ids are ordered, so there is no symmetry. *)
EXTENDS WaitDie
=============================================================================
