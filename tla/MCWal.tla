-------------------------------- MODULE MCWal -------------------------------
(* Wal for TLC.  No symmetry: the run checks a liveness property. *)
EXTENDS Wal
=============================================================================
