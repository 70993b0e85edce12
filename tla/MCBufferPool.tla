---------------------------- MODULE MCBufferPool ----------------------------
(* The clients of the pool are interchangeable where no flusher is one of them. *)
EXTENDS BufferPool, TLC

ClientSymmetry == Permutations(Client \ Flusher)
=============================================================================
