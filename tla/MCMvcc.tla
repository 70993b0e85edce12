------------------------------- MODULE MCMvcc -------------------------------
(* Mvcc for TLC: readers, keys and version slots are interchangeable. *)
EXTENDS Mvcc, TLC

(* Bound: with an autocommit reader open the last transaction id is not handed out. *)
FewSnapshots == OpenReaders = {} \/ next_txn_id <= MaxTxn

Symmetry == Permutations(Reader) \cup Permutations(Key) \cup Permutations(VersionId)
=============================================================================
