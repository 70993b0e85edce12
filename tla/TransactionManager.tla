------------------------- MODULE TransactionManager -------------------------
(***************************************************************************)
(* The transaction manager of db-core: transaction ids, the CLOG, the map  *)
(* of active transactions, the registry of snapshot-only readers and the   *)
(* vacuum horizon.  Every action is one critical section of the code: the  *)
(* CLOG and the active map have locks of their own, so `begin` and         *)
(* `mark_committed`/`mark_aborted` are two steps each, with every other    *)
(* thread free to run in between.                                          *)
(*                                                                         *)
(* A transaction is in the window                                          *)
(*   - between the halves of `begin`  iff  t \in active_txns, clog Absent; *)
(*   - of its own execution           iff  t \in active_txns, clog Active; *)
(*   - between the halves of `mark_*` iff  t \in active_txns, clog settled.*)
(***************************************************************************)
EXTENDS Integers, FiniteSetsExt

CONSTANTS
    MaxTxn,     \* bound: the ids 1 .. MaxTxn are handed out
    Reader      \* the snapshot-only readers that may be open at once

ASSUME MaxTxnAssumption == MaxTxn \in Nat \ {0}

VARIABLES
    next_txn_id,    \* AtomicU64, starts at 1
    clog,           \* TxnId -> status; "Absent" is a key the map lacks
    active_txns,    \* the keys of the active map
    snapshot,       \* TxnId -> the Snapshot `begin` built (its xmin is the map's value)
    readers,        \* Reader -> the Snapshot of an open read, or NoSnapshot
    vacuum_horizon, \* AtomicU64, starts at 0
    sweep_xmin      \* the horizon the running sweep works with, 0 when none runs

tmVars == <<next_txn_id, clog, active_txns, snapshot, readers, vacuum_horizon, sweep_xmin>>

TxnId == 1 .. MaxTxn
Status == {"Absent", "Active", "Committed", "Aborted"}
Settled == {"Committed", "Aborted"}

Snapshot == [xmin : 1 .. MaxTxn + 1, xmax : 1 .. MaxTxn + 1, active : SUBSET TxnId]
NoSnapshot == [xmin |-> 0, xmax |-> 0, active |-> {}]

OpenReaders == {r \in Reader : readers[r] # NoSnapshot}

(* Every snapshot some transaction or reader still works with. *)
LiveSnapshots == {snapshot[t] : t \in active_txns} \cup {readers[r] : r \in OpenReaders}

-----------------------------------------------------------------------------
(* Snapshot and TransactionManager queries. *)

(* Mutant: the xmin of an idle system defaults to the first id. *)
OldestActive_DefaultOne == IF active_txns = {} THEN 1 ELSE Min(active_txns)

(* xmin of a snapshot taken now: the smallest active id, or else the next id. *)
OldestActive == Min(active_txns \cup {next_txn_id})

(* The snapshot of an operation that is not a transaction. *)
GetSnapshot == [xmin |-> OldestActive, xmax |-> next_txn_id, active |-> active_txns]

(* Mutant: asks the active map of now instead of the snapshot's list. *)
IsCommitted_LiveMap(s, t) ==
    \/ t = 0
    \/ t < s.xmax /\ t \notin active_txns /\ clog[t] # "Aborted"

(* Snapshot::is_committed: presumed commit below xmax, outside the active list. *)
IsCommitted(s, t) ==
    \/ t = 0
    \/ t < s.xmax /\ t \notin s.active /\ clog[t] # "Aborted"

(* Snapshot::is_in_progress: the CLOG first, then the snapshot's bounds. *)
IsInProgress(s, t) ==
    /\ t # 0
    /\ clog[t] \notin Settled
    /\ t >= s.xmin
    /\ t >= s.xmax \/ t \in s.active

(* Mutant: the deleter's status of now, not the snapshot's. *)
IsVisible_DeleterNow(s, xmin, xmax) ==
    /\ IsCommitted(s, xmin)
    /\ xmax # 0 => clog[xmax] # "Committed"

(* Snapshot::is_visible *)
IsVisible(s, xmin, xmax) ==
    /\ IsCommitted(s, xmin)
    /\ xmax = 0 \/ ~IsCommitted(s, xmax)

(* Mutant: overlooks the reader registry. *)
GlobalXmin_NoReaders ==
    LET xmins == {snapshot[t].xmin : t \in active_txns}
    IN  IF xmins = {} THEN next_txn_id ELSE Min(xmins)

(* Oldest xmin any live snapshot needs, or the next id when there is none. *)
GlobalXmin ==
    LET xmins == {s.xmin : s \in LiveSnapshots}
    IN  IF xmins = {} THEN next_txn_id ELSE Min(xmins)

-----------------------------------------------------------------------------
TMInit ==
    /\ next_txn_id = 1
    /\ clog = [t \in TxnId |-> "Absent"]
    /\ active_txns = {}
    /\ snapshot = [t \in TxnId |-> NoSnapshot]
    /\ readers = [r \in Reader |-> NoSnapshot]
    /\ vacuum_horizon = 0
    /\ sweep_xmin = 0

(* begin, under the write lock of the active map: take the id, compute xmin
   from the ids active before, register, read xmax and the active list back. *)
BeginRegister(t) ==
    /\ t = next_txn_id
    /\ next_txn_id' = next_txn_id + 1
    /\ active_txns' = active_txns \cup {t}
    /\ snapshot' = [snapshot EXCEPT ![t] =
                       [xmin |-> OldestActive, xmax |-> t + 1, active |-> active_txns \cup {t}]]
    /\ UNCHANGED <<clog, readers, vacuum_horizon, sweep_xmin>>

(* begin, after the lock is dropped: the CLOG entry. *)
BeginClog(t) ==
    /\ t \in active_txns
    /\ clog[t] = "Absent"
    /\ clog' = [clog EXCEPT ![t] = "Active"]
    /\ UNCHANGED <<next_txn_id, active_txns, snapshot, readers, vacuum_horizon, sweep_xmin>>

(* mark_committed / mark_aborted, first critical section: the CLOG entry. *)
SettleClog(t, status) ==
    /\ t \in active_txns
    /\ clog[t] = "Active"
    /\ clog' = [clog EXCEPT ![t] = status]
    /\ UNCHANGED <<next_txn_id, active_txns, snapshot, readers, vacuum_horizon, sweep_xmin>>

(* Mutant: leaves the active map before the CLOG entry is written. *)
SettleRemove_BeforeClog(t) ==
    /\ t \in active_txns
    /\ clog[t] = "Active"
    /\ active_txns' = active_txns \ {t}
    /\ UNCHANGED <<next_txn_id, clog, snapshot, readers, vacuum_horizon, sweep_xmin>>

(* mark_committed / mark_aborted, second critical section: leave the active map. *)
SettleRemove(t) ==
    /\ t \in active_txns
    /\ clog[t] \in Settled
    /\ active_txns' = active_txns \ {t}
    /\ UNCHANGED <<next_txn_id, clog, snapshot, readers, vacuum_horizon, sweep_xmin>>

(* read_snapshot registers its xmin before it drops the active map's lock. *)
ReadSnapshot(r) ==
    /\ readers[r] = NoSnapshot
    /\ readers' = [readers EXCEPT ![r] = GetSnapshot]
    /\ UNCHANGED <<next_txn_id, clog, active_txns, snapshot, vacuum_horizon, sweep_xmin>>

EndRead(r) ==
    /\ readers[r] # NoSnapshot
    /\ readers' = [readers EXCEPT ![r] = NoSnapshot]
    /\ UNCHANGED <<next_txn_id, clog, active_txns, snapshot, vacuum_horizon, sweep_xmin>>

(* vacuum_paced: the horizon of the whole sweep is read once, under vacuum_lock. *)
SweepStart ==
    /\ sweep_xmin = 0
    /\ sweep_xmin' = GlobalXmin
    /\ UNCHANGED <<next_txn_id, clog, active_txns, snapshot, readers, vacuum_horizon>>

(* publish_vacuum_horizon is a fetch_max. *)
SweepPublish ==
    /\ sweep_xmin # 0
    /\ vacuum_horizon' = Max({vacuum_horizon, sweep_xmin})
    /\ sweep_xmin' = 0
    /\ UNCHANGED <<next_txn_id, clog, active_txns, snapshot, readers>>

(* The pacer said stop, or a batch failed: nothing is published. *)
SweepAbandon ==
    /\ sweep_xmin # 0
    /\ sweep_xmin' = 0
    /\ UNCHANGED <<next_txn_id, clog, active_txns, snapshot, readers, vacuum_horizon>>

(* truncate_clog(committed_horizon): Committed entries below the horizon the
   caller passes and Aborted entries below the vacuum horizon are dropped. *)
TruncateClog(committed_horizon) ==
    /\ clog' = [t \in TxnId |->
                   IF \/ clog[t] = "Committed" /\ t < committed_horizon
                      \/ clog[t] = "Aborted" /\ t < vacuum_horizon
                   THEN "Absent" ELSE clog[t]]
    /\ UNCHANGED <<next_txn_id, active_txns, snapshot, readers, vacuum_horizon, sweep_xmin>>

TMNext ==
    \/ \E t \in TxnId :
          \/ BeginRegister(t)
          \/ BeginClog(t)
          \/ \E status \in Settled : SettleClog(t, status)
          \/ SettleRemove(t)
    \/ \E r \in Reader : ReadSnapshot(r) \/ EndRead(r)
    \/ SweepStart
    \/ SweepPublish
    \/ SweepAbandon

TMSpec == TMInit /\ [][TMNext]_tmVars

-----------------------------------------------------------------------------
(* Properties. *)

(* The shape of the manager's state. *)
TMTypeOK ==
    /\ next_txn_id \in 1 .. MaxTxn + 1
    /\ clog \in [TxnId -> Status]
    /\ active_txns \in SUBSET TxnId
    /\ snapshot \in [TxnId -> Snapshot \cup {NoSnapshot}]
    /\ readers \in [Reader -> Snapshot \cup {NoSnapshot}]
    /\ vacuum_horizon \in 0 .. MaxTxn + 1
    /\ sweep_xmin \in 0 .. MaxTxn + 1

(* Presumed commit is sound: `Snapshot::is_committed` answers "committed" for a
   transaction outside the snapshot's active list only because its CLOG entry is
   not Aborted; whenever it does so, on a live snapshot, the transaction really
   has committed and has left the active map. *)
PresumedCommitSound ==
    \A s \in LiveSnapshots, t \in TxnId :
        IsCommitted(s, t) => clog[t] = "Committed" /\ t \notin active_txns

(* The horizon of a running sweep and the published horizon never pass the xmin
   of a snapshot that is live, nor the xmin the next snapshot will get, although
   both are read once and used long after (vacuum_paced, publish_vacuum_horizon). *)
HorizonSafe ==
    \A h \in {sweep_xmin, vacuum_horizon} :
        /\ \A s \in LiveSnapshots : h <= s.xmin
        /\ h <= OldestActive

(* The answer `Snapshot::is_committed` gives a live snapshot about any
   transaction never changes, whoever begins, commits or aborts meanwhile. *)
VerdictsStable ==
    [][\A s \in LiveSnapshots \cap LiveSnapshots', t \in TxnId :
          IsCommitted(s, t)' = IsCommitted(s, t)]_tmVars

(* `global_xmin` never moves backwards: no begin and no read_snapshot can put an
   older xmin under a horizon that vacuum has already read. *)
GlobalXminMonotone == [][GlobalXmin' >= GlobalXmin]_tmVars
=============================================================================
