---------------------- MODULE TransactionManagerProofs ----------------------
(***************************************************************************)
(* Proofs about TransactionManager, for every MaxTxn and every Reader set. *)
(*                                                                         *)
(* The argument.  The CLOG and the active map are updated in separate      *)
(* critical sections, but always in the order that keeps IdsAccounted: an  *)
(* id that was handed out and is no longer active is settled in the CLOG.  *)
(* A snapshot lists every id that was active below its xmax (SnapshotOK),  *)
(* so what it does not list was settled before it was taken, and settled   *)
(* entries never change.  A horizon is a lower bound of everything that    *)
(* could become the xmin of a snapshot (HorizonOK), and that bound can     *)
(* only grow.                                                              *)
(***************************************************************************)
EXTENDS TransactionManager, WellFoundedInduction, TLAPS

-----------------------------------------------------------------------------
(* The inductive invariant. *)

IdsAccounted ==
    \A t \in TxnId :
        /\ t >= next_txn_id => clog[t] = "Absent" /\ t \notin active_txns
        /\ t < next_txn_id /\ t \notin active_txns => clog[t] \in Settled

SnapshotOK(s) ==
    /\ s \in Snapshot
    /\ s.xmin <= s.xmax
    /\ s.xmax <= next_txn_id
    /\ \A a \in s.active : s.xmin <= a
    /\ \A t \in active_txns : t < s.xmax => t \in s.active

HorizonOK(h) ==
    /\ h <= next_txn_id
    /\ \A t \in active_txns : h <= t
    /\ \A s \in LiveSnapshots : h <= s.xmin

TMInv ==
    /\ TMTypeOK
    /\ IdsAccounted
    /\ \A s \in LiveSnapshots : SnapshotOK(s)
    /\ \A t \in active_txns : snapshot[t].xmin <= t
    /\ HorizonOK(sweep_xmin)
    /\ HorizonOK(vacuum_horizon)

-----------------------------------------------------------------------------
(* Min of FiniteSetsExt really is the least element of a nonempty set of
   naturals; `OldestActive` and `GlobalXmin` rest on it. *)
LEMMA MinIsLeast ==
    ASSUME NEW S \in SUBSET Nat, S # {}
    PROVE  Min(S) \in S /\ \A y \in S : Min(S) <= y
<1>1. \E x \in S : \A y \in S : ~(<<y, x>> \in OpToRel(<, Nat))
  BY NatLessThanWellFounded, WFMin, Zenon
<1>2. PICK x \in S : \A y \in S : ~(<<y, x>> \in OpToRel(<, Nat))
  BY <1>1
<1>3. \A y \in S : ~(y < x)
  BY <1>2 DEF OpToRel
<1>4. \A y \in S : x <= y
  BY <1>3
<1> QED
  BY <1>4 DEF Min

(* Max of two numbers, as `fetch_max` uses it. *)
LEMMA MaxOfTwo ==
    ASSUME NEW a \in Int, NEW b \in Int
    PROVE  Max({a, b}) \in {a, b}
BY DEF Max

(* The xmin of a snapshot taken now is a lower bound of the active ids and of
   the next id, and any common lower bound of those is below it. *)
LEMMA OldestActiveIsLeast ==
    ASSUME TMTypeOK
    PROVE  /\ OldestActive \in 1 .. MaxTxn + 1
           /\ OldestActive <= next_txn_id
           /\ \A t \in active_txns : OldestActive <= t
           /\ OldestActive \in active_txns \cup {next_txn_id}
<1> DEFINE ids == active_txns \cup {next_txn_id}
<1>1. ids \in SUBSET Nat /\ ids # {} /\ ids \subseteq 1 .. MaxTxn + 1
  BY MaxTxnAssumption DEF TMTypeOK, TxnId
<1>2. Min(ids) \in ids /\ \A y \in ids : Min(ids) <= y
  BY <1>1, MinIsLeast, Zenon
<1> QED
  BY <1>1, <1>2 DEF OldestActive

(* `global_xmin` is a lower bound of every live xmin, reached by one of them
   unless nothing is live. *)
LEMMA GlobalXminIsLeast ==
    ASSUME TMInv
    PROVE  /\ GlobalXmin \in 1 .. MaxTxn + 1
           /\ \A s \in LiveSnapshots : GlobalXmin <= s.xmin
           /\ \/ LiveSnapshots = {} /\ GlobalXmin = next_txn_id
              \/ \E s \in LiveSnapshots : GlobalXmin = s.xmin
<1> DEFINE xmins == {s.xmin : s \in LiveSnapshots}
<1>1. xmins \in SUBSET Nat /\ xmins \subseteq 1 .. MaxTxn + 1
  BY MaxTxnAssumption DEF TMInv, SnapshotOK, Snapshot
<1>2. CASE xmins = {}
  <2>1. LiveSnapshots = {} /\ GlobalXmin = next_txn_id
    BY <1>2 DEF GlobalXmin
  <2> QED
    BY <2>1 DEF TMInv, TMTypeOK
<1>3. CASE xmins # {}
  <2>1. Min(xmins) \in xmins /\ \A y \in xmins : Min(xmins) <= y
    BY <1>1, <1>3, MinIsLeast, Zenon
  <2>2. GlobalXmin = Min(xmins)
    BY <1>3 DEF GlobalXmin
  <2> QED
    BY <1>1, <2>1, <2>2
<1> QED
  BY <1>2, <1>3

(* `global_xmin` is a safe horizon at the moment it is read. *)
LEMMA GlobalXminIsHorizon ==
    ASSUME TMInv
    PROVE  HorizonOK(GlobalXmin)
<1>1. \A s \in LiveSnapshots : GlobalXmin <= s.xmin
  BY GlobalXminIsLeast
<1>2. GlobalXmin \in Int /\ next_txn_id \in Int /\ active_txns \subseteq Int
  BY GlobalXminIsLeast, MaxTxnAssumption DEF TMInv, TMTypeOK, TxnId
<1>3. \A t \in active_txns : GlobalXmin <= t
  <2> SUFFICES ASSUME NEW t \in active_txns PROVE GlobalXmin <= t
    OBVIOUS
  <2>1. snapshot[t] \in LiveSnapshots
    BY DEF LiveSnapshots
  <2>2. snapshot[t].xmin \in Int /\ snapshot[t].xmin <= t
    BY <2>1 DEF TMInv, SnapshotOK, Snapshot
  <2> QED
    BY <1>1, <1>2, <2>1, <2>2
<1>4. GlobalXmin <= next_txn_id
  <2>1. CASE LiveSnapshots = {}
    BY <2>1, <1>2, GlobalXminIsLeast
  <2>2. ASSUME NEW s \in LiveSnapshots, GlobalXmin = s.xmin
        PROVE  GlobalXmin <= next_txn_id
    BY <2>2, <1>2 DEF TMInv, SnapshotOK, Snapshot
  <2> QED
    BY <2>1, <2>2, GlobalXminIsLeast
<1> QED
  BY <1>1, <1>3, <1>4 DEF HorizonOK

-----------------------------------------------------------------------------
(* The invariant holds initially and every action preserves it. *)

(* A fresh manager (TransactionManager::new) satisfies the invariant. *)
LEMMA TMInitInv == TMInit => TMInv
<1> SUFFICES ASSUME TMInit PROVE TMInv
  OBVIOUS
<1> USE DEF TMInit
<1>1. TMTypeOK
  BY MaxTxnAssumption DEF TMTypeOK, TxnId, Status
<1>2. LiveSnapshots = {}
  BY DEF LiveSnapshots, OpenReaders
<1>3. IdsAccounted
  BY DEF IdsAccounted, TxnId
<1>4. HorizonOK(sweep_xmin) /\ HorizonOK(vacuum_horizon)
  BY <1>2 DEF HorizonOK
<1> QED
  BY <1>1, <1>2, <1>3, <1>4 DEF TMInv

(* A step that leaves the ids and the active map alone and adds no snapshot keeps
   every snapshot and every horizon sound. *)
LEMMA StableSnapshots ==
    ASSUME TMInv, next_txn_id' = next_txn_id, active_txns' \subseteq active_txns,
           LiveSnapshots' \subseteq LiveSnapshots, snapshot' = snapshot
    PROVE  /\ \A s \in LiveSnapshots' : SnapshotOK(s)'
           /\ \A t \in active_txns' : snapshot'[t].xmin <= t
           /\ \A h : HorizonOK(h) => HorizonOK(h)'
<1>1. \A s \in LiveSnapshots' : SnapshotOK(s)'
  BY DEF TMInv, SnapshotOK
<1>2. \A t \in active_txns' : snapshot'[t].xmin <= t
  BY DEF TMInv
<1>3. \A h : HorizonOK(h) => HorizonOK(h)'
  BY DEF HorizonOK
<1> QED
  BY <1>1, <1>2, <1>3

(* begin's critical section: the new id is the largest, so it lists every active
   id, and its xmin is no smaller than a horizon handed out before. *)
LEMMA BeginRegisterInv ==
    ASSUME TMInv, NEW t \in TxnId, BeginRegister(t)
    PROVE  TMInv'
<1> DEFINE s0 == [xmin |-> OldestActive, xmax |-> t + 1, active |-> active_txns \cup {t}]
<1>0. /\ TMTypeOK /\ IdsAccounted /\ t = next_txn_id /\ t \notin active_txns
      /\ next_txn_id \in Int /\ t \in Int /\ active_txns \subseteq TxnId
      /\ next_txn_id' = t + 1 /\ active_txns' = active_txns \cup {t}
      /\ snapshot' = [snapshot EXCEPT ![t] = s0]
      /\ UNCHANGED <<clog, readers, vacuum_horizon, sweep_xmin>>
  BY DEF TMInv, TMTypeOK, IdsAccounted, BeginRegister, TxnId
<1>1. /\ OldestActive \in 1 .. MaxTxn + 1 /\ OldestActive <= t
      /\ \A a \in active_txns : OldestActive <= a
      /\ OldestActive \in active_txns \cup {t}
  BY <1>0, OldestActiveIsLeast
<1>2. s0 \in Snapshot
  BY <1>0, <1>1, MaxTxnAssumption DEF Snapshot, TxnId
<1>3. TMTypeOK'
  BY <1>0, <1>2, MaxTxnAssumption DEF TMTypeOK, TxnId
<1>4. IdsAccounted'
  BY <1>0 DEF IdsAccounted, TxnId
<1>5. LiveSnapshots' \subseteq LiveSnapshots \cup {s0}
  BY <1>0 DEF LiveSnapshots, OpenReaders, TMTypeOK
<1>6. \A s \in LiveSnapshots' : SnapshotOK(s)'
  <2> SUFFICES ASSUME NEW s \in LiveSnapshots' PROVE SnapshotOK(s)'
    OBVIOUS
  <2>1. CASE s = s0
    BY <1>0, <1>1, <1>2, <2>1 DEF SnapshotOK, TxnId
  <2>2. CASE s \in LiveSnapshots
    <3>1. SnapshotOK(s)
      BY <2>2 DEF TMInv
    <3>2. s.xmax <= t /\ s.xmax \in Int
      BY <3>1, <1>0 DEF SnapshotOK, Snapshot
    <3> QED
      BY <3>1, <3>2, <1>0 DEF SnapshotOK, TxnId
  <2> QED
    BY <1>5, <2>1, <2>2
<1>7. \A u \in active_txns' : snapshot'[u].xmin <= u
  BY <1>0, <1>1 DEF TMInv, TMTypeOK
<1>8. \A h \in Int : HorizonOK(h) => HorizonOK(h)'
  <2> SUFFICES ASSUME NEW h \in Int, HorizonOK(h) PROVE HorizonOK(h)'
    OBVIOUS
  <2>1. h <= next_txn_id' /\ \A u \in active_txns' : h <= u
    BY <1>0 DEF HorizonOK
  <2>2. h <= s0.xmin
    BY <1>0, <1>1 DEF HorizonOK
  <2> QED
    BY <1>5, <2>1, <2>2 DEF HorizonOK
<1> QED
  BY <1>0, <1>3, <1>4, <1>6, <1>7, <1>8 DEF TMInv, TMTypeOK

(* begin's CLOG entry concerns an active id only. *)
LEMMA BeginClogInv ==
    ASSUME TMInv, NEW t \in TxnId, BeginClog(t)
    PROVE  TMInv'
<1> USE DEF BeginClog
<1>1. TMTypeOK'
  BY DEF TMInv, TMTypeOK, Status
<1>2. IdsAccounted'
  BY DEF TMInv, TMTypeOK, IdsAccounted
<1>3. LiveSnapshots' = LiveSnapshots
  BY DEF LiveSnapshots, OpenReaders
<1> QED
  BY <1>1, <1>2, <1>3, StableSnapshots DEF TMInv

(* The CLOG write of mark_committed and mark_aborted settles an id that is still
   active, hence listed in every live snapshot that could name it. *)
LEMMA SettleClogInv ==
    ASSUME TMInv, NEW t \in TxnId, NEW status \in Settled, SettleClog(t, status)
    PROVE  TMInv'
<1> USE DEF SettleClog
<1>1. TMTypeOK'
  BY DEF TMInv, TMTypeOK, Status, Settled
<1>2. IdsAccounted'
  BY DEF TMInv, TMTypeOK, IdsAccounted
<1>3. LiveSnapshots' = LiveSnapshots
  BY DEF LiveSnapshots, OpenReaders
<1> QED
  BY <1>1, <1>2, <1>3, StableSnapshots DEF TMInv

(* Leaving the active map comes after the CLOG write, so the id stays accounted for. *)
LEMMA SettleRemoveInv ==
    ASSUME TMInv, NEW t \in TxnId, SettleRemove(t)
    PROVE  TMInv'
<1> USE DEF SettleRemove
<1>1. TMTypeOK'
  BY DEF TMInv, TMTypeOK
<1>2. IdsAccounted'
  BY DEF TMInv, TMTypeOK, IdsAccounted
<1>3. LiveSnapshots' \subseteq LiveSnapshots
  BY DEF LiveSnapshots, OpenReaders
<1> QED
  BY <1>1, <1>2, <1>3, StableSnapshots DEF TMInv

(* read_snapshot registers its xmin under the lock that begin and global_xmin take,
   so no horizon can overtake it. *)
LEMMA ReadSnapshotInv ==
    ASSUME TMInv, NEW r \in Reader, ReadSnapshot(r)
    PROVE  TMInv'
<1>0. /\ TMTypeOK /\ readers' = [readers EXCEPT ![r] = GetSnapshot]
      /\ UNCHANGED <<next_txn_id, clog, active_txns, snapshot, vacuum_horizon, sweep_xmin>>
  BY DEF TMInv, ReadSnapshot
<1>1. /\ OldestActive \in 1 .. MaxTxn + 1 /\ OldestActive <= next_txn_id
      /\ \A a \in active_txns : OldestActive <= a
      /\ OldestActive \in active_txns \cup {next_txn_id}
  BY <1>0, OldestActiveIsLeast
<1>2. GetSnapshot \in Snapshot
  BY <1>0, <1>1 DEF GetSnapshot, Snapshot, TMTypeOK
<1>3. TMTypeOK'
  BY <1>0, <1>2 DEF TMTypeOK
<1>4. IdsAccounted'
  BY <1>0 DEF TMInv, IdsAccounted
<1>5. LiveSnapshots' \subseteq LiveSnapshots \cup {GetSnapshot}
  BY <1>0 DEF LiveSnapshots, OpenReaders, TMTypeOK
<1>6. SnapshotOK(GetSnapshot)'
  BY <1>0, <1>1, <1>2 DEF SnapshotOK, GetSnapshot, OldestActive, TMTypeOK
<1>7. \A s \in LiveSnapshots : SnapshotOK(s)'
  BY <1>0 DEF TMInv, SnapshotOK
<1>8. \A h \in Int : HorizonOK(h) => HorizonOK(h)'
  BY <1>0, <1>1, <1>5 DEF HorizonOK, GetSnapshot
<1>9. GetSnapshot' = GetSnapshot
  BY <1>0 DEF GetSnapshot, OldestActive
<1> QED
  BY <1>0, <1>3, <1>4, <1>5, <1>6, <1>7, <1>8, <1>9 DEF TMInv, TMTypeOK

(* end_read only shrinks the set of live snapshots. *)
LEMMA EndReadInv ==
    ASSUME TMInv, NEW r \in Reader, EndRead(r)
    PROVE  TMInv'
<1> USE DEF EndRead
<1>1. TMTypeOK'
  BY DEF TMInv, TMTypeOK
<1>2. IdsAccounted'
  BY DEF TMInv, IdsAccounted
<1>3. LiveSnapshots' \subseteq LiveSnapshots
  BY DEF TMInv, TMTypeOK, LiveSnapshots, OpenReaders
<1> QED
  BY <1>1, <1>2, <1>3, StableSnapshots DEF TMInv

(* Publishing keeps the larger of two safe horizons; the other sweep steps only
   touch sweep_xmin. *)
LEMMA SweepInv ==
    ASSUME TMInv, SweepStart \/ SweepPublish \/ SweepAbandon
    PROVE  TMInv'
<1>0. UNCHANGED <<next_txn_id, clog, active_txns, snapshot, readers>>
  BY DEF SweepStart, SweepPublish, SweepAbandon
<1>1. LiveSnapshots' = LiveSnapshots
  BY <1>0 DEF LiveSnapshots, OpenReaders
<1>2. IdsAccounted'
  BY <1>0 DEF TMInv, IdsAccounted
<1>3. /\ \A s \in LiveSnapshots' : SnapshotOK(s)'
      /\ \A t \in active_txns' : snapshot'[t].xmin <= t
      /\ \A h : HorizonOK(h) => HorizonOK(h)'
  BY <1>0, <1>1, StableSnapshots
<1>4. HorizonOK(0)
  BY MaxTxnAssumption DEF TMInv, TMTypeOK, HorizonOK, SnapshotOK, Snapshot, TxnId
<1>5. /\ GlobalXmin \in 1 .. MaxTxn + 1 /\ HorizonOK(GlobalXmin)
      /\ Max({vacuum_horizon, sweep_xmin}) \in {vacuum_horizon, sweep_xmin}
  BY GlobalXminIsLeast, GlobalXminIsHorizon, MaxOfTwo, MaxTxnAssumption DEF TMInv, TMTypeOK
<1>6. /\ sweep_xmin' \in {0, GlobalXmin}
      /\ vacuum_horizon' \in {vacuum_horizon, sweep_xmin}
  BY <1>5 DEF SweepStart, SweepPublish, SweepAbandon
<1>7. TMTypeOK'
  BY <1>0, <1>5, <1>6, MaxTxnAssumption DEF TMInv, TMTypeOK
<1>8. HorizonOK(sweep_xmin') /\ HorizonOK(vacuum_horizon')
  BY <1>4, <1>5, <1>6 DEF TMInv
<1>9. HorizonOK(sweep_xmin)' /\ HorizonOK(vacuum_horizon)'
  BY <1>0, <1>1, <1>8 DEF HorizonOK
<1> QED
  BY <1>2, <1>3, <1>7, <1>9 DEF TMInv

(* The invariant is inductive. *)
LEMMA TMNextInv == TMInv /\ [TMNext]_tmVars => TMInv'
<1> SUFFICES ASSUME TMInv, [TMNext]_tmVars PROVE TMInv'
  OBVIOUS
<1>1. CASE \E t \in TxnId : BeginRegister(t)
  BY <1>1, BeginRegisterInv
<1>2. CASE \E t \in TxnId : BeginClog(t)
  BY <1>2, BeginClogInv
<1>3. CASE \E t \in TxnId, status \in Settled : SettleClog(t, status)
  BY <1>3, SettleClogInv
<1>4. CASE \E t \in TxnId : SettleRemove(t)
  BY <1>4, SettleRemoveInv
<1>5. CASE \E r \in Reader : ReadSnapshot(r)
  BY <1>5, ReadSnapshotInv
<1>6. CASE \E r \in Reader : EndRead(r)
  BY <1>6, EndReadInv
<1>7. CASE SweepStart \/ SweepPublish \/ SweepAbandon
  BY <1>7, SweepInv
<1>8. CASE UNCHANGED tmVars
  BY <1>8 DEF tmVars, TMInv, TMTypeOK, IdsAccounted, HorizonOK, SnapshotOK,
              LiveSnapshots, OpenReaders
<1> QED
  BY <1>1, <1>2, <1>3, <1>4, <1>5, <1>6, <1>7, <1>8 DEF TMNext

(* The invariant holds in every reachable state. *)
THEOREM TMInvariant == TMSpec => []TMInv
BY TMInitInv, TMNextInv, PTL DEF TMSpec

-----------------------------------------------------------------------------
(* What the invariant gives. *)

(* An id below a live snapshot's xmax that the snapshot does not list as active
   was settled, for good, before the snapshot was taken. *)
LEMMA UnlistedIsSettled ==
    ASSUME TMInv, NEW s \in LiveSnapshots, NEW t \in TxnId, t < s.xmax, t \notin s.active
    PROVE  clog[t] \in Settled /\ t \notin active_txns
<1>1. SnapshotOK(s)
  BY DEF TMInv
<1>2. t \notin active_txns
  BY <1>1 DEF SnapshotOK
<1>3. t < next_txn_id
  BY <1>1 DEF SnapshotOK, Snapshot, TMInv, TMTypeOK, TxnId
<1> QED
  BY <1>2, <1>3 DEF TMInv, IdsAccounted

(* An id below xmax that a snapshot does not list is not active (SnapshotOK), hence
   settled (IdsAccounted). *)
LEMMA PresumedCommitFromInv == TMInv => PresumedCommitSound
BY UnlistedIsSettled DEF PresumedCommitSound, IsCommitted, Settled, TxnId

(* `Snapshot::is_committed` says "committed" only of transactions that did commit
   (presumed commit is sound), for every number of transactions and readers. *)
THEOREM PresumedCommitTheorem == TMSpec => []PresumedCommitSound
BY TMInvariant, PresumedCommitFromInv, PTL

(* The horizon bound is part of the invariant. *)
LEMMA HorizonFromInv == TMInv => HorizonSafe
<1> SUFFICES ASSUME TMInv PROVE HorizonSafe
  OBVIOUS
<1>1. OldestActive \in active_txns \cup {next_txn_id}
  BY OldestActiveIsLeast DEF TMInv
<1> QED
  BY <1>1 DEF TMInv, HorizonOK, HorizonSafe

(* No running or published vacuum horizon ever passes the xmin of a live or a
   future snapshot. *)
THEOREM HorizonTheorem == TMSpec => []HorizonSafe
BY TMInvariant, HorizonFromInv, PTL

(* A CLOG entry that decides a live snapshot's verdict does not change. *)
LEMMA VerdictStep ==
    ASSUME TMInv, [TMNext]_tmVars,
           NEW s \in LiveSnapshots \cap LiveSnapshots', NEW t \in TxnId
    PROVE  IsCommitted(s, t)' = IsCommitted(s, t)
<1>1. clog[t] \in Settled => clog'[t] = clog[t]
  BY DEF TMInv, TMTypeOK, TMNext, tmVars, Settled, BeginRegister, BeginClog, SettleClog,
         SettleRemove, ReadSnapshot, EndRead, SweepStart, SweepPublish, SweepAbandon
<1>2. t < s.xmax /\ t \notin s.active => clog[t] \in Settled
  BY UnlistedIsSettled
<1> QED
  BY <1>1, <1>2 DEF IsCommitted

(* The answer a live snapshot gives about a transaction never changes: what
   repeatable reads rest on. *)
THEOREM VerdictsTheorem == TMSpec => VerdictsStable
<1>1. TMInv /\ [TMNext]_tmVars =>
        [\A s \in LiveSnapshots \cap LiveSnapshots', t \in TxnId :
            IsCommitted(s, t)' = IsCommitted(s, t)]_tmVars
  BY VerdictStep
<1> QED
  BY <1>1, TMInvariant, PTL DEF TMSpec, VerdictsStable

(* Only `begin` and `read_snapshot` create a snapshot, and its xmin is the oldest
   active id or the next id. *)
LEMMA NewSnapshotXmin ==
    ASSUME TMInv, [TMNext]_tmVars
    PROVE  /\ \A s \in LiveSnapshots' : s \in LiveSnapshots \/ s.xmin = OldestActive
           /\ active_txns' \subseteq active_txns \cup {next_txn_id}
           /\ next_txn_id' \in {next_txn_id, next_txn_id + 1}
<1> USE DEF LiveSnapshots, OpenReaders
<1>0. TMTypeOK
  BY DEF TMInv
<1>1. ASSUME NEW t \in TxnId, BeginRegister(t)
      PROVE  /\ \A s \in LiveSnapshots' : s \in LiveSnapshots \/ s.xmin = OldestActive
             /\ active_txns' \subseteq active_txns \cup {next_txn_id}
             /\ next_txn_id' = next_txn_id + 1
  BY <1>0, <1>1 DEF BeginRegister, TMTypeOK
<1>2. ASSUME NEW r \in Reader, ReadSnapshot(r)
      PROVE  /\ \A s \in LiveSnapshots' : s \in LiveSnapshots \/ s.xmin = OldestActive
             /\ UNCHANGED <<active_txns, next_txn_id>>
  BY <1>0, <1>2 DEF ReadSnapshot, GetSnapshot, TMTypeOK
<1>3. ASSUME NEW r \in Reader, EndRead(r)
      PROVE  LiveSnapshots' \subseteq LiveSnapshots /\ UNCHANGED <<active_txns, next_txn_id>>
  BY <1>0, <1>3 DEF EndRead, TMTypeOK
<1>4. ASSUME NEW t \in TxnId, BeginClog(t) \/ SettleRemove(t)
                                \/ \E status \in Settled : SettleClog(t, status)
      PROVE  /\ LiveSnapshots' \subseteq LiveSnapshots
             /\ active_txns' \subseteq active_txns /\ UNCHANGED next_txn_id
  BY <1>4 DEF BeginClog, SettleClog, SettleRemove
<1>5. ASSUME SweepStart \/ SweepPublish \/ SweepAbandon \/ UNCHANGED tmVars
      PROVE  LiveSnapshots' = LiveSnapshots /\ UNCHANGED <<active_txns, next_txn_id>>
  BY <1>5 DEF SweepStart, SweepPublish, SweepAbandon, tmVars
<1> QED
  BY <1>1, <1>2, <1>3, <1>4, <1>5 DEF TMNext

(* A bound on all present and future xmins stays one after any step. *)
LEMMA HorizonStep ==
    ASSUME TMInv, [TMNext]_tmVars, NEW h \in Int, HorizonOK(h)
    PROVE  HorizonOK(h)'
<1>1. next_txn_id \in Int /\ active_txns \subseteq Int
  BY MaxTxnAssumption DEF TMInv, TMTypeOK, TxnId
<1>2. h <= OldestActive
  BY OldestActiveIsLeast DEF TMInv, HorizonOK
<1>3. h <= next_txn_id' /\ \A t \in active_txns' : h <= t
  <2>1. h <= next_txn_id /\ \A t \in active_txns : h <= t
    BY DEF HorizonOK
  <2>2. /\ active_txns' \subseteq active_txns \cup {next_txn_id}
        /\ next_txn_id' \in {next_txn_id, next_txn_id + 1}
    BY NewSnapshotXmin
  <2> QED
    BY <1>1, <2>1, <2>2
<1>4. \A s \in LiveSnapshots' : h <= s.xmin
  BY <1>2, NewSnapshotXmin DEF HorizonOK
<1> QED
  BY <1>3, <1>4 DEF HorizonOK

(* `global_xmin` never moves backwards, so a horizon read by vacuum cannot be
   undercut by a snapshot taken later. *)
THEOREM GlobalXminTheorem == TMSpec => GlobalXminMonotone
<1> DEFINE Attained == /\ GlobalXmin \in Int
                       /\ \/ GlobalXmin = next_txn_id
                          \/ \E s \in LiveSnapshots : GlobalXmin = s.xmin
<1>1. TMInv => Attained
  BY GlobalXminIsLeast
<1>2. TMInv' => Attained'
  BY <1>1, PTL
<1>3. ASSUME TMInv, TMInv', [TMNext]_tmVars
      PROVE  GlobalXmin' >= GlobalXmin
  <2>1. PICK g \in Int : g = GlobalXmin
    BY <1>1, <1>3
  <2>2. HorizonOK(g)
    BY <2>1, <1>3, GlobalXminIsHorizon
  <2>3. HorizonOK(g)'
    BY <1>3, <2>2, HorizonStep
  <2>4. g <= GlobalXmin'
    BY <1>2, <1>3, <2>3 DEF HorizonOK
  <2> QED
    BY <1>2, <1>3, <2>1, <2>4
<1>4. TMInv /\ TMInv' /\ [TMNext]_tmVars => [GlobalXmin' >= GlobalXmin]_tmVars
  BY <1>3
<1> QED
  BY <1>4, TMInvariant, PTL DEF TMSpec, GlobalXminMonotone
=============================================================================
