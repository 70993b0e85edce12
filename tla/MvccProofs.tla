----------------------------- MODULE MvccProofs -----------------------------
(***************************************************************************)
(* Proofs about Mvcc, for every number of transactions, readers, keys and  *)
(* version slots: reads are repeatable, and a published vacuum horizon     *)
(* leaves no version of an aborted creator below it.                       *)
(*                                                                         *)
(* The argument.  The manager's invariant TMInv holds here too: each step  *)
(* of Mvcc is a step of TransactionManager or leaves the manager alone.    *)
(* A writer is active, so no live snapshot counts what it stamps as        *)
(* committed; a claim it overwrites was void for every snapshot.  What     *)
(* vacuum removes is dead below the sweep's horizon, which no live         *)
(* snapshot's xmin undercuts.  A deleter whose CLOG entry was not settled  *)
(* when vacuum read it was running after the horizon was taken, so it is   *)
(* not below the horizon: the stale read in settled_status is harmless.    *)
(***************************************************************************)
EXTENDS Mvcc, TransactionManagerProofs

-----------------------------------------------------------------------------
(* The inductive invariant. *)

VersionsOK ==
    /\ versions \subseteq Version
    /\ \A v, w \in versions : v.id = w.id => v = w

CallsOK ==
    /\ call \in [TxnId -> [op : {"idle", "insert", "delete", "update", "successor"},
                           key : Key \cup {NoKey}, on : 0 .. MaxTxn]]
    /\ poisoned \subseteq TxnId
    /\ \A t \in TxnId : call[t] # Idle =>
          t \in active_txns /\ clog[t] = "Active" /\ call[t].key \in Key

SweepOK ==
    /\ sweep \in [todo : SUBSET Key, leaf : Key \cup {NoKey}, rest : SUBSET VersionId,
                  probe : VersionId \cup {NoVersion}]
    /\ sweep_xmin = 0 => sweep = NoSweep
    /\ sweep.leaf = NoKey => sweep.rest = {} /\ sweep.probe = NoVersion

(* The versions still to be judged are on the latched leaf; the deleter of the
   one in the probe was running after the sweep began. *)
ProbeOK ==
    /\ \A i \in sweep.rest : \E v \in versions : v.id = i /\ v.key = sweep.leaf
    /\ sweep.probe # NoVersion =>
         \E v \in versions : v.id = sweep.probe /\ v.key = sweep.leaf /\ v.xmax >= sweep_xmin

(* What the sweep has passed holds no version of an aborted creator below its
   horizon. *)
PassedLeavesClean ==
    sweep_xmin # 0 =>
        \A v \in versions : clog[v.xmin] = "Aborted" /\ v.xmin < sweep_xmin =>
                               v.key \in sweep.todo \/ v.id \in sweep.rest

Inv ==
    /\ TMInv
    /\ VersionsOK
    /\ CallsOK
    /\ SweepOK
    /\ ProbeOK
    /\ PassedLeavesClean
    /\ AbortedCreatorsSwept

-----------------------------------------------------------------------------
(* Every step of Mvcc is a step of the transaction manager, or none. *)
LEMMA NextIsTMNext == [Next]_vars => [TMNext]_tmVars
<1> SUFFICES ASSUME [Next]_vars PROVE [TMNext]_tmVars
  OBVIOUS
<1>1. CASE Transactions
  BY <1>1 DEF Transactions, TMNext, Settled, Commit, Abort, Insert, Delete, Update, Supersede,
              UpdateInsert, CallFails
<1>2. CASE Readers
  BY <1>2 DEF Readers, TMNext
<1>3. CASE Vacuum
  BY <1>3 DEF Vacuum, TMNext, VacuumStart, LatchLeaf, Judge, JudgeUnknown, UnlatchLeaf, VacuumEnd
<1>4. CASE UNCHANGED vars
  BY <1>4 DEF vars, tmVars
<1> QED
  BY <1>1, <1>2, <1>3, <1>4 DEF Next

(* An empty index satisfies the invariant. *)
LEMMA InitInv == Init => Inv
<1> SUFFICES ASSUME Init PROVE Inv
  OBVIOUS
<1>1. TMInv
  BY TMInitInv DEF Init
<1>2. VersionsOK /\ AbortedCreatorsSwept /\ PassedLeavesClean
  BY DEF Init, VersionsOK, AbortedCreatorsSwept, PassedLeavesClean
<1>3. CallsOK
  BY MaxTxnAssumption DEF Init, CallsOK, Idle
<1>4. SweepOK /\ ProbeOK
  BY DEF Init, SweepOK, ProbeOK, NoSweep
<1> QED
  BY <1>1, <1>2, <1>3, <1>4 DEF Inv

(* A transaction that is active is below no horizon. *)
LEMMA ActiveAboveHorizon ==
    ASSUME Inv, NEW t \in active_txns
    PROVE  t >= sweep_xmin /\ t >= vacuum_horizon
BY MaxTxnAssumption DEF Inv, TMInv, TMTypeOK, HorizonOK, TxnId

-----------------------------------------------------------------------------
(* What an index call does, whichever it is: on a leaf the sweep does not hold, and
   in the name of an active transaction, it claims a version or adds one, perhaps
   compacting the leaf before. *)

CallRecord == [op : {"idle", "insert", "delete", "update", "successor"},
               key : Key \cup {NoKey}, on : 0 .. MaxTxn]

Claims(t, v) ==
    /\ ClaimIsVoid(t, v)
    /\ versions' = (versions \ {v}) \cup {[v EXCEPT !.xmax = t]}

Writes(t) ==
    \/ UNCHANGED versions
    \/ \E k \in Key \ {sweep.leaf} : AddVersion(t, k) \/ \E v \in VersionsOf(k) : Claims(t, v)

CallEffect(t) ==
    /\ t \in active_txns /\ clog[t] = "Active"
    /\ Writes(t)
    /\ \E c \in CallRecord :
          (c # Idle => c.key \in Key) /\ call' = [call EXCEPT ![t] = c]
    /\ poisoned' \subseteq poisoned \cup {t}
    /\ UNCHANGED <<tmVars, sweep>>

(* A call that returns leaves an idle call record. *)
LEMMA ReturnEffect ==
    ASSUME NEW t \in TxnId, Return(t)
    PROVE  \E c \in CallRecord : (c # Idle => c.key \in Key) /\ call' = [call EXCEPT ![t] = c]
<1>1. Idle \in CallRecord
  BY MaxTxnAssumption DEF Idle, CallRecord
<1> QED
  BY <1>1 DEF Return

(* A call that meets a pending transaction either kills its own handle or goes to
   sleep; it writes nothing. *)
LEMMA WaitForEffect ==
    ASSUME NEW t \in TxnId, NEW op \in {"insert", "delete", "update"}, NEW k \in Key,
           NEW blocker \in TxnId, WaitFor(t, op, k, blocker)
    PROVE  /\ \E c \in CallRecord : (c # Idle => c.key \in Key) /\ call' = [call EXCEPT ![t] = c]
           /\ UNCHANGED versions
           /\ poisoned' \subseteq poisoned \cup {t}
<1>1. CASE t > blocker
  BY <1>1, ReturnEffect DEF WaitFor, Die
<1>2. CASE ~(t > blocker)
  <2> DEFINE c == [op |-> op, key |-> k, on |-> blocker]
  <2>1. c \in CallRecord /\ c.key \in Key
    BY DEF CallRecord, TxnId
  <2> QED
    BY <1>2, <2>1 DEF WaitFor
<1> QED
  BY <1>1, <1>2

(* insert writes at most one fresh version of its key, stamped with its own id. *)
LEMMA InsertEffect ==
    ASSUME Inv, NEW t \in TxnId, NEW k \in Key, Insert(t, k)
    PROVE  CallEffect(t)
<1>0. t \in active_txns /\ clog[t] = "Active" /\ k # sweep.leaf /\ UNCHANGED <<tmVars, sweep>>
  BY DEF Insert, CanRun
<1>1. \A v \in VersionsOf(k) : v.xmin \in TxnId /\ (v.xmax # 0 => v.xmax \in TxnId)
  BY DEF Inv, VersionsOK, Version, VersionsOf, TxnId
<1>2. CASE \E v \in VersionsOf(k) : CreatorPending(t, v) /\ WaitFor(t, "insert", k, v.xmin)
  BY <1>0, <1>1, <1>2, WaitForEffect DEF CallEffect, Writes
<1>3. CASE Return(t) /\ UNCHANGED <<versions, poisoned>>
  BY <1>0, <1>3, ReturnEffect DEF CallEffect, Writes
<1>4. CASE \E v \in VersionsOf(k) : DeleterPending(t, v) /\ WaitFor(t, "insert", k, v.xmax)
  BY <1>0, <1>1, <1>4, WaitForEffect DEF CallEffect, Writes, DeleterPending
<1>5. CASE AddVersion(t, k) /\ Return(t) /\ UNCHANGED poisoned
  BY <1>0, <1>5, ReturnEffect DEF CallEffect, Writes
<1> QED
  BY <1>2, <1>3, <1>4, <1>5 DEF Insert

(* delete and the first half of update write at most a claim over a void one. *)
LEMMA SupersedeEffect ==
    ASSUME Inv, NEW t \in TxnId, NEW k \in Key, NEW op \in {"delete", "update"},
           NEW after \in CallRecord, after # Idle => after.key \in Key,
           Supersede(t, op, k, after)
    PROVE  CallEffect(t)
<1>0. t \in active_txns /\ clog[t] = "Active" /\ k # sweep.leaf /\ UNCHANGED <<tmVars, sweep>>
  BY DEF Supersede, CanRun
<1>1. \A v \in VersionsOf(k) : v.xmax # 0 => v.xmax \in TxnId
  BY DEF Inv, VersionsOK, Version, VersionsOf, TxnId
<1>2. CASE Return(t) /\ UNCHANGED <<versions, poisoned>>
  BY <1>0, <1>2, ReturnEffect DEF CallEffect, Writes
<1>3. CASE \E v \in VersionsOf(k) : DeleterPending(t, v) /\ WaitFor(t, op, k, v.xmax)
  BY <1>0, <1>1, <1>3, WaitForEffect DEF CallEffect, Writes, DeleterPending
<1>4. CASE \E v \in VersionsOf(k) :
              /\ ClaimIsVoid(t, v)
              /\ versions' = (versions \ {v}) \cup {[v EXCEPT !.xmax = t]}
              /\ call' = [call EXCEPT ![t] = after]
              /\ UNCHANGED poisoned
  BY <1>0, <1>4 DEF CallEffect, Writes, Claims
<1>5. CASE Die(t)
  BY <1>0, <1>5, ReturnEffect DEF CallEffect, Writes, Die
<1> QED
  BY <1>2, <1>3, <1>4, <1>5 DEF Supersede

(* Every index call acts for an active transaction and writes at most one version or
   one claim, on a leaf the sweep does not hold. *)
LEMMA CallSteps ==
    ASSUME Inv, NEW t \in TxnId,
           \/ \E k \in Key : Insert(t, k) \/ Delete(t, k) \/ Update(t, k)
           \/ UpdateInsert(t)
           \/ CallFails(t)
    PROVE  CallEffect(t)
<1>1. CASE \E k \in Key : Insert(t, k)
  BY <1>1, InsertEffect
<1>2. ASSUME NEW k \in Key, Delete(t, k) PROVE CallEffect(t)
  <2>1. Idle \in CallRecord
    BY MaxTxnAssumption DEF Idle, CallRecord
  <2> QED
    BY <1>2, <2>1, SupersedeEffect DEF Delete
<1>3. ASSUME NEW k \in Key, Update(t, k) PROVE CallEffect(t)
  <2> DEFINE c == [op |-> "successor", key |-> k, on |-> 0]
  <2>1. c \in CallRecord /\ c.key \in Key
    BY MaxTxnAssumption DEF CallRecord
  <2> QED
    BY <1>3, <2>1, SupersedeEffect DEF Update
<1>4. ASSUME UpdateInsert(t) PROVE CallEffect(t)
  <2>1. t \in active_txns /\ clog[t] = "Active" /\ call[t].key \in Key
    BY <1>4 DEF UpdateInsert, Inv, CallsOK, Idle
  <2> QED
    BY <1>4, <2>1, ReturnEffect DEF UpdateInsert, CallEffect, Writes
<1>5. ASSUME CallFails(t) PROVE CallEffect(t)
  <2>1. t \in active_txns /\ clog[t] = "Active"
    BY <1>5 DEF CallFails, Inv, CallsOK
  <2> QED
    BY <1>5, <2>1, ReturnEffect DEF CallFails, CallEffect, Writes
<1> QED
  BY <1>1, <1>2, <1>3, <1>4, <1>5

-----------------------------------------------------------------------------
(* The invariant is preserved: by index calls, *)

(* What a call writes is stamped with an active id, which no horizon has passed. *)
LEMMA WritesInv ==
    ASSUME Inv, NEW t \in TxnId, CallEffect(t)
    PROVE  VersionsOK' /\ ProbeOK' /\ PassedLeavesClean' /\ AbortedCreatorsSwept'
<1>0. /\ t \in active_txns /\ clog[t] = "Active" /\ VersionsOK /\ ProbeOK
      /\ PassedLeavesClean /\ AbortedCreatorsSwept /\ SweepOK
      /\ UNCHANGED <<clog, sweep, sweep_xmin, vacuum_horizon>>
  BY DEF CallEffect, tmVars, Inv
<1>1. CASE UNCHANGED versions
  BY <1>0, <1>1 DEF VersionsOK, ProbeOK, PassedLeavesClean, AbortedCreatorsSwept
<1>2. ASSUME NEW k \in Key \ {sweep.leaf}, AddVersion(t, k)
      PROVE  VersionsOK' /\ ProbeOK' /\ PassedLeavesClean' /\ AbortedCreatorsSwept'
  <2>1. PICK i \in VersionId \ UsedIds, gone \in SUBSET VersionsOf(k) :
           versions' = (versions \ gone) \cup {[id |-> i, key |-> k, xmin |-> t, xmax |-> 0]}
    BY <1>2 DEF AddVersion
  <2> DEFINE n == [id |-> i, key |-> k, xmin |-> t, xmax |-> 0]
  <2>2. n \in Version /\ \A v \in versions : v.id # n.id
    BY <2>1, MaxTxnAssumption DEF Version, UsedIds
  <2>3. VersionsOK'
    BY <1>0, <2>1, <2>2 DEF VersionsOK
  <2>4. ProbeOK'
    <3>1. \A v \in versions : v.key = sweep.leaf => v \in versions'
      BY <1>2, <2>1 DEF VersionsOf
    <3> QED
      BY <1>0, <3>1 DEF ProbeOK
  <2>5. PassedLeavesClean' /\ AbortedCreatorsSwept'
    BY <1>0, <2>1 DEF PassedLeavesClean, AbortedCreatorsSwept
  <2> QED
    BY <2>3, <2>4, <2>5
<1>3. ASSUME NEW k \in Key \ {sweep.leaf}, NEW v \in VersionsOf(k), Claims(t, v)
      PROVE  VersionsOK' /\ ProbeOK' /\ PassedLeavesClean' /\ AbortedCreatorsSwept'
  <2> DEFINE n == [v EXCEPT !.xmax = t]
  <2>1. versions' = (versions \ {v}) \cup {n} /\ v \in versions /\ v.key = k
    BY <1>3 DEF Claims, VersionsOf
  <2>2. v \in Version
    BY <1>0, <2>1 DEF VersionsOK
  <2>3. n \in Version /\ n.id = v.id /\ n.key = v.key /\ n.xmin = v.xmin
    BY <2>2, MaxTxnAssumption DEF Version, TxnId
  <2>4. VersionsOK'
    <3>1. versions \subseteq Version /\ \A w \in versions \ {v} : w.id # n.id
      BY <1>0, <2>1, <2>3 DEF VersionsOK
    <3>2. versions' \subseteq Version
      BY <2>1, <2>3, <3>1
    <3>3. \A a, b \in versions' : a.id = b.id => a = b
      BY <1>0, <2>1, <3>1 DEF VersionsOK
    <3> QED
      BY <3>2, <3>3 DEF VersionsOK
  <2>5. ProbeOK'
    BY <1>0, <1>3, <2>1 DEF ProbeOK
  <2>6. PassedLeavesClean' /\ AbortedCreatorsSwept'
    BY <1>0, <2>1, <2>3 DEF PassedLeavesClean, AbortedCreatorsSwept
  <2> QED
    BY <2>4, <2>5, <2>6
<1> QED
  BY <1>1, <1>2, <1>3 DEF CallEffect, Writes

(* An index call leaves a well-formed call record and does not touch the sweep. *)
LEMMA CallsInv ==
    ASSUME Inv, NEW t \in TxnId, CallEffect(t)
    PROVE  CallsOK' /\ SweepOK'
<1>1. SweepOK'
  BY DEF CallEffect, Inv, SweepOK, tmVars
<1>2. PICK c \in CallRecord : (c # Idle => c.key \in Key) /\ call' = [call EXCEPT ![t] = c]
  BY DEF CallEffect
<1>3. call' \in [TxnId -> CallRecord]
  BY <1>2 DEF Inv, CallsOK, CallRecord
<1>4. \A u \in TxnId : call'[u] # Idle =>
         u \in active_txns' /\ clog'[u] = "Active" /\ call'[u].key \in Key
  BY <1>2 DEF CallEffect, tmVars, Inv, CallsOK
<1> QED
  BY <1>1, <1>3, <1>4 DEF CallEffect, Inv, CallsOK, CallRecord

(* by the manager's own steps, *)

ManagerStep ==
    /\ \/ \E t \in TxnId : BeginRegister(t) \/ BeginClog(t) \/ SettleRemove(t)
       \/ \E t \in TxnId, status \in Settled : call[t] = Idle /\ SettleClog(t, status)
       \/ \E r \in Reader : ReadSnapshot(r) \/ EndRead(r)
    /\ UNCHANGED mvccVars

(* Begins, settlements and reads touch no version, and an id they abort is still
   active, hence above every horizon. *)
LEMMA ManagerInv ==
    ASSUME Inv, ManagerStep
    PROVE  VersionsOK' /\ CallsOK' /\ SweepOK' /\ ProbeOK' /\ PassedLeavesClean'
           /\ AbortedCreatorsSwept'
<1>0. UNCHANGED <<versions, call, poisoned, sweep, sweep_xmin, vacuum_horizon>>
  BY DEF ManagerStep, mvccVars, BeginRegister, BeginClog, SettleRemove, SettleClog, ReadSnapshot,
         EndRead
<1>1. VersionsOK' /\ SweepOK' /\ ProbeOK'
  BY <1>0 DEF Inv, VersionsOK, SweepOK, ProbeOK
<1>2. \A u \in TxnId : clog'[u] = "Aborted" =>
         clog[u] = "Aborted" \/ (u >= sweep_xmin /\ u >= vacuum_horizon)
  BY ActiveAboveHorizon DEF ManagerStep, BeginRegister, BeginClog, SettleRemove, SettleClog,
     ReadSnapshot, EndRead, Inv, TMInv, TMTypeOK
<1>3. \A v \in versions : v.xmin \in TxnId /\ v.xmin \in Int
  BY MaxTxnAssumption DEF Inv, VersionsOK, Version, TxnId
<1>4. sweep_xmin \in Int /\ vacuum_horizon \in Int
  BY MaxTxnAssumption DEF Inv, TMInv, TMTypeOK, TxnId
<1>5. PassedLeavesClean' /\ AbortedCreatorsSwept'
  <2>1. \A v \in versions : clog'[v.xmin] = "Aborted" /\ v.xmin < sweep_xmin
                              => clog[v.xmin] = "Aborted"
    <3> SUFFICES ASSUME NEW v \in versions, clog'[v.xmin] = "Aborted", v.xmin < sweep_xmin
                 PROVE  clog[v.xmin] = "Aborted"
      OBVIOUS
    <3>1. v.xmin \in Int /\ ~(v.xmin >= sweep_xmin)
      BY <1>3, <1>4
    <3> QED
      BY <1>2, <1>3, <3>1, Zenon
  <2>2. \A v \in versions : clog'[v.xmin] = "Aborted" => v.xmin >= vacuum_horizon
    BY <1>2, <1>3 DEF Inv, AbortedCreatorsSwept
  <2> QED
    BY <1>0, <2>1, <2>2 DEF Inv, PassedLeavesClean, AbortedCreatorsSwept
<1>6. \A u \in TxnId : call[u] # Idle => u \in active_txns' /\ clog'[u] = "Active"
  BY DEF Inv, CallsOK, Settled, TMInv, TMTypeOK, ManagerStep, BeginRegister, BeginClog,
     SettleRemove, SettleClog, ReadSnapshot, EndRead
<1>7. CallsOK'
  BY <1>0, <1>6 DEF Inv, CallsOK
<1> QED
  BY <1>1, <1>5, <1>7

(* and by the sweep. *)

(* When a sweep starts it has passed nothing. *)
LEMMA VacuumStartInv ==
    ASSUME Inv, VacuumStart
    PROVE  VersionsOK' /\ CallsOK' /\ SweepOK' /\ ProbeOK' /\ PassedLeavesClean'
           /\ AbortedCreatorsSwept'
<1>0. /\ sweep = NoSweep /\ sweep' = [sweep EXCEPT !.todo = Key]
      /\ UNCHANGED <<versions, call, poisoned, clog, active_txns, vacuum_horizon>>
      /\ sweep_xmin' = GlobalXmin
  BY DEF VacuumStart, SweepStart, Inv, SweepOK
<1>1. GlobalXmin # 0
  BY GlobalXminIsLeast, MaxTxnAssumption DEF Inv
<1>2. VersionsOK' /\ CallsOK' /\ AbortedCreatorsSwept'
  BY <1>0 DEF Inv, VersionsOK, CallsOK, AbortedCreatorsSwept
<1>3. SweepOK' /\ ProbeOK'
  BY <1>0, <1>1 DEF Inv, SweepOK, ProbeOK, NoSweep
<1>4. PassedLeavesClean'
  BY <1>0 DEF Inv, VersionsOK, Version, PassedLeavesClean, NoSweep
<1> QED
  BY <1>2, <1>3, <1>4

(* Latching a leaf queues all its versions; unlatching it needs an empty queue. *)
LEMMA LatchInv ==
    ASSUME Inv, (\E k \in Key : LatchLeaf(k)) \/ UnlatchLeaf
    PROVE  VersionsOK' /\ CallsOK' /\ SweepOK' /\ ProbeOK' /\ PassedLeavesClean'
           /\ AbortedCreatorsSwept'
<1>0. UNCHANGED <<versions, call, poisoned, clog, active_txns, vacuum_horizon, sweep_xmin>>
  BY DEF LatchLeaf, UnlatchLeaf, tmVars
<1>1. VersionsOK' /\ CallsOK' /\ AbortedCreatorsSwept'
  BY <1>0 DEF Inv, VersionsOK, CallsOK, AbortedCreatorsSwept
<1>2. ASSUME NEW k \in Key, LatchLeaf(k) PROVE SweepOK' /\ ProbeOK' /\ PassedLeavesClean'
  <2>1. /\ sweep.leaf = NoKey /\ k \in sweep.todo /\ sweep.rest = {} /\ sweep.probe = NoVersion
        /\ sweep' = [sweep EXCEPT !.todo = @ \ {k}, !.leaf = k,
                                  !.rest = {v.id : v \in VersionsOf(k)}]
    BY <1>2 DEF LatchLeaf, Inv, SweepOK
  <2>2. {v.id : v \in VersionsOf(k)} \subseteq VersionId
    BY DEF Inv, VersionsOK, Version, VersionsOf
  <2>3. SweepOK'
    <3>1. sweep_xmin # 0 /\ k # NoKey
      BY <2>1, NamesAssumption DEF Inv, SweepOK, NoSweep
    <3>2. sweep' \in [todo : SUBSET Key, leaf : Key \cup {NoKey}, rest : SUBSET VersionId,
                      probe : VersionId \cup {NoVersion}]
      BY <2>1, <2>2 DEF Inv, SweepOK
    <3>3. sweep'.leaf = k
      BY <2>1 DEF Inv, SweepOK
    <3> QED
      BY <1>0, <3>1, <3>2, <3>3 DEF SweepOK
  <2>4. ProbeOK'
    BY <1>0, <2>1 DEF Inv, SweepOK, ProbeOK, VersionsOf
  <2>5. PassedLeavesClean'
    BY <1>0, <2>1 DEF Inv, SweepOK, PassedLeavesClean, VersionsOf
  <2> QED
    BY <2>3, <2>4, <2>5
<1>3. ASSUME UnlatchLeaf PROVE SweepOK' /\ ProbeOK' /\ PassedLeavesClean'
  BY <1>0, <1>3 DEF UnlatchLeaf, Inv, SweepOK, ProbeOK, PassedLeavesClean, NoSweep
<1> QED
  BY <1>1, <1>2, <1>3

(* The version that waits in the probe is not removed. *)
LEMMA ProbeKept ==
    ASSUME Inv, NEW v \in versions, v.id = sweep.probe
    PROVE  v.xmax >= sweep_xmin
<1>1. sweep.probe # NoVersion
  BY NamesAssumption DEF Inv, VersionsOK, Version
<1> QED
  BY <1>1 DEF Inv, ProbeOK, VersionsOK

(* The late answer of settled_status never removes a version: its deleter was
   running after the horizon was taken, so it is not below the horizon. *)
LEMMA JudgeUnknownKeeps ==
    ASSUME Inv, NEW v \in versions, JudgeUnknown(v)
    PROVE  UNCHANGED versions
<1>1. v.xmax >= sweep_xmin
  BY ProbeKept DEF JudgeUnknown
<1>2. v.xmax \in Int /\ sweep_xmin \in Int
  BY MaxTxnAssumption DEF Inv, VersionsOK, Version, TMInv, TMTypeOK
<1>3. ~(v.xmax < sweep_xmin)
  BY <1>1, <1>2
<1> QED
  BY <1>3 DEF JudgeUnknown

(* The late answer of settled_status keeps the invariant. *)
LEMMA JudgeUnknownInv ==
    ASSUME Inv, NEW v \in versions, JudgeUnknown(v)
    PROVE  VersionsOK' /\ CallsOK' /\ SweepOK' /\ ProbeOK' /\ PassedLeavesClean'
           /\ AbortedCreatorsSwept'
<1>0. UNCHANGED <<versions, call, poisoned, clog, active_txns, vacuum_horizon, sweep_xmin>>
  BY JudgeUnknownKeeps DEF JudgeUnknown, tmVars
<1>1. sweep' = [sweep EXCEPT !.probe = NoVersion]
  BY DEF JudgeUnknown
<1>2. VersionsOK' /\ CallsOK' /\ AbortedCreatorsSwept'
  BY <1>0 DEF Inv, VersionsOK, CallsOK, AbortedCreatorsSwept
<1> QED
  BY <1>0, <1>1, <1>2 DEF Inv, SweepOK, ProbeOK, PassedLeavesClean, NoSweep

(* An unsettled deleter is active or not yet born, so above the horizon. *)
LEMMA UnsettledAboveHorizon ==
    ASSUME Inv, NEW t \in TxnId, clog[t] \notin Settled
    PROVE  t >= sweep_xmin
<1>1. t \in active_txns \/ t >= next_txn_id
  BY MaxTxnAssumption DEF Inv, TMInv, TMTypeOK, IdsAccounted, TxnId
<1> QED
  BY <1>1, MaxTxnAssumption DEF Inv, TMInv, TMTypeOK, HorizonOK, TxnId

(* Judging a version removes it from the queue, and from the leaf if its creator
   aborted or its deleter committed below the horizon. *)
LEMMA JudgeInv ==
    ASSUME Inv, NEW v \in versions, Judge(v)
    PROVE  VersionsOK' /\ CallsOK' /\ SweepOK' /\ ProbeOK' /\ PassedLeavesClean'
           /\ AbortedCreatorsSwept'
<1> DEFINE unknown == clog[v.xmin] # "Aborted" /\ v.xmax # 0 /\ clog[v.xmax] \notin Settled
<1>0. /\ UNCHANGED <<call, poisoned, clog, active_txns, vacuum_horizon, sweep_xmin>>
      /\ sweep' = [sweep EXCEPT !.rest = @ \ {v.id}, !.probe = IF unknown THEN v.id ELSE NoVersion]
      /\ versions' \in {versions, versions \ {v}}
      /\ unknown => versions' = versions
      /\ clog[v.xmin] = "Aborted" => versions' = versions \ {v}
      /\ v.id \in sweep.rest
  BY DEF Judge, Vacuumable, tmVars, Settled
<1>1. VersionsOK' /\ CallsOK' /\ AbortedCreatorsSwept'
  BY <1>0 DEF Inv, VersionsOK, CallsOK, AbortedCreatorsSwept
<1>2. sweep.leaf # NoKey /\ sweep_xmin # 0
  BY <1>0 DEF Inv, SweepOK, NoSweep
<1>3. SweepOK'
  BY <1>0, <1>2 DEF Inv, SweepOK, VersionsOK, Version
<1>4. PassedLeavesClean'
  BY <1>0, <1>2 DEF Inv, PassedLeavesClean, SweepOK, VersionsOK
<1>5. v.key = sweep.leaf
  BY <1>0 DEF Inv, ProbeOK, VersionsOK
<1>6. unknown => v.xmax >= sweep_xmin
  BY UnsettledAboveHorizon DEF Inv, VersionsOK, Version, TxnId
<1>7. ProbeOK'
  <2>1. \A i \in sweep.rest \ {v.id} : \E w \in versions \ {v} : w.id = i /\ w.key = sweep.leaf
    BY DEF Inv, ProbeOK
  <2>2. /\ sweep'.rest = sweep.rest \ {v.id} /\ sweep'.leaf = sweep.leaf
        /\ sweep'.probe = IF unknown THEN v.id ELSE NoVersion
    BY <1>0 DEF Inv, SweepOK
  <2>3. \A i \in sweep'.rest : \E w \in versions' : w.id = i /\ w.key = sweep'.leaf
    BY <1>0, <2>1, <2>2
  <2>4. sweep'.probe # NoVersion =>
          v \in versions' /\ v.id = sweep'.probe /\ v.key = sweep'.leaf /\ v.xmax >= sweep_xmin'
    BY <1>0, <1>5, <1>6, <2>2
  <2> QED
    BY <2>3, <2>4 DEF ProbeOK
<1> QED
  BY <1>1, <1>3, <1>4, <1>7

(* A sweep publishes only when it has passed every leaf, so what it has passed is
   everything. *)
LEMMA VacuumEndInv ==
    ASSUME Inv, VacuumEnd
    PROVE  VersionsOK' /\ CallsOK' /\ SweepOK' /\ ProbeOK' /\ PassedLeavesClean'
           /\ AbortedCreatorsSwept'
<1>0. /\ UNCHANGED <<versions, call, poisoned, clog, active_txns>>
      /\ sweep' = NoSweep /\ sweep_xmin' = 0 /\ sweep_xmin # 0 /\ sweep.leaf = NoKey
  BY DEF VacuumEnd, SweepPublish, SweepAbandon
<1>1. VersionsOK' /\ CallsOK'
  BY <1>0 DEF Inv, VersionsOK, CallsOK
<1>2. SweepOK' /\ ProbeOK' /\ PassedLeavesClean'
  BY <1>0 DEF SweepOK, ProbeOK, PassedLeavesClean, NoSweep
<1>3. AbortedCreatorsSwept'
  <2>1. CASE SweepAbandon
    BY <1>0, <2>1 DEF SweepAbandon, Inv, AbortedCreatorsSwept
  <2>2. CASE sweep.todo = {} /\ SweepPublish
    <3>1. vacuum_horizon' \in {vacuum_horizon, sweep_xmin}
      BY <2>2, MaxOfTwo, MaxTxnAssumption DEF SweepPublish, Inv, TMInv, TMTypeOK
    <3>2. \A v \in versions : v.xmin \in Int /\ sweep_xmin \in Int
      BY MaxTxnAssumption DEF Inv, VersionsOK, Version, TxnId, TMInv, TMTypeOK
    <3>3. \A v \in versions : clog[v.xmin] = "Aborted" => ~(v.xmin < sweep_xmin)
      BY <1>0, <2>2 DEF Inv, PassedLeavesClean, SweepOK
    <3>4. \A v \in versions : clog[v.xmin] = "Aborted" => v.xmin >= sweep_xmin
      BY <3>2, <3>3
    <3> QED
      BY <1>0, <3>1, <3>4 DEF Inv, AbortedCreatorsSwept
  <2> QED
    BY <2>1, <2>2 DEF VacuumEnd
<1> QED
  BY <1>1, <1>2, <1>3

(* The invariant is inductive. *)
LEMMA NextInv == Inv /\ [Next]_vars => Inv'
<1> SUFFICES ASSUME Inv, [Next]_vars PROVE Inv'
  OBVIOUS
<1> DEFINE Rest == VersionsOK /\ CallsOK /\ SweepOK /\ ProbeOK /\ PassedLeavesClean
                   /\ AbortedCreatorsSwept
<1>0. TMInv'
  BY NextIsTMNext, TMNextInv DEF Inv
<1> SUFFICES Rest'
  BY <1>0 DEF Inv
<1>1. CASE Transactions
  <2>1. PICK t \in TxnId :
           \/ (BeginRegister(t) \/ BeginClog(t) \/ SettleRemove(t)) /\ UNCHANGED mvccVars
           \/ \E k \in Key : Insert(t, k) \/ Delete(t, k) \/ Update(t, k)
           \/ UpdateInsert(t)
           \/ CallFails(t)
           \/ Commit(t)
           \/ Abort(t)
    BY <1>1 DEF Transactions
  <2>2. CASE \/ (BeginRegister(t) \/ BeginClog(t) \/ SettleRemove(t)) /\ UNCHANGED mvccVars
             \/ Commit(t)
             \/ Abort(t)
    <3>1. ManagerStep
      BY <2>2 DEF ManagerStep, Commit, Abort, Settled
    <3> QED
      BY <3>1, ManagerInv
  <2>3. CASE CallEffect(t)
    BY <2>3, WritesInv, CallsInv
  <2> QED
    BY <2>1, <2>2, <2>3, CallSteps
<1>2. CASE Readers
  <2>1. ManagerStep
    BY <1>2 DEF Readers, ManagerStep
  <2> QED
    BY <2>1, ManagerInv
<1>3. CASE Vacuum
  BY <1>3, VacuumStartInv, LatchInv, JudgeInv, JudgeUnknownInv, VacuumEndInv DEF Vacuum
<1>4. CASE UNCHANGED vars
  BY <1>4 DEF vars, tmVars, mvccVars, Inv, VersionsOK, CallsOK, SweepOK, ProbeOK,
              PassedLeavesClean, AbortedCreatorsSwept
<1> QED
  BY <1>1, <1>2, <1>3, <1>4 DEF Next

(* The invariant holds in every reachable state. *)
THEOREM Invariant == Spec => []Inv
BY InitInv, NextInv, PTL DEF Spec

(* Type correctness. *)
THEOREM TypeCorrect == Spec => []TypeOK
<1>1. Inv => TypeOK
  BY DEF Inv, TMInv, VersionsOK, CallsOK, SweepOK, TypeOK
<1> QED
  BY <1>1, Invariant, PTL

(* After a complete sweep publishes its horizon, no version whose creator aborted
   below it is left, wherever it was written and however it raced the sweep. *)
THEOREM AbortedCreatorsTheorem == Spec => []AbortedCreatorsSwept
<1>1. Inv => AbortedCreatorsSwept
  BY DEF Inv
<1> QED
  BY <1>1, Invariant, PTL

-----------------------------------------------------------------------------
(* Repeatable reads. *)

(* An active transaction is committed for no live snapshot. *)
LEMMA ActiveNotCommitted ==
    ASSUME Inv, NEW s \in LiveSnapshots, NEW t \in active_txns
    PROVE  ~IsCommitted(s, t)
<1>1. t \in TxnId /\ t # 0
  BY MaxTxnAssumption DEF Inv, TMInv, TMTypeOK, TxnId
<1> QED
  BY <1>1, UnlistedIsSettled DEF Inv, IsCommitted

(* What is dead below a horizon that undercuts a live snapshot's xmin, the snapshot
   does not see. *)
LEMMA VacuumableUnseen ==
    ASSUME Inv, NEW s \in LiveSnapshots, NEW v \in versions, NEW h \in Int, h <= s.xmin,
           Vacuumable(v, h)
    PROVE  ~IsVisible(s, v.xmin, v.xmax)
<1>1. v.xmin \in TxnId /\ v.xmax \in 0 .. MaxTxn
  BY DEF Inv, VersionsOK, Version
<1>2. SnapshotOK(s)
  BY DEF Inv, TMInv
<1>3. v.xmax \in Int /\ s.xmin \in Int /\ s.xmax \in Int
  BY <1>1, <1>2, MaxTxnAssumption DEF SnapshotOK, Snapshot
<1>4. CASE clog[v.xmin] = "Aborted"
  BY <1>1, <1>4, MaxTxnAssumption DEF IsVisible, IsCommitted, TxnId
<1>5. CASE v.xmax # 0 /\ clog[v.xmax] = "Committed" /\ v.xmax < h
  <2> SUFFICES IsCommitted(s, v.xmax)
    BY <1>5 DEF IsVisible
  <2>1. v.xmax < s.xmin /\ s.xmin <= s.xmax /\ \A a \in s.active : s.xmin <= a
    BY <1>2, <1>3, <1>5 DEF SnapshotOK
  <2>2. v.xmax < s.xmax /\ v.xmax \notin s.active
    BY <1>3, <2>1
  <2> QED
    BY <1>5, <2>2 DEF IsCommitted
<1> QED
  BY <1>4, <1>5 DEF Vacuumable

(* What a write in the name of an active transaction changes, no live snapshot
   sees. *)
LEMMA WritesKeepViews ==
    ASSUME Inv, NEW t \in TxnId, CallEffect(t), NEW s \in LiveSnapshots
    PROVE  View(s)' = View(s)
<1>0. clog' = clog /\ ~IsCommitted(s, t)
  BY ActiveNotCommitted DEF CallEffect, tmVars
<1>1. \A a, b : IsVisible(s, a, b)' = IsVisible(s, a, b)
  BY <1>0 DEF IsVisible, IsCommitted
<1>2. CASE UNCHANGED versions
  BY <1>1, <1>2 DEF View
<1>3. ASSUME NEW k \in Key, AddVersion(t, k) PROVE View(s)' = View(s)
  <2>1. PICK i \in VersionId \ UsedIds,
             gone \in {{}, {v \in VersionsOf(k) : Vacuumable(v, GlobalXmin)}} :
           versions' = (versions \ gone) \cup {[id |-> i, key |-> k, xmin |-> t, xmax |-> 0]}
    BY <1>3 DEF AddVersion
  <2>2. ~IsVisible(s, t, 0)
    BY <1>0 DEF IsVisible
  <2>3. GlobalXmin \in Int /\ GlobalXmin <= s.xmin
    BY GlobalXminIsLeast, MaxTxnAssumption DEF Inv
  <2>4. \A v \in gone : ~IsVisible(s, v.xmin, v.xmax)
    BY <2>1, <2>3, VacuumableUnseen DEF VersionsOf
  <2> QED
    BY <1>1, <2>1, <2>2, <2>4 DEF View
<1>4. ASSUME NEW k \in Key, NEW v \in VersionsOf(k), Claims(t, v) PROVE View(s)' = View(s)
  <2> DEFINE n == [v EXCEPT !.xmax = t]
  <2>1. versions' = (versions \ {v}) \cup {n} /\ v \in versions /\ ClaimIsVoid(t, v)
    BY <1>4 DEF Claims, VersionsOf
  <2>2. v \in Version
    BY <2>1 DEF Inv, VersionsOK
  <2>3. n.id = v.id /\ n.key = v.key /\ n.xmin = v.xmin /\ n.xmax = t
    BY <2>2 DEF Version
  <2>4. v.xmax = 0 \/ ~IsCommitted(s, v.xmax)
    BY <1>0, <2>1 DEF ClaimIsVoid, IsCommitted
  <2>5. t # 0
    BY DEF TxnId
  <2>6. IsVisible(s, n.xmin, n.xmax) <=> IsVisible(s, v.xmin, v.xmax)
    BY <1>0, <2>3, <2>4, <2>5 DEF IsVisible
  <2>7. RowOf(n) = RowOf(v)
    BY <2>3 DEF RowOf
  <2> DEFINE Sees(w) == IsVisible(s, w.xmin, w.xmax)
  <2> HIDE DEF n
  <2>8. View(s) = {RowOf(w) : w \in {x \in versions : Sees(x)}}
    BY DEF View
  <2>9. View(s)' = {RowOf(w) : w \in {x \in versions' : Sees(x)}}
    BY <1>1 DEF View
  <2> HIDE DEF Sees
  <2>10. Sees(n) <=> Sees(v)
    BY <2>6 DEF Sees
  <2> QED
    BY <2>1, <2>7, <2>8, <2>9, <2>10
<1> QED
  BY <1>2, <1>3, <1>4 DEF CallEffect, Writes

(* The sweep removes nothing a live snapshot sees. *)
LEMMA JudgeKeepsViews ==
    ASSUME Inv, NEW v \in versions, Judge(v), NEW s \in LiveSnapshots
    PROVE  View(s)' = View(s)
<1>0. clog' = clog /\ versions' \in {versions, versions \ {v}}
  BY DEF Judge, tmVars
<1>1. \A a, b : IsVisible(s, a, b)' = IsVisible(s, a, b)
  BY <1>0 DEF IsVisible, IsCommitted
<1>2. CASE versions' = versions
  BY <1>1, <1>2 DEF View
<1>3. CASE versions' # versions
  <2>1. Vacuumable(v, sweep_xmin) /\ versions' = versions \ {v}
    BY <1>3 DEF Judge
  <2>2. sweep_xmin \in Int /\ sweep_xmin <= s.xmin
    BY MaxTxnAssumption DEF Inv, TMInv, TMTypeOK, HorizonOK
  <2>3. ~IsVisible(s, v.xmin, v.xmax)
    BY <2>1, <2>2, VacuumableUnseen
  <2> QED
    BY <1>1, <2>1, <2>3 DEF View
<1> QED
  BY <1>2, <1>3

(* A step that leaves the versions alone changes no view: the verdicts of a live
   snapshot are stable. *)
LEMMA SettlingKeepsViews ==
    ASSUME Inv, [Next]_vars, UNCHANGED versions, NEW s \in LiveSnapshots \cap LiveSnapshots'
    PROVE  View(s)' = View(s)
<1>1. \A t \in TxnId : IsCommitted(s, t)' = IsCommitted(s, t)
  BY VerdictStep, NextIsTMNext DEF Inv
<1>2. IsCommitted(s, 0)' /\ IsCommitted(s, 0)
  BY DEF IsCommitted
<1>3. \A v \in versions : v.xmin \in TxnId /\ v.xmax \in TxnId \cup {0}
  BY MaxTxnAssumption DEF Inv, VersionsOK, Version, TxnId
<1>4. \A v \in versions : IsVisible(s, v.xmin, v.xmax)' = IsVisible(s, v.xmin, v.xmax)
  BY <1>1, <1>2, <1>3 DEF IsVisible
<1>5. View(s)' = {RowOf(v) : v \in {w \in versions : IsVisible(s, w.xmin, w.xmax)'}}
  BY DEF View
<1> QED
  BY <1>4, <1>5 DEF View

(* No step changes the view of a snapshot that is live before and after it. *)
LEMMA StepKeepsViews ==
    ASSUME Inv, [Next]_vars, NEW s \in LiveSnapshots \cap LiveSnapshots'
    PROVE  View(s)' = View(s)
<1>1. CASE UNCHANGED versions
  BY <1>1, SettlingKeepsViews
<1>2. CASE versions' # versions
  <2>1. CASE Transactions
    <3>1. PICK t \in TxnId :
             \/ \E k \in Key : Insert(t, k) \/ Delete(t, k) \/ Update(t, k)
             \/ UpdateInsert(t)
             \/ CallFails(t)
      BY <1>2, <2>1 DEF Transactions, Commit, Abort, mvccVars
    <3>2. CallEffect(t)
      BY <3>1, CallSteps
    <3> QED
      BY <3>2, WritesKeepViews
  <2>2. CASE Vacuum
    <3>1. PICK v \in versions : Judge(v) \/ JudgeUnknown(v)
      BY <1>2, <2>2 DEF Vacuum, VacuumStart, LatchLeaf, UnlatchLeaf, VacuumEnd
    <3>2. Judge(v)
      BY <1>2, <3>1, JudgeUnknownKeeps
    <3> QED
      BY <3>2, JudgeKeepsViews
  <2> QED
    BY <1>2, <2>1, <2>2 DEF Next, Readers, vars, mvccVars
<1> QED
  BY <1>1, <1>2

(* Reads are repeatable for every number of transactions, readers, keys and
   versions: no write, commit, abort or vacuum step changes what a snapshot that
   is still held sees. *)
THEOREM RepeatableReadsTheorem == Spec => RepeatableReads
<1>1. Inv /\ [Next]_vars =>
        [\A s \in LiveSnapshots \cap LiveSnapshots' : View(s)' = View(s)]_vars
  BY StepKeepsViews
<1> QED
  BY <1>1, Invariant, PTL DEF Spec, RepeatableReads
=============================================================================
