-------------------------------- MODULE Mvcc --------------------------------
(***************************************************************************)
(* Transactions writing versions into the leaves of the index, on top of   *)
(* the transaction manager: the conflict checks of insert, update and      *)
(* delete with their wait-die waits, commit and abort, and a vacuum sweep  *)
(* that removes versions while all of that goes on.                        *)
(*                                                                         *)
(* The versions of one key live on one leaf, so a leaf is named by its     *)
(* key.  What a writer does under the exclusive latch of the leaf is one   *)
(* step: the CLOG may move under it, but a status it has found settled     *)
(* stays settled, so the whole check can be placed at its last CLOG read.  *)
(* The sweep's `settled_status` is the exception (it reads the CLOG and    *)
(* then `global_xmin`) and is two steps.                                   *)
(***************************************************************************)
EXTENDS TransactionManager

CONSTANTS
    Key,
    VersionId   \* bound: the version slots that can be occupied at once

NoKey == "no key"
NoVersion == "no version"

ASSUME NamesAssumption == NoKey \notin Key /\ NoVersion \notin VersionId

VARIABLES
    versions,   \* the leaf records: [id, key, xmin, xmax]
    call,       \* TxnId -> the index call it is blocked in
    poisoned,   \* handles that saw a conflict
    sweep       \* [todo, leaf, rest, probe]: where the sweep is

mvccVars == <<versions, call, poisoned, sweep>>
vars == <<tmVars, mvccVars>>

Version == [id : VersionId, key : Key, xmin : TxnId, xmax : 0 .. MaxTxn]
Idle == [op |-> "idle", key |-> NoKey, on |-> 0]
NoSweep == [todo |-> {}, leaf |-> NoKey, rest |-> {}, probe |-> NoVersion]

VersionsOf(k) == {v \in versions : v.key = k}
UsedIds == {v.id : v \in versions}

-----------------------------------------------------------------------------
(* Visibility and conflicts, as transaction t sees version v. *)

(* Transaction::is_visible: own deletes hide, own inserts show. *)
VisibleTo(t, v) ==
    /\ v.xmax # t
    /\ v.xmin = t \/ IsVisible(snapshot[t], v.xmin, v.xmax)

CreatorPending(t, v) == v.xmin # t /\ IsInProgress(snapshot[t], v.xmin)
DeleterPending(t, v) == v.xmax \notin {0, t} /\ IsInProgress(snapshot[t], v.xmax)

(* Mutant: a claim is in the way only while its owner runs. *)
ClaimIsVoid_IgnoresCommitted(t, v) == TRUE

(* The claim check_write_conflict lets through: none, one's own, an aborted one. *)
ClaimIsVoid(t, v) == v.xmax \notin {0, t} => clog[v.xmax] = "Aborted"

-----------------------------------------------------------------------------
(* Index calls. *)

(* t may enter the call, or resume it after the transaction it waited for has
   left the active map; the sweep does not hold the leaf. *)
CanRun(t, op, k) ==
    /\ t \in active_txns
    /\ clog[t] = "Active"
    /\ t \notin poisoned
    /\ sweep.leaf # k
    /\ \/ call[t] = Idle
       \/ call[t].op = op /\ call[t].key = k /\ call[t].on \notin active_txns

Return(t) == call' = [call EXCEPT ![t] = Idle]

(* WriteConflict: the handle is dead, its commit will fail. *)
Die(t) ==
    /\ poisoned' = poisoned \cup {t}
    /\ Return(t)
    /\ UNCHANGED versions

(* wait_for_txn: the younger dies, the older sleeps until the blocker settles. *)
WaitFor(t, op, k, blocker) ==
    IF t > blocker
    THEN Die(t)
    ELSE /\ call' = [call EXCEPT ![t] = [op |-> op, key |-> k, on |-> blocker]]
         /\ UNCHANGED <<versions, poisoned>>

(* is_vacuumable, where the CLOG knows the deleter. *)
Vacuumable(v, horizon) ==
    \/ clog[v.xmin] = "Aborted"
    \/ v.xmax # 0 /\ clog[v.xmax] = "Committed" /\ v.xmax < horizon

(* insert_raw where the leaf has room.  Where it has not, split_and_insert first
   compacts the leaf with the global_xmin of the moment; whoever is below that is
   settled. *)
AddVersion(t, k) ==
    \E i \in VersionId \ UsedIds,
       gone \in {{}, {v \in VersionsOf(k) : Vacuumable(v, GlobalXmin)}} :
        versions' = (versions \ gone) \cup {[id |-> i, key |-> k, xmin |-> t, xmax |-> 0]}

(* BTreeIndex::insert.  The slot order of the versions of a key is not modelled:
   any version that is not harmless may be the one the scan meets first. *)
Insert(t, k) ==
    /\ CanRun(t, "insert", k)
    /\ \/ \E v \in VersionsOf(k) :
             CreatorPending(t, v) /\ WaitFor(t, "insert", k, v.xmin)
       \/ \E v \in VersionsOf(k) :
             /\ ~CreatorPending(t, v) /\ VisibleTo(t, v)     \* DuplicateKey
             /\ Return(t) /\ UNCHANGED <<versions, poisoned>>
       \/ \E v \in VersionsOf(k) :
             /\ ~CreatorPending(t, v) /\ ~VisibleTo(t, v)
             /\ DeleterPending(t, v) /\ WaitFor(t, "insert", k, v.xmax)
       \/ /\ \A v \in VersionsOf(k) :
                ~CreatorPending(t, v) /\ ~VisibleTo(t, v) /\ ~DeleterPending(t, v)
          /\ AddVersion(t, k)
          /\ Return(t) /\ UNCHANGED poisoned
    /\ UNCHANGED <<tmVars, sweep>>

(* The part delete and update share: find the visible version, check the claim
   on it, set xmax.  `after` is what the call goes on to. *)
Supersede(t, op, k, after) ==
    /\ CanRun(t, op, k)
    /\ \/ /\ \A v \in VersionsOf(k) : ~VisibleTo(t, v)       \* KeyNotFound
          /\ Return(t) /\ UNCHANGED <<versions, poisoned>>
       \/ \E v \in VersionsOf(k) :
             /\ VisibleTo(t, v)
             /\ \/ DeleterPending(t, v) /\ WaitFor(t, op, k, v.xmax)
                \/ /\ ~DeleterPending(t, v) /\ ClaimIsVoid(t, v)
                   /\ versions' = (versions \ {v}) \cup {[v EXCEPT !.xmax = t]}
                   /\ call' = [call EXCEPT ![t] = after]
                   /\ UNCHANGED poisoned
                \/ ~DeleterPending(t, v) /\ ~ClaimIsVoid(t, v) /\ Die(t)
    /\ UNCHANGED <<tmVars, sweep>>

Delete(t, k) == Supersede(t, "delete", k, Idle)

(* update keeps the latch between the two halves unless the old version sits on
   another page of the chain; the halves are separate steps here. *)
Update(t, k) == Supersede(t, "update", k, [op |-> "successor", key |-> k, on |-> 0])

UpdateInsert(t) ==
    /\ call[t].op = "successor"
    /\ sweep.leaf # call[t].key
    /\ AddVersion(t, call[t].key)
    /\ Return(t)
    /\ UNCHANGED <<tmVars, poisoned, sweep>>

(* A page fetch or a WAL append fails in a call that is past its first latch:
   after a wait, or between the halves of update. *)
CallFails(t) ==
    /\ call[t] # Idle
    /\ call[t].on \notin active_txns
    /\ Return(t)
    /\ UNCHANGED <<tmVars, versions, poisoned, sweep>>

-----------------------------------------------------------------------------
(* Transaction ends. *)

(* Engine::commit.  A commit record that cannot be logged aborts instead. *)
Commit(t) ==
    /\ call[t] = Idle
    /\ t \notin poisoned
    /\ SettleClog(t, "Committed") \/ SettleClog(t, "Aborted")
    /\ UNCHANGED mvccVars

(* Engine::abort, also what dropping the handle does. *)
Abort(t) ==
    /\ call[t] = Idle
    /\ SettleClog(t, "Aborted")
    /\ UNCHANGED mvccVars

-----------------------------------------------------------------------------
(* The vacuum sweep: leaf after leaf, each compacted under its latch. *)

VacuumStart ==
    /\ SweepStart
    /\ sweep' = [sweep EXCEPT !.todo = Key]
    /\ UNCHANGED <<versions, call, poisoned>>

LatchLeaf(k) ==
    /\ sweep.leaf = NoKey
    /\ k \in sweep.todo
    /\ sweep' = [sweep EXCEPT !.todo = @ \ {k}, !.leaf = k, !.rest = {v.id : v \in VersionsOf(k)}]
    /\ UNCHANGED <<tmVars, versions, call, poisoned>>

(* is_vacuumable, the CLOG reads.  A deleter the CLOG does not settle is looked
   up against global_xmin in a step of its own. *)
Judge(v) ==
    /\ sweep.probe = NoVersion
    /\ v.id \in sweep.rest
    /\ LET dead == Vacuumable(v, sweep_xmin)
           unknown == clog[v.xmin] # "Aborted" /\ v.xmax # 0 /\ clog[v.xmax] \notin Settled
       IN  /\ versions' = IF dead THEN versions \ {v} ELSE versions
           /\ sweep' = [sweep EXCEPT !.rest = @ \ {v.id},
                                     !.probe = IF unknown THEN v.id ELSE NoVersion]
    /\ UNCHANGED <<tmVars, call, poisoned>>

(* settled_status, the last branch: below global_xmin means committed. *)
JudgeUnknown(v) ==
    /\ v.id = sweep.probe
    /\ versions' = IF v.xmax < GlobalXmin /\ v.xmax < sweep_xmin THEN versions \ {v} ELSE versions
    /\ sweep' = [sweep EXCEPT !.probe = NoVersion]
    /\ UNCHANGED <<tmVars, call, poisoned>>

UnlatchLeaf ==
    /\ sweep.leaf # NoKey
    /\ sweep.rest = {}
    /\ sweep.probe = NoVersion
    /\ sweep' = [sweep EXCEPT !.leaf = NoKey]
    /\ UNCHANGED <<tmVars, versions, call, poisoned>>

(* Mutant: an abandoned sweep publishes its horizon too. *)
VacuumEnd_AlwaysPublishes ==
    /\ sweep.leaf = NoKey
    /\ SweepPublish
    /\ sweep' = NoSweep
    /\ UNCHANGED <<versions, call, poisoned>>

VacuumEnd ==
    /\ sweep.leaf = NoKey
    /\ \/ sweep.todo = {} /\ SweepPublish
       \/ sweep.todo # {} /\ SweepAbandon
    /\ sweep' = NoSweep
    /\ UNCHANGED <<versions, call, poisoned>>

-----------------------------------------------------------------------------
Init ==
    /\ TMInit
    /\ versions = {}
    /\ call = [t \in TxnId |-> Idle]
    /\ poisoned = {}
    /\ sweep = NoSweep

Transactions ==
    \E t \in TxnId :
        \/ (BeginRegister(t) \/ BeginClog(t) \/ SettleRemove(t)) /\ UNCHANGED mvccVars
        \/ \E k \in Key : Insert(t, k) \/ Delete(t, k) \/ Update(t, k)
        \/ UpdateInsert(t)
        \/ CallFails(t)
        \/ Commit(t)
        \/ Abort(t)

Readers == \E r \in Reader : (ReadSnapshot(r) \/ EndRead(r)) /\ UNCHANGED mvccVars

Vacuum ==
    \/ VacuumStart
    \/ \E k \in Key : LatchLeaf(k)
    \/ \E v \in versions : Judge(v) \/ JudgeUnknown(v)
    \/ UnlatchLeaf
    \/ VacuumEnd

Next == Transactions \/ Readers \/ Vacuum

Spec == Init /\ [][Next]_vars

-----------------------------------------------------------------------------
(* Properties. *)

RowOf(v) == <<v.id, v.key, v.xmin>>

(* The rows snapshot s sees. *)
View(s) == {RowOf(v) : v \in {w \in versions : IsVisible(s, w.xmin, w.xmax)}}

(* The shape of the index state. *)
TypeOK ==
    /\ TMTypeOK
    /\ versions \subseteq Version
    /\ \A v, w \in versions : v.id = w.id => v = w
    /\ call \in [TxnId -> [op : {"idle", "insert", "delete", "update", "successor"},
                           key : Key \cup {NoKey}, on : 0 .. MaxTxn]]
    /\ poisoned \subseteq TxnId
    /\ sweep \in [todo : SUBSET Key, leaf : Key \cup {NoKey}, rest : SUBSET VersionId,
                  probe : VersionId \cup {NoVersion}]

(* Reads are repeatable: what a live snapshot sees (find_visible_slot over
   Snapshot::is_visible) never changes, whatever other transactions write, commit
   or abort and whatever vacuum removes while the snapshot is held. *)
RepeatableReads ==
    [][\A s \in LiveSnapshots \cap LiveSnapshots' : View(s)' = View(s)]_vars

(* A published horizon means what truncate_clog and the checkpoint take it to
   mean for creators: a version whose creator aborted below vacuum_horizon has
   been removed, also if it was written while the sweep was under way. *)
AbortedCreatorsSwept ==
    \A v \in versions : clog[v.xmin] = "Aborted" => v.xmin >= vacuum_horizon

(* The whole engine is an implementation of SnapshotStore: commits are atomic at
   the moment the transaction leaves the active map, an abort takes effect at the
   CLOG write, no committed supersession is lost, and vacuum is invisible. *)
Working == {t \in active_txns : clog[t] # "Aborted"}

Store == INSTANCE SnapshotStore WITH
    Txn <- TxnId,
    Holder <- TxnId \cup Reader,
    Row <- VersionId \X Key \X TxnId,
    committed <- View(GetSnapshot),
    holding <- Working \cup OpenReaders,
    view <- [h \in TxnId \cup Reader |->
                IF h \in Working THEN View(snapshot[h])
                ELSE IF h \in OpenReaders THEN View(readers[h]) ELSE {}],
    ins <- [t \in TxnId |-> IF t \in Working THEN {RowOf(v) : v \in {w \in versions : w.xmin = t}} ELSE {}],
    del <- [t \in TxnId |-> IF t \in Working THEN {RowOf(v) : v \in {w \in versions : w.xmax = t}} ELSE {}]

ImplementsStore == Store!Spec
=============================================================================
