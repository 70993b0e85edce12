--------------------------- MODULE SnapshotStore ---------------------------
(***************************************************************************)
(* What FluxDB promises about its versions, with no CLOG, no active map,   *)
(* no wait-die and no vacuum: a set of committed rows that only a commit   *)
(* changes, all at once; views of it that stay as they were taken; and     *)
(* writes that a commit installs and an abort forgets.  A row stands for   *)
(* one version of one key.                                                 *)
(***************************************************************************)
CONSTANTS
    Txn,    \* transactions
    Holder, \* whatever can hold a view: transactions and readers
    Row     \* rows that can ever exist

VARIABLES
    committed,  \* the rows the latest snapshot sees
    holding,    \* the holders that have a view
    view,       \* Holder -> the rows of its view
    ins,        \* Txn -> rows it created
    del         \* Txn -> rows it superseded

storeVars == <<committed, holding, view, ins, del>>

Init ==
    /\ committed = {}
    /\ holding = {}
    /\ view = [h \in Holder |-> {}]
    /\ ins = [t \in Txn |-> {}]
    /\ del = [t \in Txn |-> {}]

(* A view is taken: it is the committed rows of that moment. *)
Open(h) ==
    /\ h \notin holding
    /\ holding' = holding \cup {h}
    /\ view' = [view EXCEPT ![h] = committed]
    /\ UNCHANGED <<committed, ins, del>>

(* A reader gives its view up. *)
Close(h) ==
    /\ h \in holding \ Txn
    /\ holding' = holding \ {h}
    /\ view' = [view EXCEPT ![h] = {}]
    /\ UNCHANGED <<committed, ins, del>>

(* A transaction creates a row that is in nobody's view. *)
Create(t, row) ==
    /\ t \in holding
    /\ row \notin committed \cup UNION {view[h] : h \in holding} \cup UNION {ins[u] : u \in Txn}
    /\ ins' = [ins EXCEPT ![t] = @ \cup {row}]
    /\ UNCHANGED <<committed, holding, view, del>>

(* A transaction supersedes a row it sees, which nobody else has superseded. *)
Supersede(t, row) ==
    /\ t \in holding
    /\ row \in (view[t] \cup ins[t]) \ del[t]
    /\ \A u \in Txn \ {t} : row \notin del[u]
    /\ del' = [del EXCEPT ![t] = @ \cup {row}]
    /\ UNCHANGED <<committed, holding, view, ins>>

(* Commit is atomic, and every row it removes was still there to be removed:
   no update is lost. *)
Commit(t) ==
    /\ t \in holding
    /\ del[t] \subseteq committed \cup ins[t]
    /\ committed' = (committed \cup ins[t]) \ del[t]
    /\ holding' = holding \ {t}
    /\ view' = [view EXCEPT ![t] = {}]
    /\ ins' = [ins EXCEPT ![t] = {}]
    /\ del' = [del EXCEPT ![t] = {}]

(* An abort leaves no trace. *)
Abort(t) ==
    /\ t \in holding
    /\ holding' = holding \ {t}
    /\ view' = [view EXCEPT ![t] = {}]
    /\ ins' = [ins EXCEPT ![t] = {}]
    /\ del' = [del EXCEPT ![t] = {}]
    /\ UNCHANGED committed

Next ==
    \/ \E h \in Holder : Open(h) \/ Close(h)
    \/ \E t \in Txn : Commit(t) \/ Abort(t) \/ \E row \in Row : Create(t, row) \/ Supersede(t, row)

Spec == Init /\ [][Next]_storeVars
=============================================================================
