------------------------------ MODULE WaitDie -------------------------------
(***************************************************************************)
(* How a writer waits for a conflicting transaction: the wait-die rule of  *)
(* wait_for_txn and the condition-variable protocol behind it              *)
(* (wait_until_settled, notify_waiters), at the grain of its locks.        *)
(*                                                                         *)
(* Each transaction is driven by one thread.  The transactions have all    *)
(* begun; which of them conflict, and when, is left open.  A waiter entry  *)
(* (the Arc of a flag and a condvar) is named by the transaction it is for *)
(* and the thread that installed it.                                       *)
(***************************************************************************)
EXTENDS Integers

CONSTANT N   \* bound: the number of transactions

ASSUME NAssumption == N \in Nat \ {0}

Txn == 1 .. N
NoEntry == <<0, 0>>
Entry == (Txn \X Txn) \cup {NoEntry}

VARIABLES
    active_txns,  \* the keys of the active map
    settled_clog, \* the transactions with a Committed or Aborted CLOG entry
    waiters,      \* Txn -> the entry the waiters map holds for it
    settled,      \* the entries whose flag is true
    pc,           \* Txn -> where its thread is
    on,           \* Txn -> the transaction it waits for, 0 when it does not
    entry         \* Txn -> the entry its thread has in hand

vars == <<active_txns, settled_clog, waiters, settled, pc, on, entry>>

Go(t, where) == pc' = [pc EXCEPT ![t] = where]

(* The thread leaves notify_waiters or wait_until_settled. *)
Leave(t) ==
    /\ Go(t, IF on[t] = 0 THEN "done" ELSE "run")
    /\ on' = [on EXCEPT ![t] = 0]

-----------------------------------------------------------------------------
(* The waiting side. *)

(* Mutant: nobody dies. *)
Meet_AlwaysWaits(t, b) ==
    /\ pc[t] = "run"
    /\ b # t
    /\ b \notin settled_clog
    /\ on' = [on EXCEPT ![t] = b] /\ Go(t, "check")
    /\ UNCHANGED <<active_txns, settled_clog, waiters, settled, entry>>

(* An index call of t finds a version that b, still in progress, created or
   claimed.  The younger of the two dies; its handle is good for an abort only. *)
Meet(t, b) ==
    /\ pc[t] = "run"
    /\ b # t
    /\ b \notin settled_clog
    /\ \/ t > b /\ Go(t, "dead") /\ UNCHANGED on
       \/ t < b /\ on' = [on EXCEPT ![t] = b] /\ Go(t, "check")
    /\ UNCHANGED <<active_txns, settled_clog, waiters, settled, entry>>

(* wait_until_settled, the fast path. *)
Check(t) ==
    /\ pc[t] = "check"
    /\ IF on[t] \in active_txns
       THEN Go(t, "install") /\ UNCHANGED on
       ELSE Leave(t)
    /\ UNCHANGED <<active_txns, settled_clog, waiters, settled, entry>>

(* entry(..).or_insert_with(..) under the lock of the waiters map. *)
Install(t) ==
    /\ pc[t] = "install"
    /\ LET e == IF waiters[on[t]] = NoEntry THEN <<on[t], t>> ELSE waiters[on[t]]
       IN  /\ waiters' = [waiters EXCEPT ![on[t]] = e]
           /\ entry' = [entry EXCEPT ![t] = e]
    /\ Go(t, "recheck")
    /\ UNCHANGED <<active_txns, settled_clog, settled, on>>

(* Mutant: a waiter that came too late just returns. *)
Recheck_NoCleanup(t) ==
    /\ pc[t] = "recheck"
    /\ IF on[t] \in active_txns
       THEN Go(t, "lock") /\ UNCHANGED on
       ELSE Leave(t)
    /\ UNCHANGED <<active_txns, settled_clog, waiters, settled, entry>>

(* The missed-wakeup guard. *)
Recheck(t) ==
    /\ pc[t] = "recheck"
    /\ Go(t, IF on[t] \in active_txns THEN "lock" ELSE "notify")
    /\ UNCHANGED <<active_txns, settled_clog, waiters, settled, on, entry>>

(* wait_while: the flag is tested under the entry's mutex, which the condvar
   releases in the same step in which it puts the thread to sleep. *)
Lock(t) ==
    /\ pc[t] = "lock"
    /\ IF entry[t] \in settled
       THEN Leave(t)
       ELSE Go(t, "asleep") /\ UNCHANGED on
    /\ UNCHANGED <<active_txns, settled_clog, waiters, settled, entry>>

SpuriousWakeup(t) ==
    /\ pc[t] = "asleep"
    /\ Go(t, "lock")
    /\ UNCHANGED <<active_txns, settled_clog, waiters, settled, on, entry>>

-----------------------------------------------------------------------------
(* The settling side: mark_committed and mark_aborted. *)

End(t) ==
    /\ pc[t] \in {"run", "dead"}
    /\ settled_clog' = settled_clog \cup {t}
    /\ Go(t, "remove")
    /\ UNCHANGED <<active_txns, waiters, settled, on, entry>>

(* Mutant: wakes the waiters without leaving the active map. *)
Remove_Forgotten(t) ==
    /\ pc[t] = "remove"
    /\ Go(t, "notify")
    /\ UNCHANGED <<active_txns, settled_clog, waiters, settled, on, entry>>

Remove(t) ==
    /\ pc[t] = "remove"
    /\ active_txns' = active_txns \ {t}
    /\ Go(t, "notify")
    /\ UNCHANGED <<settled_clog, waiters, settled, on, entry>>

(* The transaction notify_waiters is called for: the thread's own, or the one a
   late waiter cleans up after. *)
Target(t) == IF on[t] = 0 THEN t ELSE on[t]

NotifyRemove(t) ==
    /\ pc[t] = "notify"
    /\ \/ waiters[Target(t)] = NoEntry /\ Leave(t) /\ UNCHANGED <<waiters, entry>>
       \/ /\ waiters[Target(t)] # NoEntry
          /\ entry' = [entry EXCEPT ![t] = waiters[Target(t)]]
          /\ waiters' = [waiters EXCEPT ![Target(t)] = NoEntry]
          /\ Go(t, "raise") /\ UNCHANGED on
    /\ UNCHANGED <<active_txns, settled_clog, settled>>

(* Mutant: notifies without setting the flag. *)
Raise_NoFlag(t) ==
    /\ pc[t] = "raise"
    /\ Go(t, "notify_all")
    /\ UNCHANGED <<active_txns, settled_clog, waiters, settled, on, entry>>

Raise(t) ==
    /\ pc[t] = "raise"
    /\ settled' = settled \cup {entry[t]}
    /\ Go(t, "notify_all")
    /\ UNCHANGED <<active_txns, settled_clog, waiters, on, entry>>

NotifyAll(t) ==
    /\ pc[t] = "notify_all"
    /\ pc' = [u \in Txn |->
                IF u = t THEN IF on[t] = 0 THEN "done" ELSE "run"
                ELSE IF pc[u] = "asleep" /\ entry[u] = entry[t] THEN "lock" ELSE pc[u]]
    /\ on' = [on EXCEPT ![t] = 0]
    /\ UNCHANGED <<active_txns, settled_clog, waiters, settled, entry>>

-----------------------------------------------------------------------------
Init ==
    /\ active_txns = Txn
    /\ settled_clog = {}
    /\ waiters = [t \in Txn |-> NoEntry]
    /\ settled = {}
    /\ pc = [t \in Txn |-> "run"]
    /\ on = [t \in Txn |-> 0]
    /\ entry = [t \in Txn |-> NoEntry]

(* The steps of a thread inside wait_until_settled or notify_waiters. *)
Step(t) ==
    \/ Check(t) \/ Install(t) \/ Recheck(t) \/ Lock(t)
    \/ Remove(t) \/ NotifyRemove(t) \/ Raise(t) \/ NotifyAll(t)

Next ==
    \E t \in Txn :
        \/ \E b \in Txn : Meet(t, b)
        \/ Step(t)
        \/ SpuriousWakeup(t)
        \/ End(t)

(* A runnable thread runs, and the owner of a handle that is not blocked in a
   call ends it some time.  Nothing makes transactions conflict. *)
Fairness == \A t \in Txn : WF_vars(Step(t)) /\ WF_vars(End(t))

Spec == Init /\ [][Next]_vars /\ Fairness

-----------------------------------------------------------------------------
(* Properties. *)

(* The shape of the state; the waiters map files an entry under the transaction it
   is for. *)
TypeOK ==
    /\ active_txns \subseteq Txn
    /\ settled_clog \subseteq Txn
    /\ waiters \in [Txn -> Entry]
    /\ \A b \in Txn : waiters[b] # NoEntry => waiters[b][1] = b
    /\ settled \subseteq Entry
    /\ pc \in [Txn -> {"run", "dead", "check", "install", "recheck", "lock", "asleep",
                       "remove", "notify", "raise", "notify_all", "done"}]
    /\ on \in [Txn -> 0 .. N]
    /\ entry \in [Txn -> Entry]

(* wait_until_settled returns only after the blocker has left the active map:
   neither a wakeup meant for another wait nor a stale entry ends a wait early. *)
WaitsOutTheBlocker ==
    [][\A t \in Txn : on[t] # 0 /\ on'[t] = 0 => on[t] \notin active_txns]_vars

(* No wakeup is missed: when the transaction a thread sleeps on has left the
   active map, some thread is still on its way to that thread's entry, to take it
   out of the map, to raise its flag or to call notify_all. *)
NoMissedWakeup ==
    \A t \in Txn : pc[t] = "asleep" /\ on[t] \notin active_txns =>
        \/ waiters[on[t]] = entry[t] /\ pc[on[t]] = "notify"
        \/ \E u \in Txn : pc[u] \in {"raise", "notify_all"} /\ entry[u] = entry[t]

(* The waiters map does not leak: an entry for a transaction that is no longer
   active is about to be removed, by the transaction's own thread or by a late
   waiter. *)
NoOrphanEntry ==
    \A b \in Txn : waiters[b] # NoEntry /\ b \notin active_txns =>
        \E t \in Txn :
            \/ t = b /\ pc[t] = "notify"
            \/ on[t] = b /\ pc[t] \in {"recheck", "notify"}

(* Wait-die and the condvar protocol together leave nobody waiting: every
   transaction ends, however the conflicts fall. *)
EveryoneEnds == \A t \in Txn : <>(pc[t] = "done")
=============================================================================
