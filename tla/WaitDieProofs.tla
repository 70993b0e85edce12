--------------------------- MODULE WaitDieProofs ----------------------------
(***************************************************************************)
(* Proofs about WaitDie, for every number of transactions: a wait ends     *)
(* only after its blocker has left the active map, no sleeping thread is   *)
(* forgotten, and the waiters map keeps no entry nobody will remove.       *)
(*                                                                         *)
(* The argument.  An entry that a waiter holds is in the map, in the hands *)
(* of a notifier, or raised (Covered).  A waiter that has passed the       *)
(* second is_active check has its entry in the map only as long as the     *)
(* blocker's own thread has not looked there (Queued).  Both need that an  *)
(* entry is never created a second time (UsedOK): a thread that waited for *)
(* b once finds b settled in the CLOG and never waits for it again.        *)
(***************************************************************************)
EXTENDS WaitDie, TLAPS

-----------------------------------------------------------------------------
(* The inductive invariant. *)

InHand(t) == pc[t] \in {"recheck", "lock", "asleep"}
Notifies(t) == pc[t] \in {"raise", "notify_all"}

PcOK ==
    \A t \in Txn :
        /\ pc[t] \in {"check", "install", "recheck", "lock", "asleep"} => on[t] # 0
        /\ pc[t] \in {"run", "dead", "remove", "done"} => on[t] = 0
        /\ t \notin active_txns <=>
              on[t] = 0 /\ pc[t] \in {"notify", "raise", "notify_all", "done"}
        /\ on[t] # 0 /\ pc[t] \in {"notify", "raise", "notify_all"} => on[t] \notin active_txns
        /\ pc[t] = "remove" \/ t \notin active_txns => t \in settled_clog

EntryOK ==
    /\ \A t \in Txn : InHand(t) => entry[t] # NoEntry /\ entry[t][1] = on[t]
    /\ \A t \in Txn : Notifies(t) => entry[t] # NoEntry /\ entry[t][1] = Target(t)
    /\ \A e \in settled : e # NoEntry /\ e[1] \notin active_txns
    /\ \A t \in Txn : pc[t] = "notify_all" => entry[t] \in settled

Used(e) == e \in settled \/ \E t \in Txn : e = waiters[t] \/ e = entry[t]

UsedOK ==
    \A b, x \in Txn : Used(<<b, x>>) =>
        \/ InHand(x) /\ on[x] = b
        \/ b \in settled_clog /\ ~(pc[x] \in {"check", "install"} /\ on[x] = b)

Covered ==
    \A t \in Txn :
        /\ InHand(t) =>
             \/ waiters[on[t]] = entry[t]
             \/ entry[t] \in settled
             \/ \E u \in Txn : pc[u] = "raise" /\ entry[u] = entry[t]
        /\ pc[t] = "asleep" /\ entry[t] \in settled =>
             \E u \in Txn : pc[u] = "notify_all" /\ entry[u] = entry[t]

Queued ==
    \A t \in Txn : pc[t] \in {"lock", "asleep"} /\ waiters[on[t]] = entry[t] =>
        on[t] \in active_txns \/ pc[on[t]] = "notify"

WInv == TypeOK /\ PcOK /\ EntryOK /\ UsedOK /\ Covered /\ Queued /\ NoOrphanEntry

-----------------------------------------------------------------------------
(* A fresh set of transactions waits for nobody. *)
LEMMA InitInv == Init => WInv
<1> SUFFICES ASSUME Init PROVE WInv
  OBVIOUS
<1>1. TypeOK
  BY NAssumption DEF Init, TypeOK, Entry, Txn, NoEntry
<1>2. \A b, x \in Txn : <<b, x>> # NoEntry
  BY NAssumption DEF Txn, NoEntry
<1> QED
  BY <1>1, <1>2 DEF Init, WInv, PcOK, EntryOK, UsedOK, Used, Covered, Queued, NoOrphanEntry, InHand, Notifies

(* Whoever is waited for is a transaction. *)
LEMMA OnOK ==
    ASSUME TypeOK
    PROVE  /\ \A u \in Txn : on[u] # 0 => on[u] \in Txn
           /\ \A u \in Txn : Target(u) \in Txn
BY NAssumption DEF TypeOK, Txn, Target

(* A thread starts to wait only for a transaction the CLOG does not settle, so it
   never held an entry for it before. *)
LEMMA MeetInv ==
    ASSUME WInv, NEW t \in Txn, NEW b \in Txn, Meet(t, b)
    PROVE  WInv'
<1> USE DEF WInv, Meet, Go, TypeOK
<1>0. Txn \subseteq 0 .. N /\ 0 \in 0 .. N
  BY NAssumption DEF Txn
<1>1. TypeOK'
  <2>1. pc' \in [Txn -> {"run", "dead", "check", "install", "recheck", "lock", "asleep",
                       "remove", "notify", "raise", "notify_all", "done"}]
    OBVIOUS
  <2>2. on' \in [Txn -> 0 .. N]
    BY <1>0
  <2> QED
    BY <2>1, <2>2
<1>2. PcOK'
  BY NAssumption DEF PcOK, Txn
<1>3. EntryOK'
  BY DEF EntryOK, PcOK, InHand, Notifies, Target
<1>4. UsedOK'
  BY DEF UsedOK, Used, InHand, PcOK
<1>5. Covered'
  BY DEF Covered, InHand
<1>6. Queued'
  BY OnOK DEF Queued, PcOK
<1>7. NoOrphanEntry'
  BY DEF NoOrphanEntry
<1> QED
  BY <1>1, <1>2, <1>3, <1>4, <1>5, <1>6, <1>7

(* The fast path: a wait for a blocker that has left ends at once. *)
LEMMA CheckInv ==
    ASSUME WInv, NEW t \in Txn, Check(t)
    PROVE  WInv'
<1> USE DEF WInv, Check, Go, Leave, TypeOK
<1>0. Txn \subseteq 0 .. N /\ 0 \in 0 .. N
  BY NAssumption DEF Txn
<1>1. TypeOK'
  <2>1. pc' \in [Txn -> {"run", "dead", "check", "install", "recheck", "lock", "asleep",
                       "remove", "notify", "raise", "notify_all", "done"}]
    OBVIOUS
  <2>2. on' \in [Txn -> 0 .. N]
    BY <1>0
  <2> QED
    BY <2>1, <2>2
<1>2. PcOK'
  BY NAssumption DEF PcOK, Txn
<1>3. EntryOK'
  BY DEF EntryOK, PcOK, InHand, Notifies, Target
<1>4. UsedOK'
  BY DEF UsedOK, Used, InHand, PcOK
<1>5. Covered'
  BY DEF Covered, InHand
<1>6. Queued'
  BY OnOK DEF Queued, PcOK
<1>7. NoOrphanEntry'
  BY DEF NoOrphanEntry
<1> QED
  BY <1>1, <1>2, <1>3, <1>4, <1>5, <1>6, <1>7

(* Installing an entry: a new one has never been used before. *)
LEMMA InstallInv ==
    ASSUME WInv, NEW t \in Txn, Install(t)
    PROVE  WInv'
<1> USE DEF WInv, Install, Go, TypeOK
<1>0. on[t] \in Txn /\ on[t] # 0 /\ pc[t] = "install"
  BY NAssumption DEF PcOK, Txn
<1>1. TypeOK'
  BY <1>0, NAssumption DEF Txn, Entry
<1>2. PcOK'
  BY NAssumption DEF PcOK, Txn
<1>3. EntryOK'
  BY <1>0 DEF EntryOK, PcOK, InHand, Notifies, Target, NoEntry, Txn
<1>4. UsedOK'
  BY <1>0 DEF UsedOK, Used, InHand, PcOK
<1>5. Covered'
  BY <1>0, OnOK DEF Covered, InHand, EntryOK
<1>6. Queued'
  BY <1>0, OnOK DEF Queued, PcOK, UsedOK, Used, InHand
<1>7. NoOrphanEntry'
  BY <1>0 DEF NoOrphanEntry
<1> QED
  BY <1>1, <1>2, <1>3, <1>4, <1>5, <1>6, <1>7

(* The missed-wakeup guard: a thread goes on to sleep only with its entry in the map
   while the blocker is active, or in the hands of a notifier. *)
LEMMA RecheckInv ==
    ASSUME WInv, NEW t \in Txn, Recheck(t)
    PROVE  WInv'
<1> USE DEF WInv, Recheck, Go, TypeOK
<1>0. Txn \subseteq 0 .. N /\ 0 \in 0 .. N /\ \A u \in Txn : u # 0
  BY NAssumption DEF Txn
<1>1. TypeOK'
  BY <1>0
<1>2. PcOK'
  BY <1>0, OnOK DEF PcOK
<1>3. EntryOK'
  BY <1>0, OnOK DEF EntryOK, PcOK, InHand, Notifies, Target
<1>4. UsedOK'
  BY <1>0, OnOK DEF UsedOK, Used, InHand, PcOK
<1>5. Covered'
  BY <1>0, OnOK DEF Covered, InHand
<1>6. Queued'
  BY <1>0, OnOK DEF Queued, PcOK
<1>7. NoOrphanEntry'
  BY <1>0, OnOK DEF NoOrphanEntry, PcOK
<1> QED
  BY <1>1, <1>2, <1>3, <1>4, <1>5, <1>6, <1>7

(* The flag is tested in the step that puts the thread to sleep, so a raised entry
   finds nobody asleep who is not about to be notified. *)
LEMMA LockInv ==
    ASSUME WInv, NEW t \in Txn, Lock(t)
    PROVE  WInv'
<1> USE DEF WInv, Lock, Go, Leave, TypeOK
<1>0. Txn \subseteq 0 .. N /\ 0 \in 0 .. N /\ \A u \in Txn : u # 0
  BY NAssumption DEF Txn
<1>1. TypeOK'
  BY <1>0
<1>2. PcOK'
  BY <1>0, OnOK DEF PcOK
<1>3. EntryOK'
  BY <1>0, OnOK DEF EntryOK, PcOK, InHand, Notifies, Target
<1>4. UsedOK'
  BY <1>0, OnOK DEF UsedOK, Used, InHand, PcOK, EntryOK
<1>5. Covered'
  BY <1>0, OnOK DEF Covered, InHand
<1>6. Queued'
  BY <1>0, OnOK DEF Queued, PcOK
<1>7. NoOrphanEntry'
  BY <1>0, OnOK DEF NoOrphanEntry, PcOK
<1> QED
  BY <1>1, <1>2, <1>3, <1>4, <1>5, <1>6, <1>7

(* A spurious wakeup tests the flag again. *)
LEMMA WakeupInv ==
    ASSUME WInv, NEW t \in Txn, SpuriousWakeup(t)
    PROVE  WInv'
<1> USE DEF WInv, SpuriousWakeup, Go, TypeOK
<1>0. Txn \subseteq 0 .. N /\ 0 \in 0 .. N /\ \A u \in Txn : u # 0
  BY NAssumption DEF Txn
<1>1. TypeOK'
  BY <1>0
<1>2. PcOK'
  BY <1>0, OnOK DEF PcOK
<1>3. EntryOK'
  BY <1>0, OnOK DEF EntryOK, PcOK, InHand, Notifies, Target
<1>4. UsedOK'
  BY <1>0, OnOK DEF UsedOK, Used, InHand, PcOK
<1>5. Covered'
  BY <1>0, OnOK DEF Covered, InHand
<1>6. Queued'
  BY <1>0, OnOK DEF Queued, PcOK
<1>7. NoOrphanEntry'
  BY <1>0, OnOK DEF NoOrphanEntry, PcOK
<1> QED
  BY <1>1, <1>2, <1>3, <1>4, <1>5, <1>6, <1>7

(* The CLOG entry of a transaction that ends. *)
LEMMA EndInv ==
    ASSUME WInv, NEW t \in Txn, End(t)
    PROVE  WInv'
<1> USE DEF WInv, End, Go, TypeOK
<1>0. Txn \subseteq 0 .. N /\ 0 \in 0 .. N /\ \A u \in Txn : u # 0
  BY NAssumption DEF Txn
<1>1. TypeOK'
  BY <1>0
<1>2. PcOK'
  BY <1>0, OnOK DEF PcOK
<1>3. EntryOK'
  BY <1>0, OnOK DEF EntryOK, PcOK, InHand, Notifies, Target
<1>4. UsedOK'
  BY <1>0, OnOK DEF UsedOK, Used, InHand, PcOK
<1>5. Covered'
  BY <1>0, OnOK DEF Covered, InHand
<1>6. Queued'
  BY <1>0, OnOK DEF Queued, PcOK
<1>7. NoOrphanEntry'
  BY <1>0, OnOK DEF NoOrphanEntry, PcOK
<1> QED
  BY <1>1, <1>2, <1>3, <1>4, <1>5, <1>6, <1>7

(* Leaving the active map: the own thread comes to the waiters map next. *)
LEMMA RemoveInv ==
    ASSUME WInv, NEW t \in Txn, Remove(t)
    PROVE  WInv'
<1> USE DEF WInv, Remove, Go, TypeOK
<1>0. Txn \subseteq 0 .. N /\ 0 \in 0 .. N /\ \A u \in Txn : u # 0
  BY NAssumption DEF Txn
<1>1. TypeOK'
  BY <1>0
<1>2. PcOK'
  BY <1>0, OnOK DEF PcOK
<1>3. EntryOK'
  BY <1>0, OnOK DEF EntryOK, PcOK, InHand, Notifies, Target
<1>4. UsedOK'
  BY <1>0, OnOK DEF UsedOK, Used, InHand, PcOK
<1>5. Covered'
  BY <1>0, OnOK DEF Covered, InHand
<1>6. Queued'
  BY <1>0, OnOK DEF Queued, PcOK
<1>7. NoOrphanEntry'
  BY <1>0, OnOK DEF NoOrphanEntry, PcOK
<1> QED
  BY <1>1, <1>2, <1>3, <1>4, <1>5, <1>6, <1>7

(* Taking the entry out of the map passes the duty to wake its holders on. *)
LEMMA NotifyRemoveInv ==
    ASSUME WInv, NEW t \in Txn, NotifyRemove(t)
    PROVE  WInv'
<1> DEFINE b == Target(t)
           e == waiters[b]
<1>0. Txn \subseteq 0 .. N /\ 0 \in 0 .. N /\ \A u \in Txn : u # 0
  BY NAssumption DEF Txn
<1>1. b \in Txn /\ b \notin active_txns /\ e \in Entry /\ pc[t] = "notify"
  BY OnOK DEF WInv, TypeOK, PcOK, NotifyRemove, Target
<1>2. CASE e = NoEntry
  <2>0. Leave(t) /\ UNCHANGED <<waiters, entry, active_txns, settled_clog, settled>>
    BY <1>2 DEF NotifyRemove
  <2> USE DEF WInv, TypeOK, Leave, Go
  <2>1. TypeOK'
    BY <1>0, <2>0
  <2>2. PcOK'
    BY <1>0, <1>1, <2>0, OnOK DEF PcOK
  <2>3. EntryOK'
    BY <1>0, <1>1, <2>0, OnOK DEF EntryOK, PcOK, InHand, Notifies, Target
  <2>4. UsedOK'
    BY <1>0, <1>1, <2>0, OnOK DEF UsedOK, Used, InHand, PcOK
  <2>5. Covered'
    BY <1>0, <1>1, <2>0, OnOK DEF Covered, InHand
  <2>6. Queued'
    BY <1>0, <1>1, <1>2, <2>0, OnOK DEF Queued, PcOK, EntryOK, InHand, Target
  <2>7. NoOrphanEntry'
    BY <1>0, <1>1, <1>2, <2>0, OnOK DEF NoOrphanEntry, PcOK, Target
  <2> QED
    BY <2>1, <2>2, <2>3, <2>4, <2>5, <2>6, <2>7
<1>3. CASE e # NoEntry
  <2>0. /\ entry' = [entry EXCEPT ![t] = e]
        /\ waiters' = [waiters EXCEPT ![b] = NoEntry]
        /\ pc' = [pc EXCEPT ![t] = "raise"]
        /\ UNCHANGED <<on, active_txns, settled_clog, settled>>
        /\ e[1] = b
    BY <1>1, <1>3 DEF NotifyRemove, Go, WInv, TypeOK
  <2> HIDE DEF b, e
  <2> USE DEF WInv, TypeOK
  <2>1. TypeOK'
    BY <1>0, <1>1, <2>0 DEF Entry
  <2>2. PcOK'
    BY <1>0, <1>1, <2>0, OnOK DEF PcOK
  <2>3. EntryOK'
    BY <1>0, <1>1, <1>3, <2>0, OnOK DEF EntryOK, PcOK, InHand, Notifies, Target, b
  <2>4. UsedOK'
    BY <1>0, <1>1, <2>0, OnOK DEF UsedOK, Used, InHand, PcOK, e, NoEntry
  <2>5. Covered'
    BY <1>0, <1>1, <2>0, OnOK DEF Covered, InHand, e
  <2>6. Queued'
    BY <1>0, <1>1, <1>3, <2>0, OnOK DEF Queued, PcOK, EntryOK, InHand, b, Target
  <2>7. NoOrphanEntry'
    BY <1>0, <1>1, <2>0, OnOK DEF NoOrphanEntry, PcOK, b, Target
  <2> QED
    BY <2>1, <2>2, <2>3, <2>4, <2>5, <2>6, <2>7
<1> QED
  BY <1>2, <1>3

(* Raising the flag turns away whoever has not gone to sleep yet. *)
LEMMA RaiseInv ==
    ASSUME WInv, NEW t \in Txn, Raise(t)
    PROVE  WInv'
<1> USE DEF WInv, Raise, Go, TypeOK
<1>0. Txn \subseteq 0 .. N /\ 0 \in 0 .. N /\ \A u \in Txn : u # 0
  BY NAssumption DEF Txn
<1>1. TypeOK'
  BY <1>0
<1>2. PcOK'
  BY <1>0, OnOK DEF PcOK
<1>3. EntryOK'
  BY <1>0, OnOK DEF EntryOK, PcOK, InHand, Notifies, Target
<1>4. UsedOK'
  BY <1>0, OnOK DEF UsedOK, Used, InHand, PcOK
<1>5. Covered'
  BY <1>0, OnOK DEF Covered, InHand
<1>6. Queued'
  BY <1>0, OnOK DEF Queued, PcOK
<1>7. NoOrphanEntry'
  BY <1>0, OnOK DEF NoOrphanEntry, PcOK
<1> QED
  BY <1>1, <1>2, <1>3, <1>4, <1>5, <1>6, <1>7

(* notify_all wakes every holder of the entry that is asleep. *)
LEMMA NotifyAllInv ==
    ASSUME WInv, NEW t \in Txn, NotifyAll(t)
    PROVE  WInv'
<1> USE DEF WInv, NotifyAll, TypeOK
<1>0. Txn \subseteq 0 .. N /\ 0 \in 0 .. N /\ \A u \in Txn : u # 0
  BY NAssumption DEF Txn
<1>1. TypeOK'
  BY <1>0
<1>2. PcOK'
  BY <1>0, OnOK DEF PcOK
<1>3. EntryOK'
  BY <1>0, OnOK DEF EntryOK, PcOK, InHand, Notifies, Target
<1>4. UsedOK'
  BY <1>0, OnOK DEF UsedOK, Used, InHand, PcOK
<1>5. Covered'
  BY <1>0, OnOK DEF Covered, InHand
<1>6. Queued'
  BY <1>0, OnOK DEF Queued, PcOK
<1>7. NoOrphanEntry'
  BY <1>0, OnOK DEF NoOrphanEntry, PcOK
<1> QED
  BY <1>1, <1>2, <1>3, <1>4, <1>5, <1>6, <1>7

-----------------------------------------------------------------------------
(* The invariant is inductive. *)
LEMMA NextInv == WInv /\ [Next]_vars => WInv'
<1> SUFFICES ASSUME WInv, [Next]_vars PROVE WInv'
  OBVIOUS
<1>1. CASE UNCHANGED vars
  BY <1>1 DEF vars, WInv, TypeOK, PcOK, EntryOK, UsedOK, Used, Covered, Queued, NoOrphanEntry,
              InHand, Notifies, Target
<1>2. CASE Next
  BY <1>2, MeetInv, CheckInv, InstallInv, RecheckInv, LockInv, WakeupInv, EndInv, RemoveInv,
     NotifyRemoveInv, RaiseInv, NotifyAllInv DEF Next, Step
<1> QED
  BY <1>1, <1>2

(* The invariant holds in every reachable state. *)
THEOREM WaitInvariant == Spec => []WInv
BY InitInv, NextInv, PTL DEF Spec

(* Type correctness; an entry is filed under the transaction it is for. *)
THEOREM TypeCorrect == Spec => []TypeOK
<1>1. WInv => TypeOK
  BY DEF WInv
<1> QED
  BY <1>1, WaitInvariant, PTL

(* No wakeup is missed between the two is_active checks, the installation of the
   entry and notify_waiters, for every number of waiters. *)
THEOREM NoMissedWakeupTheorem == Spec => []NoMissedWakeup
<1>1. WInv => NoMissedWakeup
  BY DEF WInv, NoMissedWakeup, Covered, Queued, InHand
<1> QED
  BY <1>1, WaitInvariant, PTL

(* No entry stays in the waiters map for good. *)
THEOREM NoOrphanTheorem == Spec => []NoOrphanEntry
<1>1. WInv => NoOrphanEntry
  BY DEF WInv
<1> QED
  BY <1>1, WaitInvariant, PTL

(* wait_until_settled does not return before its blocker has left the active map. *)
THEOREM WaitsOutTheorem == Spec => WaitsOutTheBlocker
<1>1. WInv /\ [Next]_vars =>
        [\A t \in Txn : on[t] # 0 /\ on'[t] = 0 => on[t] \notin active_txns]_vars
  <2> SUFFICES ASSUME WInv, Next, NEW u \in Txn, on[u] # 0, on'[u] = 0
               PROVE  on[u] \notin active_txns
    OBVIOUS
  <2>1. PICK t \in Txn : \/ \E b \in Txn : Meet(t, b)
                         \/ Step(t) \/ SpuriousWakeup(t) \/ End(t)
    BY DEF Next
  <2>2. on \in [Txn -> 0 .. N] /\ \A b \in Txn : b # 0
    BY NAssumption DEF WInv, TypeOK, Txn
  <2>3. CASE Check(t)
    BY <2>2, <2>3 DEF Check, Leave
  <2>4. CASE Lock(t)
    BY <2>2, <2>4 DEF Lock, Leave, WInv, EntryOK, InHand
  <2>5. CASE NotifyRemove(t) \/ NotifyAll(t)
    BY <2>2, <2>5 DEF NotifyRemove, NotifyAll, Leave, WInv, PcOK
  <2>6. CASE \E b \in Txn : Meet(t, b)
    BY <2>2, <2>6 DEF Meet
  <2>7. CASE Install(t) \/ Recheck(t) \/ Remove(t) \/ Raise(t) \/ SpuriousWakeup(t) \/ End(t)
    BY <2>7 DEF Install, Recheck, Remove, Raise, SpuriousWakeup, End
  <2> QED
    BY <2>1, <2>3, <2>4, <2>5, <2>6, <2>7 DEF Step
<1> QED
  BY <1>1, WaitInvariant, PTL DEF Spec, WaitsOutTheBlocker
=============================================================================
