------------------------------ MODULE Recovery ------------------------------
(***************************************************************************)
(* The engine across crashes: pages in the pool and on disk, the log, the  *)
(* CLOG and the allocators while transactions, structure changes, vacuum   *)
(* and checkpoints run; a power loss at any step; and the recovery that    *)
(* `open` runs, which may itself be cut short.                             *)
(*                                                                         *)
(* A page change is two steps here: change, log record and page LSN under  *)
(* one latch, and later the drop of the guard, which marks the page dirty. *)
(* Records that name a page the writer latches only later (InsertDownLink  *)
(* and NewRoot: the child; UnlinkPage: the right sibling) take one more.   *)
(* Nothing keeps other writers and checkpoints out of these gaps.  `raced` *)
(* collects the pages it happened to, and the properties about pages say   *)
(* what the code guarantees of the others.                                 *)
(*                                                                         *)
(* The races inside the pool are BufferPool's, those of the tree           *)
(* BLinkTree's, visibility is Mvcc's; only one structure change and one    *)
(* sweep are under way at a time, and never on the same leaves.            *)
(***************************************************************************)
EXTENDS RedoLog

CONSTANTS
    LeafCap,    \* versions a leaf holds
    Chunks,     \* pages of an overflow chain
    Plans       \* start states, with the bounds on what may happen after them

ASSUME RecoveryAssumption == LeafCap \in Nat \ {0, 1} /\ Chunks \in Nat \ {0}

VARIABLES
    wal,        \* the whole history; the files hold the records first .. Len(wal)
    first,      \* oldest record a segment still holds
    flushed,    \* flushed_lsn: records up to here survive
    superblock, \* LSN of the committed checkpoint, 0 if there is none
    mem,        \* Pid -> the page as the pool has it
    dirty,      \* pages marked as not in the file yet
    guards,     \* actor -> pages it has changed and not unpinned yet
    disk,       \* Pid -> the contents a power loss may leave, the last written at the end
    raced,      \* history: pages whose contents the log need not tell any more
    life,       \* "up", "failed" (a flush of the log failed), "down" or "recovering"
    next_txn_id, clog,
    active,     \* TxnId -> xmin of the snapshot, 0 when not active
    committing, \* transactions that hold the status guard shared
    vacuum_horizon,
    next_page_id, free_pool, pending_recycle,
    job,        \* the structure change or big insert under way
    sweep,      \* the sweep under way
    ckpt,       \* the checkpoint under way
    redo,       \* the recovery under way
    acked,      \* history: transactions whose commit returned
    plan        \* what is left of the plan

logVars == <<wal, first, flushed, superblock>>
pageVars == <<mem, dirty, guards, raced>>
poolVars == <<pageVars, disk>>
tmVars == <<next_txn_id, clog, active, committing, vacuum_horizon, acked>>
spaceVars == <<next_page_id, free_pool, pending_recycle>>
taskVars == <<job, sweep, ckpt, redo>>
vars == <<logVars, poolVars, tmVars, spaceVars, taskVars, life, plan>>

NoJob == [at |-> "none", txn |-> 0, leaf |-> Nil, pid |-> Nil, head |-> Nil, n |-> 0]
NoSweep == [at |-> "none", xmin |-> 0, leaf |-> Nil, prev |-> Nil, next |-> Nil,
            chains |-> {}, lsn |-> 0]
NoCkpt == [at |-> "none", data |-> NoData, lsn |-> 0, late |-> {}]
NoRedo == [pos |-> 0, data |-> NoData]

NextLsn == Len(wal) + 1

(* Who holds page guards: each transaction, the structure change and the sweep. *)
Structural == 0
Sweeper == MaxTxn + 1
Actor == {Structural, Sweeper} \cup TxnId

(* What is spent of the plan, one unit at a time. *)
Spend(what) == plan[what] > 0 /\ plan' = [plan EXCEPT ![what] = @ - 1]

-----------------------------------------------------------------------------
(* The transaction manager, as far as a restart has to rebuild it. *)

GlobalXmin ==
    LET xmins == {active[t] : t \in TxnId} \ {0}
    IN  IF xmins = {} THEN next_txn_id ELSE Min(xmins)

Active(t) == active[t] # 0

SettledStatus(t) ==
    IF clog[t] \in {"Committed", "Aborted"} THEN clog[t]
    ELSE IF t < GlobalXmin THEN "Committed" ELSE "Active"

IsVacuumable(v, horizon) ==
    \/ SettledStatus(v.xmin) = "Aborted"
    \/ /\ v.xmax # 0
       /\ SettledStatus(v.xmax) = "Committed"
       /\ v.xmax < horizon

Logged(type, t) == \E lsn \in 1 .. Len(wal) : wal[lsn].type = type /\ wal[lsn].txn = t

(* It has logged something, or left a version on a page in the attempt. *)
WroteAnything(t) ==
    \/ \E lsn \in 1 .. Len(wal) : wal[lsn].txn = t
    \/ \E p \in Pid : \E i \in DOMAIN mem[p].recs : mem[p].recs[i].xmin = t

-----------------------------------------------------------------------------
(* The tree. *)

Root == CHOOSE p \in mem[Meta].ids : TRUE

Children == IF mem[Root].kind = "leaf" THEN {Root} ELSE mem[Root].ids

(* A leaf that has split is reached through its left neighbour until the
   downlink is in. *)
Leaves == Children \cup {mem[p].right : p \in {q \in Children : mem[q].incomplete}}

Leftmost == CHOOSE p \in Leaves : \A q \in Leaves : mem[q].right # p

(* collect_overflow_page_ids *)
RECURSIVE Chain(_)
Chain(p) == IF p = Nil THEN {} ELSE {p} \cup Chain(mem[p].right)

(* Pages under an exclusive latch between two steps: a leaf that splits, a new
   page until its first image is logged, the parent until the child's flag is
   cleared, and the left neighbour of an unlinked leaf until the right one is
   done. *)
Latched ==
    (IF job.at = "split" THEN {job.leaf, job.pid} ELSE {})
    \cup (IF job.at = "image" THEN {job.pid} ELSE {})
    \cup (IF job.at = "root" THEN {job.head} ELSE {})
    \cup (IF job.at = "clear" /\ job.head = Nil THEN {Root} ELSE {})
    \cup (IF sweep.at = "back" THEN {sweep.prev} \ {Nil} ELSE {})

(* Pages named by a record that is in the log but not yet on the page. *)
Awaited ==
    (IF job.at = "clear" THEN {job.leaf} ELSE {})
    \cup (IF sweep.at = "back" THEN {sweep.next} ELSE {})

-----------------------------------------------------------------------------
Init ==
    \E p \in Plans :
        /\ wal = <<LogCheckpoint([NoData EXCEPT !.redo_point = 1, !.next_txn_id = p.next_txn_id,
                                                !.next_page_id = p.next_page_id])>>
        /\ first = 1
        /\ flushed = 1
        /\ superblock = 1
        /\ mem = p.pages
        /\ dirty = {}
        /\ guards = [a \in Actor |-> {}]
        /\ raced = {}
        /\ disk = [q \in Pid |-> <<p.pages[q]>>]
        /\ life = "up"
        /\ next_txn_id = p.next_txn_id
        /\ clog = [t \in TxnId |-> "Absent"]
        /\ active = [t \in TxnId |-> 0]
        /\ committing = {}
        /\ vacuum_horizon = 0
        /\ next_page_id = p.next_page_id
        /\ free_pool = ScanFree(p.pages[Bitmap])
        /\ pending_recycle = {}
        /\ job = NoJob
        /\ sweep = NoSweep
        /\ ckpt = NoCkpt
        /\ redo = NoRedo
        /\ acked = {}
        /\ plan = p

(* Whatever the actor has changed is unpinned, but for pages it still latches. *)
Ready(actor) == guards[actor] \subseteq Latched

(* append refuses once a flush has failed.  Otherwise: append record r and change
   the pages in `now`, the ones of its blocks that the writer has latched.  A page
   that an earlier record still waits for is overtaken by this one, and a split
   copies what a raced leaf holds. *)
Log(actor, r, now) ==
    LET done == SelectSeq(r.blocks, LAMBDA b : b.pid \in now)
    IN  /\ life # "failed"
        /\ Ready(actor)
        /\ wal' = Append(wal, r)
        /\ mem' = Applied(mem, [r EXCEPT !.blocks = done], NextLsn)
        /\ guards' = [guards EXCEPT ![actor] = @ \cup now]
        /\ raced' = raced \cup (now \cap Awaited)
                    \cup (IF r.type = "LeafSplit" /\ now \cap raced # {} THEN now ELSE {})
        /\ UNCHANGED dirty

(* A page of an earlier record is latched at last. *)
Late(actor, pid, op, arg, lsn) ==
    /\ Ready(actor)
    /\ mem' = [mem EXCEPT ![pid] = Stamped(@, Data(pid, op, 0, arg), lsn)]
    /\ guards' = [guards EXCEPT ![actor] = @ \cup {pid}]
    /\ UNCHANGED <<dirty, raced>>

Unmarked == UNION {guards[a] : a \in Actor}

(* The drop of a page guard: unpin_page, which marks the page dirty. *)
Unpin(actor, p) ==
    /\ p \in guards[actor] \ Latched
    /\ guards' = [guards EXCEPT ![actor] = @ \ {p}]
    /\ dirty' = dirty \cup {p}
    /\ UNCHANGED <<logVars, mem, raced, disk, tmVars, spaceVars, taskVars, life, plan>>

-----------------------------------------------------------------------------
(* Transactions. *)

Running == life \in {"up", "failed"}

Begin(t) ==
    /\ Running
    /\ t = next_txn_id
    /\ next_txn_id' = t + 1
    /\ active' = [active EXCEPT ![t] = Min({u \in TxnId : Active(u)} \cup {t})]
    /\ clog' = [clog EXCEPT ![t] = "Active"]
    /\ UNCHANGED <<logVars, poolVars, spaceVars, taskVars, committing, vacuum_horizon, acked, life, plan>>

Working(t) == Running /\ Active(t) /\ t \notin committing /\ guards[t] = {}

(* insert, of a value that fits the leaf. *)
Insert(t, p) ==
    /\ Working(t)
    /\ Spend("write")
    /\ p \in Leaves \ Latched
    /\ ~mem[p].half_dead
    /\ Len(mem[p].recs) < LeafCap
    /\ Log(t, LogInsert(t, p, 1, Nil), {p})
    /\ UNCHANGED <<first, flushed, superblock, disk, tmVars, spaceVars, taskVars, life>>

(* insert whose record append refuses, for want of buffer space or because a flush
   has failed: the version is on the page already, without record or LSN. *)
InsertUnlogged(t, p) ==
    /\ Working(t)
    /\ Spend("fail")
    /\ p \in Leaves \ Latched
    /\ ~mem[p].half_dead
    /\ Len(mem[p].recs) < LeafCap
    /\ mem' = [mem EXCEPT ![p].recs = <<Version(t, Nil)>> \o @]
    /\ guards' = [guards EXCEPT ![t] = @ \cup {p}]
    /\ raced' = raced \cup {p}
    /\ UNCHANGED <<logVars, dirty, disk, tmVars, spaceVars, taskVars, life>>

(* delete, or the first half of update: any version that is committed or the
   transaction's own, unless somebody who has not aborted has stamped it. *)
SetXmax(t, p, i) ==
    /\ Working(t)
    /\ Spend("write")
    /\ p \in Leaves \ Latched
    /\ i \in DOMAIN mem[p].recs
    /\ LET v == mem[p].recs[i]
       IN  /\ v.xmin = t \/ SettledStatus(v.xmin) = "Committed"
           /\ v.xmax # 0 => SettledStatus(v.xmax) = "Aborted"
    /\ Log(t, LogSetXmax(t, p, i), {p})
    /\ UNCHANGED <<first, flushed, superblock, disk, tmVars, spaceVars, taskVars, life>>

(* A transaction that logged nothing settles in memory only. *)
EndReadOnly(t, status) ==
    /\ Working(t)
    /\ ~WroteAnything(t)
    /\ job.txn # t
    /\ clog' = [clog EXCEPT ![t] = status]
    /\ active' = [active EXCEPT ![t] = 0]
    /\ UNCHANGED <<logVars, poolVars, spaceVars, taskVars, next_txn_id, committing, vacuum_horizon,
                   acked, life, plan>>

(* commit, up to the record, under the shared status guard. *)
CommitLog(t) ==
    /\ Working(t)
    /\ WroteAnything(t)
    /\ job.txn # t
    /\ Log(t, Record("Commit", t, <<>>), {})
    /\ committing' = committing \cup {t}
    /\ UNCHANGED <<first, flushed, superblock, disk, next_txn_id, clog, active, vacuum_horizon, acked,
                   spaceVars, taskVars, life, plan>>

CommitLsn(t) == CHOOSE lsn \in 1 .. Len(wal) : wal[lsn].type = "Commit" /\ wal[lsn].txn = t

(* A write or the fsync of some flush fails: from now on the log takes no record,
   and no flush beyond what is durable succeeds. *)
LogFails ==
    /\ life = "up"
    /\ flushed < Len(wal)
    /\ Spend("fail")
    /\ life' = "failed"
    /\ UNCHANGED <<logVars, poolVars, tmVars, spaceVars, taskVars>>

(* flush_up_to returns Ok. *)
FlushUpTo(lsn) ==
    /\ life = "failed" => lsn <= flushed
    /\ flushed' = Max({flushed, lsn})

Settle(t, status) ==
    /\ clog' = [clog EXCEPT ![t] = status]
    /\ active' = [active EXCEPT ![t] = 0]
    /\ committing' = committing \ {t}

(* Mutant: commit returns before its record is durable. *)
CommitDone_NoFlush(t) ==
    /\ t \in committing
    /\ Settle(t, "Committed")
    /\ acked' = acked \cup {t}
    /\ UNCHANGED <<logVars, poolVars, next_txn_id, vacuum_horizon, spaceVars, taskVars, life, plan>>

(* commit, from the flush to the return. *)
CommitDone(t) ==
    /\ t \in committing
    /\ FlushUpTo(CommitLsn(t))
    /\ Settle(t, "Committed")
    /\ acked' = acked \cup {t}
    /\ UNCHANGED <<wal, first, superblock, poolVars, next_txn_id, vacuum_horizon, spaceVars, taskVars,
                   life, plan>>

(* commit whose record is refused, or in the log but not flushed: the transaction
   is marked aborted and commit returns the error.  The record stays. *)
CommitFails(t) ==
    /\ life = "failed"
    /\ Active(t) /\ guards[t] = {}
    /\ WroteAnything(t)
    /\ job.txn # t
    /\ t \in committing => CommitLsn(t) > flushed
    /\ Settle(t, "Aborted")
    /\ UNCHANGED <<logVars, poolVars, next_txn_id, vacuum_horizon, acked, spaceVars, taskVars, life, plan>>

(* abort: the record is appended and not flushed. *)
Abort(t) ==
    /\ Working(t)
    /\ WroteAnything(t)
    /\ job.txn # t
    /\ Log(t, Record("Abort", t, <<>>), {})
    /\ clog' = [clog EXCEPT ![t] = "Aborted"]
    /\ active' = [active EXCEPT ![t] = 0]
    /\ UNCHANGED <<first, flushed, superblock, disk, next_txn_id, committing, vacuum_horizon, acked,
                   spaceVars, taskVars, life, plan>>

-----------------------------------------------------------------------------
(* Page allocation: new_page, which clears the page. *)

(* Mutant: the bitmap keeps an id that has been handed out. *)
Claim_Unlogged(actor, pid) ==
    /\ free_pool # <<>>
    /\ pid = Last(free_pool)
    /\ free_pool' = Front(free_pool)
    /\ mem' = [mem EXCEPT ![pid] = ZeroPage]
    /\ UNCHANGED <<wal, dirty, guards, raced, next_page_id>>

(* claim_recycled: take the id off the bitmap and log the bitmap's image. *)
Claim(actor, pid) ==
    LET bitmap == ClearFree(mem[Bitmap], pid)
    IN  /\ life # "failed"
        /\ free_pool # <<>>
        /\ pid = Last(free_pool)
        /\ free_pool' = Front(free_pool)
        /\ wal' = Append(wal, LogPageCompact(Bitmap, bitmap))
        /\ mem' = [mem EXCEPT ![Bitmap] = [bitmap EXCEPT !.lsn = NextLsn], ![pid] = ZeroPage]
        /\ guards' = [guards EXCEPT ![actor] = @ \cup {Bitmap}]
        /\ UNCHANGED <<dirty, raced, next_page_id>>

(* No recycled id: the next one of the file. *)
Extend(pid) ==
    /\ free_pool = <<>>
    /\ pid = next_page_id
    /\ next_page_id' = pid + 1
    /\ mem' = [mem EXCEPT ![pid] = ZeroPage]
    /\ UNCHANGED <<wal, dirty, guards, raced, free_pool>>

NewPage(actor, pid) ==
    /\ Ready(actor)
    /\ Claim(actor, pid) \/ Extend(pid)
    /\ UNCHANGED <<first, flushed, superblock, disk, tmVars, pending_recycle, sweep, ckpt, redo, life>>

jobFrame == <<first, flushed, superblock, disk, tmVars, spaceVars, sweep, ckpt, redo, life>>

-----------------------------------------------------------------------------
(* insert, of a value that goes to an overflow chain: write_overflow_chain, back
   to front, one page at a time, and then the leaf. *)

BigStart(t) ==
    /\ life = "up"
    /\ Working(t)
    /\ job = NoJob
    /\ Spend("big")
    /\ job' = [NoJob EXCEPT !.at = "chain", !.txn = t, !.n = Chunks]
    /\ UNCHANGED <<jobFrame, wal, pageVars>>

ChainPage(pid) ==
    /\ job.at = "chain"
    /\ job.n > 0
    /\ NewPage(job.txn, pid)
    /\ job' = [job EXCEPT !.at = "image", !.pid = pid]
    /\ UNCHANGED plan

ChainWrite ==
    /\ job.at = "image"
    /\ Log(job.txn, LogOverflowWrite(job.txn, job.pid, OverflowPage(job.head)), {job.pid})
    /\ job' = [job EXCEPT !.at = "chain", !.head = job.pid, !.pid = Nil, !.n = @ - 1]
    /\ UNCHANGED <<jobFrame, plan>>

(* Mutant: the version goes to the leaf before its chain is complete. *)
BigInsert_Early(p) ==
    /\ job.at = "chain"
    /\ job.head # Nil
    /\ p \in Leaves
    /\ ~mem[p].half_dead
    /\ Len(mem[p].recs) < LeafCap
    /\ Log(job.txn, LogInsert(job.txn, p, 1, job.head), {p})
    /\ job' = NoJob
    /\ UNCHANGED <<jobFrame, plan>>

BigInsert(p) ==
    /\ job.at = "chain"
    /\ job.n = 0
    /\ p \in Leaves
    /\ ~mem[p].half_dead
    /\ Len(mem[p].recs) < LeafCap
    /\ Log(job.txn, LogInsert(job.txn, p, 1, job.head), {p})
    /\ job' = NoJob
    /\ UNCHANGED <<jobFrame, plan>>

-----------------------------------------------------------------------------
(* Splits. *)

SweepInTree == sweep.at \in {"unlink", "back"}

(* split_leaf_ly up to new_page, the leaf latched. *)
SplitStart(p, pid) ==
    /\ life = "up"
    /\ job = NoJob
    /\ ~SweepInTree
    /\ Spend("split")
    /\ p \in Leaves
    /\ Len(mem[p].recs) = LeafCap
    /\ NewPage(Structural, pid)
    /\ job' = [NoJob EXCEPT !.at = "split", !.leaf = p, !.pid = pid]

(* The two halves and the old neighbour's back-link, in one record of images. *)
SplitLog ==
    /\ job.at = "split"
    /\ LET leaf == mem[job.leaf]
           mid == Len(leaf.recs) \div 2
           left == [leaf EXCEPT !.recs = SubSeq(@, 1, mid), !.right = job.pid, !.incomplete = TRUE]
           right == [Of("leaf") EXCEPT !.recs = SubSeq(leaf.recs, mid + 1, Len(leaf.recs)),
                                       !.right = leaf.right, !.prev = job.leaf]
           neighbour == IF leaf.right = Nil THEN <<>>
                        ELSE <<Fpi(leaf.right, [mem[leaf.right] EXCEPT !.prev = job.pid])>>
       IN  Log(Structural, LogLeafSplit(Fpi(job.leaf, left), Fpi(job.pid, right), neighbour),
               {job.leaf, job.pid} \cup ({leaf.right} \ {Nil}))
    /\ job' = [job EXCEPT !.at = "downlink"]
    /\ UNCHANGED <<jobFrame, plan>>

(* finish_split: a descent meets a split that a crash left without its downlink. *)
FinishSplit(p) ==
    /\ life = "up"
    /\ job = NoJob
    /\ ~SweepInTree
    /\ p \in Leaves
    /\ mem[p].incomplete
    /\ job' = [NoJob EXCEPT !.at = "downlink", !.leaf = p, !.pid = mem[p].right]
    /\ UNCHANGED <<jobFrame, wal, pageVars, plan>>

(* insert_separator_via_stack: the parent under its latch, the child not yet. *)
Downlink ==
    /\ job.at = "downlink"
    /\ Root # job.leaf
    /\ Log(Structural, LogInsertDownlink(Root, job.pid, job.leaf), {Root})
    /\ job' = [job EXCEPT !.at = "clear", !.n = NextLsn]
    /\ UNCHANGED <<jobFrame, plan>>

NewRootPage(pid) ==
    /\ job.at = "downlink"
    /\ Root = job.leaf
    /\ NewPage(Structural, pid)
    /\ job' = [job EXCEPT !.at = "root", !.head = pid]
    /\ UNCHANGED plan

NewRoot ==
    /\ job.at = "root"
    /\ Log(Structural, LogNewRoot(job.head, WithIds("parent", {job.leaf, job.pid}), job.leaf), {job.head, Meta})
    /\ job' = [job EXCEPT !.at = "clear", !.n = NextLsn]
    /\ UNCHANGED <<jobFrame, plan>>

(* The child's flag, and the LSN of the record that was appended before the child
   was latched. *)
ClearIncomplete ==
    /\ job.at = "clear"
    /\ Late(Structural, job.leaf, "clear_incomplete", <<>>, job.n)
    /\ job' = NoJob
    /\ UNCHANGED <<jobFrame, wal, plan>>

-----------------------------------------------------------------------------
(* Vacuum: vacuum_paced, one leaf after the other. *)

sweepFrame == <<first, flushed, superblock, tmVars, next_page_id, free_pool, job, ckpt, redo, life, plan>>

SweepStart ==
    /\ life = "up"
    /\ sweep = NoSweep
    /\ Spend("sweep")
    /\ sweep' = [NoSweep EXCEPT !.at = "leaf", !.xmin = GlobalXmin, !.leaf = Leftmost]
    /\ UNCHANGED <<logVars, poolVars, tmVars, spaceVars, job, ckpt, redo, life>>

(* Where the sweep goes from the leaf it is on, whose rightlink it has read. *)
Onward(s) ==
    IF s.next = Nil THEN [s EXCEPT !.at = "end"]
    ELSE [s EXCEPT !.at = "leaf", !.leaf = s.next, !.next = Nil]

(* compact and its record; the chains it orphans and an empty leaf come next. *)
SweepLeaf ==
    LET page == mem[sweep.leaf]
        live == SelectSeq(page.recs, LAMBDA v : ~IsVacuumable(v, sweep.xmin))
        dead == {i \in DOMAIN page.recs : IsVacuumable(page.recs[i], sweep.xmin)}
        rest == [sweep EXCEPT !.next = page.right,
                              !.chains = {page.recs[i].over : i \in dead} \ {Nil}]
    IN  /\ sweep.at = "leaf"
        /\ Ready(Sweeper)
        /\ sweep.leaf \notin Latched
        /\ IF dead = {} THEN UNCHANGED <<wal, pageVars>>
           ELSE Log(Sweeper, LogPageCompact(sweep.leaf, [page EXCEPT !.recs = live]), {sweep.leaf})
        /\ sweep' = IF (live = <<>> \/ page.half_dead) /\ sweep.leaf # Root
                    THEN [rest EXCEPT !.at = "mark"]
                    ELSE IF rest.chains # {} THEN [rest EXCEPT !.at = "free"] ELSE Onward(rest)
        /\ UNCHANGED <<sweepFrame, disk, pending_recycle>>

(* What the disk may hold once these pages have been written, not synced. *)
Written(ps) == [p \in Pid |-> IF p \in ps THEN Append(disk[p], mem[p]) ELSE disk[p]]

(* delete_page: the dirty ones are written, WAL first; all give up their frames. *)
DeletePages(ps) ==
    LET gone == ps \cap dirty
    IN  /\ flushed' = Max({flushed} \cup {mem[p].lsn : p \in gone})
        /\ disk' = Written(gone)
        /\ dirty' = dirty \ gone

(* collect_overflow_page_ids, the record, and free_overflow_chain; the ids are
   not recycled. *)
FreeChain(head) ==
    /\ sweep.at \in {"mark", "free"}
    /\ head \in sweep.chains
    /\ life # "failed"
    /\ Ready(Sweeper)
    /\ wal' = Append(wal, LogOverflowFree(Chain(head)))
    /\ DeletePages(Chain(head))
    /\ LET rest == [sweep EXCEPT !.chains = @ \ {head}]
       IN  sweep' = IF rest.at = "free" /\ rest.chains = {} THEN Onward(rest) ELSE rest
    /\ UNCHANGED <<first, superblock, mem, guards, raced, tmVars, spaceVars, job, ckpt, redo, life, plan>>

JobInTree == job.at \notin {"none", "chain", "image"}

(* delete_empty_leaf up to the mark.  The descent finishes a split it meets; an
   only child stays, its mark of an earlier life taken back (abandon_unlink); a
   leaf that has got a version meanwhile stays too. *)
MarkHalfDead ==
    LET page == mem[sweep.leaf]
        alone == Cardinality(Children) = 1 \/ sweep.leaf \notin Children
        refilled == ~page.half_dead /\ page.recs # <<>>
    IN  /\ sweep.at = "mark"
        /\ Ready(Sweeper)
        /\ sweep.chains = {}
        /\ ~JobInTree
        /\ \A p \in Leaves : ~mem[p].incomplete
        /\ IF alone /\ page.half_dead
           THEN Log(Sweeper, LogPageCompact(sweep.leaf, [page EXCEPT !.half_dead = FALSE]), {sweep.leaf})
           ELSE IF alone \/ refilled \/ page.half_dead THEN UNCHANGED <<wal, pageVars>>
           ELSE Log(Sweeper, LogMarkHalfDead(sweep.leaf), {sweep.leaf})
        /\ sweep' = IF alone \/ refilled THEN Onward(sweep) ELSE [sweep EXCEPT !.at = "unlink"]
        /\ UNCHANGED <<sweepFrame, disk, pending_recycle>>

(* The page waits, with the global_xmin of this moment. *)
Park(pid) == pending_recycle' = pending_recycle \cup {<<pid, GlobalXmin>>}

(* The record, the parent and the left sibling, both latched. *)
UnlinkPage ==
    LET right == mem[sweep.leaf].right
        left == Max({p \in Leaves : mem[p].right = sweep.leaf} \cup {Nil})
    IN  /\ sweep.at = "unlink"
        /\ ~JobInTree
        /\ Log(Sweeper, LogUnlinkPage(sweep.leaf, left, right, Root), {Root, left} \ {Nil})
        /\ IF right = Nil THEN sweep' = Onward(sweep) /\ Park(sweep.leaf)
           ELSE /\ sweep' = [sweep EXCEPT !.at = "back", !.prev = left, !.lsn = NextLsn]
                /\ UNCHANGED pending_recycle
        /\ UNCHANGED <<sweepFrame, disk>>

(* The right sibling is latched only now and gets the LSN of that record. *)
FixBackLink ==
    /\ sweep.at = "back"
    /\ Late(Sweeper, sweep.next, "unlink_right", <<sweep.prev>>, sweep.lsn)
    /\ Park(sweep.leaf)
    /\ sweep' = Onward([sweep EXCEPT !.lsn = 0, !.prev = Nil])
    /\ UNCHANGED <<sweepFrame, wal, disk>>

Graduated == {r[1] : r \in {q \in pending_recycle : q[2] < sweep.xmin}}

(* The end of a pass: parked ids the horizon has passed go to the bitmap and the
   free pool, and the horizon is published. *)
SweepEnd ==
    LET bitmap == SetFree(mem[Bitmap], Graduated)
    IN  /\ sweep.at = "end"
        /\ Ready(Sweeper)
        /\ IF Graduated = {} THEN UNCHANGED <<wal, pageVars>>
           ELSE Log(Sweeper, LogPageCompact(Bitmap, bitmap), {Bitmap})
        /\ pending_recycle' = {r \in pending_recycle : r[1] \notin Graduated}
        /\ free_pool' = free_pool \o SetToSortSeq(Graduated, <)
        /\ vacuum_horizon' = Max({vacuum_horizon, sweep.xmin})
        /\ sweep' = NoSweep
        /\ UNCHANGED <<first, flushed, superblock, disk, next_txn_id, clog, active, committing, acked,
                       next_page_id, job, ckpt, redo, life, plan>>

-----------------------------------------------------------------------------
(* A page goes to the file: eviction or flush, WAL first, not synced. *)
WriteBack(p) ==
    /\ life # "down"
    /\ p \in dirty \ Latched
    /\ FlushUpTo(mem[p].lsn)
    /\ disk' = Written({p})
    /\ dirty' = dirty \ {p}
    /\ UNCHANGED <<wal, first, superblock, mem, guards, raced, tmVars, spaceVars, taskVars, life, plan>>

(* flush_all_pages: every dirty page, then one sync of the data file. *)
Synced(ps) == [p \in Pid |-> IF p \in ps THEN <<mem[p]>> ELSE <<Last(disk[p])>>]

-----------------------------------------------------------------------------
(* checkpoint. *)

ckptFrame == <<tmVars, spaceVars, job, sweep, redo, life>>

(* Mutant: a transaction that aborted earlier is left out. *)
PinnedAborted_None == {}

PinnedAborted == {t \in TxnId : clog[t] = "Aborted" /\ t >= vacuum_horizon}

(* The snapshot under the exclusive status guard.  No page has a rec_lsn (nothing
   calls mark_dirty_with_lsn), so the redo point is the next LSN.  `late` notes the
   pages whose records lie below it and that are not marked dirty yet. *)
CkptSnapshot ==
    /\ life = "up"
    /\ ckpt = NoCkpt
    /\ committing = {}
    /\ Spend("ckpt")
    /\ ckpt' = [at |-> "log", lsn |-> 0, late |-> Unmarked \cup Awaited,
                data |-> [redo_point |-> NextLsn, next_txn_id |-> next_txn_id,
                          active |-> {t \in TxnId : Active(t)}, pinned_aborted |-> PinnedAborted,
                          vacuum_horizon |-> vacuum_horizon, next_page_id |-> next_page_id]]
    /\ UNCHANGED <<ckptFrame, logVars, poolVars>>

(* log_checkpoint and flush_up_to. *)
CkptLog ==
    /\ ckpt.at = "log"
    /\ life # "failed"
    /\ wal' = Append(wal, LogCheckpoint(ckpt.data))
    /\ flushed' = NextLsn
    /\ ckpt' = [ckpt EXCEPT !.at = "pages", !.lsn = NextLsn]
    /\ UNCHANGED <<ckptFrame, first, superblock, poolVars, plan>>

(* flush_all_pages, which waits for a dirty page under a latch and passes over a
   page that is not marked dirty. *)
CkptPages ==
    /\ ckpt.at = "pages"
    /\ dirty \cap Latched = {}
    /\ FlushUpTo(Max({0} \cup {mem[p].lsn : p \in dirty}))
    /\ disk' = Synced(dirty)
    /\ dirty' = {}
    /\ raced' = raced \cup (ckpt.late \cap (Awaited \cup (Unmarked \ dirty)))
    /\ ckpt' = [ckpt EXCEPT !.at = "superblock"]
    /\ UNCHANGED <<ckptFrame, wal, first, superblock, mem, guards, plan>>

(* atomic_write_file: the checkpoint counts from here on. *)
CkptSuperblock ==
    /\ ckpt.at = "superblock"
    /\ superblock' = ckpt.lsn
    /\ ckpt' = [ckpt EXCEPT !.at = "reclaim"]
    /\ UNCHANGED <<ckptFrame, wal, first, flushed, poolVars, plan>>

(* Mutant: the segment the redo point lies in goes too. *)
SegmentStart_Next(lsn) == lsn - ((lsn - 1) % plan.segment) + plan.segment

(* First LSN of the segment a record is in; a segment holds `segment` records. *)
SegmentStart(lsn) == lsn - ((lsn - 1) % plan.segment)

(* reclaim_segments_below: the segments that end below the redo point. *)
CkptReclaim ==
    /\ ckpt.at = "reclaim"
    /\ first' = Max({first, SegmentStart(ckpt.data.redo_point)})
    /\ ckpt' = NoCkpt
    /\ UNCHANGED <<ckptFrame, wal, flushed, superblock, poolVars, plan>>

-----------------------------------------------------------------------------
(* Power loss, and open. *)

(* What the disk held counts: for each page one of the contents written since the
   last sync, or the synced one; the log up to flushed and whatever more of its
   tail reached the disk. *)
Crash(tail, kept) ==
    /\ life # "down"
    /\ Spend("crash")
    /\ life' = "down"
    /\ wal' = SubSeq(wal, 1, tail)
    /\ flushed' = tail
    /\ mem' = kept
    /\ disk' = [p \in Pid |-> <<kept[p]>>]
    /\ dirty' = {}
    /\ guards' = [a \in Actor |-> {}]
    /\ next_txn_id' = 1
    /\ clog' = [t \in TxnId |-> "Absent"]
    /\ active' = [t \in TxnId |-> 0]
    /\ committing' = {}
    /\ vacuum_horizon' = 0
    /\ next_page_id' = 0
    /\ free_pool' = <<>>
    /\ pending_recycle' = {}
    /\ job' = NoJob
    /\ sweep' = NoSweep
    /\ ckpt' = NoCkpt
    /\ redo' = NoRedo
    /\ UNCHANGED <<first, superblock, raced, acked>>

Unsynced == {p \in Pid : Len(disk[p]) > 1}

(* One content for each page with writes since the last sync. *)
Survivors ==
    LET longest == Max({Len(disk[p]) : p \in Pid})
        picks == {f \in [Unsynced -> 1 .. longest] : \A p \in Unsynced : f[p] <= Len(disk[p])}
    IN  {[p \in Pid |-> disk[p][IF p \in Unsynced THEN f[p] ELSE 1]] : f \in picks}

NumPages == Max({p + 1 : p \in {q \in Pid : mem[q].kind # "zero"}} \cup {0})

(* open: the pool takes its page counter from the file; pass 1 finds the
   checkpoint the superblock names and seeds the CLOG and the horizon from it. *)
Open ==
    /\ life = "down"
    /\ life' = "recovering"
    /\ LET found == superblock \in first .. Len(wal)
           data == IF found THEN wal[superblock].data ELSE NoData
       IN  /\ redo' = [pos |-> first, data |-> data]
           /\ clog' = [t \in TxnId |-> IF t \in data.pinned_aborted THEN "Aborted" ELSE "Absent"]
           /\ vacuum_horizon' = data.vacuum_horizon
    /\ next_page_id' = NumPages
    /\ UNCHANGED <<logVars, poolVars, next_txn_id, active, committing, acked, free_pool, pending_recycle,
                   job, sweep, ckpt, plan>>

redoFrame == <<wal, first, superblock, next_txn_id, active, committing, vacuum_horizon, acked,
               free_pool, pending_recycle, job, sweep, ckpt, life, plan>>

(* Pass 2, one record: statuses always, pages from the redo point on. *)
RedoStatus ==
    LET r == wal[redo.pos]
    IN  /\ life = "recovering"
        /\ redo.pos <= Len(wal)
        /\ r.type \in {"Commit", "Abort"}
        /\ clog' = [clog EXCEPT ![r.txn] = IF r.type = "Commit" THEN "Committed" ELSE "Aborted"]
        /\ redo' = [redo EXCEPT !.pos = @ + 1]
        /\ UNCHANGED <<redoFrame, poolVars, flushed, next_page_id>>

RedoPages ==
    LET r == wal[redo.pos]
        apply == redo.pos >= redo.data.redo_point
        pids == {r.blocks[i].pid : i \in DOMAIN r.blocks}
        after == RedoRecord(mem, r, redo.pos)
    IN  /\ life = "recovering"
        /\ redo.pos <= Len(wal)
        /\ r.type \notin {"Commit", "Abort", "OverflowFree"}
        /\ mem' = IF apply THEN after ELSE mem
        /\ dirty' = dirty \cup {p \in Pid : mem'[p] # mem[p]}
        /\ next_page_id' = IF apply THEN Max({next_page_id} \cup {p + 1 : p \in pids}) ELSE next_page_id
        /\ redo' = [redo EXCEPT !.pos = @ + 1]
        /\ UNCHANGED <<redoFrame, guards, raced, flushed, disk, clog>>

(* redo_overflow_free: delete_page again. *)
RedoFree ==
    LET r == wal[redo.pos]
    IN  /\ life = "recovering"
        /\ redo.pos <= Len(wal)
        /\ r.type = "OverflowFree"
        /\ DeletePages(IF redo.pos >= redo.data.redo_point THEN r.data.active ELSE {})
        /\ redo' = [redo EXCEPT !.pos = @ + 1]
        /\ UNCHANGED <<redoFrame, mem, guards, raced, clog, next_page_id>>

(* The transactions and the pages the retained log names. *)
Seen == {wal[lsn].txn : lsn \in first .. Len(wal)} \ {SystemTxn}

PidsSeen == UNION {{wal[lsn].blocks[i].pid : i \in DOMAIN wal[lsn].blocks} : lsn \in first .. Len(wal)}

Victims == {t \in Seen \cup redo.data.active : clog[t] \notin {"Committed", "Aborted"}}

(* Mutant: only the records after the checkpoint count. *)
FinalNextTxn_LogOnly == Max(Seen \cup {0}) + 1

FinalNextTxn == Max({redo.data.next_txn_id} \cup {t + 1 : t \in Seen} \cup {1})

(* The end of recover: victims, watermarks and flush_all_pages; then the index
   opens and reads the bitmap. *)
RecoverEnd ==
    /\ life = "recovering"
    /\ redo.pos > Len(wal)
    /\ clog' = [t \in TxnId |-> IF t \in Victims THEN "Aborted" ELSE clog[t]]
    /\ next_txn_id' = FinalNextTxn
    /\ next_page_id' = Max({next_page_id, redo.data.next_page_id} \cup {p + 1 : p \in PidsSeen})
    /\ disk' = Synced(dirty)
    /\ dirty' = {}
    /\ free_pool' = ScanFree(mem[Bitmap])
    /\ redo' = NoRedo
    /\ life' = "up"
    /\ UNCHANGED <<logVars, mem, guards, raced, active, committing, vacuum_horizon, acked, pending_recycle,
                   job, sweep, ckpt, plan>>

-----------------------------------------------------------------------------
Transactions ==
    \E t \in TxnId :
        \/ Begin(t)
        \/ \E p \in Pid :
              Insert(t, p) \/ InsertUnlogged(t, p) \/ \E i \in 1 .. LeafCap : SetXmax(t, p, i)
        \/ \E status \in {"Committed", "Aborted"} : EndReadOnly(t, status)
        \/ CommitLog(t)
        \/ CommitDone(t)
        \/ CommitFails(t)
        \/ Abort(t)
        \/ BigStart(t)

Structure ==
    \/ \E pid \in Pid : ChainPage(pid) \/ NewRootPage(pid)
    \/ \E p \in Pid : BigInsert(p) \/ FinishSplit(p) \/ \E pid \in Pid : SplitStart(p, pid)
    \/ ChainWrite \/ SplitLog \/ Downlink \/ NewRoot \/ ClearIncomplete

Vacuum ==
    \/ SweepStart
    \/ SweepLeaf
    \/ \E head \in Pid : FreeChain(head)
    \/ MarkHalfDead \/ UnlinkPage \/ FixBackLink \/ SweepEnd

Checkpoint == CkptSnapshot \/ CkptLog \/ CkptPages \/ CkptSuperblock \/ CkptReclaim

Restart ==
    \/ \E tail \in flushed .. Len(wal) :
          \E kept \in Survivors : Crash(tail, kept)
    \/ Open \/ RedoStatus \/ RedoPages \/ RedoFree \/ RecoverEnd

Next ==
    \/ Transactions
    \/ Structure
    \/ Vacuum
    \/ Checkpoint
    \/ \E p \in Pid : WriteBack(p) \/ \E a \in Actor : Unpin(a, p)
    \/ LogFails
    \/ Restart

Spec == Init /\ [][Next]_vars

-----------------------------------------------------------------------------
(* Properties. *)

Page == [lsn : Nat, kind : {"zero", "meta", "leaf", "parent", "bitmap", "overflow"},
         recs : Seq([xmin : TxnId, xmax : 0 .. MaxTxn, over : Pid]), ids : SUBSET Pid,
         prev : Pid, right : Pid, half_dead : BOOLEAN, incomplete : BOOLEAN]

(* The shape of the state: no page LSN or durable watermark is ahead of the log,
   and nothing that recovery needs has been reclaimed. *)
TypeOK ==
    /\ flushed \in 0 .. Len(wal)
    /\ first \in 1 .. Len(wal) + 1
    /\ superblock \in first .. flushed
    /\ \A p \in Pid : mem[p] \in Page /\ mem[p].lsn <= Len(wal)
    /\ dirty \subseteq Pid
    /\ clog \in [TxnId -> {"Absent", "Active", "Committed", "Aborted"}]
    /\ next_txn_id \in 1 .. MaxTxn + 1
    /\ next_page_id \in 0 .. MaxPid + 1
    /\ free_pool \in Seq(Pid)

(* Pages nobody is in the middle of writing. *)
Settled == Pid \ (Latched \cup Awaited)

Base == plan.pages

(* Redo is exact: while the engine is up, after whatever crashes, write-backs,
   syncs, checkpoints and reclaimed segments, every page holds what the history
   that survived says, each record applied exactly once (recover and redo_record's
   "Idempotent (LSN-gated)").  It is not promised of a page that another record
   overtook between the record that names it and its latch, that a checkpoint
   passed over before it was marked dirty, or that was changed without a record;
   and none of these does harm to any other page. *)
PagesMatchLog ==
    Running =>
        LET meant == Replay(Base, wal)
        IN  \A p \in Settled \ raced : Contents(mem[p]) = Contents(meant[p])

(* Durability: a commit that returned stays committed, its record in the log,
   whatever crashes follow and however often recovery is cut short. *)
AckedSurvives ==
    Running => \A t \in acked : Logged("Commit", t) /\ SettledStatus(t) = "Committed"

(* Versions on the leaves of the tree that their records tell. *)
Stored == UNION {ToSet(mem[p].recs) : p \in Leaves \ raced}

(* A transaction of this history, not of the data the plan starts with, that is
   no longer running. *)
Over(t) == t >= plan.next_txn_id /\ ~Active(t)

(* Atomicity of what was created: a version counts as committed exactly if its
   creator's commit record survived.  Crash victims are found although their
   records may lie below the redo point, and so are the transactions that
   aborted before the checkpoint. *)
CreatorsJudged ==
    life = "up" =>
        \A v \in Stored : Over(v.xmin) =>
            (SettledStatus(v.xmin) = "Committed" <=> Logged("Commit", v.xmin))

(* The same for deletions: the version is superseded exactly if the deleter
   committed.  (DESIGN: an entry may be dropped only when every tuple stamped
   with the id is gone.) *)
DeletersJudged ==
    life = "up" =>
        \A v \in Stored : v.xmax # 0 /\ Over(v.xmax) =>
            (SettledStatus(v.xmax) = "Committed" <=> Logged("Commit", v.xmax))

(* No transaction id is handed out that some version already carries, so a new
   transaction never takes over what a crash victim wrote. *)
TxnIdsFresh ==
    life = "up" => \A v \in Stored : v.xmin < next_txn_id /\ v.xmax < next_txn_id

(* Pages that something refers to: page 0, the bitmap, the tree, the overflow
   chains of its versions and what a running operation has allocated. *)
InUse == {Meta, Bitmap, Root} \cup Leaves \cup UNION {Chain(v.over) : v \in Stored}
         \cup Chain(job.head) \cup ({job.pid} \ {Nil})

(* No page is handed out while it is in use: the free pool, the bitmap a crash
   would rebuild it from and the parked ids name no page that anything refers
   to, no id is offered twice, and fresh ids are really fresh.  (Unless page 0, the
   bitmap or the root has raced.) *)
PagesHaveOneOwner ==
    life = "up" /\ raced \cap {Meta, Bitmap, Root} = {} =>
        LET parked == {r[1] : r \in pending_recycle}
        IN  /\ InUse \cap (ToSet(free_pool) \cup mem[Bitmap].ids \cup parked) = {}
            /\ ToSet(free_pool) \cap parked = {}
            /\ IsInjective(free_pool)
            /\ \A p \in InUse : p < next_page_id

(* An overflow value reads back whole: its chain has its pages, all of them
   overflow pages, and no two values share one (read_overflow_chain).  (Unless one
   of its pages, page 0, the bitmap or the root has raced.) *)
ChainsWhole ==
    life = "up" /\ raced \cap {Meta, Bitmap, Root} = {} =>
        \A v, w \in {u \in Stored : u.over # Nil /\ Chain(u.over) \cap raced = {}} :
            /\ Cardinality(Chain(v.over)) = Chunks
            /\ \A p \in Chain(v.over) : mem[p].kind = "overflow"
            /\ v # w => Chain(v.over) \cap Chain(w.over) = {}
=============================================================================
