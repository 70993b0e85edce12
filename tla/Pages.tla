------------------------------- MODULE Pages --------------------------------
(***************************************************************************)
(* One page of the tree under the operations the index performs on it:     *)
(* inserting (directly, after a compaction, or after a split), stamping    *)
(* xmax, vacuuming, and on an internal page adding, removing and pushing   *)
(* up downlinks.  After a split the model goes on with one of the halves,  *)
(* either of them.                                                         *)
(*                                                                         *)
(* `want` is what the page should hold, kept without offsets, slots or     *)
(* positions: the set of records, or the child each key is routed to.      *)
(***************************************************************************)
EXTENDS InternalPage

CONSTANTS
    ValueLen,   \* the lengths of the stored values
    MaxTxn,     \* bound: the transactions, one per change of a record
    MaxPid      \* bound: the page ids

VARIABLES page, want, job, next_txn, next_pid
vars == <<page, want, job, next_txn, next_pid>>

NoJob == [at |-> "none"]
InRange(k) == k >= want.low /\ (want.high = NoKey \/ k < want.high)

Init ==
    /\ job = NoJob
    /\ next_txn = 1
    /\ \/ /\ page = NewLeaf(1)
          /\ want = [recs |-> {}, route |-> <<>>, low |-> 1, high |-> NoKey, right |-> NoPid]
          /\ next_pid = 2
       \/ \E sep \in Key \ {1} :
          /\ page = NewRootPage(1, 2, sep, 3)
          /\ want = [recs |-> {}, route |-> [k \in Key |-> IF k < sep THEN 2 ELSE 3],
                     low |-> 1, high |-> NoKey, right |-> NoPid]
          /\ next_pid = 4

-----------------------------------------------------------------------------
(* The leaf. *)

(* A transaction brings a record for a key of this page. *)
BeginInsert(k, vlen) ==
    /\ page.kind = "leaf" /\ job = NoJob
    /\ next_txn <= MaxTxn
    /\ InRange(k)
    /\ job' = [at |-> "insert", rec |-> [key |-> k, vlen |-> vlen, xmin |-> next_txn, xmax |-> 0]]
    /\ next_txn' = next_txn + 1
    /\ UNCHANGED <<page, want, next_pid>>

Inserted(p, rec) == InsertRaw(p, Position(p, rec.key).at, rec)

InsertDirect ==
    /\ job.at = "insert"
    /\ CanFitDirect(page, job.rec)
    /\ page' = Inserted(page, job.rec)
    /\ want' = [want EXCEPT !.recs = @ \cup {job.rec}]
    /\ job' = NoJob
    /\ UNCHANGED <<next_txn, next_pid>>

Deleted(p) ==
    IF p.kind = "leaf" THEN {i \in 1 .. Len(p.slots) : RecordAt(p, i).xmax # 0} ELSE {}
Without(dead) == want.recs \ {RecordAt(page, i) : i \in dead}

(* split_and_insert when the compaction makes room.  Which deleted records  *)
(* are vacuumable is a matter of the horizon: any of them.                  *)
CompactAndInsert(dead) ==
    LET compacted == Compact(page, dead) IN
    /\ job.at = "insert" /\ dead # {}
    /\ ~CanFitDirect(page, job.rec)
    /\ CanFitDirect(compacted, job.rec)
    /\ page' = Inserted(compacted, job.rec)
    /\ want' = [want EXCEPT !.recs = Without(dead) \cup {job.rec}]
    /\ job' = NoJob
    /\ UNCHANGED <<next_txn, next_pid>>

GoOnWith(side, split) ==
    /\ page' = split[side]
    /\ want' = [want EXCEPT !.recs = ToSet(Records(split[side])),
                            !.low = IF side = "right" THEN split.sep ELSE @,
                            !.high = IF side = "left" THEN split.sep ELSE @,
                            !.right = IF side = "left" THEN next_pid ELSE @]
    /\ next_pid' = next_pid + 1

(* split_and_insert when it does not: a key below the separator goes into   *)
(* the left half, and if there is no room InsufficientSpace is returned.    *)
SplitAndInsertLeft(dead, side) ==
    LET split == SplitLeaf(Compact(page, dead), next_pid)
        left == Inserted(split.left, job.rec)
        fits == InsertFits(split.left, job.rec)
    IN
    /\ job.at = "insert" /\ next_pid <= MaxPid
    /\ ~CanFitDirect(Compact(page, dead), job.rec)
    /\ job.rec.key < split.sep
    /\ GoOnWith(side, [split EXCEPT !.left = left])
    /\ job' = IF fits THEN NoJob ELSE [at |-> "refused"]
    /\ UNCHANGED next_txn

(* Any other key goes to the right half, which is looked at again: there it *)
(* is inserted or the page split once more.  Going on with the left half    *)
(* leaves the insert to a page outside the model.                           *)
SplitAndInsertRight(dead, side) ==
    LET split == SplitLeaf(Compact(page, dead), next_pid) IN
    /\ job.at = "insert" /\ next_pid <= MaxPid
    /\ ~CanFitDirect(Compact(page, dead), job.rec)
    /\ job.rec.key >= split.sep
    /\ GoOnWith(side, split)
    /\ job' = IF side = "right" THEN job ELSE NoJob
    /\ UNCHANGED next_txn

(* delete and update stamp xmax on a live record. *)
Delete(i) ==
    /\ page.kind = "leaf" /\ job = NoJob /\ next_txn <= MaxTxn
    /\ i <= Len(page.slots) /\ i \notin Deleted(page)
    /\ page' = SetXmax(page, i, next_txn)
    /\ want' = [want EXCEPT !.recs = (@ \ {RecordAt(page, i)}) \cup
                                     {[RecordAt(page, i) EXCEPT !.xmax = next_txn]}]
    /\ next_txn' = next_txn + 1
    /\ UNCHANGED <<job, next_pid>>

(* The vacuum's compaction of the page. *)
Vacuum(dead) ==
    /\ page.kind = "leaf" /\ job = NoJob /\ dead # {}
    /\ page' = Compact(page, dead)
    /\ want' = [want EXCEPT !.recs = Without(dead)]
    /\ UNCHANGED <<job, next_txn, next_pid>>

-----------------------------------------------------------------------------
(* The internal page. *)

(* The child that holds k has split at k. *)
BeginDownlink(k) ==
    /\ page.kind = "internal" /\ ~page.panicked /\ job = NoJob
    /\ InRange(k) /\ k # want.low /\ ~Contains(page.keys, k)
    /\ next_pid < MaxPid
    /\ job' = [at |-> "downlink", sep |-> k, child |-> next_pid]
    /\ next_pid' = next_pid + 1
    /\ UNCHANGED <<page, want, next_txn>>

Routed(sep, child) ==
    [k \in DOMAIN want.route |->
        IF k >= sep /\ want.route[k] = want.route[sep] THEN child ELSE want.route[k]]

InsertDownlink ==
    /\ job.at = "downlink"
    /\ CanFit(page, job.sep)
    /\ page' = InsertSeparator(page, FindChild(page, job.sep), job.sep, job.child)
    /\ want' = [want EXCEPT !.route = Routed(job.sep, job.child)]
    /\ job' = NoJob
    /\ UNCHANGED <<next_txn, next_pid>>

SplitDownlink(side) ==
    LET split == SplitInternal(page, job.sep, job.child, next_pid)
        route == Routed(job.sep, job.child)
        kept == {k \in DOMAIN route : (k >= split.sep) = (side = "right")}
    IN
    /\ job.at = "downlink" /\ next_pid <= MaxPid
    /\ ~CanFit(page, job.sep)
    /\ page' = split[side]
    /\ want' = [want EXCEPT !.route = [k \in kept |-> route[k]],
                            !.low = IF side = "right" THEN split.sep ELSE @,
                            !.high = IF side = "left" THEN split.sep ELSE @,
                            !.right = IF side = "left" THEN next_pid ELSE @]
    /\ next_pid' = next_pid + 1
    /\ job' = NoJob
    /\ UNCHANGED next_txn

(* delete_empty_leaf takes a downlink out: the child's range goes to its    *)
(* left neighbour, the first child's to its right one.                      *)
RemoveDownlink(i) ==
    LET heir == page.kids[IF i > 1 THEN i - 1 ELSE 2] IN
    /\ page.kind = "internal" /\ ~page.panicked /\ job = NoJob
    /\ i <= Len(page.kids) /\ Len(page.keys) > 0
    /\ page' = RemoveKeyAt(page, IF i > 1 THEN i - 1 ELSE 1, IF i > 1 THEN "left" ELSE "right")
    /\ want' = [want EXCEPT !.route =
                   [k \in DOMAIN @ |-> IF @[k] = page.kids[i] THEN heir ELSE @[k]]]
    /\ UNCHANGED <<job, next_txn, next_pid>>

-----------------------------------------------------------------------------
Next ==
    \/ \E k \in Key, v \in ValueLen : BeginInsert(k, v)
    \/ InsertDirect
    \/ \E dead \in SUBSET Deleted(page) : CompactAndInsert(dead)
    \/ \E dead \in SUBSET Deleted(page), side \in {"left", "right"} :
          SplitAndInsertLeft(dead, side)
    \/ \E dead \in SUBSET Deleted(page), side \in {"left", "right"} :
          SplitAndInsertRight(dead, side)
    \/ \E i \in 1 .. MaxTxn : Delete(i)
    \/ \E dead \in SUBSET Deleted(page) : Vacuum(dead)
    \/ \E k \in Key : BeginDownlink(k)
    \/ InsertDownlink
    \/ \E side \in {"left", "right"} : SplitDownlink(side)
    \/ \E i \in 1 .. MaxPid : RemoveDownlink(i)

Spec == Init /\ [][Next]_vars

-----------------------------------------------------------------------------
(* Slot directory, free space and records never overlap, and free_start and *)
(* free_end say where each ends: whatever mix of inserts, compactions and   *)
(* splits built the page, and whatever high key moved the slot base.        *)
RegionsDisjoint ==
    page.kind = "leaf" =>
        LET n == Len(page.slots)
            ends(i) == page.slots[i].off + page.slots[i].size
        IN
        /\ page.free_start = SlotBase(LenOf(page.high)) + n * SlotSize
        /\ page.free_start <= page.free_end
        /\ \A i \in 1 .. n :
              /\ page.slots[i].off >= page.free_end /\ ends(i) <= PageSize
              /\ page.slots[i].off % 2 = 0
              /\ \A j \in 1 .. n \ {i} :
                    ends(i) <= page.slots[j].off \/ ends(j) <= page.slots[i].off

(* Reading a leaf through its slots gives every record that was put there   *)
(* and not vacuumed, with its latest xmax, once, in key order.              *)
RecordsIntact ==
    page.kind = "leaf" =>
        /\ {RecordAt(page, i) : i \in 1 .. Len(page.slots)} = want.recs
        /\ Len(page.slots) = Cardinality(want.recs)
        /\ \A i, j \in 1 .. Len(page.slots) : i < j => KeyAt(page, i) <= KeyAt(page, j)

(* The binary searches are right on every page that can arise: position     *)
(* finds a key exactly when a version of it is there and otherwise says     *)
(* where it belongs; find_child leads every key of the page's range to the  *)
(* child whose subtree holds it.                                            *)
SearchExact ==
    IF page.kind = "leaf"
    THEN \A k \in Key :
            LET p == Position(page, k) IN
            /\ p.found = (\E r \in want.recs : r.key = k)
            /\ p.found => KeyAt(page, p.at) = k
            /\ \A i \in 1 .. Len(page.slots) :
                  IF i < p.at THEN KeyAt(page, i) <= k ELSE KeyAt(page, i) >= k
    ELSE \A k \in DOMAIN want.route : page.kids[FindChild(page, k)] = want.route[k]

(* The rightlink survives every rebuild of a page and the high key every    *)
(* rebuild of a leaf, so the page keeps telling a search when to move       *)
(* right; no rebuild of a leaf runs out of room and panics.                 *)
HeaderKept ==
    /\ page.right = want.right
    /\ page.kind = "leaf" => page.high = want.high /\ ~page.panicked

(* The keys of an internal page end before its high key begins. *)
Clear(p) == p.kind = "internal" => UsedBytes(p) <= PageSize - p.hkl
(* The bytes of its separators and its high key. *)
Carries(p) == UsedBytes(p) - IntHeader - ChildSize + p.hkl

(* can_fit keeps the keys of an internal page off its high key ("Make sure  *)
(* the key data doesn't overlap with the high key", a test of internal.rs), *)
(* through inserts and removals in any order.  The one step it does not     *)
(* cover is split_internal_ly, which cuts by the number of keys: a half     *)
(* runs into its high key only if the new separator is longer than all the  *)
(* separators and the high key of the other half together.                  *)
HighKeyClear ==
    [][Clear(page) /\ ~Clear(page') =>
          /\ job.at = "downlink" /\ ~CanFit(page, job.sep)
          /\ LET split == SplitInternal(page, job.sep, job.child, next_pid)
             IN  \E side \in {"left", "right"} :
                    /\ page' = split[side]
                    /\ LenOf(job.sep) > Carries(split[IF side = "left" THEN "right" ELSE "left"])
      ]_vars

(* A split of any leaf that can arise loses no record and repeats none, and *)
(* the versions of a key stay on one page unless the page has no other key. *)
SplitKeepsVersionsTogether ==
    page.kind = "leaf" /\ page.slots # <<>> =>
        LET split == SplitLeaf(page, 0) IN
        /\ Records(split.left) \o Records(split.right) = Records(page)
        /\ Cardinality({r.key : r \in want.recs}) > 1 =>
              \A i \in 1 .. Len(split.left.slots) : KeyAt(split.left, i) < split.sep
=============================================================================
