------------------------------ MODULE LeafPage ------------------------------
(***************************************************************************)
(* The leaf page: header, high key, slot directory growing up, records     *)
(* growing down.  Offsets and sizes are the code's, with the byte          *)
(* constants as parameters so that pages of a few dozen bytes can be       *)
(* explored; which cases such a page has depends on the sizes chosen.      *)
(*                                                                         *)
(* A record's bytes are one value at the offset it starts at; writing over *)
(* any byte of it destroys it (Write).  Keys are positive integers in      *)
(* their order, and KeyLen gives each its encoded length.  Slots count     *)
(* from 1 here and from 0 in the code.                                     *)
(***************************************************************************)
EXTENDS Integers, Sequences, FiniteSets, SequencesExt

CONSTANTS
    PageSize,    \* 4096 in the code
    LeafHeader,  \* 48
    SlotSize,    \* 4
    RecHeader,   \* 24
    KeyLen       \* Key -> the length of its encoding

ASSUME LeafPageAssumption ==
    /\ {PageSize, LeafHeader, SlotSize, RecHeader} \subseteq Nat \ {0}
    /\ LeafHeader % 2 = 0 /\ RecHeader % 2 = 0 /\ PageSize % 2 = 0
    /\ \A k \in DOMAIN KeyLen : k > 0 /\ KeyLen[k] \in Nat \ {0}

Key == DOMAIN KeyLen
NoKey == 0
NoPid == 0
LenOf(k) == IF k = NoKey THEN 0 ELSE KeyLen[k]

Even(n) == n + (n % 2)
SlotBase(hkl) == LeafHeader + Even(hkl)
SlotOffset(hkl, i) == SlotBase(hkl) + (i - 1) * SlotSize
RecSize(klen, vlen) == Even(RecHeader + Even(klen) + vlen)
SizeOf(rec) == RecSize(LenOf(rec.key), rec.vlen)

(* LeafPageBuilder::new: every header field zero but the free pointers. *)
NewLeaf(pid) ==
    [kind |-> "leaf", pid |-> pid, lsn |-> 0, prev |-> NoPid, right |-> NoPid,
     high |-> NoKey, flags |-> {}, slots |-> <<>>, recs |-> <<>>,
     free_start |-> SlotBase(0), free_end |-> PageSize, panicked |-> FALSE]

(* set_high_key, of the builder and of the mutator: before any record. *)
LeafHighKey(p, k) == [p EXCEPT !.high = k, !.free_start = SlotBase(LenOf(k))]

RecordAt(p, i) == p.recs[p.slots[i].off]
KeyAt(p, i) == RecordAt(p, i).key
Records(p) == [i \in 1 .. Len(p.slots) |-> RecordAt(p, i)]
FreeSpace(p) == p.free_end - p.free_start
CanFitDirect(p, rec) == FreeSpace(p) >= SlotSize + SizeOf(rec)

(* What is left of the records when the bytes lo .. hi - 1 are written. *)
Destroyed == [key |-> NoKey, vlen |-> 0, xmin |-> 0, xmax |-> 0]
Write(recs, lo, hi) ==
    [o \in DOMAIN recs |->
        IF o < hi /\ lo < o + SizeOf(recs[o]) THEN Destroyed ELSE recs[o]]
Put(recs, off, rec) ==
    [o \in DOMAIN recs \cup {off} |->
        IF o = off THEN rec ELSE Write(recs, off, off + SizeOf(rec))[o]]

(* position: binary search of the slot directory. *)
Position(p, query) ==
    LET n == Len(p.slots)
        search[lo \in 1 .. n + 1, hi \in 1 .. n + 1] ==
            IF lo >= hi THEN [at |-> lo, found |-> FALSE]
            ELSE LET mid == lo + (hi - lo) \div 2 IN
                 CASE KeyAt(p, mid) < query -> search[mid + 1, hi]
                   [] KeyAt(p, mid) > query -> search[lo, mid]
                   [] OTHER -> [at |-> mid, found |-> TRUE]
    IN search[1, n + 1]

(* Mutant: the directory is not shifted, the new slot goes to its end. *)
Place_Unshifted(p, i, rec) ==
    LET base == p.free_end - SizeOf(rec)
        n == Len(p.slots)
        dir == SlotOffset(LenOf(p.high), n + 1)
    IN [p EXCEPT !.recs = Write(Put(@, base, rec), dir, dir + SlotSize),
                 !.slots = Append(@, [off |-> base, size |-> SizeOf(rec)]),
                 !.free_start = dir + SlotSize,
                 !.free_end = base]

(* The record goes just below free_end, its slot into the directory at i. *)
Place(p, i, rec) ==
    LET base == p.free_end - SizeOf(rec)
        n == Len(p.slots)
        dir == SlotOffset(LenOf(p.high), n + 1)
    IN [p EXCEPT !.recs = Write(Put(@, base, rec), dir, dir + SlotSize),
                 !.slots = InsertAt(@, i, [off |-> base, size |-> SizeOf(rec)]),
                 !.free_start = dir + SlotSize,
                 !.free_end = base]

(* Mutant: the space check forgets the slot. *)
InsertFits_NoSlot(p, rec) == FreeSpace(p) >= SizeOf(rec)

(* insert_raw's own check; its Err leaves the page alone. *)
InsertFits(p, rec) == FreeSpace(p) >= SlotSize + SizeOf(rec)
InsertRaw(p, i, rec) == IF InsertFits(p, rec) THEN Place(p, i, rec) ELSE p

SetXmax(p, i, x) == [p EXCEPT !.recs[p.slots[i].off].xmax = x]

(* push_with_mvcc_raw, which panics when the record does not fit. *)
Push(p, rec) ==
    IF p.free_end >= SlotBase(LenOf(p.high)) + (Len(p.slots) + 1) * SlotSize + SizeOf(rec)
    THEN Place(p, Len(p.slots) + 1, rec)
    ELSE [p EXCEPT !.panicked = TRUE]
BuildLeaf(p, recs) == FoldLeft(Push, p, recs)

(* Mutant: the rebuilt page loses its high key. *)
Compact_NoHighKey(p, dead) ==
    LET live == SelectSeq([i \in 1 .. Len(p.slots) |-> i], LAMBDA i : i \notin dead)
        fresh == [NewLeaf(p.pid) EXCEPT !.right = p.right, !.prev = p.prev]
    IN IF dead = {} THEN p
       ELSE [BuildLeaf(fresh, [j \in 1 .. Len(live) |-> RecordAt(p, live[j])])
                EXCEPT !.lsn = p.lsn, !.flags = p.flags]

(* compact: the slots in `dead` are the vacuumable ones; a page with none is *)
(* left alone, any other is built anew with its header kept.                 *)
Compact(p, dead) ==
    LET live == SelectSeq([i \in 1 .. Len(p.slots) |-> i], LAMBDA i : i \notin dead)
        fresh == [LeafHighKey(NewLeaf(p.pid), p.high) EXCEPT !.right = p.right, !.prev = p.prev]
    IN IF dead = {} THEN p
       ELSE [BuildLeaf(fresh, [j \in 1 .. Len(live) |-> RecordAt(p, live[j])])
                EXCEPT !.lsn = p.lsn, !.flags = p.flags]

(* Mutant: split where the middle is, versions of one key or not. *)
SplitPoint_Middle(p) == Len(p.slots) \div 2 + 1

(* split_leaf_ly's split point: the first slot of the right half.  Forward   *)
(* from the middle to where the key changes, else back to where it began,    *)
(* else the middle after all.                                                *)
SplitPoint(p) ==
    LET n == Len(p.slots)
        target == n \div 2 + 1
        same(i) == KeyAt(p, i) = KeyAt(p, target)
        fwd == {i \in target .. n : ~same(i)}
        back == {i \in 1 .. target : \A j \in i .. target : same(j)}
        first == CHOOSE i \in back : \A j \in back : i <= j
    IN CASE fwd # {} -> CHOOSE i \in fwd : \A j \in fwd : i <= j
         [] fwd = {} /\ first > 1 -> first
         [] OTHER -> target

(* split_leaf_ly: both halves built anew, the left one flagged. *)
SplitLeaf(p, right_pid) ==
    LET mid == SplitPoint(p)
        sep == KeyAt(p, mid)
        recs == Records(p)
    IN [sep |-> sep,
        right |-> BuildLeaf([LeafHighKey(NewLeaf(right_pid), p.high)
                                EXCEPT !.right = p.right, !.prev = p.pid],
                            SubSeq(recs, mid, Len(recs))),
        left |-> [BuildLeaf([LeafHighKey(NewLeaf(p.pid), sep)
                                EXCEPT !.right = right_pid, !.prev = p.prev],
                            SubSeq(recs, 1, mid - 1))
                     EXCEPT !.flags = {"incomplete_split"}]]
=============================================================================
