---------------------------- MODULE InternalPage ----------------------------
(***************************************************************************)
(* The internal page: child pointers, key ends and key bytes packed from   *)
(* the front, the high key in the last bytes.  Every change rewrites the   *)
(* packed part; nothing but can_fit keeps it off the high key, so a        *)
(* rewrite that reaches the high key tears it, and one that leaves the     *)
(* page panics.  Keys are those of LeafPage; positions count from 1.       *)
(***************************************************************************)
EXTENDS LeafPage

CONSTANTS
    IntHeader,  \* 40 in the code
    ChildSize,  \* 8
    EndSize     \* 4

ASSUME InternalPageAssumption == {IntHeader, ChildSize, EndSize} \subseteq Nat \ {0}

Torn == -1   \* a high key some of whose bytes were overwritten

NewInternal(pid) ==
    [kind |-> "internal", pid |-> pid, lsn |-> 0, right |-> NoPid, high |-> NoKey,
     hkl |-> 0, flags |-> {}, kids |-> <<>>, keys |-> <<>>, panicked |-> FALSE]

SetHighKey(p, k) == [p EXCEPT !.high = k, !.hkl = LenOf(k)]

KeyBytes(keys) == FoldLeft(LAMBDA n, k : n + LenOf(k), 0, keys)
BytesFor(keys) ==
    IntHeader + (Len(keys) + 1) * ChildSize + Len(keys) * EndSize + KeyBytes(keys)
UsedBytes(p) == BytesFor(p.keys)
Monus(a, b) == IF a >= b THEN a - b ELSE 0
FreeBytes(p) == Monus(Monus(PageSize, UsedBytes(p)), p.hkl)

(* Mutant: the high key is not counted. *)
CanFit_NoHighKey(p, k) == Monus(PageSize, UsedBytes(p)) >= ChildSize + EndSize + LenOf(k)

CanFit(p, k) == FreeBytes(p) >= ChildSize + EndSize + LenOf(k)

(* Mutant: the search stops left of an equal separator. *)
FindChild_Less(p, query) ==
    1 + Cardinality({i \in 1 .. Len(p.keys) : p.keys[i] < query})

(* find_child: binary search for the first separator above the key. *)
FindChild(p, query) ==
    LET n == Len(p.keys)
        search[lo \in 1 .. n + 1, hi \in 1 .. n + 1] ==
            IF lo >= hi THEN lo
            ELSE LET mid == lo + (hi - lo) \div 2 IN
                 IF p.keys[mid] > query THEN search[lo, mid] ELSE search[mid + 1, hi]
    IN search[1, n + 1]

(* rewrite of the mutator and finish of the builder. *)
Rewrite(p, kids, keys) ==
    [p EXCEPT !.kids = kids, !.keys = keys,
              !.high = IF BytesFor(keys) > PageSize - p.hkl /\ p.hkl > 0 THEN Torn ELSE @,
              !.panicked = @ \/ BytesFor(keys) > PageSize]

(* insert_key_and_right_child; its Err leaves the page alone. *)
InsertSeparator(p, i, k, right_child) ==
    IF CanFit(p, k)
    THEN Rewrite(p, InsertAt(p.kids, i + 1, right_child), InsertAt(p.keys, i, k))
    ELSE p

(* remove_key_at: the separator and the flanking child that is not kept. *)
RemoveKeyAt(p, i, keep) ==
    Rewrite(p, RemoveAt(p.kids, IF keep = "left" THEN i + 1 ELSE i), RemoveAt(p.keys, i))

(* The new root of insert_separator_via_stack. *)
NewRootPage(pid, left, sep, right) ==
    Rewrite(NewInternal(pid), <<left, right>>, <<sep>>)

(* split_internal_ly: the new downlink goes in first, then the page is cut  *)
(* by the number of keys; the middle key moves up.                          *)
SplitInternal(p, sep, child, right_pid) ==
    LET at == FindChild(p, sep)
        keys == InsertAt(p.keys, at, sep)
        kids == InsertAt(p.kids, at + 1, child)
        total == Len(keys)
        mid == total \div 2 + 1
    IN [sep |-> keys[mid],
        right |-> Rewrite([NewInternal(right_pid) EXCEPT !.high = p.high, !.hkl = p.hkl,
                                                         !.right = p.right],
                          SubSeq(kids, mid + 1, total + 1), SubSeq(keys, mid + 1, total)),
        left |-> [Rewrite([SetHighKey(NewInternal(p.pid), keys[mid]) EXCEPT !.right = right_pid],
                          SubSeq(kids, 1, mid), SubSeq(keys, 1, mid - 1))
                     EXCEPT !.flags = {"incomplete_split"}]]
=============================================================================
