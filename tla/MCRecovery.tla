----------------------------- MODULE MCRecovery -----------------------------
(* Recovery for TLC: the databases it starts from, each as a clean close leaves
   it, with bounds on what may happen next. *)
EXTENDS Recovery

Row(t) == Version(t, Nil)

Leaf(recs, prev, right) == [Of("leaf") EXCEPT !.recs = recs, !.prev = prev, !.right = right]

NoPages == [p \in Pid |-> ZeroPage]

(* One leaf, the root, with one row. *)
Flat == [NoPages EXCEPT ![Meta] = WithIds("meta", {RootLeaf}), ![Bitmap] = WithIds("bitmap", {}),
                        ![RootLeaf] = Leaf(<<Row(1)>>, Nil, Nil)]

(* The same, the leaf full. *)
Full == [Flat EXCEPT ![RootLeaf].recs = <<Row(1), Row(1)>>]

(* The same again, two pages free. *)
Spare == [Full EXCEPT ![Bitmap].ids = {3, 4}, ![3] = Leaf(<<>>, 1, Nil), ![4] = Leaf(<<>>, 1, Nil)]

(* A parent, page 4, over the leaves 1 and 3; page 5 is free. *)
Tall(left, right) ==
    [NoPages EXCEPT ![Meta] = WithIds("meta", {4}), ![Bitmap] = WithIds("bitmap", {5}),
                    ![RootLeaf] = Leaf(left, Nil, 3), ![3] = Leaf(right, RootLeaf, Nil),
                    ![4] = WithIds("parent", {RootLeaf, 3}), ![5] = Leaf(<<>>, 3, Nil)]

(* Two empty leaves, one of them marked before a crash. *)
Marked == [Tall(<<>>, <<>>) EXCEPT ![3].half_dead = TRUE]

TwoRows == <<Row(1), Row(1)>>

Bounds(write, big, split, sw, ck, crash) ==
    [write |-> write, big |-> big, split |-> split, sweep |-> sw, ckpt |-> ck, crash |-> crash]

(* A database with room for this many transactions. *)
Start(pages, txns, bounds) ==
    bounds @@ [pages |-> pages, next_txn_id |-> MaxTxn + 1 - txns, segment |-> 1, fail |-> 0,
               next_page_id |-> Max({p + 1 : p \in {q \in Pid : pages[q].kind # "zero"}})]

MCPlans == {
    \* statuses and redo: one transaction, a checkpoint, recovery cut short
    [Start(Flat, 1, Bounds(2, 0, 0, 0, 1, 2)) EXCEPT !.segment = 2],
    Start(Flat, 2, Bounds(2, 0, 0, 0, 0, 1)),
    \* the log fails, or refuses a record
    [Start(Flat, 2, Bounds(1, 0, 0, 0, 0, 1)) EXCEPT !.fail = 2],
    \* the horizon of a sweep in a checkpoint
    Start(Flat, 1, Bounds(1, 0, 0, 1, 1, 1)),
    \* an overflow value, its chain freed
    Start(Flat, 1, Bounds(0, 1, 0, 1, 0, 1)),
    Start(Flat, 1, Bounds(0, 1, 0, 0, 1, 1)),
    \* a leaf unlinked, its page recycled
    Start(Tall(<<>>, <<Row(1)>>), 1, Bounds(0, 0, 0, 2, 0, 1)),
    Start(Tall(<<>>, <<Row(1)>>), 0, Bounds(0, 0, 0, 1, 1, 1)),
    Start(Tall(<<>>, <<Row(1)>>), 1, Bounds(1, 0, 0, 1, 0, 2)),
    \* the root splits; a leaf splits beside a sweep
    Start(Full, 1, Bounds(1, 0, 1, 0, 0, 1)),
    Start(Marked, 0, Bounds(0, 0, 0, 1, 0, 1)),
    Start(Spare, 0, Bounds(0, 0, 1, 0, 1, 1)),
    Start(Tall(<<>>, <<Row(1)>>), 1, Bounds(0, 1, 0, 0, 0, 1)),
    Start(Tall(TwoRows, <<>>), 0, Bounds(0, 0, 1, 1, 0, 1))}

AbortPlans == {Start(Flat, 1, Bounds(1, 0, 0, 1, 1, 1))}
=============================================================================
