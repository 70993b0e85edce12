------------------------------ MODULE RedoLog ------------------------------
(***************************************************************************)
(* What the log says about pages: the records of wal.rs that touch pages,  *)
(* and the redo of recovery/mod.rs that applies them again.                *)
(*                                                                         *)
(* A page keeps what redo can get wrong: its LSN, its kind, the versions   *)
(* of a leaf, the ids of a page that refers to others (the children of the *)
(* parent, the free ids of the bitmap, the root named by page 0), the leaf *)
(* links and the two flags.  Keys are left out: a new version goes to the  *)
(* first slot, so a record applied twice, or to the wrong page, is seen.   *)
(***************************************************************************)
EXTENDS Integers, Sequences, SequencesExt, FiniteSetsExt

CONSTANTS
    MaxPid,     \* bound: the page ids 0 .. MaxPid
    MaxTxn      \* bound: the transaction ids 1 .. MaxTxn

ASSUME RedoLogAssumption == MaxPid \in Nat /\ MaxPid >= 2 /\ MaxTxn \in Nat \ {0}

Pid == 0 .. MaxPid
Nil == 0                \* no link: page 0 is never linked to
Meta == 0               \* the page that names the root
RootLeaf == 1           \* the leaf `create` makes the root
Bitmap == 2             \* the free-space bitmap
TxnId == 1 .. MaxTxn
SystemTxn == 0

(* A version on a leaf; `over` is the head of its overflow chain or Nil. *)
Version(xmin, over) == [xmin |-> xmin, xmax |-> 0, over |-> over]

ZeroPage == [lsn |-> 0, kind |-> "zero", recs |-> <<>>, ids |-> {},
             prev |-> Nil, right |-> Nil, half_dead |-> FALSE, incomplete |-> FALSE]

Of(kind) == [ZeroPage EXCEPT !.kind = kind]

WithIds(kind, ids) == [Of(kind) EXCEPT !.ids = ids]

(* A page of an overflow chain, and the next one. *)
OverflowPage(next) == [Of("overflow") EXCEPT !.right = next]

(* The bitmap: set_free, clear_free and scan_free. *)
SetFree(page, pids) == [page EXCEPT !.ids = @ \cup pids]

ClearFree(page, pid) == [page EXCEPT !.ids = @ \ {pid}]

ScanFree(page) == SetToSortSeq(page.ids, <)

-----------------------------------------------------------------------------
(* Records: a type, a transaction, the blocks, and for a checkpoint its data. *)

NoData == [redo_point |-> 0, next_txn_id |-> 0, active |-> {}, pinned_aborted |-> {},
           vacuum_horizon |-> 0, next_page_id |-> 0]

Record(type, txn, blocks) == [type |-> type, txn |-> txn, blocks |-> blocks, data |-> NoData]

(* A block that carries the whole page. *)
Fpi(pid, page) == [pid |-> pid, op |-> "fpi", arg |-> <<>>, slot |-> 0, page |-> page]

(* A block that carries what to do to the page. *)
Data(pid, op, slot, arg) == [pid |-> pid, op |-> op, arg |-> arg, slot |-> slot, page |-> ZeroPage]

LogInsert(t, pid, slot, over) == Record("Insert", t, <<Data(pid, "insert", slot, <<t, over>>)>>)

LogSetXmax(t, pid, slot) == Record("SetXMax", t, <<Data(pid, "xmax", slot, <<t>>)>>)

LogMarkHalfDead(pid) == Record("MarkHalfDead", SystemTxn, <<Data(pid, "half_dead", 0, <<>>)>>)

LogPageCompact(pid, page) == Record("PageCompact", SystemTxn, <<Fpi(pid, page)>>)

LogOverflowWrite(t, pid, page) == Record("OverflowWrite", t, <<Fpi(pid, page)>>)

LogOverflowFree(ids) == [Record("OverflowFree", SystemTxn, <<>>) EXCEPT !.data.active = ids]

(* The neighbour is there when the leaf had one. *)
LogLeafSplit(left, right, neighbour) ==
    Record("LeafSplit", SystemTxn, <<left, right>> \o neighbour)

LogInsertDownlink(parent, child, left_child) ==
    Record("InsertDownLink", SystemTxn,
           <<Data(parent, "downlink", 0, <<child>>), Data(left_child, "clear_incomplete", 0, <<>>)>>)

LogNewRoot(new_root, page, left_child) ==
    Record("NewRoot", SystemTxn,
           <<Fpi(new_root, page), Data(Meta, "set_root", 0, <<new_root>>),
             Data(left_child, "clear_incomplete", 0, <<>>)>>)

(* The sibling blocks are there when the leaf has the sibling. *)
LogUnlinkPage(leaf, left, right, parent) ==
    Record("UnlinkPage", SystemTxn,
           (IF left = Nil THEN <<>> ELSE <<Data(left, "unlink_left", 0, <<right>>)>>)
           \o (IF right = Nil THEN <<>> ELSE <<Data(right, "unlink_right", 0, <<left>>)>>)
           \o <<Data(parent, "unlink_parent", 0, <<leaf>>)>>)

LogCheckpoint(data) == [Record("Checkpoint", SystemTxn, <<>>) EXCEPT !.data = data]

-----------------------------------------------------------------------------
(* Redo of one block: apply_data, or the image. *)

Change(page, b) ==
    CASE b.op = "fpi" -> b.page
      [] b.op = "insert" ->
            [page EXCEPT !.recs = InsertAt(@, b.slot, Version(b.arg[1], b.arg[2]))]
      [] b.op = "xmax" /\ b.slot \in DOMAIN page.recs ->
            [page EXCEPT !.recs[b.slot].xmax = b.arg[1]]
      [] b.op = "half_dead" -> [page EXCEPT !.half_dead = TRUE]
      [] b.op = "clear_incomplete" -> [page EXCEPT !.incomplete = FALSE]
      [] b.op = "downlink" -> [page EXCEPT !.ids = @ \cup {b.arg[1]}]
      [] b.op = "set_root" -> [page EXCEPT !.ids = {b.arg[1]}]
      [] b.op = "unlink_left" -> [page EXCEPT !.right = b.arg[1]]
      [] b.op = "unlink_right" -> [page EXCEPT !.prev = b.arg[1]]
      [] b.op = "unlink_parent" -> [page EXCEPT !.ids = @ \ {b.arg[1]}]
      [] OTHER -> page

(* A block applied and the page stamped with the record's LSN. *)
Stamped(page, b, lsn) == [Change(page, b) EXCEPT !.lsn = lsn]

(* Mutant: a record as old as the page is applied again. *)
Redo_SameLsn(page, b, lsn) == IF lsn < page.lsn THEN page ELSE Stamped(page, b, lsn)

(* redo_record for one block: the LSN gate. *)
Redo(page, b, lsn) == IF lsn <= page.lsn THEN page ELSE Stamped(page, b, lsn)

(* Every page after the redo of record r, which has this LSN. *)
RedoRecord(pages, r, lsn) ==
    FoldLeft(LAMBDA ps, b : [ps EXCEPT ![b.pid] = Redo(@, b, lsn)], pages, r.blocks)

(* Every page after the change that r records, whatever the page's LSN. *)
Applied(pages, r, lsn) ==
    FoldLeft(LAMBDA ps, b : [ps EXCEPT ![b.pid] = Stamped(@, b, lsn)], pages, r.blocks)

(* Every page after the whole history, each record exactly once: what the pages
   are meant to hold. *)
Replay(pages, log) ==
    FoldLeft(LAMBDA ps, lsn : Applied(ps, log[lsn], lsn), pages,
             [i \in 1 .. Len(log) |-> i])

(* A page without its LSN. *)
Contents(page) == [page EXCEPT !.lsn = 0]
=============================================================================
