# FluxDB in TLA+

A verification development kept beside FluxDB, an embedded MVCC storage engine
in Rust. The modules are translated from the code; model checking (TLC) covers
small instances, machine-checked proofs (TLAPS) cover every instance. All
source paths below are relative to `src/crates/`.

## The system

| Part | Code | Model |
|---|---|---|
| Transaction manager: ids, commit log (CLOG), active map, readers, vacuum horizon | `db-core/src/transaction_manager.rs`, `transaction.rs` | `TransactionManager` |
| Waiting for a conflicting transaction | `transaction_manager.rs` (`wait_until_settled`, `notify_waiters`), `storage/src/index/mod.rs` (`wait_for_txn`) | `WaitDie` |
| Versioned reads and writes, commit, abort, vacuum | `storage/src/index/mod.rs`, `page/leaf.rs`, `engine/src/{engine,txn,ops}.rs` | `Mvcc`, implementing `SnapshotStore` |
| B-link tree: descents, scans, splits, unlinking of empty leaves | `storage/src/index/{mod,smo}.rs` | `BLinkTree` |
| Page layouts | `storage/src/page/{leaf,internal}.rs`, the splits of `index/smo.rs` | `LeafPage`, `InternalPage`, driven by `Pages` |
| Write-ahead log | `storage/src/wal.rs` | `Wal`; its records about pages: `RedoLog` |
| Buffer pool | `storage/src/buffer_pool/` | `BufferPool` |
| Checkpoint, restart, overflow chains, page recycling | `engine/src/engine.rs`, `storage/src/recovery/mod.rs`, `page/{overflow,free_space,meta}.rs` | `Recovery` over `RedoLog` |
| `Db` handle and background threads | `engine/src/{checkpointer,vacuum,lib}.rs` | only as far as they call vacuum and checkpoint |

How they interact: a writer descends through the tree to a leaf, decides under the
leaf's latch by asking its snapshot and the CLOG, and either stamps a version, dies
or waits. A full leaf splits; the downlink follows in a step of its own, which
another thread, or the next life of the process, may have to finish. Commit appends
a record to the log, waits for it to be durable, and only then settles in the
transaction manager, which wakes the waiters. Vacuum walks the leaves with a horizon
taken from the transaction manager, unlinks the ones it empties, and publishes the
horizon when it has seen them all. Pages live in the frames of the buffer pool,
which forces the log before it writes one. A checkpoint bounds what recovery has to
redo.

How the models fit together: `Mvcc` EXTENDS `TransactionManager` and replaces the
condvar protocol by what `WaitDie` shows (a wait ends after the blocker has left the
active map). `BLinkTree` takes visibility as given (an entry is live or dead) and
counts entries where `Pages` lays out bytes. `Recovery` composes the log records,
pool, transaction manager, tree, vacuum and checkpoint at a coarser grain, where the
unit of interest is what survives a crash; it takes the pool to be one that keeps
`WalBeforePage` and the log one that keeps `FlushedIsDurable`, which `BufferPool` and
`Wal` check.

## The modules

### TransactionManager

One action per critical section. `begin` is two of them (`BeginRegister` under
the lock of the active map, `BeginClog` under that of the CLOG), and so are
`mark_committed`/`mark_aborted` (`SettleClog`, `SettleRemove`). `readers` maps a
reader to its snapshot, where the code keeps a token and the xmin. `SweepStart`,
`SweepPublish` and `SweepAbandon` are what a vacuum sweep does to the manager.
`TruncateClog` is not part of `TMNext`: nothing in the engine calls
`truncate_clog` at present.

### Mvcc and SnapshotStore

State: the set of versions `[id, key, xmin, xmax]`, the index call each
transaction is blocked in, the poisoned handles, and where the sweep is.
Decisions that shape the model:

- The versions of one key live on one leaf, so latching a leaf is latching a key.
  Slot order among the versions of a key is left open: wherever the code takes the
  first match, the model takes any.
- What a writer does under the latch is one step. The CLOG can move under it, but
  only from unsettled to settled, so the check can be placed at its last read.
- `update` is always two steps (set xmax, add the successor), which the code needs
  when the old version lies on another page, and which covers the other case.
- `CallFails` is an I/O or log error after a wait or between the halves of
  `update`; the handle is not poisoned and may go on to commit, as in the code.
- `settled_status` reads the CLOG and later `global_xmin`: `Judge` and
  `JudgeUnknown` are two steps.
- An insert into a full leaf first compacts it, with the `global_xmin` of the moment
  (`split_and_insert`): `AddVersion` either removes nothing or everything of the leaf
  that is vacuumable then. The horizon is read under the leaf's latch and used at
  once; a deleter below it is settled, so the two reads of `settled_status` cannot
  disagree here as they can in the sweep.
- An `Engine::abort` that fails is a transaction that takes no further step.

`SnapshotStore` is the promise: committed rows that only a commit changes, all at
once; views that stay as taken; supersessions that are never lost. The refinement
mapping (`Store` in `Mvcc`) takes the committed rows to be what a snapshot taken
now would see. A commit takes effect when the transaction leaves the active map,
an abort when its CLOG entry is written.

### WaitDie

`wait_until_settled` and `notify_waiters` between two lock operations: fast path,
installing the entry, the second check, the flag under the entry's mutex, sleep;
and CLOG write, removal from the active map, taking the entry, raising its flag,
`notify_all`. Spurious wakeups are included. All transactions have begun; which of
them meet, and when, is open.

### Wal

A record is its LSN. A step ends wherever another thread can look, so the leader's
stores to `flush_active`, `flushed_lsn` and `flush_failed` are separate, and a
follower reads the three under the gate one by one. Sizes are abstracted: a segment
that is not empty may be found too full, and holds at most `SegmentSize` records.
`redo` is the redo point of the last checkpoint, which has flushed a record at or
above it. `PowerLoss` keeps of each file what was fsynced and any prefix of the
rest, then runs `Wal::new`; a torn record is part of what is cut off. Directory
operations (a new segment, a deletion) are taken to be durable when done. An error
of the file system ends flushing, as in the code, until the log is reopened.

Two limits of what `flushed_lsn` means follow from the code and are not in the
model. After a crash of the process alone `Wal::new` counts records as flushed that
were written and never fsynced, so `FlushedIsDurable` is about power losses only.
And a failed `flush_up_to` does not mean that the record is not durable, as
`Engine::commit` takes it to: a rotation may have fsynced it before a later record
of the batch failed.

### BufferPool

One shard (shards share only log and data file). A step is one critical section of
the mutex `inner`, one use of a frame's latch, or one call of log or disk; `task`
holds where in a call each thread is. `fetch_page_*` is `Fetch`, then the
alternatives of `acquire_frame` (`AcquireHit`, `AcquireWait` for a frame another
thread loads, `EvictDirty`, `Reserve`, `AcquireFails`), `Load`, `FinishLoad`,
`Notify`, `Latch`; the guard's drop is `Unlatch` and `Unpin`. `flush_page_inner`
is the `Flush...` actions, used by eviction and by the checkpoint
(`Checkpoint`, `LogCheckpoint`, `ScanFrame`, `CommitCheckpoint`).

- The bytes of a page are whose bytes they are and the page LSN, which names the
  last logged change. A thread holds one guard at a time.
- The clock is `Position`, `Takes`, `VictimAt`, `ClockAfter`: the sweep of
  `victim` in closed form.
- Loading, forcing the log, writing and syncing may fail.
- Pin counts wrap at `PinModulus`, as the unsigned counter of a release build
  does; a debug build panics instead.
- `overtaken` records whether a flush ever lost its frame to another page, or shared
  it with a second flush, before it was over (`FlushesAlone`). No action looks at it.
- Nothing outside the tests calls `mark_dirty_with_lsn`, so no frame ever has a
  recLSN and the redo point of a checkpoint is the LSN the log gives out next.
- Left out: `delete_page`, `ensure_page`, and the reuse of page ids, which are in
  `Recovery`.

### BLinkTree

A step acquires one latch (or the root mutex) and runs to the next acquisition. A
latch the code lets go before then is a guard of the step (`CanRead`, `CanWrite`);
one it keeps while it waits for another stays in `th[t].xl` or `th[t].sh`. Each
thread runs one call to its end: `get`, `insert`, `delete`, `range`,
`range_backward` or one vacuum pass.

- A page has its live and dead entries, separators and children, high key, both
  links, and the two flags. Compaction, in an insert or a sweep, removes any of the
  dead entries.
- The page LSN is compared in one place, after an insert has looked at the left
  chain; `stale` says whose landing page has got a new LSN since.
- A backward scan that comes back to a page compacted meanwhile reads a slot past
  the end of the directory; it returns `Nil` in the model.
- `rightlink().unwrap()` without a rightlink is the state `panic`.
- `db`, `seen` and `quiet` record what the answers are compared with.
- `astray` records the keys and pages of a race the code does not exclude; no action
  looks at it. The way of an insert to the right half after a split
  (`smo.rs:123-157`) follows high keys and does not look at the half-dead flag. If the
  vacuum marks that page between the split and the insert, the entry goes to a page
  that is then unlinked, and is lost. In the same window a downlink can be inserted
  for a page that has been unlinked, which leads searches for that page's range to it.
  The properties leave out those keys and that downlink, and nothing else.

### LeafPage, InternalPage, Pages

The arithmetic of the two page types with the byte constants as parameters. Which
cases a small page has depends on the sizes chosen: the page of the run has the code's
order of header, high key, slots and records, odd lengths that are padded, and keys
long enough to unbalance the split of an internal page; it does not have the hundreds
of slots of a page of 4096 bytes. A record on a leaf is one value at the offset it starts at, and
writing over any byte of it destroys it; an internal page is its children, its keys
and what the key area leaves for the high key. `Pages`
does to one page what the index does: insert directly, after a compaction, or after
a split (it goes on with either half), stamp, vacuum, add and remove downlinks. What
the page should hold (`want`) is kept without offsets.

### RedoLog and Recovery

`RedoLog` has the records that touch pages, by their blocks (a full image or a
change), and `redo_record` with its LSN gate. A page keeps what redo can get wrong:
LSN, kind, versions, child ids, links, flags. New versions go to the first slot, so
a record applied twice or to the wrong page shows.

In `Recovery` a change, its log record and the page LSN are one step under one latch.
The drop of the guard, which marks the page dirty, is another (`Unpin`; `guards` holds
the pages an actor has changed and not let go), and a record that names a page its
writer latches only later (`Awaited`) takes one more. `disk` holds for each
page the contents a power loss may leave: the synced one and every one written
since. `Crash` keeps any of them, page by page, and any prefix of the log from the
durable watermark on. Recovery runs record by record and may crash itself. Every
start state is a `plan`: pages as a clean close leaves them, and how many writes,
big values, splits, sweeps, checkpoints and crashes may follow.

- One structure change and one sweep are under way at a time, not on the same leaves.
  `MaxPid` bounds the ids; a plan has few enough allocations not to need more.
- A page write is atomic. In the code it is not protected: nothing calls
  `mark_dirty_with_lsn`, so the full page images `DESIGN.md:533` describes are never
  attached, and a torn page stays torn.
- Nothing keeps other writers and checkpoints out of those gaps. `raced` records the
  pages it happened to; no action looks at it. Without that exception TLC finds
  `PagesMatchLog` violated in two ways. A record appended to the page between the
  record that names it and its latch gives it a higher LSN, which the late writer
  lowers again: redo applies that record a second time or skips the late one. A
  checkpoint between a record and the dirty mark of its page (the bitmap in
  `claim_recycled`, for one) puts its redo point above the record while the file lacks
  the change, which is then lost. Of the contents of a page that raced nothing is said; if
  the bitmap, page 0 or the root did, ownership of pages is not promised either.
- Once a flush of the log has failed (`LogFails`) no record is appended and no flush
  goes further. Of what the index has changed by the time `append` refuses, the model
  has the version of a plain insert (`InsertUnlogged`); compactions, splits and
  stamps without a record are left out.
- `flush_all_pages` is one step; its interleavings are `BufferPool`'s.

## What is checked

Passing runs; bounds in brackets.

| Run | Properties | Shows |
|---|---|---|
| `mvcc` [3 transactions, 1 reader, 1 key, 2 slots; 0.39 million states] | `PresumedCommitSound`, `HorizonSafe`, `VerdictsStable`, `GlobalXminMonotone`, `AbortedCreatorsSwept`, `RepeatableReads`, `ImplementsStore` | what a snapshot presumes about a transaction is true and stays so; a horizon that is read once and used later never passes a live or future snapshot, and is honest when published; no write, commit, abort or vacuum changes a live snapshot's rows; commits are atomic and no committed supersession is lost |
| `wait` [3 transactions; 5 thousand] | `NoMissedWakeup`, `NoOrphanEntry`, `WaitsOutTheBlocker`, `EveryoneEnds` | the condvar protocol loses no wakeup and leaks no entry; wait-die leaves no cycle |
| `wal` [2 threads, 4 LSNs, buffer and segment of 2; 0.56 million] | `OneOrder`, `FlushedIsDurable`, `EmptyMeansFlushed`, `DurableForGood`, `FlushReturns` | LSN, buffer and disk order agree; what counts as flushed is durable and stays so through rotation, reclaim, failed writes and power loss; no caller of `flush_up_to` is stranded |
| `pool` [2 threads, one of which also checkpoints, 1 frame, 2 pages, 2 LSNs; 5.2 million] | `NoFrameLost`, `CleanIsOnDisk`, `WalBeforePage`, `GuardSeesLatest`, `WakeupToCome` | always: the log is durable before the page is written, and whoever waits for a load has a wakeup coming, whether the load ends well or badly. Up to the first flush that is overtaken: frames add up, clean means on disk, a guard shows every change made so far through evictions, reloads and failures |
| `pages` [32-byte pages, 6 keys of 1 to 6 bytes, values of 0 and 3, 4 changes of a leaf, page ids to 12; 0.12 million] | `RegionsDisjoint`, `RecordsIntact`, `SearchExact`, `HeaderKept`, `SplitKeepsVersionsTogether`, `HighKeyClear` | no write on a leaf runs into header, high key, directory or another record, whatever the order of inserts, compactions and splits; an internal page runs into its high key in one way only (see below); search finds every record and routes every key; versions of one key are parted only when the leaf holds nothing else |
| `tree` [3 threads: an insert, another call, a vacuum pass; 8 keys, leaves of 2 entries, internal pages of 2 separators, 3 start trees; 1.2 million] | `EveryKeyFound`, `AnswersAreRight`, `ScanIsExact`, `NoLinkToRecycled`, `ChainAtRest` | at every moment a search finds exactly the keys that are there; lookups and deletes answer what was true during their run; undisturbed scans are exact; nothing leads to a page about to be recycled; the chain of leaves is whole at the end; all this but for what went `astray` |
| `recovery` [14 plans, 7 pages, up to 2 transactions, up to 2 crashes; 0.64 million] | `AckedSurvives`, `CreatorsJudged`, `TxnIdsFresh`, `PagesHaveOneOwner`, `ChainsWhole`, `PagesMatchLog` | what was acknowledged survives and what was not committed does not, whatever the checkpoint has cut off; ids of transactions and pages are not given out twice; every page holds what the surviving history says, each record once, unless it `raced` |

`BLinkTree` and `Recovery` have a type invariant in their run; those of
`TransactionManager`, `Mvcc`, `WaitDie` and `BufferPool` are proved. Three
transactions are the fewest that let one wait, one block and one supersede;
`FewSnapshots` keeps the
reader and the third transaction apart, which two snapshots and a horizon do not
need. With one key a sweep has one leaf, and what happens between leaves is covered
by the proofs of `AbortedCreatorsSwept` and `RepeatableReads`, which are for any
number of keys. Four LSNs against a buffer and a segment of two let the buffer fill
up and the log rotate and be reclaimed. One frame for two pages makes every fetch
evict. A leaf of two entries splits on the third, and three levels let a split reach
the root; the third start tree is what a crash leaves (a half-dead leaf, a split
without downlink). The plans of `recovery` each bring one mechanism together with a
crash: statuses and redo with recovery cut short, a horizon in a checkpoint, an
overflow value and its end, an unlinked leaf and its recycling, a root split, a leaf
split beside a sweep, a log that fails; all of them at once are more than TLC can enumerate.

Three of the models have races that the code does not exclude and that break what it
relies on. The actions let them happen. A history variable (`overtaken`, `astray`,
`raced`) records where, the properties say what holds in all other behaviours and
places, and `pool_pin` shows what the first of them can do. In the pool it happens in
two ways:

- The frame is given to another page during the flush. `flush_page_inner` raises the
  pin count and does not tell the clock (`shard.rs:325`), which may hand the frame on
  before its bytes are copied; the other page's bytes are then written under the old
  page id, and when the flush is over it takes back a pin that is not its own.
- A second thread flushes the same frame meanwhile. An eviction copies the bytes, a
  writer changes the page, a checkpoint flushes the newer bytes, and the eviction then
  writes its older copy over them, with the frame counted as clean.

`WalBeforePage` and `WakeupToCome` hold in spite of both.

The deadlock check is off in `MCWaitDie`, `MCPages`, `MCBLinkTree` and `MCRecovery`,
whose systems stop when every call, change or unit of the plan has been used up.
In the tree that also hides the latch deadlock of finding 4, which has a run of its
own.

**Fairness.** `WaitDie`: weak fairness of each thread's steps inside the wait
protocol (the operating system runs runnable threads), and of ending a transaction
that is not blocked in a call: a handle that is dropped is aborted. Nothing forces
conflicts. `Wal`: weak fairness of each thread's steps inside `flush_up_to`;
nothing forces appends or new calls, and mutexes are held for a bounded time.
The safety runs assume no fairness.

## Where code and comments disagree

Each of these is a run that is expected to violate one property.

1. `pool_pin`: a guard "ensures the page remains pinned" (`manager.rs:130-131`). A
   checkpoint's flush has its frame evicted and given to another page; back under the
   mutex it takes one pin from whatever page is there now, which was the pin of the
   thread that loads it (`shard.rs:343-346`). The frame is given away once more while
   that thread holds its guard, and what is read or written through the guard is
   another page.
2. `pool_redo`: the redo point is the next LSN, taken before the pages are
   flushed; a page that is logged and changed under its latch, and not yet marked
   dirty, is skipped by the scan, and its change lies below the redo point and is
   not in the data file.
3. `tree_end`: when the vacuum unlinks the last leaf, its left neighbour keeps its
   high key and has no rightlink; the next operation on a key at or above that high
   key panics in `rightlink().unwrap()`.
4. `tree_latch`: `find_leaf`, with which a range scan begins, keeps the parent's shared
   latch until it has the leaf's (`index/mod.rs:1186-1206`). The vacuum holds the left
   neighbour of the leaf it removes and waits for the parent (`smo.rs:349`). When the
   scan begins in that neighbour, both wait for ever; a comment in `smo.rs:393-395` says
   that holding an internal latch while waiting on a leaf would deadlock. The
   insertion of a downlink takes parent and child in the same order (`smo.rs:674`).
5. `restart`: an aborted delete leaves its id as xmax on a live version, which a
   completed sweep keeps. The checkpoint then drops the id from `pinned_aborted` and
   reclaims its abort record; after a restart the delete counts as committed.
   `truncate_clog` applies the same horizon, should it get a caller.

Seen while modelling, without a run of their own:

- A transaction that waited for a younger creator of a key does not get
  `DuplicateKey` after that creator commits (`index/mod.rs:1084-1087` says it does):
  its snapshot does not see the version, and it inserts a second live one.
- `Engine::abort` returns before `mark_aborted` when the abort record cannot be
  appended (`engine/src/txn.rs:69`); whoever waits for that transaction never wakes.
- `split_internal_ly` halves an internal page by the number of its keys and does not ask
  whether the half with its high key fits. On a page of 4096 bytes seven separators of
  512 bytes with seven short ones behind them, and a downlink with another long one,
  give a left half whose keys end at byte 3716, behind the 3584 where its high key
  begins. `HighKeyClear` says that this needs a separator longer than all that the
  other half holds, and that no other step of an internal page does it.
- A commit whose flush fails is marked aborted because its record "wasn't durably
  written" (`engine/src/txn.rs:42`). The record is in the log all the same: if it
  reached the file, the transaction is committed after a restart. `Recovery` has this
  (`CommitFails`); `AckedSurvives` and `CreatorsJudged` allow it, since the caller got
  an error.
- An insert whose record is refused leaves its version on a page that is then marked
  dirty and may be written. Nothing in the log names the transaction; after a restart
  its id may be given out again, and the version passes for the new transaction's.
- A split may refuse the insert it was made for, when the entry does not fit the
  half it belongs to (`smo.rs:92` passes `InsufficientSpace` on).
- A page is parked with the `global_xmin` of its unlink. A later sweep may pass that
  stamp while a younger transaction that was active at the unlink still is, and may
  hold the page id (`index/mod.rs:218`).
- A page that split with an empty stack, and finds another root, clears its flag
  without inserting the downlink (`smo.rs:584`): its right half is then reachable
  through the rightlink only.
- A `get` that lands on an empty leaf with a left neighbour looks there for more
  versions, finds a high key other than its key and descends again; while the leaf
  stays empty, as an only child may, it does so for ever (`index/mod.rs:360-364`).
- `range_backward` does not move right when the leaf it descends to has split and
  the downlink is not there yet: it starts on the left half and misses the entries of
  the right half below its start key (`index/mod.rs:877-907`).
- Overflow pages that are freed are not recycled, and pages parked at a crash are lost
  to the free pool.

## What is proved

For every value of the constants, under the assumptions that `MaxTxn` and `N` are
positive, that the markers for "no key" and "no version" are not keys and
versions, and that the pool has a frame and pin counts wrap at two or more:

- `TransactionManagerProofs`: `PresumedCommitSound`, `HorizonSafe`,
  `VerdictsStable`, `GlobalXminMonotone`. None is inductive alone. The invariant
  `TMInv` adds that an id that was handed out and is not active is settled
  (`IdsAccounted`), that a live snapshot lists every active id below its xmax
  (`SnapshotOK`), and that a horizon is below every active id and every live xmin
  (`HorizonOK`).
- `MvccProofs`: `TypeOK`, `AbortedCreatorsSwept`, `RepeatableReads`. Every step of
  `Mvcc` is a step of `TransactionManager` or leaves it alone (`NextIsTMNext`), so
  `TMInv` carries over. `Inv` adds that leaves the sweep has passed hold no
  aborted creator below its horizon (`PassedLeavesClean`) and that a deleter whose
  CLOG entry was unsettled when vacuum read it is not below the horizon
  (`ProbeOK`), which is why the stale read in `settled_status` does no harm. A
  version that is vacuumable below a horizon no live snapshot's xmin undercuts is
  invisible to all of them (`VacuumableUnseen`), for the sweep's horizon and for the
  one an insert into a full leaf takes.
- `WaitDieProofs`: `TypeOK`, `NoMissedWakeup`, `NoOrphanEntry`,
  `WaitsOutTheBlocker`. `WInv` adds where an entry a waiter holds can be (`Covered`,
  `Queued`) and that an entry is never created twice (`UsedOK`).
- `BufferPoolProofs`: `TypeOK` and `WalBeforePage`. `PoolInv` adds what a call has
  in hand at each of its steps (`FieldsOK`): in particular that the bytes about to
  be written have an LSN up to which the log has been forced, which holds of the
  copy the flush took, not of the frame, and so holds also when the frame is given
  away during the flush.

Only model-checked: the refinement `ImplementsStore`, everything about `Wal`,
`BLinkTree`, the pages and `Recovery`, the other properties of `BufferPool`, and the
liveness properties `EveryoneEnds` and `FlushReturns`. Liveness is
beyond the proof system used here; so are facts that need induction over sequences
or recursive operators, as what redo makes of a whole log and what a search finds in
a tree of any depth do.

## Not modelled

- The `Db` handle and the threads behind it: thresholds and intervals of autovacuum
  and checkpointer, the dead-version counter (a sweep abandoned by a shutdown has
  taken the count and does not restore it, `engine/src/vacuum.rs:81`), the shutdown
  handshake. The models let sweeps and checkpoints happen at any moment.
- Byte encodings of log records and checksums of records and pages: the models have
  torn tails and lost writes, no rot. `log_internal_split`: `BLinkTree` has the split
  itself, `Recovery` trees of two levels.
- A version chain that spans pages together with write conflicts: `Mvcc` has the
  conflicts on one leaf, `BLinkTree` the chain without conflicts.
- Page operations that nothing in the engine calls (`is_underfull`, `remove`,
  `update_separator_at`, `prepend_separator`, `truncate_to`), `truncate_wal_after`,
  and the setters of overflow pages.
- Key encodings (`common/src/types.rs`): pure functions without state, with tests of
  their order.
- The crates that are placeholders: lock manager, parser, schema, command line.
