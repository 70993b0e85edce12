----------------------------- MODULE BufferPool -----------------------------
(***************************************************************************)
(* One shard of the buffer pool: frames, pins, latches, the clock, loading *)
(* and eviction, and the checkpoint that flushes the pool and moves the    *)
(* redo point.  Shards share nothing but the log and the data file.        *)
(*                                                                         *)
(* The bytes of a page are abstracted to whose bytes they are and the page *)
(* LSN, which identifies the last logged change.  A step is one critical   *)
(* section of the shard's mutex `inner`, one use of a frame's latch, or    *)
(* one call of the log or the data file.  Nobody calls                     *)
(* `mark_dirty_with_lsn` outside the tests, so rec_lsn is always None and  *)
(* has no variable here.                                                   *)
(***************************************************************************)
EXTENDS Integers, Sequences, FiniteSets

CONSTANTS
    Client,     \* threads that fetch and change pages
    Flusher,    \* threads that run checkpoints
    NumFrames,
    NumPages,   \* bound: the page ids
    OldPages,   \* the pages that are in the data file when the pool is built
    MaxLsn,     \* bound: the log records
    PinModulus  \* pin counts are unsigned and wrap (2^64 in the code)

ASSUME PoolAssumption ==
    /\ NumFrames \in Nat \ {0} /\ NumPages \in Nat /\ OldPages \in 0 .. NumPages
    /\ MaxLsn \in Nat /\ PinModulus \in Nat \ {0, 1}

Thread == Client \cup Flusher
Frame == 0 .. NumFrames - 1
Page == 0 .. NumPages - 1
NoFrame == -1
NoPage == -1
NoThread == "no thread"
Image == [page : Page \cup {NoPage}, lsn : 0 .. MaxLsn]
Blank == [page |-> NoPage, lsn |-> 0]   \* bytes that are no page

VARIABLES
    meta,       \* Frame -> [page, pins, dirty, loading]
    table,      \* page_table: Page -> its frame
    free,       \* free_list, popped from its end
    clock,      \* the replacer: [evictable, ref, hand]
    mem,        \* Frame -> the bytes in it
    latch,      \* Frame -> [writer, readers] of its RwLock
    disk,       \* Page -> the bytes last written to the data file
    synced,     \* what of that was there at the last sync_data
    log,        \* the page each log record is about, by LSN
    flushed,    \* the log is durable through this LSN
    redo,       \* the redo point the superblock leads to
    next_page,  \* next_page_id
    task,       \* Thread -> the pool call it is in
    overtaken   \* history: a flush did not have its frame to itself

poolVars == <<meta, table, free, clock>>
fileVars == <<disk, synced, log, flushed, redo, next_page>>
vars == <<poolVars, mem, latch, fileVars, task, overtaken>>

Idle == [at |-> "idle", mode |-> "none", page |-> NoPage, frame |-> NoFrame,
         ok |-> TRUE, dirty |-> FALSE, out |-> NoPage, buf |-> Blank,
         cursor |-> 0, redo |-> 0]
Empty == [page |-> NoPage, pins |-> 0, dirty |-> FALSE, loading |-> FALSE]
Unlatched == [writer |-> NoThread, readers |-> {}]

Init ==
    /\ meta = [f \in Frame |-> Empty]
    /\ table = [p \in Page |-> NoFrame]
    /\ free = [i \in 1 .. NumFrames |-> NumFrames - i]
    /\ clock = [evictable |-> [f \in Frame |-> FALSE],
                ref |-> [f \in Frame |-> FALSE], hand |-> 0]
    /\ mem = [f \in Frame |-> Blank]
    /\ latch = [f \in Frame |-> Unlatched]
    /\ disk = [p \in Page |-> IF p < OldPages THEN [page |-> p, lsn |-> 0] ELSE Blank]
    /\ synced = disk
    /\ log = <<>> /\ flushed = 0 /\ redo = 0
    /\ next_page = OldPages
    /\ task = [t \in Thread |-> Idle]
    /\ overtaken = FALSE

NextLsn == Len(log) + 1
Goto(t, step) == task' = [task EXCEPT ![t].at = step]
Return(t) == task' = [task EXCEPT ![t] = Idle]

(***************************************************************************)
(* A flush pins its frame in the metadata and does not tell the replacer,  *)
(* so the frame can be given to another page, or flushed by a second       *)
(* thread, before the flush is done.  The two steps that take a frame note *)
(* when that happens; no guard looks at the note.                          *)
(***************************************************************************)
Flushes(t) == task[t].at \in {"copy", "force", "write", "flushed"}
FlushesAlone ==
    \A t \in Thread : Flushes(t) =>
        /\ meta[task[t].frame].page = task[t].out
        /\ \A u \in Thread \ {t} : Flushes(u) => task[u].frame # task[t].frame
NoteOvertaken == overtaken' = (overtaken \/ ~FlushesAlone')

(***************************************************************************)
(* The clock.  `victim` looks at up to twice as many positions as there    *)
(* are frames; in the first round it spares a frame whose reference bit is *)
(* set and clears the bit.                                                 *)
(***************************************************************************)
Position(k) == (clock.hand + k) % NumFrames
Takes(k) ==
    /\ clock.evictable[Position(k)]
    /\ k >= NumFrames \/ ~clock.ref[Position(k)]
Searched == 0 .. 2 * NumFrames - 1
VictimAt(k) == k \in Searched /\ Takes(k) /\ \A j \in Searched : j < k => ~Takes(j)

ClockAfter(k) ==
    [evictable |-> [clock.evictable EXCEPT ![Position(k)] = FALSE],
     ref |-> [f \in Frame |->
                 /\ clock.ref[f]
                 /\ f # Position(k)
                 /\ ~\E j \in 0 .. k - 1 : Position(j) = f /\ clock.evictable[f]],
     hand |-> Position(k + 1)]

ClockPin(c, f) == [c EXCEPT !.evictable[f] = FALSE, !.ref[f] = FALSE]
ClockUnpin(c, f) == [c EXCEPT !.evictable[f] = TRUE, !.ref[f] = TRUE]

(* find_victim_frame_id: the frame it finds, if any, and what it leaves behind. *)
Victims ==
    IF free # <<>>
    THEN {[frame |-> free[Len(free)], free |-> SubSeq(free, 1, Len(free) - 1),
           clock |-> clock]}
    ELSE {[frame |-> Position(k), free |-> free, clock |-> ClockAfter(k)] :
             k \in {j \in Searched : VictimAt(j)}}

-----------------------------------------------------------------------------
(***************************************************************************)
(* fetch_page, fetch_page_mut and new_page.                                *)
(***************************************************************************)
Fetch(t, p, mode) ==
    /\ task[t].at = "idle"
    /\ p < next_page
    /\ task' = [task EXCEPT ![t] = [Idle EXCEPT !.at = "acquire", !.mode = mode, !.page = p]]
    /\ UNCHANGED <<poolVars, mem, latch, fileVars, overtaken>>

(* A fresh id; ids that are recycled through free_pool are not modelled. *)
NewPage(t) ==
    /\ task[t].at = "idle"
    /\ next_page < NumPages
    /\ next_page' = next_page + 1
    /\ task' = [task EXCEPT ![t] =
                   [Idle EXCEPT !.at = "acquire", !.mode = "new", !.page = next_page]]
    /\ UNCHANGED <<poolVars, mem, latch, disk, synced, log, flushed, redo, overtaken>>

AcquireHit(t) ==
    LET f == table[task[t].page] IN
    /\ task[t].at = "acquire"
    /\ f # NoFrame /\ ~meta[f].loading
    /\ meta' = [meta EXCEPT ![f].pins = (@ + 1) % PinModulus]
    /\ clock' = ClockPin(clock, f)
    /\ task' = [task EXCEPT ![t].at = IF task[t].mode = "new" THEN "load" ELSE "latch",
                            ![t].frame = f]
    /\ UNCHANGED <<table, free, mem, latch, fileVars, overtaken>>

AcquireWait(t) ==
    LET f == table[task[t].page] IN
    /\ task[t].at = "acquire"
    /\ f # NoFrame /\ meta[f].loading
    /\ Goto(t, "waiting")
    /\ UNCHANGED <<poolVars, mem, latch, fileVars, overtaken>>

(* NoEvictableFrames: the call fails. *)
AcquireFails(t) ==
    /\ task[t].at = "acquire"
    /\ table[task[t].page] = NoFrame
    /\ Victims = {}
    /\ Return(t)
    /\ UNCHANGED <<poolVars, mem, latch, fileVars, overtaken>>

MustFlush(f) == f # NoFrame /\ meta[f].dirty /\ meta[f].page # NoPage

(* The victim is dirty: the mutex is dropped to flush it, then all is looked at again. *)
EvictDirty(t) ==
    /\ task[t].at = "acquire"
    /\ table[task[t].page] = NoFrame
    /\ \E v \in Victims :
          /\ MustFlush(v.frame)
          /\ free' = v.free /\ clock' = v.clock
          /\ task' = [task EXCEPT ![t].at = "flush", ![t].out = meta[v.frame].page]
    /\ UNCHANGED <<meta, table, mem, latch, fileVars, overtaken>>

(* Mutant: a dirty victim is not flushed. *)
Reserve_Unflushed(t) ==
    /\ task[t].at = "acquire"
    /\ table[task[t].page] = NoFrame
    /\ \E v \in Victims :
          /\ free' = v.free /\ clock' = ClockPin(v.clock, v.frame)
          /\ table' = [p \in Page |-> CASE p = task[t].page -> v.frame
                                      [] p # task[t].page /\ p = meta[v.frame].page -> NoFrame
                                      [] OTHER -> table[p]]
          /\ meta' = [meta EXCEPT ![v.frame] = [page |-> task[t].page, pins |-> 1,
                                                dirty |-> FALSE, loading |-> TRUE]]
          /\ task' = [task EXCEPT ![t].at = "load", ![t].frame = v.frame]
    /\ NoteOvertaken
    /\ UNCHANGED <<mem, latch, fileVars>>

Reserve(t) ==
    /\ task[t].at = "acquire"
    /\ table[task[t].page] = NoFrame
    /\ \E v \in Victims :
          /\ ~MustFlush(v.frame)
          /\ free' = v.free /\ clock' = ClockPin(v.clock, v.frame)
          /\ table' = [p \in Page |-> CASE p = task[t].page -> v.frame
                                      [] p # task[t].page /\ p = meta[v.frame].page -> NoFrame
                                      [] OTHER -> table[p]]
          /\ meta' = [meta EXCEPT ![v.frame] = [page |-> task[t].page, pins |-> 1,
                                                dirty |-> FALSE, loading |-> TRUE]]
          /\ task' = [task EXCEPT ![t].at = "load", ![t].frame = v.frame]
    /\ NoteOvertaken
    /\ UNCHANGED <<mem, latch, fileVars>>

CanRead(f) == latch[f].writer = NoThread
CanWrite(f) == CanRead(f) /\ latch[f].readers = {}

(* The frame is filled under its write latch, which a writer keeps on success. *)
Load(t) ==
    LET f == task[t].frame
        p == task[t].page
        mode == task[t].mode IN
    /\ task[t].at = "load"
    /\ CanWrite(f)
    /\ \E ok \in BOOLEAN :
          /\ mode = "new" => ok
          /\ mode # "new" /\ disk[p] = Blank => ~ok
          /\ mem' = [mem EXCEPT ![f] = CASE ~ok -> Blank
                                        [] ok /\ mode = "new" -> [page |-> p, lsn |-> 0]
                                        [] OTHER -> disk[p]]
          /\ latch' = IF ok /\ mode # "read" THEN [latch EXCEPT ![f].writer = t] ELSE latch
          /\ task' = [task EXCEPT ![t].at = "loaded", ![t].ok = ok]
    /\ UNCHANGED <<poolVars, fileVars, overtaken>>

FinishLoad(t) ==
    LET f == task[t].frame IN
    /\ task[t].at = "loaded"
    /\ \/ /\ task[t].ok
          /\ meta' = [meta EXCEPT ![f].loading = FALSE]
          /\ UNCHANGED <<table, free, clock>>
       \/ /\ ~task[t].ok
          /\ meta' = [meta EXCEPT ![f] = Empty]
          /\ table' = [table EXCEPT ![task[t].page] = NoFrame]
          /\ clock' = ClockPin(clock, f)
          /\ free' = Append(free, f)
    /\ Goto(t, "notify")
    /\ UNCHANGED <<mem, latch, fileVars, overtaken>>

(* Mutant: a failed load wakes nobody. *)
Notify_OnSuccess(t) ==
    /\ task[t].at = "notify"
    /\ task' = [u \in Thread |->
                  CASE u = t /\ ~task[t].ok -> Idle
                    [] u = t /\ task[t].ok ->
                          [task[t] EXCEPT !.at = IF task[t].mode = "read" THEN "latch"
                                                 ELSE "guard"]
                    [] u # t /\ task[u].at = "waiting" /\ task[t].ok ->
                          [task[u] EXCEPT !.at = "acquire"]
                    [] OTHER -> task[u]]
    /\ UNCHANGED <<poolVars, mem, latch, fileVars, overtaken>>

(* notify_all; a reader then latches the frame, a writer holds the latch. *)
Notify(t) ==
    /\ task[t].at = "notify"
    /\ task' = [u \in Thread |->
                  CASE u = t /\ ~task[t].ok -> Idle
                    [] u = t /\ task[t].ok ->
                          [task[t] EXCEPT !.at = IF task[t].mode = "read" THEN "latch"
                                                 ELSE "guard"]
                    [] u # t /\ task[u].at = "waiting" -> [task[u] EXCEPT !.at = "acquire"]
                    [] OTHER -> task[u]]
    /\ UNCHANGED <<poolVars, mem, latch, fileVars, overtaken>>

Latch(t) ==
    LET f == task[t].frame IN
    /\ task[t].at = "latch"
    /\ \/ /\ task[t].mode = "read" /\ CanRead(f)
          /\ latch' = [latch EXCEPT ![f].readers = @ \cup {t}]
       \/ /\ task[t].mode = "write" /\ CanWrite(f)
          /\ latch' = [latch EXCEPT ![f].writer = t]
    /\ Goto(t, "guard")
    /\ UNCHANGED <<poolVars, mem, fileVars, overtaken>>

(* The owner of a write guard changes the page, logs that and stamps the LSN. *)
Write(t) ==
    /\ task[t].at = "guard" /\ task[t].mode # "read"
    /\ Len(log) < MaxLsn
    /\ log' = Append(log, task[t].page)
    /\ mem' = [mem EXCEPT ![task[t].frame].lsn = NextLsn]
    /\ task' = [task EXCEPT ![t].dirty = TRUE]
    /\ UNCHANGED <<poolVars, latch, disk, synced, flushed, redo, next_page, overtaken>>

(* Dropping a guard: first the latch, then unpin_page. *)
Unlatch(t) ==
    LET f == task[t].frame IN
    /\ task[t].at = "guard"
    /\ latch' = IF task[t].mode = "read" THEN [latch EXCEPT ![f].readers = @ \ {t}]
                ELSE [latch EXCEPT ![f].writer = NoThread]
    /\ Goto(t, "unpin")
    /\ UNCHANGED <<poolVars, mem, fileVars, overtaken>>

Unpin(t) ==
    LET f == table[task[t].page] IN
    /\ task[t].at = "unpin"
    /\ IF f # NoFrame /\ meta[f].pins > 0
       THEN /\ meta' = [meta EXCEPT ![f].pins = @ - 1, ![f].dirty = @ \/ task[t].dirty]
            /\ clock' = IF meta[f].pins = 1 THEN ClockUnpin(clock, f) ELSE clock
       ELSE UNCHANGED <<meta, clock>>
    /\ Return(t)
    /\ UNCHANGED <<table, free, mem, latch, fileVars, overtaken>>

-----------------------------------------------------------------------------
(***************************************************************************)
(* flush_page_inner, called for an eviction (the task has a page) or by    *)
(* flush_all_pages (it has a cursor).                                      *)
(***************************************************************************)
FlushReturns(t) ==
    task' = [task EXCEPT ![t] =
                IF task[t].page # NoPage
                THEN [Idle EXCEPT !.at = "acquire", !.mode = task[t].mode, !.page = task[t].page]
                ELSE [Idle EXCEPT !.at = "scan", !.cursor = task[t].cursor + 1,
                                  !.redo = task[t].redo]]

FlushSkips(t) ==
    LET f == table[task[t].out] IN
    /\ task[t].at = "flush"
    /\ ~MustFlush(f)
    /\ FlushReturns(t)
    /\ UNCHANGED <<poolVars, mem, latch, fileVars, overtaken>>

(* The frame is pinned in its metadata; the replacer is not told. *)
FlushPins(t) ==
    LET f == table[task[t].out] IN
    /\ task[t].at = "flush"
    /\ MustFlush(f)
    /\ meta' = [meta EXCEPT ![f].dirty = FALSE, ![f].pins = (@ + 1) % PinModulus]
    /\ task' = [task EXCEPT ![t].at = "copy", ![t].frame = f, ![t].out = meta[f].page]
    /\ NoteOvertaken
    /\ UNCHANGED <<table, free, clock, mem, latch, fileVars>>

(* write_frame_to_disk: copy under the read latch, force the log, write. *)
FlushCopies(t) ==
    /\ task[t].at = "copy"
    /\ CanRead(task[t].frame)
    /\ task' = [task EXCEPT ![t].at = "force", ![t].buf = mem[task[t].frame]]
    /\ UNCHANGED <<poolVars, mem, latch, fileVars, overtaken>>

(* Mutant: the page is written although the log could not be flushed. *)
FlushForcesLog_Ignored(t) ==
    LET lsn == task[t].buf.lsn IN
    /\ task[t].at = "force"
    /\ flushed' \in {flushed} \cup (IF lsn <= flushed THEN {} ELSE lsn .. Len(log))
    /\ Goto(t, "write")
    /\ UNCHANGED <<poolVars, mem, latch, disk, synced, log, redo, next_page, overtaken>>

FlushForcesLog(t) ==
    LET lsn == task[t].buf.lsn IN
    /\ task[t].at = "force"
    /\ \/ /\ flushed' \in IF lsn <= flushed THEN {flushed} ELSE lsn .. Len(log)
          /\ Goto(t, "write")
       \/ /\ lsn > flushed      \* the log cannot be flushed
          /\ flushed' = flushed
          /\ task' = [task EXCEPT ![t].at = "flushed", ![t].ok = FALSE]
    /\ UNCHANGED <<poolVars, mem, latch, disk, synced, log, redo, next_page, overtaken>>

FlushWrites(t) ==
    /\ task[t].at = "write"
    /\ \E ok \in BOOLEAN :
          /\ disk' = IF ok THEN [disk EXCEPT ![task[t].out] = task[t].buf] ELSE disk
          /\ task' = [task EXCEPT ![t].at = "flushed", ![t].ok = ok]
    /\ UNCHANGED <<poolVars, mem, latch, synced, log, flushed, redo, next_page, overtaken>>

(* Mutant: the dirty mark is cleared after the write. *)
FlushUnpins_ClearsLate(t) ==
    LET f == task[t].frame IN
    /\ task[t].at = "flushed"
    /\ meta' = [meta EXCEPT ![f].pins = (@ - 1) % PinModulus, ![f].dirty = ~task[t].ok]
    /\ clock' = IF meta[f].pins = 1 THEN ClockUnpin(clock, f) ELSE clock
    /\ IF task[t].ok THEN FlushReturns(t) ELSE Return(t)
    /\ UNCHANGED <<table, free, mem, latch, fileVars, overtaken>>

(* Mutant: the last pin goes and the replacer is not told. *)
FlushUnpins_Silent(t) ==
    LET f == task[t].frame IN
    /\ task[t].at = "flushed"
    /\ meta' = [meta EXCEPT ![f].pins = (@ - 1) % PinModulus,
                            ![f].dirty = @ \/ ~task[t].ok]
    /\ IF task[t].ok THEN FlushReturns(t) ELSE Return(t)
    /\ UNCHANGED <<table, free, clock, mem, latch, fileVars, overtaken>>

FlushUnpins(t) ==
    LET f == task[t].frame IN
    /\ task[t].at = "flushed"
    /\ meta' = [meta EXCEPT ![f].pins = (@ - 1) % PinModulus,
                            ![f].dirty = @ \/ ~task[t].ok]
    /\ clock' = IF meta[f].pins = 1 THEN ClockUnpin(clock, f) ELSE clock
    /\ IF task[t].ok THEN FlushReturns(t) ELSE Return(t)
    /\ UNCHANGED <<table, free, mem, latch, fileVars, overtaken>>

(***************************************************************************)
(* Engine::checkpoint.  With no rec_lsn in the pool the redo point is the  *)
(* LSN the log would give out next.                                        *)
(***************************************************************************)
Checkpoint(t) ==
    /\ task[t].at = "idle"
    /\ Len(log) < MaxLsn
    /\ task' = [task EXCEPT ![t] = [Idle EXCEPT !.at = "record", !.redo = NextLsn]]
    /\ UNCHANGED <<poolVars, mem, latch, fileVars, overtaken>>

(* log_checkpoint and the flush of the record, either of which can fail. *)
LogCheckpoint(t) ==
    /\ task[t].at = "record"
    /\ \/ /\ Len(log) < MaxLsn
          /\ log' = Append(log, NoPage)
          /\ flushed' = NextLsn
          /\ Goto(t, "scan")
       \/ /\ log' \in {log} \cup (IF Len(log) < MaxLsn THEN {Append(log, NoPage)} ELSE {})
          /\ flushed' = flushed
          /\ Return(t)
    /\ UNCHANGED <<poolVars, mem, latch, disk, synced, redo, next_page, overtaken>>

(* flush_all_pages_no_sync looks at the frames in turn. *)
ScanFrame(t) ==
    LET f == task[t].cursor IN
    /\ task[t].at = "scan"
    /\ f < NumFrames
    /\ task' = [task EXCEPT ![t] =
                   IF MustFlush(f) THEN [@ EXCEPT !.at = "flush", !.out = meta[f].page]
                   ELSE [@ EXCEPT !.cursor = f + 1]]
    /\ UNCHANGED <<poolVars, mem, latch, fileVars, overtaken>>

(* sync_data, then the superblock; a failure of the first ends the checkpoint. *)
CommitCheckpoint(t) ==
    /\ task[t].at = "scan"
    /\ task[t].cursor = NumFrames
    /\ \/ synced' = disk /\ redo' = task[t].redo
       \/ UNCHANGED <<synced, redo>>
    /\ Return(t)
    /\ UNCHANGED <<poolVars, mem, latch, disk, log, flushed, next_page, overtaken>>

(* A commit flushes the log. *)
FlushLog ==
    /\ flushed < Len(log)
    /\ flushed' = Len(log)
    /\ UNCHANGED <<poolVars, mem, latch, disk, synced, log, redo, next_page, task, overtaken>>

-----------------------------------------------------------------------------
(* A step that takes a frame for a page or for a flush, and the other steps of a call. *)
TakeFrame(t) == Reserve(t) \/ FlushPins(t)

AcquireFrame(t) == AcquireHit(t) \/ AcquireWait(t) \/ AcquireFails(t) \/ EvictDirty(t)

LoadAndGuard(t) ==
    Load(t) \/ FinishLoad(t) \/ Notify(t) \/ Latch(t) \/ Unlatch(t) \/ Unpin(t)

FlushPage(t) ==
    FlushSkips(t) \/ FlushCopies(t) \/ FlushForcesLog(t) \/ FlushWrites(t) \/ FlushUnpins(t)

Step(t) ==
    \/ AcquireFrame(t) \/ LoadAndGuard(t) \/ FlushPage(t)
    \/ LogCheckpoint(t) \/ ScanFrame(t) \/ CommitCheckpoint(t)

(* The calls of the pool, the log's other users. *)
Call ==
    \/ \E t \in Client : NewPage(t) \/ Write(t)
    \/ \E t \in Client, p \in Page, mode \in {"read", "write"} : Fetch(t, p, mode)
    \/ \E t \in Flusher : Checkpoint(t)
    \/ FlushLog

Next == (\E t \in Thread : Step(t) \/ TakeFrame(t)) \/ Call

Spec == Init /\ [][Next]_vars

-----------------------------------------------------------------------------
Steps ==
    {"idle", "acquire", "waiting", "load", "loaded", "notify", "latch", "guard", "unpin",
     "flush", "copy", "force", "write", "flushed", "record", "scan"}

(* The variables keep the shapes of the code's fields. *)
TypeOK ==
    /\ meta \in [Frame -> [page : Page \cup {NoPage}, pins : 0 .. PinModulus - 1,
                           dirty : BOOLEAN, loading : BOOLEAN]]
    /\ table \in [Page -> Frame \cup {NoFrame}]
    /\ free \in Seq(Frame)
    /\ clock \in [evictable : [Frame -> BOOLEAN], ref : [Frame -> BOOLEAN], hand : Frame]
    /\ mem \in [Frame -> Image]
    /\ latch \in [Frame -> [writer : Thread \cup {NoThread}, readers : SUBSET Thread]]
    /\ disk \in [Page -> Image] /\ synced \in [Page -> Image]
    /\ log \in Seq(Page \cup {NoPage}) /\ Len(log) <= MaxLsn
    /\ flushed \in 0 .. Len(log)
    /\ redo \in 0 .. MaxLsn + 1
    /\ next_page \in 0 .. NumPages
    /\ task \in [Thread ->
                   [at : Steps, mode : {"none", "read", "write", "new"},
                    page : Page \cup {NoPage}, frame : Frame \cup {NoFrame},
                    ok : BOOLEAN, dirty : BOOLEAN, out : Page \cup {NoPage},
                    buf : Image, cursor : 0 .. NumFrames, redo : 0 .. MaxLsn + 1]]

(***************************************************************************)
(* WAL-before-page (write_frame_to_disk): no page in the data file carries *)
(* an LSN that the log is not durable through, whoever wrote it and        *)
(* whatever went on with its frame in between.                             *)
(***************************************************************************)
WalBeforePage == \A p \in Page : disk[p].lsn <= flushed

Holds(t) ==
    \/ task[t].at \in {"load", "loaded", "latch", "guard", "unpin"}
    \/ task[t].at = "notify" /\ task[t].ok

(***************************************************************************)
(* "If the page is not in memory, it will be loaded from disk.  The        *)
(* returned `PageReadGuard` ensures the page remains pinned"               *)
(* (buffer_pool/manager.rs): while a guard is held the frame it reads and  *)
(* writes belongs to its page.                                             *)
(***************************************************************************)
PinnedFrameStays ==
    \A t \in Thread : task[t].at = "guard" => meta[task[t].frame].page = task[t].page

LastChange(p) ==
    LET L == {i \in 1 .. Len(log) : log[i] = p} IN
    IF L = {} THEN 0 ELSE CHOOSE i \in L : \A j \in L : j <= i

(***************************************************************************)
(* Through a guard one sees the page one asked for with every change made  *)
(* to it so far, however often it was evicted and loaded again, up to the  *)
(* first time a flush is overtaken.                                        *)
(***************************************************************************)
GuardSeesLatest ==
    \A t \in Thread :
        task[t].at = "guard" /\ ~overtaken =>
            mem[task[t].frame] = [page |-> task[t].page, lsn |-> LastChange(task[t].page)]

(***************************************************************************)
(* Only what is on disk counts as clean: the bytes of a loaded frame that  *)
(* is not marked dirty are those in the data file, unless a guard is about *)
(* to mark it, a flush is still writing it, or it was never changed.       *)
(* flush_page_inner clears the mark before it copies the bytes, so that a  *)
(* change made meanwhile marks the frame again.  It fails once a flush is  *)
(* overtaken by a second one, which can be the first to write.             *)
(***************************************************************************)
CleanIsOnDisk ==
    \A f \in Frame :
        \/ overtaken \/ meta[f].page = NoPage \/ meta[f].loading \/ meta[f].dirty
        \/ \E t \in Thread : task[t].frame = f /\ (task[t].dirty \/ Flushes(t))
        \/ LastChange(meta[f].page) = 0
        \/ mem[f] = disk[meta[f].page]

(***************************************************************************)
(* No frame is lost to the pool: it is free, evictable, pinned by a thread *)
(* that will unpin it, or the victim of a thread about to flush it; and    *)
(* the pin count is the number of pins.  It fails once a flush is          *)
(* overtaken: what the flush gives back is the pin of the frame's new page. *)
(***************************************************************************)
NoFrameLost ==
    overtaken \/ \A f \in Frame :
        LET pinners == {t \in Thread : task[t].frame = f /\ (Holds(t) \/ Flushes(t))} IN
        /\ meta[f].pins = Cardinality(pinners)
        /\ \/ \E i \in 1 .. Len(free) : free[i] = f
           \/ clock.evictable[f]
           \/ pinners # {}
           \/ \E t \in Thread : task[t].at = "flush" /\ task[t].out = meta[f].page

(***************************************************************************)
(* "Records below redo_point were already flushed + fsynced by the         *)
(* checkpoint" (recovery/mod.rs): every page in the synced data file has   *)
(* the changes logged below the redo point of the superblock.              *)
(***************************************************************************)
BelowRedoIsSynced ==
    \A i \in 1 .. Len(log) :
        i < redo /\ log[i] # NoPage =>
            synced[log[i]].page = log[i] /\ synced[log[i]].lsn >= i

(***************************************************************************)
(* No wake-up of load_done is lost, whether loads succeed or fail and      *)
(* whoever overtakes whom: while a thread sleeps, another one is loading a *)
(* page or about to notify.  finish_load clears `loading` and wakes every  *)
(* waiter only after it has dropped the mutex, so a thread can fall asleep *)
(* between two loads of the same frame.                                    *)
(***************************************************************************)
WakeupToCome ==
    (\E t \in Thread : task[t].at = "waiting") =>
        \E u \in Thread : task[u].at \in {"load", "loaded", "notify"}
=============================================================================
