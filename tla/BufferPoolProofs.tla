-------------------------- MODULE BufferPoolProofs --------------------------
(***************************************************************************)
(* Type correctness of the buffer pool and WAL-before-page, for every      *)
(* number of threads, frames, pages and log records.  PoolInv adds to the  *)
(* types which of its fields a call may rely on at each of its steps, and  *)
(* that what is about to be written is covered by the durable log: between *)
(* the flush of the log and the write of the page the bound is kept in the *)
(* thread's copy, not in the frame, which may have another owner by then.  *)
(***************************************************************************)
EXTENDS BufferPool, TLAPS

Task == [at : Steps, mode : {"none", "read", "write", "new"},
         page : Page \cup {NoPage}, frame : Frame \cup {NoFrame},
         ok : BOOLEAN, dirty : BOOLEAN, out : Page \cup {NoPage},
         buf : Image, cursor : 0 .. NumFrames, redo : 0 .. MaxLsn + 1]
Meta == [page : Page \cup {NoPage}, pins : 0 .. PinModulus - 1,
         dirty : BOOLEAN, loading : BOOLEAN]
Clock == [evictable : [Frame -> BOOLEAN], ref : [Frame -> BOOLEAN], hand : Frame]
RwLatch == [writer : Thread \cup {NoThread}, readers : SUBSET Thread]

FramesOK ==
    /\ meta \in [Frame -> Meta]
    /\ table \in [Page -> Frame \cup {NoFrame}]
    /\ free \in Seq(Frame)
    /\ clock \in Clock
FilesOK ==
    /\ disk \in [Page -> Image] /\ synced \in [Page -> Image]
    /\ log \in Seq(Page \cup {NoPage}) /\ Len(log) <= MaxLsn
    /\ flushed \in 0 .. Len(log)
    /\ redo \in 0 .. MaxLsn + 1
    /\ next_page \in 0 .. NumPages

(* The fields a call relies on at the step it has reached, the log being durable so far. *)
FieldsOK(c, durable) ==
    /\ c.at \in {"acquire", "waiting", "load", "loaded", "notify", "latch", "guard", "unpin"}
          => c.page \in Page
    /\ c.at \in {"load", "loaded", "notify", "latch", "guard", "unpin",
                 "copy", "force", "write", "flushed"} => c.frame \in Frame
    /\ c.at \in {"flush", "copy", "force", "write", "flushed"}
          => c.out \in Page /\ (c.page = NoPage => c.cursor < NumFrames)
    /\ c.at = "write" => c.buf.lsn <= durable

PoolInv ==
    /\ FramesOK /\ FilesOK
    /\ mem \in [Frame -> Image]
    /\ latch \in [Frame -> RwLatch]
    /\ task \in [Thread -> Task]
    /\ \A t \in Thread : FieldsOK(task[t], flushed)
    /\ WalBeforePage

-----------------------------------------------------------------------------
(* The conjuncts of TypeOK, by name. *)
LEMMA TypeOKParts ==
    PoolInv => TypeOK
BY DEF PoolInv, FramesOK, FilesOK, TypeOK, Task, Meta, Clock, RwLatch

(* The clock only ever points at frames. *)
LEMMA PositionIsFrame ==
    ASSUME FramesOK, NEW k \in Nat
    PROVE  Position(k) \in Frame
<1>1. clock.hand \in Nat /\ NumFrames \in Nat /\ NumFrames > 0
  BY PoolAssumption DEF FramesOK, Clock, Frame
<1> QED
  BY <1>1 DEF Position, Frame

(* Telling the replacer of a pin or an unpin keeps its shape. *)
LEMMA ClockKept ==
    ASSUME NEW c \in Clock, NEW f \in Frame
    PROVE  ClockPin(c, f) \in Clock /\ ClockUnpin(c, f) \in Clock
BY DEF ClockPin, ClockUnpin, Clock

(* What find_victim_frame_id returns is a frame, and it leaves a free list and a clock. *)
LEMMA VictimIsFrame ==
    ASSUME FramesOK, NEW v \in Victims
    PROVE  v.frame \in Frame /\ v.free \in Seq(Frame) /\ v.clock \in Clock
<1>1. CASE free # <<>>
  <2>1. Len(free) \in Nat \ {0} /\ free[Len(free)] \in Frame
    BY <1>1 DEF FramesOK
  <2>2. SubSeq(free, 1, Len(free) - 1) \in Seq(Frame)
    BY <2>1 DEF FramesOK
  <2> QED
    BY <1>1, <2>1, <2>2 DEF Victims, FramesOK
<1>2. CASE free = <<>>
  <2>1. PICK k \in Searched :
           v = [frame |-> Position(k), free |-> free, clock |-> ClockAfter(k)]
    BY <1>2 DEF Victims
  <2>2. k \in Nat /\ k + 1 \in Nat
    BY PoolAssumption DEF Searched
  <2>3. Position(k) \in Frame /\ Position(k + 1) \in Frame
    BY <2>2, PositionIsFrame
  <2>4. ClockAfter(k) \in Clock
    <3>1. clock.evictable \in [Frame -> BOOLEAN] /\ clock.ref \in [Frame -> BOOLEAN]
      BY DEF FramesOK, Clock
    <3>2. [clock.evictable EXCEPT ![Position(k)] = FALSE] \in [Frame -> BOOLEAN]
      BY <3>1, <2>3
    <3> QED
      BY <2>3, <3>1, <3>2 DEF ClockAfter, Clock
  <2> QED
    BY <2>1, <2>3, <2>4 DEF FramesOK
<1> QED
  BY <1>1, <1>2

(* A step of one thread that gives its call a well-formed state and moves the durable end
   of the log only forwards leaves every call well formed. *)
LEMMA TaskStep ==
    ASSUME PoolInv, NEW t \in Thread, NEW c \in Task,
           flushed' \in Nat, flushed <= flushed',
           task' = [task EXCEPT ![t] = c], FieldsOK(c, flushed')
    PROVE  /\ task' \in [Thread -> Task]
           /\ \A u \in Thread : FieldsOK(task'[u], flushed')
<1>1. task' \in [Thread -> Task]
  BY DEF PoolInv
<1>2. ASSUME NEW u \in Thread PROVE FieldsOK(task'[u], flushed')
  <2>1. CASE u = t
    BY <2>1 DEF PoolInv
  <2>2. CASE u # t
    <3>1. task'[u] = task[u] /\ task[u] \in Task /\ FieldsOK(task[u], flushed)
      BY <2>2 DEF PoolInv
    <3>2. task[u].buf.lsn \in Int /\ flushed \in Int
      BY <3>1 DEF Task, Image, PoolInv, FilesOK
    <3> QED
      BY <3>1, <3>2 DEF FieldsOK
  <2> QED
    BY <2>1, <2>2
<1> QED
  BY <1>1, <1>2

(* Idle is well formed, and so is a call that goes back to the loop it was made from. *)
LEMMA IdleOK ==
    Idle \in Task /\ \A n \in Nat : FieldsOK(Idle, n)
BY PoolAssumption DEF Idle, Task, FieldsOK, Steps, Image, Blank, NoPage, NoFrame

(* Returning from a flush: to acquire_frame with the page asked for, or on with the scan. *)
LEMMA FlushReturnsOK ==
    ASSUME PoolInv, NEW t \in Thread, FlushReturns(t), UNCHANGED flushed,
           task[t].at \in {"flush", "flushed"}
    PROVE  /\ task' \in [Thread -> Task]
           /\ \A u \in Thread : FieldsOK(task'[u], flushed')
<1> DEFINE c == IF task[t].page # NoPage
                THEN [Idle EXCEPT !.at = "acquire", !.mode = task[t].mode, !.page = task[t].page]
                ELSE [Idle EXCEPT !.at = "scan", !.cursor = task[t].cursor + 1,
                                  !.redo = task[t].redo]
<1>1. task[t] \in Task /\ FieldsOK(task[t], flushed) /\ flushed \in Nat
  BY DEF PoolInv, FilesOK
<1>2. c \in Task /\ FieldsOK(c, flushed)
  <2>1. CASE task[t].page # NoPage
    BY <1>1, <2>1, IdleOK DEF Task, FieldsOK, Steps, Idle
  <2>2. CASE task[t].page = NoPage
    <3>1. task[t].cursor + 1 \in 0 .. NumFrames
      BY <1>1, <2>2, PoolAssumption DEF Task, FieldsOK
    <3>2. c = [Idle EXCEPT !.at = "scan", !.cursor = task[t].cursor + 1, !.redo = task[t].redo]
      BY <2>2
    <3>3. c \in Task /\ c.at = "scan"
      BY <1>1, <3>1, <3>2, IdleOK DEF Task, Steps
    <3> HIDE DEF c
    <3> QED
      BY <3>3 DEF FieldsOK
  <2> QED
    BY <2>1, <2>2
<1>3. task' = [task EXCEPT ![t] = c]
  BY DEF FlushReturns
<1>4. flushed' \in Nat /\ flushed <= flushed' /\ FieldsOK(c, flushed')
  BY <1>1, <1>2
<1> HIDE DEF c
<1> QED
  BY <1>2, <1>3, <1>4, TaskStep

(* What a step leaves of the invariant when it changes calls and nothing else. *)
LEMMA OnlyTask ==
    ASSUME PoolInv, UNCHANGED <<poolVars, mem, latch, fileVars>>,
           task' \in [Thread -> Task], \A u \in Thread : FieldsOK(task'[u], flushed')
    PROVE  PoolInv'
BY DEF PoolInv, FramesOK, FilesOK, WalBeforePage, poolVars, fileVars

(* A call of fetch_page or fetch_page_mut starts. *)
LEMMA FetchOK ==
    ASSUME PoolInv, NEW t \in Thread, NEW p \in Page, NEW mode \in {"read", "write"}, Fetch(t, p, mode)
    PROVE  PoolInv'
<1> DEFINE c == [Idle EXCEPT !.at = "acquire", !.mode = mode, !.page = p]
<1>1. task[t] \in Task /\ FieldsOK(task[t], flushed) /\ flushed \in Nat
  BY DEF PoolInv, FilesOK
<1>2. task' = [task EXCEPT ![t] = c] /\ UNCHANGED <<poolVars, mem, latch, fileVars>>
  BY DEF Fetch, Goto, Return, PoolInv
<1>3. c \in Task /\ FieldsOK(c, flushed)
  BY <1>1, IdleOK DEF Fetch, Task, FieldsOK, Steps, Idle
<1>4. flushed' = flushed /\ flushed' \in Nat /\ flushed <= flushed'
  BY <1>1, <1>2 DEF fileVars
<1>5. FieldsOK(c, flushed')
  BY <1>3, <1>4
<1> HIDE DEF c
<1>6. task' \in [Thread -> Task] /\ \A u \in Thread : FieldsOK(task'[u], flushed')
  BY <1>2, <1>3, <1>4, <1>5, TaskStep
<1> QED
  BY <1>2, <1>6, OnlyTask

(* A thread goes to sleep on load_done. *)
LEMMA AcquireWaitOK ==
    ASSUME PoolInv, NEW t \in Thread, AcquireWait(t)
    PROVE  PoolInv'
<1> DEFINE c == [task[t] EXCEPT !.at = "waiting"]
<1>1. task[t] \in Task /\ FieldsOK(task[t], flushed) /\ flushed \in Nat
  BY DEF PoolInv, FilesOK
<1>2. task' = [task EXCEPT ![t] = c] /\ UNCHANGED <<poolVars, mem, latch, fileVars>>
  BY DEF AcquireWait, Goto, Return, PoolInv
<1>3. c \in Task /\ FieldsOK(c, flushed)
  BY <1>1, IdleOK DEF AcquireWait, Task, FieldsOK, Steps
<1>4. flushed' = flushed /\ flushed' \in Nat /\ flushed <= flushed'
  BY <1>1, <1>2 DEF fileVars
<1>5. FieldsOK(c, flushed')
  BY <1>3, <1>4
<1> HIDE DEF c
<1>6. task' \in [Thread -> Task] /\ \A u \in Thread : FieldsOK(task'[u], flushed')
  BY <1>2, <1>3, <1>4, <1>5, TaskStep
<1> QED
  BY <1>2, <1>6, OnlyTask

(* No frame can be evicted and the call fails. *)
LEMMA AcquireFailsOK ==
    ASSUME PoolInv, NEW t \in Thread, AcquireFails(t)
    PROVE  PoolInv'
<1> DEFINE c == Idle
<1>1. task[t] \in Task /\ FieldsOK(task[t], flushed) /\ flushed \in Nat
  BY DEF PoolInv, FilesOK
<1>2. task' = [task EXCEPT ![t] = c] /\ UNCHANGED <<poolVars, mem, latch, fileVars>>
  BY DEF AcquireFails, Goto, Return, PoolInv
<1>3. c \in Task /\ FieldsOK(c, flushed)
  BY <1>1, IdleOK DEF AcquireFails, Task, FieldsOK, Steps
<1>4. flushed' = flushed /\ flushed' \in Nat /\ flushed <= flushed'
  BY <1>1, <1>2 DEF fileVars
<1>5. FieldsOK(c, flushed')
  BY <1>3, <1>4
<1> HIDE DEF c
<1>6. task' \in [Thread -> Task] /\ \A u \in Thread : FieldsOK(task'[u], flushed')
  BY <1>2, <1>3, <1>4, <1>5, TaskStep
<1> QED
  BY <1>2, <1>6, OnlyTask

(* The bytes of the frame are copied. *)
LEMMA FlushCopiesOK ==
    ASSUME PoolInv, NEW t \in Thread, FlushCopies(t)
    PROVE  PoolInv'
<1> DEFINE c == [task[t] EXCEPT !.at = "force", !.buf = mem[task[t].frame]]
<1>1. task[t] \in Task /\ FieldsOK(task[t], flushed) /\ flushed \in Nat
  BY DEF PoolInv, FilesOK
<1>2. task' = [task EXCEPT ![t] = c] /\ UNCHANGED <<poolVars, mem, latch, fileVars>>
  BY DEF FlushCopies, Goto, Return, PoolInv
<1>3. c \in Task /\ FieldsOK(c, flushed)
  BY <1>1, IdleOK DEF FlushCopies, Task, FieldsOK, Steps, PoolInv
<1>4. flushed' = flushed /\ flushed' \in Nat /\ flushed <= flushed'
  BY <1>1, <1>2 DEF fileVars
<1>5. FieldsOK(c, flushed')
  BY <1>3, <1>4
<1> HIDE DEF c
<1>6. task' \in [Thread -> Task] /\ \A u \in Thread : FieldsOK(task'[u], flushed')
  BY <1>2, <1>3, <1>4, <1>5, TaskStep
<1> QED
  BY <1>2, <1>6, OnlyTask

(* The LSN the log gives out next fits the type of a redo point. *)
LEMMA NextLsnOK ==
    ASSUME PoolInv
    PROVE  NextLsn \in 0 .. MaxLsn + 1
<1>1. Len(log) \in Nat /\ Len(log) <= MaxLsn
  BY DEF PoolInv, FilesOK
<1> QED
  BY <1>1, PoolAssumption DEF NextLsn

(* A checkpoint takes its redo point. *)
LEMMA CheckpointOK ==
    ASSUME PoolInv, NEW t \in Thread, Checkpoint(t)
    PROVE  PoolInv'
<1> DEFINE c == [Idle EXCEPT !.at = "record", !.redo = NextLsn]
<1>1. task[t] \in Task /\ FieldsOK(task[t], flushed) /\ flushed \in Nat
  BY DEF PoolInv, FilesOK
<1>2. task' = [task EXCEPT ![t] = c] /\ UNCHANGED <<poolVars, mem, latch, fileVars>>
  BY DEF Checkpoint, Goto, Return, PoolInv
<1>3. c \in Task /\ FieldsOK(c, flushed)
  BY <1>1, IdleOK, NextLsnOK, PoolAssumption DEF Checkpoint, Task, FieldsOK, Steps, Idle
<1>4. flushed' = flushed /\ flushed' \in Nat /\ flushed <= flushed'
  BY <1>1, <1>2 DEF fileVars
<1>5. FieldsOK(c, flushed')
  BY <1>3, <1>4
<1> HIDE DEF c
<1>6. task' \in [Thread -> Task] /\ \A u \in Thread : FieldsOK(task'[u], flushed')
  BY <1>2, <1>3, <1>4, <1>5, TaskStep
<1> QED
  BY <1>2, <1>6, OnlyTask

(* The scan of a checkpoint moves on or finds a page to flush. *)
LEMMA ScanFrameOK ==
    ASSUME PoolInv, NEW t \in Thread, ScanFrame(t)
    PROVE  PoolInv'
<1> DEFINE f == task[t].cursor
           c == IF MustFlush(f) THEN [task[t] EXCEPT !.at = "flush", !.out = meta[f].page]
                ELSE [task[t] EXCEPT !.cursor = f + 1]
<1>1. task[t] \in Task /\ FieldsOK(task[t], flushed) /\ flushed \in Nat
  BY DEF PoolInv, FilesOK
<1>2. task' = [task EXCEPT ![t] = c] /\ UNCHANGED <<poolVars, mem, latch, fileVars>>
  BY DEF ScanFrame
<1>3. f \in Frame /\ meta[f] \in Meta /\ f + 1 \in 0 .. NumFrames
  BY <1>1, PoolAssumption DEF ScanFrame, Frame, Task, PoolInv, FramesOK
<1>4. c \in Task /\ FieldsOK(c, flushed)
  <2>1. CASE MustFlush(f)
    BY <1>1, <1>3, <2>1 DEF Task, FieldsOK, Steps, Meta, MustFlush, ScanFrame
  <2>2. CASE ~MustFlush(f)
    <3>1. c = [task[t] EXCEPT !.cursor = f + 1]
      BY <2>2
    <3>2. c \in Task /\ c.at = "scan"
      BY <1>1, <1>3, <3>1 DEF Task, ScanFrame
    <3> HIDE DEF c
    <3> QED
      BY <3>2 DEF FieldsOK
  <2> QED
    BY <2>1, <2>2
<1>5. flushed' = flushed /\ flushed' \in Nat /\ flushed <= flushed'
  BY <1>1, <1>2 DEF fileVars
<1>6. FieldsOK(c, flushed')
  BY <1>4, <1>5
<1> HIDE DEF c
<1>7. task' \in [Thread -> Task] /\ \A u \in Thread : FieldsOK(task'[u], flushed')
  BY <1>2, <1>4, <1>5, <1>6, TaskStep
<1> QED
  BY <1>2, <1>7, OnlyTask

(* A flush that finds nothing to do returns. *)
LEMMA FlushSkipsOK ==
    ASSUME PoolInv, NEW t \in Thread, FlushSkips(t)
    PROVE  PoolInv'
<1>1. UNCHANGED flushed /\ task[t].at \in {"flush", "flushed"}
  BY DEF FlushSkips, fileVars
<1>2. task' \in [Thread -> Task] /\ \A u \in Thread : FieldsOK(task'[u], flushed')
  BY <1>1, FlushReturnsOK DEF FlushSkips
<1> QED
  BY <1>2, OnlyTask DEF FlushSkips

(* finish_load wakes the sleepers; they look at the page table again. *)
LEMMA NotifyOK ==
    ASSUME PoolInv, NEW t \in Thread, Notify(t)
    PROVE  PoolInv'
<1>1. ASSUME NEW u \in Thread
      PROVE  task'[u] \in Task /\ FieldsOK(task'[u], flushed')
  <2>1. task[u] \in Task /\ FieldsOK(task[u], flushed) /\ flushed \in Nat /\ flushed' = flushed
    BY DEF PoolInv, FilesOK, Notify, fileVars
  <2>2. CASE task'[u] = Idle
    BY <2>1, <2>2, IdleOK
  <2>3. CASE u = t /\ task'[u] = [task[t] EXCEPT !.at = IF task[t].mode = "read" THEN "latch"
                                                        ELSE "guard"]
    BY <2>1, <2>3 DEF Notify, Task, FieldsOK, Steps
  <2>4. CASE task[u].at = "waiting" /\ task'[u] = [task[u] EXCEPT !.at = "acquire"]
    BY <2>1, <2>4 DEF Task, FieldsOK, Steps
  <2>5. CASE task'[u] = task[u]
    BY <2>1, <2>5
  <2>6. \/ task'[u] = Idle
        \/ u = t /\ task'[u] = [task[t] EXCEPT !.at = IF task[t].mode = "read" THEN "latch"
                                                     ELSE "guard"]
        \/ task[u].at = "waiting" /\ task'[u] = [task[u] EXCEPT !.at = "acquire"]
        \/ task'[u] = task[u]
    BY DEF Notify
  <2> QED
    BY <2>2, <2>3, <2>4, <2>5, <2>6
<1>2. task' \in [Thread -> Task]
  <2>1. task' = [u \in Thread |-> task'[u]]
    BY DEF Notify
  <2> QED
    BY <1>1, <2>1
<1> QED
  BY <1>1, <1>2, OnlyTask DEF Notify

(* What a step leaves alone. *)
LEMMA Untouched ==
    ASSUME PoolInv
    PROVE  /\ UNCHANGED poolVars => FramesOK'
           /\ UNCHANGED fileVars => FilesOK' /\ WalBeforePage'
           /\ UNCHANGED mem => (mem \in [Frame -> Image])'
           /\ UNCHANGED latch => (latch \in [Frame -> RwLatch])'
BY DEF PoolInv, FramesOK, FilesOK, WalBeforePage, poolVars, fileVars

(* The parts of the invariant, put together again. *)
LEMMA Together ==
    ASSUME FramesOK', FilesOK', WalBeforePage', (mem \in [Frame -> Image])',
           (latch \in [Frame -> RwLatch])', task' \in [Thread -> Task],
           \A u \in Thread : FieldsOK(task'[u], flushed')
    PROVE  PoolInv'
BY DEF PoolInv

(* new_page takes the next id. *)
LEMMA NewPageOK ==
    ASSUME PoolInv, NEW t \in Thread, NewPage(t)
    PROVE  PoolInv'
<1>1. task[t] \in Task /\ FieldsOK(task[t], flushed) /\ flushed \in Nat
  BY DEF PoolInv, FilesOK
<1>p. next_page \in Page
  BY PoolAssumption DEF NewPage, Page, PoolInv, FilesOK
<1>2. flushed' \in Nat /\ flushed <= flushed'
  BY <1>1 DEF NewPage
<1>3. PICK c \in Task : task' = [task EXCEPT ![t] = c] /\ FieldsOK(c, flushed')
  <2> DEFINE c == [Idle EXCEPT !.at = "acquire", !.mode = "new", !.page = next_page]
  <2>1. c \in Task /\ FieldsOK(c, flushed')
    BY <1>1, <1>2, IdleOK, <1>p DEF NewPage, Task, FieldsOK, Steps, Idle
  <2>2. task' = [task EXCEPT ![t] = c]
    BY DEF NewPage, Goto, Return, PoolInv
  <2> QED
    BY <2>1, <2>2
<1>4. task' \in [Thread -> Task] /\ \A u \in Thread : FieldsOK(task'[u], flushed')
  BY <1>2, <1>3, TaskStep
<1>5. FramesOK'
  BY Untouched DEF NewPage
<1>6. FilesOK' /\ WalBeforePage'
  BY PoolAssumption DEF NewPage, PoolInv, FilesOK, WalBeforePage
<1>7. (mem \in [Frame -> Image])'
  BY Untouched DEF NewPage
<1>8. (latch \in [Frame -> RwLatch])'
  BY Untouched DEF NewPage
<1> QED
  BY <1>4, <1>5, <1>6, <1>7, <1>8, Together

(* The page is in a frame, which is pinned. *)
LEMMA AcquireHitOK ==
    ASSUME PoolInv, NEW t \in Thread, AcquireHit(t)
    PROVE  PoolInv'
<1>1. task[t] \in Task /\ FieldsOK(task[t], flushed) /\ flushed \in Nat
  BY DEF PoolInv, FilesOK
<1>f. table[task[t].page] \in Frame /\ meta[table[task[t].page]] \in Meta
  BY <1>1 DEF AcquireHit, FieldsOK, PoolInv, FramesOK
<1>2. flushed' \in Nat /\ flushed <= flushed'
  BY <1>1 DEF AcquireHit, fileVars
<1>3. PICK c \in Task : task' = [task EXCEPT ![t] = c] /\ FieldsOK(c, flushed')
  <2> DEFINE c == [task[t] EXCEPT !.at = IF task[t].mode = "new" THEN "load" ELSE "latch",
                                   !.frame = table[task[t].page]]
  <2>1. c \in Task /\ FieldsOK(c, flushed')
    BY <1>1, <1>2, IdleOK, <1>f DEF AcquireHit, Task, FieldsOK, Steps
  <2>2. task' = [task EXCEPT ![t] = c]
    BY DEF AcquireHit, Goto, Return, PoolInv
  <2> QED
    BY <2>1, <2>2
<1>4. task' \in [Thread -> Task] /\ \A u \in Thread : FieldsOK(task'[u], flushed')
  BY <1>2, <1>3, TaskStep
<1>5. FramesOK'
  <2> DEFINE f == table[task[t].page]
  <2>1. (meta[f].pins + 1) % PinModulus \in 0 .. PinModulus - 1
    BY <1>f, PoolAssumption DEF Meta
  <2>2. meta' = [meta EXCEPT ![f] = [meta[f] EXCEPT !.pins = (meta[f].pins + 1) % PinModulus]]
    BY DEF AcquireHit, PoolInv, FramesOK
  <2>3. [meta[f] EXCEPT !.pins = (meta[f].pins + 1) % PinModulus] \in Meta
    BY <1>f, <2>1 DEF Meta
  <2>4. clock' \in Clock
    BY <1>f, ClockKept DEF AcquireHit, PoolInv, FramesOK
  <2> QED
    BY <1>f, <2>2, <2>3, <2>4 DEF AcquireHit, PoolInv, FramesOK
<1>6. FilesOK' /\ WalBeforePage'
  BY Untouched DEF AcquireHit
<1>7. (mem \in [Frame -> Image])'
  BY Untouched DEF AcquireHit
<1>8. (latch \in [Frame -> RwLatch])'
  BY Untouched DEF AcquireHit
<1> QED
  BY <1>4, <1>5, <1>6, <1>7, <1>8, Together

(* A dirty victim is to be flushed first. *)
LEMMA EvictDirtyOK ==
    ASSUME PoolInv, NEW t \in Thread, EvictDirty(t)
    PROVE  PoolInv'
<1>1. task[t] \in Task /\ FieldsOK(task[t], flushed) /\ flushed \in Nat
  BY DEF PoolInv, FilesOK
<1>2. flushed' \in Nat /\ flushed <= flushed'
  BY <1>1 DEF EvictDirty, fileVars
<1>3. PICK c \in Task : task' = [task EXCEPT ![t] = c] /\ FieldsOK(c, flushed')
  <2>1. PICK v \in Victims :
           /\ MustFlush(v.frame)
           /\ task' = [task EXCEPT ![t].at = "flush", ![t].out = meta[v.frame].page]
    BY DEF EvictDirty
  <2>2. v.frame \in Frame
    BY VictimIsFrame DEF PoolInv
  <2>3. meta[v.frame].page \in Page /\ task[t].page \in Page
    BY <1>1, <2>1, <2>2 DEF MustFlush, PoolInv, FramesOK, Meta, EvictDirty, FieldsOK
  <2>4. task[t].page # NoPage
    BY <2>3 DEF NoPage, Page
  <2> DEFINE c == [task[t] EXCEPT !.at = "flush", !.out = meta[v.frame].page]
  <2>5. c \in Task /\ FieldsOK(c, flushed')
    BY <1>1, <2>3, <2>4 DEF Task, FieldsOK, Steps
  <2>6. task' = [task EXCEPT ![t] = c]
    BY <2>1 DEF PoolInv
  <2> QED
    BY <2>5, <2>6
<1>4. task' \in [Thread -> Task] /\ \A u \in Thread : FieldsOK(task'[u], flushed')
  BY <1>2, <1>3, TaskStep
<1>5. FramesOK'
  <2>1. PICK v \in Victims : free' = v.free /\ clock' = v.clock
    BY DEF EvictDirty
  <2>2. v.free \in Seq(Frame) /\ v.clock \in Clock
    BY VictimIsFrame DEF PoolInv
  <2> QED
    BY <2>1, <2>2 DEF EvictDirty, PoolInv, FramesOK
<1>6. FilesOK' /\ WalBeforePage'
  BY Untouched DEF EvictDirty
<1>7. (mem \in [Frame -> Image])'
  BY Untouched DEF EvictDirty
<1>8. (latch \in [Frame -> RwLatch])'
  BY Untouched DEF EvictDirty
<1> QED
  BY <1>4, <1>5, <1>6, <1>7, <1>8, Together

(* The frame of a clean victim gets the new page. *)
LEMMA ReserveOK ==
    ASSUME PoolInv, NEW t \in Thread, Reserve(t)
    PROVE  PoolInv'
<1>1. task[t] \in Task /\ FieldsOK(task[t], flushed) /\ flushed \in Nat
  BY DEF PoolInv, FilesOK
<1>2. flushed' \in Nat /\ flushed <= flushed'
  BY <1>1 DEF Reserve, fileVars
<1>3. PICK c \in Task : task' = [task EXCEPT ![t] = c] /\ FieldsOK(c, flushed')
  <2>1. PICK v \in Victims : task' = [task EXCEPT ![t].at = "load", ![t].frame = v.frame]
    BY DEF Reserve
  <2>2. v.frame \in Frame
    BY VictimIsFrame DEF PoolInv
  <2> DEFINE c == [task[t] EXCEPT !.at = "load", !.frame = v.frame]
  <2>3. c \in Task /\ FieldsOK(c, flushed')
    BY <1>1, <2>2 DEF Reserve, Task, FieldsOK, Steps
  <2>4. task' = [task EXCEPT ![t] = c]
    BY <2>1 DEF PoolInv
  <2> QED
    BY <2>3, <2>4
<1>4. task' \in [Thread -> Task] /\ \A u \in Thread : FieldsOK(task'[u], flushed')
  BY <1>2, <1>3, TaskStep
<1>5. FramesOK'
  <2>1. PICK v \in Victims :
           /\ free' = v.free /\ clock' = ClockPin(v.clock, v.frame)
           /\ table' = [p \in Page |-> CASE p = task[t].page -> v.frame
                                       [] p # task[t].page /\ p = meta[v.frame].page -> NoFrame
                                       [] OTHER -> table[p]]
           /\ meta' = [meta EXCEPT ![v.frame] = [page |-> task[t].page, pins |-> 1,
                                                 dirty |-> FALSE, loading |-> TRUE]]
    BY DEF Reserve
  <2>2. v.frame \in Frame /\ v.free \in Seq(Frame) /\ v.clock \in Clock
    BY VictimIsFrame DEF PoolInv
  <2>3. clock' \in Clock /\ free' \in Seq(Frame)
    BY <2>1, <2>2, ClockKept
  <2>4. table' \in [Page -> Frame \cup {NoFrame}]
    BY <2>1, <2>2 DEF PoolInv, FramesOK
  <2>5. [page |-> task[t].page, pins |-> 1, dirty |-> FALSE, loading |-> TRUE] \in Meta
    BY <1>1, PoolAssumption DEF Meta, Reserve, FieldsOK
  <2> QED
    BY <2>1, <2>2, <2>3, <2>4, <2>5 DEF PoolInv, FramesOK
<1>6. FilesOK' /\ WalBeforePage'
  BY Untouched DEF Reserve
<1>7. (mem \in [Frame -> Image])'
  BY Untouched DEF Reserve
<1>8. (latch \in [Frame -> RwLatch])'
  BY Untouched DEF Reserve
<1> QED
  BY <1>4, <1>5, <1>6, <1>7, <1>8, Together

(* The frame is filled under its write latch. *)
LEMMA LoadOK ==
    ASSUME PoolInv, NEW t \in Thread, Load(t)
    PROVE  PoolInv'
<1>1. task[t] \in Task /\ FieldsOK(task[t], flushed) /\ flushed \in Nat
  BY DEF PoolInv, FilesOK
<1>f. task[t].frame \in Frame /\ meta[task[t].frame] \in Meta
  BY <1>1 DEF Load, FieldsOK, PoolInv, FramesOK
<1>2. flushed' \in Nat /\ flushed <= flushed'
  BY <1>1 DEF Load, fileVars
<1>3. PICK c \in Task : task' = [task EXCEPT ![t] = c] /\ FieldsOK(c, flushed')
  <2>1. PICK ok \in BOOLEAN : task' = [task EXCEPT ![t].at = "loaded", ![t].ok = ok]
    BY DEF Load
  <2> DEFINE c == [task[t] EXCEPT !.at = "loaded", !.ok = ok]
  <2>2. c \in Task /\ FieldsOK(c, flushed')
    BY <1>1 DEF Load, Task, FieldsOK, Steps
  <2>3. task' = [task EXCEPT ![t] = c]
    BY <2>1 DEF PoolInv
  <2> QED
    BY <2>2, <2>3
<1>4. task' \in [Thread -> Task] /\ \A u \in Thread : FieldsOK(task'[u], flushed')
  BY <1>2, <1>3, TaskStep
<1>5. FramesOK'
  BY Untouched DEF Load
<1>6. FilesOK' /\ WalBeforePage'
  BY Untouched DEF Load
<1>7. (mem \in [Frame -> Image])'
  <2>1. PICK image \in {Blank, [page |-> task[t].page, lsn |-> 0], disk[task[t].page]} :
           mem' = [mem EXCEPT ![task[t].frame] = image]
    BY DEF Load
  <2>2. image \in Image
    BY <1>1, <2>1, PoolAssumption DEF Load, FieldsOK, Image, Blank, PoolInv, FilesOK
  <2> QED
    BY <1>f, <2>1, <2>2 DEF PoolInv
<1>8. (latch \in [Frame -> RwLatch])'
  <2>1. latch' = latch \/ latch' = [latch EXCEPT ![task[t].frame].writer = t]
    BY DEF Load
  <2> QED
    BY <1>f, <2>1 DEF PoolInv, RwLatch
<1> QED
  BY <1>4, <1>5, <1>6, <1>7, <1>8, Together

(* The load is published, or the frame given back. *)
LEMMA FinishLoadOK ==
    ASSUME PoolInv, NEW t \in Thread, FinishLoad(t)
    PROVE  PoolInv'
<1>1. task[t] \in Task /\ FieldsOK(task[t], flushed) /\ flushed \in Nat
  BY DEF PoolInv, FilesOK
<1>f. task[t].frame \in Frame /\ meta[task[t].frame] \in Meta
  BY <1>1 DEF FinishLoad, FieldsOK, PoolInv, FramesOK
<1>2. flushed' \in Nat /\ flushed <= flushed'
  BY <1>1 DEF FinishLoad, fileVars
<1>3. PICK c \in Task : task' = [task EXCEPT ![t] = c] /\ FieldsOK(c, flushed')
  <2> DEFINE c == [task[t] EXCEPT !.at = "notify"]
  <2>1. c \in Task /\ FieldsOK(c, flushed')
    BY <1>1, <1>2, IdleOK DEF FinishLoad, Task, FieldsOK, Steps
  <2>2. task' = [task EXCEPT ![t] = c]
    BY DEF FinishLoad, Goto, Return, PoolInv
  <2> QED
    BY <2>1, <2>2
<1>4. task' \in [Thread -> Task] /\ \A u \in Thread : FieldsOK(task'[u], flushed')
  BY <1>2, <1>3, TaskStep
<1>5. FramesOK'
  <2>1. CASE meta' = [meta EXCEPT ![task[t].frame].loading = FALSE] /\ UNCHANGED <<table, free, clock>>
    <3>1. [meta[task[t].frame] EXCEPT !.loading = FALSE] \in Meta
      BY <1>f DEF Meta
    <3>2. meta' = [meta EXCEPT ![task[t].frame] = [meta[task[t].frame] EXCEPT !.loading = FALSE]]
      BY <2>1 DEF PoolInv, FramesOK
    <3> QED
      BY <1>f, <2>1, <3>1, <3>2 DEF PoolInv, FramesOK
  <2>2. CASE /\ meta' = [meta EXCEPT ![task[t].frame] = Empty]
             /\ table' = [table EXCEPT ![task[t].page] = NoFrame]
             /\ clock' = ClockPin(clock, task[t].frame)
             /\ free' = Append(free, task[t].frame)
    <3>1. Empty \in Meta
      BY PoolAssumption DEF Empty, Meta
    <3>2. clock' \in Clock
      BY <1>f, <2>2, ClockKept DEF PoolInv, FramesOK
    <3>3. free' \in Seq(Frame)
      BY <1>f, <2>2 DEF PoolInv, FramesOK
    <3> QED
      BY <1>f, <2>2, <3>1, <3>2, <3>3 DEF PoolInv, FramesOK
  <2> QED
    BY <2>1, <2>2 DEF FinishLoad
<1>6. FilesOK' /\ WalBeforePage'
  BY Untouched DEF FinishLoad
<1>7. (mem \in [Frame -> Image])'
  BY Untouched DEF FinishLoad
<1>8. (latch \in [Frame -> RwLatch])'
  BY Untouched DEF FinishLoad
<1> QED
  BY <1>4, <1>5, <1>6, <1>7, <1>8, Together

(* A guard takes the latch of its frame. *)
LEMMA LatchOK ==
    ASSUME PoolInv, NEW t \in Thread, Latch(t)
    PROVE  PoolInv'
<1>1. task[t] \in Task /\ FieldsOK(task[t], flushed) /\ flushed \in Nat
  BY DEF PoolInv, FilesOK
<1>f. task[t].frame \in Frame /\ meta[task[t].frame] \in Meta
  BY <1>1 DEF Latch, FieldsOK, PoolInv, FramesOK
<1>2. flushed' \in Nat /\ flushed <= flushed'
  BY <1>1 DEF Latch, fileVars
<1>3. PICK c \in Task : task' = [task EXCEPT ![t] = c] /\ FieldsOK(c, flushed')
  <2> DEFINE c == [task[t] EXCEPT !.at = "guard"]
  <2>1. c \in Task /\ FieldsOK(c, flushed')
    BY <1>1, <1>2, IdleOK DEF Latch, Task, FieldsOK, Steps
  <2>2. task' = [task EXCEPT ![t] = c]
    BY DEF Latch, Goto, Return, PoolInv
  <2> QED
    BY <2>1, <2>2
<1>4. task' \in [Thread -> Task] /\ \A u \in Thread : FieldsOK(task'[u], flushed')
  BY <1>2, <1>3, TaskStep
<1>5. FramesOK'
  BY Untouched DEF Latch
<1>6. FilesOK' /\ WalBeforePage'
  BY Untouched DEF Latch
<1>7. (mem \in [Frame -> Image])'
  BY Untouched DEF Latch
<1>8. (latch \in [Frame -> RwLatch])'
  <2>1. latch[task[t].frame] \in RwLatch
    BY <1>f DEF PoolInv
  <2>2. \/ latch' = [latch EXCEPT ![task[t].frame] =
                        [latch[task[t].frame] EXCEPT !.readers = @ \cup {t}]]
        \/ latch' = [latch EXCEPT ![task[t].frame] =
                        [latch[task[t].frame] EXCEPT !.writer = t]]
    BY DEF Latch, PoolInv
  <2> QED
    BY <1>f, <2>1, <2>2 DEF PoolInv, RwLatch
<1> QED
  BY <1>4, <1>5, <1>6, <1>7, <1>8, Together

(* A guard that is dropped releases the latch. *)
LEMMA UnlatchOK ==
    ASSUME PoolInv, NEW t \in Thread, Unlatch(t)
    PROVE  PoolInv'
<1>1. task[t] \in Task /\ FieldsOK(task[t], flushed) /\ flushed \in Nat
  BY DEF PoolInv, FilesOK
<1>f. task[t].frame \in Frame /\ meta[task[t].frame] \in Meta
  BY <1>1 DEF Unlatch, FieldsOK, PoolInv, FramesOK
<1>2. flushed' \in Nat /\ flushed <= flushed'
  BY <1>1 DEF Unlatch, fileVars
<1>3. PICK c \in Task : task' = [task EXCEPT ![t] = c] /\ FieldsOK(c, flushed')
  <2> DEFINE c == [task[t] EXCEPT !.at = "unpin"]
  <2>1. c \in Task /\ FieldsOK(c, flushed')
    BY <1>1, <1>2, IdleOK DEF Unlatch, Task, FieldsOK, Steps
  <2>2. task' = [task EXCEPT ![t] = c]
    BY DEF Unlatch, Goto, Return, PoolInv
  <2> QED
    BY <2>1, <2>2
<1>4. task' \in [Thread -> Task] /\ \A u \in Thread : FieldsOK(task'[u], flushed')
  BY <1>2, <1>3, TaskStep
<1>5. FramesOK'
  BY Untouched DEF Unlatch
<1>6. FilesOK' /\ WalBeforePage'
  BY Untouched DEF Unlatch
<1>7. (mem \in [Frame -> Image])'
  BY Untouched DEF Unlatch
<1>8. (latch \in [Frame -> RwLatch])'
  <2>1. latch[task[t].frame] \in RwLatch
    BY <1>f DEF PoolInv
  <2>2. CASE task[t].mode = "read"
    <3>1. latch' = [latch EXCEPT ![task[t].frame] =
                       [latch[task[t].frame] EXCEPT !.readers = @ \ {t}]]
      BY <2>2 DEF Unlatch, PoolInv
    <3> QED
      BY <1>f, <2>1, <3>1 DEF PoolInv, RwLatch
  <2>3. CASE task[t].mode # "read"
    <3>1. latch' = [latch EXCEPT ![task[t].frame] =
                       [latch[task[t].frame] EXCEPT !.writer = NoThread]]
      BY <2>3 DEF Unlatch, PoolInv
    <3> QED
      BY <1>f, <2>1, <3>1 DEF PoolInv, RwLatch
  <2> QED
    BY <2>2, <2>3
<1> QED
  BY <1>4, <1>5, <1>6, <1>7, <1>8, Together

(* A page is changed and the change logged. *)
LEMMA WriteOK ==
    ASSUME PoolInv, NEW t \in Thread, Write(t)
    PROVE  PoolInv'
<1>1. task[t] \in Task /\ FieldsOK(task[t], flushed) /\ flushed \in Nat
  BY DEF PoolInv, FilesOK
<1>f. task[t].frame \in Frame /\ meta[task[t].frame] \in Meta
  BY <1>1 DEF Write, FieldsOK, PoolInv, FramesOK
<1>l. Len(log) \in Nat /\ Len(log) + 1 \in 0 .. MaxLsn /\ log \in Seq(Page \cup {NoPage})
  BY PoolAssumption DEF Write, PoolInv, FilesOK
<1>2. flushed' \in Nat /\ flushed <= flushed'
  BY <1>1 DEF Write
<1>3. PICK c \in Task : task' = [task EXCEPT ![t] = c] /\ FieldsOK(c, flushed')
  <2> DEFINE c == [task[t] EXCEPT !.dirty = TRUE]
  <2>1. c \in Task /\ FieldsOK(c, flushed')
    BY <1>1, <1>2, IdleOK DEF Write, Task, FieldsOK, Steps
  <2>2. task' = [task EXCEPT ![t] = c]
    BY DEF Write, Goto, Return, PoolInv
  <2> QED
    BY <2>1, <2>2
<1>4. task' \in [Thread -> Task] /\ \A u \in Thread : FieldsOK(task'[u], flushed')
  BY <1>2, <1>3, TaskStep
<1>5. FramesOK'
  BY Untouched DEF Write
<1>6. FilesOK' /\ WalBeforePage'
  <2>1. log' \in Seq(Page \cup {NoPage}) /\ Len(log') = Len(log) + 1
    BY <1>1, <1>l DEF Write, FieldsOK
  <2> QED
    BY <1>l, <2>1 DEF Write, PoolInv, FilesOK, WalBeforePage
<1>7. (mem \in [Frame -> Image])'
  <2>1. mem[task[t].frame] \in Image
    BY <1>f DEF PoolInv
  <2>2. mem' = [mem EXCEPT ![task[t].frame] = [mem[task[t].frame] EXCEPT !.lsn = Len(log) + 1]]
    BY DEF Write, NextLsn, PoolInv
  <2>3. [mem[task[t].frame] EXCEPT !.lsn = Len(log) + 1] \in Image
    BY <1>l, <2>1 DEF Image
  <2> QED
    BY <1>f, <2>2, <2>3 DEF PoolInv
<1>8. (latch \in [Frame -> RwLatch])'
  BY Untouched DEF Write
<1> QED
  BY <1>4, <1>5, <1>6, <1>7, <1>8, Together

(* unpin_page: the pin and, for a changed page, the dirty mark. *)
LEMMA UnpinOK ==
    ASSUME PoolInv, NEW t \in Thread, Unpin(t)
    PROVE  PoolInv'
<1>1. task[t] \in Task /\ FieldsOK(task[t], flushed) /\ flushed \in Nat
  BY DEF PoolInv, FilesOK
<1>2. flushed' \in Nat /\ flushed <= flushed'
  BY <1>1 DEF Unpin, fileVars
<1>3. PICK c \in Task : task' = [task EXCEPT ![t] = c] /\ FieldsOK(c, flushed')
  <2> DEFINE c == Idle
  <2>1. c \in Task /\ FieldsOK(c, flushed')
    BY <1>1, <1>2, IdleOK DEF Unpin, Task, FieldsOK, Steps
  <2>2. task' = [task EXCEPT ![t] = c]
    BY DEF Unpin, Goto, Return, PoolInv
  <2> QED
    BY <2>1, <2>2
<1>4. task' \in [Thread -> Task] /\ \A u \in Thread : FieldsOK(task'[u], flushed')
  BY <1>2, <1>3, TaskStep
<1>5. FramesOK'
  <2> DEFINE f == table[task[t].page]
  <2>1. CASE f # NoFrame /\ meta[f].pins > 0
    <3>1. f \in Frame /\ meta[f] \in Meta
      BY <1>1, <2>1 DEF Unpin, FieldsOK, PoolInv, FramesOK
    <3>2. meta' = [meta EXCEPT ![f] = [meta[f] EXCEPT !.pins = meta[f].pins - 1,
                                                      !.dirty = meta[f].dirty \/ task[t].dirty]]
      BY <2>1 DEF Unpin, PoolInv, FramesOK
    <3>3. meta[f].pins - 1 \in 0 .. PinModulus - 1
      BY <2>1, <3>1, PoolAssumption DEF Meta
    <3>4. [meta[f] EXCEPT !.pins = meta[f].pins - 1,
                          !.dirty = meta[f].dirty \/ task[t].dirty] \in Meta
      BY <3>1, <3>3 DEF Meta
    <3>5. clock' \in Clock
      BY <2>1, <3>1, ClockKept DEF Unpin, PoolInv, FramesOK
    <3> QED
      BY <3>1, <3>2, <3>4, <3>5 DEF Unpin, PoolInv, FramesOK
  <2>2. CASE ~(f # NoFrame /\ meta[f].pins > 0)
    BY <2>2 DEF Unpin, PoolInv, FramesOK
  <2> QED
    BY <2>1, <2>2
<1>6. FilesOK' /\ WalBeforePage'
  BY Untouched DEF Unpin
<1>7. (mem \in [Frame -> Image])'
  BY Untouched DEF Unpin
<1>8. (latch \in [Frame -> RwLatch])'
  BY Untouched DEF Unpin
<1> QED
  BY <1>4, <1>5, <1>6, <1>7, <1>8, Together

(* flush_page_inner clears the dirty mark and pins the frame. *)
LEMMA FlushPinsOK ==
    ASSUME PoolInv, NEW t \in Thread, FlushPins(t)
    PROVE  PoolInv'
<1>1. task[t] \in Task /\ FieldsOK(task[t], flushed) /\ flushed \in Nat
  BY DEF PoolInv, FilesOK
<1>f. table[task[t].out] \in Frame /\ meta[table[task[t].out]] \in Meta
  BY <1>1 DEF FlushPins, MustFlush, FieldsOK, PoolInv, FramesOK
<1>2. flushed' \in Nat /\ flushed <= flushed'
  BY <1>1 DEF FlushPins, fileVars
<1>3. PICK c \in Task : task' = [task EXCEPT ![t] = c] /\ FieldsOK(c, flushed')
  <2> DEFINE f == table[task[t].out]
             c == [task[t] EXCEPT !.at = "copy", !.frame = f, !.out = meta[f].page]
  <2>1. meta[f].page \in Page
    BY <1>f DEF FlushPins, MustFlush, Meta
  <2>2. c \in Task /\ FieldsOK(c, flushed')
    BY <1>1, <1>f, <2>1 DEF FlushPins, Task, FieldsOK, Steps
  <2>3. task' = [task EXCEPT ![t] = c]
    BY DEF FlushPins, PoolInv
  <2> QED
    BY <2>2, <2>3
<1>4. task' \in [Thread -> Task] /\ \A u \in Thread : FieldsOK(task'[u], flushed')
  BY <1>2, <1>3, TaskStep
<1>5. FramesOK'
  <2> DEFINE f == table[task[t].out]
             m == [meta[f] EXCEPT !.dirty = FALSE, !.pins = (meta[f].pins + 1) % PinModulus]
  <2>1. (meta[f].pins + 1) % PinModulus \in 0 .. PinModulus - 1
    BY <1>f, PoolAssumption DEF Meta
  <2>2. meta' = [meta EXCEPT ![f] = m]
    BY DEF FlushPins, PoolInv, FramesOK
  <2>3. m \in Meta
    BY <1>f, <2>1 DEF Meta
  <2> HIDE DEF m
  <2> QED
    BY <1>f, <2>2, <2>3 DEF FlushPins, PoolInv, FramesOK
<1>6. FilesOK' /\ WalBeforePage'
  BY Untouched DEF FlushPins
<1>7. (mem \in [Frame -> Image])'
  BY Untouched DEF FlushPins
<1>8. (latch \in [Frame -> RwLatch])'
  BY Untouched DEF FlushPins
<1> QED
  BY <1>4, <1>5, <1>6, <1>7, <1>8, Together

(* The log is flushed through the LSN of the copied bytes, or the flush fails. *)
LEMMA FlushForcesLogOK ==
    ASSUME PoolInv, NEW t \in Thread, FlushForcesLog(t)
    PROVE  PoolInv'
<1>1. task[t] \in Task /\ FieldsOK(task[t], flushed) /\ flushed \in Nat
  BY DEF PoolInv, FilesOK
<1>b. task[t].buf.lsn \in Nat /\ Len(log) \in Nat /\ flushed <= Len(log)
  BY <1>1 DEF Task, Image, PoolInv, FilesOK
<1>2. flushed' \in Nat /\ flushed <= flushed'
  BY <1>1, <1>b DEF FlushForcesLog
<1>3. PICK c \in Task : task' = [task EXCEPT ![t] = c] /\ FieldsOK(c, flushed')
  <2>1. CASE flushed' \in (IF task[t].buf.lsn <= flushed THEN {flushed}
                           ELSE task[t].buf.lsn .. Len(log)) /\ Goto(t, "write")
    <3> DEFINE c == [task[t] EXCEPT !.at = "write"]
    <3>1. task[t].buf.lsn <= flushed'
      BY <1>b, <1>2, <2>1
    <3>2. c \in Task /\ FieldsOK(c, flushed')
      BY <1>1, <3>1 DEF FlushForcesLog, Task, FieldsOK, Steps
    <3>3. task' = [task EXCEPT ![t] = c]
      BY <2>1 DEF Goto, PoolInv
    <3> QED
      BY <3>2, <3>3
  <2>2. CASE task' = [task EXCEPT ![t].at = "flushed", ![t].ok = FALSE]
    <3> DEFINE c == [task[t] EXCEPT !.at = "flushed", !.ok = FALSE]
    <3>1. c \in Task /\ FieldsOK(c, flushed')
      BY <1>1 DEF FlushForcesLog, Task, FieldsOK, Steps
    <3>2. task' = [task EXCEPT ![t] = c]
      BY <2>2 DEF PoolInv
    <3> QED
      BY <3>1, <3>2
  <2> QED
    BY <2>1, <2>2 DEF FlushForcesLog
<1>4. task' \in [Thread -> Task] /\ \A u \in Thread : FieldsOK(task'[u], flushed')
  BY <1>2, <1>3, TaskStep
<1>5. FramesOK'
  BY Untouched DEF FlushForcesLog
<1>6. FilesOK' /\ WalBeforePage'
  <2>1. flushed' \in 0 .. Len(log)
    BY <1>1, <1>2, <1>b DEF FlushForcesLog
  <2>2. FilesOK'
    BY <2>1 DEF FlushForcesLog, PoolInv, FilesOK
  <2>3. ASSUME NEW p \in Page PROVE disk'[p].lsn <= flushed'
    <3>1. disk'[p] = disk[p] /\ disk[p].lsn \in Int /\ disk[p].lsn <= flushed
      BY DEF FlushForcesLog, PoolInv, FilesOK, Image, WalBeforePage
    <3> QED
      BY <1>1, <1>2, <3>1
  <2> QED
    BY <2>2, <2>3 DEF WalBeforePage
<1>7. (mem \in [Frame -> Image])'
  BY Untouched DEF FlushForcesLog
<1>8. (latch \in [Frame -> RwLatch])'
  BY Untouched DEF FlushForcesLog
<1> QED
  BY <1>4, <1>5, <1>6, <1>7, <1>8, Together

(* The copied bytes are written: the log was flushed through their LSN. *)
LEMMA FlushWritesOK ==
    ASSUME PoolInv, NEW t \in Thread, FlushWrites(t)
    PROVE  PoolInv'
<1>1. task[t] \in Task /\ FieldsOK(task[t], flushed) /\ flushed \in Nat
  BY DEF PoolInv, FilesOK
<1>2. flushed' \in Nat /\ flushed <= flushed'
  BY <1>1 DEF FlushWrites
<1>3. PICK c \in Task : task' = [task EXCEPT ![t] = c] /\ FieldsOK(c, flushed')
  <2>1. PICK ok \in BOOLEAN : task' = [task EXCEPT ![t].at = "flushed", ![t].ok = ok]
    BY DEF FlushWrites
  <2> DEFINE c == [task[t] EXCEPT !.at = "flushed", !.ok = ok]
  <2>2. c \in Task /\ FieldsOK(c, flushed')
    BY <1>1 DEF FlushWrites, Task, FieldsOK, Steps
  <2>3. task' = [task EXCEPT ![t] = c]
    BY <2>1 DEF PoolInv
  <2> QED
    BY <2>2, <2>3
<1>4. task' \in [Thread -> Task] /\ \A u \in Thread : FieldsOK(task'[u], flushed')
  BY <1>2, <1>3, TaskStep
<1>5. FramesOK'
  BY Untouched DEF FlushWrites
<1>6. FilesOK' /\ WalBeforePage'
  <2>1. task[t].out \in Page /\ task[t].buf \in Image /\ task[t].buf.lsn <= flushed
    BY <1>1 DEF FlushWrites, FieldsOK, Task
  <2>2. disk' = disk \/ disk' = [disk EXCEPT ![task[t].out] = task[t].buf]
    BY DEF FlushWrites
  <2>3. FilesOK'
    BY <2>1, <2>2 DEF FlushWrites, PoolInv, FilesOK
  <2>4. ASSUME NEW p \in Page PROVE disk'[p].lsn <= flushed'
    <3>1. disk'[p] = disk[p] \/ disk'[p] = task[t].buf
      BY <2>1, <2>2 DEF PoolInv, FilesOK
    <3> QED
      BY <2>1, <3>1 DEF FlushWrites, PoolInv, WalBeforePage
  <2> QED
    BY <2>3, <2>4 DEF WalBeforePage
<1>7. (mem \in [Frame -> Image])'
  BY Untouched DEF FlushWrites
<1>8. (latch \in [Frame -> RwLatch])'
  BY Untouched DEF FlushWrites
<1> QED
  BY <1>4, <1>5, <1>6, <1>7, <1>8, Together

(* The end of flush_page_inner: the pin goes, a failure marks the page dirty again. *)
LEMMA FlushUnpinsOK ==
    ASSUME PoolInv, NEW t \in Thread, FlushUnpins(t)
    PROVE  PoolInv'
<1> DEFINE f == task[t].frame
           m == [meta[f] EXCEPT !.pins = (meta[f].pins - 1) % PinModulus,
                                !.dirty = meta[f].dirty \/ ~task[t].ok]
<1>1. task[t] \in Task /\ FieldsOK(task[t], flushed) /\ flushed \in Nat
  BY DEF PoolInv, FilesOK
<1>2. f \in Frame /\ meta[f] \in Meta
  BY <1>1 DEF FlushUnpins, FieldsOK, PoolInv, FramesOK
<1>3. UNCHANGED flushed /\ task[t].at \in {"flush", "flushed"}
  BY DEF FlushUnpins, fileVars
<1>4. task' \in [Thread -> Task] /\ \A u \in Thread : FieldsOK(task'[u], flushed')
  <2>1. CASE FlushReturns(t)
    BY <1>3, <2>1, FlushReturnsOK
  <2>2. CASE task' = [task EXCEPT ![t] = Idle]
    <3>1. flushed' \in Nat /\ flushed <= flushed'
      BY <1>1, <1>3
    <3>2. Idle \in Task /\ FieldsOK(Idle, flushed')
      BY <3>1, IdleOK
    <3> QED
      BY <2>2, <3>1, <3>2, TaskStep
  <2> QED
    BY <2>1, <2>2 DEF FlushUnpins, Return
<1>5. FramesOK'
  <2>1. (meta[f].pins - 1) % PinModulus \in 0 .. PinModulus - 1
    BY <1>2, PoolAssumption DEF Meta
  <2>2. meta' = [meta EXCEPT ![f] = m]
    BY DEF FlushUnpins, PoolInv, FramesOK
  <2>3. m \in Meta
    BY <1>2, <2>1 DEF Meta
  <2>4. clock' \in Clock
    BY <1>2, ClockKept DEF FlushUnpins, PoolInv, FramesOK
  <2> HIDE DEF m
  <2> QED
    BY <1>2, <2>2, <2>3, <2>4 DEF FlushUnpins, PoolInv, FramesOK
<1>6. FilesOK' /\ WalBeforePage' /\ (mem \in [Frame -> Image])' /\ (latch \in [Frame -> RwLatch])'
  BY Untouched DEF FlushUnpins
<1> QED
  BY <1>4, <1>5, <1>6, Together

(* A longer log that is durable further keeps what the files promise. *)
LEMMA LogGrows ==
    ASSUME PoolInv, UNCHANGED <<disk, synced, redo, next_page>>,
           log' \in Seq(Page \cup {NoPage}), Len(log') <= MaxLsn,
           flushed' \in 0 .. Len(log'), flushed <= flushed'
    PROVE  FilesOK' /\ WalBeforePage'
<1>1. FilesOK'
  BY DEF PoolInv, FilesOK
<1>2. ASSUME NEW p \in Page PROVE disk'[p].lsn <= flushed'
  <2>1. disk'[p] = disk[p] /\ disk[p].lsn \in Int /\ disk[p].lsn <= flushed
    BY DEF PoolInv, FilesOK, Image, WalBeforePage
  <2>2. flushed \in Int /\ flushed' \in Int
    BY DEF PoolInv, FilesOK
  <2> QED
    BY <2>1, <2>2
<1> QED
  BY <1>1, <1>2 DEF WalBeforePage

(* A checkpoint appends its record and flushes it, or gives up. *)
LEMMA LogCheckpointOK ==
    ASSUME PoolInv, NEW t \in Thread, LogCheckpoint(t)
    PROVE  PoolInv'
<1>1. task[t] \in Task /\ FieldsOK(task[t], flushed) /\ flushed \in Nat /\ Len(log) \in Nat
      /\ log \in Seq(Page \cup {NoPage}) /\ flushed <= Len(log) /\ Len(log) <= MaxLsn
  BY DEF PoolInv, FilesOK
<1>2. Append(log, NoPage) \in Seq(Page \cup {NoPage}) /\ Len(Append(log, NoPage)) = Len(log) + 1
  BY <1>1
<1>3. log' \in Seq(Page \cup {NoPage}) /\ Len(log') <= MaxLsn /\ Len(log') \in Nat
      /\ flushed' \in 0 .. Len(log') /\ flushed <= flushed'
  <2>1. CASE Len(log) < MaxLsn /\ log' = Append(log, NoPage) /\ flushed' = NextLsn
    BY <1>1, <1>2, <2>1, PoolAssumption DEF NextLsn
  <2>2. CASE Len(log) < MaxLsn /\ log' = Append(log, NoPage) /\ flushed' = flushed
    BY <1>1, <1>2, <2>2, PoolAssumption
  <2>3. CASE log' = log /\ flushed' = flushed
    BY <1>1, <2>3
  <2> QED
    BY <2>1, <2>2, <2>3 DEF LogCheckpoint
<1>4. PICK c \in Task : task' = [task EXCEPT ![t] = c] /\ FieldsOK(c, flushed')
  <2>1. CASE Goto(t, "scan")
    <3> DEFINE c == [task[t] EXCEPT !.at = "scan"]
    <3>1. c \in Task /\ FieldsOK(c, flushed')
      BY <1>1 DEF Task, FieldsOK, Steps
    <3>2. task' = [task EXCEPT ![t] = c]
      BY <2>1 DEF Goto, PoolInv
    <3> QED
      BY <3>1, <3>2
  <2>2. CASE Return(t)
    <3>1. flushed' \in Nat
      BY <1>3
    <3>2. Idle \in Task /\ FieldsOK(Idle, flushed')
      BY <3>1, IdleOK
    <3> QED
      BY <2>2, <3>2 DEF Return
  <2> QED
    BY <2>1, <2>2 DEF LogCheckpoint
<1>5. task' \in [Thread -> Task] /\ \A u \in Thread : FieldsOK(task'[u], flushed')
  <2>1. flushed' \in Nat
    BY <1>3
  <2> QED
    BY <1>3, <1>4, <2>1, TaskStep
<1>6. FilesOK' /\ WalBeforePage'
  BY <1>3, LogGrows DEF LogCheckpoint
<1>7. FramesOK' /\ (mem \in [Frame -> Image])' /\ (latch \in [Frame -> RwLatch])'
  BY Untouched DEF LogCheckpoint
<1> QED
  BY <1>5, <1>6, <1>7, Together

(* The log is flushed by a commit. *)
LEMMA FlushLogOK ==
    ASSUME PoolInv, FlushLog
    PROVE  PoolInv'
<1>1. Len(log) \in Nat /\ flushed \in Nat /\ flushed' = Len(log) /\ flushed <= flushed'
      /\ log' = log /\ log \in Seq(Page \cup {NoPage}) /\ Len(log) <= MaxLsn
  BY DEF FlushLog, PoolInv, FilesOK
<1>2. FilesOK' /\ WalBeforePage'
  BY <1>1, LogGrows DEF FlushLog
<1>3. ASSUME NEW u \in Thread PROVE FieldsOK(task'[u], flushed')
  <2>1. task'[u] = task[u] /\ task[u] \in Task /\ FieldsOK(task[u], flushed)
    BY DEF FlushLog, PoolInv
  <2>2. task[u].buf.lsn \in Int
    BY <2>1 DEF Task, Image
  <2> QED
    BY <1>1, <2>1, <2>2 DEF FieldsOK
<1>4. FramesOK' /\ (mem \in [Frame -> Image])' /\ (latch \in [Frame -> RwLatch])'
      /\ task' \in [Thread -> Task]
  BY Untouched DEF FlushLog, PoolInv
<1> QED
  BY <1>2, <1>3, <1>4, Together

(* The data file is synced and the superblock written. *)
LEMMA CommitCheckpointOK ==
    ASSUME PoolInv, NEW t \in Thread, CommitCheckpoint(t)
    PROVE  PoolInv'
<1>1. task[t] \in Task /\ FieldsOK(task[t], flushed) /\ flushed \in Nat
  BY DEF PoolInv, FilesOK
<1>2. flushed' \in Nat /\ flushed <= flushed'
  BY <1>1 DEF CommitCheckpoint
<1>3. PICK c \in Task : task' = [task EXCEPT ![t] = c] /\ FieldsOK(c, flushed')
  <2> DEFINE c == Idle
  <2>1. c \in Task /\ FieldsOK(c, flushed')
    BY <1>1, <1>2, IdleOK DEF CommitCheckpoint, Task, FieldsOK, Steps
  <2>2. task' = [task EXCEPT ![t] = c]
    BY DEF CommitCheckpoint, Goto, Return, PoolInv
  <2> QED
    BY <2>1, <2>2
<1>4. task' \in [Thread -> Task] /\ \A u \in Thread : FieldsOK(task'[u], flushed')
  BY <1>2, <1>3, TaskStep
<1>5. FramesOK'
  BY Untouched DEF CommitCheckpoint
<1>6. FilesOK' /\ WalBeforePage'
  BY <1>1 DEF CommitCheckpoint, PoolInv, FilesOK, WalBeforePage, Task
<1>7. (mem \in [Frame -> Image])'
  BY Untouched DEF CommitCheckpoint
<1>8. (latch \in [Frame -> RwLatch])'
  BY Untouched DEF CommitCheckpoint
<1> QED
  BY <1>4, <1>5, <1>6, <1>7, <1>8, Together

-----------------------------------------------------------------------------
(* The empty pool satisfies the invariant. *)
LEMMA InitOK ==
    Init => PoolInv
<1> SUFFICES ASSUME Init PROVE PoolInv
  OBVIOUS
<1>1. Blank \in Image /\ \A p \in Page : [page |-> p, lsn |-> 0] \in Image
  BY PoolAssumption DEF Blank, Image
<1>2. disk \in [Page -> Image] /\ \A p \in Page : disk[p].lsn = 0
  BY <1>1 DEF Init, Blank
<1>3. FilesOK /\ WalBeforePage
  BY <1>2, PoolAssumption DEF Init, FilesOK, WalBeforePage
<1>4. FramesOK
  <2>1. Empty \in Meta /\ meta = [f \in Frame |-> Empty]
    BY PoolAssumption DEF Init, Empty, Meta
  <2>2. free \in Seq(Frame)
    BY PoolAssumption DEF Init, Frame
  <2>3. clock \in Clock
    BY PoolAssumption DEF Init, Clock, Frame
  <2> QED
    BY <2>1, <2>2, <2>3 DEF Init, FramesOK
<1>5. mem \in [Frame -> Image] /\ latch \in [Frame -> RwLatch]
  BY <1>1 DEF Init, RwLatch, Unlatched
<1>6. task \in [Thread -> Task] /\ \A t \in Thread : FieldsOK(task[t], flushed)
  BY IdleOK DEF Init
<1> QED
  BY <1>3, <1>4, <1>5, <1>6 DEF PoolInv

(* Every step keeps the invariant: one case per action. *)
LEMMA NextOK ==
    PoolInv /\ [Next]_vars => PoolInv'
<1> SUFFICES ASSUME PoolInv, [Next]_vars PROVE PoolInv'
  OBVIOUS
<1>1. CASE UNCHANGED vars
  BY <1>1, OnlyTask DEF vars, PoolInv, fileVars
<1>2. ASSUME NEW t \in Thread, AcquireFrame(t) \/ TakeFrame(t) PROVE PoolInv'
  BY <1>2, AcquireHitOK, AcquireWaitOK, AcquireFailsOK, EvictDirtyOK, ReserveOK, FlushPinsOK
     DEF AcquireFrame, TakeFrame
<1>3. ASSUME NEW t \in Thread, LoadAndGuard(t) PROVE PoolInv'
  BY <1>3, LoadOK, FinishLoadOK, NotifyOK, LatchOK, UnlatchOK, UnpinOK DEF LoadAndGuard
<1>4. ASSUME NEW t \in Thread, FlushPage(t) PROVE PoolInv'
  BY <1>4, FlushSkipsOK, FlushCopiesOK, FlushForcesLogOK, FlushWritesOK, FlushUnpinsOK
     DEF FlushPage
<1>5. ASSUME NEW t \in Thread, LogCheckpoint(t) \/ ScanFrame(t) \/ CommitCheckpoint(t)
      PROVE  PoolInv'
  BY <1>5, LogCheckpointOK, ScanFrameOK, CommitCheckpointOK
<1>6. ASSUME NEW t \in Thread, Step(t) PROVE PoolInv'
  BY <1>2, <1>3, <1>4, <1>5, <1>6 DEF Step
<1>7. ASSUME Call PROVE PoolInv'
  <2>1. ASSUME NEW t \in Client, NewPage(t) \/ Write(t) PROVE PoolInv'
    BY <2>1, NewPageOK, WriteOK DEF Thread
  <2>2. ASSUME NEW t \in Client, NEW p \in Page, NEW mode \in {"read", "write"},
               Fetch(t, p, mode)
        PROVE  PoolInv'
    BY <2>2, FetchOK DEF Thread
  <2>3. ASSUME NEW t \in Flusher, Checkpoint(t) PROVE PoolInv'
    BY <2>3, CheckpointOK DEF Thread
  <2> QED
    BY <1>7, <2>1, <2>2, <2>3, FlushLogOK DEF Call
<1> QED
  BY <1>1, <1>2, <1>6, <1>7 DEF Next

(* The invariant holds in every reachable state of the pool, whatever its clients,
   evictions and checkpoints do. *)
THEOREM PoolInvariant == Spec => []PoolInv
BY InitOK, NextOK, PTL DEF Spec

(* The state of the pool stays well typed: a call uses only frames and pages it was given,
   the scan of flush_all_pages stays within the frames, pin counts wrap around. *)
THEOREM PoolTypeCorrect == Spec => []TypeOK
BY PoolInvariant, TypeOKParts, PTL

(* WAL-before-page (write_frame_to_disk): no page reaches the data file before the log is
   durable through its LSN, for every number of threads, frames, pages and records, also
   when the frame is given to another page while it is being flushed. *)
THEOREM WalBeforePageTheorem == Spec => []WalBeforePage
<1>1. PoolInv => WalBeforePage
  BY DEF PoolInv
<1> QED
  BY <1>1, PoolInvariant, PTL
=============================================================================
