--------------------------------- MODULE Wal --------------------------------
(***************************************************************************)
(* The write-ahead log: append into the ring buffer, group flush by a      *)
(* leader while followers park, segment rotation, reclaim of old segments, *)
(* and a power loss followed by Wal::new over what is left.                *)
(*                                                                         *)
(* A record is its LSN.  A step is what a thread does between two points   *)
(* where another thread can look: the atomics flushed_lsn, flush_failed    *)
(* and flush_active are read outside the state mutex, so the leader's      *)
(* stores to them are steps of their own.                                  *)
(***************************************************************************)
EXTENDS Integers, SequencesExt

CONSTANTS
    Thread,
    MaxLsn,         \* bound: records appended since the log was created
    BufferCapacity, \* in records
    SegmentSize     \* the most records a segment holds

ASSUME WalAssumption ==
    MaxLsn \in Nat /\ BufferCapacity \in Nat \ {0} /\ SegmentSize \in Nat \ {0}

Lsn == 1 .. MaxLsn

VARIABLES
    next_lsn,
    buffer,       \* the LSNs in the ring buffer, oldest first
    is_flushing,  \* under the state mutex
    flush_active, \* its copy for readers of the gate
    flush_failed, \* the flag, and flush_error under the state mutex
    flushed_lsn,
    segments,     \* the segment files, oldest first; the writer appends to the last
    synced,       \* the LSNs an fsync has covered
    pc,           \* Thread -> where in flush_up_to it is
    target,       \* Thread -> target_lsn
    flush,        \* the leader's copy: [todo, upto, ok]
    redo,         \* the redo point of the last checkpoint, what reclaim works with
    reclaim       \* how many segments the running reclaim may still delete

memory == <<next_lsn, buffer, is_flushing, flush_active, flush_failed, flushed_lsn>>
disk == <<segments, synced>>
checkpoint == <<redo, reclaim>>
vars == <<memory, disk, pc, target, flush, checkpoint>>

NoFlush == [todo |-> <<>>, upto |-> 0, ok |-> TRUE]

Log == FlattenSeq(segments)

(* Who holds the state mutex, the gate and the writer mutex between steps. *)
StateFree == \A t \in Thread : pc[t] \notin {"empty", "publish"}
GateFree == \A t \in Thread : pc[t] \notin {"gate_flushed", "gate_failed", "gate_active"}
WriterFree == \A t \in Thread : pc[t] \notin {"write"}

Go(t, where) == pc' = [pc EXCEPT ![t] = where]

-----------------------------------------------------------------------------
(* Wal::append: the LSN is taken and the record pushed under the state mutex; a
   failed log and a full buffer are refused before that. *)
AppendRecord ==
    /\ StateFree /\ ~flush_failed
    /\ next_lsn \in Lsn
    /\ Len(buffer) < BufferCapacity
    /\ buffer' = Append(buffer, next_lsn)
    /\ next_lsn' = next_lsn + 1
    /\ UNCHANGED <<is_flushing, flush_active, flush_failed, flushed_lsn, disk, pc, target, flush,
                   checkpoint>>

-----------------------------------------------------------------------------
(* flush_up_to. *)

(* Mutant: the target is not clamped to what has been appended. *)
FlushUpTo_NoClamp(t, lsn) ==
    /\ pc[t] = "idle"
    /\ target' = [target EXCEPT ![t] = lsn]
    /\ Go(t, "loop")
    /\ UNCHANGED <<memory, disk, flush, checkpoint>>

(* A target of 0 returns at once. *)
FlushUpTo(t, lsn) ==
    /\ pc[t] = "idle"
    /\ LET last == next_lsn - 1
           clamped == IF lsn < last THEN lsn ELSE last
       IN  clamped # 0 /\ target' = [target EXCEPT ![t] = clamped]
    /\ Go(t, "loop")
    /\ UNCHANGED <<memory, disk, flush, checkpoint>>

(* The lock-free check. *)
FastPath(t) ==
    /\ pc[t] = "loop"
    /\ Go(t, IF flushed_lsn >= target[t] THEN "idle" ELSE "state")
    /\ UNCHANGED <<memory, disk, target, flush, checkpoint>>

(* Under the state mutex: fail, follow or lead.  A leader with an empty buffer
   keeps the mutex. *)
TakeState(t) ==
    /\ pc[t] = "state"
    /\ StateFree
    /\ \/ /\ flush_failed
          /\ Go(t, "idle")
          /\ UNCHANGED <<memory, flush>>
       \/ /\ ~flush_failed /\ is_flushing
          /\ Go(t, "gate")
          /\ UNCHANGED <<memory, flush>>
       \/ /\ ~flush_failed /\ ~is_flushing
          /\ is_flushing' = TRUE
          /\ flush_active' = TRUE
          /\ IF buffer = <<>>
             THEN Go(t, "empty") /\ UNCHANGED flush
             ELSE Go(t, "write") /\ flush' = [todo |-> buffer, upto |-> Last(buffer), ok |-> TRUE]
          /\ UNCHANGED <<next_lsn, buffer, flush_failed, flushed_lsn>>
    /\ UNCHANGED <<disk, target, checkpoint>>

(* A concurrent flush got there first: step down, wake the followers, return. *)
StepDown(t) ==
    /\ pc[t] = "empty"
    /\ is_flushing' = FALSE
    /\ flush_active' = FALSE
    /\ Go(t, "pass_and_return")
    /\ UNCHANGED <<next_lsn, buffer, flush_failed, flushed_lsn, disk, target, flush, checkpoint>>

-----------------------------------------------------------------------------
(* The leader writes.  Record sizes are not modelled: a segment with something in
   it may be found too full for the next record. *)

Rotated == Append(segments, <<>>)
SyncedLast == synced \cup ToSet(Last(segments))

WriteTo(segs) ==
    segments' = [segs EXCEPT ![Len(segs)] = Append(@, Head(flush.todo))]

WriteRecord(t) ==
    /\ pc[t] = "write"
    /\ flush.todo # <<>>
    /\ \/ Len(Last(segments)) < SegmentSize /\ WriteTo(segments) /\ UNCHANGED synced
       \/ Last(segments) # <<>> /\ WriteTo(Rotated) /\ synced' = SyncedLast
    /\ flush' = [flush EXCEPT !.todo = Tail(@)]
    /\ UNCHANGED <<memory, pc, target, checkpoint>>

(* write_all, the fsync of rotate or its new file fails; part of the record may be
   on disk, where Wal::new will cut it off. *)
WriteFails(t) ==
    /\ pc[t] = "write"
    /\ flush.todo # <<>>
    /\ \/ UNCHANGED disk
       \/ Last(segments) # <<>> /\ synced' = SyncedLast /\ segments' \in {segments, Rotated}
    /\ flush' = [flush EXCEPT !.ok = FALSE]
    /\ Go(t, "written")
    /\ UNCHANGED <<memory, target, checkpoint>>

Sync(t) ==
    /\ pc[t] = "write"
    /\ flush.todo = <<>>
    /\ \/ synced' = SyncedLast /\ UNCHANGED flush
       \/ UNCHANGED synced /\ flush' = [flush EXCEPT !.ok = FALSE]
    /\ Go(t, "written")
    /\ UNCHANGED <<memory, segments, target, checkpoint>>

(* The state mutex again, the flags first. *)
Retire(t) ==
    /\ pc[t] = "written"
    /\ StateFree
    /\ is_flushing' = FALSE
    /\ flush_active' = FALSE
    /\ Go(t, "publish")
    /\ UNCHANGED <<next_lsn, buffer, flush_failed, flushed_lsn, disk, target, flush, checkpoint>>

(* Mutant: drops the records that were appended while the leader wrote. *)
Publish_DropsNewRecords(t) ==
    /\ pc[t] = "publish"
    /\ \/ /\ flush.ok
          /\ buffer' = <<>>
          /\ flushed_lsn' = flush.upto
          /\ UNCHANGED flush_failed
       \/ ~flush.ok /\ flush_failed' = TRUE /\ UNCHANGED <<buffer, flushed_lsn>>
    /\ flush' = NoFlush
    /\ Go(t, "pass")
    /\ UNCHANGED <<next_lsn, is_flushing, flush_active, disk, target, checkpoint>>

(* Then the result: drop what the leader took, publish, release the mutex. *)
Publish(t) ==
    /\ pc[t] = "publish"
    /\ \/ /\ flush.ok
          /\ buffer' = SelectSeq(buffer, LAMBDA lsn : lsn > flush.upto)
          /\ flushed_lsn' = flush.upto
          /\ UNCHANGED flush_failed
       \/ ~flush.ok /\ flush_failed' = TRUE /\ UNCHANGED <<buffer, flushed_lsn>>
    /\ flush' = NoFlush
    /\ Go(t, "pass")
    /\ UNCHANGED <<next_lsn, is_flushing, flush_active, disk, target, checkpoint>>

(* Through the gate, then notify_all; the leader goes round the loop again. *)
PassGate(t) ==
    /\ GateFree
    /\ \/ pc[t] = "pass" /\ Go(t, "notify")
       \/ pc[t] = "pass_and_return" /\ Go(t, "notify_and_return")
    /\ UNCHANGED <<memory, disk, target, flush, checkpoint>>

NotifyAll(t) ==
    /\ pc[t] \in {"notify", "notify_and_return"}
    /\ pc' = [u \in Thread |->
                IF u = t THEN IF pc[t] = "notify" THEN "loop" ELSE "idle"
                ELSE IF pc[u] = "parked" THEN "loop" ELSE pc[u]]
    /\ UNCHANGED <<memory, disk, target, flush, checkpoint>>

-----------------------------------------------------------------------------
(* A follower at the gate: three reads, then it parks or goes round again. *)

EnterGate(t) ==
    /\ pc[t] = "gate"
    /\ GateFree
    /\ Go(t, "gate_flushed")
    /\ UNCHANGED <<memory, disk, target, flush, checkpoint>>

ReadFlushed(t) ==
    /\ pc[t] = "gate_flushed"
    /\ Go(t, IF flushed_lsn < target[t] THEN "gate_failed" ELSE "loop")
    /\ UNCHANGED <<memory, disk, target, flush, checkpoint>>

ReadFailed(t) ==
    /\ pc[t] = "gate_failed"
    /\ Go(t, IF flush_failed THEN "loop" ELSE "gate_active")
    /\ UNCHANGED <<memory, disk, target, flush, checkpoint>>

(* Mutant: parks although no flush is in flight. *)
ReadActive_Skipped(t) ==
    /\ pc[t] = "gate_active"
    /\ Go(t, "parked")
    /\ UNCHANGED <<memory, disk, target, flush, checkpoint>>

ReadActive(t) ==
    /\ pc[t] = "gate_active"
    /\ Go(t, IF flush_active THEN "parked" ELSE "loop")
    /\ UNCHANGED <<memory, disk, target, flush, checkpoint>>

SpuriousWakeup(t) ==
    /\ pc[t] = "parked"
    /\ Go(t, "loop")
    /\ UNCHANGED <<memory, disk, target, flush, checkpoint>>

-----------------------------------------------------------------------------
(* reclaim_segments_below.  Its caller, a checkpoint, has flushed a record at or
   above the redo point. *)

StartReclaim(r) ==
    /\ reclaim = 0
    /\ WriterFree
    /\ r \in redo .. flushed_lsn
    /\ redo' = r
    /\ reclaim' = Len(segments) - 1
    /\ UNCHANGED <<memory, disk, pc, target, flush>>

(* Mutant: off by one, keeps too little. *)
ReclaimOne_OffByOne ==
    /\ reclaim > 0
    /\ IF segments[2] # <<>> /\ segments[2][1] <= redo + 1
       THEN segments' = Tail(segments) /\ reclaim' = reclaim - 1
       ELSE reclaim' = 0 /\ UNCHANGED segments
    /\ UNCHANGED <<memory, synced, pc, target, flush, redo>>

ReclaimOne ==
    /\ reclaim > 0
    /\ IF segments[2] # <<>> /\ segments[2][1] <= redo
       THEN segments' = Tail(segments) /\ reclaim' = reclaim - 1
       ELSE reclaim' = 0 /\ UNCHANGED segments
    /\ UNCHANGED <<memory, synced, pc, target, flush, redo>>

-----------------------------------------------------------------------------
(* Mutant: the LSN watermarks come from the first segment. *)
Reopen_FirstSegment(segs) ==
    LET last == IF segs[1] = <<>> THEN 0 ELSE Last(segs[1])
    IN  /\ segments' = IF Len(Last(segs)) >= SegmentSize THEN Append(segs, <<>>) ELSE segs
        /\ next_lsn' = last + 1
        /\ flushed_lsn' = last

(* Wal::new over the segments that are left: the watermarks come from a scan, the
   writer goes on in the last segment, or in a new one if that is full. *)
Reopen(segs) ==
    LET log == FlattenSeq(segs)
        last == IF log = <<>> THEN 0 ELSE Last(log)
    IN  /\ segments' = IF Len(Last(segs)) >= SegmentSize THEN Append(segs, <<>>) ELSE segs
        /\ next_lsn' = last + 1
        /\ flushed_lsn' = last

Reset ==
    /\ buffer' = <<>>
    /\ is_flushing' = FALSE /\ flush_active' = FALSE /\ flush_failed' = FALSE
    /\ pc' = [t \in Thread |-> "idle"]
    /\ target' = [t \in Thread |-> 0]
    /\ flush' = NoFlush
    /\ reclaim' = 0

(* A file keeps what was synced and some of what was written after that. *)
PowerLoss ==
    \E cut \in [DOMAIN segments -> 0 .. SegmentSize] :
        LET segs == [i \in DOMAIN segments |-> SubSeq(segments[i], 1, cut[i])]
        IN  /\ \A i \in DOMAIN segments :
                  /\ cut[i] <= Len(segments[i])
                  /\ ToSet(segments[i]) \cap synced \subseteq ToSet(segs[i])
            /\ Reopen(segs)
            /\ synced' = ToSet(FlattenSeq(segs))
            /\ Reset
            /\ UNCHANGED redo

-----------------------------------------------------------------------------
Init ==
    /\ next_lsn = 1
    /\ buffer = <<>>
    /\ is_flushing = FALSE /\ flush_active = FALSE /\ flush_failed = FALSE
    /\ flushed_lsn = 0
    /\ segments = << <<>> >>
    /\ synced = {}
    /\ pc = [t \in Thread |-> "idle"]
    /\ target = [t \in Thread |-> 0]
    /\ flush = NoFlush
    /\ redo = 1
    /\ reclaim = 0

Lead(t) == WriteRecord(t) \/ WriteFails(t) \/ Sync(t) \/ Retire(t) \/ Publish(t)
Follow(t) == EnterGate(t) \/ ReadFlushed(t) \/ ReadFailed(t) \/ ReadActive(t)

(* The steps of a thread inside flush_up_to. *)
Step(t) ==
    \/ FastPath(t) \/ TakeState(t) \/ StepDown(t)
    \/ Lead(t) \/ PassGate(t) \/ NotifyAll(t)
    \/ Follow(t)

Next ==
    \/ AppendRecord
    \/ \E t \in Thread : Step(t) \/ SpuriousWakeup(t) \/ \E lsn \in Lsn : FlushUpTo(t, lsn)
    \/ \E r \in Lsn : StartReclaim(r)
    \/ ReclaimOne
    \/ PowerLoss

(* A thread that can go on does.  The mutexes are held for a bounded time and the
   contenders for them run out, so weak fairness is enough. *)
Fairness == \A t \in Thread : WF_vars(Step(t))

Spec == Init /\ [][Next]_vars
FairSpec == Spec /\ Fairness

-----------------------------------------------------------------------------
(* Properties. *)

(* LSN order, buffer order and disk order are one order without gaps: the log is
   consecutive, the buffer starts right after flushed_lsn, ends at the last LSN
   handed out and stays within its capacity (append refuses before it takes one). *)
OneOrder ==
    /\ \A i \in 1 .. Len(Log) - 1 : Log[i + 1] = Log[i] + 1
    /\ buffer = [i \in 1 .. Len(buffer) |-> flushed_lsn + i]
    /\ next_lsn = flushed_lsn + Len(buffer) + 1
    /\ Len(buffer) <= BufferCapacity

(* flushed_lsn keeps its promise: everything up to it that redo may still ask for
   is in a segment and fsynced, whatever rotation, reclaim, failed writes and
   power losses have done. *)
FlushedIsDurable == redo .. flushed_lsn \subseteq synced \cap ToSet(Log)

(* What was once durable stays so and its LSN is not handed out again, also
   across a power loss. *)
DurableForGood == [][flushed_lsn' >= flushed_lsn /\ next_lsn' > flushed_lsn]_vars

(* The debug_assert of flush_up_to: a leader that finds the buffer empty has its
   target flushed. *)
EmptyMeansFlushed == \A t \in Thread : pc[t] = "empty" => flushed_lsn >= target[t]

(* Nobody is stranded: every flush_up_to returns, whether its flush was led by
   the caller or by another thread, completed, failed or was cut short. *)
FlushReturns == \A t \in Thread : pc[t] # "idle" ~> pc[t] = "idle"
=============================================================================
