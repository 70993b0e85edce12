----------------------------- MODULE BLinkTree ------------------------------
(***************************************************************************)
(* The B-link tree under concurrent lookups, inserts, deletes and one      *)
(* vacuum sweep: descents, latches, splits and their downlinks, lazy       *)
(* completion, and the removal of empty leaves.                            *)
(*                                                                         *)
(* A step acquires one latch (or the root mutex) and runs to the next      *)
(* acquisition.  A latch that the code releases before then is a guard of  *)
(* the step (CanRead, CanWrite); one that it keeps while it waits for      *)
(* another is in th[t].xl (exclusive) or th[t].sh (shared).                *)
(*                                                                         *)
(* Visibility is Mvcc's business: an entry is live or dead, and the        *)
(* compaction removes any dead entries.  How entries lie on a page is      *)
(* Pages' business: a page has room for a number of entries.  A page LSN   *)
(* is compared in one place only, the insert that came back from the left  *)
(* chain; `stale` says whose landing page changed meanwhile.               *)
(***************************************************************************)
EXTENDS Integers, Sequences, FiniteSets, SequencesExt, FiniteSetsExt

CONSTANTS
    Thread, Key,
    MaxPid,     \* bound: the page ids
    LeafCap,    \* entries a leaf has room for
    IntCap,     \* separators an internal page has room for
    StartTrees, \* the trees there are at the start, Pid -> page, with page 1 the root
    Jobs        \* the assignments Thread -> [job, key] that are run

Pid == 1 .. MaxPid
Nil == 0
Blank == [kind |-> "none", live |-> {}, dead |-> {}, seps |-> <<>>, kids |-> <<>>,
          high |-> Nil, right |-> Nil, prev |-> Nil, inc |-> FALSE, hd |-> FALSE]

VARIABLES
    node,      \* Pid -> page
    root,      \* the root mutex
    next_pid,
    th,        \* Thread -> where it is and what it holds
    stale,     \* threads whose landing page has a new LSN
    recycled,  \* pending_recycle
    db,        \* the keys that are there
    seen,      \* Thread -> what it may answer: whether its key was there since it began
    astray     \* history: [keys, pages] that a split's thread put under a half-dead page

ghosts == <<stale, recycled, db, seen, astray>>
vars == <<node, root, next_pid, th, ghosts>>

Idle == [job |-> "none", key |-> Nil, at |-> "start", pid |-> Nil, stack |-> <<>>,
         depth |-> 0, sep |-> Nil, rk |-> Nil, lk |-> Nil, cont |-> "done", to |-> Nil,
         leaf |-> Nil, next |-> Nil, left |-> Nil, hk |-> Nil, xl |-> {}, sh |-> Nil, answer |-> FALSE,
         slot |-> 0, out |-> <<>>, quiet |-> FALSE]

Init ==
    /\ node \in StartTrees
    /\ root = 1
    /\ next_pid = 1 + Max({p \in Pid : node[p].kind # "none"})
    /\ \E j \in Jobs : th = [t \in Thread |-> j[t] @@ Idle]
    /\ stale = {} /\ recycled = {}
    /\ db = UNION {node[p].live : p \in Pid}
    /\ seen = [t \in Thread |-> {}]
    /\ astray = [keys |-> {}, pages |-> {}]

CanRead(t, p) == \A u \in Thread \ {t} : p \notin th[u].xl
CanWrite(t, p) == \A u \in Thread \ {t} : p \notin th[u].xl /\ p # th[u].sh

Above(p, k) == node[p].high # Nil /\ k >= node[p].high
ChildFor(p, k) == node[p].kids[1 + Cardinality({i \in DOMAIN node[p].seps : node[p].seps[i] <= k})]
Entries(p) == node[p].live \cup node[p].dead
Room(p) == Cardinality(Entries(p)) < LeafCap

Become(t, r) == th' = [th EXCEPT ![t] = r @@ @]
Finish(t, answer) == Become(t, [Idle EXCEPT !.at = "done", !.job = th[t].job,
                                            !.key = th[t].key, !.answer = answer])
(* The pages in S get a new LSN. *)
Stamp(S) == stale' = stale \cup {u \in Thread : th[u].at = "relatch" /\ th[u].pid \in S}
Noted(k, there) ==
    [u \in Thread |-> IF th[u].key = k /\ th[u].at # "start" THEN seen[u] \cup {there} ELSE seen[u]]

Scanning(t) == th[t].job \in {"range", "range_backward"}

(* Everyone begins, and begins again, by reading the root.  `quiet` records *)
(* that nobody else has been on the way since a scan began.                 *)
Start(t) ==
    /\ th[t].at = "start"
    /\ th' = [u \in Thread |->
          IF u # t THEN [th[u] EXCEPT !.quiet = FALSE]
          ELSE [at |-> "descend", pid |-> root, stack |-> <<>>,
                quiet |-> Scanning(t) /\ \A v \in Thread \ {t} : th[v].at \in {"start", "done"}]
               @@ th[t]]
    /\ seen' = [seen EXCEPT ![t] = @ \cup {th[t].key \in db}]
    /\ UNCHANGED <<node, root, next_pid, stale, recycled, db, astray>>

(* rightlink().unwrap() on the leaf p: without a right neighbour it panics. *)
Rightward(p) == IF node[p].right = Nil THEN [at |-> "panic"] ELSE [pid |-> node[p].right]

-----------------------------------------------------------------------------
(***************************************************************************)
(* Descents.  An insert finishes an incomplete split it meets; a delete    *)
(* does not look.  A lookup keeps the parent latched until it has the      *)
(* child.                                                                  *)
(***************************************************************************)
Descend(t) ==
    LET p == th[t].pid IN
    /\ th[t].at = "descend" /\ th[t].job \in {"insert", "delete"}
    /\ CanRead(t, p)
    /\ Become(t,
         CASE th[t].job = "insert" /\ node[p].inc -> [at |-> "finish"]
           [] ~(th[t].job = "insert" /\ node[p].inc) /\ node[p].kind = "leaf" ->
                  [at |-> "latch", leaf |-> p]
           [] ~(th[t].job = "insert" /\ node[p].inc) /\ node[p].kind = "internal" ->
                  IF Above(p, th[t].key) THEN [pid |-> node[p].right]
                  ELSE [pid |-> ChildFor(p, th[t].key), stack |-> Append(th[t].stack, p)])
    /\ UNCHANGED <<node, root, next_pid, ghosts>>

FindLeaf(t) ==
    LET p == th[t].pid IN
    /\ th[t].at = "descend" /\ th[t].key # Nil /\ (th[t].job = "get" \/ Scanning(t))
    /\ CanRead(t, p)
    /\ Become(t,
         CASE node[p].kind = "leaf" ->
                  [at |-> IF th[t].job = "get" THEN "read" ELSE "open", sh |-> Nil]
           [] node[p].kind = "internal" /\ Above(p, th[t].key) -> [pid |-> node[p].right, sh |-> Nil]
           [] node[p].kind = "internal" /\ ~Above(p, th[t].key) ->
                  [pid |-> ChildFor(p, th[t].key), sh |-> p])
    /\ UNCHANGED <<node, root, next_pid, ghosts>>

(* A descent without a key goes to the first leaf or, past any split that   *)
(* is under way, to the last.                                               *)
FindEdge(t) ==
    LET p == th[t].pid
        back == th[t].job = "range_backward"
    IN
    /\ th[t].at = "descend" /\ th[t].key = Nil /\ CanRead(t, p)
    /\ Become(t,
         CASE node[p].kind = "internal" -> [pid |-> IF back THEN Last(node[p].kids) ELSE node[p].kids[1]]
           [] node[p].kind = "leaf" /\ back /\ node[p].right # Nil -> [pid |-> node[p].right]
           [] OTHER -> [at |-> IF Scanning(t) THEN "scan" ELSE "sweep", slot |-> IF back THEN 0 ELSE 1])
    /\ UNCHANGED <<node, root, next_pid, ghosts>>

(* The chain of versions may continue on the left of a page that is empty   *)
(* or begins with the key.                                                  *)
ChainContinues(t, p) == Entries(p) = {} \/ Min(Entries(p)) = th[t].key

(* Mutant: the leaf is taken as it was when the descent ended. *)
SplitAway_Never(t, p) == FALSE
(* The leaf split, and the key is on its right. *)
SplitAway(t, p) == Above(p, th[t].key)

(* get on the leaf: right past splits, then left along the version chain.   *)
Get(t) ==
    LET p == th[t].pid IN
    /\ th[t].at \in {"read", "read_left"}
    /\ CanRead(t, p)
    /\ CASE th[t].at = "read" /\ SplitAway(t, p) -> Become(t, Rightward(p))
         [] th[t].at = "read_left" /\ node[p].high # th[t].key -> Become(t, [at |-> "start"])
         [] OTHER ->
              IF th[t].key \in node[p].live THEN Finish(t, TRUE)
              ELSE IF ChainContinues(t, p) /\ node[p].prev # Nil
                   THEN Become(t, [at |-> "read_left", pid |-> node[p].prev])
                   ELSE Finish(t, FALSE)
    /\ UNCHANGED <<node, root, next_pid, ghosts>>

(* delete: the same under exclusive latches; a broken chain goes back to    *)
(* the leaf the descent found.                                              *)
DeleteLook(t) ==
    LET p == th[t].pid IN
    /\ th[t].job = "delete" /\ th[t].at \in {"latch", "latch_left"}
    /\ CanWrite(t, p)
    /\ CASE th[t].at = "latch" /\ SplitAway(t, p) -> Become(t, Rightward(p))
         [] th[t].at = "latch_left" /\ node[p].high # th[t].key ->
                Become(t, [at |-> "latch", pid |-> th[t].leaf])
         [] OTHER ->
              /\ th[t].key \notin node[p].live
              /\ IF ChainContinues(t, p) /\ node[p].prev # Nil
                 THEN Become(t, [at |-> "latch_left", pid |-> node[p].prev])
                 ELSE Finish(t, FALSE)
    /\ UNCHANGED <<node, root, next_pid, ghosts>>

DeleteMark(t) ==
    LET p == th[t].pid IN
    /\ th[t].job = "delete" /\ th[t].at \in {"latch", "latch_left"}
    /\ CanWrite(t, p)
    /\ IF th[t].at = "latch" THEN ~SplitAway(t, p) ELSE node[p].high = th[t].key
    /\ th[t].key \in node[p].live
    /\ node' = [node EXCEPT ![p].live = @ \ {th[t].key}, ![p].dead = @ \cup {th[t].key}]
    /\ db' = db \ {th[t].key}
    /\ seen' = Noted(th[t].key, FALSE)
    /\ Stamp({p})
    /\ Finish(t, TRUE)
    /\ UNCHANGED <<root, next_pid, recycled, astray>>

-----------------------------------------------------------------------------
(***************************************************************************)
(* Range scans from a key upwards and downwards.  Between two calls of     *)
(* next the scan holds no latch and remembers a page and a slot; slot 0    *)
(* stands for the last one of a page that a backward scan has yet to see.  *)
(***************************************************************************)
Slots(p) == SetToSortSeq(Entries(p), <)

(* range and range_backward position themselves on the leaf find_leaf gave  *)
(* them.                                                                    *)
OpenScan(t) ==
    LET p == th[t].pid
        below == Cardinality({k \in Entries(p) : k < th[t].key})
        upto == Cardinality({k \in Entries(p) : k <= th[t].key})
    IN
    /\ th[t].at = "open" /\ CanRead(t, p)
    /\ Become(t, CASE th[t].job = "range" -> [at |-> "scan", slot |-> below + 1]
                   [] th[t].job # "range" /\ upto > 0 -> [at |-> "scan", slot |-> upto]
                   [] OTHER -> [at |-> "scan", slot |-> 0, pid |-> node[p].prev])
    /\ UNCHANGED <<node, root, next_pid, ghosts>>

EndScan(t) == Become(t, [at |-> "done"])

(* One page of RangeScan::next: the next visible record, or on to the right. *)
NextForward(t) ==
    LET p == th[t].pid
        s == Slots(p)
        visible == {i \in DOMAIN s : i >= th[t].slot /\ s[i] \in node[p].live}
    IN
    /\ th[t].at = "scan" /\ th[t].job = "range" /\ CanRead(t, p)
    /\ IF visible # {}
       THEN Become(t, [out |-> Append(th[t].out, s[Min(visible)]), slot |-> Min(visible) + 1])
       ELSE IF node[p].right = Nil THEN EndScan(t)
            ELSE Become(t, [pid |-> node[p].right, slot |-> 1])
    /\ UNCHANGED <<node, root, next_pid, ghosts>>

(* Mutant: a page with nothing on it ends the scan. *)
NextBackward_StopsAtEmpty(t) ==
    LET p == th[t].pid
        s == Slots(p)
        from == IF th[t].slot = 0 THEN Len(s) ELSE th[t].slot
        visible == {i \in DOMAIN s : i <= from /\ s[i] \in node[p].live}
    IN
    /\ th[t].at = "scan" /\ th[t].job = "range_backward"
    /\ p # Nil => CanRead(t, p)
    /\ IF p = Nil \/ s = <<>> THEN EndScan(t)
       ELSE IF visible = {} THEN Become(t, [pid |-> node[p].prev, slot |-> 0])
       ELSE Become(t, [out |-> Append(th[t].out, s[Max(visible)]), slot |-> Max(visible) - 1,
                       pid |-> IF Max(visible) = 1 THEN node[p].prev ELSE p])
    /\ UNCHANGED <<node, root, next_pid, ghosts>>

(* One page of BackwardRangeScan::next.  A slot past the end of a page that *)
(* was compacted meanwhile reads whatever is there: Nil.                    *)
NextBackward(t) ==
    LET p == th[t].pid
        s == Slots(p)
        from == IF th[t].slot = 0 THEN Len(s) ELSE th[t].slot
        visible == {i \in DOMAIN s : i <= from /\ s[i] \in node[p].live}
    IN
    /\ th[t].at = "scan" /\ th[t].job = "range_backward"
    /\ p # Nil => CanRead(t, p)
    /\ IF p = Nil THEN EndScan(t)
       ELSE IF from > Len(s) THEN Become(t, [out |-> Append(th[t].out, Nil), slot |-> from - 1,
                                             pid |-> IF from = 1 THEN node[p].prev ELSE p])
       ELSE IF visible = {} THEN Become(t, [pid |-> node[p].prev, slot |-> 0])
       ELSE Become(t, [out |-> Append(th[t].out, s[Max(visible)]), slot |-> Max(visible) - 1,
                       pid |-> IF Max(visible) = 1 THEN node[p].prev ELSE p])
    /\ UNCHANGED <<node, root, next_pid, ghosts>>

-----------------------------------------------------------------------------
(***************************************************************************)
(* insert on the leaf.                                                     *)
(***************************************************************************)
(* The key is on the page, or belongs before everything on it. *)
NeedsLeftScan(t, p) ==
    /\ node[p].prev # Nil
    /\ th[t].key \in Entries(p) \/ \A k \in Entries(p) : k > th[t].key

(* Back off from a half-dead leaf, follow a split, or let the leaf go for   *)
(* the scan of the left chain.                                              *)
InsertLook(t) ==
    LET p == th[t].pid IN
    /\ th[t].job = "insert" /\ th[t].at \in {"latch", "relatch", "right"}
    /\ CanWrite(t, p)
    /\ \/ th[t].at = "latch" /\ node[p].hd
          /\ Become(t, [at |-> "start"]) /\ UNCHANGED stale
       \/ th[t].at \in {"latch", "right"} /\ Above(p, th[t].key)
          /\ (th[t].at = "latch" => ~node[p].hd)
          /\ Become(t, Rightward(p)) /\ UNCHANGED stale
       \/ th[t].at = "latch" /\ ~node[p].hd /\ ~Above(p, th[t].key) /\ NeedsLeftScan(t, p)
          /\ Become(t, [at |-> "relatch"]) /\ stale' = stale \ {t}
       \/ th[t].at = "relatch" /\ t \in stale
          /\ Become(t, [at |-> "start"]) /\ UNCHANGED stale
    /\ UNCHANGED <<node, root, next_pid, recycled, db, seen, astray>>

(* Mutant: the insert that came back does not compare LSNs. *)
AtLeaf_NoLsn(t) ==
    LET p == th[t].pid IN
    /\ th[t].job = "insert" /\ CanWrite(t, p)
    /\ \/ th[t].at = "latch" /\ ~node[p].hd /\ ~Above(p, th[t].key) /\ ~NeedsLeftScan(t, p)
       \/ th[t].at = "relatch"
       \/ th[t].at = "right" /\ ~Above(p, th[t].key)

(* The insert has the leaf it will use.  On the page a split has just made  *)
(* it looks at the high key only.                                           *)
AtLeaf(t) ==
    LET p == th[t].pid IN
    /\ th[t].job = "insert" /\ CanWrite(t, p)
    /\ \/ th[t].at = "latch" /\ ~node[p].hd /\ ~Above(p, th[t].key) /\ ~NeedsLeftScan(t, p)
       \/ th[t].at = "relatch" /\ t \notin stale
       \/ th[t].at = "right" /\ ~Above(p, th[t].key)

InsertFits(t, gone) ==
    LET p == th[t].pid IN
    /\ AtLeaf(t)
    /\ IF Room(p) THEN gone = {} ELSE gone \subseteq node[p].dead /\ gone # {}
    /\ node' = [node EXCEPT ![p].dead = @ \ gone, ![p].live = @ \cup {th[t].key}]
    /\ db' = db \cup {th[t].key}
    /\ seen' = Noted(th[t].key, TRUE)
    /\ Stamp({p})
    /\ astray' = IF th[t].at = "right" /\ node[p].hd
                 THEN [astray EXCEPT !.keys = @ \cup {th[t].key}] ELSE astray
    /\ Finish(t, TRUE)
    /\ UNCHANGED <<root, next_pid, recycled>>

(* The leaf is full and stays so: it is kept latched while the right        *)
(* neighbour is waited for.                                                 *)
InsertFull(t) ==
    /\ AtLeaf(t) /\ ~Room(th[t].pid)
    /\ Become(t, [at |-> "split", xl |-> {th[t].pid}])
    /\ UNCHANGED <<node, root, next_pid, ghosts>>

(* The first key of the right half, by the number of entries. *)
SplitKey(p) ==
    LET ks == SetToSortSeq(Entries(p), <) IN
    IF Len(ks) \div 2 + 2 <= Len(ks) THEN ks[Len(ks) \div 2 + 2] ELSE ks[Len(ks) \div 2 + 1]

(* Where insert_separator_via_stack begins, or goes on one level up. *)
Climb(stack, depth, sep, rk, lk, cont) ==
    (IF depth = 0 THEN [at |-> "top"]
     ELSE [at |-> "parent", pid |-> stack[depth], depth |-> depth - 1])
    @@ [sep |-> sep, rk |-> rk, lk |-> lk, cont |-> cont, xl |-> {}]

(* Mutant: the old right neighbour keeps its back-link. *)
BackLink_Kept(p, r) == p
(* What the old right neighbour of p points back to once r is between them. *)
BackLink(p, r) == r

Part(S, sep, right) == {k \in S : (k >= sep) = right}

(* split_leaf_ly and the insert into the left half, or the way to the right *)
(* one.                                                                     *)
Split(t) ==
    LET p == th[t].pid
        o == node[p].right
        r == next_pid
        sep == SplitKey(p)
        k == th[t].key
        here == k < sep
        left == [node[p] EXCEPT !.live = Part(@, sep, FALSE) \cup IF here THEN {k} ELSE {},
                                !.dead = Part(@, sep, FALSE),
                                !.high = sep, !.right = r, !.inc = TRUE, !.hd = FALSE]
        new == [node[p] EXCEPT !.live = Part(@, sep, TRUE), !.dead = Part(@, sep, TRUE),
                               !.prev = p, !.inc = FALSE, !.hd = FALSE]
    IN
    /\ th[t].at = "split" /\ r <= MaxPid
    /\ o # Nil => CanWrite(t, o)
    /\ node' = [q \in Pid |-> CASE q = p -> left [] q = r -> new
                                [] q = o /\ o # Nil -> [node[q] EXCEPT !.prev = BackLink(p, r)]
                                [] OTHER -> node[q]]
    /\ next_pid' = r + 1
    /\ db' = IF here THEN db \cup {k} ELSE db
    /\ seen' = IF here THEN Noted(k, TRUE) ELSE seen
    /\ Stamp({p, o})
    /\ Become(t, Climb(th[t].stack, Len(th[t].stack), sep, r, p, IF here THEN "done" ELSE "right")
                 @@ [to |-> r])
    /\ UNCHANGED <<root, recycled, astray>>

-----------------------------------------------------------------------------
(***************************************************************************)
(* finish_split and insert_separator_via_stack.                            *)
(***************************************************************************)
(* Both descents begin again at the root; the vacuum's keeps its target. *)
Again(t) == IF th[t].job = "vacuum" THEN "unlink_root" ELSE "start"

Resume(t) ==
    CASE th[t].cont = "restart" ->
             [at |-> Again(t), xl |-> {}, rk |-> Nil]
      [] th[t].cont = "right" -> [at |-> "right", pid |-> th[t].to, xl |-> {}, rk |-> Nil]
      [] th[t].cont = "done" -> [Idle EXCEPT !.at = "done", !.job = th[t].job,
                                             !.key = th[t].key, !.answer = TRUE]

FinishSplit(t) ==
    LET p == th[t].pid IN
    /\ th[t].at = "finish" /\ CanWrite(t, p)
    /\ IF node[p].inc /\ node[p].right # Nil
       THEN /\ Become(t, Climb(th[t].stack, Len(th[t].stack), node[p].high, node[p].right, p,
                              "restart"))
            /\ UNCHANGED node
       ELSE /\ Become(t, [at |-> Again(t)])
            /\ node' = [node EXCEPT ![p].inc = FALSE]
    /\ UNCHANGED <<root, next_pid, ghosts>>

(* The page that split had no parent: a new root, unless there is one. *)
GrowRoot(t) ==
    /\ th[t].at = "top"
    /\ IF root # th[t].lk
       THEN Become(t, [at |-> "clear"]) /\ UNCHANGED <<node, next_pid>>
       ELSE /\ next_pid <= MaxPid
            /\ node' = [node EXCEPT ![next_pid] = [Blank EXCEPT !.kind = "internal",
                           !.seps = <<th[t].sep>>, !.kids = <<th[t].lk, th[t].rk>>]]
            /\ next_pid' = next_pid + 1
            /\ Become(t, [at |-> "root_clear", pid |-> next_pid])
    /\ UNCHANGED <<root, ghosts>>

RootClear(t) ==
    /\ th[t].at = "root_clear" /\ CanWrite(t, th[t].lk)
    /\ node' = [node EXCEPT ![th[t].lk].inc = FALSE]
    /\ Stamp({th[t].lk})
    /\ Become(t, [at |-> "root_set"])
    /\ UNCHANGED <<root, next_pid, recycled, db, seen, astray>>

RootSet(t) ==
    /\ th[t].at = "root_set"
    /\ root' = th[t].pid
    /\ Become(t, Resume(t))
    /\ UNCHANGED <<node, next_pid, ghosts>>

SepIndex(p, k) == 1 + Cardinality({i \in DOMAIN node[p].seps : node[p].seps[i] <= k})

ParentMovesOn(t) == Above(th[t].pid, th[t].sep)

(* The new downlink leads to a page that was unlinked meanwhile, and with   *)
(* it the searches for the keys of that page's range.                       *)
NoteDownlink(t) ==
    astray' = IF node[th[t].rk].hd
              THEN [keys |-> astray.keys \cup
                                {k \in Key : k >= th[t].sep /\ ~Above(th[t].rk, k)},
                    pages |-> astray.pages \cup {th[t].rk}]
              ELSE astray

(* The parent is latched: it split meanwhile, it has the downlink already,  *)
(* or it has room; then it stays latched until the child's flag is cleared. *)
Parent(t) ==
    LET p == th[t].pid
        i == SepIndex(p, th[t].sep)
    IN
    /\ th[t].at = "parent" /\ CanWrite(t, p)
    /\ \/ /\ ParentMovesOn(t)
          /\ Become(t, [pid |-> node[p].right]) /\ UNCHANGED <<node, astray>>
       \/ /\ ~ParentMovesOn(t) /\ Contains(node[p].kids, th[t].rk)
          /\ Become(t, [at |-> "clear"]) /\ UNCHANGED <<node, astray>>
       \/ /\ ~ParentMovesOn(t) /\ ~Contains(node[p].kids, th[t].rk)
          /\ Len(node[p].seps) < IntCap
          /\ node' = [node EXCEPT ![p].seps = InsertAt(@, i, th[t].sep),
                                  ![p].kids = InsertAt(@, i + 1, th[t].rk)]
          /\ NoteDownlink(t)
          /\ Become(t, [at |-> "clear_held", xl |-> {p}])
    /\ UNCHANGED <<root, next_pid, stale, recycled, db, seen>>

(* split_internal_ly with the downlink in it. *)
ParentSplit(t) ==
    LET p == th[t].pid
        i == SepIndex(p, th[t].sep)
        seps == InsertAt(node[p].seps, i, th[t].sep)
        kids == InsertAt(node[p].kids, i + 1, th[t].rk)
        n == Len(seps)
        mid == n \div 2 + 1
    IN
    /\ th[t].at = "parent" /\ CanWrite(t, p) /\ next_pid <= MaxPid
    /\ ~ParentMovesOn(t) /\ ~Contains(node[p].kids, th[t].rk)
    /\ Len(node[p].seps) >= IntCap
    /\ node' = [node EXCEPT
          ![next_pid] = [node[p] EXCEPT !.seps = SubSeq(seps, mid + 1, n),
                                        !.kids = SubSeq(kids, mid + 1, n + 1), !.inc = FALSE],
          ![p] = [node[p] EXCEPT !.seps = SubSeq(seps, 1, mid - 1), !.kids = SubSeq(kids, 1, mid),
                                 !.high = seps[mid], !.right = next_pid, !.inc = TRUE]]
    /\ next_pid' = next_pid + 1
    /\ Become(t, [at |-> "clear_up", sep |-> seps[mid], rk |-> next_pid])
    /\ NoteDownlink(t)
    /\ UNCHANGED <<root, stale, recycled, db, seen>>

(* The child's flag is cleared: with nothing held, with the parent held, or *)
(* on the way up.                                                           *)
ClearFlag(t) ==
    /\ th[t].at \in {"clear", "clear_held", "clear_up"}
    /\ CanWrite(t, th[t].lk)
    /\ node' = [node EXCEPT ![th[t].lk].inc = FALSE]
    /\ IF th[t].at = "clear_held" THEN Stamp({th[t].lk}) ELSE UNCHANGED stale
    /\ Become(t, IF th[t].at = "clear_up"
                 THEN Climb(th[t].stack, th[t].depth, th[t].sep, th[t].rk, th[t].pid, th[t].cont)
                 ELSE Resume(t))
    /\ UNCHANGED <<root, next_pid, recycled, db, seen, astray>>

-----------------------------------------------------------------------------
(***************************************************************************)
(* One vacuum pass: vacuum_batch over the chain of leaves, and             *)
(* delete_empty_leaf for the ones it empties.                              *)
(***************************************************************************)
(* On to the next leaf: the rightlink read when this one was compacted. *)
Onward(t) ==
    IF th[t].next = Nil THEN Finish(t, TRUE)
    ELSE Become(t, [at |-> "sweep", pid |-> th[t].next, xl |-> {}, stack |-> <<>>, left |-> Nil])

Sweep(t, gone) ==
    LET p == th[t].pid
        empty == Entries(p) \ gone = {}
        next == node[p].right
    IN
    /\ th[t].at = "sweep" /\ CanWrite(t, p)
    /\ gone \subseteq node[p].dead
    /\ node' = [node EXCEPT ![p].dead = @ \ gone]
    /\ IF gone # {} THEN Stamp({p}) ELSE UNCHANGED stale
    /\ IF (empty \/ node[p].hd) /\ p # root
       THEN Become(t, [at |-> "unlink_start", leaf |-> p, next |-> next])
       ELSE IF next = Nil THEN Finish(t, TRUE) ELSE Become(t, [pid |-> next])
    /\ UNCHANGED <<root, next_pid, recycled, db, seen, astray>>

(* The leaf's high key, read once, then the descent towards it. *)
UnlinkStart(t) ==
    /\ th[t].at = "unlink_start" /\ CanRead(t, th[t].leaf)
    /\ Become(t, [at |-> "unlink_root", hk |-> node[th[t].leaf].high])
    /\ UNCHANGED <<node, root, next_pid, ghosts>>

UnlinkRoot(t) ==
    /\ th[t].at = "unlink_root"
    /\ Become(t, [at |-> "unlink_descend", pid |-> root, stack |-> <<>>])
    /\ UNCHANGED <<node, root, next_pid, ghosts>>

UnlinkDescend(t) ==
    LET p == th[t].pid
        hk == th[t].hk
        far == IF hk = Nil THEN node[p].right # Nil
               ELSE node[p].high # Nil /\ hk > node[p].high
        i == 1 + IF hk = Nil THEN Len(node[p].seps)
                 ELSE Cardinality({j \in DOMAIN node[p].seps : node[p].seps[j] < hk})
    IN
    /\ th[t].at = "unlink_descend" /\ CanRead(t, p)
    /\ IF node[p].inc THEN Become(t, [at |-> "finish"])
       ELSE IF node[p].kind = "leaf"
            THEN IF th[t].stack = <<>> THEN Onward(t)
                 ELSE Become(t, [at |-> "precheck", pid |-> Last(th[t].stack)])
            ELSE IF far THEN Become(t, [pid |-> node[p].right])
                 ELSE Become(t, [pid |-> node[p].kids[i], stack |-> Append(th[t].stack, p)])
    /\ UNCHANGED <<node, root, next_pid, ghosts>>

Precheck(t) ==
    LET p == th[t].pid IN
    /\ th[t].at = "precheck" /\ CanRead(t, p)
    /\ Become(t,
         IF Contains(node[p].kids, th[t].leaf)
         THEN [at |-> IF node[p].seps = <<>> THEN "abandon" ELSE "mark"]
         ELSE IF node[p].right # Nil THEN [pid |-> node[p].right] ELSE [at |-> "abandon"])
    /\ UNCHANGED <<node, root, next_pid, ghosts>>

MayMark(t) == node[th[t].leaf].hd \/ Entries(th[t].leaf) = {}

Mark(t) ==
    LET x == th[t].leaf IN
    /\ th[t].at = "mark" /\ CanWrite(t, x)
    /\ IF ~MayMark(t) THEN Onward(t) /\ UNCHANGED <<node, stale>>
       ELSE /\ node' = [node EXCEPT ![x].hd = TRUE]
            /\ IF node[x].hd THEN UNCHANGED stale ELSE Stamp({x})
            /\ Become(t, [rk |-> node[x].right, lk |-> node[x].prev,
                          at |-> IF node[x].prev = Nil THEN "relink" ELSE "left"])
    /\ UNCHANGED <<root, next_pid, recycled, db, seen, astray>>

(* The true left neighbour, right from the one the leaf names; it is kept. *)
FindLeft(t) ==
    LET l == th[t].lk IN
    /\ th[t].at = "left" /\ CanWrite(t, l)
    /\ Become(t, IF node[l].right = th[t].leaf
                 THEN [at |-> "relink", left |-> l, xl |-> {l}]
                 ELSE IF node[l].right # Nil THEN [lk |-> node[l].right] ELSE [at |-> "abandon"])
    /\ UNCHANGED <<node, root, next_pid, ghosts>>

(* Mutant: the separator stays when the child goes. *)
WithoutChild_KeepsKey(p, j) == [node[p] EXCEPT !.kids = RemoveAt(@, j)]
(* remove_key_at: the child and the separator on its left, or on the right  *)
(* of the first.                                                            *)
WithoutChild(p, j) ==
    [node[p] EXCEPT !.seps = RemoveAt(@, IF j = 1 THEN 1 ELSE j - 1), !.kids = RemoveAt(@, j)]

(* The parent again, latched exclusively with the left neighbour held: the  *)
(* downlink goes, then the left neighbour's rightlink.                      *)
Relink(t) ==
    LET p == th[t].pid
        x == th[t].leaf
        l == th[t].left
        j == SelectInSeq(node[p].kids, LAMBDA c : c = x)
    IN
    /\ th[t].at = "relink" /\ CanWrite(t, p)
    /\ IF j = 0 \/ node[p].seps = <<>>
       THEN /\ Become(t, IF j = 0 /\ node[p].right # Nil THEN [pid |-> node[p].right]
                         ELSE [at |-> "abandon", xl |-> {}])
            /\ UNCHANGED <<node, stale, recycled>>
       ELSE /\ node' = [q \in Pid |->
                 CASE q = p -> WithoutChild(p, j)
                   [] q = l /\ l # Nil -> [node[q] EXCEPT !.right = th[t].rk]
                   [] OTHER -> node[q]]
            /\ Stamp({l})
            /\ IF th[t].rk # Nil
               THEN Become(t, [at |-> "splice"]) /\ UNCHANGED recycled
               ELSE Onward(t) /\ recycled' = recycled \cup {x}
    /\ UNCHANGED <<root, next_pid, db, seen, astray>>

(* Mutant: the right neighbour is left as it is. *)
Spliced_Not(t) == node
Spliced(t) == [node EXCEPT ![th[t].rk].prev = th[t].left]

(* The right neighbour's back-link, with the left neighbour still held. *)
Splice(t) ==
    LET r == th[t].rk IN
    /\ th[t].at = "splice" /\ CanWrite(t, r)
    /\ node' = Spliced(t)
    /\ Stamp({r})
    /\ recycled' = recycled \cup {th[t].leaf}
    /\ Onward(t)
    /\ UNCHANGED <<root, next_pid, db, seen, astray>>

(* abandon_unlink *)
Abandon(t) ==
    LET x == th[t].leaf IN
    /\ th[t].at = "abandon" /\ CanWrite(t, x)
    /\ node' = [node EXCEPT ![x].hd = FALSE]
    /\ IF node[x].hd THEN Stamp({x}) ELSE UNCHANGED stale
    /\ Onward(t)
    /\ UNCHANGED <<root, next_pid, recycled, db, seen, astray>>

-----------------------------------------------------------------------------
DeadHere(t) == IF th[t].pid \in Pid THEN node[th[t].pid].dead ELSE {}

Step(t) ==
    \/ Start(t) \/ Descend(t) \/ FindLeaf(t) \/ Get(t) \/ DeleteLook(t) \/ DeleteMark(t)
    \/ OpenScan(t) \/ NextForward(t) \/ NextBackward(t)
    \/ InsertLook(t) \/ InsertFull(t) \/ Split(t)
    \/ \E gone \in SUBSET DeadHere(t) : InsertFits(t, gone)
    \/ FinishSplit(t) \/ GrowRoot(t) \/ RootClear(t) \/ RootSet(t)
    \/ Parent(t) \/ ParentSplit(t) \/ ClearFlag(t)
    \/ FindEdge(t) \/ UnlinkStart(t) \/ UnlinkRoot(t) \/ UnlinkDescend(t) \/ Precheck(t)
    \/ Mark(t) \/ FindLeft(t) \/ Relink(t) \/ Splice(t) \/ Abandon(t)
    \/ \E gone \in SUBSET DeadHere(t) : Sweep(t, gone)

Next == \E t \in Thread : Step(t)

Spec == Init /\ [][Next]_vars

-----------------------------------------------------------------------------
(* Every page is blank, a leaf or an internal page with one child more than *)
(* it has separators; threads hold latches on pages that exist.             *)
TypeOK ==
    /\ \A p \in Pid :
          /\ node[p].kind \in {"none", "leaf", "internal"}
          /\ node[p].live \cup node[p].dead \subseteq Key
          /\ node[p].kind = "internal" => Len(node[p].kids) = Len(node[p].seps) + 1
          /\ (p >= next_pid) = (node[p].kind = "none")
    /\ root \in Pid /\ db \subseteq Key /\ recycled \subseteq Pid
    /\ \A t \in Thread : th[t].xl \cup {th[t].sh} \subseteq 0 .. next_pid - 1

(* Where a search that nobody disturbs ends: it is bounded by the pages. *)
Lookup(k) ==
    LET find[n \in 0 .. 2 * MaxPid, p \in Pid \cup {Nil}] ==
            IF n = 0 \/ p = Nil THEN FALSE
            ELSE IF Above(p, k) THEN find[n - 1, node[p].right]
            ELSE IF node[p].kind = "internal" THEN find[n - 1, ChildFor(p, k)]
            ELSE k \in node[p].live
    IN find[2 * MaxPid, root]

(* Whatever splits, downlink insertions and unlinks are under way, a search *)
(* from the root finds every key that is in the tree, and only those.  Left *)
(* out are the keys a split's thread leads astray: once it has let the new  *)
(* page go it inserts there, or adds its downlink, without a look whether   *)
(* the vacuum has marked or unlinked the page meanwhile.                    *)
EveryKeyFound == \A k \in Key \ astray.keys : Lookup(k) = (k \in db)

(* A lookup or a delete answers what was true at some moment of its run,    *)
(* however the pages under it moved, if the key was not led astray.         *)
AnswersAreRight ==
    \A t \in Thread :
        th[t].at = "done" /\ th[t].job \in {"get", "delete"} /\ th[t].key \notin astray.keys =>
            th[t].answer \in seen[t]

(* What a scan should return when nobody moves. *)
InRange(t, k) == th[t].key = Nil \/ IF th[t].job = "range" THEN k >= th[t].key ELSE k <= th[t].key
Asked(t) ==
    LET ks == SetToSortSeq({k \in db : InRange(t, k)}, <) IN
    IF th[t].job = "range" THEN ks ELSE Reverse(ks)

(* A scan beside which nobody moves returns the entries of its range, all   *)
(* of them and in order, where every split has its downlink: half-dead and  *)
(* empty leaves, dead entries and unlinked pages do not disturb it.         *)
ScanIsExact ==
    (\A p \in Pid : ~node[p].inc) =>
        \A t \in Thread : th[t].at = "done" /\ th[t].quiet => th[t].out = Asked(t)

(* Every key has a leaf: nobody who looks for one runs off the right end of *)
(* the chain, where rightlink().unwrap() panics.                            *)
NobodyPanics == \A t \in Thread : th[t].at # "panic"

(* No page that is on its way to be recycled can be reached any more: no    *)
(* rightlink or back-link of a page in use leads to it, and no downlink but *)
(* the one that a split's thread adds after the page was unlinked.          *)
NoLinkToRecycled ==
    \A p \in Pid \ recycled :
        /\ \A i \in DOMAIN node[p].kids : node[p].kids[i] \notin recycled \ astray.pages
        /\ node[p].right \notin recycled /\ node[p].prev \notin recycled

(* When everybody is done the leaves in use form one chain, with back-links *)
(* that mirror the rightlinks and keys in order, none is left half-dead,    *)
(* and every leaf has its downlink or a left neighbour flagged incomplete.  *)
ChainAtRest ==
    (\A t \in Thread : th[t].at \in {"done", "panic"}) =>
        LET leaves == {p \in Pid : node[p].kind = "leaf"} \ recycled IN
        /\ Cardinality({p \in leaves : node[p].prev = Nil}) = 1
        /\ \A p \in leaves :
              /\ node[p].right # Nil => node[node[p].right].prev = p
              /\ node[p].prev # Nil => node[node[p].prev].right = p
              /\ node[p].right # Nil => node[p].high # Nil
              /\ \A k \in Entries(p) : ~Above(p, k)
              /\ ~node[p].hd
              /\ \/ p = root
                 \/ node[p].prev # Nil /\ node[node[p].prev].inc
                 \/ \E q \in Pid : Contains(node[q].kids, p)

(* What a thread that holds latches is waiting for. *)
Wants(t) ==
    CASE th[t].at = "clear_held" -> th[t].lk
      [] th[t].at \in {"relink", "descend"} -> th[t].pid
      [] th[t].at = "splice" -> th[t].rk
      [] th[t].at = "split" -> node[th[t].pid].right
      [] OTHER -> Nil

(* No two threads wait for each other's latches: "holding an internal latch *)
(* while waiting on a leaf would deadlock against finish_split's            *)
(* leaf->parent order".                                                     *)
NoLatchDeadlock ==
    ~\E t, u \in Thread :
        /\ t # u
        /\ Wants(t) \in th[u].xl
        /\ Wants(u) # Nil /\ Wants(u) \in th[t].xl \cup {th[t].sh}
=============================================================================
