---------------------------- MODULE MCBLinkTree -----------------------------
(* Instances of BLinkTree. *)
EXTENDS BLinkTree

CONSTANTS t1, t2, t3

L(live, dead, high, right, prev) ==
    [Blank EXCEPT !.kind = "leaf", !.live = live, !.dead = dead, !.high = high,
                  !.right = right, !.prev = prev]
I(seps, kids, high, right) ==
    [Blank EXCEPT !.kind = "internal", !.seps = seps, !.kids = kids, !.high = high, !.right = right]

(* A root with three leaves, the middle one with nothing live on it. *)
Flat ==
    [p \in Pid |->
        CASE p = 1 -> I(<<3, 5>>, <<2, 3, 4>>, Nil, Nil)
          [] p = 2 -> L({1}, {2}, 3, 3, Nil)
          [] p = 3 -> L({}, {4}, 5, 4, 2)
          [] p = 4 -> L({5, 7}, {}, Nil, Nil, 3)
          [] OTHER -> Blank]

(* Three levels; the vacuum has left the right-hand internal page one leaf. *)
Tall ==
    [p \in Pid |->
        CASE p = 1 -> I(<<5>>, <<2, 3>>, Nil, Nil)
          [] p = 2 -> I(<<3>>, <<4, 5>>, 5, 3)
          [] p = 3 -> I(<<>>, <<6>>, Nil, Nil)
          [] p = 4 -> L({1}, {2}, 3, 5, Nil)
          [] p = 5 -> L({}, {4}, 5, 6, 4)
          [] p = 6 -> L({}, {5, 7}, Nil, Nil, 5)
          [] OTHER -> Blank]

(* What a crash may leave: a half-dead leaf, and a split without downlink. *)
Crashed ==
    [p \in Pid |->
        CASE p = 1 -> I(<<3, 5>>, <<2, 3, 4>>, Nil, Nil)
          [] p = 2 -> L({1, 2}, {}, 3, 3, Nil)
          [] p = 3 -> [L({}, {}, 5, 4, 2) EXCEPT !.hd = TRUE]
          [] p = 4 -> [L({5}, {}, 7, 5, 3) EXCEPT !.inc = TRUE]
          [] p = 5 -> L({7}, {}, Nil, Nil, 4)
          [] OTHER -> Blank]

MCTrees == {Flat, Tall, Crashed}

J(job, key) == [job |-> job, key |-> key]
Vac == J("vacuum", 0)
Writers == {J("insert", 6), J("insert", 8), J("insert", 3)}
Readers == {J("get", 7), J("get", 4), J("get", 8), J("delete", 5)}
Scans == {J("range", 2), J("range_backward", 7), J("range", 0), J("range_backward", 0)}
(* One insert beside another one, a reader or a scan, and the vacuum. *)
MCJobs ==
    {j \in [Thread -> Writers \cup Readers \cup Scans \cup {Vac}] :
        /\ j[t1] \in Writers /\ j[t3] = Vac
        /\ \/ j[t2] \in Writers /\ j[t1].key < j[t2].key
           \/ j[t2] \in Readers
           \/ j[t2] \in Scans /\ j[t1].key = 6}
=============================================================================
