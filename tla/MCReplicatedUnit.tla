-------------------------- MODULE MCReplicatedUnit --------------------------
(* Instances of ReplicatedUnit for TLC. *)
EXTENDS ReplicatedUnit, SequencesExt

(* The unit's ring order; a chain is its first r members. *)
RingOrder == <<4, 1, 2, 3>>

MCLocate(members, r) ==
    LET chain == SelectSeq(RingOrder, LAMBDA n : n \in members)
    IN  SubSeq(chain, 1, IF r < Len(chain) THEN r ELSE Len(chain))

Stable(members) == [members |-> members, joining |-> {}, draining |-> {}]

Do(kind, node) == [kind |-> kind, node |-> node]

(* Quorum reads and writes on three replicas. *)
Quorum3 == [r |-> 3, wc |-> "quorum", rc |-> "quorum", views |-> <<Stable({1, 2, 3})>>,
            clock |-> {1}, maxEpoch |-> 2, restarting |-> {2},
            ops |-> [w |-> Do("put", 1), g |-> Do("guard", 3)]]

(* Deletes acknowledged by both replicas, reads by any one of them. *)
All2 == [r |-> 2, wc |-> "all", rc |-> "nearest", views |-> <<Stable({1, 2})>>,
         clock |-> {1, 4}, maxEpoch |-> 2, restarting |-> {1},
         ops |-> [w |-> Do("put", 1), d |-> Do("delete", 2), g |-> Do("get", 1)]]

(* Node 4 joins ahead of 1 and 2: its position 1 is node 1's until then. *)
Join2 == [r |-> 2, wc |-> "all", rc |-> "quorum",
          views |-> <<Stable({1, 2}),
                      [members |-> {1, 2, 4}, joining |-> {4}, draining |-> {}],
                      Stable({1, 2, 4})>>,
          clock |-> {1}, maxEpoch |-> 2, restarting |-> {},
          ops |-> [w |-> Do("put", 2)]]

(* A scan while the join is under way. *)
Scan2 == [Join2 EXCEPT !.views = SubSeq(@, 1, 2),
                       !.ops = [w |-> Do("put", 2), s |-> Do("scan", 2)]]

(* Every member is still warming up. *)
Boot2 == [r |-> 2, wc |-> "all", rc |-> "quorum",
          views |-> <<[members |-> {1, 2}, joining |-> {1, 2}, draining |-> {}]>>,
          clock |-> {1}, maxEpoch |-> 2, restarting |-> {},
          ops |-> [w |-> Do("put", 1)]]

MCConfigs == {Quorum3, All2, Join2, Scan2, Boot2}

=============================================================================
