-------------------------- MODULE MCCasTransactions --------------------------
(* Small instances of CasTransactions for TLC.                             *)
EXTENDS CasTransactions

Stable(ring) == [owner |-> ring[1], ring |-> ring,
                 routed |-> {<<ring[p], p>> : p \in DOMAIN ring}]

Caller(n) == [node |-> n, blind |-> FALSE]

BlindCaller(n) == [node |-> n, blind |-> TRUE]

(* Two replicas, durable acknowledgement, one caller beside the owner and  *)
(* one remote, answers lost, the owner may crash.                          *)
Durable == [views |-> <<Stable(<<1, 2>>)>>, w |-> 2, rl |-> 1, fastAck |-> FALSE,
            clients |-> [c \in {"a", "b"} |-> IF c = "a" THEN Caller(1) ELSE Caller(2)],
            wall |-> << <<1, 3>>, <<1, 3>>, <<1, 3>> >>,
            attempts |-> 2, runs |-> 1, crash |-> {1}, lossy |-> TRUE]

(* Node 3 joins, opens position 1 while node 1 is still the designated     *)
(* owner, then becomes the owner; its clock is behind node 1's.            *)
Takeover == [views |-> << Stable(<<1, 2>>),
                          [owner |-> 1, ring |-> <<3, 2>>,
                           routed |-> {<<1, 1>>, <<2, 2>>, <<3, 1>>}],
                          Stable(<<3, 2>>) >>,
             w |-> 2, rl |-> 1, fastAck |-> FALSE,
             clients |-> [c \in {"a", "b"} |-> IF c = "a" THEN Caller(1) ELSE BlindCaller(1)],
             wall |-> << <<4, 4>>, <<1, 1>>, <<1, 1>> >>,
             attempts |-> 1, runs |-> 1, crash |-> {}, lossy |-> FALSE]

(* A backend acknowledging at memtable insert: a flush can be under way    *)
(* while the other caller's commit arrives.                                *)
FastAck == [views |-> <<Stable(<<1, 2>>)>>, w |-> 2, rl |-> 1, fastAck |-> TRUE,
            clients |-> [c \in {"a", "b"} |-> IF c = "a" THEN Caller(1) ELSE BlindCaller(2)],
            wall |-> << <<1, 3>>, <<1, 3>>, <<1, 3>> >>,
            attempts |-> 2, runs |-> 1, crash |-> {}, lossy |-> TRUE]

MCConfigs == {Durable, Takeover, FastAck}

=============================================================================
