--------------------------- MODULE ReplicatedUnit ---------------------------
(***************************************************************************)
(* The replicated data path of pkg/cluster for one key of one storage      *)
(* unit: R replica positions, each an independent durable database in      *)
(* shared storage, mounted by whichever node's routing view assigns it.    *)
(* A write fans its envelope out to the routed (member, position) legs and *)
(* is acknowledged at the write bar; a read gathers the legs' answers,     *)
(* picks the newest and repairs the laggers; a scan walks the legs until   *)
(* one serves it; a mount sweeps expired tombstones.  Views lag, nodes     *)
(* restart, answers get lost, a newer open fences an older mount, and a    *)
(* cancelled leg may still land.                                           *)
(*                                                                         *)
(* Source: multibackend_replicated.go, multibackend_pending_route.go,      *)
(* multibackend_union_scan.go, replicate.go,                               *)
(* multibackend_handoff_retry.go, apply_if_newer.go,                       *)
(* stampclock.go, envelope.go, tombstone_purge.go, internal/decide.        *)
(***************************************************************************)
EXTENDS Integers, FiniteSets, Sequences

CONSTANTS
    Nodes,          \* node identifiers: numbers, as NodeID's order breaks stamp ties
    Configs,        \* the deployments considered
    MaxTime,        \* bound on the stamps issued
    Grace,          \* TombstoneGracePeriod
    Locate(_, _)    \* Locate(members, r): the ring's replica chain of the unit

VARIABLES
    conf,           \* the deployment of this behaviour, chosen once
    at,             \* at[n]: index into conf.views of the view node n routes by
    db,             \* db[p]: the envelope stored at position p
    gone,           \* gone[p]: the newest tombstone purged at position p (history)
    fence,          \* fence[p]: the writer epoch of position p
    mount,          \* mount[n][p]: the epoch n has p mounted at, 0 for not mounted
    sweep,          \* the <<n, p>> whose mount has its purge pass still to run
    last,           \* last[n]: stampClock.last of n's process
    wall,           \* wall[n]: a lower bound of n's next wall-clock reading
    seen,           \* seen[n]: the newest stamp n's process acknowledged or returned (history)
    op,             \* op[o]: the client operations
    stray           \* legs still in flight after their attempt returned, and repairs

(* A deployment: the replication factor r, the consistency levels wc and   *)
(* rc, the membership views in the order they happen, the client           *)
(* operations ops, and the bounds: the wall-clock readings, the opens of   *)
(* one position, and the nodes that may restart.                           *)
vars == <<conf, at, db, gone, fence, mount, sweep, last, wall, seen, op, stray>>

-----------------------------------------------------------------------------
(* Envelopes and consistency levels.                                       *)

NoEnvelope == [t |-> 0, n |-> 0, del |-> FALSE]

Envelopes == [t : 0 .. MaxTime, n : Nodes \cup {0}, del : BOOLEAN]

Greater(a, b) == a.t > b.t \/ (a.t = b.t /\ a.n > b.n)

Newest(S) == CHOOSE e \in S : \A f \in S : ~Greater(f, e)

HigherOf(a, b) == IF a >= b THEN a ELSE b

OneShortOfAll(wc, r) == r \div 2 + (IF wc = "quorum" THEN 1 ELSE 0)

requiredWriteAcks(wc, r) ==
    CASE wc = "one" -> 1
      [] wc = "all" -> r
      [] OTHER -> r \div 2 + 1

requiredReadReplicas(rc, r) ==
    CASE rc = "all" -> r
      [] rc = "quorum" -> r \div 2 + 1
      [] OTHER -> 1

-----------------------------------------------------------------------------
(* Routing: the current set excludes the joining members unless that would *)
(* shrink it (the quorum floor), the pending set excludes the draining     *)
(* ones; while they differ an operation addresses the union of their       *)
(* (member, position) pairs, with the bar of the current set alone.        *)

Positions == 1 .. conf.r

View(n) == conf.views[at[n]]

MembersOf(chain) == {chain[i] : i \in DOMAIN chain}

Legs(chain) == {<<chain[i], i>> : i \in DOMAIN chain}

CurrentReplicaSet(view, r) ==
    LET full == Locate(view.members, r)
        joinerExcluded == Locate(view.members \ view.joining, r)
    IN  IF Len(joinerExcluded) < r \/ Len(joinerExcluded) < Len(full)
        THEN full ELSE joinerExcluded

PendingReplicaSet(view, r) ==
    LET drainerExcluded == Locate(view.members \ view.draining, r)
    IN  IF drainerExcluded = <<>> THEN Locate(view.members, r) ELSE drainerExcluded

Route(n) ==
    LET current == CurrentReplicaSet(View(n), conf.r)
        pending == PendingReplicaSet(View(n), conf.r)
        inTransition == MembersOf(current) # MembersOf(pending)
    IN  [stableR |-> Len(current),
         steady  |-> ~inTransition,
         current |-> Legs(current),
         pending |-> IF inTransition THEN Legs(pending) ELSE Legs(current),
         legs    |-> Legs(current) \cup IF inTransition THEN Legs(pending) ELSE {}]

IsCurrent(n, p) == <<n, p>> \in Legs(CurrentReplicaSet(View(n), conf.r))

IsPending(n, p) == <<n, p>> \in Legs(PendingReplicaSet(View(n), conf.r))

-----------------------------------------------------------------------------
(* Client operations.                                                      *)

Ops == DOMAIN conf.ops

Writes == {o \in Ops : conf.ops[o].kind \in {"put", "delete"}}

Reads == Ops \ Writes

Scans == {o \in Ops : conf.ops[o].kind = "scan"}

Guards == {o \in Ops : conf.ops[o].kind = "guard"}

NodeOf(o) == conf.ops[o].node

NoLegs == [l \in {} |-> "sent"]

NotStarted == [pc |-> "idle", env |-> NoEnvelope, floor |-> NoEnvelope,
               bar |-> 0, steady |-> TRUE, out |-> NoLegs, got |-> NoLegs,
               walk |-> <<>>]

Count(o, outcome) == Cardinality({l \in DOMAIN op[o].out : op[o].out[l] = outcome})

Unreported(o) == {l \in DOMAIN op[o].out : op[o].out[l] = "sent"}

Running(o) == op[o].pc = "run"

(* An attempt starts: the routing is resolved afresh and every leg is sent. *)
Attempt(record, route, bar) ==
    [record EXCEPT !.pc = "run", !.bar = bar, !.steady = route.steady,
                   !.out = [l \in route.legs |-> "sent"], !.got = NoLegs]

(* An operation returns; what its legs said is forgotten with it.          *)
Return(record) == [record EXCEPT !.pc = "done", !.out = NoLegs, !.got = NoLegs, !.walk = <<>>]

Failed == [NotStarted EXCEPT !.pc = "failed"]

(* The acknowledged writes a read starting now has to respect. *)
AckedEnvelopes ==
    {NoEnvelope} \cup {op[w].env : w \in {v \in Writes : op[v].pc = "done" /\ op[v].steady}}

ReadLevel(o) ==
    IF o \in Guards /\ conf.rc # "all" THEN "quorum" ELSE conf.rc

-----------------------------------------------------------------------------
Init ==
    /\ conf \in Configs
    /\ at = [n \in Nodes |-> 1]
    /\ db = [p \in Positions |-> NoEnvelope]
    /\ gone = [p \in Positions |-> NoEnvelope]
    /\ fence = [p \in Positions |-> 1]
    /\ mount = [n \in Nodes |-> [p \in Positions |->
                   IF <<n, p>> \in Legs(Locate(conf.views[1].members, conf.r)) THEN 1 ELSE 0]]
    /\ sweep = {}
    /\ last = [n \in Nodes |-> 0]
    /\ wall = [n \in Nodes |-> 1]
    /\ seen = [n \in Nodes |-> 0]
    /\ op = [o \in Ops |-> NotStarted]
    /\ stray = {}

-----------------------------------------------------------------------------
(* Mounts and views.                                                       *)

Learn(n) ==
    /\ at[n] < Len(conf.views)
    /\ n \in conf.views[at[n] + 1].members
    /\ at' = [at EXCEPT ![n] = @ + 1]
    /\ UNCHANGED <<conf, db, gone, fence, mount, sweep, last, wall, seen, op, stray>>

TombstonePurge(r, requiredAcks) == Grace > 0 /\ r > 1 /\ requiredAcks = r

(* Opening a position raises its writer epoch, so every older mount of it  *)
(* is fenced from here on; the mount seam starts the purge pass.           *)
Acquire(n, p) ==
    /\ IsPending(n, p)
    /\ mount[n][p] = 0
    /\ fence[p] < conf.maxEpoch
    /\ fence' = [fence EXCEPT ![p] = @ + 1]
    /\ mount' = [mount EXCEPT ![n][p] = fence[p] + 1]
    /\ sweep' = IF TombstonePurge(conf.r, requiredWriteAcks(conf.wc, conf.r))
                THEN sweep \cup {<<n, p>>} ELSE sweep
    /\ UNCHANGED <<conf, at, db, gone, last, wall, seen, op, stray>>

(* Serving(n, p): n's mount of p is the newest open of that database.      *)
Serving(n, p) == mount[n][p] # 0 /\ mount[n][p] = fence[p]

Fenced(n, p) == mount[n][p] # 0 /\ mount[n][p] < fence[p]

(* A mount in neither placement is released, a draining one once its       *)
(* successor has opened (OverlapHandoff has the protocol between the two). *)
Release(n, p) ==
    /\ mount[n][p] # 0
    /\ ~IsPending(n, p)
    /\ ~IsCurrent(n, p) \/ Fenced(n, p)
    /\ mount' = [mount EXCEPT ![n][p] = 0]
    /\ sweep' = sweep \ {<<n, p>>}
    /\ UNCHANGED <<conf, at, db, gone, fence, last, wall, seen, op, stray>>

(* An operation that meets a fenced mount drops it, unless the position    *)
(* may be draining here: evictIfSame leaves a losing phase alone.          *)
Refused(n, p) ==
    \/ Fenced(n, p) /\ mount' = [mount EXCEPT ![n][p] = 0] /\ sweep' = sweep \ {<<n, p>>}
    \/ Fenced(n, p) /\ ~IsPending(n, p) /\ UNCHANGED <<mount, sweep>>
    \/ mount[n][p] = 0 /\ UNCHANGED <<mount, sweep>>

-----------------------------------------------------------------------------
(* The stamp clock: Next is max(wall clock, last + 1), Observe ratchets.   *)

Readings(n) == {t \in conf.clock : t >= wall[n]}

StampByWallClock(n, now) == now

StampNext(n, now) == HigherOf(now, last[n] + 1)

Observed(n, S) == [last EXCEPT ![n] = Newest({[t |-> s, n |-> 0] : s \in S \cup {@}}).t]

-----------------------------------------------------------------------------
(* The write path.                                                         *)

BeginWrite(o) ==
    /\ op[o].pc = "idle"
    /\ LET n == NodeOf(o) IN
       \E now \in Readings(n) :
         LET t == StampNext(n, now)
             route == Route(n)
             env == [t |-> t, n |-> n, del |-> conf.ops[o].kind = "delete"]
         IN  /\ t <= MaxTime
             /\ last' = [last EXCEPT ![n] = t]
             /\ wall' = [wall EXCEPT ![n] = now]
             /\ op' = [op EXCEPT ![o] = Attempt([@ EXCEPT !.env = env], route,
                                                requiredWriteAcks(conf.wc, route.stableR))]
    /\ UNCHANGED <<conf, at, db, gone, fence, mount, sweep, seen, stray>>

(* applyEnvelopesTx at a serving position: observe the incoming stamp and  *)
(* the stored one, store the envelope if it is the newer.                  *)
StoredUnconditionally(p, env) == env

Stored(p, env) == IF Greater(env, db[p]) THEN env ELSE db[p]

ApplyIfNewer(n, p, env) ==
    /\ Serving(n, p)
    /\ db' = [db EXCEPT ![p] = Stored(p, env)]
    /\ last' = Observed(n, {env.t, db[p].t})
    /\ UNCHANGED <<mount, sweep>>

Reported(o, l, outcome) == op' = [op EXCEPT ![o].out[l] = outcome]

(* A leg is applied; its answer arrives, or is lost after it was applied.  *)
WriteLands(o, l) ==
    /\ Running(o) /\ l \in Unreported(o)
    /\ ApplyIfNewer(l[1], l[2], op[o].env)
    /\ Reported(o, l, "ack") \/ (l[1] # NodeOf(o) /\ Reported(o, l, "hard"))
    /\ UNCHANGED <<conf, at, gone, fence, wall, seen, stray>>

(* Not mounted or fenced there: the acquiring refusal, a transient.        *)
WriteRefused(o, l) ==
    /\ Running(o) /\ l \in Unreported(o)
    /\ Refused(l[1], l[2])
    /\ Reported(o, l, "transient")
    /\ UNCHANGED <<conf, at, db, gone, fence, last, wall, seen, stray>>

WriteUnreachable(o, l) ==
    /\ Running(o) /\ l \in Unreported(o)
    /\ l[1] # NodeOf(o)
    /\ Reported(o, l, "hard")
    /\ UNCHANGED <<conf, at, db, gone, fence, mount, sweep, last, wall, seen, stray>>

(* fanout returns at the bar, when the bar is out of reach, or once every  *)
(* leg has reported; classifyWriteAttempt judges what it counted.          *)
Decided(o) ==
    \/ Count(o, "ack") >= op[o].bar
    \/ Count(o, "hard") > Cardinality(DOMAIN op[o].out) - op[o].bar
    \/ Unreported(o) = {}

Abandoned(o) == {[env |-> op[o].env, leg |-> l] : l \in Unreported(o)}

(* The attempt's context is cancelled as it returns: a leg still in flight *)
(* may be torn down or may land.                                           *)
WriteAcked(o) ==
    /\ Running(o)
    /\ Count(o, "ack") >= op[o].bar
    /\ op' = [op EXCEPT ![o] = Return(@)]
    /\ seen' = [seen EXCEPT ![NodeOf(o)] = HigherOf(@, op[o].env.t)]
    /\ stray' = stray \cup Abandoned(o)
    /\ UNCHANGED <<conf, at, db, gone, fence, mount, sweep, last, wall>>

WriteRetry(o) ==
    /\ Running(o)
    /\ Decided(o)
    /\ Count(o, "ack") < op[o].bar
    /\ Count(o, "hard") = 0
    /\ LET route == Route(NodeOf(o)) IN
       op' = [op EXCEPT ![o] = Attempt(@, route, requiredWriteAcks(conf.wc, route.stableR))]
    /\ UNCHANGED <<conf, at, db, gone, fence, mount, sweep, last, wall, seen, stray>>

(* A hard failure with the bar missed, or the write timeout.               *)
WriteFails(o) ==
    /\ Running(o)
    /\ Count(o, "ack") < op[o].bar
    /\ op' = [op EXCEPT ![o] = Failed]
    /\ stray' = stray \cup Abandoned(o)
    /\ UNCHANGED <<conf, at, db, gone, fence, mount, sweep, last, wall, seen>>

(* A leg of an attempt that has returned, or a read repair, lands.         *)
StrayLands(s) ==
    /\ ApplyIfNewer(s.leg[1], s.leg[2], s.env)
    /\ stray' = stray \ {s}
    /\ UNCHANGED <<conf, at, gone, fence, wall, seen, op>>

-----------------------------------------------------------------------------
(* The read path.                                                          *)

BeginRead(o) ==
    /\ op[o].pc = "idle"
    /\ LET route == Route(NodeOf(o))
           n == requiredReadReplicas(ReadLevel(o), route.stableR)
       IN  op' = [op EXCEPT ![o] = Attempt([@ EXCEPT !.floor = Newest(AckedEnvelopes)], route, n)]
    /\ UNCHANGED <<conf, at, db, gone, fence, mount, sweep, last, wall, seen, stray>>

(* localReadBackendForReplicaUnit: the position asked for, else the lowest *)
(* position this node has mounted.                                         *)
ReadPosition(n, p) ==
    IF mount[n][p] # 0 \/ \A q \in Positions : mount[n][q] = 0 THEN p
    ELSE CHOOSE q \in Positions : /\ mount[n][q] # 0
                                  /\ \A k \in Positions : mount[n][k] # 0 => q <= k

(* The first n usable answers are gathered, absent or not; after them only *)
(* values, and none at ReadNearest.                                        *)
Gathered(o, l, env) ==
    LET got == op[o].got
        keep == \/ Cardinality(DOMAIN got) < op[o].bar
                \/ env # NoEnvelope /\ ReadLevel(o) # "nearest"
    IN  IF keep THEN [k \in DOMAIN got \cup {l} |-> IF k = l THEN env ELSE got[k]] ELSE got

ReadAnswered(o, l) ==
    /\ Running(o) /\ l \in Unreported(o)
    /\ LET p == ReadPosition(l[1], l[2]) IN
       /\ Serving(l[1], p)
       /\ op' = [op EXCEPT ![o].out[l] = "answer", ![o].got = Gathered(o, l, db[p])]
    /\ UNCHANGED <<conf, at, db, gone, fence, mount, sweep, last, wall, seen, stray>>

ReadRefused(o, l) ==
    /\ Running(o) /\ l \in Unreported(o)
    /\ Refused(l[1], ReadPosition(l[1], l[2]))
    /\ Reported(o, l, "transient")
    /\ UNCHANGED <<conf, at, db, gone, fence, last, wall, seen, stray>>

(* The peer is down (skipped), or the leg fails otherwise (reported when   *)
(* nothing answered).                                                      *)
ReadUnreachable(o, l) ==
    /\ Running(o) /\ l \in Unreported(o)
    /\ l[1] # NodeOf(o)
    /\ Reported(o, l, "unreachable") \/ Reported(o, l, "hard")
    /\ UNCHANGED <<conf, at, db, gone, fence, mount, sweep, last, wall, seen, stray>>

Answers(o) == {op[o].got[l] : l \in DOMAIN op[o].got}

Winner(o) == Newest(Answers(o))

(* scheduleReadRepairUnit: the members that answered with less are sent    *)
(* the winner, each at the last position the route holds for it.           *)
Repairs(o) ==
    LET route == Route(NodeOf(o))
        laggers == {l[1] : l \in {k \in DOMAIN op[o].got : Greater(Winner(o), op[o].got[k])}}
        last_of(m) == IF \E l \in route.pending : l[1] = m THEN route.pending ELSE route.current
    IN  IF ReadLevel(o) = "nearest" THEN {}
        ELSE {[env |-> Winner(o), leg |-> l] :
                 l \in UNION {{k \in last_of(m) : k[1] = m} : m \in laggers}}

AnyAnswerProves(o) == TRUE

ProvesAbsence(o) == o \in Guards => Cardinality(DOMAIN op[o].got) >= op[o].bar

(* Every leg has reported and some answered: the newest answer wins; for a *)
(* guard an absence that fewer than n replicas attest is an error.         *)
ReadDone(o) ==
    /\ Running(o)
    /\ Unreported(o) = {}
    /\ DOMAIN op[o].got # {}
    /\ LET absent == Winner(o) = NoEnvelope
           n == NodeOf(o)
       IN  /\ op' = [op EXCEPT ![o] = IF absent /\ ~ProvesAbsence(o) THEN Failed
                                     ELSE Return([@ EXCEPT !.env = Winner(o)])]
           /\ last' = Observed(n, {Winner(o).t})
           /\ seen' = [seen EXCEPT ![n] = HigherOf(@, Winner(o).t)]
           /\ stray' = IF absent THEN stray ELSE stray \cup Repairs(o)
    /\ UNCHANGED <<conf, at, db, gone, fence, mount, sweep, wall>>

(* Nobody answered: retried while the legs were acquiring or unreachable.  *)
ReadRetry(o) ==
    /\ Running(o)
    /\ Unreported(o) = {}
    /\ DOMAIN op[o].got = {}
    /\ Count(o, "hard") = 0
    /\ LET route == Route(NodeOf(o)) IN
       op' = [op EXCEPT ![o] = Attempt(@, route, requiredReadReplicas(ReadLevel(o), route.stableR))]
    /\ UNCHANGED <<conf, at, db, gone, fence, mount, sweep, last, wall, seen, stray>>

ReadFails(o) ==
    /\ Running(o)
    /\ Unreported(o) = {}
    /\ DOMAIN op[o].got = {}
    /\ op' = [op EXCEPT ![o] = Failed]
    /\ UNCHANGED <<conf, at, db, gone, fence, mount, sweep, last, wall, seen, stray>>

-----------------------------------------------------------------------------
(* The scan path.  A scan is served whole by one replica: the routed union *)
(* is walked current first, one leg per member, until a leg serves.        *)

(* The walk: the current chain, then the pending members it leaves out.    *)
ScanLegs(n) ==
    LET view == View(n)
        current == CurrentReplicaSet(view, conf.r)
        pending == PendingReplicaSet(view, conf.r)
        legsOf(chain, S) == SelectSeq([i \in DOMAIN chain |-> <<chain[i], i>>], LAMBDA l : l[1] \in S)
    IN  legsOf(current, Nodes) \o legsOf(pending, Nodes \ MembersOf(current))

Walk(o, record) ==
    [record EXCEPT !.pc = "run", !.bar = 1, !.walk = ScanLegs(NodeOf(o)), !.out = NoLegs]

BeginScan(o) ==
    /\ op[o].pc = "idle"
    /\ op' = [op EXCEPT ![o] = Walk(o, [@ EXCEPT !.floor = Newest(AckedEnvelopes)])]
    /\ UNCHANGED <<conf, at, db, gone, fence, mount, sweep, last, wall, seen, stray>>

ScanLeg(o) == Head(op[o].walk)

(* LocalReplicaScanAt: from what the member physically holds.              *)
ScanServed(o) ==
    /\ Running(o) /\ op[o].walk # <<>>
    /\ LET n == ScanLeg(o)[1]
           p == ReadPosition(n, ScanLeg(o)[2])
       IN  /\ Serving(n, p)
           /\ op' = [op EXCEPT ![o] = Return([@ EXCEPT !.env = db[p]])]
    /\ UNCHANGED <<conf, at, db, gone, fence, mount, sweep, last, wall, seen, stray>>

Passed(o, outcome) ==
    op' = [op EXCEPT ![o].walk = Tail(@),
                     ![o].out = [l \in DOMAIN @ \cup {ScanLeg(o)} |->
                                   IF l = ScanLeg(o) THEN outcome ELSE @[l]]]

(* openRemoteUnionScanLeg primes the first message, so that a member that  *)
(* refuses or cannot be reached is passed over before anything is handed   *)
(* to the caller.                                                          *)
ScanPasses(o) ==
    /\ Running(o) /\ op[o].walk # <<>>
    /\ LET n == ScanLeg(o)[1] IN
       \/ /\ Refused(n, ReadPosition(n, ScanLeg(o)[2]))
          /\ Passed(o, "transient")
       \/ /\ n # NodeOf(o)
          /\ Passed(o, "unreachable") \/ Passed(o, "hard")
          /\ UNCHANGED <<mount, sweep>>
    /\ UNCHANGED <<conf, at, db, gone, fence, last, wall, seen, stray>>

(* No leg served: walked again unless one failed hard, within the budget.  *)
ScanEnds(o) ==
    /\ Running(o) /\ op[o].walk = <<>>
    /\ \/ Count(o, "hard") = 0 /\ op' = [op EXCEPT ![o] = Walk(o, @)]
       \/ op' = [op EXCEPT ![o] = Failed]
    /\ UNCHANGED <<conf, at, db, gone, fence, mount, sweep, last, wall, seen, stray>>

-----------------------------------------------------------------------------
(* Restarts and the purge pass.                                            *)

(* A process dies and starts again with nothing mounted and its stamp      *)
(* clock at zero; what it had sent is on its own.                          *)
Restart(n) ==
    /\ n \in conf.restarting
    /\ LET mine == {o \in Ops : NodeOf(o) = n /\ Running(o)} IN
       /\ op' = [o \in Ops |-> IF o \in mine THEN Failed ELSE op[o]]
       /\ stray' = stray \cup UNION {Abandoned(o) : o \in mine \cap Writes}
    /\ mount' = [mount EXCEPT ![n] = [p \in Positions |-> 0]]
    /\ sweep' = {s \in sweep : s[1] # n}
    /\ last' = [last EXCEPT ![n] = 0]
    /\ seen' = [seen EXCEPT ![n] = 0]
    /\ UNCHANGED <<conf, at, db, gone, fence, wall>>

TombstoneExpired(env, now) == env.t # 0 /\ now > env.t /\ now - env.t > Grace

(* The grace period outlasts every request: nothing older than a tombstone *)
(* that has expired is still on its way.                                   *)
NoOlderInFlight(env) ==
    /\ \A s \in stray : ~Greater(env, s.env)
    /\ \A o \in Writes : Running(o) => ~Greater(env, op[o].env)

PurgeOneTombstone(n, p) ==
    /\ <<n, p>> \in sweep
    /\ Serving(n, p)
    /\ db[p].del
    /\ NoOlderInFlight(db[p])
    /\ \E now \in Readings(n) :
         /\ TombstoneExpired(db[p], now)
         /\ wall' = [wall EXCEPT ![n] = now]
    /\ db' = [db EXCEPT ![p] = NoEnvelope]
    /\ gone' = [gone EXCEPT ![p] = Newest({@, db[p]})]
    /\ sweep' = sweep \ {<<n, p>>}
    /\ UNCHANGED <<conf, at, fence, mount, last, seen, op, stray>>

Next ==
    \/ \E n \in Nodes : Learn(n) \/ Restart(n)
    \/ \E n \in Nodes, p \in Positions : Acquire(n, p) \/ Release(n, p) \/ PurgeOneTombstone(n, p)
    \/ \E o \in Writes : BeginWrite(o) \/ WriteAcked(o) \/ WriteRetry(o) \/ WriteFails(o)
    \/ \E o \in Writes, l \in Nodes \X Positions :
          WriteLands(o, l) \/ WriteRefused(o, l) \/ WriteUnreachable(o, l)
    \/ \E o \in Scans : BeginScan(o) \/ ScanServed(o) \/ ScanPasses(o) \/ ScanEnds(o)
    \/ \E o \in Reads \ Scans : BeginRead(o) \/ ReadDone(o) \/ ReadRetry(o) \/ ReadFails(o)
    \/ \E o \in Reads \ Scans, l \in Nodes \X Positions :
          ReadAnswered(o, l) \/ ReadRefused(o, l) \/ ReadUnreachable(o, l)
    \/ \E s \in stray : StrayLands(s)

Spec == Init /\ [][Next]_vars

-----------------------------------------------------------------------------
(* Properties.                                                             *)

(* An acknowledged write is held, as itself or as something newer, by as   *)
(* many distinct databases as the write consistency asks of R, for ever:   *)
(* whatever older legs, retries or repairs land later, after the tombstone *)
(* that covered it was purged, and with every member still warming up.     *)
(* (A write routed outside a transition.)                                  *)
Covers(p, env) == ~Greater(env, db[p]) \/ ~Greater(env, gone[p])

AckedHeld ==
    \A o \in Writes : op[o].pc = "done" /\ op[o].steady =>
        Cardinality({p \in Positions : Covers(p, op[o].env)})
            >= requiredWriteAcks(conf.wc, conf.r)

(* guardGet answers "absent" only if no value was acknowledged before it   *)
(* began that nothing has deleted since.                                   *)
GuardedAbsence ==
    \A o \in Guards : op[o].pc = "done" /\ op[o].env = NoEnvelope =>
        \/ op[o].floor = NoEnvelope \/ op[o].floor.del
        \/ \E p \in Positions : Greater(gone[p], op[o].floor)

(* Where every replica has to acknowledge, a read or a scan that starts    *)
(* after an acknowledged write returns it or something newer whichever     *)
(* replicas answer, through restarts and joins, and after an acknowledged  *)
(* delete never the value deleted, even once the tombstone is purged.      *)
AckedIsRead ==
    conf.wc = "all" =>
        \A o \in Reads : op[o].pc = "done" =>
            \/ ~Greater(op[o].floor, op[o].env)
            \/ op[o].env = NoEnvelope /\ \E p \in Positions : ~Greater(op[o].floor, gone[p])

(* A process stamps each new write above everything it has acknowledged or *)
(* returned since it started, so a client's later write through the same   *)
(* node never loses to what that client was told before.                   *)
StampedAboveSeen ==
    [][\A o \in Writes : op[o].pc = "idle" /\ op'[o].pc = "run" =>
          op'[o].env.t > seen[NodeOf(o)]]_vars
=============================================================================
