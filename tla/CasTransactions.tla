--------------------------- MODULE CasTransactions ---------------------------
(***************************************************************************)
(* Optimistic transactions over one key of a replicated storage unit.      *)
(* Transact runs fn (read the key by a routed Get, buffer a write), hands  *)
(* the read-set and write-set to the unit's designated owner, and re-runs  *)
(* fn on a conflict or a retryable status.  The owner validates against    *)
(* its own copy and commits under casCommitMu, fans the envelope out to    *)
(* the other replicas after releasing it, and on a shortfall flushes its   *)
(* own copy through the per-backend flush group before reporting success.  *)
(* Answers get lost, nodes crash, an owner is fenced by its successor.     *)
(*                                                                         *)
(* Source: pkg/cluster cas.go, castx.go, cas_flushgroup.go,                *)
(* cas_transition.go, apply_batch.go, pkg/rpc/cas_server.go.               *)
(***************************************************************************)
EXTENDS Integers, FiniteSets, Sequences

CONSTANTS
    Clients,        \* callers of Transact, one transaction each
    Nodes,          \* node identifiers: numbers, as NodeID's order breaks stamp ties
    Configs         \* the deployments considered

VARIABLES
    conf,           \* the deployment of this behaviour, chosen once
    at,             \* at[n]: index into conf.views of the view node n routes by
    fence,          \* fence[p]: the writer epoch of position p
    mount,          \* mount[n][p]: the epoch n has p mounted at, 0 for not mounted
    mem,            \* mem[n][p]: what n's handle on p reads (memtable over storage)
    disk,           \* disk[p]: what position p's database holds durably
    last,           \* last[n]: stampClock.last of n's process
    flight,         \* ApplyBatch legs and read repairs under way
    tx,             \* tx[c]: the state of c's Transact call
    group,          \* group[n][p]: flushGroupState of n's handle on p
    down,           \* nodes whose one permitted crash has happened
    log             \* the owner-local commits in the order they happened (history)

(* A deployment: views, each with the designated owner, the ring's members *)
(* by position and the routed (member, position) legs; the write bar w and *)
(* the read level rl; fastAck for a backend that acknowledges at memtable  *)
(* insert; the coordinator and kind of every client's transaction; wall,   *)
(* the nodes' clock readings before and after a restart; and the bounds:   *)
(* attempts and runs stand for CASMaxAttempts and                          *)
(* transactRetryableMaxRuns, crash for the nodes that may crash once,      *)
(* lossy for answers that may get lost.                                    *)
vars == <<conf, at, fence, mount, mem, disk, last, flight, tx, group, down, log>>

-----------------------------------------------------------------------------
(* Envelopes: a stamp and a payload.  fn appends its caller to the payload *)
(* it read, so a payload is the history of the transactions it contains.   *)

NoEnvelope == [t |-> 0, n |-> 0, payload |-> <<>>]

Greater(a, b) == a.t > b.t \/ (a.t = b.t /\ a.n > b.n)

Newest(S) == CHOOSE e \in S : \A f \in S : ~Greater(f, e)

HigherOf(a, b) == IF a >= b THEN a ELSE b

Positions == DOMAIN conf.views[1].ring

View(n) == conf.views[at[n]]

casDesignatedOwner(n) == View(n).owner

Live(n, p) == mount[n][p] > 0 /\ mount[n][p] = fence[p]

(* localWriteBackendForKey: the position the ring gives n when mounted,    *)
(* else the lowest mounted position; 0 when the unit is being acquired.    *)
localWritePosition(n) ==
    LET mounted == {p \in Positions : mount[n][p] > 0}
        own == {p \in mounted : View(n).ring[p] = n}
        least(S) == CHOOSE p \in S : \A q \in S : p <= q
    IN  CASE own # {} -> least(own)
          [] own = {} /\ mounted # {} -> least(mounted)
          [] OTHER -> 0

Writable(n) == localWritePosition(n) # 0 /\ Live(n, localWritePosition(n))

(* Replicas of the current route other than the committing node, one leg   *)
(* per member; and the committing node's own further positions.            *)
Others(n) == {leg[1] : leg \in View(n).routed} \ {n}

OwnFurther(n, p) == {leg[2] : leg \in {l \in View(n).routed : l[1] = n /\ l[2] # p}}

-----------------------------------------------------------------------------
NotStarted == [pc |-> "idle", read |-> <<>>, at |-> 0, pos |-> 0, env |-> NoEnvelope,
               acked |-> {}, own |-> 0, verdict |-> "none",
               attempt |-> 0, runs |-> 0, unheard |-> 0, out |-> "none"]

(* tx[c].unheard counts the runs that committed and were reported as       *)
(* something else (history).                                               *)

NoFlush == [flushing |-> FALSE, pending |-> {}, batch |-> {}, held |-> NoEnvelope]

Coordinator(c) == conf.clients[c].node

Blind(c) == conf.clients[c].blind

Init ==
    /\ conf \in Configs
    /\ at = [n \in Nodes |-> 1]
    /\ fence = [p \in Positions |-> 1]
    /\ mount = [n \in Nodes |-> [p \in Positions |->
                    IF conf.views[1].ring[p] = n THEN 1 ELSE 0]]
    /\ mem = [n \in Nodes |-> [p \in Positions |-> NoEnvelope]]
    /\ disk = [p \in Positions |-> NoEnvelope]
    /\ last = [n \in Nodes |-> 0]
    /\ flight = {}
    /\ tx = [c \in DOMAIN conf.clients |-> NotStarted]
    /\ group = [n \in Nodes |-> [p \in Positions |-> NoFlush]]
    /\ down = {}
    /\ log = <<>>

storage == <<fence, mount, mem, disk>>

-----------------------------------------------------------------------------
(* Transact's loop over the verdict of one commit.                         *)

Done(c, out) == [tx[c] EXCEPT !.pc = "done", !.out = out, !.verdict = "none",
                              !.acked = {}, !.read = <<>>, !.at = 0, !.pos = 0, !.own = 0]

Rerun(c) == [tx[c] EXCEPT !.pc = "read", !.verdict = "none", !.env = NoEnvelope,
                          !.acked = {}, !.read = <<>>, !.at = 0, !.pos = 0, !.own = 0]

AfterVerdict(c, v) ==
    CASE v = "committed" -> Done(c, "ok")
      [] v = "conflict" /\ tx[c].attempt + 1 < conf.attempts -> [Rerun(c) EXCEPT !.attempt = @ + 1]
      [] v = "conflict" /\ tx[c].attempt + 1 = conf.attempts -> Done(c, "conflict")
      [] v = "retryable" /\ tx[c].runs < conf.runs -> [Rerun(c) EXCEPT !.runs = @ + 1]
      [] v = "retryable" /\ tx[c].runs = conf.runs -> Done(c, "exhausted")
      [] v = "error" -> Done(c, "error")

(* A commit has its verdict at the owner: the caller on the same node has  *)
(* it at once, a remote caller waits for the response, where a flush error *)
(* travels as text and is no longer recognisable as a fence.               *)
Conclude(c, v) ==
    LET t == IF tx[c].at = Coordinator(c)
             THEN AfterVerdict(c, IF v = "fenced" THEN "retryable" ELSE v)
             ELSE [tx[c] EXCEPT !.pc = "answer", !.verdict = IF v = "fenced" THEN "error" ELSE v]
    IN  [t EXCEPT !.unheard = @ + (IF v \in {"fenced", "error"} THEN 1 ELSE 0)]

Start(c) ==
    /\ tx[c].pc = "idle"
    /\ tx' = [tx EXCEPT ![c].pc = "read"]
    /\ UNCHANGED <<conf, at, storage, last, flight, group, down, log>>

(* fn's tx.Get: the routed read at the read level.  It returns the newest  *)
(* of the answers, observes it, and schedules the repair of older copies.  *)
TxGet(c) ==
    /\ tx[c].pc = "read" /\ ~Blind(c)
    /\ \E Q \in SUBSET {l \in View(Coordinator(c)).routed : Live(l[1], l[2])} :
         /\ Cardinality(Q) = conf.rl
         /\ LET seen == {mem[l[1]][l[2]] : l \in Q}
                win  == Newest(seen)
            IN  /\ tx' = [tx EXCEPT ![c].read = win.payload, ![c].pc = "commit"]
                /\ flight' = flight \cup {[env |-> win, to |-> l[1], leg |-> FALSE] :
                                 l \in {q \in Q : Greater(win, mem[q[1]][q[2]])}}
                /\ last' = [last EXCEPT ![Coordinator(c)] = HigherOf(@, win.t)]
    /\ UNCHANGED <<conf, at, storage, group, down, log>>

(* A tx with no read: fn only buffers a write.                             *)
TxBlind(c) ==
    /\ tx[c].pc = "read" /\ Blind(c)
    /\ tx' = [tx EXCEPT ![c].pc = "commit"]
    /\ UNCHANGED <<conf, at, storage, last, flight, group, down, log>>

(* The routed read failed: fn returns the error and Transact aborts.       *)
TxGetFails(c) ==
    /\ tx[c].pc = "read" /\ ~Blind(c)
    /\ Cardinality({l \in View(Coordinator(c)).routed : Live(l[1], l[2])}) < conf.rl
    /\ tx' = [tx EXCEPT ![c] = Done(c, "error")]
    /\ UNCHANGED <<conf, at, storage, last, flight, group, down, log>>

(* commitCAS: in process when this node is the designated owner, else a    *)
(* CommitCAS request to the owner.                                         *)
Dispatch(c) ==
    /\ tx[c].pc = "commit"
    /\ LET o == casDesignatedOwner(Coordinator(c))
       IN  tx' = [tx EXCEPT ![c].at = o,
                            ![c].pc = IF o = Coordinator(c) THEN "apply" ELSE "sent"]
    /\ UNCHANGED <<conf, at, storage, last, flight, group, down, log>>

(* The CommitCAS handler's OwnsCASPin gate.                                *)
CommitCAS(c) ==
    /\ tx[c].pc = "sent"
    /\ tx' = [tx EXCEPT ![c] = IF casDesignatedOwner(@.at) = @.at
                               THEN [@ EXCEPT !.pc = "apply"]
                               ELSE Conclude(c, "retryable")]
    /\ UNCHANGED <<conf, at, storage, last, flight, group, down, log>>

-----------------------------------------------------------------------------
(* CommitCASApply: validate, stamp and commit under casCommitMu, one step. *)

Evicted(n, p) == [mount EXCEPT ![n][p] = 0]

(* errUnitAcquiring (nothing mounted) or a fenced transaction, recoded to  *)
(* the transient status with the stale mount evicted: nothing applied.     *)
CommitRefused(c) ==
    LET o == tx[c].at
        p == localWritePosition(o)
    IN  /\ tx[c].pc = "apply"
        /\ ~Writable(o)
        /\ mount' = IF p = 0 THEN mount ELSE Evicted(o, p)
        /\ tx' = [tx EXCEPT ![c] = Conclude(c, "retryable")]
        /\ UNCHANGED <<conf, at, fence, mem, disk, last, flight, group, down, log>>

ValidatesNothing(c, env) == TRUE

Validates(c, env) == Blind(c) \/ env.payload = tx[c].read

CommitConflicts(c) ==
    LET o == tx[c].at
        p == localWritePosition(o)
    IN  /\ tx[c].pc = "apply" /\ Writable(o)
        /\ ~Validates(c, mem[o][p])
        /\ last' = [last EXCEPT ![o] = HigherOf(@, mem[o][p].t)]
        /\ tx' = [tx EXCEPT ![c] = Conclude(c, "conflict")]
        /\ UNCHANGED <<conf, at, storage, flight, group, down, log>>

(* The commit stamp: casReadPayload and observeBlindWriteStamps raise the  *)
(* clock to the stored stamp before Next is drawn.                         *)
Reading(n) == conf.wall[n][IF n \in down THEN 2 ELSE 1]

StampOfWallClock(o, stored) == HigherOf(Reading(o), last[o] + 1)

CommitStamp(o, stored) == HigherOf(Reading(o), HigherOf(last[o], stored.t) + 1)

(* The envelope as written through o's handles on the positions P.         *)
Written(o, P, env) == [mem EXCEPT ![o] = [p \in Positions |-> IF p \in P THEN env ELSE @[p]]]

Persisted(P, env) ==
    IF conf.fastAck THEN disk ELSE [p \in Positions |-> IF p \in P THEN env ELSE disk[p]]

(* The local commit and the head of the first replication attempt: the     *)
(* node's own further positions are applied in line, the legs to the other *)
(* members start.                                                          *)
CommitApplies(c) ==
    LET o   == tx[c].at
        p   == localWritePosition(o)
        env == [t |-> CommitStamp(o, mem[o][p]), n |-> o,
                payload |-> Append(IF Blind(c) THEN <<>> ELSE tx[c].read, c)]
        own == {q \in OwnFurther(o, p) : Live(o, q)}
        new == {q \in own : Greater(env, mem[o][q])}
    IN  /\ tx[c].pc = "apply" /\ Writable(o)
        /\ Validates(c, mem[o][p])
        /\ mem' = Written(o, {p} \cup new, env)
        /\ disk' = Persisted({p} \cup new, env)
        /\ last' = [last EXCEPT ![o] = env.t]
        /\ log' = Append(log, [tx |-> c, read |-> tx[c].read, env |-> env])
        /\ flight' = flight \cup {[env |-> env, to |-> m, leg |-> TRUE] : m \in Others(o)}
        /\ tx' = [tx EXCEPT ![c].pc = "fanout", ![c].pos = p, ![c].env = env,
                            ![c].own = 1 + Cardinality(own)]
        /\ UNCHANGED <<conf, at, fence, mount, group, down>>

-----------------------------------------------------------------------------
(* replicateCASBatch: legs, re-routed attempts and the two ways it ends.   *)

(* ApplyBatchLocal at the receiver: apply-if-newer at its write position.  *)
LegLands(m) ==
    LET p   == localWritePosition(m.to)
        new == p # 0 /\ Greater(m.env, mem[m.to][p])
    IN  /\ Writable(m.to)
        /\ mem' = IF new THEN Written(m.to, {p}, m.env) ELSE mem
        /\ disk' = IF new THEN Persisted({p}, m.env) ELSE disk
        /\ last' = [last EXCEPT ![m.to] = HigherOf(@, HigherOf(m.env.t, mem[m.to][p].t))]
        /\ flight' = flight \ {m}
        /\ tx' = [c \in DOMAIN tx |->
                    IF m.leg /\ tx[c].pc = "fanout" /\ tx[c].env = m.env
                    THEN [tx[c] EXCEPT !.acked = @ \cup {m.to}] ELSE tx[c]]
        /\ UNCHANGED <<conf, at, fence, mount, group, down, log>>

LegFenced(m) ==
    LET p == localWritePosition(m.to)
    IN  /\ p # 0 /\ ~Writable(m.to)
        /\ mount' = Evicted(m.to, p)
        /\ flight' = flight \ {m}
        /\ UNCHANGED <<conf, at, fence, mem, disk, last, tx, group, down, log>>

Acks(c) == tx[c].own + Cardinality(tx[c].acked)

(* retryWriteThroughHandoff: an attempt short of W with transient legs is  *)
(* tried again over the current route, counting its own acks only.         *)
Reroute(c) ==
    LET o == tx[c].at
        again == {[env |-> tx[c].env, to |-> m, leg |-> TRUE] : m \in Others(o)}
    IN  /\ tx[c].pc = "fanout" /\ Acks(c) < conf.w
        /\ ~(again \subseteq flight)
        /\ flight' = flight \cup again
        /\ tx' = [tx EXCEPT ![c].acked = {}]
        /\ UNCHANGED <<conf, at, storage, last, group, down, log>>

FanoutReachesW(c) ==
    /\ tx[c].pc = "fanout" /\ Acks(c) >= conf.w
    /\ tx' = [tx EXCEPT ![c] = Conclude(c, "committed")]
    /\ UNCHANGED <<conf, at, storage, last, flight, group, down, log>>

(* Hard failures or the write timeout: the shortfall is reported, after    *)
(* flushOwnerUnderReplicated when the backend can flush at all.  The       *)
(* caller joins the group's next batch and starts the runner if it is idle.*)
JoinsRunningFlush(c) ==
    /\ tx[c].pc = "fanout" /\ Acks(c) < conf.w
    /\ IF conf.fastAck
       THEN /\ tx' = [tx EXCEPT ![c].pc = "flushing"]
            /\ group' = [group EXCEPT ![tx[c].at][tx[c].pos] =
                    IF @.batch # {} THEN [@ EXCEPT !.batch = @ \cup {c}]
                    ELSE [@ EXCEPT !.flushing = TRUE, !.pending = @ \cup {c}]]
       ELSE /\ tx' = [tx EXCEPT ![c] = Conclude(c, "committed")]
            /\ UNCHANGED group
    /\ UNCHANGED <<conf, at, storage, last, flight, down, log>>

ShortfallIsRetryable(c) ==
    /\ tx[c].pc = "fanout" /\ Acks(c) < conf.w
    /\ tx' = [tx EXCEPT ![c] = Conclude(c, "retryable")]
    /\ UNCHANGED <<conf, at, storage, last, flight, group, down, log>>

FanoutShort(c) ==
    /\ tx[c].pc = "fanout" /\ Acks(c) < conf.w
    /\ IF conf.fastAck
       THEN /\ tx' = [tx EXCEPT ![c].pc = "flushing"]
            /\ group' = [group EXCEPT ![tx[c].at][tx[c].pos] =
                    [@ EXCEPT !.flushing = TRUE, !.pending = @ \cup {c}]]
       ELSE /\ tx' = [tx EXCEPT ![c] = Conclude(c, "committed")]
            /\ UNCHANGED group
    /\ UNCHANGED <<conf, at, storage, last, flight, down, log>>

-----------------------------------------------------------------------------
(* runFlush: take the pending callers, flush, answer them, and stop only   *)
(* with none pending.  A flush makes durable what was written before it    *)
(* started; Flush is taken to start with the batch.                        *)

FlushTakes(n, p) ==
    /\ group[n][p].flushing /\ group[n][p].batch = {} /\ group[n][p].pending # {}
    /\ group' = [group EXCEPT ![n][p] = [@ EXCEPT !.batch = group[n][p].pending, !.pending = {},
                                                  !.held = mem[n][p]]]
    /\ UNCHANGED <<conf, at, storage, last, flight, tx, down, log>>

(* The runner's last look at pending, under the lock.                      *)
StopsAfterOneFlush(g) == [g EXCEPT !.batch = {}, !.held = NoEnvelope, !.flushing = FALSE]

FlushNext(g) == [g EXCEPT !.batch = {}, !.held = NoEnvelope, !.flushing = (g.pending # {})]

Answered(n, p, v) ==
    /\ group' = [group EXCEPT ![n][p] = FlushNext(@)]
    /\ tx' = [c \in DOMAIN tx |-> IF c \in group[n][p].batch /\ tx[c].pc = "flushing"
                                    THEN Conclude(c, v) ELSE tx[c]]

FlushDone(n, p) ==
    /\ group[n][p].batch # {}
    /\ Answered(n, p, IF Live(n, p) THEN "committed" ELSE "fenced")
    /\ disk' = IF Live(n, p) /\ Greater(group[n][p].held, disk[p])
               THEN [disk EXCEPT ![p] = group[n][p].held] ELSE disk
    /\ UNCHANGED <<conf, at, fence, mount, mem, last, flight, down, log>>

(* The flush's I/O failed: a terminal error for every waiter.              *)
FlushFails(n, p) ==
    /\ group[n][p].batch # {} /\ conf.lossy
    /\ Answered(n, p, "error")
    /\ UNCHANGED <<conf, at, storage, last, flight, down, log>>

(* The engine's own periodic flush.                                        *)
BackgroundFlush(n, p) ==
    /\ conf.fastAck /\ Live(n, p) /\ disk[p] # mem[n][p]
    /\ disk' = [disk EXCEPT ![p] = mem[n][p]]
    /\ UNCHANGED <<conf, at, fence, mount, mem, last, flight, tx, group, down, log>>

-----------------------------------------------------------------------------
(* The way back to the caller, and the deployment's own steps.             *)

AnswerArrives(c) ==
    /\ tx[c].pc = "answer"
    /\ tx' = [tx EXCEPT ![c] = AfterVerdict(c, tx[c].verdict)]
    /\ UNCHANGED <<conf, at, storage, last, flight, group, down, log>>

(* A broken connection surfaces as codes.Unavailable, which is retryable,  *)
(* an expired deadline as a terminal error; the caller cannot tell whether *)
(* the commit happened.  (A deadline that expires earlier only has Transact*)
(* return earlier: the owner goes on.)                                     *)
AnswerLost(c) ==
    /\ tx[c].pc = "answer" /\ conf.lossy
    /\ \E v \in {"retryable", "error"} :
         tx' = [tx EXCEPT ![c] = [AfterVerdict(c, v) EXCEPT
                    !.unheard = @ + (IF tx[c].verdict = "committed" THEN 1 ELSE 0)]]
    /\ UNCHANGED <<conf, at, storage, last, flight, group, down, log>>

(* transactUnavailableTimeout passed before a re-run.                      *)
GiveUp(c) ==
    /\ tx[c].pc = "read" /\ tx[c].runs > 0
    /\ tx' = [tx EXCEPT ![c] = Done(c, "exhausted")]
    /\ UNCHANGED <<conf, at, storage, last, flight, group, down, log>>

Learn(n) ==
    /\ at[n] < Len(conf.views)
    /\ at' = [at EXCEPT ![n] = @ + 1]
    /\ UNCHANGED <<conf, storage, last, flight, tx, group, down, log>>

(* A position routed to n is opened at the next writer epoch, which fences *)
(* the former holder; what that holder had not flushed is lost with it.    *)
Acquire(n, p) ==
    /\ <<n, p>> \in View(n).routed /\ mount[n][p] = 0
    /\ View(n).ring[p] = n
    /\ fence' = [fence EXCEPT ![p] = @ + 1]
    /\ mount' = [mount EXCEPT ![n][p] = fence[p] + 1]
    /\ mem' = [mem EXCEPT ![n][p] = disk[p]]
    /\ UNCHANGED <<conf, at, disk, last, flight, tx, group, down, log>>

(* A process dies and comes back: memtables, clock, callers and flush      *)
(* groups are gone; a remote caller of its handler sees Unavailable.       *)
Crash(n) ==
    /\ n \in conf.crash \ down
    /\ down' = down \cup {n}
    /\ mount' = [mount EXCEPT ![n] = [p \in Positions |-> 0]]
    /\ mem' = [mem EXCEPT ![n] = [p \in Positions |-> NoEnvelope]]
    /\ last' = [last EXCEPT ![n] = 0]
    /\ group' = [group EXCEPT ![n] = [p \in Positions |-> NoFlush]]
    /\ tx' = [c \in DOMAIN tx |->
                LET unsure == IF tx[c].pc \in {"fanout", "flushing", "answer"}
                                 /\ tx[c].env # NoEnvelope /\ tx[c].verdict # "error" THEN 1 ELSE 0
                IN  CASE tx[c].pc \in {"idle", "done"} -> tx[c]
                      [] tx[c].pc \notin {"idle", "done"} /\ Coordinator(c) = n ->
                            [Done(c, "gone") EXCEPT !.unheard = @ + unsure]
                      [] tx[c].pc \notin {"idle", "done"} /\ Coordinator(c) # n /\ tx[c].at = n ->
                            [AfterVerdict(c, "retryable") EXCEPT !.unheard = @ + unsure]
                      [] OTHER -> tx[c]]
    /\ UNCHANGED <<conf, at, fence, disk, flight, log>>

-----------------------------------------------------------------------------
Step(c) == \/ TxGet(c) \/ TxBlind(c) \/ TxGetFails(c) \/ Dispatch(c) \/ CommitCAS(c)
           \/ CommitRefused(c) \/ CommitConflicts(c) \/ CommitApplies(c)
           \/ FanoutReachesW(c) \/ FanoutShort(c) \/ AnswerArrives(c)

Next ==
    \/ \E c \in DOMAIN tx : Start(c) \/ Step(c) \/ Reroute(c) \/ AnswerLost(c) \/ GiveUp(c)
    \/ \E m \in flight : LegLands(m) \/ LegFenced(m)
    \/ \E n \in Nodes, p \in Positions :
         \/ FlushTakes(n, p) \/ FlushDone(n, p) \/ FlushFails(n, p)
         \/ BackgroundFlush(n, p) \/ Acquire(n, p)
    \/ \E n \in Nodes : Learn(n) \/ Crash(n)

(* Goroutines that can run do: a started Transact takes its steps, the     *)
(* flush runners theirs.                                                   *)
Fairness ==
    /\ \A c \in Clients : WF_vars(c \in DOMAIN tx /\ Step(c))
    /\ WF_vars(\E n \in Nodes, p \in Positions : FlushTakes(n, p) \/ FlushDone(n, p))

Spec == Init /\ [][Next]_vars /\ Fairness

-----------------------------------------------------------------------------
Runs(c) == {i \in DOMAIN log : log[i].tx = c}

(* Serializability of the reading transactions: each commit validated the  *)
(* very payload its predecessor in commit order left, across retries, the  *)
(* takeover of the unit by a successor and a crash of the owner, while the *)
(* backends acknowledge durably.  Two transactions that both validated the *)
(* same value and both applied are a lost update.                          *)
Serialized ==
    \A i \in DOMAIN log :
        ~conf.fastAck /\ ~Blind(log[i].tx) =>
            log[i].read = IF i = 1 THEN <<>> ELSE log[i - 1].env.payload

(* Commit order and stamp order agree, whatever the nodes' clocks say: a   *)
(* commit that a replica or a read repair could rank below the value it    *)
(* replaced would be undone by last-writer-wins after it was acknowledged. *)
StampsFollowCommits ==
    \A i, j \in DOMAIN log : i < j /\ ~conf.fastAck => Greater(log[j].env, log[i].env)

(* A transaction reported successful is bucket-durable or in the memory of *)
(* W different nodes: the shortfall path flushes before it reports, and a  *)
(* caller that shares a flush is only answered by one that covers its own  *)
(* commit.                                                                 *)
AckedDurable ==
    \A c \in DOMAIN tx : tx[c].out = "ok" /\ conf.crash = {} =>
        LET kept(e) == ~Greater(tx[c].env, e)
        IN  \/ \E p \in Positions : kept(disk[p])
            \/ Cardinality({n \in Nodes : \E p \in Positions : kept(mem[n][p])}) >= conf.w

(* What Transact returns is what happened: success means exactly one of    *)
(* its runs committed, anything else means none did, up to the runs whose  *)
(* outcome never reached it (a lost answer, a crash, a flush that failed   *)
(* after the commit).                                                      *)
ResultsTrue ==
    \A c \in DOMAIN tx : tx[c].pc = "done" =>
        Cardinality(Runs(c)) = tx[c].unheard + (IF tx[c].out = "ok" THEN 1 ELSE 0)

(* Every Transact call returns: the conflict and retry budgets bound the   *)
(* loop and the flush group strands no waiter.                             *)
TransactReturns == \A c \in Clients : (c \in DOMAIN tx /\ tx[c].pc # "idle") ~> (tx[c].pc = "done")

=============================================================================
