------------------------------ MODULE UnitLease ------------------------------
(***************************************************************************)
(* One storage unit of a cluster that keeps a single copy (R = 1): which   *)
(* node holds the unit's lease, how the lease moves when the placement     *)
(* does, and what the routed operations meet meanwhile.                    *)
(*                                                                         *)
(* The unit's database lives in shared storage and has one writer at a     *)
(* time: opening it advances its durable writer epoch, which fences the    *)
(* writer before (ErrFenced on the next write).  A node reaches the        *)
(* database through its factory handle (BackendFactory), which keeps what  *)
(* it opened until CloseUnit; the node's mount table says what the routed  *)
(* operations may use.  The two differ: a fenced mount is evicted from the *)
(* table only, and a reconcile pass puts them together again.              *)
(*                                                                         *)
(* conf.factory selects the backend factory: "slate" is backends/slate,    *)
(* "shared" the in-memory double of internal/sharedfactory (and            *)
(* internal/memfactory), which the repository's own tests run against.     *)
(* The placement is a sequence of owners; every node follows it at its own *)
(* pace (at[n]).                                                           *)
(***************************************************************************)
EXTENDS Integers, FiniteSets, Sequences

CONSTANTS
  Nodes,        \* the nodes' identities
  Configs       \* the deployments explored, each a record as in ConfigType

VARIABLES
  conf,         \* the deployment: factory, owners, and the bounds
  at,           \* the placement each node has observed (index into owners)
  db,           \* the unit's database: durable writer epoch, rows
  held,         \* Handle.open: what each node's factory handle has open
  mount,        \* mountTable.mounts: the writer each node serves from, or 0
  pass,         \* the reconcile pass of each node
  stalled,      \* nodes whose abandoned open may still complete
  op,           \* the client's operation and where it has got to
  acked,        \* the puts acknowledged to the client
  stalls,       \* opens given up so far
  faults,       \* crashes and lost replies so far
  missed        \* a live instance answered a read without an acked row

vars == <<conf, at, db, held, mount, pass, stalled, stalls, op, acked, faults, missed>>

ConfigType == [factory : {"slate", "shared"}, owners : Seq(Nodes),
               puts : Nat, gets : BOOLEAN, scans : BOOLEAN, stalls : Nat,
               faults : Nat, epochs : Nat]

ASSUME ConfigsAssumption ==
  Configs \subseteq ConfigType /\ \A c \in Configs : c.owners # <<>>

Puts == 1..conf.puts
slate == conf.factory = "slate"
Owner(n) == conf.owners[at[n]]
Final == conf.owners[Len(conf.owners)]

Closed == [writer |-> 0, epoch |-> 0, rows |-> {}]
IdlePass == [pc |-> "idle", want |-> FALSE, fence |-> 0]
IdleOp == [pc |-> "idle", kind |-> "put", from |-> CHOOSE n \in Nodes : TRUE,
           node |-> CHOOSE n \in Nodes : TRUE, b |-> 0, floor |-> {}]

HigherOf(a, b) == IF a > b THEN a ELSE b

\* The first owner opened the unit when it started (initMultiBackend).
Init ==
  /\ conf \in Configs
  /\ at = [n \in Nodes |-> 1]
  /\ db = [epoch |-> 1, rows |-> {}]
  /\ held = [n \in Nodes |-> IF n = conf.owners[1]
                             THEN [writer |-> 1, epoch |-> 1, rows |-> {}]
                             ELSE Closed]
  /\ mount = [n \in Nodes |-> IF n = conf.owners[1] THEN 1 ELSE 0]
  /\ pass = [n \in Nodes |-> IdlePass]
  /\ stalled = {}
  /\ stalls = 0
  /\ op = IdleOp
  /\ acked = {}
  /\ faults = 0
  /\ missed = FALSE

-----------------------------------------------------------------------------
(* The factory.                                                            *)

\* The epoch an open asks for: above the one this handle holds, if it holds one.
nextEpochFor(n) == IF held[n] # Closed THEN held[n].epoch + 1 ELSE 1

\* Slate refuses to open what the handle already has open, at any epoch; the
\* double only refuses an epoch that is not above the one held.
Refuses(n, intended) ==
  /\ held[n] # Closed
  /\ slate \/ intended <= held[n].epoch

\* The epoch an open settles on: above every durable epoch it has read.
fenceEpoch(intended) == HigherOf(intended, db.epoch + 1)

\* Mutant: a handle still open may write, fenced or not.
OpenHandleWrites(n, b) == held[n].writer = b

\* What the fence lets through: the current writer, on a handle still open.
\* The double's released backend keeps writing until it is fenced.
Live(n, b) == b = db.epoch /\ (slate => held[n].writer = b)

\* Mutant: the open starts an empty database.
OpenedEmpty(n, epoch) ==
  /\ db' = [db EXCEPT !.epoch = @ + 1]
  /\ held' = [held EXCEPT ![n] = [writer |-> db'.epoch, epoch |-> epoch, rows |-> {}]]

\* Opening takes the database from whoever wrote it before and recovers every
\* durable row.
Opened(n, epoch) ==
  /\ db' = [db EXCEPT !.epoch = IF slate THEN @ + 1 ELSE epoch]
  /\ held' = [held EXCEPT ![n] = [writer |-> db'.epoch, epoch |-> epoch,
                                  rows |-> db.rows]]

-----------------------------------------------------------------------------
(* The reconcile pass at R = 1 (reconcileUnits): the placement and the     *)
(* mounts are read once, at its start.                                     *)

Goto(n, pc) == pass' = [pass EXCEPT ![n].pc = pc]

\* The coordination layer's view moves on at this node.
Learn(n) ==
  /\ at[n] < Len(conf.owners)
  /\ at' = [at EXCEPT ![n] = @ + 1]
  /\ UNCHANGED <<conf, db, held, mount, pass, stalled, stalls, op, acked, faults, missed>>

StartPass(n) ==
  /\ pass[n].pc = "idle"
  /\ LET want == Owner(n) = n
         have == mount[n] # 0
     IN pass' = [pass EXCEPT ![n] =
                   [pc |-> IF have /\ ~want THEN "release"
                           ELSE IF want /\ ~have THEN "open" ELSE "sweep",
                    want |-> want, fence |-> 0]]
  /\ UNCHANGED <<conf, at, db, held, mount, stalled, stalls, op, acked, faults, missed>>

\* A unit this node no longer owns: unmount first, so that no operation
\* resolves it any more, then close it.
ReleaseUnit(n) ==
  /\ pass[n].pc = "release"
  /\ mount' = [mount EXCEPT ![n] = 0]
  /\ Goto(n, "close")
  /\ UNCHANGED <<conf, at, db, held, stalled, stalls, op, acked, faults, missed>>

CloseUnit(n) ==
  /\ pass[n].pc = "close"
  /\ held' = [held EXCEPT ![n] = Closed]
  /\ Goto(n, "sweep")
  /\ UNCHANGED <<conf, at, db, mount, stalled, stalls, op, acked, faults, missed>>

\* Two nodes that disagree about the owner can take the lease from each other
\* for as long as they disagree: conf.epochs bounds how often.
MayOpen(n) == at[n] = Len(conf.owners) \/ db.epoch < conf.epochs

\* acquireUnit: the double fences and opens in one step, slate first reads the
\* durable epoch it will report.
OpenUnit(n) ==
  /\ pass[n].pc = "open"
  /\ MayOpen(n)
  /\ LET intended == nextEpochFor(n)
         opened == fenceEpoch(intended)
     IN IF Refuses(n, intended)
        THEN Goto(n, "sweep") /\ UNCHANGED <<db, held>>
        ELSE IF slate
        THEN /\ pass' = [pass EXCEPT ![n].pc = "build", ![n].fence = opened]
             /\ UNCHANGED <<db, held>>
        ELSE Opened(n, opened) /\ Goto(n, "mount")
  /\ UNCHANGED <<conf, at, mount, stalled, stalls, op, acked, faults, missed>>

\* The read of the durable epoch fails or times out: nothing is opened.
EpochReadFails(n) ==
  /\ pass[n].pc = "open"
  /\ slate /\ faults < conf.faults
  /\ faults' = faults + 1
  /\ Goto(n, "sweep")
  /\ UNCHANGED <<conf, at, db, held, mount, stalled, stalls, op, acked, missed>>

\* The build is what fences, at the epoch the database then has.
Build(n) ==
  /\ pass[n].pc = "build"
  /\ Opened(n, pass[n].fence)
  /\ Goto(n, "mount")
  /\ UNCHANGED <<conf, at, mount, stalled, stalls, op, acked, faults, missed>>

\* The build outlasts its timeout: the pass gives the open up, the goroutine
\* running it stays behind.
BuildStalls(n) ==
  /\ pass[n].pc = "build"
  /\ stalls < conf.stalls
  /\ stalls' = stalls + 1
  /\ stalled' = stalled \cup {n}
  /\ Goto(n, "sweep")
  /\ UNCHANGED <<conf, at, db, held, mount, op, acked, faults, missed>>

\* The abandoned build completes: it has fenced the current writer, and the
\* handle it opened is kept nowhere.
LateBuild(n) ==
  /\ n \in stalled
  /\ stalled' = stalled \ {n}
  /\ db' = [db EXCEPT !.epoch = @ + 1]
  /\ UNCHANGED <<conf, at, held, mount, pass, op, acked, faults, missed, stalls>>

MountUnit(n) ==
  /\ pass[n].pc = "mount"
  /\ mount' = [mount EXCEPT ![n] = held[n].writer]
  /\ Goto(n, "sweep")
  /\ UNCHANGED <<conf, at, db, held, stalled, stalls, op, acked, faults, missed>>

\* Mutant: a handle whose mount was evicted is forgotten.
SweepsNothing(n) == FALSE

\* Handles the factory still has open for a unit that is neither mounted now
\* nor wanted by this pass are closed.
Swept(n) == held[n] # Closed /\ mount[n] = 0 /\ ~pass[n].want

Sweep(n) ==
  /\ pass[n].pc = "sweep"
  /\ held' = IF Swept(n) THEN [held EXCEPT ![n] = Closed] ELSE held
  /\ pass' = [pass EXCEPT ![n] = IdlePass]
  /\ UNCHANGED <<conf, at, db, mount, stalled, stalls, op, acked, faults, missed>>

-----------------------------------------------------------------------------
(* The routed operations.  One client writes the puts in order, retrying   *)
(* each until it is acknowledged, and reads at any time.  A Delete is      *)
(* routed, refused and applied like a Put.                                 *)

Fail == op' = IdleOp
Ack == IF op.kind = "put"
       THEN acked' = acked \cup {Cardinality(acked) + 1}
       ELSE UNCHANGED acked

\* Cluster.Put / Get at node n: apply here, or forward to the owner n believes in.
Begin(n, kind) ==
  /\ op.pc = "idle"
  /\ acked # Puts
  /\ kind = "get" => conf.gets
  /\ op' = [pc |-> IF Owner(n) = n THEN "resolve" ELSE "recv", kind |-> kind,
            from |-> n, node |-> Owner(n), b |-> 0,
            floor |-> IF kind = "get" THEN acked ELSE {}]
  /\ UNCHANGED <<conf, at, db, held, mount, pass, stalled, acked, faults, missed, stalls>>

\* The forwarded request: a node that is not the owner refuses to forward
\* again, but answers a read from whatever it still has mounted.
Recv ==
  /\ op.pc = "recv"
  /\ IF Owner(op.node) = op.node \/ (op.kind = "get" /\ mount[op.node] # 0)
     THEN op' = [op EXCEPT !.pc = "resolve"]
     ELSE Fail
  /\ UNCHANGED <<conf, at, db, held, mount, pass, stalled, acked, faults, missed, stalls>>

\* The mount the operation will use; an owner without one is still acquiring.
Resolve ==
  /\ op.pc = "resolve"
  /\ IF mount[op.node] = 0
     THEN Fail
     ELSE op' = [op EXCEPT !.pc = op.kind, !.b = mount[op.node]]
  /\ UNCHANGED <<conf, at, db, held, mount, pass, stalled, acked, faults, missed, stalls>>

\* Mutant: a failing mount stays.
KeepsStaleMount(n, b) == UNCHANGED mount

\* evictStaleMount: the failing backend leaves the table, unless another one
\* has replaced it there.
Evict(n, b) ==
  mount' = IF mount[n] = b THEN [mount EXCEPT ![n] = 0] ELSE mount

\* The rows an instance answers from: its own, or the store all share.
RowsOf(n) == IF slate THEN held[n].rows ELSE db.rows

\* The row is durable before the put returns (AwaitDurable): what the database
\* then holds is what its writer has.
Written(n, id) ==
  LET rows == RowsOf(n) \cup {id}
  IN /\ db' = [db EXCEPT !.rows = rows]
     /\ held' = IF slate THEN [held EXCEPT ![n].rows = rows] ELSE held

\* The result reaches the caller at once when the caller is local.
Answer == IF op.from = op.node
          THEN Ack /\ Fail
          ELSE op' = [op EXCEPT !.pc = "reply"] /\ UNCHANGED acked

ApplyPut ==
  /\ op.pc = "put"
  /\ IF Live(op.node, op.b)
     THEN Written(op.node, Cardinality(acked) + 1) /\ Answer /\ UNCHANGED mount
     ELSE Evict(op.node, op.b) /\ Fail /\ UNCHANGED <<db, held, acked>>
  /\ UNCHANGED <<conf, at, pass, stalled, faults, missed, stalls>>

\* A read is not fenced: an instance answers from what it has, until it finds
\* out that it was fenced or closed.
ApplyGet ==
  /\ op.pc = "get"
  /\ IF slate /\ held[op.node].writer # op.b
     THEN Fail /\ UNCHANGED <<acked, missed>>
     ELSE /\ Answer
          /\ missed' = (missed \/ (/\ Live(op.node, op.b)
                                   /\ ~(op.floor \subseteq RowsOf(op.node))))
  /\ UNCHANGED <<conf, at, db, held, mount, pass, stalled, faults, stalls>>

GetFenced ==
  /\ op.pc = "get"
  /\ slate /\ op.b # db.epoch
  /\ Evict(op.node, op.b)
  /\ Fail
  /\ UNCHANGED <<conf, at, db, held, pass, stalled, acked, faults, missed, stalls>>

Reply ==
  /\ op.pc = "reply"
  /\ Ack /\ Fail
  /\ UNCHANGED <<conf, at, db, held, mount, pass, stalled, faults, missed, stalls>>

\* No client for the owner, or the call does not reach it.
Unreachable ==
  /\ op.pc = "recv"
  /\ faults < conf.faults
  /\ faults' = faults + 1
  /\ Fail
  /\ UNCHANGED <<conf, at, db, held, mount, pass, stalled, acked, missed, stalls>>

\* The forwarded call's answer does not arrive in time.
ReplyLost ==
  /\ op.pc = "reply"
  /\ faults < conf.faults
  /\ faults' = faults + 1
  /\ Fail
  /\ UNCHANGED <<conf, at, db, held, mount, pass, stalled, acked, missed, stalls>>

\* The node's process dies and starts again: Open mounts what it owns.
Crash(n) ==
  /\ faults < conf.faults
  /\ faults' = faults + 1
  /\ held' = [held EXCEPT ![n] = Closed]
  /\ mount' = [mount EXCEPT ![n] = 0]
  /\ pass' = [pass EXCEPT ![n] = [pc |-> IF Owner(n) = n THEN "open" ELSE "sweep",
                                  want |-> Owner(n) = n, fence |-> 0]]
  /\ stalled' = stalled \ {n}
  /\ op' = IF n \in {op.from, op.node} THEN IdleOp ELSE op
  /\ UNCHANGED <<conf, at, db, acked, missed, stalls>>

-----------------------------------------------------------------------------
Pass(n) == \/ StartPass(n) \/ ReleaseUnit(n) \/ CloseUnit(n) \/ OpenUnit(n)
           \/ Build(n) \/ MountUnit(n) \/ Sweep(n)

Client == \/ \E n \in Nodes : Begin(n, "put")
          \/ Recv \/ Resolve \/ ApplyPut \/ ApplyGet \/ GetFenced \/ Reply

Next ==
  \/ \E n \in Nodes : Learn(n) \/ Pass(n) \/ BuildStalls(n) \/ LateBuild(n) \/ Crash(n)
                   \/ EpochReadFails(n)
  \/ Client
  \/ \E n \in Nodes : Begin(n, "get")
  \/ Unreachable \/ ReplyLost

\* The reconcile loop ticks and every view is learned in the end; a client
\* whose put failed tries again.
Fairness ==
  /\ \A n \in Nodes : WF_vars(Learn(n)) /\ WF_vars(Pass(n))
  /\ WF_vars(Client)
  /\ SF_vars(\E n \in Nodes : Begin(n, "put"))

Spec == Init /\ [][Next]_vars /\ Fairness

-----------------------------------------------------------------------------

\* No acknowledged put is ever missing from the unit's database, whichever
\* nodes held its lease since and however they lost it: fenced, closed,
\* restarted, or taken over by an open that had been given up.
AckedDurable == acked \subseteq db.rows

\* A read answered by the instance that holds the lease shows every put that
\* was acknowledged before the read began: taking the lease recovers all that
\* the writers before had made durable.
LiveReadsSeeAcked == ~missed

\* The owner's handle is open on a database that another open has fenced.
Stranded == held[Final] # Closed /\ held[Final].writer # db.epoch

\* Every put is acknowledged in the end: the placement settles, its owner
\* mounts the unit, and a mount fenced meanwhile is evicted and acquired again.
\* The one exception is slate's: openRef refuses to open again a handle that was
\* fenced while the lease was away, until a restart closes it.
PutsServed == <>(acked = Puts \/ (slate /\ Stranded))

\* Once the placement has settled, a node that does not own the unit ends with
\* neither a mount nor an open handle, the handles of evicted mounts included.
LeaseSettles ==
  <>[](\A n \in Nodes \ {Final} : mount[n] = 0 /\ held[n] = Closed)

=============================================================================
