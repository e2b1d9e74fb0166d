--------------------------- MODULE UnitLeaseProofs ---------------------------
(***************************************************************************)
(* Proofs about UnitLease and AggregateScan, for any nodes, sequences of   *)
(* owners, and numbers of puts, opens, stalls and faults.                  *)
(***************************************************************************)
EXTENDS AggregateScan, FiniteSetTheorems, TLAPS

\* Most leaves are first-order: Zenon finds them fast.  The others name SMT.
USE Zenon

Handles == [writer : Nat, epoch : Nat, rows : SUBSET Nat]
Passes == [pc : {"idle", "release", "close", "open", "build", "mount", "sweep"},
           want : BOOLEAN, fence : Nat]
Ops == [pc : {"idle", "recv", "resolve", "put", "get", "reply"}, kind : {"put", "get"},
        from : Nodes, node : Nodes, b : Nat, floor : SUBSET Nat]

TypeOK ==
  /\ conf \in Configs
  /\ at \in [Nodes -> 1..Len(conf.owners)]
  /\ db \in [epoch : Nat, rows : SUBSET Nat]
  /\ held \in [Nodes -> Handles]
  /\ mount \in [Nodes -> Nat]
  /\ pass \in [Nodes -> Passes]
  /\ op \in Ops
  /\ acked \in SUBSET Nat /\ IsFiniteSet(acked)

\* The put the client is at.
NextPut == Cardinality(acked) + 1

\* Every handle was opened at an epoch of its own, none above the durable one,
\* and the handle at the durable epoch has every row of the database.
OneLease ==
  /\ db.epoch > 0
  /\ \A n \in Nodes : held[n].writer <= db.epoch
  /\ \A n, m \in Nodes : n # m /\ held[n].writer = held[m].writer => held[n].writer = 0
  /\ slate => \A n \in Nodes : held[n].writer = db.epoch => held[n].rows = db.rows

\* Only slate's open has a build apart from the fence it read.
Builds == \A n \in Nodes : pass[n].pc = "build" => slate

\* What was acknowledged, or will be when the reply arrives, is in the database.
Durable ==
  /\ acked \subseteq db.rows
  /\ op.pc = "reply" /\ op.kind = "put" => NextPut \in db.rows
  /\ op.floor \subseteq acked
  /\ op.pc \in {"put", "get"} => op.kind = op.pc
  /\ missed = FALSE

LeaseInv == TypeOK /\ OneLease /\ Builds /\ Durable

Legs == [pc : {"idle", "cover", "scan", "recheck", "ok", "refused"}, b : Nat,
         rows : SUBSET Nat, stale : BOOLEAN]

\* A leg of a node that has owned the unit since the fan-out began scans a
\* mount, and what it has read covers the floor unless the instance was fenced.
ScanInv ==
  /\ agg \in [running : BOOLEAN, floor : SUBSET Nat, views : [Nodes -> Nat]]
  /\ leg \in [Nodes -> Legs]
  /\ agg.floor \subseteq acked
  /\ \A n \in Nodes : agg.views[n] <= at[n]
  /\ \A n \in Nodes :
       leg[n].pc \in {"scan", "recheck", "ok"} /\ agg.views[n] = at[n] /\ Owner(n) = n => leg[n].b # 0
  /\ \A n \in Nodes : leg[n].pc \in {"recheck", "ok"} /\ leg[n].b # 0 /\ ~leg[n].stale =>
       agg.floor \subseteq leg[n].rows

-----------------------------------------------------------------------------
LEMMA OwnerTyped ==
  ASSUME conf \in Configs
  PROVE  /\ conf.owners \in Seq(Nodes) /\ Len(conf.owners) \in Nat \ {0}
         /\ \A i \in 1..Len(conf.owners) : conf.owners[i] \in Nodes
         /\ \E n \in Nodes : TRUE
<1>1. conf.owners \in Seq(Nodes) /\ conf.owners # <<>>
  BY ConfigsAssumption DEF ConfigType
<1>2. Len(conf.owners) \in Nat \ {0}
  BY <1>1, SMT
<1>3. \A i \in 1..Len(conf.owners) : conf.owners[i] \in Nodes
  BY <1>1, SMT
<1>4. conf.owners[1] \in Nodes
  BY <1>2, <1>3, SMT
<1> QED
  BY <1>1, <1>2, <1>3, <1>4

LEMMA IdleTyped ==
  ASSUME conf \in Configs
  PROVE  IdleOp \in Ops /\ IdleOp.pc = "idle" /\ IdleOp.floor = {}
<1>1. (CHOOSE n \in Nodes : TRUE) \in Nodes
  BY OwnerTyped
<1> QED
  BY <1>1 DEF IdleOp, Ops

LEMMA NextPutTyped ==
  ASSUME TypeOK
  PROVE  NextPut \in Nat
BY FS_CardinalityType, SMT DEF TypeOK, NextPut

\* The live instance answers from all that is durable.
LEMMA LiveHasRows ==
  ASSUME LeaseInv, NEW n \in Nodes, NEW b, Live(n, b)
  PROVE  RowsOf(n) = db.rows
BY DEF LeaseInv, OneLease, Live, RowsOf

LEMMA InitLease == Init => LeaseInv
<1> SUFFICES ASSUME Init PROVE LeaseInv
  OBVIOUS
<1>1. conf \in Configs
  BY DEF Init
<1>2. TypeOK
  <2>1. 1 \in 1..Len(conf.owners)
    BY <1>1, OwnerTyped, SMT
  <2>2. held \in [Nodes -> Handles] /\ mount \in [Nodes -> Nat] /\ pass \in [Nodes -> Passes]
    BY DEF Init, Handles, Passes, Closed, IdlePass
  <2> QED
    BY <1>1, <2>1, <2>2, IdleTyped, FS_EmptySet DEF Init, TypeOK
<1>3. OneLease
  BY SMT DEF Init, OneLease, Closed
<1>5. Builds
  BY DEF Init, Builds, IdlePass
<1>4. Durable
  BY <1>1, IdleTyped DEF Init, Durable
<1> QED
  BY <1>2, <1>3, <1>4, <1>5 DEF LeaseInv

-----------------------------------------------------------------------------
\* A pass moves on, and reads the durable epoch where it does.
LEMMA PassMoves ==
  ASSUME LeaseInv, NEW n \in Nodes, conf' = conf,
         NEW pc \in {"idle", "release", "close", "open", "build", "mount", "sweep"},
         pc = "build" => slate, pass' = [pass EXCEPT ![n].pc = pc]
  PROVE  pass' \in [Nodes -> Passes] /\ Builds'
<1>1. pass \in [Nodes -> Passes] /\ Builds
  BY DEF LeaseInv, TypeOK
<1>2. pass' = [pass EXCEPT ![n] = [pass[n] EXCEPT !.pc = pc]]
  OBVIOUS
<1>3. [pass[n] EXCEPT !.pc = pc] \in Passes /\ [pass[n] EXCEPT !.pc = pc].pc = pc
  BY <1>1 DEF Passes
<1> QED
  BY <1>1, <1>2, <1>3 DEF Builds, slate

LEMMA PassReads ==
  ASSUME LeaseInv, NEW n \in Nodes, conf' = conf, NEW f \in Nat, slate,
         pass' = [pass EXCEPT ![n].pc = "build", ![n].fence = f]
  PROVE  pass' \in [Nodes -> Passes] /\ Builds'
<1>1. pass \in [Nodes -> Passes]
  BY DEF LeaseInv, TypeOK
<1>2. pass' = [pass EXCEPT ![n] = [pass[n] EXCEPT !.pc = "build", !.fence = f]]
  BY <1>1
<1>3. [pass[n] EXCEPT !.pc = "build", !.fence = f] \in Passes
  BY <1>1 DEF Passes
<1> QED
  BY <1>1, <1>2, <1>3 DEF Builds, slate

\* A pass record is replaced.
LEMMA PassSet ==
  ASSUME LeaseInv, NEW n \in Nodes, conf' = conf, NEW p \in Passes, p.pc # "build",
         pass' = [pass EXCEPT ![n] = p]
  PROVE  pass' \in [Nodes -> Passes] /\ Builds'
BY DEF LeaseInv, TypeOK, Builds, slate

LEMMA EpochSet ==
  ASSUME LeaseInv, NEW e \in Nat
  PROVE  LET d == [db EXCEPT !.epoch = e]
         IN d \in [epoch : Nat, rows : SUBSET Nat] /\ d.epoch = e /\ d.rows = db.rows
BY DEF LeaseInv, TypeOK

\* An open takes an epoch above every other and recovers the rows.
LEMMA OpenedPreserves ==
  ASSUME LeaseInv, NEW n \in Nodes, NEW e \in Nat, ~slate => e > db.epoch, Opened(n, e),
         UNCHANGED <<conf, op, acked, missed>>
  PROVE  /\ db' \in [epoch : Nat, rows : SUBSET Nat] /\ held' \in [Nodes -> Handles]
         /\ OneLease' /\ Durable'
<1> DEFINE w == IF slate THEN db.epoch + 1 ELSE e
           h == [writer |-> w, epoch |-> e, rows |-> db.rows]
<1>1. TypeOK /\ OneLease /\ Durable
  BY DEF LeaseInv
<1>2. db' = [db EXCEPT !.epoch = w] /\ held' = [held EXCEPT ![n] = [writer |-> db'.epoch, epoch |-> e, rows |-> db.rows]]
  BY DEF Opened
<1>3. w \in Nat /\ w > db.epoch
  BY <1>1, SMT DEF TypeOK
<1> HIDE DEF w
<1>4. db' \in [epoch : Nat, rows : SUBSET Nat] /\ db'.epoch = w /\ db'.rows = db.rows
  BY <1>1, <1>2, <1>3 DEF TypeOK
<1>5. held' = [held EXCEPT ![n] = h] /\ h \in Handles /\ h.writer = w /\ h.rows = db.rows
  BY <1>1, <1>2, <1>3, <1>4 DEF TypeOK, Handles
<1> HIDE DEF h
<1>6. held' \in [Nodes -> Handles] /\ held'[n] = h /\ \A m \in Nodes \ {n} : held'[m] = held[m]
  BY <1>1, <1>5 DEF TypeOK
<1>7. \A m \in Nodes : held[m].writer \in Nat /\ held[m].writer < w
  BY <1>1, <1>3, SMT DEF TypeOK, OneLease, Handles
<1>8. OneLease'
  BY <1>1, <1>3, <1>4, <1>5, <1>6, <1>7, SMT DEF OneLease, slate, TypeOK
<1>9. Durable'
  BY <1>1, <1>4 DEF Durable, NextPut
<1> QED
  BY <1>4, <1>6, <1>8, <1>9

LEMMA ClosedPreserves ==
  ASSUME LeaseInv, NEW n \in Nodes, held' = [held EXCEPT ![n] = Closed], UNCHANGED <<conf, db>>
  PROVE  held' \in [Nodes -> Handles] /\ OneLease'
<1>1. held' \in [Nodes -> Handles] /\ held'[n] = Closed /\ \A m \in Nodes \ {n} : held'[m] = held[m]
  BY DEF LeaseInv, TypeOK, Handles, Closed
<1>2. Closed.writer = 0 /\ db.epoch \in Nat
  BY DEF Closed, LeaseInv, TypeOK
<1> QED
  BY <1>1, <1>2, SMT DEF LeaseInv, OneLease, slate

\* The reconcile pass, its opens and what is left of them.
LEMMA PassPreserves ==
  ASSUME LeaseInv, NEW n \in Nodes,
         \/ Learn(n) \/ Pass(n) \/ BuildStalls(n) \/ LateBuild(n) \/ EpochReadFails(n)
  PROVE  LeaseInv'
<1>0. TypeOK /\ OneLease /\ Builds /\ Durable
  BY DEF LeaseInv
<1>c. UNCHANGED <<conf, op, acked, missed>>
  BY DEF Learn, Pass, StartPass, ReleaseUnit, CloseUnit, OpenUnit, Build, MountUnit, Sweep,
         BuildStalls, LateBuild, EpochReadFails
<1>1. ASSUME UNCHANGED <<db, held>>, at' \in [Nodes -> 1..Len(conf.owners)],
             mount' \in [Nodes -> Nat], pass' \in [Nodes -> Passes], Builds'
      PROVE  LeaseInv'
  BY <1>0, <1>c, <1>1 DEF LeaseInv, TypeOK, OneLease, Durable, NextPut, slate
<1>2. CASE Learn(n)
  <2>1. UNCHANGED <<db, held, mount, pass>> /\ at' = [at EXCEPT ![n] = at[n] + 1] /\ at[n] < Len(conf.owners)
    BY <1>2 DEF Learn
  <2>2. at[n] + 1 \in 1..Len(conf.owners)
    <3>1. at[n] \in 1..Len(conf.owners)
      BY <1>0 DEF TypeOK
    <3>2. Len(conf.owners) \in Nat
      BY <1>0, OwnerTyped DEF TypeOK
    <3> QED
      BY <2>1, <3>1, <3>2, SMT
  <2>3. Builds'
    BY <1>0, <1>c, <2>1 DEF Builds, slate
  <2> QED
    BY <1>0, <1>1, <2>1, <2>2, <2>3 DEF TypeOK
<1>3. CASE StartPass(n)
  <2> DEFINE want == Owner(n) = n
             have == mount[n] # 0
             p == [pc |-> IF have /\ ~want THEN "release" ELSE IF want /\ ~have THEN "open" ELSE "sweep",
                   want |-> want, fence |-> 0]
  <2>1. UNCHANGED <<db, held, at, mount>> /\ pass' = [pass EXCEPT ![n] = p]
    BY <1>3 DEF StartPass
  <2>2. pass' \in [Nodes -> Passes] /\ Builds'
    <3>1. p \in Passes /\ p.pc # "build"
      BY DEF Passes
    <3> QED
      BY <1>c, <2>1, <3>1, PassSet
  <2> QED
    BY <1>0, <1>1, <2>1, <2>2 DEF TypeOK
<1>4. CASE ReleaseUnit(n) \/ BuildStalls(n) \/ EpochReadFails(n)
  <2>1. /\ UNCHANGED <<db, held, at>> /\ (mount' = mount \/ mount' = [mount EXCEPT ![n] = 0])
        /\ \E pc \in {"close", "sweep"} : pass' = [pass EXCEPT ![n].pc = pc]
    BY <1>4 DEF ReleaseUnit, BuildStalls, EpochReadFails, Goto
  <2>2. pass' \in [Nodes -> Passes] /\ Builds'
    BY <1>c, <2>1, PassMoves
  <2> QED
    BY <1>0, <1>1, <2>1, <2>2, SMT DEF TypeOK
<1>5. CASE MountUnit(n)
  <2>1. /\ UNCHANGED <<db, held, at>> /\ mount' = [mount EXCEPT ![n] = held[n].writer]
        /\ pass' = [pass EXCEPT ![n].pc = "sweep"]
    BY <1>5 DEF MountUnit, Goto
  <2>2. pass' \in [Nodes -> Passes] /\ Builds'
    BY <1>c, <2>1, PassMoves
  <2>3. held[n].writer \in Nat
    BY <1>0 DEF TypeOK, Handles
  <2> QED
    BY <1>0, <1>1, <2>1, <2>2, <2>3 DEF TypeOK
<1>6. CASE CloseUnit(n) \/ Sweep(n)
  <2>1. UNCHANGED <<db, at, mount>> /\ (held' = held \/ held' = [held EXCEPT ![n] = Closed])
    BY <1>6 DEF CloseUnit, Sweep
  <2>2. pass' \in [Nodes -> Passes] /\ Builds'
    <3>1. CASE CloseUnit(n)
      BY <1>c, <3>1, PassMoves DEF CloseUnit, Goto
    <3>2. CASE Sweep(n)
      <4>1. IdlePass \in Passes /\ IdlePass.pc # "build"
        BY DEF IdlePass, Passes
      <4> QED
        BY <1>c, <3>2, <4>1, PassSet DEF Sweep
    <3> QED
      BY <1>6, <3>1, <3>2
  <2>3. held' \in [Nodes -> Handles] /\ OneLease'
    <3>1. CASE held' = held
      BY <1>0, <1>c, <2>1, <3>1 DEF TypeOK, OneLease, slate
    <3> QED
      BY <1>c, <2>1, <3>1, ClosedPreserves
  <2> QED
    BY <1>0, <1>c, <2>1, <2>2, <2>3 DEF LeaseInv, TypeOK, Durable, NextPut
<1>7. CASE OpenUnit(n)
  <2> DEFINE f == fenceEpoch(nextEpochFor(n))
  <2>1. f \in Nat /\ f > db.epoch
    BY <1>0, SMT DEF fenceEpoch, nextEpochFor, HigherOf, TypeOK, Handles
  <2>2. UNCHANGED <<at, mount>>
    BY <1>7 DEF OpenUnit
  <2>3. \/ pass' = [pass EXCEPT ![n].pc = "sweep"] /\ UNCHANGED <<db, held>>
        \/ slate /\ pass' = [pass EXCEPT ![n].pc = "build", ![n].fence = f] /\ UNCHANGED <<db, held>>
        \/ pass' = [pass EXCEPT ![n].pc = "mount"] /\ Opened(n, f)
    BY <1>7 DEF OpenUnit, Goto
  <2> HIDE DEF f
  <2>4. pass' \in [Nodes -> Passes] /\ Builds'
    BY <1>c, <2>1, <2>3, PassMoves, PassReads
  <2>5. CASE UNCHANGED <<db, held>>
    BY <1>0, <1>1, <2>2, <2>4, <2>5 DEF TypeOK
  <2>6. CASE Opened(n, f)
    BY <1>0, <1>c, <2>1, <2>2, <2>4, <2>6, OpenedPreserves DEF LeaseInv, TypeOK
  <2> QED
    BY <2>3, <2>5, <2>6
<1>8. CASE Build(n)
  <2>1. /\ Opened(n, pass[n].fence) /\ pass' = [pass EXCEPT ![n].pc = "mount"]
        /\ UNCHANGED <<at, mount>> /\ pass[n].pc = "build"
    BY <1>8 DEF Build, Goto
  <2>2. pass' \in [Nodes -> Passes] /\ Builds'
    BY <1>c, <2>1, PassMoves
  <2>3. pass[n].fence \in Nat /\ slate
    BY <1>0, <2>1 DEF TypeOK, Passes, Builds
  <2>4. /\ db' \in [epoch : Nat, rows : SUBSET Nat] /\ held' \in [Nodes -> Handles]
        /\ OneLease' /\ Durable'
    BY <1>c, <2>1, <2>3, OpenedPreserves
  <2> QED
    BY <1>0, <1>c, <2>1, <2>2, <2>4 DEF LeaseInv, TypeOK
<1>9. CASE LateBuild(n)
  <2> DEFINE e == db.epoch + 1
  <2>1. db' = [db EXCEPT !.epoch = e] /\ UNCHANGED <<at, held, mount, pass>>
    BY <1>9 DEF LateBuild
  <2>2. e \in Nat /\ e > db.epoch
    BY <1>0, SMT DEF TypeOK
  <2> HIDE DEF e
  <2>3. db' \in [epoch : Nat, rows : SUBSET Nat] /\ db'.epoch = e /\ db'.rows = db.rows
    BY <2>1, <2>2, EpochSet
  <2>4. \A m \in Nodes : held[m].writer \in Nat /\ held[m].writer < e
    BY <1>0, <2>2, SMT DEF TypeOK, OneLease, Handles
  <2>5. OneLease'
    BY <1>0, <1>c, <2>1, <2>2, <2>3, <2>4, SMT DEF OneLease, slate, TypeOK
  <2>6. Builds'
    BY <1>0, <1>c, <2>1 DEF Builds, slate
  <2> QED
    BY <1>0, <1>c, <2>1, <2>3, <2>5, <2>6 DEF LeaseInv, TypeOK, Durable, NextPut
<1> QED
  BY <1>2, <1>3, <1>4, <1>5, <1>6, <1>7, <1>8, <1>9 DEF Pass

-----------------------------------------------------------------------------
(* The client's operations, and crashes.                                   *)

\* An operation that ends or moves on without writing.
LEMMA OpMoves ==
  ASSUME LeaseInv, UNCHANGED <<conf, at, db, held, pass, acked>>,
         mount' \in [Nodes -> Nat], op' \in Ops, missed' = FALSE,
         op'.floor \subseteq acked, op'.pc \in {"put", "get"} => op'.kind = op'.pc,
         op'.pc = "reply" /\ op'.kind = "put" => NextPut \in db.rows
  PROVE  LeaseInv'
<1>1. OneLease' /\ Builds'
  BY DEF LeaseInv, OneLease, Builds, slate
<1> QED
  BY <1>1 DEF LeaseInv, TypeOK, Durable, NextPut

LEMMA OpEnds ==
  ASSUME LeaseInv, UNCHANGED <<conf, at, db, held, pass, acked, missed>>,
         mount' \in [Nodes -> Nat], op' = IdleOp
  PROVE  LeaseInv'
<1>1. op' \in Ops /\ op'.pc = "idle" /\ op'.floor = {} /\ missed' = FALSE
  BY IdleTyped DEF LeaseInv, TypeOK, Durable
<1> QED
  BY <1>1, OpMoves

LEMMA EvictTyped ==
  ASSUME LeaseInv, NEW n \in Nodes, NEW b, Evict(n, b)
  PROVE  mount' \in [Nodes -> Nat]
BY DEF LeaseInv, TypeOK, Evict

\* The acknowledgement of a put that is in the database.
LEMMA AckPreserves ==
  ASSUME LeaseInv, UNCHANGED <<conf, at, db, held, mount, pass, missed>>, op' = IdleOp, Ack,
         op.kind = "put" => NextPut \in db.rows
  PROVE  LeaseInv'
<1>1. CASE op.kind # "put"
  BY <1>1, OpEnds DEF Ack, LeaseInv, TypeOK
<1>2. CASE op.kind = "put"
  <2>1. acked' = acked \cup {NextPut}
    BY <1>2 DEF Ack, NextPut
  <2>2. acked' \in SUBSET Nat /\ IsFiniteSet(acked') /\ acked' \subseteq db.rows
    BY <1>2, <2>1, NextPutTyped, FS_AddElement DEF LeaseInv, TypeOK, Durable
  <2>3. op' \in Ops /\ op'.pc = "idle" /\ op'.floor = {}
    BY IdleTyped DEF LeaseInv, TypeOK
  <2>4. OneLease' /\ Builds'
    BY DEF LeaseInv, OneLease, Builds, slate
  <2> QED
    BY <2>2, <2>3, <2>4 DEF LeaseInv, TypeOK, Durable
<1> QED
  BY <1>1, <1>2

\* The writer that passes the fence has all rows: the put adds one and loses none.
LEMMA WritePreserves ==
  ASSUME LeaseInv, op.pc = "put", Live(op.node, op.b), Written(op.node, NextPut),
         conf' = conf
  PROVE  /\ db' \in [epoch : Nat, rows : SUBSET Nat] /\ held' \in [Nodes -> Handles]
         /\ OneLease' /\ db'.rows = db.rows \cup {NextPut}
<1> DEFINE n == op.node
           rows == db.rows \cup {NextPut}
<1>1. n \in Nodes /\ TypeOK /\ OneLease
  BY DEF LeaseInv, TypeOK, Ops
<1>2. RowsOf(n) = db.rows
  BY <1>1, LiveHasRows
<1>3. rows \in SUBSET Nat
  BY <1>1, NextPutTyped DEF TypeOK
<1>4. db' = [db EXCEPT !.rows = rows] /\ (slate => held' = [held EXCEPT ![n].rows = rows]) /\ (~slate => held' = held)
  BY <1>2 DEF Written
<1> HIDE DEF rows
<1>5. db' \in [epoch : Nat, rows : SUBSET Nat] /\ db'.epoch = db.epoch /\ db'.rows = rows
  BY <1>1, <1>3, <1>4 DEF TypeOK
<1>6. CASE ~slate
  BY <1>1, <1>4, <1>5, <1>6 DEF OneLease, slate, TypeOK, rows
<1>7. CASE slate
  <2> DEFINE h == [held[n] EXCEPT !.rows = rows]
  <2>1. held' = [held EXCEPT ![n] = h]
    BY <1>1, <1>4, <1>7 DEF TypeOK
  <2>2. h \in Handles /\ h.writer = held[n].writer /\ h.rows = rows
    BY <1>1, <1>3 DEF TypeOK, Handles
  <2>3. held[n].writer = db.epoch
    BY <1>7 DEF Live
  <2> HIDE DEF h
  <2>4. held' \in [Nodes -> Handles] /\ held'[n] = h /\ \A m \in Nodes \ {n} : held'[m] = held[m]
    BY <1>1, <2>1, <2>2 DEF TypeOK
  <2>5. \A m \in Nodes \ {n} : held[m].writer # db.epoch
    <3>1. db.epoch # 0
      BY <1>1, SMT DEF OneLease, TypeOK
    <3>2. \A m \in Nodes : n # m /\ held[n].writer = held[m].writer => held[n].writer = 0
      BY <1>1 DEF OneLease
    <3> QED
      BY <2>3, <3>1, <3>2
  <2>6. OneLease'
    BY <1>1, <1>5, <2>2, <2>3, <2>4, <2>5, SMT DEF OneLease, slate
  <2> QED
    BY <1>5, <2>4, <2>6 DEF rows
<1> QED
  BY <1>6, <1>7

LEMMA ClientPreserves ==
  ASSUME LeaseInv,
         \/ \E n \in Nodes : Begin(n, "put") \/ Begin(n, "get")
         \/ Recv \/ Resolve \/ ApplyPut \/ ApplyGet \/ GetFenced \/ Reply \/ Unreachable \/ ReplyLost
  PROVE  LeaseInv'
<1>0. TypeOK /\ Durable /\ op \in Ops /\ op.node \in Nodes /\ mount \in [Nodes -> Nat]
  BY DEF LeaseInv, TypeOK, Ops
<1>1. ASSUME NEW n \in Nodes, NEW kind \in {"put", "get"}, Begin(n, kind) PROVE LeaseInv'
  <2>1. UNCHANGED <<conf, at, db, held, mount, pass, acked, missed>>
    BY <1>1 DEF Begin
  <2>2. Owner(n) \in Nodes
    BY <1>0, OwnerTyped DEF TypeOK, Owner
  <2>3. op' \in Ops /\ op'.floor \subseteq acked /\ op'.pc \in {"resolve", "recv"}
    BY <1>0, <1>1, <2>2 DEF Begin, Ops, TypeOK
  <2> QED
    BY <1>0, <2>1, <2>3, OpMoves DEF Durable
<1>2. CASE Recv
  <2>1. UNCHANGED <<conf, at, db, held, mount, pass, acked, missed>>
    BY <1>2 DEF Recv
  <2>2. CASE op' = IdleOp
    BY <1>0, <2>1, <2>2, OpEnds
  <2>3. CASE op' = [op EXCEPT !.pc = "resolve"]
    <3>1. op' \in Ops /\ op'.floor = op.floor /\ op'.pc = "resolve"
      BY <1>0, <2>3 DEF Ops
    <3> QED
      BY <1>0, <2>1, <3>1, OpMoves DEF Durable
  <2> QED
    BY <1>2, <2>2, <2>3 DEF Recv, Fail
<1>3. CASE Resolve
  <2>1. UNCHANGED <<conf, at, db, held, mount, pass, acked, missed>>
    BY <1>3 DEF Resolve
  <2>2. CASE op' = IdleOp
    BY <1>0, <2>1, <2>2, OpEnds
  <2>3. CASE op' = [op EXCEPT !.pc = op.kind, !.b = mount[op.node]]
    <3>1. op.kind \in {"put", "get"} /\ mount[op.node] \in Nat
      BY <1>0 DEF Ops
    <3>2. op' \in Ops /\ op'.floor = op.floor /\ op'.pc = op.kind /\ op'.kind = op.kind
      BY <1>0, <2>3, <3>1 DEF Ops
    <3> QED
      BY <1>0, <2>1, <3>1, <3>2, OpMoves DEF Durable
  <2> QED
    BY <1>3, <2>2, <2>3 DEF Resolve, Fail
<1>4. CASE ApplyPut
  <2>1. UNCHANGED <<conf, at, pass, missed>> /\ op.pc = "put"
    BY <1>4 DEF ApplyPut
  <2>2. CASE ~Live(op.node, op.b)
    <3>1. Evict(op.node, op.b) /\ op' = IdleOp /\ UNCHANGED <<db, held, acked>>
      BY <1>4, <2>2 DEF ApplyPut, Fail
    <3> QED
      BY <1>0, <2>1, <3>1, EvictTyped, OpEnds
  <2>3. CASE Live(op.node, op.b)
    <3>1. Written(op.node, NextPut) /\ Answer /\ mount' = mount
      BY <1>4, <2>3 DEF ApplyPut, NextPut
    <3>2. /\ db' \in [epoch : Nat, rows : SUBSET Nat] /\ held' \in [Nodes -> Handles]
          /\ OneLease' /\ db'.rows = db.rows \cup {NextPut}
      BY <2>1, <2>3, <3>1, WritePreserves
    <3>3. Builds'
      BY <2>1 DEF LeaseInv, Builds, slate
    <3>4. CASE Ack /\ op' = IdleOp
      <4>1. acked' \in SUBSET Nat /\ IsFiniteSet(acked') /\ acked' \subseteq acked \cup {NextPut}
        <5>1. acked' = acked \cup {NextPut} \/ acked' = acked
          BY <3>4 DEF Ack, NextPut
        <5>2. acked \in SUBSET Nat /\ NextPut \in Nat
          BY <1>0, NextPutTyped DEF TypeOK
        <5>3. IsFiniteSet(acked) /\ IsFiniteSet(acked \cup {NextPut})
          BY <1>0, FS_AddElement DEF TypeOK
        <5> HIDE DEF NextPut
        <5> QED
          BY <5>1, <5>2, <5>3
      <4>2. op' \in Ops /\ op'.pc = "idle" /\ op'.floor = {}
        BY <1>0, <3>4, IdleTyped DEF TypeOK
      <4> QED
        BY <1>0, <2>1, <3>1, <3>2, <3>3, <4>1, <4>2 DEF LeaseInv, TypeOK, Durable
    <3>5. CASE op' = [op EXCEPT !.pc = "reply"] /\ acked' = acked
      <4>1. op' \in Ops /\ op'.floor = op.floor
        BY <1>0, <3>5 DEF Ops
      <4> QED
        BY <1>0, <2>1, <3>1, <3>2, <3>3, <3>5, <4>1, SMT DEF LeaseInv, TypeOK, Durable, NextPut
    <3> QED
      BY <3>1, <3>4, <3>5 DEF Answer, Fail
  <2> QED
    BY <2>2, <2>3
<1>5. CASE ApplyGet
  <2>1. UNCHANGED <<conf, at, db, held, mount, pass>> /\ op.pc = "get"
    BY <1>5 DEF ApplyGet
  <2>2. missed' = FALSE
    <3>1. Live(op.node, op.b) => op.floor \subseteq RowsOf(op.node)
      BY <1>0, LiveHasRows DEF Durable
    <3> QED
      BY <1>0, <1>5, <3>1 DEF ApplyGet, Durable
  <2>3. CASE op' = IdleOp /\ acked' = acked
    BY <1>0, <2>1, <2>2, <2>3, OpEnds DEF Durable
  <2>4. CASE Ack /\ op' = IdleOp /\ op.kind = "get"
    BY <1>0, <2>1, <2>2, <2>4, OpEnds DEF Ack, Durable
  <2>5. CASE op' = [op EXCEPT !.pc = "reply"] /\ acked' = acked /\ op.kind = "get"
    <3>1. op' \in Ops /\ op'.floor = op.floor /\ op'.kind = "get" /\ op'.pc = "reply"
      BY <1>0, <2>5 DEF Ops
    <3> QED
      BY <1>0, <2>1, <2>2, <2>5, <3>1, OpMoves DEF Durable
  <2>6. op.kind = "get"
    BY <2>1 DEF LeaseInv, Durable
  <2> QED
    BY <1>5, <2>3, <2>4, <2>5, <2>6 DEF ApplyGet, Answer, Fail
<1>6. CASE GetFenced
  BY <1>0, <1>6, EvictTyped, OpEnds DEF GetFenced, Fail
<1>7. CASE Reply
  <2>1. UNCHANGED <<conf, at, db, held, mount, pass, missed>> /\ op' = IdleOp /\ Ack /\ op.pc = "reply"
    BY <1>7 DEF Reply, Fail
  <2> QED
    BY <1>0, <2>1, AckPreserves DEF Durable
<1>8. CASE Unreachable \/ ReplyLost
  BY <1>0, <1>8, OpEnds DEF Unreachable, ReplyLost, Fail
<1> QED
  BY <1>1, <1>2, <1>3, <1>4, <1>5, <1>6, <1>7, <1>8

LEMMA CrashPreserves ==
  ASSUME LeaseInv, NEW n \in Nodes, Crash(n)
  PROVE  LeaseInv'
<1>1. UNCHANGED <<conf, at, db, acked, missed>> /\ held' = [held EXCEPT ![n] = Closed]
      /\ mount' = [mount EXCEPT ![n] = 0] /\ (op' = IdleOp \/ op' = op)
  BY DEF Crash
<1>2. held' \in [Nodes -> Handles] /\ OneLease'
  BY <1>1, ClosedPreserves
<1>3. pass' \in [Nodes -> Passes] /\ Builds'
  <2> DEFINE p == [pc |-> IF Owner(n) = n THEN "open" ELSE "sweep", want |-> Owner(n) = n, fence |-> 0]
  <2>1. p \in Passes /\ p.pc # "build"
    BY DEF Passes
  <2>2. pass' = [pass EXCEPT ![n] = p]
    BY DEF Crash
  <2> QED
    BY <1>1, <2>1, <2>2, PassSet
<1>4. op' \in Ops /\ (op' = op \/ (op'.pc = "idle" /\ op'.floor = {}))
  BY <1>1, IdleTyped DEF LeaseInv, TypeOK
<1> QED
  BY <1>1, <1>2, <1>3, <1>4 DEF LeaseInv, TypeOK, Durable, NextPut

LEMMA NextLease == LeaseInv /\ [Next]_vars => LeaseInv'
<1> SUFFICES ASSUME LeaseInv, [Next]_vars PROVE LeaseInv'
  OBVIOUS
<1>1. CASE UNCHANGED vars
  BY <1>1 DEF vars, LeaseInv, TypeOK, OneLease, Builds, Durable, NextPut, slate
<1> QED
  BY <1>1, PassPreserves, ClientPreserves, CrashPreserves DEF Next, Client

-----------------------------------------------------------------------------
\* What a step of the lease protocol leaves of a running scan: views only grow,
\* what was acknowledged stays, and a placement keeps its owner.
LEMMA LeaseKeepsScans ==
  ASSUME LeaseInv, ScanInv, [Next]_vars, UNCHANGED <<agg, leg>>
  PROVE  ScanInv'
<1>1. conf' = conf /\ acked \subseteq acked'
  BY DEF Next, vars, Client, Pass, Learn, StartPass, ReleaseUnit, CloseUnit, OpenUnit, Build,
         MountUnit, Sweep, BuildStalls, LateBuild, Crash, EpochReadFails, Begin, Recv, Resolve, ApplyPut,
         ApplyGet, GetFenced, Reply, Unreachable, ReplyLost, Answer, Ack
<1>2. at' = at \/ \E n \in Nodes : at' = [at EXCEPT ![n] = at[n] + 1]
  BY DEF Next, vars, Client, Pass, Learn, StartPass, ReleaseUnit, CloseUnit, OpenUnit, Build,
         MountUnit, Sweep, BuildStalls, LateBuild, Crash, EpochReadFails, Begin, Recv, Resolve, ApplyPut,
         ApplyGet, GetFenced, Reply, Unreachable, ReplyLost
<1>3. \A n \in Nodes : at[n] \in Nat /\ (at'[n] = at[n] \/ at'[n] = at[n] + 1)
  BY <1>2, SMT DEF LeaseInv, TypeOK
<1>4. \A n \in Nodes : agg.views[n] \in Nat /\ agg.views[n] <= at[n]
  BY DEF ScanInv
<1>5. \A n \in Nodes : agg.views[n] <= at'[n] /\ (agg.views[n] = at'[n] => at'[n] = at[n])
  BY <1>3, <1>4, SMT
<1> QED
  BY <1>1, <1>5 DEF ScanInv, Owner

\* A leg's own step sets its record and leaves the others' and the fan-out.
LEMMA LegSet ==
  ASSUME ScanInv, UNCHANGED <<conf, at, acked, agg>>, NEW n \in Nodes, NEW l \in Legs,
         leg' = [leg EXCEPT ![n] = l],
         l.pc \in {"scan", "recheck", "ok"} /\ agg.views[n] = at[n] /\ Owner(n) = n => l.b # 0,
         l.pc \in {"recheck", "ok"} /\ l.b # 0 /\ ~l.stale => agg.floor \subseteq l.rows
  PROVE  ScanInv'
<1>1. leg' \in [Nodes -> Legs]
  BY DEF ScanInv
<1>2. \A m \in Nodes : leg'[m] = IF m = n THEN l ELSE leg[m]
  BY DEF ScanInv
<1>3. \A m \in Nodes : Owner(m)' = Owner(m)
  BY DEF Owner
<1> QED
  BY <1>1, <1>2, <1>3 DEF ScanInv

LEMMA LegStep ==
  ASSUME LeaseInv, ScanInv, NEW n \in Nodes,
         CoverFirst(n) \/ ScanUnit(n) \/ ScanFenced(n) \/ CoverAgain(n)
  PROVE  ScanInv'
<1>1. UNCHANGED <<conf, at, acked, agg>>
  BY DEF CoverFirst, ScanUnit, ScanFenced, CoverAgain, vars
<1>2. leg[n] \in Legs /\ leg \in [Nodes -> Legs] /\ mount[n] \in Nat
  BY DEF ScanInv, LeaseInv, TypeOK
<1>3. ASSUME To(n, "refused") PROVE ScanInv'
  <2> DEFINE l == [leg[n] EXCEPT !.pc = "refused"]
  <2>1. leg' = [leg EXCEPT ![n] = l] /\ l \in Legs /\ l.pc = "refused"
    BY <1>2, <1>3 DEF To, Legs
  <2> QED
    BY <1>1, <2>1, LegSet
<1>4. CASE CoverFirst(n)
  <2>1. CASE ~Pending(n)
    <3> DEFINE l == [leg[n] EXCEPT !.pc = "scan", !.b = mount[n]]
    <3>1. leg' = [leg EXCEPT ![n] = l]
      BY <1>2, <1>4, <2>1 DEF CoverFirst
    <3>2. l \in Legs /\ l.pc = "scan" /\ l.b = mount[n]
      BY <1>2 DEF Legs
    <3> QED
      BY <1>1, <2>1, <3>1, <3>2, LegSet DEF Pending
  <2> QED
    BY <1>3, <1>4, <2>1 DEF CoverFirst
<1>5. CASE ScanUnit(n)
  <2>1. CASE ~(leg[n].b # 0 /\ slate /\ held[n].writer # leg[n].b)
    <3> DEFINE rows == IF leg[n].b = 0 THEN {} ELSE RowsOf(n)
               stale == leg[n].b # 0 /\ slate /\ leg[n].b # db.epoch
               l == [leg[n] EXCEPT !.pc = "recheck", !.rows = rows, !.stale = stale]
    <3>1. leg' = [leg EXCEPT ![n] = l]
      BY <1>2, <1>5, <2>1 DEF ScanUnit
    <3>2. rows \in SUBSET Nat /\ stale \in BOOLEAN
      BY DEF LeaseInv, TypeOK, RowsOf, Handles
    <3>3. leg[n].b # 0 /\ ~stale => agg.floor \subseteq rows
      <4> SUFFICES ASSUME leg[n].b # 0, ~stale PROVE agg.floor \subseteq RowsOf(n)
        OBVIOUS
      <4>1. Live(n, leg[n].b) \/ RowsOf(n) = db.rows
        BY <2>1 DEF Live, RowsOf
      <4>2. RowsOf(n) = db.rows
        BY <4>1, LiveHasRows
      <4> QED
        BY <4>2 DEF ScanInv, LeaseInv, Durable
    <3>4. leg[n].pc = "scan"
      BY <1>5 DEF ScanUnit
    <3> HIDE DEF rows, stale
    <3>5. l \in Legs /\ l.pc = "recheck" /\ l.b = leg[n].b /\ l.rows = rows /\ l.stale = stale
      BY <1>2, <3>2 DEF Legs
    <3> HIDE DEF l
    <3>6. l.pc \in {"scan", "recheck", "ok"} /\ agg.views[n] = at[n] /\ Owner(n) = n => l.b # 0
      BY <3>4, <3>5 DEF ScanInv
    <3> QED
      BY <1>1, <3>1, <3>3, <3>5, <3>6, LegSet
  <2> QED
    BY <1>3, <1>5, <2>1 DEF ScanUnit
<1>6. CASE ScanFenced(n)
  BY <1>3, <1>6 DEF ScanFenced
<1>7. CASE CoverAgain(n)
  <2>1. CASE ~Pending(n)
    <3> DEFINE l == [leg[n] EXCEPT !.pc = "ok"]
    <3>1. leg' = [leg EXCEPT ![n] = l] /\ leg[n].pc = "recheck"
      BY <1>2, <1>7, <2>1 DEF CoverAgain, To
    <3>2. l \in Legs /\ l.pc = "ok" /\ l.b = leg[n].b /\ l.rows = leg[n].rows /\ l.stale = leg[n].stale
      BY <1>2 DEF Legs
    <3> HIDE DEF l
    <3>3. /\ agg.views[n] = at[n] /\ Owner(n) = n => l.b # 0
          /\ l.b # 0 /\ ~l.stale => agg.floor \subseteq l.rows
      BY <3>1, <3>2 DEF ScanInv
    <3> QED
      BY <1>1, <3>1, <3>2, <3>3, LegSet
  <2> QED
    BY <1>3, <1>7, <2>1 DEF CoverAgain
<1> QED
  BY <1>4, <1>5, <1>6, <1>7

\* A fan-out starts with the floor and the views of its moment, and no leg has
\* scanned yet; when it is collected nothing of it is left.
LEMMA FanOutStep ==
  ASSUME LeaseInv, ScanInv, Aggregate \/ Collect
  PROVE  ScanInv'
<1>1. UNCHANGED vars
  BY DEF Aggregate, Collect
<1>2. at \in [Nodes -> Nat \ {0}] /\ acked \in SUBSET Nat
  BY SMT DEF LeaseInv, TypeOK
<1>3. \A n \in Nodes : leg'[n] \in Legs /\ leg'[n].pc \in {"idle", "cover"}
  <2> DEFINE first == [NoLeg EXCEPT !.pc = "cover"]
  <2>1. NoLeg \in Legs /\ NoLeg.pc = "idle" /\ first \in Legs /\ first.pc = "cover"
    BY DEF NoLeg, Legs
  <2>2. leg' = [n \in Nodes |-> first] \/ leg' = [n \in Nodes |-> NoLeg]
    BY DEF Aggregate, Collect
  <2> HIDE DEF first
  <2> QED
    BY <2>1, <2>2
<1>4. leg' \in [Nodes -> Legs]
  BY <1>3 DEF Aggregate, Collect
<1>5. CASE Aggregate
  <2>1. agg' = [running |-> TRUE, floor |-> acked, views |-> at]
    BY <1>5 DEF Aggregate
  <2>2. agg' \in [running : BOOLEAN, floor : SUBSET Nat, views : [Nodes -> Nat]]
    BY <1>2, <2>1
  <2>3. \A n \in Nodes : at[n] <= at[n]
    BY <1>2, SMT
  <2> QED
    BY <1>1, <1>3, <1>4, <2>1, <2>2, <2>3 DEF ScanInv, vars
<1>6. CASE Collect
  <2>1. agg' = [running |-> FALSE, floor |-> {}, views |-> [n \in Nodes |-> 1]]
    BY <1>6 DEF Collect, ScanInv
  <2> QED
    BY <1>1, <1>2, <1>3, <1>4, <2>1, SMT DEF ScanInv, vars
<1> QED
  BY <1>5, <1>6

IInv == LeaseInv /\ ScanInv

\* A scan changes nothing of the lease protocol but the mount it finds fenced.
LEMMA ScanKeepsLease ==
  ASSUME LeaseInv, UNCHANGED <<conf, at, db, held, pass, op, acked, missed>>,
         mount' \in [Nodes -> Nat]
  PROVE  LeaseInv'
BY DEF LeaseInv, TypeOK, OneLease, Builds, Durable, NextPut, slate

LEMMA ScanNextInv == IInv /\ [ScanNext]_scanVars => IInv'
<1> SUFFICES ASSUME IInv, [ScanNext]_scanVars PROVE IInv'
  OBVIOUS
<1>0. LeaseInv /\ ScanInv
  BY DEF IInv
<1>1. ASSUME [Next]_vars, UNCHANGED <<agg, leg>> PROVE IInv'
  BY <1>0, <1>1, NextLease, LeaseKeepsScans DEF IInv
<1>2. ASSUME NEW n \in Nodes, CoverFirst(n) \/ ScanUnit(n) \/ ScanFenced(n) \/ CoverAgain(n)
      PROVE  IInv'
  <2>1. UNCHANGED <<conf, at, db, held, pass, op, acked, missed>>
    BY <1>2 DEF CoverFirst, ScanUnit, ScanFenced, CoverAgain, vars
  <2>2. mount' \in [Nodes -> Nat]
    <3>1. mount' = mount \/ Evict(n, leg[n].b)
      BY <1>2 DEF CoverFirst, ScanUnit, ScanFenced, CoverAgain, vars
    <3> QED
      BY <1>0, <3>1, EvictTyped DEF LeaseInv, TypeOK
  <2> QED
    BY <1>0, <1>2, <2>1, <2>2, ScanKeepsLease, LegStep DEF IInv
<1>3. CASE Aggregate \/ Collect
  <2>1. UNCHANGED vars
    BY <1>3 DEF Aggregate, Collect
  <2>2. LeaseInv'
    BY <1>0, <2>1, ScanKeepsLease DEF vars, LeaseInv, TypeOK
  <2> QED
    BY <1>0, <1>3, <2>2, FanOutStep DEF IInv
<1> QED
  BY <1>1, <1>2, <1>3 DEF ScanNext, scanVars

LEMMA ScanInitInv == ScanInit => IInv
<1> SUFFICES ASSUME ScanInit PROVE IInv
  OBVIOUS
<1>1. LeaseInv
  BY InitLease DEF ScanInit
<1>2. at \in [Nodes -> Nat \ {0}] /\ acked \in SUBSET Nat
  BY <1>1, SMT DEF LeaseInv, TypeOK
<1> QED
  BY <1>1, <1>2, SMT DEF IInv, ScanInit, ScanInv, NoLeg, Legs

-----------------------------------------------------------------------------
THEOREM Inductive == ScanSpec => []IInv
<1>1. ScanInit => IInv
  BY ScanInitInv
<1>2. IInv /\ [ScanNext]_scanVars => IInv'
  BY ScanNextInv
<1> QED
  BY <1>1, <1>2, PTL DEF ScanSpec

\* A put that Cluster.Put acknowledged is in the unit's database for good,
\* whichever nodes open, close, fence and restart over it.
THEOREM PutsDurable == ScanSpec => []AckedDurable
<1>1. IInv => AckedDurable
  BY DEF IInv, LeaseInv, Durable, AckedDurable
<1> QED
  BY <1>1, Inductive, PTL

\* A read that the lease's holder answers shows every put acknowledged before
\* it began: opening an instance recovers what its predecessors made durable.
THEOREM ReadsSeeAcked == ScanSpec => []LiveReadsSeeAcked
<1>1. IInv => LiveReadsSeeAcked
  BY DEF IInv, LeaseInv, Durable, LiveReadsSeeAcked
<1> QED
  BY <1>1, Inductive, PTL

\* Aggregate over a placement that stands: the owner's leg did not refuse, so it
\* had the unit mounted when it copied the mount table, and what it read from an
\* instance that was not fenced covers all that was acknowledged at the start.
THEOREM ScansComplete == ScanSpec => []CompleteWhilePlaced
<1>1. IInv => CompleteWhilePlaced
  <2> SUFFICES ASSUME IInv, Answered, agg.views = at, \A n, m \in Nodes : at[n] = at[m],
                      \A n \in Nodes : ~leg[n].stale
               PROVE  agg.floor \subseteq Collected
    BY DEF CompleteWhilePlaced
  <2>1. PICK n \in Nodes : TRUE
    BY OwnerTyped DEF IInv, LeaseInv, TypeOK
  <2> DEFINE o == conf.owners[at[n]]
  <2>2. o \in Nodes
    BY OwnerTyped DEF IInv, LeaseInv, TypeOK
  <2>3. Owner(o) = o
    BY <2>2 DEF Owner
  <2> HIDE DEF o
  <2>4. leg[o].b # 0 /\ leg[o].pc = "ok" /\ ~leg[o].stale
    BY <2>2, <2>3 DEF IInv, ScanInv, Answered
  <2>5. agg.floor \subseteq leg[o].rows
    BY <2>2, <2>4 DEF IInv, ScanInv
  <2> QED
    BY <2>2, <2>5 DEF Collected
<1> QED
  BY <1>1, Inductive, PTL

=============================================================================
