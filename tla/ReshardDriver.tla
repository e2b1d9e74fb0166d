---------------------------- MODULE ReshardDriver ----------------------------
(***************************************************************************)
(* The decentralized online reshard: every node's reconcile tick turns the *)
(* agreed unit count into a live split or merge without a coordinator.  A  *)
(* node enters the reshard, copies its parent slots into the gen-(g+1)     *)
(* units while writes go to both generations, publishes its slot's         *)
(* caught-up marker, the last one in publishes the unit's cut-over marker, *)
(* nodes flip when they observe it, and each retires its parents after a   *)
(* final copy under the unit's write pause.  Ticks, writes, marker I/O     *)
(* failures and restarts interleave; one key is followed.  A single node   *)
(* without a conditional store runs the same bisect inline, in the call of *)
(* Reshard.                                                                *)
(*                                                                         *)
(* Source: pkg/cluster multibackend_reshard_{driver,copy,marker,route,     *)
(* arbiter,r1}.go, multibackend_reshard.go, multibackend_bootstrap_marker  *)
(* .go, multibackend_join_gen.go.                                          *)
(***************************************************************************)
EXTENDS Integers, FiniteSets

CONSTANTS
    Nodes,          \* node n holds replica slot n of the units it has slots of
    Configs         \* the reshards considered

VARIABLES
    conf,           \* the reshard of this behaviour, chosen once
    agreed,         \* the arbiter's agreed generation (its count), 0 or 1
    init,           \* the generation in the __cluster/init marker
    caught,         \* the caught-up markers <<unit, slot>> in the store
    cutover,        \* the units whose cut-over marker is in the store
    gs,             \* gs[n]: genState of n: gen, next (mid-reshard), cut
    parents,        \* parents[n]: the gen-0 units n has mounted
    child,          \* child[n]: n has its gen-1 slot of the key's unit mounted
    old,            \* old[n]: the key's newest write in n's gen-0 slot
    new,            \* new[n]: the key's newest write in n's gen-1 slot
    paused,         \* paused[n]: the units whose write pause n holds
    drv,            \* drv[n]: where n's tick is
    op,             \* op[w]: the writes, numbered in stamp order
    legs,           \* replica puts under way: [w, gen, at]
    faults,         \* store failures and deferrals still to come
    restarts,       \* the nodes that may still restart, once each
    last,           \* R=1: the last write applied (history)
    misplaced,      \* R=1: a write reached the parent of a published cut-over (history)
    undrained       \* nodes that restarted past a parent slot they had not drained (history)

(* A reshard: kind "split", "merge", "r1" (an R=1 split) or "inline" (the  *)
(* same on a single storeless node); slots, the nodes holding a slot of    *)
(* each gen-0 unit, where the key's is unit 0; w, the write bar; passes,   *)
(* copyMaxPasses; writers, the coordinator of each write; deletes, the     *)
(* writes that are R=1 deletes; restart, the nodes that may restart once;  *)
(* and the faults.                                                         *)
history == <<last, misplaced, undrained>>

vars == <<conf, agreed, init, caught, cutover, gs, parents, child, old, new, paused,
          drv, op, legs, faults, restarts, history>>

store == <<agreed, init, caught, cutover>>
data == <<old, new>>
mounts == <<parents, child>>

HigherOf(a, b) == IF a >= b THEN a ELSE b

Inline == conf.kind = "inline"

R1 == conf.kind = "r1" \/ Inline

Units == DOMAIN conf.slots

(* The nodes of the key's unit.                                            *)
Members == conf.slots[0]

Owned(n) == {k \in Units : n \in conf.slots[k]}

(* ParentUnit/ChildUnits: a merge's two units share one survivor, so they  *)
(* are gated and cut over together; a split unit stands alone.             *)
Together(k) == IF conf.kind = "merge" THEN Units ELSE {k}

Idle == [step |-> "idle", k |-> 0, todo |-> {}, held |-> 0, passes |-> 0, final |-> FALSE]

NotStarted == [pc |-> "idle", gen |-> 0, acked |-> {}]

Fresh(g) == [gen |-> g, next |-> FALSE, cut |-> {}]

Init ==
    /\ conf \in Configs
    /\ agreed = 0 /\ init = 0
    /\ caught = {} /\ cutover = {}
    /\ gs = [n \in Nodes |-> Fresh(0)]
    /\ parents = [n \in Nodes |-> Owned(n)]
    /\ child = [n \in Nodes |-> FALSE]
    /\ old = [n \in Nodes |-> 0] /\ new = [n \in Nodes |-> 0]
    /\ paused = [n \in Nodes |-> {}]
    /\ drv = [n \in Nodes |-> Idle]
    /\ op = [w \in DOMAIN conf.writers |-> NotStarted]
    /\ legs = {}
    /\ faults = conf.faults /\ restarts = conf.restart
    /\ last = 0 /\ misplaced = FALSE
    /\ undrained = {}

-----------------------------------------------------------------------------
(* observeReshard, up to the copies: enter the reshard when the agreed     *)
(* count is ahead (reshardGenStep), then fold the cut-over markers in.  A  *)
(* marker read late or failing reads as absent.                            *)

Entered(n) == gs[n].next \/ agreed > gs[n].gen

ObserveFirst(n, S) == gs[n].cut \cup S

Driven(n, cut) == [Idle EXCEPT !.step = "pick", !.todo = parents[n] \ cut]

Tick(n) ==
    /\ drv[n].step = "idle" /\ Entered(n) /\ ~Inline
    /\ \E S \in SUBSET cutover :
         LET cut == ObserveFirst(n, S)
         IN  /\ S = cutover \/ faults > 0
             /\ faults' = IF S = cutover THEN faults ELSE faults - 1
             /\ gs' = [gs EXCEPT ![n].next = TRUE, ![n].cut = cut]
             /\ drv' = [drv EXCEPT ![n] = Driven(n, cut)]
    /\ UNCHANGED <<conf, store, mounts, data, paused, op, legs, restarts, history>>

(* shouldAdvanceArbiter: settled at the agreed count, target not reached.  *)
Advance(n) ==
    /\ drv[n].step = "idle" /\ ~gs[n].next /\ ~Inline
    /\ gs[n].gen = agreed /\ agreed = 0
    /\ agreed' = 1
    /\ UNCHANGED <<conf, init, caught, cutover, gs, mounts, data, paused, drv, op, legs,
                   faults, restarts, history>>

(* The overlap reconcile mounts the node's gen-1 slot while it is in the   *)
(* reshard (splitChildrenVia), or past it.                                 *)
MountChild(n) ==
    /\ Owned(n) # {} /\ ~child[n] /\ ~R1
    /\ gs[n].next \/ gs[n].gen = 1
    /\ child' = [child EXCEPT ![n] = TRUE]
    /\ UNCHANGED <<conf, store, gs, parents, data, paused, drv, op, legs, faults, restarts, history>>

-----------------------------------------------------------------------------
(* driveSplitCopies / driveMergeCopies: unit by unit over the owned        *)
(* parents that had not cut over when the pass began.                      *)

Goto(n, step) == drv' = [drv EXCEPT ![n].step = step]

NextUnit(n) == drv' = [drv EXCEPT ![n] = [Idle EXCEPT !.step = "pick", !.todo = drv[n].todo]]

Pick(n) ==
    /\ drv[n].step = "pick" /\ ~R1
    /\ \/ /\ drv[n].todo # {} /\ child[n]
          /\ \E k \in drv[n].todo :
               drv' = [drv EXCEPT ![n].step = "scan", ![n].k = k, ![n].passes = 0,
                                  ![n].todo = @ \ {k}]
       \/ /\ drv[n].todo = {} \/ ~child[n]
          /\ Goto(n, "observe")
    /\ UNCHANGED <<conf, store, gs, mounts, data, paused, op, legs, faults, restarts, history>>

(* One pass over the parent slot: the key is read, then applied.           *)
CopyScan(n) ==
    /\ drv[n].step = "scan"
    /\ drv' = [drv EXCEPT ![n].step = "apply",
                          ![n].held = IF drv[n].k = 0 THEN old[n] ELSE 0]
    /\ UNCHANGED <<conf, store, gs, mounts, data, paused, op, legs, faults, restarts, history>>

AfterCopy(n, clean) ==
    drv' = [drv EXCEPT ![n].step = IF ~clean THEN "deferred"
                                   ELSE IF drv[n].final THEN "retire" ELSE "mark"]

PassesLeft(n) == drv[n].passes + 1 < conf.passes

(* copyParentUntilCaughtUp: into the co-located child, again until a pass  *)
(* applies nothing or the passes run out.                                  *)
CopySplit(n) ==
    LET fresh == drv[n].held > new[n]
    IN  /\ drv[n].step = "apply" /\ conf.kind = "split"
        /\ new' = [new EXCEPT ![n] = HigherOf(@, drv[n].held)]
        /\ IF fresh /\ PassesLeft(n)
           THEN drv' = [drv EXCEPT ![n].step = "scan", ![n].passes = @ + 1]
           ELSE AfterCopy(n, ~fresh)
        /\ UNCHANGED <<conf, store, gs, mounts, old, paused, op, legs, faults, restarts, history>>

(* copyParentIntoSurvivor: to the survivor's replicas, W acks per key.     *)
ForwardQuorum(Q) == Cardinality(Q) >= conf.w

CopyMerge(n) ==
    /\ drv[n].step = "apply" /\ conf.kind = "merge"
    /\ \E Q \in SUBSET {m \in Members : child[m]} :
         LET quorum == ForwardQuorum(Q)
             short == Cardinality({m \in Members : child[m]}) < conf.w
         IN
         /\ quorum \/ short \/ faults > 0
         /\ faults' = IF quorum \/ short THEN faults ELSE faults - 1
         /\ new' = [m \in Nodes |-> IF m \in Q THEN HigherOf(new[m], drv[n].held) ELSE new[m]]
         /\ AfterCopy(n, quorum)
    /\ UNCHANGED <<conf, store, gs, mounts, old, paused, op, legs, restarts, history>>

(* publishCaughtupMarker, then the cut-over marker when every slot of the  *)
(* unit (of both units of a merge) is caught up.  Either may fail.         *)
PublishCaughtup(n) ==
    /\ drv[n].step = "mark"
    /\ \/ caught' = caught \cup {<<drv[n].k, n>>} /\ Goto(n, "gate") /\ UNCHANGED faults
       \/ faults > 0 /\ faults' = faults - 1 /\ NextUnit(n) /\ UNCHANGED caught
    /\ UNCHANGED <<conf, agreed, init, cutover, gs, mounts, data, paused, op, legs, restarts, history>>

AnySlotCaughtUp(k) == \E n \in conf.slots[k] : <<k, n>> \in caught

OneSlotTooMany(k) == \A n \in 1..(Cardinality(conf.slots[k]) + 1) : <<k, n>> \in caught

allSlotsCaughtUp(k) == \A n \in conf.slots[k] : <<k, n>> \in caught

PublishCutover(n) ==
    LET ready == \A k \in Together(drv[n].k) : allSlotsCaughtUp(k)
    IN  /\ drv[n].step = "gate"
        /\ \/ /\ ready
              /\ cutover' = cutover \cup Together(drv[n].k)
              /\ UNCHANGED faults
           \/ ~ready /\ UNCHANGED <<cutover, faults>>
           \/ ready /\ faults > 0 /\ faults' = faults - 1 /\ UNCHANGED cutover
        /\ NextUnit(n)
        /\ UNCHANGED <<conf, agreed, init, caught, gs, mounts, data, paused, op, legs, restarts, history>>

(* A unit whose copy was not clean waits for the next tick; in the         *)
(* finalize the pause is released with it.                                 *)
Deferred(n) ==
    /\ drv[n].step = "deferred"
    /\ paused' = [paused EXCEPT ![n] = {}]
    /\ drv' = [drv EXCEPT ![n] = IF @.final THEN Idle
                                   ELSE [Idle EXCEPT !.step = "pick", !.todo = drv[n].todo]]
    /\ UNCHANGED <<conf, store, gs, mounts, data, op, legs, faults, restarts, history>>

-----------------------------------------------------------------------------
(* driveR1SplitCopies / bisectUnitOnlineR1.  R=1 stores raw values: a copy *)
(* overwrites.  A unit whose cut-over marker is present is left alone; the *)
(* bulk copy runs unpaused, then clear, copy and flip run under the pause. *)

Flipped(k) == k \in cutover

(* copyUnitInto: a key the parent does not hold is not touched.            *)
Copied(n) == IF old[n] = 0 THEN new[n] ELSE old[n]

(* The key's value in the children of unit k, cleared or copied afresh.    *)
Filled(n, v) == new' = IF drv'[n].k = 0 THEN [new EXCEPT ![n] = v] ELSE new

R1Pick(n) ==
    /\ drv[n].step = "pick" /\ R1
    /\ \/ \E k \in drv[n].todo :
            /\ drv' = [drv EXCEPT ![n].step = IF Flipped(k) THEN "pick" ELSE "pause",
                                  ![n].k = IF Flipped(k) THEN 0 ELSE k, ![n].todo = @ \ {k}]
            /\ IF Flipped(k) THEN UNCHANGED <<child, new>>
               ELSE /\ child' = [child EXCEPT ![n] = @ \/ k = 0]
                    /\ Filled(n, Copied(n))
       \/ /\ drv[n].todo = {} /\ ~Inline
          /\ Goto(n, "observe")
          /\ UNCHANGED <<child, new>>
    /\ UNCHANGED <<conf, store, gs, parents, old, paused, op, legs, faults, restarts, history>>

R1Pause(n) ==
    /\ drv[n].step = "pause"
    /\ paused' = [paused EXCEPT ![n] = {drv[n].k}]
    /\ Goto(n, "clear")
    /\ UNCHANGED <<conf, store, gs, mounts, data, op, legs, faults, restarts, history>>

KeepsCopied(n) == new[n]

(* clearBackend empties the children: a key deleted since the bulk copy is *)
(* not copied again.                                                       *)
Cleared(n) == 0

R1Clear(n) ==
    /\ drv[n].step = "clear"
    /\ Goto(n, "recopy")
    /\ Filled(n, Cleared(n))
    /\ UNCHANGED <<conf, store, gs, mounts, old, paused, op, legs, faults, restarts, history>>

R1Recopy(n) ==
    /\ drv[n].step = "recopy"
    /\ Goto(n, IF Inline THEN "flip" ELSE "publish")
    /\ Filled(n, Copied(n))
    /\ UNCHANGED <<conf, store, gs, mounts, old, paused, op, legs, faults, restarts, history>>

(* The marker is the flip: published before the local cut-over, a failure  *)
(* leaves the unit for the next tick.                                      *)
R1Publish(n) ==
    /\ drv[n].step = "publish"
    /\ \/ cutover' = cutover \cup {drv[n].k} /\ Goto(n, "flip") /\ UNCHANGED <<paused, faults>>
       \/ /\ faults > 0 /\ faults' = faults - 1
          /\ paused' = [paused EXCEPT ![n] = {}]
          /\ NextUnit(n) /\ UNCHANGED cutover
    /\ UNCHANGED <<conf, agreed, init, caught, gs, mounts, data, op, legs, restarts, history>>

R1Flip(n) ==
    /\ drv[n].step = "flip"
    /\ gs' = [gs EXCEPT ![n].cut = @ \cup {drv[n].k}]
    /\ paused' = [paused EXCEPT ![n] = {}]
    /\ IF Inline THEN Goto(n, "drop") ELSE NextUnit(n)
    /\ UNCHANGED <<conf, store, mounts, data, op, legs, faults, restarts, history>>

-----------------------------------------------------------------------------
(* Reshard on a single node without a conditional store: the units it      *)
(* mounts are bisected in the call, each parent retired right after its    *)
(* flip.  An error ends the call with the reshard half done; the operator  *)
(* calls again, and the units left are bisected from the start.            *)

mountedOldUnits(n) == parents[n]

Reshard(n) ==
    /\ Inline /\ n \in Members
    /\ drv[n].step = "idle" /\ gs[n].gen = 0
    /\ gs' = [gs EXCEPT ![n].next = TRUE]
    /\ drv' = [drv EXCEPT ![n] = [Idle EXCEPT !.step = "pick", !.todo = mountedOldUnits(n)]]
    /\ UNCHANGED <<conf, store, mounts, data, paused, op, legs, faults, restarts, history>>

(* bisectUnit: an open, a copy or a clear fails; the pause is given back.  *)
BisectFails(n) ==
    /\ Inline /\ drv[n].step \in {"pick", "pause", "clear", "recopy"}
    /\ faults > 0 /\ faults' = faults - 1
    /\ paused' = [paused EXCEPT ![n] = {}]
    /\ drv' = [drv EXCEPT ![n] = Idle]
    /\ UNCHANGED <<conf, store, gs, mounts, data, op, legs, restarts, history>>

BisectRetires(n) ==
    /\ drv[n].step = "drop"
    /\ parents' = [parents EXCEPT ![n] = @ \ {drv[n].k}]
    /\ NextUnit(n)
    /\ UNCHANGED <<conf, store, gs, child, data, paused, op, legs, faults, restarts, history>>

ReshardReturns(n) ==
    /\ Inline /\ drv[n].step = "pick" /\ drv[n].todo = {}
    /\ gs' = [gs EXCEPT ![n] = Fresh(1)]
    /\ drv' = [drv EXCEPT ![n] = Idle]
    /\ UNCHANGED <<conf, store, mounts, data, paused, op, legs, faults, restarts, history>>

BisectUnit(n) == R1Pick(n) \/ R1Pause(n) \/ R1Clear(n) \/ R1Recopy(n) \/ R1Flip(n)
                 \/ BisectFails(n) \/ BisectRetires(n)

-----------------------------------------------------------------------------
(* The second observeCutoverMarkers and, all units cut over, the finalize. *)

ObserveAgain(n) ==
    LET cut == gs[n].cut \cup cutover
    IN  /\ drv[n].step = "observe"
        /\ gs' = [gs EXCEPT ![n].cut = cut]
        /\ drv' = [drv EXCEPT ![n] = IF cut = Units THEN [Idle EXCEPT !.step = "init"] ELSE Idle]
        /\ UNCHANGED <<conf, store, mounts, data, paused, op, legs, faults, restarts, history>>

(* advanceClusterInitMarker: a compare-and-set loop, monotone; on failure  *)
(* nothing is retired this tick.                                           *)
AdvanceInitMarker(n) ==
    /\ drv[n].step = "init"
    /\ \/ init' = 1 /\ Goto(n, "final") /\ UNCHANGED faults
       \/ /\ faults > 0 /\ faults' = faults - 1
          /\ drv' = [drv EXCEPT ![n] = Idle] /\ UNCHANGED init
    /\ UNCHANGED <<conf, agreed, caught, cutover, gs, mounts, data, paused, op, legs, restarts, history>>

(* finalizeParent: take the pause, run the final copy, retire the parent.  *)
RetireWithoutCopy(n) == "retire"

FinalCopy(n) == IF R1 THEN "retire" ELSE "scan"

FinalizeParent(n) ==
    /\ drv[n].step = "final" /\ parents[n] # {}
    /\ R1 \/ child[n]
    /\ \E k \in parents[n] :
         /\ paused' = [paused EXCEPT ![n] = {k}]
         /\ drv' = [drv EXCEPT ![n] = [Idle EXCEPT !.step = FinalCopy(n), !.k = k, !.final = TRUE]]
    /\ UNCHANGED <<conf, store, gs, mounts, data, op, legs, faults, restarts, history>>

RetireParent(n) ==
    /\ drv[n].step = "retire"
    /\ parents' = [parents EXCEPT ![n] = @ \ {drv[n].k}]
    /\ paused' = [paused EXCEPT ![n] = {}]
    /\ drv' = [drv EXCEPT ![n] = [Idle EXCEPT !.step = "final"]]
    /\ UNCHANGED <<conf, store, gs, child, data, op, legs, faults, restarts, history>>

(* Every owned parent retired: the live generation advances.  (A finalize  *)
(* whose child is not mounted yet gives up for this tick.)                 *)
CommitGeneration(n) ==
    /\ drv[n].step = "final"
    /\ \/ parents[n] = {} /\ gs' = [gs EXCEPT ![n] = Fresh(1)]
       \/ parents[n] # {} /\ ~R1 /\ ~child[n] /\ UNCHANGED gs
    /\ drv' = [drv EXCEPT ![n] = Idle]
    /\ UNCHANGED <<conf, store, mounts, data, paused, op, legs, faults, restarts, history>>

-----------------------------------------------------------------------------
(* Writes.  A coordinator resolves the key with its own genState at every  *)
(* attempt: mid-reshard it writes both generations and counts the acks of  *)
(* the authoritative one, the parent until it has seen the cut-over.       *)

Authoritative(n) == IF 0 \in gs[n].cut THEN 1 ELSE gs[n].gen

Generations(n) == IF gs[n].next THEN {0, 1} ELSE {gs[n].gen}

ToSlots(w, gens) == {[w |-> w, gen |-> g, at |-> m] : g \in gens, m \in Members}

Attempt(w) ==
    LET n == conf.writers[w]
    IN  /\ op[w].pc \in {"idle", "run"} /\ ~R1
        /\ op[w].pc = "idle" \/ op[w].gen # Authoritative(n)
        /\ op' = [op EXCEPT ![w] = [pc |-> "run", gen |-> Authoritative(n), acked |-> {}]]
        /\ legs' = legs \cup ToSlots(w, Generations(n))
        /\ UNCHANGED <<conf, store, gs, mounts, data, paused, drv, faults, restarts, history>>

(* resolveAndApplyReplicaPut: behind the pause on a parent slot            *)
(* mid-reshard, apply-if-newer on the mounted slot.  A leg that finds the  *)
(* slot unmounted fails with the transient status, any leg may get lost:   *)
(* both are a leg that never lands.                                        *)
LegLands(m) ==
    LET mid == m.gen = 0 /\ gs[m.at].next
    IN  /\ m \in legs
        /\ mid => 0 \notin paused[m.at]
        /\ IF m.gen = 0 THEN 0 \in parents[m.at] ELSE child[m.at]
        /\ old' = IF m.gen = 0 THEN [old EXCEPT ![m.at] = HigherOf(@, m.w)] ELSE old
        /\ new' = IF m.gen = 1 THEN [new EXCEPT ![m.at] = HigherOf(@, m.w)] ELSE new
        /\ legs' = legs \ {m}
        /\ op' = IF op[m.w].pc = "run" /\ op[m.w].gen = m.gen
                 THEN [op EXCEPT ![m.w].acked = @ \cup {m.at}] ELSE op
        /\ UNCHANGED <<conf, store, gs, mounts, paused, drv, faults, restarts, history>>

Acked(w) ==
    /\ op[w].pc = "run" /\ Cardinality(op[w].acked) >= conf.w
    /\ op' = [op EXCEPT ![w] = [NotStarted EXCEPT !.pc = "acked"]]
    /\ UNCHANGED <<conf, store, gs, mounts, data, paused, drv, legs, faults, restarts, history>>

(* The write timeout, counted among the faults: reported as failed, legs   *)
(* may still land.                                                         *)
TimedOut(w) ==
    /\ op[w].pc = "run"
    /\ faults > 0 /\ faults' = faults - 1
    /\ op' = [op EXCEPT ![w] = [NotStarted EXCEPT !.pc = "failed"]]
    /\ UNCHANGED <<conf, store, gs, mounts, data, paused, drv, legs, restarts, history>>

(* R=1: placement is anchored at the parent's owner, whose local resolve,  *)
(* under the pause's read side, honours the cut-over.  Raw values: a       *)
(* delete leaves nothing.                                                  *)
Stored(w) == IF w \in conf.deletes THEN 0 ELSE w

PutR1(w) ==
    LET n == CHOOSE m \in Members : TRUE
        g == Authoritative(n)
    IN  /\ op[w].pc = "idle" /\ R1
        /\ 0 \notin paused[n]
        /\ IF g = 0 THEN 0 \in parents[n] ELSE child[n]
        /\ old' = IF g = 0 THEN [old EXCEPT ![n] = Stored(w)] ELSE old
        /\ new' = IF g = 1 THEN [new EXCEPT ![n] = Stored(w)] ELSE new
        /\ last' = Stored(w)
        /\ misplaced' = (misplaced \/ (g = 0 /\ 0 \in cutover))
        /\ op' = [op EXCEPT ![w].pc = "acked"]
        /\ UNCHANGED <<conf, store, gs, mounts, paused, drv, legs, faults, restarts, undrained>>

-----------------------------------------------------------------------------
(* A process restarts: bootstrapViaMarker adopts the marker's generation,  *)
(* with no reshard in flight in memory; databases keep their content.      *)
Restart(n) ==
    /\ n \in restarts
    /\ restarts' = restarts \ {n}
    /\ gs' = [gs EXCEPT ![n] = Fresh(init)]
    /\ parents' = [parents EXCEPT ![n] = IF init = 0 THEN Owned(n) ELSE {}]
    /\ child' = [child EXCEPT ![n] = init = 1 /\ Owned(n) # {}]
    /\ undrained' = IF parents[n] # {} /\ init = 1 /\ ~R1 THEN undrained \cup {n} ELSE undrained
    /\ paused' = [paused EXCEPT ![n] = {}]
    /\ drv' = [drv EXCEPT ![n] = Idle]
    /\ op' = [w \in DOMAIN op |-> IF conf.writers[w] = n /\ op[w].pc = "run"
                                  THEN [NotStarted EXCEPT !.pc = "failed"] ELSE op[w]]
    /\ UNCHANGED <<conf, store, data, legs, faults, last, misplaced>>

-----------------------------------------------------------------------------
Drive(n) ==
    \/ Tick(n) \/ Advance(n)
    \/ Pick(n) \/ CopyScan(n) \/ CopySplit(n) \/ CopyMerge(n) \/ PublishCaughtup(n)
    \/ PublishCutover(n) \/ Deferred(n)
    \/ R1Publish(n) \/ BisectUnit(n) \/ Reshard(n) \/ ReshardReturns(n)
    \/ ObserveAgain(n) \/ AdvanceInitMarker(n) \/ FinalizeParent(n) \/ RetireParent(n)
    \/ CommitGeneration(n)

Next ==
    \/ \E n \in Nodes : Drive(n) \/ MountChild(n) \/ Restart(n)
    \/ \E w \in DOMAIN op : Attempt(w) \/ Acked(w) \/ TimedOut(w) \/ PutR1(w)
    \/ \E m \in legs : LegLands(m)

(* Every node's reconcile loop keeps ticking, and the mounts it starts     *)
(* complete; the operator repeats a failed Reshard.  Nothing is assumed of *)
(* writes.                                                                 *)
Fairness == \A n \in Nodes : WF_vars(Drive(n)) /\ WF_vars(MountChild(n))

Spec == Init /\ [][Next]_vars /\ Fairness

-----------------------------------------------------------------------------

(* The slots whose mounted databases hold write w or a newer one.          *)
Holders(w) == {m \in Members : (0 \in parents[m] /\ old[m] >= w) \/ new[m] >= w}

(* No acknowledged write of a replicated reshard is lost: dual writes,     *)
(* online copies, flips seen at different times and the final copy under   *)
(* the pause keep it, or a newer one, on W slots, less the slots whose     *)
(* node restarted past the init marker before draining them.               *)
AckedCovered ==
    \A w \in DOMAIN op :
        op[w].pc = "acked" /\ ~R1 => Cardinality(Holders(w)) >= conf.w - Cardinality(undrained)

(* The R=1 bisect loses no write and resurrects no delete: from the flip   *)
(* on the child holds the last acknowledged write exactly, through errors  *)
(* and crashes between clear, copy, marker and flip, as long as no write   *)
(* was taken by a parent whose cut-over marker was already published.      *)
BisectKeepsLast ==
    R1 /\ ~misplaced => \A n \in Members : Authoritative(n) = 1 => new[n] = last

(* A node serves only the next generation after every unit was cut over,   *)
(* and a unit is cut over only after every slot of it was caught up: no    *)
(* generation advance with a unit left behind.                             *)
AdvancesTogether ==
    \A n \in Nodes : gs[n].gen = 1 =>
        /\ Inline \/ (cutover = Units /\ init = 1)
        /\ R1 \/ \A k \in Units : \A m \in conf.slots[k] : <<k, m>> \in caught

(* Every node finishes the reshard: no lost marker write, unclean copy,    *)
(* pause or restart leaves a node in the old generation for ever.          *)
ReshardCompletes ==
    <>[](\A n \in UNION {conf.slots[k] : k \in Units} : gs[n].gen = 1 /\ parents[n] = {})

(* multibackend_reshard_r1.go: "NO ACKED WRITE IS LOST".                   *)
NoAckedWriteLost ==
    R1 => \A n \in Members : gs[n].gen = 1 => new[n] = last

=============================================================================
