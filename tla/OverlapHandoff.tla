-------------------------- MODULE OverlapHandoff --------------------------
(***************************************************************************)
(* The overlap handoff of one replica position between nodes               *)
(* (pkg/cluster: multibackend_overlap.go, mounttable.go,                   *)
(* multibackend_replicated.go).  The old owner of a position keeps serving *)
(* it ("draining") until the durable serving marker of the position        *)
(* carries an epoch above the one it opened at; the new owner ("acquiring")*)
(* opens the position, which fences every earlier opener, installs the     *)
(* mount and then publishes the marker.  Nothing else passes between the   *)
(* two: no message and no lease.                                           *)
(*                                                                         *)
(* Threads of one node that interleave:                                    *)
(*   pass   a reconcile pass or a drain check (one at a time: reconcileMu) *)
(*   acq    the background acquire goroutine (one at a time: inFlight)     *)
(*   prompt the prompt acquire of fresh positions, outside reconcileMu     *)
(*   the data path, which evicts a mount that fails                        *)
(* Each step below is one critical section of mountTable.mu, one call of   *)
(* the backend factory, or one access to the marker.                       *)
(***************************************************************************)
EXTENDS Naturals

CONSTANTS Nodes,
          First,      \* the nodes that may own the position at first
          Prompting,  \* the nodes that get membership hints while the position is fresh
          MaxEpoch,   \* bound on the epochs opened
          MaxMoves,   \* bound on the changes of the nodes' placements
          MaxCrashes, \* bound on the crashes
          OpensFail   \* whether OpenUnit may fail for reasons of its own

ASSUME HandoffAssumption ==
  /\ First \subseteq Nodes /\ Prompting \subseteq Nodes
  /\ MaxEpoch \in Nat /\ MaxMoves \in Nat /\ MaxCrashes \in Nat
  /\ OpensFail \in BOOLEAN

Epochs == 0 .. MaxEpoch

VARIABLES
  durable, \* the durable writer epoch: the highest epoch opened
  marker,  \* the durable serving marker, 0 if none was written
  moves, crashes,
  status,  \* life cycle: loops and requests start once Open has returned
  owns,    \* the placements, current and pending, in which a node finds itself
  mount,   \* the open epoch of the handle in the mount table, 0 if none
  held,    \* the epoch at which the node's factory has the position open, or 0
  phase,   \* mountTable.phases: the handoff phase, with its OpenEpoch
  acq,     \* the acquire goroutine
  prompt,  \* the prompt acquire found the position fresh
  pass     \* the reconcile pass

storage == <<durable, marker>>
members == <<moves, crashes, status, owns>>
table   == <<mount, phase>>
vars    == <<durable, marker, moves, crashes, status, owns, mount, held, phase, acq, prompt, pass>>

Phases ==
  [name : {"none", "acquiring"}, gate : {0}] \cup [name : {"draining"}, gate : Epochs]

NoPhase == [name |-> "none", gate |-> 0]

Acquiring == [name |-> "acquiring", gate |-> 0]

Draining(e) == [name |-> "draining", gate |-> e]

At(pc, e) == [pc |-> pc, epoch |-> e]

Idle == At("idle", 0)

Init ==
  /\ durable = 0 /\ marker = 0
  /\ moves = 0 /\ crashes = 0
  /\ status = [n \in Nodes |-> "down"]
  /\ \E first \in First :
       owns = [n \in Nodes |-> IF n = first THEN {"current", "pending"} ELSE {}]
  /\ mount = [n \in Nodes |-> 0]
  /\ held = [n \in Nodes |-> 0]
  /\ phase = [n \in Nodes |-> NoPhase]
  /\ acq = [n \in Nodes |-> Idle]
  /\ prompt = [n \in Nodes |-> FALSE]
  /\ pass = [n \in Nodes |-> Idle]

Publish(e) == marker' = IF e > marker THEN e ELSE marker

(***************************************************************************)
(* ownOpenEpoch: the epoch recorded for the mount, else the durable one.   *)
(***************************************************************************)
OwnOpenEpoch(n) == IF mount[n] # 0 THEN mount[n] ELSE durable

-----------------------------------------------------------------------------
(***************************************************************************)
(* The acquire goroutine: startAcquire, OpenUnit (on an error CloseUnit and*)
(* OpenUnit again), mountServing, finishAcquire.                           *)
(***************************************************************************)
AcqAt(n, pc) == acq[n].pc = pc

Spawned(n) == IF acq[n] = Idle THEN [acq EXCEPT ![n] = At("open", 0)] ELSE acq

(* OpenUnit opens at max(intended, durable + 1), and the intent is 0 or 1. *)
SameEpoch == IF durable = 0 THEN 1 ELSE durable

NextEpoch == durable + 1

Opened(n) ==
  /\ durable < MaxEpoch
  /\ held[n] = 0
  /\ durable' = NextEpoch
  /\ held' = [held EXCEPT ![n] = NextEpoch]
  /\ acq' = [acq EXCEPT ![n] = At("install", NextEpoch)]
  /\ UNCHANGED <<marker, members, table, prompt, pass>>

AcqOpen(n) == AcqAt(n, "open") /\ Opened(n)

(* Already open here, or failing: close it and try once more. *)
AcqClose(n) ==
  /\ AcqAt(n, "open")
  /\ status[n] = "up"
  /\ held[n] # 0 \/ OpensFail
  /\ held' = [held EXCEPT ![n] = 0]
  /\ acq' = [acq EXCEPT ![n] = At("reopen", 0)]
  /\ UNCHANGED <<storage, members, table, prompt, pass>>

AcqReopen(n) == AcqAt(n, "reopen") /\ Opened(n)

(* The second failure, or the first of a boot: the position stays unmounted *)
(* and the phase, if any, stays behind.                                     *)
AcqFails(n) ==
  /\ AcqAt(n, "reopen") \/ (AcqAt(n, "open") /\ status[n] = "boot")
  /\ OpensFail
  /\ acq' = [acq EXCEPT ![n] = Idle]
  /\ UNCHANGED <<storage, members, table, held, prompt, pass>>

(* The goroutine's own retry, as often as its backoff budget lets it. *)
AcqRedrive(n) ==
  /\ AcqAt(n, "reopen")
  /\ OpensFail
  /\ acq' = [acq EXCEPT ![n] = At("open", 0)]
  /\ UNCHANGED <<storage, members, table, held, prompt, pass>>

Install(n) ==
  /\ AcqAt(n, "install")
  /\ phase[n].name # "draining"
  /\ mount' = [mount EXCEPT ![n] = acq[n].epoch]
  /\ phase' = [phase EXCEPT ![n] = NoPhase]
  /\ acq' = [acq EXCEPT ![n] = At("publish", acq[n].epoch)]
  /\ UNCHANGED <<storage, members, held, prompt, pass>>

BlockedByDrain(n) ==
  /\ AcqAt(n, "install")
  /\ phase[n].name = "draining"
  /\ held' = [held EXCEPT ![n] = 0]
  /\ acq' = [acq EXCEPT ![n] = Idle]
  /\ UNCHANGED <<storage, members, table, prompt, pass>>

PublishForgotten(n) ==
  /\ AcqAt(n, "publish")
  /\ acq' = [acq EXCEPT ![n] = Idle]
  /\ UNCHANGED <<storage, members, table, held, prompt, pass>>

PublishServing(n) ==
  /\ AcqAt(n, "publish")
  /\ Publish(acq[n].epoch)
  /\ acq' = [acq EXCEPT ![n] = Idle]
  /\ UNCHANGED <<durable, members, table, held, prompt, pass>>

-----------------------------------------------------------------------------
(***************************************************************************)
(* A reconcile pass.  It computes the two placements and lists the mounts, *)
(* which decides what the pass is for; it then acts by the phase it finds. *)
(***************************************************************************)
Work(n) ==
  CASE mount[n] = 0 /\ "pending" \in owns[n]        -> "gain"
    [] mount[n] = 0 /\ "pending" \notin owns[n]     -> "idle"
    [] mount[n] # 0 /\ owns[n] = {"current", "pending"} -> "keep"
    [] mount[n] # 0 /\ owns[n] = {"pending"}        -> "finish"
    [] mount[n] # 0 /\ owns[n] = {"current"}        -> "lose"
    [] mount[n] # 0 /\ owns[n] = {}                 -> "drop"

PassAt(n, pcs) == status[n] = "up" /\ pass[n].pc \in pcs

GoTo(n, pc, e) == pass' = [pass EXCEPT ![n] = At(pc, e)]

EndPass(n) == pass' = [pass EXCEPT ![n] = Idle]

Reconcile(n) ==
  /\ PassAt(n, {"idle"})
  /\ Work(n) # "idle"
  /\ GoTo(n, Work(n), 0)
  /\ UNCHANGED <<storage, members, table, held, acq, prompt>>

(* Owned in both placements again: the drain is called off. *)
Reclaim(n) ==
  /\ PassAt(n, {"keep"})
  /\ phase[n].name = "draining" /\ mount[n] # 0
  /\ phase' = [phase EXCEPT ![n] = NoPhase]
  /\ EndPass(n)
  /\ UNCHANGED <<storage, members, mount, held, acq, prompt>>

(* finishStuckGainer: mounted, in a gainer phase, no goroutine to end it. *)
StuckGainer(n) == phase[n] = Acquiring /\ mount[n] # 0 /\ acq[n] = Idle

DropStuckPhase(n) ==
  /\ PassAt(n, {"keep", "finish"})
  /\ StuckGainer(n)
  /\ phase' = [phase EXCEPT ![n] = NoPhase]
  /\ GoTo(n, "rearm", 0)
  /\ UNCHANGED <<storage, members, mount, held, acq, prompt>>

Rearm(n) ==
  /\ PassAt(n, {"rearm"})
  /\ Publish(OwnOpenEpoch(n))
  /\ EndPass(n)
  /\ UNCHANGED <<durable, members, table, held, acq, prompt>>

(* beginDrain: the open epoch is read first, the phase armed under the lock. *)
BeginDrain(n) ==
  /\ PassAt(n, {"lose"})
  /\ phase[n] = NoPhase
  /\ GoTo(n, "arm", OwnOpenEpoch(n))
  /\ UNCHANGED <<storage, members, table, held, acq, prompt>>

ArmDrain(n) ==
  /\ PassAt(n, {"arm"})
  /\ phase' = [phase EXCEPT ![n] =
                 IF mount[n] # 0 /\ @ = NoPhase THEN Draining(pass[n].epoch) ELSE @]
  /\ EndPass(n)
  /\ UNCHANGED <<storage, members, mount, held, acq, prompt>>

(* Owned in neither placement: released, unless the marker is not past it. *)
HeldForMissingSuccessorMarker(n) == marker # 0 /\ marker <= OwnOpenEpoch(n)

BeginRelease(n) ==
  /\ PassAt(n, {"drop"})
  /\ phase[n] = NoPhase
  /\ ~HeldForMissingSuccessorMarker(n)
  /\ GoTo(n, "release", 0)
  /\ UNCHANGED <<storage, members, table, held, acq, prompt>>

Release(n) ==
  /\ PassAt(n, {"release"})
  /\ mount' = [mount EXCEPT ![n] = 0]
  /\ GoTo(n, "close", 0)
  /\ UNCHANGED <<storage, members, held, phase, acq, prompt>>

CloseUnit(n) ==
  /\ PassAt(n, {"close"})
  /\ held' = [held EXCEPT ![n] = 0]
  /\ EndPass(n)
  /\ UNCHANGED <<storage, members, table, acq, prompt>>

(* Pending and not mounted: enter the gainer phase, then start the goroutine. *)
BeginAcquire(n) ==
  /\ PassAt(n, {"gain"})
  /\ phase[n].name # "draining"
  /\ phase' = [phase EXCEPT ![n] = Acquiring]
  /\ GoTo(n, "start", 0)
  /\ UNCHANGED <<storage, members, mount, held, acq, prompt>>

StartAcquire(n) ==
  /\ PassAt(n, {"start"})
  /\ acq' = Spawned(n)
  /\ EndPass(n)
  /\ UNCHANGED <<storage, members, table, held, prompt>>

(* The phase, or the marker, leaves the pass nothing to do. *)
LeaveAlone(n) ==
  /\ \/ PassAt(n, {"gain"}) /\ phase[n].name = "draining"
     \/ PassAt(n, {"keep"}) /\ phase[n].name # "draining" /\ ~StuckGainer(n)
     \/ PassAt(n, {"finish"}) /\ ~StuckGainer(n)
     \/ PassAt(n, {"lose"}) /\ phase[n] # NoPhase
     \/ PassAt(n, {"drop"}) /\ (phase[n] # NoPhase \/ HeldForMissingSuccessorMarker(n))
  /\ EndPass(n)
  /\ UNCHANGED <<storage, members, table, held, acq, prompt>>

(***************************************************************************)
(* drainCheck: under reconcileMu, the drained position is released once    *)
(* the marker is strictly above the epoch its drain was armed with.        *)
(***************************************************************************)
DrainCheck(n) ==
  /\ PassAt(n, {"idle"})
  /\ phase[n].name = "draining"
  /\ marker > phase[n].gate
  /\ mount' = [mount EXCEPT ![n] = 0]
  /\ phase' = [phase EXCEPT ![n] = NoPhase]
  /\ GoTo(n, "close", 0)
  /\ UNCHANGED <<storage, members, held, acq, prompt>>

-----------------------------------------------------------------------------
(***************************************************************************)
(* desiredReplicaUnits asks for the placement with every member counted.   *)
(* With nobody joining that is the current one, with nobody draining the   *)
(* pending one.                                                            *)
(***************************************************************************)
Desired(n) == owns[n] # {}

(***************************************************************************)
(* promptAcquireFreshPositions: an established node finds a position it    *)
(* should hold unmounted and without a marker, and acquires it at once.    *)
(***************************************************************************)
PromptCheck(n) ==
  /\ n \in Prompting
  /\ status[n] = "up"
  /\ ~prompt[n]
  /\ Desired(n)
  /\ mount[n] = 0
  /\ marker = 0
  /\ prompt' = [prompt EXCEPT ![n] = TRUE]
  /\ UNCHANGED <<storage, members, table, held, acq, pass>>

PromptAcquire(n) ==
  /\ status[n] = "up"
  /\ prompt[n]
  /\ prompt' = [prompt EXCEPT ![n] = FALSE]
  /\ acq' = Spawned(n)
  /\ UNCHANGED <<storage, members, table, held, pass>>

(***************************************************************************)
(* The data path: an operation on a handle that a later open fenced, or    *)
(* that was closed under it, evicts the mount unless it is draining.       *)
(***************************************************************************)
Unusable(n) == mount[n] # 0 /\ (mount[n] # durable \/ held[n] # mount[n])

EvictDraining(n) ==
  /\ status[n] = "up"
  /\ Unusable(n)
  /\ mount' = [mount EXCEPT ![n] = 0]
  /\ UNCHANGED <<storage, members, held, phase, acq, prompt, pass>>

EvictStaleMount(n) ==
  /\ status[n] = "up"
  /\ Unusable(n)
  /\ phase[n].name # "draining"
  /\ mount' = [mount EXCEPT ![n] = 0]
  /\ UNCHANGED <<storage, members, held, phase, acq, prompt, pass>>

-----------------------------------------------------------------------------
(***************************************************************************)
(* Membership.  A node sees the cluster change and its placements with it; *)
(* nodes read the membership at their own pace, so what two of them find   *)
(* need not agree.  A boot opens a position no marker was written for.     *)
(***************************************************************************)
Learn(n) ==
  /\ status[n] # "down"
  /\ moves < MaxMoves
  /\ \E o \in SUBSET {"current", "pending"} \ {owns[n]} : owns' = [owns EXCEPT ![n] = o]
  /\ moves' = moves + 1
  /\ UNCHANGED <<storage, crashes, status, table, held, acq, prompt, pass>>

Boot(n) ==
  /\ status[n] = "down"
  /\ status' = [status EXCEPT ![n] = "boot"]
  /\ acq' = IF Desired(n) /\ marker = 0 THEN Spawned(n) ELSE acq
  /\ UNCHANGED <<storage, moves, crashes, owns, table, held, prompt, pass>>

Booted(n) ==
  /\ status[n] = "boot"
  /\ acq[n] = Idle
  /\ status' = [status EXCEPT ![n] = "up"]
  /\ UNCHANGED <<storage, moves, crashes, owns, table, held, acq, prompt, pass>>

Crash(n) ==
  /\ status[n] # "down"
  /\ crashes < MaxCrashes
  /\ crashes' = crashes + 1
  /\ status' = [status EXCEPT ![n] = "down"]
  /\ mount' = [mount EXCEPT ![n] = 0]
  /\ held' = [held EXCEPT ![n] = 0]
  /\ phase' = [phase EXCEPT ![n] = NoPhase]
  /\ acq' = [acq EXCEPT ![n] = Idle]
  /\ prompt' = [prompt EXCEPT ![n] = FALSE]
  /\ pass' = [pass EXCEPT ![n] = Idle]
  /\ UNCHANGED <<storage, moves, owns>>

-----------------------------------------------------------------------------
AcquireStep(n) ==
  \/ AcqOpen(n) \/ AcqClose(n) \/ AcqReopen(n) \/ AcqFails(n) \/ AcqRedrive(n)
  \/ Install(n) \/ BlockedByDrain(n) \/ PublishServing(n)

PassStep(n) ==
  \/ Reclaim(n) \/ DropStuckPhase(n) \/ Rearm(n) \/ BeginDrain(n) \/ ArmDrain(n)
  \/ BeginRelease(n) \/ Release(n) \/ CloseUnit(n)
  \/ BeginAcquire(n) \/ StartAcquire(n) \/ LeaveAlone(n)

Prompt(n) == PromptCheck(n) \/ PromptAcquire(n)

Next ==
  \E n \in Nodes :
    \/ AcquireStep(n) \/ Reconcile(n) \/ PassStep(n) \/ DrainCheck(n) \/ Prompt(n)
    \/ EvictStaleMount(n) \/ Learn(n) \/ Boot(n) \/ Booted(n) \/ Crash(n)

Spec == Init /\ [][Next]_vars

(***************************************************************************)
(* Reconcile ticks, the steps of goroutines that were started and the      *)
(* drain poller keep running (a waiter on reconcileMu gets it in the end), *)
(* and requests keep reaching the position, so that a handle that cannot   *)
(* serve is found out.  Nothing is assumed of membership changes.          *)
(***************************************************************************)
Fairness ==
  \A n \in Nodes :
    /\ WF_vars(AcquireStep(n))
    /\ WF_vars(Reconcile(n) \/ PassStep(n))
    /\ SF_vars(DrainCheck(n))
    /\ WF_vars(PromptAcquire(n))
    /\ WF_vars(EvictStaleMount(n))
    /\ WF_vars(Booted(n))

FairSpec == Spec /\ Fairness

-----------------------------------------------------------------------------
TypeOK ==
  /\ durable \in Epochs /\ marker \in Epochs
  /\ moves \in 0 .. MaxMoves /\ crashes \in 0 .. MaxCrashes
  /\ status \in [Nodes -> {"down", "boot", "up"}]
  /\ owns \in [Nodes -> SUBSET {"current", "pending"}]
  /\ mount \in [Nodes -> Epochs] /\ held \in [Nodes -> Epochs]
  /\ phase \in [Nodes -> Phases]
  /\ acq \in [Nodes -> [pc : {"idle", "open", "reopen", "install", "publish"}, epoch : Epochs]]
  /\ prompt \in [Nodes -> BOOLEAN]
  /\ pass \in [Nodes -> [pc : {"idle", "keep", "finish", "lose", "drop", "gain", "rearm",
                               "arm", "release", "close", "start"}, epoch : Epochs]]

(***************************************************************************)
(* A draining owner keeps the position in its mount table, whatever the    *)
(* data path, a late acquire or a release do meanwhile: evictIfSame leaves *)
(* a loser phase alone and releaseReplicaUnit is never reached with one    *)
(* (so the orphan that clearOrphanedDrain looks for does not arise).       *)
(***************************************************************************)
DrainKeepsMount == \A n \in Nodes : phase[n].name = "draining" => mount[n] # 0

(***************************************************************************)
(* Fencing: of all the handles nodes hold, in their mount tables or still  *)
(* on the way there, at most one node's is at the durable epoch, the only  *)
(* one whose writes are accepted ("at most one writer can ever be live for *)
(* one mount", factory.go), and the serving marker names no epoch that was *)
(* not opened.                                                             *)
(***************************************************************************)
Writes(n) == durable # 0 /\ (mount[n] = durable \/ held[n] = durable \/ acq[n].epoch = durable)

OneWriter == marker <= durable /\ \A n, m \in Nodes : Writes(n) /\ Writes(m) => n = m

(* The epoch a drain is gated on is the open epoch of the mount it drains. *)
GateIsOwnEpoch == \A n \in Nodes : phase[n].name = "draining" => phase[n].gate = mount[n]

(***************************************************************************)
(* Once the nodes agree on the placement and o is the pending owner, o     *)
(* ends up with the position mounted, unfenced and in no phase, and every  *)
(* other node has let go of it: the drain, the acquire, a flip left half   *)
(* done and an eviction on either side never wait for each other for ever. *)
(* The premise excludes the race in which beginDrain reads the epoch of a  *)
(* handle that is then reopened, so that the gate is not the mount's       *)
(* epoch; the bound on epochs is the model's.                              *)
(***************************************************************************)
Settled(o) ==
  /\ \A n \in Nodes : status[n] = "up"
  /\ \A n \in Nodes : "pending" \in owns[n] <=> n = o
  /\ \E c \in Nodes : \A n \in Nodes : "current" \in owns[n] <=> n = c
  /\ "current" \notin owns[o] => phase[o].name # "draining"

Served(o) ==
  /\ mount[o] = durable /\ held[o] = durable /\ phase[o] = NoPhase
  /\ \A n \in Nodes \ {o} : mount[n] = 0

HandoffCompletes ==
  []GateIsOwnEpoch =>
    \A o \in Nodes : <>[]Settled(o) => <>[](Served(o) \/ durable = MaxEpoch)

=============================================================================
