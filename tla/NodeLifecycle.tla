---------------------------- MODULE NodeLifecycle ----------------------------
(***************************************************************************)
(* One node of a replicated cluster from Open to Close: the goroutines it  *)
(* runs, the settle timer that debounces the unit reconcile, the warm-up   *)
(* of positions a peer was serving at boot, the background opens under the *)
(* node-wide permit, the drain poller, the graceful leave, and concurrent  *)
(* calls of Close; and, where the node is a daemon, shaled's Run around it.*)
(*                                                                         *)
(* Peers are the environment: a change of the view hands positions to or   *)
(* from a successor (away), and a successor may at any time prove that it  *)
(* serves a position this node is handing off.  What the bytes and epochs  *)
(* do meanwhile is the subject of OverlapHandoff.                          *)
(***************************************************************************)
EXTENDS Integers, FiniteSets

CONSTANTS
  Positions,    \* replica positions
  Configs       \* the nodes explored, each a record as in ConfigType

VARIABLES
  conf,         \* the node's configuration and the bounds of its world
  up,           \* Open has returned
  joining,      \* selfJoining, as published
  draining,     \* selfDraining, as published
  away,         \* positions the view hands to a successor
  mark,         \* per position, whose serving marker is in shared storage
  mounted,      \* mountTable.mounts
  losers,       \* positions in the Draining phase
  held,         \* positions the factory has open
  acq,          \* per position, the background acquire (mountTable.inFlight)
  permit,       \* positions whose open holds a permit
  settle,       \* settleTimer, timers it lost track of, settlePending
  cb,           \* settle-timer callbacks by stage
  pass,         \* who runs a reconcile pass (reconcileMu)
  coordLoop,    \* runCoordLoop
  tickLoop,     \* runReconcileLoop
  hint,         \* the coordinator's change hint is pending
  prompts,      \* goroutines of promptAcquireFreshPositions
  notes,        \* OnUnitMounted callbacks running
  poller,       \* the drain poller
  expired,      \* a drain poller has given up (history)
  once,         \* drainOnce
  closed,       \* Cluster.closed
  quit,         \* closeCh is closed
  coordUp,      \* the coordinator is running
  close,        \* per caller, where its Close is
  run,          \* where shaled's Run is ("embedded": the node is not a daemon)
  left          \* hints, open failures and fences still to come

timerVars == <<settle, cb>>
mountVars == <<mark, mounted, losers, held>>
acqVars == <<acq, permit>>
loopVars == <<coordLoop, tickLoop, hint, prompts, notes, poller, expired>>
closeVars == <<once, closed, quit, coordUp, close>>
viewVars == <<joining, draining, away>>
vars == <<conf, up, viewVars, mountVars, acqVars, timerVars, pass, loopVars, closeVars, run, left>>

ConfigType ==
  [owns : SUBSET Positions,     \* positions the placement gives this node
   marked : SUBSET Positions,   \* positions a peer serves when the node boots
   established : BOOLEAN,       \* a peer that is not itself Joining is visible
   drain : BOOLEAN,             \* GracefulLeaveDrainTimeout > 0
   notify : BOOLEAN,            \* OnUnitMounted is registered
   daemon : BOOLEAN,            \* shaled runs the node, its Run is caller c1
   permits : Nat,               \* OpenConcurrency
   closers : SUBSET {"c1", "c2"},   \* callers of Close
   views : SUBSET SUBSET Positions,   \* what a view change may hand away
   hints : Nat, fails : Nat, fences : Nat]

\* Run is the only caller of Close in a daemon.
ASSUME ConfigsAssumption ==
  /\ IsFiniteSet(Positions)
  /\ Configs \subseteq ConfigType
  /\ \A c \in Configs : c.daemon => c.closers = {"c1"}

Owns == conf.owns
Closers == conf.closers
NoPass == "none"

Init ==
  /\ conf \in Configs
  /\ up = FALSE
  /\ joining = FALSE /\ draining = FALSE /\ away = {}
  /\ mark = [p \in Positions |-> IF p \in conf.marked THEN "peer" ELSE "none"]
  /\ mounted = {} /\ losers = {} /\ held = {}
  /\ acq = [p \in Positions |-> "none"] /\ permit = {}
  /\ settle = [ref |-> "nil", loose |-> 0, pending |-> 0]
  /\ cb = [fired |-> 0, lock |-> 0]
  /\ pass = NoPass
  /\ coordLoop = "off" /\ tickLoop = "off" /\ hint = FALSE
  /\ prompts = 0 /\ notes = 0
  /\ poller = "off" /\ expired = FALSE
  /\ once = "no" /\ closed = FALSE /\ quit = FALSE /\ coordUp = TRUE
  /\ close = [i \in Closers |-> "idle"]
  /\ run = IF conf.daemon THEN "off" ELSE "embedded"
  /\ left = [hints |-> conf.hints, fails |-> conf.fails, fences |-> conf.fences]

\* A position this node is handing to a successor: the view says so, or the
\* node itself is leaving.
Lost(p) == draining \/ p \in away

-----------------------------------------------------------------------------
(* The settle timer.                                                       *)

\* Mutant: an arm that finds the timer fired rides its obligation.
RidesFiredTimer == settle.ref # "nil"

\* SettleArm: only a timer stopped before it fired hands its obligation over.
Inherits == settle.ref = "live"

\* scheduleReconcileIn: stop what is referenced, install a replacement.
Armed ==
  [settle EXCEPT !.ref = "live", !.pending = IF Inherits THEN @ ELSE @ + 1]

TimerFires ==
  \/ /\ settle.ref = "live"
     /\ settle' = [settle EXCEPT !.ref = "fired"]
     /\ cb' = [cb EXCEPT !.fired = @ + 1]
  \/ /\ settle.loose > 0
     /\ settle' = [settle EXCEPT !.loose = @ - 1]
     /\ cb' = [cb EXCEPT !.fired = @ + 1]

\* runScheduledReconcile clears the reference, whichever timer it names by
\* now: a timer armed since the callback fired is lost track of.  On a closed
\* node runReconcile returns at once and the obligation is released.
CallbackClears ==
  /\ cb.fired > 0
  /\ cb' = [fired |-> cb.fired - 1, lock |-> IF closed THEN cb.lock ELSE cb.lock + 1]
  /\ settle' = [ref |-> "nil",
                loose |-> IF settle.ref = "live" THEN settle.loose + 1 ELSE settle.loose,
                pending |-> IF closed THEN settle.pending - 1 ELSE settle.pending]

Timer ==
  /\ up
  /\ TimerFires \/ CallbackClears
  /\ UNCHANGED <<conf, run, up, viewVars, mountVars, acqVars, pass, loopVars, closeVars, left>>

-----------------------------------------------------------------------------
(* Open: the coordinator starts, boot mounts what no peer is serving, and  *)
(* the Joining bit and the first pass follow from what was deferred.       *)

\* BootWarmUp.
Prompted(deferred) == deferred # {} /\ conf.established

\* mountReplicaUnits: a position a peer serves is deferred, one whose open
\* fails is skipped, the rest is mounted, marked and announced.  The Joining
\* bit follows from what was deferred.
MountReplicaUnits(failed) ==
  LET opened == (Owns \ conf.marked) \ failed
  IN /\ Cardinality(failed) <= left.fails
     /\ left' = [left EXCEPT !.fails = @ - Cardinality(failed)]
     /\ mounted' = opened /\ held' = opened
     /\ mark' = [p \in Positions |-> IF p \in opened THEN "own" ELSE mark[p]]
     /\ notes' = IF conf.notify THEN Cardinality(opened) ELSE 0
     /\ joining' = (conf.marked # {})
     /\ settle' = IF Prompted(conf.marked) THEN Armed ELSE settle

\* The coordinator is started, the positions are mounted, the loops begin.
Open ==
  /\ ~up /\ coordUp
  /\ run \in {"embedded", "bound"}
  /\ \E failed \in SUBSET (Owns \ conf.marked) : MountReplicaUnits(failed)
  /\ up' = TRUE
  /\ coordLoop' = "wait" /\ tickLoop' = "wait"
  /\ run' = IF run = "bound" THEN "serving" ELSE run
  /\ UNCHANGED <<conf, draining, away, losers, acqVars, cb, pass, hint, prompts, poller,
                 expired, closeVars>>

\* The coordinator does not start, or the units cannot be initialized and the
\* coordinator is closed again: Open returns an error.
OpenErrs ==
  /\ ~up /\ coordUp /\ left.fails > 0
  /\ run \in {"embedded", "bound"}
  /\ coordUp' = FALSE
  /\ run' = IF run = "bound" THEN "exit" ELSE run
  /\ left' = [left EXCEPT !.fails = @ - 1]
  /\ UNCHANGED <<conf, up, viewVars, mountVars, acqVars, timerVars, pass, loopVars, once, closed,
                 quit, close>>

-----------------------------------------------------------------------------
(* The reconcile pass.                                                     *)

\* The callers of runReconcile that wait for reconcileMu.
Waiting(who) ==
  CASE who = "cb" -> cb.lock > 0
    [] who = "tick" -> tickLoop = "lock"
    [] OTHER -> close[who] = "lock"

Runners == {"cb", "tick"} \cup Closers

Locks(who) ==
  /\ pass = NoPass
  /\ Waiting(who)
  /\ pass' = who
  /\ cb' = IF who = "cb" THEN [cb EXCEPT !.lock = @ - 1] ELSE cb
  /\ tickLoop' = IF who = "tick" THEN "pass" ELSE tickLoop
  /\ close' = IF who \in Closers THEN [close EXCEPT ![who] = "pass"] ELSE close
  /\ UNCHANGED <<conf, run, up, viewVars, mountVars, acqVars, settle, coordLoop, hint, prompts,
                 notes, poller, expired, once, closed, quit, coordUp, left>>

\* startAcquire: one open per position, none on a closed node.
Spawned(ps) ==
  [p \in Positions |-> IF p \in ps /\ acq[p] = "none" /\ ~closed THEN "start" ELSE acq[p]]

\* ensureDrainPoller: at most one runs.
Polling(drains) == IF drains # {} /\ poller = "off" THEN "on" ELSE poller

\* drainCheck: the positions whose successor has proved that it serves.
Released(ps) == {p \in ps : mark[p] = "succ"}

\* Mutant: only boot clears the Joining bit.
NeverWarm(ps) == FALSE

\* allPendingPositionsMounted.
Warm(ps) == \A x \in Owns : Lost(x) \/ x \in ps

\* One pass.  reconcileReplicaUnitsOverlap: a lost position starts to drain
\* and one that came back is reclaimed, what is missing is acquired in the
\* background.  runDrainChecks: drains whose successor serves are released.
\* maintainJoiningState: a warm node is no longer Joining.  A callback then
\* releases its obligation.
Pass ==
  /\ pass # NoPass
  /\ LET started == {x \in mounted \ losers : Lost(x)}
         kept == {x \in losers : Lost(x) \/ x \notin mounted}
         gone == Released(kept \cup started)
     IN /\ losers' = (kept \cup started) \ gone
        /\ mounted' = mounted \ gone
        /\ held' = held \ (gone \cap mounted)
        /\ acq' = Spawned({x \in Owns \ mounted : ~Lost(x) /\ x \notin losers})
        /\ poller' = Polling(started)
        /\ joining' = (joining /\ ~Warm(mounted \ gone))
  /\ pass' = NoPass
  /\ settle' = IF pass = "cb" THEN [settle EXCEPT !.pending = @ - 1] ELSE settle
  /\ tickLoop' = IF pass = "tick" THEN "wait" ELSE tickLoop
  /\ close' = IF pass \in Closers THEN [close EXCEPT ![pass] = "gate"] ELSE close
  /\ UNCHANGED <<conf, run, up, draining, away, mark, permit, cb, coordLoop, hint, prompts,
                 notes, expired, once, closed, quit, coordUp, left>>

-----------------------------------------------------------------------------
(* The background acquire of a position (acquireReplicaUnitOverlap).       *)

Acquiring(p, stage) == acq' = [acq EXCEPT ![p] = stage]

\* Every attempt looks at the closed flag, waits for a permit and looks again.
Starts(p) ==
  /\ acq[p] = "start"
  /\ Acquiring(p, IF closed THEN "none" ELSE "queued")
  /\ UNCHANGED <<conf, run, up, viewVars, mountVars, permit, timerVars, pass, loopVars, closeVars, left>>

\* Mutant: a goroutine that finds the node closed keeps its permit.
KeepsPermit(p) == permit \cup {p}

\* The permits once p has had its turn: kept for the open, given back on a
\* closed node.
Permits(p) == IF closed THEN permit ELSE permit \cup {p}

TakesPermit(p) ==
  /\ acq[p] = "queued"
  /\ Cardinality(permit) < conf.permits
  /\ permit' = Permits(p)
  /\ Acquiring(p, IF closed THEN "none" ELSE "open")
  /\ UNCHANGED <<conf, run, up, viewVars, mountVars, timerVars, pass, loopVars, closeVars, left>>

\* The watchdog takes the permit from an open that takes too long; the open
\* goes on.
Watchdog(p) ==
  /\ acq[p] \in {"open", "install"} /\ p \in permit
  /\ permit' = permit \ {p}
  /\ UNCHANGED <<conf, run, up, viewVars, mountVars, acq, timerVars, pass, loopVars, closeVars, left>>

\* The backoff before another attempt: it ends in one, or the schedule is spent
\* (the reconcile takes over), or closeCh cuts it short.
Redrive(p) ==
  \/ ~quit /\ Acquiring(p, "start")
  \/ Acquiring(p, "none")

\* A failed open closes what the factory may still hold and is tried again.
OpenFails(p) ==
  /\ acq[p] = "open"
  /\ left.fails > 0
  /\ left' = [left EXCEPT !.fails = @ - 1]
  /\ held' = held \ {p}
  /\ permit' = permit \ {p}
  /\ Redrive(p)
  /\ UNCHANGED <<conf, run, up, viewVars, mark, mounted, losers, timerVars, pass, loopVars, closeVars>>

\* OpenUnit succeeds, a stale handle closed first if the factory refuses.
Opens(p) ==
  /\ acq[p] = "open"
  /\ held' = held \cup {p}
  /\ Acquiring(p, "install")
  /\ UNCHANGED <<conf, run, up, viewVars, mark, mounted, losers, permit, timerVars, pass, loopVars,
                 closeVars, left>>

\* mountServing: the mount, the marker and the consumer's callback, unless
\* Close has begun or the position drains here; then the open is released.
Installs(p) ==
  /\ acq[p] = "install"
  /\ IF closed \/ p \in losers
     THEN /\ held' = held \ {p}
          /\ UNCHANGED <<mark, mounted, notes>>
     ELSE /\ mounted' = mounted \cup {p}
          /\ mark' = [mark EXCEPT ![p] = "own"]
          /\ notes' = IF conf.notify THEN notes + 1 ELSE notes
          /\ UNCHANGED held
  /\ permit' = permit \ {p}
  /\ Acquiring(p, IF joining /\ ~closed THEN "arm" ELSE "none")
  /\ UNCHANGED <<conf, run, up, viewVars, losers, timerVars, pass, coordLoop, tickLoop, hint,
                 prompts, poller, expired, closeVars, left>>

\* A node that is still warming asks for a pass at once.
ArmsWarmUp(p) ==
  /\ acq[p] = "arm"
  /\ settle' = Armed
  /\ Acquiring(p, "none")
  /\ UNCHANGED <<conf, run, up, viewVars, mountVars, permit, cb, pass, loopVars, closeVars, left>>

Acquire(p) == Starts(p) \/ TakesPermit(p) \/ Opens(p) \/ Installs(p) \/ ArmsWarmUp(p)

-----------------------------------------------------------------------------
(* The loops.                                                              *)

\* onViewChanged, up to scheduleReconcileIn's look at the closed flag.
TakesHint ==
  /\ coordLoop = "wait" /\ hint
  /\ hint' = FALSE
  /\ coordLoop' = IF closed THEN "prompt" ELSE "arm"
  /\ UNCHANGED <<conf, run, up, viewVars, mountVars, acqVars, timerVars, pass, tickLoop, prompts,
                 notes, poller, expired, closeVars, left>>

ArmsReconcile ==
  /\ coordLoop = "arm"
  /\ settle' = Armed
  /\ coordLoop' = "prompt"
  /\ UNCHANGED <<conf, run, up, viewVars, mountVars, acqVars, cb, pass, tickLoop, hint, prompts,
                 notes, poller, expired, closeVars, left>>

\* promptAcquireFreshPositions leaves the loop: not on a warming node.
StartsPrompt ==
  /\ coordLoop = "prompt"
  /\ prompts' = IF joining \/ closed THEN prompts ELSE prompts + 1
  /\ coordLoop' = "wait"
  /\ UNCHANGED <<conf, run, up, viewVars, mountVars, acqVars, timerVars, pass, tickLoop, hint,
                 notes, poller, expired, closeVars, left>>

\* Only positions nobody ever served are acquired ahead of the reconcile.
Prompt ==
  /\ prompts > 0
  /\ prompts' = prompts - 1
  /\ acq' = Spawned({p \in Owns \ (mounted \cup away) : mark[p] = "none"})
  /\ UNCHANGED <<conf, run, up, viewVars, mountVars, permit, timerVars, pass, coordLoop, tickLoop, hint,
                 notes, poller, expired, closeVars, left>>

\* The OnUnitMounted callback returns.
Notified ==
  /\ notes > 0
  /\ notes' = notes - 1
  /\ UNCHANGED <<conf, run, up, viewVars, mountVars, acqVars, timerVars, pass, coordLoop, tickLoop,
                 hint, prompts, poller, expired, closeVars, left>>

\* The self-heal tick, up to the lock.
Ticks ==
  /\ tickLoop = "wait" /\ up /\ ~closed
  /\ tickLoop' = "lock"
  /\ UNCHANGED <<conf, run, up, viewVars, mountVars, acqVars, timerVars, pass, coordLoop, hint,
                 prompts, notes, poller, expired, closeVars, left>>

Quits ==
  /\ quit
  /\ \/ coordLoop = "wait" /\ coordLoop' = "off" /\ UNCHANGED tickLoop
     \/ tickLoop = "wait" /\ tickLoop' = "off" /\ UNCHANGED coordLoop
  /\ UNCHANGED <<conf, run, up, viewVars, mountVars, acqVars, timerVars, pass, hint, prompts, notes,
                 poller, expired, closeVars, left>>

\* One poll: the drain checks under reconcileMu, and the end of the poller
\* when no drain is left.
Polls ==
  /\ poller = "on" /\ ~closed /\ pass = NoPass
  /\ LET gone == Released(losers)
     IN /\ losers' = losers \ gone
        /\ mounted' = mounted \ gone
        /\ held' = held \ (gone \cap mounted)
  /\ poller' = IF losers' = {} THEN "ending" ELSE "on"
  /\ UNCHANGED <<conf, run, up, viewVars, mark, acqVars, timerVars, pass, coordLoop, tickLoop, hint,
                 prompts, notes, expired, closeVars, left>>

\* Its deadline passes, or the node closes.
PollerGivesUp ==
  /\ poller = "on"
  /\ \/ poller' = "expiring" /\ expired' = TRUE
     \/ closed /\ poller' = "ending" /\ UNCHANGED expired
  /\ UNCHANGED <<conf, run, up, viewVars, mountVars, acqVars, timerVars, pass, coordLoop, tickLoop,
                 hint, prompts, notes, closeVars, left>>

\* Mutant: the poller just stops.
StopsForGood == "off"

\* A drain that began while the poller was ending found it still active: the
\* poller looks again after it has given up its flag.
LooksAgain == IF poller = "ending" /\ ~closed /\ losers # {} THEN "on" ELSE "off"

PollerEnds ==
  /\ poller \in {"ending", "expiring"}
  /\ poller' = LooksAgain
  /\ UNCHANGED <<conf, run, up, viewVars, mountVars, acqVars, timerVars, pass, coordLoop, tickLoop,
                 hint, prompts, notes, expired, closeVars, left>>

-----------------------------------------------------------------------------
(* Close, by any number of callers.                                        *)

At(i, pc) == close' = [close EXCEPT ![i] = pc]

\* drainOnce: the first caller publishes Draining and drives the hand-off, the
\* others wait for it.
BeginClose(i) ==
  /\ up /\ close[i] = "idle"
  /\ run \in {"embedded", "signalled", "died"}
  /\ IF ~conf.drain \/ once = "done"
     THEN At(i, "cas") /\ UNCHANGED <<once, draining>>
     ELSE once = "no" /\ once' = "running" /\ draining' = TRUE /\ At(i, "check")
  /\ UNCHANGED <<conf, run, up, joining, away, mountVars, acqVars, timerVars, pass, loopVars, closed,
                 quit, coordUp, left>>

\* allOwnedPositionsHandedOff.
HandedOff == \A p \in mounted : mark[p] = "succ"

\* DrainForLeave: a pass, the gate, again until every position has a serving
\* successor or the budget is spent.
Drains(i) ==
  /\ \/ close[i] = "check" /\ At(i, "lock") /\ UNCHANGED once
     \/ close[i] = "gate" /\ (HandedOff \/ once = "late") /\ once' = "done" /\ At(i, "cas")
     \/ close[i] = "gate" /\ ~HandedOff /\ once # "late" /\ At(i, "check") /\ UNCHANGED once
  /\ UNCHANGED <<conf, run, up, viewVars, mountVars, acqVars, timerVars, pass, loopVars, closed, quit,
                 coordUp, left>>

DrainTimeout ==
  /\ once = "running"
  /\ once' = "late"
  /\ UNCHANGED <<conf, run, up, viewVars, mountVars, acqVars, timerVars, pass, loopVars, closed, quit,
                 coordUp, close, left>>

\* The one that sets the closed flag tears the node down; the others wait for
\* the loops only.
Closes(i) ==
  /\ close[i] = "cas"
  /\ closed' = TRUE
  /\ At(i, IF closed THEN "await" ELSE "stop")
  /\ UNCHANGED <<conf, run, up, viewVars, mountVars, acqVars, timerVars, pass, loopVars, once, quit,
                 coordUp, left>>

\* A timer stopped before it fired takes its obligation with it.
StopsTimer(i) ==
  /\ close[i] = "stop"
  /\ settle' = [settle EXCEPT !.ref = "nil",
                              !.pending = IF settle.ref = "live" THEN @ - 1 ELSE @]
  /\ At(i, "signal")
  /\ UNCHANGED <<conf, run, up, viewVars, mountVars, acqVars, cb, pass, loopVars, once, closed, quit,
                 coordUp, left>>

Signals(i) ==
  /\ close[i] = "signal"
  /\ quit' = TRUE
  /\ At(i, "wait")
  /\ UNCHANGED <<conf, run, up, viewVars, mountVars, acqVars, timerVars, pass, loopVars, once, closed,
                 coordUp, left>>

\* Mutant: Close does not wait for the opens.
LoopsOnly == coordLoop = "off" /\ tickLoop = "off" /\ prompts = 0 /\ poller = "off"

\* loopWG.Wait.  Timer callbacks are not counted.
Idle == /\ coordLoop = "off" /\ tickLoop = "off"
        /\ prompts = 0 /\ notes = 0 /\ poller = "off"
        /\ \A p \in Positions : acq[p] = "none"

WaitsForLoops(i) ==
  /\ close[i] \in {"wait", "await"}
  /\ Idle
  /\ At(i, IF close[i] = "wait" THEN "coord" ELSE "done")
  /\ UNCHANGED <<conf, run, up, viewVars, mountVars, acqVars, timerVars, pass, loopVars, once, closed,
                 quit, coordUp, left>>

ClosesCoordinator(i) ==
  /\ close[i] = "coord"
  /\ coordUp' = FALSE
  /\ At(i, "units")
  /\ UNCHANGED <<conf, run, up, viewVars, mountVars, acqVars, timerVars, pass, loopVars, once, closed,
                 quit, left>>

\* closeMountedUnits: what is mounted is closed, and only that.
ClosesUnits(i) ==
  /\ close[i] = "units"
  /\ mounted' = {}
  /\ held' = held \ mounted
  /\ At(i, "stopped")
  /\ UNCHANGED <<conf, run, up, viewVars, mark, losers, acqVars, timerVars, pass, loopVars, once,
                 closed, quit, coordUp, left>>

\* What Run does around the node: it binds its listener before Open, or gives
\* up; after a signal, or when the server dies, it closes the node.
Daemon ==
  /\ \/ run = "off" /\ run' \in {"bound", "exit"}
     \/ run = "serving" /\ run' \in {"signalled", "died"}
  /\ UNCHANGED <<conf, up, viewVars, mountVars, acqVars, timerVars, pass, loopVars, closeVars, left>>

\* Mutant: the transport stops at the signal, ahead of the drain.
StopsAtOnce == up

\* Run's own call of Close has returned.
NodeClosed == \E i \in Closers : close[i] \in {"done", "stopped"}

\* GracefulStop follows Close, and the factory is released last; a server that
\* died is not stopped again.
Releases ==
  /\ \/ run = "signalled" /\ NodeClosed /\ run' = "stopped"
     \/ run = "died" /\ NodeClosed /\ run' = "exit"
     \/ run = "stopped" /\ run' = "exit"
  /\ UNCHANGED <<conf, up, viewVars, mountVars, acqVars, timerVars, pass, loopVars, closeVars, left>>

CloseStep(i) ==
  \/ Drains(i) \/ Closes(i) \/ StopsTimer(i) \/ Signals(i)
  \/ WaitsForLoops(i) \/ ClosesCoordinator(i) \/ ClosesUnits(i)

-----------------------------------------------------------------------------
(* The world.                                                              *)

\* The view changes: positions move to successors, or come back.
ViewMoves ==
  /\ up /\ left.hints > 0
  /\ left' = [left EXCEPT !.hints = @ - 1]
  /\ away' \in conf.views
  /\ hint' = TRUE
  /\ UNCHANGED <<conf, run, up, joining, draining, mountVars, acqVars, timerVars, pass, coordLoop,
                 tickLoop, prompts, notes, poller, expired, closeVars>>

\* A successor has opened a position it was handed, and says so.
SuccessorServes(p) ==
  /\ up /\ p \in Owns /\ Lost(p) /\ mark[p] # "succ"
  /\ mark' = [mark EXCEPT ![p] = "succ"]
  /\ UNCHANGED <<conf, run, up, viewVars, mounted, losers, held, acqVars, timerVars, pass, loopVars,
                 closeVars, left>>

\* An operation finds the mount fenced: it is evicted, unless it drains.  The
\* factory keeps the handle.
FencedOut(p) ==
  /\ p \in mounted \ losers /\ left.fences > 0
  /\ left' = [left EXCEPT !.fences = @ - 1]
  /\ mounted' = mounted \ {p}
  /\ UNCHANGED <<conf, run, up, viewVars, mark, losers, held, acqVars, timerVars, pass, loopVars,
                 closeVars>>

Next ==
  \/ Open \/ OpenErrs \/ Timer \/ Pass
  \/ \E who \in Runners : Locks(who)
  \/ \E p \in Positions : Acquire(p) \/ Watchdog(p) \/ OpenFails(p)
  \/ TakesHint \/ ArmsReconcile \/ StartsPrompt \/ Prompt \/ Notified \/ Ticks \/ Quits
  \/ Polls \/ PollerGivesUp \/ PollerEnds
  \/ \E i \in Closers : BeginClose(i) \/ CloseStep(i)
  \/ DrainTimeout \/ Daemon \/ Releases
  \/ ViewMoves \/ \E p \in Positions : SuccessorServes(p) \/ FencedOut(p)

\* Timers fire, goroutines run and wait fairly for reconcileMu, opens and
\* callbacks end, the drain budget runs out.  Nothing is assumed of successors,
\* views or callers.
Background ==
  \/ Open \/ Timer \/ TakesHint \/ ArmsReconcile \/ StartsPrompt \/ Prompt \/ Notified \/ Quits
  \/ PollerEnds \/ (closed /\ PollerGivesUp) \/ Releases
  \/ \E p \in Positions : Acquire(p)
  \/ \E i \in Closers : CloseStep(i)

Fairness ==
  /\ WF_vars(Background) /\ WF_vars(DrainTimeout) /\ WF_vars(Pass) /\ WF_vars(Ticks) /\ WF_vars(Locks("tick"))
  /\ SF_vars(Locks("cb")) /\ SF_vars(\E i \in Closers : Locks(i))

Spec == Init /\ [][Next]_vars /\ Fairness

-----------------------------------------------------------------------------
(* Properties.                                                             *)

\* The passes a timer or a callback will still run, or is running.
Owed == (IF settle.ref = "live" THEN 1 ELSE 0) + settle.loose
        + cb.fired + cb.lock + (IF pass = "cb" THEN 1 ELSE 0)

\* WaitForRebalanceIdle: what a waiter polls.
RebalanceIdle == settle.pending <= 0

\* Whatever arms, stops and firings interleave, settlePending is never negative
\* and a WaitForRebalanceIdle returns exactly when no pass is owed: it is not
\* woken early, and no leaked obligation keeps it waiting forever.
SettleAccounted == settle.pending >= 0 /\ (RebalanceIdle <=> Owed = 0)

\* The Close that tears the node down returns with nothing mounted, no open in
\* flight, and no handle left in the factory except one whose mount had been
\* evicted by a fence.
ClosedForGood ==
  \A i \in Closers : close[i] = "stopped" =>
    /\ mounted = {}
    /\ \A p \in Positions : acq[p] = "none"
    /\ Cardinality(held) <= conf.fences - left.fences

\* shaled keeps its transport up for as long as the node may be written to, and
\* its factory for as long as a position may be open: by the time the server is
\* stopped or the factory released, the drain has ended and the node is closed.
TransportOutlivesDrain ==
  run \in {"stopped", "exit"} /\ up =>
    /\ closed /\ mounted = {} /\ coordUp = FALSE
    /\ once \notin {"running", "late"}
    /\ \A p \in Positions : acq[p] = "none"

\* A position that drains is watched by the poller until its successor serves,
\* unless a poller gave up at its deadline: a drain that begins while the
\* poller is ending is not left to the slow tick.
DrainsWatched == losers # {} /\ poller = "off" => expired \/ closed

\* A node that booted with positions a peer was serving stops advertising
\* Joining, whatever opens fail on the way, unless it is closed first.
JoiningClears == joining ~> (~joining \/ closed)

\* Every call of Close returns: the drain is bounded, every goroutine sees the
\* closed flag or the closed channel, and none waits for a permit that is
\* never given back.
CloseReturns == []<>(\A i \in Closers : close[i] \in {"idle", "done", "stopped"})

=============================================================================
