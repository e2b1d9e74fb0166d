------------------------- MODULE NodeLifecycleProofs -------------------------
(***************************************************************************)
(* Proofs about NodeLifecycle, for any finite set of positions and any     *)
(* configurations: the obligations of the settle timer, the drain poller,  *)
(* and what Close leaves behind.                                           *)
(***************************************************************************)
EXTENDS NodeLifecycle, FiniteSetTheorems, TLAPS

\* Most leaves are first-order: Zenon finds them fast.  The others name SMT.
USE Zenon

-----------------------------------------------------------------------------
(* The settle timer: every pending obligation has a timer or a callback.   *)

SettleInv ==
  /\ conf \in Configs
  /\ settle \in [ref : {"nil", "live", "fired"}, loose : Nat, pending : Int]
  /\ cb \in [fired : Nat, lock : Nat]
  /\ settle.pending = Owed

LEMMA ClosersTyped ==
  ASSUME conf \in Configs
  PROVE  Closers \subseteq {"c1", "c2"} /\ (conf.daemon => Closers = {"c1"})
BY ConfigsAssumption DEF Closers, ConfigType

LEMMA SettleRecord ==
  ASSUME NEW s \in [ref : {"nil", "live", "fired"}, loose : Nat, pending : Int],
         NEW r \in {"nil", "live", "fired"}, NEW n \in Int,
         NEW t, t = [s EXCEPT !.ref = r, !.pending = n]
  PROVE  /\ t \in [ref : {"nil", "live", "fired"}, loose : Nat, pending : Int]
         /\ t.ref = r /\ t.loose = s.loose /\ t.pending = n
OBVIOUS

LEMMA ArmedRecord ==
  ASSUME SettleInv
  PROVE  /\ Armed \in [ref : {"nil", "live", "fired"}, loose : Nat, pending : Int]
         /\ Armed.ref = "live" /\ Armed.loose = settle.loose
         /\ Armed.pending = IF settle.ref = "live" THEN settle.pending ELSE settle.pending + 1
<1> DEFINE n == IF settle.ref = "live" THEN settle.pending ELSE settle.pending + 1
<1>1. Armed = [settle EXCEPT !.ref = "live", !.pending = n]
  BY DEF Armed, Inherits
<1>2. n \in Int /\ settle \in [ref : {"nil", "live", "fired"}, loose : Nat, pending : Int]
  BY SMT DEF SettleInv
<1> HIDE DEF n
<1>3. /\ Armed \in [ref : {"nil", "live", "fired"}, loose : Nat, pending : Int]
      /\ Armed.ref = "live" /\ Armed.loose = settle.loose /\ Armed.pending = n
  BY <1>1, <1>2, SettleRecord
<1> QED
  BY <1>3 DEF n

LEMMA ArmedAccounted ==
  ASSUME SettleInv, settle' = Armed, UNCHANGED <<conf, cb, pass>>
  PROVE  SettleInv'
<1>1. Owed' = IF settle.ref = "live" THEN Owed ELSE Owed + 1
  BY ArmedRecord, SMT DEF SettleInv, Owed
<1> QED
  BY <1>1, ArmedRecord DEF SettleInv

LEMMA NextSettle == SettleInv /\ [Next]_vars => SettleInv'
<1> SUFFICES ASSUME SettleInv, [Next]_vars PROVE SettleInv'
  OBVIOUS
<1> DEFINE accounted == <<conf, settle, cb, pass>>
<1>1. ASSUME UNCHANGED accounted PROVE SettleInv'
  BY <1>1 DEF SettleInv, Owed
<1>2. CASE Open
  <2>1. UNCHANGED <<conf, cb, pass>> /\ (settle' = Armed \/ settle' = settle)
    BY <1>2 DEF Open, MountReplicaUnits
  <2> QED
    BY <1>1, <2>1, ArmedAccounted
<1>3. CASE Timer
  <2>1. UNCHANGED <<conf, pass>>
    BY <1>3 DEF Timer
  <2>2. CASE TimerFires
    BY <2>1, <2>2, SMT DEF TimerFires, SettleInv, Owed
  <2>3. CASE CallbackClears
    BY <2>1, <2>3, SMT DEF CallbackClears, SettleInv, Owed
  <2> QED
    BY <1>3, <2>2, <2>3 DEF Timer
<1>4. CASE Pass
  BY <1>4, SMT DEF Pass, SettleInv, Owed, NoPass
<1>5. ASSUME NEW who \in Runners, Locks(who) PROVE SettleInv'
  <2>1. CASE who = "cb"
    BY <1>5, <2>1, SMT DEF Locks, Waiting, SettleInv, Owed, NoPass
  <2>2. CASE who # "cb"
    <3>1. pass' # "cb" /\ pass # "cb" /\ UNCHANGED <<conf, settle, cb>>
      BY <1>5, <2>2 DEF Locks, NoPass
    <3> QED
      BY <3>1 DEF SettleInv, Owed
  <2> QED
    BY <2>1, <2>2
<1>6. CASE ArmsReconcile
  BY <1>6, ArmedAccounted DEF ArmsReconcile
<1>7. ASSUME NEW p \in Positions, ArmsWarmUp(p) PROVE SettleInv'
  BY <1>7, ArmedAccounted DEF ArmsWarmUp
<1>8. ASSUME NEW p \in Positions,
             Starts(p) \/ TakesPermit(p) \/ Opens(p) \/ Installs(p) \/ Watchdog(p) \/ OpenFails(p)
      PROVE  SettleInv'
  BY <1>1, <1>8 DEF Starts, TakesPermit, Opens, Installs, Watchdog, OpenFails, timerVars
<1>9. ASSUME NEW i \in Closers, StopsTimer(i) PROVE SettleInv'
  <2>1. settle \in [ref : {"nil", "live", "fired"}, loose : Nat, pending : Int]
    BY DEF SettleInv
  <2>2. UNCHANGED <<conf, cb, pass>>
    BY <1>9 DEF StopsTimer
  <2>3. CASE settle.ref = "live"
    <3>1. settle' = [settle EXCEPT !.ref = "nil", !.pending = settle.pending - 1]
      BY <1>9, <2>3 DEF StopsTimer
    <3>2. settle.pending - 1 \in Int
      BY <2>1, SMT
    <3>3. /\ settle' \in [ref : {"nil", "live", "fired"}, loose : Nat, pending : Int]
          /\ settle'.ref = "nil" /\ settle'.loose = settle.loose
          /\ settle'.pending = settle.pending - 1
      BY <2>1, <3>1, <3>2, SettleRecord
    <3> QED
      BY <2>2, <2>3, <3>3, SMT DEF SettleInv, Owed
  <2>4. CASE settle.ref # "live"
    <3>1. settle' = [settle EXCEPT !.ref = "nil", !.pending = settle.pending]
      BY <1>9, <2>4 DEF StopsTimer
    <3> QED
      BY <2>1, <2>2, <2>4, <3>1 DEF SettleInv, Owed
  <2> QED
    BY <2>3, <2>4
<1>10. ASSUME NEW i \in Closers,
              \/ BeginClose(i) \/ Drains(i) \/ Closes(i) \/ Signals(i)
              \/ WaitsForLoops(i) \/ ClosesCoordinator(i) \/ ClosesUnits(i)
       PROVE  SettleInv'
  BY <1>1, <1>10
  DEF BeginClose, Drains, Closes, Signals, WaitsForLoops, ClosesCoordinator, ClosesUnits, timerVars
<1>11. CASE OpenErrs \/ TakesHint \/ StartsPrompt \/ Prompt \/ Notified \/ Ticks \/ Quits
  BY <1>1, <1>11 DEF OpenErrs, TakesHint, StartsPrompt, Prompt, Notified, Ticks, Quits, timerVars
<1>12. CASE Polls \/ PollerGivesUp \/ PollerEnds \/ DrainTimeout \/ Daemon \/ Releases
  BY <1>1, <1>12 DEF Polls, PollerGivesUp, PollerEnds, DrainTimeout, Daemon, Releases, timerVars
<1>13. CASE ViewMoves \/ (\E p \in Positions : SuccessorServes(p) \/ FencedOut(p)) \/ UNCHANGED vars
  BY <1>1, <1>13 DEF ViewMoves, SuccessorServes, FencedOut, vars, timerVars
<1> QED
  BY <1>2, <1>3, <1>4, <1>5, <1>6, <1>7, <1>8, <1>9, <1>10, <1>11, <1>12, <1>13
  DEF Next, Acquire, CloseStep

\* WaitForRebalanceIdle is woken exactly when no pass is owed: settlePending
\* counts the live timer, the ones SettleArm lost track of, the callbacks that
\* wait and the one that runs, and nothing else.
THEOREM SettleCounted == Spec => []SettleAccounted
<1>1. Init => SettleInv
  BY SMT DEF Init, SettleInv, Owed, NoPass
<1>2. SettleInv => SettleAccounted
  BY SMT DEF SettleInv, SettleAccounted, RebalanceIdle, Owed
<1> QED
  BY <1>1, <1>2, NextSettle, PTL DEF Spec

-----------------------------------------------------------------------------
(* The drain poller.                                                       *)

DrainInv == DrainsWatched /\ (poller = "expiring" => expired)

LEMMA NextDrain == DrainInv /\ [Next]_vars => DrainInv'
<1> SUFFICES ASSUME DrainInv, [Next]_vars PROVE DrainInv'
  OBVIOUS
<1>1. ASSUME UNCHANGED <<losers, poller, expired>>, closed => closed' PROVE DrainInv'
  BY <1>1 DEF DrainInv, DrainsWatched
<1>2. CASE Pass
  <2>1. UNCHANGED <<expired, closed>>
    BY <1>2 DEF Pass
  <2>2. PICK started \in SUBSET mounted :
          losers' \subseteq losers \cup started /\ poller' = Polling(started)
    <3> DEFINE s == {x \in mounted \ losers : Lost(x)}
    <3>1. losers' \subseteq losers \cup s /\ poller' = Polling(s)
      BY <1>2 DEF Pass
    <3>2. s \in SUBSET mounted
      OBVIOUS
    <3> QED
      BY <3>1, <3>2
  <2> QED
    BY <2>1, <2>2 DEF Polling, DrainInv, DrainsWatched
<1>3. CASE Polls
  BY <1>3 DEF Polls, DrainInv, DrainsWatched
<1>4. CASE PollerGivesUp
  BY <1>4 DEF PollerGivesUp, mountVars, closeVars, DrainInv, DrainsWatched
<1>5. CASE PollerEnds
  BY <1>5 DEF PollerEnds, LooksAgain, mountVars, closeVars, DrainInv, DrainsWatched
<1>6. CASE Open \/ OpenErrs \/ Timer \/ (\E who \in Runners : Locks(who))
  BY <1>1, <1>6 DEF Open, OpenErrs, Timer, Locks, mountVars, loopVars, closeVars
<1>7. ASSUME NEW p \in Positions, Acquire(p) \/ Watchdog(p) \/ OpenFails(p) PROVE DrainInv'
  BY <1>1, <1>7
  DEF Acquire, Starts, TakesPermit, Opens, Installs, ArmsWarmUp, Watchdog, OpenFails, mountVars,
      loopVars, closeVars
<1>8. CASE TakesHint \/ ArmsReconcile \/ StartsPrompt \/ Prompt \/ Notified \/ Ticks \/ Quits
  BY <1>1, <1>8
  DEF TakesHint, ArmsReconcile, StartsPrompt, Prompt, Notified, Ticks, Quits, mountVars, closeVars
<1>9. ASSUME NEW i \in Closers, BeginClose(i) \/ CloseStep(i) PROVE DrainInv'
  BY <1>1, <1>9
  DEF BeginClose, CloseStep, Drains, Closes, StopsTimer, Signals, WaitsForLoops,
      ClosesCoordinator, ClosesUnits, mountVars, loopVars
<1>10. CASE DrainTimeout \/ Daemon \/ Releases \/ ViewMoves \/ UNCHANGED vars
  BY <1>1, <1>10, SMT
  DEF DrainTimeout, Daemon, Releases, ViewMoves, vars, mountVars, loopVars, closeVars
<1>11. ASSUME NEW p \in Positions, SuccessorServes(p) \/ FencedOut(p) PROVE DrainInv'
  BY <1>1, <1>11 DEF SuccessorServes, FencedOut, loopVars, closeVars
<1> QED
  BY <1>2, <1>3, <1>4, <1>5, <1>6, <1>7, <1>8, <1>9, <1>10, <1>11 DEF Next

\* A drain in progress has a poller, whatever drains begin while one is ending
\* (ensureDrainPoller and the second look of the poller that ends).
THEOREM DrainsAreWatched == Spec => []DrainsWatched
<1>1. Init => DrainInv
  BY DEF Init, DrainInv, DrainsWatched
<1>2. DrainInv => DrainsWatched
  BY DEF DrainInv
<1> QED
  BY <1>1, <1>2, NextDrain, PTL DEF Spec

-----------------------------------------------------------------------------
(* The calls of Close, and Run around them.                                *)

Draining == {"check", "lock", "pass", "gate"}
Teardown == {"stop", "signal", "wait", "coord", "units", "stopped"}
Stages == {"idle", "cas", "await", "done"} \cup Draining \cup Teardown

CloseInv ==
  /\ conf \in Configs
  /\ close \in [Closers -> Stages]
  /\ pass \in {NoPass} \cup Runners
  /\ pass \in Closers => close[pass] = "pass"
  /\ up \/ (~closed /\ \A i \in Closers : close[i] = "idle")
  /\ \A i \in Closers : close[i] \in Teardown \cup {"await", "done"} => closed
  /\ closed => \E i \in Closers : close[i] \in Teardown
  /\ once \in {"running", "late"} => \E i \in Closers : close[i] \in Draining
  /\ \A i \in Closers : close[i] \in {"units", "stopped"} => coordUp = FALSE

\* Where Run is, and that it goes on only when the node's Close has returned.
RunInv ==
  /\ run \in {"embedded", "off", "bound", "serving", "signalled", "died", "stopped", "exit"}
  /\ run = "embedded" <=> ~conf.daemon
  /\ run \in {"off", "bound"} => ~up
  /\ run = "stopped" \/ (run = "exit" /\ up) => \E i \in Closers : close[i] = "stopped"

\* The opens and the handles.
Opening == {"start", "queued", "open", "install"}

\* Handles the factory holds that no mount and no open in flight answers for.
Stray == held \ (mounted \cup {p \in Positions : acq[p] = "install"})

MountInv ==
  /\ acq \in [Positions -> Opening \cup {"none", "arm"}]
  /\ held \subseteq Positions
  /\ left \in [hints : Int, fails : Int, fences : Int]
  /\ up \/ (mounted = {} /\ held = {} /\ \A p \in Positions : acq[p] = "none")
  /\ \A p \in Positions : acq[p] \in Opening => p \notin mounted
  /\ \A i \in Closers : close[i] \in {"coord", "units", "stopped", "done"} =>
       \A p \in Positions : acq[p] = "none"
  /\ \A i \in Closers : close[i] = "stopped" => mounted = {}
  /\ Cardinality(Stray) <= conf.fences - left.fences

-----------------------------------------------------------------------------
\* One caller of Close moves to stage s.
LEMMA CallerMoves ==
  ASSUME CloseInv, NEW i \in Closers, NEW s \in Stages, close' = [close EXCEPT ![i] = s],
         UNCHANGED <<conf, up>>, up,
         pass' \in {NoPass} \cup Runners,
         pass' \in Closers => (pass' = i /\ s = "pass") \/ (pass' # i /\ pass' = pass),
         closed => closed',
         s \in Teardown \cup {"await", "done"} => closed',
         closed' => closed \/ s \in Teardown,
         close[i] \in Teardown => s \in Teardown,
         once' \in {"running", "late"} =>
           s \in Draining \/ (once \in {"running", "late"} /\ close[i] \notin Draining),
         coordUp = FALSE => coordUp' = FALSE,
         s \in {"units", "stopped"} => coordUp' = FALSE
  PROVE  CloseInv'
<1>1. Closers' = Closers /\ Runners' = Runners
  BY DEF Closers, Runners
<1>2. close \in [Closers -> Stages]
  BY DEF CloseInv
<1>3. close' \in [Closers -> Stages] /\ close'[i] = s /\ \A j \in Closers \ {i} : close'[j] = close[j]
  BY <1>2
<1>4. pass' \in Closers => close'[pass'] = "pass"
  BY <1>3 DEF CloseInv
<1>5. \A j \in Closers : close'[j] \in Teardown \cup {"await", "done"} => closed'
  BY <1>3 DEF CloseInv
<1>6. closed' => \E j \in Closers : close'[j] \in Teardown
  <2>1. ASSUME closed PROVE \E j \in Closers : close'[j] \in Teardown
    <3>1. PICK j \in Closers : close[j] \in Teardown
      BY <2>1 DEF CloseInv
    <3>2. close'[j] \in Teardown
      BY <1>3, <3>1
    <3> QED
      BY <3>2
  <2> QED
    BY <1>3, <2>1
<1>7. once' \in {"running", "late"} => \E j \in Closers : close'[j] \in Draining
  <2>1. ASSUME once \in {"running", "late"}, close[i] \notin Draining
        PROVE  \E j \in Closers : close'[j] \in Draining
    <3>1. PICK j \in Closers : close[j] \in Draining
      BY <2>1 DEF CloseInv
    <3>2. close'[j] \in Draining
      BY <1>3, <2>1, <3>1
    <3> QED
      BY <3>2
  <2> QED
    BY <1>3, <2>1
<1>8. \A j \in Closers : close'[j] \in {"units", "stopped"} => coordUp' = FALSE
  BY <1>3 DEF CloseInv
<1> QED
  BY <1>1, <1>3, <1>4, <1>5, <1>6, <1>7, <1>8 DEF CloseInv

LEMMA CallerUp ==
  ASSUME CloseInv, NEW i \in Closers, close[i] # "idle"
  PROVE  up
BY DEF CloseInv

\* What the calls of Close do to the shared flags.
LEMMA CallPreserves ==
  ASSUME CloseInv, NEW i \in Closers, BeginClose(i) \/ CloseStep(i)
  PROVE  CloseInv'
<1> USE DEF Stages, Teardown, Draining, At
<1>t. close[i] \in Stages /\ pass \in {NoPass} \cup Runners
  BY DEF CloseInv
<1>p. close[i] # "pass" /\ pass' = pass =>
        (pass' \in Closers => pass' # i /\ pass' = pass)
  BY DEF CloseInv
<1>1. CASE BeginClose(i)
  <2>1. up /\ close[i] = "idle" /\ UNCHANGED <<conf, up, pass, closed, coordUp>>
    BY <1>1 DEF BeginClose
  <2>2. \/ close' = [close EXCEPT ![i] = "cas"] /\ once' = once
        \/ close' = [close EXCEPT ![i] = "check"]
    BY <1>1 DEF BeginClose
  <2> QED
    BY <1>t, <1>p, <2>1, <2>2, CallerMoves
<1>2. CASE Drains(i)
  <2>1. close[i] \in {"check", "gate"} /\ UNCHANGED <<conf, up, pass, closed, coordUp>>
    BY <1>2 DEF Drains
  <2>2. \/ close' = [close EXCEPT ![i] = "lock"]
        \/ close' = [close EXCEPT ![i] = "check"]
        \/ close' = [close EXCEPT ![i] = "cas"] /\ once' = "done"
    BY <1>2 DEF Drains
  <2>3. up
    BY <2>1, CallerUp
  <2> QED
    BY <1>t, <1>p, <2>1, <2>2, <2>3, CallerMoves
<1>3. CASE Closes(i)
  <2>1. close[i] = "cas" /\ UNCHANGED <<conf, up, pass, once, coordUp>> /\ closed' = TRUE
    BY <1>3 DEF Closes
  <2>2. \/ closed /\ close' = [close EXCEPT ![i] = "await"]
        \/ close' = [close EXCEPT ![i] = "stop"]
    BY <1>3 DEF Closes
  <2>3. up
    BY <2>1, CallerUp
  <2> QED
    BY <1>t, <1>p, <2>1, <2>2, <2>3, CallerMoves
<1>4. CASE StopsTimer(i) \/ Signals(i) \/ WaitsForLoops(i) \/ ClosesCoordinator(i) \/ ClosesUnits(i)
  <2>1. /\ close[i] \in {"stop", "signal", "wait", "await", "coord", "units"}
        /\ UNCHANGED <<conf, up, pass, once, closed>>
    BY <1>4 DEF StopsTimer, Signals, WaitsForLoops, ClosesCoordinator, ClosesUnits
  <2>2. up /\ closed
    BY <2>1, CallerUp DEF CloseInv
  <2>3. \/ close' = [close EXCEPT ![i] = "signal"] /\ coordUp' = coordUp
        \/ close' = [close EXCEPT ![i] = "wait"] /\ coordUp' = coordUp
        \/ close' = [close EXCEPT ![i] = "coord"] /\ coordUp' = coordUp
        \/ close[i] = "await" /\ close' = [close EXCEPT ![i] = "done"] /\ coordUp' = coordUp
        \/ close' = [close EXCEPT ![i] = "units"] /\ coordUp' = FALSE
        \/ close[i] = "units" /\ close' = [close EXCEPT ![i] = "stopped"] /\ coordUp' = coordUp
    BY <1>4 DEF StopsTimer, Signals, WaitsForLoops, ClosesCoordinator, ClosesUnits
  <2>4. close[i] = "units" => coordUp = FALSE
    BY DEF CloseInv
  <2> QED
    BY <1>t, <1>p, <2>1, <2>2, <2>3, <2>4, CallerMoves
<1> QED
  BY <1>1, <1>2, <1>3, <1>4 DEF CloseStep

LEMMA NextClose == CloseInv /\ [Next]_vars => CloseInv'
<1> SUFFICES ASSUME CloseInv, [Next]_vars PROVE CloseInv'
  OBVIOUS
<1>1. ASSUME UNCHANGED <<conf, close, pass, up, closed, once, coordUp>> PROVE CloseInv'
  BY <1>1 DEF CloseInv, Closers, Runners
<1>2. CASE Open \/ OpenErrs
  <2>1. /\ UNCHANGED <<conf, close, pass, closed, once>> /\ ~up
        /\ coordUp = FALSE => coordUp' = FALSE
        /\ up' = TRUE \/ up' = up
    BY <1>2 DEF Open, OpenErrs, closeVars
  <2>2. \A i \in Closers : close[i] = "idle"
    BY <2>1 DEF CloseInv
  <2> QED
    BY <2>1, <2>2 DEF CloseInv, Closers, Runners
<1>3. ASSUME NEW who \in Runners, Locks(who) PROVE CloseInv'
  <2>1. UNCHANGED <<conf, up, closed, once, coordUp>> /\ pass' = who /\ pass = NoPass
    BY <1>3 DEF Locks
  <2>2. CASE who \in Closers
    <3>1. close[who] = "lock" /\ close' = [close EXCEPT ![who] = "pass"]
      BY <1>3, <2>2, ClosersTyped DEF Locks, Waiting, CloseInv
    <3>2. up
      BY <2>2, <3>1, CallerUp
    <3> QED
      BY <2>1, <2>2, <3>1, <3>2, CallerMoves DEF Stages, Draining, Teardown
  <2>3. CASE who \notin Closers
    BY <1>3, <2>1, <2>3, SMT DEF Locks, CloseInv, Closers, Runners
  <2> QED
    BY <2>2, <2>3
<1>4. CASE Pass
  <2>1. UNCHANGED <<conf, up, closed, once, coordUp>> /\ pass' = NoPass
    BY <1>4 DEF Pass
  <2>2. NoPass \notin Closers
    BY ClosersTyped DEF CloseInv, NoPass
  <2>3. CASE pass \in Closers
    <3>1. close[pass] = "pass" /\ close' = [close EXCEPT ![pass] = "gate"]
      BY <1>4, <2>3 DEF Pass, CloseInv
    <3>2. up
      BY <2>3, <3>1, CallerUp
    <3> QED
      BY <2>1, <2>2, <2>3, <3>1, <3>2, CallerMoves DEF Stages, Draining, Teardown
  <2>4. CASE pass \notin Closers
    <3>1. close' = close
      BY <1>4, <2>4 DEF Pass
    <3> QED
      BY <2>1, <2>2, <3>1 DEF CloseInv, Closers, Runners
  <2> QED
    BY <2>3, <2>4
<1>5. ASSUME NEW i \in Closers, BeginClose(i) \/ CloseStep(i) PROVE CloseInv'
  BY <1>5, CallPreserves
<1>6. CASE DrainTimeout
  <2>1. UNCHANGED <<conf, close, pass, up, closed, coordUp>> /\ once = "running"
    BY <1>6 DEF DrainTimeout
  <2> QED
    BY <2>1 DEF CloseInv, Closers, Runners
<1>7. ASSUME NEW p \in Positions, Acquire(p) \/ Watchdog(p) \/ OpenFails(p) PROVE CloseInv'
  BY <1>1, <1>7
  DEF Acquire, Starts, TakesPermit, Opens, Installs, ArmsWarmUp, Watchdog, OpenFails, closeVars
<1>8. CASE TakesHint \/ ArmsReconcile \/ StartsPrompt \/ Prompt \/ Notified \/ Ticks \/ Quits
  BY <1>1, <1>8
  DEF TakesHint, ArmsReconcile, StartsPrompt, Prompt, Notified, Ticks, Quits, closeVars
<1>9. CASE Timer \/ Polls \/ PollerGivesUp \/ PollerEnds \/ Daemon \/ Releases
  BY <1>1, <1>9 DEF Timer, Polls, PollerGivesUp, PollerEnds, Daemon, Releases, closeVars
<1>10. CASE ViewMoves \/ (\E p \in Positions : SuccessorServes(p) \/ FencedOut(p)) \/ UNCHANGED vars
  BY <1>1, <1>10 DEF ViewMoves, SuccessorServes, FencedOut, vars, closeVars
<1> QED
  BY <1>2, <1>3, <1>4, <1>5, <1>6, <1>7, <1>8, <1>9, <1>10 DEF Next

\* A daemon has one caller, so it is the one that tears the node down.
LEMMA DaemonTearsDown ==
  ASSUME CloseInv, conf.daemon, NEW i \in Closers, close[i] \in {"done", "stopped"}
  PROVE  close[i] = "stopped"
<1>1. closed
  BY DEF CloseInv, Teardown
<1>2. PICK j \in Closers : close[j] \in Teardown
  BY <1>1 DEF CloseInv
<1>3. i = j
  BY ClosersTyped DEF CloseInv
<1> QED
  BY <1>2, <1>3 DEF Teardown

LEMMA StoppedStays ==
  ASSUME CloseInv, [Next]_vars, NEW i \in Closers, close[i] = "stopped"
  PROVE  close'[i] = "stopped"
<1>0. close \in [Closers -> Stages] /\ (pass \in Closers => close[pass] = "pass")
  BY DEF CloseInv
<1>1. CASE Open \/ OpenErrs \/ Timer \/ DrainTimeout \/ Daemon \/ Releases \/ ViewMoves \/ UNCHANGED vars
  BY <1>1 DEF Open, OpenErrs, Timer, DrainTimeout, Daemon, Releases, ViewMoves, vars, closeVars
<1>2. CASE Pass
  BY <1>0, <1>2 DEF Pass
<1>3. ASSUME NEW who \in Runners, Locks(who) PROVE close'[i] = "stopped"
  <2>1. who \in Closers => close[who] = "lock"
    BY <1>3, ClosersTyped DEF Locks, Waiting, CloseInv
  <2> QED
    BY <1>0, <1>3, <2>1 DEF Locks
<1>4. ASSUME NEW p \in Positions, Acquire(p) \/ Watchdog(p) \/ OpenFails(p) PROVE close'[i] = "stopped"
  BY <1>4
  DEF Acquire, Starts, TakesPermit, Opens, Installs, ArmsWarmUp, Watchdog, OpenFails, closeVars
<1>5. CASE TakesHint \/ ArmsReconcile \/ StartsPrompt \/ Prompt \/ Notified \/ Ticks \/ Quits
  BY <1>5 DEF TakesHint, ArmsReconcile, StartsPrompt, Prompt, Notified, Ticks, Quits, closeVars
<1>6. CASE Polls \/ PollerGivesUp \/ PollerEnds
  BY <1>6 DEF Polls, PollerGivesUp, PollerEnds, closeVars
<1>7. ASSUME NEW j \in Closers, BeginClose(j) \/ CloseStep(j) PROVE close'[i] = "stopped"
  BY <1>0, <1>7
  DEF BeginClose, CloseStep, Drains, Closes, StopsTimer, Signals, WaitsForLoops,
      ClosesCoordinator, ClosesUnits, At
<1>8. ASSUME NEW p \in Positions, SuccessorServes(p) \/ FencedOut(p) PROVE close'[i] = "stopped"
  BY <1>8 DEF SuccessorServes, FencedOut, closeVars
<1> QED
  BY <1>1, <1>2, <1>3, <1>4, <1>5, <1>6, <1>7, <1>8 DEF Next

LEMMA NextRun == CloseInv /\ RunInv /\ [Next]_vars => RunInv'
<1> SUFFICES ASSUME CloseInv, RunInv, [Next]_vars PROVE RunInv'
  OBVIOUS
<1>0. (\E i \in Closers : close[i] = "stopped") => \E i \in Closers : close'[i] = "stopped"
  BY StoppedStays
<1>1. ASSUME UNCHANGED <<conf, run, up>> PROVE RunInv'
  BY <1>0, <1>1 DEF RunInv, Closers
<1>2. CASE Open \/ OpenErrs
  <2>1. /\ conf' = conf /\ run \in {"embedded", "bound"} /\ ~up
        /\ \/ up' = TRUE /\ run' = IF run = "bound" THEN "serving" ELSE run
           \/ up' = up /\ run' = IF run = "bound" THEN "exit" ELSE run
    BY <1>2 DEF Open, OpenErrs
  <2> QED
    BY <2>1, SMT DEF RunInv
<1>3. CASE Daemon
  BY <1>3 DEF Daemon, RunInv
<1>4. CASE Releases
  <2>1. UNCHANGED <<conf, up, close>>
    BY <1>4 DEF Releases, closeVars
  <2>2. CASE NodeClosed /\ run \in {"signalled", "died"} /\ run' \in {"stopped", "exit"}
    <3>1. conf.daemon
      BY <2>2 DEF RunInv
    <3>2. PICK i \in Closers : close[i] \in {"done", "stopped"}
      BY <2>2 DEF NodeClosed
    <3>3. close[i] = "stopped"
      BY <3>1, <3>2, DaemonTearsDown
    <3> QED
      BY <2>1, <2>2, <3>1, <3>3 DEF RunInv, Closers
  <2>3. CASE run = "stopped" /\ run' = "exit"
    BY <2>1, <2>3 DEF RunInv, Closers
  <2> QED
    BY <1>4, <2>2, <2>3 DEF Releases
<1>5. CASE Timer \/ Pass \/ DrainTimeout \/ ViewMoves \/ UNCHANGED vars
  BY <1>1, <1>5 DEF Timer, Pass, DrainTimeout, ViewMoves, vars
<1>6. ASSUME NEW who \in Runners, Locks(who) PROVE RunInv'
  BY <1>1, <1>6 DEF Locks
<1>7. ASSUME NEW p \in Positions, Acquire(p) \/ Watchdog(p) \/ OpenFails(p) PROVE RunInv'
  BY <1>1, <1>7
  DEF Acquire, Starts, TakesPermit, Opens, Installs, ArmsWarmUp, Watchdog, OpenFails
<1>8. CASE TakesHint \/ ArmsReconcile \/ StartsPrompt \/ Prompt \/ Notified \/ Ticks \/ Quits
  BY <1>1, <1>8 DEF TakesHint, ArmsReconcile, StartsPrompt, Prompt, Notified, Ticks, Quits
<1>9. CASE Polls \/ PollerGivesUp \/ PollerEnds
  BY <1>1, <1>9 DEF Polls, PollerGivesUp, PollerEnds
<1>10. ASSUME NEW i \in Closers, BeginClose(i) \/ CloseStep(i) PROVE RunInv'
  BY <1>1, <1>10
  DEF BeginClose, CloseStep, Drains, Closes, StopsTimer, Signals, WaitsForLoops,
      ClosesCoordinator, ClosesUnits
<1>11. ASSUME NEW p \in Positions, SuccessorServes(p) \/ FencedOut(p) PROVE RunInv'
  BY <1>1, <1>11 DEF SuccessorServes, FencedOut
<1> QED
  BY <1>2, <1>3, <1>4, <1>5, <1>6, <1>7, <1>8, <1>9, <1>10, <1>11 DEF Next

-----------------------------------------------------------------------------
(* Mounts, opens and handles.                                              *)

LEMMA StrayShrinks ==
  ASSUME MountInv, NEW S \in SUBSET Stray
  PROVE  IsFiniteSet(S) /\ Cardinality(S) <= Cardinality(Stray)
         /\ Cardinality(S) \in Nat /\ Cardinality(Stray) \in Nat
<1>1. IsFiniteSet(Stray)
  <2>1. Stray \subseteq Positions
    BY DEF Stray, MountInv
  <2> QED
    BY <2>1, ConfigsAssumption, FS_Subset
<1> QED
  BY <1>1, FS_Subset, FS_CardinalityType

LEMMA StrayGrowsByOne ==
  ASSUME MountInv, NEW p, NEW S \in SUBSET (Stray \cup {p})
  PROVE  Cardinality(S) <= Cardinality(Stray) + 1
<1>1. IsFiniteSet(Stray) /\ Cardinality(Stray) \in Nat
  BY StrayShrinks
<1>2. IsFiniteSet(Stray \cup {p}) /\ Cardinality(Stray \cup {p}) <= Cardinality(Stray) + 1
  BY <1>1, FS_AddElement, SMT
<1>3. Cardinality(S) <= Cardinality(Stray \cup {p}) /\ IsFiniteSet(S)
  BY <1>2, FS_Subset
<1>4. Cardinality(S) \in Nat /\ Cardinality(Stray \cup {p}) \in Nat
  BY <1>2, <1>3, FS_CardinalityType
<1> QED
  BY <1>1, <1>2, <1>3, <1>4, SMT

\* The handles a step leaves unanswered for stay within the fences so far.
LEMMA StrayBounded ==
  ASSUME CloseInv, MountInv, conf' = conf, Stray' \subseteq Stray, left'.fences = left.fences
  PROVE  Cardinality(Stray') <= conf'.fences - left'.fences
<1>1. Cardinality(Stray') <= Cardinality(Stray) /\ Cardinality(Stray') \in Nat /\ Cardinality(Stray) \in Nat
  BY StrayShrinks
<1>2. conf.fences \in Nat /\ left.fences \in Int
  BY ConfigsAssumption DEF CloseInv, MountInv, ConfigType
<1>3. Cardinality(Stray) <= conf.fences - left.fences
  BY DEF MountInv
<1> QED
  BY <1>1, <1>2, <1>3, SMT

\* A step of the running node: opens move, mounts and handles follow, no call of
\* Close gets past the loops, and once the opens have ended none begins.
LEMMA MountStep ==
  ASSUME CloseInv, MountInv, UNCHANGED conf, up, up',
         acq' \in [Positions -> Opening \cup {"none", "arm"}],
         held' \subseteq Positions,
         left' \in [hints : Int, fails : Int, fences : Int],
         \A p \in Positions : acq'[p] \in Opening => p \notin mounted',
         \A i \in Closers : close'[i] \in {"coord", "units", "stopped", "done"} => close'[i] = close[i],
         closed /\ (\A p \in Positions : acq[p] = "none") =>
           (\A p \in Positions : acq'[p] = "none") /\ mounted' \subseteq mounted,
         Cardinality(Stray') <= conf'.fences - left'.fences
  PROVE  MountInv'
<1>1. Closers' = Closers
  BY DEF Closers
<1>2. ASSUME NEW i \in Closers, close'[i] \in {"coord", "units", "stopped", "done"}
      PROVE  /\ \A p \in Positions : acq'[p] = "none"
             /\ close'[i] = "stopped" => mounted' = {}
  <2>1. closed /\ close'[i] = close[i]
    BY <1>2 DEF CloseInv, Teardown
  <2>2. \A p \in Positions : acq[p] = "none"
    BY <1>2, <2>1 DEF MountInv
  <2>3. close[i] = "stopped" => mounted = {}
    BY DEF MountInv
  <2> QED
    BY <2>1, <2>2, <2>3
<1> QED
  BY <1>1, <1>2 DEF MountInv

\* Nothing runs before Open has returned.
BootInv ==
  up \/ (pass = NoPass /\ cb.lock = 0 /\ coordLoop = "off" /\ tickLoop = "off" /\ prompts = 0)

LEMMA NextBoot == CloseInv /\ BootInv /\ [Next]_vars => BootInv'
<1> SUFFICES ASSUME CloseInv, BootInv, [Next]_vars, ~up' PROVE BootInv'
  BY DEF BootInv
<1>1. ASSUME up' = up
      PROVE  /\ ~up /\ pass = NoPass /\ cb.lock = 0 /\ coordLoop = "off" /\ tickLoop = "off" /\ prompts = 0
             /\ \A i \in Closers : close[i] = "idle"
  BY <1>1 DEF BootInv, CloseInv
<1>2. ASSUME UNCHANGED <<up, pass, cb, coordLoop, tickLoop, prompts>> PROVE BootInv'
  BY <1>2 DEF BootInv
<1>3. CASE Open \/ Timer \/ Pass \/ Ticks \/ ViewMoves
  BY <1>1, <1>3 DEF Open, Timer, Pass, Ticks, ViewMoves
<1>4. ASSUME NEW who \in Runners, Locks(who) PROVE FALSE
  <2>1. up' = up /\ Waiting(who)
    BY <1>4 DEF Locks
  <2>2. Closers \subseteq {"c1", "c2"}
    BY ClosersTyped DEF CloseInv
  <2>3. CASE who = "cb"
    BY <1>1, <2>1, <2>3, SMT DEF Waiting
  <2>4. CASE who = "tick"
    BY <1>1, <2>1, <2>4 DEF Waiting
  <2>5. CASE who \in Closers
    BY <1>1, <2>1, <2>2, <2>5 DEF Waiting
  <2> QED
    BY <2>3, <2>4, <2>5 DEF Runners
<1>5. CASE TakesHint \/ ArmsReconcile \/ StartsPrompt \/ Prompt \/ Quits
  BY <1>1, <1>5, SMT DEF TakesHint, ArmsReconcile, StartsPrompt, Prompt, Quits
<1>6. CASE OpenErrs \/ Notified \/ Polls \/ PollerGivesUp \/ PollerEnds
  BY <1>2, <1>6 DEF OpenErrs, Notified, Polls, PollerGivesUp, PollerEnds, timerVars, loopVars
<1>7. CASE DrainTimeout \/ Daemon \/ Releases \/ UNCHANGED vars
  BY <1>2, <1>7 DEF DrainTimeout, Daemon, Releases, timerVars, loopVars, vars
<1>8. ASSUME NEW p \in Positions, Acquire(p) \/ Watchdog(p) \/ OpenFails(p) PROVE BootInv'
  BY <1>2, <1>8
  DEF Acquire, Starts, TakesPermit, Opens, Installs, ArmsWarmUp, Watchdog, OpenFails, timerVars, loopVars
<1>9. ASSUME NEW i \in Closers, BeginClose(i) \/ CloseStep(i) PROVE BootInv'
  BY <1>2, <1>9
  DEF BeginClose, CloseStep, Drains, Closes, StopsTimer, Signals, WaitsForLoops,
      ClosesCoordinator, ClosesUnits, timerVars, loopVars
<1>10. ASSUME NEW p \in Positions, SuccessorServes(p) \/ FencedOut(p) PROVE BootInv'
  BY <1>2, <1>10 DEF SuccessorServes, FencedOut, timerVars, loopVars
<1> QED
  BY <1>3, <1>4, <1>5, <1>6, <1>7, <1>8, <1>9, <1>10 DEF Next

\* startAcquire spawns nothing on a closed node and nothing for a mount.
LEMMA SpawnedOpens ==
  ASSUME MountInv, NEW S \in SUBSET Positions, NEW m, m \subseteq mounted, S \cap mounted = {},
         acq' = Spawned(S)
  PROVE  /\ acq' \in [Positions -> Opening \cup {"none", "arm"}]
         /\ \A p \in Positions : acq'[p] \in Opening => p \notin m
         /\ \A p \in Positions : acq'[p] = "install" <=> acq[p] = "install"
         /\ closed /\ (\A p \in Positions : acq[p] = "none") => \A p \in Positions : acq'[p] = "none"
BY DEF MountInv, Spawned, Opening

\* What a pass starts, and what its drain checks release with their mounts.
LEMMA PassPreserves ==
  ASSUME CloseInv, BootInv, MountInv, Pass
  PROVE  MountInv'
<1>1. UNCHANGED <<conf, up, left>> /\ up
  BY DEF Pass, BootInv
<1>2. Owns \subseteq Positions
  BY ConfigsAssumption DEF Owns, CloseInv, ConfigType
<1> DEFINE missing == {x \in Owns \ mounted : ~Lost(x) /\ x \notin losers}
<1>3. PICK gone : /\ mounted' = mounted \ gone /\ held' = held \ (gone \cap mounted)
                  /\ acq' = Spawned(missing)
  BY DEF Pass
<1>4. missing \in SUBSET Positions /\ missing \cap mounted = {} /\ mounted' \subseteq mounted
  BY <1>2, <1>3
<1> HIDE DEF missing
<1>5. /\ acq' \in [Positions -> Opening \cup {"none", "arm"}]
      /\ \A p \in Positions : acq'[p] \in Opening => p \notin mounted'
      /\ \A p \in Positions : acq'[p] = "install" <=> acq[p] = "install"
      /\ closed /\ (\A p \in Positions : acq[p] = "none") => \A p \in Positions : acq'[p] = "none"
  BY <1>3, <1>4, SpawnedOpens
<1>6. Stray' \subseteq Stray /\ held' \subseteq Positions
  BY <1>3, <1>5 DEF Stray, MountInv
<1>7. Cardinality(Stray') <= conf'.fences - left'.fences
  BY <1>1, <1>6, StrayBounded
<1>8. \A i \in Closers : close'[i] = close[i] \/ close'[i] = "gate"
  BY DEF Pass, CloseInv
<1>9. left' \in [hints : Int, fails : Int, fences : Int]
  BY <1>1 DEF MountInv
<1> QED
  BY <1>1, <1>4, <1>5, <1>6, <1>7, <1>8, <1>9, MountStep

LEMMA AcquirePreserves ==
  ASSUME CloseInv, MountInv, NEW q \in Positions, Acquire(q) \/ Watchdog(q) \/ OpenFails(q)
  PROVE  MountInv'
<1>0. /\ acq \in [Positions -> Opening \cup {"none", "arm"}] /\ held \subseteq Positions
      /\ left \in [hints : Int, fails : Int, fences : Int]
      /\ \A p \in Positions : acq[p] \in Opening => p \notin mounted
  BY DEF MountInv
<1>1. /\ UNCHANGED <<conf, up, close, closed>>
      /\ acq[q] # "none"
      /\ left' \in [hints : Int, fails : Int, fences : Int] /\ left'.fences = left.fences
  BY <1>0, SMT DEF Acquire, Starts, TakesPermit, Opens, Installs, ArmsWarmUp, Watchdog, OpenFails, closeVars
<1>2. up
  BY <1>1 DEF MountInv
<1>3. /\ acq' \in [Positions -> Opening \cup {"none", "arm"}]
      /\ \A p \in Positions \ {q} : acq'[p] = acq[p]
  BY <1>0 DEF Acquire, Starts, TakesPermit, Opens, Installs, ArmsWarmUp, Watchdog, OpenFails,
              Acquiring, Redrive, Opening
<1>4. held' \subseteq Positions /\ (\A p \in Positions : acq'[p] \in Opening => p \notin mounted')
      /\ Stray' \subseteq Stray
  <2>1. CASE Starts(q) \/ TakesPermit(q)
    <3>1. UNCHANGED <<held, mounted>> /\ acq[q] \in {"start", "queued"} /\ acq'[q] # "install"
      BY <1>0, <2>1 DEF Starts, TakesPermit, Acquiring, mountVars
    <3> QED
      BY <1>0, <1>3, <3>1 DEF Stray, Opening
  <2>2. CASE ArmsWarmUp(q) \/ Watchdog(q)
    <3>1. UNCHANGED <<held, mounted>> /\ (acq' = acq \/ (acq[q] = "arm" /\ acq'[q] = "none"))
      BY <1>0, <2>2 DEF ArmsWarmUp, Watchdog, Acquiring, mountVars
    <3> QED
      BY <1>0, <1>3, <3>1 DEF Stray, Opening
  <2>3. CASE Opens(q)
    <3>1. held' = held \cup {q} /\ mounted' = mounted /\ acq[q] = "open" /\ acq'[q] = "install"
      BY <1>0, <2>3 DEF Opens, Acquiring
    <3> QED
      BY <1>0, <1>3, <3>1 DEF Stray, Opening
  <2>4. CASE OpenFails(q)
    <3>1. held' = held \ {q} /\ mounted' = mounted /\ acq[q] = "open" /\ acq'[q] \in {"start", "none"}
      BY <1>0, <2>4 DEF OpenFails, Acquiring, Redrive
    <3> QED
      BY <1>0, <1>3, <3>1 DEF Stray, Opening
  <2>5. CASE Installs(q)
    <3>1. /\ acq[q] = "install" /\ acq'[q] \in {"arm", "none"}
          /\ \/ held' = held \ {q} /\ mounted' = mounted
             \/ held' = held /\ mounted' = mounted \cup {q}
      BY <1>0, <2>5 DEF Installs, Acquiring
    <3> QED
      BY <1>0, <1>3, <3>1 DEF Stray, Opening
  <2> QED
    BY <2>1, <2>2, <2>3, <2>4, <2>5 DEF Acquire
<1>5. Cardinality(Stray') <= conf'.fences - left'.fences
  BY <1>1, <1>4, StrayBounded
<1> QED
  BY <1>1, <1>2, <1>3, <1>4, <1>5, MountStep

LEMMA OpenPreserves ==
  ASSUME CloseInv, MountInv, Open \/ OpenErrs
  PROVE  MountInv'
<1>1. /\ UNCHANGED <<conf, acq, close>> /\ ~up
      /\ mounted = {} /\ held = {} /\ \A p \in Positions : acq[p] = "none"
      /\ \A i \in Closers : close[i] = "idle"
  BY DEF Open, OpenErrs, closeVars, acqVars, CloseInv, MountInv
<1>2. /\ mounted' = held' /\ held' \subseteq Positions /\ (up' \/ held' = {})
      /\ left' \in [hints : Int, fails : Int, fences : Int] /\ left'.fences = left.fences
  <2>1. CASE Open
    <3>1. PICK failed \in SUBSET (Owns \ conf.marked) : MountReplicaUnits(failed)
      BY <2>1 DEF Open
    <3>2. Owns \subseteq Positions
      BY ConfigsAssumption DEF Owns, CloseInv, ConfigType
    <3>3. failed \subseteq Positions
      BY <3>2
    <3>4. Cardinality(failed) \in Nat
      BY <3>3, ConfigsAssumption, FS_Subset, FS_CardinalityType
    <3> QED
      BY <2>1, <3>1, <3>2, <3>4, SMT DEF Open, MountReplicaUnits, MountInv
  <2>2. CASE OpenErrs
    BY <1>1, <2>2, SMT DEF OpenErrs, mountVars, MountInv
  <2> QED
    BY <2>1, <2>2
<1>3. Stray' \subseteq Stray
  BY <1>2 DEF Stray
<1>4. Cardinality(Stray') <= conf'.fences - left'.fences
  BY <1>1, <1>2, <1>3, StrayBounded
<1> QED
  BY <1>1, <1>2, <1>4 DEF MountInv, Closers, Opening

LEMMA ClosePreserves ==
  ASSUME CloseInv, MountInv, NEW i \in Closers, BeginClose(i) \/ CloseStep(i)
  PROVE  MountInv'
<1>0. /\ acq \in [Positions -> Opening \cup {"none", "arm"}] /\ held \subseteq Positions
      /\ left \in [hints : Int, fails : Int, fences : Int]
      /\ \A p \in Positions : acq[p] \in Opening => p \notin mounted
      /\ close \in [Closers -> Stages]
  BY DEF MountInv, CloseInv
<1>1. UNCHANGED <<conf, up, acq, left>> /\ up
  <2>1. close[i] # "idle" => up
    BY CallerUp
  <2> QED
    BY <2>1
    DEF BeginClose, CloseStep, Drains, Closes, StopsTimer, Signals, WaitsForLoops,
        ClosesCoordinator, ClosesUnits, acqVars
<1>2. CASE BeginClose(i) \/ Drains(i) \/ Closes(i) \/ StopsTimer(i) \/ Signals(i)
  <2>1. UNCHANGED <<mounted, held>> /\ \E pc \in {"cas", "check", "lock", "await", "stop", "signal", "wait"} :
          close' = [close EXCEPT ![i] = pc]
    BY <1>2 DEF BeginClose, Drains, Closes, StopsTimer, Signals, At, mountVars
  <2>2. Stray' = Stray
    BY <1>1, <2>1 DEF Stray
  <2>3. Cardinality(Stray') <= conf'.fences - left'.fences
    BY <1>1, <2>2, StrayBounded
  <2>4. \A j \in Closers : close'[j] \in {"coord", "units", "stopped", "done"} => close'[j] = close[j]
    BY <1>0, <2>1
  <2> QED
    BY <1>0, <1>1, <2>1, <2>3, <2>4, MountStep
<1>3. CASE WaitsForLoops(i) \/ ClosesCoordinator(i) \/ ClosesUnits(i)
  <2>1. \A p \in Positions : acq[p] = "none"
    BY <1>3 DEF WaitsForLoops, Idle, ClosesCoordinator, ClosesUnits, MountInv
  <2>2. mounted' \subseteq mounted /\ Stray' \subseteq Stray /\ held' \subseteq held
        /\ \A j \in Closers : close'[j] = "stopped" => close[j] = "stopped" \/ mounted' = {}
    <3>1. CASE WaitsForLoops(i) \/ ClosesCoordinator(i)
      BY <1>0, <1>1, <3>1 DEF WaitsForLoops, ClosesCoordinator, At, mountVars, Stray
    <3>2. CASE ClosesUnits(i)
      BY <1>1, <2>1, <3>2 DEF ClosesUnits, Stray
    <3> QED
      BY <1>3, <3>1, <3>2
  <2>3. Cardinality(Stray') <= conf'.fences - left'.fences
    BY <1>1, <2>2, StrayBounded
  <2>4. \A j \in Closers : close[j] = "stopped" => mounted = {}
    BY DEF MountInv
  <2> QED
    BY <1>0, <1>1, <2>1, <2>2, <2>3, <2>4 DEF MountInv, Closers, Opening
<1> QED
  BY <1>2, <1>3 DEF CloseStep

LEMMA NextMount == CloseInv /\ BootInv /\ MountInv /\ [Next]_vars => MountInv'
<1> SUFFICES ASSUME CloseInv, BootInv, MountInv, [Next]_vars PROVE MountInv'
  OBVIOUS
<1>0. /\ acq \in [Positions -> Opening \cup {"none", "arm"}] /\ held \subseteq Positions
      /\ left \in [hints : Int, fails : Int, fences : Int]
      /\ \A p \in Positions : acq[p] \in Opening => p \notin mounted
  BY DEF MountInv
<1>1. ASSUME UNCHANGED <<conf, up, acq, mounted, held, left, close>> PROVE MountInv'
  BY <1>1 DEF MountInv, Closers, Stray
<1>2. CASE Open \/ OpenErrs
  BY <1>2, OpenPreserves
<1>3. CASE Pass
  BY <1>3, PassPreserves
<1>4. ASSUME NEW who \in Runners, Locks(who) PROVE MountInv'
  <2>1. UNCHANGED <<conf, up, acq, mounted, held, left>>
    BY <1>4 DEF Locks, mountVars, acqVars
  <2>2. \A i \in Closers : close'[i] = close[i] \/ close'[i] = "pass"
    BY <1>4 DEF Locks, CloseInv
  <2> QED
    BY <2>1, <2>2 DEF MountInv, Closers, Stray
<1>5. ASSUME NEW p \in Positions, Acquire(p) \/ Watchdog(p) \/ OpenFails(p) PROVE MountInv'
  BY <1>5, AcquirePreserves
<1>6. CASE Prompt
  <2>1. UNCHANGED <<conf, up, mounted, held, left, close>> /\ up
    BY <1>6, SMT DEF Prompt, BootInv, mountVars, closeVars
  <2> DEFINE fresh == {p \in Owns \ (mounted \cup away) : mark[p] = "none"}
  <2>2. Owns \subseteq Positions
    BY ConfigsAssumption DEF Owns, CloseInv, ConfigType
  <2>3. fresh \in SUBSET Positions /\ fresh \cap mounted = {} /\ acq' = Spawned(fresh)
    BY <1>6, <2>2 DEF Prompt
  <2> HIDE DEF fresh
  <2>4. /\ acq' \in [Positions -> Opening \cup {"none", "arm"}]
        /\ \A p \in Positions : acq'[p] \in Opening => p \notin mounted
        /\ \A p \in Positions : acq'[p] = "install" <=> acq[p] = "install"
        /\ closed /\ (\A p \in Positions : acq[p] = "none") => \A p \in Positions : acq'[p] = "none"
    BY <2>3, SpawnedOpens
  <2>5. Stray' \subseteq Stray
    BY <2>1, <2>4 DEF Stray
  <2>6. Cardinality(Stray') <= conf'.fences - left'.fences
    BY <2>1, <2>5, StrayBounded
  <2> QED
    BY <1>0, <2>1, <2>4, <2>6, MountStep
<1>7. CASE Polls
  <2>1. UNCHANGED <<conf, up, acq, left, close>>
    BY <1>7 DEF Polls, acqVars, closeVars
  <2>2. PICK gone : mounted' = mounted \ gone /\ held' = held \ (gone \cap mounted)
    BY <1>7 DEF Polls
  <2>3. Stray' \subseteq Stray
    BY <2>1, <2>2 DEF Stray
  <2>4. Cardinality(Stray') <= conf'.fences - left'.fences
    BY <2>1, <2>3, StrayBounded
  <2> QED
    BY <2>1, <2>2, <2>4 DEF MountInv, Closers
<1>8. ASSUME NEW p \in Positions, FencedOut(p) PROVE MountInv'
  <2>1. /\ UNCHANGED <<conf, up, acq, held, close>> /\ p \in mounted /\ mounted' = mounted \ {p}
        /\ left' = [left EXCEPT !.fences = left.fences - 1]
    BY <1>8 DEF FencedOut, acqVars, closeVars
  <2>2. left' \in [hints : Int, fails : Int, fences : Int] /\ left'.fences = left.fences - 1
    BY <1>0, <2>1, SMT
  <2>3. Stray' \subseteq Stray \cup {p}
    BY <2>1 DEF Stray
  <2>4. Cardinality(Stray') <= Cardinality(Stray) + 1
    BY <2>3, StrayGrowsByOne
  <2>5. Cardinality(Stray') <= conf'.fences - left'.fences
    <3>1. conf.fences \in Nat /\ left.fences \in Int /\ Cardinality(Stray) <= conf.fences - left.fences
      BY <1>0, ConfigsAssumption DEF CloseInv, MountInv, ConfigType
    <3>2. Cardinality(Stray') \in Nat /\ Cardinality(Stray) \in Nat
      <4>1. Stray' \subseteq Positions /\ Stray \subseteq Positions
        BY <1>0, <2>1 DEF Stray
      <4> QED
        BY <4>1, ConfigsAssumption, FS_Subset, FS_CardinalityType
    <3> QED
      BY <2>1, <2>2, <2>4, <3>1, <3>2, SMT
  <2> QED
    BY <1>0, <2>1, <2>2, <2>5 DEF MountInv, Closers
<1>9. CASE ViewMoves
  <2>1. UNCHANGED <<conf, up, acq, mounted, held, close>> /\ left' = [left EXCEPT !.hints = left.hints - 1]
    BY <1>9 DEF ViewMoves, mountVars, acqVars, closeVars
  <2>2. left' \in [hints : Int, fails : Int, fences : Int] /\ left'.fences = left.fences
    BY <1>0, <2>1, SMT
  <2> QED
    BY <2>1, <2>2, SMT DEF MountInv, Closers, Stray
<1>10. ASSUME NEW i \in Closers, BeginClose(i) \/ CloseStep(i) PROVE MountInv'
  BY <1>10, ClosePreserves
<1>11. CASE TakesHint \/ ArmsReconcile \/ StartsPrompt \/ Notified \/ Ticks \/ Quits
  BY <1>1, <1>11
  DEF TakesHint, ArmsReconcile, StartsPrompt, Notified, Ticks, Quits, mountVars, acqVars, closeVars
<1>12. CASE Timer \/ PollerGivesUp \/ PollerEnds \/ DrainTimeout
  BY <1>1, <1>12 DEF Timer, PollerGivesUp, PollerEnds, DrainTimeout, mountVars, acqVars, closeVars
<1>13. CASE Daemon \/ Releases \/ UNCHANGED vars
  BY <1>1, <1>13 DEF Daemon, Releases, vars, mountVars, acqVars, closeVars
<1>14. ASSUME NEW p \in Positions, SuccessorServes(p) PROVE MountInv'
  BY <1>1, <1>14 DEF SuccessorServes, acqVars, closeVars
<1> QED
  BY <1>2, <1>3, <1>4, <1>5, <1>6, <1>7, <1>8, <1>9, <1>10, <1>11, <1>12, <1>13, <1>14 DEF Next

-----------------------------------------------------------------------------
ControlInv == CloseInv /\ RunInv /\ BootInv /\ MountInv

LEMMA InitControl == Init => ControlInv
<1> SUFFICES ASSUME Init PROVE ControlInv
  OBVIOUS
<1>1. CloseInv
  BY ClosersTyped DEF Init, CloseInv, Stages, Teardown, Draining, NoPass
<1>2. RunInv
  BY ConfigsAssumption DEF Init, RunInv, ConfigType
<1>3. MountInv
  <2>1. Stray = {} /\ Cardinality(Stray) = 0
    BY FS_EmptySet DEF Init, Stray
  <2>2. conf.hints \in Nat /\ conf.fails \in Nat /\ conf.fences \in Nat
    BY ConfigsAssumption DEF Init, ConfigType
  <2>3. left \in [hints : Int, fails : Int, fences : Int] /\ left.fences = conf.fences
    BY <2>2, SMT DEF Init
  <2>4. 0 <= conf.fences - left.fences
    BY <2>2, <2>3, SMT
  <2> QED
    BY <2>1, <2>3, <2>4 DEF Init, MountInv, Opening
<1> QED
  BY <1>1, <1>2, <1>3 DEF ControlInv, Init, BootInv

LEMMA ControlInvariant == Spec => []ControlInv
<1>1. ControlInv /\ [Next]_vars => ControlInv'
  BY NextClose, NextRun, NextBoot, NextMount DEF ControlInv
<1> QED
  BY <1>1, InitControl, PTL DEF Spec

\* Close returns with nothing mounted, no open in flight and no handle but the
\* ones a fence had evicted: loopWG.Wait covers every open, and closed is set
\* before it (Cluster.Close).
THEOREM CloseIsFinal == Spec => []ClosedForGood
<1>1. ControlInv => ClosedForGood
  <2> SUFFICES ASSUME ControlInv, NEW i \in Closers, close[i] = "stopped"
               PROVE  /\ mounted = {} /\ \A p \in Positions : acq[p] = "none"
                      /\ Cardinality(held) <= conf.fences - left.fences
    BY DEF ClosedForGood
  <2>1. mounted = {} /\ \A p \in Positions : acq[p] = "none"
    BY DEF ControlInv, MountInv
  <2>2. Stray = held
    BY <2>1 DEF Stray
  <2> QED
    BY <2>1, <2>2 DEF ControlInv, MountInv
<1> QED
  BY <1>1, ControlInvariant, PTL

\* shaled stops its server and releases the factory only on a node whose drain
\* has ended and which is closed (Run in the daemon).
THEOREM TransportOutlives == Spec => []TransportOutlivesDrain
<1>1. ControlInv => TransportOutlivesDrain
  <2> SUFFICES ASSUME ControlInv, run \in {"stopped", "exit"}, up
               PROVE  /\ closed /\ mounted = {} /\ coordUp = FALSE
                      /\ once \notin {"running", "late"}
                      /\ \A p \in Positions : acq[p] = "none"
    BY DEF TransportOutlivesDrain
  <2>1. PICK i \in Closers : close[i] = "stopped"
    BY DEF ControlInv, RunInv
  <2>2. closed /\ coordUp = FALSE
    BY <2>1 DEF ControlInv, CloseInv, Teardown
  <2>3. mounted = {} /\ \A p \in Positions : acq[p] = "none"
    BY <2>1 DEF ControlInv, MountInv
  <2>4. \A j \in Closers : j = i
    BY ClosersTyped DEF ControlInv, CloseInv, RunInv
  <2>5. once \notin {"running", "late"}
    BY <2>1, <2>4 DEF ControlInv, CloseInv, Draining
  <2> QED
    BY <2>2, <2>3, <2>5
<1> QED
  BY <1>1, ControlInvariant, PTL
=============================================================================
