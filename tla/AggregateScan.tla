---------------------------- MODULE AggregateScan ----------------------------
(***************************************************************************)
(* The cross-shard fan-out over the lease protocol of UnitLease: Aggregate *)
(* asks every member for what it has mounted and hands the answers to the  *)
(* caller, who acts on what is absent from them.  A node's leg is a local  *)
(* scan of its mount table (LocalScan at a peer), which refuses when the   *)
(* node owns a position it has not mounted, before the scan and after it.  *)
(***************************************************************************)
EXTENDS UnitLease

VARIABLES
  agg,          \* the fan-out: what was acknowledged and observed at its start
  leg           \* per member, the local scan's progress and rows, and whether
                \* it read an instance that was already fenced (history)

scanVars == <<vars, agg, leg>>

NoLeg == [pc |-> "idle", b |-> 0, rows |-> {}, stale |-> FALSE]

ScanInit ==
  /\ Init
  /\ agg = [running |-> FALSE, floor |-> {}, views |-> [n \in Nodes |-> 1]]
  /\ leg = [n \in Nodes |-> NoLeg]

\* Aggregate: one leg for every member, all at once.
Aggregate ==
  /\ conf.scans /\ ~agg.running
  /\ agg' = [running |-> TRUE, floor |-> acked, views |-> at]
  /\ leg' = [n \in Nodes |-> [NoLeg EXCEPT !.pc = "cover"]]
  /\ UNCHANGED vars

\* Mutant: the readiness probe only looks at what is mounted.
NothingPending(n) == FALSE

\* MountReadiness: a position this node desires is not mounted.
Pending(n) == Owner(n) = n /\ mount[n] = 0

To(n, pc) == leg' = [leg EXCEPT ![n].pc = pc]

\* The scan starts from a copy of the mount table (mountedPairs).
CoverFirst(n) ==
  /\ leg[n].pc = "cover"
  /\ IF Pending(n)
     THEN To(n, "refused")
     ELSE leg' = [leg EXCEPT ![n].pc = "scan", ![n].b = mount[n]]
  /\ UNCHANGED <<vars, agg>>

\* A closed handle fails the leg; a fenced one may still answer from what it has.
ScanUnit(n) ==
  /\ leg[n].pc = "scan"
  /\ IF leg[n].b # 0 /\ slate /\ held[n].writer # leg[n].b
     THEN To(n, "refused")
     ELSE leg' = [leg EXCEPT ![n].pc = "recheck",
                             ![n].rows = IF leg[n].b = 0 THEN {} ELSE RowsOf(n),
                             ![n].stale = leg[n].b # 0 /\ slate /\ leg[n].b # db.epoch]
  /\ UNCHANGED <<vars, agg>>

\* The instance finds that it was fenced: its mount is evicted.
ScanFenced(n) ==
  /\ leg[n].pc = "scan"
  /\ leg[n].b # 0 /\ slate /\ leg[n].b # db.epoch
  /\ Evict(n, leg[n].b)
  /\ To(n, "refused")
  /\ UNCHANGED <<conf, at, db, held, pass, stalled, stalls, op, acked, faults, missed, agg>>

\* The positions are checked again before the scan is called complete.
CoverAgain(n) ==
  /\ leg[n].pc = "recheck"
  /\ To(n, IF Pending(n) THEN "refused" ELSE "ok")
  /\ UNCHANGED <<vars, agg>>

Ended(n) == leg[n].pc \in {"ok", "refused"}

\* The caller has every leg's result.
Collect ==
  /\ agg.running
  /\ \A n \in Nodes : Ended(n)
  /\ agg' = [agg EXCEPT !.running = FALSE, !.floor = {}, !.views = [n \in Nodes |-> 1]]
  /\ leg' = [n \in Nodes |-> NoLeg]
  /\ UNCHANGED vars

ScanNext ==
  \/ Next /\ UNCHANGED <<agg, leg>>
  \/ Aggregate
  \/ \E n \in Nodes : CoverFirst(n) \/ ScanUnit(n) \/ ScanFenced(n) \/ CoverAgain(n)
  \/ Collect

ScanSpec == ScanInit /\ [][ScanNext]_scanVars /\ Fairness

-----------------------------------------------------------------------------
Answered == agg.running /\ \A n \in Nodes : leg[n].pc = "ok"
Collected == UNION {leg[n].rows : n \in Nodes}

\* An Aggregate that no leg refused contains every row acknowledged before it
\* began, if all nodes had the same placement, none moved meanwhile, and every
\* slate instance that was fenced failed its scan, as scanCoverageErr's callers
\* count on: whatever opens, evictions, crashes and late fences do, a leg that
\* could not see its unit refuses.
CompleteWhilePlaced ==
  (/\ Answered
   /\ agg.views = at
   /\ \A n, m \in Nodes : at[n] = at[m]
   /\ \A n \in Nodes : ~leg[n].stale)
  => agg.floor \subseteq Collected

=============================================================================
