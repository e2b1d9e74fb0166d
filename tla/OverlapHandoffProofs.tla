----------------------- MODULE OverlapHandoffProofs -----------------------
(***************************************************************************)
(* Proofs about OverlapHandoff, for every set of nodes and every bound on  *)
(* epochs, placement changes and crashes.                                  *)
(*                                                                         *)
(* Fencing needs more than the statement itself: an epoch a node has in    *)
(* hand, mounted, open or on the way to be installed, is in no other       *)
(* node's hand, and none is above the durable epoch; then an open at       *)
(* durable + 1 is new to everybody.  That a drain keeps its mount needs to *)
(* know that a pass about to release is never about a draining position.   *)
(***************************************************************************)
EXTENDS OverlapHandoff, TLAPS

(* The epochs node n has in hand. *)
Hand(n) == {mount[n], held[n], acq[n].epoch}

Bounded == marker <= durable /\ \A n \in Nodes : \A e \in Hand(n) : e <= durable

Exclusive == \A n, m \in Nodes : n # m => Hand(n) \cap Hand(m) \subseteq {0}

DrainIsMounted ==
  \A n \in Nodes : phase[n].name = "draining" => mount[n] # 0 /\ pass[n].pc # "release"

IInv == TypeOK /\ Bounded /\ Exclusive /\ DrainIsMounted

(***************************************************************************)
(* What every step does to the epochs in hand: it is a step of one node,   *)
(* which drops or moves epochs it has, or opens the next one.              *)
(***************************************************************************)
StepOfOne(n) ==
  /\ durable' \in {durable, durable + 1}
  /\ marker' <= durable'
  /\ \A m \in Nodes \ {n} : mount'[m] = mount[m] /\ held'[m] = held[m] /\ acq'[m] = acq[m]
  /\ \A e \in Hand(n)' :
       e \in Hand(n) \/ e = 0 \/ (e = durable + 1 /\ durable' = durable + 1)

-----------------------------------------------------------------------------
LEMMA WorkType ==
  ASSUME TypeOK, NEW n \in Nodes
  PROVE  Work(n) \in {"idle", "keep", "finish", "lose", "drop", "gain"}
<1>1. owns[n] \in SUBSET {"current", "pending"} /\ mount[n] \in Epochs
  BY DEF TypeOK
<1>2. \/ owns[n] = {} \/ owns[n] = {"current"} \/ owns[n] = {"pending"}
      \/ owns[n] = {"current", "pending"}
  BY <1>1
<1> QED
  BY <1>1, <1>2 DEF Work

LEMMA InitInv == Init => IInv
<1> SUFFICES ASSUME Init PROVE IInv
  OBVIOUS
<1> USE HandoffAssumption DEF Init, Idle, At, NoPhase
<1>1. TypeOK
  BY DEF TypeOK, Epochs, Phases
<1>2. Bounded /\ Exclusive
  BY DEF Bounded, Exclusive, Hand
<1>3. DrainIsMounted
  BY DEF DrainIsMounted
<1> QED
  BY <1>1, <1>2, <1>3 DEF IInv

(* Every step preserves the types. *)
LEMMA NextType == ASSUME TypeOK, Next PROVE TypeOK'
<1> USE HandoffAssumption DEF TypeOK, Phases, Epochs
<1>n. SUFFICES ASSUME NEW n \in Nodes,
                      \/ AcquireStep(n) \/ Reconcile(n) \/ PassStep(n) \/ DrainCheck(n) \/ Prompt(n)
                      \/ EvictStaleMount(n) \/ Learn(n) \/ Boot(n) \/ Booted(n) \/ Crash(n)
               PROVE  TypeOK'
  BY DEF Next
<1>q. TypeOK'
  <2>1. CASE AcqOpen(n)
    BY <2>1 DEF AcqOpen, Opened, NextEpoch, AcqAt, At, members, table
  <2>2. CASE AcqClose(n)
    BY <2>2 DEF AcqClose, AcqAt, At, storage, members, table
  <2>3. CASE AcqReopen(n)
    BY <2>3 DEF AcqReopen, Opened, NextEpoch, AcqAt, At, members, table
  <2>4. CASE AcqFails(n)
    BY <2>4 DEF AcqFails, AcqAt, Idle, storage, members, table, At
  <2>5. CASE AcqRedrive(n)
    BY <2>5 DEF AcqRedrive, AcqAt, At, storage, members, table
  <2>6. CASE Install(n)
    BY <2>6 DEF Install, AcqAt, At, NoPhase, storage, members
  <2>7. CASE BlockedByDrain(n)
    BY <2>7 DEF BlockedByDrain, AcqAt, Idle, storage, members, table, At
  <2>8. CASE PublishServing(n)
    BY <2>8 DEF PublishServing, Publish, AcqAt, Idle, members, table, At
  <2>9. CASE Reconcile(n)
    BY <2>9, WorkType DEF Reconcile, PassAt, GoTo, storage, members, table, At
  <2>10. CASE Reclaim(n)
    BY <2>10 DEF Reclaim, PassAt, EndPass, NoPhase, storage, members, Idle, At
  <2>11. CASE DropStuckPhase(n)
    BY <2>11 DEF DropStuckPhase, PassAt, GoTo, NoPhase, storage, members, At
  <2>12. CASE Rearm(n)
    BY <2>12 DEF Rearm, Publish, OwnOpenEpoch, PassAt, EndPass, members, table, Idle, At
  <2>13. CASE BeginDrain(n)
    BY <2>13 DEF BeginDrain, OwnOpenEpoch, PassAt, GoTo, NoPhase, storage, members, table,
         At
  <2>14. CASE ArmDrain(n)
    BY <2>14 DEF ArmDrain, PassAt, EndPass, NoPhase, Draining, storage, members, Idle, At
  <2>15. CASE BeginRelease(n)
    BY <2>15 DEF BeginRelease, PassAt, GoTo, NoPhase, storage, members, table, At
  <2>16. CASE Release(n)
    BY <2>16 DEF Release, PassAt, GoTo, storage, members, At
  <2>17. CASE CloseUnit(n)
    BY <2>17 DEF CloseUnit, PassAt, EndPass, storage, members, table, Idle, At
  <2>18. CASE BeginAcquire(n)
    BY <2>18 DEF BeginAcquire, PassAt, GoTo, Acquiring, storage, members, At
  <2>19. CASE StartAcquire(n)
    BY <2>19 DEF StartAcquire, Spawned, PassAt, EndPass, storage, members, table, At, Idle
  <2>20. CASE LeaveAlone(n)
    BY <2>20 DEF LeaveAlone, PassAt, EndPass, NoPhase, storage, members, table, Idle, At
  <2>21. CASE DrainCheck(n)
    BY <2>21 DEF DrainCheck, PassAt, GoTo, NoPhase, storage, members, At
  <2>22. CASE PromptCheck(n)
    BY <2>22 DEF PromptCheck, storage, members, table
  <2>23. CASE PromptAcquire(n)
    BY <2>23 DEF PromptAcquire, Spawned, storage, members, table, At, Idle
  <2>24. CASE EvictStaleMount(n)
    BY <2>24 DEF EvictStaleMount, storage, members
  <2>25. CASE Learn(n)
    BY <2>25 DEF Learn, storage, table
  <2>26. CASE Boot(n)
    BY <2>26 DEF Boot, Spawned, storage, table, At, Idle
  <2>27. CASE Booted(n)
    BY <2>27 DEF Booted, Idle, storage, table, At
  <2>28. CASE Crash(n)
    BY <2>28 DEF Crash, Idle, NoPhase, storage, At
  <2> QED
    BY <1>n, <2>1, <2>2, <2>3, <2>4, <2>5, <2>6, <2>7, <2>8, <2>9, <2>10, <2>11, <2>12,
         <2>13, <2>14, <2>15, <2>16, <2>17, <2>18, <2>19, <2>20, <2>21, <2>22, <2>23, <2>24,
         <2>25, <2>26, <2>27, <2>28
       DEF AcquireStep, PassStep, Prompt
<1> QED
  BY <1>q

(* Every step is a step of one node. *)
LEMMA NextStepOfOne ==
  ASSUME TypeOK, Bounded, Next PROVE \E n \in Nodes : StepOfOne(n)
<1>n. PICK n \in Nodes :
                      \/ AcquireStep(n) \/ Reconcile(n) \/ PassStep(n) \/ DrainCheck(n) \/ Prompt(n)
                      \/ EvictStaleMount(n) \/ Learn(n) \/ Boot(n) \/ Booted(n) \/ Crash(n)
  BY DEF Next
<1>t. /\ durable \in Nat /\ marker \in Nat /\ marker <= durable
      /\ mount[n] \in Nat /\ held[n] \in Nat /\ acq[n].epoch \in Nat
      /\ mount[n] <= durable /\ held[n] <= durable /\ acq[n].epoch <= durable
      /\ mount \in [Nodes -> Nat] /\ held \in [Nodes -> Nat]
      /\ \A m \in Nodes : acq[m] = [pc |-> acq[m].pc, epoch |-> acq[m].epoch]
      /\ acq = [m \in Nodes |-> acq[m]]
  BY HandoffAssumption DEF TypeOK, Epochs, Bounded, Hand
<1>q. StepOfOne(n)
  <2>1. CASE AcqOpen(n)
    BY <2>1, <1>t DEF AcqOpen, Opened, NextEpoch, AcqAt, At, members, table, StepOfOne, Hand
  <2>2. CASE AcqClose(n)
    BY <2>2, <1>t DEF AcqClose, AcqAt, At, storage, members, table, StepOfOne, Hand
  <2>3. CASE AcqReopen(n)
    BY <2>3, <1>t DEF AcqReopen, Opened, NextEpoch, AcqAt, At, members, table, StepOfOne,
         Hand
  <2>4. CASE AcqFails(n)
    BY <2>4, <1>t DEF AcqFails, AcqAt, Idle, storage, members, table, At, StepOfOne, Hand
  <2>5. CASE AcqRedrive(n)
    BY <2>5, <1>t DEF AcqRedrive, AcqAt, At, storage, members, table, StepOfOne, Hand
  <2>6. CASE Install(n)
    BY <2>6, <1>t DEF Install, AcqAt, At, NoPhase, storage, members, StepOfOne, Hand
  <2>7. CASE BlockedByDrain(n)
    BY <2>7, <1>t DEF BlockedByDrain, AcqAt, Idle, storage, members, table, At, StepOfOne,
         Hand
  <2>8. CASE PublishServing(n)
    BY <2>8, <1>t DEF PublishServing, Publish, AcqAt, Idle, members, table, At, StepOfOne,
         Hand
  <2>9. CASE Reconcile(n)
    BY <2>9, <1>t DEF Reconcile, PassAt, GoTo, storage, members, table, At, StepOfOne, Hand
  <2>10. CASE Reclaim(n)
    BY <2>10, <1>t DEF Reclaim, PassAt, EndPass, NoPhase, storage, members, Idle, At,
         StepOfOne, Hand
  <2>11. CASE DropStuckPhase(n)
    BY <2>11, <1>t DEF DropStuckPhase, PassAt, GoTo, NoPhase, storage, members, At,
         StepOfOne, Hand
  <2>12. CASE Rearm(n)
    BY <2>12, <1>t DEF Rearm, Publish, OwnOpenEpoch, PassAt, EndPass, members, table, Idle,
         At, StepOfOne, Hand
  <2>13. CASE BeginDrain(n)
    BY <2>13, <1>t DEF BeginDrain, OwnOpenEpoch, PassAt, GoTo, NoPhase, storage, members,
         table, At, StepOfOne, Hand
  <2>14. CASE ArmDrain(n)
    BY <2>14, <1>t DEF ArmDrain, PassAt, EndPass, NoPhase, Draining, storage, members, Idle,
         At, StepOfOne, Hand
  <2>15. CASE BeginRelease(n)
    BY <2>15, <1>t DEF BeginRelease, PassAt, GoTo, NoPhase, storage, members, table, At,
         StepOfOne, Hand
  <2>16. CASE Release(n)
    BY <2>16, <1>t DEF Release, PassAt, GoTo, storage, members, At, StepOfOne, Hand
  <2>17. CASE CloseUnit(n)
    BY <2>17, <1>t DEF CloseUnit, PassAt, EndPass, storage, members, table, Idle, At,
         StepOfOne, Hand
  <2>18. CASE BeginAcquire(n)
    BY <2>18, <1>t DEF BeginAcquire, PassAt, GoTo, Acquiring, storage, members, At,
         StepOfOne, Hand
  <2>19. CASE StartAcquire(n)
    BY <2>19, <1>t DEF StartAcquire, Spawned, PassAt, EndPass, storage, members, table, At,
         Idle, StepOfOne, Hand
  <2>20. CASE LeaveAlone(n)
    BY <2>20, <1>t DEF LeaveAlone, PassAt, EndPass, NoPhase, storage, members, table, Idle,
         At, StepOfOne, Hand
  <2>21. CASE DrainCheck(n)
    BY <2>21, <1>t DEF DrainCheck, PassAt, GoTo, NoPhase, storage, members, At, StepOfOne,
         Hand
  <2>22. CASE PromptCheck(n)
    BY <2>22, <1>t DEF PromptCheck, storage, members, table, StepOfOne, Hand
  <2>23. CASE PromptAcquire(n)
    BY <2>23, <1>t DEF PromptAcquire, Spawned, storage, members, table, At, Idle, StepOfOne,
         Hand
  <2>24. CASE EvictStaleMount(n)
    BY <2>24, <1>t DEF EvictStaleMount, storage, members, StepOfOne, Hand
  <2>25. CASE Learn(n)
    BY <2>25, <1>t DEF Learn, storage, table, StepOfOne, Hand
  <2>26. CASE Boot(n)
    BY <2>26, <1>t DEF Boot, Spawned, storage, table, At, Idle, StepOfOne, Hand
  <2>27. CASE Booted(n)
    BY <2>27, <1>t DEF Booted, Idle, storage, table, At, StepOfOne, Hand
  <2>28. CASE Crash(n)
    BY <2>28, <1>t DEF Crash, Idle, NoPhase, storage, At, StepOfOne, Hand
  <2> QED
    BY <1>n, <2>1, <2>2, <2>3, <2>4, <2>5, <2>6, <2>7, <2>8, <2>9, <2>10, <2>11, <2>12,
         <2>13, <2>14, <2>15, <2>16, <2>17, <2>18, <2>19, <2>20, <2>21, <2>22, <2>23, <2>24,
         <2>25, <2>26, <2>27, <2>28
       DEF AcquireStep, PassStep, Prompt
<1> QED
  BY <1>q

LEMMA FencingPreserved ==
  ASSUME TypeOK, Bounded, Exclusive, NEW n \in Nodes, StepOfOne(n)
  PROVE  Bounded' /\ Exclusive'
<1>1. durable \in Nat /\ durable' \in Nat /\ durable <= durable'
  BY DEF TypeOK, Epochs, StepOfOne
<1>2. \A m \in Nodes \ {n} : Hand(m)' = Hand(m)
  BY DEF StepOfOne, Hand
<1>3. \A m \in Nodes : \A e \in Hand(m) : e \in Nat /\ e <= durable
  BY HandoffAssumption DEF TypeOK, Epochs, Bounded, Hand
<1>4. \A e \in Hand(n)' : e \in Hand(n) \/ e = 0 \/ (e = durable + 1 /\ durable' = durable + 1)
  BY DEF StepOfOne
<1>5. \A m \in Nodes : \A e \in Hand(m)' : e <= durable'
  <2> SUFFICES ASSUME NEW m \in Nodes, NEW e \in Hand(m)' PROVE e <= durable'
    OBVIOUS
  <2>1. CASE m = n
    BY <1>1, <1>3, <1>4, <2>1
  <2>2. CASE m # n
    BY <1>1, <1>2, <1>3, <2>2
  <2> QED
    BY <2>1, <2>2
<1>6. Bounded'
  BY <1>5 DEF Bounded, StepOfOne
<1>7. \A m \in Nodes \ {n} : Hand(n)' \cap Hand(m)' \subseteq {0}
  <2> SUFFICES ASSUME NEW m \in Nodes \ {n}, NEW e \in Hand(n)', e \in Hand(m)' PROVE e = 0
    OBVIOUS
  <2>1. e \in Hand(m) /\ e <= durable /\ e \in Nat
    BY <1>2, <1>3
  <2>2. e # durable + 1
    BY <1>1, <2>1
  <2> QED
    BY <1>4, <2>1, <2>2 DEF Exclusive
<1>8. Exclusive'
  BY <1>2, <1>7 DEF Exclusive
<1> QED
  BY <1>6, <1>8

LEMMA DrainPreserved == ASSUME TypeOK, DrainIsMounted, Next PROVE DrainIsMounted'
<1> USE DEF DrainIsMounted
<1>n. SUFFICES ASSUME NEW n \in Nodes,
                      \/ AcquireStep(n) \/ Reconcile(n) \/ PassStep(n) \/ DrainCheck(n) \/ Prompt(n)
                      \/ EvictStaleMount(n) \/ Learn(n) \/ Boot(n) \/ Booted(n) \/ Crash(n)
               PROVE  DrainIsMounted'
  BY DEF Next
<1>t. /\ mount = [m \in Nodes |-> mount[m]] /\ phase = [m \in Nodes |-> phase[m]]
      /\ pass = [m \in Nodes |-> pass[m]]
  BY DEF TypeOK
<1>q. DrainIsMounted'
  <2>1. CASE AcqOpen(n)
    BY <2>1, <1>t DEF AcqOpen, Opened, NextEpoch, AcqAt, At, members, table
  <2>2. CASE AcqClose(n)
    BY <2>2, <1>t DEF AcqClose, AcqAt, At, storage, members, table
  <2>3. CASE AcqReopen(n)
    BY <2>3, <1>t DEF AcqReopen, Opened, NextEpoch, AcqAt, At, members, table
  <2>4. CASE AcqFails(n)
    BY <2>4, <1>t DEF AcqFails, AcqAt, Idle, storage, members, table, At
  <2>5. CASE AcqRedrive(n)
    BY <2>5, <1>t DEF AcqRedrive, AcqAt, At, storage, members, table
  <2>6. CASE Install(n)
    BY <2>6, <1>t DEF Install, AcqAt, At, NoPhase, storage, members
  <2>7. CASE BlockedByDrain(n)
    BY <2>7, <1>t DEF BlockedByDrain, AcqAt, Idle, storage, members, table, At
  <2>8. CASE PublishServing(n)
    BY <2>8, <1>t DEF PublishServing, Publish, AcqAt, Idle, members, table, At
  <2>9. CASE Reconcile(n)
    BY <2>9, <1>t, WorkType DEF Reconcile, PassAt, GoTo, storage, members, table, At
  <2>10. CASE Reclaim(n)
    BY <2>10, <1>t DEF Reclaim, PassAt, EndPass, NoPhase, storage, members, Idle, At
  <2>11. CASE DropStuckPhase(n)
    BY <2>11, <1>t DEF DropStuckPhase, PassAt, GoTo, NoPhase, storage, members, At
  <2>12. CASE Rearm(n)
    BY <2>12, <1>t DEF Rearm, Publish, OwnOpenEpoch, PassAt, EndPass, members, table, Idle,
         At
  <2>13. CASE BeginDrain(n)
    BY <2>13, <1>t DEF BeginDrain, OwnOpenEpoch, PassAt, GoTo, NoPhase, storage, members,
         table, At
  <2>14. CASE ArmDrain(n)
    BY <2>14, <1>t DEF ArmDrain, PassAt, EndPass, NoPhase, Draining, storage, members, Idle,
         At
  <2>15. CASE BeginRelease(n)
    BY <2>15, <1>t DEF BeginRelease, PassAt, GoTo, NoPhase, storage, members, table, At
  <2>16. CASE Release(n)
    BY <2>16, <1>t DEF Release, PassAt, GoTo, storage, members, At
  <2>17. CASE CloseUnit(n)
    BY <2>17, <1>t DEF CloseUnit, PassAt, EndPass, storage, members, table, Idle, At
  <2>18. CASE BeginAcquire(n)
    BY <2>18, <1>t DEF BeginAcquire, PassAt, GoTo, Acquiring, storage, members, At
  <2>19. CASE StartAcquire(n)
    BY <2>19, <1>t DEF StartAcquire, Spawned, PassAt, EndPass, storage, members, table, At,
         Idle
  <2>20. CASE LeaveAlone(n)
    BY <2>20, <1>t DEF LeaveAlone, PassAt, EndPass, NoPhase, storage, members, table, Idle,
         At
  <2>21. CASE DrainCheck(n)
    BY <2>21, <1>t DEF DrainCheck, PassAt, GoTo, NoPhase, storage, members, At
  <2>22. CASE PromptCheck(n)
    BY <2>22, <1>t DEF PromptCheck, storage, members, table
  <2>23. CASE PromptAcquire(n)
    BY <2>23, <1>t DEF PromptAcquire, Spawned, storage, members, table, At, Idle
  <2>24. CASE EvictStaleMount(n)
    BY <2>24, <1>t DEF EvictStaleMount, storage, members
  <2>25. CASE Learn(n)
    BY <2>25, <1>t DEF Learn, storage, table
  <2>26. CASE Boot(n)
    BY <2>26, <1>t DEF Boot, Spawned, storage, table, At, Idle
  <2>27. CASE Booted(n)
    BY <2>27, <1>t DEF Booted, Idle, storage, table, At
  <2>28. CASE Crash(n)
    BY <2>28, <1>t DEF Crash, Idle, NoPhase, storage, At
  <2> QED
    BY <1>n, <2>1, <2>2, <2>3, <2>4, <2>5, <2>6, <2>7, <2>8, <2>9, <2>10, <2>11, <2>12,
         <2>13, <2>14, <2>15, <2>16, <2>17, <2>18, <2>19, <2>20, <2>21, <2>22, <2>23, <2>24,
         <2>25, <2>26, <2>27, <2>28
       DEF AcquireStep, PassStep, Prompt
<1> QED
  BY <1>q

LEMMA NextInv == ASSUME IInv, [Next]_vars PROVE IInv'
<1>1. CASE Next
  <2>1. TypeOK'
    BY <1>1, NextType DEF IInv
  <2>2. Bounded' /\ Exclusive'
    BY <1>1, NextStepOfOne, FencingPreserved DEF IInv
  <2>3. DrainIsMounted'
    BY <1>1, DrainPreserved DEF IInv
  <2> QED
    BY <2>1, <2>2, <2>3 DEF IInv
<1>2. CASE UNCHANGED vars
  BY <1>2 DEF vars, IInv, TypeOK, Bounded, Exclusive, Hand, DrainIsMounted
<1> QED
  BY <1>1, <1>2

LEMMA Invariance == Spec => []IInv
  BY InitInv, NextInv, PTL DEF Spec

-----------------------------------------------------------------------------
(***************************************************************************)
(* The state of the handoff keeps its types, in particular no epoch beyond *)
(* the ones opened appears in a mount table, a phase or a marker.          *)
(***************************************************************************)
THEOREM TypeCorrect == Spec => []TypeOK
  BY Invariance, PTL DEF IInv

(***************************************************************************)
(* However acquires, drains, evictions, crashes and releases interleave,   *)
(* at most one node has a handle at the durable epoch, and the serving     *)
(* marker names only epochs that were opened.                              *)
(***************************************************************************)
THEOREM Fencing == Spec => []OneWriter
<1>1. IInv => OneWriter
  <2> SUFFICES ASSUME IInv PROVE OneWriter
    OBVIOUS
  <2>1. \A n \in Nodes : Writes(n) => durable \in Hand(n) /\ durable # 0
    BY DEF Writes, Hand
  <2>2. \A n, m \in Nodes : Writes(n) /\ Writes(m) => n = m
    BY <2>1 DEF IInv, Exclusive
  <2> QED
    BY <2>2 DEF OneWriter, IInv, Bounded
<1> QED
  BY <1>1, Invariance, PTL

(***************************************************************************)
(* A draining owner keeps its mount until drainCheck releases it.          *)
(***************************************************************************)
THEOREM DrainingOwnerServes == Spec => []DrainKeepsMount
<1>1. IInv => DrainKeepsMount
  BY DEF IInv, DrainIsMounted, DrainKeepsMount
<1> QED
  BY <1>1, Invariance, PTL
=============================================================================
