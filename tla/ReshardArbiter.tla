-------------------------- MODULE ReshardArbiter --------------------------
(***************************************************************************)
(* The reshard arbiter, pkg/reshard/arbiter.go: nodes that seed, retarget  *)
(* and advance one State object in a conditional store, each by reading    *)
(* it, computing the next State and writing it under the version read.     *)
(* There is no coordinator; what keeps the State one line of history is    *)
(* the conditional write alone.                                            *)
(*                                                                         *)
(* As in CasCoordinator, a version token is modelled by what it can tell:  *)
(* whether the object was written since the read (`fresh').  A write whose *)
(* call timed out may still be applied later while its precondition holds  *)
(* (`late').                                                               *)
(***************************************************************************)
EXTENDS Naturals, FiniteSets

CONSTANTS Nodes,
          MaxShift,         \* exponent of the largest legal unit count
          InitialCount,     \* the count each node seeds with
          Declared,         \* targets operators ask for
          RetargetAttempts, \* retargetAttempts, 8 in the code
          MaxEpoch,         \* bound on the generations of a behaviour
          MaxLate,          \* bound on timed-out writes still in flight
          None

VARIABLES state, \* the State object, None before it is seeded
          late,  \* States of timed-out writes that may still be applied
          op,    \* the call each node is in
          known  \* the State each node was last returned

vars == <<state, late, op, known>>

Agreement == INSTANCE ReshardAgreement WITH MaxShift <- MaxShift, None <- None, state <- state

Counts == Agreement!Counts
States == Agreement!States

ASSUME ArbiterAssumption ==
  /\ MaxShift \in Nat
  /\ InitialCount \in [Nodes -> 0 .. MaxShift]
  /\ Declared \subseteq 0 .. MaxShift
  /\ RetargetAttempts \in Nat \ {0}
  /\ MaxEpoch \in Nat /\ MaxLate \in Nat
  /\ None \notin States

(***************************************************************************)
(* A call: Retarget reading or writing, or Advance writing (its read is    *)
(* its first step).  `next' is the State about to be written.              *)
(***************************************************************************)
Calls ==
  [call : {"none", "retarget", "advance"}, pc : {"idle", "read", "write"}, try : Nat,
   target : Counts, next : States \cup {None}, fresh : BOOLEAN]

Idle ==
  [call |-> "none", pc |-> "idle", try |-> 0, target |-> 0, next |-> None, fresh |-> FALSE]

Reading(n, t) ==
  [call |-> "retarget", pc |-> "read", try |-> n, target |-> t, next |-> None, fresh |-> FALSE]

Writing(c, n, t, s) ==
  [call |-> c, pc |-> "write", try |-> n, target |-> t, next |-> s, fresh |-> TRUE]

Refused(c) ==
  [call |-> c.call, pc |-> "write", try |-> c.try, target |-> c.target, next |-> None,
   fresh |-> FALSE]

Init ==
  /\ state = None
  /\ late = {}
  /\ op = [n \in Nodes |-> Idle]
  /\ known = [n \in Nodes |-> None]

(***************************************************************************)
(* A successful write outdates every read made before it.                  *)
(***************************************************************************)
StillCurrent(o) == o

Outdated(o) ==
  [n \in Nodes |-> IF o[n].pc = "write" THEN Refused(o[n]) ELSE o[n]]

Put(s, o) ==
  /\ state' = s
  /\ late' = {}
  /\ op' = Outdated(o)

(***************************************************************************)
(* Seed: create if absent, else adopt what is there.                       *)
(***************************************************************************)
SeedCreate(n) ==
  /\ op[n] = Idle
  /\ state = None
  /\ Put(Agreement!Seeded(InitialCount[n]), op)
  /\ known' = [known EXCEPT ![n] = Agreement!Seeded(InitialCount[n])]

(* A Read, by Seed finding the object present or by any caller. *)
Read(n) ==
  /\ op[n] = Idle
  /\ state # None
  /\ known' = [known EXCEPT ![n] = state]
  /\ UNCHANGED <<state, late, op>>

-----------------------------------------------------------------------------
RetargetCall(n) ==
  /\ op[n] = Idle
  /\ \E t \in Declared : op' = [op EXCEPT ![n] = Reading(1, t)]
  /\ UNCHANGED <<state, late, known>>

RetargetUnseeded(n) ==
  /\ op[n].pc = "read"
  /\ state = None
  /\ op' = [op EXCEPT ![n] = Idle]
  /\ UNCHANGED <<state, late, known>>

RetargetAgreed(n) ==
  /\ op[n].pc = "read"
  /\ state # None
  /\ state.target = op[n].target
  /\ op' = [op EXCEPT ![n] = Idle]
  /\ known' = [known EXCEPT ![n] = state]
  /\ UNCHANGED <<state, late>>

RetargetRead(n) ==
  /\ op[n].pc = "read"
  /\ state # None
  /\ state.target # op[n].target
  /\ LET t == op[n].target
     IN  op' = [op EXCEPT ![n] = Writing("retarget", op[n].try, t, Agreement!Retargeted(state, t))]
  /\ UNCHANGED <<state, late, known>>

RetargetRefused(n) ==
  /\ op[n].call = "retarget" /\ op[n].pc = "write" /\ ~op[n].fresh
  /\ op' = [op EXCEPT ![n] = IF op[n].try < RetargetAttempts
                             THEN Reading(op[n].try + 1, op[n].target) ELSE Idle]
  /\ UNCHANGED <<state, late, known>>

-----------------------------------------------------------------------------
AdvanceGrowing(n) ==
  /\ op[n] = Idle
  /\ state # None
  /\ state.target > state.count
  /\ state.epoch < MaxEpoch
  /\ op' = [op EXCEPT ![n] = Writing("advance", 0, 0, Agreement!PlanNext(state))]
  /\ UNCHANGED <<state, late, known>>

AdvanceRead(n) ==
  /\ op[n] = Idle
  /\ state # None
  /\ Agreement!HasStep(state)
  /\ state.epoch < MaxEpoch
  /\ op' = [op EXCEPT ![n] = Writing("advance", 0, 0, Agreement!PlanNext(state))]
  /\ UNCHANGED <<state, late, known>>

(* The race is lost: adopt the winner's State, do not retry. *)
AdvanceRefused(n) ==
  /\ op[n].call = "advance" /\ ~op[n].fresh
  /\ op' = [op EXCEPT ![n] = Idle]
  /\ known' = [known EXCEPT ![n] = state]
  /\ UNCHANGED <<state, late>>

(* The conditional write of Retarget or Advance is accepted. *)
WriteAccepted(n) ==
  /\ op[n].pc = "write" /\ op[n].fresh
  /\ Put(op[n].next, [op EXCEPT ![n] = Idle])
  /\ known' = [known EXCEPT ![n] = op[n].next]

-----------------------------------------------------------------------------
(* A call ends in an error; a write it sent may still be applied. *)
CallFails(n) ==
  /\ op[n].pc = "write" /\ op[n].fresh
  /\ Cardinality(late \cup {op[n].next}) <= MaxLate
  /\ late' = late \cup {op[n].next}
  /\ op' = [op EXCEPT ![n] = Idle]
  /\ UNCHANGED <<state, known>>

LateLand ==
  \E s \in late :
    /\ Put(s, op)
    /\ UNCHANGED known

RetargetStep(n) ==
  RetargetUnseeded(n) \/ RetargetAgreed(n) \/ RetargetRead(n) \/ RetargetRefused(n)

Retarget(n) == RetargetCall(n) \/ RetargetStep(n)

Advance(n) == AdvanceRead(n) \/ AdvanceRefused(n)

Next ==
  \/ LateLand
  \/ \E n \in Nodes :
       \/ SeedCreate(n) \/ Read(n) \/ Retarget(n) \/ Advance(n)
       \/ WriteAccepted(n) \/ CallFails(n)

Spec == Init /\ [][Next]_vars

(***************************************************************************)
(* Every node's reconcile keeps calling Advance while the State is short   *)
(* of its target, and a store that is called again and again answers in    *)
(* the end.                                                                *)
(***************************************************************************)
Fairness ==
  \A n \in Nodes :
    /\ WF_vars(SeedCreate(n))
    /\ WF_vars(RetargetStep(n))
    /\ WF_vars(Advance(n))
    /\ SF_vars(WriteAccepted(n))

FairSpec == Spec /\ Fairness

-----------------------------------------------------------------------------
TypeOK ==
  /\ state \in States \cup {None}
  /\ late \subseteq States
  /\ op \in [Nodes -> Calls]
  /\ known \in [Nodes -> States \cup {None}]

(***************************************************************************)
(* Nodes that were told the same epoch were told the same generation: two  *)
(* racing writers never leave two counts or two plans behind for one epoch *)
(* (arbiter.go: "exactly one writer wins", planNext: "every node derives   *)
(* the identical next generation").                                        *)
(***************************************************************************)
SameGeneration(s, t) == s.epoch = t.epoch => s.count = t.count /\ s.plan = t.plan

EpochAgreement ==
  \A n, m \in Nodes :
    known[n] # None /\ known[m] # None => SameGeneration(known[n], known[m])

(***************************************************************************)
(* Every change of the State is one serial step of ReshardAgreement: the   *)
(* read, the computation and the conditional write act as one.             *)
(***************************************************************************)
ImplementsAgreement == Agreement!Spec

(***************************************************************************)
(* Once Retarget calls stop, the repeated one-step Advance of reconcile    *)
(* passes that race each other brings the count to the target (or the      *)
(* model's bound on epochs is reached).                                    *)
(***************************************************************************)
TargetReached ==
  <>[][\A n \in Nodes : op'[n].call = "retarget" => op[n].call = "retarget"]_vars =>
    <>[](state # None => state.count = state.target \/ state.epoch = MaxEpoch)

=============================================================================
