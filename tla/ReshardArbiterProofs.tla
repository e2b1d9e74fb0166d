----------------------- MODULE ReshardArbiterProofs -----------------------
(***************************************************************************)
(* Proofs about ReshardArbiter, for every set of nodes, every legal range  *)
(* of counts and any number of timed-out writes.                           *)
(*                                                                         *)
(* What makes the arbiter serial is that a write which is going to be      *)
(* accepted still is a step of the State as it is now.  That is the heart  *)
(* of the inductive invariant; agreement on epochs and the refinement of   *)
(* ReshardAgreement both follow from it.                                   *)
(***************************************************************************)
EXTENDS ReshardArbiter, TLAPS

(* t is s retargeted, or s advanced by one generation. *)
StepOf(s, t) ==
  /\ s \in States /\ t \in States
  /\ \/ \E c \in Counts : t = Agreement!Retargeted(s, c)
     \/ Agreement!HasStep(s) /\ t = Agreement!PlanNext(s)

PendingIsCurrent ==
  /\ \A n \in Nodes : op[n].pc = "write" /\ op[n].fresh => StepOf(state, op[n].next)
  /\ \A s \in late : StepOf(state, s)

KnownIsPast ==
  \A n \in Nodes : known[n] # None =>
    /\ state # None
    /\ known[n].epoch <= state.epoch
    /\ SameGeneration(known[n], state)

IInv == TypeOK /\ PendingIsCurrent /\ KnownIsPast /\ EpochAgreement

-----------------------------------------------------------------------------
(* The States the arbiter computes are legal States. *)
LEMMA SeededType == ASSUME NEW c \in Counts PROVE Agreement!Seeded(c) \in States
  BY DEF Agreement!Seeded, States, Agreement!States, Counts, Agreement!Counts

LEMMA RetargetedType ==
  ASSUME NEW s \in States, NEW c \in Counts PROVE Agreement!Retargeted(s, c) \in States
  BY DEF Agreement!Retargeted, States, Agreement!States, Counts, Agreement!Counts

LEMMA PlanNextType ==
  ASSUME NEW s \in States, Agreement!HasStep(s)
  PROVE  /\ Agreement!PlanNext(s) \in States
         /\ Agreement!PlanNext(s).epoch = s.epoch + 1
<1> USE DEF States, Agreement!States, Counts, Agreement!Counts
<1>1. MaxShift \in Nat
  BY ArbiterAssumption
<1>2. s.count \in 0 .. MaxShift /\ s.target \in 0 .. MaxShift /\ s.epoch \in Nat
  OBVIOUS
<1>3. CASE s.target > s.count
  <2>1. s.count + 1 \in 0 .. MaxShift
    BY <1>1, <1>2, <1>3
  <2> QED
    BY <1>2, <1>3, <2>1 DEF Agreement!PlanNext
<1>4. CASE ~(s.target > s.count)
  <2>1. s.count - 1 \in 0 .. MaxShift
    BY <1>1, <1>2, <1>4 DEF Agreement!HasStep
  <2> QED
    BY <1>2, <1>4, <2>1 DEF Agreement!PlanNext
<1> QED
  BY <1>3, <1>4

(* A step never lowers the epoch, and leaves the generation alone unless it
   raises it. *)
LEMMA StepMovesOn ==
  ASSUME NEW s, NEW t, StepOf(s, t)
  PROVE  /\ s \in States /\ t \in States
         /\ s.epoch <= t.epoch
         /\ SameGeneration(s, t)
<1>1. s \in States /\ t \in States
  BY DEF StepOf
<1>2. s.epoch \in Nat
  BY <1>1 DEF States, Agreement!States
<1>3. CASE \E c \in Counts : t = Agreement!Retargeted(s, c)
  BY <1>1, <1>2, <1>3 DEF Agreement!Retargeted, SameGeneration, States, Agreement!States
<1>4. CASE Agreement!HasStep(s) /\ t = Agreement!PlanNext(s)
  BY <1>1, <1>2, <1>4, PlanNextType DEF SameGeneration
<1> QED
  BY <1>1, <1>3, <1>4 DEF StepOf

-----------------------------------------------------------------------------
LEMMA ZeroIsCount == 0 \in Counts
  BY ArbiterAssumption DEF Counts, Agreement!Counts

LEMMA IdleIsCall == Idle \in Calls
  BY ZeroIsCount DEF Idle, Calls

LEMMA ReadingIsCall ==
  ASSUME NEW k \in Nat, NEW t \in Counts
  PROVE  Reading(k, t) \in Calls /\ Reading(k, t).pc = "read"
  BY DEF Reading, Calls

LEMMA WritingIsCall ==
  ASSUME NEW c \in {"retarget", "advance"}, NEW k \in Nat, NEW t \in Counts, NEW s \in States
  PROVE  Writing(c, k, t, s) \in Calls /\ Writing(c, k, t, s).next = s
  BY DEF Writing, Calls

LEMMA RefusedIsCall ==
  ASSUME NEW c \in Calls PROVE Refused(c) \in Calls /\ ~Refused(c).fresh
  BY DEF Refused, Calls

(***************************************************************************)
(* An accepted write preserves the invariant: it is a step of the current  *)
(* State, and no write pending after it can be accepted.                   *)
(***************************************************************************)
LEMMA PutPreserves ==
  ASSUME IInv, NEW s \in States, NEW o \in [Nodes -> Calls], Put(s, o),
         state # None => StepOf(state, s),
         known' \in [Nodes -> States \cup {None}],
         \A n \in Nodes : known'[n] = known[n] \/ known'[n] = s
  PROVE  IInv'
<1> USE DEF IInv
<1>1. s # None
  BY ArbiterAssumption
<1>2. \A n \in Nodes : op'[n] \in Calls /\ ~(op'[n].pc = "write" /\ op'[n].fresh)
  <2> SUFFICES ASSUME NEW n \in Nodes
               PROVE  op'[n] \in Calls /\ ~(op'[n].pc = "write" /\ op'[n].fresh)
    OBVIOUS
  <2>1. o[n] \in Calls
    OBVIOUS
  <2>2. CASE o[n].pc = "write"
    <3>1. op'[n] = Refused(o[n])
      BY <2>2 DEF Put, Outdated
    <3> QED
      BY <2>1, <3>1, RefusedIsCall
  <2>3. CASE o[n].pc # "write"
    BY <2>1, <2>3 DEF Put, Outdated
  <2> QED
    BY <2>2, <2>3
<1>3. TypeOK'
  <2>1. op' \in [Nodes -> Calls]
    BY <1>2 DEF Put, Outdated
  <2> QED
    BY <2>1 DEF TypeOK, Put
<1>4. PendingIsCurrent'
  BY <1>2 DEF PendingIsCurrent, Put
<1>5. \A n \in Nodes : known[n] # None =>
        known[n].epoch <= s.epoch /\ SameGeneration(known[n], s)
  <2> SUFFICES ASSUME NEW n \in Nodes, known[n] # None
               PROVE  known[n].epoch <= s.epoch /\ SameGeneration(known[n], s)
    OBVIOUS
  <2>1. state # None /\ known[n].epoch <= state.epoch /\ SameGeneration(known[n], state)
    BY DEF KnownIsPast
  <2>2. state \in States /\ state.epoch <= s.epoch /\ SameGeneration(state, s)
    BY <2>1, StepMovesOn
  <2>3. known[n] \in States
    BY DEF TypeOK
  <2>4. known[n].epoch \in Nat /\ state.epoch \in Nat /\ s.epoch \in Nat
    BY <2>2, <2>3 DEF States, Agreement!States
  <2> QED
    BY <2>1, <2>2, <2>4 DEF SameGeneration
<1>6. s.epoch \in Nat
  BY DEF States, Agreement!States
<1>7. KnownIsPast'
  BY <1>1, <1>5, <1>6 DEF KnownIsPast, Put, SameGeneration
<1>8. EpochAgreement'
  BY <1>5 DEF EpochAgreement, SameGeneration
<1> QED
  BY <1>3, <1>4, <1>7, <1>8

(***************************************************************************)
(* A step that leaves the object alone preserves the invariant if what it  *)
(* leaves pending are steps of the State, and what it learns is the State. *)
(***************************************************************************)
LEMMA LocalPreserves ==
  ASSUME IInv, UNCHANGED state,
         op' \in [Nodes -> Calls],
         late' \subseteq States,
         PendingIsCurrent',
         known' \in [Nodes -> States \cup {None}],
         \A n \in Nodes : known'[n] = known[n] \/ known'[n] = state
  PROVE  IInv'
<1> USE DEF IInv
<1>1. TypeOK'
  BY DEF TypeOK
<1>2. state # None => state.epoch \in Nat
  BY DEF TypeOK, States, Agreement!States
<1>3. KnownIsPast'
  BY <1>2 DEF KnownIsPast, SameGeneration
<1>4. EpochAgreement'
  BY DEF EpochAgreement, KnownIsPast, SameGeneration
<1> QED
  BY <1>1, <1>3, <1>4

LEMMA InitInv == Init => IInv
<1> SUFFICES ASSUME Init PROVE IInv
  OBVIOUS
<1>1. TypeOK
  BY IdleIsCall DEF Init, TypeOK
<1>2. PendingIsCurrent
  BY DEF Init, PendingIsCurrent, Idle
<1> QED
  BY <1>1, <1>2 DEF Init, IInv, KnownIsPast, EpochAgreement

LEMMA NextInv == IInv /\ [Next]_vars => IInv'
<1> SUFFICES ASSUME IInv, [Next]_vars PROVE IInv'
  OBVIOUS
<1> USE DEF IInv
<1>0. /\ op \in [Nodes -> Calls] /\ known \in [Nodes -> States \cup {None}]
      /\ late \subseteq States /\ state \in States \cup {None}
  BY DEF TypeOK
<1>a. \A n \in Nodes : [op EXCEPT ![n] = Idle] \in [Nodes -> Calls]
  BY <1>0, IdleIsCall
<1>1. CASE LateLand
  <2>1. PICK s \in late : Put(s, op) /\ UNCHANGED known
    BY <1>1 DEF LateLand
  <2>2. s \in States /\ StepOf(state, s)
    BY <1>0 DEF PendingIsCurrent
  <2> QED
    BY <1>0, <2>1, <2>2, PutPreserves
<1>2. ASSUME NEW n \in Nodes, SeedCreate(n) PROVE IInv'
  <2>1. Agreement!Seeded(InitialCount[n]) \in States
    BY SeededType, ArbiterAssumption DEF Counts, Agreement!Counts
  <2> QED
    BY <1>0, <1>2, <2>1, PutPreserves DEF SeedCreate
<1>3. ASSUME NEW n \in Nodes, WriteAccepted(n) PROVE IInv'
  <2>1. StepOf(state, op[n].next) /\ op[n].next \in States
    BY <1>3 DEF WriteAccepted, PendingIsCurrent, StepOf
  <2> QED
    BY <1>0, <1>a, <1>3, <2>1, PutPreserves DEF WriteAccepted
<1>4. ASSUME NEW n \in Nodes, Read(n) PROVE IInv'
  BY <1>0, <1>4, LocalPreserves DEF Read, PendingIsCurrent
<1>5. ASSUME NEW n \in Nodes, RetargetCall(n) PROVE IInv'
  <2>1. PICK t \in Declared : op' = [op EXCEPT ![n] = Reading(1, t)]
    BY <1>5 DEF RetargetCall
  <2> DEFINE c == Reading(1, t)
  <2>2. c \in Calls /\ c.pc = "read"
    BY ReadingIsCall, ArbiterAssumption DEF Counts, Agreement!Counts
  <2> HIDE DEF c
  <2>3. op' = [op EXCEPT ![n] = c]
    BY <2>1 DEF c
  <2>4. PendingIsCurrent'
    BY <1>0, <1>5, <2>2, <2>3 DEF PendingIsCurrent, RetargetCall
  <2> QED
    BY <1>0, <1>5, <2>2, <2>3, <2>4, LocalPreserves DEF RetargetCall
<1>6. ASSUME NEW n \in Nodes, RetargetUnseeded(n) PROVE IInv'
  <2>1. PendingIsCurrent'
    BY <1>0, <1>6 DEF PendingIsCurrent, RetargetUnseeded, Idle
  <2> QED
    BY <1>0, <1>a, <1>6, <2>1, LocalPreserves DEF RetargetUnseeded
<1>7. ASSUME NEW n \in Nodes, RetargetAgreed(n) PROVE IInv'
  <2>1. PendingIsCurrent'
    BY <1>0, <1>7 DEF PendingIsCurrent, RetargetAgreed, Idle
  <2> QED
    BY <1>0, <1>a, <1>7, <2>1, LocalPreserves DEF RetargetAgreed
<1>8. ASSUME NEW n \in Nodes, RetargetRead(n) PROVE IInv'
  <2> DEFINE s == Agreement!Retargeted(state, op[n].target)
  <2>1. state \in States /\ op[n] \in Calls /\ op[n].target \in Counts
    BY <1>0, <1>8 DEF RetargetRead, Calls
  <2>2. s \in States /\ StepOf(state, s)
    BY <2>1, RetargetedType DEF StepOf
  <2> HIDE DEF s
  <2> DEFINE c == Writing("retarget", op[n].try, op[n].target, s)
  <2>3. c \in Calls /\ c.next = s
    BY <2>1, <2>2, WritingIsCall DEF Calls
  <2>4. op' = [op EXCEPT ![n] = c]
    BY <1>8 DEF RetargetRead, s
  <2> HIDE DEF c
  <2>5. PendingIsCurrent'
    BY <1>0, <1>8, <2>2, <2>3, <2>4 DEF PendingIsCurrent, RetargetRead
  <2> QED
    BY <1>0, <1>8, <2>3, <2>4, <2>5, LocalPreserves DEF RetargetRead
<1>9. ASSUME NEW n \in Nodes, RetargetRefused(n) PROVE IInv'
  <2> DEFINE c == IF op[n].try < RetargetAttempts
                  THEN Reading(op[n].try + 1, op[n].target) ELSE Idle
  <2>1. op[n] \in Calls /\ op[n].try + 1 \in Nat /\ op[n].target \in Counts
    BY <1>0 DEF Calls
  <2>2. c \in Calls /\ c.pc # "write"
    <3>1. Idle.pc # "write"
      BY DEF Idle
    <3> QED
      BY <2>1, <3>1, IdleIsCall, ReadingIsCall
  <2>3. op' = [op EXCEPT ![n] = c]
    BY <1>9 DEF RetargetRefused
  <2> HIDE DEF c
  <2>4. PendingIsCurrent'
    BY <1>0, <1>9, <2>2, <2>3 DEF PendingIsCurrent, RetargetRefused
  <2> QED
    BY <1>0, <1>9, <2>2, <2>3, <2>4, LocalPreserves DEF RetargetRefused
<1>10. ASSUME NEW n \in Nodes, AdvanceRead(n) PROVE IInv'
  <2> DEFINE s == Agreement!PlanNext(state)
  <2>1. state \in States
    BY <1>0, <1>10 DEF AdvanceRead
  <2>2. s \in States /\ StepOf(state, s)
    BY <1>10, <2>1, PlanNextType DEF StepOf, AdvanceRead
  <2> HIDE DEF s
  <2> DEFINE c == Writing("advance", 0, 0, s)
  <2>3. c \in Calls /\ c.next = s
    BY <2>2, ZeroIsCount, WritingIsCall
  <2>4. op' = [op EXCEPT ![n] = c]
    BY <1>10 DEF AdvanceRead, s
  <2> HIDE DEF c
  <2>5. PendingIsCurrent'
    BY <1>0, <1>10, <2>2, <2>3, <2>4 DEF PendingIsCurrent, AdvanceRead
  <2> QED
    BY <1>0, <1>10, <2>3, <2>4, <2>5, LocalPreserves DEF AdvanceRead
<1>11. ASSUME NEW n \in Nodes, AdvanceRefused(n) PROVE IInv'
  <2>1. PendingIsCurrent'
    BY <1>0, <1>11 DEF PendingIsCurrent, AdvanceRefused, Idle
  <2> QED
    BY <1>0, <1>a, <1>11, <2>1, LocalPreserves DEF AdvanceRefused
<1>12. ASSUME NEW n \in Nodes, CallFails(n) PROVE IInv'
  <2>1. op[n].next \in States /\ StepOf(state, op[n].next)
    BY <1>12 DEF CallFails, PendingIsCurrent, StepOf
  <2>2. PendingIsCurrent'
    BY <1>0, <1>12, <2>1 DEF PendingIsCurrent, CallFails, Idle
  <2> QED
    BY <1>0, <1>a, <1>12, <2>1, <2>2, LocalPreserves DEF CallFails
<1>13. CASE UNCHANGED vars
  BY <1>0, <1>13, LocalPreserves DEF vars, PendingIsCurrent
<1> QED
  BY <1>1, <1>2, <1>3, <1>4, <1>5, <1>6, <1>7, <1>8, <1>9, <1>10, <1>11, <1>12, <1>13
  DEF Next, Retarget, RetargetStep, Advance

(***************************************************************************)
(* The arbiter keeps its types, whatever races and times out.              *)
(***************************************************************************)
THEOREM TypeCorrect == Spec => []TypeOK
<1>1. Spec => []IInv
  BY InitInv, NextInv, PTL DEF Spec
<1>2. IInv => TypeOK
  BY DEF IInv
<1> QED
  BY <1>1, <1>2, PTL

(***************************************************************************)
(* Nodes told the same epoch were told the same count and plan (Advance,   *)
(* Retarget and Seed of arbiter.go, any number of nodes racing).           *)
(***************************************************************************)
THEOREM EpochsAgree == Spec => []EpochAgreement
<1>1. Spec => []IInv
  BY InitInv, NextInv, PTL DEF Spec
<1>2. IInv => EpochAgreement
  BY DEF IInv
<1> QED
  BY <1>1, <1>2, PTL

-----------------------------------------------------------------------------
LEMMA StepIsAbstract ==
  ASSUME NEW s, StepOf(state, s), state' = s PROVE Agreement!Next
<1>1. state # None
  BY ArbiterAssumption DEF StepOf
<1>2. CASE \E c \in Counts : s = Agreement!Retargeted(state, c)
  BY <1>1, <1>2 DEF Agreement!Next, Agreement!Retarget, Counts
<1>3. CASE Agreement!HasStep(state) /\ s = Agreement!PlanNext(state)
  BY <1>1, <1>3 DEF Agreement!Next, Agreement!Advance
<1> QED
  BY <1>2, <1>3 DEF StepOf

LEMMA NextIsAbstract == IInv /\ [Next]_vars => [Agreement!Next]_state
<1> SUFFICES ASSUME IInv, [Next]_vars PROVE [Agreement!Next]_state
  OBVIOUS
<1>1. CASE LateLand
  <2>1. PICK s \in late : state' = s
    BY <1>1 DEF LateLand, Put
  <2> QED
    BY <2>1, StepIsAbstract DEF IInv, PendingIsCurrent
<1>2. ASSUME NEW n \in Nodes, SeedCreate(n) PROVE [Agreement!Next]_state
  <2>1. state = None /\ state' = Agreement!Seeded(InitialCount[n])
    BY <1>2 DEF SeedCreate, Put
  <2>2. InitialCount[n] \in Agreement!Counts
    BY ArbiterAssumption DEF Agreement!Counts
  <2> QED
    BY <2>1, <2>2 DEF Agreement!Next, Agreement!Seed
<1>3. ASSUME NEW n \in Nodes, WriteAccepted(n) PROVE [Agreement!Next]_state
  <2>1. StepOf(state, op[n].next) /\ state' = op[n].next
    BY <1>3 DEF WriteAccepted, Put, IInv, PendingIsCurrent
  <2> QED
    BY <2>1, StepIsAbstract
<1>4. ASSUME NEW n \in Nodes, Read(n) \/ Retarget(n) \/ Advance(n) \/ CallFails(n)
      PROVE  UNCHANGED state
  BY <1>4
  DEF Read, Retarget, RetargetCall, RetargetStep, RetargetUnseeded, RetargetAgreed, RetargetRead,
      RetargetRefused, Advance, AdvanceRead, AdvanceRefused, CallFails
<1>5. CASE UNCHANGED vars
  BY <1>5 DEF vars
<1> QED
  BY <1>1, <1>2, <1>3, <1>4, <1>5 DEF Next

(***************************************************************************)
(* The arbiter implements ReshardAgreement: every change of the State      *)
(* object is a Seed, a Retarget or an Advance of the State it replaces,    *)
(* as if Seed, Retarget and Advance of arbiter.go ran one at a time.       *)
(***************************************************************************)
THEOREM Refinement == Spec => ImplementsAgreement
<1>1. Init => Agreement!Init
  BY DEF Init, Agreement!Init
<1>2. Spec => []IInv
  BY InitInv, NextInv, PTL DEF Spec
<1> QED
  BY <1>1, <1>2, NextIsAbstract, PTL DEF Spec, ImplementsAgreement, Agreement!Spec

=============================================================================
