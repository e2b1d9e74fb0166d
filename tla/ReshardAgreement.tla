------------------------- MODULE ReshardAgreement -------------------------
(***************************************************************************)
(* What the reshard arbiter promises (pkg/reshard): one agreed State that  *)
(* is seeded once and then changes only by whole, serial steps, each a     *)
(* pure function of the State before it.                                   *)
(*                                                                         *)
(* A UnitCount is a power of two up to 2^30 (pkg/storageunit/unit.go); it  *)
(* is represented here by its exponent, so Double and Halve are + 1 and    *)
(* - 1 and the order is the same.                                          *)
(***************************************************************************)
EXTENDS Naturals

CONSTANTS MaxShift, \* exponent of the largest legal unit count, 30 in the code
          None      \* the State object does not exist yet

Counts == 0 .. MaxShift

States ==
  [epoch : Nat, count : Counts, target : Counts, plan : {"none", "split", "merge"}]

VARIABLE state

Seeded(c) == [epoch |-> 0, count |-> c, target |-> c, plan |-> "none"]

Retargeted(s, t) == [epoch |-> s.epoch, count |-> s.count, target |-> t, plan |-> s.plan]

(***************************************************************************)
(* planNext: one generation toward the target.  A count cannot leave its   *)
(* range on the way to a target inside it, so the two error returns of     *)
(* Double and Halve do not arise.                                          *)
(***************************************************************************)
HasStep(s) == s.target # s.count

PlanNext(s) ==
  IF s.target > s.count
  THEN [epoch |-> s.epoch + 1, count |-> s.count + 1, target |-> s.target, plan |-> "split"]
  ELSE [epoch |-> s.epoch + 1, count |-> s.count - 1, target |-> s.target, plan |-> "merge"]

-----------------------------------------------------------------------------
Init == state = None

Seed == state = None /\ \E c \in Counts : state' = Seeded(c)

Retarget == state # None /\ \E t \in Counts : state' = Retargeted(state, t)

Advance == state # None /\ HasStep(state) /\ state' = PlanNext(state)

Next == Seed \/ Retarget \/ Advance

Spec == Init /\ [][Next]_state
=============================================================================
