------------------------- MODULE MCCasCoordinator -------------------------
(***************************************************************************)
(* Small instances of CasCoordinator: a1 and a2 are two processes wearing  *)
(* the identity a, a2 started after a1; b1 wears the identity b.           *)
(***************************************************************************)
EXTENDS CasCoordinator

CONSTANTS a, b, a1, a2, b1, joining

TwoWearOneID == [p \in Procs |-> IF p = b1 THEN b ELSE a]

SecondReplacesFirst == [p \in Procs |-> IF p = a2 THEN a1 ELSE None]

\* a2 replaces a1, which leaves; b1 expires the silent ones.
Replaced == [attempts |-> 2, expiry |-> 2, gens |-> 2, incs |-> 2, lates |-> 0,
             started |-> {a1, a2, b1}, renewing |-> {a1, a2, b1}, polling |-> {b1},
             callers |-> {}, crashing |-> {}, leaving |-> {a1}]

\* Store calls time out, a1 crashes, b1 leaves and expires a1.
Faulty == [Replaced EXCEPT !.expiry = 1, !.gens = 3, !.lates = 1,
                           !.started = {a1, b1}, !.renewing = {a1, b1},
                           !.polling = {b1}, !.crashing = {a1}, !.leaving = {b1}]

\* The same, where each expires the other, over shorter leases.
Mutual == [Faulty EXCEPT !.gens = 2, !.polling = {a1, b1}]

\* Roles change while a2 replaces a1 and both renew.
Roled == [Replaced EXCEPT !.renewing = {a1, a2}, !.polling = {}, !.callers = {a1},
                          !.leaving = {}]

SafetyConfigs == {Replaced, Faulty, Mutual, Roled}

\* Two calls of SetRole race the renewals of a1, which may crash; no retries.
LivenessConfigs ==
  {[Faulty EXCEPT !.attempts = 1, !.lates = 0, !.renewing = {a1}, !.polling = {b1},
                  !.callers = {a1}, !.leaving = {}]}

=============================================================================
