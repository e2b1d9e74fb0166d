------------------------------ MODULE UnitMap ------------------------------
(***************************************************************************)
(* The arithmetic of storage units (pkg/storageunit: unit.go, unitmap.go,  *)
(* doubling.go): which unit a key's hash falls in, into which two units a  *)
(* unit splits when the count doubles, and which unit two of them merge    *)
(* into when it halves.  The resharder bisects every unit on its own and   *)
(* the routing layer maps a hash straight to a unit of the new count;      *)
(* RoutingProofs shows that the two agree, for every hash and every count. *)
(*                                                                         *)
(* NewUnitCount admits only powers of two.  There `hash & (N-1)` is        *)
(* `hash % N` and `(hash >> log2 N) & 1` is `(hash \div N) % 2`; in this   *)
(* arithmetic form the theorems hold for every positive N.                 *)
(***************************************************************************)
EXTENDS Integers

MaxUnitCount == 1073741824

UnitForHash(h, n) == h % n

SplitBit(h, n) == (h \div n) % 2

(* A count is doubled only if the result is still a legal one.             *)
Double(n) == {m \in {2 * n} : m <= MaxUnitCount}

ChildUnit(h, n) == UnitForHash(h, n) + SplitBit(h, n) * n

ChildUnits(k, n) == {k, k + n}

ParentUnit(c, cur) == c % (cur \div 2)

=============================================================================
