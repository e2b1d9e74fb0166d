------------------------ MODULE MembershipDocument ------------------------
(***************************************************************************)
(* The membership document of pkg/coord/cas and the pure functions over    *)
(* it: the edits cas.go applies to a decoded document, and the             *)
(* observer-side lease judgement of internal/decide/expiry.go.             *)
(*                                                                         *)
(* A document is a function from member IDs to rows, None where the member *)
(* has no row (the JSON list is keyed by ID and sorted on encode, so the   *)
(* function loses nothing of it).  A row carries the incarnation nonce of  *)
(* the process that created it, its lease counter and its advertised       *)
(* roles.  A nonce is a pair: the process that minted it and how many it   *)
(* had minted, which is what makes it fresh.  The dial address and the     *)
(* declared unit count are fixed per process and change only together with *)
(* the nonce, so they are not recorded apart from it.                      *)
(***************************************************************************)
EXTENDS Naturals

CONSTANTS IDs,      \* stable member identities
          Procs,    \* processes; several may wear the same identity
          RoleBits, \* the role bits a row can advertise
          None      \* no row, no observation, no incarnation

ASSUME NoneAssumption ==
  /\ None \notin Procs
  /\ None \notin Procs \X Nat
  /\ None \notin [inc : Procs \X Nat, gen : Nat, roles : SUBSET RoleBits]
  /\ None \notin [inc : Procs \X Nat, gen : Nat, stale : Nat]

Incs == Procs \X Nat

Rows == [inc : Incs, gen : Nat \ {0}, roles : SUBSET RoleBits]

Documents == [IDs -> Rows \cup {None}]

EmptyDocument == [i \in IDs |-> None]

Members(d) == {i \in IDs : d[i] # None}

(***************************************************************************)
(* document.upsert: a row that replaces another advances past its counter. *)
(***************************************************************************)
Upsert(d, i, row) ==
  [d EXCEPT ![i] = IF d[i] # None /\ d[i].gen >= row.gen
                   THEN [row EXCEPT !.gen = d[i].gen + 1]
                   ELSE row]

Without(d, gone) == [i \in IDs |-> IF i \in gone THEN None ELSE d[i]]

(***************************************************************************)
(* decide.ExpireSilent: the observations recorded for the rows read, and   *)
(* the members they expire.  The count of unchanged passes saturates at k, *)
(* the only value it is ever compared with.                                *)
(***************************************************************************)
Observations == [inc : Incs, gen : Nat \ {0}, stale : Nat]

Unmoved(obs, row) == obs # None /\ obs.inc = row.inc /\ obs.gen = row.gen

Restarted(obs, row, k) == [inc |-> row.inc, gen |-> row.gen, stale |-> 0]

Judged(obs, row, k) ==
  IF Unmoved(obs, row)
  THEN [obs EXCEPT !.stale = IF @ < k THEN @ + 1 ELSE @]
  ELSE [inc |-> row.inc, gen |-> row.gen, stale |-> 0]

Tracked(prev, d, k, self) ==
  [i \in IDs |-> IF i = self \/ d[i] = None THEN None ELSE Judged(prev[i], d[i], k)]

Expired(obs, k) == {i \in IDs : obs[i] # None /\ obs[i].stale >= k}

(***************************************************************************)
(* The members observe() publishes: the rows not expired, self included    *)
(* with its desired roles when the document lacks its row.                 *)
(***************************************************************************)
LiveRows(d, gone, self, r) == {<<i, d[i].roles>> : i \in Members(d) \ gone}

LiveView(d, gone, self, r) ==
  {<<i, d[i].roles>> : i \in Members(d) \ gone}
    \cup (IF d[self] = None THEN {<<self, r>>} ELSE {})

InView(v, i) == \E m \in v : m[1] = i

=============================================================================
