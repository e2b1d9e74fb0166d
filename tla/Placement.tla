----------------------------- MODULE Placement -----------------------------
(***************************************************************************)
(* Hypothetical placement: Locate with an exclusion, the question the      *)
(* drain and the pending routes ask ("where would this unit live without   *)
(* these members?").  Both coordinators answer it over a ring rebuilt from *)
(* the members that remain, and keep the last such ring in a memo keyed by *)
(* the exclusion and the view epoch, shared by every caller.               *)
(*                                                                         *)
(* The CAS coordinator (pkg/coord/cas) swaps members and epoch in one      *)
(* snapshot, and a caller works from the snapshot it loaded.  The static   *)
(* one (internal/coordstatic) edits the ring in place, member by member,   *)
(* bumps the epoch when it is done, and a caller loads the epoch first and *)
(* reads the members later, under the memo's lock.                         *)
(*                                                                         *)
(* A ring is the set of its members: the consistent-hash library is        *)
(* external, and its answer is a function of that set (ring.go rebuilds    *)
(* the hash from scratch on every change).  `placed` and a call's `loaded` *)
(* and `basis` under the static one are history for the theorems.          *)
(***************************************************************************)
EXTENDS Integers

CONSTANTS Nodes, Callers, Adapter

Static == Adapter = "static"

VARIABLES
    members,    \* the current placement basis
    epoch,      \* the view epoch
    basis,      \* "edited": the static ring was edited and the epoch not yet bumped
    memo,       \* reduced, reducedKey, reducedEpoch
    call,       \* the Locate calls
    placed      \* the members published under each epoch (CAS)

vars == <<members, epoch, basis, memo, call, placed>>

NoMemo == [key |-> {}, epoch |-> 0, ring |-> {}]

(* A call: what it excludes, the epoch and the members it loaded, the ring *)
(* it was handed, and whether the static ring stands still since it began.  *)
NoCall == [pc |-> "idle", exclude |-> {}, epoch |-> 0, loaded |-> {}, ring |-> {}, basis |-> "edited"]

Init ==
    /\ members \in SUBSET Nodes /\ (Static \/ members = {})
    /\ epoch = 0 /\ basis = "still"
    /\ memo = NoMemo
    /\ call = [c \in Callers |-> NoCall]
    /\ placed = [e \in Nat |-> members]

(* The poll publishes view and ring as one snapshot with a new epoch, the  *)
(* members unchanged if only their roles moved.                            *)
Publish(S) ==
    /\ ~Static
    /\ members' = S /\ epoch' = epoch + 1
    /\ placed' = [placed EXCEPT ![epoch'] = S]
    /\ UNCHANGED <<basis, memo, call>>

Disturbed == [c \in Callers |-> [call[c] EXCEPT !.basis = "edited"]]

(* Ring.Remove, Ring.Add: one member at a time, under the ring's lock.     *)
Remove(n) ==
    /\ Static /\ n \in members
    /\ members' = members \ {n} /\ basis' = "edited"
    /\ call' = Disturbed
    /\ UNCHANGED <<epoch, memo, placed>>

Add(n) ==
    /\ Static
    /\ members' = members \cup {n} /\ basis' = "edited"
    /\ call' = Disturbed
    /\ UNCHANGED <<epoch, memo, placed>>

(* TestingSetMembers and TestingRemoveFromRing end by bumping the epoch.   *)
Bump ==
    /\ Static /\ basis = "edited"
    /\ epoch' = epoch + 1 /\ basis' = "still"
    /\ UNCHANGED <<members, memo, call, placed>>

(* Locate loads the snapshot (CAS, once there is one), or the epoch        *)
(* (static, in reducedRing).                                               *)
Locate(c, X) ==
    /\ call[c].pc = "idle"
    /\ Static \/ epoch > 0
    /\ call' = [call EXCEPT ![c] =
                  [NoCall EXCEPT !.pc = "reduce", !.exclude = X, !.epoch = epoch,
                                 !.loaded = members, !.basis = basis]]
    /\ UNCHANGED <<members, epoch, basis, memo, placed>>

Remaining(c) == (IF Static THEN members ELSE call[c].loaded) \ call[c].exclude

Hit(c) == memo # NoMemo /\ memo.key = call[c].exclude /\ memo.epoch = call[c].epoch

Rebuilt(c) == [key |-> call[c].exclude, epoch |-> call[c].epoch,
               ring |-> Remaining(c)]

(* reducedRing, under reducedMu: the memo, or a ring built and remembered. *)
reducedRing(c) ==
    /\ call[c].pc = "reduce"
    /\ LET reduced == IF Hit(c) THEN memo ELSE Rebuilt(c) IN
       /\ memo' = reduced
       /\ call' = [call EXCEPT ![c].pc = "located", ![c].ring = reduced.ring]
    /\ UNCHANGED <<members, epoch, basis, placed>>

Return(c) ==
    /\ call[c].pc = "located"
    /\ call' = [call EXCEPT ![c] = NoCall]
    /\ UNCHANGED <<members, epoch, basis, memo, placed>>

Next ==
    \/ \E S \in SUBSET Nodes : Publish(S)
    \/ \E n \in Nodes : Remove(n) \/ Add(n)
    \/ Bump
    \/ \E c \in Callers :
         \/ \E X \in SUBSET Nodes : X # {} /\ Locate(c, X)
         \/ reducedRing(c) \/ Return(c)

Spec == Init /\ [][Next]_vars

-----------------------------------------------------------------------------
CallType == [pc : {"idle", "reduce", "located"}, exclude : SUBSET Nodes, epoch : Nat,
             loaded : SUBSET Nodes, ring : SUBSET Nodes, basis : {"still", "edited"}]

TypeOK ==
    /\ members \in SUBSET Nodes /\ epoch \in Nat /\ basis \in {"still", "edited"}
    /\ memo \in [key : SUBSET Nodes, epoch : Nat, ring : SUBSET Nodes]
    /\ call \in [Callers -> CallType]
    /\ placed \in [Nat -> SUBSET Nodes]

(* A hypothetical placement under the CAS coordinator is exact for one     *)
(* published view: the ring a caller is handed, its own or one another     *)
(* caller left in the memo under an older or a newer view, holds the       *)
(* members of the snapshot it loaded without the excluded ones.            *)
CasExact ==
    ~Static => \A c \in Callers :
        call[c].pc = "located" => call[c].ring = call[c].loaded \ call[c].exclude

(* Under the static coordinator, a call during which the ring stands still *)
(* is answered over the present members without the excluded ones, however *)
(* lookups and earlier ring edits interleaved with the memo before it.     *)
StaticExact ==
    Static => \A c \in Callers :
        (call[c].pc = "located" /\ call[c].basis = "still") => call[c].ring = members \ call[c].exclude
=============================================================================
