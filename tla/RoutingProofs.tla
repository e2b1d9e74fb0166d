--------------------------- MODULE RoutingProofs ---------------------------
(***************************************************************************)
(* Proofs about how a key finds its node, for every hash, count, number of *)
(* nodes and of callers: the unit a hash falls in while counts double and  *)
(* halve, the members a placement is computed over, and the generation and *)
(* count a joining node adopts.                                            *)
(*                                                                         *)
(* Each component is an instance of its module under its own name; no      *)
(* statement is about two of them.                                         *)
(***************************************************************************)
EXTENDS Integers, TLAPS

CONSTANTS Nodes, Callers, Adapter, Configured, Store

VARIABLES members, epoch, basis, memo, call, placed,
          marker, node, sizes, last, founders

Units == INSTANCE UnitMap
Place == INSTANCE Placement
Join == INSTANCE GenerationJoin

-----------------------------------------------------------------------------
(***************************************************************************)
(* Units.                                                                  *)
(***************************************************************************)
(* A number is its quotient and remainder, and they are the only ones.     *)
LEMMA Quotient ==
    ASSUME NEW h \in Nat, NEW n \in Nat \ {0}
    PROVE  /\ h \div n \in Nat
           /\ h % n \in 0..(n - 1)
           /\ h = n * (h \div n) + (h % n)
  BY SMT

LEMMA Remainder ==
    ASSUME NEW m \in Nat \ {0}, NEW q \in Nat, NEW r \in 0..(m - 1)
    PROVE  (m * q + r) % m = r
  BY SMT

(* Doubling is a bisection: the unit a hash maps to under 2N (the direct   *)
(* map of resolveGenUnit and of copyUnitInto) is the unit it had under N   *)
(* plus N exactly when the one new hash bit is set (ChildUnit).  Nothing   *)
(* is placed in a unit its old unit does not split into.                   *)
THEOREM DoublingBisects ==
    ASSUME NEW h \in Nat, NEW n \in Nat \ {0}
    PROVE  /\ Units!ChildUnit(h, n) = Units!UnitForHash(h, 2 * n)
           /\ Units!UnitForHash(h, 2 * n) \in Units!ChildUnits(Units!UnitForHash(h, n), n)
<1> DEFINE q == h \div n
           r == h % n
<1>1. q \in Nat /\ r \in 0..(n - 1) /\ h = n * q + r
  BY Quotient
<1>2. q \div 2 \in Nat /\ q % 2 \in 0..1 /\ q = 2 * (q \div 2) + (q % 2)
  BY <1>1
<1> DEFINE p == q \div 2
           b == q % 2
           s == r + b * n
<1>3. s \in 0..(2 * n - 1) /\ s \in {r, r + n}
  <2>1. CASE b = 0
    BY <1>1, <2>1
  <2>2. CASE b = 1
    BY <1>1, <2>2
  <2> QED
    BY <1>2, <2>1, <2>2
<1>4. h = (2 * n) * p + s
  <2> HIDE DEF q, r, p, b
  <2>1. h = n * (2 * p + b) + r
    BY <1>1, <1>2 DEF p, b
  <2>2. n \in Nat /\ p \in Nat /\ b \in Nat /\ r \in Nat
    BY <1>1, <1>2 DEF p, b
  <2> QED
    BY <2>1, <2>2, SMT
<1>5. h % (2 * n) = s
  <2> HIDE DEF s, p
  <2>1. 2 * n \in Nat \ {0} /\ p \in Nat /\ s \in 0..(2 * n - 1)
    BY <1>2, <1>3 DEF p
  <2> QED
    BY <1>4, <2>1, Remainder
<1> QED
  BY <1>3, <1>5 DEF Units!ChildUnit, Units!ChildUnits, Units!UnitForHash, Units!SplitBit

(* Halving undoes doubling: the two units a unit splits into, and only     *)
(* they, merge back into it (ParentUnit), so a merge gathers exactly the   *)
(* keys the split parted, and every unit of the larger count has a parent. *)
THEOREM HalvingUndoes ==
    ASSUME NEW n \in Nat \ {0}, NEW k \in 0..(n - 1), NEW c \in 0..(2 * n - 1)
    PROVE  /\ c \in Units!ChildUnits(k, n) <=> Units!ParentUnit(c, 2 * n) = k
           /\ Units!ParentUnit(c, 2 * n) \in 0..(n - 1)
<1>1. (2 * n) \div 2 = n
  OBVIOUS
<1>2. CASE c < n
  <2>1. c % n = c
    BY <1>2, SMT
  <2> QED
    BY <1>1, <1>2, <2>1 DEF Units!ParentUnit, Units!ChildUnits
<1>3. CASE c >= n
  <2>1. c = n * 1 + (c - n) /\ c - n \in 0..(n - 1)
    BY <1>3
  <2>2. (n * 1 + (c - n)) % n = c - n
    BY <2>1, Remainder
  <2>3. c % n = c - n
    BY <2>1, <2>2
  <2> QED
    BY <1>1, <1>3, <2>1, <2>3 DEF Units!ParentUnit, Units!ChildUnits
<1> QED
  BY <1>2, <1>3

(* Two units never split into the same one: bisecting a unit touches no    *)
(* database another unit's bisection writes, which is what lets the        *)
(* resharder cut the units over one at a time.                             *)
THEOREM SiblingsApart ==
    ASSUME NEW n \in Nat \ {0}, NEW j \in 0..(n - 1), NEW k \in 0..(n - 1), j # k
    PROVE  Units!ChildUnits(j, n) \cap Units!ChildUnits(k, n) = {}
  BY DEF Units!ChildUnits

(* K + N of a count that may be doubled stays far below the 32-bit limit   *)
(* of a UnitID.                                                            *)
THEOREM ChildFits ==
    ASSUME NEW h \in Nat, NEW n \in Nat \ {0}, Units!Double(n) # {}
    PROVE  Units!ChildUnit(h, n) < Units!MaxUnitCount
<1>1. h % n \in 0..(n - 1) /\ (h \div n) % 2 \in 0..1
  BY Quotient
<1>2. Units!ChildUnit(h, n) \in {h % n, (h % n) + n}
  BY <1>1 DEF Units!ChildUnit, Units!UnitForHash, Units!SplitBit
<1> QED
  BY <1>1, <1>2 DEF Units!Double, Units!MaxUnitCount

-----------------------------------------------------------------------------
(***************************************************************************)
(* Placements.                                                             *)
(***************************************************************************)
(* CAS: an epoch names one member set.  The memo and every call carry the  *)
(* epoch their members were published under, and no later publication      *)
(* reuses it.                                                              *)
CasInv ==
    ~Place!Static =>
        /\ placed[epoch] = members
        /\ memo # Place!NoMemo => /\ memo.epoch <= epoch
                            /\ memo.ring = placed[memo.epoch] \ memo.key
        /\ \A c \in Callers : call[c].pc # "idle" =>
             /\ call[c].epoch <= epoch
             /\ call[c].loaded = placed[call[c].epoch]
             /\ call[c].pc = "located" => call[c].ring = call[c].loaded \ call[c].exclude

(* Static: a memo of the current epoch was built from the ring as it now   *)
(* is, unless an edit is under way; such an edit ends with a new epoch,    *)
(* which no memo carries.                                                  *)
StaticInv ==
    Place!Static =>
        /\ memo.epoch <= epoch
        /\ (memo # Place!NoMemo /\ memo.epoch = epoch /\ basis = "still") => memo.ring = members \ memo.key
        /\ \A c \in Callers :
             /\ call[c].epoch <= epoch
             /\ (call[c].pc # "idle" /\ call[c].basis = "still") =>
                  /\ basis = "still" /\ call[c].epoch = epoch
                  /\ call[c].pc = "located" => call[c].ring = members \ call[c].exclude

(* Every reachable state is well typed.                                    *)
THEOREM PlaceTypeCorrect == Place!Spec => []Place!TypeOK
<1>1. Place!Init => Place!TypeOK
  <2> SUFFICES ASSUME Place!Init PROVE Place!TypeOK
    OBVIOUS
  <2>1. members \in SUBSET Nodes /\ epoch \in Nat /\ basis \in {"still", "edited"}
    BY DEF Place!Init
  <2>2. memo \in [key : SUBSET Nodes, epoch : Nat, ring : SUBSET Nodes]
    BY DEF Place!Init, Place!NoMemo
  <2>3. call \in [Callers -> Place!CallType]
    BY DEF Place!Init, Place!NoCall, Place!CallType
  <2>4. placed \in [Nat -> SUBSET Nodes]
    BY <2>1 DEF Place!Init
  <2> QED
    BY <2>1, <2>2, <2>3, <2>4 DEF Place!TypeOK
<1>2. Place!TypeOK /\ [Place!Next]_(Place!vars) => Place!TypeOK'
  <2> SUFFICES ASSUME Place!TypeOK, [Place!Next]_(Place!vars) PROVE Place!TypeOK'
    OBVIOUS
  <2> USE DEF Place!TypeOK
  <2>1. ASSUME NEW S \in SUBSET Nodes, Place!Publish(S) PROVE Place!TypeOK'
    <3>1. epoch' \in Nat /\ members' \in SUBSET Nodes
      BY <2>1 DEF Place!Publish
    <3>2. placed' \in [Nat -> SUBSET Nodes]
      BY <2>1, <3>1 DEF Place!Publish
    <3> QED
      BY <2>1, <3>1, <3>2 DEF Place!Publish
  <2>2. ASSUME NEW n \in Nodes, Place!Remove(n) \/ Place!Add(n) PROVE Place!TypeOK'
    <3>1. \A c \in Callers : [call[c] EXCEPT !.basis = "edited"] \in Place!CallType
      BY DEF Place!CallType
    <3>2. Place!Disturbed \in [Callers -> Place!CallType]
      BY <3>1 DEF Place!Disturbed
    <3> QED
      BY <2>2, <3>2 DEF Place!Remove, Place!Add
  <2>3. CASE Place!Bump
    BY <2>3 DEF Place!Bump
  <2>4. ASSUME NEW c \in Callers, NEW X \in SUBSET Nodes, Place!Locate(c, X) PROVE Place!TypeOK'
    <3> DEFINE new == [Place!NoCall EXCEPT !.pc = "reduce", !.exclude = X, !.epoch = epoch,
                                     !.loaded = members, !.basis = basis]
    <3>1. new \in Place!CallType
      BY DEF Place!NoCall, Place!CallType
    <3>2. call' = [call EXCEPT ![c] = new]
      BY <2>4 DEF Place!Locate
    <3> QED
      BY <2>4, <3>1, <3>2 DEF Place!Locate
  <2>5. ASSUME NEW c \in Callers, Place!reducedRing(c) PROVE Place!TypeOK'
    <3>1. Place!Rebuilt(c) \in [key : SUBSET Nodes, epoch : Nat, ring : SUBSET Nodes]
      BY DEF Place!Rebuilt, Place!Remaining, Place!CallType
    <3>2. memo' \in [key : SUBSET Nodes, epoch : Nat, ring : SUBSET Nodes]
      BY <2>5, <3>1 DEF Place!reducedRing
    <3> DEFINE upd == [call[c] EXCEPT !.pc = "located", !.ring = memo'.ring]
    <3>3. call' = [call EXCEPT ![c] = upd]
      BY <2>5 DEF Place!reducedRing
    <3>4. memo'.ring \in SUBSET Nodes /\ call[c] \in Place!CallType
      BY <3>2
    <3>5. upd \in Place!CallType
      BY <3>4 DEF Place!CallType
    <3>6. call' \in [Callers -> Place!CallType]
      BY <3>3, <3>5
    <3> QED
      BY <2>5, <3>2, <3>6 DEF Place!reducedRing
  <2>6. ASSUME NEW c \in Callers, Place!Return(c) PROVE Place!TypeOK'
    BY <2>6 DEF Place!Return, Place!NoCall, Place!CallType
  <2>7. CASE UNCHANGED Place!vars
    BY <2>7 DEF Place!vars
  <2> QED
    BY <2>1, <2>2, <2>3, <2>4, <2>5, <2>6, <2>7 DEF Place!Next
<1> QED
  BY <1>1, <1>2, PTL DEF Place!Spec

(* Locate under the CAS coordinator is exact (CasExact).                   *)
THEOREM CasLocates == Place!Spec => []Place!CasExact
<1>1. Place!Init => CasInv
  BY DEF Place!Init, CasInv, Place!NoMemo, Place!NoCall
<1>2. Place!TypeOK /\ CasInv /\ [Place!Next]_(Place!vars) => CasInv'
  <2> SUFFICES ASSUME Place!TypeOK, CasInv, [Place!Next]_(Place!vars), ~Place!Static PROVE CasInv'
    BY DEF CasInv, Place!Static
  <2> USE DEF Place!TypeOK, Place!CallType, CasInv
  <2>1. ASSUME NEW S \in SUBSET Nodes, Place!Publish(S) PROVE CasInv'
    <3>1. \A e \in Nat : e <= epoch => placed'[e] = placed[e]
      BY <2>1 DEF Place!Publish
    <3>2. placed'[epoch'] = members'
      BY <2>1 DEF Place!Publish
    <3> QED
      BY <2>1, <3>1, <3>2 DEF Place!Publish
  <2>2. CASE (\E n \in Nodes : Place!Remove(n) \/ Place!Add(n)) \/ Place!Bump
    BY <2>2 DEF Place!Remove, Place!Add, Place!Bump
  <2>3. ASSUME NEW c \in Callers, NEW X \in SUBSET Nodes, Place!Locate(c, X) PROVE CasInv'
    BY <2>3 DEF Place!Locate, Place!NoCall
  <2>4. ASSUME NEW c \in Callers, Place!reducedRing(c) PROVE CasInv'
    BY <2>4 DEF Place!reducedRing, Place!Hit, Place!Rebuilt, Place!Remaining
  <2>5. ASSUME NEW c \in Callers, Place!Return(c) PROVE CasInv'
    BY <2>5 DEF Place!Return, Place!NoCall
  <2>6. CASE UNCHANGED Place!vars
    BY <2>6 DEF Place!vars
  <2> QED
    BY <2>1, <2>2, <2>3, <2>4, <2>5, <2>6 DEF Place!Next
<1>3. CasInv => Place!CasExact
  BY DEF CasInv, Place!CasExact
<1> QED
  BY <1>1, <1>2, <1>3, PlaceTypeCorrect, PTL DEF Place!Spec

(* Locate under the static coordinator is exact while its ring stands      *)
(* still (StaticExact).                                                    *)
THEOREM StaticLocates == Place!Spec => []Place!StaticExact
<1>1. Place!Init => StaticInv
  BY DEF Place!Init, StaticInv, Place!NoMemo, Place!NoCall
<1>2. Place!TypeOK /\ StaticInv /\ [Place!Next]_(Place!vars) => StaticInv'
  <2> SUFFICES ASSUME Place!TypeOK, StaticInv, [Place!Next]_(Place!vars), Place!Static PROVE StaticInv'
    BY DEF StaticInv, Place!Static
  <2> USE DEF Place!TypeOK, Place!CallType, StaticInv
  <2>1. ASSUME NEW n \in Nodes, Place!Remove(n) \/ Place!Add(n) PROVE StaticInv'
    BY <2>1 DEF Place!Remove, Place!Add, Place!Disturbed
  <2>2. CASE Place!Bump
    BY <2>2 DEF Place!Bump
  <2>3. ASSUME NEW c \in Callers, NEW X \in SUBSET Nodes, Place!Locate(c, X) PROVE StaticInv'
    BY <2>3 DEF Place!Locate, Place!NoCall
  <2>4. ASSUME NEW c \in Callers, Place!reducedRing(c) PROVE StaticInv'
    BY <2>4 DEF Place!reducedRing, Place!Hit, Place!Rebuilt, Place!Remaining
  <2>5. ASSUME NEW c \in Callers, Place!Return(c) PROVE StaticInv'
    BY <2>5 DEF Place!Return, Place!NoCall
  <2>6. CASE (\E S \in SUBSET Nodes : Place!Publish(S)) \/ UNCHANGED Place!vars
    BY <2>6 DEF Place!Publish, Place!vars
  <2> QED
    BY <2>1, <2>2, <2>3, <2>4, <2>5, <2>6 DEF Place!Next
<1>3. StaticInv => Place!StaticExact
  BY DEF StaticInv, Place!StaticExact
<1> QED
  BY <1>1, <1>2, <1>3, PlaceTypeCorrect, PTL DEF Place!Spec

-----------------------------------------------------------------------------
(***************************************************************************)
(* Joining.                                                                *)
(***************************************************************************)
Counts == Nat \cup {Configured[n] : n \in Nodes}

JoinNodeStates ==
  [pc : {"down", "absent", "defer", "answered", "serving", "failed"}, gen : Nat,
   count : Counts, next : {"none", "moving", "marked"}]

JoinTypeOK ==
  /\ marker = <<>> \/ \E r \in [gen : Nat, count : Counts] : marker = <<r>>
  /\ node \in [Nodes -> JoinNodeStates]
  /\ sizes \in [Nat -> Counts]
  /\ last \in Int /\ last >= -1
  /\ founders \subseteq Nodes

\* The founding happens once and is what writes the marker.
Founded ==
  /\ (founders = {}) <=> (last = -1)
  /\ Join!OneFounder
  /\ Store = "marker" => ((founders = {}) <=> (marker = <<>>))
  /\ Store # "marker" => marker = <<>>

MarkerAgreed ==
  marker # <<>> => marker[1].gen <= last /\ marker[1].count = sizes[marker[1].gen]

\* What a node has learnt, whether it serves by it yet or not; and how far the
\* marker is ahead of it.
Learnt(n) ==
  /\ node[n].pc \in {"defer", "answered", "serving"} =>
       node[n].gen <= last /\ node[n].count = sizes[node[n].gen]
  /\ node[n].pc \in {"absent", "defer"} => Store = "marker"
  /\ node[n].pc = "answered" => Store # "marker"
  /\ node[n].pc \in {"down", "absent"} => node[n].gen = 0 /\ node[n].count = Configured[n]
  /\ (Store = "marker" /\ node[n].pc \in {"defer", "serving"}) =>
       marker # <<>> /\ node[n].gen <= marker[1].gen
  /\ node[n].next # "none" => node[n].pc = "serving" /\ node[n].gen < last
  /\ (Store = "marker" /\ node[n].next = "marked") => node[n].gen + 1 <= marker[1].gen

JoinInv == JoinTypeOK /\ Founded /\ MarkerAgreed /\ \A n \in Nodes : Learnt(n)

-----------------------------------------------------------------------------
LEMMA MarkerIs ==
  ASSUME JoinTypeOK, marker # <<>>
  PROVE  marker[1] \in [gen : Nat, count : Counts] /\ marker = <<marker[1]>>
BY DEF JoinTypeOK

\* A step that leaves the founding, the marker and the agreement alone, and one
\* node in a state that is still in order.
LEMMA OneNodeMoves ==
  ASSUME JoinInv, NEW n \in Nodes, NEW s \in JoinNodeStates,
         node' = [node EXCEPT ![n] = s],
         UNCHANGED <<marker, sizes, last, founders>>,
         Learnt(n)'
  PROVE  JoinInv'
<1>1. JoinTypeOK'
  BY DEF JoinInv, JoinTypeOK
<1>2. Founded' /\ MarkerAgreed'
  BY DEF JoinInv, Founded, Join!OneFounder, MarkerAgreed
<1>3. ASSUME NEW m \in Nodes PROVE Learnt(m)'
  <2>1. CASE m = n
    BY <2>1
  <2>2. CASE m # n
    <3>1. node'[m] = node[m]
      BY <2>2 DEF JoinInv, JoinTypeOK
    <3> QED
      BY <3>1 DEF JoinInv, Learnt
  <2> QED
    BY <2>1, <2>2
<1> QED
  BY <1>1, <1>2, <1>3 DEF JoinInv

\* The founding: nobody serves, has learnt or is resharding before it.
LEMMA FoundingKeeps ==
  ASSUME JoinInv, NEW n \in Nodes, Join!Founds(n), founders = {},
         node[n].pc \in {"down", "absent"},
         \/ Store = "marker" /\ marker' = <<Join!Record(0, Configured[n])>>
         \/ Store # "marker" /\ marker' = marker
  PROVE  JoinInv'
<1>0. /\ last = -1 /\ node \in [Nodes -> JoinNodeStates] /\ node[n] \in JoinNodeStates
      /\ node[n].gen = 0 /\ node[n].count = Configured[n] /\ node[n].next = "none"
  BY DEF JoinInv, JoinTypeOK, Founded, Learnt, JoinNodeStates
<1>1. node' = [node EXCEPT ![n] = [node[n] EXCEPT !.pc = "serving"]]
  BY DEF Join!Founds, Join!At
<1>2. [node[n] EXCEPT !.pc = "serving"] \in JoinNodeStates
  BY <1>0 DEF JoinNodeStates
<1>3. /\ founders' = {n} /\ last' = 0 /\ sizes' = [sizes EXCEPT ![0] = Configured[n]]
      /\ sizes \in [Nat -> Counts] /\ sizes'[0] = Configured[n] /\ Configured[n] \in Counts
  BY DEF Join!Founds, JoinInv, JoinTypeOK, Counts
<1>4. marker' = <<>> \/ (marker' = <<Join!Record(0, Configured[n])>> /\ Store = "marker")
  BY DEF JoinInv, Founded
<1>5. Join!Record(0, Configured[n]) \in [gen : Nat, count : Counts]
  BY <1>3 DEF Join!Record
<1>6. JoinTypeOK'
  BY <1>0, <1>1, <1>2, <1>3, <1>4, <1>5 DEF JoinTypeOK
<1>7. Founded'
  <2>1. Store = "marker" => marker' # <<>>
    BY <1>4
  <2>2. Store # "marker" => marker' = <<>>
    BY <1>4
  <2> QED
    BY <1>3, <2>1, <2>2 DEF Founded, Join!OneFounder
<1>8. MarkerAgreed'
  BY <1>3, <1>4 DEF MarkerAgreed, Join!Record
<1>9. ASSUME NEW m \in Nodes PROVE Learnt(m)'
  <2>1. CASE m = n
    <3>1. node'[n] = [node[n] EXCEPT !.pc = "serving"]
      BY <1>0, <1>1
    <3>2. node'[n].pc = "serving" /\ node'[n].gen = 0 /\ node'[n].count = Configured[n]
          /\ node'[n].next = "none"
      BY <1>0, <3>1 DEF JoinNodeStates
    <3>3. Store = "marker" => marker' = <<Join!Record(0, Configured[n])>> /\ marker' # <<>>
                              /\ marker'[1].gen = 0
      BY DEF Join!Record
    <3> QED
      BY <1>3, <2>1, <3>2, <3>3 DEF Learnt
  <2>2. CASE m # n
    <3>1. node'[m] = node[m] /\ node[m] \in JoinNodeStates
      BY <1>0, <1>1, <2>2
    <3>2. node[m].pc \notin {"defer", "answered", "serving"} /\ node[m].next = "none"
      BY <1>0 DEF JoinInv, Learnt, JoinNodeStates
    <3>3. node[m].pc \in {"absent", "defer"} => Store = "marker"
      BY DEF JoinInv, Learnt
    <3>4. node[m].pc \in {"down", "absent"} => node[m].gen = 0 /\ node[m].count = Configured[m]
      BY DEF JoinInv, Learnt
    <3> QED
      BY <3>1, <3>2, <3>3, <3>4 DEF Learnt
  <2> QED
    BY <2>1, <2>2
<1> QED
  BY <1>6, <1>7, <1>8, <1>9 DEF JoinInv

-----------------------------------------------------------------------------
LEMMA InitHolds == Join!Init => JoinInv
<1> SUFFICES ASSUME Join!Init PROVE JoinInv
  OBVIOUS
<1>1. \A n \in Nodes : Join!Down(n) \in JoinNodeStates /\ node[n] = Join!Down(n)
  BY DEF Join!Init, Join!Down, JoinNodeStates, Counts
<1>2. JoinTypeOK
  <2>1. node \in [Nodes -> JoinNodeStates]
    BY <1>1 DEF Join!Init
  <2>2. sizes \in [Nat -> Counts]
    BY DEF Join!Init, Counts
  <2> QED
    BY <2>1, <2>2 DEF Join!Init, JoinTypeOK
<1>3. Founded /\ MarkerAgreed
  BY DEF Join!Init, Founded, Join!OneFounder, MarkerAgreed
<1>4. ASSUME NEW n \in Nodes PROVE Learnt(n)
  <2>1. /\ node[n].pc = "down" /\ node[n].gen = 0 /\ node[n].count = Configured[n]
        /\ node[n].next = "none"
    BY DEF Join!Init, Join!Down
  <2> QED
    BY <2>1 DEF Learnt
<1> QED
  BY <1>2, <1>3, <1>4 DEF JoinInv

\* The agreement grows at its end: what was learnt of it stays true.
LEMMA AgreeKeeps ==
  ASSUME JoinInv, NEW c \in Nat, Join!Agree(c)
  PROVE  JoinInv'
<1>1. /\ last \in Nat /\ last' = last + 1 /\ sizes \in [Nat -> Counts] /\ c \in Counts
      /\ sizes' = [sizes EXCEPT ![last + 1] = c]
      /\ UNCHANGED <<marker, node, founders>>
  BY DEF Join!Agree, JoinInv, JoinTypeOK, Counts
<1>2. \A g \in Nat : g <= last => sizes'[g] = sizes[g]
  BY <1>1
<1>3. JoinTypeOK'
  BY <1>1 DEF JoinInv, JoinTypeOK
<1>4. Founded'
  BY <1>1 DEF JoinInv, Founded, Join!OneFounder
<1>5. MarkerAgreed'
  BY <1>1, <1>2, MarkerIs DEF JoinInv, MarkerAgreed
<1>6. ASSUME NEW n \in Nodes PROVE Learnt(n)'
  <2>1. node[n] \in JoinNodeStates /\ Learnt(n) /\ node[n].gen \in Nat
    BY DEF JoinInv, JoinTypeOK, JoinNodeStates
  <2> QED
    BY <1>1, <1>2, <2>1 DEF Learnt
<1> QED
  BY <1>3, <1>4, <1>5, <1>6 DEF JoinInv

\* The marker rises to a generation that was agreed on: nothing that was below
\* it is above it now.
LEMMA AdvanceKeeps ==
  ASSUME JoinInv, NEW n \in Nodes, Join!AdvanceMarker(n)
  PROVE  JoinInv'
<1> DEFINE s == [node[n] EXCEPT !.next = "marked"]
           g == node[n].gen + 1
<1>1. /\ node[n] \in JoinNodeStates /\ node \in [Nodes -> JoinNodeStates] /\ Learnt(n)
      /\ g \in Nat /\ g <= last /\ last \in Int /\ sizes \in [Nat -> Counts]
      /\ node[n].gen \in Nat /\ node[n].gen < last
  BY DEF JoinInv, JoinTypeOK, JoinNodeStates, Join!AdvanceMarker, Learnt
<1>2. /\ s \in JoinNodeStates /\ node' = [node EXCEPT ![n] = s] /\ node'[n] = s
      /\ s.pc = "serving" /\ s.gen = node[n].gen /\ s.count = node[n].count /\ s.next = "marked"
  BY <1>1 DEF Join!AdvanceMarker, JoinNodeStates
<1>3. /\ marker' = Join!Advanced(g) /\ UNCHANGED <<sizes, last, founders>>
  BY DEF Join!AdvanceMarker
<1>4. Join!Record(g, sizes[g]) \in [gen : Nat, count : Counts]
      /\ Join!Record(g, sizes[g]).gen = g /\ Join!Record(g, sizes[g]).count = sizes[g]
  BY <1>1 DEF Join!Record
<1>5. CASE marker = <<>>
  <2>1. marker' = marker
    BY <1>3, <1>5 DEF Join!Advanced
  <2>2. Store # "marker"
    BY <1>5 DEF JoinInv, Learnt, Join!AdvanceMarker
  <2>3. JoinTypeOK'
    BY <1>1, <1>2, <1>3, <2>1 DEF JoinInv, JoinTypeOK
  <2>4. Founded' /\ MarkerAgreed'
    BY <1>3, <2>1 DEF JoinInv, Founded, Join!OneFounder, MarkerAgreed
  <2>5. ASSUME NEW m \in Nodes PROVE Learnt(m)'
    <3>1. CASE m = n
      <4>1. sizes' = sizes /\ last' = last /\ node[n].gen < last
        BY <1>1, <1>3
      <4>2. node[n].gen <= last /\ node[n].count = sizes[node[n].gen]
        BY <1>1, <4>1 DEF Learnt, Join!AdvanceMarker
      <4> HIDE DEF s, g
      <4> QED
        BY <1>2, <2>2, <3>1, <4>1, <4>2 DEF Learnt
    <3>2. CASE m # n
      <4>1. node'[m] = node[m]
        BY <1>1, <1>2, <3>2
      <4> QED
        BY <1>3, <2>1, <4>1 DEF JoinInv, Learnt
    <3> QED
      BY <3>1, <3>2
  <2> QED
    BY <2>3, <2>4, <2>5 DEF JoinInv
<1>6. CASE marker # <<>>
  <2>1. marker[1] \in [gen : Nat, count : Counts] /\ marker = <<marker[1]>>
    BY <1>6, MarkerIs DEF JoinInv
  <2>2. \/ marker[1].gen < g /\ marker' = <<Join!Record(g, sizes[g])>>
        \/ ~(marker[1].gen < g) /\ marker' = marker
    BY <1>3, <1>6 DEF Join!Advanced
  <2>3. /\ marker' # <<>> /\ marker' = <<marker'[1]>>
        /\ marker'[1] \in [gen : Nat, count : Counts]
        /\ marker[1].gen <= marker'[1].gen /\ g <= marker'[1].gen
        /\ marker'[1].gen <= last /\ marker'[1].count = sizes[marker'[1].gen]
    <3>1. CASE marker[1].gen < g /\ marker' = <<Join!Record(g, sizes[g])>>
      BY <1>1, <1>4, <2>1, <3>1
    <3>2. CASE ~(marker[1].gen < g) /\ marker' = marker
      BY <1>1, <1>6, <2>1, <3>2 DEF JoinInv, MarkerAgreed
    <3> QED
      BY <2>2, <3>1, <3>2
  <2>4. JoinTypeOK'
    BY <1>1, <1>2, <1>3, <2>3 DEF JoinInv, JoinTypeOK
  <2>5. Founded'
    BY <1>3, <1>6, <2>3 DEF JoinInv, Founded, Join!OneFounder
  <2>6. MarkerAgreed'
    BY <1>3, <2>3 DEF MarkerAgreed
  <2>7. ASSUME NEW m \in Nodes PROVE Learnt(m)'
    <3>1. CASE m = n
      <4>1. sizes' = sizes /\ last' = last /\ node[n].gen < last
        BY <1>1, <1>3
      <4>2. /\ node[n].gen <= last /\ node[n].count = sizes[node[n].gen]
            /\ node[n].gen <= marker'[1].gen /\ node[n].gen + 1 <= marker'[1].gen
        BY <1>1, <2>3, <4>1 DEF Learnt, Join!AdvanceMarker, JoinNodeStates
      <4> HIDE DEF s, g
      <4> QED
        BY <1>2, <2>3, <3>1, <4>1, <4>2 DEF Learnt
    <3>2. CASE m # n
      <4>1. node'[m] = node[m] /\ node[m] \in JoinNodeStates /\ Learnt(m) /\ node[m].gen \in Nat
        BY <1>1, <1>2, <3>2 DEF JoinInv, JoinNodeStates
      <4>2. marker[1].gen \in Nat /\ marker'[1].gen \in Nat
        BY <2>1, <2>3
      <4> QED
        BY <1>3, <2>3, <4>1, <4>2 DEF Learnt
    <3> QED
      BY <3>1, <3>2
  <2> QED
    BY <2>4, <2>5, <2>6, <2>7 DEF JoinInv
<1> QED
  BY <1>5, <1>6

-----------------------------------------------------------------------------
LEMMA StepKeeps == JoinInv /\ [Join!Next]_(Join!vars) => JoinInv'
<1> SUFFICES ASSUME JoinInv, [Join!Next]_(Join!vars) PROVE JoinInv'
  OBVIOUS
<1>1. CASE UNCHANGED Join!vars
  <2>1. JoinTypeOK' /\ Founded' /\ MarkerAgreed'
    BY <1>1 DEF Join!vars, JoinInv, JoinTypeOK, Founded, Join!OneFounder, MarkerAgreed
  <2>2. \A n \in Nodes : Learnt(n)'
    BY <1>1 DEF Join!vars, JoinInv, Learnt
  <2> QED
    BY <2>1, <2>2 DEF JoinInv
<1>2. ASSUME NEW c \in Nat, Join!Agree(c) PROVE JoinInv'
  BY <1>2, AgreeKeeps
<1>3. ASSUME NEW n \in Nodes, Join!AdvanceMarker(n) PROVE JoinInv'
  BY <1>3, AdvanceKeeps
<1>4. ASSUME NEW n \in Nodes, Join!Found(n) PROVE JoinInv'
  <2>1. founders = {} /\ Store = "marker"
    BY <1>4 DEF Join!Found, JoinInv, Founded, Learnt
  <2> QED
    BY <1>4, <2>1, FoundingKeeps DEF Join!Found
<1>5. ASSUME NEW n \in Nodes, Join!Form(n) PROVE JoinInv'
  BY <1>5, FoundingKeeps DEF Join!Form
<1>6. ASSUME NEW n \in Nodes,
             \/ Join!Outrun(n) \/ Join!Adopt(n) \/ Join!Believe(n) \/ Join!Fail(n)
             \/ Join!ReadMarker(n) /\ marker = <<>>
      PROVE  JoinInv'
  <2>1. PICK pc \in {"absent", "down", "serving", "failed"} :
          /\ Join!At(n, pc)
          /\ UNCHANGED <<marker, sizes, last, founders>>
          /\ pc = "serving" => node[n].pc \in {"defer", "answered"}
          /\ pc = "absent" => node[n].pc = "down" /\ Store = "marker"
          /\ pc = "down" => node[n].pc = "absent"
    BY <1>6 DEF Join!Outrun, Join!Adopt, Join!Believe, Join!Fail, Join!ReadMarker
  <2> DEFINE s == [node[n] EXCEPT !.pc = pc]
  <2>2. node[n] \in JoinNodeStates /\ node \in [Nodes -> JoinNodeStates] /\ Learnt(n)
    BY DEF JoinInv, JoinTypeOK
  <2>3. /\ s \in JoinNodeStates /\ s.pc = pc /\ s.gen = node[n].gen /\ s.count = node[n].count
        /\ s.next = node[n].next
    BY <2>2 DEF JoinNodeStates
  <2>4. node' = [node EXCEPT ![n] = s] /\ node'[n] = s
    BY <2>1, <2>2 DEF Join!At
  <2>5. node[n].next = "none"
    BY <1>6, <2>2 DEF Learnt, Join!Outrun, Join!Adopt, Join!Believe, Join!Fail, Join!ReadMarker
  <2>6. Learnt(n)'
    <3> HIDE DEF s
    <3>1. CASE pc = "serving"
      BY <2>1, <2>2, <2>3, <2>4, <2>5, <3>1 DEF Learnt
    <3>2. CASE pc \in {"absent", "down", "failed"}
      BY <2>1, <2>2, <2>3, <2>4, <2>5, <3>2 DEF Learnt
    <3> QED
      BY <3>1, <3>2
  <2> QED
    BY <2>1, <2>3, <2>4, <2>6, OneNodeMoves
<1>7. ASSUME NEW n \in Nodes, Join!Reread(n) \/ (Join!ReadMarker(n) /\ marker # <<>>)
      PROVE  JoinInv'
  <2> DEFINE s == [node[n] EXCEPT !.pc = "defer", !.gen = marker[1].gen, !.count = marker[1].count]
  <2>1. node[n] \in JoinNodeStates /\ node \in [Nodes -> JoinNodeStates] /\ Learnt(n)
    BY DEF JoinInv, JoinTypeOK
  <2>2. marker # <<>> /\ Store = "marker" /\ node[n].next = "none"
    BY <1>7, <2>1 DEF Join!Reread, Join!ReadMarker, Learnt
  <2>3. /\ marker[1] \in [gen : Nat, count : Counts] /\ marker[1].gen <= last
        /\ marker[1].count = sizes[marker[1].gen]
    BY <2>2, MarkerIs DEF JoinInv, MarkerAgreed
  <2>4. /\ s \in JoinNodeStates /\ s.pc = "defer" /\ s.gen = marker[1].gen
        /\ s.count = marker[1].count /\ s.next = "none"
    BY <2>1, <2>2, <2>3 DEF JoinNodeStates
  <2>5. /\ node' = [node EXCEPT ![n] = s] /\ node'[n] = s
        /\ UNCHANGED <<marker, sizes, last, founders>>
    BY <1>7, <2>1 DEF Join!Reread, Join!ReadMarker, Join!Learns
  <2>6. Learnt(n)'
    <3> HIDE DEF s
    <3> QED
      BY <2>2, <2>3, <2>4, <2>5 DEF Learnt
  <2> QED
    BY <2>4, <2>5, <2>6, OneNodeMoves
<1>8. ASSUME NEW n \in Nodes, Join!Ask(n) PROVE JoinInv'
  <2>1. PICK t \in Nodes : /\ node[t].pc = "serving"
                           /\ Join!Learns(n, "answered", node[t])
    BY <1>8 DEF Join!Ask, Join!Seeds
  <2> DEFINE s == [node[n] EXCEPT !.pc = "answered", !.gen = node[t].gen, !.count = node[t].count]
  <2>2. /\ node[n] \in JoinNodeStates /\ node \in [Nodes -> JoinNodeStates] /\ Learnt(n)
        /\ node[t] \in JoinNodeStates /\ Learnt(t)
    BY DEF JoinInv, JoinTypeOK
  <2>3. node[n].next = "none" /\ Store # "marker"
    BY <1>8, <2>2 DEF Join!Ask, Learnt
  <2>4. /\ s \in JoinNodeStates /\ s.pc = "answered" /\ s.gen = node[t].gen
        /\ s.count = node[t].count /\ s.next = "none"
    BY <2>2, <2>3 DEF JoinNodeStates
  <2>5. /\ node' = [node EXCEPT ![n] = s] /\ node'[n] = s
        /\ UNCHANGED <<marker, sizes, last, founders>>
    BY <1>8, <2>1, <2>2 DEF Join!Ask, Join!Learns
  <2>6. node[t].gen <= last /\ node[t].count = sizes[node[t].gen]
    BY <2>1, <2>2 DEF Learnt
  <2>7. Learnt(n)'
    <3> HIDE DEF s
    <3> QED
      BY <2>3, <2>4, <2>5, <2>6 DEF Learnt
  <2> QED
    BY <2>4, <2>5, <2>7, OneNodeMoves
<1>9. ASSUME NEW n \in Nodes, Join!Enter(n) \/ Join!Defer(n) PROVE JoinInv'
  <2> DEFINE s == [node[n] EXCEPT !.next = "moving"]
  <2>1. node[n] \in JoinNodeStates /\ node \in [Nodes -> JoinNodeStates] /\ Learnt(n)
    BY DEF JoinInv, JoinTypeOK
  <2>2. node[n].pc = "serving" /\ node[n].gen < last
    BY <1>9, <2>1 DEF Join!Enter, Join!Defer, Learnt
  <2>3. /\ s \in JoinNodeStates /\ s.pc = "serving" /\ s.gen = node[n].gen
        /\ s.count = node[n].count /\ s.next = "moving"
    BY <2>1, <2>2 DEF JoinNodeStates
  <2>4. /\ node' = [node EXCEPT ![n] = s] /\ node'[n] = s
        /\ UNCHANGED <<marker, sizes, last, founders>>
    BY <1>9, <2>1 DEF Join!Enter, Join!Defer
  <2>5. Learnt(n)'
    <3> HIDE DEF s
    <3> QED
      BY <2>1, <2>2, <2>3, <2>4 DEF Learnt
  <2> QED
    BY <2>3, <2>4, <2>5, OneNodeMoves
<1>10. ASSUME NEW n \in Nodes, Join!CommitGeneration(n) PROVE JoinInv'
  <2> DEFINE g == node[n].gen + 1
             s == [pc |-> "serving", gen |-> g, count |-> sizes[g], next |-> "none"]
  <2>1. /\ node[n] \in JoinNodeStates /\ node \in [Nodes -> JoinNodeStates] /\ Learnt(n)
        /\ sizes \in [Nat -> Counts] /\ last \in Int
    BY DEF JoinInv, JoinTypeOK
  <2>2. /\ g \in Nat /\ g <= last
        /\ Store = "marker" => marker # <<>> /\ g <= marker[1].gen
    BY <1>10, <2>1 DEF Join!CommitGeneration, Learnt, JoinNodeStates
  <2>3. /\ s \in JoinNodeStates /\ s.pc = "serving" /\ s.gen = g /\ s.count = sizes[g]
        /\ s.next = "none"
    BY <2>1, <2>2 DEF JoinNodeStates
  <2>4. /\ node' = [node EXCEPT ![n] = s] /\ node'[n] = s
        /\ UNCHANGED <<marker, sizes, last, founders>>
    BY <1>10, <2>1 DEF Join!CommitGeneration
  <2>5. Learnt(n)'
    <3> HIDE DEF s, g
    <3> QED
      BY <2>2, <2>3, <2>4 DEF Learnt
  <2> QED
    BY <2>3, <2>4, <2>5, OneNodeMoves
<1>11. ASSUME NEW n \in Nodes, Join!Restart(n) PROVE JoinInv'
  <2>1. /\ Join!Down(n) \in JoinNodeStates /\ Join!Down(n).pc = "down" /\ Join!Down(n).gen = 0
        /\ Join!Down(n).count = Configured[n] /\ Join!Down(n).next = "none"
    BY DEF Join!Down, JoinNodeStates, Counts
  <2>2. /\ node' = [node EXCEPT ![n] = Join!Down(n)] /\ node'[n] = Join!Down(n)
        /\ UNCHANGED <<marker, sizes, last, founders>>
    BY <1>11 DEF Join!Restart, JoinInv, JoinTypeOK
  <2>3. Learnt(n)'
    BY <2>1, <2>2 DEF Learnt
  <2> QED
    BY <2>1, <2>2, <2>3, OneNodeMoves
<1> QED
  BY <1>1, <1>2, <1>3, <1>4, <1>5, <1>6, <1>7, <1>8, <1>9, <1>10, <1>11 DEF Join!Next

\* What a node serves at was learnt, what is learnt was agreed on, and the
\* marker is written before the generation is committed (finalizeReshard).
THEOREM JoinInductive == Join!Spec => []JoinInv
<1> QED
  BY InitHolds, StepKeeps, PTL DEF Join!Spec

\* bootstrapViaMarker's conditional put lets one contender found the cluster,
\* whatever the number of nodes that open at the same time.
THEOREM FoundedOnce == Join!Spec => []Join!OneFounder
<1>1. JoinInv => Join!OneFounder
  BY DEF JoinInv, Founded
<1> QED
  BY <1>1, JoinInductive, PTL

\* A node serves only at a generation and count the cluster agreed on, by
\* whichever path of Open, reshard or restart it came there.
THEOREM OnlyAgreed == Join!Spec => []Join!ServesAgreed
<1>1. JoinInv => Join!ServesAgreed
  BY DEF JoinInv, Learnt, Join!ServesAgreed
<1> QED
  BY <1>1, JoinInductive, PTL

\* With a conditional store, no node serves a generation above the marker's:
\* finalizeReshard writes the marker before it commits.
THEOREM MarkerCovers == Join!Spec => []Join!ServedIsDurable
<1>1. JoinInv => Join!ServedIsDurable
  BY DEF JoinInv, Learnt, Join!ServedIsDurable
<1> QED
  BY <1>1, JoinInductive, PTL

\* advanceClusterInitMarker never lowers, erases or rewrites a generation's
\* record, however late or often a node calls it.
THEOREM MarkerOnlyRises == Join!Spec => Join!MarkerAscends
<1> DEFINE Rises ==
      marker # <<>> =>
        marker' = marker \/ (marker' # <<>> /\ marker[1].gen < marker'[1].gen)
<1>1. JoinInv /\ [Join!Next]_(Join!vars) => [Rises]_(Join!vars)
  <2> SUFFICES ASSUME JoinInv, Join!Next, marker # <<>>, marker' # marker
               PROVE  marker' # <<>> /\ marker[1].gen < marker'[1].gen
    OBVIOUS
  <2>1. PICK n \in Nodes : Join!AdvanceMarker(n)
    BY DEF Join!Next, Join!ReadMarker, Join!Found, Join!Outrun, Join!Reread, Join!Adopt, Join!Form, Join!Ask, Join!Believe, Join!Fail, Join!Enter,
           Join!Defer, Join!CommitGeneration, Join!Restart, Join!Agree
  <2>2. /\ marker[1].gen < node[n].gen + 1
        /\ marker' = <<Join!Record(node[n].gen + 1, sizes[node[n].gen + 1])>>
    BY <2>1 DEF Join!AdvanceMarker, Join!Advanced
  <2> QED
    BY <2>2 DEF Join!Record
<1> QED
  BY <1>1, JoinInductive, PTL DEF Join!Spec, Join!MarkerAscends

=============================================================================
