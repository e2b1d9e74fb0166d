--------------------------- MODULE StorageProofs ---------------------------
(***************************************************************************)
(* Proofs about the storage engines, for any keys, values, transactions    *)
(* and nodes: the in-memory and the local-disk engine implement LocalStore,*)
(* and slate's serving marker orders the owners of a position.             *)
(*                                                                         *)
(* Each component is an instance of its module under its own name.         *)
(* Variables of one name are declared once; no statement is about two of   *)
(* the components.                                                         *)
(***************************************************************************)
EXTENDS Integers, Sequences, TLAPS

\* Most leaves are first-order: Zenon finds them fast.  The others name SMT.
USE Zenon

CONSTANTS Keys, Values, Txs, Nodes

VARIABLES data, open, snapshot, batch, status, writes, deletes, got,
          durable, marker, node, late, served, overlapped

Mem == INSTANCE MemoryStore
Peb == INSTANCE PebbleStore
Slate == INSTANCE SlateMarker

-----------------------------------------------------------------------------
(***************************************************************************)
(* The in-memory engine.                                                   *)
(***************************************************************************)
MemTypeOK ==
    /\ data \in [Keys -> Mem!Cells]
    /\ writes \in [Txs -> [Keys -> Mem!Cells]]
    /\ deletes \in [Txs -> SUBSET Keys]
    /\ status \in [Txs -> {"idle", "live", "done"}]
    /\ got \in [Txs -> [Keys -> Mem!Cells]]

MemInv == MemTypeOK /\ Mem!Disjoint

(* The invariant is inductive: it holds in every reachable state.          *)
THEOREM MemInductive == Mem!Spec => []MemInv
<1>1. Mem!Init => MemInv
  BY SMT DEF Mem!Init, MemInv, MemTypeOK, Mem!Disjoint, Mem!Empty, Mem!Cells, Mem!Absent
<1>2. MemInv /\ [Mem!Next]_(Mem!vars) => MemInv'
  <2> SUFFICES ASSUME MemInv, [Mem!Next]_(Mem!vars) PROVE MemInv'
    OBVIOUS
  <2> USE DEF MemInv, MemTypeOK, Mem!Disjoint
  <2>1. CASE Mem!Close \/ UNCHANGED Mem!vars
    BY <2>1 DEF Mem!Close, Mem!vars
  <2>2. ASSUME NEW k \in Keys, Mem!Delete(k) PROVE MemInv'
    BY <2>2 DEF Mem!Delete, Mem!Cells
  <2>3. ASSUME NEW k \in Keys, NEW v \in Values, Mem!Put(k, v) PROVE MemInv'
    BY <2>3 DEF Mem!Put, Mem!Cells
  <2>4. ASSUME NEW t \in Txs, Mem!Begin(t) \/ Mem!Rollback(t) PROVE MemInv'
    BY <2>4 DEF Mem!Begin, Mem!Rollback
  <2>5. ASSUME NEW t \in Txs, Mem!Commit(t) PROVE MemInv'
    BY <2>5, SMT DEF Mem!Commit, Mem!Copied, Mem!Cells
  <2>6. ASSUME NEW t \in Txs, NEW k \in Keys, Mem!TxDelete(t, k) PROVE MemInv'
    BY <2>6 DEF Mem!TxDelete, Mem!Cells
  <2>7. ASSUME NEW t \in Txs, NEW k \in Keys, NEW v \in Values, Mem!TxPut(t, k, v) PROVE MemInv'
    BY <2>7 DEF Mem!TxPut, Mem!Cells
  <2>8. ASSUME NEW t \in Txs, NEW k \in Keys, Mem!TxGet(t, k) PROVE MemInv'
    BY <2>8 DEF Mem!TxGet, Mem!Get, Mem!Cells
  <2>9. ASSUME NEW t \in Txs, NEW P \in SUBSET Keys, Mem!TxScan(t, P) PROVE MemInv'
    BY <2>9 DEF Mem!TxScan, Mem!Kept, Mem!New, Mem!Pairs, Mem!Cells
  <2> QED
    BY <2>1, <2>2, <2>3, <2>4, <2>5, <2>6, <2>7, <2>8, <2>9 DEF Mem!Next
<1> QED
  BY <1>1, <1>2, PTL DEF Mem!Spec

-----------------------------------------------------------------------------
MemBuffer == [t \in Txs |-> [k \in Keys |-> Mem!Entry(t, k)]]

(* The buffer LocalStore sees, read over what is below it, is what Get's   *)
(* lookups find.                                                           *)
LEMMA MemSeenIs ==
    ASSUME MemInv, NEW t \in Txs, NEW k \in Keys
    PROVE  /\ Mem!Store!Seen(t, k) = IF k \in deletes[t] THEN Mem!Absent
                                ELSE IF writes[t][k] # Mem!Absent THEN writes[t][k] ELSE data[k]
           /\ MemBuffer[t][k] = <<>> <=> k \notin deletes[t] /\ writes[t][k] = Mem!Absent
  BY DEF Mem!Store!Seen, Mem!Store!Below, MemBuffer, Mem!Entry, Mem!Absent

(* MemoryStore implements LocalStore under read-committed isolation: a     *)
(* transaction reads its own writes over the present state, a scan lists   *)
(* exactly what gets would find, and Commit is atomic and stores what the  *)
(* transaction read back, in whatever order keys were put and deleted.     *)
THEOREM MemRefinement == Mem!Spec => Mem!Store!Spec
<1>1. Mem!Init => Mem!Store!Init
  <2> SUFFICES ASSUME Mem!Init PROVE Mem!Store!Init
    OBVIOUS
  <2>1. MemBuffer = [t \in Txs |-> Mem!Store!Untouched]
    BY DEF Mem!Init, MemBuffer, Mem!Entry, Mem!Store!Untouched, Mem!Empty, Mem!Absent
  <2> QED
    BY <2>1 DEF Mem!Init, Mem!Store!Init, Mem!Store!Empty, Mem!Store!Absent, Mem!Empty, Mem!Absent, MemBuffer
<1>2. MemInv /\ [Mem!Next]_(Mem!vars) => [Mem!Store!Next]_(Mem!Store!vars)
  <2> SUFFICES ASSUME MemInv, [Mem!Next]_(Mem!vars) PROVE [Mem!Store!Next]_(Mem!Store!vars)
    OBVIOUS
  <2> USE DEF MemInv, MemTypeOK
  <2>0. writes' = writes /\ deletes' = deletes => MemBuffer' = MemBuffer
    BY DEF MemBuffer, Mem!Entry
  <2>1. CASE Mem!Close
    BY <2>0, <2>1 DEF Mem!Close, Mem!Store!Next, Mem!Store!Close, MemBuffer
  <2>2. ASSUME NEW k \in Keys, Mem!Delete(k) PROVE Mem!Store!Next
    <3>1. Mem!Store!Write(k, Mem!Absent)
      BY <2>0, <2>2 DEF Mem!Delete, Mem!Store!Write, MemBuffer
    <3> QED
      BY <3>1 DEF Mem!Store!Next, Mem!Store!Cells, Mem!Store!Absent, Mem!Absent
  <2>3. ASSUME NEW k \in Keys, NEW v \in Values, Mem!Put(k, v) PROVE Mem!Store!Next
    <3>1. Mem!Store!Write(k, <<v>>)
      BY <2>0, <2>3 DEF Mem!Put, Mem!Store!Write, MemBuffer
    <3> QED
      BY <3>1 DEF Mem!Store!Next, Mem!Store!Cells
  <2>4. ASSUME NEW t \in Txs, Mem!Begin(t) PROVE Mem!Store!Next
    <3>1. Mem!Store!Begin(t)
      BY <2>0, <2>4 DEF Mem!Begin, Mem!Store!Begin, MemBuffer
    <3> QED
      BY <3>1 DEF Mem!Store!Next
  <2>5. ASSUME NEW t \in Txs, Mem!Rollback(t) PROVE Mem!Store!Next
    <3>1. Mem!Store!Rollback(t)
      BY <2>0, <2>5 DEF Mem!Rollback, Mem!Store!Rollback, MemBuffer
    <3> QED
      BY <3>1 DEF Mem!Store!Next
  <2>6. ASSUME NEW t \in Txs, Mem!Commit(t) PROVE Mem!Store!Next
    <3>1. Mem!Store!Applied(t) = [k \in Keys |-> IF k \in deletes[t] THEN Mem!Absent ELSE Mem!Copied(t)[k]]
      BY DEF Mem!Store!Applied, Mem!Copied, Mem!Entry, Mem!Absent
    <3>2. Mem!Store!Commit(t)
      BY <2>0, <2>6, <3>1 DEF Mem!Commit, Mem!Store!Commit, MemBuffer
    <3> QED
      BY <3>2 DEF Mem!Store!Next
  <2>7. ASSUME NEW t \in Txs, NEW k \in Keys, Mem!TxDelete(t, k) PROVE Mem!Store!Next
    <3>1. MemBuffer' = [MemBuffer EXCEPT ![t] = [@ EXCEPT ![k] = <<Mem!Absent>>]]
      BY <2>7 DEF Mem!TxDelete, MemBuffer, Mem!Entry
    <3>2. Mem!Store!TxWrite(t, k, Mem!Absent)
      BY <2>7, <3>1 DEF Mem!TxDelete, Mem!Store!TxWrite, MemBuffer
    <3> QED
      BY <3>2 DEF Mem!Store!Next, Mem!Store!Cells, Mem!Store!Absent, Mem!Absent
  <2>8. ASSUME NEW t \in Txs, NEW k \in Keys, NEW v \in Values, Mem!TxPut(t, k, v) PROVE Mem!Store!Next
    <3>1. MemBuffer' = [MemBuffer EXCEPT ![t] = [@ EXCEPT ![k] = <<<<v>>>>]]
      BY <2>8 DEF Mem!TxPut, MemBuffer, Mem!Entry, Mem!Absent
    <3>2. Mem!Store!TxWrite(t, k, <<v>>)
      BY <2>8, <3>1 DEF Mem!TxPut, Mem!Store!TxWrite, MemBuffer
    <3> QED
      BY <3>2 DEF Mem!Store!Next, Mem!Store!Cells
  <2>9. ASSUME NEW t \in Txs, NEW k \in Keys, Mem!TxGet(t, k) PROVE Mem!Store!Next
    <3>1. \A j \in Keys : (IF j \in {k} THEN Mem!Store!Seen(t, j) ELSE Mem!Absent) =
             IF j # k \/ k \in deletes[t] THEN Mem!Absent
             ELSE IF writes[t][k] # Mem!Absent THEN writes[t][k] ELSE data[k]
      BY MemSeenIs
    <3>2. open = "open" \/ \A j \in {k} : MemBuffer[t][j] # <<>>
      BY <2>9, MemSeenIs DEF Mem!TxGet
    <3>3. Mem!Store!Read(t, {k})
      BY <2>0, <2>9, <3>1, <3>2 DEF Mem!TxGet, Mem!Get, Mem!Store!Read, Mem!Store!Absent, Mem!Absent, MemBuffer
    <3> QED
      BY <3>3 DEF Mem!Store!Next
  <2>10. ASSUME NEW t \in Txs, NEW P \in SUBSET Keys, Mem!TxScan(t, P) PROVE Mem!Store!Next
    <3>1. \A k \in Keys : (IF k \in P THEN Mem!Store!Seen(t, k) ELSE Mem!Absent) =
             IF k \in Mem!Kept(t, P) /\ writes[t][k] = Mem!Absent THEN data[k]
             ELSE IF k \in Mem!Kept(t, P) \cup Mem!New(t, P) THEN writes[t][k] ELSE Mem!Absent
      BY MemSeenIs, SMT DEF Mem!Kept, Mem!New, Mem!Pairs, Mem!Disjoint
    <3>2. Mem!Store!Read(t, P)
      BY <2>0, <2>10, <3>1 DEF Mem!TxScan, Mem!Store!Read, Mem!Store!Absent, Mem!Absent, MemBuffer
    <3> QED
      BY <3>2 DEF Mem!Store!Next
  <2>11. CASE UNCHANGED Mem!vars
    BY <2>0, <2>11 DEF Mem!vars, Mem!Store!vars, MemBuffer
  <2> QED
    BY <2>1, <2>2, <2>3, <2>4, <2>5, <2>6, <2>7, <2>8, <2>9, <2>10, <2>11 DEF Mem!Next
<1> QED
  BY <1>1, <1>2, MemInductive, PTL DEF Mem!Spec, Mem!Store!Spec

-----------------------------------------------------------------------------
(***************************************************************************)
(* The local-disk engine.                                                  *)
(***************************************************************************)
PebTypeOK ==
    /\ data \in [Keys -> Peb!Cells]
    /\ snapshot \in [Txs -> [Keys -> Peb!Cells]]
    /\ batch \in [Txs -> [Keys -> {<<>>} \cup {<<c>> : c \in Peb!Cells}]]
    /\ writes \in [Txs -> [Keys -> Peb!Cells]]
    /\ deletes \in [Txs -> SUBSET Keys]
    /\ status \in [Txs -> {"idle", "live", "done"}]
    /\ got \in [Txs -> [Keys -> Peb!Cells]]

PebInv == PebTypeOK /\ Peb!OverlayIsBatch

(* The invariant is inductive: it holds in every reachable state.          *)
THEOREM PebInductive == Peb!Spec => []PebInv
<1>1. Peb!Init => PebInv
  BY SMT DEF Peb!Init, PebInv, PebTypeOK, Peb!OverlayIsBatch, Peb!Entry, Peb!Empty, Peb!Cells, Peb!Absent
<1>2. PebInv /\ [Peb!Next]_(Peb!vars) => PebInv'
  <2> SUFFICES ASSUME PebInv, [Peb!Next]_(Peb!vars) PROVE PebInv'
    OBVIOUS
  <2> USE DEF PebInv, PebTypeOK
  <2>0. (writes' = writes /\ deletes' = deletes /\ batch' = batch) => Peb!OverlayIsBatch'
    BY DEF Peb!Entry, Peb!OverlayIsBatch
  <2>1. CASE Peb!Close \/ UNCHANGED Peb!vars
    BY <2>0, <2>1 DEF Peb!Close, Peb!vars
  <2>2. ASSUME NEW k \in Keys, Peb!Delete(k) PROVE PebInv'
    BY <2>0, <2>2 DEF Peb!Delete, Peb!Cells
  <2>3. ASSUME NEW k \in Keys, NEW v \in Values, Peb!Put(k, v) PROVE PebInv'
    BY <2>0, <2>3 DEF Peb!Put, Peb!Cells
  <2>4. ASSUME NEW t \in Txs, Peb!Begin(t) \/ Peb!CommitFails(t) \/ Peb!Rollback(t) PROVE PebInv'
    <3>1. CASE Peb!Begin(t)
      BY <2>0, <3>1 DEF Peb!Begin
    <3>2. CASE Peb!CommitFails(t) \/ Peb!Rollback(t)
      BY <2>0, <3>2 DEF Peb!CommitFails, Peb!Rollback
    <3> QED
      BY <2>4, <3>1, <3>2
  <2>5. ASSUME NEW t \in Txs, Peb!Commit(t) PROVE PebInv'
    <3>1. \A k \in Keys : batch[t][k] # <<>> => batch[t][k][1] \in Peb!Cells
      BY SMT
    <3>2. data' \in [Keys -> Peb!Cells]
      BY <2>5, <3>1 DEF Peb!Commit
    <3> QED
      BY <2>0, <2>5, <3>2 DEF Peb!Commit
  <2>6. ASSUME NEW t \in Txs, NEW k \in Keys, Peb!TxDelete(t, k) PROVE PebInv'
    <3>1. PebTypeOK'
      BY <2>6 DEF Peb!TxDelete, Peb!Cells
    <3>2. Peb!OverlayIsBatch'
      BY <2>6, SMT DEF Peb!TxDelete, Peb!OverlayIsBatch, Peb!Entry, Peb!Absent
    <3> QED
      BY <3>1, <3>2
  <2>7. ASSUME NEW t \in Txs, NEW k \in Keys, NEW v \in Values, Peb!TxPut(t, k, v) PROVE PebInv'
    <3>1. PebTypeOK'
      BY <2>7 DEF Peb!TxPut, Peb!Cells
    <3>2. Peb!OverlayIsBatch'
      BY <2>7 DEF Peb!TxPut, Peb!OverlayIsBatch, Peb!Entry, Peb!Absent
    <3> QED
      BY <3>1, <3>2
  <2>8. ASSUME NEW t \in Txs, NEW k \in Keys, Peb!TxGet(t, k) PROVE PebInv'
    BY <2>0, <2>8 DEF Peb!TxGet, Peb!Cells
  <2>9. ASSUME NEW t \in Txs, NEW P \in SUBSET Keys, Peb!TxScan(t, P) PROVE PebInv'
    BY <2>0, <2>9 DEF Peb!TxScan, Peb!Dropped, Peb!Cells
  <2> QED
    BY <2>1, <2>2, <2>3, <2>4, <2>5, <2>6, <2>7, <2>8, <2>9 DEF Peb!Next
<1> QED
  BY <1>1, <1>2, PTL DEF Peb!Spec

-----------------------------------------------------------------------------
PebBuffer == [t \in Txs |-> [k \in Keys |-> Peb!Entry(t, k)]]

(* The buffer LocalStore sees, read over what is below it, is what Get's   *)
(* lookups find.                                                           *)
LEMMA PebSeenIs ==
    ASSUME PebInv, NEW t \in Txs, NEW k \in Keys
    PROVE  /\ Peb!Store!Seen(t, k) = IF k \in deletes[t] THEN Peb!Absent
                                ELSE IF writes[t][k] # Peb!Absent THEN writes[t][k] ELSE snapshot[t][k]
           /\ PebBuffer[t][k] = <<>> <=> k \notin deletes[t] /\ writes[t][k] = Peb!Absent
  BY DEF Peb!Store!Seen, Peb!Store!Below, PebBuffer, Peb!Entry, Peb!Absent

(* PebbleStore implements LocalStore under snapshot isolation: whatever is *)
(* written beside it, a transaction reads its own writes over the state at *)
(* Begin, a scan lists exactly what gets would find, and Commit applies,   *)
(* whole or not at all, what the transaction read back.                    *)
THEOREM PebRefinement == Peb!Spec => Peb!Store!Spec
<1>1. Peb!Init => Peb!Store!Init
  <2> SUFFICES ASSUME Peb!Init PROVE Peb!Store!Init
    OBVIOUS
  <2>1. PebBuffer = [t \in Txs |-> Peb!Store!Untouched]
    BY DEF Peb!Init, PebBuffer, Peb!Entry, Peb!Store!Untouched, Peb!Empty, Peb!Absent
  <2> QED
    BY <2>1 DEF Peb!Init, Peb!Store!Init, Peb!Store!Empty, Peb!Store!Absent, Peb!Empty, Peb!Absent, PebBuffer
<1>2. PebInv /\ [Peb!Next]_(Peb!vars) => [Peb!Store!Next]_(Peb!Store!vars)
  <2> SUFFICES ASSUME PebInv, [Peb!Next]_(Peb!vars) PROVE [Peb!Store!Next]_(Peb!Store!vars)
    OBVIOUS
  <2> USE DEF PebInv, PebTypeOK
  <2>0. writes' = writes /\ deletes' = deletes => PebBuffer' = PebBuffer
    BY DEF PebBuffer, Peb!Entry
  <2>1. CASE Peb!Close
    BY <2>0, <2>1 DEF Peb!Close, Peb!Store!Next, Peb!Store!Close, PebBuffer
  <2>2. ASSUME NEW k \in Keys, Peb!Delete(k) PROVE Peb!Store!Next
    <3>1. Peb!Store!Write(k, Peb!Absent)
      BY <2>0, <2>2 DEF Peb!Delete, Peb!Store!Write, PebBuffer
    <3> QED
      BY <3>1 DEF Peb!Store!Next, Peb!Store!Cells, Peb!Store!Absent, Peb!Absent
  <2>3. ASSUME NEW k \in Keys, NEW v \in Values, Peb!Put(k, v) PROVE Peb!Store!Next
    <3>1. Peb!Store!Write(k, <<v>>)
      BY <2>0, <2>3 DEF Peb!Put, Peb!Store!Write, PebBuffer
    <3> QED
      BY <3>1 DEF Peb!Store!Next, Peb!Store!Cells
  <2>4. ASSUME NEW t \in Txs, Peb!Begin(t) PROVE Peb!Store!Next
    <3>1. Peb!Store!Begin(t)
      BY <2>0, <2>4 DEF Peb!Begin, Peb!Store!Begin, PebBuffer
    <3> QED
      BY <3>1 DEF Peb!Store!Next
  <2>5. ASSUME NEW t \in Txs, Peb!CommitFails(t) \/ Peb!Rollback(t) PROVE Peb!Store!Next
    <3>1. Peb!Store!Rollback(t)
      BY <2>0, <2>5 DEF Peb!CommitFails, Peb!Rollback, Peb!Store!Rollback, PebBuffer
    <3> QED
      BY <3>1 DEF Peb!Store!Next
  <2>6. ASSUME NEW t \in Txs, Peb!Commit(t) PROVE Peb!Store!Next
    <3>1. Peb!Store!Applied(t) =
             [k \in Keys |-> IF batch[t][k] = <<>> THEN data[k] ELSE batch[t][k][1]]
      BY DEF Peb!Store!Applied, Peb!OverlayIsBatch
    <3>2. Peb!Store!Commit(t)
      BY <2>0, <2>6, <3>1 DEF Peb!Commit, Peb!Store!Commit, PebBuffer
    <3> QED
      BY <3>2 DEF Peb!Store!Next
  <2>7. ASSUME NEW t \in Txs, NEW k \in Keys, Peb!TxDelete(t, k) PROVE Peb!Store!Next
    <3>1. PebBuffer' = [PebBuffer EXCEPT ![t] = [@ EXCEPT ![k] = <<Peb!Absent>>]]
      BY <2>7 DEF Peb!TxDelete, PebBuffer, Peb!Entry
    <3>2. Peb!Store!TxWrite(t, k, Peb!Absent)
      BY <2>7, <3>1 DEF Peb!TxDelete, Peb!Store!TxWrite, PebBuffer
    <3> QED
      BY <3>2 DEF Peb!Store!Next, Peb!Store!Cells, Peb!Store!Absent, Peb!Absent
  <2>8. ASSUME NEW t \in Txs, NEW k \in Keys, NEW v \in Values, Peb!TxPut(t, k, v) PROVE Peb!Store!Next
    <3>1. PebBuffer' = [PebBuffer EXCEPT ![t] = [@ EXCEPT ![k] = <<<<v>>>>]]
      BY <2>8 DEF Peb!TxPut, PebBuffer, Peb!Entry, Peb!Absent
    <3>2. Peb!Store!TxWrite(t, k, <<v>>)
      BY <2>8, <3>1 DEF Peb!TxPut, Peb!Store!TxWrite, PebBuffer
    <3> QED
      BY <3>2 DEF Peb!Store!Next, Peb!Store!Cells
  <2>9. ASSUME NEW t \in Txs, NEW k \in Keys, Peb!TxGet(t, k) PROVE Peb!Store!Next
    <3>1. \A j \in Keys : (IF j \in {k} THEN Peb!Store!Seen(t, j) ELSE Peb!Absent) =
             IF j # k \/ k \in deletes[t] THEN Peb!Absent
             ELSE IF writes[t][k] # Peb!Absent THEN writes[t][k] ELSE snapshot[t][k]
      BY PebSeenIs
    <3>2. Peb!Store!Read(t, {k})
      BY <2>0, <2>9, <3>1 DEF Peb!TxGet, Peb!Store!Read, Peb!Store!Absent, Peb!Absent, PebBuffer
    <3> QED
      BY <3>2 DEF Peb!Store!Next
  <2>10. ASSUME NEW t \in Txs, NEW P \in SUBSET Keys, Peb!TxScan(t, P) PROVE Peb!Store!Next
    <3>1. \A k \in Keys : (IF k \in P THEN Peb!Store!Seen(t, k) ELSE Peb!Absent) =
             IF k \notin P THEN Peb!Absent
             ELSE IF writes[t][k] # Peb!Absent THEN writes[t][k] ELSE Peb!Dropped(t, P)[k]
      BY PebSeenIs DEF Peb!Dropped, Peb!OverlayIsBatch
    <3>2. Peb!Store!Read(t, P)
      BY <2>0, <2>10, <3>1 DEF Peb!TxScan, Peb!Store!Read, Peb!Store!Absent, Peb!Absent, PebBuffer
    <3> QED
      BY <3>2 DEF Peb!Store!Next
  <2>11. CASE UNCHANGED Peb!vars
    BY <2>0, <2>11 DEF Peb!vars, Peb!Store!vars, PebBuffer
  <2> QED
    BY <2>1, <2>2, <2>3, <2>4, <2>5, <2>6, <2>7, <2>8, <2>9, <2>10, <2>11 DEF Peb!Next
<1> QED
  BY <1>1, <1>2, PebInductive, PTL DEF Peb!Spec, Peb!Store!Spec

-----------------------------------------------------------------------------
(***************************************************************************)
(* Slate's serving marker.                                                 *)
(***************************************************************************)
Opens == [told : Nat, real : Nat]

NodeStates ==
  [pc : {"absent", "fenced", "open", "mounted", "putting", "owned", "draining", "released"},
   told : Nat, real : Nat]

SlateTypeOK ==
  /\ durable \in Nat /\ marker \in Nat
  /\ node \in [Nodes -> NodeStates]
  /\ late \subseteq Nat /\ served \subseteq Opens
  /\ overlapped \subseteq Nodes

Named(e) == \E s \in served : s.told = e

Below(told, real) ==
  /\ told <= real /\ real <= durable
  /\ overlapped = {} => told = real

ServedBelow == \A s \in served : Below(s.told, s.real)

MarkersNamed == (marker # 0 => Named(marker)) /\ \A e \in late : Named(e)

\* What each node was told, against the epoch in the manifest.
Placed(n) ==
  /\ Slate!At(n, "fenced") => node[n].told <= durable + 1 /\ (overlapped = {} => node[n].told = durable + 1)
  /\ ~Slate!At(n, "absent") /\ ~Slate!At(n, "fenced") => Below(node[n].told, node[n].real)
  /\ node[n].pc \in {"mounted", "putting", "owned", "draining", "released"} => Named(node[n].told)
  /\ Slate!At(n, "released") => \E s \in served : s.told > node[n].told

SlateInv == SlateTypeOK /\ ServedBelow /\ MarkersNamed /\ \A n \in Nodes : Placed(n)

\* A step that takes no epoch and moves one node to a state that is in order.
LEMMA OneNodeMoves ==
  ASSUME SlateInv, NEW n \in Nodes, NEW s \in NodeStates,
         node' = [node EXCEPT ![n] = s],
         UNCHANGED <<durable, served, overlapped>>,
         marker' \in {marker, node[n].told}, late' \subseteq late \cup {node[n].told},
         marker' # marker \/ ~(late' \subseteq late) => Named(node[n].told),
         Placed(n)'
  PROVE  SlateInv'
<1>1. SlateTypeOK'
  BY SMT DEF SlateInv, SlateTypeOK, NodeStates
<1>2. ServedBelow' /\ MarkersNamed'
  BY DEF SlateInv, ServedBelow, MarkersNamed, Below, Named
<1>3. ASSUME NEW m \in Nodes PROVE Placed(m)'
  <2>1. CASE m = n
    BY <2>1
  <2>2. CASE m # n
    <3>1. node'[m] = node[m]
      BY <2>2 DEF SlateInv, SlateTypeOK
    <3> QED
      BY <3>1 DEF SlateInv, Placed, Slate!At, Below, Named
  <2> QED
    BY <2>1, <2>2
<1> QED
  BY <1>1, <1>2, <1>3 DEF SlateInv

LEMMA SlateInit == Slate!Init => SlateInv
<1> SUFFICES ASSUME Slate!Init PROVE SlateInv
  OBVIOUS
<1>1. SlateTypeOK
  BY DEF Slate!Init, SlateTypeOK, NodeStates, Slate!Absent
<1>2. ServedBelow /\ MarkersNamed
  BY DEF Slate!Init, ServedBelow, MarkersNamed
<1>3. ASSUME NEW n \in Nodes PROVE Placed(n)
  BY DEF Slate!Init, Slate!Absent, Placed, Slate!At
<1> QED
  BY <1>1, <1>2, <1>3 DEF SlateInv

\* A build takes the next epoch; whoever has only read the old one is overlapped.
LEMMA BuildKeeps ==
  ASSUME SlateInv, NEW n \in Nodes, Slate!openSlateRef(n)
  PROVE  SlateInv'
<1> DEFINE s == [pc |-> "open", told |-> node[n].told, real |-> durable + 1]
<1>1. s \in NodeStates /\ node' = [node EXCEPT ![n] = s]
  BY SMT DEF SlateInv, SlateTypeOK, NodeStates, Slate!openSlateRef
<1>2. SlateTypeOK'
  BY <1>1, SMT DEF SlateInv, SlateTypeOK, Slate!openSlateRef
<1>3. ServedBelow'
  BY SMT DEF SlateInv, SlateTypeOK, Opens, ServedBelow, Below, Slate!openSlateRef
<1>4. MarkersNamed'
  BY DEF SlateInv, MarkersNamed, Named, Slate!openSlateRef
<1>5. ASSUME NEW m \in Nodes PROVE Placed(m)'
  <2>1. CASE m = n
    <3>1. node'[m] = s
      BY <1>1, <2>1 DEF SlateInv, SlateTypeOK
    <3>2. node[n].told \in Nat /\ durable \in Nat
      BY DEF SlateInv, SlateTypeOK, NodeStates
    <3>3. node[n].told <= durable + 1 /\ (overlapped = {} => node[n].told = durable + 1)
      BY DEF SlateInv, Placed, Slate!openSlateRef
    <3> QED
      BY <3>1, <3>2, <3>3, <2>1, SMT DEF Placed, Slate!At, Below, Slate!openSlateRef
  <2>2. CASE m # n
    <3>1. node'[m] = node[m] /\ node[m] \in NodeStates /\ durable \in Nat
      BY <1>1, <2>2 DEF SlateInv, SlateTypeOK
    <3>2. Slate!At(m, "fenced") => overlapped' # {}
      BY <2>2 DEF Slate!openSlateRef
    <3> QED
      BY <3>1, <3>2, SMT DEF SlateInv, NodeStates, Placed, Slate!At, Below, Named, Slate!openSlateRef
  <2> QED
    BY <2>1, <2>2
<1> QED
  BY <1>2, <1>3, <1>4, <1>5 DEF SlateInv

LEMMA LateBuildKeeps == SlateInv /\ Slate!LateBuild => SlateInv'
<1> SUFFICES ASSUME SlateInv, Slate!LateBuild PROVE SlateInv'
  OBVIOUS
<1>1. SlateTypeOK' /\ ServedBelow' /\ MarkersNamed'
  BY SMT DEF SlateInv, SlateTypeOK, Opens, ServedBelow, MarkersNamed, Named, Below, Slate!LateBuild
<1>2. ASSUME NEW m \in Nodes PROVE Placed(m)'
  BY SMT DEF SlateInv, SlateTypeOK, NodeStates, Placed, Slate!At, Below, Named, Slate!LateBuild
<1> QED
  BY <1>1, <1>2 DEF SlateInv

\* Every other step moves one node, which is then in order.
LEMMA StepKeeps ==
  ASSUME SlateInv, NEW n \in Nodes, Slate!Step(n)
  PROVE  SlateInv'
<1> DEFINE At2(p) == [pc |-> p, told |-> node[n].told, real |-> node[n].real]
<1>0. /\ node \in [Nodes -> NodeStates] /\ node[n] \in NodeStates /\ Placed(n)
      /\ durable \in Nat /\ marker \in Nat
  BY DEF SlateInv, SlateTypeOK
<1>t. ASSUME NEW p \in {"mounted", "putting", "owned", "draining", "released"}, Slate!Goes(n, p)
      PROVE  At2(p) \in NodeStates /\ node' = [node EXCEPT ![n] = At2(p)] /\ node'[n] = At2(p)
  <2>1. [node[n] EXCEPT !.pc = p] = At2(p) /\ At2(p) \in NodeStates
    BY <1>0, SMT DEF NodeStates
  <2>2. node' = [node EXCEPT ![n] = [node[n] EXCEPT !.pc = p]]
    BY <1>0, <1>t DEF Slate!Goes
  <2>3. node' = [node EXCEPT ![n] = At2(p)]
    BY <2>1, <2>2
  <2> QED
    BY <1>0, <2>1, <2>3
<1>a. Slate!Absent \in NodeStates
  BY DEF Slate!Absent, NodeStates
<1>1. CASE Slate!fenceEpochRef(n)
  <2> DEFINE f == [pc |-> "fenced", told |-> durable + 1, real |-> 0]
  <2>1. f \in NodeStates /\ node' = [node EXCEPT ![n] = f] /\ node'[n] = f
    BY <1>0, <1>1, SMT DEF Slate!fenceEpochRef, NodeStates
  <2>2. Placed(n)'
    BY <1>0, <1>1, <2>1, SMT DEF Slate!fenceEpochRef, Placed, Slate!At
  <2> QED
    BY <1>1, <2>1, <2>2, OneNodeMoves DEF Slate!fenceEpochRef
<1>2. CASE Slate!openSlateRef(n)
  BY <1>2, BuildKeeps
<1>3. CASE Slate!OpenFails(n)
  <2>1. Placed(n)'
    BY <1>0, <1>3 DEF Slate!OpenFails, Placed, Slate!At, Slate!Absent
  <2> QED
    BY <1>3, <1>a, <2>1, OneNodeMoves DEF Slate!OpenFails
<1>4. CASE Slate!mountServing(n)
  <2> DEFINE o == [told |-> node[n].told, real |-> node[n].real]
  <2>1. At2("mounted") \in NodeStates /\ node' = [node EXCEPT ![n] = At2("mounted")] /\ node'[n] = At2("mounted")
    BY <1>t, <1>4 DEF Slate!mountServing
  <2>2. o \in Opens /\ served' = served \cup {o} /\ Below(o.told, o.real)
    BY <1>0, <1>4 DEF Slate!mountServing, NodeStates, Opens, Placed, Slate!At
  <2>3. UNCHANGED <<durable, marker, late, overlapped>>
    BY <1>4 DEF Slate!mountServing
  <2>4. SlateTypeOK' /\ ServedBelow' /\ MarkersNamed'
    BY <2>1, <2>2, <2>3 DEF SlateInv, SlateTypeOK, ServedBelow, Below, MarkersNamed, Named
  <2>5. Placed(n)'
    BY <2>1, <2>2, <2>3, SMT DEF Placed, Slate!At, Below, Named
  <2>6. ASSUME NEW m \in Nodes, m # n PROVE Placed(m)'
    <3>1. node'[m] = node[m] /\ Placed(m)
      BY <1>0, <2>1, <2>6 DEF SlateInv
    <3> QED
      BY <3>1, <2>2, <2>3 DEF Placed, Slate!At, Below, Named
  <2> QED
    BY <2>4, <2>5, <2>6 DEF SlateInv
<1>5. CASE Slate!readServingMarker(n) \/ Slate!ReadFails(n)
  <2>1. PICK p \in {"putting", "owned"} : Slate!Goes(n, p)
    BY <1>5 DEF Slate!readServingMarker, Slate!ReadFails
  <2>2. At2(p) \in NodeStates /\ node' = [node EXCEPT ![n] = At2(p)] /\ node'[n] = At2(p)
    BY <1>t, <2>1
  <2>3. Slate!At(n, "mounted") /\ UNCHANGED <<durable, marker, late, served, overlapped>>
    BY <1>5 DEF Slate!readServingMarker, Slate!ReadFails
  <2>4. Placed(n)'
    BY <1>0, <2>2, <2>3 DEF Placed, Slate!At, Below, Named
  <2> QED
    BY <2>2, <2>3, <2>4, OneNodeMoves
<1>6. CASE Slate!PutObject(n) \/ Slate!PutFails(n)
  <2>1. /\ At2("owned") \in NodeStates /\ node' = [node EXCEPT ![n] = At2("owned")]
        /\ node'[n] = At2("owned")
    BY <1>t, <1>6 DEF Slate!PutObject, Slate!PutFails
  <2>2. /\ Slate!At(n, "putting") /\ UNCHANGED <<durable, served, overlapped>>
        /\ marker' \in {marker, node[n].told} /\ late' \subseteq late \cup {node[n].told}
    BY <1>6 DEF Slate!PutObject, Slate!PutFails
  <2>3. Placed(n)' /\ Named(node[n].told)
    BY <1>0, <2>1, <2>2 DEF Placed, Slate!At, Below, Named
  <2> QED
    BY <2>1, <2>2, <2>3, OneNodeMoves
<1>7. CASE Slate!beginDrain(n)
  <2>1. Slate!Goes(n, "draining")
    BY <1>7 DEF Slate!beginDrain, Slate!Goes
  <2>2. /\ At2("draining") \in NodeStates /\ node' = [node EXCEPT ![n] = At2("draining")]
        /\ node'[n] = At2("draining")
    BY <1>t, <2>1
  <2>3. /\ node[n].pc \in {"mounted", "putting", "owned"}
        /\ UNCHANGED <<durable, marker, served, overlapped>>
        /\ late' \subseteq late \cup {node[n].told}
    BY <1>7 DEF Slate!beginDrain
  <2>4. Placed(n)' /\ Named(node[n].told)
    BY <1>0, <2>2, <2>3 DEF Placed, Slate!At, Below, Named
  <2> QED
    BY <2>2, <2>3, <2>4, OneNodeMoves
<1>8. CASE Slate!drainCheck(n)
  <2>1. /\ At2("released") \in NodeStates /\ node' = [node EXCEPT ![n] = At2("released")]
        /\ node'[n] = At2("released")
    BY <1>t, <1>8 DEF Slate!drainCheck
  <2>2. Slate!At(n, "draining") /\ UNCHANGED <<durable, marker, late, served, overlapped>>
    BY <1>8 DEF Slate!drainCheck
  <2>3. \E s \in served : s.told > node[n].told
    <3>1. marker > node[n].told /\ node[n].told \in Nat
      BY <1>0, <1>8 DEF Slate!drainCheck, NodeStates
    <3>2. Named(marker)
      BY <1>0, <3>1, SMT DEF SlateInv, MarkersNamed
    <3> QED
      BY <3>1, <3>2 DEF Named
  <2>4. Placed(n)'
    BY <1>0, <2>1, <2>2, <2>3 DEF Placed, Slate!At, Below, Named
  <2> QED
    BY <2>1, <2>2, <2>4, OneNodeMoves
<1>9. CASE Slate!Gone(n)
  <2>1. node'[n] = Slate!Absent
    BY <1>0, <1>9 DEF Slate!Gone
  <2>2. Placed(n)'
    BY <2>1, SMT DEF Placed, Slate!At, Slate!Absent
  <2>3. ~(late' \subseteq late) => Named(node[n].told)
    BY <1>0, <1>9 DEF Slate!Gone, Placed, Slate!At
  <2>4. /\ UNCHANGED <<durable, marker, served, overlapped>>
        /\ late' \subseteq late \cup {node[n].told}
        /\ node' = [node EXCEPT ![n] = Slate!Absent]
    BY <1>9 DEF Slate!Gone
  <2> QED
    BY <1>a, <2>2, <2>3, <2>4, OneNodeMoves
<1> QED
  BY <1>1, <1>2, <1>3, <1>4, <1>5, <1>6, <1>7, <1>8, <1>9 DEF Slate!Step

\* IInv holds throughout: each action of the slate factory's open and marker keeps it.
THEOREM SlateInductive == Slate!Spec => []SlateInv
<1>1. SlateInv /\ [Slate!Next]_(Slate!vars) => SlateInv'
  <2> SUFFICES ASSUME SlateInv, [Slate!Next]_(Slate!vars) PROVE SlateInv'
    OBVIOUS
  <2>1. ASSUME NEW e \in late, Slate!LatePut(e) PROVE SlateInv'
    <3>1. SlateTypeOK' /\ ServedBelow' /\ MarkersNamed'
      BY <2>1 DEF SlateInv, SlateTypeOK, ServedBelow, MarkersNamed, Named, Below, Slate!LatePut
    <3>2. ASSUME NEW m \in Nodes PROVE Placed(m)'
      BY <2>1 DEF SlateInv, Placed, Slate!At, Below, Named, Slate!LatePut
    <3> QED
      BY <3>1, <3>2 DEF SlateInv
  <2>2. CASE UNCHANGED Slate!vars
    <3>1. SlateTypeOK' /\ ServedBelow' /\ MarkersNamed'
      BY <2>2 DEF SlateInv, SlateTypeOK, ServedBelow, MarkersNamed, Named, Below, Slate!vars
    <3>2. ASSUME NEW m \in Nodes PROVE Placed(m)'
      BY <2>2 DEF SlateInv, Placed, Slate!At, Below, Named, Slate!vars
    <3> QED
      BY <3>1, <3>2 DEF SlateInv
  <2> QED
    BY <2>1, <2>2, StepKeeps, LateBuildKeeps DEF Slate!Next
<1> QED
  BY <1>1, SlateInit, PTL DEF Slate!Spec

\* Whatever the order of the reads and the puts, the marker names only epochs that
\* were mounted, and a released drain had a successor mounted above it.
THEOREM ReleaseNeedsSuccessor == Slate!Spec => [](Slate!MarkerWasServed /\ Slate!ReleasedToSuccessor)
<1>1. SlateInv => Slate!MarkerWasServed /\ Slate!ReleasedToSuccessor
  BY DEF SlateInv, MarkersNamed, Named, Slate!MarkerWasServed, Placed, Slate!ReleasedToSuccessor
<1> QED
  BY <1>1, SlateInductive, PTL

\* Without overlapping opens a released drain was fenced by a later, mounted writer.
THEOREM ReleaseIsFenced == Slate!Spec => []Slate!ReleasedAfterFence
<1>1. SlateInv => Slate!ReleasedAfterFence
  <2> SUFFICES ASSUME SlateInv PROVE Slate!ReleasedAfterFence
    OBVIOUS
  <2>1. \A s \in served : s.told <= s.real /\ s.real <= durable
    BY DEF SlateInv, ServedBelow, Below
  <2>2. ASSUME overlapped = {}, NEW n \in Nodes, Slate!At(n, "released")
        PROVE  node[n].real < durable /\ \E s \in served : s.real > node[n].real
    <3>1. node[n].told = node[n].real /\ node[n] \in NodeStates /\ durable \in Nat
      BY <2>2 DEF SlateInv, SlateTypeOK, Placed, Slate!At, Below
    <3>2. PICK s \in served : s.told > node[n].told
      BY <2>2 DEF SlateInv, Placed
    <3>3. s.told = s.real /\ s.real <= durable /\ s \in Opens
      BY <2>2 DEF SlateInv, SlateTypeOK, ServedBelow, Below
    <3> QED
      BY <3>1, <3>2, <3>3, SMT DEF NodeStates, Opens
  <2> QED
    BY <2>1, <2>2 DEF Slate!ReleasedAfterFence
<1> QED
  BY <1>1, SlateInductive, PTL

=============================================================================
