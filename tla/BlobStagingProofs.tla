-------------------------- MODULE BlobStagingProofs --------------------------
(***************************************************************************)
(* Proofs about BlobStaging, for any blobs and any number of reshards and  *)
(* failed calls.                                                           *)
(***************************************************************************)
EXTENDS BlobStaging, FiniteSetTheorems, TLAPS

\* Most leaves are first-order: Zenon finds them fast.  The others name SMT.
USE Zenon

Rows == {"none", "ptr", "tomb"}

Readers == {NoRead} \cup [b : Blobs, due : BOOLEAN, pc : {"stream", "bytes", "missing"}]

TypeOK ==
  /\ gen \in Gens
  /\ rows \in [Blobs \X Gens -> [Replicas -> Rows]]
  /\ ref \in [Blobs -> Gens]
  /\ writer \in [Blobs -> {"idle", "staged", "recorded", "bound", "aborted", "failed"}]
  /\ fenced \in [Blobs -> BOOLEAN]
  /\ unbound \in [Blobs -> BOOLEAN]
  /\ recovery \in [Blobs -> {"none", "fenced", "delete", "done"}]
  /\ reader \in Readers

Pointer(b) == rows[<<b, 0>>]

\* A quorum has the pointer, so every read quorum meets it.
Held(b) == \E Q \in Quorums : \A r \in Q : Pointer(b)[r] = "ptr"

\* Recovery cannot have begun behind a writer that may still bind: it is either
\* fenced out or not there yet.
MayBind(b) ==
  writer[b] \in {"staged", "recorded"} /\ ~fenced[b] =>
    recovery[b] = "none" /\ FinalKey(ref[b], b) \in objects

\* A bound blob keeps its bytes because the guard finds its pointer.
Bound(b) ==
  writer[b] = "bound" /\ ~unbound[b] =>
    Held(b) /\ recovery[b] # "delete" /\ FinalKey(ref[b], b) \in objects

Ordered(b) ==
  /\ writer[b] = "idle" => ~fenced[b] /\ recovery[b] = "none"
  /\ unbound[b] => writer[b] = "bound"
  /\ \A r \in Replicas : Pointer(b)[r] = "tomb" => unbound[b]

ReaderInOrder ==
  reader # NoRead /\ reader.due =>
    /\ writer[reader.b] = "bound"
    /\ reader.pc = "missing" => unbound[reader.b]

IInv ==
  /\ TypeOK
  /\ \A b \in Blobs : MayBind(b) /\ Bound(b) /\ Ordered(b)
  /\ ReaderInOrder

-----------------------------------------------------------------------------
LEMMA QuorumsMeet ==
  ASSUME NEW P \in Quorums, NEW Q \in Quorums
  PROVE  \E r \in P : r \in Q
<1>1. IsFiniteSet(Replicas) /\ Cardinality(Replicas) = 3
  <2>1. \A i, j \in Int : IsFiniteSet(i..j) /\ Cardinality(i..j) = IF i > j THEN 0 ELSE j - i + 1
    BY FS_Interval
  <2>2. 1 \in Int /\ 3 \in Int
    BY SMT
  <2>3. IsFiniteSet(1..3) /\ Cardinality(1..3) = IF 1 > 3 THEN 0 ELSE 3 - 1 + 1
    BY <2>1, <2>2
  <2> QED
    BY <2>3, SMT DEF Replicas
<1>2. P \in SUBSET Replicas /\ Q \in SUBSET Replicas /\ Cardinality(P) >= 2 /\ Cardinality(Q) >= 2
  BY DEF Quorums
<1>3. Cardinality(P) \in Nat /\ Cardinality(Q) \in Nat
  BY <1>1, <1>2, FS_Subset, FS_CardinalityType
<1>4. P \cap Q # {}
  BY <1>1, <1>2, <1>3, FS_MajoritiesIntersect, SMT
<1> QED
  BY <1>4

LEMMA KeyTyped == \A b \in Blobs : \A g \in Gens : brefKey(b, g) = <<b, 0>> /\ <<b, 0>> \in Blobs \X Gens
BY BoundsAssumption, SMT DEF brefKey, Gens

\* The read of a quorum finds the pointer of a bound blob.
LEMMA GuardFinds ==
  ASSUME IInv, NEW b \in Blobs, writer[b] = "bound", ~unbound[b], NEW Q \in Quorums
  PROVE  Reads(brefKey(b, gen), Q) = "ptr"
<1>1. brefKey(b, gen) = <<b, 0>>
  BY KeyTyped DEF IInv, TypeOK
<1>2. PICK P \in Quorums : \A r \in P : Pointer(b)[r] = "ptr"
  BY DEF IInv, Bound, Held
<1>3. PICK r \in P : r \in Q
  BY QuorumsMeet
<1>4. Q \subseteq Replicas
  BY DEF Quorums
<1>5. \A s \in Q : Pointer(b)[s] # "tomb"
  BY <1>4 DEF IInv, Ordered
<1> QED
  BY <1>1, <1>2, <1>3, <1>5 DEF Reads, Pointer

LEMMA InitIInv == Init => IInv
<1> SUFFICES ASSUME Init PROVE IInv
  OBVIOUS
<1>1. TypeOK
  BY BoundsAssumption, SMT DEF Init, TypeOK, Rows, Readers, Gens
<1>2. \A b \in Blobs : MayBind(b) /\ Bound(b) /\ Ordered(b)
  <2> TAKE b \in Blobs
  <2>1. writer[b] = "idle" /\ ~fenced[b] /\ ~unbound[b] /\ recovery[b] = "none"
    BY DEF Init
  <2>2. \A r \in Replicas : Pointer(b)[r] = "none"
    BY BoundsAssumption, SMT DEF Init, Pointer, Gens
  <2> QED
    BY <2>1, <2>2 DEF MayBind, Bound, Ordered
<1> QED
  BY <1>1, <1>2 DEF IInv, Init, ReaderInOrder

-----------------------------------------------------------------------------
\* A blob whose writer, recovery and pointer a step leaves alone keeps its facts
\* as long as its bytes do.
LEMMA Untouched ==
  ASSUME IInv, NEW c \in Blobs,
         writer'[c] = writer[c], fenced'[c] = fenced[c], unbound'[c] = unbound[c],
         recovery'[c] = recovery[c], ref'[c] = ref[c], Pointer(c)' = Pointer(c),
         FinalKey(ref[c], c) \in objects => FinalKey(ref[c], c) \in objects'
  PROVE  MayBind(c)' /\ Bound(c)' /\ Ordered(c)'
<1>1. MayBind(c) /\ Bound(c) /\ Ordered(c)
  BY DEF IInv
<1>2. FinalKey(ref[c], c)' = FinalKey(ref[c], c)
  BY DEF FinalKey
<1>3. Held(c) => Held(c)'
  BY DEF Held
<1> QED
  BY <1>1, <1>2, <1>3 DEF MayBind, Bound, Ordered

\* A write raises the row at the positions that take it and touches no other
\* pointer.
LEMMA WroteRow ==
  ASSUME TypeOK, NEW b \in Blobs, NEW Q \in SUBSET Replicas, NEW row \in {"ptr", "tomb"},
         Wrote(brefKey(b, gen), Q, row)
  PROVE  /\ rows' \in [Blobs \X Gens -> [Replicas -> Rows]]
         /\ \A c \in Blobs \ {b} : Pointer(c)' = Pointer(c)
         /\ \A r \in Replicas : Pointer(b)'[r] =
              IF r \in Q /\ Newer(row, Pointer(b)[r]) THEN row ELSE Pointer(b)[r]
<1> DEFINE k == <<b, 0>>
           new == [r \in Replicas |-> IF r \in Q /\ Newer(row, rows[k][r]) THEN row ELSE rows[k][r]]
<1>1. brefKey(b, gen) = k /\ k \in Blobs \X Gens
  BY KeyTyped DEF TypeOK
<1>2. rows' = [rows EXCEPT ![k] = new]
  BY <1>1 DEF Wrote
<1>3. rows[k] \in [Replicas -> Rows]
  BY <1>1 DEF TypeOK
<1>4. new \in [Replicas -> Rows]
  BY <1>3 DEF Rows
<1>5. rows'[k] = new /\ \A c \in Blobs \ {b} : rows'[<<c, 0>>] = rows[<<c, 0>>]
  <2>1. \A c \in Blobs \ {b} : <<c, 0>> # k
    OBVIOUS
  <2> QED
    BY <1>1, <1>2, <2>1, KeyTyped DEF TypeOK
<1> HIDE DEF k
<1>6. rows' \in [Blobs \X Gens -> [Replicas -> Rows]]
  BY <1>2, <1>4 DEF TypeOK
<1> QED
  BY <1>5, <1>6 DEF Pointer, k

LEMMA PointerTyped ==
  ASSUME TypeOK, NEW b \in Blobs
  PROVE  Pointer(b) \in [Replicas -> Rows]
<1>1. <<b, 0>> \in Blobs \X Gens
  BY KeyTyped DEF TypeOK
<1> QED
  BY <1>1 DEF TypeOK, Pointer

LEMMA QuorumTyped == \A Q \in Quorums : Q \in SUBSET Replicas
BY DEF Quorums

\* The reader's facts outlive a step that neither reads nor takes back a bind.
LEMMA ReaderKept ==
  ASSUME IInv, reader' = reader,
         \A c \in Blobs : writer[c] = "bound" => writer'[c] = "bound",
         \A c \in Blobs : unbound[c] => unbound'[c]
  PROVE  ReaderInOrder'
<1>1. CASE reader = NoRead
  BY <1>1 DEF ReaderInOrder
<1>2. CASE reader # NoRead
  <2>1. reader.b \in Blobs
    BY <1>2 DEF IInv, TypeOK, Readers
  <2> QED
    BY <2>1 DEF IInv, ReaderInOrder
<1> QED
  BY <1>1, <1>2

LEMMA StagePreserves ==
  ASSUME IInv, NEW b \in Blobs, StageBlob(b) \/ Record(b)
  PROVE  IInv'
<1>1. TypeOK'
  BY DEF IInv, TypeOK, StageBlob, Record
<1>2. ASSUME NEW c \in Blobs, c # b PROVE MayBind(c)' /\ Bound(c)' /\ Ordered(c)'
  BY <1>2, Untouched DEF IInv, TypeOK, StageBlob, Record, Pointer
<1>3. MayBind(b) /\ Bound(b) /\ Ordered(b)
  BY DEF IInv
<1>4. MayBind(b)' /\ Bound(b)' /\ Ordered(b)'
  <2>1. CASE StageBlob(b)
    BY <1>3, <2>1 DEF StageBlob, IInv, TypeOK, MayBind, Bound, Ordered, Pointer
  <2>2. CASE Record(b)
    BY <1>3, <2>2 DEF Record, IInv, TypeOK, MayBind, Bound, Ordered, Pointer
  <2> QED
    BY <2>1, <2>2
<1>5. ReaderInOrder'
  BY ReaderKept DEF IInv, TypeOK, StageBlob, Record
<1> QED
  BY <1>1, <1>2, <1>4, <1>5 DEF IInv

\* A bind that commits was not fenced, so recovery has not begun: the bytes are
\* there and a quorum now has the pointer.
LEMMA BindPreserves ==
  ASSUME IInv, NEW b \in Blobs, BindBlob(b)
  PROVE  IInv'
<1> DEFINE Short == ~fenced[b] /\ (\E r \in Replicas : Wrote(brefKey(b, gen), {r}, "ptr"))
                    /\ writer' = [writer EXCEPT ![b] = "failed"]
           Full(Q) == ~fenced[b] /\ Wrote(brefKey(b, gen), Q, "ptr")
                    /\ writer' = [writer EXCEPT ![b] = "bound"]
           Aborted == fenced[b] /\ writer' = [writer EXCEPT ![b] = "aborted"] /\ rows' = rows
<1>1. /\ writer[b] = "recorded"
      /\ UNCHANGED <<gen, objects, ref, fenced, unbound, recovery, reader>>
      /\ \/ Aborted \/ Short
         \/ \E Q \in Quorums : Full(Q)
  BY DEF BindBlob
<1>2. TypeOK /\ MayBind(b) /\ Ordered(b)
  BY DEF IInv
<1>3. ~unbound[b]
  BY <1>1, <1>2 DEF Ordered
<1>4. ASSUME NEW Q \in SUBSET Replicas, Wrote(brefKey(b, gen), Q, "ptr")
      PROVE  /\ rows' \in [Blobs \X Gens -> [Replicas -> Rows]]
             /\ \A c \in Blobs \ {b} : Pointer(c)' = Pointer(c)
             /\ \A r \in Replicas : /\ Pointer(b)'[r] # "tomb"
                                    /\ r \in Q => Pointer(b)'[r] = "ptr"
  <2>1. \A r \in Replicas : Pointer(b)[r] \in {"none", "ptr"}
    <3>1. Pointer(b) \in [Replicas -> Rows]
      BY <1>2, PointerTyped
    <3> QED
      BY <1>2, <1>3, <3>1 DEF Ordered, Rows
  <2>2. /\ rows' \in [Blobs \X Gens -> [Replicas -> Rows]]
        /\ \A c \in Blobs \ {b} : Pointer(c)' = Pointer(c)
        /\ \A r \in Replicas : Pointer(b)'[r] =
             IF r \in Q /\ Newer("ptr", Pointer(b)[r]) THEN "ptr" ELSE Pointer(b)[r]
    BY <1>2, <1>4, WroteRow
  <2> QED
    BY <2>1, <2>2 DEF Newer
<1>5. /\ rows' \in [Blobs \X Gens -> [Replicas -> Rows]]
      /\ \A c \in Blobs \ {b} : Pointer(c)' = Pointer(c)
      /\ \A r \in Replicas : Pointer(b)'[r] # "tomb"
  <2>1. CASE Aborted
    BY <1>2, <1>3, <2>1 DEF TypeOK, Pointer, Ordered
  <2>2. CASE Short
    <3>1. PICK r \in Replicas : Wrote(brefKey(b, gen), {r}, "ptr")
      BY <2>2
    <3>2. {r} \in SUBSET Replicas
      OBVIOUS
    <3> QED
      BY <1>4, <3>1, <3>2
  <2>3. CASE \E Q \in Quorums : Full(Q)
    BY <1>4, <2>3, QuorumTyped
  <2> QED
    BY <1>1, <2>1, <2>2, <2>3
<1>6. TypeOK'
  BY <1>1, <1>2, <1>5 DEF TypeOK
<1>7. \A c \in Blobs \ {b} : writer'[c] = writer[c]
  BY <1>1, <1>2 DEF TypeOK
<1>8. ASSUME NEW c \in Blobs, c # b PROVE MayBind(c)' /\ Bound(c)' /\ Ordered(c)'
  BY <1>1, <1>5, <1>7, <1>8, Untouched
<1>9. writer'[b] \in {"aborted", "failed", "bound"}
  BY <1>1, <1>2 DEF TypeOK
<1>10. Bound(b)'
  <2>1. CASE writer'[b] # "bound"
    BY <2>1 DEF Bound
  <2>2. CASE writer'[b] = "bound"
    <3>1. PICK Q \in Quorums : Full(Q)
      BY <1>1, <1>2, <2>2 DEF TypeOK
    <3>2. Held(b)'
      BY <1>4, <3>1, QuorumTyped, SMT DEF Held
    <3>3. recovery[b] = "none" /\ FinalKey(ref[b], b) \in objects
      BY <1>1, <1>2, <3>1 DEF MayBind
    <3> QED
      BY <1>1, <3>2, <3>3 DEF Bound, FinalKey
  <2> QED
    BY <2>1, <2>2
<1>11. MayBind(b)' /\ Ordered(b)'
  BY <1>1, <1>3, <1>5, <1>9 DEF MayBind, Ordered
<1>12. ReaderInOrder'
  BY <1>1, <1>7, ReaderKept
<1> QED
  BY <1>6, <1>8, <1>10, <1>11, <1>12 DEF IInv

LEMMA UnbindPreserves ==
  ASSUME IInv, NEW b \in Blobs, UnbindBlob(b)
  PROVE  IInv'
<1>1. PICK Q \in Quorums : Wrote(brefKey(b, gen), Q, "tomb")
  BY DEF UnbindBlob
<1>2. /\ rows' \in [Blobs \X Gens -> [Replicas -> Rows]]
      /\ \A c \in Blobs \ {b} : Pointer(c)' = Pointer(c)
  <2>1. TypeOK /\ Q \in SUBSET Replicas
    BY QuorumTyped DEF IInv
  <2> QED
    BY <1>1, <2>1, WroteRow
<1>3. TypeOK'
  BY <1>2 DEF UnbindBlob, IInv, TypeOK
<1>4. ASSUME NEW c \in Blobs, c # b PROVE MayBind(c)' /\ Bound(c)' /\ Ordered(c)'
  BY <1>2, <1>4, Untouched DEF UnbindBlob, IInv, TypeOK
<1>5. writer'[b] = "bound" /\ unbound'[b]
  BY DEF UnbindBlob, IInv, TypeOK
<1>6. MayBind(b)' /\ Bound(b)' /\ Ordered(b)'
  BY <1>5 DEF MayBind, Bound, Ordered
<1>7. ReaderInOrder'
  BY ReaderKept DEF UnbindBlob, IInv, TypeOK
<1> QED
  BY <1>3, <1>4, <1>6, <1>7 DEF IInv

\* Recovery: bumping the owner fences a bind that has not committed, and the
\* guard never clears a bound blob for deletion.
LEMMA RecoveryPreserves ==
  ASSUME IInv, NEW b \in Blobs, BumpOwner(b) \/ Guard(b) \/ Delete(b)
  PROVE  IInv'
<1>1. /\ UNCHANGED <<gen, rows, ref, writer, unbound, reader>>
      /\ objects' = objects \/ (recovery[b] = "delete" /\ objects' = objects \ {FinalKey(ref[b], b)})
      /\ fenced' = fenced \/ fenced' = [fenced EXCEPT ![b] = TRUE]
      /\ \E p \in {"fenced", "done", "delete"} : recovery' = [recovery EXCEPT ![b] = p]
  <2>1. CASE BumpOwner(b)
    BY <2>1 DEF BumpOwner
  <2>2. CASE Guard(b)
    BY <2>2 DEF Guard, Refused
  <2>3. CASE Delete(b)
    BY <2>3 DEF Delete
  <2> QED
    BY <2>1, <2>2, <2>3
<1>2. TypeOK'
  BY <1>1 DEF IInv, TypeOK
<1>3. ASSUME NEW c \in Blobs, c # b PROVE MayBind(c)' /\ Bound(c)' /\ Ordered(c)'
  <2>1. FinalKey(ref[c], c) # FinalKey(ref[b], b)
    BY <1>3 DEF FinalKey
  <2>2. FinalKey(ref[c], c) \in objects => FinalKey(ref[c], c) \in objects'
    BY <1>1, <2>1
  <2>3. fenced'[c] = fenced[c] /\ recovery'[c] = recovery[c]
    BY <1>1, <1>3 DEF IInv, TypeOK
  <2> QED
    BY <1>1, <1>3, <2>2, <2>3, Untouched DEF Pointer
<1>4. MayBind(b) /\ Bound(b) /\ Ordered(b) /\ TypeOK
  BY DEF IInv
<1>5. Ordered(b)'
  <2>1. writer[b] # "idle"
    BY <1>4 DEF BumpOwner, Guard, Delete, Ordered
  <2> QED
    BY <1>1, <1>4, <2>1 DEF Ordered, Pointer
<1>6. MayBind(b)'
  <2>1. CASE BumpOwner(b)
    <3>1. fenced'[b]
      BY <1>4, <2>1 DEF BumpOwner, TypeOK
    <3> QED
      BY <3>1 DEF MayBind
  <2>2. CASE Guard(b) \/ Delete(b)
    <3>1. recovery[b] \in {"fenced", "delete"} /\ fenced' = fenced /\ writer' = writer
      BY <2>2 DEF Guard, Delete
    <3> QED
      BY <1>4, <3>1 DEF MayBind
  <2> QED
    BY <2>1, <2>2
<1>7. Bound(b)'
  <2> SUFFICES ASSUME writer[b] = "bound", ~unbound[b] PROVE Bound(b)'
    BY <1>1 DEF Bound
  <2>1. Held(b) /\ recovery[b] # "delete" /\ FinalKey(ref[b], b) \in objects
    BY <1>4 DEF Bound
  <2>2. recovery'[b] # "delete"
    <3>1. CASE BumpOwner(b)
      BY <1>4, <3>1 DEF BumpOwner, TypeOK
    <3>2. CASE Guard(b)
      <4>1. \A Q \in Quorums : Reads(brefKey(b, gen), Q) = "ptr"
        BY GuardFinds
      <4> QED
        BY <1>4, <3>2, <4>1 DEF Guard, GuardSets, Refused, TypeOK
    <3>3. CASE Delete(b)
      BY <2>1, <3>3 DEF Delete
    <3> QED
      BY <3>1, <3>2, <3>3
  <2>3. Held(b)'
    BY <1>1, <2>1 DEF Held, Pointer
  <2> QED
    BY <1>1, <2>1, <2>2, <2>3 DEF Bound, FinalKey
<1>8. ReaderInOrder'
  BY <1>1, ReaderKept
<1> QED
  BY <1>2, <1>3, <1>5, <1>6, <1>7, <1>8 DEF IInv

\* A read that starts after the bind meets the pointer, and its stream the bytes,
\* unless an unbind came between.
LEMMA ReadPreserves ==
  ASSUME IInv, Read
  PROVE  IInv'
<1>1. UNCHANGED <<gen, objects, rows, ref, writer, fenced, unbound, recovery>>
  BY DEF Read
<1>2. ASSUME NEW c \in Blobs PROVE MayBind(c)' /\ Bound(c)' /\ Ordered(c)'
  BY <1>1, Untouched DEF Pointer
<1>3. reader' \in Readers /\ ReaderInOrder'
  <2>1. CASE reader.pc = "idle"
    <3>1. PICK b \in Blobs, Q \in Quorums :
            reader' = [b |-> b, due |-> writer[b] = "bound",
                       pc |-> IF Reads(brefKey(b, gen), Q) = "ptr" THEN "stream" ELSE "missing"]
      BY <2>1 DEF Read, GetBlob
    <3>2. reader' \in Readers /\ reader'.b = b /\ (reader'.due => writer[b] = "bound")
          /\ (reader'.pc = "missing" => Reads(brefKey(b, gen), Q) # "ptr")
      BY <3>1 DEF Readers
    <3>3. reader'.pc = "missing" /\ reader'.due => unbound[b]
      BY <3>2, GuardFinds
    <3> QED
      BY <1>1, <3>2, <3>3 DEF ReaderInOrder
  <2>2. CASE reader.pc = "stream"
    <3>1. reader # NoRead /\ reader \in Readers
      BY <2>2, SMT DEF NoRead, IInv, TypeOK
    <3>2. reader.b \in Blobs
      BY <3>1 DEF Readers
    <3>3. reader' = [reader EXCEPT !.pc =
            IF FinalKey(ref[reader.b], reader.b) \in objects THEN "bytes" ELSE "missing"]
      BY <2>2 DEF Read, GetBlob
    <3>4. reader' \in Readers /\ reader'.b = reader.b /\ reader'.due = reader.due
          /\ (reader'.pc = "missing" => FinalKey(ref[reader.b], reader.b) \notin objects)
      BY <3>1, <3>3 DEF Readers, NoRead
    <3>5. reader.due => writer[reader.b] = "bound"
      BY <3>1 DEF IInv, ReaderInOrder
    <3>6. reader.due /\ reader'.pc = "missing" => unbound[reader.b]
      BY <3>2, <3>4, <3>5 DEF IInv, Bound
    <3> QED
      BY <1>1, <3>4, <3>5, <3>6 DEF ReaderInOrder
  <2>3. CASE reader.pc \in {"bytes", "missing"}
    BY <2>3 DEF Read, GetBlob, ReaderInOrder, Readers
  <2> QED
    BY <2>1, <2>2, <2>3 DEF Read, GetBlob
<1> QED
  BY <1>1, <1>2, <1>3 DEF IInv, TypeOK

\* Repair spreads a newer row; only a tombstone displaces a pointer.
LEMMA RepairPreserves ==
  ASSUME IInv, Repair
  PROVE  IInv'
<1>1. PICK k \in DOMAIN rows, r \in Replicas, s \in Replicas :
        Newer(rows[k][s], rows[k][r]) /\ rows' = [rows EXCEPT ![k][r] = rows[k][s]]
  BY DEF Repair
<1>2. k \in Blobs \X Gens /\ rows[k] \in [Replicas -> Rows]
  BY DEF IInv, TypeOK
<1>3. rows' = [rows EXCEPT ![k] = [rows[k] EXCEPT ![r] = rows[k][s]]]
  BY <1>1
<1>4. UNCHANGED <<gen, objects, ref, writer, fenced, unbound, recovery, reader>>
  BY DEF Repair
<1>5. [rows[k] EXCEPT ![r] = rows[k][s]] \in [Replicas -> Rows]
  BY <1>2
<1>6. TypeOK'
  BY <1>3, <1>4, <1>5 DEF IInv, TypeOK
<1>7. ASSUME NEW c \in Blobs PROVE MayBind(c)' /\ Bound(c)' /\ Ordered(c)'
  <2>1. CASE k # <<c, 0>>
    <3>1. Pointer(c)' = Pointer(c)
      BY <1>3, <2>1, KeyTyped DEF IInv, TypeOK, Pointer
    <3> QED
      BY <1>4, <3>1, Untouched
  <2>2. CASE k = <<c, 0>>
    <3>1. Pointer(c)' = [Pointer(c) EXCEPT ![r] = Pointer(c)[s]] /\ Newer(Pointer(c)[s], Pointer(c)[r])
      BY <1>1, <1>2, <1>3, <2>2 DEF IInv, TypeOK, Pointer
    <3>2. Pointer(c) \in [Replicas -> Rows] /\ MayBind(c) /\ Bound(c) /\ Ordered(c)
      BY PointerTyped DEF IInv
    <3>3. Ordered(c)'
      BY <1>4, <3>1, <3>2 DEF Ordered
    <3>4. ASSUME ~unbound[c], Held(c) PROVE Held(c)'
      <4>1. \A t \in Replicas : Pointer(c)[t] = "ptr" => Pointer(c)'[t] = "ptr"
        BY <3>1, <3>2, <3>4 DEF Ordered, Newer
      <4> QED
        BY <3>4, <4>1, QuorumTyped DEF Held
    <3> QED
      BY <1>4, <3>2, <3>3, <3>4 DEF MayBind, Bound, FinalKey
  <2> QED
    BY <2>1, <2>2
<1>8. ReaderInOrder'
  BY <1>4, ReaderKept
<1> QED
  BY <1>6, <1>7, <1>8 DEF IInv

LEMMA NextIInv == IInv /\ [Next]_vars => IInv'
<1> SUFFICES ASSUME IInv, [Next]_vars PROVE IInv'
  OBVIOUS
<1>1. CASE \E b \in Blobs : StageBlob(b) \/ Record(b)
  BY <1>1, StagePreserves
<1>2. CASE \E b \in Blobs : BindBlob(b)
  BY <1>2, BindPreserves
<1>3. CASE \E b \in Blobs : UnbindBlob(b)
  BY <1>3, UnbindPreserves
<1>4. CASE \E b \in Blobs : BumpOwner(b) \/ Guard(b) \/ Delete(b)
  BY <1>4, RecoveryPreserves
<1>5. CASE Read
  BY <1>5, ReadPreserves
<1>6. CASE Repair
  BY <1>6, RepairPreserves
<1>7. CASE Reshard \/ UNCHANGED vars
  <2>1. UNCHANGED <<objects, rows, ref, writer, fenced, unbound, recovery, reader>>
    BY <1>7 DEF Reshard, vars
  <2>2. gen' \in Gens
    BY <1>7, BoundsAssumption, SMT DEF Reshard, vars, IInv, TypeOK, Gens
  <2>3. ASSUME NEW c \in Blobs PROVE MayBind(c)' /\ Bound(c)' /\ Ordered(c)'
    BY <2>1, Untouched DEF Pointer
  <2> QED
    BY <2>1, <2>2, <2>3, ReaderKept DEF IInv, TypeOK
<1> QED
  BY <1>1, <1>2, <1>3, <1>4, <1>5, <1>6, <1>7 DEF Next

-----------------------------------------------------------------------------
\* Staged bytes whose bind was acknowledged are never reclaimed before the blob
\* is unbound (StageBlob, BindBlob and UnstageBlob in kv.go).
THEOREM BoundKept == Spec => []BoundBytesKept
<1>1. IInv => BoundBytesKept
  BY DEF IInv, Bound, BoundBytesKept
<1> QED
  BY <1>1, InitIInv, NextIInv, PTL DEF Spec

\* A GetBlob that begins after the bind was acknowledged finds the pointer and
\* the bytes, whatever the generation, unless the blob is unbound meanwhile.
THEOREM BoundRead == Spec => []BoundIsRead
<1>1. IInv => BoundIsRead
  BY SMT DEF IInv, ReaderInOrder, BoundIsRead, NoRead
<1> QED
  BY <1>1, InitIInv, NextIInv, PTL DEF Spec
=============================================================================
