----------------------------- MODULE BlobStaging -----------------------------
(***************************************************************************)
(* The blob plane: bytes are staged in the object store outside any        *)
(* transaction, become visible when a transaction binds a pointer to them, *)
(* and are reclaimed by UnstageBlob from the list of refs a caller         *)
(* recorded.  Pointer and bytes live in two stores and no lock spans them. *)
(*                                                                         *)
(* The pointer is a replicated row (its three copies are written to a      *)
(* quorum and spread by repair, as ReplicatedUnit models in full); a       *)
(* reshard changes the unit token of a key between any two steps.  The     *)
(* caller follows the protocol UnstageBlob demands: it records the ref     *)
(* before it binds, and recovery bumps an ownership record that the        *)
(* binding transaction checks.                                             *)
(***************************************************************************)
EXTENDS Naturals, FiniteSets

CONSTANTS
  Blobs,        \* blob ids
  MaxGen,       \* reshards explored
  MaxFaults     \* failed calls explored

ASSUME BoundsAssumption == MaxGen \in Nat /\ MaxFaults \in Nat

VARIABLES
  gen,          \* the generation a route key resolves in
  objects,      \* object keys the store holds
  rows,         \* per pointer key, the row at each replica position
  ref,          \* per blob, the unit token of the BlobRef StageBlob returned
  writer,       \* per blob, the caller that stages and binds it
  fenced,       \* per blob, its ownership record has been bumped by recovery
  unbound,      \* per blob, an UnbindBlob has been acknowledged
  recovery,     \* per blob, the caller that unstages it
  reader,       \* one GetBlob
  faults

vars == <<gen, objects, rows, ref, writer, fenced, unbound, recovery, reader, faults>>

Gens == 0..MaxGen
Replicas == 1..3
Quorums == {Q \in SUBSET Replicas : Cardinality(Q) >= 2}
NoRead == [pc |-> "idle"]

\* The key of a blob's bytes: unit token and blob id.
FinalKey(token, b) == <<token, b>>

\* Mutant: the pointer key carries the routed unit token.
TokenKey(b, g) == <<b, g>>

\* The pointer key does not depend on the generation g it is built in.
brefKey(b, g) == <<b, 0>>

Init ==
  /\ gen = 0 /\ objects = {}
  /\ rows = [k \in Blobs \X Gens |-> [r \in Replicas |-> "none"]]
  /\ ref = [b \in Blobs |-> 0]
  /\ writer = [b \in Blobs |-> "idle"]
  /\ fenced = [b \in Blobs |-> FALSE] /\ unbound = [b \in Blobs |-> FALSE]
  /\ recovery = [b \in Blobs |-> "none"]
  /\ reader = NoRead
  /\ faults = MaxFaults

Fault == faults > 0 /\ faults' = faults - 1

\* A pointer is bound once and deleted once: last writer wins.
Newer(x, y) == (y = "none" /\ x # "none") \/ (y = "ptr" /\ x = "tomb")

\* A read of the positions in Q: the newest row it saw.
Reads(k, Q) ==
  IF \E r \in Q : rows[k][r] = "tomb" THEN "tomb"
  ELSE IF \E r \in Q : rows[k][r] = "ptr" THEN "ptr" ELSE "none"

Wrote(k, Q, row) ==
  rows' = [rows EXCEPT ![k] = [r \in Replicas |->
             IF r \in Q /\ Newer(row, @[r]) THEN row ELSE @[r]]]

-----------------------------------------------------------------------------
(* The writer.                                                             *)

\* StageBlob: the token is resolved, the bytes are streamed to the final key.
StageBlob(b) ==
  /\ writer[b] = "idle"
  /\ ref' = [ref EXCEPT ![b] = gen]
  /\ objects' = objects \cup {FinalKey(gen, b)}
  /\ writer' = [writer EXCEPT ![b] = "staged"]
  /\ UNCHANGED <<gen, rows, fenced, unbound, recovery, reader, faults>>

\* The caller records the ref durably; a crash before that leaks the bytes.
Record(b) ==
  /\ writer[b] = "staged"
  /\ writer' = [writer EXCEPT ![b] = "recorded"]
  /\ UNCHANGED <<gen, objects, rows, ref, fenced, unbound, recovery, reader, faults>>

\* The binding transaction: it aborts if the ownership record was bumped, else
\* BindBlob's row commits with it.  It is acknowledged from a quorum; short of
\* one the caller gets an error and the row stays where it was written.
BindBlob(b) ==
  /\ writer[b] = "recorded"
  /\ \/ /\ fenced[b]
        /\ writer' = [writer EXCEPT ![b] = "aborted"]
        /\ UNCHANGED <<rows, faults>>
     \/ /\ ~fenced[b]
        /\ \E Q \in Quorums : Wrote(brefKey(b, gen), Q, "ptr")
        /\ writer' = [writer EXCEPT ![b] = "bound"]
        /\ UNCHANGED faults
     \/ /\ ~fenced[b] /\ Fault
        /\ \E r \in Replicas : Wrote(brefKey(b, gen), {r}, "ptr")
        /\ writer' = [writer EXCEPT ![b] = "failed"]
  /\ UNCHANGED <<gen, objects, ref, fenced, unbound, recovery, reader>>

\* UnbindBlob, in the transaction that deletes the metadata.
UnbindBlob(b) ==
  /\ writer[b] = "bound" /\ ~unbound[b]
  /\ \E Q \in Quorums : Wrote(brefKey(b, gen), Q, "tomb")
  /\ unbound' = [unbound EXCEPT ![b] = TRUE]
  /\ recovery' = [recovery EXCEPT ![b] = "fenced"]
  /\ UNCHANGED <<gen, objects, ref, writer, fenced, reader, faults>>

-----------------------------------------------------------------------------
(* Recovery, at any time after the ref was recorded.                       *)

\* The ownership record is bumped: a writer that resumes aborts its bind.
BumpOwner(b) ==
  /\ recovery[b] = "none" /\ writer[b] \notin {"idle", "staged"}
  /\ fenced' = [fenced EXCEPT ![b] = TRUE]
  /\ recovery' = [recovery EXCEPT ![b] = "fenced"]
  /\ UNCHANGED <<gen, objects, rows, ref, writer, unbound, reader, faults>>

\* Mutant: the guard read asks one replica.
NearestSets == {{r} : r \in Replicas}

\* guardGet: absence is witnessed by a read quorum.
GuardSets == Quorums

\* Mutant: a guard read that fails counts as bound.
GivesUp == "done"

\* A guard read that fails refuses; the caller runs its list again.
Refused == "fenced"

\* UnstageBlob: the guard read, then the delete.  Both may fail.
Guard(b) ==
  /\ recovery[b] = "fenced"
  /\ \/ \E Q \in GuardSets :
          recovery' = [recovery EXCEPT ![b] =
            IF Reads(brefKey(b, gen), Q) = "ptr" THEN "done" ELSE "delete"]
        /\ UNCHANGED faults
     \/ Fault /\ recovery' = [recovery EXCEPT ![b] = Refused]
  /\ UNCHANGED <<gen, objects, rows, ref, writer, fenced, unbound, reader>>

Delete(b) ==
  /\ recovery[b] = "delete"
  /\ \/ /\ objects' = objects \ {FinalKey(ref[b], b)}
        /\ recovery' = [recovery EXCEPT ![b] = "done"]
        /\ UNCHANGED faults
     \/ /\ Fault
        /\ \/ UNCHANGED objects
           \/ objects' = objects \ {FinalKey(ref[b], b)}
        /\ recovery' = [recovery EXCEPT ![b] = "fenced"]
  /\ UNCHANGED <<gen, rows, ref, writer, fenced, unbound, reader>>

-----------------------------------------------------------------------------
(* A reader, a reshard, and the spread of rows between replicas.           *)

\* GetBlob: the pointer by a quorum read, then the bytes its ObjKey names.
\* due records whether the bind was acknowledged before the call.
GetBlob ==
  \/ /\ reader.pc = "idle"
     /\ \E b \in Blobs : \E Q \in Quorums :
          reader' = [b |-> b, due |-> writer[b] = "bound",
                     pc |-> IF Reads(brefKey(b, gen), Q) = "ptr" THEN "stream" ELSE "missing"]
     /\ UNCHANGED faults
  \/ /\ reader.pc = "stream"
     /\ reader' = [reader EXCEPT !.pc =
          IF FinalKey(ref[reader.b], reader.b) \in objects THEN "bytes" ELSE "missing"]
     /\ UNCHANGED faults
  \/ /\ reader.pc \in {"bytes", "missing"}
     /\ reader' = NoRead
     /\ UNCHANGED faults

Read == GetBlob /\ UNCHANGED <<gen, objects, rows, ref, writer, fenced, unbound, recovery>>

Reshard ==
  /\ gen < MaxGen
  /\ gen' = gen + 1
  /\ UNCHANGED <<objects, rows, ref, writer, fenced, unbound, recovery, reader, faults>>

Repair ==
  /\ \E k \in DOMAIN rows : \E r, s \in Replicas :
       /\ Newer(rows[k][s], rows[k][r])
       /\ rows' = [rows EXCEPT ![k][r] = rows[k][s]]
  /\ UNCHANGED <<gen, objects, ref, writer, fenced, unbound, recovery, reader, faults>>

Next ==
  \/ \E b \in Blobs : \/ StageBlob(b) \/ Record(b) \/ BindBlob(b) \/ UnbindBlob(b)
                      \/ BumpOwner(b) \/ Guard(b) \/ Delete(b)
  \/ Read \/ Reshard \/ Repair

\* Recovery visits every recorded ref and repeats its list; nothing is assumed
\* of writers and readers.
Spec == /\ Init /\ [][Next]_vars
        /\ \A b \in Blobs : WF_vars(BumpOwner(b)) /\ WF_vars(Guard(b) \/ Delete(b))

-----------------------------------------------------------------------------
(* Properties.                                                             *)

\* Bytes whose binding transaction was acknowledged are in the object store
\* until they are unbound, however recovery, a resumed writer, failed calls
\* and reshards interleave with the bind.
BoundBytesKept ==
  \A b \in Blobs : writer[b] = "bound" /\ ~unbound[b] => FinalKey(ref[b], b) \in objects

\* A GetBlob that starts after the bind was acknowledged returns the bytes,
\* whatever generation the key was bound and read in, unless the blob is
\* unbound meanwhile.
BoundIsRead == reader.pc = "missing" /\ reader.due => unbound[reader.b]

\* The bytes of every recorded ref end up referenced or deleted: running the
\* list again converges over refused guards and failed deletes.
Reclaimed ==
  \A b \in Blobs :
    (writer[b] \in {"recorded", "aborted", "failed"} \/ unbound[b])
      ~> \/ FinalKey(ref[b], b) \notin objects
         \/ ~unbound[b] /\ \E r \in Replicas : rows[brefKey(b, gen)][r] = "ptr"
=============================================================================
