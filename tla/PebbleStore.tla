---------------------------- MODULE PebbleStore ----------------------------
(***************************************************************************)
(* The local-disk engine (backends/pebble/pebble.go).  A transaction keeps *)
(* every write twice: in the overlay it reads back from (writes, deletes)  *)
(* and in the batch Commit hands to Pebble; under the overlay it reads a   *)
(* snapshot of the database taken by Begin.  It implements LocalStore with *)
(* snapshot reads.                                                         *)
(*                                                                         *)
(* Pebble itself is external: a snapshot is the state it was taken of, and *)
(* a batch is applied atomically, the last operation on a key deciding.    *)
(***************************************************************************)
EXTENDS Integers, Sequences

CONSTANTS Keys, Values, Txs

VARIABLES
    data,       \* what the database holds
    open,       \* "closed" once Close has dropped p.db
    snapshot,   \* transaction.snap
    batch,      \* transaction.batch: per key the last operation, as <<cell>>, or <<>>
    status,     \* "live" from Begin until done is set
    writes,     \* transaction.writes: the cell of every key, <<>> if not in the map
    deletes,    \* transaction.deletes
    got         \* the answer to every transaction's last Get or ScanPrefix

vars == <<data, open, snapshot, batch, status, writes, deletes, got>>

Absent == <<>>
Cells == {Absent} \cup {<<v>> : v \in Values}
Empty == [k \in Keys |-> Absent]

Init ==
    /\ data = Empty /\ open = "open"
    /\ snapshot = [t \in Txs |-> Empty]
    /\ batch = [t \in Txs |-> [k \in Keys |-> <<>>]]
    /\ status = [t \in Txs |-> "idle"]
    /\ writes = [t \in Txs |-> Empty]
    /\ deletes = [t \in Txs |-> {}]
    /\ got = [t \in Txs |-> Empty]

Put(k, v) ==
    /\ open = "open"
    /\ data' = [data EXCEPT ![k] = <<v>>]
    /\ UNCHANGED <<open, snapshot, batch, status, writes, deletes, got>>

Delete(k) ==
    /\ open = "open"
    /\ data' = [data EXCEPT ![k] = Absent]
    /\ UNCHANGED <<open, snapshot, batch, status, writes, deletes, got>>

Begin(t) ==
    /\ open = "open" /\ status[t] = "idle"
    /\ status' = [status EXCEPT ![t] = "live"]
    /\ snapshot' = [snapshot EXCEPT ![t] = data]
    /\ UNCHANGED <<data, open, batch, writes, deletes, got>>

TxPut(t, k, v) ==
    /\ status[t] = "live"
    /\ deletes' = [deletes EXCEPT ![t] = @ \ {k}]
    /\ writes' = [writes EXCEPT ![t] = [@ EXCEPT ![k] = <<v>>]]
    /\ batch' = [batch EXCEPT ![t] = [@ EXCEPT ![k] = <<<<v>>>>]]
    /\ UNCHANGED <<data, open, snapshot, status, got>>

TxDelete(t, k) ==
    /\ status[t] = "live"
    /\ writes' = [writes EXCEPT ![t] = [@ EXCEPT ![k] = Absent]]
    /\ deletes' = [deletes EXCEPT ![t] = @ \cup {k}]
    /\ batch' = [batch EXCEPT ![t] = [@ EXCEPT ![k] = <<Absent>>]]
    /\ UNCHANGED <<data, open, snapshot, status, got>>

(* transaction.Get: deletes, then writes, then the snapshot.               *)
TxGet(t, k) ==
    /\ status[t] = "live" /\ open = "open"
    /\ got' = [got EXCEPT ![t] = [j \in Keys |->
                 IF j # k \/ k \in deletes[t] THEN Absent
                 ELSE IF writes[t][k] # Absent THEN writes[t][k] ELSE snapshot[t][k]]]
    /\ UNCHANGED <<data, open, snapshot, batch, status, writes, deletes>>

(* transaction.ScanPrefix: the snapshot's pairs, then the deletes taken    *)
(* out, then the writes put in.                                            *)
Dropped(t, P) == [k \in P |-> IF k \in deletes[t] THEN Absent ELSE snapshot[t][k]]

TxScan(t, P) ==
    /\ status[t] = "live" /\ open = "open"
    /\ got' = [got EXCEPT ![t] = [k \in Keys |->
                 IF k \notin P THEN Absent
                 ELSE IF writes[t][k] # Absent THEN writes[t][k] ELSE Dropped(t, P)[k]]]
    /\ UNCHANGED <<data, open, snapshot, batch, status, writes, deletes>>

(* Commit: the batch is applied, or refused whole.                         *)
Commit(t) ==
    /\ status[t] = "live" /\ open = "open"
    /\ status' = [status EXCEPT ![t] = "done"]
    /\ data' = [k \in Keys |-> IF batch[t][k] = <<>> THEN data[k] ELSE batch[t][k][1]]
    /\ UNCHANGED <<open, snapshot, batch, writes, deletes, got>>

CommitFails(t) ==
    /\ status[t] = "live" /\ open = "open"
    /\ status' = [status EXCEPT ![t] = "done"]
    /\ UNCHANGED <<data, open, snapshot, batch, writes, deletes, got>>

Rollback(t) ==
    /\ status[t] = "live"
    /\ status' = [status EXCEPT ![t] = "done"]
    /\ UNCHANGED <<data, open, snapshot, batch, writes, deletes, got>>

Close ==
    /\ open = "open" /\ open' = "closed"
    /\ UNCHANGED <<data, snapshot, batch, status, writes, deletes, got>>

Next ==
    \/ Close
    \/ \E k \in Keys : Delete(k) \/ \E v \in Values : Put(k, v)
    \/ \E t \in Txs :
         \/ Begin(t) \/ Commit(t) \/ CommitFails(t) \/ Rollback(t)
         \/ \E k \in Keys : TxDelete(t, k) \/ TxGet(t, k) \/ \E v \in Values : TxPut(t, k, v)
         \/ \E P \in SUBSET Keys : TxScan(t, P)

Spec == Init /\ [][Next]_vars

-----------------------------------------------------------------------------
Entry(t, k) ==
    IF k \in deletes[t] THEN <<Absent>>
    ELSE IF writes[t][k] # Absent THEN <<writes[t][k]>> ELSE <<>>

(* The overlay a transaction reads from and the batch it commits say the   *)
(* same of every key, and no key is both written and deleted.              *)
OverlayIsBatch ==
    \A t \in Txs : /\ \A k \in Keys : batch[t][k] = Entry(t, k)
                   /\ \A k \in deletes[t] : writes[t][k] = Absent

Store == INSTANCE LocalStore WITH
    Isolation <- "snapshot",
    buffer <- [t \in Txs |-> [k \in Keys |-> Entry(t, k)]],
    snap <- snapshot
=============================================================================
