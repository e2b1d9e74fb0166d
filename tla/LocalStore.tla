----------------------------- MODULE LocalStore ----------------------------
(***************************************************************************)
(* What the storage layer relies on from a storage engine (the Backend and *)
(* Transaction interfaces of pkg/backend/backend.go): a map from keys to   *)
(* values, and transactions whose writes are buffered, read back by the    *)
(* transaction itself, and applied all at once by Commit or not at all.    *)
(* MemoryStore and PebbleStore implement it.                               *)
(*                                                                         *)
(* What a key holds is a cell: <<v>>, or <<>> when it is absent.  A buffer *)
(* entry is <<>> for a key the transaction has not written, <<c>> for one  *)
(* it has, c being the cell to store (<<>>: a delete).                     *)
(***************************************************************************)
CONSTANTS Keys, Values, Txs,
          Isolation     \* "snapshot": reads of the state at Begin; "committed": of the present one

VARIABLES
    data,       \* the cell of every key
    open,       \* "open", or "closed" by Close
    status,     \* of every transaction: "idle", "live", "done"
    buffer,     \* what every transaction has written
    snap,       \* the state at Begin, under "snapshot"
    got         \* the answer to every transaction's last Get or ScanPrefix

vars == <<data, open, status, buffer, snap, got>>

Absent == <<>>
Cells == {Absent} \cup {<<v>> : v \in Values}
Untouched == [k \in Keys |-> <<>>]
Empty == [k \in Keys |-> Absent]

Init ==
    /\ data = Empty /\ open = "open"
    /\ status = [t \in Txs |-> "idle"]
    /\ buffer = [t \in Txs |-> Untouched]
    /\ snap = [t \in Txs |-> Empty]
    /\ got = [t \in Txs |-> Empty]

(* Put and Delete outside any transaction.                                 *)
Write(k, c) ==
    /\ open = "open"
    /\ data' = [data EXCEPT ![k] = c]
    /\ UNCHANGED <<open, status, buffer, snap, got>>

Begin(t) ==
    /\ open = "open" /\ status[t] = "idle"
    /\ status' = [status EXCEPT ![t] = "live"]
    /\ snap' = IF Isolation = "snapshot" THEN [snap EXCEPT ![t] = data] ELSE snap
    /\ UNCHANGED <<data, open, buffer, got>>

TxWrite(t, k, c) ==
    /\ status[t] = "live"
    /\ buffer' = [buffer EXCEPT ![t] = [@ EXCEPT ![k] = <<c>>]]
    /\ UNCHANGED <<data, open, status, snap, got>>

Below(t) == IF Isolation = "snapshot" THEN snap[t] ELSE data

Seen(t, k) == IF buffer[t][k] = <<>> THEN Below(t)[k] ELSE buffer[t][k][1]

(* Get and ScanPrefix: the transaction's own writes over what is below.    *)
Read(t, P) ==
    /\ status[t] = "live"
    /\ open = "open" \/ \A k \in P : buffer[t][k] # <<>>
    /\ got' = [got EXCEPT ![t] = [k \in Keys |-> IF k \in P THEN Seen(t, k) ELSE Absent]]
    /\ UNCHANGED <<data, open, status, buffer, snap>>

Applied(t) == [k \in Keys |-> IF buffer[t][k] = <<>> THEN data[k] ELSE buffer[t][k][1]]

(* Commit applies the whole buffer; on a closed store, nothing.            *)
Commit(t) ==
    /\ status[t] = "live"
    /\ status' = [status EXCEPT ![t] = "done"]
    /\ data' = IF open = "open" THEN Applied(t) ELSE data
    /\ UNCHANGED <<open, buffer, snap, got>>

Rollback(t) ==
    /\ status[t] = "live"
    /\ status' = [status EXCEPT ![t] = "done"]
    /\ UNCHANGED <<data, open, buffer, snap, got>>

Close ==
    /\ open = "open" /\ open' = "closed"
    /\ UNCHANGED <<data, status, buffer, snap, got>>

Next ==
    \/ Close
    \/ \E k \in Keys, c \in Cells : Write(k, c)
    \/ \E t \in Txs :
         \/ Begin(t) \/ Commit(t) \/ Rollback(t)
         \/ \E k \in Keys, c \in Cells : TxWrite(t, k, c)
         \/ \E P \in SUBSET Keys : Read(t, P)

Spec == Init /\ [][Next]_vars
=============================================================================
