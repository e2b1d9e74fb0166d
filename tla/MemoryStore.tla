---------------------------- MODULE MemoryStore ----------------------------
(***************************************************************************)
(* The in-memory engine (pkg/backend/memory/memory.go): a map under one    *)
(* lock; a transaction keeps a map of its writes and a set of its deletes  *)
(* over it.  It implements LocalStore with reads of the present state:     *)
(* t.Get falls through to the parent's current value.                      *)
(***************************************************************************)
EXTENDS Integers, Sequences

CONSTANTS Keys, Values, Txs

VARIABLES
    data,       \* Memory.data
    open,       \* ~Memory.closed
    status,     \* "live" from Begin until done is set
    writes,     \* transaction.writes: the cell of every key, <<>> if not in the map
    deletes,    \* transaction.deletes
    got         \* the answer to every transaction's last Get or ScanPrefix

vars == <<data, open, status, writes, deletes, got>>

Absent == <<>>
Cells == {Absent} \cup {<<v>> : v \in Values}
Empty == [k \in Keys |-> Absent]

Init ==
    /\ data = Empty /\ open = "open"
    /\ status = [t \in Txs |-> "idle"]
    /\ writes = [t \in Txs |-> Empty]
    /\ deletes = [t \in Txs |-> {}]
    /\ got = [t \in Txs |-> Empty]

Put(k, v) ==
    /\ open = "open"
    /\ data' = [data EXCEPT ![k] = <<v>>]
    /\ UNCHANGED <<open, status, writes, deletes, got>>

Delete(k) ==
    /\ open = "open"
    /\ data' = [data EXCEPT ![k] = Absent]
    /\ UNCHANGED <<open, status, writes, deletes, got>>

(* What Get answers and which keys ScanPrefix lists, outside transactions. *)
Get(k) == data[k]

Pairs(P) == {k \in P : data[k] # Absent}

Begin(t) ==
    /\ open = "open" /\ status[t] = "idle"
    /\ status' = [status EXCEPT ![t] = "live"]
    /\ UNCHANGED <<data, open, writes, deletes, got>>

TxPut(t, k, v) ==
    /\ status[t] = "live"
    /\ deletes' = [deletes EXCEPT ![t] = @ \ {k}]
    /\ writes' = [writes EXCEPT ![t] = [@ EXCEPT ![k] = <<v>>]]
    /\ UNCHANGED <<data, open, status, got>>

TxDelete(t, k) ==
    /\ status[t] = "live"
    /\ writes' = [writes EXCEPT ![t] = [@ EXCEPT ![k] = Absent]]
    /\ deletes' = [deletes EXCEPT ![t] = @ \cup {k}]
    /\ UNCHANGED <<data, open, status, got>>

(* transaction.Get: deletes, then writes, then the parent, which answers   *)
(* only while it is open.                                                  *)
TxGet(t, k) ==
    /\ status[t] = "live"
    /\ open = "open" \/ k \in deletes[t] \/ writes[t][k] # Absent
    /\ got' = [got EXCEPT ![t] = [j \in Keys |->
                 IF j # k \/ k \in deletes[t] THEN Absent
                 ELSE IF writes[t][k] # Absent THEN writes[t][k] ELSE Get(k)]]
    /\ UNCHANGED <<data, open, status, writes, deletes>>

(* transaction.ScanPrefix: the parent's pairs without the deleted ones,    *)
(* the writes over them, and then the writes the parent had no pair for.   *)
Kept(t, P) == Pairs(P) \ deletes[t]

New(t, P) == {k \in P : writes[t][k] # Absent} \ Kept(t, P)

TxScan(t, P) ==
    /\ status[t] = "live" /\ open = "open"
    /\ got' = [got EXCEPT ![t] = [k \in Keys |->
                 IF k \in Kept(t, P) /\ writes[t][k] = Absent THEN data[k]
                 ELSE IF k \in Kept(t, P) \cup New(t, P) THEN writes[t][k] ELSE Absent]]
    /\ UNCHANGED <<data, open, status, writes, deletes>>

(* Commit: the writes copied in, then the deletes taken out, in one lock.  *)
Copied(t) == [k \in Keys |-> IF writes[t][k] # Absent THEN writes[t][k] ELSE data[k]]

Commit(t) ==
    /\ status[t] = "live"
    /\ status' = [status EXCEPT ![t] = "done"]
    /\ data' = IF open = "open"
               THEN [k \in Keys |-> IF k \in deletes[t] THEN Absent ELSE Copied(t)[k]]
               ELSE data
    /\ UNCHANGED <<open, writes, deletes, got>>

Rollback(t) ==
    /\ status[t] = "live"
    /\ status' = [status EXCEPT ![t] = "done"]
    /\ UNCHANGED <<data, open, writes, deletes, got>>

Close ==
    /\ open = "open" /\ open' = "closed"
    /\ UNCHANGED <<data, status, writes, deletes, got>>

Next ==
    \/ Close
    \/ \E k \in Keys : Delete(k) \/ \E v \in Values : Put(k, v)
    \/ \E t \in Txs :
         \/ Begin(t) \/ Commit(t) \/ Rollback(t)
         \/ \E k \in Keys : TxDelete(t, k) \/ TxGet(t, k) \/ \E v \in Values : TxPut(t, k, v)
         \/ \E P \in SUBSET Keys : TxScan(t, P)

Spec == Init /\ [][Next]_vars

-----------------------------------------------------------------------------
(* A key is never both written and deleted by a transaction: what makes    *)
(* the order of Commit's two loops, and of Get's two lookups, immaterial.  *)
Disjoint == \A t \in Txs : \A k \in deletes[t] : writes[t][k] = Absent

Entry(t, k) ==
    IF k \in deletes[t] THEN <<Absent>>
    ELSE IF writes[t][k] # Absent THEN <<writes[t][k]>> ELSE <<>>

Store == INSTANCE LocalStore WITH
    Isolation <- "committed",
    buffer <- [t \in Txs |-> [k \in Keys |-> Entry(t, k)]],
    snap <- [t \in Txs |-> Empty]
=============================================================================
