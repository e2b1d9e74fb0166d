----------------------------- MODULE SlateMarker -----------------------------
(* The slate factory's open and serving marker of one replica position, as the
   separate storage accesses they are: openRef reads the writer epoch and only
   then builds, writeServingMarker reads the marker and only then puts it. The
   handoff itself is OverlapHandoff, over the in-process factory's atomic marker;
   this module asks what the release gate still guarantees without atomicity. *)
EXTENDS Integers

CONSTANT Nodes

\* durable: the writer epoch in the position's manifest.
\* marker: the epoch in the serving marker, 0 when absent or unreadable.
\* node: where each node is, the epoch it was told (openRef's result, which the
\*   drain gate compares) and the epoch its build really took.
\* late: the epochs of puts that were given up and may still be applied.
\* served: history, the opens that were mounted.
\* overlapped: history, the nodes whose read went stale because another build took
\*   its epoch before theirs did.
VARIABLES durable, marker, node, late, served, overlapped
vars == <<durable, marker, node, late, served, overlapped>>

Absent == [pc |-> "absent", told |-> 0, real |-> 0]

Init ==
  /\ durable \in Nat
  /\ marker = 0
  /\ node = [n \in Nodes |-> Absent]
  /\ late = {} /\ served = {} /\ overlapped = {}

At(n, p) == node[n].pc = p
Goes(n, p) == node' = [node EXCEPT ![n].pc = p]

\* The intended epoch is a constant floor (acquireBaseEpoch) the manifest governs.
fenceEpochRef(n) ==
  /\ At(n, "absent")
  /\ node' = [node EXCEPT ![n] = [pc |-> "fenced", told |-> durable + 1, real |-> 0]]
  /\ UNCHANGED <<durable, marker, late, served, overlapped>>

\* Build takes the next epoch, whatever the read said.
openSlateRef(n) ==
  /\ At(n, "fenced")
  /\ durable' = durable + 1
  /\ node' = [node EXCEPT ![n] = [pc |-> "open", told |-> node[n].told, real |-> durable + 1]]
  /\ overlapped' = overlapped \cup {m \in Nodes \ {n} : At(m, "fenced")}
  /\ UNCHANGED <<marker, late, served>>

\* A failed build takes no epoch; one given up at the open's timeout may yet.
OpenFails(n) ==
  /\ At(n, "fenced")
  /\ node' = [node EXCEPT ![n] = Absent]
  /\ UNCHANGED <<durable, marker, late, served, overlapped>>

LateBuild ==
  /\ durable' = durable + 1
  /\ overlapped' = overlapped \cup {m \in Nodes : At(m, "fenced")}
  /\ UNCHANGED <<marker, node, late, served>>

\* The mount comes first and the marker is written outside the table's lock.
mountServing(n) ==
  /\ At(n, "open") /\ Goes(n, "mounted")
  /\ served' = served \cup {[told |-> node[n].told, real |-> node[n].real]}
  /\ UNCHANGED <<durable, marker, late, overlapped>>

\* The read half of writeServingMarker: a marker at or above the epoch is kept.
readServingMarker(n) ==
  /\ At(n, "mounted")
  /\ Goes(n, IF marker >= node[n].told THEN "owned" ELSE "putting")
  /\ UNCHANGED <<durable, marker, late, served, overlapped>>

\* A read error abandons the write and is only logged.
ReadFails(n) ==
  /\ At(n, "mounted") /\ Goes(n, "owned")
  /\ UNCHANGED <<durable, marker, late, served, overlapped>>

\* The put half has no condition: it lowers a marker written since the read.
PutObject(n) ==
  /\ At(n, "putting") /\ Goes(n, "owned")
  /\ marker' = node[n].told
  /\ UNCHANGED <<durable, late, served, overlapped>>

PutFails(n) ==
  /\ At(n, "putting") /\ Goes(n, "owned")
  /\ late' = late \cup {node[n].told}
  /\ UNCHANGED <<durable, marker, served, overlapped>>

LatePut(e) ==
  /\ e \in late
  /\ marker' = e /\ late' = late \ {e}
  /\ UNCHANGED <<durable, node, served, overlapped>>

\* The publish runs beside the reconcile: one that has not finished when the drain
\* begins may still put the epoch.
beginDrain(n) ==
  /\ node[n].pc \in {"mounted", "putting", "owned"}
  /\ node' = [node EXCEPT ![n].pc = "draining"]
  /\ late' = IF At(n, "owned") THEN late ELSE late \cup {node[n].told}
  /\ UNCHANGED <<durable, marker, served, overlapped>>

\* The gate is strict, so that the node's own marker does not release it.
drainCheck(n) ==
  /\ At(n, "draining") /\ marker > node[n].told
  /\ Goes(n, "released")
  /\ UNCHANGED <<durable, marker, late, served, overlapped>>

\* A crash, an eviction of a fenced mount, or the close after the release.
Gone(n) ==
  /\ ~At(n, "absent")
  /\ node' = [node EXCEPT ![n] = Absent]
  /\ late' = IF At(n, "putting") THEN late \cup {node[n].told} ELSE late
  /\ UNCHANGED <<durable, marker, served, overlapped>>

Step(n) ==
  \/ fenceEpochRef(n) \/ openSlateRef(n) \/ OpenFails(n) \/ mountServing(n)
  \/ readServingMarker(n) \/ ReadFails(n) \/ PutObject(n) \/ PutFails(n)
  \/ beginDrain(n) \/ drainCheck(n) \/ Gone(n)

Next ==
  \/ \E n \in Nodes : Step(n)
  \/ \E e \in late : LatePut(e)
  \/ LateBuild

Spec == Init /\ [][Next]_vars
-----------------------------------------------------------------------------
\* The marker never names an epoch at which nothing was mounted, in whatever order
\* the reads and puts of writeServingMarker, those given up included, reach the
\* store.
MarkerWasServed ==
  marker # 0 => \E s \in served : s.told = marker

\* A drain that drainCheck released had a successor that was told a higher epoch
\* and mounted there, although the marker may be lowered before and after.
ReleasedToSuccessor ==
  \A n \in Nodes : At(n, "released") =>
    \E s \in served : s.told > node[n].told

\* An open never tells an epoch above the one its build took; and while no build
\* falls between the read and the build of another open, a released drain was
\* already fenced: a later writer had taken the position, and mounted it. With
\* overlapping opens the told epochs no longer order the writers and the released
\* node can be the live one.
ReleasedAfterFence ==
  /\ \A s \in served : s.told <= s.real /\ s.real <= durable
  /\ overlapped = {} =>
       \A n \in Nodes : At(n, "released") =>
         node[n].real < durable /\ \E s \in served : s.real > node[n].real

=============================================================================
