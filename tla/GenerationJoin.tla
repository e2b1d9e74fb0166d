--------------------------- MODULE GenerationJoin ---------------------------
(***************************************************************************)
(* How a node that opens learns the cluster's generation and unit count    *)
(* before it mounts or routes anything: by the durable __cluster/init      *)
(* marker where there is a conditional store, which also decides who       *)
(* founds the cluster, or by asking the visible peers where there is none; *)
(* and how a reshard moves the generation of the running nodes and the     *)
(* marker meanwhile.                                                       *)
(*                                                                         *)
(* Which count a generation has is decided elsewhere (ReshardArbiter) and  *)
(* recorded in sizes; that all nodes give a generation the same count is   *)
(* assumed (an agreed count that moves up and back down between two ticks  *)
(* of a node breaks that: see reshardGenStep).  The marker's get and       *)
(* compare-and-set loop is one step, at its successful write.  The waits   *)
(* for a reshard to end are bounded, and a node that waited too long goes  *)
(* on or fails: they constrain nothing.                                    *)
(***************************************************************************)
EXTENDS Integers

CONSTANTS
  Nodes,
  Configured,   \* per node, its UnitCount
  Store         \* "marker" with a conditional store, "seeds" without one

VARIABLES
  marker,       \* __cluster/init: <<>>, or the one record it holds
  node,         \* per node, where its Open is and its genState
  sizes,        \* the unit count of every generation up to last (history)
  last,         \* the last generation agreed on, -1 before the founding
  founders      \* the nodes that founded (history)

vars == <<marker, node, sizes, last, founders>>

Record(g, c) == [gen |-> g, count |-> c]

\* initGenState: generation 0 at the configured count, nothing in flight.
Down(n) == [pc |-> "down", gen |-> 0, count |-> Configured[n], next |-> "none"]

Init ==
  /\ marker = <<>>
  /\ node = [n \in Nodes |-> Down(n)]
  /\ sizes = [g \in Nat |-> 0]
  /\ last = -1
  /\ founders = {}

At(n, pc) == node' = [node EXCEPT ![n].pc = pc]

Learns(n, pc, r) ==
  node' = [node EXCEPT ![n] = [@ EXCEPT !.pc = pc, !.gen = r.gen, !.count = r.count]]

\* The cluster begins at n's configured count.
Founds(n) ==
  /\ founders' = founders \cup {n}
  /\ sizes' = [sizes EXCEPT ![0] = Configured[n]]
  /\ last' = 0
  /\ At(n, "serving")

-----------------------------------------------------------------------------
(* Open with a conditional store.                                          *)

\* bootstrapViaMarker: adopt the record, or contend to write the first.
ReadMarker(n) ==
  /\ Store = "marker" /\ node[n].pc = "down"
  /\ IF marker = <<>> THEN At(n, "absent") ELSE Learns(n, "defer", marker[1])
  /\ UNCHANGED <<marker, sizes, last, founders>>

Found(n) ==
  /\ node[n].pc = "absent"
  /\ marker = <<>>
  /\ marker' = <<Record(0, Configured[n])>>
  /\ Founds(n)

\* Lost the race: read again.
Outrun(n) ==
  /\ node[n].pc = "absent"
  /\ marker # <<>>
  /\ At(n, "down")
  /\ UNCHANGED <<marker, sizes, last, founders>>

\* deferAdoptionWhileReshardInFlight reads the marker again ...
Reread(n) ==
  /\ node[n].pc = "defer"
  /\ Learns(n, "defer", marker[1])
  /\ UNCHANGED <<marker, sizes, last, founders>>

\* ... until the agreement is steady or the budget is spent.
Adopt(n) ==
  /\ node[n].pc = "defer"
  /\ At(n, "serving")
  /\ UNCHANGED <<marker, sizes, last, founders>>

-----------------------------------------------------------------------------
(* Open without one.                                                       *)

\* The coordinator says that this node founds, which it does once.
Form(n) ==
  /\ Store = "seeds" /\ node[n].pc = "down"
  /\ founders = {}
  /\ Founds(n)
  /\ UNCHANGED marker

\* seedGRPCAddrs: the visible peers, of which those that serve may answer.
Seeds(n) == {s \in Nodes \ {n} : node[s].pc = "serving"}

\* GenState: a seed in the middle of a reshard is no answer.
Steady(s) == node[s].next = "none"

\* trySeedGenSweep: the first seed with a steady answer is believed.  The
\* answer is committed after it was given.
Ask(n) ==
  /\ Store = "seeds" /\ node[n].pc = "down"
  /\ \E s \in Seeds(n) : Steady(s) /\ Learns(n, "answered", node[s])
  /\ UNCHANGED <<marker, sizes, last, founders>>

Believe(n) ==
  /\ node[n].pc = "answered"
  /\ At(n, "serving")
  /\ UNCHANGED <<marker, sizes, last, founders>>

\* learnGenerationFromSeed: without an answer within the budget, Open fails
\* rather than serve at generation 0.
Fail(n) ==
  /\ node[n].pc \in {"down", "absent"}
  /\ At(n, "failed")
  /\ UNCHANGED <<marker, sizes, last, founders>>

-----------------------------------------------------------------------------
(* A reshard, and restarts.                                                *)

\* The cluster agrees on the next generation's count.
Agree(c) ==
  /\ last >= 0
  /\ last' = last + 1
  /\ sizes' = [sizes EXCEPT ![last + 1] = c]
  /\ UNCHANGED <<marker, node, founders>>

Enter(n) ==
  /\ node[n].pc = "serving" /\ node[n].next = "none"
  /\ node[n].gen < last
  /\ node' = [node EXCEPT ![n].next = "moving"]
  /\ UNCHANGED <<marker, sizes, last, founders>>

\* advanceClusterInitMarker: only an existing marker, and only upwards.
Advanced(g) ==
  IF marker # <<>> /\ marker[1].gen < g THEN <<Record(g, sizes[g])>> ELSE marker

\* finalizeReshard writes the marker first; if it cannot, it retires nothing.
AdvanceMarker(n) ==
  /\ node[n].pc = "serving" /\ node[n].next = "moving"
  /\ marker' = Advanced(node[n].gen + 1)
  /\ node' = [node EXCEPT ![n].next = "marked"]
  /\ UNCHANGED <<sizes, last, founders>>

\* The tick ends early: the next one starts with the marker again.
Defer(n) ==
  /\ node[n].next = "marked"
  /\ node' = [node EXCEPT ![n].next = "moving"]
  /\ UNCHANGED <<marker, sizes, last, founders>>

CommitGeneration(n) ==
  /\ node[n].pc = "serving" /\ node[n].next = "marked"
  /\ node' = [node EXCEPT ![n] = [pc |-> "serving", gen |-> @.gen + 1,
                                  count |-> sizes[@.gen + 1], next |-> "none"]]
  /\ UNCHANGED <<marker, sizes, last, founders>>

\* A process dies, or Open failed and is tried again.
Restart(n) ==
  /\ node' = [node EXCEPT ![n] = Down(n)]
  /\ UNCHANGED <<marker, sizes, last, founders>>

Next ==
  \/ \E n \in Nodes :
       \/ ReadMarker(n) \/ Found(n) \/ Outrun(n) \/ Reread(n) \/ Adopt(n)
       \/ Form(n) \/ Ask(n) \/ Believe(n) \/ Fail(n)
       \/ Enter(n) \/ AdvanceMarker(n) \/ Defer(n) \/ CommitGeneration(n) \/ Restart(n)
  \/ \E c \in Nat : Agree(c)

Spec == Init /\ [][Next]_vars

-----------------------------------------------------------------------------
(* Properties.                                                             *)

\* The cluster is founded once, however many nodes come up at the same time.
OneFounder == \A m, n \in founders : m = n

\* Whatever a node serves at is a generation the cluster agreed on, with the
\* count it agreed on: a node that joins during or after a reshard, or whose
\* own configuration differs, never serves at a pair of its own making.
ServesAgreed ==
  \A n \in Nodes : node[n].pc = "serving" =>
    node[n].gen <= last /\ node[n].count = sizes[node[n].gen]

\* No node serves a generation the marker does not cover yet: when all of them
\* restart, none comes back below a generation whose parents are retired.
ServedIsDurable ==
  Store = "marker" =>
    \A n \in Nodes : node[n].pc = "serving" =>
      marker # <<>> /\ node[n].gen <= marker[1].gen

\* The marker, once written, is replaced only by that of a later generation.
MarkerAscends ==
  [][marker # <<>> => marker' = marker \/ (marker' # <<>> /\ marker[1].gen < marker'[1].gen)]_vars
=============================================================================
