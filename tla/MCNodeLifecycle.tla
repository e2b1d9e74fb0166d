--------------------------- MODULE MCNodeLifecycle ---------------------------
(* Instances of NodeLifecycle for TLC. *)
EXTENDS NodeLifecycle

CONSTANTS p, q

MCPositions == {p, q}

Node == [owns |-> {p, q}, marked |-> {}, notify |-> FALSE, daemon |-> FALSE, established |-> FALSE,
         drain |-> FALSE, permits |-> 1, closers |-> {"c1"}, views |-> {},
         hints |-> 0, fails |-> 0, fences |-> 0]

\* A restart among peers that serve both positions; one open fails.
Joiner == [Node EXCEPT !.marked = {p, q}, !.established = TRUE, !.fails = 1]

\* A node that leaves while it is still warming up.
JoinLeave == [Node EXCEPT !.marked = {p}, !.established = TRUE, !.drain = TRUE]

\* A graceful leave, called for twice.
Leaver == [Node EXCEPT !.owns = {p}, !.drain = TRUE, !.notify = TRUE, !.closers = {"c1", "c2"}]

\* A position that moves away or stays, a fence, and Close at any time.
Moved == [Node EXCEPT !.owns = {p}, !.hints = 1, !.views = {{}, {p}}, !.fences = 1]

\* Two view changes in a row, the second while the first is being handled.
Flapping == [Node EXCEPT !.owns = {p}, !.hints = 2, !.views = {{}}]

\* A second position moves away while the drain of the first is ending.
TwoDrains == [Node EXCEPT !.closers = {}, !.hints = 2, !.views = {{p}, {p, q}}]

\* shaled around a node that leaves; an open, or Open itself, fails.
Server == [Node EXCEPT !.owns = {p}, !.drain = TRUE, !.daemon = TRUE, !.fails = 1]

MCConfigs == {Joiner, JoinLeave, Leaver, Moved, Flapping, TwoDrains, Server}
=============================================================================
