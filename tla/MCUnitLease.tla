----------------------------- MODULE MCUnitLease -----------------------------
(* Instances of UnitLease and AggregateScan for model checking.            *)
EXTENDS AggregateScan

CONSTANTS a, b

\* The lease moves from a to b, with a crash or a lost reply on the way.
SlateMove == [factory |-> "slate", owners |-> <<a, b>>, puts |-> 2, gets |-> TRUE,
              scans |-> FALSE, stalls |-> 0, faults |-> 1, epochs |-> 4]

\* An open is given up and completes later.
SlateStall == [SlateMove EXCEPT !.puts = 1, !.stalls = 1, !.faults = 0]

\* The lease moves to b and back.
SharedReturn == [SlateMove EXCEPT !.factory = "shared", !.owners = <<a, b, a>>,
                                  !.puts = 1, !.epochs = 5]

\* Fan-outs while the lease moves.
ScanMove == [SlateMove EXCEPT !.puts = 1, !.gets = FALSE, !.scans = TRUE, !.faults = 0]

MCConfigs == {SlateMove, SlateStall, SharedReturn, ScanMove}

=============================================================================
