-------------------------- MODULE MCReshardDriver --------------------------
(* Finite instances of ReshardDriver.                                      *)
EXTENDS ReshardDriver, TLC

(* One unit at R=2, W=2 splits under a write, with a fault or a restart.   *)
Split == [kind |-> "split", slots |-> (0 :> {1, 2}), w |-> 2, passes |-> 1, writers |-> <<1>>,
          deletes |-> {}, restart |-> {}, faults |-> 1]

SplitRestart == [Split EXCEPT !.passes = 2, !.restart = {1}, !.faults = 0]

(* Two units at R=2, W=2 merge into one.                                   *)
Merge == [kind |-> "merge", slots |-> (0 :> {1, 2} @@ 1 :> {1, 2}), w |-> 2, passes |-> 1,
          writers |-> <<1>>, deletes |-> {}, restart |-> {}, faults |-> 0]

(* Two units at R=1 split on their owners, the first one restarting.       *)
Bisect == [kind |-> "r1", slots |-> (0 :> {1} @@ 1 :> {2}), w |-> 1, passes |-> 1,
           writers |-> <<1, 1>>, deletes |-> {2}, restart |-> {1}, faults |-> 1]

(* One storeless node splits its two units in the call of Reshard.         *)
Call == [kind |-> "inline", slots |-> (0 :> {1} @@ 1 :> {1}), w |-> 1, passes |-> 1,
         writers |-> <<1, 1, 1>>, deletes |-> {2}, restart |-> {}, faults |-> 2]

MCConfigs == {Split, SplitRestart, Merge, Bisect, Call}

BisectOnly == {Bisect}

=============================================================================
