-------------------------- MODULE MCRolloutReplay --------------------------
(* Configurations for model-checking RolloutReplay. *)
EXTENDS RolloutReplay

Trains(colocated, warmup, sync, threshold, strategy, filter, budget, outputs, steps, test) ==
  [colocated |-> colocated, warmup |-> warmup, sync |-> sync, threshold |-> threshold,
   strategy |-> strategy, filter |-> filter, budget |-> budget,
   outputs |-> outputs, steps |-> steps, test |-> test]

\* The sync trainer for two steps.
SyncConfigs == {Trains(TRUE, 0, 1, 8, "drop", FALSE, 0, 1, 2, 1)}

\* The same, and the group filter with standalone replicas, which generate all
\* the time, for one step: up to two generated batches of sessions with one row,
\* and one generated batch of sessions with up to two.
GroupConfigs ==
  SyncConfigs \cup {Trains(FALSE, 0, 1, 8, "drop", TRUE, 2, 1, 1, 1),
                    Trains(FALSE, 0, 1, 8, "drop", TRUE, 1, 2, 1, 1)}

\* Both strategies around small thresholds, with more batches in flight than the
\* threshold allows and fewer, a parameter sync every second step, and a
\* validation every third or none.
StalenessConfigs ==
  {Trains(TRUE, 1, 1, t, st, FALSE, 0, 1, 4, 0) : t \in 1 .. 3, st \in {"drop", "wait"}}
    \cup {Trains(FALSE, w, 2, t, st, FALSE, 0, 1, 4, 3 * (w - 1)) :
            w \in {1, 2}, t \in 1 .. 2, st \in {"drop", "wait"}}

\* The group filter with colocated replicas.
ColocatedFilterConfigs == {Trains(TRUE, 1, 1, 8, "drop", TRUE, 2, 1, 1, 0)}
=============================================================================
