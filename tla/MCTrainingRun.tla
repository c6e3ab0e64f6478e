----------------------------- MODULE MCTrainingRun -----------------------------
(* Configurations for model-checking TrainingRun. *)
EXTENDS TrainingRun

Trains(interval, save, test, maxKeep, keepBest, keepCurrent, starts) ==
  [interval |-> interval, save |-> save, test |-> test, maxKeep |-> maxKeep,
   keepBest |-> keepBest, keepCurrent |-> keepCurrent, starts |-> starts]

\* Teacher intervals within, across and not aligned with a step; no rotation,
\* one and two kept; retention with and without the current checkpoint.
RunConfigs ==
  {Trains(2, 1, 1, 0, 0, TRUE, 3), Trains(3, 1, 1, 2, 0, TRUE, 3), Trains(1, 2, 2, 1, 0, TRUE, 3),
   Trains(3, 1, 1, 0, 1, TRUE, 2), Trains(2, 1, 1, 0, 1, FALSE, 2), Trains(3, 1, 1, 0, 2, TRUE, 2), Trains(1, 1, 2, 0, 1, TRUE, 2)}

\* The standalone profile: the best checkpoint alone is kept.
ProfileConfigs == {Trains(2, 1, 1, 0, 1, FALSE, 2)}

\* keep_current is TRUE by default: the current checkpoint is kept beside the best.
PeakConfigs == {Trains(2, 1, 1, 0, 1, TRUE, 1)}
=============================================================================
