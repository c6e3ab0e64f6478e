------------------------- MODULE CheckpointLifecycle -------------------------
(***************************************************************************)
(* What the asynchronous upload promises about the checkpoints of a run,   *)
(* whoever crashes: a whole checkpoint on disk is uploaded, and it leaves  *)
(* the disk only when it is stored and enough better ones are known.  What *)
(* is stored stays stored, and a validation is never changed.              *)
(* UploadQueue implements this specification.                              *)
(***************************************************************************)
EXTENDS Naturals, FiniteSets

CONSTANTS
  Checkpoint,  \* the steps that save a checkpoint
  Score,       \* what a validation can return
  KeepBest     \* how many of the best stay on disk

VARIABLES
  local,   \* checkpoints that are whole on disk
  stored,  \* checkpoints that are whole on ModelScope
  score    \* score[n]: validation of checkpoint n, 0 before

vars == <<local, stored, score>>

Init ==
  /\ local = {}
  /\ stored = {}
  /\ score = [n \in Checkpoint |-> 0]

\* At equal scores the earlier one is better.
Rivals(n) ==
  {m \in Checkpoint :
     score[m] # 0 /\ (score[m] > score[n] \/ (score[m] = score[n] /\ m < n))}

Beaten(n) == score[n] # 0 /\ Cardinality(Rivals(n)) >= KeepBest

Save(n) ==
  /\ n \notin local
  /\ local' = local \cup {n}
  /\ UNCHANGED <<stored, score>>

Measure(n) ==
  /\ score[n] = 0
  /\ \E v \in Score : score' = [score EXCEPT ![n] = v]
  /\ UNCHANGED <<local, stored>>

Upload(n) ==
  /\ n \in local
  /\ stored' = stored \cup {n}
  /\ UNCHANGED <<local, score>>

Prune(n) ==
  /\ KeepBest > 0
  /\ n \in local \cap stored /\ Beaten(n)
  /\ local' = local \ {n}
  /\ UNCHANGED <<stored, score>>

Next == \E n \in Checkpoint : Save(n) \/ Measure(n) \/ Upload(n) \/ Prune(n)

Spec == Init /\ [][Next]_vars
=============================================================================
