--------------------------- MODULE GroupLifecycle ---------------------------
(***************************************************************************)
(* What the rollout pipeline promises about a GRPO group (one prompt and   *)
(* all its sessions), without saying how: a group is registered, becomes   *)
(* sampleable once its rollout is over, is handed to the trainer in a      *)
(* batch of exactly BatchSize groups, and is spent.  It never goes back.   *)
(* RolloutReplay implements this specification.                            *)
(***************************************************************************)
EXTENDS FiniteSets

CONSTANTS
  Uid,        \* prompt ids (uuid4 in the code)
  BatchSize   \* data.train_batch_size: groups per dataloader batch and per sample

VARIABLE stage   \* stage[u]: where group u is in its life

Stage == {"new", "open", "ready", "held", "spent"}

InStage(x) == {u \in Uid : stage[u] = x}

\* Every member of G moves to stage x.
Move(G, x) == stage' = [u \in Uid |-> IF u \in G THEN x ELSE stage[u]]

Init == stage = [u \in Uid |-> "new"]

\* The trainer registers the prompts of one dataloader batch.
Register ==
  \E G \in SUBSET InStage("new") : Cardinality(G) = BatchSize /\ Move(G, "open")

\* The rollout of one group ends, with or without an error.
Close == \E u \in InStage("open") : Move({u}, "ready")

\* The replay buffer hands out exactly BatchSize sampleable groups; those in D
\* contribute no trajectory (all dropped, or none was ever produced).
Take ==
  \E G \in SUBSET InStage("ready") :
    /\ Cardinality(G) = BatchSize
    /\ \E D \in SUBSET G :
         stage' = [u \in Uid |-> IF u \in D THEN "spent"
                                 ELSE IF u \in G THEN "held" ELSE stage[u]]

\* The trainer is done with some of the groups it holds.
Retire == \E G \in SUBSET InStage("held") : Move(G, "spent")

Next == Register \/ Close \/ Take \/ Retire

Spec == Init /\ [][Next]_stage
=============================================================================
