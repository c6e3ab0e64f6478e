---------------------------- MODULE RolloutReplay ----------------------------
(***************************************************************************)
(* The rollout pipeline of the V1 trainer: agent-loop workers that run the *)
(* sessions of every prompt as concurrent coroutines, the TransferQueue    *)
(* that holds prompt markers and trajectories, the ReplayBuffer that polls *)
(* it, and the trainer loop that registers prompts, samples groups, trains *)
(* on them and clears them.                                                *)
(*                                                                         *)
(*   verl/trainer/ppo/v1/agent_loop_tq.py   the workers                    *)
(*   verl/trainer/ppo/v1/replay_buffer.py   sampling and staleness control *)
(*   verl/trainer/ppo/v1/trainer_base.py    the loop                       *)
(*   verl/trainer/ppo/v1/trainer_{sync,colocate_async,separate_async}.py   *)
(*                                          when the replicas may generate *)
(*                                                                         *)
(* A session puts all its rows (one per output of its agent loop) in one   *)
(* call and they are cleared together: <<uid, session>> stands for them    *)
(* and rows[uid][session] counts them.                                     *)
(***************************************************************************)
EXTENDS Integers, FiniteSets

CONSTANTS
  Uid,            \* prompt ids, numbered; a registered prompt takes a fresh one
  Session,        \* session ids of a prompt (rollout.n of them)
  BatchSize,      \* data.train_batch_size
  Configs         \* the trainer configurations considered, records of Config

(***************************************************************************)
(* What differs between trainers and experiments:                          *)
(*   colocated  TRUE for sync and colocate_async, FALSE for separate_async *)
(*   warmup     num_warmup_batches (0 in the sync trainer)                 *)
(*   sync       parameter_sync_step (1 unless separate_async)              *)
(*   threshold, strategy   max_off_policy_threshold, max_off_policy_strategy *)
(*   filter, budget   algorithm.filter_groups: enable, max_num_gen_batches *)
(*   outputs    the most outputs one session of the agent loop returns     *)
(*   steps, test   total_training_steps, test_freq                         *)
(***************************************************************************)
Config ==
  [colocated : BOOLEAN, warmup : Nat, sync : Nat \ {0}, threshold : Nat \ {0},
   strategy : {"drop", "wait"}, filter : BOOLEAN, budget : Nat, outputs : Nat \ {0},
   steps : Nat \ {0}, test : Nat]

ASSUME ConfigAssumption ==
  /\ IsFiniteSet(Uid)
  /\ IsFiniteSet(Session)
  /\ BatchSize \in Nat \ {0}
  /\ Configs \subseteq Config

ASSUME UidAssumption == Uid \subseteq Nat

VARIABLES
  config,    \* the configuration of this training run, constant
  gs,        \* PPOTrainer.global_steps
  phase,     \* where the trainer thread is
  warm,      \* warm-up batches still to register
  gens,      \* batches generated by the current group-filter loop
  marker,    \* marker[u]: status tag of the prompt key in TransferQueue
  born,      \* born[u]: the prompt's global_steps tag, 0 before registration
  sess,      \* sess[u][s]: progress of one session coroutine
  rows,      \* rows[u][s]: how many rows the session has put
  keys,      \* sessions whose rows are in TransferQueue
  view,      \* the replay buffer's last metadata snapshot
  picked,    \* the ones the trainer holds for this step
  awake,     \* TRUE while the replicas on the trainer's GPUs accept generation
  stuck,     \* sessions whose call waits at such a replica that left for training
  trained    \* trajectories the actor was updated with (history)

vars == <<config, gs, phase, warm, gens, marker, born, sess, rows, keys, view, picked, awake, stuck, trained>>
trainerVars == <<config, gs, phase, warm, gens, view, picked, trained>>
servingVars == <<awake, stuck>>

Trajectory == Uid \X Session
UidsOf(K) == {k[1] : k \in K}

Marker == {"absent", "pending", "running", "finished", "failure"}
SessionState == {"idle", "generating", "scoring", "posted", "empty", "failed"}
Phase == {"warmup", "register", "sample", "take", "filter", "step_end", "cleanup", "done", "raised"}

InFlight(st) == st \in {"generating", "scoring"}
Terminal == {u \in Uid : marker[u] \in {"finished", "failure"}}
Outstanding == {u \in Uid : marker[u] # "absent"}

Init ==
  /\ config \in Configs
  /\ gs = 1
  /\ phase = "warmup"
  /\ warm = config.warmup
  /\ gens = 0
  /\ marker = [u \in Uid |-> "absent"]
  /\ born = [u \in Uid |-> 0]
  /\ sess = [u \in Uid |-> [s \in Session |-> "idle"]]
  /\ rows = [u \in Uid |-> [s \in Session |-> 0]]
  /\ keys = {}
  /\ view = [terminal |-> {}, keys |-> {}]
  /\ picked = {}
  /\ awake = TRUE
  /\ stuck = {}
  /\ trained = {}

-----------------------------------------------------------------------------
(* Agent-loop worker: one _run_prompt coroutine per prompt, one            *)
(* _run_agent_loop coroutine per session.                                  *)

\* _run_prompt puts "running" and creates the session tasks.
StartPrompt(u) ==
  /\ marker[u] = "pending"
  /\ marker' = [marker EXCEPT ![u] = "running"]
  /\ sess' = [sess EXCEPT ![u] = [s \in Session |-> "generating"]]
  /\ UNCHANGED <<born, rows, keys, servingVars, trainerVars>>

\* Faulty variant: only the trainer's GPUs generate.
MutServed(u, s) == awake

\* Colocated replicas that sleep generate nothing; the standalone replicas of
\* separate_async always do, but not for a call that waits at another replica.
Served(u, s) == IF config.colocated THEN awake ELSE <<u, s>> \notin stuck

\* agent_loop.run returns.
Generate(u, s) ==
  /\ Served(u, s)
  /\ sess[u][s] = "generating"
  /\ sess' = [sess EXCEPT ![u][s] = "scoring"]
  /\ UNCHANGED <<marker, born, rows, keys, servingVars, trainerVars>>

\* _agent_loop_postprocess puts a row for each of the session's outputs.
Post(u, s) ==
  /\ sess[u][s] = "scoring"
  /\ sess' = [sess EXCEPT ![u][s] = "posted"]
  /\ \E n \in 1 .. config.outputs : rows' = [rows EXCEPT ![u][s] = n]
  /\ keys' = keys \cup {<<u, s>>}
  /\ UNCHANGED <<marker, born, servingVars, trainerVars>>

\* ... or returns early because the agent loop produced no output.
PostNothing(u, s) ==
  /\ sess[u][s] = "scoring"
  /\ sess' = [sess EXCEPT ![u][s] = "empty"]
  /\ UNCHANGED <<marker, born, rows, keys, servingVars, trainerVars>>

\* An exception anywhere in the session coroutine.
FailSession(u, s) ==
  /\ InFlight(sess[u][s])
  /\ sess' = [sess EXCEPT ![u][s] = "failed"]
  /\ UNCHANGED <<marker, born, rows, keys, servingVars, trainerVars>>

\* Faulty variant: the marker is put when the first session is done.
MutAllDone(u) == \E s \in Session : sess[u][s] \in {"posted", "empty"}

\* Faulty variant: a session without output is waited for.
MutAllPosted(u) == \A s \in Session : sess[u][s] = "posted"

\* asyncio.gather returns only when every session has returned without error.
AllDone(u) == \A s \in Session : sess[u][s] \in {"posted", "empty"}

\* asyncio.gather(*tasks) without return_exceptions raises at the FIRST error;
\* the sibling tasks are not cancelled and go on.
AnyFailed(u) == \E s \in Session : sess[u][s] = "failed"

FinishPrompt(u) ==
  /\ marker[u] = "running"
  /\ AllDone(u)
  /\ marker' = [marker EXCEPT ![u] = "finished"]
  /\ UNCHANGED <<born, sess, rows, keys, servingVars, trainerVars>>

FailPrompt(u) ==
  /\ marker[u] = "running"
  /\ AnyFailed(u)
  /\ marker' = [marker EXCEPT ![u] = "failure"]
  /\ UNCHANGED <<born, sess, rows, keys, servingVars, trainerVars>>

-----------------------------------------------------------------------------
(* Trainer: registration (_add_batch_to_generate).  The prompts' uuid4 ids *)
(* are interchangeable, so fresh ids are taken in order.                   *)

Register ==
  \E G \in SUBSET {u \in Uid : born[u] = 0} :
    /\ Cardinality(G) = BatchSize
    /\ \A u \in G, v \in Uid \ G : born[v] = 0 => u < v
    /\ marker' = [u \in Uid |-> IF u \in G THEN "pending" ELSE marker[u]]
    /\ born' = [u \in Uid |-> IF u \in G THEN gs ELSE born[u]]

\* Faulty variant: one batch too many.
MutMoreWarmUp == warm >= 0

MoreWarmUp == warm > 0

\* on_train_begin of the async trainers.
WarmUp ==
  /\ phase = "warmup"
  /\ \/ /\ MoreWarmUp
        /\ Register
        /\ warm' = warm - 1
        /\ UNCHANGED phase
     \/ /\ ~MoreWarmUp
        /\ phase' = "register"
        /\ UNCHANGED <<marker, born, warm>>
  /\ UNCHANGED <<config, gs, gens, sess, rows, keys, view, picked, servingVars, trained>>

Exhausted(n) == config.budget > 0 /\ n > config.budget

\* One registration per step, or one per turn of the group-filter loop, which
\* raises when its budget is spent.
AddBatch ==
  /\ phase = "register"
  /\ gens' = IF config.filter THEN gens + 1 ELSE gens
  /\ IF config.filter /\ Exhausted(gens + 1)
       THEN phase' = "raised" /\ UNCHANGED <<marker, born>>
       ELSE phase' = "sample" /\ Register
  /\ UNCHANGED <<config, gs, warm, sess, rows, keys, view, picked, servingVars, trained>>

-----------------------------------------------------------------------------
(* ReplayBuffer.sample                                                     *)

\* (global_steps - prompt_global_steps + 1), the dividend of the
\* staleness that is compared with the threshold.
Age(u) == gs - born[u] + 1
MaxAge == config.threshold * config.sync

\* Faulty variant: an in-flight prompt AT the threshold does not block.
MutOverdueInFlight ==
  \E u \in Outstanding \ Terminal : Age(u) > MaxAge

OverdueInFlight ==
  \E u \in Outstanding \ Terminal : Age(u) >= MaxAge

HasEnoughSamples ==
  /\ config.strategy = "wait" => ~OverdueInFlight
  /\ Cardinality(Terminal) >= BatchSize

\* The poll that lets sample() proceed; the earlier ones only overwrite the view.
Poll ==
  /\ phase = "sample"
  /\ HasEnoughSamples
  /\ view' = [terminal |-> Terminal, keys |-> keys]
  /\ phase' = "take"
  /\ UNCHANGED <<config, gs, warm, gens, marker, born, sess, rows, keys, picked, servingVars, trained>>

\* Faulty variant: the newest prompts first.
MutOldest(G) == \A u \in G, v \in view.terminal \ G : born[u] >= born[v]

\* sorted(..., key=prompt_global_steps)[:batch_size]: no unselected prompt of
\* the view is older than a selected one; ties are arbitrary (set iteration).
Oldest(G) == \A u \in G, v \in view.terminal \ G : born[u] <= born[v]

\* Faulty variant: staleness control keeps the session at the threshold + 1.
MutStale(u) == config.strategy = "drop" /\ Age(u) > MaxAge + 1

Stale(u) == config.strategy = "drop" /\ Age(u) > MaxAge

\* The trajectories of the selected prompts that the snapshot lists.
Gathered(G) == {k \in view.keys : k[1] \in G}

\* Faulty variant: the markers of failed prompts stay in TransferQueue.
MutClearMarkers(G) ==
  [u \in Uid |-> IF u \in G /\ marker[u] = "finished" THEN "absent" ELSE marker[u]]

ClearMarkers(G) == [u \in Uid |-> IF u \in G THEN "absent" ELSE marker[u]]

\* on_sample_end takes the replicas on the trainer's GPUs out of generation (in
\* separate_async only when they are in rollout mode).  The requests they run
\* are aborted and tried again; a call of separate_async that reaches its
\* replica after that waits there.
LeaveRollout ==
  /\ awake' = FALSE
  /\ IF awake /\ ~config.colocated
       THEN \E C \in SUBSET {c \in Trajectory : sess[c[1]][c[2]] = "generating"} :
              stuck' = stuck \cup C
       ELSE UNCHANGED stuck

\* Clears the prompt markers, gathers, drops what is too old, and runs
\* on_sample_end.  TransferQueue rejects an empty key list, so a batch without
\* trajectories ends in an error.
Take ==
  /\ phase = "take"
  /\ \E G \in SUBSET view.terminal :
       /\ Cardinality(G) = BatchSize
       /\ Oldest(G)
       /\ LET got == Gathered(G)
              dropped == {k \in got : Stale(k[1])}
          IN /\ marker' = ClearMarkers(G)
             /\ keys' = keys \ dropped
             /\ picked' = picked \cup (got \ dropped)
             /\ phase' = IF got \ dropped = {} THEN "raised"
                         ELSE IF config.filter THEN "filter" ELSE "step_end"
  /\ LeaveRollout
  /\ UNCHANGED <<config, gs, warm, gens, born, sess, rows, view, trained>>

-----------------------------------------------------------------------------
(* The dynamic final-reward group filter.                                  *)

\* Faulty variant: sessions are counted instead of rows.
MutComplete(u, K) == \A s \in Session : <<u, s>> \in K

\* The rows of group u among the sessions K.
Rows(u, K) == {r \in {u} \X Session \X (1 .. config.outputs) :
                 <<u, r[2]>> \in K /\ r[3] <= rows[u][r[2]]}

\* len(rows) == expected_group_size: rollout.n ROWS, whichever sessions put them.
Complete(u, K) == Cardinality(Rows(u, K)) = Cardinality(Session)

\* Accepted in earlier turns of the loop: the groups in picked that are not in
\* the batch just taken.
Earlier == {u \in UidsOf(picked) : u \notin view.terminal}

\* Faulty variant: only what this turn accepts is spared.
MutFilteredOut(kept) == {k \in picked : k[1] \in Earlier \/ k \notin kept}

FilteredOut(kept) == picked \ kept

\* Faulty variant: a refill waits for more groups without generating them.
MutAfterFilter(full) == IF full THEN "step_end" ELSE "sample"

AfterFilter(full) == IF full THEN "step_end" ELSE "register"

\* select_reward_variable_groups keeps at most the missing number of complete
\* groups with a varying reward (which ones vary is the rollout's affair); the
\* rest is cleared.  Control goes back to registration until the batch is full.
Filter ==
  /\ phase = "filter"
  /\ \E V \in SUBSET {u \in UidsOf(picked) \ Earlier : Complete(u, picked)} :
       \E A \in SUBSET V :
         LET remaining == BatchSize - Cardinality(Earlier)
             kept == {k \in picked : k[1] \in Earlier \cup A}
         IN /\ Cardinality(A) = IF Cardinality(V) < remaining THEN Cardinality(V) ELSE remaining
            /\ picked' = kept
            /\ keys' = keys \ FilteredOut(kept)
            /\ phase' = AfterFilter(Cardinality(A) = remaining)
  /\ UNCHANGED <<config, gs, warm, gens, marker, born, sess, rows, view, servingVars, trained>>

-----------------------------------------------------------------------------
(* The rest of the step: the update, the replicas woken, the clean-up.     *)

Validates == config.test > 0 /\ (gs >= config.steps \/ gs % config.test = 0)

\* Back to rollout: colocated replicas at every on_step_end, the replicas that
\* separate_async takes away only at on_validate_begin, where what waits at
\* them goes on.
ReturnToRollout ==
  IF config.colocated \/ Validates
    THEN awake' = TRUE /\ stuck' = {}
    ELSE UNCHANGED servingVars

\* _update_actor, on_step_end and the validation.
StepEnd ==
  /\ phase = "step_end"
  /\ trained' = trained \cup picked
  /\ ReturnToRollout
  /\ phase' = "cleanup"
  /\ UNCHANGED <<config, gs, warm, gens, marker, born, sess, rows, keys, view, picked>>

\* Faulty variant: the batch is not cleared from TransferQueue.
MutRetained == keys

\* tq.kv_clear(keys=batch.keys)
Retained == keys \ picked

Cleanup ==
  /\ phase = "cleanup"
  /\ keys' = Retained
  /\ picked' = {}
  /\ gs' = gs + 1
  /\ gens' = 0
  /\ phase' = IF gs >= config.steps THEN "done" ELSE "register"
  /\ UNCHANGED <<config, warm, marker, born, sess, rows, view, servingVars, trained>>

-----------------------------------------------------------------------------
Trainer == WarmUp \/ AddBatch \/ Poll \/ Take \/ Filter \/ StepEnd \/ Cleanup

Prompt(u) == StartPrompt(u) \/ FinishPrompt(u) \/ FailPrompt(u)

SessionStep(u, s) == Generate(u, s) \/ Post(u, s) \/ PostNothing(u, s)

\* The training process has left _fit.
Terminated == phase \in {"done", "raised"} /\ UNCHANGED vars

Next ==
  \/ Trainer
  \/ \E u \in Uid : Prompt(u)
  \/ \E u \in Uid, s \in Session : SessionStep(u, s) \/ FailSession(u, s)
  \/ Terminated

Spec == Init /\ [][Next]_vars

\* The trainer thread and every coroutine are scheduled; a session that is
\* served generates in bounded time (max_tokens), an error is never owed and
\* nothing is owed to a call that waits at a replica in training.
Fairness ==
  /\ WF_vars(Trainer)
  /\ \A u \in Uid : WF_vars(Prompt(u))
  /\ \A u \in Uid, s \in Session : WF_vars(SessionStep(u, s))

FairSpec == Spec /\ Fairness

-----------------------------------------------------------------------------
(* Properties.                                                             *)

\* Types of the variables.
TypeOK ==
  /\ config \in Configs
  /\ gs \in Nat \ {0}
  /\ phase \in Phase
  /\ warm \in Nat
  /\ gens \in Nat
  /\ marker \in [Uid -> Marker]
  /\ born \in [Uid -> Nat]
  /\ sess \in [Uid -> [Session -> SessionState]]
  /\ rows \in [Uid -> [Session -> 0 .. config.outputs]]
  /\ keys \subseteq Trajectory
  /\ view \in [terminal : SUBSET Uid, keys : SUBSET Trajectory]
  /\ picked \subseteq Trajectory
  /\ awake \in BOOLEAN
  /\ stuck \subseteq Trajectory
  /\ trained \subseteq Trajectory

\* sample() and the group filter clear keys while sessions write others and the
\* trainer reads the ones it holds: no trajectory of a group that still waits in
\* TransferQueue, and none the trainer holds, is ever cleared under them.
NothingLost ==
  /\ \A u \in Outstanding, s \in Session : sess[u][s] = "posted" => <<u, s>> \in keys
  /\ picked \subseteq keys

\* The markers and the trajectories come from one snapshot, taken while other
\* sessions write: a group none of whose sessions failed is trained on whole.
GroupsWhole ==
  \A u \in UidsOf(picked) :
    (\A s \in Session : sess[u][s] # "failed")
      => \A s \in Session : sess[u][s] = "empty" \/ <<u, s>> \in picked

\* With the group filter on, the actor is updated with exactly BatchSize groups
\* of rollout.n rows each, whatever failed or arrived late over the turns of the
\* refill loop.  A group without a session gets in only when another of its
\* sessions put more than one row.
FilteredBatchFull ==
  (config.filter /\ phase \in {"step_end", "cleanup"}) =>
    /\ Cardinality(UidsOf(picked)) = BatchSize
    /\ \A u \in UidsOf(picked) :
         /\ Cardinality(Rows(u, picked)) = Cardinality(Session)
         /\ (\A s \in Session : rows[u][s] <= 1) => \A s \in Session : <<u, s>> \in picked

\* A trajectory that nobody will clear (its marker is gone and the trainer does
\* not hold it) comes from a group in which a session failed.
LeaksOnlyFromFailures ==
  \A u \in UidsOf(keys \ picked) :
    u \in Outstanding \/ \E s \in Session : sess[u][s] = "failed"

\* sample() blocks until BatchSize groups end: whenever it is called, enough
\* registered groups have not been consumed, refills included.
SupplyCoversDemand ==
  phase = "sample" => Cardinality(Outstanding) = BatchSize * (config.warmup + 1)

\* What the two strategies give together with oldest-first sampling and a fixed
\* number of batches in flight.  "drop": no trajectory spans more than
\* threshold versions.  "wait": blocking on overdue in-flight prompts alone does
\* not bound the age of finished ones, the supply in flight does.
StalenessBounded ==
  (phase = "step_end" /\ ~config.filter) => \A u \in UidsOf(picked) :
    Age(u) <= IF config.strategy = "drop" THEN MaxAge
              ELSE config.warmup + (IF MaxAge > 2 THEN MaxAge - 1 ELSE 1)

\* The groups go through the life cycle of GroupLifecycle: registered in
\* batches, sampled at most once, in batches of BatchSize, never resurrected by a
\* late status or a late trajectory.
StageOf(u) ==
  IF born[u] = 0 THEN "new"
  ELSE IF u \in Terminal THEN "ready"
  ELSE IF u \in Outstanding THEN "open"
  ELSE IF u \in UidsOf(picked) THEN "held" ELSE "spent"

Lifecycle == INSTANCE GroupLifecycle WITH stage <- [u \in Uid |-> StageOf(u)]

ImplementsLifecycle == Lifecycle!Spec

\* Sessions that fail, return nothing, are overtaken by the trainer or wait at a
\* replica in training never leave it waiting for groups that cannot come:
\* training ends (or raises).  "wait" with the replicas of separate_async and
\* prompts in flight is left out: there one overdue call can block for ever (see
\* OverdueFinish of RolloutServing).
TrainingEnds ==
  (config.colocated \/ config.strategy = "drop" \/ config.warmup = 0)
    => <>(phase \in {"done", "raised"})

-----------------------------------------------------------------------------
(* What the documentation says and the code does not do.                   *)

\* _sample_reward_variable_batch: it regenerates groups until the batch is full
\* (or its budget is exhausted).
RefillCompletes ==
  (phase = "register" /\ gens > 0) ~> (phase \in {"step_end", "raised"})
=============================================================================
