---------------------------- MODULE RolloutServing ----------------------------
(***************************************************************************)
(* How generation requests are served while the weights change under them: *)
(* the load balancer, the clients that retry aborted requests, the vLLM    *)
(* replicas, and the trainer that pauses, reloads, removes and re-adds     *)
(* them.  The request itself is opaque: what is tracked is which weights   *)
(* produced it.                                                            *)
(*                                                                         *)
(*   verl/workers/rollout/llm_server.py             balancer and client    *)
(*   verl/workers/rollout/vllm_rollout/vllm_async_server.py      a replica *)
(*   verl/checkpoint_engine/base.py                 weight synchronisation *)
(*   verl/trainer/ppo/v1/trainer_separate_async.py, trainer_colocate_async.py *)
(*                                                                         *)
(* A training prompt is one request here (RolloutReplay has the sessions); *)
(* an attempt that raises is released and over like one that is answered.  *)
(* Validation prompts are over when _validate returns and are left out, as *)
(* are the eviction of routes (the cache holds ten thousand) and the tags  *)
(* of a batch that was sampled.                                            *)
(***************************************************************************)
EXTENDS Integers, FiniteSets

CONSTANTS
  Standalone,  \* replicas of their own (separate_async)
  Hybrid,      \* replicas that share the trainer's GPUs
  Request,     \* numbered requests; a registered prompt takes the next ones
  BatchSize,   \* data.train_batch_size
  SyncFails,   \* TRUE if the weight transfer may raise
  Configs      \* the trainer configurations considered, records of Config

(***************************************************************************)
(*   colocated  TRUE for colocate_async (which has no standalone replicas) *)
(*   pauses     TRUE for vLLM >= 0.12: aborting leaves the engine paused   *)
(*   aborts     FALSE if aborting at a replica may raise, which it swallows *)
(*   warmup     num_warmup_batches                                         *)
(*   sync       parameter_sync_step                                        *)
(*   test       test_freq                                                  *)
(*   wait       threshold of the "wait" strategy, 0 for "drop"             *)
(*   steps      total_training_steps                                       *)
(***************************************************************************)
Config ==
  [colocated : BOOLEAN, pauses : BOOLEAN, aborts : BOOLEAN, warmup : Nat, sync : Nat \ {0},
   test : Nat \ {0}, wait : Nat, steps : Nat \ {0}]

Server == Standalone \cup Hybrid

ASSUME ServingAssumption ==
  /\ IsFiniteSet(Server) /\ Standalone \cap Hybrid = {}
  /\ Standalone # {} /\ Hybrid # {}
  /\ IsFiniteSet(Request) /\ Request \subseteq Nat
  /\ BatchSize \in Nat \ {0}
  /\ SyncFails \in BOOLEAN
  /\ Configs \subseteq Config

VARIABLES
  (* the trainer *)
  config,    \* the configuration of this run, constant
  gs,        \* global_steps
  phase,     \* where the trainer thread is
  todo,      \* replicas the current gather has not handled yet
  warm,      \* warm-up batches still to register
  (* the balancer *)
  inflight,  \* _inflight_requests; its domain is the pool
  server,    \* _request_id_to_server, the sticky routes
  (* the replicas *)
  paused,    \* replicas whose engine accepts no generate call
  asleep,    \* replicas without weights and kv cache
  version,   \* version[s]: global_steps of the replica's weights
  missed,    \* replicas whose latest abort_all_requests raised (history)
  (* the clients *)
  born,      \* born[r]: step that registered the request, 0 before
  loc,       \* loc[r]: where the request is
  first,     \* min_global_steps of the client, NoTag before the first output
  last,      \* max_global_steps of the client
  releasing  \* requests whose release_server call is on its way

trainerVars == <<config, gs, phase, todo, warm>>
balancerVars == <<inflight, server>>
replicaVars == <<paused, asleep, version, missed>>
clientVars == <<born, loc, first, last, releasing>>
vars == <<trainerVars, balancerVars, replicaVars, clientVars>>

NoTag == -1

Phase == {"warmup", "register", "sample", "detach", "abort", "sleep", "update", "sync_abort",
          "sync_load", "sync_resume", "load", "resume", "attach", "next", "done", "raised"}
Loc == {"none", "ready", "routed", "running", "answered", "consumed"}

Pool == DOMAIN inflight

\* After on_init_end every replica has the initial weights and is in the pool.
Init ==
  /\ config \in Configs
  /\ gs = 1
  /\ phase = "warmup"
  /\ todo = {}
  /\ warm = config.warmup
  /\ inflight = [s \in IF config.colocated THEN Hybrid ELSE Server |-> 0]
  /\ server = [r \in {} |-> 0]
  /\ paused = {}
  /\ asleep = {}
  /\ version = [s \in Server |-> 0]
  /\ missed = {}
  /\ born = [r \in Request |-> 0]
  /\ loc = [r \in Request |-> "none"]
  /\ first = [r \in Request |-> NoTag]
  /\ last = [r \in Request |-> NoTag]
  /\ releasing = {}

-----------------------------------------------------------------------------
(* The balancer and the clients.                                           *)

LeastLoaded == {s \in Pool : \A t \in Pool : inflight[s] <= inflight[t]}

\* The sticky route while its replica is in the pool, else a least loaded one.
Candidates(r) ==
  IF r \in DOMAIN server /\ server[r] \in Pool THEN {server[r]} ELSE LeastLoaded

\* acquire_server; the calls of one worker reach the balancer in order, so the
\* release of the previous attempt has arrived.
Acquire(r) ==
  /\ loc[r] = "ready" /\ r \notin releasing
  /\ \E s \in Candidates(r) :
       /\ server' = [q \in DOMAIN server \cup {r} |-> IF q = r THEN s ELSE server[q]]
       /\ inflight' = [inflight EXCEPT ![s] = @ + 1]
  /\ loc' = [loc EXCEPT ![r] = "routed"]
  /\ UNCHANGED <<trainerVars, replicaVars, born, first, last, releasing>>

\* server.generate arrives; a paused engine keeps the call waiting.
Arrive(r) ==
  /\ loc[r] = "routed" /\ server[r] \notin paused
  /\ loc' = [loc EXCEPT ![r] = "running"]
  /\ UNCHANGED <<trainerVars, balancerVars, replicaVars, born, first, last, releasing>>

\* global_steps of an output: of the first and of the latest one.
Tag(R) ==
  /\ first' = [r \in Request |-> IF r \in R /\ first[r] = NoTag THEN version[server[r]] ELSE first[r]]
  /\ last' = [r \in Request |-> IF r \in R THEN version[server[r]] ELSE last[r]]

\* generate ends: it returns what it has, and the replica is released.
Answer(r) ==
  /\ loc[r] = "running" /\ server[r] \notin asleep
  /\ loc' = [loc EXCEPT ![r] = "answered"]
  /\ Tag({r})
  /\ releasing' = releasing \cup {r}
  /\ UNCHANGED <<trainerVars, balancerVars, replicaVars, born>>

\* Faulty variant: the count goes below zero.
MutReleased(r) ==
  IF server[r] \in Pool THEN [inflight EXCEPT ![server[r]] = @ - 1] ELSE inflight

\* Faulty variant: only requests that are over are counted down.
MutReleasedOver(r) ==
  IF server[r] \in Pool /\ inflight[server[r]] > 0 /\ loc[r] # "ready"
    THEN [inflight EXCEPT ![server[r]] = @ - 1] ELSE inflight

\* release_server: nothing to do for a replica that left the pool, and the count
\* stays at zero when add_servers has reset it meanwhile.
Released(r) ==
  IF server[r] \in Pool /\ inflight[server[r]] > 0
    THEN [inflight EXCEPT ![server[r]] = @ - 1] ELSE inflight

\* The route of a request that is over is not looked up again: it is forgotten.
Release(r) ==
  /\ r \in releasing
  /\ releasing' = releasing \ {r}
  /\ inflight' = Released(r)
  /\ server' = [q \in DOMAIN server \ (IF loc[r] = "ready" THEN {} ELSE {r}) |-> server[q]]
  /\ UNCHANGED <<trainerVars, replicaVars, born, loc, first, last>>

-----------------------------------------------------------------------------
(* The trainer: its program, and the prompts it registers and samples.     *)

IsLastStep == gs >= config.steps
Validates == IsLastStep \/ gs % config.test = 0

\* current_mode: the hybrid replicas serve while they are in the balancer.
Serving == Hybrid \subseteq Pool

\* What follows the weight synchronisation of a step: on_validate_begin switches
\* the hybrid replicas to rollout mode if they are not.
AfterSync == IF Validates /\ ~Serving THEN "load" ELSE "next"

\* After switch_to_rollout, or on_step_end if colocated.
AfterResume == IF config.colocated THEN "next" ELSE "attach"

\* Faulty variant: the hybrid replicas resume before they have the weights.
MutThenWake(p) ==
  CASE p = "detach" -> "abort" [] p = "abort" -> "sleep" [] p = "sleep" -> "resume"
    [] p = "resume" -> "update" [] p = "load" -> AfterResume [] p = "attach" -> "next"
    [] p = "sync_abort" -> "sync_load" [] p = "sync_load" -> "sync_resume"
    [] p = "sync_resume" -> AfterSync

\* Faulty variant: the standalone replicas resume before the transfer.
MutThenEarly(p) ==
  CASE p = "detach" -> "abort" [] p = "abort" -> "sleep" [] p = "sleep" -> "update"
    [] p = "load" -> "resume" [] p = "resume" -> AfterResume [] p = "attach" -> "next"
    [] p = "sync_abort" -> "sync_resume" [] p = "sync_resume" -> "sync_load"
    [] p = "sync_load" -> AfterSync

\* Faulty variant: the standalone replicas are not resumed.
MutThenPaused(p) ==
  CASE p = "detach" -> "abort" [] p = "abort" -> "sleep" [] p = "sleep" -> "update"
    [] p = "load" -> "resume" [] p = "resume" -> AfterResume [] p = "attach" -> "next"
    [] p = "sync_abort" -> "sync_load" [] p \in {"sync_load", "sync_resume"} -> AfterSync

\* The order of the calls of switch_to_trainer, of switch_to_rollout (on_step_end
\* if colocated), and of update_weights with a transfer backend.
Then(p) ==
  CASE p = "detach" -> "abort" [] p = "abort" -> "sleep" [] p = "sleep" -> "update"
    [] p = "load" -> "resume" [] p = "resume" -> AfterResume [] p = "attach" -> "next"
    [] p = "sync_abort" -> "sync_load" [] p = "sync_load" -> "sync_resume"
    [] p = "sync_resume" -> AfterSync

\* Which replicas the gathered call of a phase goes to.
Targets(p) ==
  CASE p \in {"abort", "sleep", "load", "resume"} -> Hybrid
    [] p \in {"sync_abort", "sync_load", "sync_resume"} -> Standalone
    [] OTHER -> {}

Go(p) == phase' = p /\ todo' = Targets(p)

\* _add_batch_to_generate; the prompts are interchangeable and taken in order.
Register ==
  \E G \in SUBSET {r \in Request : born[r] = 0} :
    /\ Cardinality(G) = BatchSize
    /\ \A r \in G, q \in Request \ G : born[q] = 0 => r < q
    /\ born' = [r \in Request |-> IF r \in G THEN gs ELSE born[r]]
    /\ loc' = [r \in Request |-> IF r \in G THEN "ready" ELSE loc[r]]

AddBatch ==
  /\ \/ phase = "warmup" /\ warm > 0 /\ Register /\ warm' = warm - 1 /\ UNCHANGED <<phase, todo>>
     \/ phase = "warmup" /\ warm = 0 /\ Go("register") /\ UNCHANGED <<warm, born, loc>>
     \/ phase = "register" /\ Register /\ Go("sample") /\ UNCHANGED warm
  /\ UNCHANGED <<config, gs, balancerVars, replicaVars, first, last, releasing>>

Answered == {r \in Request : loc[r] = "answered"}
Open == {r \in Request : loc[r] \in {"ready", "routed", "running"}}

\* The "wait" strategy: an unfinished prompt has reached the threshold.
Overdue ==
  config.wait > 0 /\ \E r \in Open : gs - born[r] + 1 >= config.wait * config.sync

\* The oldest BatchSize finished prompts, then on_sample_end.
Sample ==
  /\ phase = "sample" /\ ~Overdue
  /\ \E G \in SUBSET Answered :
       /\ Cardinality(G) = BatchSize
       /\ \A r \in G, q \in Answered \ G : born[r] <= born[q]
       /\ loc' = [r \in Request |-> IF r \in G THEN "consumed" ELSE loc[r]]
       /\ first' = [r \in Request |-> IF r \in G THEN NoTag ELSE first[r]]
       /\ last' = [r \in Request |-> IF r \in G THEN NoTag ELSE last[r]]
  /\ Go(IF config.colocated THEN "abort" ELSE IF Serving THEN "detach" ELSE "update")
  /\ UNCHANGED <<config, gs, warm, balancerVars, replicaVars, born, releasing>>

-----------------------------------------------------------------------------
(* The trainer: the replicas.                                              *)

\* Faulty variant: the hybrid replicas stay in the balancer.
MutRemaining == Pool

Remaining == Pool \ Hybrid

\* remove_replicas_from_balancer
Detach ==
  /\ phase = "detach"
  /\ inflight' = [s \in Remaining |-> inflight[s]]
  /\ Go(Then(phase))
  /\ UNCHANGED <<config, gs, warm, server, replicaVars, clientVars>>

\* The gathered call of this phase has returned from s; the next one begins when
\* it has returned from all.
Gather(s) ==
  /\ s \in todo
  /\ IF todo = {s} THEN Go(Then(phase)) ELSE todo' = todo \ {s} /\ UNCHANGED phase
  /\ UNCHANGED <<config, gs, warm>>

Running(s) == {r \in Request : loc[r] = "running" /\ server[r] = s}

\* The attempts R at s end with what they have; their clients merge the partial
\* output, release the replica and try again.
EndAttempts(s, R, pausing) ==
  /\ paused' = IF pausing THEN paused \cup {s} ELSE paused
  /\ loc' = [r \in Request |-> IF r \in R THEN "ready" ELSE loc[r]]
  /\ Tag(R)
  /\ releasing' = releasing \cup R

\* abort_all_requests: all that runs ends.  An exception on the way, with the
\* engine paused or not and any of the requests ended, is logged and returned as
\* a result nobody looks at.
AbortReplica(s) ==
  /\ phase \in {"abort", "sync_abort"} /\ Gather(s)
  /\ \/ EndAttempts(s, Running(s), config.pauses) /\ missed' = missed \ {s}
     \/ /\ ~config.aborts
        /\ \E R \in SUBSET Running(s), pausing \in {FALSE, config.pauses} :
             EndAttempts(s, R, pausing)
        /\ missed' = missed \cup {s}
  /\ UNCHANGED <<balancerVars, asleep, version, born>>

SleepReplica(s) ==
  /\ phase = "sleep" /\ Gather(s)
  /\ asleep' = asleep \cup {s}
  /\ UNCHANGED <<balancerVars, paused, version, missed, clientVars>>

\* Faulty variant: the interval is counted one too long.
MutSyncDue == gs % (config.sync + 1) = 0

SyncDue == gs % config.sync = 0

\* _update_actor, then on_step_end.
Update ==
  /\ phase = "update"
  /\ Go(IF config.colocated THEN "load" ELSE IF SyncDue THEN "sync_abort" ELSE AfterSync)
  /\ UNCHANGED <<config, gs, warm, balancerVars, replicaVars, clientVars>>

\* The new weights arrive at one replica; a hybrid one wakes up for them.
LoadReplica(s) ==
  /\ phase \in {"load", "sync_load"} /\ Gather(s)
  /\ version' = [version EXCEPT ![s] = gs]
  /\ asleep' = asleep \ {s}
  /\ UNCHANGED <<balancerVars, paused, missed, clientVars>>

\* The transfer raises: nothing resumes the replicas, and training ends.
TransferFails ==
  /\ SyncFails /\ phase \in {"load", "sync_load"}
  /\ Go("raised")
  /\ UNCHANGED <<config, gs, warm, balancerVars, replicaVars, clientVars>>

\* resume_generation
ResumeReplica(s) ==
  /\ phase \in {"resume", "sync_resume"} /\ Gather(s)
  /\ paused' = paused \ {s}
  /\ UNCHANGED <<balancerVars, asleep, version, missed, clientVars>>

\* add_servers: the counts of the replicas start from nothing.
Attach ==
  /\ phase = "attach"
  /\ inflight' = [s \in Pool \cup Hybrid |-> IF s \in Hybrid THEN 0 ELSE inflight[s]]
  /\ Go(Then(phase))
  /\ UNCHANGED <<config, gs, warm, server, replicaVars, clientVars>>

NextStep ==
  /\ phase = "next"
  /\ gs' = gs + 1
  /\ Go(IF IsLastStep THEN "done" ELSE "register")
  /\ UNCHANGED <<config, warm, balancerVars, replicaVars, clientVars>>

-----------------------------------------------------------------------------
Replica(s) == AbortReplica(s) \/ SleepReplica(s) \/ LoadReplica(s) \/ ResumeReplica(s)

Trainer ==
  \/ AddBatch \/ Sample \/ Detach \/ Update \/ TransferFails \/ Attach \/ NextStep
  \/ \E s \in Server : Replica(s)

Client(r) == Acquire(r) \/ Arrive(r) \/ Answer(r) \/ Release(r)

\* The training process has left _fit.
Terminated == phase \in {"done", "raised"} /\ UNCHANGED vars

Next == Trainer \/ (\E r \in Request : Client(r)) \/ Terminated

Spec == Init /\ [][Next]_vars

\* The trainer and every client are scheduled; a running request is answered.
FairSpec == Spec /\ WF_vars(Trainer) /\ \A r \in Request : WF_vars(Client(r))

-----------------------------------------------------------------------------
(* Properties.                                                             *)

\* Types of the variables.
TypeOK ==
  /\ config \in Configs
  /\ gs \in Nat \ {0}
  /\ phase \in Phase
  /\ todo \subseteq Server
  /\ warm \in Nat
  /\ Pool \subseteq Server /\ inflight \in [Pool -> Nat]
  /\ DOMAIN server \subseteq Request /\ server \in [DOMAIN server -> Server]
  /\ paused \subseteq Server
  /\ asleep \subseteq Server
  /\ version \in [Server -> Nat]
  /\ missed \subseteq Server
  /\ born \in [Request -> Nat]
  /\ loc \in [Request -> Loc]
  /\ first \in [Request -> Nat \cup {NoTag}]
  /\ last \in [Request -> Nat \cup {NoTag}]
  /\ releasing \subseteq Request

\* Requests that owe the balancer a release of s.
Held(s) ==
  {r \in DOMAIN server : server[r] = s /\ (loc[r] \in {"routed", "running"} \/ r \in releasing)}

\* get_inflight_count: exact for a replica that never left the pool, whatever is
\* aborted and retried; after a removal and a return, with releases of the time
\* before still on their way, never more than what the replica has.
CountsHonest ==
  \A s \in Pool :
    /\ inflight[s] <= Cardinality(Held(s))
    /\ (s \in Standalone \/ config.colocated) => inflight[s] = Cardinality(Held(s))

\* The GPUs of a hybrid replica belong to the trainer from abort to resume: no
\* request runs there, not even one that was routed before and arrives late.  The
\* exception is a replica whose own abort raised: it harms no other replica, and
\* its next abort makes good for it.
NoneRunsAsleep ==
  config.pauses =>
    \A r \in Request : loc[r] = "running" => server[r] \notin (asleep \cup paused) \ missed

\* No weights are replaced under a running attempt: the version that tags an
\* output produced all its tokens, unless the abort before the replacement raised
\* at that very replica.
OneVersionPerAttempt ==
  [][config.pauses =>
       \A s \in Server \ missed : version'[s] # version[s] => Running(s) = {}]_vars

\* Every validation is at a step that synchronises the standalone replicas.
Aligned ==
  config.colocated \/ \A n \in 1 .. config.steps :
    (n % config.test = 0 \/ n = config.steps) => n % config.sync = 0

\* A trajectory spans versions [min_global_steps, max_global_steps] when
\* validations are aligned: then no retry finds older weights than the last one.
SpanOrdered == Aligned => \A r \in Request : first[r] <= last[r]

\* Requests routed to hybrid replicas that have left for training.
Stranded ==
  {r \in DOMAIN server : /\ loc[r] \in {"routed", "running"}
                         /\ server[r] \in Hybrid \cap (paused \cup asleep)}

\* There are never more of them than the warm-up put in flight.
FewStranded == Cardinality(Stranded) <= BatchSize * config.warmup

\* Therefore they never keep sample() from filling its batch, and training ends;
\* unless "wait" waits for one of them.
TrainingEnds ==
  (config.wait = 0 \/ config.colocated) => <>(phase \in {"done", "raised"})

-----------------------------------------------------------------------------
(* What the documentation says and the code does not do.                   *)

\* max_off_policy_strategy "wait": wait all trajectories that reach the threshold
\* to finish; so they do.
OverdueFinish == (phase = "sample" /\ Overdue) ~> ~Overdue
=============================================================================
