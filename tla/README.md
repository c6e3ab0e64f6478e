# Formal models of VERPO

VERPO trains language models with reinforcement learning. Its own code
(`risk_aware_opsd/`, `scripts/`, `pipeline/`) prepares data, resolves launch
profiles and defines the objectives; the training itself runs in a modified veRL
(`verl/verl/`), whose V1 trainer, checkpoint upload, retention and teacher code are
specific to this repository. The hard behaviour is there: coroutines that generate while
a trainer samples and clears, replicas that lose their weights under requests on their
way, ranks that write one checkpoint together, and an upload thread that deletes
checkpoints while the trainer writes new ones and may die at any moment.

Paths below are relative to `src/`; `v1/` is `verl/verl/trainer/ppo/v1/`, other short
paths are under `verl/verl/`.

## Inventory

| Part | Code | State | Operations | What is hard | What makes it correct |
|---|---|---|---|---|---|
| Agent-loop workers | `v1/agent_loop_tq.py`, `experimental/agent_loop/agent_loop.py` | one coroutine per prompt, one per session | start, generate, post, finish, fail | sessions interleave, fail, return nothing, outlive their prompt's failure | terminal marker only when the group is complete or a session failed |
| Replay buffer | `v1/replay_buffer.py` | snapshot of markers and trajectories | poll, wait, select oldest, clear markers, drop stale | snapshot is old when used; thresholds | nothing lost or split, each group used once, staleness bounded, no endless wait |
| Trainer loop | `v1/trainer_base.py`, `trainer_{sync,colocate_async,separate_async}.py` | `global_steps`, batch, replicas awake or not | warm-up, register, sample, filter and refill, update, clear | refills, replicas that pause between steps | optimizer batch full, TransferQueue left clean |
| Load balancer, partial rollout | `workers/rollout/llm_server.py` | routes, in-flight counts | acquire, release, add, remove, abort and retry | release after remove and add, retry elsewhere | counts never exceed the load, no request is lost |
| Weight sync, replicas | `checkpoint_engine/base.py`, `workers/rollout/vllm_rollout/vllm_async_server.py`, `v1/trainer_separate_async.py` | replicas paused, asleep, their version | abort, sleep, transfer, resume, switch | requests that arrive late, an error in between, two sets of replicas | an attempt has one version, nothing runs on a paused replica |
| Actor-side teacher | `trainer/distillation/snapshot_teacher.py`, `workers/engine_workers.py` | shadow parameters, counters, per rank | after update, swap, save, load | skipped updates, restarts, ranks | shadow at the right update, equal on all ranks |
| Checkpoint saving and resume | `v1/trainer_base.py`, `utils/checkpoint/{fsdp_,}checkpoint_manager.py` | directories, tracker file | save by all ranks, write tracker, rotate, resume | crash in the middle, tracker with two writers | resume from one whole checkpoint |
| Sync retention | `utils/checkpoint/best_checkpoint_retention.py` | manifest with the history | rank, prune, check, write tracker and manifest | crash between deletion and record | the best stay; tracker and directories agree |
| Async ModelScope upload | `utils/checkpoint/modelscope_upload.py` | job, validation, result and retention records; executor queue, futures | enqueue, recover, upload, rank, prune, audit, drain | runs beside the trainer; recovery from any prefix of a job | only uploaded checkpoints are pruned, the best stay, every saved one is uploaded |
| Archiver (Hugging Face Trainer checkpoints) | `scripts/archive_training_checkpoints.py` | archive, lock | poll, copy, publish | trainer rotates during the copy | archived means complete |
| Data and launch guards | `scripts/prepare_sdpo_data.py`, `check_runtime_identity.py`, `launch_verpo_verl.py` | installed files, manifests | install, verify, refuse | crash between two files | no run on mixed data or foreign checkpoints |
| Evidence selection, objectives, rewards, configuration, packaging | `risk_aware_opsd/*.py`, `trainer/distillation/verpo_*.py`, ... | tensors, text, YAML | - | numeric | not for a model checker |

Interaction: the trainer registers prompts with the workers (Ray calls) and sees
their progress only through TransferQueue, an external store of markers (one per
prompt) and trajectories (a row for each output of a session). The workers' clients ask the balancer
for a replica, call it, and release it; the trainer removes, pauses, reloads and re-adds
replicas under them. After the updates of a step, which the teacher follows on each
rank, the ranks save; then the driver writes the tracker, validates, and either prunes
by itself or hands the step to the upload queue, whose thread shares the checkpoint
directory and the tracker file with it without a lock. A restart knows only what the
disk holds. `PROJECT.json` lists all components and the hazards with the line where
each bites.

## Modules

- **GroupLifecycle**: the abstract promise about a GRPO group, as five stages (new,
  open, ready, held, spent) and four actions.
- **RolloutReplay**: workers, TransferQueue, replay buffer and trainer loop. One action
  per coroutine step (`StartPrompt`, `Generate`, `Post`, `PostNothing`, `FailSession`,
  `FinishPrompt`, `FailPrompt`) and per trainer step that another actor can observe
  (`WarmUp`, `AddBatch`, `Poll`, `Take`, `Filter`, `StepEnd`, `Cleanup`).
- **RolloutServing**: what `Generate` hides: balancer, clients, replicas and weight versions.
  Client: `Acquire`, `Arrive`, `Answer`, `Release`. Trainer: `AddBatch`, `Sample`, `Detach`,
  then one action per replica of each gathered call (`AbortReplica`, `SleepReplica`,
  `LoadReplica`, `ResumeReplica`), `Update`, `TransferFails`, `Attach`, `NextStep`. `Then`
  is the order in which the trainer calls them.
- **TrainingRun**: updates and teacher, the save by all ranks (`BeginSave`, `WriteShard`,
  `Register`, `WriteTeacher`, `WriteData`, `EmptyTracker`, `WriteTracker`), synchronous
  retention (`Validate`, `Prune`, `PruneSome`, `Pruned`, `WriteManifest`), `Load`, and
  `Restart`, which may come between any two of them.
- **UploadQueue**: the asynchronous alternative to that retention. Trainer thread (save
  file by file, truncate and write the tracker, open and recover the queue, record the
  validation, enqueue, drain), upload thread (start, validate and hash, upload, select,
  prune file by file, verify, write tracker, write audit, finish, or fail), and `Crash`,
  which keeps the disk, drops the process and resumes as `_load_checkpoint` does.
- **CheckpointLifecycle**: the abstract promise of UploadQueue about the checkpoints of a
  run: which are whole on disk, which are whole on ModelScope, and their scores.
- **RolloutReplay_proofs**, **RolloutSupply_proofs**; **RolloutServing_proofs**;
  **TrainingRun_proofs**, **TrainingDisk_proofs**, **TrainingSpace_proofs**;
  **UploadQueue_proofs**, **UploadDrain_proofs**: theorems about them.
- **MCRolloutReplay**, **MCRolloutServing**, **MCTrainingRun**, **MCUploadQueue**: values of
  constants for TLC.

`config` is chosen once in `Init`, so one run covers several trainers. Definitions called
`Mut...` are deliberately faulty variants, used by no specification; each shows which bug
a property would catch.

RolloutReplay and RolloutServing are two views of one trainer loop: the first has sessions,
groups, the filter and TransferQueue and only knows whether replicas are awake, the second
has one request per prompt and knows where it is and with which weights. TrainingRun and
UploadQueue likewise share the save; which of them applies is decided by
`modelscope_upload.async_enabled`.

### What RolloutReplay abstracts

A trajectory is the pair (prompt, session): a session's rows, one per output of its agent
loop, are written in one put, and `rows` counts them, because the group filter compares the
number of rows with `rollout.n`. A group that lacks a session is therefore accepted when another
session put two rows, and a group of whole sessions with extra rows is rejected, as in the code.
Rewards appear only as the filter's free choice of the groups whose rewards vary. Every prompt has
`rollout.n` sessions: the override `__rollout_n__` of `agent_loop_tq.py:126` is left out. TransferQueue is external and modelled from its use: puts, `kv_list` and
`kv_clear` are atomic, an empty key list is rejected, so a step whose batch is empty
ends in phase "raised". `Poll` is the poll that lets `sample()` proceed; the earlier
ones only overwrite the view. `Take` covers the clearing of markers, the gathering,
the dropping and `on_sample_end`; between `Poll` and `Take` workers go on. A session may
fail at any time. With colocated replicas, in-flight sessions wait from `Take` until `StepEnd`. In
separate_async the standalone replicas go on; of the sessions generating when the hybrid ones leave
(`LeaveRollout`) any may be at such a replica, and is `stuck` until a validation brings it back
(`ReturnToRollout`). The validation partition, which uses other keys, the
critic and the metrics are left out.

### What RolloutServing abstracts

An engine is external: `pause_generation` ends what runs and keeps later calls waiting
(vLLM 0.12 and later, `pauses`), or only ends what runs (before). An aborted attempt
returns what it has; the client keeps the version of its first output and of its latest.
Token lists, limits and the shared prefix cache are left out. A replica that is asleep
answers nothing. `abort_all_requests` logs any exception and returns normally
(`vllm_async_server.py:778`): where `aborts` is FALSE, `AbortReplica` may leave any of the
requests running and the engine paused or not, and the trainer goes on. The history
variable `missed` remembers where that happened; `resume_generation` and `sleep` do not catch, and
their errors are left out. `wait_for_requests_to_drain`, which a sleep may call first, waits for
data-parallel engines only and is left out. Ray delivers the calls of one worker in order, so a client's next
`acquire_server` follows its release; releases of other requests may be arbitrarily late.
Validation prompts are over when `_validate` returns and are left out; that validation
switches the hybrid replicas to rollout mode is not. Prompts are taken from `Request` in
order.

### What TrainingRun abstracts

Weights are lineages: for each applied update, the incarnation that applied it. Two
incarnations that resume from one checkpoint and differ in their data thus differ. A
rank's model, optimizer, scheduler and RNG files are its shard; a file exists when its
write has ended, and `rmtree` is one step or leaves any part behind. An update may be
skipped (gradient norm not finite), on all ranks alike. `None` and `Torn` stand for a
tracker that is absent or empty. Two prunings in one retention are made in the order of
step numbers, which is the directory listing's order for equally many digits. EMA
teachers keep time like snapshots at every update. Asynchronous save, HDFS and the critic
are left out.

### What UploadQueue abstracts

A step is one validation interval. A checkpoint has two actor files and `data.pt`;
making the directory is one step with its first file, and file contents are the
incarnation of the process that wrote them. JSON records are replaced atomically by
the code and so are one assignment; the tracker is opened with truncation and is two.
`rmtree` deletes file by file in any order and fails when the trainer adds a file
to the directory meanwhile. An upload is one step, with success or an error.
Left out: the synchronous upload, the check that `keep` was not changed between
incarnations, critic files, repository creation.

## Runs

| Run | Question | Result |
|---|---|---|
| `rollout_groups` | Do sampling, filtering and clearing race with sessions without losing, splitting or resurrecting a group? Does the pipeline implement GroupLifecycle? Does training end whatever fails? | holds |
| `rollout_staleness` | How old can a trained trajectory be under drop and wait? Does training end, with calls stuck at replicas in training (except wait with separate_async and batches in flight: `rollout_wait`)? | holds: drop at most the threshold; wait at most warm-up batches plus max(1, threshold - 1) |
| `rollout_serving` | Are counts, weight versions and progress right while replicas pause, sleep, reload, leave and return, and an abort's error is swallowed? | holds, but for the replica whose abort raised |
| `training_run` | What does a run resume from, where is its teacher, what is on disk, after crashes anywhere? | holds, within the conditions below |
| `upload_restart` | With failing uploads and a crash at any point: is what is pruned uploaded, the best kept, everything uploaded when the queue has drained, the drain finite? Does the queue implement CheckpointLifecycle? | holds |
| `rollout_refill` | Does the group filter refill its batch with colocated replicas? (`trainer_base.py:669`) | violated: `sample()` waits for sleeping replicas |
| `rollout_wait` | Does the wait strategy wait for something that finishes? (`ppo_trainer.yaml:235`) | violated: it may wait for a request at a replica paused for training |
| `retention_crash` | Are the retained checkpoints the best validated ones? (`rlcsd.sh:271`) | violated: a crash loses the last score |
| `retention_peak` | Is the peak of checkpoints on disk `keep_best` + 1? (`best_checkpoint_retention.py:93`) | violated with `keep_current` |
| `upload_tracker` | Does the tracker always name a loadable checkpoint? (`trainer_base.py:1025`) | violated by `write_text(max(existing_after))` |
| `upload_failed_pruned` | Are failed checkpoints never pruned? (`modelscope_upload.py:588`) | violated |
| `upload_forgotten` | Is everything uploaded when a resumed run ends? | violated: the queue is never opened |

Properties, and what would break them:

- `NothingLost`, `GroupsWhole`, `LeaksOnlyFromFailures`: every posted trajectory of a waiting
  group is in TransferQueue, a group without failure is trained on whole, and a
  trajectory that nobody will clear belongs to a group in which a session failed
  (such leaks do happen: a failed group's other sessions post later).
- `FilteredBatchFull`: after any number of refills the batch has exactly `BatchSize` groups of
  exactly `rollout.n` rows, and no session is missing where each put at most one.
- `SupplyCoversDemand`: whenever `sample()` is entered, exactly warm-up + 1 batches are
  outstanding, the reason why it can return.
- `StalenessBounded`: `wait` blocks on unfinished overdue prompts only, so its bound comes
  from the batches in flight and the oldest-first order together.
- `ImplementsLifecycle` of RolloutReplay: refinement of GroupLifecycle; a group is never sampled
  twice.
- `CountsHonest`: `add_servers` sets the count of a returning replica to zero while releases
  of the time before are on their way. They can make the count too low, never too high;
  for replicas that never leave, it is exact.
- `NoneRunsAsleep`, `OneVersionPerAttempt`: an abort reaches only what already runs. What
  arrives later has to wait at the paused engine, or it would run on weights that are
  being replaced; hence the condition `pauses`. A replica whose own abort raised is set
  apart (`missed`): it runs requests while it sleeps and across versions. What the properties say
  is that it spoils no other replica, and that its next abort makes good for it.
- `SpanOrdered`: a trajectory's version interval [min, max] is not inverted, provided that
  validations fall on parameter syncs. Otherwise a request can move from a hybrid replica
  loaded for validation to a standalone one with older weights; the staleness metrics
  of `trainer_base.py:2348` then count a span of zero or less.
- `FewStranded`: what waits at paused hybrid replicas is bounded by the warm-up batches, so
  enough requests stay for `sample()`.
- `TeacherExact`: the teacher is the student at the last multiple of the interval of applied
  updates, counted over restarts, and ranks agree. With retention it is stated for one
  restart: terminal pruning can remove the checkpoint the tracker names; a crash there
  makes the next start begin from scratch; its retention writes `max(existing_steps)`, a
  step of the abandoned run, into the tracker; a crash while that step is saved over in
  place leaves shards of two runs, which the third start loads.
- `TrackerNamesWhole`: when the tracker is written, the checkpoint it names is whole: all
  shards and teachers of one moment, and `data.pt`. For retention's write this holds
  until the first restart.
- `ResumeWhole`: it stays whole, without retention. With `max_actor_ckpt_to_keep` = 1 there is
  a window (rotation on rank 0 before the other teachers and the tracker are written),
  although `checkpoint_manager.py:156` promises otherwise; that case is excluded.
- `BestOnDisk`: until the first restart the best checkpoints are whole on disk, also while
  others are being deleted. Rotation is excluded: the launch scripts that set retention set
  `max_actor_ckpt_to_keep=null` (`src/pipeline/verl_math/engines/sdpo_section3.sh:416`).
- `PeakBounded`, `ActorsBounded`: disk use. Without `keep_current`, one directory more per start
  than the `keep_best` that retention keeps,
  provided that every save is validated (`save_freq` a multiple of `test_freq`, as in the launchers
  that set retention; otherwise unvalidated checkpoints add up until the next retention).
  With `keep_current` there is one more, which `retention_peak` shows against
  `peak_full_checkpoints` (`best_checkpoint_retention.py:93`). Rotation forgets earlier incarnations.
- `PrunedOnlyUploaded`: what is pruned has a whole checkpoint of its step on ModelScope. It need not be
  the same one: after a crash a step may be saved again while its old job counts as complete.
- `DrainedUploaded`: a run that opened its queue and ends has uploaded everything.
- `BestAreLocal`: at the end the disk holds the `KeepBest` best checkpoints, complete,
  whatever the order of uploads.
- `ImplementsLifecycle` of UploadQueue: refinement of CheckpointLifecycle. Whatever crashes and
  however saves, uploads and prunings interleave, only a whole checkpoint is uploaded, what
  is stored stays stored, a score never changes, and a checkpoint stops being whole on disk
  only when it is stored and `KeepBest` better ones are known.
- `DrainEnds`, `TrainingEnds`: liveness. Both `TrainingEnds` exclude wait with separate_async (in
  RolloutReplay only with batches in flight), which `rollout_wait` refutes.

Also reachable, and stated by no run:
- in `training_run`, an empty tracker after a crash between truncation and writing, on which every
  later start raises ValueError, and a crash in a half-done pruning after which retention keeps a
  directory without files;
- in `rollout_groups`, a prompt marked failed while sibling sessions are generating, though
  `replay_buffer.py:58` says that they are finished;
- in `upload_restart`, a step saved again after a crash whose new bytes are pruned under its old upload;
- in `rollout_serving`, requests running on a sleeping replica whose abort raised, though
  `checkpoint_engine/base.py:443` says that every in-flight request is aborted.

### Bounds

`rollout_groups`: two groups of two sessions per batch; two batches without the filter, or two
generated batches with it, so a group is taken whole or with a failed session,
an accepted group waits through a refill, and the refill budget is exhausted. A third configuration lets a session put one or two rows, so
groups with a missing session pass and whole ones fail. Steps are bounded by
`config.steps`; the four prompt ids suffice for the batches a configuration
registers. `rollout_staleness` has one session per prompt, thresholds 1 to 3, warm-up 1 and 2, sync every
one or two steps, four steps, and separate_async with a validation every third step and with
none: ages below, at and above every threshold occur, and stuck calls that return and that do not.

`rollout_serving`: two standalone replicas and a hybrid one, batches of one request, warm-up 0
and 1, two or three steps: a request is aborted, moves between both kinds of replica, is
stranded on a hybrid one and is released after it left and returned. `ServingConfigs` has
aligned and misaligned validations, both vLLM behaviours, colocate_async with both
strategies, and in three of them aborts that may raise, with a request in flight across the update,
and with a replica that is aborted again after it returned. `rollout_wait` needs four steps to pass the threshold of 2.

`training_run`: two ranks, three steps of two updates, teacher intervals 1, 2 and 3 (within, at
and across a step), rotation with none, one and two kept, retention of one and two with and
without the current one, saving at every step and every second one, two scores, and two
restarts (one with retention) at any point. `retention_crash` and `retention_peak` use one update
per step.

`upload_restart` has four validations of which one does not save, job files in lexicographic
order (`SparseByName`: 100 before 50), two scores (ties and both orders), one kept
checkpoint plus the current one, failing uploads and `MaxCrashes` = 1. `SaveSteps`, `Score` and the
crash bound of the three other upload runs are the smallest that show the violation.

Deadlock is checked except in `rollout_refill` and `rollout_wait`, whose subject is a system
that stops, and in the runs of TrainingRun, where the last start ends; elsewhere a process
that has left `_fit` stutters in `Terminated`.

### Fairness

`RolloutReplay`: weak fairness of the trainer thread, of each prompt coroutine and of each
session's regular steps: the event loop and the thread are scheduled, and
generation is bounded by `max_tokens`. No fairness on `FailSession`: an error is never
owed. Generation is not enabled while colocated replicas sleep, nor for a call that is stuck at a replica in
training, so nothing is promised there.
`RolloutServing`: weak fairness of the trainer and of each client: calls are delivered
and a running request ends. A call to a paused engine is not enabled. `UploadQueue`: weak
fairness of the trainer thread and of the upload thread; the hub call returns or raises.
No fairness on `Crash`. `TrainingRun` states safety only.

## Proofs

Each proofs module has one lemma per action, one step per conjunct of the inductive
invariant that the action can disturb, and a theorem that combines them: `Invariance` for
`IInv` and others for the invariants that build on it. TLC checked every one of them before
it was proved. The assumptions on constants are the named ASSUME of the module and nothing
else. Every invariant and action property of the passing runs and both refinements are
proved; liveness is not.

`RolloutReplay_proofs` proves, for all finite sets of prompts and sessions, all batch
sizes and configurations and any number of steps: `TypeCorrect`, `NothingIsLost`,
`GroupsAreWhole`, `LeaksAreFromFailures` and `RefinesLifecycle`. The properties are not
inductive. `NothingLost` after `Take` needs that the taken trajectories were in TransferQueue
although the snapshot is older; so `IInv` adds
- `MarkersExplained`: what a marker, or its absence after registration, says about the
  sessions (a consumed prompt had all sessions over, or one failed);
- `KeysPosted`: a listed trajectory was posted by its session;
- `ViewAccurate`: between `Poll` and `Take` the snapshot is still true of every group it lists as
  terminal: nobody else clears, and a group that ended without error cannot post again;
- `HeldConsumed`: the trainer holds only groups whose marker it cleared.

The refinement uses `IInv` and one lemma per action that moves a stage.

`RolloutSupply_proofs` counts. `SupplyIsEnough`, `FilteredBatchIsFull` and `StalenessIsBounded` follow
from `CInv`:
- `SupplyExact`: the prompts in flight are a multiple of the batch size that the phase determines;
- `AcceptedComplete`, `OneBatch`: what the filter accepted in earlier turns keeps its rows, since
  nobody clears it and its sessions are over; without the filter the trainer holds one batch;
- `OldConsumed`: under `wait` the snapshot lists every overdue prompt as terminal, so a sampling takes a
  whole batch of overdue prompts, the oldest first, as long as there is one. Hence the waiting
  prompts that are j versions past the point where a poll finds them overdue are at most
  warm-up - j batches. The wait alone does not bound the age of prompts that are finished.

`RolloutServing_proofs` proves, for all sets of replicas and requests, all batch sizes, both
trainers and any number of steps: `TypeCorrect`, `PausedRunsNothing`, `AttemptsHaveOneVersion`,
`SpansAreOrdered` and `CountsAreHonest`. `IInv` says which replicas are paused, asleep and in
the pool in each phase, and half-way through each gathered call (`PausedInPhase`); that
nothing runs on a paused one but where the abort raised (`PausedIdle`); and how old weights can be
(`TagsBounded`: when validations are aligned, no replica that can be chosen has older
weights than a tag). `CountsAreHonest` follows from what each action adds to or takes from the set
`Held`. `FewAreStranded` rests on `FInv`: the requests in flight counted by phase, hybrid replicas
awake in the phases that use them (`AwakeInPhase`), and what is left at those that went away
(`FewAway`): a replica leaves only after `sample()` has taken a batch. `BatchIsAnswerable`
combines them: whenever the trainer samples, at least a batch of the waiting requests is not stranded.

`TrainingRun_proofs` proves, for all finite sets of ranks, any number of steps, updates and
restarts and all configurations: `TypeCorrect` and `TeacherIsExact`. `IInv` describes the disk
as well: directories only at steps that save (`OnSaveSteps`), what the current save has written
so far (`SavedSoFar`), that without retention or in the first start every complete set of
shards comes from one moment with its exact teachers, and that the one restart with retention
starts from such a set.

`TrainingDisk_proofs` builds on that `IInv` and proves `ResumeIsWhole`, `BestAreOnDisk` and
`TrackerIsWhole`. Its own inductive invariant `DInv` says:
- `DataSaved`: `data.pt` is there before the tracker is written;
- `TrackerKept`: without retention the tracked checkpoint has all its files, is not the one
  being written, and is the last that rotation would remove (the leader remembers it as the
  newest path, or has forgotten it in a restart);
- `FilesKept`: in the first run only what is being written or pruned is in part there;
- `Recorded`, `BestThere`: the manifest ranks the same scores as the validations, and
  what it ranks best is on disk.

`FileAssumption` says that a missing file is no file.

`TrainingSpace_proofs` proves `PeakIsBounded` and `ActorsAreBounded` from `SInv`: outside the phases from a
save to its ranking (`Crowded`) there is one directory fewer, and a restart adds at most
the one that nobody ranked; the actor directories that rotation does not know of are at
most `Room` for each earlier start.

`UploadQueue_proofs` proves, for all numbers of steps, crashes and kept checkpoints, all sets of
saved steps and both values of every flag: `TypeCorrect` and `OnlyUploadedPruned`
(the property `PrunedOnlyUploaded`: a file leaves the disk only when ModelScope holds a whole
checkpoint of its step). The property is far from inductive:
retention trusts `upload_result.json`, the upload copies what it finds, and
`_validate_checkpoint` looks at one actor file and `data.pt`. That this makes a whole upload
depends on the order in which the trainer writes, while the thread may be deleting the same
directory and either may be cut short by a crash. `IInv` says so:
- `DataLast`: where `data.pt` is, the checkpoint is whole on disk or on ModelScope; it rests on
  `SavingInOrder` (during a save the earlier parts are there, or the step was uploaded before);
- `UploadingSafe`: what the thread validated stays so until it is uploaded;
- `UploadWhole`, `DoomedUploaded`: a recorded upload, and what is chosen for deletion, is whole on ModelScope;
- `OnSteps`: where the two threads can be; every save starts with the first part.

`UploadDrain_proofs` builds on that `IInv`, with these inductive invariants:
- `QInv`: for each record the incarnation has examined, the job file, the future, the executor's queue
  and the thread agree; none is queued twice, and a record that failed has an error that `drain()` will
  raise. `PendingIsOwned` follows: every future that `drain()` waits for is queued or being run;
- `HInv`: what no crash undoes. A step that is due was saved, and is on disk until it is uploaded
  (`Saved`); a whole checkpoint loses files only when `KeepBest` steps with recorded scores are better
  (`Beaten`, which later scores cannot revert); the terminal retention has seen every upload;
- `EInv`: the trainer drains only after it submitted the last step, and ends without an error only
  when every future is done and none failed;
- `LInv`: retention runs only where it is set, and files are in directories.

They give `DrainedIsUploaded` (from `QInv`, `HInv` and `EInv`), `BestStayLocal` (what is missing was
beaten, so it is not among the best), and `RefinesLifecycle`, with one lemma per
kind of step: the file that completes a checkpoint saves it (`SaveRefines`), the first file
deleted ends it (`PruneRefines`), the remaining deletions and `Crash` are stutters.

Only model-checked: the liveness properties `TrainingEnds` (of RolloutReplay and of RolloutServing)
and `DrainEnds`, which the proof system does not reach. Their safety halves are proved:
`SupplyIsEnough`, `BatchIsAnswerable` and `PendingIsOwned` say that what a wait waits for exists and
can move; that it does move is fairness.

## Findings

Seven statements of the repository do not hold of the code; `PROJECT.json` quotes
them. In short: the group filter cannot refill
with colocated replicas; the wait strategy can wait for a request at a replica that is paused for
training; a crash during retention loses a score and with it the best checkpoint; with `keep_current` the disk
holds one checkpoint more than the manifest and the launcher allow for; the uploader
can point the tracker at a half-saved checkpoint; a failed job's checkpoint can be pruned; a run
that crashed after its last save forgets its uploads.

## Plan

Done: GroupLifecycle, RolloutReplay, RolloutServing, TrainingRun, CheckpointLifecycle and
UploadQueue, with proofs of all safety properties and refinements.

1. An abstract specification of the synchronous path (TrainingRun): what a start may resume from.
2. Archiver: the poll loop that copies the `checkpoint-N` directories of a Hugging Face Trainer,
   with that trainer's save and rotation as an external process.
3. LaunchGuard: installation of data files, identity check and launch manifest with a crash
   between any two writes.

## Not modelled

Tensor code (objectives, controllers, gates, advantage, kernels, Megatron and FSDP engines): its
state is floating point, its control sequential; that is most of the source tree, and why
the modelled lines are a small share of it. Evidence selection, rewards and text protocol: pure
functions of one rollout. YAML resolution, packaging, plotting, one-shot scripts: no
interaction. Ray, vLLM and TransferQueue are external and appear as their callers use
them. The swap of the teacher into the actor around the teacher pass and its restoration
after an exception are sequential within one process and left to the repository's tests.
