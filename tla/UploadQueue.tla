----------------------------- MODULE UploadQueue -----------------------------
(***************************************************************************)
(* The trainer saves, validates and enqueues checkpoints while one upload  *)
(* thread copies them to ModelScope and prunes the local ones.  Both write *)
(* latest_checkpointed_iteration.txt, from which a crashed run resumes.    *)
(*                                                                         *)
(*   verl/utils/checkpoint/modelscope_upload.py   queue, upload, retention *)
(*   verl/trainer/ppo/v1/trainer_base.py          save, resume, _fit       *)
(*   verl/utils/checkpoint/checkpoint_manager.py  find_latest_ckpt_path    *)
(*                                                                         *)
(* A step of this module is one validation interval of the training run.   *)
(* JSON files are replaced atomically (_write_json); the tracker is        *)
(* truncated and then written.                                             *)
(***************************************************************************)
EXTENDS Integers, FiniteSets, SequencesExt

CONSTANTS
  TotalSteps,        \* total_training_steps, counted in validations
  SaveSteps,   \* the steps that save a checkpoint (save_freq, and the last one)
  ByName,      \* the save steps in the order of their job files' names
  Score,       \* macro mean@12 accuracies a validation can return
  KeepBest,    \* best_checkpoint_retention.keep, 0: no retention
  KeepCurrent, \* best_checkpoint_retention.keep_current
  UploadFails, \* TRUE if an upload may end with an error
  MaxCrashes   \* bound on the number of crashes

Step == 1 .. TotalSteps

\* Files of a checkpoint directory in the order they are written: two of the
\* actor directory, then the dataloader state.
Part == 1 .. 3
Actor == 1 .. 2
Data == 3

ASSUME UploadAssumption ==
  /\ TotalSteps \in Nat \ {0}
  /\ SaveSteps \subseteq Step /\ TotalSteps \in SaveSteps
  /\ ByName \in Seq(SaveSteps) /\ ToSet(ByName) = SaveSteps /\ IsInjective(ByName)
  /\ Score \subseteq Nat \ {0} /\ Score # {}
  /\ KeepBest \in Nat
  /\ {KeepCurrent, UploadFails} \subseteq BOOLEAN
  /\ MaxCrashes \in Nat

VARIABLES
  (* on disk *)
  dirs,     \* steps n for which the directory global_step_n exists
  file,     \* file[n][p]: incarnation that wrote part p of global_step_n, 0: absent
  tracker,  \* latest_checkpointed_iteration.txt
  score,    \* validation_selection records, 0: none
  job,      \* status of the durable queue records
  manifest, \* fingerprint in upload_manifest.json
  result,   \* status in upload_result.json
  audit,    \* best_checkpoint_retention.json: steps in its history, terminal flag
  remote,   \* remote[n]: the files of step n that ModelScope holds
  (* in the process *)
  run,      \* incarnation of the training process
  at,       \* global_steps
  pc,       \* where _fit is
  part,     \* the part of the checkpoint to be written next
  scan,     \* queue records its constructor has examined
  queue,    \* jobs submitted to the executor and not started
  future,   \* what is known of the futures of this incarnation
  broken,   \* _durable_failures
  worker    \* the upload thread

disk == <<dirs, file, tracker, score, job, manifest, result, audit, remote>>
trainerVars == <<run, at, pc, part, scan>>
vars == <<disk, trainerVars, queue, future, broken, worker>>

Missing == 0         \* no tracker file
Torn == -1           \* truncated and not yet written

NoFiles == [p \in Part |-> 0]
Idle == [pc |-> "idle", step |-> 0, history |-> {}, expected |-> {}, doomed |-> {}, pending |-> {}]

\* Faulty variant: every step saves.
MutBegin(n) == IF n > TotalSteps THEN "drain" ELSE "save"

\* The program counter at the beginning of step n.
Begin(n) == IF n > TotalSteps THEN "drain" ELSE IF n \in SaveSteps THEN "save" ELSE "validate"

Init ==
  /\ dirs = {}
  /\ file = [n \in Step |-> NoFiles]
  /\ tracker = Missing
  /\ score = [n \in Step |-> 0]
  /\ job = [n \in Step |-> "none"]
  /\ manifest = [n \in Step |-> NoFiles]
  /\ result = [n \in Step |-> "none"]
  /\ audit = [steps |-> {}, terminal |-> FALSE]
  /\ remote = [n \in Step |-> NoFiles]
  /\ run = 1
  /\ at = 1
  /\ pc = Begin(1)
  /\ part = 1
  /\ scan = 0
  /\ queue = <<>>
  /\ future = [n \in Step |-> "none"]
  /\ broken = {}
  /\ worker = Idle

\* _validate_checkpoint
Valid(n) ==
  /\ n \in dirs
  /\ \E p \in Actor : file[n][p] # 0
  /\ file[n][Data] # 0
  /\ tracker >= n

-----------------------------------------------------------------------------
(* The trainer thread.                                                     *)

\* _save_checkpoint makes the directory and writes the parts in order.  A file of
\* the actor cannot be written when retention has removed the directory meanwhile.
SaveFile ==
  /\ pc = "save"
  /\ IF part \in {1, Data} \/ at \in dirs
       THEN /\ dirs' = dirs \cup {at}
            /\ file' = [file EXCEPT ![at][part] = run]
            /\ pc' = IF part = Data THEN "truncate" ELSE "save"
            /\ part' = IF part = Data THEN 1 ELSE part + 1
       ELSE pc' = "raised" /\ UNCHANGED <<dirs, file, part>>
  /\ UNCHANGED <<tracker, score, job, manifest, result, audit, remote, run, at, scan,
                 queue, future, broken, worker>>

\* open(tracker, "w") truncates ...
TruncateTracker ==
  /\ pc = "truncate"
  /\ tracker' = Torn
  /\ pc' = "commit"
  /\ UNCHANGED <<dirs, file, score, job, manifest, result, audit, remote, run, at, part, scan,
                 queue, future, broken, worker>>

\* ... and the step follows.
CommitTracker ==
  /\ pc = "commit"
  /\ tracker' = at
  /\ pc' = "validate"
  /\ UNCHANGED <<dirs, file, score, job, manifest, result, audit, remote, run, at, part, scan,
                 queue, future, broken, worker>>

\* The queue is created at the first validation of an incarnation.
Open == scan = Len(ByName)

\* _submit, after the record is written.
Submit(n) ==
  /\ job' = [job EXCEPT ![n] = "queued"]
  /\ queue' = Append(queue, n)
  /\ future' = [future EXCEPT ![n] = "pending"]

\* What _recover_interrupted_jobs distinguishes: records of jobs that did not
\* end; those whose checkpoint was uploaded and is gone; and among these the ones
\* whose retention is on record.
Interrupted(n) == job[n] \in {"queued", "uploading"}
Pruned(n) == Interrupted(n) /\ n \notin dirs /\ result[n] = "complete"
Retired(n) == KeepBest = 0 \/ (n \in audit.steps /\ (n = TotalSteps => audit.terminal))

\* One turn of the loop; the upload thread already runs what was resubmitted.
RecoverJob ==
  LET n == ByName[scan + 1] IN
  /\ pc = "validate" /\ ~Open
  /\ scan' = scan + 1
  /\ \/ /\ job[n] \in {"none", "complete"}
        /\ UNCHANGED <<job, queue, future, broken>>
     \/ /\ job[n] = "failed"
        /\ broken' = broken \cup {n}
        /\ UNCHANGED <<job, queue, future>>
     \/ /\ Pruned(n)
        /\ job' = [job EXCEPT ![n] = IF Retired(n) THEN "complete" ELSE "failed"]
        /\ broken' = IF Retired(n) THEN broken ELSE broken \cup {n}
        /\ UNCHANGED <<queue, future>>
     \/ /\ Interrupted(n) /\ ~Pruned(n)
        /\ Submit(n)
        /\ UNCHANGED broken
  /\ UNCHANGED <<dirs, file, tracker, score, manifest, result, audit, remote, run, at, pc, part, worker>>

Advance ==
  /\ at' = at + 1
  /\ pc' = Begin(at + 1)

\* record_validation; a record of an earlier incarnation must agree.
RecordValidation ==
  /\ pc = "validate" /\ Open
  /\ \E x \in Score :
       /\ score' = IF score[at] = 0 THEN [score EXCEPT ![at] = x] ELSE score
       /\ IF score[at] \notin {0, x} THEN pc' = "raised" /\ UNCHANGED at
          ELSE IF at \in SaveSteps THEN pc' = "enqueue" /\ UNCHANGED at
          ELSE Advance
  /\ UNCHANGED <<dirs, file, tracker, job, manifest, result, audit, remote, run, part, scan,
                 queue, future, broken, worker>>

\* A job that is complete, or has a future, is left alone.
KnownJob(n) == job[n] = "complete" \/ future[n] # "none"

Enqueue ==
  /\ pc = "enqueue"
  /\ IF ~Valid(at)
       THEN pc' = "raised" /\ UNCHANGED <<at, job, queue, future>>
       ELSE /\ Advance
            /\ IF KnownJob(at)
                 THEN UNCHANGED <<job, queue, future>>
                 ELSE Submit(at)
  /\ UNCHANGED <<dirs, file, tracker, score, manifest, result, audit, remote, run, part, scan,
                 broken, worker>>

\* Faulty variant: the queue is abandoned at the end of training.
MutDrained == TRUE

Drained == \A n \in Step : future[n] # "pending"

NoFailure == broken = {} /\ \A n \in Step : future[n] # "error"

\* close() waits for every future and raises if one failed, now or earlier.
Drain ==
  /\ pc = "drain"
  /\ Drained
  /\ pc' = IF NoFailure THEN "done" ELSE "raised"
  /\ UNCHANGED <<disk, run, at, part, scan, queue, future, broken, worker>>

-----------------------------------------------------------------------------
(* The upload thread: one _run_job after the other.                        *)

StartJob ==
  /\ worker.pc = "idle" /\ queue # <<>>
  /\ job' = [job EXCEPT ![Head(queue)] = "uploading"]
  /\ worker' = [worker EXCEPT !.pc = "validate", !.step = Head(queue)]
  /\ queue' = Tail(queue)
  /\ UNCHANGED <<dirs, file, tracker, score, manifest, result, audit, remote, trainerVars,
                 future, broken>>

\* Faulty variant: the failure is recorded on disk only.
MutJobFails ==
  /\ job' = [job EXCEPT ![worker.step] = "failed"]
  /\ UNCHANGED future
  /\ worker' = Idle

\* The except branch of _run_job.
JobFails ==
  /\ job' = [job EXCEPT ![worker.step] = "failed"]
  /\ future' = [future EXCEPT ![worker.step] = "error"]
  /\ worker' = Idle

AfterUpload == IF KeepBest = 0 THEN "finish" ELSE "select"

\* _validate_checkpoint, the manifest of what is there, and the reuse of an
\* audit whose fingerprint is the same.
CheckAndHash ==
  LET n == worker.step IN
  /\ worker.pc = "validate"
  /\ IF ~Valid(n)
       THEN JobFails /\ UNCHANGED manifest
       ELSE /\ manifest' = [manifest EXCEPT ![n] = file[n]]
            /\ worker' = [worker EXCEPT !.pc =
                 IF result[n] = "complete" /\ manifest[n] = file[n] THEN AfterUpload ELSE "upload"]
            /\ UNCHANGED <<job, future>>
  /\ UNCHANGED <<dirs, file, tracker, score, result, audit, remote, trainerVars, queue, broken>>

\* upload_folder adds and replaces files; it deletes none.
Upload ==
  LET n == worker.step IN
  /\ worker.pc = "upload"
  /\ \/ /\ remote' = [remote EXCEPT ![n] =
             [p \in Part |-> IF file[n][p] # 0 THEN file[n][p] ELSE remote[n][p]]]
        /\ result' = [result EXCEPT ![n] = "complete"]
        /\ worker' = [worker EXCEPT !.pc = AfterUpload]
        /\ UNCHANGED <<job, future>>
     \/ /\ UploadFails
        /\ result' = [result EXCEPT ![n] = "failed"]
        /\ JobFails
        /\ UNCHANGED remote
  /\ UNCHANGED <<dirs, file, tracker, score, manifest, audit, trainerVars, queue, broken>>

\* _retain_after_verified_upload up to its first listing.

Successful == {n \in Step : result[n] = "complete"}
Recorded == {n \in Step : score[n] # 0}
Beats(m, n) == score[m] > score[n] \/ (score[m] = score[n] /\ m < n)
Ranked == Recorded \cap SaveSteps \cap Successful

\* Faulty variant: one too few.
MutBest == {n \in Ranked : Cardinality({m \in Ranked : Beats(m, n)}) < KeepBest - 1}

Best == {n \in Ranked : Cardinality({m \in Ranked : Beats(m, n)}) < KeepBest}
Kept(n) == IF KeepCurrent /\ n # TotalSteps THEN Best \cup {n} ELSE Best

\* Faulty variant: everything that is not kept goes, uploaded or not.
MutDoomed(n) == dirs \ Kept(n)

Doomed(n) == Successful \ Kept(n)

Select ==
  LET n == worker.step IN
  /\ worker.pc = "select"
  /\ IF n \notin dirs \/ n \notin Successful \/ n \notin Recorded
       THEN JobFails
       ELSE /\ worker' = [worker EXCEPT !.pc = "prune", !.history = Recorded, !.expected = dirs,
                                        !.doomed = Doomed(n), !.pending = dirs \ Successful]
            /\ UNCHANGED <<job, future>>
  /\ UNCHANGED <<dirs, file, tracker, score, manifest, result, audit, remote, trainerVars,
                 queue, broken>>

\* shutil.rmtree of the doomed checkpoints in ascending order, one file at a
\* time in the order the directory lists them, then the directory; it raises when
\* the trainer adds a file to the directory meanwhile.
Prune ==
  /\ worker.pc = "prune"
  /\ \E n \in worker.doomed :
       LET left == {p \in Part : file[n][p] # 0} IN
       /\ \A m \in worker.doomed : n <= m
       /\ \/ /\ n \in dirs /\ left # {}
             /\ \E p \in left : file' = [file EXCEPT ![n][p] = 0]
             /\ UNCHANGED <<dirs, job, future, worker>>
          \/ /\ n \in dirs => left = {}
             /\ dirs' = dirs \ {n}
             /\ worker' = [worker EXCEPT !.doomed = @ \ {n}, !.expected = @ \ (dirs \cap {n})]
             /\ UNCHANGED <<file, job, future>>
          \/ /\ n \in dirs /\ left # {} /\ pc = "save" /\ at = n
             /\ JobFails
             /\ UNCHANGED <<dirs, file>>
  /\ UNCHANGED <<tracker, score, manifest, result, audit, remote, trainerVars, queue, broken>>

\* The second listing and what is checked after it.
Verify ==
  /\ worker.pc = "prune" /\ worker.doomed = {}
  /\ IF dirs # worker.expected \/ (worker.step = TotalSteps /\ worker.pending # {})
       THEN JobFails
       ELSE /\ worker' = [worker EXCEPT !.pc = IF dirs = {} THEN "audit" ELSE "truncate"]
            /\ UNCHANGED <<job, future>>
  /\ UNCHANGED <<dirs, file, tracker, score, manifest, result, audit, remote, trainerVars,
                 queue, broken>>

\* tracker.write_text(max(existing_after)): truncated ...
RetentionTruncate ==
  /\ worker.pc = "truncate"
  /\ tracker' = Torn
  /\ worker' = [worker EXCEPT !.pc = "track"]
  /\ UNCHANGED <<dirs, file, score, job, manifest, result, audit, remote, trainerVars, queue,
                 future, broken>>

\* ... and written, from the second listing.
RetentionTrack ==
  /\ worker.pc = "track"
  /\ \E n \in worker.expected : (\A m \in worker.expected : m <= n) /\ tracker' = n
  /\ worker' = [worker EXCEPT !.pc = "audit"]
  /\ UNCHANGED <<dirs, file, score, job, manifest, result, audit, remote, trainerVars, queue,
                 future, broken>>

WriteAudit ==
  /\ worker.pc = "audit"
  /\ audit' = [steps |-> worker.history, terminal |-> worker.step = TotalSteps]
  /\ worker' = [worker EXCEPT !.pc = "finish"]
  /\ UNCHANGED <<dirs, file, tracker, score, job, manifest, result, remote, trainerVars, queue,
                 future, broken>>

FinishJob ==
  /\ worker.pc = "finish"
  /\ job' = [job EXCEPT ![worker.step] = "complete"]
  /\ future' = [future EXCEPT ![worker.step] = "ok"]
  /\ worker' = Idle
  /\ UNCHANGED <<dirs, file, tracker, score, manifest, result, audit, remote, trainerVars,
                 queue, broken>>

-----------------------------------------------------------------------------
(* The process dies and is started again (resume_mode: auto).              *)

Loadable(n) == n \in dirs /\ \A p \in Actor : file[n][p] # 0

\* _load_checkpoint follows the tracker.  Without a tracker, or without the
\* directory it names, training starts from scratch; an empty tracker and an
\* incomplete actor directory raise.
Resume ==
  LET scratch == tracker = Missing \/ (tracker # Torn /\ tracker \notin dirs)
      target == IF scratch THEN 0 ELSE tracker
  IN IF scratch \/ Loadable(target)
       THEN at' = target + 1 /\ pc' = Begin(target + 1)
       ELSE at' = at /\ pc' = "raised"

Crash ==
  /\ pc # "done"
  /\ run <= MaxCrashes
  /\ run' = run + 1
  /\ Resume
  /\ part' = 1
  /\ scan' = 0
  /\ queue' = <<>>
  /\ future' = [n \in Step |-> "none"]
  /\ broken' = {}
  /\ worker' = Idle
  /\ UNCHANGED disk

-----------------------------------------------------------------------------
Trainer ==
  SaveFile \/ TruncateTracker \/ CommitTracker \/ RecoverJob \/ RecordValidation \/ Enqueue \/ Drain

Uploader ==
  \/ StartJob \/ CheckAndHash \/ Upload \/ Select \/ Prune \/ Verify
  \/ RetentionTruncate \/ RetentionTrack \/ WriteAudit \/ FinishJob

\* The training process has left _fit and the upload thread has nothing to do.
Terminated == pc \in {"done", "raised"} /\ worker = Idle /\ queue = <<>> /\ UNCHANGED vars

Next == Trainer \/ Uploader \/ Crash \/ Terminated

Spec == Init /\ [][Next]_vars

\* Both threads are scheduled; an upload ends, one way or the other.
FairSpec == Spec /\ WF_vars(Trainer) /\ WF_vars(Uploader)

-----------------------------------------------------------------------------
(* Properties.                                                             *)

WorkerType ==
  worker \in [pc : {"idle", "validate", "upload", "select", "prune", "truncate", "track",
                    "audit", "finish"},
              step : 0 .. TotalSteps, history : SUBSET Step, expected : SUBSET Step,
              doomed : SUBSET Step, pending : SUBSET Step]

\* Types of the variables.
TypeOK ==
  /\ dirs \subseteq SaveSteps
  /\ file \in [Step -> [Part -> 0 .. run]]
  /\ tracker \in {Torn, Missing} \cup Step
  /\ score \in [Step -> Score \cup {0}]
  /\ job \in [Step -> {"none", "queued", "uploading", "complete", "failed"}]
  /\ manifest \in [Step -> [Part -> 0 .. run]]
  /\ result \in [Step -> {"none", "complete", "failed"}]
  /\ audit \in [steps : SUBSET Step, terminal : BOOLEAN]
  /\ remote \in [Step -> [Part -> 0 .. run]]
  /\ run \in 1 .. MaxCrashes + 1
  /\ at \in 0 .. TotalSteps + 1
  /\ pc \in {"save", "truncate", "commit", "validate", "enqueue", "drain", "done", "raised"}
  /\ part \in Part
  /\ scan \in 0 .. Len(ByName)
  /\ queue \in Seq(Step)
  /\ future \in [Step -> {"none", "pending", "ok", "error"}]
  /\ broken \subseteq Step
  /\ WorkerType

Complete(files) == \A p \in Part : files[p] # 0

\* _retain_after_verified_upload: only what was uploaded is pruned.  A file
\* leaves the disk only when ModelScope has a whole checkpoint of its step.
PrunedOnlyUploaded ==
  [][\A n \in Step, p \in Part : (file[n][p] # 0 /\ file'[n][p] = 0) => Complete(remote[n])]_vars

\* A run that opened its queue (every run that validates a step, resumed or not)
\* and ends without an error has uploaded every checkpoint saved so far, whatever
\* failed, crashed or was pruned in between: the terminal retention refuses to
\* end it while a checkpoint is not uploaded.
DrainedUploaded ==
  (pc = "done" /\ Open /\ KeepBest > 0) =>
    \A n \in SaveSteps : Complete(remote[n]) /\ job[n] = "complete"

\* ... and the disk holds, complete, every checkpoint that fewer than KeepBest
\* others beat, in whatever order they were uploaded.
BestAreLocal ==
  (pc = "done" /\ Open /\ KeepBest > 0) =>
    \A n \in SaveSteps :
      Cardinality({m \in SaveSteps : Beats(m, n)}) < KeepBest => (n \in dirs /\ Complete(file[n]))

\* Every checkpoint goes through the life of CheckpointLifecycle, through saves in
\* place, half-done deletions and crashes: at no moment is a whole one opened to
\* deletion that is not stored, or that fewer than KeepBest others beat.
Stored == {n \in SaveSteps : Complete(remote[n])}
WholeOnDisk == {n \in dirs : Complete(file[n])}

Lifecycle == INSTANCE CheckpointLifecycle
  WITH Checkpoint <- SaveSteps, local <- WholeOnDisk, stored <- Stored,
       score <- [n \in SaveSteps |-> score[n]]

ImplementsLifecycle == Lifecycle!Spec

\* Every wait of the training process ends: the drain at the end does too.
DrainEnds == <>(pc \in {"done", "raised"})

-----------------------------------------------------------------------------
(* What the documentation says and the code does not do.                   *)

\* close(): when training ends without an error every checkpoint it saved has
\* been uploaded.  A resumed run that has nothing left to validate opens no queue.
AllUploaded ==
  pc = "done" => \A n \in SaveSteps : Complete(remote[n]) /\ job[n] = "complete"

\* "write latest checkpointed iteration tracker for atomic resume": the step the
\* tracker names can be resumed from.
TrackerLoadable == tracker \in Step => Loadable(tracker)

\* Failed checkpoints are never eligible for pruning.
FailedNeverPruned ==
  [][\A n \in Step : job[n] = "failed" => (n \in dirs => n \in dirs')]_vars

=============================================================================
