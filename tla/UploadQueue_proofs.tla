------------------------- MODULE UploadQueue_proofs -------------------------
(***************************************************************************)
(* Type correctness of UploadQueue and the safety of its retention, for    *)
(* every number of steps, crashes and retained checkpoints.                *)
(*                                                                         *)
(* A file is deleted from a checkpoint in worker.doomed, which was uploaded *)
(* when it was selected.  That an upload leaves a WHOLE checkpoint on      *)
(* ModelScope does not follow from _validate_checkpoint, which looks at one *)
(* actor file and data.pt: it needs the order in which the trainer writes  *)
(* the files, across crashes and concurrent pruning.                       *)
(***************************************************************************)
EXTENDS UploadQueue, TLAPS

Safe(n) == Complete(file[n]) \/ Complete(remote[n])

\* A recorded upload is whole.
UploadWhole == \A n \in Step : result[n] = "complete" => Complete(remote[n])

\* What is being deleted has been uploaded.
DoomedUploaded == \A n \in worker.doomed : Complete(remote[n])

\* data.pt is written last: where it is, the actor is whole or was uploaded.
DataLast == \A n \in Step : file[n][Data] # 0 => Safe(n)

\* The files of the checkpoint being saved are there up to the next one, unless
\* retention of an uploaded predecessor removes them.
SavingInOrder ==
  pc = "save" => (\A p \in Part : p < part => file[at][p] # 0) \/ Complete(remote[at])

\* What the upload thread validated stays whole until it is uploaded.
UploadingSafe == worker.pc = "upload" => Safe(worker.step)

\* The trainer and the thread work on steps, only saved steps are saved, and every
\* save begins with the first file.
OnSteps ==
  /\ pc \in {"save", "truncate", "commit", "enqueue"} => at \in SaveSteps
  /\ pc = "validate" => at \in Step
  /\ pc \notin {"save", "raised"} => part = 1
  /\ worker.pc # "idle" => worker.step \in Step

IInv ==
  /\ TypeOK
  /\ UploadWhole
  /\ DoomedUploaded
  /\ DataLast
  /\ SavingInOrder
  /\ UploadingSafe
  /\ OnSteps

-----------------------------------------------------------------------------
(* Lemmas about the data of the module.                                    *)

\* Where a step begins.
LEMMA BeginPc ==
  ASSUME NEW n \in Nat \ {0}
  PROVE  /\ Begin(n) \in {"save", "validate", "drain"}
         /\ Begin(n) = "save" => n \in SaveSteps
         /\ Begin(n) = "validate" => n \in Step
BY UploadAssumption DEF Begin, Step

\* The type of the worker record, and its idle value.
WorkerPc == {"idle", "validate", "upload", "select", "prune", "truncate", "track", "audit", "finish"}

LEMMA IdleWorker ==
  ASSUME worker' = Idle
  PROVE  WorkerType' /\ worker'.pc = "idle" /\ worker'.doomed = {}
<1>1. 0 \in 0 .. TotalSteps
  BY UploadAssumption
<1>2. QED
  BY <1>1 DEF WorkerType, Idle

\* The thread goes to its next stage and keeps what it knows.
LEMMA WorkerMoves ==
  ASSUME WorkerType, NEW x \in WorkerPc, worker' = [worker EXCEPT !.pc = x]
  PROVE  /\ WorkerType'
         /\ worker'.pc = x /\ worker'.step = worker.step /\ worker'.doomed = worker.doomed
BY DEF WorkerType, WorkerPc

\* One file of one checkpoint is written or deleted.
LEMMA WriteFile ==
  ASSUME NEW m \in Nat, NEW f \in [Step -> [Part -> 0 .. m]], NEW n \in Step, NEW p \in Part,
         NEW v \in 0 .. m
  PROVE  /\ [f EXCEPT ![n][p] = v] \in [Step -> [Part -> 0 .. m]]
         /\ [f EXCEPT ![n][p] = v][n][p] = v
         /\ \A k \in Step, q \in Part : (k # n \/ q # p) => [f EXCEPT ![n][p] = v][k][q] = f[k][q]
OBVIOUS

\* A job is submitted.
LEMMA SubmitType ==
  ASSUME TypeOK, NEW n \in Step, Submit(n)
  PROVE  /\ job' \in [Step -> {"none", "queued", "uploading", "complete", "failed"}]
         /\ queue' \in Seq(Step)
         /\ future' \in [Step -> {"none", "pending", "ok", "error"}]
<1>1. job' \in [Step -> {"none", "queued", "uploading", "complete", "failed"}]
  BY DEF TypeOK, Submit
<1>2. queue \in Seq(Step)
  BY DEF TypeOK
<1>3. queue' \in Seq(Step)
  BY <1>2 DEF Submit
<1>4. future' \in [Step -> {"none", "pending", "ok", "error"}]
  BY DEF TypeOK, Submit
<1>5. QED
  BY <1>1, <1>3, <1>4

\* Recovery examines a saved step.
LEMMA ScanStep ==
  ASSUME scan \in 0 .. Len(ByName), ~Open
  PROVE  ByName[scan + 1] \in Step /\ scan + 1 \in 0 .. Len(ByName)
<1>1. ByName \in Seq(SaveSteps) /\ SaveSteps \subseteq Step
  BY UploadAssumption
<1>2. Len(ByName) \in Nat /\ scan + 1 \in 1 .. Len(ByName)
  BY <1>1 DEF Open
<1>3. ByName[scan + 1] \in SaveSteps
  BY <1>1, <1>2
<1>4. QED
  BY <1>1, <1>2, <1>3

-----------------------------------------------------------------------------
(* What a step leaves alone it cannot break.                               *)

\* A step of the trainer that writes no file.
LEMMA TrainerFrame ==
  ASSUME IInv, UNCHANGED <<file, remote, result, worker>>, pc' = "save" => part' = 1
  PROVE  UploadWhole' /\ DoomedUploaded' /\ DataLast' /\ SavingInOrder' /\ UploadingSafe'
<1>1. UploadWhole' /\ DoomedUploaded'
  BY DEF IInv, UploadWhole, DoomedUploaded
<1>2. DataLast' /\ UploadingSafe'
  BY DEF IInv, DataLast, UploadingSafe, Safe
<1>3. SavingInOrder'
  BY DEF SavingInOrder, Part
<1>4. QED
  BY <1>1, <1>2, <1>3

\* A step in which the upload thread goes on, or gives up, and moves no file.
LEMMA ThreadFrame ==
  ASSUME IInv, UNCHANGED <<file, remote, result, trainerVars>>, worker.step \in Step,
         \/ worker' = Idle
         \/ \E x \in WorkerPc : /\ worker' = [worker EXCEPT !.pc = x]
                                /\ x = "upload" => Safe(worker.step)
  PROVE  /\ WorkerType' /\ OnSteps'
         /\ UploadWhole' /\ DoomedUploaded' /\ DataLast' /\ SavingInOrder' /\ UploadingSafe'
<1>1. UploadWhole' /\ DataLast' /\ SavingInOrder'
  BY DEF IInv, UploadWhole, DataLast, SavingInOrder, Safe, trainerVars
<1>2. CASE worker' = Idle
  <2>1. WorkerType' /\ worker'.pc = "idle" /\ worker'.doomed = {}
    BY <1>2, IdleWorker
  <2>2. DoomedUploaded' /\ UploadingSafe'
    BY <2>1 DEF DoomedUploaded, UploadingSafe
  <2>3. OnSteps'
    BY <2>1 DEF IInv, OnSteps, trainerVars
  <2>4. QED
    BY <1>1, <2>1, <2>2, <2>3
<1>3. CASE \E x \in WorkerPc : /\ worker' = [worker EXCEPT !.pc = x]
                               /\ x = "upload" => Safe(worker.step)
  <2>1. PICK x \in WorkerPc : /\ worker' = [worker EXCEPT !.pc = x]
                              /\ x = "upload" => Safe(worker.step)
    BY <1>3
  <2>2. WorkerType
    BY DEF IInv, TypeOK
  <2>3. /\ WorkerType'
        /\ worker'.pc = x /\ worker'.step = worker.step /\ worker'.doomed = worker.doomed
    BY <2>1, <2>2, WorkerMoves
  <2>4. DoomedUploaded'
    BY <2>3 DEF IInv, DoomedUploaded
  <2>5. UploadingSafe'
    BY <2>1, <2>3 DEF UploadingSafe, Safe
  <2>6. OnSteps'
    BY <2>3 DEF IInv, OnSteps, trainerVars
  <2>7. QED
    BY <1>1, <2>3, <2>4, <2>5, <2>6
<1>4. QED
  BY <1>2, <1>3

-----------------------------------------------------------------------------
(* Every step preserves the invariant, one lemma per action.               *)

\* The initial states satisfy the invariant.
LEMMA InitInv == Init => IInv
<1> SUFFICES ASSUME Init PROVE IInv
  OBVIOUS
<1>1. TypeOK
  BY UploadAssumption, BeginPc DEF Init, TypeOK, WorkerType, Part, Step, NoFiles, Idle, Missing
<1>2. UploadWhole /\ DoomedUploaded /\ DataLast /\ SavingInOrder /\ UploadingSafe
  BY DEF Init, UploadWhole, DoomedUploaded, DataLast, SavingInOrder, UploadingSafe, NoFiles, Idle,
         Part, Data, Step
<1>3. OnSteps
  BY BeginPc DEF Init, OnSteps, Idle
<1>4. QED
  BY <1>1, <1>2, <1>3 DEF IInv

\* _save_checkpoint writes the next file.  When the last one is written the earlier
\* ones are there, or the step has been uploaded before.
LEMMA SaveFileInv == ASSUME IInv, SaveFile PROVE IInv'
<1>1. at \in SaveSteps /\ at \in Step /\ part \in Part /\ part \in 1 .. 3
  BY UploadAssumption DEF IInv, TypeOK, OnSteps, SaveFile, Part
<1>2. run \in Nat /\ run # 0 /\ run \in 0 .. run /\ file \in [Step -> [Part -> 0 .. run]]
  BY UploadAssumption DEF IInv, TypeOK
<1>3. CASE UNCHANGED <<dirs, file, part>> /\ pc' = "raised"
  <2>1. TypeOK'
    BY <1>3 DEF IInv, TypeOK, SaveFile, WorkerType
  <2>2. OnSteps'
    BY <1>3 DEF IInv, OnSteps, SaveFile
  <2>3. UNCHANGED <<remote, result, worker>>
    BY DEF SaveFile
  <2>4. QED
    BY <1>3, <2>1, <2>2, <2>3, TrainerFrame DEF IInv
<1>4. CASE /\ dirs' = dirs \cup {at} /\ file' = [file EXCEPT ![at][part] = run]
           /\ pc' = IF part = Data THEN "truncate" ELSE "save"
           /\ part' = IF part = Data THEN 1 ELSE part + 1
  <2>1. /\ file' \in [Step -> [Part -> 0 .. run]]
        /\ file'[at][part] = run
        /\ \A k \in Step, q \in Part : (k # at \/ q # part) => file'[k][q] = file[k][q]
    BY <1>1, <1>2, <1>4, WriteFile
  <2>2. \A k \in Step, q \in Part : file[k][q] # 0 => file'[k][q] # 0
    BY <1>2, <2>1
  <2>3. UNCHANGED <<tracker, score, job, manifest, result, audit, remote, run, at, scan, queue,
                    future, broken, worker>>
    BY DEF SaveFile
  <2>4. part' \in Part
    BY <1>1, <1>4 DEF Data, Part
  <2>5. dirs' \subseteq SaveSteps
    BY <1>1, <1>4 DEF IInv, TypeOK
  <2>6. TypeOK'
    BY <1>4, <2>1, <2>3, <2>4, <2>5 DEF IInv, TypeOK, WorkerType
  <2>7. \A n \in Step : Safe(n) => Safe(n)'
    BY <2>2, <2>3 DEF Safe, Complete
  <2>8. UploadWhole' /\ DoomedUploaded'
    BY <2>3 DEF IInv, UploadWhole, DoomedUploaded
  <2>9. DataLast'
    <3> SUFFICES ASSUME NEW n \in Step, file'[n][Data] # 0 PROVE Safe(n)'
      BY DEF DataLast
    <3>1. CASE n = at /\ part = Data
      <4>1. (\A p \in Part : p < part => file[at][p] # 0) \/ Complete(remote[at])
        BY DEF IInv, SavingInOrder, SaveFile
      <4>2. CASE Complete(remote[at])
        BY <2>3, <3>1, <4>2 DEF Safe
      <4>3. CASE \A p \in Part : p < part => file[at][p] # 0
        <5>1. \A p \in Part : p # part => p < part
          BY <3>1 DEF Part, Data
        <5>2. \A p \in Part : file'[at][p] # 0
          BY <1>1, <1>2, <2>1, <2>2, <4>3, <5>1
        <5>3. QED
          BY <3>1, <5>2 DEF Safe, Complete
      <4>4. QED
        BY <4>1, <4>2, <4>3
    <3>2. CASE ~(n = at /\ part = Data)
      <4>1. file[n][Data] # 0
        BY <1>1, <2>1, <3>2 DEF Part, Data
      <4>2. QED
        BY <2>7, <4>1 DEF IInv, DataLast
    <3>3. QED
      BY <3>1, <3>2
  <2>10. SavingInOrder'
    <3> SUFFICES ASSUME pc' = "save", ~Complete(remote[at])', NEW p \in Part, p < part'
                 PROVE  file'[at][p] # 0
      BY <2>3 DEF SavingInOrder
    <3>1. part' = part + 1
      BY <1>4
    <3>2. \A q \in Part : q < part => file[at][q] # 0
      BY <2>3 DEF IInv, SavingInOrder, SaveFile
    <3>3. p = part \/ p < part
      BY <1>1, <3>1 DEF Part
    <3>4. QED
      BY <1>1, <1>2, <2>1, <2>2, <3>2, <3>3
  <2>11. UploadingSafe'
    BY <2>3, <2>7 DEF IInv, UploadingSafe, OnSteps
  <2>12. OnSteps'
    BY <1>1, <1>4, <2>3 DEF IInv, OnSteps
  <2>13. QED
    BY <2>6, <2>8, <2>9, <2>10, <2>11, <2>12 DEF IInv
<1>5. QED
  BY <1>3, <1>4 DEF SaveFile

\* The tracker is truncated.
LEMMA TruncateTrackerInv == ASSUME IInv, TruncateTracker PROVE IInv'
<1>1. TypeOK'
  BY DEF IInv, TypeOK, TruncateTracker, WorkerType
<1>2. OnSteps'
  BY DEF IInv, OnSteps, TruncateTracker
<1>3. UNCHANGED <<file, remote, result, worker>> /\ pc' # "save"
  BY DEF TruncateTracker
<1>4. QED
  BY <1>1, <1>2, <1>3, TrainerFrame DEF IInv

\* The tracker is written.
LEMMA CommitTrackerInv == ASSUME IInv, CommitTracker PROVE IInv'
<1>1. at \in Step
  BY UploadAssumption DEF IInv, OnSteps, CommitTracker
<1>2. TypeOK'
  BY <1>1 DEF IInv, TypeOK, CommitTracker, WorkerType
<1>3. OnSteps'
  BY <1>1 DEF IInv, OnSteps, CommitTracker
<1>4. UNCHANGED <<file, remote, result, worker>> /\ pc' # "save"
  BY DEF CommitTracker
<1>5. QED
  BY <1>2, <1>3, <1>4, TrainerFrame DEF IInv

\* One turn of the recovery loop.
LEMMA RecoverJobInv == ASSUME IInv, RecoverJob PROVE IInv'
<1> DEFINE n == ByName[scan + 1]
<1>1. n \in Step /\ scan' \in 0 .. Len(ByName)
  BY ScanStep DEF IInv, TypeOK, RecoverJob
<1>2. UNCHANGED <<dirs, file, tracker, score, manifest, result, audit, remote, run, at, pc, part,
                  worker>>
  BY DEF RecoverJob
<1>3. /\ job' \in [Step -> {"none", "queued", "uploading", "complete", "failed"}]
      /\ queue' \in Seq(Step)
      /\ future' \in [Step -> {"none", "pending", "ok", "error"}]
      /\ broken' \subseteq Step
  <2>1. CASE UNCHANGED <<job, queue, future>> /\ broken' \in {broken, broken \cup {n}}
    BY <1>1, <2>1 DEF IInv, TypeOK
  <2>2. CASE /\ Pruned(n) /\ UNCHANGED <<queue, future>>
             /\ job' = [job EXCEPT ![n] = IF Retired(n) THEN "complete" ELSE "failed"]
             /\ broken' = IF Retired(n) THEN broken ELSE broken \cup {n}
    BY <1>1, <2>2 DEF IInv, TypeOK
  <2>3. CASE Submit(n) /\ UNCHANGED broken
    BY <1>1, <2>3, SubmitType DEF IInv, TypeOK
  <2>4. QED
    BY <2>1, <2>2, <2>3 DEF RecoverJob
<1>4. TypeOK'
  BY <1>1, <1>2, <1>3 DEF IInv, TypeOK, WorkerType
<1>5. OnSteps'
  BY <1>2 DEF IInv, OnSteps
<1>6. pc' # "save"
  BY <1>2 DEF RecoverJob
<1>7. QED
  BY <1>2, <1>4, <1>5, <1>6, TrainerFrame DEF IInv

\* The trainer goes on to the next step.
LEMMA AdvanceTypes ==
  ASSUME IInv, at \in Step, pc \in {"validate", "enqueue"}, Advance, UNCHANGED <<part, worker>>
  PROVE  /\ at' \in 0 .. TotalSteps + 1
         /\ pc' \in {"save", "validate", "drain"}
         /\ OnSteps'
         /\ part' = 1
<1>1. at \in Nat /\ at <= TotalSteps /\ at + 1 \in Nat \ {0} /\ TotalSteps \in Nat
  BY UploadAssumption DEF Step
<1>2. /\ pc' \in {"save", "validate", "drain"}
      /\ pc' = "save" => at' \in SaveSteps
      /\ pc' = "validate" => at' \in Step
  BY <1>1, BeginPc DEF Advance
<1>3. part' = 1
  BY DEF IInv, OnSteps
<1>4. OnSteps'
  BY <1>2, <1>3 DEF IInv, OnSteps
<1>5. QED
  BY <1>1, <1>2, <1>3, <1>4 DEF Advance

\* record_validation.
LEMMA RecordValidationInv == ASSUME IInv, RecordValidation PROVE IInv'
<1>1. at \in Step
  BY DEF IInv, OnSteps, RecordValidation
<1>2. UNCHANGED <<dirs, file, tracker, job, manifest, result, audit, remote, run, part, scan,
                  queue, future, broken, worker>>
  BY DEF RecordValidation
<1>3. score' \in [Step -> Score \cup {0}]
  BY <1>1 DEF IInv, TypeOK, RecordValidation
<1>4. /\ at' \in 0 .. TotalSteps + 1
      /\ pc' \in {"save", "validate", "drain", "enqueue", "raised"}
      /\ OnSteps'
      /\ pc' = "save" => part' = 1
  <2>1. CASE pc' = "raised" /\ UNCHANGED at
    BY <1>2, <2>1 DEF IInv, TypeOK, OnSteps
  <2>2. CASE at \in SaveSteps /\ pc' = "enqueue" /\ UNCHANGED at
    BY <1>2, <2>2 DEF IInv, TypeOK, OnSteps, RecordValidation
  <2>3. CASE Advance
    BY <1>1, <1>2, <2>3, AdvanceTypes DEF RecordValidation
  <2>4. QED
    BY <2>1, <2>2, <2>3 DEF RecordValidation
<1>5. TypeOK'
  BY <1>2, <1>3, <1>4 DEF IInv, TypeOK, WorkerType
<1>6. QED
  BY <1>2, <1>4, <1>5, TrainerFrame DEF IInv

\* enqueue.
LEMMA EnqueueInv == ASSUME IInv, Enqueue PROVE IInv'
<1>1. at \in Step
  BY UploadAssumption DEF IInv, OnSteps, Enqueue
<1>2. UNCHANGED <<dirs, file, tracker, score, manifest, result, audit, remote, run, part, scan,
                  broken, worker>>
  BY DEF Enqueue
<1>3. /\ job' \in [Step -> {"none", "queued", "uploading", "complete", "failed"}]
      /\ queue' \in Seq(Step)
      /\ future' \in [Step -> {"none", "pending", "ok", "error"}]
  <2>1. CASE UNCHANGED <<job, queue, future>>
    BY <2>1 DEF IInv, TypeOK
  <2>2. CASE Submit(at)
    BY <1>1, <2>2, SubmitType DEF IInv
  <2>3. QED
    BY <2>1, <2>2 DEF Enqueue
<1>4. /\ at' \in 0 .. TotalSteps + 1
      /\ pc' \in {"save", "validate", "drain", "raised"}
      /\ OnSteps'
      /\ pc' = "save" => part' = 1
  <2>1. CASE pc' = "raised" /\ UNCHANGED at
    BY <1>2, <2>1 DEF IInv, TypeOK, OnSteps
  <2>2. CASE Advance
    BY <1>1, <1>2, <2>2, AdvanceTypes DEF Enqueue
  <2>3. QED
    BY <2>1, <2>2 DEF Enqueue
<1>5. TypeOK'
  BY <1>2, <1>3, <1>4 DEF IInv, TypeOK, WorkerType
<1>6. QED
  BY <1>2, <1>4, <1>5, TrainerFrame DEF IInv

\* close.
LEMMA DrainInv == ASSUME IInv, Drain PROVE IInv'
<1>1. TypeOK'
  BY DEF IInv, TypeOK, Drain, disk, WorkerType
<1>2. OnSteps'
  BY DEF IInv, OnSteps, Drain
<1>3. UNCHANGED <<file, remote, result, worker>> /\ pc' # "save"
  BY DEF Drain, disk
<1>4. QED
  BY <1>1, <1>2, <1>3, TrainerFrame DEF IInv

\* A job starts.
LEMMA StartJobInv == ASSUME IInv, StartJob PROVE IInv'
<1>1. Head(queue) \in Step /\ Tail(queue) \in Seq(Step)
  BY DEF IInv, TypeOK, StartJob
<1>2. Head(queue) \in 0 .. TotalSteps
  BY <1>1, UploadAssumption DEF Step
<1>3. WorkerType
  BY DEF IInv, TypeOK
<1>4. /\ WorkerType'
      /\ worker'.pc = "validate" /\ worker'.step = Head(queue) /\ worker'.doomed = worker.doomed
  BY <1>2, <1>3 DEF StartJob, WorkerType
<1>5. UNCHANGED <<dirs, file, tracker, score, manifest, result, audit, remote, run, at, pc, part,
                  scan, future, broken>>
  BY DEF StartJob, trainerVars
<1>6. job' \in [Step -> {"none", "queued", "uploading", "complete", "failed"}]
  BY DEF IInv, TypeOK, StartJob
<1>7. queue' \in Seq(Step)
  BY <1>1 DEF StartJob
<1>8. TypeOK'
  BY <1>4, <1>5, <1>6, <1>7 DEF IInv, TypeOK
<1>9. UploadWhole' /\ DataLast' /\ SavingInOrder'
  BY <1>5 DEF IInv, UploadWhole, DataLast, SavingInOrder, Safe
<1>10. DoomedUploaded' /\ UploadingSafe'
  BY <1>4, <1>5 DEF IInv, DoomedUploaded, UploadingSafe
<1>11. OnSteps'
  BY <1>1, <1>4, <1>5 DEF IInv, OnSteps
<1>12. QED
  BY <1>8, <1>9, <1>10, <1>11 DEF IInv

\* What _run_job records when it gives up.
LEMMA JobFailsTypes ==
  ASSUME TypeOK, worker.step \in Step, JobFails
  PROVE  /\ job' \in [Step -> {"none", "queued", "uploading", "complete", "failed"}]
         /\ future' \in [Step -> {"none", "pending", "ok", "error"}]
         /\ worker' = Idle
BY DEF TypeOK, JobFails

\* The checkpoint is validated and hashed.  Its data.pt is there, so it is safe.
LEMMA CheckAndHashInv == ASSUME IInv, CheckAndHash PROVE IInv'
<1> DEFINE n == worker.step
<1>1. n \in Step
  BY DEF IInv, OnSteps, CheckAndHash
<1>2. UNCHANGED <<dirs, file, tracker, score, result, audit, remote, trainerVars, queue, broken>>
  BY DEF CheckAndHash
<1>3. /\ job' \in [Step -> {"none", "queued", "uploading", "complete", "failed"}]
      /\ future' \in [Step -> {"none", "pending", "ok", "error"}]
  <2>1. CASE JobFails
    BY <1>1, <2>1, JobFailsTypes DEF IInv
  <2>2. CASE UNCHANGED <<job, future>>
    BY <2>2 DEF IInv, TypeOK
  <2>3. QED
    BY <2>1, <2>2 DEF CheckAndHash
<1>4. manifest' \in [Step -> [Part -> 0 .. run]]
  <2>1. /\ file \in [Step -> [Part -> 0 .. run]] /\ file[n] \in [Part -> 0 .. run]
        /\ manifest \in [Step -> [Part -> 0 .. run]]
    BY <1>1 DEF IInv, TypeOK
  <2>2. manifest' = manifest \/ manifest' = [manifest EXCEPT ![n] = file[n]]
    BY DEF CheckAndHash
  <2>3. QED
    BY <2>1, <2>2
<1>5. \/ worker' = Idle
      \/ \E x \in WorkerPc : worker' = [worker EXCEPT !.pc = x] /\ (x = "upload" => Safe(n))
  <2>1. CASE ~Valid(n)
    BY <2>1 DEF CheckAndHash, JobFails
  <2>2. CASE Valid(n)
    <3>1. Safe(n)
      BY <1>1, <2>2 DEF IInv, DataLast, Valid
    <3>2. AfterUpload \in WorkerPc
      BY DEF AfterUpload, WorkerPc
    <3>3. "upload" \in WorkerPc
      BY DEF WorkerPc
    <3>4. \E x \in WorkerPc : worker' = [worker EXCEPT !.pc = x]
      BY <2>2, <3>2, <3>3 DEF CheckAndHash
    <3>5. QED
      BY <3>1, <3>4
  <2>3. QED
    BY <2>1, <2>2
<1>6. /\ WorkerType' /\ OnSteps'
      /\ UploadWhole' /\ DoomedUploaded' /\ DataLast' /\ SavingInOrder' /\ UploadingSafe'
  BY <1>1, <1>2, <1>5, ThreadFrame
<1>7. TypeOK'
  BY <1>2, <1>3, <1>4, <1>6 DEF IInv, TypeOK, trainerVars
<1>8. QED
  BY <1>6, <1>7 DEF IInv

\* The upload.  A safe checkpoint is whole on ModelScope afterwards.
LEMMA UploadInv == ASSUME IInv, Upload PROVE IInv'
<1> DEFINE n == worker.step
<1>1. n \in Step /\ worker.pc = "upload" /\ Safe(n)
  BY DEF IInv, OnSteps, UploadingSafe, Upload
<1>2. UNCHANGED <<dirs, file, tracker, score, manifest, audit, run, at, pc, part, scan, queue,
                  broken>>
  BY DEF Upload, trainerVars
<1>3. /\ file \in [Step -> [Part -> 0 .. run]] /\ remote \in [Step -> [Part -> 0 .. run]]
      /\ result \in [Step -> {"none", "complete", "failed"}] /\ WorkerType
  BY DEF IInv, TypeOK
<1>4. CASE /\ remote' = [remote EXCEPT ![n] =
                 [p \in Part |-> IF file[n][p] # 0 THEN file[n][p] ELSE remote[n][p]]]
           /\ result' = [result EXCEPT ![n] = "complete"]
           /\ worker' = [worker EXCEPT !.pc = AfterUpload]
           /\ UNCHANGED <<job, future>>
  <2> DEFINE up == [p \in Part |-> IF file[n][p] # 0 THEN file[n][p] ELSE remote[n][p]]
  <2>1. up \in [Part -> 0 .. run]
    BY <1>1, <1>3
  <2>2. remote' \in [Step -> [Part -> 0 .. run]] /\ remote'[n] = up
    BY <1>1, <1>3, <1>4, <2>1
  <2>3. Complete(remote'[n])
    BY <1>1, <2>2 DEF Safe, Complete
  <2>4. \A k \in Step : k # n => remote'[k] = remote[k]
    BY <1>3, <1>4
  <2>5. \A k \in Step : Complete(remote[k]) => Complete(remote'[k])
    BY <2>3, <2>4
  <2>6. AfterUpload \in WorkerPc /\ AfterUpload \notin {"upload", "idle"}
    BY DEF AfterUpload, WorkerPc
  <2>7. /\ WorkerType' /\ worker'.pc = AfterUpload
        /\ worker'.step = n /\ worker'.doomed = worker.doomed
    BY <1>3, <1>4, <2>6, WorkerMoves
  <2>8. result' \in [Step -> {"none", "complete", "failed"}]
    BY <1>3, <1>4
  <2>9. TypeOK'
    BY <1>2, <1>4, <2>2, <2>7, <2>8 DEF IInv, TypeOK
  <2>10. UploadWhole'
    BY <1>3, <1>4, <2>3, <2>5 DEF IInv, UploadWhole
  <2>11. DoomedUploaded'
    BY <1>3, <2>5, <2>7 DEF IInv, DoomedUploaded, WorkerType
  <2>12. DataLast'
    BY <1>2, <2>5 DEF IInv, DataLast, Safe
  <2>13. SavingInOrder'
    <3>1. pc = "save" => at \in Step
      BY UploadAssumption DEF IInv, OnSteps
    <3>2. QED
      BY <1>2, <2>5, <3>1 DEF IInv, SavingInOrder
  <2>14. UploadingSafe' /\ OnSteps'
    BY <1>1, <1>2, <2>6, <2>7 DEF IInv, UploadingSafe, OnSteps
  <2>15. QED
    BY <2>9, <2>10, <2>11, <2>12, <2>13, <2>14 DEF IInv
<1>5. CASE result' = [result EXCEPT ![n] = "failed"] /\ JobFails /\ UNCHANGED remote
  <2>1. /\ job' \in [Step -> {"none", "queued", "uploading", "complete", "failed"}]
        /\ future' \in [Step -> {"none", "pending", "ok", "error"}]
        /\ worker' = Idle
    BY <1>1, <1>5, JobFailsTypes DEF IInv
  <2>2. WorkerType' /\ worker'.pc = "idle" /\ worker'.doomed = {}
    BY <2>1, IdleWorker
  <2>3. result' \in [Step -> {"none", "complete", "failed"}]
    BY <1>3, <1>5
  <2>4. TypeOK'
    BY <1>2, <1>5, <2>1, <2>2, <2>3 DEF IInv, TypeOK
  <2>5. UploadWhole'
    BY <1>3, <1>5 DEF IInv, UploadWhole
  <2>6. DoomedUploaded' /\ UploadingSafe'
    BY <2>2 DEF DoomedUploaded, UploadingSafe
  <2>7. DataLast' /\ SavingInOrder'
    BY <1>2, <1>5 DEF IInv, DataLast, SavingInOrder, Safe
  <2>8. OnSteps'
    BY <1>2, <2>2 DEF IInv, OnSteps
  <2>9. QED
    BY <2>4, <2>5, <2>6, <2>7, <2>8 DEF IInv
<1>6. QED
  BY <1>4, <1>5 DEF Upload

\* Retention selects what was uploaded and is not kept.
LEMMA SelectInv == ASSUME IInv, Select PROVE IInv'
<1> DEFINE n == worker.step
<1>1. n \in Step
  BY DEF IInv, OnSteps, Select
<1>2. UNCHANGED <<dirs, file, tracker, score, manifest, result, audit, remote, run, at, pc, part,
                  scan, queue, broken>>
  BY DEF Select, trainerVars
<1>3. CASE JobFails
  <2>1. /\ job' \in [Step -> {"none", "queued", "uploading", "complete", "failed"}]
        /\ future' \in [Step -> {"none", "pending", "ok", "error"}]
        /\ worker' = Idle
    BY <1>1, <1>3, JobFailsTypes DEF IInv
  <2>2. /\ WorkerType' /\ OnSteps'
        /\ UploadWhole' /\ DoomedUploaded' /\ DataLast' /\ SavingInOrder' /\ UploadingSafe'
    BY <1>1, <1>2, <2>1, ThreadFrame DEF trainerVars
  <2>3. TypeOK'
    BY <1>2, <2>1, <2>2 DEF IInv, TypeOK
  <2>4. QED
    BY <2>2, <2>3 DEF IInv
<1>4. CASE /\ worker' = [worker EXCEPT !.pc = "prune", !.history = Recorded, !.expected = dirs,
                                       !.doomed = Doomed(n), !.pending = dirs \ Successful]
           /\ UNCHANGED <<job, future>>
  <2>1. /\ Recorded \in SUBSET Step /\ Doomed(n) \in SUBSET Step
        /\ dirs \in SUBSET Step /\ dirs \ Successful \in SUBSET Step
    BY UploadAssumption DEF Recorded, Doomed, Successful, IInv, TypeOK
  <2>2. WorkerType
    BY DEF IInv, TypeOK
  <2>3. /\ WorkerType'
        /\ worker'.pc = "prune" /\ worker'.step = n /\ worker'.doomed = Doomed(n)
    BY <1>4, <2>1, <2>2 DEF WorkerType
  <2>4. TypeOK'
    BY <1>2, <1>4, <2>3 DEF IInv, TypeOK
  <2>5. UploadWhole' /\ DataLast' /\ SavingInOrder'
    BY <1>2 DEF IInv, UploadWhole, DataLast, SavingInOrder, Safe
  <2>6. DoomedUploaded'
    BY <1>2, <2>3 DEF IInv, UploadWhole, DoomedUploaded, Doomed, Successful
  <2>7. UploadingSafe' /\ OnSteps'
    BY <1>1, <1>2, <2>3 DEF IInv, UploadingSafe, OnSteps
  <2>8. QED
    BY <2>4, <2>5, <2>6, <2>7 DEF IInv
<1>5. QED
  BY <1>3, <1>4 DEF Select
\* A file, or a directory, of an uploaded checkpoint is deleted.
LEMMA PruneInv == ASSUME IInv, Prune PROVE IInv'
<1>1. PICK n \in worker.doomed :
        LET left == {p \in Part : file[n][p] # 0} IN
        \/ /\ \E p \in left : file' = [file EXCEPT ![n][p] = 0]
           /\ UNCHANGED <<dirs, job, future, worker>>
        \/ /\ dirs' = dirs \ {n}
           /\ worker' = [worker EXCEPT !.doomed = @ \ {n}, !.expected = @ \ (dirs \cap {n})]
           /\ UNCHANGED <<file, job, future>>
        \/ JobFails /\ UNCHANGED <<dirs, file>>
  BY DEF Prune
<1>2. worker.pc = "prune"
  BY DEF Prune
<1>3. UNCHANGED <<tracker, score, manifest, result, audit, remote, run, at, pc, part, scan, queue,
                  broken>>
  BY DEF Prune, trainerVars
<1>4. n \in Step /\ Complete(remote[n]) /\ worker.step \in Step
  BY <1>2 DEF IInv, TypeOK, WorkerType, DoomedUploaded, OnSteps
<1>5. ASSUME NEW p \in Part, file' = [file EXCEPT ![n][p] = 0], UNCHANGED <<dirs, job, future, worker>>
      PROVE  IInv'
  <2>1. run \in Nat /\ 0 \in 0 .. run /\ file \in [Step -> [Part -> 0 .. run]]
    BY UploadAssumption DEF IInv, TypeOK
  <2>2. /\ file' \in [Step -> [Part -> 0 .. run]]
        /\ \A k \in Step, q \in Part : (k # n \/ q # p) => file'[k][q] = file[k][q]
    BY <1>4, <1>5, <2>1, WriteFile
  <2>3. TypeOK'
    BY <1>3, <1>5, <2>2 DEF IInv, TypeOK, WorkerType
  <2>4. UploadWhole' /\ DoomedUploaded' /\ OnSteps'
    BY <1>3, <1>5 DEF IInv, UploadWhole, DoomedUploaded, OnSteps
  <2>5. UploadingSafe'
    BY <1>2, <1>5 DEF UploadingSafe
  <2>6. DataLast'
    <3> SUFFICES ASSUME NEW k \in Step, file'[k][Data] # 0 PROVE Safe(k)'
      BY DEF DataLast
    <3>1. CASE k = n
      BY <1>3, <1>4, <3>1 DEF Safe
    <3>2. CASE k # n
      <4>1. \A q \in Part : file'[k][q] = file[k][q]
        BY <2>2, <3>2
      <4>2. Safe(k)
        BY <4>1 DEF IInv, DataLast, Part, Data
      <4>3. QED
        BY <1>3, <4>1, <4>2 DEF Safe, Complete
    <3>3. QED
      BY <3>1, <3>2
  <2>7. SavingInOrder'
    <3> SUFFICES ASSUME pc = "save", ~Complete(remote[at]), NEW q \in Part, q < part
                 PROVE  file'[at][q] # 0
      BY <1>3 DEF SavingInOrder
    <3>1. at \in Step /\ at # n
      BY <1>4, UploadAssumption DEF IInv, OnSteps
    <3>2. file[at][q] # 0
      BY DEF IInv, SavingInOrder
    <3>3. QED
      BY <2>2, <3>1, <3>2
  <2>8. QED
    BY <2>3, <2>4, <2>5, <2>6, <2>7 DEF IInv
<1>6. ASSUME dirs' = dirs \ {n}, UNCHANGED <<file, job, future>>,
             worker' = [worker EXCEPT !.doomed = @ \ {n}, !.expected = @ \ (dirs \cap {n})]
      PROVE  IInv'
  <2>1. WorkerType
    BY DEF IInv, TypeOK
  <2>2. /\ WorkerType'
        /\ worker'.pc = "prune" /\ worker'.step = worker.step
        /\ worker'.doomed = worker.doomed \ {n}
    BY <1>2, <1>6, <2>1 DEF WorkerType
  <2>3. TypeOK'
    BY <1>3, <1>6, <2>2 DEF IInv, TypeOK
  <2>4. UploadWhole' /\ DataLast' /\ SavingInOrder'
    BY <1>3, <1>6 DEF IInv, UploadWhole, DataLast, SavingInOrder, Safe
  <2>5. DoomedUploaded' /\ UploadingSafe'
    BY <1>3, <2>2 DEF IInv, DoomedUploaded, UploadingSafe
  <2>6. OnSteps'
    BY <1>3, <1>4, <2>2 DEF IInv, OnSteps
  <2>7. QED
    BY <2>3, <2>4, <2>5, <2>6 DEF IInv
<1>7. ASSUME JobFails, UNCHANGED <<dirs, file>> PROVE IInv'
  <2>1. /\ job' \in [Step -> {"none", "queued", "uploading", "complete", "failed"}]
        /\ future' \in [Step -> {"none", "pending", "ok", "error"}]
        /\ worker' = Idle
    BY <1>4, <1>7, JobFailsTypes DEF IInv
  <2>2. /\ WorkerType' /\ OnSteps'
        /\ UploadWhole' /\ DoomedUploaded' /\ DataLast' /\ SavingInOrder' /\ UploadingSafe'
    BY <1>3, <1>4, <1>7, <2>1, ThreadFrame DEF trainerVars
  <2>3. TypeOK'
    BY <1>3, <1>7, <2>1, <2>2 DEF IInv, TypeOK
  <2>4. QED
    BY <2>2, <2>3 DEF IInv
<1>8. QED
  BY <1>1, <1>5, <1>6, <1>7

\* The second listing is compared.
LEMMA VerifyInv == ASSUME IInv, Verify PROVE IInv'
<1>1. worker.step \in Step
  BY DEF IInv, OnSteps, Verify
<1>2. UNCHANGED <<dirs, file, tracker, score, manifest, result, audit, remote, run, at, pc, part,
                  scan, queue, broken>>
  BY DEF Verify, trainerVars
<1>3. /\ job' \in [Step -> {"none", "queued", "uploading", "complete", "failed"}]
      /\ future' \in [Step -> {"none", "pending", "ok", "error"}]
  <2>1. CASE JobFails
    BY <1>1, <2>1, JobFailsTypes DEF IInv
  <2>2. CASE UNCHANGED <<job, future>>
    BY <2>2 DEF IInv, TypeOK
  <2>3. QED
    BY <2>1, <2>2 DEF Verify
<1>4. \/ worker' = Idle
      \/ \E x \in WorkerPc : worker' = [worker EXCEPT !.pc = x] /\ (x = "upload" => Safe(worker.step))
  BY DEF Verify, JobFails, WorkerPc
<1>5. /\ WorkerType' /\ OnSteps'
      /\ UploadWhole' /\ DoomedUploaded' /\ DataLast' /\ SavingInOrder' /\ UploadingSafe'
  BY <1>1, <1>2, <1>4, ThreadFrame DEF trainerVars
<1>6. TypeOK'
  BY <1>2, <1>3, <1>5 DEF IInv, TypeOK
<1>7. QED
  BY <1>5, <1>6 DEF IInv

\* Retention truncates the tracker ...
LEMMA RetentionTruncateInv == ASSUME IInv, RetentionTruncate PROVE IInv'
<1>1. worker.step \in Step
  BY DEF IInv, OnSteps, RetentionTruncate
<1>2. UNCHANGED <<dirs, file, score, job, manifest, result, audit, remote, run, at, pc, part,
                  scan, queue, future, broken>>
  BY DEF RetentionTruncate, trainerVars
<1>3. \E x \in WorkerPc : worker' = [worker EXCEPT !.pc = x] /\ (x = "upload" => Safe(worker.step))
  BY DEF RetentionTruncate, WorkerPc
<1>4. /\ WorkerType' /\ OnSteps'
      /\ UploadWhole' /\ DoomedUploaded' /\ DataLast' /\ SavingInOrder' /\ UploadingSafe'
  BY <1>1, <1>2, <1>3, ThreadFrame DEF trainerVars
<1>5. tracker' \in {Torn, Missing} \cup Step
  BY DEF RetentionTruncate
<1>6. TypeOK'
  BY <1>2, <1>4, <1>5 DEF IInv, TypeOK
<1>7. QED
  BY <1>4, <1>6 DEF IInv

\* ... and writes it.
LEMMA RetentionTrackInv == ASSUME IInv, RetentionTrack PROVE IInv'
<1>1. worker.step \in Step
  BY DEF IInv, OnSteps, RetentionTrack
<1>2. UNCHANGED <<dirs, file, score, job, manifest, result, audit, remote, run, at, pc, part,
                  scan, queue, future, broken>>
  BY DEF RetentionTrack, trainerVars
<1>3. \E x \in WorkerPc : worker' = [worker EXCEPT !.pc = x] /\ (x = "upload" => Safe(worker.step))
  BY DEF RetentionTrack, WorkerPc
<1>4. /\ WorkerType' /\ OnSteps'
      /\ UploadWhole' /\ DoomedUploaded' /\ DataLast' /\ SavingInOrder' /\ UploadingSafe'
  BY <1>1, <1>2, <1>3, ThreadFrame DEF trainerVars
<1>5. worker.expected \subseteq Step
  BY DEF IInv, TypeOK, WorkerType
<1>6. tracker' \in {Torn, Missing} \cup Step
  BY <1>5 DEF RetentionTrack
<1>7. TypeOK'
  BY <1>2, <1>4, <1>6 DEF IInv, TypeOK
<1>8. QED
  BY <1>4, <1>7 DEF IInv

\* The retention audit is replaced.
LEMMA WriteAuditInv == ASSUME IInv, WriteAudit PROVE IInv'
<1>1. worker.step \in Step
  BY DEF IInv, OnSteps, WriteAudit
<1>2. UNCHANGED <<dirs, file, tracker, score, job, manifest, result, remote, run, at, pc, part,
                  scan, queue, future, broken>>
  BY DEF WriteAudit, trainerVars
<1>3. \E x \in WorkerPc : worker' = [worker EXCEPT !.pc = x] /\ (x = "upload" => Safe(worker.step))
  BY DEF WriteAudit, WorkerPc
<1>4. /\ WorkerType' /\ OnSteps'
      /\ UploadWhole' /\ DoomedUploaded' /\ DataLast' /\ SavingInOrder' /\ UploadingSafe'
  BY <1>1, <1>2, <1>3, ThreadFrame DEF trainerVars
<1>5. worker.history \in SUBSET Step
  BY DEF IInv, TypeOK, WorkerType
<1>6. audit' \in [steps : SUBSET Step, terminal : BOOLEAN]
  BY <1>5 DEF WriteAudit
<1>7. TypeOK'
  BY <1>2, <1>4, <1>6 DEF IInv, TypeOK
<1>8. QED
  BY <1>4, <1>7 DEF IInv

\* The job is recorded as complete.
LEMMA FinishJobInv == ASSUME IInv, FinishJob PROVE IInv'
<1>1. worker.step \in Step /\ worker' = Idle
  BY DEF IInv, OnSteps, FinishJob
<1>2. UNCHANGED <<dirs, file, tracker, score, manifest, result, audit, remote, run, at, pc, part,
                  scan, queue, broken>>
  BY DEF FinishJob, trainerVars
<1>3. /\ WorkerType' /\ OnSteps'
      /\ UploadWhole' /\ DoomedUploaded' /\ DataLast' /\ SavingInOrder' /\ UploadingSafe'
  BY <1>1, <1>2, ThreadFrame DEF trainerVars
<1>4. /\ job' \in [Step -> {"none", "queued", "uploading", "complete", "failed"}]
      /\ future' \in [Step -> {"none", "pending", "ok", "error"}]
  BY <1>1 DEF IInv, TypeOK, FinishJob
<1>5. TypeOK'
  BY <1>2, <1>3, <1>4 DEF IInv, TypeOK
<1>6. QED
  BY <1>3, <1>5 DEF IInv

\* The process is restarted.  The disk stays; the next save begins with the first file.
LEMMA CrashInv == ASSUME IInv, Crash PROVE IInv'
<1>1. /\ UNCHANGED <<dirs, file, tracker, score, job, manifest, result, audit, remote>>
      /\ run' = run + 1 /\ part' = 1 /\ scan' = 0 /\ queue' = <<>> /\ broken' = {}
      /\ future' = [n \in Step |-> "none"] /\ worker' = Idle
      /\ run <= MaxCrashes /\ Resume
  BY DEF Crash, disk
<1>2. WorkerType' /\ worker'.pc = "idle" /\ worker'.doomed = {}
  BY <1>1, IdleWorker
<1>3. \/ at' = at /\ pc' = "raised"
      \/ \E t \in 0 .. TotalSteps : at' = t + 1 /\ pc' = Begin(t + 1)
  <2>1. Resume /\ tracker \in {Torn, Missing} \cup Step
    BY <1>1 DEF IInv, TypeOK
  <2>2. tracker # Torn => tracker \in 0 .. TotalSteps
    BY <2>1, UploadAssumption DEF Step, Missing
  <2>3. 0 \in 0 .. TotalSteps
    BY UploadAssumption
  <2>4. CASE tracker = Torn
    <3>1. Torn \notin dirs
      BY UploadAssumption DEF IInv, TypeOK, Torn, Step
    <3>2. Torn # Missing
      BY DEF Torn, Missing
    <3>3. QED
      BY <2>1, <2>4, <3>1, <3>2 DEF Resume, Loadable
  <2>5. CASE tracker # Torn
    <3>1. tracker \in 0 .. TotalSteps
      BY <2>2, <2>5
    <3>2. \/ at' = at /\ pc' = "raised"
          \/ at' = 0 + 1 /\ pc' = Begin(0 + 1)
          \/ at' = tracker + 1 /\ pc' = Begin(tracker + 1)
      BY <2>1 DEF Resume
    <3>3. QED
      BY <2>3, <3>1, <3>2
  <2>6. QED
    BY <2>4, <2>5
<1>4. /\ at' \in 0 .. TotalSteps + 1
      /\ pc' \in {"raised", "save", "validate", "drain"}
      /\ pc' = "save" => at' \in SaveSteps
      /\ pc' = "validate" => at' \in Step
  <2>1. CASE at' = at /\ pc' = "raised"
    BY <2>1 DEF IInv, TypeOK
  <2>2. CASE \E t \in 0 .. TotalSteps : at' = t + 1 /\ pc' = Begin(t + 1)
    <3>1. PICK t \in 0 .. TotalSteps : at' = t + 1 /\ pc' = Begin(t + 1)
      BY <2>2
    <3>2. t + 1 \in Nat \ {0} /\ t + 1 \in 0 .. TotalSteps + 1
      BY UploadAssumption
    <3>3. QED
      BY <3>1, <3>2, BeginPc
  <2>3. QED
    BY <1>3, <2>1, <2>2
<1>5. run' \in 1 .. MaxCrashes + 1 /\ 0 .. run \subseteq 0 .. run'
  BY <1>1, UploadAssumption DEF IInv, TypeOK
<1>6. /\ file' \in [Step -> [Part -> 0 .. run']]
      /\ manifest' \in [Step -> [Part -> 0 .. run']]
      /\ remote' \in [Step -> [Part -> 0 .. run']]
  <2>1. \A f \in [Step -> [Part -> 0 .. run]] : f \in [Step -> [Part -> 0 .. run']]
    BY <1>5
  <2>2. QED
    BY <1>1, <2>1 DEF IInv, TypeOK
<1>7. scan' \in 0 .. Len(ByName) /\ part' \in Part /\ queue' \in Seq(Step) /\ broken' \subseteq Step
  <2>1. Len(ByName) \in Nat
    BY UploadAssumption
  <2>2. QED
    BY <1>1, <2>1 DEF Part
<1>8. future' \in [Step -> {"none", "pending", "ok", "error"}]
  BY <1>1
<1>9. TypeOK'
  BY <1>1, <1>2, <1>4, <1>5, <1>6, <1>7, <1>8 DEF IInv, TypeOK
<1>10. UploadWhole' /\ DataLast'
  BY <1>1 DEF IInv, UploadWhole, DataLast, Safe
<1>11. DoomedUploaded' /\ UploadingSafe'
  BY <1>2 DEF DoomedUploaded, UploadingSafe
<1>12. SavingInOrder'
  BY <1>1 DEF SavingInOrder, Part
<1>13. OnSteps'
  BY <1>1, <1>2, <1>4 DEF OnSteps
<1>14. QED
  BY <1>9, <1>10, <1>11, <1>12, <1>13 DEF IInv

\* The end of training, and its waits, change nothing.
LEMMA StutterInv == ASSUME IInv, UNCHANGED vars PROVE IInv'
<1>1. UNCHANGED <<dirs, file, tracker, score, job, manifest, result, audit, remote, run, at, pc,
                  part, scan, queue, future, broken, worker>>
  BY DEF vars, disk, trainerVars
<1>2. TypeOK'
  BY <1>1 DEF IInv, TypeOK, WorkerType
<1>3. OnSteps'
  BY <1>1 DEF IInv, OnSteps
<1>4. UploadWhole' /\ DoomedUploaded' /\ DataLast' /\ SavingInOrder' /\ UploadingSafe'
  BY <1>1 DEF IInv, UploadWhole, DoomedUploaded, DataLast, SavingInOrder, UploadingSafe, Safe
<1>5. QED
  BY <1>2, <1>3, <1>4 DEF IInv

\* Every step preserves the invariant.
LEMMA NextInv == ASSUME IInv, [Next]_vars PROVE IInv'
<1>1. CASE Trainer
  BY <1>1, SaveFileInv, TruncateTrackerInv, CommitTrackerInv, RecoverJobInv, RecordValidationInv,
     EnqueueInv, DrainInv DEF Trainer
<1>2. CASE Uploader
  BY <1>2, StartJobInv, CheckAndHashInv, UploadInv, SelectInv, PruneInv, VerifyInv,
     RetentionTruncateInv, RetentionTrackInv, WriteAuditInv, FinishJobInv DEF Uploader
<1>3. CASE Crash
  BY <1>3, CrashInv
<1>4. CASE Terminated \/ UNCHANGED vars
  BY <1>4, StutterInv DEF Terminated
<1>5. QED
  BY <1>1, <1>2, <1>3, <1>4 DEF Next

-----------------------------------------------------------------------------
(* The theorems.                                                           *)

\* _validate_checkpoint, _run_job and _retain_after_verified_upload keep the
\* invariant, whatever the two threads do in between and wherever the process dies.
THEOREM Invariance == Spec => []IInv
<1>1. IInv /\ [Next]_vars => IInv'
  BY NextInv
<1>2. QED
  BY <1>1, InitInv, PTL DEF Spec

\* Type correctness of UploadQueue.
THEOREM TypeCorrect == Spec => []TypeOK
<1>1. IInv => TypeOK
  BY DEF IInv
<1>2. QED
  BY <1>1, Invariance, PTL

\* _retain_after_verified_upload deletes a file only of a checkpoint that ModelScope
\* holds whole, for any number of steps, crashes and kept checkpoints.
THEOREM OnlyUploadedPruned == Spec => PrunedOnlyUploaded
<1> DEFINE Spared ==
      \A n \in Step, p \in Part : (file[n][p] # 0 /\ file'[n][p] = 0) => Complete(remote[n])
<1>1. ASSUME IInv, [Next]_vars PROVE [Spared]_vars
  <2> SUFFICES ASSUME NEW n \in Step, NEW p \in Part, file[n][p] # 0, file'[n][p] = 0
               PROVE  Complete(remote[n])
    OBVIOUS
  <2>1. file' # file
    OBVIOUS
  <2>2. CASE SaveFile
    <3>1. at \in Step /\ part \in Part /\ file \in [Step -> [Part -> 0 .. run]]
      BY <1>1, <2>2, UploadAssumption DEF IInv, TypeOK, OnSteps, SaveFile
    <3>2. run \in Nat /\ run # 0 /\ run \in 0 .. run
      <4>1. run \in 1 .. MaxCrashes + 1 /\ MaxCrashes \in Nat
        BY <1>1, UploadAssumption DEF IInv, TypeOK
      <4>2. QED
        BY <4>1
    <3>3. file' = [file EXCEPT ![at][part] = run]
      BY <2>1, <2>2 DEF SaveFile
    <3>4. file'[n][p] = file[n][p] \/ file'[n][p] = run
      BY <3>1, <3>2, <3>3, WriteFile
    <3>5. QED
      BY <3>2, <3>4
  <2>3. CASE Prune
    <3>1. PICK m \in worker.doomed : \E q \in Part : file' = [file EXCEPT ![m][q] = 0]
      BY <2>1, <2>3 DEF Prune
    <3>2. m \in Step /\ Complete(remote[m]) /\ file \in [Step -> [Part -> 0 .. run]]
      BY <1>1 DEF IInv, TypeOK, WorkerType, DoomedUploaded
    <3>3. run \in Nat /\ 0 \in 0 .. run
      BY <1>1, UploadAssumption DEF IInv, TypeOK
    <3>4. n = m
      BY <3>1, <3>2, <3>3, WriteFile
    <3>5. QED
      BY <3>2, <3>4
  <2>4. CASE ~SaveFile /\ ~Prune
    <3>1. CASE Trainer
      BY <2>1, <2>4, <3>1 DEF Trainer, TruncateTracker, CommitTracker, RecoverJob, RecordValidation,
         Enqueue, Drain, disk
    <3>2. CASE Uploader
      BY <2>1, <2>4, <3>2 DEF Uploader, StartJob, CheckAndHash, Upload, Select, Verify,
         RetentionTruncate, RetentionTrack, WriteAudit, FinishJob
    <3>3. CASE Crash \/ Terminated \/ UNCHANGED vars
      BY <2>1, <3>3 DEF Crash, Terminated, vars, disk
    <3>4. QED
      BY <1>1, <3>1, <3>2, <3>3 DEF Next
  <2>5. QED
    BY <2>2, <2>3, <2>4
<1>2. QED
  BY <1>1, Invariance, PTL DEF Spec, PrunedOnlyUploaded

=============================================================================
