-------------------------- MODULE UploadDrain_proofs --------------------------
(***************************************************************************)
(* What holds in UploadQueue when training ends without an error, for all  *)
(* numbers of steps, crashes and kept checkpoints: every checkpoint is     *)
(* whole on ModelScope, and the best ones are whole on disk.               *)
(*                                                                         *)
(* QInv is the bookkeeping of the durable queue: a record, a future, a     *)
(* place in the executor's queue and the upload thread tell one story.     *)
(* HInv is the history that the disk remembers across crashes: what was    *)
(* saved or uploaded stays so, and only beaten checkpoints lose files.     *)
(* Both are inductive relative to IInv of UploadQueue_proofs.  From them   *)
(* follows, step by step, that UploadQueue implements CheckpointLifecycle. *)
(***************************************************************************)
EXTENDS UploadQueue_proofs, SequenceTheorems, FiniteSetTheorems

\* What no crash undoes: an uploaded step was submitted, a saved one has its directory
\* until it is uploaded.
Uploaded(n) == Complete(remote[n]) /\ job[n] # "none"
Saved(n) == n \in dirs \/ Uploaded(n)
Covered(n) == \A m \in SaveSteps : m <= n => Saved(m)

\* KeepBest recorded steps are better than n, and always will be.
Rivals(n) == {m \in SaveSteps : score[m] # 0 /\ Beats(m, n)}
Beaten(n) == score[n] # 0 /\ Cardinality(Rivals(n)) >= KeepBest

OnDisk(n) == n \in dirs /\ Complete(file[n])
Local(n) == OnDisk(n) \/ Beaten(n)

-----------------------------------------------------------------------------
(* The bookkeeping of the queue.                                           *)

\* The records examined by this incarnation.
Scanned == {ByName[i] : i \in 1 .. scan}

Futures == \A n \in Step : future[n] # "none" => n \in Scanned

\* A queued job is queued once, and the one that runs is not queued.
QueuedOnce ==
  /\ \A i, j \in 1 .. Len(queue) : queue[i] = queue[j] => i = j
  /\ \A i \in 1 .. Len(queue) : future[queue[i]] = "pending" /\ job[queue[i]] = "queued"

WorkingOnce ==
  worker.pc # "idle" =>
    /\ future[worker.step] = "pending" /\ job[worker.step] = "uploading"
    /\ \A i \in 1 .. Len(queue) : queue[i] # worker.step

\* The record of an examined job agrees with its future, or is known to have failed.
Followed ==
  \A n \in Scanned :
    /\ job[n] \in {"queued", "uploading"} => future[n] = "pending"
    /\ job[n] = "failed" => n \in broken \/ future[n] = "error"
    /\ future[n] = "ok" => job[n] = "complete"

Opened == pc = "enqueue" => Open

QInv == Futures /\ QueuedOnce /\ WorkingOnce /\ Followed /\ Opened

-----------------------------------------------------------------------------
(* The history of the checkpoints.                                         *)

\* A submitted step is saved, validated and, unless beaten, whole on disk; so were all
\* steps before it saved.
Jobs ==
  \A n \in Step :
    /\ job[n] # "none" => n \in SaveSteps /\ score[n] # 0 /\ Local(n) /\ Covered(n)
    /\ result[n] # "none" => job[n] # "none"

Dooms == \A n \in worker.doomed : job[n] # "none" /\ Beaten(n)

\* What the trainer has left behind.
Past ==
  /\ Covered(at - 1)
  /\ pc \in {"truncate", "commit", "validate", "enqueue"} /\ at \in SaveSteps =>
       Covered(at) /\ Local(at)
  /\ pc = "save" => (\A p \in Part : p < part => at \in dirs /\ file[at][p] # 0) \/ Beaten(at)
  /\ pc = "enqueue" => score[at] # 0

\* A step with a directory, and one the tracker may name, has its predecessors saved.
Traces ==
  /\ \A n \in dirs \cup worker.expected : Covered(n)
  /\ tracker \in Step => Covered(tracker)

\* The retention of the last step found nothing that was not uploaded.
LastAudit ==
  \/ audit.terminal
  \/ worker.step = TotalSteps /\ worker.pc \in {"truncate", "track", "audit", "finish"}
  \/ worker.step = TotalSteps /\ worker.pc = "prune" /\ worker.pending = {}

Terminal ==
  KeepBest > 0 /\ (job[TotalSteps] = "complete" \/ LastAudit) => \A n \in SaveSteps : Uploaded(n)

\* Training ends after the last step was submitted and every future has ended well.
LastEnqueued ==
  pc \in {"drain", "done"} /\ Open => job[TotalSteps] = "complete" \/ future[TotalSteps] # "none"

Closed == pc = "done" => Drained /\ NoFailure

HInv == Jobs /\ Dooms /\ Past /\ Traces /\ Terminal

EInv == LastEnqueued /\ Closed

-----------------------------------------------------------------------------
(* Sequences.                                                              *)

LEMMA TailElements ==
  ASSUME NEW q \in Seq(Step), q # <<>>
  PROVE  /\ Len(q) \in Nat \ {0} /\ Head(q) = q[1] /\ Len(Tail(q)) = Len(q) - 1
         /\ \A i \in 1 .. Len(q) - 1 : Tail(q)[i] = q[i + 1]
  BY EmptySeq

LEMMA AppendElements ==
  ASSUME NEW q \in Seq(Step), NEW n \in Step
  PROVE  /\ Len(q) \in Nat /\ Len(Append(q, n)) = Len(q) + 1
         /\ \A i \in 1 .. Len(q) : Append(q, n)[i] = q[i]
         /\ Append(q, n)[Len(q) + 1] = n
  OBVIOUS

\* The names of the records are the saved steps, each once.
LEMMA Names ==
  /\ Len(ByName) \in Nat /\ SaveSteps \subseteq Step
  /\ \A i \in 1 .. Len(ByName) : ByName[i] \in SaveSteps
  /\ \A i, j \in 1 .. Len(ByName) : ByName[i] = ByName[j] => i = j
  /\ \A n \in SaveSteps : \E i \in 1 .. Len(ByName) : n = ByName[i]
<1>1. /\ ByName \in Seq(SaveSteps) /\ ToSet(ByName) = SaveSteps /\ IsInjective(ByName)
      /\ SaveSteps \subseteq Step
  BY UploadAssumption
<1>2. Len(ByName) \in Nat /\ DOMAIN ByName = 1 .. Len(ByName)
  BY <1>1
<1>3. \A i, j \in 1 .. Len(ByName) : ByName[i] = ByName[j] => i = j
  BY <1>1, <1>2 DEF IsInjective
<1>4. \A n \in SaveSteps : \E i \in 1 .. Len(ByName) : n = ByName[i]
  BY <1>1, <1>2 DEF ToSet
<1> QED
  BY <1>1, <1>2, <1>3, <1>4

LEMMA ScanAll == Open => Scanned = SaveSteps
  BY Names DEF Open, Scanned

-----------------------------------------------------------------------------
(* The bookkeeping is inductive.                                           *)

LEMMA InitQ == Init => QInv
  BY Names, EmptySeq DEF Init, QInv, Futures, QueuedOnce, WorkingOnce, Followed, Opened, Scanned, Idle,
     Begin

\* A step that leaves the queue alone.
LEMMA QueueFrame ==
  ASSUME IInv, QInv, UNCHANGED <<job, queue, future, scan>>, broken \subseteq broken',
         worker'.pc # "idle" => worker.pc # "idle" /\ worker'.step = worker.step,
         pc' = "enqueue" => Open
  PROVE  QInv'
<1> USE DEF QInv
<1>1. Scanned' = Scanned /\ (Open' <=> Open)
  BY DEF Scanned, Open
<1>2. Futures' /\ Followed'
  BY <1>1 DEF Futures, Followed
<1>3. QueuedOnce' /\ WorkingOnce'
  BY DEF QueuedOnce, WorkingOnce
<1> QED
  BY <1>1, <1>2, <1>3 DEF Opened

\* _submit of a job that has no future yet.
LEMMA SubmitQ ==
  ASSUME IInv, QInv, NEW n \in Step, Submit(n), future[n] = "none", n \in Scanned',
         scan' \in {scan, scan + 1}, \A k \in Scanned' : k = n \/ k \in Scanned,
         Scanned \subseteq Scanned', UNCHANGED <<worker, broken>>, pc' # "enqueue"
  PROVE  QInv'
<1> USE DEF QInv
<1>1. /\ job \in [Step -> {"none", "queued", "uploading", "complete", "failed"}] /\ queue \in Seq(Step)
      /\ future \in [Step -> {"none", "pending", "ok", "error"}]
      /\ worker.pc # "idle" => worker.step \in Step
  BY DEF IInv, TypeOK, OnSteps
<1>2. /\ job'[n] = "queued" /\ future'[n] = "pending"
      /\ \A k \in Step \ {n} : job'[k] = job[k] /\ future'[k] = future[k]
  BY <1>1 DEF Submit
<1> PICK l \in Nat : l = Len(queue)
  BY <1>1
<1>3. /\ Len(queue') = l + 1 /\ queue'[l + 1] = n
      /\ \A i \in 1 .. l : queue'[i] = queue[i] /\ queue[i] \in Step
  BY <1>1, AppendElements DEF Submit
<1>4. \A i \in 1 .. l : queue[i] # n
  BY <1>1 DEF QueuedOnce
<1>5. worker.pc # "idle" => worker.step # n
  BY DEF WorkingOnce
<1>6. Futures'
  BY <1>2 DEF Futures
<1>7. QueuedOnce'
  <2>1. \A i \in 1 .. l : future'[queue'[i]] = "pending" /\ job'[queue'[i]] = "queued"
    BY <1>2, <1>3, <1>4 DEF QueuedOnce
  <2>2. future'[queue'[l + 1]] = "pending" /\ job'[queue'[l + 1]] = "queued"
    BY <1>2, <1>3
  <2>3. \A i \in 1 .. l + 1 : i \in 1 .. l \/ i = l + 1
    OBVIOUS
  <2>4. \A i, j \in 1 .. l + 1 : queue'[i] = queue'[j] => i = j
    BY <1>3, <1>4, <2>3 DEF QueuedOnce
  <2> QED
    BY <1>3, <2>1, <2>2, <2>3, <2>4 DEF QueuedOnce
<1>8. WorkingOnce'
  BY <1>1, <1>2, <1>3, <1>5 DEF WorkingOnce
<1>9. Followed'
  <2>1. Scanned \subseteq Step
    BY Names DEF Scanned, IInv, TypeOK
  <2> QED
    BY <1>2, <2>1 DEF Followed
<1> QED
  BY <1>6, <1>7, <1>8, <1>9 DEF Opened

LEMMA RecoverJobQ == ASSUME IInv, QInv, RecoverJob PROVE QInv'
<1> USE DEF QInv
<1> PICK n \in Step : n = ByName[scan + 1]
  BY ScanStep DEF IInv, TypeOK, RecoverJob
<1>1. /\ scan \in Nat /\ scan + 1 \in 1 .. Len(ByName) /\ scan' = scan + 1
      /\ UNCHANGED <<worker, pc>> /\ pc = "validate"
  BY Names DEF IInv, TypeOK, RecoverJob, Open
<1>2. n \notin Scanned
  BY <1>1, Names DEF Scanned
<1>3. Scanned' = Scanned \cup {n}
  BY <1>1 DEF Scanned
<1>4. future[n] = "none"
  BY <1>2 DEF Futures
<1>5. CASE Submit(n) /\ UNCHANGED broken
  BY <1>1, <1>3, <1>4, <1>5, SubmitQ
<1>6. CASE /\ UNCHANGED <<queue, future>>
           /\ \/ UNCHANGED <<job, broken>> /\ job[n] \in {"none", "complete"}
              \/ UNCHANGED job /\ job[n] = "failed" /\ broken' = broken \cup {n}
              \/ job' = [job EXCEPT ![n] = "complete"] /\ broken' = broken
              \/ job' = [job EXCEPT ![n] = "failed"] /\ broken' = broken \cup {n}
  <2>1. /\ job \in [Step -> {"none", "queued", "uploading", "complete", "failed"}] /\ queue \in Seq(Step)
        /\ worker.pc # "idle" => worker.step \in Step
    BY DEF IInv, TypeOK, OnSteps
  <2>2. /\ \A k \in Step \ {n} : job'[k] = job[k]
        /\ job'[n] \in {"none", "complete"} \/ (job'[n] = "failed" /\ n \in broken')
        /\ broken \subseteq broken'
    BY <1>6, <2>1
  <2>3. \A i \in 1 .. Len(queue) : queue[i] \in Step /\ queue[i] # n
    BY <1>4, <2>1 DEF QueuedOnce
  <2>4. worker.pc # "idle" => worker.step # n
    BY <1>4 DEF WorkingOnce
  <2>5. Futures'
    BY <1>3, <1>6 DEF Futures
  <2>6. QueuedOnce'
    BY <1>6, <2>2, <2>3 DEF QueuedOnce
  <2>7. WorkingOnce'
    BY <1>1, <1>6, <2>1, <2>2, <2>4 DEF WorkingOnce
  <2>8. Scanned \subseteq Step
    BY <1>1, Names DEF Scanned
  <2>9. Followed'
    BY <1>2, <1>3, <1>4, <1>6, <2>2, <2>8 DEF Followed
  <2> QED
    BY <1>1, <2>5, <2>6, <2>7, <2>9 DEF Opened
<1> QED
  BY <1>5, <1>6 DEF RecoverJob

LEMMA EnqueueQ == ASSUME IInv, QInv, Enqueue PROVE QInv'
<1> USE DEF QInv
<1>1. UNCHANGED <<scan, worker, broken>> /\ pc' # "enqueue"
  BY DEF Enqueue, Advance, Begin
<1>2. CASE UNCHANGED <<job, queue, future>>
  BY <1>1, <1>2, QueueFrame
<1>3. CASE ~ KnownJob(at) /\ Submit(at)
  <2>1. at \in Scanned /\ at \in Step /\ Scanned' = Scanned
    BY <1>1, ScanAll, Names DEF Opened, IInv, OnSteps, Enqueue, Scanned
  <2>2. future[at] = "none"
    BY <1>3 DEF KnownJob
  <2> PICK n \in Step : n = at
    BY <2>1
  <2>3. Submit(n) /\ future[n] = "none" /\ n \in Scanned'
    BY <1>3, <2>1, <2>2
  <2> QED
    BY <1>1, <2>1, <2>3, SubmitQ
<1> QED
  BY <1>2, <1>3 DEF Enqueue

LEMMA StartJobQ == ASSUME IInv, QInv, StartJob PROVE QInv'
<1> USE DEF QInv
<1>1. /\ job \in [Step -> {"none", "queued", "uploading", "complete", "failed"}] /\ queue \in Seq(Step)
      /\ queue # <<>>
  BY DEF IInv, TypeOK, StartJob
<1> PICK l \in Nat \ {0} : l = Len(queue)
  BY <1>1, EmptySeq
<1> PICK h \in Step : h = queue[1]
  BY <1>1
<1>2. /\ Len(queue') = l - 1 /\ \A i \in 1 .. l - 1 : queue'[i] = queue[i + 1]
      /\ Head(queue) = h
  BY <1>1, TailElements DEF StartJob
<1>3. /\ job'[h] = "uploading" /\ \A k \in Step \ {h} : job'[k] = job[k]
      /\ worker'.step = h
      /\ UNCHANGED <<future, broken, scan, pc>>
  <2>1. WorkerType
    BY DEF IInv, TypeOK
  <2> QED
    BY <1>1, <1>2, <2>1 DEF StartJob, trainerVars, WorkerType
<1>4. \A i \in 1 .. l - 1 : i + 1 \in 1 .. l /\ i + 1 # 1 /\ queue[i + 1] \in Step
  BY <1>1
<1>5. \A i \in 1 .. l - 1 : queue'[i] # h
  BY <1>2, <1>4 DEF QueuedOnce
<1>6. future[h] = "pending"
  BY DEF QueuedOnce
<1>7. QueuedOnce'
  <2>1. \A i \in 1 .. l - 1 : future'[queue'[i]] = "pending" /\ job'[queue'[i]] = "queued"
    BY <1>2, <1>3, <1>4, <1>5 DEF QueuedOnce
  <2>2. \A i, j \in 1 .. l - 1 : queue'[i] = queue'[j] => i = j
    <3> TAKE i, j \in 1 .. l - 1
    <3>1. queue'[i] = queue[i + 1] /\ queue'[j] = queue[j + 1]
      BY <1>2
    <3>2. queue[i + 1] = queue[j + 1] => i + 1 = j + 1
      BY <1>4 DEF QueuedOnce
    <3> QED
      BY <3>1, <3>2
  <2> QED
    BY <1>2, <2>1, <2>2 DEF QueuedOnce
<1>8. WorkingOnce'
  BY <1>2, <1>3, <1>5, <1>6 DEF WorkingOnce
<1>9. Scanned' = Scanned /\ Scanned \subseteq Step
  BY <1>3, Names DEF Scanned, IInv, TypeOK
<1>10. Futures' /\ Followed'
  BY <1>3, <1>6, <1>9 DEF Futures, Followed
<1> QED
  BY <1>3, <1>7, <1>8, <1>10 DEF Opened, Open

\* The job of the upload thread ends.
LEMMA EndJobQ ==
  ASSUME IInv, QInv, worker.pc # "idle", worker' = Idle, UNCHANGED <<queue, scan, pc, broken>>,
         NEW j \in {"complete", "failed"}, NEW f \in {"ok", "error"}, j = "complete" <=> f = "ok",
         job' = [job EXCEPT ![worker.step] = j], future' = [future EXCEPT ![worker.step] = f]
  PROVE  QInv'
<1> USE DEF QInv
<1> PICK s \in Step : s = worker.step
  BY DEF IInv, OnSteps
<1>1. /\ job \in [Step -> {"none", "queued", "uploading", "complete", "failed"}] /\ queue \in Seq(Step)
      /\ future \in [Step -> {"none", "pending", "ok", "error"}]
  BY DEF IInv, TypeOK
<1>2. /\ job'[s] = j /\ future'[s] = f
      /\ \A k \in Step \ {s} : job'[k] = job[k] /\ future'[k] = future[k]
  BY <1>1
<1>3. \A i \in 1 .. Len(queue) : queue[i] \in Step \ {s}
  BY <1>1 DEF WorkingOnce
<1>4. Scanned' = Scanned /\ Scanned \subseteq Step
  BY Names DEF Scanned, IInv, TypeOK
<1>5. s \in Scanned
  BY DEF WorkingOnce, Futures
<1>6. Futures'
  BY <1>2, <1>4, <1>5 DEF Futures
<1>7. QueuedOnce'
  BY <1>2, <1>3 DEF QueuedOnce
<1>8. WorkingOnce'
  BY DEF WorkingOnce, Idle
<1>9. Followed'
  BY <1>2, <1>4 DEF Followed
<1> QED
  BY <1>6, <1>7, <1>8, <1>9 DEF Opened, Open

LEMMA CrashQ == ASSUME IInv, QInv, Crash PROVE QInv'
<1>1. /\ scan' = 0 /\ queue' = <<>> /\ future' = [n \in Step |-> "none"] /\ worker' = Idle
      /\ pc' # "enqueue"
  BY DEF Crash, Resume, Begin
<1>2. Scanned' = {} /\ Len(queue') = 0
  BY <1>1, EmptySeq DEF Scanned
<1> QED
  BY <1>1, <1>2 DEF QInv, Futures, QueuedOnce, WorkingOnce, Followed, Opened, Idle

\* A stage of the upload thread ends the job or goes on with it.
LEMMA ThreadSteps ==
  ASSUME IInv, Uploader, ~ StartJob
  PROVE  /\ UNCHANGED <<queue, trainerVars, broken>>
         /\ worker.pc # "idle"
         /\ \/ JobFails
            \/ FinishJob
            \/ UNCHANGED <<job, future>> /\ worker'.pc # "idle" /\ worker'.step = worker.step
<1>1. WorkerType
  BY DEF IInv, TypeOK
<1>2. CASE CheckAndHash
  BY <1>1, <1>2 DEF CheckAndHash, AfterUpload, WorkerType
<1>3. CASE Upload
  BY <1>1, <1>3 DEF Upload, AfterUpload, WorkerType
<1>4. CASE Select
  BY <1>1, <1>4 DEF Select, WorkerType
<1>5. CASE Prune
  BY <1>1, <1>5 DEF Prune, WorkerType
<1>6. CASE Verify
  BY <1>1, <1>6 DEF Verify, WorkerType
<1>7. CASE RetentionTruncate \/ RetentionTrack \/ WriteAudit
  BY <1>1, <1>7 DEF RetentionTruncate, RetentionTrack, WriteAudit, WorkerType
<1>8. CASE FinishJob
  BY <1>8 DEF FinishJob
<1> QED
  BY <1>2, <1>3, <1>4, <1>5, <1>6, <1>7, <1>8 DEF Uploader

LEMMA NextQ == ASSUME IInv, QInv, [Next]_vars PROVE QInv'
<1>1. CASE SaveFile \/ TruncateTracker \/ CommitTracker \/ Drain \/ Terminated \/ UNCHANGED vars
  <2>1. UNCHANGED <<job, queue, future, scan, broken, worker>>
    BY <1>1 DEF SaveFile, TruncateTracker, CommitTracker, Drain, Terminated, vars, disk, trainerVars
  <2>2. pc' = "enqueue" => pc = "enqueue"
    BY <1>1 DEF SaveFile, TruncateTracker, CommitTracker, Drain, Terminated, vars, trainerVars
  <2> QED
    BY <2>1, <2>2, QueueFrame DEF QInv, Opened
<1>2. CASE RecordValidation
  BY <1>2, QueueFrame DEF RecordValidation
<1>3. CASE Uploader /\ ~ StartJob
  <2>1. /\ UNCHANGED <<queue, trainerVars, broken>> /\ worker.pc # "idle"
        /\ \/ JobFails
           \/ FinishJob
           \/ UNCHANGED <<job, future>> /\ worker'.pc # "idle" /\ worker'.step = worker.step
    BY <1>3, ThreadSteps
  <2>2. CASE JobFails
    BY <2>1, <2>2, EndJobQ DEF JobFails, trainerVars
  <2>3. CASE FinishJob
    BY <2>1, <2>3, EndJobQ DEF FinishJob, trainerVars
  <2>4. CASE UNCHANGED <<job, future>> /\ worker'.pc # "idle" /\ worker'.step = worker.step
    BY <2>1, <2>4, QueueFrame DEF trainerVars, QInv, Opened
  <2> QED
    BY <2>1, <2>2, <2>3, <2>4
<1> QED
  BY <1>1, <1>2, <1>3, RecoverJobQ, EnqueueQ, StartJobQ, CrashQ DEF Next, Trainer

\* RecoverJob, enqueue, _run_job and a crash keep the record of a job, its future, its place
\* in the executor's queue and the thread's step in agreement.
THEOREM QueueInvariance == Spec => []QInv
<1>1. IInv /\ QInv /\ [Next]_vars => QInv'
  BY NextQ
<1> QED
  BY <1>1, InitQ, Invariance, PTL DEF Spec

\* Every future that drain() waits for has a job in the executor's queue or in the thread.
PendingOwned ==
  \A n \in Step : future[n] = "pending" =>
    \/ \E i \in 1 .. Len(queue) : queue[i] = n
    \/ worker.pc # "idle" /\ worker.step = n

LEMMA NextOwned == ASSUME IInv, PendingOwned, [Next]_vars PROVE PendingOwned'
<1>0. /\ queue \in Seq(Step) /\ future \in [Step -> {"none", "pending", "ok", "error"}] /\ WorkerType
      /\ worker.pc # "idle" => worker.step \in Step
  BY DEF IInv, TypeOK, OnSteps
<1>1. ASSUME NEW k \in Step, Submit(k), worker' = worker PROVE PendingOwned'
  <2>1. /\ future'[k] = "pending" /\ \A n \in Step \ {k} : future'[n] = future[n]
    BY <1>0, <1>1 DEF Submit
  <2> PICK l \in Nat : l = Len(queue)
    BY <1>0
  <2>2. Len(queue') = l + 1 /\ queue'[l + 1] = k /\ \A i \in 1 .. l : queue'[i] = queue[i]
    BY <1>0, <1>1, AppendElements DEF Submit
  <2>3. 1 .. l \subseteq 1 .. l + 1 /\ l + 1 \in 1 .. l + 1
    OBVIOUS
  <2> QED
    BY <1>1, <2>1, <2>2, <2>3 DEF PendingOwned
<1>2. CASE UNCHANGED <<future, queue>> /\ (worker.pc # "idle" => worker'.pc # "idle" /\ worker'.step = worker.step)
  BY <1>2 DEF PendingOwned
<1>3. CASE RecoverJob
  <2>1. ByName[scan + 1] \in Step
    BY <1>3, ScanStep DEF IInv, TypeOK, RecoverJob
  <2> QED
    BY <1>1, <1>2, <1>3, <2>1 DEF RecoverJob
<1>4. CASE Enqueue
  <2>1. at \in Step
    BY <1>4, UploadAssumption DEF IInv, OnSteps, Enqueue
  <2> QED
    BY <1>1, <1>2, <1>4, <2>1 DEF Enqueue
<1>5. CASE StartJob
  <2>1. queue # <<>> /\ future' = future /\ queue' = Tail(queue)
        /\ worker'.pc # "idle" /\ worker'.step = Head(queue)
    BY <1>0, <1>5 DEF StartJob, WorkerType
  <2> PICK l \in Nat \ {0} : l = Len(queue)
    BY <1>0, <2>1, EmptySeq
  <2>2. /\ Head(queue) = queue[1] /\ Len(queue') = l - 1
        /\ \A i \in 1 .. l - 1 : queue'[i] = queue[i + 1]
    BY <1>0, <2>1, TailElements
  <2> SUFFICES ASSUME NEW n \in Step, future[n] = "pending", n # queue[1]
               PROVE  \E i \in 1 .. l - 1 : queue'[i] = n
    BY <2>1, <2>2 DEF PendingOwned
  <2>3. worker.pc = "idle"
    BY <1>5 DEF StartJob
  <2>4. PICK i \in 1 .. l : queue[i] = n
    BY <2>3 DEF PendingOwned
  <2>5. i - 1 \in 1 .. l - 1 /\ i = (i - 1) + 1
    BY <2>4
  <2> QED
    BY <2>2, <2>4, <2>5
<1>6. CASE Uploader /\ ~ StartJob
  <2>1. /\ UNCHANGED queue /\ worker.pc # "idle"
        /\ \/ JobFails
           \/ FinishJob
           \/ UNCHANGED <<job, future>> /\ worker'.pc # "idle" /\ worker'.step = worker.step
    BY <1>6, ThreadSteps
  <2>2. CASE JobFails \/ FinishJob
    <3>1. /\ future'[worker.step] # "pending"
          /\ \A n \in Step \ {worker.step} : future'[n] = future[n]
      BY <1>0, <2>1, <2>2 DEF JobFails, FinishJob
    <3> QED
      BY <2>1, <3>1 DEF PendingOwned
  <2> QED
    BY <1>2, <2>1, <2>2
<1>7. CASE Crash
  BY <1>7 DEF PendingOwned, Crash
<1>8. CASE \/ SaveFile \/ TruncateTracker \/ CommitTracker \/ RecordValidation \/ Drain
           \/ Terminated \/ UNCHANGED vars
  BY <1>2, <1>8 DEF SaveFile, TruncateTracker, CommitTracker, RecordValidation, Drain, Terminated, vars
<1> QED
  BY <1>3, <1>4, <1>5, <1>6, <1>7, <1>8 DEF Next, Trainer

\* drain() never waits for a future that no job will set: what is pending is queued or runs.
THEOREM PendingIsOwned == Spec => []PendingOwned
<1>1. Init => PendingOwned
  BY DEF Init, PendingOwned
<1>2. IInv /\ PendingOwned /\ [Next]_vars => PendingOwned'
  BY NextOwned
<1> QED
  BY <1>1, <1>2, Invariance, PTL DEF Spec

-----------------------------------------------------------------------------
(* What a step may change.                                                 *)

\* Files are written by the trainer and deleted by the thread.
LEMMA DiskSteps ==
  ASSUME [Next]_vars
  PROVE  /\ UNCHANGED <<dirs, file>> \/ SaveFile \/ Prune
         /\ UNCHANGED <<remote, result>> \/ Upload
         /\ UNCHANGED score \/ RecordValidation
         /\ UNCHANGED audit \/ WriteAudit
         /\ UNCHANGED tracker \/ CommitTracker \/ RetentionTrack \/ tracker' = Torn
<1> USE DEF disk, trainerVars, vars, SaveFile, TruncateTracker, CommitTracker, RecoverJob,
            RecordValidation, Enqueue, Drain, StartJob, CheckAndHash, Upload, Select, Prune, Verify,
            RetentionTruncate, RetentionTrack, WriteAudit, FinishJob, Crash, Terminated
<1>1. CASE Trainer
  BY <1>1 DEF Trainer
<1>2. CASE Uploader
  BY <1>2 DEF Uploader
<1> QED
  BY <1>1, <1>2 DEF Next

\* The records of jobs are written by the queue.
LEMMA JobSteps ==
  ASSUME IInv, QInv, [Next]_vars, NEW n \in Step
  PROVE  /\ job[n] # "none" => job'[n] # "none"
         /\ job[n] = "none" /\ job'[n] # "none" => Enqueue /\ n = at /\ Valid(at)
         /\ job[n] # "complete" /\ job'[n] = "complete" =>
              \/ FinishJob /\ n = worker.step
              \/ RecoverJob /\ Retired(n)
<1>1. /\ job \in [Step -> {"none", "queued", "uploading", "complete", "failed"}] /\ queue \in Seq(Step)
      /\ worker.pc # "idle" => worker.step \in Step
  BY DEF IInv, TypeOK, OnSteps
<1>2. CASE RecoverJob
  BY <1>1, <1>2 DEF RecoverJob, Submit, Pruned, Interrupted
<1>3. CASE Enqueue
  BY <1>1, <1>3 DEF Enqueue, Submit
<1>4. CASE StartJob
  <2>1. queue # <<>>
    BY <1>4 DEF StartJob
  <2>2. Head(queue) = queue[1] /\ 1 \in 1 .. Len(queue)
    BY <1>1, <2>1, TailElements
  <2>3. job[Head(queue)] = "queued"
    BY <2>2 DEF QInv, QueuedOnce
  <2> QED
    BY <1>1, <1>4, <2>3 DEF StartJob
<1>5. CASE Uploader /\ ~ StartJob
  <2>1. worker.pc # "idle" /\ (JobFails \/ FinishJob \/ UNCHANGED job)
    BY <1>5, ThreadSteps
  <2>2. job[worker.step] = "uploading"
    BY <2>1 DEF QInv, WorkingOnce
  <2> QED
    BY <1>1, <2>1, <2>2 DEF JobFails, FinishJob
<1>6. CASE UNCHANGED job
  BY <1>6
<1> QED
  BY <1>2, <1>3, <1>4, <1>5, <1>6 DEF Next, Trainer, SaveFile, TruncateTracker, CommitTracker,
     RecordValidation, Drain, Terminated, Crash, vars, disk

\* Only a doomed checkpoint loses a file or its directory.
LEMMA FilesLost ==
  ASSUME IInv, [Next]_vars, NEW n \in Step
  PROVE  /\ n \in dirs /\ n \notin dirs' => n \in worker.doomed
         /\ \A p \in Part : file[n][p] # 0 /\ file'[n][p] = 0 => n \in worker.doomed
<1>1. /\ file \in [Step -> [Part -> 0 .. run]] /\ run \in Nat \ {0}
      /\ worker.doomed \subseteq Step
  BY UploadAssumption DEF IInv, TypeOK, WorkerType
<1>2. CASE SaveFile
  <2>1. at \in Step /\ part \in Part
    BY <1>2, UploadAssumption DEF IInv, TypeOK, OnSteps, SaveFile
  <2>2. dirs \subseteq dirs' /\ (file' = file \/ file' = [file EXCEPT ![at][part] = run])
    BY <1>2 DEF SaveFile
  <2>3. file' = [file EXCEPT ![at][part] = run] =>
          file'[at][part] = run /\ \A k \in Step, q \in Part : k # at \/ q # part => file'[k][q] = file[k][q]
    BY <1>1, <2>1, WriteFile
  <2> QED
    BY <1>1, <2>1, <2>2, <2>3
<1>3. CASE Prune
  <2>1. PICK m \in worker.doomed :
          \/ dirs' = dirs /\ \E q \in Part : file' = [file EXCEPT ![m][q] = 0]
          \/ dirs' = dirs \ {m} /\ file' = file
          \/ dirs' = dirs /\ file' = file
    BY <1>3 DEF Prune
  <2>2. ASSUME NEW q \in Part, file' = [file EXCEPT ![m][q] = 0]
        PROVE  \A k \in Step, p \in Part : k # m => file'[k][p] = file[k][p]
    BY <1>1, <2>2, WriteFile
  <2> QED
    BY <2>1, <2>2
<1>4. CASE UNCHANGED <<dirs, file>>
  BY <1>4
<1> QED
  BY <1>2, <1>3, <1>4, DiskSteps

LEMMA RemoteStays ==
  ASSUME IInv, [Next]_vars, NEW n \in Step, Complete(remote[n])
  PROVE  Complete(remote'[n])
<1>1. remote \in [Step -> [Part -> 0 .. run]]
  BY DEF IInv, TypeOK
<1>2. CASE remote' = remote
  BY <1>2
<1>3. CASE Upload /\ remote' # remote
  <2>1. worker.step \in Step
    BY <1>3 DEF IInv, OnSteps, Upload
  <2>2. remote' = [remote EXCEPT ![worker.step] =
             [p \in Part |-> IF file[worker.step][p] # 0 THEN file[worker.step][p] ELSE remote[worker.step][p]]]
    BY <1>3 DEF Upload
  <2> QED
    BY <1>1, <2>1, <2>2 DEF Complete
<1> QED
  BY <1>2, <1>3, DiskSteps

LEMMA ScoreStays ==
  ASSUME IInv, [Next]_vars, NEW n \in Step, score[n] # 0
  PROVE  score'[n] = score[n]
<1>1. score \in [Step -> Score \cup {0}]
  BY DEF IInv, TypeOK
<1>2. CASE RecordValidation
  BY <1>1, <1>2 DEF RecordValidation
<1> QED
  BY <1>2, DiskSteps

-----------------------------------------------------------------------------
(* What stays so.                                                          *)

LEMMA SaveStepsFinite == IsFiniteSet(SaveSteps)
<1>1. IsFiniteSet(1 .. TotalSteps)
  BY FS_Interval, UploadAssumption
<1> QED
  BY <1>1, FS_Subset, UploadAssumption DEF Step

LEMMA LargerSet ==
  ASSUME NEW S, NEW T, S \subseteq T, T \subseteq SaveSteps
  PROVE  Cardinality(S) \in Nat /\ Cardinality(T) \in Nat /\ Cardinality(S) <= Cardinality(T)
<1>1. IsFiniteSet(T)
  BY SaveStepsFinite, FS_Subset
<1>2. IsFiniteSet(S) /\ Cardinality(S) <= Cardinality(T)
  BY <1>1, FS_Subset
<1> QED
  BY <1>1, <1>2, FS_CardinalityType

\* Scores are recorded once, so a beaten step stays beaten.
LEMMA BeatenStays ==
  ASSUME IInv, [Next]_vars, NEW n \in Step, Beaten(n)
  PROVE  Beaten(n)'
<1>1. score[n] # 0 /\ score'[n] = score[n]
  BY ScoreStays DEF Beaten
<1>2. \A m \in SaveSteps : score[m] # 0 => score'[m] = score[m]
  BY ScoreStays, UploadAssumption
<1>3. Rivals(n) \subseteq Rivals(n)'
  BY <1>1, <1>2 DEF Rivals, Beats
<1> PICK S : S = Rivals(n)
  OBVIOUS
<1>4. Rivals(n)' \subseteq SaveSteps
  BY DEF Rivals
<1>5. Cardinality(S) <= Cardinality(Rivals(n)') /\ Cardinality(S) \in Nat /\ Cardinality(Rivals(n)') \in Nat
  BY <1>3, <1>4, LargerSet
<1>6. KeepBest \in Nat /\ Cardinality(S) >= KeepBest
  BY UploadAssumption DEF Beaten
<1>7. Cardinality(Rivals(n)') >= KeepBest
  BY <1>5, <1>6
<1> QED
  BY <1>1, <1>7 DEF Beaten

LEMMA Stays ==
  ASSUME IInv, QInv, HInv, [Next]_vars, NEW n \in Step
  PROVE  /\ Uploaded(n) => Uploaded(n)'
         /\ Saved(n) => Saved(n)'
         /\ Covered(n) => Covered(n)'
         /\ Local(n) => Local(n)'
<1>1. \A m \in Step : Uploaded(m) => Uploaded(m)'
  BY RemoteStays, JobSteps DEF Uploaded
<1>2. \A m \in worker.doomed : m \in Step /\ Uploaded(m) /\ Beaten(m)
  BY DEF IInv, TypeOK, WorkerType, DoomedUploaded, HInv, Dooms, Uploaded
<1>3. \A m \in Step : Saved(m) => Saved(m)'
  BY <1>1, <1>2, FilesLost DEF Saved
<1>4. Covered(n) => Covered(n)'
  BY <1>3, UploadAssumption DEF Covered
<1>5. Local(n) => Local(n)'
  <2>1. CASE Beaten(n)
    BY <2>1, BeatenStays DEF Local
  <2>2. CASE OnDisk(n) /\ n \notin worker.doomed
    BY <2>2, FilesLost DEF Local, OnDisk, Complete
  <2> QED
    BY <1>2, <2>1, <2>2 DEF Local
<1> QED
  BY <1>1, <1>3, <1>4, <1>5

LEMMA SavedStays ==
  ASSUME IInv, QInv, HInv, [Next]_vars
  PROVE  \A m \in SaveSteps : Saved(m) => Saved(m)'
  BY Stays, UploadAssumption

-----------------------------------------------------------------------------
(* The history is inductive.                                               *)

LEMMA InitH == Init => HInv
<1> SUFFICES ASSUME Init PROVE HInv
  OBVIOUS
<1>1. \A n \in Step : job[n] = "none" /\ result[n] = "none"
  BY DEF Init
<1>2. /\ dirs = {} /\ at = 1 /\ part = 1 /\ tracker = 0 /\ pc = Begin(1)
      /\ worker.doomed = {} /\ worker.expected = {} /\ worker.step = 0 /\ worker.pc = "idle" /\ ~ audit.terminal
  BY DEF Init, Idle, Missing
<1>3. Jobs /\ Dooms
  BY <1>1, <1>2 DEF Jobs, Dooms
<1>4. Past
  BY <1>2, UploadAssumption DEF Past, Covered, Begin, Part, Step
<1>5. Traces
  BY <1>2 DEF Traces, Step
<1>6. Terminal
  <2>1. TotalSteps \in Step
    BY UploadAssumption DEF Step
  <2> QED
    BY <1>1, <1>2, <2>1 DEF Terminal, LastAudit
<1> QED
  BY <1>3, <1>4, <1>5, <1>6 DEF HInv

\* A submitted job was saved and validated.
LEMMA NextJobs == ASSUME IInv, QInv, HInv, [Next]_vars PROVE Jobs'
<1> SUFFICES ASSUME NEW n \in Step
             PROVE  /\ job'[n] # "none" => n \in SaveSteps /\ score'[n] # 0 /\ Local(n)' /\ Covered(n)'
                    /\ result'[n] # "none" => job'[n] # "none"
  BY DEF Jobs
<1>1. job'[n] # "none" => n \in SaveSteps /\ score[n] # 0 /\ Local(n) /\ Covered(n)
  <2>1. CASE job[n] # "none"
    BY <2>1 DEF HInv, Jobs
  <2>2. CASE job[n] = "none" /\ job'[n] # "none"
    <3>1. n = at /\ pc = "enqueue"
      BY <2>2, JobSteps DEF Enqueue
    <3> QED
      BY <3>1 DEF HInv, Past, IInv, OnSteps
  <2> QED
    BY <2>1, <2>2
<1>2. result'[n] # "none" => job'[n] # "none"
  <2>1. CASE result[n] # "none"
    BY <2>1, JobSteps DEF HInv, Jobs
  <2>2. CASE Upload /\ n = worker.step
    BY <2>2, JobSteps DEF QInv, WorkingOnce, Upload
  <2>3. CASE Upload /\ n # worker.step
    <3>1. result'[n] = result[n]
      BY <2>3 DEF Upload, IInv, TypeOK
    <3> QED
      BY <2>1, <3>1
  <2> QED
    BY <2>1, <2>2, <2>3, DiskSteps
<1> QED
  BY <1>1, <1>2, Stays, ScoreStays

\* What retention dooms is not among the best, for good.
LEMMA DoomedBeaten ==
  ASSUME IInv, HInv, NEW n \in Doomed(worker.step)
  PROVE  n \in Step /\ job[n] # "none" /\ Beaten(n)
<1>1. n \in Step /\ result[n] = "complete" /\ n \notin Best
  BY DEF Doomed, Successful, Kept
<1>2. job[n] # "none" /\ score[n] # 0 /\ n \in SaveSteps
  BY <1>1 DEF HInv, Jobs
<1>3. n \in Ranked
  BY <1>1, <1>2 DEF Ranked, Recorded, Successful
<1> PICK S : S = {m \in Ranked : Beats(m, n)}
  OBVIOUS
<1>4. ~ (Cardinality(S) < KeepBest)
  BY <1>1, <1>3 DEF Best
<1>5. S \subseteq Rivals(n) /\ Rivals(n) \subseteq SaveSteps
  BY DEF Ranked, Recorded, Rivals
<1>6. Cardinality(S) \in Nat /\ Cardinality(Rivals(n)) \in Nat /\ Cardinality(S) <= Cardinality(Rivals(n))
  BY <1>5, LargerSet
<1>7. Cardinality(Rivals(n)) >= KeepBest
  BY <1>4, <1>6, UploadAssumption
<1> QED
  BY <1>1, <1>2, <1>7 DEF Beaten

\* What the upload thread knows of its retention changes with the retention only.
LEMMA RetentionSteps ==
  ASSUME IInv, [Next]_vars
  PROVE  /\ worker'.doomed \subseteq worker.doomed \/ (Select /\ worker'.doomed = Doomed(worker.step))
         /\ worker'.expected \subseteq worker.expected \/ (Select /\ worker'.expected = dirs)
<1>1. WorkerType
  BY DEF IInv, TypeOK
<1>2. CASE worker' = Idle
  BY <1>2 DEF Idle
<1>3. CASE worker' = worker
  BY <1>3
<1>4. CASE StartJob
  BY <1>1, <1>4 DEF StartJob, WorkerType
<1>5. CASE CheckAndHash
  BY <1>1, <1>2, <1>5 DEF CheckAndHash, JobFails, WorkerType
<1>6. CASE Upload
  BY <1>1, <1>2, <1>6 DEF Upload, JobFails, WorkerType
<1>7. CASE Select
  BY <1>1, <1>2, <1>7 DEF Select, JobFails, WorkerType
<1>8. CASE Prune
  <2>1. PICK n : \/ worker' = worker
                 \/ worker' = [worker EXCEPT !.doomed = @ \ {n}, !.expected = @ \ (dirs \cap {n})]
                 \/ worker' = Idle
    BY <1>8 DEF Prune, JobFails
  <2> QED
    BY <1>1, <1>2, <2>1 DEF WorkerType
<1>9. CASE Verify
  BY <1>1, <1>2, <1>9 DEF Verify, JobFails, WorkerType
<1>10. CASE RetentionTruncate \/ RetentionTrack \/ WriteAudit
  BY <1>1, <1>10 DEF RetentionTruncate, RetentionTrack, WriteAudit, WorkerType
<1> QED
  BY <1>2, <1>3, <1>4, <1>5, <1>6, <1>7, <1>8, <1>9, <1>10 DEF Next, Trainer, Uploader, FinishJob,
     SaveFile, TruncateTracker, CommitTracker, RecoverJob, RecordValidation, Enqueue, Drain, Crash,
     Terminated, vars

LEMMA NextDooms == ASSUME IInv, QInv, HInv, [Next]_vars PROVE Dooms'
<1> SUFFICES ASSUME NEW n \in worker'.doomed PROVE job'[n] # "none" /\ Beaten(n)'
  BY DEF Dooms
<1>1. CASE n \in worker.doomed
  <2>1. n \in Step /\ job[n] # "none" /\ Beaten(n)
    BY <1>1 DEF HInv, Dooms, IInv, TypeOK, WorkerType
  <2> QED
    BY <2>1, JobSteps, BeatenStays
<1>2. CASE n \in Doomed(worker.step)
  <2>1. n \in Step /\ job[n] # "none" /\ Beaten(n)
    BY <1>2, DoomedBeaten
  <2> QED
    BY <2>1, JobSteps, BeatenStays
<1> QED
  BY <1>1, <1>2, RetentionSteps

\* The trainer goes on to the next step.
LEMMA AdvancePast ==
  ASSUME IInv, QInv, HInv, [Next]_vars, pc \in {"validate", "enqueue"}, Advance, part' = part
  PROVE  Past'
<1>1. at \in Step /\ part = 1 /\ at \in Nat
  <2>1. at \in Step /\ part = 1
    BY UploadAssumption DEF IInv, OnSteps
  <2> QED
    BY <2>1, UploadAssumption DEF Step
<1>2. Covered(at)
  <2>1. CASE at \in SaveSteps
    BY <2>1 DEF HInv, Past
  <2>2. CASE at \notin SaveSteps
    <3>1. \A m \in SaveSteps : m <= at => m <= at - 1
      BY <1>1, <2>2, UploadAssumption DEF Step
    <3> QED
      BY <3>1 DEF HInv, Past, Covered
  <2> QED
    BY <2>1, <2>2
<1>3. /\ at' = at + 1 /\ pc' = Begin(at + 1)
  BY DEF Advance
<1>4. Covered(at - 1)'
  BY <1>1, <1>2, <1>3, SavedStays DEF Covered
<1>5. pc' \in {"save", "validate", "drain"} /\ (pc' = "validate" => at' \notin SaveSteps)
  BY <1>3 DEF Begin
<1>6. \A p \in Part : ~ (p < part')
  BY <1>1 DEF Part
<1> QED
  BY <1>4, <1>5, <1>6 DEF Past

LEMMA SaveFilePast == ASSUME IInv, QInv, HInv, SaveFile PROVE Past'
<1>1. at \in SaveSteps /\ at \in Step /\ part \in 1 .. 3 /\ at' = at /\ pc = "save" /\ UNCHANGED <<score>>
  BY UploadAssumption DEF IInv, TypeOK, OnSteps, SaveFile, Part
<1>2. [Next]_vars
  BY DEF Next, Trainer
<1>3. Covered(at - 1)'
  BY <1>1, <1>2, SavedStays DEF Covered, HInv, Past
<1>4. CASE pc' = "raised"
  BY <1>3, <1>4 DEF Past
<1>5. CASE /\ dirs' = dirs \cup {at} /\ file' = [file EXCEPT ![at][part] = run]
           /\ pc' = IF part = Data THEN "truncate" ELSE "save"
           /\ part' = IF part = Data THEN 1 ELSE part + 1
  <2>1. run \in Nat /\ run # 0 /\ run \in 0 .. run /\ file \in [Step -> [Part -> 0 .. run]]
    BY UploadAssumption DEF IInv, TypeOK
  <2>2. /\ file'[at][part] = run
        /\ \A k \in Step, q \in Part : (k # at \/ q # part) => file'[k][q] = file[k][q]
    BY <1>1, <1>5, <2>1, WriteFile DEF Part
  <2>3. Beaten(at) => Beaten(at)'
    BY <1>1, <1>2, BeatenStays
  <2>4. (\A p \in Part : p <= part => file'[at][p] # 0) \/ Beaten(at)
    <3> SUFFICES ASSUME ~ Beaten(at), NEW p \in Part, p <= part PROVE file'[at][p] # 0
      OBVIOUS
    <3>1. CASE p = part
      BY <2>1, <2>2, <3>1
    <3>2. CASE p # part
      <4>1. p < part
        BY <1>1, <3>2 DEF Part
      <4>2. file[at][p] # 0
        BY <1>1, <4>1 DEF HInv, Past
      <4> QED
        BY <1>1, <2>2, <3>2, <4>2
    <3> QED
      BY <3>1, <3>2
  <2>5. CASE part = Data
    <3>1. \A p \in Part : p <= part
      BY <2>5 DEF Part, Data
    <3>2. Local(at)'
      BY <1>1, <1>5, <2>3, <2>4, <3>1 DEF Local, OnDisk, Complete, Beaten
    <3>3. Covered(at)'
      <4>1. \A m \in SaveSteps : m <= at => m = at \/ m <= at - 1
        BY <1>1, UploadAssumption DEF Step
      <4>2. Saved(at)'
        BY <1>1, <1>5 DEF Saved
      <4> QED
        BY <1>1, <1>3, <4>1, <4>2 DEF Covered, Saved, Uploaded
    <3> QED
      BY <1>3, <1>5, <2>5, <3>2, <3>3 DEF Past
  <2>6. CASE part # Data
    <3>1. \A p \in Part : p < part' => p <= part
      BY <1>1, <1>5, <2>6 DEF Part
    <3>2. (\A p \in Part : p < part' => at' \in dirs' /\ file'[at'][p] # 0) \/ Beaten(at)'
      BY <1>1, <1>5, <2>3, <2>4, <3>1
    <3> QED
      BY <1>3, <1>5, <2>6, <3>2 DEF Past
  <2> QED
    BY <2>5, <2>6
<1> QED
  BY <1>4, <1>5 DEF SaveFile

\* The trainer stays at its step while others work.
LEMMA WaitPast ==
  ASSUME IInv, QInv, HInv, [Next]_vars, UNCHANGED <<at, part>>,
         \/ pc' = pc
         \/ pc' \in {"done", "raised"}
         \/ pc \in {"truncate", "commit", "validate"} /\ pc' \in {"commit", "validate"}
         \/ pc = "validate" /\ pc' = "enqueue" /\ score'[at] # 0
  PROVE  Past'
<1>1. Covered(at - 1)'
  BY SavedStays DEF Covered, HInv, Past
<1>2. pc' \in {"truncate", "commit", "validate", "enqueue"} /\ at \in SaveSteps => Covered(at)' /\ Local(at)'
  <2> SUFFICES ASSUME pc' \in {"truncate", "commit", "validate", "enqueue"}, at \in SaveSteps
               PROVE  Covered(at)' /\ Local(at)'
    OBVIOUS
  <2>1. Covered(at) /\ Local(at) /\ at \in Step
    BY UploadAssumption DEF HInv, Past
  <2>2. Covered(at)'
    BY <2>1, SavedStays DEF Covered
  <2> PICK n \in Step : n = at
    BY <2>1
  <2>3. Local(n)'
    BY <2>1, Stays
  <2> QED
    BY <2>2, <2>3 DEF Local, OnDisk, Beaten, Rivals, Beats
<1>3. pc' = "save" => (\A p \in Part : p < part' => at' \in dirs' /\ file'[at'][p] # 0) \/ Beaten(at)'
  <2> SUFFICES ASSUME pc = "save", ~ Beaten(at)', NEW p \in Part, p < part
               PROVE  at \in dirs' /\ file'[at][p] # 0
    OBVIOUS
  <2> PICK n \in Step : n = at
    BY UploadAssumption DEF IInv, OnSteps
  <2>1. ~ Beaten(n)
    <3>1. Beaten(n) => Beaten(n)'
      BY BeatenStays
    <3> QED
      BY <3>1 DEF Beaten, Rivals, Beats
  <2>2. n \in dirs /\ file[n][p] # 0
    BY <2>1 DEF HInv, Past
  <2>3. n \notin worker.doomed
    BY <2>1 DEF HInv, Dooms
  <2> QED
    BY <2>2, <2>3, FilesLost
<1>4. pc' = "enqueue" => score'[at'] # 0
  <2>1. CASE pc = "enqueue"
    <3> PICK n \in Step : n = at
      BY <2>1, UploadAssumption DEF IInv, OnSteps
    <3>1. score[n] # 0
      BY <2>1 DEF HInv, Past
    <3> QED
      BY <3>1, ScoreStays
  <2> QED
    BY <2>1
<1> QED
  BY <1>1, <1>2, <1>3, <1>4 DEF Past

LEMMA CrashPast == ASSUME IInv, QInv, HInv, Crash PROVE Past'
<1>1. /\ UNCHANGED <<dirs, file, score, remote, job>> /\ part' = 1 /\ Resume
  BY DEF Crash, disk
<1>2. tracker \in {Torn, Missing} \cup Step /\ dirs \subseteq Step /\ Torn \notin Step /\ Torn # Missing
  BY UploadAssumption DEF IInv, TypeOK, Torn, Missing, Step
<1>3. \/ at' = at /\ pc' = "raised"
      \/ \E t : /\ at' = t + 1 /\ pc' = Begin(t + 1)
                /\ t = 0 \/ (t = tracker /\ t \in Step)
  BY <1>1, <1>2 DEF Resume, Loadable
<1>4. \A k : Covered(k) => (\A m \in SaveSteps : m <= k => Saved(m)')
  BY <1>1 DEF Covered, Saved, Uploaded
<1>5. CASE at' = at /\ pc' = "raised"
  BY <1>4, <1>5 DEF Past, HInv, Covered
<1>6. CASE \E t : /\ at' = t + 1 /\ pc' = Begin(t + 1)
                  /\ t = 0 \/ (t = tracker /\ t \in Step)
  <2> PICK t : /\ at' = t + 1 /\ pc' = Begin(t + 1)
               /\ t = 0 \/ (t = tracker /\ t \in Step)
    BY <1>6
  <2>1. t \in Nat
    BY DEF Step
  <2>2. Covered(t)
    <3>1. CASE t = 0
      BY <3>1, UploadAssumption DEF Covered, Step
    <3>2. CASE t = tracker /\ t \in Step
      BY <3>2 DEF HInv, Traces, Covered
    <3> QED
      BY <3>1, <3>2
  <2>3. Covered(at - 1)'
    BY <1>4, <2>1, <2>2 DEF Covered
  <2>4. pc' \in {"save", "validate", "drain"} /\ (pc' = "validate" => at' \notin SaveSteps)
    BY DEF Begin
  <2>5. \A p \in Part : ~ (p < part')
    BY <1>1 DEF Part
  <2> QED
    BY <2>3, <2>4, <2>5 DEF Past
<1> QED
  BY <1>3, <1>5, <1>6

LEMMA NextPast == ASSUME IInv, QInv, HInv, [Next]_vars PROVE Past'
<1>1. CASE TruncateTracker \/ CommitTracker \/ RecoverJob \/ Drain
  BY <1>1, WaitPast DEF TruncateTracker, CommitTracker, RecoverJob, Drain
<1>2. CASE RecordValidation
  <2>1. at \in Step /\ score \in [Step -> Score \cup {0}] /\ 0 \notin Score
    BY <1>2, UploadAssumption DEF IInv, TypeOK, OnSteps, RecordValidation
  <2>2. CASE Advance
    BY <1>2, <2>2, AdvancePast DEF RecordValidation
  <2>3. CASE UNCHANGED at /\ pc' \in {"raised", "enqueue"}
    <3>1. score'[at] # 0
      BY <1>2, <2>1 DEF RecordValidation
    <3> QED
      BY <1>2, <2>3, <3>1, WaitPast DEF RecordValidation
  <2> QED
    BY <1>2, <2>2, <2>3 DEF RecordValidation
<1>3. CASE Enqueue
  <2>1. CASE Advance
    BY <1>3, <2>1, AdvancePast DEF Enqueue
  <2>2. CASE UNCHANGED at /\ pc' = "raised"
    BY <1>3, <2>2, WaitPast DEF Enqueue
  <2> QED
    BY <1>3, <2>1, <2>2 DEF Enqueue
<1>4. CASE Uploader \/ Terminated \/ UNCHANGED vars
  <2>1. UNCHANGED trainerVars
    BY <1>4, ThreadSteps DEF StartJob, Terminated, vars
  <2> QED
    BY <2>1, WaitPast DEF trainerVars
<1> QED
  BY <1>1, <1>2, <1>3, <1>4, SaveFilePast, CrashPast DEF Next, Trainer

\* Directories, and what the tracker names, have their predecessors.
LEMMA NextTraces == ASSUME IInv, QInv, HInv, [Next]_vars PROVE Traces'
<1>1. dirs \subseteq Step /\ worker.expected \subseteq Step
  BY UploadAssumption DEF IInv, TypeOK, WorkerType
<1>2. \A n \in dirs \cup worker.expected : Covered(n)'
  BY <1>1, Stays DEF HInv, Traces
<1>3. dirs' \subseteq dirs \/ (SaveFile /\ dirs' = dirs \cup {at})
  BY DiskSteps DEF SaveFile, Prune
<1>4. ASSUME SaveFile, at \in dirs' PROVE Covered(at)'
  <2>1. at \in Nat /\ at' = at
    BY <1>4, UploadAssumption DEF IInv, OnSteps, SaveFile, Step
  <2>2. \A m \in SaveSteps : m <= at => m = at \/ m <= at - 1
    BY <2>1, UploadAssumption DEF Step
  <2>3. \A m \in SaveSteps : m <= at - 1 => Saved(m)'
    BY SavedStays DEF HInv, Past, Covered
  <2> QED
    BY <1>4, <2>1, <2>2, <2>3 DEF Covered, Saved
<1>5. \A n \in dirs' : Covered(n)'
  <2> TAKE n \in dirs'
  <2>1. CASE n \in dirs
    BY <1>2, <2>1
  <2>2. CASE SaveFile /\ n = at
    <3>1. Covered(at)' /\ at' = at
      BY <1>4, <2>2 DEF SaveFile
    <3> QED
      BY <2>2, <3>1 DEF Covered
  <2> QED
    BY <1>3, <2>1, <2>2
<1>6. \A n \in worker'.expected : Covered(n)'
  BY <1>2, RetentionSteps
<1>7. tracker' \in Step => Covered(tracker)'
  <2>1. CASE tracker' = tracker /\ tracker \in Step
    <3>1. \A m \in SaveSteps : m <= tracker => Saved(m)'
      BY <2>1, SavedStays DEF HInv, Traces, Covered
    <3> QED
      BY <2>1, <3>1 DEF Covered
  <2>2. CASE CommitTracker
    <3>1. tracker' = at /\ Covered(at)
      BY <2>2 DEF CommitTracker, HInv, Past, IInv, OnSteps
    <3>2. \A m \in SaveSteps : m <= at => Saved(m)'
      BY <3>1, SavedStays DEF Covered
    <3> QED
      BY <3>1, <3>2 DEF Covered
  <2>3. CASE RetentionTrack
    <3>1. PICK n \in worker.expected : tracker' = n
      BY <2>3 DEF RetentionTrack
    <3>2. Covered(n)'
      BY <1>2
    <3> QED
      BY <3>1, <3>2 DEF Covered
  <2>4. Torn \notin Step
    BY UploadAssumption DEF Torn, Step
  <2> QED
    BY <2>1, <2>2, <2>3, <2>4, DiskSteps
<1> QED
  BY <1>5, <1>6, <1>7 DEF Traces

\* The audit of the last step comes from a selection that found everything uploaded.
LEMMA LastAuditSteps ==
  ASSUME IInv, [Next]_vars, KeepBest > 0, LastAudit', ~ LastAudit
  PROVE  Select /\ worker.step = TotalSteps /\ dirs \subseteq Successful
<1>1. WorkerType /\ 0 # TotalSteps
  BY UploadAssumption DEF IInv, TypeOK
<1>2. CASE UNCHANGED <<audit, worker>>
  BY <1>2 DEF LastAudit
<1>3. CASE UNCHANGED audit /\ worker' = Idle
  BY <1>1, <1>3 DEF LastAudit, Idle
<1>4. CASE StartJob
  BY <1>1, <1>4 DEF LastAudit, StartJob, WorkerType
<1>5. CASE CheckAndHash
  BY <1>1, <1>3, <1>5 DEF LastAudit, CheckAndHash, JobFails, AfterUpload, WorkerType
<1>6. CASE Upload
  BY <1>1, <1>3, <1>6 DEF LastAudit, Upload, JobFails, AfterUpload, WorkerType
<1>7. CASE Select
  <2>1. CASE worker' = [worker EXCEPT !.pc = "prune", !.history = Recorded, !.expected = dirs,
                                      !.doomed = Doomed(worker.step), !.pending = dirs \ Successful]
    <3>1. /\ worker'.step = worker.step /\ worker'.pc = "prune"
          /\ worker'.pending = dirs \ Successful
      BY <1>1, <2>1 DEF WorkerType
    <3> QED
      BY <1>7, <3>1 DEF LastAudit, Select
  <2> QED
    BY <1>3, <1>7, <2>1 DEF Select, JobFails
<1>8. CASE Prune
  BY <1>1, <1>3, <1>8 DEF LastAudit, Prune, JobFails, WorkerType
<1>9. CASE Verify
  BY <1>1, <1>3, <1>9 DEF LastAudit, Verify, JobFails, WorkerType
<1>10. CASE RetentionTruncate \/ RetentionTrack
  BY <1>1, <1>10 DEF LastAudit, RetentionTruncate, RetentionTrack, WorkerType
<1>11. CASE WriteAudit
  BY <1>1, <1>11 DEF LastAudit, WriteAudit, WorkerType
<1> QED
  BY <1>2, <1>3, <1>4, <1>5, <1>6, <1>7, <1>8, <1>9, <1>10, <1>11 DEF Next, Trainer, Uploader, FinishJob,
     SaveFile, TruncateTracker, CommitTracker, RecoverJob, RecordValidation, Enqueue, Drain, Crash,
     Terminated, vars, disk

LEMMA NextTerminal == ASSUME IInv, QInv, HInv, [Next]_vars PROVE Terminal'
<1> SUFFICES ASSUME KeepBest > 0, job'[TotalSteps] = "complete" \/ LastAudit', NEW n \in SaveSteps
             PROVE  Uploaded(n)'
  BY DEF Terminal
<1>1. n \in Step /\ n <= TotalSteps /\ TotalSteps \in Step
  BY UploadAssumption DEF Step
<1>2. job'[TotalSteps] = "complete" => job[TotalSteps] = "complete" \/ LastAudit
  <2>1. CASE FinishJob /\ TotalSteps = worker.step
    BY <2>1 DEF LastAudit, FinishJob
  <2>2. CASE RecoverJob /\ Retired(TotalSteps)
    BY <2>2, UploadAssumption DEF LastAudit, Retired
  <2> QED
    BY <1>1, <2>1, <2>2, JobSteps
<1>3. Uploaded(n)
  <2>1. CASE job[TotalSteps] = "complete" \/ LastAudit
    BY <2>1 DEF HInv, Terminal
  <2>2. CASE LastAudit' /\ ~ LastAudit
    <3>1. Select /\ worker.step = TotalSteps /\ dirs \subseteq Successful
      BY <2>2, LastAuditSteps
    <3>2. job[TotalSteps] # "none"
      BY <3>1 DEF QInv, WorkingOnce, Select
    <3>3. Saved(n)
      BY <1>1, <3>2 DEF HInv, Jobs, Covered
    <3>4. n \in dirs => Uploaded(n)
      BY <1>1, <3>1 DEF Successful, Uploaded, IInv, UploadWhole, HInv, Jobs
    <3> QED
      BY <3>3, <3>4 DEF Saved
  <2> QED
    BY <1>2, <2>1, <2>2
<1> QED
  BY <1>1, <1>3, Stays

\* _save_checkpoint, _run_job and the resumption after a crash forget no checkpoint: each is
\* on disk or uploaded, and only one that KeepBest recorded others beat loses its files.
THEOREM HistoryInvariance == Spec => []HInv
<1>1. IInv /\ QInv /\ HInv /\ [Next]_vars => HInv'
  BY NextJobs, NextDooms, NextPast, NextTraces, NextTerminal DEF HInv
<1> QED
  BY <1>1, InitH, Invariance, QueueInvariance, PTL DEF Spec

-----------------------------------------------------------------------------
(* The end of training.                                                    *)

\* Only a restart forgets a future, and a completed job is not submitted again.
LEMMA FutureSteps ==
  ASSUME IInv, QInv, [Next]_vars, ~ Crash, NEW n \in Step
  PROVE  /\ future[n] # "none" => future'[n] # "none"
         /\ job[n] = "complete" /\ future[n] = "none" => job'[n] = "complete"
<1>1. /\ job \in [Step -> {"none", "queued", "uploading", "complete", "failed"}] /\ queue \in Seq(Step)
      /\ future \in [Step -> {"none", "pending", "ok", "error"}]
      /\ worker.pc # "idle" => worker.step \in Step
  BY DEF IInv, TypeOK, OnSteps
<1>2. CASE RecoverJob
  BY <1>1, <1>2 DEF RecoverJob, Submit, Pruned, Interrupted
<1>3. CASE Enqueue
  BY <1>1, <1>3 DEF Enqueue, Submit, KnownJob
<1>4. CASE StartJob
  <2>1. queue # <<>>
    BY <1>4 DEF StartJob
  <2>2. Head(queue) = queue[1] /\ 1 \in 1 .. Len(queue)
    BY <1>1, <2>1, TailElements
  <2>3. future[Head(queue)] = "pending"
    BY <2>2 DEF QInv, QueuedOnce
  <2> QED
    BY <1>1, <1>4, <2>3 DEF StartJob
<1>5. CASE Uploader /\ ~ StartJob
  <2>1. worker.pc # "idle" /\ (JobFails \/ FinishJob \/ UNCHANGED <<job, future>>)
    BY <1>5, ThreadSteps
  <2>2. future[worker.step] = "pending"
    BY <2>1 DEF QInv, WorkingOnce
  <2> QED
    BY <1>1, <2>1, <2>2 DEF JobFails, FinishJob
<1>6. CASE UNCHANGED <<job, future>>
  BY <1>6
<1> QED
  BY <1>2, <1>3, <1>4, <1>5, <1>6 DEF Next, Trainer, SaveFile, TruncateTracker, CommitTracker,
     RecordValidation, Drain, Terminated, vars, disk

LEMMA InitE == Init => EInv
<1> SUFFICES ASSUME Init PROVE EInv
  OBVIOUS
<1>1. pc \in {"save", "validate"}
  BY UploadAssumption DEF Init, Begin
<1> QED
  BY <1>1 DEF EInv, LastEnqueued, Closed

LEMMA NextLast == ASSUME IInv, QInv, EInv, [Next]_vars PROVE LastEnqueued'
<1> SUFFICES ASSUME pc' \in {"drain", "done"}, Open'
             PROVE  job'[TotalSteps] = "complete" \/ future'[TotalSteps] # "none"
  BY DEF LastEnqueued
<1>1. TotalSteps \in Step /\ TotalSteps \in SaveSteps /\ TotalSteps \in Nat
  BY UploadAssumption DEF Step
<1>2. ~ Crash
  BY <1>1, Names DEF Crash, Open
<1>3. CASE pc \in {"drain", "done"}
  <2>1. scan' = scan
    <3>1. CASE Trainer
      BY <1>3, <3>1 DEF Trainer, SaveFile, TruncateTracker, CommitTracker, RecoverJob, RecordValidation,
         Enqueue, Drain
    <3>2. CASE Uploader
      BY <3>2, ThreadSteps DEF StartJob, trainerVars
    <3> QED
      BY <1>2, <3>1, <3>2 DEF Next, Terminated, vars, trainerVars
  <2>2. job[TotalSteps] = "complete" \/ future[TotalSteps] # "none"
    BY <1>3, <2>1 DEF EInv, LastEnqueued, Open
  <2> QED
    BY <1>1, <1>2, <2>2, FutureSteps
<1>4. CASE pc \notin {"drain", "done"}
  <2>1. pc' # pc
    BY <1>4
  <2>2. RecordValidation \/ Enqueue
    <3>1. CASE Trainer
      BY <1>4, <3>1 DEF Trainer, SaveFile, TruncateTracker, CommitTracker, RecoverJob, Drain
    <3>2. CASE Uploader
      BY <2>1, <3>2, ThreadSteps DEF StartJob, trainerVars
    <3> QED
      BY <1>2, <2>1, <3>1, <3>2 DEF Next, Terminated, vars, trainerVars
  <2>3. at \in Step /\ (pc = "enqueue" => at \in SaveSteps)
    BY <2>2, UploadAssumption DEF IInv, OnSteps, RecordValidation, Enqueue
  <2>4. Advance /\ (RecordValidation => at \notin SaveSteps)
    BY <2>2 DEF RecordValidation, Enqueue
  <2>5. at = TotalSteps
    BY <1>1, <2>3, <2>4 DEF Advance, Begin, Step
  <2>6. Enqueue
    BY <1>1, <2>2, <2>4, <2>5
  <2>7. \/ KnownJob(at) /\ UNCHANGED <<job, future>>
        \/ Submit(at)
    BY <2>4, <2>6 DEF Enqueue, Advance, Begin
  <2> QED
    BY <1>1, <2>5, <2>7 DEF KnownJob, Submit, IInv, TypeOK
<1> QED
  BY <1>3, <1>4

\* After the end nothing happens.
LEMMA NextClosed == ASSUME IInv, QInv, EInv, [Next]_vars PROVE Closed'
<1> SUFFICES ASSUME pc' = "done" PROVE Drained' /\ NoFailure'
  BY DEF Closed
<1>1. CASE pc = "done"
  <2>1. Drained /\ NoFailure
    BY <1>1 DEF EInv, Closed
  <2>2. queue \in Seq(Step) /\ (worker.pc # "idle" => worker.step \in Step)
    BY DEF IInv, TypeOK, OnSteps
  <2>3. worker.pc = "idle"
    BY <2>1, <2>2 DEF QInv, WorkingOnce, Drained
  <2>4. queue = <<>>
    <3> SUFFICES ASSUME queue # <<>> PROVE FALSE
      OBVIOUS
    <3>1. 1 \in 1 .. Len(queue) /\ queue[1] \in Step
      BY <2>2, EmptySeq
    <3> QED
      BY <2>1, <3>1 DEF QInv, QueuedOnce, Drained
  <2>5. ~ Uploader
    BY <2>3, <2>4, ThreadSteps DEF StartJob
  <2>6. ~ Trainer /\ ~ Crash
    BY <1>1 DEF Trainer, SaveFile, TruncateTracker, CommitTracker, RecoverJob, RecordValidation,
       Enqueue, Drain, Crash
  <2>7. UNCHANGED <<future, broken>>
    BY <2>5, <2>6 DEF Next, Terminated, vars
  <2> QED
    BY <2>1, <2>7 DEF Drained, NoFailure
<1>2. CASE pc # "done"
  <2>1. Drain
    <3>1. CASE Trainer
      BY <1>2, <3>1 DEF Trainer, SaveFile, TruncateTracker, CommitTracker, RecoverJob, RecordValidation,
         Enqueue, Advance, Begin
    <3>2. CASE Uploader
      BY <1>2, <3>2, ThreadSteps DEF StartJob, trainerVars
    <3>3. ~ Crash
      BY DEF Crash, Resume, Begin
    <3> QED
      BY <1>2, <3>1, <3>2, <3>3 DEF Next, Terminated, vars, trainerVars
  <2> QED
    BY <2>1 DEF Drain, Drained, NoFailure
<1> QED
  BY <1>1, <1>2

LEMMA EndInvariance == Spec => []EInv
<1>1. IInv /\ QInv /\ EInv /\ [Next]_vars => EInv'
  BY NextLast, NextClosed DEF EInv
<1> QED
  BY <1>1, InitE, Invariance, QueueInvariance, PTL DEF Spec

\* The end of a training run that opened its queue: every saved step was uploaded.
LEMMA AllAtEnd ==
  ASSUME IInv, QInv, HInv, EInv, pc = "done", Open, KeepBest > 0, NEW n \in SaveSteps
  PROVE  Uploaded(n) /\ job[n] = "complete"
<1>1. \A k \in Step : future[k] \notin {"pending", "error"} /\ k \notin broken
  BY DEF EInv, Closed, Drained, NoFailure
<1>2. /\ SaveSteps \subseteq Step /\ TotalSteps \in SaveSteps /\ Scanned = SaveSteps
      /\ job \in [Step -> {"none", "queued", "uploading", "complete", "failed"}]
      /\ future \in [Step -> {"none", "pending", "ok", "error"}]
  BY UploadAssumption, ScanAll DEF IInv, TypeOK
<1>3. job[TotalSteps] = "complete"
  BY <1>1, <1>2 DEF EInv, LastEnqueued, QInv, Followed
<1>4. Uploaded(n)
  BY <1>3 DEF HInv, Terminal
<1> QED
  BY <1>1, <1>2, <1>4 DEF Uploaded, QInv, Followed

-----------------------------------------------------------------------------
(* The life of a checkpoint.                                               *)

\* Deletion belongs to retention, and a file to a directory.
Retains == worker.pc \in {"select", "prune", "truncate", "track", "audit"} => KeepBest > 0
FilesInDirs == \A n \in Step, p \in Part : file[n][p] # 0 => n \in dirs

LInv == Retains /\ FilesInDirs

LEMMA NextRetains == ASSUME IInv, Retains, [Next]_vars PROVE Retains'
<1>1. WorkerType /\ KeepBest \in Nat
  BY UploadAssumption DEF IInv, TypeOK
<1>2. CASE worker' = Idle
  BY <1>2 DEF Retains, Idle
<1>3. CASE worker' = worker
  BY <1>3 DEF Retains
<1>4. CASE StartJob
  BY <1>1, <1>4 DEF Retains, StartJob, WorkerType
<1>5. CASE CheckAndHash \/ Upload
  BY <1>1, <1>2, <1>5 DEF Retains, CheckAndHash, Upload, JobFails, AfterUpload, WorkerType
<1>6. CASE Select \/ Verify
  BY <1>1, <1>2, <1>6 DEF Retains, Select, Verify, JobFails, WorkerType
<1>7. CASE Prune
  BY <1>1, <1>2, <1>7 DEF Retains, Prune, JobFails
<1>8. CASE RetentionTruncate \/ RetentionTrack \/ WriteAudit
  BY <1>1, <1>8 DEF Retains, RetentionTruncate, RetentionTrack, WriteAudit, WorkerType
<1> QED
  BY <1>2, <1>3, <1>4, <1>5, <1>6, <1>7, <1>8 DEF Next, Trainer, Uploader, FinishJob, SaveFile,
     TruncateTracker, CommitTracker, RecoverJob, RecordValidation, Enqueue, Drain, Crash,
     Terminated, vars

\* What one step can do to the files: write one, delete one, or remove an empty directory.
LEMMA FileSteps ==
  ASSUME IInv, [Next]_vars
  PROVE  \/ UNCHANGED <<dirs, file>>
         \/ /\ SaveFile /\ at \in SaveSteps /\ at \in Step /\ dirs' = dirs \cup {at}
            /\ \E q \in Part : file'[at][q] # 0 /\ \A p \in Part \ {q} : file'[at][p] = file[at][p]
            /\ \A k \in Step \ {at} : \A p \in Part : file'[k][p] = file[k][p]
         \/ /\ Prune /\ dirs' = dirs
            /\ \E n \in worker.doomed \cap dirs : \E q \in Part :
                 /\ file'[n][q] = 0 /\ \A p \in Part \ {q} : file'[n][p] = file[n][p]
                 /\ \A k \in Step \ {n} : \A p \in Part : file'[k][p] = file[k][p]
         \/ /\ Prune /\ file' = file
            /\ \E n \in worker.doomed :
                 dirs' = dirs \ {n} /\ (n \in dirs => \A p \in Part : file[n][p] = 0)
<1>1. /\ file \in [Step -> [Part -> 0 .. run]] /\ run \in Nat \ {0} /\ 0 \in 0 .. run /\ run \in 0 .. run
      /\ worker.doomed \subseteq Step
  BY UploadAssumption DEF IInv, TypeOK, WorkerType
<1>2. CASE SaveFile
  <2>1. at \in SaveSteps /\ at \in Step /\ part \in Part
    BY <1>2, UploadAssumption DEF IInv, TypeOK, OnSteps, SaveFile
  <2>2. CASE dirs' = dirs \cup {at} /\ file' = [file EXCEPT ![at][part] = run]
    <3>1. /\ file'[at][part] = run
          /\ \A k \in Step, q \in Part : k # at \/ q # part => file'[k][q] = file[k][q]
      BY <1>1, <2>1, <2>2, WriteFile
    <3> QED
      BY <1>1, <1>2, <2>1, <2>2, <3>1
  <2> QED
    BY <1>2, <2>2 DEF SaveFile
<1>3. CASE Prune
  <2> PICK n \in worker.doomed :
        \/ /\ n \in dirs /\ UNCHANGED dirs
           /\ \E q \in {p \in Part : file[n][p] # 0} : file' = [file EXCEPT ![n][q] = 0]
        \/ /\ n \in dirs => {p \in Part : file[n][p] # 0} = {}
           /\ dirs' = dirs \ {n} /\ UNCHANGED file
        \/ UNCHANGED <<dirs, file>>
    BY <1>3 DEF Prune
  <2>1. CASE /\ n \in dirs /\ UNCHANGED dirs
             /\ \E q \in {p \in Part : file[n][p] # 0} : file' = [file EXCEPT ![n][q] = 0]
    <3> PICK q \in Part : file' = [file EXCEPT ![n][q] = 0]
      BY <2>1
    <3>1. n \in Step
      BY <1>1
    <3>2. /\ file'[n][q] = 0
          /\ \A k \in Step, p \in Part : k # n \/ p # q => file'[k][p] = file[k][p]
      BY <1>1, <3>1, WriteFile
    <3> QED
      BY <1>3, <2>1, <3>1, <3>2
  <2>2. CASE /\ n \in dirs => {p \in Part : file[n][p] # 0} = {}
             /\ dirs' = dirs \ {n} /\ UNCHANGED file
    BY <1>3, <2>2
  <2> QED
    BY <2>1, <2>2
<1> QED
  BY <1>2, <1>3, DiskSteps

LEMMA NextFilesInDirs == ASSUME IInv, FilesInDirs, [Next]_vars PROVE FilesInDirs'
  BY FileSteps DEF FilesInDirs

LEMMA LifeInvariance == Spec => []LInv
<1>1. Init => LInv
  BY DEF Init, LInv, Retains, FilesInDirs, Idle, NoFiles
<1>2. IInv /\ LInv /\ [Next]_vars => LInv'
  BY NextRetains, NextFilesInDirs DEF LInv
<1> QED
  BY <1>1, <1>2, Invariance, PTL DEF Spec

\* The abstract module's own instance of FiniteSets counts alike.
LEMMA SameCardinality == \A S : Lifecycle!Cardinality(S) = Cardinality(S)
  BY DEF Cardinality, Lifecycle!Cardinality

\* The abstract state.
Scores == [n \in SaveSteps |-> score[n]]
lifeVars == <<WholeOnDisk, Stored, Scores>>

LEMMA SaveRefines ==
  ASSUME IInv, LInv, [Next]_vars, SaveFile, UNCHANGED <<Stored, Scores>>
  PROVE  [Lifecycle!Next]_lifeVars
<1>1. UNCHANGED <<dirs, file>> => WholeOnDisk' = WholeOnDisk
  BY DEF WholeOnDisk, Complete
<1>2. CASE /\ at \in SaveSteps /\ dirs' = dirs \cup {at}
           /\ \E q \in Part : file'[at][q] # 0 /\ \A p \in Part \ {q} : file'[at][p] = file[at][p]
           /\ \A k \in Step \ {at} : \A p \in Part : file'[k][p] = file[k][p]
  <2>1. dirs \subseteq Step /\ at \in Step
    BY <1>2, UploadAssumption DEF IInv, TypeOK
  <2>2. at \in WholeOnDisk => at \in WholeOnDisk'
    BY <1>2 DEF WholeOnDisk, Complete
  <2>3. WholeOnDisk' \ {at} = WholeOnDisk \ {at}
    BY <1>2, <2>1 DEF WholeOnDisk, Complete
  <2>4. CASE at \notin WholeOnDisk /\ at \in WholeOnDisk'
    <3>1. WholeOnDisk' = WholeOnDisk \cup {at}
      BY <2>3, <2>4
    <3>2. Lifecycle!Save(at)
      BY <2>4, <3>1 DEF Lifecycle!Save, Scores
    <3> QED
      BY <1>2, <3>2 DEF Lifecycle!Next
  <2>5. CASE at \in WholeOnDisk <=> at \in WholeOnDisk'
    BY <2>3, <2>5 DEF lifeVars
  <2> QED
    BY <2>2, <2>4, <2>5
<1>3. ~ Prune
  <2> SUFFICES ASSUME Prune PROVE FALSE
    OBVIOUS
  <2>1. UNCHANGED trainerVars /\ pc = "save"
    BY DEF Prune, SaveFile
  <2> QED
    <3>1. part \in 1 .. 3 /\ part' = part /\ pc' = pc /\ pc = "save"
      BY <2>1 DEF trainerVars, IInv, TypeOK, Part
    <3>2. pc' = "raised" \/ part' # part \/ pc' = "truncate"
      BY <3>1 DEF SaveFile, Data
    <3> QED
      BY <3>1, <3>2
<1> QED
  BY <1>1, <1>2, <1>3, FileSteps DEF lifeVars

LEMMA PruneRefines ==
  ASSUME IInv, QInv, HInv, LInv, [Next]_vars, Prune, UNCHANGED <<Stored, Scores>>
  PROVE  [Lifecycle!Next]_lifeVars
<1>1. UNCHANGED <<dirs, file>> => WholeOnDisk' = WholeOnDisk
  BY DEF WholeOnDisk, Complete
<1>2. ASSUME NEW n \in worker.doomed, n \in dirs, dirs' = dirs, NEW q \in Part,
             file'[n][q] = 0, \A k \in Step \ {n} : \A p \in Part : file'[k][p] = file[k][p]
      PROVE  [Lifecycle!Next]_lifeVars
  <2>1. dirs \subseteq SaveSteps /\ SaveSteps \subseteq Step /\ n \in Step
    BY <1>2, UploadAssumption DEF IInv, TypeOK
  <2>2. n \notin WholeOnDisk'
    BY <1>2 DEF WholeOnDisk, Complete
  <2>3. WholeOnDisk' = WholeOnDisk \ {n}
    BY <1>2, <2>1, <2>2 DEF WholeOnDisk, Complete
  <2>4. CASE n \in WholeOnDisk
    <3>1. n \in SaveSteps /\ n \in Stored
      BY <1>2, <2>1 DEF Stored, IInv, DoomedUploaded
    <3>2. KeepBest > 0
      BY DEF LInv, Retains, Prune
    <3>3. Beaten(n)
      BY <1>2 DEF HInv, Dooms
    <3>4. Lifecycle!Rivals(n) = Rivals(n)
      BY <3>1 DEF Lifecycle!Rivals, Rivals, Beats
    <3>5. Lifecycle!Beaten(n)
      <4>1. Cardinality(Rivals(n)) >= KeepBest /\ Scores[n] # 0
        BY <3>1, <3>3 DEF Beaten, Scores
      <4>2. Cardinality(Lifecycle!Rivals(n)) >= KeepBest
        BY <3>4, <4>1, Zenon
      <4> QED
        BY <4>1, <4>2, SameCardinality DEF Lifecycle!Beaten, Scores
    <3>6. Lifecycle!Prune(n)
      BY <2>3, <2>4, <3>1, <3>2, <3>5 DEF Lifecycle!Prune, Scores
    <3> QED
      BY <3>1, <3>6 DEF Lifecycle!Next
  <2>5. CASE n \notin WholeOnDisk
    BY <2>3, <2>5 DEF lifeVars
  <2> QED
    BY <2>4, <2>5
<1>3. ASSUME NEW n \in worker.doomed, file' = file, dirs' = dirs \ {n},
             n \in dirs => \A p \in Part : file[n][p] = 0
      PROVE  [Lifecycle!Next]_lifeVars
  <2>1. n \notin WholeOnDisk
    BY <1>3 DEF WholeOnDisk, Complete, Part
  <2>2. WholeOnDisk' = WholeOnDisk
    BY <1>3, <2>1 DEF WholeOnDisk, Complete
  <2> QED
    BY <2>2 DEF lifeVars
<1>4. ~ SaveFile
  <2> SUFFICES ASSUME SaveFile PROVE FALSE
    OBVIOUS
  <2>1. part \in 1 .. 3 /\ part' = part /\ pc' = pc /\ pc = "save"
    BY DEF Prune, SaveFile, trainerVars, IInv, TypeOK, Part
  <2>2. pc' = "raised" \/ part' # part \/ pc' = "truncate"
    BY <2>1 DEF SaveFile, Data
  <2> QED
    BY <2>1, <2>2
<1>5. CASE UNCHANGED <<dirs, file>>
  BY <1>1, <1>5 DEF lifeVars
<1> QED
  BY <1>2, <1>3, <1>4, <1>5, FileSteps

LEMMA UploadRefines ==
  ASSUME IInv, QInv, HInv, LInv, Upload, UNCHANGED <<WholeOnDisk, Scores>>
  PROVE  [Lifecycle!Next]_lifeVars
<1> PICK n \in Step : n = worker.step
  BY DEF IInv, OnSteps, Upload
<1>1. remote \in [Step -> [Part -> 0 .. run]] /\ SaveSteps \subseteq Step
  BY UploadAssumption DEF IInv, TypeOK
<1>2. CASE UNCHANGED remote
  BY <1>2 DEF lifeVars, Stored, Complete
<1>3. CASE remote' = [remote EXCEPT ![n] =
                        [p \in Part |-> IF file[n][p] # 0 THEN file[n][p] ELSE remote[n][p]]]
  <2>1. /\ \A k \in Step \ {n} : remote'[k] = remote[k]
        /\ \A p \in Part : remote'[n][p] = IF file[n][p] # 0 THEN file[n][p] ELSE remote[n][p]
    BY <1>1, <1>3
  <2>2. Safe(n) /\ n \in SaveSteps
    BY DEF IInv, UploadingSafe, Upload, QInv, WorkingOnce, HInv, Jobs
  <2>3. Complete(remote'[n])
    BY <2>1, <2>2 DEF Safe, Complete
  <2>4. Stored' = Stored \cup {n}
    BY <1>1, <2>1, <2>2, <2>3 DEF Stored
  <2>5. CASE Complete(remote[n])
    <3>1. Stored' = Stored
      BY <2>2, <2>4, <2>5 DEF Stored
    <3> QED
      BY <3>1 DEF lifeVars
  <2>6. CASE Complete(file[n])
    <3>1. n \in WholeOnDisk
      BY <2>6 DEF WholeOnDisk, Complete, LInv, FilesInDirs, Part
    <3>2. Lifecycle!Upload(n)
      BY <2>4, <3>1 DEF Lifecycle!Upload, Scores
    <3> QED
      BY <2>2, <3>2 DEF Lifecycle!Next
  <2> QED
    BY <2>2, <2>5, <2>6 DEF Safe
<1> QED
  BY <1>2, <1>3 DEF Upload

LEMMA MeasureRefines ==
  ASSUME IInv, RecordValidation, UNCHANGED <<WholeOnDisk, Stored>>
  PROVE  [Lifecycle!Next]_lifeVars
<1>1. at \in Step /\ score \in [Step -> Score \cup {0}] /\ SaveSteps \subseteq Step
  BY UploadAssumption DEF IInv, TypeOK, OnSteps, RecordValidation
<1>2. CASE UNCHANGED score
  BY <1>2 DEF lifeVars, Scores
<1>3. CASE score[at] = 0 /\ \E x \in Score : score' = [score EXCEPT ![at] = x]
  <2> PICK x \in Score : score' = [score EXCEPT ![at] = x]
    BY <1>3
  <2>1. CASE at \in SaveSteps
    <3>1. Scores' = [Scores EXCEPT ![at] = x] /\ Scores[at] = 0
      BY <1>1, <1>3, <2>1 DEF Scores
    <3> PICK n \in SaveSteps : n = at
      BY <2>1
    <3>2. Lifecycle!Measure(n)
      BY <3>1 DEF Lifecycle!Measure, Scores
    <3> QED
      BY <3>2 DEF Lifecycle!Next
  <2>2. CASE at \notin SaveSteps
    <3>1. Scores' = Scores
      BY <1>1, <2>2 DEF Scores
    <3> QED
      BY <3>1 DEF lifeVars
  <2> QED
    BY <2>1, <2>2
<1> QED
  BY <1>2, <1>3 DEF RecordValidation

\* Every step of the two threads and every crash is a step of the life of one checkpoint,
\* or leaves them all alone.
LEMMA StepRefines ==
  ASSUME IInv, QInv, HInv, LInv, [Next]_vars
  PROVE  [Lifecycle!Next]_lifeVars
<1>1. /\ UNCHANGED <<dirs, file>> => UNCHANGED WholeOnDisk
      /\ UNCHANGED remote => UNCHANGED Stored
      /\ UNCHANGED score => UNCHANGED Scores
  BY DEF WholeOnDisk, Stored, Scores, Complete
<1>2. CASE SaveFile
  BY <1>1, <1>2, SaveRefines DEF SaveFile
<1>3. CASE Prune
  BY <1>1, <1>3, PruneRefines DEF Prune
<1>4. CASE Upload
  BY <1>1, <1>4, UploadRefines DEF Upload
<1>5. CASE RecordValidation
  BY <1>1, <1>5, MeasureRefines DEF RecordValidation
<1> QED
  BY <1>1, <1>2, <1>3, <1>4, <1>5, DiskSteps DEF lifeVars

-----------------------------------------------------------------------------
(* Theorems.                                                               *)

\* close() returns from a drained queue only when every checkpoint of the run is whole on
\* ModelScope, whatever failed, crashed or was pruned before.
THEOREM DrainedIsUploaded == Spec => []DrainedUploaded
<1>1. IInv /\ QInv /\ HInv /\ EInv => DrainedUploaded
  BY AllAtEnd DEF DrainedUploaded, Uploaded
<1> QED
  BY <1>1, Invariance, QueueInvariance, HistoryInvariance, EndInvariance, PTL

\* ... and when _retain_after_verified_upload has left every best checkpoint whole on disk.
THEOREM BestStayLocal == Spec => []BestAreLocal
<1>1. ASSUME IInv, QInv, HInv, EInv PROVE BestAreLocal
  <2> SUFFICES ASSUME pc = "done", Open, KeepBest > 0, NEW n \in SaveSteps,
                      Cardinality({m \in SaveSteps : Beats(m, n)}) < KeepBest
               PROVE  n \in dirs /\ Complete(file[n])
    BY DEF BestAreLocal
  <2>1. n \in Step /\ job[n] # "none"
    BY <1>1, AllAtEnd, UploadAssumption DEF Uploaded
  <2>2. Local(n)
    BY <1>1, <2>1 DEF HInv, Jobs
  <2> PICK T : T = {m \in SaveSteps : Beats(m, n)}
    OBVIOUS
  <2>3. Rivals(n) \subseteq T /\ T \subseteq SaveSteps
    BY DEF Rivals
  <2>4. /\ Cardinality(Rivals(n)) \in Nat /\ Cardinality(T) \in Nat
        /\ Cardinality(Rivals(n)) <= Cardinality(T)
    BY <2>3, LargerSet
  <2>5. ~ (Cardinality(Rivals(n)) >= KeepBest)
    BY <2>4, UploadAssumption
  <2> QED
    BY <2>2, <2>5 DEF Local, OnDisk, Beaten
<1> QED
  BY <1>1, Invariance, QueueInvariance, HistoryInvariance, EndInvariance, PTL

\* _save_checkpoint, record_validation, _run_job with its retention and _load_checkpoint
\* together implement CheckpointLifecycle: through every crash, a whole checkpoint becomes
\* deletable only once it is stored and KeepBest better ones are recorded.
THEOREM RefinesLifecycle == Spec => ImplementsLifecycle
<1>1. Init => Lifecycle!Init
  <2> SUFFICES ASSUME Init PROVE Lifecycle!Init
    OBVIOUS
  <2>1. SaveSteps \subseteq Step
    BY UploadAssumption
  <2>2. WholeOnDisk = {}
    BY DEF Init, WholeOnDisk
  <2>3. \A n \in SaveSteps : remote[n][1] = 0 /\ 1 \in Part
    BY <2>1 DEF Init, NoFiles, Part
  <2>4. Stored = {}
    BY <2>3 DEF Stored, Complete
  <2>5. [n \in SaveSteps |-> score[n]] = [n \in SaveSteps |-> 0]
    BY <2>1 DEF Init
  <2> QED
    BY <2>2, <2>4, <2>5 DEF Lifecycle!Init
<1>2. IInv /\ QInv /\ HInv /\ LInv /\ [Next]_vars => [Lifecycle!Next]_lifeVars
  BY StepRefines
<1> QED
  BY <1>1, <1>2, Invariance, QueueInvariance, HistoryInvariance, LifeInvariance, PTL
     DEF Spec, ImplementsLifecycle, Lifecycle!Spec, Lifecycle!vars, lifeVars, Scores

=============================================================================
