------------------------------ MODULE TrainingRun ------------------------------
(***************************************************************************)
(* A training run on one machine: optimizer updates and the teacher that   *)
(* follows them, the save of a checkpoint by all ranks, rotation, the      *)
(* synchronous best-checkpoint retention, and restarts that resume from    *)
(* what the disk holds.                                                    *)
(*                                                                         *)
(*   verl/trainer/ppo/v1/trainer_base.py             _fit, save and resume *)
(*   verl/workers/engine_workers.py              updates, save per rank    *)
(*   verl/trainer/distillation/snapshot_teacher.py             the teacher *)
(*   verl/utils/checkpoint/fsdp_checkpoint_manager.py, checkpoint_manager.py *)
(*   verl/utils/checkpoint/best_checkpoint_retention.py                    *)
(*                                                                         *)
(* Weights are known by their lineage: for each update applied to them,    *)
(* the run (incarnation of the process) that applied it.  A run starts     *)
(* from one checkpoint, so lineages are equal only for equal weights.      *)
(* Model, optimizer, scheduler and RNG files of a rank are its shard; a    *)
(* file is on disk when its write has ended.  The teacher is the snapshot  *)
(* one; the EMA teacher, a function of the same updates, keeps time like a *)
(* snapshot at every update.  There is no critic and no asynchronous save. *)
(***************************************************************************)
EXTENDS Integers, Sequences, FiniteSets

CONSTANTS
  Rank,        \* the training processes, each with a shard
  Leader,      \* rank 0
  TotalSteps,  \* total_training_steps
  Updates,     \* optimizer updates of a trainer step
  Score,       \* values of the validation macro mean
  NoFile,      \* a file that is not there
  Configs      \* the trainer configurations considered, records of Config

(***************************************************************************)
(*   interval     teacher sync_interval                                    *)
(*   save, test   save_freq and test_freq                                  *)
(*   maxKeep      max_actor_ckpt_to_keep, 0 for null                       *)
(*   keepBest     best_checkpoint_retention.keep, 0 when absent            *)
(*   keepCurrent  best_checkpoint_retention.keep_current                   *)
(*   starts       bound: the first start and the restarts                  *)
(***************************************************************************)
Config ==
  [interval : Nat \ {0}, save : Nat \ {0}, test : Nat \ {0}, maxKeep : Nat,
   keepBest : Nat, keepCurrent : BOOLEAN, starts : Nat \ {0}]

Rotate == "rotate"  \* the leader's register_checkpoint, among the writes of a save

ASSUME RunAssumption ==
  /\ IsFiniteSet(Rank) /\ Leader \in Rank /\ Rotate \notin Rank
  /\ TotalSteps \in Nat \ {0} /\ Updates \in Nat \ {0}
  /\ Score \subseteq Int
  /\ Configs \subseteq Config

Lineage == Seq(Nat)
Teacher == [count : Nat, last : Nat, shadow : Lineage]

ASSUME FileAssumption == NoFile \notin Lineage \cup Teacher

VARIABLES
  (* the processes *)
  config,   \* the configuration of the experiment, constant
  run,      \* which start of the processes this is
  phase,    \* where the trainer is
  gs,       \* global_steps
  tried,    \* updates of this step tried so far
  todo,     \* writes the ranks still owe the save
  student,  \* student[r]: lineage of rank r's parameters
  teacher,  \* teacher[r]: the teacher's state on rank r
  saved,    \* previous_saved_paths of the leader
  (* the disk *)
  disk,     \* disk[n]: files of global_step_n, for the directories there are
  tracker,  \* latest_checkpointed_iteration.txt
  manifest, \* score of each step in best_checkpoint_retention.json
  record    \* score of each saved and validated step, from the dumped validation

memoryVars == <<gs, tried, todo, student, teacher, saved>>
diskVars == <<disk, tracker, manifest, record>>
vars == <<config, run, phase, memoryVars, diskVars>>

Step == 1 .. TotalSteps
Directory ==
  [shard : [Rank -> {NoFile} \cup Lineage], teacher : [Rank -> {NoFile} \cup Teacher], data : BOOLEAN]
Phase == {"load", "train", "save", "shards", "teachers", "data", "tracker", "commit",
          "validate", "prune", "retrack", "recommit", "manifest", "next", "done", "raised"}
None == 0   \* no tracker file
Torn == -1  \* a tracker that was emptied and not written

Nothing == [x \in {} |-> 0]
NoFiles == [r \in Rank |-> NoFile]
Fresh == [count |-> 0, last |-> 0, shadow |-> <<>>]
Elements(s) == {s[i] : i \in DOMAIN s}
MaxOf(S) == CHOOSE x \in S : \A y \in S : y <= x
MinOf(S) == CHOOSE x \in S : \A y \in S : x <= y
With(f, x, v) == [y \in DOMAIN f \cup {x} |-> IF y = x THEN v ELSE f[y]]

Init ==
  /\ config \in Configs
  /\ run = 1 /\ phase = "load" /\ gs = 0 /\ tried = 0 /\ todo = {}
  /\ student = [r \in Rank |-> <<>>]
  /\ teacher = [r \in Rank |-> Fresh]
  /\ saved = <<>>
  /\ disk = Nothing /\ tracker = None /\ manifest = Nothing /\ record = Nothing

-----------------------------------------------------------------------------
(* Resume.                                                                 *)

\* find_latest_ckpt_path: no tracker, or a tracker of a directory that is gone.
FromScratch == tracker # Torn /\ tracker \notin DOMAIN disk

Loadable(n) == \A r \in Rank : disk[n].shard[r] # NoFile /\ disk[n].teacher[r] # NoFile

\* Faulty variant: the snapshot is taken again from the restored student.
MutLoaded(r) == [disk[tracker].teacher[r] EXCEPT !.shadow = disk[tracker].shard[r]]

\* The teacher of a rank after load().
Loaded(r) == disk[tracker].teacher[r]

Load ==
  /\ phase = "load"
  /\ \/ FromScratch /\ gs' = 1 /\ phase' = "train" /\ UNCHANGED <<student, teacher>>
     \/ /\ tracker \in DOMAIN disk /\ Loadable(tracker)
        /\ gs' = tracker + 1
        /\ phase' = IF tracker < TotalSteps THEN "train" ELSE "done"
        /\ student' = disk[tracker].shard
        /\ teacher' = [r \in Rank |-> Loaded(r)]
     \/ /\ tracker = Torn \/ (tracker \in DOMAIN disk /\ ~ Loadable(tracker))
        /\ phase' = "raised" /\ UNCHANGED <<gs, student, teacher>>
  /\ UNCHANGED <<config, run, tried, todo, saved, diskVars>>

\* The processes die, or end, and are started again.
Restart ==
  /\ phase # "load" /\ run < config.starts
  /\ run' = run + 1 /\ phase' = "load" /\ gs' = 0 /\ tried' = 0 /\ todo' = {}
  /\ student' = [r \in Rank |-> <<>>]
  /\ teacher' = [r \in Rank |-> Fresh]
  /\ saved' = <<>>
  /\ UNCHANGED <<config, diskVars>>

-----------------------------------------------------------------------------
(* Updates.                                                                *)

\* Faulty variant: one step too many.
MutIsLast == gs > TotalSteps

IsLast == gs >= TotalSteps

Saves == IsLast \/ gs % config.save = 0
Tests == IsLast \/ gs % config.test = 0  \* the validation, for the retention

\* after_optimizer_step when the update was applied; s is the new student.
Advance(t, s) ==
  LET count == t.count + 1 IN
  IF count % config.interval = 0
  THEN [count |-> count, last |-> count, shadow |-> s]
  ELSE [t EXCEPT !.count = count]

\* One optimizer step on all ranks; a gradient norm that is not finite skips it
\* everywhere.
Update(applied) ==
  /\ phase = "train"
  /\ IF applied
     THEN /\ student' = [r \in Rank |-> Append(student[r], run)]
          /\ teacher' = [r \in Rank |-> Advance(teacher[r], student'[r])]
     ELSE UNCHANGED <<student, teacher>>
  /\ IF tried + 1 < Updates
     THEN tried' = tried + 1 /\ UNCHANGED phase
     ELSE tried' = 0 /\ phase' = IF Saves THEN "save" ELSE "next"
  /\ UNCHANGED <<config, run, gs, todo, saved, diskVars>>

-----------------------------------------------------------------------------
(* Save.                                                                   *)

\* Faulty variant: one path too few.
MutLatest(paths, k) == IF Len(paths) <= k THEN paths ELSE SubSeq(paths, Len(paths) - k + 2, Len(paths))

\* The last k paths.
Latest(paths, k) == IF Len(paths) <= k THEN paths ELSE SubSeq(paths, Len(paths) - k + 1, Len(paths))

\* The disk without the actor directories of the steps R.
Removed(R) ==
  [n \in DOMAIN disk |->
     IF n \in R THEN [disk[n] EXCEPT !.shard = NoFiles, !.teacher = NoFiles] ELSE disk[n]]

\* Faulty variant: no room is made.
MutCapacity(paths) == paths

\* ensure_checkpoint_capacity on the leader, the directory, and the barrier.
Capacity(paths) == IF config.maxKeep > 1 THEN Latest(paths, config.maxKeep - 1) ELSE paths

BeginSave ==
  /\ phase = "save"
  /\ saved' = Capacity(saved)
  /\ LET d == Removed(Elements(saved) \ Elements(saved')) IN
     disk' = IF gs \in DOMAIN disk THEN d
             ELSE With(d, gs, [shard |-> NoFiles, teacher |-> NoFiles, data |-> FALSE])
  /\ phase' = "shards" /\ todo' = Rank
  /\ UNCHANGED <<config, run, gs, tried, student, teacher, tracker, manifest, record>>

\* The last shard passes the barrier.
WriteShard(r) ==
  /\ phase = "shards" /\ r \in todo
  /\ disk' = [disk EXCEPT ![gs].shard[r] = student[r]]
  /\ IF todo = {r}
     THEN phase' = "teachers" /\ todo' = Rank \cup {Rotate}
     ELSE todo' = todo \ {r} /\ UNCHANGED phase
  /\ UNCHANGED <<config, run, gs, tried, student, teacher, saved, tracker, manifest, record>>

\* Faulty variant: it does not wait for the other ranks.
MutWritten(left) == IF Leader \notin left THEN "data" ELSE "teachers"

\* What the driver does when all calls of the save have returned.
Written(left) == IF left = {} THEN "data" ELSE "teachers"

\* register_checkpoint on the leader, while the others save their teacher.
Registered(paths) == IF config.maxKeep > 0 THEN Latest(paths, config.maxKeep) ELSE paths

Register ==
  /\ phase = "teachers" /\ Rotate \in todo
  /\ saved' = Registered(Append(saved, gs))
  /\ disk' = Removed(Elements(saved) \ Elements(saved'))
  /\ todo' = todo \ {Rotate}
  /\ UNCHANGED <<config, run, phase, gs, tried, student, teacher, tracker, manifest, record>>

WriteTeacher(r) ==
  /\ phase = "teachers" /\ r \in todo
  /\ r = Leader => Rotate \notin todo
  /\ disk' = [disk EXCEPT ![gs].teacher[r] = teacher[r]]
  /\ todo' = todo \ {r}
  /\ phase' = Written(todo')
  /\ UNCHANGED <<config, run, gs, tried, student, teacher, saved, tracker, manifest, record>>

WriteData ==
  /\ phase = "data"
  /\ disk' = [disk EXCEPT ![gs].data = TRUE]
  /\ phase' = "tracker" /\ todo' = {}
  /\ UNCHANGED <<config, run, gs, tried, student, teacher, saved, tracker, manifest, record>>

\* Both writers of the tracker open it for writing, which empties it ...
EmptyTracker ==
  /\ phase \in {"tracker", "retrack"}
  /\ tracker' = Torn
  /\ phase' = IF phase = "tracker" THEN "commit" ELSE "recommit"
  /\ UNCHANGED <<config, run, memoryVars, disk, manifest, record>>

\* ... and write the saved step, or the latest one that retention left.
WriteTracker ==
  /\ \/ /\ phase = "commit"
        /\ tracker' = gs
        /\ phase' = IF Tests /\ config.keepBest > 0 THEN "validate" ELSE "next"
     \/ /\ phase = "recommit"
        /\ tracker' = MaxOf(DOMAIN disk)
        /\ phase' = "manifest"
  /\ UNCHANGED <<config, run, memoryVars, disk, manifest, record>>

-----------------------------------------------------------------------------
(* Retention.                                                              *)

\* The validation of a saved step; its predictions are on disk before retention.
Validate(v) ==
  /\ phase = "validate"
  /\ record' = With(record, gs, v)
  /\ phase' = "prune"
  /\ UNCHANGED <<config, run, memoryVars, disk, tracker, manifest>>

\* Faulty variant: the step just validated is not ranked.
MutHistory == manifest

\* The history in the manifest, with the step just validated.
History == With(manifest, gs, record[gs])

\* m is ranked before n.
Before(h, m, n) == h[m] > h[n] \/ (h[m] = h[n] /\ m < n)

Best(h) == {n \in DOMAIN h : Cardinality({m \in DOMAIN h : Before(h, m, n)}) < config.keepBest}

\* Faulty variant: the current checkpoint is always kept.
MutRetained == Best(History) \cup {gs}

Retained == Best(History) \cup (IF ~ IsLast /\ config.keepCurrent THEN {gs} ELSE {})

Doomed == {n \in DOMAIN disk : n <= gs} \ Retained

\* rmtree of the next directory, in the order of steps with equally many digits.
Prune ==
  /\ phase = "prune" /\ Doomed # {}
  /\ disk' = [n \in DOMAIN disk \ {MinOf(Doomed)} |-> disk[n]]
  /\ UNCHANGED <<config, run, phase, memoryVars, tracker, manifest, record>>

\* A part of it is gone.
PruneSome ==
  /\ phase = "prune" /\ Doomed # {}
  /\ LET n == MinOf(Doomed) IN
     \E R, T \in SUBSET Rank, d \in BOOLEAN :
       disk' = [disk EXCEPT ![n] =
                  [shard |-> [r \in Rank |-> IF r \in R THEN @.shard[r] ELSE NoFile],
                   teacher |-> [r \in Rank |-> IF r \in T THEN @.teacher[r] ELSE NoFile],
                   data |-> d /\ @.data]]
  /\ UNCHANGED <<config, run, phase, memoryVars, tracker, manifest, record>>

\* The directories have to be exactly the retained ones, and max() needs one.
Pruned ==
  /\ phase = "prune" /\ Doomed = {}
  /\ phase' = IF DOMAIN disk = Retained /\ Retained # {} THEN "retrack" ELSE "raised"
  /\ UNCHANGED <<config, run, memoryVars, diskVars>>

WriteManifest ==
  /\ phase = "manifest"
  /\ manifest' = History
  /\ phase' = "next"
  /\ UNCHANGED <<config, run, memoryVars, disk, tracker, record>>

NextStep ==
  /\ phase = "next"
  /\ gs' = gs + 1
  /\ phase' = IF IsLast THEN "done" ELSE "train"
  /\ UNCHANGED <<config, run, tried, todo, student, teacher, saved, diskVars>>

-----------------------------------------------------------------------------
Next ==
  \/ Load \/ Restart
  \/ \E applied \in BOOLEAN : Update(applied)
  \/ BeginSave \/ Register \/ WriteData \/ EmptyTracker \/ WriteTracker
  \/ \E r \in Rank : WriteShard(r) \/ WriteTeacher(r)
  \/ \E v \in Score : Validate(v)
  \/ Prune \/ PruneSome \/ Pruned \/ WriteManifest \/ NextStep

Spec == Init /\ [][Next]_vars

-----------------------------------------------------------------------------
TypeOK ==
  /\ config \in Configs
  /\ run \in 1 .. config.starts
  /\ phase \in Phase
  /\ gs \in Nat
  /\ tried \in Nat
  /\ todo \subseteq Rank \cup {Rotate}
  /\ student \in [Rank -> Lineage]
  /\ teacher \in [Rank -> Teacher]
  /\ saved \in Seq(Step)
  /\ DOMAIN disk \subseteq Step /\ disk \in [DOMAIN disk -> Directory]
  /\ tracker \in Step \cup {None, Torn}
  /\ DOMAIN manifest \subseteq Step /\ manifest \in [DOMAIN manifest -> Score]
  /\ DOMAIN record \subseteq Step /\ record \in [DOMAIN record -> Score]

\* The teacher a student of lineage s must have.
TeacherOf(s) ==
  LET k == Len(s) - (Len(s) % config.interval) IN
  [count |-> Len(s), last |-> k, shadow |-> SubSeq(s, 1, k)]

(* The teacher is the student as it was at the last multiple of the          *)
(* interval, counted in applied updates over all the restarts, and student   *)
(* and teacher are of one moment on all ranks, whatever checkpoint the run   *)
(* resumed from.  With retention this is so for one restart only: a second   *)
(* one can load a checkpoint of an abandoned run that the first overwrote in *)
(* part, because retention had named it in the tracker.                      *)
TeacherExact ==
  config.keepBest = 0 \/ run <= 2 =>
    \A r \in Rank : student[r] = student[Leader] /\ teacher[r] = TeacherOf(student[r])

\* Checkpoint n is complete and of one moment of one run.
Whole(n) ==
  /\ n \in DOMAIN disk
  /\ Loadable(n) /\ disk[n].data
  /\ \A r \in Rank : /\ disk[n].shard[r] = disk[n].shard[Leader]
                     /\ disk[n].teacher[r] = TeacherOf(disk[n].shard[r])

(* A save writes the tracker only when the checkpoint it names is whole (with *)
(* retention, after one restart at most); retention does so while no restart *)
(* has happened, if no rotation removes what it keeps.                       *)
TrackerNamesWhole ==
  [][/\ tracker' \in Step /\ tracker' # tracker
     /\ \/ phase = "commit" /\ (config.keepBest = 0 \/ run <= 2)
        \/ phase = "recommit" /\ run = 1 /\ config.maxKeep = 0
     => Whole(tracker)']_vars

(* Without retention, and with a rotation that keeps two checkpoints or all, *)
(* the checkpoint the tracker names stays whole whenever the processes die.  *)
ResumeWhole ==
  config.keepBest = 0 /\ config.maxKeep # 1 /\ tracker \in Step => Whole(tracker)

(* While no restart has happened, and without rotation, the best checkpoints *)
(* of those validated so far are on disk and whole, also while retention     *)
(* removes others.                                                           *)
BestOnDisk ==
  run = 1 /\ config.keepBest > 0 /\ config.maxKeep = 0 => \A n \in Best(record) : Whole(n)

(* When every save is validated and the current checkpoint is not kept for   *)
(* its own sake, the directories, with the one being written, never exceed   *)
(* the keep_best that the retention keeps by more than one per start.        *)
PeakBounded ==
  config.keepBest > 0 /\ ~ config.keepCurrent /\ config.save % config.test = 0 =>
    Cardinality(DOMAIN disk) <= config.keepBest + run

(* Rotation bounds the full checkpoints of one start.                        *)
ActorsBounded ==
  config.maxKeep > 0 =>
    Cardinality({n \in DOMAIN disk : disk[n].shard # NoFiles})
      <= run * (IF config.maxKeep = 1 THEN 2 ELSE config.maxKeep)

Settled == phase \in {"train", "done", "raised"}

(* The retained Top-k is the Top-k of the durable validation records.        *)
TopRetained ==
  Settled /\ config.keepBest > 0 =>
    \A n \in DOMAIN record :
      Whole(n) \/
      Cardinality({m \in DOMAIN record : Whole(m) /\ record[m] >= record[n]}) >= config.keepBest

(* The manifest's peak_full_checkpoints: a run that never restarts has at    *)
(* most keep_best + 1 checkpoints on disk, whether or not it keeps the       *)
(* current one.                                                              *)
PeakAsRecorded ==
  run = 1 /\ config.keepBest > 0 /\ config.save % config.test = 0 =>
    Cardinality(DOMAIN disk) <= config.keepBest + 1
=============================================================================
