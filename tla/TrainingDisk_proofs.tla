-------------------------- MODULE TrainingDisk_proofs --------------------------
(***************************************************************************)
(* What TrainingRun keeps on disk, for all sets of ranks and all           *)
(* configurations: the checkpoint of the tracker without retention, what   *)
(* the tracker may name, and the best checkpoints of the first run.  DInv  *)
(* is inductive relative to the invariant IInv of TrainingRun_proofs; it   *)
(* says which checkpoints have all their files, that rotation removes the  *)
(* oldest paths only, and that the manifest is as good as the records.     *)
(***************************************************************************)
EXTENDS TrainingRun_proofs, FiniteSetTheorems

\* Checkpoint n has all its files.
Full(n) == n \in DOMAIN disk /\ Loadable(n) /\ disk[n].data

Ranking == phase \in {"prune", "retrack", "recommit", "manifest"}

\* The leader has registered the checkpoint being saved.
AfterRegister ==
  (phase = "teachers" /\ Rotate \notin todo) \/ phase \in {"data", "tracker", "commit"}

DataSaved ==
  phase \in {"tracker", "commit", "validate"} => gs \in DOMAIN disk /\ disk[gs].data

\* Without retention the checkpoint of the tracker has all its files, is not the one
\* being written, and is the last path that rotation would remove.
TrackerKept ==
  config.keepBest = 0 /\ config.maxKeep # 1 =>
    /\ tracker \in Step => Full(tracker)
    /\ Writing => tracker # gs
    /\ AfterRegister => saved # <<>> /\ saved[Len(saved)] = gs
    /\ ~ AfterRegister /\ tracker \in Elements(saved) => saved[Len(saved)] = tracker

\* In the first run, without rotation, only what is being written or pruned is in part
\* there.
FilesKept ==
  run = 1 /\ config.maxKeep = 0 =>
    \A n \in DOMAIN disk : Full(n) \/ (Writing /\ n = gs) \/ (phase = "prune" /\ n \in Doomed)

\* In the first run the steps validated so far are past, and ranked by the manifest.
Recorded ==
  run = 1 =>
    /\ phase = "load" => DOMAIN record = {}
    /\ \A n \in DOMAIN record : n <= gs
    /\ Writing \/ phase \in {"train", "save", "validate"} => gs \notin DOMAIN record
    /\ phase # "raised" => record = IF Ranking THEN History ELSE manifest

BestThere ==
  run = 1 /\ config.maxKeep = 0 /\ config.keepBest > 0 => Best(record) \subseteq DOMAIN disk

DInv == DataSaved /\ TrackerKept /\ FilesKept /\ Recorded /\ BestThere

-----------------------------------------------------------------------------
(* Data.                                                                   *)

LEMMA SmallestStep ==
  ASSUME NEW S, S \subseteq Step, S # {}
  PROVE  MinOf(S) \in S
<1>1. S \subseteq Nat
  BY DEF Step
<1>2. PICK x \in S : \A y \in S : ~ (<<y, x>> \in OpToRel(<, Nat))
  BY <1>1, NatLessThanWellFounded, WFMin
<1>3. \A y \in S : x <= y
  <2> TAKE y \in S
  <2>1. ~ (y < x)
    BY <1>1, <1>2 DEF OpToRel
  <2> QED
    BY <1>1, <2>1
<1> QED
  BY <1>3 DEF MinOf

\* Rotation keeps the end of the list.
LEMMA LatestEnd ==
  ASSUME NEW paths \in Seq(Step), paths # <<>>, NEW k \in Nat \ {0}
  PROVE  /\ Latest(paths, k) # <<>>
         /\ Latest(paths, k)[Len(Latest(paths, k))] = paths[Len(paths)]
         /\ Elements(Latest(paths, k)) \subseteq Elements(paths)
<1> PICK n \in Nat \ {0} : n = Len(paths)
  BY EmptySeq
<1>1. CASE n <= k
  BY <1>1 DEF Latest
<1>2. CASE n > k
  <2> PICK t : t = SubSeq(paths, n - k + 1, n)
    OBVIOUS
  <2>1. t \in Seq(Step) /\ Len(t) = k /\ \A i \in 1 .. k : t[i] = paths[n - k + i]
    BY <1>2, SubSeqProperties
  <2>2. Latest(paths, k) = t
    BY <1>2 DEF Latest
  <2>3. DOMAIN t = 1 .. k /\ DOMAIN paths = 1 .. n
    BY <2>1, LenProperties
  <2>4. \A i \in 1 .. k : n - k + i \in 1 .. n
    BY <1>2
  <2>5. t # <<>> /\ t[k] = paths[n]
    <3>1. k \in 1 .. k /\ n - k + k = n
      OBVIOUS
    <3>2. t[k] = paths[n]
      BY <2>1, <3>1
    <3>3. t # <<>>
      BY <2>1, EmptySeq
    <3> QED
      BY <3>2, <3>3
  <2>6. Elements(t) \subseteq Elements(paths)
    <3>1. \A i \in DOMAIN t : \E j \in DOMAIN paths : t[i] = paths[j]
      BY <2>1, <2>3, <2>4
    <3> QED
      BY <3>1 DEF Elements
  <2> QED
    BY <2>1, <2>2, <2>5, <2>6
<1> QED
  BY <1>1, <1>2

\* Rotation keeps the two latest paths.
LEMMA LatestKeepsBoth ==
  ASSUME NEW a \in Seq(Step), NEW n \in Nat \ {0}, Len(a) = n + 1, NEW k \in Nat, k > 1
  PROVE  a[n] \in Elements(Latest(a, k))
<1>1. CASE n + 1 <= k
  <2>1. Latest(a, k) = a
    BY <1>1 DEF Latest
  <2>2. n \in DOMAIN a
    BY LenProperties
  <2> QED
    BY <2>1, <2>2 DEF Elements
<1>2. CASE n + 1 > k
  <2> PICK t : t = SubSeq(a, n + 1 - k + 1, n + 1)
    OBVIOUS
  <2>1. t \in Seq(Step) /\ Len(t) = k /\ \A i \in 1 .. k : t[i] = a[n + 1 - k + i]
    BY <1>2, SubSeqProperties
  <2>2. k - 1 \in 1 .. k /\ n + 1 - k + (k - 1) = n
    OBVIOUS
  <2>3. t[k - 1] = a[n]
    BY <2>1, <2>2
  <2>4. k - 1 \in DOMAIN t
    BY <2>1, <2>2, LenProperties
  <2>5. Latest(a, k) = t
    BY <1>2 DEF Latest
  <2> QED
    BY <2>3, <2>4, <2>5 DEF Elements
<1> QED
  BY <1>1, <1>2

LEMMA LatestKeepsTwo ==
  ASSUME NEW paths \in Seq(Step), paths # <<>>, NEW x \in Step, NEW k \in Nat, k > 1
  PROVE  paths[Len(paths)] \in Elements(Latest(Append(paths, x), k))
<1> PICK n \in Nat \ {0} : n = Len(paths)
  BY EmptySeq
<1> PICK a \in Seq(Step) : a = Append(paths, x)
  BY AppendProperties
<1>1. Len(a) = n + 1 /\ a[n] = paths[n]
  BY AppendProperties
<1>2. a[n] \in Elements(Latest(a, k))
  BY <1>1, LatestKeepsBoth
<1> QED
  BY <1>1, <1>2

\* A new record takes a place among the best from nobody but itself.
LEMMA BestOfMore ==
  ASSUME NEW h, DOMAIN h \subseteq Step, NEW x \in Step \ DOMAIN h, NEW v, config.keepBest \in Nat
  PROVE  Best(With(h, x, v)) \subseteq Best(h) \cup {x}
<1> DEFINE g == With(h, x, v)
<1>1. DOMAIN g = DOMAIN h \cup {x} /\ \A m \in DOMAIN h : g[m] = h[m]
  BY DEF With
<1>2. SUFFICES ASSUME NEW n \in DOMAIN h, n \in Best(g) PROVE n \in Best(h)
  BY <1>1 DEF Best
<1> DEFINE A == {m \in DOMAIN h : Before(h, m, n)}
           B == {m \in DOMAIN g : Before(g, m, n)}
<1>3. A \subseteq B
  BY <1>1 DEF Before
<1>4. IsFiniteSet(B)
  <2>1. IsFiniteSet(Step)
    BY RunAssumption, FS_Interval DEF Step
  <2>2. B \subseteq Step
    BY <1>1
  <2> QED
    BY <2>1, <2>2, FS_Subset
<1>5. Cardinality(A) <= Cardinality(B) /\ Cardinality(A) \in Nat /\ Cardinality(B) \in Nat
  BY <1>3, <1>4, FS_Subset, FS_CardinalityType
<1>6. Cardinality(B) < config.keepBest
  BY <1>2 DEF Best
<1>7. Cardinality(A) < config.keepBest
  BY <1>5, <1>6
<1> QED
  BY <1>7 DEF Best

LEMMA WholeOfFull ==
  ASSUME NEW n, Full(n), Sound(n)
  PROVE  Whole(n)
  BY RunAssumption DEF Full, Sound, Whole, Loadable

LEMMA FullSame ==
  ASSUME NEW n, n \in DOMAIN disk', disk'[n] = disk[n]
  PROVE  Full(n) => Full(n)'
  BY DEF Full, Loadable

\* Nor does the tracked one.
LEMMA TrackedSame ==
  ASSUME Full(tracker), tracker' = tracker, tracker \in DOMAIN disk', disk'[tracker] = disk[tracker]
  PROVE  Full(tracker)'
  BY DEF Full, Loadable

\* The checkpoint that was just saved is complete.
LEMMA SavedFull ==
  ASSUME TypeOK, SavedSoFar, DataSaved, phase \in {"tracker", "commit"}
  PROVE  Full(gs)
<1>1. gs \in DOMAIN disk /\ disk[gs].data
  BY DEF SavedSoFar, DataSaved, Writing
<1>2. \A r \in Rank : disk[gs].shard[r] = student[r] /\ disk[gs].teacher[r] = teacher[r]
  BY DEF SavedSoFar, Writing
<1>3. \A r \in Rank : student[r] \in Lineage /\ teacher[r] \in Teacher
  BY DEF TypeOK
<1> QED
  BY <1>1, <1>2, <1>3, FileAssumption DEF Full, Loadable

-----------------------------------------------------------------------------
(* Every action.                                                           *)

LEMMA InitD == Init => DInv
<1> SUFFICES ASSUME Init PROVE DInv
  OBVIOUS
<1>1. tracker \notin Step /\ Elements(saved) = {}
  BY DEF Init, None, Step, Elements
<1>2. DOMAIN disk = {} /\ DOMAIN record = {} /\ record = manifest
  BY DEF Init, Nothing
<1> QED
  BY <1>1, <1>2 DEF Init, DInv, DataSaved, TrackerKept, FilesKept, Recorded, BestThere, Best, Ranking,
     AfterRegister, Writing

LEMMA LoadD ==
  ASSUME IInv, DInv, Load
  PROVE  DInv'
<1> USE DEF IInv, DInv
<1>1. /\ UNCHANGED <<config, run, todo, saved, disk, tracker, manifest, record>>
      /\ phase = "load" /\ phase' \in {"train", "done", "raised"}
  BY DEF Load, diskVars
<1>2. \A n : Full(n)' <=> Full(n)
  BY <1>1 DEF Full, Loadable
<1>3. DataSaved'
  BY <1>1 DEF DataSaved
<1>4. TrackerKept'
  BY <1>1, <1>2 DEF TrackerKept, Writing, AfterRegister, Elements
<1>5. FilesKept'
  BY <1>1 DEF FilesKept, FirstRun
<1>6. Recorded'
  BY <1>1 DEF Recorded, Ranking
<1>7. BestThere'
  BY <1>1 DEF BestThere, Best, Before
<1> QED
  BY <1>3, <1>4, <1>5, <1>6, <1>7

LEMMA RestartD ==
  ASSUME IInv, DInv, Restart
  PROVE  DInv'
<1> USE DEF IInv, DInv
<1>1. /\ UNCHANGED <<config, disk, tracker, manifest, record>>
      /\ phase' = "load" /\ saved' = <<>> /\ run' # 1
  BY DEF Restart, diskVars, TypeOK
<1>2. \A n : Full(n)' <=> Full(n)
  BY <1>1 DEF Full, Loadable
<1>3. DataSaved'
  BY <1>1 DEF DataSaved
<1>4. TrackerKept'
  <2>1. Elements(saved') = {}
    BY <1>1 DEF Elements
  <2> QED
    BY <1>1, <1>2, <2>1 DEF TrackerKept, Writing, AfterRegister
<1>5. FilesKept' /\ Recorded' /\ BestThere'
  BY <1>1 DEF FilesKept, Recorded, BestThere
<1> QED
  BY <1>3, <1>4, <1>5

LEMMA UpdateD ==
  ASSUME IInv, DInv, NEW applied \in BOOLEAN, Update(applied)
  PROVE  DInv'
<1> USE DEF IInv, DInv
<1>1. /\ UNCHANGED <<config, run, gs, todo, saved, disk, tracker, manifest, record>>
      /\ phase = "train" /\ phase' \in {"train", "save", "next"}
  BY DEF Update, diskVars
<1>2. \A n : Full(n)' <=> Full(n)
  BY <1>1 DEF Full, Loadable
<1>3. DataSaved'
  BY <1>1 DEF DataSaved
<1>4. TrackerKept'
  BY <1>1, <1>2 DEF TrackerKept, Writing, AfterRegister, Elements
<1>5. FilesKept'
  BY <1>1, <1>2 DEF FilesKept, Writing
<1>6. Recorded'
  BY <1>1 DEF Recorded, Ranking, Writing
<1>7. BestThere'
  BY <1>1 DEF BestThere, Best, Before
<1> QED
  BY <1>3, <1>4, <1>5, <1>6, <1>7

LEMMA BeginSaveD ==
  ASSUME IInv, DInv, BeginSave
  PROVE  DInv'
<1> USE DEF IInv, DInv
<1>1. /\ UNCHANGED <<config, run, gs, tracker, manifest, record>>
      /\ phase = "save" /\ phase' = "shards" /\ saved' = Capacity(saved)
  BY DEF BeginSave
<1>2. /\ DOMAIN disk' = DOMAIN disk \cup {gs}
      /\ \A n \in DOMAIN disk : n \notin Elements(saved) \/ n \in Elements(saved') => disk'[n] = disk[n]
  BY DEF BeginSave, Removed, With
<1>3. gs \in Step /\ saved \in Seq(Step) /\ config.maxKeep \in Nat
  BY RunAssumption DEF InRange, Running, TypeOK, BeginSave, Config
<1>4. DataSaved'
  BY <1>1 DEF DataSaved
<1>5. TrackerKept'
  <2> SUFFICES ASSUME config.keepBest = 0, config.maxKeep # 1
               PROVE  /\ tracker \in Step => Full(tracker)'
                      /\ tracker # gs
                      /\ tracker \in Elements(saved') => saved'[Len(saved')] = tracker
    BY <1>1 DEF TrackerKept, AfterRegister, Elements
  <2>1. tracker \in Step => Full(tracker)
    BY DEF TrackerKept
  <2>2. tracker # gs
    BY <1>1, <1>3, <2>1 DEF Plain, Full, Step
  <2>3. tracker \in Elements(saved) => saved[Len(saved)] = tracker
    BY <1>1 DEF TrackerKept, AfterRegister
  <2>4. CASE saved' = saved
    BY <1>1, <1>2, <2>1, <2>2, <2>3, <2>4, TrackedSame DEF Full
  <2>5. CASE saved' # saved
    <3>1. saved' = Latest(saved, config.maxKeep - 1) /\ config.maxKeep - 1 \in Nat \ {0}
      BY <1>1, <1>3, <2>5 DEF Capacity
    <3>2. saved # <<>>
      <4> SUFFICES ASSUME saved = <<>> PROVE FALSE
        OBVIOUS
      <4>1. Len(saved) = 0
        BY EmptySeq
      <4>2. saved' = saved
        BY <3>1, <4>1 DEF Latest
      <4> QED
        BY <2>5, <4>2
    <3>3. /\ saved'[Len(saved')] = saved[Len(saved)]
          /\ Elements(saved') \subseteq Elements(saved)
          /\ saved[Len(saved)] \in Elements(saved')
      BY <1>3, <3>1, <3>2, LatestEnd, LatestKeepsLast
    <3> QED
      BY <1>1, <1>2, <2>1, <2>2, <2>3, <3>3, TrackedSame DEF Full
  <2> QED
    BY <2>4, <2>5
<1>6. FilesKept'
  <2> SUFFICES ASSUME run = 1, config.maxKeep = 0, NEW n \in DOMAIN disk'
               PROVE  Full(n)' \/ n = gs
    BY <1>1 DEF FilesKept, Writing
  <2>1. saved' = saved
    BY <1>1 DEF Capacity
  <2>2. CASE n \in DOMAIN disk
    <3>1. Full(n)
      BY <1>1, <2>2 DEF FilesKept, Writing
    <3>2. disk'[n] = disk[n]
      BY <1>2, <2>1, <2>2
    <3> QED
      BY <3>1, <3>2, FullSame
  <2> QED
    BY <1>2, <2>2
<1>7. Recorded'
  BY <1>1 DEF Recorded, Ranking, Writing
<1>8. BestThere'
  BY <1>1, <1>2 DEF BestThere, Best, Before
<1> QED
  BY <1>4, <1>5, <1>6, <1>7, <1>8

\* A file written by a rank is one of the checkpoint being saved.
LEMMA WriteD ==
  ASSUME IInv, DInv, Writing, phase \in {"shards", "teachers", "data"}, Writing',
         UNCHANGED <<config, run, gs, saved, tracker, manifest, record>>,
         DOMAIN disk' = DOMAIN disk, \A n \in DOMAIN disk \ {gs} : disk'[n] = disk[n],
         AfterRegister' <=> AfterRegister
  PROVE  TrackerKept' /\ FilesKept' /\ Recorded' /\ BestThere'
<1> USE DEF IInv, DInv
<1>1. \A n \in DOMAIN disk : n # gs => (Full(n) => Full(n)')
  BY FullSame
<1>2. TrackerKept'
  BY <1>1 DEF TrackerKept, Elements, Full
<1>3. FilesKept'
  BY <1>1 DEF FilesKept
<1>4. Recorded'
  BY DEF Recorded, Ranking, Writing
<1>5. BestThere'
  BY DEF BestThere, Best, Before
<1> QED
  BY <1>2, <1>3, <1>4, <1>5

LEMMA WriteShardD ==
  ASSUME IInv, DInv, NEW r \in Rank, WriteShard(r)
  PROVE  DInv'
<1> USE DEF IInv, DInv
<1>1. AfterRegister' <=> AfterRegister
  BY DEF WriteShard, AfterRegister
<1>2. TrackerKept' /\ FilesKept' /\ Recorded' /\ BestThere'
  BY <1>1, WriteD DEF WriteShard, Writing
<1>3. DataSaved'
  BY DEF WriteShard, DataSaved
<1> QED
  BY <1>2, <1>3

LEMMA RegisterD ==
  ASSUME IInv, DInv, Register
  PROVE  DInv'
<1> USE DEF IInv, DInv
<1>1. /\ UNCHANGED <<config, run, gs, phase, tracker, manifest, record>>
      /\ phase = "teachers" /\ saved' = Registered(Append(saved, gs))
      /\ ~ AfterRegister
  BY DEF Register, AfterRegister
<1>2. /\ DOMAIN disk' = DOMAIN disk
      /\ \A n \in DOMAIN disk : n \notin Elements(saved) \/ n \in Elements(saved') => disk'[n] = disk[n]
  BY DEF Register, Removed
<1>3. gs \in Step /\ saved \in Seq(Step) /\ config.maxKeep \in Nat
  BY <1>1, RunAssumption DEF InRange, Running, TypeOK, Config
<1> PICK a \in Seq(Step) : a = Append(saved, gs)
  BY <1>3, AppendProperties
<1>4. a # <<>> /\ a[Len(a)] = gs /\ Elements(saved) \subseteq Elements(a)
  <2>1. Len(saved) \in Nat /\ DOMAIN saved = 1 .. Len(saved) /\ DOMAIN a = 1 .. Len(a)
    BY <1>3, LenProperties
  <2>2. /\ a # <<>> /\ Len(a) = Len(saved) + 1 /\ a[Len(saved) + 1] = gs
        /\ \A i \in 1 .. Len(saved) : a[i] = saved[i]
    BY <1>3, AppendProperties
  <2> QED
    BY <2>1, <2>2 DEF Elements
<1>5. DataSaved'
  BY <1>1 DEF DataSaved
<1>6. TrackerKept'
  <2> SUFFICES ASSUME config.keepBest = 0, config.maxKeep # 1
               PROVE  /\ tracker \in Step => Full(tracker)'
                      /\ tracker # gs
                      /\ saved' # <<>> /\ saved'[Len(saved')] = gs
    BY <1>1 DEF TrackerKept, AfterRegister, Register
  <2>1. /\ tracker \in Step => Full(tracker)
        /\ tracker # gs
        /\ tracker \in Elements(saved) => saved[Len(saved)] = tracker
    BY <1>1 DEF TrackerKept, Writing
  <2>2. CASE config.maxKeep = 0
    <3>1. saved' = a
      BY <1>1, <2>2 DEF Registered
    <3> QED
      BY <1>1, <1>2, <1>4, <2>1, <3>1, TrackedSame DEF Full
  <2>3. CASE config.maxKeep > 1
    <3> PICK k \in Nat \ {0} : k = config.maxKeep
      BY <1>3, <2>3
    <3>1. saved' = Latest(a, k)
      BY <1>1, <2>3 DEF Registered
    <3>2. saved' # <<>> /\ saved'[Len(saved')] = gs
      <4>1. Latest(a, k) # <<>> /\ Latest(a, k)[Len(Latest(a, k))] = a[Len(a)]
        BY <1>4, LatestEnd
      <4> QED
        BY <1>4, <3>1, <4>1
    <3>3. tracker \in Elements(saved) => tracker \in Elements(saved')
      <4> SUFFICES ASSUME tracker \in Elements(saved) PROVE tracker \in Elements(saved')
        OBVIOUS
      <4>1. saved # <<>>
        BY DEF Elements
      <4> QED
        BY <1>3, <2>1, <2>3, <3>1, <4>1, LatestKeepsTwo
    <3> QED
      BY <1>1, <1>2, <2>1, <3>2, <3>3, TrackedSame DEF Full
  <2> QED
    BY <1>3, <2>2, <2>3
<1>7. FilesKept'
  <2> SUFFICES ASSUME run = 1, config.maxKeep = 0, NEW n \in DOMAIN disk
               PROVE  Full(n)' \/ n = gs
    BY <1>1, <1>2 DEF FilesKept, Writing
  <2>1. saved' = a
    BY <1>1 DEF Registered
  <2>2. disk'[n] = disk[n]
    BY <1>2, <1>4, <2>1
  <2> QED
    BY <1>1, <1>2, <2>2, FullSame DEF FilesKept, Writing
<1>8. Recorded'
  BY <1>1 DEF Recorded, Ranking, Writing
<1>9. BestThere'
  BY <1>1, <1>2 DEF BestThere, Best, Before
<1> QED
  BY <1>5, <1>6, <1>7, <1>8, <1>9

LEMMA WriteTeacherD ==
  ASSUME IInv, DInv, NEW r \in Rank, WriteTeacher(r)
  PROVE  DInv'
<1> USE DEF IInv, DInv
<1>1. phase = "teachers" /\ phase' = Written(todo') /\ todo' = todo \ {r} /\ r # Rotate
  BY RunAssumption DEF WriteTeacher
<1>2. AfterRegister' <=> AfterRegister
  BY <1>1 DEF AfterRegister, Written
<1>3. TrackerKept' /\ FilesKept' /\ Recorded' /\ BestThere'
  BY <1>1, <1>2, WriteD DEF WriteTeacher, Writing, Written
<1>4. DataSaved'
  BY <1>1 DEF DataSaved, Written
<1> QED
  BY <1>3, <1>4

LEMMA WriteDataD ==
  ASSUME IInv, DInv, WriteData
  PROVE  DInv'
<1> USE DEF IInv, DInv
<1>1. AfterRegister' <=> AfterRegister
  BY DEF WriteData, AfterRegister
<1>2. TrackerKept' /\ FilesKept' /\ Recorded' /\ BestThere'
  BY <1>1, WriteD DEF WriteData, Writing
<1>3. DataSaved'
  <2>1. gs \in DOMAIN disk /\ disk[gs] \in Directory
    BY DEF WriteData, SavedSoFar, Writing, TypeOK
  <2> QED
    BY <2>1 DEF WriteData, DataSaved, Directory
<1> QED
  BY <1>2, <1>3

LEMMA EmptyTrackerD ==
  ASSUME IInv, DInv, EmptyTracker
  PROVE  DInv'
<1> USE DEF IInv, DInv
<1>1. /\ UNCHANGED <<config, run, gs, todo, saved, disk, manifest, record>>
      /\ \/ phase = "tracker" /\ phase' = "commit"
         \/ phase = "retrack" /\ phase' = "recommit"
      /\ tracker' = Torn
  BY DEF EmptyTracker, memoryVars
<1>2. \A n : Full(n)' <=> Full(n)
  BY <1>1 DEF Full, Loadable
<1>3. DataSaved'
  BY <1>1 DEF DataSaved
<1>4. TrackerKept'
  BY <1>1 DEF TrackerKept, InRange, Retaining, TypeOK, AfterRegister, Torn, Step
<1>5. FilesKept'
  BY <1>1, <1>2 DEF FilesKept, Writing
<1>6. Recorded'
  BY <1>1 DEF Recorded, Ranking, Writing, History, With
<1>7. BestThere'
  BY <1>1 DEF BestThere, Best, Before
<1> QED
  BY <1>3, <1>4, <1>5, <1>6, <1>7

LEMMA WriteTrackerD ==
  ASSUME IInv, DInv, WriteTracker
  PROVE  DInv'
<1> USE DEF IInv, DInv
<1>1. UNCHANGED <<config, run, gs, todo, saved, disk, manifest, record>>
  BY DEF WriteTracker, memoryVars
<1>2. \A n : Full(n)' <=> Full(n)
  BY <1>1 DEF Full, Loadable
<1>3. BestThere'
  BY <1>1 DEF BestThere, Best, Before
<1>4. CASE phase = "commit"
  <2>1. tracker' = gs /\ phase' \in {"validate", "next"}
    BY <1>4 DEF WriteTracker
  <2>2. Full(gs)
    BY <1>4, SavedFull
  <2>3. DataSaved'
    BY <1>1, <1>4, <2>1 DEF DataSaved
  <2>4. TrackerKept'
    BY <1>1, <1>2, <1>4, <2>1, <2>2 DEF TrackerKept, AfterRegister, Writing, Elements
  <2>5. FilesKept'
    BY <1>1, <1>2, <1>4, <2>1, <2>2 DEF FilesKept, Writing
  <2>6. Recorded'
    BY <1>1, <1>4, <2>1 DEF Recorded, Ranking, Writing
  <2> QED
    BY <1>3, <2>3, <2>4, <2>5, <2>6
<1>5. CASE phase = "recommit"
  <2>1. phase' = "manifest" /\ config.keepBest # 0
    BY <1>5 DEF WriteTracker, InRange, Retaining
  <2>2. DataSaved' /\ TrackerKept'
    BY <1>1, <2>1 DEF DataSaved, TrackerKept
  <2>3. FilesKept'
    BY <1>1, <1>2, <1>5, <2>1 DEF FilesKept, Writing
  <2>4. Recorded'
    BY <1>1, <1>5, <2>1 DEF Recorded, Ranking, Writing, History, With
  <2> QED
    BY <1>3, <2>2, <2>3, <2>4
<1> QED
  BY <1>4, <1>5 DEF WriteTracker

LEMMA ValidateD ==
  ASSUME IInv, DInv, NEW v \in Score, Validate(v)
  PROVE  DInv'
<1> USE DEF IInv, DInv
<1>1. /\ UNCHANGED <<config, run, gs, todo, saved, disk, tracker, manifest>>
      /\ phase = "validate" /\ phase' = "prune" /\ record' = With(record, gs, v)
  BY DEF Validate, memoryVars
<1>2. \A n : Full(n)' <=> Full(n)
  BY <1>1 DEF Full, Loadable
<1>3. gs \in Step /\ gs \in DOMAIN disk /\ config.keepBest # 0 /\ DOMAIN record \subseteq Step
  BY <1>1 DEF InRange, Running, Retaining, DataSaved, TypeOK
<1>4. DataSaved' /\ TrackerKept'
  BY <1>1, <1>3 DEF DataSaved, TrackerKept
<1>5. FilesKept'
  BY <1>1, <1>2 DEF FilesKept, Writing
<1>6. Recorded'
  BY <1>1, <1>3 DEF Recorded, Ranking, Writing, History, With, Step
<1>7. BestThere'
  <2> SUFFICES ASSUME run = 1, config.maxKeep = 0, config.keepBest > 0
               PROVE  Best(record)' \subseteq DOMAIN disk
    BY <1>1 DEF BestThere
  <2>1. gs \notin DOMAIN record
    BY <1>1 DEF Recorded
  <2>2. config.keepBest \in Nat
    BY RunAssumption DEF TypeOK, Config
  <2>3. Best(With(record, gs, v)) \subseteq Best(record) \cup {gs}
    BY <1>3, <2>1, <2>2, BestOfMore
  <2>4. Best(record)' = Best(With(record, gs, v))
    BY <1>1 DEF Best, Before
  <2> QED
    BY <1>3, <2>3, <2>4 DEF BestThere
<1> QED
  BY <1>4, <1>5, <1>6, <1>7

\* While checkpoints are pruned the set of those to prune changes with the disk alone.
LEMMA PruningD ==
  ASSUME IInv, DInv, phase = "prune", UNCHANGED <<config, run, gs, phase, manifest, record>>,
         DOMAIN disk' \subseteq DOMAIN disk, Doomed # {},
         \A n \in DOMAIN disk' : n # MinOf(Doomed) => disk'[n] = disk[n],
         \A n \in DOMAIN disk : n # MinOf(Doomed) => n \in DOMAIN disk'
  PROVE  DInv'
<1> USE DEF IInv, DInv
<1>1. Retained' = Retained /\ History' = History /\ Best(record)' = Best(record)
  BY DEF Retained, History, With, Best, Before, IsLast
<1>2. Doomed \subseteq Step
  BY DEF Doomed, TypeOK
<1>3. MinOf(Doomed) \in Doomed
  BY <1>2, SmallestStep
<1>4. config.keepBest # 0
  BY DEF InRange, Retaining
<1>5. DataSaved' /\ TrackerKept'
  BY <1>4 DEF DataSaved, TrackerKept
<1>6. FilesKept'
  <2> SUFFICES ASSUME run = 1, config.maxKeep = 0, NEW n \in DOMAIN disk'
               PROVE  Full(n)' \/ n \in Doomed'
    BY DEF FilesKept
  <2>1. Full(n) \/ n \in Doomed
    BY DEF FilesKept, Writing
  <2>2. n \in Doomed => n \in Doomed'
    BY <1>1 DEF Doomed
  <2>3. n \notin Doomed /\ Full(n) => Full(n)'
    BY <1>3, FullSame
  <2> QED
    BY <2>1, <2>2, <2>3
<1>7. Recorded'
  BY <1>1 DEF Recorded, Ranking, Writing
<1>8. BestThere'
  <2>1. run = 1 => record = History
    BY DEF Recorded, Ranking
  <2>2. run = 1 => MinOf(Doomed) \notin Best(record)
    BY <1>3, <2>1 DEF Doomed, Retained
  <2> QED
    BY <1>1, <2>2 DEF BestThere
<1> QED
  BY <1>5, <1>6, <1>7, <1>8

LEMMA PruneD ==
  ASSUME IInv, DInv, Prune
  PROVE  DInv'
  BY PruningD DEF Prune, memoryVars

LEMMA PruneSomeD ==
  ASSUME IInv, DInv, PruneSome
  PROVE  DInv'
<1>1. /\ DOMAIN disk' = DOMAIN disk
      /\ \A n \in DOMAIN disk : n # MinOf(Doomed) => disk'[n] = disk[n]
  BY DEF PruneSome
<1> QED
  BY <1>1, PruningD DEF PruneSome, memoryVars

LEMMA PrunedD ==
  ASSUME IInv, DInv, Pruned
  PROVE  DInv'
<1> USE DEF IInv, DInv
<1>1. /\ UNCHANGED <<config, run, gs, todo, saved, disk, tracker, manifest, record>>
      /\ phase = "prune" /\ phase' \in {"retrack", "raised"} /\ Doomed = {}
  BY DEF Pruned, memoryVars, diskVars
<1>2. \A n : Full(n)' <=> Full(n)
  BY <1>1 DEF Full, Loadable
<1>3. config.keepBest # 0
  BY <1>1 DEF InRange, Retaining
<1>4. DataSaved' /\ TrackerKept'
  BY <1>1, <1>3 DEF DataSaved, TrackerKept
<1>5. FilesKept'
  BY <1>1, <1>2 DEF FilesKept, Writing
<1>6. Recorded'
  BY <1>1 DEF Recorded, Ranking, Writing, History, With
<1>7. BestThere'
  BY <1>1 DEF BestThere, Best, Before
<1> QED
  BY <1>4, <1>5, <1>6, <1>7

LEMMA WriteManifestD ==
  ASSUME IInv, DInv, WriteManifest
  PROVE  DInv'
<1> USE DEF IInv, DInv
<1>1. /\ UNCHANGED <<config, run, gs, todo, saved, disk, tracker, record>>
      /\ phase = "manifest" /\ phase' = "next" /\ manifest' = History
  BY DEF WriteManifest, memoryVars
<1>2. \A n : Full(n)' <=> Full(n)
  BY <1>1 DEF Full, Loadable
<1>3. config.keepBest # 0
  BY <1>1 DEF InRange, Retaining
<1>4. DataSaved' /\ TrackerKept'
  BY <1>1, <1>3 DEF DataSaved, TrackerKept
<1>5. FilesKept'
  BY <1>1, <1>2 DEF FilesKept, Writing
<1>6. Recorded'
  BY <1>1 DEF Recorded, Ranking, Writing
<1>7. BestThere'
  BY <1>1 DEF BestThere, Best, Before
<1> QED
  BY <1>4, <1>5, <1>6, <1>7

LEMMA NextStepD ==
  ASSUME IInv, DInv, NextStep
  PROVE  DInv'
<1> USE DEF IInv, DInv
<1>1. /\ UNCHANGED <<config, run, todo, saved, disk, tracker, manifest, record>>
      /\ phase = "next" /\ phase' \in {"train", "done"} /\ gs' = gs + 1
  BY DEF NextStep, diskVars
<1>2. \A n : Full(n)' <=> Full(n)
  BY <1>1 DEF Full, Loadable
<1>3. DataSaved'
  BY <1>1 DEF DataSaved
<1>4. TrackerKept'
  BY <1>1, <1>2 DEF TrackerKept, Writing, AfterRegister, Elements
<1>5. FilesKept'
  BY <1>1, <1>2 DEF FilesKept, Writing
<1>6. Recorded'
  <2>1. gs \in Nat /\ DOMAIN record \subseteq Int
    BY DEF TypeOK, Step
  <2> QED
    BY <1>1, <2>1 DEF Recorded, Ranking, Writing
<1>7. BestThere'
  BY <1>1 DEF BestThere, Best, Before
<1> QED
  BY <1>3, <1>4, <1>5, <1>6, <1>7

LEMMA UnchangedD ==
  ASSUME DInv, UNCHANGED vars
  PROVE  DInv'
<1> USE DEF DInv, vars, memoryVars, diskVars
<1>1. \A n : Full(n)' <=> Full(n)
  BY DEF Full, Loadable
<1>2. History' = History /\ Best(record)' = Best(record) /\ Doomed' = Doomed
  BY DEF History, Best, Before, Doomed, Retained, With, IsLast
<1>3. DataSaved' /\ TrackerKept' /\ FilesKept'
  BY <1>1, <1>2 DEF DataSaved, TrackerKept, FilesKept, Writing, AfterRegister, Elements
<1>4. Recorded' /\ BestThere'
  BY <1>2 DEF Recorded, BestThere, Ranking, Writing
<1> QED
  BY <1>3, <1>4

-----------------------------------------------------------------------------
(* Theorems.                                                               *)

LEMMA NextD ==
  ASSUME IInv, DInv, [Next]_vars
  PROVE  DInv'
<1>1. CASE Load
  BY <1>1, LoadD
<1>2. CASE Restart
  BY <1>2, RestartD
<1>3. CASE \E applied \in BOOLEAN : Update(applied)
  BY <1>3, UpdateD
<1>4. CASE BeginSave
  BY <1>4, BeginSaveD
<1>5. CASE Register
  BY <1>5, RegisterD
<1>6. CASE WriteData
  BY <1>6, WriteDataD
<1>7. CASE EmptyTracker
  BY <1>7, EmptyTrackerD
<1>8. CASE WriteTracker
  BY <1>8, WriteTrackerD
<1>9. CASE \E r \in Rank : WriteShard(r) \/ WriteTeacher(r)
  BY <1>9, WriteShardD, WriteTeacherD
<1>10. CASE \E v \in Score : Validate(v)
  BY <1>10, ValidateD
<1>11. CASE Prune
  BY <1>11, PruneD
<1>12. CASE PruneSome
  BY <1>12, PruneSomeD
<1>13. CASE Pruned
  BY <1>13, PrunedD
<1>14. CASE WriteManifest
  BY <1>14, WriteManifestD
<1>15. CASE NextStep
  BY <1>15, NextStepD
<1>16. CASE UNCHANGED vars
  BY <1>16, UnchangedD
<1> QED
  BY <1>1, <1>2, <1>3, <1>4, <1>5, <1>6, <1>7, <1>8, <1>9, <1>10, <1>11, <1>12, <1>13,
     <1>14, <1>15, <1>16 DEF Next

\* What is said of the disk above holds in every reachable state.
THEOREM DiskInvariance == Spec => []DInv
<1>1. IInv /\ DInv /\ [Next]_vars => DInv'
  BY NextD
<1> QED
  BY <1>1, InitD, Invariance, PTL DEF Spec

\* Without retention, and with a rotation that keeps two checkpoints or all of them, the
\* checkpoint the tracker names is whole whenever the processes die.
THEOREM ResumeIsWhole == Spec => []ResumeWhole
<1>1. IInv /\ DInv => ResumeWhole
  <2> SUFFICES ASSUME IInv, DInv, config.keepBest = 0, config.maxKeep # 1, tracker \in Step
               PROVE  Whole(tracker)
    BY DEF ResumeWhole
  <2>1. Full(tracker)
    BY DEF DInv, TrackerKept
  <2>2. Sound(tracker)
    BY <2>1 DEF IInv, Plain, Full, Step
  <2> QED
    BY <2>1, <2>2, WholeOfFull
<1> QED
  BY <1>1, Invariance, DiskInvariance, PTL

\* In the first run the best checkpoints validated so far are whole on disk, also while
\* retention removes others.
THEOREM BestAreOnDisk == Spec => []BestOnDisk
<1>1. IInv /\ DInv => BestOnDisk
  <2> SUFFICES ASSUME IInv, DInv, run = 1, config.keepBest > 0, config.maxKeep = 0,
                      NEW n \in Best(record)
               PROVE  Whole(n)
    BY DEF BestOnDisk
  <2>1. n \in DOMAIN disk /\ n \in DOMAIN record
    BY DEF DInv, BestThere, Best
  <2>2. Writing => n # gs
    BY <2>1 DEF DInv, Recorded
  <2>3. phase = "prune" => n \notin Doomed
    BY DEF DInv, Recorded, Ranking, Doomed, Retained
  <2>4. Full(n)
    BY <2>1, <2>2, <2>3 DEF DInv, FilesKept
  <2>5. Sound(n)
    BY <2>1 DEF IInv, FirstRun
  <2> QED
    BY <2>4, <2>5, WholeOfFull
<1> QED
  BY <1>1, Invariance, DiskInvariance, PTL

\* Whoever writes the tracker names a whole checkpoint: a save in every run (with
\* retention, after one restart at most), retention while no restart has happened.
THEOREM TrackerIsWhole == Spec => TrackerNamesWhole
<1> DEFINE Named ==
      /\ tracker' \in Step /\ tracker' # tracker
      /\ \/ phase = "commit" /\ (config.keepBest = 0 \/ run <= 2)
         \/ phase = "recommit" /\ run = 1 /\ config.maxKeep = 0
      => Whole(tracker)'
<1>1. ASSUME IInv, IInv', DInv, [Next]_vars PROVE [Named]_vars
  <2> SUFFICES ASSUME Next, tracker' \in Step, tracker' # tracker,
                      \/ phase = "commit" /\ (config.keepBest = 0 \/ run <= 2)
                      \/ phase = "recommit" /\ run = 1 /\ config.maxKeep = 0
               PROVE  Whole(tracker)'
    BY <1>1
  <2>1. WriteTracker
    BY DEF Next, Load, Restart, Update, BeginSave, Register, WriteData, EmptyTracker, WriteShard,
       WriteTeacher, Validate, Prune, PruneSome, Pruned, WriteManifest, NextStep, diskVars
  <2>2. UNCHANGED <<config, disk, run>> /\ (\A s : TeacherOf(s)' = TeacherOf(s))
    BY <2>1, SameTeacherOf DEF WriteTracker, memoryVars
  <2>3. \A n : Whole(n) /\ n = tracker' => Whole(tracker)'
    BY <2>2 DEF Whole, Loadable
  <2>4. CASE phase = "commit"
    <3>1. tracker' = gs
      BY <2>1, <2>4 DEF WriteTracker
    <3>2. Full(gs)
      BY <1>1, <2>4, SavedFull DEF IInv, DInv
    <3>3. \A r \in Rank : disk[gs].shard[r] = student[r] /\ disk[gs].teacher[r] = teacher[r]
      BY <1>1, <2>4 DEF IInv, SavedSoFar, Writing
    <3>4. MemoryExact
      BY <1>1, <2>4 DEF IInv, Exact
    <3>5. Whole(gs)
      BY <3>2, <3>3, <3>4, RunAssumption DEF Whole, Full, MemoryExact
    <3> QED
      BY <2>3, <3>1, <3>5
  <2>5. CASE phase = "recommit"
    <3>1. tracker' = MaxOf(DOMAIN disk) /\ DOMAIN disk # {} /\ DOMAIN disk \subseteq Step
      BY <1>1, <2>1, <2>5 DEF WriteTracker, IInv, InRange, TypeOK
    <3>2. tracker' \in DOMAIN disk
      BY <3>1, LargestStep
    <3> PICK n \in DOMAIN disk : n = tracker'
      BY <3>2
    <3>3. Full(n)
      BY <1>1, <2>5 DEF DInv, FilesKept, Writing
    <3>4. Sound(n)
      BY <1>1, <2>5 DEF IInv, FirstRun
    <3> QED
      BY <2>3, <3>3, <3>4, WholeOfFull
  <2> QED
    BY <2>4, <2>5
<1>2. Spec => [][Named]_vars
  BY <1>1, Invariance, DiskInvariance, PTL DEF Spec
<1> QED
  BY <1>2 DEF TrackerNamesWhole

=============================================================================
