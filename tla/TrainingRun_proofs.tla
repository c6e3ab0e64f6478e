-------------------------- MODULE TrainingRun_proofs --------------------------
(***************************************************************************)
(* Types and the teacher's exactness in TrainingRun, for all sets of ranks *)
(* and all configurations.  IInv, inductive, adds to the type invariant    *)
(* which steps have directories, how far the save of a step has come, and  *)
(* which checkpoints are sound: without retention those below the tracker  *)
(* and below global_steps, in the first run all of them.  There is one     *)
(* lemma per action, with one step per conjunct.                           *)
(***************************************************************************)
EXTENDS TrainingRun, TLAPS, SequenceTheorems, WellFoundedInduction

-----------------------------------------------------------------------------
(* Data.                                                                   *)

LEMMA AtLeastOnce ==
  ASSUME NEW i \in Nat, NEW d \in Nat \ {0}
  PROVE  i * d >= i
<1>1. PICK e \in Nat : d = e + 1
  BY d - 1 \in Nat
<1>2. i * d = i * e + i
  BY <1>1
<1>3. i * e \in Nat
  OBVIOUS
<1> QED
  BY <1>2, <1>3

\* Division with remainder is unique.
LEMMA UniqueRemainder ==
  ASSUME NEW i \in Nat \ {0}, NEW p \in Nat, NEW q \in Nat,
         NEW a \in 0 .. i - 1, NEW b \in 0 .. i - 1, i * p + a = i * q + b
  PROVE  a = b
<1>1. CASE p < q
  <2>1. i * (q - p) = i * q - i * p
    OBVIOUS
  <2>2. i * (q - p) >= i
    BY <1>1, AtLeastOnce, q - p \in Nat \ {0}
  <2>3. i * p \in Int /\ i * q \in Int
    OBVIOUS
  <2> QED
    BY <2>1, <2>2, <2>3
<1>2. CASE q < p
  <2>1. i * (p - q) = i * p - i * q
    OBVIOUS
  <2>2. i * (p - q) >= i
    BY <1>2, AtLeastOnce, p - q \in Nat \ {0}
  <2>3. i * p \in Int /\ i * q \in Int
    OBVIOUS
  <2> QED
    BY <2>1, <2>2, <2>3
<1> QED
  BY <1>1, <1>2

LEMMA Division ==
  ASSUME NEW k \in Nat, NEW i \in Nat \ {0}
  PROVE  /\ k \div i \in Nat /\ k % i \in 0 .. i - 1
         /\ k = i * (k \div i) + (k % i)
  OBVIOUS

\* The remainder of the successor.
LEMMA RemainderOfSuccessor ==
  ASSUME NEW k \in Nat, NEW i \in Nat \ {0}
  PROVE  (k + 1) % i = IF (k % i) + 1 = i THEN 0 ELSE (k % i) + 1
<1> PICK q \in Nat, a \in 0 .. i - 1 : a = k % i /\ k = i * q + a
  BY Division
<1> PICK p \in Nat, b \in 0 .. i - 1 : b = (k + 1) % i /\ k + 1 = i * p + b
  BY Division, k + 1 \in Nat
<1>1. i * q \in Int /\ i * p \in Int
  OBVIOUS
<1>2. CASE a + 1 = i
  <2>1. i * (q + 1) = i * q + i
    OBVIOUS
  <2>2. i * p + b = i * (q + 1) + 0
    BY <1>1, <1>2, <2>1
  <2> QED
    BY <1>2, <2>2, UniqueRemainder, 0 \in 0 .. i - 1, q + 1 \in Nat
<1>3. CASE a + 1 # i
  BY <1>1, <1>3, UniqueRemainder, a + 1 \in 0 .. i - 1, i * p + b = i * q + (a + 1)
<1> QED
  BY <1>2, <1>3

LEMMA RemainderBound ==
  ASSUME NEW k \in Nat, NEW i \in Nat \ {0}
  PROVE  k % i \in 0 .. i - 1 /\ k % i <= k
<1>1. i * (k \div i) \in Nat
  BY Division
<1> QED
  BY <1>1, Division

\* The teacher stays the one its student must have when both advance.
LEMMA AdvanceExact ==
  ASSUME config \in Config, NEW s \in Lineage, NEW x \in Nat
  PROVE  Advance(TeacherOf(s), Append(s, x)) = TeacherOf(Append(s, x))
<1> PICK k \in Nat : k = Len(s)
  BY DEF Lineage
<1> PICK i \in Nat \ {0} : i = config.interval
  BY DEF Config
<1> PICK a \in Seq(Nat) : a = Append(s, x) /\ Len(a) = k + 1
  BY AppendProperties DEF Lineage
<1>1. (k + 1) % i = IF (k % i) + 1 = i THEN 0 ELSE (k % i) + 1
  BY RemainderOfSuccessor
<1>2. k % i \in 0 .. i - 1 /\ k % i <= k
  BY RemainderBound
<1>3. CASE (k + 1) % i = 0
  <2>1. SubSeq(a, 1, k + 1) = a
    BY SubSeqFull
  <2>2. (k + 1) - ((k + 1) % i) = k + 1
    BY <1>3
  <2>3. TeacherOf(a) = [count |-> k + 1, last |-> k + 1, shadow |-> a]
    BY <2>1, <2>2 DEF TeacherOf
  <2>4. TeacherOf(s).count = k
    BY DEF TeacherOf
  <2> QED
    BY <1>3, <2>3, <2>4 DEF Advance
<1>4. CASE (k + 1) % i # 0
  <2> PICK m \in 0 .. k : m = k - (k % i)
    BY <1>2
  <2>1. (k + 1) - ((k + 1) % i) = m
    BY <1>1, <1>2, <1>4
  <2>2. SubSeq(a, 1, m) = SubSeq(s, 1, m)
    OBVIOUS
  <2> QED
    BY <1>4, <2>1, <2>2 DEF Advance, TeacherOf
<1> QED
  BY <1>3, <1>4

LEMMA TeacherOfType ==
  ASSUME config \in Config, NEW s \in Lineage
  PROVE  TeacherOf(s) \in Teacher
<1> PICK k \in Nat : k = Len(s)
  BY DEF Lineage
<1> PICK i \in Nat \ {0} : i = config.interval
  BY DEF Config
<1>1. k % i \in 0 .. i - 1 /\ k % i <= k
  BY RemainderBound
<1> PICK m \in 0 .. k : m = k - (k % i)
  BY <1>1
<1>2. SubSeq(s, 1, m) \in Seq(Nat)
  BY DEF Lineage
<1> QED
  BY <1>2 DEF TeacherOf, Teacher, Lineage

LEMMA FreshExact == config \in Config => TeacherOf(<<>>) = Fresh
<1> SUFFICES ASSUME config \in Config PROVE TeacherOf(<<>>) = Fresh
  OBVIOUS
<1>1. config.interval \in Nat \ {0} /\ Len(<<>>) = 0
  BY DEF Config
<1>2. 0 % config.interval = 0
  BY <1>1
<1>3. SubSeq(<<>>, 1, 0) = <<>>
  BY SubSeqEmpty
<1> QED
  BY <1>1, <1>2, <1>3 DEF TeacherOf, Fresh

\* Rotation keeps paths, and the latest of them.
LEMMA LatestType ==
  ASSUME NEW paths \in Seq(Step), NEW k \in Nat
  PROVE  Latest(paths, k) \in Seq(Step)
  BY DEF Latest

LEMMA LatestKeepsLast ==
  ASSUME NEW paths \in Seq(Step), NEW k \in Nat \ {0}, paths # <<>>
  PROVE  paths[Len(paths)] \in Elements(Latest(paths, k))
<1> PICK n \in Nat \ {0} : n = Len(paths)
  BY EmptySeq
<1>1. CASE n <= k
  BY <1>1 DEF Latest, Elements
<1>2. CASE n > k
  <2> PICK t : t = SubSeq(paths, n - k + 1, n)
    OBVIOUS
  <2>1. t \in Seq(Step) /\ Len(t) = k /\ t[k] = paths[n]
    BY <1>2, SubSeqProperties
  <2>2. k \in DOMAIN t
    BY <2>1, LenProperties
  <2>3. Latest(paths, k) = t
    BY <1>2 DEF Latest
  <2> QED
    BY <2>1, <2>2, <2>3 DEF Elements
<1> QED
  BY <1>1, <1>2

\* A nonempty set of steps has a largest one.
LEMMA LargestStep ==
  ASSUME NEW S, S \subseteq Step, S # {}
  PROVE  MaxOf(S) \in S /\ \A y \in S : y <= MaxOf(S)
<1>1. \A n \in S : n \in Int /\ TotalSteps - n \in Nat
  BY RunAssumption DEF Step
<1> PICK T : T = {TotalSteps - n : n \in S}
  OBVIOUS
<1>2. T \subseteq Nat /\ T # {}
  BY <1>1
<1>3. PICK t \in T : \A u \in T : ~ (<<u, t>> \in OpToRel(<, Nat))
  BY <1>2, NatLessThanWellFounded, WFMin
<1>4. \A u \in T : ~ (u < t)
  BY <1>2, <1>3 DEF OpToRel
<1>5. PICK x \in S : t = TotalSteps - x
  OBVIOUS
<1>6. \A y \in S : y <= x
  <2> TAKE y \in S
  <2>1. ~ (TotalSteps - y < TotalSteps - x)
    BY <1>4, <1>5
  <2> QED
    BY <1>1, <2>1, RunAssumption
<1> QED
  BY <1>6 DEF MaxOf

-----------------------------------------------------------------------------
(* The inductive invariant.                                                *)

Running == phase \notin {"load", "raised", "done"}
Writing == phase \in {"shards", "teachers", "data", "tracker", "commit"}
Retaining == phase \in {"validate", "prune", "retrack", "recommit", "manifest"}

\* What is there of checkpoint n is of one moment of one run.
Sound(n) ==
  \A q, r \in Rank : disk[n].shard[q] # NoFile =>
    /\ disk[n].shard[r] # NoFile => disk[n].shard[r] = disk[n].shard[q]
    /\ disk[n].teacher[r] # NoFile => disk[n].teacher[r] = TeacherOf(disk[n].shard[q])

\* Student and teacher in memory are.
MemoryExact ==
  \A r \in Rank : student[r] = student[Leader] /\ teacher[r] = TeacherOf(student[r])

InRange ==
  /\ Running => gs \in Step
  /\ phase = "save" \/ Writing => Saves
  /\ config.keepBest = 0 => ~ Retaining
  /\ phase \in {"prune", "retrack", "recommit", "manifest"} => gs \in DOMAIN record
  /\ phase \in {"retrack", "recommit"} => DOMAIN disk # {}

\* Directories are those of steps that are saved.
OnSaveSteps == \A n \in DOMAIN disk : n >= TotalSteps \/ n % config.save = 0

\* How far the save of this step has come.
SavedSoFar ==
  /\ Writing => gs \in DOMAIN disk
  /\ phase = "shards" => todo \subseteq Rank /\ \A r \in Rank \ todo : disk[gs].shard[r] = student[r]
  /\ Writing /\ phase # "shards" => \A r \in Rank : disk[gs].shard[r] = student[r]
  /\ phase = "teachers" => \A r \in Rank \ todo : disk[gs].teacher[r] = teacher[r]
  /\ phase \in {"data", "tracker", "commit"} => \A r \in Rank : disk[gs].teacher[r] = teacher[r]
  /\ Writing /\ ((config.keepBest = 0 /\ tracker = gs) \/ run = 1) =>
       \A r \in Rank : /\ disk[gs].shard[r] \in {NoFile, student[r]}
                       /\ disk[gs].teacher[r] \in {NoFile, teacher[r]}

\* Without retention no run loads a checkpoint that a later one wrote into: the tracker
\* never names a step that is still to be saved, unless its directory is gone.
Plain ==
  config.keepBest = 0 =>
    /\ tracker \in DOMAIN disk => \A n \in DOMAIN disk : n <= tracker => Sound(n)
    /\ Running => \A n \in DOMAIN disk : n < gs => Sound(n)
    /\ phase \in {"train", "save"} /\ tracker \in DOMAIN disk => tracker < gs
    /\ Running /\ tracker \in DOMAIN disk => tracker <= gs
    /\ phase = "next" => \A n \in DOMAIN disk : n <= gs => Sound(n)

\* The first run writes every file once.
FirstRun ==
  /\ run = 1 \/ (run = 2 /\ phase = "load") => \A n \in DOMAIN disk : Sound(n)
  /\ run = 1 /\ phase = "load" => DOMAIN disk = {}
  /\ run = 1 /\ phase \in {"train", "save"} => \A n \in DOMAIN disk : n < gs
  /\ run = 1 /\ Running => \A n \in DOMAIN disk : n <= gs

Exact == config.keepBest = 0 \/ run <= 2 => MemoryExact

IInv ==
  /\ TypeOK
  /\ InRange
  /\ OnSaveSteps
  /\ SavedSoFar
  /\ Plain
  /\ FirstRun
  /\ Exact

LEMMA SameTeacherOf == config' = config => \A s : TeacherOf(s)' = TeacherOf(s)
  BY DEF TeacherOf

\* Files that go away, or stay, leave a checkpoint sound.
LEMMA SoundSubset ==
  ASSUME config' = config, NEW n, Sound(n),
         \A r \in Rank : /\ disk'[n].shard[r] \in {NoFile, disk[n].shard[r]}
                         /\ disk'[n].teacher[r] \in {NoFile, disk[n].teacher[r]}
  PROVE  Sound(n)'
  BY SameTeacherOf DEF Sound

\* Files written from the present memory make a sound checkpoint.
LEMMA SoundWritten ==
  ASSUME config' = config, NEW n, MemoryExact,
         \A r \in Rank : /\ disk'[n].shard[r] \in {NoFile, student[r]}
                         /\ disk'[n].teacher[r] \in {NoFile, teacher[r]}
  PROVE  Sound(n)'
  BY SameTeacherOf, RunAssumption DEF Sound, MemoryExact

LEMMA SoundEmpty ==
  ASSUME NEW n, \A r \in Rank : disk'[n].shard[r] = NoFile
  PROVE  Sound(n)'
  BY DEF Sound

LEMMA InitInv == Init => IInv
<1> SUFFICES ASSUME Init PROVE IInv
  OBVIOUS
<1>1. config \in Config
  BY RunAssumption DEF Init
<1>2. TeacherOf(<<>>) = Fresh
  BY <1>1, FreshExact
<1>3. TypeOK
  BY RunAssumption DEF Init, TypeOK, Phase, Lineage, Teacher, Fresh, Nothing, Config
<1>4. MemoryExact
  BY <1>2, RunAssumption DEF Init, MemoryExact
<1> QED
  BY <1>3, <1>4, RunAssumption DEF Init, IInv, InRange, OnSaveSteps, SavedSoFar, Plain,
     FirstRun, Exact, Running, Writing, Retaining, Nothing

LEMMA LoadInv ==
  ASSUME IInv, Load
  PROVE  IInv'
<1> USE DEF IInv
<1>1. config' = config /\ config \in Config
  BY RunAssumption DEF Load, TypeOK
<1>2. \A s : TeacherOf(s)' = TeacherOf(s)
  BY <1>1, SameTeacherOf
<1>3. \A n \in DOMAIN disk : Sound(n) => Sound(n)'
  BY <1>1, SoundSubset, RunAssumption DEF Load, diskVars
<1>4. TypeOK'
  <2>1. run' \in 1 .. config'.starts /\ phase' \in Phase /\ gs' \in Nat /\ tried' \in Nat /\ todo' \subseteq Rank \cup {Rotate}
    BY <1>1, RunAssumption DEF Load, TypeOK, Phase, Step
  <2>2. student' \in [Rank -> Lineage] /\ teacher' \in [Rank -> Teacher]
    <3>1. CASE UNCHANGED <<student, teacher>>
      BY <3>1 DEF TypeOK
    <3>2. CASE /\ tracker \in DOMAIN disk /\ Loadable(tracker)
               /\ student' = disk[tracker].shard
               /\ teacher' = [r \in Rank |-> Loaded(r)]
      <4>1. disk[tracker] \in Directory
        BY <3>2 DEF TypeOK
      <4>2. \A r \in Rank : disk[tracker].shard[r] \in Lineage /\ disk[tracker].teacher[r] \in Teacher
        BY <3>2, <4>1 DEF Loadable, Directory
      <4> QED
        BY <3>2, <4>1, <4>2 DEF Loaded, Directory
    <3> QED
      BY <3>1, <3>2 DEF Load
  <2>3. saved' \in Seq(Step)
    BY <1>1, RunAssumption DEF Load, TypeOK
  <2>4. DOMAIN disk' \subseteq Step /\ disk' \in [DOMAIN disk' -> Directory]
    BY <1>1, RunAssumption DEF Load, TypeOK, diskVars
  <2>5. tracker' \in Step \cup {None, Torn}
    BY <1>1, RunAssumption DEF Load, TypeOK, diskVars
  <2>6. /\ DOMAIN manifest' \subseteq Step /\ manifest' \in [DOMAIN manifest' -> Score]
       /\ DOMAIN record' \subseteq Step /\ record' \in [DOMAIN record' -> Score]
    BY <1>1, RunAssumption DEF Load, TypeOK, diskVars
  <2> QED
    BY <1>1, <2>1, <2>2, <2>3, <2>4, <2>5, <2>6, RunAssumption DEF TypeOK
<1>5. InRange'
  <2>1. phase' \in {"train", "done", "raised"}
    BY DEF Load
  <2>2. phase' = "train" => gs' \in Step
    BY RunAssumption DEF Load, Step, TypeOK
  <2> QED
    BY <2>1, <2>2 DEF InRange, Running, Writing, Retaining
<1>6. OnSaveSteps'
  BY <1>1, RunAssumption DEF Load, OnSaveSteps, diskVars
<1>7. SavedSoFar'
  BY <1>1, RunAssumption DEF Load, SavedSoFar, Writing
<1>8. Plain'
  BY <1>1, <1>2, <1>3, RunAssumption DEF Load, FromScratch, TypeOK, Plain, Running, Step,
     Torn, diskVars
<1>9. FirstRun'
  BY <1>1, <1>2, <1>3, RunAssumption DEF Load, FirstRun, diskVars
<1>10. Exact'
  <2> SUFFICES ASSUME config.keepBest = 0 \/ run <= 2 PROVE MemoryExact'
    BY <1>1 DEF Exact, Load
  <2>1. CASE UNCHANGED <<student, teacher>>
    BY <1>2, <2>1 DEF Exact, MemoryExact
  <2>2. CASE /\ tracker \in DOMAIN disk /\ Loadable(tracker)
             /\ student' = disk[tracker].shard
             /\ teacher' = [r \in Rank |-> Loaded(r)]
    <3>1. phase = "load" /\ run \in Nat \ {0} /\ tracker <= tracker
      BY <1>1, <2>2, RunAssumption DEF Load, TypeOK, Step
    <3>2. run = 1 \/ run = 2 \/ config.keepBest = 0
      BY <3>1
    <3>3. Sound(tracker)
      BY <2>2, <3>1, <3>2 DEF Plain, FirstRun
    <3> QED
      BY <1>2, <2>2, <3>3, RunAssumption DEF MemoryExact, Sound, Loadable, Loaded
  <2> QED
    BY <2>1, <2>2 DEF Load
<1> QED
  BY <1>4, <1>5, <1>6, <1>7, <1>8, <1>9, <1>10

LEMMA RestartInv ==
  ASSUME IInv, Restart
  PROVE  IInv'
<1> USE DEF IInv
<1>1. config' = config /\ config \in Config
  BY RunAssumption DEF Restart, TypeOK
<1>2. \A s : TeacherOf(s)' = TeacherOf(s)
  BY <1>1, SameTeacherOf
<1>3. \A n \in DOMAIN disk : Sound(n) => Sound(n)'
  BY <1>1, SoundSubset, RunAssumption DEF Restart, diskVars
<1>4. TypeOK'
  <2>1. run' \in 1 .. config'.starts /\ phase' \in Phase /\ gs' \in Nat /\ tried' \in Nat /\ todo' \subseteq Rank \cup {Rotate}
    BY <1>1, RunAssumption DEF Restart, TypeOK, Phase, Config
  <2>2. student' \in [Rank -> Lineage] /\ teacher' \in [Rank -> Teacher]
    BY <1>1, RunAssumption DEF Restart, Lineage, Teacher, Fresh
  <2>3. saved' \in Seq(Step)
    BY <1>1, RunAssumption DEF Restart
  <2>4. DOMAIN disk' \subseteq Step /\ disk' \in [DOMAIN disk' -> Directory]
    BY <1>1, RunAssumption DEF Restart, TypeOK, diskVars
  <2>5. tracker' \in Step \cup {None, Torn}
    BY <1>1, RunAssumption DEF Restart, TypeOK, diskVars
  <2>6. /\ DOMAIN manifest' \subseteq Step /\ manifest' \in [DOMAIN manifest' -> Score]
       /\ DOMAIN record' \subseteq Step /\ record' \in [DOMAIN record' -> Score]
    BY <1>1, RunAssumption DEF Restart, TypeOK, diskVars
  <2> QED
    BY <1>1, <2>1, <2>2, <2>3, <2>4, <2>5, <2>6, RunAssumption DEF TypeOK
<1>5. InRange'
  BY <1>1, RunAssumption DEF Restart, InRange, Running, Writing, Retaining
<1>6. OnSaveSteps'
  BY <1>1, RunAssumption DEF Restart, OnSaveSteps, diskVars
<1>7. SavedSoFar'
  BY <1>1, RunAssumption DEF Restart, SavedSoFar, Writing
<1>8. Plain'
  BY <1>1, <1>2, <1>3, RunAssumption DEF Restart, Plain, Running, diskVars
<1>9. FirstRun'
  BY <1>1, <1>2, <1>3, RunAssumption DEF Restart, TypeOK, FirstRun, diskVars
<1>10. Exact'
  BY <1>1, <1>2, FreshExact, RunAssumption DEF Restart, Exact, MemoryExact
<1> QED
  BY <1>4, <1>5, <1>6, <1>7, <1>8, <1>9, <1>10

LEMMA UpdateInv ==
  ASSUME IInv, NEW applied \in BOOLEAN, Update(applied)
  PROVE  IInv'
<1> USE DEF IInv
<1>1. config' = config /\ config \in Config
  BY RunAssumption DEF Update, TypeOK
<1>2. \A s : TeacherOf(s)' = TeacherOf(s)
  BY <1>1, SameTeacherOf
<1>3. \A n \in DOMAIN disk : Sound(n) => Sound(n)'
  BY <1>1, SoundSubset, RunAssumption DEF Update, diskVars
<1>4. TypeOK'
  <2>1. run' \in 1 .. config'.starts /\ phase' \in Phase /\ gs' \in Nat /\ tried' \in Nat /\ todo' \subseteq Rank \cup {Rotate}
    <3>1. phase' \in Phase /\ tried' \in Nat
      BY DEF Update, TypeOK, Phase
    <3> QED
      BY <3>1 DEF Update, TypeOK
  <2>2. student' \in [Rank -> Lineage] /\ teacher' \in [Rank -> Teacher]
    <3>1. CASE applied
      <4>1. run \in Nat
        BY <1>1 DEF TypeOK
      <4>2. \A r \in Rank : Append(student[r], run) \in Lineage
        BY <4>1 DEF TypeOK, Lineage
      <4>3. \A t \in Teacher, s \in Lineage : Advance(t, s) \in Teacher
        BY DEF Advance, Teacher
      <4>4. student' = [r \in Rank |-> Append(student[r], run)]
        BY <3>1 DEF Update
      <4>5. student' \in [Rank -> Lineage]
        BY <4>2, <4>4
      <4>6. teacher' = [r \in Rank |-> Advance(teacher[r], student'[r])]
        BY <3>1 DEF Update
      <4>7. \A r \in Rank : Advance(teacher[r], student'[r]) \in Teacher
        BY <4>3, <4>5 DEF TypeOK
      <4> QED
        BY <4>5, <4>6, <4>7
    <3> QED
      BY <3>1 DEF Update, TypeOK
  <2>3. saved' \in Seq(Step)
    BY <1>1, RunAssumption DEF Update, TypeOK
  <2>4. DOMAIN disk' \subseteq Step /\ disk' \in [DOMAIN disk' -> Directory]
    BY <1>1, RunAssumption DEF Update, TypeOK, diskVars
  <2>5. tracker' \in Step \cup {None, Torn}
    BY <1>1, RunAssumption DEF Update, TypeOK, diskVars
  <2>6. /\ DOMAIN manifest' \subseteq Step /\ manifest' \in [DOMAIN manifest' -> Score]
       /\ DOMAIN record' \subseteq Step /\ record' \in [DOMAIN record' -> Score]
    BY <1>1, RunAssumption DEF Update, TypeOK, diskVars
  <2> QED
    BY <1>1, <2>1, <2>2, <2>3, <2>4, <2>5, <2>6, RunAssumption DEF TypeOK
<1>5. InRange'
  BY <1>1, RunAssumption DEF Update, Saves, IsLast, InRange, Running, Writing, Retaining
<1>6. OnSaveSteps'
  BY <1>1, RunAssumption DEF Update, OnSaveSteps, diskVars
<1>7. SavedSoFar'
  BY <1>1, RunAssumption DEF Update, SavedSoFar, Writing
<1>8. Plain'
  BY <1>1, <1>2, <1>3, RunAssumption DEF Update, Saves, IsLast, TypeOK, OnSaveSteps, Plain,
     Running, Step, None, Torn, diskVars
<1>9. FirstRun'
  BY <1>1, <1>2, <1>3, RunAssumption DEF Update, FirstRun, Running, diskVars
<1>10. Exact'
  <2> SUFFICES ASSUME config.keepBest = 0 \/ run <= 2 PROVE MemoryExact'
    BY <1>1 DEF Exact, Update
  <2>1. MemoryExact /\ run \in Nat
    BY <1>1 DEF Exact, TypeOK
  <2>2. CASE applied
    <3>1. \A r \in Rank : student[r] \in Lineage
      BY DEF TypeOK
    <3>2. \A r \in Rank : Advance(teacher[r], Append(student[r], run)) = TeacherOf(Append(student[r], run))
      BY <1>1, <2>1, <3>1, AdvanceExact DEF MemoryExact
    <3>3. \A r \in Rank : /\ student'[r] = Append(student[r], run)
                          /\ teacher'[r] = Advance(teacher[r], Append(student[r], run))
      BY <2>2 DEF Update
    <3> QED
      BY <1>2, <2>1, <3>2, <3>3, RunAssumption DEF MemoryExact
  <2>3. CASE ~ applied
    BY <1>2, <2>1, <2>3 DEF Update, MemoryExact
  <2> QED
    BY <2>2, <2>3
<1> QED
  BY <1>4, <1>5, <1>6, <1>7, <1>8, <1>9, <1>10

LEMMA BeginSaveInv ==
  ASSUME IInv, BeginSave
  PROVE  IInv'
<1> USE DEF IInv
<1>1. config' = config /\ config \in Config
  BY RunAssumption DEF BeginSave, TypeOK
<1>2. \A s : TeacherOf(s)' = TeacherOf(s)
  BY <1>1, SameTeacherOf
<1>s. /\ phase = "save" /\ phase' = "shards" /\ todo' = Rank
      /\ saved' = Capacity(saved)
      /\ UNCHANGED <<config, run, gs, tried, student, teacher, tracker, manifest, record>>
  BY DEF BeginSave
<1>3. /\ \A n \in DOMAIN disk : Sound(n) => Sound(n)'
      /\ gs \notin DOMAIN disk => \A n \in {gs} : Sound(n)'
      /\ DOMAIN disk' = DOMAIN disk \cup {gs} /\ disk' \in [DOMAIN disk' -> Directory]
  <2>1. disk \in [DOMAIN disk -> Directory]
    BY DEF TypeOK
  <2> PICK d : /\ d = Removed(Elements(saved) \ Elements(saved'))
               /\ disk' = IF gs \in DOMAIN disk THEN d
                          ELSE With(d, gs, [shard |-> NoFiles, teacher |-> NoFiles, data |-> FALSE])
    BY DEF BeginSave
  <2>2. /\ DOMAIN d = DOMAIN disk /\ d \in [DOMAIN disk -> Directory]
        /\ \A n \in DOMAIN disk, r \in Rank : /\ d[n].shard[r] \in {NoFile, disk[n].shard[r]}
                                              /\ d[n].teacher[r] \in {NoFile, disk[n].teacher[r]}
    BY <2>1 DEF Removed, Directory, NoFiles
  <2>3. [shard |-> NoFiles, teacher |-> NoFiles, data |-> FALSE] \in Directory
    BY DEF Directory, NoFiles
  <2>4. DOMAIN disk' = DOMAIN disk \cup {gs} /\ disk' \in [DOMAIN disk' -> Directory]
    BY <2>2, <2>3 DEF With
  <2>5. \A n \in DOMAIN disk : disk'[n] = d[n]
    BY <2>2 DEF With
  <2>6. \A n \in DOMAIN disk : Sound(n) => Sound(n)'
    BY <1>1, <2>2, <2>5, SoundSubset
  <2>7. gs \notin DOMAIN disk => \A r \in Rank : disk'[gs].shard[r] = NoFile /\ disk'[gs].teacher[r] = NoFile
    BY <2>2 DEF With, NoFiles
  <2>8. gs \notin DOMAIN disk => \A n \in {gs} : Sound(n)'
    BY <2>7, SoundEmpty
  <2> QED
    BY <2>4, <2>6, <2>8
<1>4. TypeOK'
  <2>1. run' \in 1 .. config'.starts /\ phase' \in Phase /\ gs' \in Nat /\ tried' \in Nat /\ todo' \subseteq Rank \cup {Rotate}
    BY <1>1, RunAssumption DEF BeginSave, TypeOK, Phase
  <2>2. student' \in [Rank -> Lineage] /\ teacher' \in [Rank -> Teacher]
    BY <1>1, RunAssumption DEF BeginSave, TypeOK
  <2>3. saved' \in Seq(Step)
    <3>1. CASE config.maxKeep > 1
      <4>1. config.maxKeep - 1 \in Nat
        BY <1>1, <3>1 DEF Config
      <4> QED
        BY <1>s, <3>1, <4>1, LatestType DEF Capacity, TypeOK
    <3>2. CASE ~ config.maxKeep > 1
      BY <1>s, <3>2 DEF Capacity, TypeOK
    <3> QED
      BY <3>1, <3>2
  <2>4. DOMAIN disk' \subseteq Step /\ disk' \in [DOMAIN disk' -> Directory]
    BY <1>3, <1>s DEF TypeOK, InRange, Running
  <2>5. tracker' \in Step \cup {None, Torn}
    BY <1>1, RunAssumption DEF BeginSave, TypeOK
  <2>6. /\ DOMAIN manifest' \subseteq Step /\ manifest' \in [DOMAIN manifest' -> Score]
       /\ DOMAIN record' \subseteq Step /\ record' \in [DOMAIN record' -> Score]
    BY <1>1, RunAssumption DEF BeginSave, TypeOK
  <2> QED
    BY <1>1, <2>1, <2>2, <2>3, <2>4, <2>5, <2>6, RunAssumption DEF TypeOK
<1>5. InRange'
  BY <1>1, RunAssumption DEF BeginSave, InRange, Running, Retaining, Saves, IsLast
<1>6. OnSaveSteps'
  BY <1>1, RunAssumption DEF BeginSave, Removed, With, InRange, OnSaveSteps, Saves, IsLast
<1>7. SavedSoFar'
  <2>1. gs \in DOMAIN disk' /\ phase' = "shards" /\ todo' = Rank
    BY <1>3, <1>s
  <2>2. ((config.keepBest = 0 /\ tracker = gs) \/ run = 1) =>
           \A r \in Rank : disk'[gs].shard[r] = NoFile /\ disk'[gs].teacher[r] = NoFile
    <3> SUFFICES ASSUME (config.keepBest = 0 /\ tracker = gs) \/ run = 1
                 PROVE  \A r \in Rank : disk'[gs].shard[r] = NoFile /\ disk'[gs].teacher[r] = NoFile
      OBVIOUS
    <3>1. gs \notin DOMAIN disk
      BY <1>s DEF Plain, FirstRun, TypeOK
    <3> QED
      BY <3>1, RunAssumption DEF BeginSave, With, NoFiles
  <2> QED
    BY <1>s, <2>1, <2>2 DEF SavedSoFar
<1>8. Plain'
  <2> SUFFICES ASSUME config.keepBest = 0 PROVE Plain'
    BY <1>s DEF Plain
  <2>1. \A n \in DOMAIN disk' : n \in Int /\ (n \in DOMAIN disk \/ n = gs) /\ gs \in Int
    BY <1>3, <1>s DEF TypeOK, Step
  <2>2. \A n \in DOMAIN disk : n < gs => Sound(n)'
    BY <1>3, <1>s DEF Plain, Running
  <2>3. tracker' = tracker /\ (tracker \in DOMAIN disk => tracker < gs)
    BY <1>s DEF Plain
  <2>4. tracker \in DOMAIN disk' => \A n \in DOMAIN disk' : n <= tracker => Sound(n)'
    <3>1. CASE tracker \in DOMAIN disk
      BY <2>1, <2>2, <2>3, <3>1
    <3>2. CASE tracker = gs /\ gs \notin DOMAIN disk
      BY <1>3, <2>1, <2>2, <3>2
    <3> QED
      BY <2>1, <3>1, <3>2
  <2>5. \A n \in DOMAIN disk' : n < gs => Sound(n)'
    BY <2>1, <2>2
  <2>6. tracker \in DOMAIN disk' => tracker <= gs
    BY <2>1, <2>3
  <2> QED
    BY <1>s, <2>3, <2>4, <2>5, <2>6 DEF Plain
<1>9. FirstRun'
  <2>1. \A n \in DOMAIN disk' : n \in DOMAIN disk \/ n = gs
    BY <1>3
  <2> QED
    BY <1>1, <1>3, <1>s, <2>1 DEF TypeOK, FirstRun, Running
<1>10. Exact'
  BY <1>1, <1>2, RunAssumption DEF BeginSave, Exact, MemoryExact
<1> QED
  BY <1>4, <1>5, <1>6, <1>7, <1>8, <1>9, <1>10

LEMMA WriteShardInv ==
  ASSUME IInv, NEW r \in Rank, WriteShard(r)
  PROVE  IInv'
<1> USE DEF IInv
<1>1. config' = config /\ config \in Config
  BY RunAssumption DEF WriteShard, TypeOK
<1>2. \A s : TeacherOf(s)' = TeacherOf(s)
  BY <1>1, SameTeacherOf
<1>3. gs \in DOMAIN disk /\ gs \in Step /\ disk \in [DOMAIN disk -> Directory]
  BY DEF WriteShard, SavedSoFar, Writing, TypeOK
<1>a. /\ DOMAIN disk' = DOMAIN disk /\ disk' \in [DOMAIN disk -> Directory]
      /\ \A n \in DOMAIN disk \ {gs} : disk'[n] = disk[n]
      /\ \A q \in Rank : disk'[gs].shard[q] = IF q = r THEN student[r] ELSE disk[gs].shard[q]
      /\ disk'[gs].teacher = disk[gs].teacher
  <2>1. disk[gs] \in Directory /\ student[r] \in Lineage
    BY <1>3 DEF TypeOK
  <2> PICK f : f = [disk[gs].shard EXCEPT ![r] = student[r]]
    OBVIOUS
  <2>2. f \in [Rank -> {NoFile} \cup Lineage] /\ \A q \in Rank : f[q] = IF q = r THEN student[r] ELSE disk[gs].shard[q]
    BY <2>1 DEF Directory
  <2> PICK d : d = [disk[gs] EXCEPT !.shard = f]
    OBVIOUS
  <2>3. d \in Directory /\ d.shard = f /\ d.teacher = disk[gs].teacher
    BY <2>1, <2>2 DEF Directory
  <2>4. disk' = [disk EXCEPT ![gs] = d]
    BY DEF WriteShard
  <2> QED
    BY <1>3, <2>2, <2>3, <2>4
<1>b. \A n \in DOMAIN disk \ {gs} : Sound(n) => Sound(n)'
  BY <1>1, <1>a, SoundSubset
<1>c. ASSUME (config.keepBest = 0 /\ tracker = gs) \/ run = 1
      PROVE  /\ \A n \in {gs} : Sound(n)'
             /\ \A q \in Rank : /\ disk'[gs].shard[q] \in {NoFile, student[q]}
                                /\ disk'[gs].teacher[q] \in {NoFile, teacher[q]}
  <2>1. \A q \in Rank : /\ disk'[gs].shard[q] \in {NoFile, student[q]}
                        /\ disk'[gs].teacher[q] \in {NoFile, teacher[q]}
    BY <1>3, <1>a, <1>c DEF WriteShard, SavedSoFar, Writing
  <2>2. MemoryExact
    BY <1>c DEF Exact
  <2> QED
    BY <1>1, <2>1, <2>2, SoundWritten, RunAssumption
<1>4. TypeOK'
  <2>1. run' \in 1 .. config'.starts /\ phase' \in Phase /\ gs' \in Nat /\ tried' \in Nat /\ todo' \subseteq Rank \cup {Rotate}
    BY <1>1, RunAssumption DEF WriteShard, TypeOK, Phase
  <2>2. student' \in [Rank -> Lineage] /\ teacher' \in [Rank -> Teacher]
    BY <1>1, RunAssumption DEF WriteShard, TypeOK
  <2>3. saved' \in Seq(Step)
    BY <1>1, RunAssumption DEF WriteShard, TypeOK
  <2>4. DOMAIN disk' \subseteq Step /\ disk' \in [DOMAIN disk' -> Directory]
    BY <1>a DEF TypeOK
  <2>5. tracker' \in Step \cup {None, Torn}
    BY <1>1, RunAssumption DEF WriteShard, TypeOK
  <2>6. /\ DOMAIN manifest' \subseteq Step /\ manifest' \in [DOMAIN manifest' -> Score]
       /\ DOMAIN record' \subseteq Step /\ record' \in [DOMAIN record' -> Score]
    BY <1>1, RunAssumption DEF WriteShard, TypeOK
  <2> QED
    BY <1>1, <2>1, <2>2, <2>3, <2>4, <2>5, <2>6, RunAssumption DEF TypeOK
<1>5. InRange'
  BY <1>1, RunAssumption DEF WriteShard, InRange, Running, Writing, Retaining, Saves, IsLast
<1>6. OnSaveSteps'
  BY <1>1, RunAssumption DEF WriteShard, OnSaveSteps
<1>7. SavedSoFar'
  BY <1>a, <1>c DEF WriteShard, SavedSoFar, Writing
<1>8. Plain'
  BY <1>1, <1>3, <1>a, <1>b, <1>c DEF WriteShard, TypeOK, Step, Plain, Running
<1>9. FirstRun'
  BY <1>1, <1>3, <1>a, <1>b, <1>c DEF WriteShard, FirstRun, Running
<1>10. Exact'
  BY <1>1, <1>2, RunAssumption DEF WriteShard, Exact, MemoryExact
<1> QED
  BY <1>4, <1>5, <1>6, <1>7, <1>8, <1>9, <1>10

LEMMA RegisterInv ==
  ASSUME IInv, Register
  PROVE  IInv'
<1> USE DEF IInv
<1>1. config' = config /\ config \in Config
  BY RunAssumption DEF Register, TypeOK
<1>2. \A s : TeacherOf(s)' = TeacherOf(s)
  BY <1>1, SameTeacherOf
<1>3. \A n \in DOMAIN disk : Sound(n) => Sound(n)'
  <2>1. \A n \in DOMAIN disk, r \in Rank : /\ disk'[n].shard[r] \in {NoFile, disk[n].shard[r]}
                                           /\ disk'[n].teacher[r] \in {NoFile, disk[n].teacher[r]}
    BY RunAssumption DEF Register, Removed, TypeOK, Directory, NoFiles
  <2> QED
    BY <1>1, <2>1, SoundSubset
<1>4. TypeOK'
  <2>1. run' \in 1 .. config'.starts /\ phase' \in Phase /\ gs' \in Nat /\ tried' \in Nat /\ todo' \subseteq Rank \cup {Rotate}
    BY <1>1, RunAssumption DEF Register, TypeOK
  <2>2. student' \in [Rank -> Lineage] /\ teacher' \in [Rank -> Teacher]
    BY <1>1, RunAssumption DEF Register, TypeOK
  <2>3. saved' \in Seq(Step)
    <3>1. Append(saved, gs) \in Seq(Step)
      BY DEF Register, TypeOK, InRange, Running
    <3>2. saved' = Registered(Append(saved, gs))
      BY DEF Register
    <3> QED
      BY <1>1, <3>1, <3>2, LatestType DEF Registered, Config
  <2>4. DOMAIN disk' \subseteq Step /\ disk' \in [DOMAIN disk' -> Directory]
    BY <1>1, RunAssumption DEF Register, Removed, TypeOK, Running, Writing, Directory,
       NoFiles
  <2>5. tracker' \in Step \cup {None, Torn}
    BY <1>1, RunAssumption DEF Register, TypeOK
  <2>6. /\ DOMAIN manifest' \subseteq Step /\ manifest' \in [DOMAIN manifest' -> Score]
       /\ DOMAIN record' \subseteq Step /\ record' \in [DOMAIN record' -> Score]
    BY <1>1, RunAssumption DEF Register, TypeOK
  <2> QED
    BY <1>1, <2>1, <2>2, <2>3, <2>4, <2>5, <2>6, RunAssumption DEF TypeOK
<1>5. InRange'
  BY <1>1, RunAssumption DEF Register, InRange, Running, Writing, Retaining, Saves, IsLast
<1>6. OnSaveSteps'
  BY <1>1, RunAssumption DEF Register, Removed, OnSaveSteps
<1>7. SavedSoFar'
  <2> PICK p : p = Append(saved, gs)
    OBVIOUS
  <2>1. /\ phase = "teachers" /\ phase' = "teachers" /\ todo' = todo \ {Rotate}
        /\ UNCHANGED <<config, run, gs, student, teacher, tracker>>
        /\ saved' = Registered(p)
        /\ disk' = Removed(Elements(saved) \ Elements(saved'))
    BY DEF Register
  <2>2. p \in Seq(Step) /\ p # <<>> /\ p[Len(p)] = gs
    BY <2>1 DEF TypeOK, InRange, Running
  <2>3. gs \in Elements(saved')
    <3>1. CASE config.maxKeep > 0
      <4>1. config.maxKeep \in Nat \ {0}
        BY <1>1, <3>1 DEF Config
      <4>2. p[Len(p)] \in Elements(Latest(p, config.maxKeep))
        BY <2>2, <4>1, LatestKeepsLast
      <4> QED
        BY <2>1, <2>2, <3>1, <4>2 DEF Registered
    <3>2. CASE ~ config.maxKeep > 0
      BY <2>1, <2>2, <3>2 DEF Registered, Elements
    <3> QED
      BY <3>1, <3>2
  <2>4. gs \in DOMAIN disk /\ gs \in DOMAIN disk' /\ disk'[gs] = disk[gs]
    BY <2>1, <2>3 DEF SavedSoFar, Writing, Removed
  <2> QED
    BY <2>1, <2>4, RunAssumption DEF SavedSoFar, Writing
<1>8. Plain'
  BY <1>1, <1>2, <1>3, RunAssumption DEF Register, Removed, Plain, Running
<1>9. FirstRun'
  BY <1>1, <1>2, <1>3, RunAssumption DEF Register, Removed, FirstRun, Running
<1>10. Exact'
  BY <1>1, <1>2, RunAssumption DEF Register, Exact, MemoryExact
<1> QED
  BY <1>4, <1>5, <1>6, <1>7, <1>8, <1>9, <1>10

LEMMA WriteTeacherInv ==
  ASSUME IInv, NEW r \in Rank, WriteTeacher(r)
  PROVE  IInv'
<1> USE DEF IInv
<1>1. config' = config /\ config \in Config
  BY RunAssumption DEF WriteTeacher, TypeOK
<1>2. \A s : TeacherOf(s)' = TeacherOf(s)
  BY <1>1, SameTeacherOf
<1>3. gs \in DOMAIN disk /\ gs \in Step /\ disk \in [DOMAIN disk -> Directory]
  BY DEF WriteTeacher, SavedSoFar, Writing, TypeOK
<1>a. /\ DOMAIN disk' = DOMAIN disk /\ disk' \in [DOMAIN disk -> Directory]
      /\ \A n \in DOMAIN disk \ {gs} : disk'[n] = disk[n]
      /\ \A q \in Rank : disk'[gs].teacher[q] = IF q = r THEN teacher[r] ELSE disk[gs].teacher[q]
      /\ disk'[gs].shard = disk[gs].shard
  <2>1. disk[gs] \in Directory /\ teacher[r] \in Teacher
    BY <1>3 DEF TypeOK
  <2> PICK f : f = [disk[gs].teacher EXCEPT ![r] = teacher[r]]
    OBVIOUS
  <2>2. f \in [Rank -> {NoFile} \cup Teacher] /\ \A q \in Rank : f[q] = IF q = r THEN teacher[r] ELSE disk[gs].teacher[q]
    BY <2>1 DEF Directory
  <2> PICK d : d = [disk[gs] EXCEPT !.teacher = f]
    OBVIOUS
  <2>3. d \in Directory /\ d.teacher = f /\ d.shard = disk[gs].shard
    BY <2>1, <2>2 DEF Directory
  <2>4. disk' = [disk EXCEPT ![gs] = d]
    BY DEF WriteTeacher
  <2> QED
    BY <1>3, <2>2, <2>3, <2>4
<1>b. \A n \in DOMAIN disk \ {gs} : Sound(n) => Sound(n)'
  BY <1>1, <1>a, SoundSubset
<1>c. ASSUME (config.keepBest = 0 /\ tracker = gs) \/ run = 1
      PROVE  /\ \A n \in {gs} : Sound(n)'
             /\ \A q \in Rank : /\ disk'[gs].shard[q] \in {NoFile, student[q]}
                                /\ disk'[gs].teacher[q] \in {NoFile, teacher[q]}
  <2>1. \A q \in Rank : /\ disk'[gs].shard[q] \in {NoFile, student[q]}
                        /\ disk'[gs].teacher[q] \in {NoFile, teacher[q]}
    BY <1>3, <1>a, <1>c DEF WriteTeacher, SavedSoFar, Writing
  <2>2. MemoryExact
    BY <1>c DEF Exact
  <2> QED
    BY <1>1, <2>1, <2>2, SoundWritten, RunAssumption
<1>4. TypeOK'
  <2>1. run' \in 1 .. config'.starts /\ phase' \in Phase /\ gs' \in Nat /\ tried' \in Nat /\ todo' \subseteq Rank \cup {Rotate}
    BY <1>1, RunAssumption DEF WriteTeacher, Written, TypeOK, Phase
  <2>2. student' \in [Rank -> Lineage] /\ teacher' \in [Rank -> Teacher]
    BY <1>1, RunAssumption DEF WriteTeacher, TypeOK
  <2>3. saved' \in Seq(Step)
    BY <1>1, RunAssumption DEF WriteTeacher, TypeOK
  <2>4. DOMAIN disk' \subseteq Step /\ disk' \in [DOMAIN disk' -> Directory]
    BY <1>a DEF TypeOK
  <2>5. tracker' \in Step \cup {None, Torn}
    BY <1>1, RunAssumption DEF WriteTeacher, TypeOK
  <2>6. /\ DOMAIN manifest' \subseteq Step /\ manifest' \in [DOMAIN manifest' -> Score]
       /\ DOMAIN record' \subseteq Step /\ record' \in [DOMAIN record' -> Score]
    BY <1>1, RunAssumption DEF WriteTeacher, TypeOK
  <2> QED
    BY <1>1, <2>1, <2>2, <2>3, <2>4, <2>5, <2>6, RunAssumption DEF TypeOK
<1>5. InRange'
  BY <1>1, RunAssumption DEF WriteTeacher, Written, InRange, Running, Writing, Retaining,
     Saves, IsLast
<1>6. OnSaveSteps'
  BY <1>1, RunAssumption DEF WriteTeacher, OnSaveSteps
<1>7. SavedSoFar'
  BY <1>a, <1>c DEF WriteTeacher, Written, SavedSoFar, Writing
<1>8. Plain'
  BY <1>1, <1>3, <1>a, <1>b, <1>c DEF WriteTeacher, Written, TypeOK, Step, Plain, Running
<1>9. FirstRun'
  BY <1>1, <1>3, <1>a, <1>b, <1>c DEF WriteTeacher, Written, FirstRun, Running
<1>10. Exact'
  BY <1>1, <1>2, RunAssumption DEF WriteTeacher, Exact, MemoryExact
<1> QED
  BY <1>4, <1>5, <1>6, <1>7, <1>8, <1>9, <1>10

LEMMA WriteDataInv ==
  ASSUME IInv, WriteData
  PROVE  IInv'
<1> USE DEF IInv
<1>1. config' = config /\ config \in Config
  BY RunAssumption DEF WriteData, TypeOK
<1>2. \A s : TeacherOf(s)' = TeacherOf(s)
  BY <1>1, SameTeacherOf
<1>3. \A n \in DOMAIN disk : Sound(n) => Sound(n)'
  <2>1. \A n \in DOMAIN disk, r \in Rank : disk'[n].shard[r] = disk[n].shard[r] /\ disk'[n].teacher[r] = disk[n].teacher[r]
    BY RunAssumption DEF WriteData
  <2> QED
    BY <1>1, <2>1, SoundSubset
<1>4. TypeOK'
  <2>1. run' \in 1 .. config'.starts /\ phase' \in Phase /\ gs' \in Nat /\ tried' \in Nat /\ todo' \subseteq Rank \cup {Rotate}
    BY <1>1, RunAssumption DEF WriteData, TypeOK, Phase
  <2>2. student' \in [Rank -> Lineage] /\ teacher' \in [Rank -> Teacher]
    BY <1>1, RunAssumption DEF WriteData, TypeOK
  <2>3. saved' \in Seq(Step)
    BY <1>1, RunAssumption DEF WriteData, TypeOK
  <2>4. DOMAIN disk' \subseteq Step /\ disk' \in [DOMAIN disk' -> Directory]
    BY <1>1, RunAssumption DEF WriteData, TypeOK, Directory
  <2>5. tracker' \in Step \cup {None, Torn}
    BY <1>1, RunAssumption DEF WriteData, TypeOK
  <2>6. /\ DOMAIN manifest' \subseteq Step /\ manifest' \in [DOMAIN manifest' -> Score]
       /\ DOMAIN record' \subseteq Step /\ record' \in [DOMAIN record' -> Score]
    BY <1>1, RunAssumption DEF WriteData, TypeOK
  <2> QED
    BY <1>1, <2>1, <2>2, <2>3, <2>4, <2>5, <2>6, RunAssumption DEF TypeOK
<1>5. InRange'
  BY <1>1, RunAssumption DEF WriteData, InRange, Running, Writing, Retaining, Saves, IsLast
<1>6. OnSaveSteps'
  BY <1>1, RunAssumption DEF WriteData, OnSaveSteps
<1>7. SavedSoFar'
  <2>1. gs \in DOMAIN disk /\ DOMAIN disk' = DOMAIN disk
    BY DEF WriteData, SavedSoFar, Writing
  <2>2. disk'[gs].shard = disk[gs].shard /\ disk'[gs].teacher = disk[gs].teacher
    BY <2>1 DEF WriteData, TypeOK, Directory
  <2> QED
    BY <2>1, <2>2 DEF WriteData, SavedSoFar, Writing
<1>8. Plain'
  BY <1>1, <1>2, <1>3, RunAssumption DEF WriteData, Plain, Running
<1>9. FirstRun'
  BY <1>1, <1>2, <1>3, RunAssumption DEF WriteData, FirstRun, Running
<1>10. Exact'
  BY <1>1, <1>2, RunAssumption DEF WriteData, Exact, MemoryExact
<1> QED
  BY <1>4, <1>5, <1>6, <1>7, <1>8, <1>9, <1>10

LEMMA EmptyTrackerInv ==
  ASSUME IInv, EmptyTracker
  PROVE  IInv'
<1> USE DEF IInv
<1>1. config' = config /\ config \in Config
  BY RunAssumption DEF EmptyTracker, TypeOK
<1>2. \A s : TeacherOf(s)' = TeacherOf(s)
  BY <1>1, SameTeacherOf
<1>3. \A n \in DOMAIN disk : Sound(n) => Sound(n)'
  BY <1>1, SoundSubset, RunAssumption DEF EmptyTracker
<1>4. TypeOK'
  BY <1>1, RunAssumption DEF EmptyTracker, TypeOK, Phase, memoryVars
<1>5. InRange'
  BY <1>1 DEF EmptyTracker, InRange, Running, Writing, Retaining, Saves, IsLast, memoryVars
<1>6. OnSaveSteps'
  BY <1>1, RunAssumption DEF EmptyTracker, OnSaveSteps
<1>7. SavedSoFar'
  BY <1>1, RunAssumption DEF EmptyTracker, SavedSoFar, Writing, memoryVars
<1>8. Plain'
  BY <1>1, <1>2, <1>3, RunAssumption DEF EmptyTracker, TypeOK, Plain, Running, Step, Torn,
     memoryVars
<1>9. FirstRun'
  BY <1>1, <1>2, <1>3, RunAssumption DEF EmptyTracker, FirstRun, Running, memoryVars
<1>10. Exact'
  BY <1>1, <1>2, RunAssumption DEF EmptyTracker, Exact, MemoryExact, memoryVars
<1> QED
  BY <1>4, <1>5, <1>6, <1>7, <1>8, <1>9, <1>10

LEMMA WriteTrackerInv ==
  ASSUME IInv, WriteTracker
  PROVE  IInv'
<1> USE DEF IInv
<1>1. config' = config /\ config \in Config
  BY RunAssumption DEF WriteTracker, TypeOK
<1>2. \A s : TeacherOf(s)' = TeacherOf(s)
  BY <1>1, SameTeacherOf
<1>3. \A n \in DOMAIN disk : Sound(n) => Sound(n)'
  BY <1>1, SoundSubset, RunAssumption DEF WriteTracker
<1>4. TypeOK'
  <2>1. run' \in 1 .. config'.starts /\ phase' \in Phase /\ gs' \in Nat /\ tried' \in Nat /\ todo' \subseteq Rank \cup {Rotate}
    BY <1>1, RunAssumption DEF WriteTracker, TypeOK, Phase, memoryVars
  <2>2. student' \in [Rank -> Lineage] /\ teacher' \in [Rank -> Teacher]
    BY <1>1, RunAssumption DEF WriteTracker, TypeOK, memoryVars
  <2>3. saved' \in Seq(Step)
    BY <1>1, RunAssumption DEF WriteTracker, TypeOK, memoryVars
  <2>4. DOMAIN disk' \subseteq Step /\ disk' \in [DOMAIN disk' -> Directory]
    BY <1>1, RunAssumption DEF WriteTracker, TypeOK
  <2>5. tracker' \in Step \cup {None, Torn}
    BY LargestStep DEF WriteTracker, TypeOK, InRange, Running
  <2>6. /\ DOMAIN manifest' \subseteq Step /\ manifest' \in [DOMAIN manifest' -> Score]
       /\ DOMAIN record' \subseteq Step /\ record' \in [DOMAIN record' -> Score]
    BY <1>1, RunAssumption DEF WriteTracker, TypeOK
  <2> QED
    BY <1>1, <2>1, <2>2, <2>3, <2>4, <2>5, <2>6, RunAssumption DEF TypeOK
<1>5. InRange'
  BY <1>1, RunAssumption DEF WriteTracker, InRange, Running, Writing, Retaining, None, Torn,
     memoryVars
<1>6. OnSaveSteps'
  BY <1>1, RunAssumption DEF WriteTracker, OnSaveSteps
<1>7. SavedSoFar'
  BY <1>1, RunAssumption DEF WriteTracker, SavedSoFar, Writing
<1>8. Plain'
  <2> SUFFICES ASSUME config.keepBest = 0 PROVE Plain'
    BY <1>1 DEF Plain
  <2>1. /\ phase = "commit" /\ tracker' = gs /\ phase' = "next"
        /\ UNCHANGED <<config, run, memoryVars, disk, manifest, record>>
    BY <1>1 DEF WriteTracker, InRange, Retaining
  <2>2. MemoryExact
    BY DEF Exact
  <2>3. \A r \in Rank : disk[gs].shard[r] = student[r] /\ disk[gs].teacher[r] = teacher[r]
    BY <2>1 DEF SavedSoFar, Writing
  <2>4. \A n \in {gs} : Sound(n)'
    BY <1>1, <2>1, <2>2, <2>3, SoundWritten, RunAssumption
  <2>5. \A n \in DOMAIN disk : n \in Int /\ gs \in Int /\ (n < gs => Sound(n)')
    BY <1>3, <2>1 DEF TypeOK, Plain, Running
  <2>6. \A n \in DOMAIN disk' : n <= gs => Sound(n)'
    BY <2>1, <2>4, <2>5
  <2> QED
    BY <2>1, <2>5, <2>6 DEF Plain, memoryVars
<1>9. FirstRun'
  BY <1>1, <1>2, <1>3, RunAssumption DEF WriteTracker, FirstRun, Running, memoryVars
<1>10. Exact'
  BY <1>1, <1>2, RunAssumption DEF WriteTracker, Exact, MemoryExact, memoryVars
<1> QED
  BY <1>4, <1>5, <1>6, <1>7, <1>8, <1>9, <1>10

LEMMA ValidateInv ==
  ASSUME IInv, NEW v \in Score, Validate(v)
  PROVE  IInv'
<1> USE DEF IInv
<1>1. config' = config /\ config \in Config
  BY RunAssumption DEF Validate, TypeOK
<1>2. \A s : TeacherOf(s)' = TeacherOf(s)
  BY <1>1, SameTeacherOf
<1>3. \A n \in DOMAIN disk : Sound(n) => Sound(n)'
  BY <1>1, SoundSubset, RunAssumption DEF Validate
<1>4. TypeOK'
  BY <1>1, RunAssumption DEF Validate, With, TypeOK, InRange, Running, Phase, memoryVars
<1>5. InRange'
  BY <1>1, RunAssumption DEF Validate, With, InRange, Running, Writing, Retaining,
     memoryVars
<1>6. OnSaveSteps'
  BY <1>1, RunAssumption DEF Validate, OnSaveSteps
<1>7. SavedSoFar'
  BY <1>1, RunAssumption DEF Validate, SavedSoFar, Writing
<1>8. Plain'
  BY <1>1, <1>2, <1>3, RunAssumption DEF Validate, InRange, Plain, Retaining
<1>9. FirstRun'
  BY <1>1, <1>2, <1>3, RunAssumption DEF Validate, FirstRun, Running, memoryVars
<1>10. Exact'
  BY <1>1, <1>2, RunAssumption DEF Validate, Exact, MemoryExact, memoryVars
<1> QED
  BY <1>4, <1>5, <1>6, <1>7, <1>8, <1>9, <1>10

LEMMA PruneInv ==
  ASSUME IInv, Prune
  PROVE  IInv'
<1> USE DEF IInv
<1>1. config' = config /\ config \in Config
  BY RunAssumption DEF Prune, TypeOK
<1>2. \A s : TeacherOf(s)' = TeacherOf(s)
  BY <1>1, SameTeacherOf
<1>3. \A n \in DOMAIN disk' : Sound(n) => Sound(n)'
  BY <1>1, SoundSubset DEF Prune
<1>4. TypeOK'
  BY <1>1, RunAssumption DEF Prune, TypeOK, memoryVars
<1>5. InRange'
  BY <1>1, RunAssumption DEF Prune, TypeOK, InRange, Writing, Retaining, memoryVars
<1>6. OnSaveSteps'
  BY <1>1, RunAssumption DEF Prune, OnSaveSteps
<1>7. SavedSoFar'
  BY <1>1, RunAssumption DEF Prune, SavedSoFar, Writing
<1>8. Plain'
  BY <1>1, <1>2, <1>3, RunAssumption DEF Prune, InRange, Plain, Retaining
<1>9. FirstRun'
  BY <1>1, <1>2, <1>3, RunAssumption DEF Prune, FirstRun, Running, memoryVars
<1>10. Exact'
  BY <1>1, <1>2, RunAssumption DEF Prune, Exact, MemoryExact, memoryVars
<1> QED
  BY <1>4, <1>5, <1>6, <1>7, <1>8, <1>9, <1>10

LEMMA PruneSomeInv ==
  ASSUME IInv, PruneSome
  PROVE  IInv'
<1> USE DEF IInv
<1>1. config' = config /\ config \in Config
  BY RunAssumption DEF PruneSome, TypeOK
<1>2. \A s : TeacherOf(s)' = TeacherOf(s)
  BY <1>1, SameTeacherOf
<1>3. \A n \in DOMAIN disk : Sound(n) => Sound(n)'
  <2>1. \A n \in DOMAIN disk, r \in Rank : /\ disk'[n].shard[r] \in {NoFile, disk[n].shard[r]}
                                           /\ disk'[n].teacher[r] \in {NoFile, disk[n].teacher[r]}
    BY RunAssumption DEF PruneSome
  <2> QED
    BY <1>1, <2>1, SoundSubset
<1>4. TypeOK'
  <2>1. run' \in 1 .. config'.starts /\ phase' \in Phase /\ gs' \in Nat /\ tried' \in Nat /\ todo' \subseteq Rank \cup {Rotate}
    BY <1>1, RunAssumption DEF PruneSome, TypeOK, memoryVars
  <2>2. student' \in [Rank -> Lineage] /\ teacher' \in [Rank -> Teacher]
    BY <1>1, RunAssumption DEF PruneSome, TypeOK, memoryVars
  <2>3. saved' \in Seq(Step)
    BY <1>1, RunAssumption DEF PruneSome, TypeOK, memoryVars
  <2>4. DOMAIN disk' \subseteq Step /\ disk' \in [DOMAIN disk' -> Directory]
    <3> PICK R \in SUBSET Rank, T \in SUBSET Rank, d \in BOOLEAN :
          disk' = [disk EXCEPT ![MinOf(Doomed)] =
                     [shard |-> [r \in Rank |-> IF r \in R THEN @.shard[r] ELSE NoFile],
                      teacher |-> [r \in Rank |-> IF r \in T THEN @.teacher[r] ELSE NoFile],
                      data |-> d /\ @.data]]
      BY DEF PruneSome
    <3> PICK n : n = MinOf(Doomed)
      OBVIOUS
    <3> PICK e : e = [shard |-> [r \in Rank |-> IF r \in R THEN disk[n].shard[r] ELSE NoFile],
                      teacher |-> [r \in Rank |-> IF r \in T THEN disk[n].teacher[r] ELSE NoFile],
                      data |-> d /\ disk[n].data]
      OBVIOUS
    <3>1. disk' = [disk EXCEPT ![n] = e]
      OBVIOUS
    <3>2. n \in DOMAIN disk => e \in Directory
      <4> SUFFICES ASSUME n \in DOMAIN disk PROVE e \in Directory
        OBVIOUS
      <4>1. disk[n] \in Directory
        BY DEF TypeOK
      <4> QED
        BY <4>1 DEF Directory
    <3> QED
      BY <3>1, <3>2 DEF TypeOK
  <2>5. tracker' \in Step \cup {None, Torn}
    BY <1>1, RunAssumption DEF PruneSome, TypeOK
  <2>6. /\ DOMAIN manifest' \subseteq Step /\ manifest' \in [DOMAIN manifest' -> Score]
       /\ DOMAIN record' \subseteq Step /\ record' \in [DOMAIN record' -> Score]
    BY <1>1, RunAssumption DEF PruneSome, TypeOK
  <2> QED
    BY <1>1, <2>1, <2>2, <2>3, <2>4, <2>5, <2>6, RunAssumption DEF TypeOK
<1>5. InRange'
  BY <1>1, RunAssumption DEF PruneSome, TypeOK, InRange, Writing, Retaining, memoryVars
<1>6. OnSaveSteps'
  BY <1>1, RunAssumption DEF PruneSome, OnSaveSteps
<1>7. SavedSoFar'
  BY <1>1, RunAssumption DEF PruneSome, SavedSoFar, Writing
<1>8. Plain'
  BY <1>1, <1>2, <1>3, RunAssumption DEF PruneSome, InRange, Plain, Retaining
<1>9. FirstRun'
  BY <1>1, <1>2, <1>3, RunAssumption DEF PruneSome, FirstRun, Running, memoryVars
<1>10. Exact'
  BY <1>1, <1>2, RunAssumption DEF PruneSome, Exact, MemoryExact, memoryVars
<1> QED
  BY <1>4, <1>5, <1>6, <1>7, <1>8, <1>9, <1>10

LEMMA PrunedInv ==
  ASSUME IInv, Pruned
  PROVE  IInv'
<1> USE DEF IInv
<1>1. config' = config /\ config \in Config
  BY RunAssumption DEF Pruned, TypeOK
<1>2. \A s : TeacherOf(s)' = TeacherOf(s)
  BY <1>1, SameTeacherOf
<1>3. \A n \in DOMAIN disk : Sound(n) => Sound(n)'
  BY <1>1, SoundSubset, RunAssumption DEF Pruned, diskVars
<1>4. TypeOK'
  BY <1>1, RunAssumption DEF Pruned, TypeOK, Phase, memoryVars, diskVars
<1>5. InRange'
  BY <1>1, RunAssumption DEF Pruned, TypeOK, InRange, Writing, Retaining, memoryVars,
     diskVars
<1>6. OnSaveSteps'
  BY <1>1, RunAssumption DEF Pruned, OnSaveSteps, diskVars
<1>7. SavedSoFar'
  BY <1>1, RunAssumption DEF Pruned, SavedSoFar, Writing
<1>8. Plain'
  BY <1>1, <1>2, <1>3, RunAssumption DEF Pruned, InRange, Plain, Retaining
<1>9. FirstRun'
  BY <1>1, <1>2, <1>3, RunAssumption DEF Pruned, FirstRun, Running, memoryVars, diskVars
<1>10. Exact'
  BY <1>1, <1>2, RunAssumption DEF Pruned, Exact, MemoryExact, memoryVars
<1> QED
  BY <1>4, <1>5, <1>6, <1>7, <1>8, <1>9, <1>10

LEMMA WriteManifestInv ==
  ASSUME IInv, WriteManifest
  PROVE  IInv'
<1> USE DEF IInv
<1>1. config' = config /\ config \in Config
  BY RunAssumption DEF WriteManifest, TypeOK
<1>2. \A s : TeacherOf(s)' = TeacherOf(s)
  BY <1>1, SameTeacherOf
<1>3. \A n \in DOMAIN disk : Sound(n) => Sound(n)'
  BY <1>1, SoundSubset, RunAssumption DEF WriteManifest
<1>4. TypeOK'
  <2>1. run' \in 1 .. config'.starts /\ phase' \in Phase /\ gs' \in Nat /\ tried' \in Nat /\ todo' \subseteq Rank \cup {Rotate}
    BY <1>1, RunAssumption DEF WriteManifest, TypeOK, Phase, memoryVars
  <2>2. student' \in [Rank -> Lineage] /\ teacher' \in [Rank -> Teacher]
    BY <1>1, RunAssumption DEF WriteManifest, TypeOK, memoryVars
  <2>3. saved' \in Seq(Step)
    BY <1>1, RunAssumption DEF WriteManifest, TypeOK, memoryVars
  <2>4. DOMAIN disk' \subseteq Step /\ disk' \in [DOMAIN disk' -> Directory]
    BY <1>1, RunAssumption DEF WriteManifest, TypeOK
  <2>5. tracker' \in Step \cup {None, Torn}
    BY <1>1, RunAssumption DEF WriteManifest, TypeOK
  <2>6. /\ DOMAIN manifest' \subseteq Step /\ manifest' \in [DOMAIN manifest' -> Score]
        /\ DOMAIN record' \subseteq Step /\ record' \in [DOMAIN record' -> Score]
    <3> PICK v : v = record[gs]
      OBVIOUS
    <3>1. manifest' = With(manifest, gs, v) /\ record' = record
      BY DEF WriteManifest, History
    <3>2. v \in Score /\ gs \in Step
      BY DEF WriteManifest, InRange, TypeOK
    <3> QED
      BY <3>1, <3>2 DEF With, TypeOK
  <2> QED
    BY <1>1, <2>1, <2>2, <2>3, <2>4, <2>5, <2>6, RunAssumption DEF TypeOK
<1>5. InRange'
  BY <1>1, RunAssumption DEF WriteManifest, TypeOK, InRange, Writing, Retaining, memoryVars
<1>6. OnSaveSteps'
  BY <1>1, RunAssumption DEF WriteManifest, OnSaveSteps
<1>7. SavedSoFar'
  BY <1>1, RunAssumption DEF WriteManifest, SavedSoFar, Writing
<1>8. Plain'
  BY <1>1, <1>2, <1>3, RunAssumption DEF WriteManifest, InRange, Plain, Retaining
<1>9. FirstRun'
  BY <1>1, <1>2, <1>3, RunAssumption DEF WriteManifest, FirstRun, Running, memoryVars
<1>10. Exact'
  BY <1>1, <1>2, RunAssumption DEF WriteManifest, Exact, MemoryExact, memoryVars
<1> QED
  BY <1>4, <1>5, <1>6, <1>7, <1>8, <1>9, <1>10

LEMMA NextStepInv ==
  ASSUME IInv, NextStep
  PROVE  IInv'
<1> USE DEF IInv
<1>1. config' = config /\ config \in Config
  BY RunAssumption DEF NextStep, TypeOK
<1>2. \A s : TeacherOf(s)' = TeacherOf(s)
  BY <1>1, SameTeacherOf
<1>3. \A n \in DOMAIN disk : Sound(n) => Sound(n)'
  BY <1>1, SoundSubset, RunAssumption DEF NextStep, diskVars
<1>4. TypeOK'
  <2>1. run' \in 1 .. config'.starts /\ phase' \in Phase /\ gs' \in Nat /\ tried' \in Nat /\ todo' \subseteq Rank \cup {Rotate}
    BY <1>1, RunAssumption DEF NextStep, TypeOK, Phase, SavedSoFar
  <2>2. student' \in [Rank -> Lineage] /\ teacher' \in [Rank -> Teacher]
    BY <1>1, RunAssumption DEF NextStep, TypeOK
  <2>3. saved' \in Seq(Step)
    BY <1>1, RunAssumption DEF NextStep, TypeOK
  <2>4. DOMAIN disk' \subseteq Step /\ disk' \in [DOMAIN disk' -> Directory]
    BY <1>1, RunAssumption DEF NextStep, TypeOK, diskVars
  <2>5. tracker' \in Step \cup {None, Torn}
    BY <1>1, RunAssumption DEF NextStep, TypeOK, diskVars
  <2>6. /\ DOMAIN manifest' \subseteq Step /\ manifest' \in [DOMAIN manifest' -> Score]
       /\ DOMAIN record' \subseteq Step /\ record' \in [DOMAIN record' -> Score]
    BY <1>1, RunAssumption DEF NextStep, TypeOK, diskVars
  <2> QED
    BY <1>1, <2>1, <2>2, <2>3, <2>4, <2>5, <2>6, RunAssumption DEF TypeOK
<1>5. InRange'
  BY <1>1, RunAssumption DEF NextStep, IsLast, InRange, Running, Writing, Retaining, Step
<1>6. OnSaveSteps'
  BY <1>1, RunAssumption DEF NextStep, OnSaveSteps, diskVars
<1>7. SavedSoFar'
  BY <1>1, RunAssumption DEF NextStep, SavedSoFar, Writing
<1>8. Plain'
  BY <1>1, <1>2, <1>3, RunAssumption DEF NextStep, TypeOK, Plain, Running, Step, diskVars
<1>9. FirstRun'
  BY <1>1, <1>2, <1>3, RunAssumption DEF NextStep, TypeOK, FirstRun, Running, Step, diskVars
<1>10. Exact'
  BY <1>1, <1>2, RunAssumption DEF NextStep, Exact, MemoryExact
<1> QED
  BY <1>4, <1>5, <1>6, <1>7, <1>8, <1>9, <1>10

LEMMA UnchangedInv ==
  ASSUME IInv, UNCHANGED vars
  PROVE  IInv'
<1> USE DEF IInv, vars, memoryVars, diskVars
<1>1. \A s : TeacherOf(s)' = TeacherOf(s)
  BY SameTeacherOf
<1>2. \A n : Sound(n)' <=> Sound(n)
  BY <1>1 DEF Sound
<1>3. MemoryExact' <=> MemoryExact
  BY <1>1 DEF MemoryExact
<1>4. TypeOK'
  BY DEF TypeOK
<1>5. InRange' /\ OnSaveSteps' /\ SavedSoFar'
  BY DEF InRange, OnSaveSteps, SavedSoFar, Running, Writing, Retaining, Saves, IsLast
<1>6. Plain' /\ FirstRun' /\ Exact'
  BY <1>2, <1>3 DEF Plain, FirstRun, Exact, Running
<1> QED
  BY <1>4, <1>5, <1>6

\* Every step of the run keeps IInv, for all configurations, ranks and numbers of restarts.
THEOREM Invariance == Spec => []IInv
<1>1. IInv /\ [Next]_vars => IInv'
  <2> SUFFICES ASSUME IInv, [Next]_vars PROVE IInv'
    OBVIOUS
  <2>1. CASE Load
    BY <2>1, LoadInv
  <2>2. CASE Restart
    BY <2>2, RestartInv
  <2>3. CASE \E applied \in BOOLEAN : Update(applied)
    BY <2>3, UpdateInv
  <2>4. CASE BeginSave
    BY <2>4, BeginSaveInv
  <2>5. CASE Register
    BY <2>5, RegisterInv
  <2>6. CASE WriteData
    BY <2>6, WriteDataInv
  <2>7. CASE EmptyTracker
    BY <2>7, EmptyTrackerInv
  <2>8. CASE WriteTracker
    BY <2>8, WriteTrackerInv
  <2>9. CASE \E r \in Rank : WriteShard(r) \/ WriteTeacher(r)
    BY <2>9, WriteShardInv, WriteTeacherInv
  <2>10. CASE \E v \in Score : Validate(v)
    BY <2>10, ValidateInv
  <2>11. CASE Prune
    BY <2>11, PruneInv
  <2>12. CASE PruneSome
    BY <2>12, PruneSomeInv
  <2>13. CASE Pruned
    BY <2>13, PrunedInv
  <2>14. CASE WriteManifest
    BY <2>14, WriteManifestInv
  <2>15. CASE NextStep
    BY <2>15, NextStepInv
  <2>16. CASE UNCHANGED vars
    BY <2>16, UnchangedInv
  <2> QED
    BY <2>1, <2>2, <2>3, <2>4, <2>5, <2>6, <2>7, <2>8, <2>9, <2>10, <2>11, <2>12, <2>13,
       <2>14, <2>15, <2>16 DEF Next
<1> QED
  BY <1>1, InitInv, PTL DEF Spec

\* The variables keep their types: steps are saved and validated in range, and the
\* checkpoints that are read back have the shape of those that were written.
THEOREM TypeCorrect == Spec => []TypeOK
<1>1. IInv => TypeOK
  BY DEF IInv
<1> QED
  BY <1>1, Invariance, PTL

\* The teacher in memory is the one its student must have, on all ranks alike, whatever
\* checkpoint the run resumed from: without retention after any number of restarts, with
\* retention after one.
THEOREM TeacherIsExact == Spec => []TeacherExact
<1>1. IInv => TeacherExact
  BY DEF IInv, Exact, MemoryExact, TeacherExact
<1> QED
  BY <1>1, Invariance, PTL

=============================================================================
