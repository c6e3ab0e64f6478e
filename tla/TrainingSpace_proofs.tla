------------------------- MODULE TrainingSpace_proofs -------------------------
(***************************************************************************)
(* The disk space of a training run in TrainingRun, for all sets of ranks, *)
(* all configurations and any number of restarts: the directories that the *)
(* retention leaves, and the actor directories that the rotation leaves.   *)
(* SInv, inductive relative to IInv of TrainingRun_proofs, counts them     *)
(* from one retention and one rotation to the next; what an earlier run    *)
(* left behind is at most one directory, or Room actor directories.        *)
(***************************************************************************)
EXTENDS TrainingRun_proofs, FiniteSetTheorems

\* What retention keeps, and the phases in which there may be one directory more: that of
\* the step being saved, until it is ranked.
Kept == config.keepBest + (IF config.keepCurrent THEN 1 ELSE 0)
Crowded == Writing \/ phase \in {"validate", "prune", "raised"}

\* A restart leaves at most one directory that nobody ranks.
DirectoriesBounded ==
  config.keepBest > 0 /\ config.save % config.test = 0 =>
    /\ Cardinality(DOMAIN disk) <= Kept + run
    /\ ~ Crowded => Cardinality(DOMAIN disk) <= Kept + (run - 1)

\* The steps whose actor directory is there; those that rotation knows of: the registered
\* paths and the checkpoint whose shards are being written.
Actors == {n \in DOMAIN disk : disk[n].shard # NoFiles}
BeforeRegister == phase = "shards" \/ (phase = "teachers" /\ Rotate \in todo)
Known == Elements(saved) \cup {n \in {gs} : BeforeRegister}
Room == IF config.maxKeep = 1 THEN 2 ELSE config.maxKeep

\* Rotation forgets only what the runs before this one saved.
ActorsKnown ==
  config.maxKeep > 0 =>
    /\ Len(saved) <= config.maxKeep
    /\ BeforeRegister /\ config.maxKeep > 1 => Len(saved) <= config.maxKeep - 1
    /\ Cardinality(Actors \ Known) <= (run - 1) * Room

SInv == DirectoriesBounded /\ ActorsKnown

-----------------------------------------------------------------------------
(* Data.                                                                   *)

LEMMA StepsFinite ==
  ASSUME NEW S, S \subseteq Step
  PROVE  IsFiniteSet(S) /\ Cardinality(S) \in Nat
<1>1. IsFiniteSet(Step)
  BY RunAssumption, FS_Interval DEF Step
<1> QED
  BY <1>1, FS_Subset, FS_CardinalityType

LEMMA FewerSteps ==
  ASSUME NEW S, NEW T, S \subseteq T, T \subseteq Step
  PROVE  /\ Cardinality(S) \in Nat /\ Cardinality(T) \in Nat
         /\ Cardinality(S) <= Cardinality(T)
<1>1. IsFiniteSet(T) /\ Cardinality(T) \in Nat /\ Cardinality(S) \in Nat
  BY StepsFinite
<1> QED
  BY <1>1, FS_Subset

LEMMA OneStepMore ==
  ASSUME NEW S, S \subseteq Step, NEW x \in Step
  PROVE  /\ Cardinality(S) \in Nat /\ Cardinality(S \cup {x}) \in Nat
         /\ Cardinality(S \cup {x}) <= Cardinality(S) + 1
<1>1. IsFiniteSet(S) /\ Cardinality(S) \in Nat
  BY StepsFinite
<1> QED
  BY <1>1, FS_AddElement

\* A sequence has no more elements than places.
LEMMA ElementsBound ==
  ASSUME NEW s \in Seq(Step)
  PROVE  /\ Elements(s) \subseteq Step
         /\ Cardinality(Elements(s)) \in Nat /\ Len(s) \in Nat
         /\ Cardinality(Elements(s)) <= Len(s)
<1>1. DOMAIN s = 1 .. Len(s) /\ Len(s) \in Nat /\ \A i \in 1 .. Len(s) : s[i] \in Step
  BY LenProperties, ElementOfSeq
<1>2. Elements(s) \subseteq Step
  BY <1>1 DEF Elements
<1> DEFINE f == [i \in 1 .. Len(s) |-> s[i]]
<1>3. f \in Surjection(1 .. Len(s), Elements(s))
  BY <1>1 DEF Surjection, Elements
<1>4. IsFiniteSet(1 .. Len(s)) /\ Cardinality(1 .. Len(s)) = Len(s)
  <2> PICK n \in Nat : n = Len(s)
    BY <1>1
  <2>1. IsFiniteSet(1 .. n) /\ Cardinality(1 .. n) = IF 1 > n THEN 0 ELSE n - 1 + 1
    BY FS_Interval, 1 \in Int, n \in Int
  <2> QED
    BY <2>1
<1>5. Cardinality(Elements(s)) <= Cardinality(1 .. Len(s))
  BY <1>3, <1>4, FS_Surjection
<1>6. Cardinality(Elements(s)) \in Nat
  BY <1>2, StepsFinite
<1> QED
  BY <1>1, <1>2, <1>4, <1>5, <1>6

\* Rotation keeps no more than it is told to.
LEMMA LatestLength ==
  ASSUME NEW paths \in Seq(Step), NEW k \in Nat
  PROVE  Len(Latest(paths, k)) <= k
<1>1. Len(paths) \in Nat
  BY LenProperties
<1>2. CASE Len(paths) <= k
  BY <1>2 DEF Latest
<1>3. CASE Len(paths) > k
  <2>1. Len(SubSeq(paths, Len(paths) - k + 1, Len(paths))) = k
    <3> PICK n \in Nat : n = Len(paths)
      BY <1>1
    <3>1. n - k + 1 \in 1 .. n + 1 /\ n \in n - k .. n
      BY <1>3
    <3> QED
      BY <1>3, <3>1, SubSeqProperties
  <2> QED
    BY <1>3, <2>1 DEF Latest
<1> QED
  BY <1>1, <1>2, <1>3

\* The ranking of a history has at most keepBest best steps: the number of steps
\* before each of them tells them apart.
LEMMA FewBest ==
  ASSUME NEW h, DOMAIN h \subseteq Step, h \in [DOMAIN h -> Score], config.keepBest \in Nat
  PROVE  /\ Best(h) \subseteq Step
         /\ Cardinality(Best(h)) \in Nat /\ Cardinality(Best(h)) <= config.keepBest
<1> DEFINE Ahead(n) == {m \in DOMAIN h : Before(h, m, n)}
           rank == [n \in Best(h) |-> Cardinality(Ahead(n))]
<1>1. Best(h) \subseteq DOMAIN h
  BY DEF Best
<1>2. \A n \in DOMAIN h : Ahead(n) \subseteq Step /\ IsFiniteSet(Ahead(n)) /\ Cardinality(Ahead(n)) \in Nat
  BY StepsFinite
<1>3. \A m, n \in DOMAIN h : Before(h, m, n) => Cardinality(Ahead(m)) < Cardinality(Ahead(n))
  <2> SUFFICES ASSUME NEW m \in DOMAIN h, NEW n \in DOMAIN h, Before(h, m, n)
               PROVE  Cardinality(Ahead(m)) < Cardinality(Ahead(n))
    OBVIOUS
  <2>1. \A k \in DOMAIN h : k \in Int /\ h[k] \in Int
    BY RunAssumption DEF Step
  <2>2. m \in Ahead(n) /\ m \notin Ahead(m)
    BY <2>1 DEF Before
  <2>3. Ahead(m) \subseteq Ahead(n)
    BY <2>1 DEF Before
  <2> PICK A : A = Ahead(m)
    OBVIOUS
  <2> PICK B : B = Ahead(n)
    OBVIOUS
  <2>4. /\ IsFiniteSet(B) /\ A \in SUBSET B /\ A # B
        /\ Cardinality(A) \in Nat /\ Cardinality(B) \in Nat
    BY <1>2, <2>2, <2>3
  <2>5. Cardinality(A) <= Cardinality(B) /\ Cardinality(A) # Cardinality(B)
    BY <2>4, FS_Subset
  <2>6. Cardinality(A) < Cardinality(B)
    BY <2>4, <2>5
  <2> QED
    BY <2>6
<1>4. \A m, n \in DOMAIN h : m # n => Before(h, m, n) \/ Before(h, n, m)
  <2>1. \A k \in DOMAIN h : k \in Int /\ h[k] \in Int
    BY RunAssumption DEF Step
  <2> QED
    BY <2>1 DEF Before
<1> PICK k \in Nat : k = config.keepBest
  OBVIOUS
<1>5. rank \in Injection(Best(h), 0 .. k - 1)
  <2>1. \A n \in Best(h) : Cardinality(Ahead(n)) \in 0 .. k - 1
    <3> SUFFICES ASSUME NEW n \in Best(h) PROVE Cardinality(Ahead(n)) \in 0 .. k - 1
      OBVIOUS
    <3>1. Cardinality(Ahead(n)) < k
      BY DEF Best
    <3>2. Cardinality(Ahead(n)) \in Nat
      BY <1>1, <1>2
    <3> HIDE DEF Ahead
    <3> QED
      BY <3>1, <3>2
  <2>2. \A m, n \in Best(h) : m # n => Cardinality(Ahead(m)) # Cardinality(Ahead(n))
    BY <1>1, <1>2, <1>3, <1>4
  <2> HIDE DEF Ahead
  <2> QED
    BY <2>1, <2>2 DEF Injection, IsInjective
<1>6. IsFiniteSet(0 .. k - 1) /\ Cardinality(0 .. k - 1) = k
  <2>1. IsFiniteSet(0 .. k - 1) /\ Cardinality(0 .. k - 1) = IF 0 > k - 1 THEN 0 ELSE k - 1 - 0 + 1
    BY FS_Interval, 0 \in Int, k - 1 \in Int
  <2> QED
    BY <2>1
<1>7. Cardinality(Best(h)) <= k
  BY <1>5, <1>6, FS_Injection
<1> QED
  BY <1>1, <1>7, StepsFinite

\* A divisor of a divisor divides.
LEMMA Divides ==
  ASSUME NEW g \in Nat, NEW s \in Nat \ {0}, NEW t \in Nat \ {0}, g % s = 0, s % t = 0
  PROVE  g % t = 0
<1>1. PICK p \in Nat, r \in 0 .. t - 1 : r = g % t /\ g = t * p + r
  BY Division
<1>2. PICK a \in Nat, c \in 0 .. s - 1 : c = g % s /\ g = s * a + c
  BY Division
<1>3. PICK b \in Nat, d \in 0 .. t - 1 : d = s % t /\ s = t * b + d
  BY Division
<1>4. s * a = g /\ t * b = s
  <2>1. s * a \in Int /\ t * b \in Int
    OBVIOUS
  <2>2. c = 0 /\ d = 0
    BY <1>2, <1>3
  <2> QED
    BY <1>2, <1>3, <2>1, <2>2
<1>5. PICK q \in Nat : q = b * a
  OBVIOUS
<1>6. t * q + 0 = t * p + r
  <2>1. t * q = (t * b) * a
    BY <1>5
  <2>2. t * q = g
    BY <1>4, <2>1
  <2> QED
    BY <1>1, <2>2
<1>7. r = 0
  BY <1>6, UniqueRemainder, 0 \in 0 .. t - 1
<1> QED
  BY <1>1, <1>7

\* When every save is validated, so is the present one.
LEMMA SavesAreTested ==
  ASSUME config \in Config, config.save % config.test = 0, gs \in Step, Saves
  PROVE  Tests
<1>1. CASE IsLast
  BY <1>1 DEF Tests
<1>2. CASE ~ IsLast
  <2>1. /\ gs \in Nat /\ config.save \in Nat \ {0} /\ config.test \in Nat \ {0}
        /\ gs % config.save = 0
    BY <1>2 DEF Saves, Config, Step
  <2> QED
    BY <2>1, Divides DEF Tests
<1> QED
  BY <1>1, <1>2

-----------------------------------------------------------------------------
(* Counting.                                                               *)

LEMMA ConfigType ==
  ASSUME IInv
  PROVE  /\ config \in Config /\ run \in Nat \ {0}
         /\ Kept \in Nat /\ Room \in Nat /\ (config.maxKeep > 0 => config.maxKeep <= Room)
         /\ DOMAIN disk \subseteq Step /\ Actors \subseteq Step /\ saved \in Seq(Step)
<1>1. config \in Config /\ run \in 1 .. config.starts
  BY RunAssumption DEF IInv, TypeOK
<1>2. Kept \in Nat /\ Room \in Nat /\ (config.maxKeep > 0 => config.maxKeep <= Room)
  BY <1>1 DEF Config, Kept, Room
<1>3. run \in Nat \ {0}
  BY <1>1 DEF Config
<1> QED
  BY <1>1, <1>2, <1>3 DEF IInv, TypeOK, Actors

\* What rotation knows of and what it forgot fit in the rooms of the runs so far.
LEMMA ActorsCounted ==
  ASSUME IInv, ActorsKnown, config.maxKeep > 0
  PROVE  Cardinality(Actors) \in Nat /\ Cardinality(Actors) <= run * Room
<1> PICK k \in Nat, n \in Nat \ {0} : k = Room /\ n = run
  BY ConfigType
<1> PICK A : A = Actors
  OBVIOUS
<1> PICK S : S = Elements(saved)
  OBVIOUS
<1>1. A \subseteq Step /\ saved \in Seq(Step) /\ config.maxKeep \in Nat \ {0} /\ config.maxKeep <= k
  BY ConfigType DEF Config
<1>2. S \subseteq Step /\ Cardinality(S) \in Nat /\ Len(saved) \in Nat /\ Cardinality(S) <= Len(saved)
  BY <1>1, ElementsBound
<1>3. Cardinality(A \ Known) <= (n - 1) * k
  BY DEF ActorsKnown
<1>4. Known \subseteq Step /\ Cardinality(Known) \in Nat /\ Cardinality(Known) <= k
  <2>1. CASE ~ BeforeRegister
    <3>1. Known = S
      BY <2>1 DEF Known
    <3>2. Len(saved) <= config.maxKeep
      BY DEF ActorsKnown
    <3> QED
      BY <1>1, <1>2, <3>1, <3>2
  <2>2. CASE BeforeRegister
    <3>1. gs \in Step
      BY <2>2 DEF IInv, InRange, Running, BeforeRegister
    <3>2. Known = S \cup {gs}
      BY <2>2 DEF Known
    <3>3. Len(saved) + 1 <= k
      BY <1>1, <1>2, <2>2 DEF ActorsKnown, Room
    <3>4. Known \subseteq Step /\ Cardinality(Known) \in Nat /\ Cardinality(Known) <= Cardinality(S) + 1
      BY <1>2, <3>1, <3>2, OneStepMore
    <3> QED
      BY <1>2, <3>3, <3>4
  <2> QED
    BY <2>1, <2>2
<1> PICK R, K : R = A \ Known /\ K = Known
  OBVIOUS
<1>5. /\ IsFiniteSet(R) /\ Cardinality(R) \in Nat /\ IsFiniteSet(K) /\ Cardinality(K) \in Nat
      /\ R \cup K \subseteq Step /\ A \subseteq R \cup K
  BY <1>1, <1>4, StepsFinite
<1>6. Cardinality(R \cup K) = Cardinality(R) + Cardinality(K) - Cardinality(R \cap K)
  BY <1>5, FS_Union
<1>7. Cardinality(R \cap K) \in Nat
  BY <1>5, StepsFinite
<1>8. /\ Cardinality(A) \in Nat /\ Cardinality(R \cup K) \in Nat
      /\ Cardinality(A) <= Cardinality(R \cup K)
  BY <1>5, FewerSteps
<1>9. (n - 1) * k + k = n * k /\ (n - 1) * k \in Int /\ n * k \in Int
  OBVIOUS
<1>10. Cardinality(A) <= n * k
  BY <1>3, <1>4, <1>5, <1>6, <1>7, <1>8, <1>9
<1> QED
  BY <1>8, <1>10

\* Steps after which rotation knows of all that it knew of before, or more.
LEMMA ActorsStep ==
  ASSUME IInv, ActorsKnown, config' = config, run' = run,
         (Actors \ Known)' \subseteq Actors \ Known,
         config.maxKeep > 0 =>
           /\ Len(saved') <= config.maxKeep
           /\ BeforeRegister' /\ config.maxKeep > 1 => Len(saved') <= config.maxKeep - 1
  PROVE  ActorsKnown'
<1> SUFFICES ASSUME config.maxKeep > 0
             PROVE  Cardinality((Actors \ Known)') <= (run - 1) * Room
  BY DEF ActorsKnown, Room
<1> PICK A : A = Actors \ Known
  OBVIOUS
<1> PICK B : B = (Actors \ Known)'
  OBVIOUS
<1>1. Cardinality(A) <= (run - 1) * Room
  BY DEF ActorsKnown
<1>2. B \subseteq A /\ A \subseteq Step
  BY ConfigType
<1>3. Cardinality(A) \in Nat /\ Cardinality(B) \in Nat /\ Cardinality(B) <= Cardinality(A)
  BY <1>2, FewerSteps
<1>4. (run - 1) * Room \in Int
  BY ConfigType
<1> QED
  BY <1>1, <1>3, <1>4

\* Steps that make no directory and write no shard but that of the checkpoint being saved.
LEMMA QuietStep ==
  ASSUME IInv, SInv, config' = config, run' = run, saved' = saved,
         BeforeRegister' <=> BeforeRegister, gs' = gs \/ ~ BeforeRegister,
         DOMAIN disk' \subseteq DOMAIN disk,
         \A n \in DOMAIN disk' :
           \/ disk[n].shard = NoFiles => disk'[n].shard = NoFiles
           \/ n = gs /\ BeforeRegister,
         config.keepBest > 0 /\ config.save % config.test = 0 => Crowded' \/ ~ Crowded
  PROVE  SInv'
<1>1. DirectoriesBounded'
  <2> SUFFICES ASSUME config.keepBest > 0, config.save % config.test = 0
               PROVE  /\ Cardinality(DOMAIN disk') <= Kept + run
                      /\ ~ Crowded' => Cardinality(DOMAIN disk') <= Kept + (run - 1)
    BY DEF DirectoriesBounded, Kept
  <2> PICK A, B : A = DOMAIN disk /\ B = DOMAIN disk'
    OBVIOUS
  <2>1. Cardinality(A) \in Nat /\ Cardinality(B) \in Nat /\ Cardinality(B) <= Cardinality(A)
    BY ConfigType, FewerSteps
  <2>2. /\ Cardinality(A) <= Kept + run
        /\ ~ Crowded' => Cardinality(A) <= Kept + (run - 1)
    BY DEF SInv, DirectoriesBounded
  <2>3. Kept \in Nat /\ run \in Nat
    BY ConfigType
  <2> QED
    BY <2>1, <2>2, <2>3
<1>2. ActorsKnown'
  <2>1. Known' = Known
    BY DEF Known
  <2>2. (Actors \ Known)' \subseteq Actors \ Known
    BY <2>1 DEF Actors, Known, NoFiles
  <2> QED
    BY <2>2, ActorsStep DEF SInv, ActorsKnown
<1> QED
  BY <1>1, <1>2 DEF SInv

-----------------------------------------------------------------------------
(* The steps.                                                              *)

LEMMA InitS == Init => SInv
<1> SUFFICES ASSUME Init PROVE SInv
  OBVIOUS
<1>1. IInv
  BY InitInv
<1>2. DOMAIN disk = {} /\ Actors = {} /\ Cardinality({}) = 0 /\ Len(saved) = 0 /\ run = 1 /\ phase = "load"
  BY FS_EmptySet DEF Init, Nothing, Actors
<1>3. Kept \in Nat /\ Room \in Nat /\ config \in Config
  BY <1>1, ConfigType
<1>4. Actors \ Known = {} /\ (run - 1) * Room = 0
  BY <1>2, <1>3
<1> QED
  BY <1>2, <1>3, <1>4 DEF SInv, DirectoriesBounded, ActorsKnown, BeforeRegister, Config

\* A restart makes room for one more run and forgets the paths.
LEMMA RestartS ==
  ASSUME IInv, SInv, Restart
  PROVE  SInv'
<1>1. /\ config' = config /\ run' = run + 1 /\ disk' = disk /\ saved' = <<>> /\ phase' = "load"
  BY DEF Restart, diskVars
<1>2. /\ Kept \in Nat /\ run \in Nat \ {0} /\ Room \in Nat /\ config \in Config
      /\ DOMAIN disk \subseteq Step
  BY ConfigType
<1>3. DirectoriesBounded'
  <2> SUFFICES ASSUME config.keepBest > 0, config.save % config.test = 0
               PROVE  /\ Cardinality(DOMAIN disk) <= Kept + (run + 1)
                      /\ Cardinality(DOMAIN disk) <= Kept + ((run + 1) - 1)
    BY <1>1 DEF DirectoriesBounded, Kept
  <2>1. Cardinality(DOMAIN disk) <= Kept + run
    BY DEF SInv, DirectoriesBounded
  <2>2. Cardinality(DOMAIN disk) \in Nat
    BY <1>2, StepsFinite
  <2> QED
    BY <1>2, <2>1, <2>2
<1>4. ActorsKnown'
  <2> SUFFICES ASSUME config.maxKeep > 0 PROVE ActorsKnown'
    BY <1>1 DEF ActorsKnown
  <2>1. Cardinality(Actors) \in Nat /\ Cardinality(Actors) <= run * Room
    BY ActorsCounted DEF SInv
  <2>2. ~ BeforeRegister' /\ Len(saved') = 0 /\ Elements(saved') = {}
    BY <1>1 DEF BeforeRegister, Elements
  <2>3. (Actors \ Known)' = Actors
    BY <1>1, <2>2 DEF Known, Actors, NoFiles
  <2>4. (run' - 1) * Room' = run * Room
    BY <1>1, <1>2 DEF Room
  <2>5. Cardinality((Actors \ Known)') <= (run' - 1) * Room'
    BY <2>1, <2>3, <2>4
  <2>6. Len(saved') <= config'.maxKeep
    BY <1>1, <1>2, <2>2 DEF Config
  <2> QED
    BY <2>2, <2>5, <2>6 DEF ActorsKnown
<1> QED
  BY <1>3, <1>4 DEF SInv

\* ensure_checkpoint_capacity: what it removes is no longer known to rotation, and the new
\* directory is the one that is written next.
LEMMA BeginSaveS ==
  ASSUME IInv, SInv, BeginSave
  PROVE  SInv'
<1>1. /\ config' = config /\ run' = run /\ phase = "save" /\ phase' = "shards" /\ gs' = gs
      /\ saved' = Capacity(saved)
  BY DEF BeginSave
<1>2. /\ Kept \in Nat /\ run \in Nat \ {0} /\ config \in Config
      /\ DOMAIN disk \subseteq Step /\ gs \in Step /\ saved \in Seq(Step)
  BY <1>1, ConfigType DEF IInv, InRange, Running
<1>3. DOMAIN disk' = DOMAIN disk \cup {gs}
  BY <1>2 DEF BeginSave, Removed, With
<1>4. \A n \in DOMAIN disk' : disk'[n].shard # NoFiles =>
        n \in Actors /\ n \notin Elements(saved) \ Elements(saved')
  <2> DEFINE d == Removed(Elements(saved) \ Elements(saved'))
  <2>1. /\ DOMAIN d = DOMAIN disk
        /\ \A n \in DOMAIN disk : d[n].shard # NoFiles =>
             n \in Actors /\ n \notin Elements(saved) \ Elements(saved')
    <3>1. disk \in [DOMAIN disk -> Directory]
      BY DEF IInv, TypeOK
    <3> QED
      BY <3>1 DEF Removed, Actors, Directory
  <2>2. \/ disk' = d
        \/ disk' = With(d, gs, [shard |-> NoFiles, teacher |-> NoFiles, data |-> FALSE])
    BY DEF BeginSave
  <2> HIDE DEF d
  <2> QED
    BY <1>3, <2>1, <2>2 DEF With
<1>5. DirectoriesBounded'
  <2> SUFFICES ASSUME config.keepBest > 0, config.save % config.test = 0
               PROVE  Cardinality(DOMAIN disk') <= Kept + run
    BY <1>1 DEF DirectoriesBounded, Kept, Crowded, Writing
  <2>1. Cardinality(DOMAIN disk) <= Kept + (run - 1)
    BY <1>1 DEF SInv, DirectoriesBounded, Crowded, Writing
  <2>2. /\ Cardinality(DOMAIN disk) \in Nat /\ Cardinality(DOMAIN disk') \in Nat
        /\ Cardinality(DOMAIN disk') <= Cardinality(DOMAIN disk) + 1
    BY <1>2, <1>3, OneStepMore
  <2> QED
    BY <1>2, <2>1, <2>2
<1>6. ActorsKnown'
  <2>1. ~ BeforeRegister /\ BeforeRegister'
    BY <1>1 DEF BeforeRegister
  <2>2. (Actors \ Known)' \subseteq Actors \ Known
    BY <1>1, <1>4, <2>1 DEF Actors, Known, NoFiles
  <2>3. config.maxKeep > 0 =>
          /\ Len(saved') <= config.maxKeep
          /\ config.maxKeep > 1 => Len(saved') <= config.maxKeep - 1
    <3> SUFFICES ASSUME config.maxKeep > 0
                 PROVE  /\ Len(saved') <= config.maxKeep
                        /\ config.maxKeep > 1 => Len(saved') <= config.maxKeep - 1
      OBVIOUS
    <3> PICK k \in Nat \ {0} : k = config.maxKeep
      BY <1>2 DEF Config
    <3>1. CASE k > 1
      <4>1. Len(Latest(saved, k - 1)) <= k - 1 /\ Len(Latest(saved, k - 1)) \in Nat
        <5>1. k - 1 \in Nat
          BY <3>1
        <5>2. Latest(saved, k - 1) \in Seq(Step) /\ Len(Latest(saved, k - 1)) <= k - 1
          BY <1>2, <5>1, LatestLength, LatestType
        <5> QED
          BY <5>2, LenProperties
      <4> QED
        BY <1>1, <3>1, <4>1 DEF Capacity
    <3>2. CASE ~ (k > 1)
      BY <1>1, <3>2 DEF Capacity, SInv, ActorsKnown
    <3> QED
      BY <3>1, <3>2
  <2> QED
    BY <1>1, <2>2, <2>3, ActorsStep DEF SInv
<1> QED
  BY <1>5, <1>6 DEF SInv

\* register_checkpoint: the checkpoint being written becomes the last of the paths.
LEMMA RegisterS ==
  ASSUME IInv, SInv, Register
  PROVE  SInv'
<1>1. /\ config' = config /\ run' = run /\ phase = "teachers" /\ phase' = phase /\ gs' = gs
      /\ saved' = Registered(Append(saved, gs)) /\ todo' = todo \ {Rotate}
  BY DEF Register
<1>2. /\ Kept \in Nat /\ run \in Nat \ {0} /\ config \in Config
      /\ DOMAIN disk \subseteq Step /\ gs \in Step /\ saved \in Seq(Step)
  BY <1>1, ConfigType DEF IInv, InRange, Running
<1>3. /\ DOMAIN disk' = DOMAIN disk
      /\ \A n \in DOMAIN disk' : disk'[n].shard # NoFiles =>
           n \in Actors /\ n \notin Elements(saved) \ Elements(saved')
  <2>1. disk \in [DOMAIN disk -> Directory]
    BY DEF IInv, TypeOK
  <2> QED
    BY <2>1 DEF Register, Removed, Actors, Directory
<1>4. DirectoriesBounded'
  BY <1>1, <1>3 DEF SInv, DirectoriesBounded, Kept, Crowded, Writing
<1>5. ActorsKnown'
  <2> SUFFICES ASSUME config.maxKeep > 0 PROVE ActorsKnown'
    BY <1>1 DEF ActorsKnown
  <2> PICK k \in Nat \ {0} : k = config.maxKeep
    BY <1>2 DEF Config
  <2>1. ~ BeforeRegister' /\ BeforeRegister
    BY <1>1 DEF BeforeRegister, Register
  <2> PICK p : p = Append(saved, gs)
    OBVIOUS
  <2>2. p \in Seq(Step) /\ p # <<>> /\ p[Len(p)] = gs
    <3>1. /\ p \in Seq(Step) /\ Len(p) = Len(saved) + 1 /\ p[Len(saved) + 1] = gs
          /\ Len(saved) \in Nat
      BY <1>2, AppendProperties, LenProperties
    <3> QED
      BY <3>1, EmptySeq
  <2>3. saved' = Latest(p, k)
    BY <1>1 DEF Registered
  <2>4. gs \in Elements(saved') /\ Len(saved') <= k
    BY <2>2, <2>3, LatestKeepsLast, LatestLength
  <2>5. (Actors \ Known)' \subseteq Actors \ Known
    BY <1>3, <2>1, <2>4 DEF Actors, Known, NoFiles
  <2> QED
    BY <1>1, <2>1, <2>4, <2>5, ActorsStep DEF SInv
<1> QED
  BY <1>4, <1>5 DEF SInv

\* The retention goes on when exactly the retained directories are left.
LEMMA PrunedS ==
  ASSUME IInv, SInv, Pruned
  PROVE  SInv'
<1>1. /\ config' = config /\ run' = run /\ phase = "prune" /\ disk' = disk
      /\ saved' = saved /\ gs' = gs
  BY DEF Pruned, memoryVars, diskVars
<1>2. CASE phase' = "raised"
  BY <1>1, <1>2, QuietStep DEF BeforeRegister, Crowded
<1>3. CASE phase' = "retrack" /\ DOMAIN disk = Retained
  <2>1. /\ Kept \in Nat /\ run \in Nat \ {0} /\ config \in Config
        /\ DOMAIN disk \subseteq Step
    BY ConfigType
  <2>2. gs \in DOMAIN record /\ gs \in Step
    BY <1>1 DEF IInv, InRange, TypeOK
  <2> PICK h : h = History
    OBVIOUS
  <2>3. DOMAIN h \subseteq Step /\ h \in [DOMAIN h -> Score]
    <3>1. /\ record \in [DOMAIN record -> Score]
          /\ DOMAIN manifest \subseteq Step /\ manifest \in [DOMAIN manifest -> Score]
      BY DEF IInv, TypeOK
    <3> QED
      BY <2>2, <3>1 DEF History, With
  <2>4. /\ Best(h) \subseteq Step
        /\ Cardinality(Best(h)) \in Nat /\ Cardinality(Best(h)) <= config.keepBest
    BY <2>1, <2>3, FewBest DEF Config
  <2>5. Cardinality(DOMAIN disk) \in Nat /\ Cardinality(DOMAIN disk) <= Kept
    <3>1. CASE config.keepCurrent
      <4>1. DOMAIN disk \subseteq Best(h) \cup {gs} /\ Best(h) \cup {gs} \subseteq Step
        BY <1>3, <2>2, <2>4 DEF Retained
      <4>2. /\ Cardinality(DOMAIN disk) \in Nat /\ Cardinality(Best(h) \cup {gs}) \in Nat
            /\ Cardinality(DOMAIN disk) <= Cardinality(Best(h) \cup {gs})
        BY <4>1, FewerSteps
      <4>3. Cardinality(Best(h) \cup {gs}) <= Cardinality(Best(h)) + 1
        BY <2>2, <2>4, OneStepMore
      <4>4. Kept = config.keepBest + 1 /\ config.keepBest \in Nat
        BY <2>1, <3>1 DEF Kept, Config
      <4> QED
        BY <2>4, <4>2, <4>3, <4>4
    <3>2. CASE ~ config.keepCurrent
      <4>1. DOMAIN disk = Best(h)
        BY <1>3, <3>2 DEF Retained
      <4>2. Kept = config.keepBest
        BY <2>1, <3>2 DEF Kept, Config
      <4> QED
        BY <2>4, <4>1, <4>2
    <3> QED
      BY <3>1, <3>2
  <2>6. DirectoriesBounded'
    BY <1>1, <2>1, <2>5 DEF DirectoriesBounded, Kept
  <2>7. ActorsKnown'
    BY <1>1, <1>3, ActorsStep DEF SInv, ActorsKnown, Actors, Known, BeforeRegister, NoFiles
  <2> QED
    BY <2>6, <2>7 DEF SInv
<1> QED
  BY <1>2, <1>3 DEF Pruned

LEMMA NextS ==
  ASSUME IInv, SInv, [Next]_vars
  PROVE  SInv'
<1> DEFINE Shards(n) == disk[n].shard = NoFiles => disk'[n].shard = NoFiles
<1>0. disk \in [DOMAIN disk -> Directory]
  BY DEF IInv, TypeOK
<1>1. CASE Load
  BY <1>1, QuietStep DEF Load, diskVars, BeforeRegister, Crowded, Writing
<1>2. CASE Restart
  BY <1>2, RestartS
<1>3. CASE \E applied \in BOOLEAN : Update(applied)
  BY <1>3, QuietStep DEF Update, diskVars, BeforeRegister, Crowded, Writing
<1>4. CASE BeginSave
  BY <1>4, BeginSaveS
<1>5. CASE Register
  BY <1>5, RegisterS
<1>6. CASE WriteData
  <2>1. /\ config' = config /\ run' = run /\ saved' = saved /\ gs' = gs
        /\ phase = "data" /\ phase' = "tracker"
    BY <1>6 DEF WriteData
  <2>2. DOMAIN disk' = DOMAIN disk /\ \A n \in DOMAIN disk' : Shards(n)
    BY <1>0, <1>6 DEF WriteData, Directory
  <2> QED
    BY <2>1, <2>2, QuietStep DEF BeforeRegister, Crowded, Writing
<1>7. CASE EmptyTracker
  BY <1>7, QuietStep DEF EmptyTracker, memoryVars, BeforeRegister, Crowded, Writing
<1>8. CASE WriteTracker
  <2>1. /\ config' = config /\ run' = run /\ saved' = saved /\ gs' = gs /\ disk' = disk
        /\ phase \in {"commit", "recommit"} /\ ~ BeforeRegister /\ ~ BeforeRegister'
    BY <1>8 DEF WriteTracker, memoryVars, BeforeRegister
  <2>2. config.keepBest > 0 /\ config.save % config.test = 0 => Crowded' \/ ~ Crowded
    <3> SUFFICES ASSUME config.keepBest > 0, config.save % config.test = 0, phase = "commit"
                 PROVE  Crowded'
      BY <2>1 DEF Crowded, Writing
    <3>1. gs \in Step /\ Saves /\ config \in Config
      BY ConfigType DEF IInv, InRange, Running, Writing
    <3>2. Tests
      BY <3>1, SavesAreTested
    <3> QED
      BY <1>8, <3>2 DEF WriteTracker, Crowded
  <2> QED
    BY <2>1, <2>2, QuietStep
<1>9. ASSUME NEW r \in Rank, WriteShard(r) PROVE SInv'
  <2>1. /\ config' = config /\ run' = run /\ saved' = saved /\ gs' = gs
        /\ phase = "shards" /\ BeforeRegister /\ BeforeRegister' /\ Crowded'
    BY <1>9 DEF WriteShard, BeforeRegister, Crowded, Writing
  <2>2. DOMAIN disk' = DOMAIN disk /\ \A n \in DOMAIN disk' : n # gs => Shards(n)
    BY <1>0, <1>9 DEF WriteShard, Directory
  <2> QED
    BY <2>1, <2>2, QuietStep
<1>10. ASSUME NEW r \in Rank, WriteTeacher(r) PROVE SInv'
  <2>1. /\ config' = config /\ run' = run /\ saved' = saved /\ gs' = gs /\ todo' = todo \ {r}
        /\ phase = "teachers" /\ phase' = Written(todo')
    BY <1>10 DEF WriteTeacher
  <2>2. Crowded' /\ (BeforeRegister' <=> BeforeRegister)
    <3>1. Rotate \in todo' <=> Rotate \in todo
      BY <2>1, RunAssumption
    <3> QED
      BY <2>1, <3>1 DEF Written, BeforeRegister, Crowded, Writing
  <2>3. DOMAIN disk' = DOMAIN disk /\ \A n \in DOMAIN disk' : Shards(n)
    BY <1>0, <1>10 DEF WriteTeacher, Directory
  <2> QED
    BY <2>1, <2>2, <2>3, QuietStep
<1>11. CASE \E v \in Score : Validate(v)
  BY <1>11, QuietStep DEF Validate, memoryVars, BeforeRegister, Crowded
<1>12. CASE Prune
  <2>1. /\ config' = config /\ run' = run /\ saved' = saved /\ gs' = gs
        /\ phase = "prune" /\ phase' = "prune"
    BY <1>12 DEF Prune, memoryVars
  <2>2. DOMAIN disk' \subseteq DOMAIN disk /\ \A n \in DOMAIN disk' : Shards(n)
    BY <1>12 DEF Prune
  <2> QED
    BY <2>1, <2>2, QuietStep DEF BeforeRegister, Crowded
<1>13. CASE PruneSome
  <2>1. /\ config' = config /\ run' = run /\ saved' = saved /\ gs' = gs
        /\ phase = "prune" /\ phase' = "prune"
    BY <1>13 DEF PruneSome, memoryVars
  <2>2. DOMAIN disk' = DOMAIN disk /\ \A n \in DOMAIN disk' : Shards(n)
    <3> PICK R \in SUBSET Rank, T \in SUBSET Rank, d \in BOOLEAN :
          disk' = [disk EXCEPT ![MinOf(Doomed)] =
                     [shard |-> [r \in Rank |-> IF r \in R THEN @.shard[r] ELSE NoFile],
                      teacher |-> [r \in Rank |-> IF r \in T THEN @.teacher[r] ELSE NoFile],
                      data |-> d /\ @.data]]
      BY <1>13 DEF PruneSome
    <3> PICK m : m = MinOf(Doomed)
      OBVIOUS
    <3>1. DOMAIN disk' = DOMAIN disk /\ \A n \in DOMAIN disk' : n # m => disk'[n] = disk[n]
      OBVIOUS
    <3>2. m \in DOMAIN disk =>
            disk'[m].shard = [r \in Rank |-> IF r \in R THEN disk[m].shard[r] ELSE NoFile]
      OBVIOUS
    <3>3. \A n \in DOMAIN disk' : n = m => Shards(n)
      BY <3>1, <3>2 DEF NoFiles
    <3> QED
      BY <3>1, <3>3
  <2> QED
    BY <2>1, <2>2, QuietStep DEF BeforeRegister, Crowded
<1>14. CASE Pruned
  BY <1>14, PrunedS
<1>15. CASE WriteManifest
  BY <1>15, QuietStep DEF WriteManifest, memoryVars, BeforeRegister, Crowded, Writing
<1>16. CASE NextStep
  BY <1>16, QuietStep DEF NextStep, diskVars, BeforeRegister, Crowded, Writing
<1>17. CASE UNCHANGED vars
  BY <1>17, QuietStep DEF vars, memoryVars, diskVars, BeforeRegister, Crowded, Writing
<1> QED
  BY <1>1, <1>2, <1>3, <1>4, <1>5, <1>6, <1>7, <1>8, <1>9, <1>10, <1>11, <1>12, <1>13,
     <1>14, <1>15, <1>16, <1>17 DEF Next

-----------------------------------------------------------------------------
(* Theorems.                                                               *)

\* Between one retention and the next, and one rotation and the next, _save_checkpoint
\* adds one directory; a restart leaves behind what it finds.
THEOREM SpaceInvariance == Spec => []SInv
<1>1. IInv /\ SInv /\ [Next]_vars => SInv'
  BY NextS
<1> QED
  BY <1>1, InitS, Invariance, PTL DEF Spec

\* retain_best_verpo_contrastive_checkpoints: when every save is validated, the disk holds
\* one directory per start more than it keeps, at most, at any moment; stated for a
\* retention that keeps the best checkpoints only, where it keeps keep_best.
THEOREM PeakIsBounded == Spec => []PeakBounded
<1>1. IInv /\ SInv => PeakBounded
  <2> SUFFICES ASSUME IInv, SInv, config.keepBest > 0, ~ config.keepCurrent,
                      config.save % config.test = 0
               PROVE  Cardinality(DOMAIN disk) <= config.keepBest + run
    BY DEF PeakBounded
  <2>1. config.keepBest \in Nat /\ run \in Nat
    BY ConfigType DEF Config
  <2>2. Kept = config.keepBest
    BY <2>1 DEF Kept
  <2> QED
    BY <2>2 DEF SInv, DirectoriesBounded
<1> QED
  BY <1>1, Invariance, SpaceInvariance, PTL

\* ensure_checkpoint_capacity and register_checkpoint: each start of the run leaves as many
\* actor directories as max_actor_ckpt_to_keep allows, at most, two when it allows one.
THEOREM ActorsAreBounded == Spec => []ActorsBounded
<1>1. IInv /\ SInv => ActorsBounded
  BY ActorsCounted DEF SInv, ActorsBounded, Actors, Room
<1> QED
  BY <1>1, Invariance, SpaceInvariance, PTL

=============================================================================
