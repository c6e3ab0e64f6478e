---------------------- MODULE RolloutServing_proofs ----------------------
(***************************************************************************)
(* Invariants of RolloutServing for all sets of replicas and requests and  *)
(* all configurations.  IInv, inductive, adds to the type invariant which  *)
(* replicas are in the pool, paused, asleep and reloaded in which phase of *)
(* the trainer, with those whose abort raised set apart, and how the tags  *)
(* of a request are bounded by the versions of the replicas it can still   *)
(* reach; there is one lemma per action. That the in-flight counts are     *)
(* honest rests on it and on how each action changes the set of requests   *)
(* held at a replica.  FInv counts the requests in flight and those the    *)
(* hybrid replicas keep while they train.                                  *)
(***************************************************************************)
EXTENDS RolloutServing, TLAPS, FiniteSetTheorems

\* Where a request is, its route and its release agree.
RoutesAgree ==
  \A r \in Request :
    /\ born[r] = 0 => loc[r] = "none"
    /\ loc[r] \in {"routed", "running"} => r \in DOMAIN server
    /\ r \in releasing => r \in DOMAIN server /\ loc[r] \in {"ready", "answered", "consumed"}

\* Who is in the balancer in which phase.
InPhase ==
  /\ todo \subseteq Targets(phase)
  /\ config.colocated =>
       /\ Pool = Hybrid
       /\ phase \notin {"detach", "attach", "sync_abort", "sync_load", "sync_resume"}
  /\ ~config.colocated =>
       /\ Standalone \subseteq Pool
       /\ Serving \/ Pool = Standalone
       /\ phase = "detach" => Serving
       /\ phase \in {"abort", "sleep", "update", "sync_abort", "sync_load", "sync_resume",
                     "load", "resume", "attach"} => ~Serving

\* The hybrid replicas are the trainer's.
Away ==
  IF config.colocated THEN phase \in {"sleep", "update", "load"}
                      ELSE ~Serving /\ phase \notin {"abort", "resume", "attach"}

\* Paused, or its latest abort raised.
Halted == paused \cup missed

\* Which engines are paused in which phase, but for aborts that raised.
PausedInPhase ==
  config.pauses =>
    /\ asleep \subseteq Hybrid \cap Halted
    /\ Away => Hybrid \subseteq Halted
    /\ phase = "abort" => Hybrid \ todo \subseteq Halted
    /\ phase = "load" => asleep \subseteq todo
    /\ phase \in {"resume", "attach"} => asleep = {}
    /\ phase = "sync_abort" => Standalone \ todo \subseteq Halted
    /\ phase = "sync_load" => Standalone \subseteq Halted

\* An engine that its abort paused runs nothing.
PausedIdle ==
  config.pauses => \A r \in Request : loc[r] = "running" => server[r] \notin paused \ missed

\* The replicas that are synchronised together, and the phase that does it.
Fleet == IF config.colocated THEN Hybrid ELSE Standalone
Loading == IF config.colocated THEN "load" ELSE "sync_load"

\* Which weights the replicas have in which phase.
VersionsInPhase ==
  /\ \A s \in Server : version[s] <= gs
  /\ phase # "done" => gs <= config.steps
  /\ phase \notin {Loading, "raised"} => \A s, t \in Fleet : version[s] = version[t]
  /\ phase = Loading => \A s \in Fleet \ todo : version[s] = gs
  /\ ~config.colocated /\ Aligned =>
       /\ \A h \in Hybrid, s \in Standalone : version[h] <= version[s]
       /\ phase \in {"sync_resume", "load", "resume", "attach"} =>
            \A s \in Standalone : version[s] = gs
       /\ phase = "load" => \A h \in Hybrid \ todo : version[h] = gs
       /\ phase \in {"resume", "attach"} => \A h \in Hybrid : version[h] = gs

\* The tags of a request never exceed the weights it can meet next.
TagsBounded ==
  /\ \A r \in Request : born[r] = 0 => first[r] = NoTag /\ last[r] = NoTag
  /\ Aligned => \A r \in Request :
       /\ first[r] <= last[r]
       /\ loc[r] = "ready" => \A s \in Pool : last[r] <= version[s]
       /\ loc[r] \in {"routed", "running"} => last[r] <= version[server[r]]

IInv ==
  /\ TypeOK
  /\ RoutesAgree
  /\ InPhase
  /\ PausedInPhase
  /\ PausedIdle
  /\ VersionsInPhase
  /\ TagsBounded


LEMMA InitInv == Init => IInv
  BY ServingAssumption DEF Init, IInv, TypeOK, Pool, Server, Phase, Loc, Config, NoTag,
     RoutesAgree, InPhase, Serving, PausedInPhase, Away, PausedIdle, VersionsInPhase, Fleet,
     Loading, TagsBounded

LEMMA AcquireInv ==
  ASSUME IInv, NEW r \in Request, Acquire(r)
  PROVE  IInv'
<1> USE DEF IInv
<1>1. TypeOK'
  BY ServingAssumption DEF Acquire, TypeOK, Pool, Loc, Candidates, LeastLoaded, trainerVars,
     replicaVars
<1>2. RoutesAgree'
  BY ServingAssumption DEF Acquire, RoutesAgree
<1>3. InPhase'
  BY ServingAssumption DEF Acquire, InPhase, Pool, Serving, trainerVars
<1>4. PausedInPhase'
  BY ServingAssumption DEF Acquire, PausedInPhase, Halted, Away, Pool, Serving, trainerVars,
     replicaVars
<1>5. PausedIdle'
  BY ServingAssumption DEF Acquire, PausedIdle, RoutesAgree, trainerVars, replicaVars
<1>6. VersionsInPhase'
  BY ServingAssumption DEF Acquire, VersionsInPhase, Fleet, Loading, Aligned, trainerVars,
     replicaVars
<1>7. TagsBounded'
  BY ServingAssumption DEF Acquire, TypeOK, TagsBounded, RoutesAgree, Aligned, Pool,
     Candidates, LeastLoaded, trainerVars, replicaVars
<1> QED
  BY <1>1, <1>2, <1>3, <1>4, <1>5, <1>6, <1>7

LEMMA ArriveInv ==
  ASSUME IInv, NEW r \in Request, Arrive(r)
  PROVE  IInv'
<1> USE DEF IInv
<1>1. TypeOK'
  BY ServingAssumption DEF Arrive, TypeOK, Pool, Loc, trainerVars, balancerVars, replicaVars
<1>2. RoutesAgree'
  BY ServingAssumption DEF Arrive, RoutesAgree, balancerVars
<1>3. PausedIdle'
  BY ServingAssumption DEF Arrive, PausedIdle, trainerVars, balancerVars, replicaVars
<1>4. TagsBounded'
  BY ServingAssumption DEF Arrive, TagsBounded, Aligned, Pool, trainerVars, balancerVars,
     replicaVars
<1>5. InPhase' /\ PausedInPhase' /\ VersionsInPhase'
  BY ServingAssumption DEF Arrive, InPhase, PausedInPhase, Halted, VersionsInPhase, Away, Aligned,
     Serving, Fleet, Loading, Pool, trainerVars, balancerVars, replicaVars
<1> QED
  BY <1>1, <1>2, <1>3, <1>4, <1>5

LEMMA AnswerInv ==
  ASSUME IInv, NEW r \in Request, Answer(r)
  PROVE  IInv'
<1> USE DEF IInv
<1>1. TypeOK'
  BY ServingAssumption DEF Answer, TypeOK, Pool, Loc, RoutesAgree, Tag, trainerVars,
     balancerVars, replicaVars
<1>2. RoutesAgree'
  BY ServingAssumption DEF Answer, TypeOK, RoutesAgree, balancerVars
<1>3. PausedIdle'
  BY ServingAssumption DEF Answer, PausedIdle, trainerVars, balancerVars, replicaVars
<1>4. TagsBounded'
  BY ServingAssumption DEF Answer, TypeOK, TagsBounded, RoutesAgree, Aligned, Pool, NoTag,
     Tag, trainerVars, balancerVars, replicaVars
<1>5. InPhase' /\ PausedInPhase' /\ VersionsInPhase'
  BY ServingAssumption DEF Answer, InPhase, PausedInPhase, Halted, VersionsInPhase, Away, Aligned,
     Serving, Fleet, Loading, Pool, trainerVars, balancerVars, replicaVars
<1> QED
  BY <1>1, <1>2, <1>3, <1>4, <1>5

LEMMA ReleaseInv ==
  ASSUME IInv, NEW r \in Request, Release(r)
  PROVE  IInv'
<1> USE DEF IInv
<1>1. TypeOK'
  BY ServingAssumption DEF Release, TypeOK, Pool, Released, trainerVars, replicaVars
<1>2. RoutesAgree'
  BY ServingAssumption DEF Release, RoutesAgree
<1>3. InPhase'
  BY ServingAssumption DEF Release, InPhase, Pool, Serving, Released, trainerVars
<1>4. PausedInPhase'
  BY ServingAssumption DEF Release, PausedInPhase, Halted, Away, Pool, Serving, Released,
     trainerVars, replicaVars
<1>5. PausedIdle'
  BY ServingAssumption DEF Release, PausedIdle, RoutesAgree, trainerVars, replicaVars
<1>6. VersionsInPhase'
  BY ServingAssumption DEF Release, VersionsInPhase, Fleet, Loading, Aligned, trainerVars,
     replicaVars
<1>7. TagsBounded'
  BY ServingAssumption DEF Release, TagsBounded, RoutesAgree, Aligned, Pool, Released,
     trainerVars, replicaVars
<1> QED
  BY <1>1, <1>2, <1>3, <1>4, <1>5, <1>6, <1>7

LEMMA AddBatchInv ==
  ASSUME IInv, AddBatch
  PROVE  IInv'
<1> USE DEF IInv
<1>1. TypeOK'
  BY ServingAssumption DEF AddBatch, TypeOK, Pool, Phase, Loc, Targets, Register, Go,
     balancerVars, replicaVars
<1>2. RoutesAgree'
  BY ServingAssumption DEF AddBatch, TypeOK, RoutesAgree, Register, balancerVars
<1>3. InPhase'
  BY ServingAssumption DEF AddBatch, InPhase, Pool, Serving, Go, balancerVars
<1>4. PausedInPhase'
  BY ServingAssumption DEF AddBatch, PausedInPhase, Halted, Away, Pool, Serving, Go, balancerVars,
     replicaVars
<1>5. PausedIdle'
  BY ServingAssumption DEF AddBatch, PausedIdle, Register, balancerVars, replicaVars
<1>6. VersionsInPhase'
  BY ServingAssumption DEF AddBatch, VersionsInPhase, Fleet, Loading, Aligned, Go,
     replicaVars
<1>7. TagsBounded'
  BY ServingAssumption DEF AddBatch, TypeOK, TagsBounded, Aligned, Pool, NoTag, Register,
     balancerVars, replicaVars
<1> QED
  BY <1>1, <1>2, <1>3, <1>4, <1>5, <1>6, <1>7

LEMMA SampleInv ==
  ASSUME IInv, Sample
  PROVE  IInv'
<1> USE DEF IInv
<1>1. TypeOK'
  BY ServingAssumption DEF Sample, TypeOK, Pool, Server, Phase, Loc, Targets, Go,
     balancerVars, replicaVars
<1>2. RoutesAgree'
  BY ServingAssumption DEF Sample, RoutesAgree, Answered, balancerVars
<1>3. InPhase'
  BY ServingAssumption DEF Sample, InPhase, Pool, Serving, Go, balancerVars
<1>4. PausedInPhase'
  BY ServingAssumption DEF Sample, PausedInPhase, Halted, Away, Targets, Pool, Serving, Go,
     balancerVars, replicaVars
<1>5. PausedIdle'
  BY ServingAssumption DEF Sample, PausedIdle, balancerVars, replicaVars
<1>6. VersionsInPhase'
  BY ServingAssumption DEF Sample, VersionsInPhase, Fleet, Loading, Aligned, Go, replicaVars
<1>7. TagsBounded'
  BY ServingAssumption DEF Sample, TypeOK, TagsBounded, Aligned, Pool, NoTag, balancerVars,
     replicaVars
<1> QED
  BY <1>1, <1>2, <1>3, <1>4, <1>5, <1>6, <1>7

LEMMA DetachInv ==
  ASSUME IInv, Detach
  PROVE  IInv'
<1> USE DEF IInv
<1>1. TypeOK'
  BY ServingAssumption DEF Detach, TypeOK, Pool, Server, Phase, Targets, Go, Remaining,
     Then, replicaVars, clientVars
<1>2. InPhase'
  BY ServingAssumption DEF Detach, TypeOK, InPhase, Pool, Server, Serving, Go, Remaining,
     Then
<1>3. PausedInPhase'
  BY ServingAssumption DEF Detach, PausedInPhase, Halted, Away, Targets, Go, Then, replicaVars
<1>4. VersionsInPhase'
  BY ServingAssumption DEF Detach, VersionsInPhase, Fleet, Loading, Aligned, Go, Then,
     replicaVars
<1>5. TagsBounded'
  BY ServingAssumption DEF Detach, TagsBounded, Aligned, Pool, Remaining, replicaVars,
     clientVars
<1>6. RoutesAgree' /\ PausedIdle'
  BY ServingAssumption DEF Detach, RoutesAgree, PausedIdle, replicaVars, clientVars
<1> QED
  BY <1>1, <1>2, <1>3, <1>4, <1>5, <1>6

\* What an abort does to the requests, whether it raises or not.
LEMMA AbortEnds ==
  ASSUME NEW s \in Server, AbortReplica(s)
  PROVE  \E R \in SUBSET Running(s) :
           /\ loc' = [r \in Request |-> IF r \in R THEN "ready" ELSE loc[r]]
           /\ Tag(R)
           /\ releasing' = releasing \cup R
           /\ \/ missed' = missed \cup {s} /\ paused' \in {paused, paused \cup {s}}
              \/ /\ missed' = missed \ {s} /\ R = Running(s)
                 /\ paused' = IF config.pauses THEN paused \cup {s} ELSE paused
<1>1. CASE EndAttempts(s, Running(s), config.pauses) /\ missed' = missed \ {s}
  BY <1>1 DEF EndAttempts
<1>2. CASE /\ \E R \in SUBSET Running(s), pausing \in {FALSE, config.pauses} :
                EndAttempts(s, R, pausing)
           /\ missed' = missed \cup {s}
  <2> PICK R \in SUBSET Running(s), pausing \in {FALSE, config.pauses} :
        EndAttempts(s, R, pausing)
    BY <1>2
  <2> QED
    BY <1>2 DEF EndAttempts
<1> QED
  BY <1>1, <1>2 DEF AbortReplica

LEMMA AbortReplicaInv ==
  ASSUME IInv, NEW s \in Server, AbortReplica(s)
  PROVE  IInv'
<1> USE DEF IInv
<1> PICK R \in SUBSET Running(s) :
      /\ loc' = [r \in Request |-> IF r \in R THEN "ready" ELSE loc[r]]
      /\ Tag(R)
      /\ releasing' = releasing \cup R
      /\ \/ missed' = missed \cup {s} /\ paused' \in {paused, paused \cup {s}}
         \/ /\ missed' = missed \ {s} /\ R = Running(s)
            /\ paused' = IF config.pauses THEN paused \cup {s} ELSE paused
  BY AbortEnds
<1>1. TypeOK'
  BY ServingAssumption DEF AbortReplica, TypeOK, Pool, Server, Phase, Loc, Targets, Gather,
     Go, Then, Running, Tag, balancerVars
<1>2. RoutesAgree'
  BY ServingAssumption DEF AbortReplica, RoutesAgree, Running, balancerVars
<1>3. InPhase'
  BY ServingAssumption DEF AbortReplica, InPhase, Pool, Serving, Gather, Go, Then,
     balancerVars
<1>4. PausedInPhase'
  BY ServingAssumption DEF AbortReplica, PausedInPhase, Halted, InPhase, Away, Gather, Go, Then
<1>5. PausedIdle'
  BY ServingAssumption DEF AbortReplica, PausedIdle, Gather, Running, balancerVars
<1>6. VersionsInPhase'
  BY ServingAssumption DEF AbortReplica, VersionsInPhase, Fleet, Loading, Aligned, Targets,
     Gather, Go, Then
<1>7. TagsBounded'
  BY ServingAssumption DEF AbortReplica, TypeOK, TagsBounded, RoutesAgree, Aligned, Pool,
     NoTag, Gather, Running, Tag, VersionsInPhase, InPhase, Fleet, Loading, Targets,
     balancerVars
<1> QED
  BY <1>1, <1>2, <1>3, <1>4, <1>5, <1>6, <1>7

LEMMA SleepReplicaInv ==
  ASSUME IInv, NEW s \in Server, SleepReplica(s)
  PROVE  IInv'
<1> USE DEF IInv
<1>1. TypeOK'
  BY ServingAssumption DEF SleepReplica, TypeOK, Pool, Phase, Targets, Gather, Go, Then,
     balancerVars, clientVars
<1>2. InPhase'
  BY ServingAssumption DEF SleepReplica, InPhase, Pool, Serving, Gather, Go, Then,
     balancerVars
<1>3. PausedInPhase'
  BY ServingAssumption DEF SleepReplica, PausedInPhase, Halted, InPhase, Away, Targets, Gather, Go,
     Then
<1>4. VersionsInPhase'
  BY ServingAssumption DEF SleepReplica, VersionsInPhase, Fleet, Loading, Aligned, Gather,
     Go, Then
<1>5. RoutesAgree' /\ PausedIdle' /\ TagsBounded'
  BY ServingAssumption DEF SleepReplica, RoutesAgree, PausedIdle, TagsBounded, Aligned,
     Pool, Gather, balancerVars, clientVars
<1> QED
  BY <1>1, <1>2, <1>3, <1>4, <1>5

LEMMA UpdateInv ==
  ASSUME IInv, Update
  PROVE  IInv'
<1> USE DEF IInv
<1>1. TypeOK'
  BY ServingAssumption DEF Update, TypeOK, Pool, Server, Phase, Targets, Go, AfterSync,
     balancerVars, replicaVars, clientVars
<1>2. InPhase'
  BY ServingAssumption DEF Update, InPhase, Pool, Serving, Go, AfterSync, balancerVars
<1>3. PausedInPhase'
  BY ServingAssumption DEF Update, PausedInPhase, Halted, InPhase, Away, Targets, Go, AfterSync,
     replicaVars
<1>4. VersionsInPhase'
  BY ServingAssumption DEF Update, TypeOK, VersionsInPhase, Fleet, Loading, Aligned,
     Targets, Config, Go, AfterSync, SyncDue, Validates, IsLastStep, replicaVars
<1>5. RoutesAgree' /\ PausedIdle' /\ TagsBounded'
  BY ServingAssumption DEF Update, RoutesAgree, PausedIdle, TagsBounded, Aligned, Pool,
     balancerVars, replicaVars, clientVars
<1> QED
  BY <1>1, <1>2, <1>3, <1>4, <1>5

LEMMA LoadReplicaInv ==
  ASSUME IInv, NEW s \in Server, LoadReplica(s)
  PROVE  IInv'
<1> USE DEF IInv
<1>1. TypeOK'
  BY ServingAssumption DEF LoadReplica, TypeOK, Pool, Server, Phase, Targets, Gather, Go,
     Then, balancerVars, clientVars
<1>2. InPhase'
  BY ServingAssumption DEF LoadReplica, InPhase, Pool, Serving, Gather, Go, Then,
     balancerVars
<1>3. PausedInPhase'
  BY ServingAssumption DEF LoadReplica, PausedInPhase, Halted, InPhase, Away, Gather, Go, Then
<1>4. VersionsInPhase'
  BY ServingAssumption DEF LoadReplica, TypeOK, VersionsInPhase, InPhase, Fleet, Loading,
     Aligned, Server, Targets, Gather, Go, Then
<1>5. TagsBounded'
  BY ServingAssumption DEF LoadReplica, TypeOK, TagsBounded, Aligned, Pool, NoTag, Gather,
     VersionsInPhase, balancerVars, clientVars
<1>6. RoutesAgree' /\ PausedIdle'
  BY ServingAssumption DEF LoadReplica, RoutesAgree, PausedIdle, Gather, balancerVars,
     clientVars
<1> QED
  BY <1>1, <1>2, <1>3, <1>4, <1>5, <1>6

LEMMA TransferFailsInv ==
  ASSUME IInv, TransferFails
  PROVE  IInv'
<1> USE DEF IInv
<1>1. TypeOK'
  BY ServingAssumption DEF TransferFails, TypeOK, Pool, Phase, Targets, Go, balancerVars,
     replicaVars, clientVars
<1>2. InPhase'
  BY ServingAssumption DEF TransferFails, InPhase, Pool, Go, balancerVars
<1>3. PausedInPhase'
  BY ServingAssumption DEF TransferFails, PausedInPhase, Halted, InPhase, Away, Go, replicaVars
<1>4. VersionsInPhase'
  BY ServingAssumption DEF TransferFails, VersionsInPhase, Loading, Aligned, Go, replicaVars
<1>5. RoutesAgree' /\ PausedIdle' /\ TagsBounded'
  BY ServingAssumption DEF TransferFails, RoutesAgree, PausedIdle, TagsBounded, Aligned,
     Pool, balancerVars, replicaVars, clientVars
<1> QED
  BY <1>1, <1>2, <1>3, <1>4, <1>5

LEMMA ResumeReplicaInv ==
  ASSUME IInv, NEW s \in Server, ResumeReplica(s)
  PROVE  IInv'
<1> USE DEF IInv
<1>1. TypeOK'
  BY ServingAssumption DEF ResumeReplica, TypeOK, Pool, Server, Phase, Targets, Gather, Go,
     Then, AfterSync, AfterResume, balancerVars, clientVars
<1>2. InPhase'
  BY ServingAssumption DEF ResumeReplica, InPhase, Pool, Serving, Gather, Go, Then,
     AfterSync, AfterResume, balancerVars
<1>3. PausedInPhase'
  BY ServingAssumption DEF ResumeReplica, PausedInPhase, Halted, InPhase, Away, Targets, Gather, Go,
     Then, AfterSync, AfterResume
<1>4. PausedIdle'
  BY ServingAssumption DEF ResumeReplica, PausedIdle, Gather, balancerVars, clientVars
<1>5. VersionsInPhase'
  BY ServingAssumption DEF ResumeReplica, VersionsInPhase, Fleet, Loading, Aligned, Targets,
     Gather, Go, Then, AfterSync
<1>6. RoutesAgree' /\ TagsBounded'
  BY ServingAssumption DEF ResumeReplica, RoutesAgree, TagsBounded, Aligned, Pool, Gather,
     balancerVars, clientVars
<1> QED
  BY <1>1, <1>2, <1>3, <1>4, <1>5, <1>6

LEMMA AttachInv ==
  ASSUME IInv, Attach
  PROVE  IInv'
<1> USE DEF IInv
<1>1. TypeOK'
  BY ServingAssumption DEF Attach, TypeOK, Pool, Server, Phase, Targets, Go, Then,
     replicaVars, clientVars
<1>2. InPhase'
  BY ServingAssumption DEF Attach, InPhase, Pool, Serving, Go, Then
<1>3. PausedInPhase'
  BY ServingAssumption DEF Attach, PausedInPhase, Halted, Away, Pool, Serving, Go, Then, replicaVars
<1>4. VersionsInPhase'
  BY ServingAssumption DEF Attach, VersionsInPhase, Fleet, Loading, Aligned, Targets, Go,
     replicaVars
<1>5. TagsBounded'
  BY ServingAssumption DEF Attach, TagsBounded, Aligned, Pool, VersionsInPhase, InPhase,
     replicaVars, clientVars
<1>6. RoutesAgree' /\ PausedIdle'
  BY ServingAssumption DEF Attach, RoutesAgree, PausedIdle, replicaVars, clientVars
<1> QED
  BY <1>1, <1>2, <1>3, <1>4, <1>5, <1>6

LEMMA NextStepInv ==
  ASSUME IInv, NextStep
  PROVE  IInv'
<1> USE DEF IInv
<1>1. TypeOK'
  BY ServingAssumption DEF NextStep, TypeOK, Pool, Phase, Targets, Go, balancerVars,
     replicaVars, clientVars
<1>2. InPhase'
  BY ServingAssumption DEF NextStep, InPhase, Pool, Serving, Go, balancerVars
<1>3. PausedInPhase'
  BY ServingAssumption DEF NextStep, PausedInPhase, Halted, Away, Pool, Serving, Go, balancerVars,
     replicaVars
<1>4. VersionsInPhase'
  BY ServingAssumption DEF NextStep, TypeOK, VersionsInPhase, Fleet, Loading, Aligned,
     Config, Go, IsLastStep, replicaVars
<1>5. RoutesAgree' /\ PausedIdle' /\ TagsBounded'
  BY ServingAssumption DEF NextStep, RoutesAgree, PausedIdle, TagsBounded, Aligned, Pool,
     balancerVars, replicaVars, clientVars
<1> QED
  BY <1>1, <1>2, <1>3, <1>4, <1>5

LEMMA UnchangedInv == IInv /\ UNCHANGED vars => IInv'
  BY DEF IInv, TypeOK, Pool, RoutesAgree, InPhase, PausedInPhase, Halted, PausedIdle,
     VersionsInPhase, TagsBounded, Serving, Away, Fleet, Loading, Aligned, vars,
     trainerVars, balancerVars, replicaVars, clientVars

\* IInv is an inductive invariant: who serves, who is paused and which weights are where,
\* in every phase of the trainer and wherever the requests are.
THEOREM Invariance == Spec => []IInv
<1>1. IInv /\ [Next]_vars => IInv'
  <2> SUFFICES ASSUME IInv, Next PROVE IInv'
    BY UnchangedInv
  <2>1. CASE Trainer
    <3>1. CASE \E s \in Server : Replica(s)
      BY <3>1, AbortReplicaInv, SleepReplicaInv, LoadReplicaInv, ResumeReplicaInv DEF
         Replica
    <3> QED
      BY <2>1, <3>1, AddBatchInv, SampleInv, DetachInv, UpdateInv, TransferFailsInv,
         AttachInv, NextStepInv DEF Trainer
  <2>2. CASE \E r \in Request : Client(r)
    BY <2>2, AcquireInv, ArriveInv, AnswerInv, ReleaseInv DEF Client
  <2>3. CASE Terminated
    BY <2>3, UnchangedInv DEF Terminated
  <2> QED
    BY <2>1, <2>2, <2>3 DEF Next
<1> QED
  BY InitInv, <1>1, PTL DEF Spec

\* Every reachable state of balancer, clients, replicas and trainer is well typed.
THEOREM TypeCorrect == Spec => []TypeOK
  BY Invariance, PTL DEF IInv

\* From abort to resume a replica runs nothing, whatever was routed to it before, also when
\* the abort raised at others: only a replica whose own latest abort raised may.
THEOREM PausedRunsNothing == Spec => []NoneRunsAsleep
<1>1. IInv => NoneRunsAsleep
  BY DEF IInv, PausedIdle, PausedInPhase, Halted, NoneRunsAsleep
<1> QED
  BY Invariance, <1>1, PTL

\* No weights are replaced under a running attempt, except at a replica whose own latest
\* abort raised.
THEOREM AttemptsHaveOneVersion == Spec => OneVersionPerAttempt
<1> DEFINE Kept ==
      config.pauses =>
        \A s \in Server \ missed : version'[s] # version[s] => Running(s) = {}
<1>1. ASSUME IInv, [Next]_vars PROVE [Kept]_vars
  <2> SUFFICES ASSUME Next, config.pauses,
                      NEW s \in Server \ missed, version'[s] # version[s],
                      NEW r \in Running(s)
               PROVE  FALSE
    BY <1>1
  <2>1. PICK t \in Server : LoadReplica(t)
    BY DEF Next, Trainer, Client, Replica, Terminated, vars, replicaVars, AddBatch, Sample,
       Detach, Update, TransferFails, Attach, NextStep, AbortReplica, SleepReplica,
       ResumeReplica, Acquire, Arrive, Answer, Release
  <2>2. s = t
    BY <1>1, <2>1 DEF LoadReplica
  <2>3. s \in paused
    BY <1>1, <2>1, <2>2 DEF LoadReplica, Gather, IInv, InPhase, PausedInPhase, Halted, Away, Targets
  <2> QED
    BY <1>1, <2>3 DEF Running, IInv, PausedIdle
<1> QED
  BY Invariance, <1>1, PTL DEF Spec, OneVersionPerAttempt

\* With aligned validations the interval of versions of a trajectory never turns round.
THEOREM SpansAreOrdered == Spec => []SpanOrdered
<1>1. IInv => SpanOrdered
  BY DEF IInv, TagsBounded, SpanOrdered
<1> QED
  BY Invariance, <1>1, PTL

-----------------------------------------------------------------------------
(* The counts of the balancer.                                             *)

LEMMA HeldFinite ==
  ASSUME TypeOK, NEW s
  PROVE  IsFiniteSet(Held(s)) /\ Cardinality(Held(s)) \in Nat
<1>1. Held(s) \subseteq Request
  BY DEF Held, TypeOK
<1> QED
  BY <1>1, ServingAssumption, FS_Subset, FS_CardinalityType

\* A step that moves no request between holders and counts nothing.
LEMMA SameCounts ==
  ASSUME CountsHonest, UNCHANGED <<inflight, config>>, \A s \in Pool : Held(s)' = Held(s)
  PROVE  CountsHonest'
  BY DEF CountsHonest, Pool

LEMMA AcquireCounts ==
  ASSUME IInv, CountsHonest, NEW r \in Request, Acquire(r)
  PROVE  CountsHonest'
<1>1. PICK s \in Candidates(r) :
        /\ server' = [q \in DOMAIN server \cup {r} |-> IF q = r THEN s ELSE server[q]]
        /\ inflight' = [inflight EXCEPT ![s] = @ + 1]
  BY DEF Acquire
<1>2. s \in Pool
  BY DEF Candidates, LeastLoaded
<1>3. Held(s)' = Held(s) \cup {r} /\ r \notin Held(s)
  BY <1>1 DEF Held, Acquire, IInv, TypeOK
<1>4. \A t \in Pool \ {s} : Held(t)' = Held(t)
  BY <1>1 DEF Held, Acquire
<1>5. Cardinality(Held(s)') = Cardinality(Held(s)) + 1
  BY <1>3, HeldFinite, FS_AddElement DEF IInv
<1>6. Cardinality(Held(s)) \in Nat
  BY HeldFinite DEF IInv
<1>7. Pool' = Pool /\ config' = config
  BY <1>1 DEF Pool, Acquire, trainerVars
<1>8. /\ inflight'[s] <= Cardinality(Held(s)')
      /\ s \in Standalone \/ config.colocated => inflight'[s] = Cardinality(Held(s)')
  BY <1>1, <1>2, <1>5, <1>6 DEF CountsHonest, IInv, TypeOK
<1>9. \A t \in Pool \ {s} : inflight'[t] = inflight[t]
  BY <1>1
<1> QED
  BY <1>4, <1>7, <1>8, <1>9 DEF CountsHonest

LEMMA ReleaseCounts ==
  ASSUME IInv, CountsHonest, NEW r \in Request, Release(r)
  PROVE  CountsHonest'
<1>0. PICK s : s = server[r]
  OBVIOUS
<1>1. r \in Held(s)
  BY <1>0 DEF Held, Release, IInv, RoutesAgree
<1>2. Held(s)' = Held(s) \ {r}
  BY <1>0 DEF Held, Release
<1>3. \A t \in Pool \ {s} : Held(t)' = Held(t)
  BY <1>0 DEF Held, Release
<1>4. Cardinality(Held(s)') = Cardinality(Held(s)) - 1 /\ Cardinality(Held(s)) \in Nat
  BY <1>1, <1>2, HeldFinite, FS_RemoveElement DEF IInv
<1>5. Pool' = Pool /\ config' = config
  BY DEF Pool, Release, Released, trainerVars
<1>6. \A t \in Pool \ {s} : inflight'[t] = inflight[t]
  BY <1>0 DEF Release, Released
<1>7. s \in Pool => inflight'[s] = IF inflight[s] > 0 THEN inflight[s] - 1 ELSE 0
  BY <1>0 DEF Release, Released, IInv, TypeOK
<1>8. Cardinality(Held(s)) > 0
  BY <1>1, HeldFinite, FS_EmptySet DEF IInv
<1>9. s \in Pool =>
        /\ inflight'[s] <= Cardinality(Held(s)')
        /\ s \in Standalone \/ config.colocated => inflight'[s] = Cardinality(Held(s)')
  BY <1>4, <1>7, <1>8 DEF CountsHonest, IInv, TypeOK
<1> QED
  BY <1>3, <1>5, <1>6, <1>9 DEF CountsHonest

\* Detach and Attach change the pool; nobody's requests move.
LEMMA PoolCounts ==
  ASSUME IInv, CountsHonest, Detach \/ Attach
  PROVE  CountsHonest'
<1>1. \A t : Held(t)' = Held(t)
  BY DEF Held, Detach, Attach, clientVars
<1>2. CASE Detach
  BY <1>1, <1>2 DEF Detach, CountsHonest, Pool, Remaining
<1>3. CASE Attach
  <2>1. \A t \in Hybrid : Cardinality(Held(t)) \in Nat
    BY HeldFinite DEF IInv
  <2> QED
    BY <1>1, <1>3, <2>1, ServingAssumption DEF Attach, CountsHonest, Pool, IInv, InPhase
<1> QED
  BY <1>2, <1>3

\* The in-flight counts are those of the requests that still owe a release, and never
\* more for a replica that was removed and added again.
THEOREM CountsAreHonest == Spec => []CountsHonest
<1>1. Init => CountsHonest
  <2> SUFFICES ASSUME Init, NEW s \in Pool
               PROVE  inflight[s] = 0 /\ Cardinality(Held(s)) = 0
    BY DEF CountsHonest
  <2>1. Held(s) = {}
    BY DEF Init, Held
  <2> QED
    BY <2>1, FS_EmptySet DEF Init, Pool
<1>2. IInv /\ CountsHonest /\ [Next]_vars => CountsHonest'
  <2> SUFFICES ASSUME IInv, CountsHonest, [Next]_vars
               PROVE  CountsHonest'
    OBVIOUS
  <2>1. CASE \E r \in Request : Acquire(r) \/ Release(r)
    BY <2>1, AcquireCounts, ReleaseCounts
  <2>2. CASE Detach \/ Attach
    BY <2>2, PoolCounts
  <2>3. CASE \E r \in Request : Arrive(r) \/ Answer(r)
    <3>1. \A s \in Pool : Held(s)' = Held(s)
      BY <2>3 DEF Held, Arrive, Answer, balancerVars, IInv, TypeOK
    <3> QED
      BY <2>3, <3>1, SameCounts DEF Arrive, Answer, balancerVars, trainerVars
  <2>4. CASE AddBatch \/ Sample
    <3>1. \A s \in Pool : Held(s)' = Held(s)
      BY <2>4 DEF Held, AddBatch, Register, Sample, Answered, balancerVars, IInv, TypeOK,
         RoutesAgree
    <3> QED
      BY <2>4, <3>1, SameCounts DEF AddBatch, Sample, balancerVars
  <2>5. CASE \E s \in Server : AbortReplica(s)
    <3>1. \A t \in Pool : Held(t)' = Held(t)
      <4> PICK s \in Server : AbortReplica(s)
        BY <2>5
      <4>0. server' = server
        BY DEF AbortReplica, balancerVars
      <4>1. PICK R \in SUBSET Running(s) :
              /\ loc' = [r \in Request |-> IF r \in R THEN "ready" ELSE loc[r]]
              /\ releasing' = releasing \cup R
        BY AbortEnds
      <4>2. \A r \in DOMAIN server :
              (loc[r] \in {"routed", "running"} \/ r \in releasing) <=>
              (loc'[r] \in {"routed", "running"} \/ r \in releasing')
        BY <4>1 DEF Running, IInv, TypeOK
      <4> QED
        BY <4>0, <4>2 DEF Held
    <3> QED
      BY <2>5, <3>1, SameCounts DEF AbortReplica, Gather, balancerVars
  <2>6. CASE UNCHANGED <<inflight, server, loc, releasing, config>>
    BY <2>6, SameCounts DEF Held
  <2>7. CASE \/ Update \/ TransferFails \/ NextStep \/ Terminated
             \/ \E s \in Server : SleepReplica(s) \/ LoadReplica(s) \/ ResumeReplica(s)
    BY <2>6, <2>7 DEF Update, TransferFails, NextStep, Terminated, SleepReplica,
       LoadReplica, ResumeReplica, Gather, vars, trainerVars, balancerVars, clientVars
  <2> QED
    BY <2>1, <2>2, <2>3, <2>4, <2>5, <2>6, <2>7 DEF Next, Trainer, Replica, Client, vars,
       trainerVars, balancerVars, clientVars
<1> QED
  BY <1>1, <1>2, Invariance, PTL DEF Spec

-----------------------------------------------------------------------------
(* The requests stranded at hybrid replicas that train.                    *)

\* Registered and not sampled yet.
Waiting == {r \in Request : loc[r] \in {"ready", "routed", "running", "answered"}}

\* How many batches are in flight in this phase.
Batches ==
  CASE phase = "warmup" -> config.warmup - warm
    [] phase = "sample" -> config.warmup + 1
    [] OTHER            -> config.warmup

SupplyExact == warm <= config.warmup /\ Cardinality(Waiting) = BatchSize * Batches

\* The hybrid replicas serve: they are neither paused nor asleep.
ServesAll ==
  IF config.colocated THEN phase \in {"warmup", "register", "sample", "next", "done"}
                      ELSE Serving

AwakeInPhase ==
  /\ phase = "load" => Hybrid \cap asleep \subseteq todo
  /\ phase = "resume" => Hybrid \cap asleep = {} /\ Hybrid \cap paused \subseteq todo
  /\ phase = "attach" \/ ServesAll => Hybrid \cap (paused \cup asleep) = {}

HybridRouted ==
  {r \in Request : /\ r \in DOMAIN server /\ loc[r] \in {"routed", "running"}
                   /\ server[r] \in Hybrid}

\* Once they have left the balancer nothing more is routed to the hybrid replicas.
FewAway ==
  ~config.colocated /\ ~Serving => Cardinality(HybridRouted) <= BatchSize * config.warmup

FInv == SupplyExact /\ AwakeInPhase /\ FewAway

LEMMA RequestsFinite ==
  ASSUME NEW S, S \subseteq Request
  PROVE  IsFiniteSet(S) /\ Cardinality(S) \in Nat
<1>1. IsFiniteSet(S)
  BY ServingAssumption, FS_Subset
<1> QED
  BY <1>1, FS_CardinalityType

LEMMA FewerRequests ==
  ASSUME NEW S, NEW T, S \subseteq T, T \subseteq Request
  PROVE  /\ Cardinality(S) \in Nat /\ Cardinality(T) \in Nat
         /\ Cardinality(S) <= Cardinality(T)
<1>1. IsFiniteSet(T) /\ Cardinality(T) \in Nat /\ Cardinality(S) \in Nat
  BY RequestsFinite
<1> QED
  BY <1>1, FS_Subset

LEMMA DisjointRequests ==
  ASSUME NEW S, NEW T, S \subseteq Request, T \subseteq Request, S \cap T = {}
  PROVE  /\ Cardinality(S) \in Nat /\ Cardinality(T) \in Nat
         /\ Cardinality(S \cup T) = Cardinality(S) + Cardinality(T)
<1>1. /\ IsFiniteSet(S) /\ Cardinality(S) \in Nat
      /\ IsFiniteSet(T) /\ Cardinality(T) \in Nat
  BY RequestsFinite
<1>2. Cardinality(S \cap T) = 0
  BY FS_EmptySet
<1>3. Cardinality(S \cup T) = Cardinality(S) + Cardinality(T) - Cardinality(S \cap T)
  BY <1>1, FS_Union
<1> QED
  BY <1>1, <1>2, <1>3

LEMMA WithoutRequests ==
  ASSUME NEW S, NEW T, S \subseteq Request, T \subseteq S
  PROVE  /\ Cardinality(S) \in Nat /\ Cardinality(T) \in Nat
         /\ Cardinality(S \ T) = Cardinality(S) - Cardinality(T)
<1>1. /\ Cardinality(S \ T) \in Nat /\ Cardinality(T) \in Nat
      /\ Cardinality((S \ T) \cup T) = Cardinality(S \ T) + Cardinality(T)
  BY DisjointRequests
<1>2. (S \ T) \cup T = S
  OBVIOUS
<1>3. Cardinality(S) = Cardinality(S \ T) + Cardinality(T)
  BY <1>1, <1>2, Zenon
<1> QED
  BY <1>1, <1>3

\* Products of two variables, kept apart from the other arithmetic.
LEMMA OneMoreBatch ==
  ASSUME NEW b \in Nat, NEW n \in Int
  PROVE  b * n \in Int /\ b * (n + 1) \in Int /\ b * (n + 1) = b * n + b
  OBVIOUS

LEMMA WarmupType ==
  ASSUME IInv
  PROVE  config.warmup \in Nat /\ warm \in Nat /\ BatchSize \in Nat \ {0} /\ Batches \in Int
<1>1. config \in Config /\ warm \in Nat /\ BatchSize \in Nat \ {0}
  BY ServingAssumption DEF IInv, TypeOK
<1>2. config.warmup \in Nat
  BY <1>1 DEF Config
<1> QED
  BY <1>1, <1>2 DEF Batches

LEMMA RegisterWaits ==
  ASSUME IInv, Register
  PROVE  /\ Cardinality(Waiting) \in Nat
         /\ Cardinality(Waiting') = Cardinality(Waiting) + BatchSize
<1> PICK G \in SUBSET {r \in Request : born[r] = 0} :
      /\ Cardinality(G) = BatchSize
      /\ loc' = [r \in Request |-> IF r \in G THEN "ready" ELSE loc[r]]
  BY DEF Register
<1>1. G \subseteq Request /\ Waiting \subseteq Request /\ Waiting \cap G = {}
  BY DEF IInv, RoutesAgree, Waiting
<1>2. Waiting' = Waiting \cup G
  BY <1>1 DEF Waiting
<1>3. /\ Cardinality(Waiting) \in Nat
      /\ Cardinality(Waiting \cup G) = Cardinality(Waiting) + Cardinality(G)
  BY <1>1, DisjointRequests
<1> QED
  BY <1>2, <1>3, Zenon

LEMMA SampleWaits ==
  ASSUME IInv, Sample
  PROVE  /\ Cardinality(Waiting) \in Nat
         /\ Cardinality(Waiting') = Cardinality(Waiting) - BatchSize
<1> PICK G \in SUBSET Answered :
      /\ Cardinality(G) = BatchSize
      /\ loc' = [r \in Request |-> IF r \in G THEN "consumed" ELSE loc[r]]
  BY DEF Sample
<1>1. G \subseteq Waiting /\ Waiting \subseteq Request
  BY DEF Answered, Waiting
<1>2. Waiting' = Waiting \ G
  BY <1>1 DEF Waiting
<1>3. /\ Cardinality(Waiting) \in Nat
      /\ Cardinality(Waiting \ G) = Cardinality(Waiting) - Cardinality(G)
  BY <1>1, WithoutRequests
<1> QED
  BY <1>2, <1>3, Zenon

\* The other actions move no request in or out of Waiting and keep the number of batches.
LEMMA QuietSupply ==
  ASSUME SupplyExact, Waiting' = Waiting, UNCHANGED <<config, warm>>, Batches' = Batches
  PROVE  SupplyExact'
  BY DEF SupplyExact

LEMMA SupplyStep ==
  ASSUME IInv, SupplyExact, [Next]_vars
  PROVE  SupplyExact'
<1>0. config.warmup \in Nat /\ warm \in Nat /\ BatchSize \in Nat \ {0} /\ Batches \in Int
  BY WarmupType
<1>1. CASE AddBatch
  <2> USE <1>1 DEF AddBatch
  <2>1. CASE Register
    <3>1. Batches' = Batches + 1 /\ warm' <= config'.warmup
      <4>1. CASE phase = "warmup" /\ warm > 0 /\ warm' = warm - 1 /\ UNCHANGED <<phase, todo>>
        BY <1>0, <4>1 DEF Batches, SupplyExact
      <4>2. CASE phase = "register" /\ Go("sample") /\ UNCHANGED warm
        BY <1>0, <4>2 DEF Batches, SupplyExact, Go
      <4>3. CASE phase = "warmup" /\ warm = 0 /\ Go("register") /\ UNCHANGED <<warm, born, loc>>
        <5>1. Waiting' = Waiting
          BY <4>3 DEF Waiting
        <5> QED
          BY <1>0, <2>1, <5>1, RegisterWaits
      <4> QED
        BY <4>1, <4>2, <4>3
    <3>2. Cardinality(Waiting') = BatchSize * Batches + BatchSize
      BY <1>0, <2>1, RegisterWaits DEF SupplyExact
    <3>3. Cardinality(Waiting') = BatchSize * (Batches + 1)
      BY <1>0, <3>2, OneMoreBatch
    <3> QED
      BY <3>1, <3>3 DEF SupplyExact
  <2>2. CASE phase = "warmup" /\ warm = 0 /\ Go("register") /\ UNCHANGED <<warm, born, loc>>
    <3>1. Batches' = Batches
      BY <1>0, <2>2 DEF Batches, Go
    <3>2. Waiting' = Waiting
      BY <2>2 DEF Waiting
    <3> QED
      BY <2>2, <3>1, <3>2, QuietSupply
  <2> QED
    BY <2>1, <2>2
<1>2. CASE Sample
  <2>1. Batches = Batches' + 1 /\ Batches' \in Int
    BY <1>0, <1>2 DEF Sample, Batches, Go
  <2>2. Cardinality(Waiting') = BatchSize * (Batches' + 1) - BatchSize
    BY <1>2, <2>1, SampleWaits DEF SupplyExact
  <2>3. Cardinality(Waiting') = BatchSize * Batches'
    BY <1>0, <2>1, <2>2, OneMoreBatch
  <2> QED
    BY <1>2, <2>3 DEF SupplyExact, Sample
<1>3. CASE \E r \in Request : Client(r)
  <2>1. Waiting' = Waiting
    BY <1>3 DEF Client, Acquire, Arrive, Answer, Release, Waiting, IInv, TypeOK
  <2> QED
    BY <1>3, <2>1, QuietSupply DEF Client, Acquire, Arrive, Answer, Release, trainerVars,
       Batches
<1>4. CASE \/ Detach \/ Update \/ TransferFails \/ Attach \/ NextStep \/ Terminated \/ UNCHANGED vars
           \/ \E s \in Server : Replica(s)
  <2>1. Waiting' = Waiting
    <3>1. ASSUME NEW s \in Server, AbortReplica(s) PROVE Waiting' = Waiting
      BY <3>1, AbortEnds DEF Waiting, Running, IInv, TypeOK
    <3> QED
      BY <1>4, <3>1 DEF Waiting, Detach, Update, TransferFails, Attach, NextStep, Terminated,
         Replica, SleepReplica, LoadReplica, ResumeReplica, clientVars, vars
  <2>2. UNCHANGED <<config, warm>>
    BY <1>4 DEF Detach, Update, TransferFails, Attach, NextStep, Terminated, Replica,
       AbortReplica, SleepReplica, LoadReplica, ResumeReplica, Gather, vars, trainerVars
  <2>3. Batches' = Batches
    BY <1>4, <2>2 DEF Batches, Detach, Update, TransferFails, Attach, NextStep, Terminated,
       Replica, AbortReplica, SleepReplica, LoadReplica, ResumeReplica, Gather, Go, Then,
       AfterSync, AfterResume, vars, trainerVars
  <2> QED
    BY <2>1, <2>2, <2>3, QuietSupply
<1> QED
  BY <1>1, <1>2, <1>3, <1>4 DEF Next, Trainer

LEMMA AwakeStep ==
  ASSUME IInv, AwakeInPhase, [Next]_vars
  PROVE  AwakeInPhase'
<1> USE DEF AwakeInPhase, ServesAll, Serving, Pool, IInv, InPhase
<1>1. CASE AddBatch \/ Sample
  BY <1>1 DEF AddBatch, Sample, Go, Targets, balancerVars, replicaVars
<1>2. CASE \E r \in Request : Client(r)
  <2>1. UNCHANGED <<DOMAIN inflight, trainerVars, paused, asleep>>
    BY <1>2 DEF Client, Acquire, Arrive, Answer, Release, Released, balancerVars, replicaVars,
       TypeOK
  <2> QED
    BY <2>1 DEF trainerVars
<1>3. CASE Detach
  BY <1>3, ServingAssumption DEF Detach, Go, Then, Targets, Remaining, replicaVars
<1>4. CASE Update
  BY <1>4 DEF Update, Go, Targets, AfterSync, balancerVars, replicaVars
<1>5. CASE TransferFails \/ NextStep
  BY <1>5 DEF TransferFails, NextStep, Go, Targets, balancerVars, replicaVars
<1>6. CASE Attach
  BY <1>6, ServingAssumption DEF Attach, Go, Then, Targets, replicaVars
<1>7. ASSUME NEW s \in Server, AbortReplica(s) \/ SleepReplica(s) PROVE AwakeInPhase'
  BY <1>7, ServingAssumption DEF AbortReplica, SleepReplica, Gather, Go, Then, Targets,
     AfterSync, balancerVars
<1>8. ASSUME NEW s \in Server, LoadReplica(s) PROVE AwakeInPhase'
  BY <1>8, ServingAssumption DEF LoadReplica, Gather, Go, Then, Targets, balancerVars
<1>9. ASSUME NEW s \in Server, ResumeReplica(s) PROVE AwakeInPhase'
  BY <1>9, ServingAssumption DEF ResumeReplica, Gather, Go, Then, Targets, AfterSync,
     AfterResume, balancerVars
<1>10. CASE Terminated \/ UNCHANGED vars
  BY <1>10 DEF Terminated, vars, trainerVars, balancerVars, replicaVars
<1> QED
  BY <1>1, <1>2, <1>3, <1>4, <1>5, <1>6, <1>7, <1>8, <1>9, <1>10 DEF Next, Trainer, Replica

\* The requests at hybrid replicas only get fewer as long as these are not in the pool.
LEMMA FewAwayShrinks ==
  ASSUME IInv, FewAway, config' = config, HybridRouted' \subseteq HybridRouted,
         ~config.colocated, ~Serving
  PROVE  FewAway'
<1>1. HybridRouted \subseteq Request
  BY DEF HybridRouted
<1>2. /\ Cardinality(HybridRouted') <= Cardinality(HybridRouted)
      /\ Cardinality(HybridRouted') \in Nat /\ Cardinality(HybridRouted) \in Nat
  BY <1>1, FewerRequests
<1>3. BatchSize * config.warmup \in Int
  BY WarmupType, OneMoreBatch
<1> QED
  BY <1>2, <1>3 DEF FewAway

LEMMA FewAwayStep ==
  ASSUME IInv, SupplyExact, FewAway, [Next]_vars
  PROVE  FewAway'
<1> SUFFICES ASSUME ~config.colocated, ~Serving'
             PROVE  FewAway'
  <2>1. config' = config
    BY DEF Next, Trainer, Replica, Client, Terminated, vars, trainerVars, AddBatch, Sample,
       Detach, Update, TransferFails, Attach, NextStep, AbortReplica, SleepReplica, LoadReplica,
       ResumeReplica, Gather, Acquire, Arrive, Answer, Release
  <2> QED
    BY <2>1 DEF FewAway
<1>0. config' = config
  BY DEF Next, Trainer, Replica, Client, Terminated, vars, trainerVars, AddBatch, Sample,
     Detach, Update, TransferFails, Attach, NextStep, AbortReplica, SleepReplica, LoadReplica,
     ResumeReplica, Gather, Acquire, Arrive, Answer, Release
<1>1. CASE Detach
  <2>1. HybridRouted' \subseteq Waiting /\ Waiting \subseteq Request
    BY <1>1 DEF Detach, HybridRouted, Waiting, clientVars
  <2>2. Cardinality(Waiting) = BatchSize * config.warmup
    BY <1>1 DEF Detach, SupplyExact, Batches
  <2>3. Cardinality(HybridRouted') <= Cardinality(Waiting)
    BY <2>1, FewerRequests
  <2> QED
    BY <1>0, <2>2, <2>3 DEF FewAway
<1>2. CASE ~Serving
  <2>1. Hybrid \cap Pool = {}
    BY <1>2, ServingAssumption DEF IInv, InPhase
  <2>2. ASSUME NEW r \in Request, Acquire(r) PROVE HybridRouted' \subseteq HybridRouted
    BY <2>1, <2>2 DEF Acquire, Candidates, LeastLoaded, HybridRouted, IInv, TypeOK
  <2>3. ASSUME NEW r \in Request, Arrive(r) \/ Answer(r)
        PROVE  HybridRouted' \subseteq HybridRouted
    BY <2>3 DEF Arrive, Answer, HybridRouted, balancerVars, IInv, TypeOK
  <2>4. ASSUME NEW r \in Request, Release(r) PROVE HybridRouted' \subseteq HybridRouted
    BY <2>4 DEF Release, HybridRouted, IInv, TypeOK
  <2>5. ASSUME AddBatch \/ Sample PROVE HybridRouted' \subseteq HybridRouted
    BY <2>5 DEF AddBatch, Register, Sample, Answered, HybridRouted, balancerVars, IInv, TypeOK
  <2>6. ASSUME NEW s \in Server, AbortReplica(s) PROVE HybridRouted' \subseteq HybridRouted
    <3>1. server' = server
      BY <2>6 DEF AbortReplica, balancerVars
    <3>2. \A r \in Request : loc'[r] \in {"routed", "running"} => loc'[r] = loc[r]
      BY <2>6, AbortEnds DEF Running
    <3> QED
      BY <3>1, <3>2 DEF HybridRouted
  <2>7. ASSUME UNCHANGED <<server, loc>> PROVE HybridRouted' \subseteq HybridRouted
    BY <2>7 DEF HybridRouted
  <2>8. HybridRouted' \subseteq HybridRouted
    BY <2>2, <2>3, <2>4, <2>5, <2>6, <2>7 DEF Next, Trainer, Replica, Client, Terminated, vars,
       balancerVars, clientVars, Detach, Update, TransferFails, Attach, NextStep, SleepReplica,
       LoadReplica, ResumeReplica
  <2> QED
    BY <1>0, <1>2, <2>8, FewAwayShrinks
<1>3. Serving => Detach
  <2> SUFFICES ASSUME Serving, ~Detach PROVE FALSE
    OBVIOUS
  <2>1. Pool \subseteq Pool'
    BY DEF Next, Trainer, Replica, Client, Terminated, vars, balancerVars, AddBatch, Sample,
       Update, TransferFails, Attach, NextStep, AbortReplica, SleepReplica, LoadReplica,
       ResumeReplica, Acquire, Arrive, Answer, Release, Released, Pool, IInv, TypeOK
  <2> QED
    BY <2>1 DEF Serving
<1> QED
  BY <1>1, <1>2, <1>3

LEMMA InitF == Init => FInv
<1> SUFFICES ASSUME Init PROVE FInv
  OBVIOUS
<1>1. IInv
  BY InitInv
<1>2. config.warmup \in Nat /\ BatchSize \in Nat
  BY <1>1, WarmupType
<1>3. SupplyExact
  <2>1. Waiting = {} /\ Batches = 0
    BY <1>2 DEF Init, Waiting, Batches
  <2>2. Cardinality(Waiting) = 0
    BY <2>1, FS_EmptySet
  <2> QED
    BY <1>2, <2>1, <2>2 DEF Init, SupplyExact
<1>4. AwakeInPhase
  BY DEF Init, AwakeInPhase
<1>5. FewAway
  BY ServingAssumption DEF Init, FewAway, Serving, Pool, Server
<1> QED
  BY <1>3, <1>4, <1>5 DEF FInv

\* FInv is invariant: how many requests are in flight in each phase, when the hybrid
\* replicas serve, and how few requests they keep once they have left the balancer.
THEOREM FlightInvariance == Spec => []FInv
<1>1. IInv /\ FInv /\ [Next]_vars => FInv'
  BY SupplyStep, AwakeStep, FewAwayStep DEF FInv
<1> QED
  BY <1>1, InitF, Invariance, PTL DEF Spec

\* The hybrid replicas leave for training with at most the warm-up batches routed to them,
\* and nothing joins these requests until the replicas are back.
THEOREM FewAreStranded == Spec => []FewStranded
<1>1. IInv /\ FInv => FewStranded
  <2> SUFFICES ASSUME IInv, FInv PROVE FewStranded
    OBVIOUS
  <2>0. config.warmup \in Nat /\ BatchSize \in Nat /\ BatchSize * config.warmup \in Int
    BY WarmupType, OneMoreBatch
  <2>1. CASE Hybrid \cap (paused \cup asleep) = {}
    <3>1. Stranded = {}
      BY <2>1 DEF Stranded
    <3>2. Cardinality(Stranded) = 0
      BY <3>1, FS_EmptySet
    <3>3. 0 <= BatchSize * config.warmup
      BY <2>0
    <3> QED
      BY <3>2, <3>3 DEF FewStranded
  <2>2. CASE ~config.colocated /\ ~Serving
    <3>1. Stranded \subseteq HybridRouted /\ HybridRouted \subseteq Request
      BY DEF Stranded, HybridRouted, IInv, TypeOK
    <3>2. /\ Cardinality(Stranded) <= Cardinality(HybridRouted)
          /\ Cardinality(Stranded) \in Nat /\ Cardinality(HybridRouted) \in Nat
      BY <3>1, FewerRequests
    <3> QED
      BY <2>0, <2>2, <3>2 DEF FInv, FewAway, FewStranded
  <2>3. CASE config.colocated /\ ~ServesAll
    <3>1. Stranded \subseteq Waiting /\ Waiting \subseteq Request
      BY DEF Stranded, Waiting, IInv, TypeOK
    <3>2. Cardinality(Stranded) <= Cardinality(Waiting)
      BY <3>1, FewerRequests
    <3>3. Cardinality(Waiting) = BatchSize * config.warmup
      BY <2>3 DEF FInv, SupplyExact, Batches, ServesAll
    <3> QED
      BY <3>2, <3>3 DEF FewStranded
  <2> QED
    BY <2>1, <2>2, <2>3 DEF FInv, AwakeInPhase, ServesAll
<1> QED
  BY <1>1, Invariance, FlightInvariance, PTL

\* The requests that no replica in training keeps: they are answered or can be.
Answerable == Waiting \ Stranded

\* Whenever sample() is entered, a full batch of them is in flight: with the "drop"
\* strategy it never waits for replicas that wait for it.
THEOREM BatchIsAnswerable ==
  Spec => [](phase = "sample" => Cardinality(Answerable) >= BatchSize)
<1>1. IInv /\ FInv /\ FewStranded /\ phase = "sample" => Cardinality(Answerable) >= BatchSize
  <2> SUFFICES ASSUME IInv, FInv, FewStranded, phase = "sample"
               PROVE  Cardinality(Answerable) >= BatchSize
    OBVIOUS
  <2>1. /\ config.warmup \in Nat /\ BatchSize \in Nat /\ BatchSize * config.warmup \in Int
        /\ BatchSize * (config.warmup + 1) = BatchSize * config.warmup + BatchSize
    BY WarmupType, OneMoreBatch
  <2>2. Cardinality(Waiting) = BatchSize * (config.warmup + 1)
    BY DEF FInv, SupplyExact, Batches
  <2>3. Stranded \subseteq Waiting /\ Waiting \subseteq Request
    BY DEF Stranded, Waiting, IInv, TypeOK
  <2>4. /\ Cardinality(Stranded) \in Nat /\ Cardinality(Waiting) \in Nat
        /\ Cardinality(Waiting \ Stranded) = Cardinality(Waiting) - Cardinality(Stranded)
    BY <2>3, WithoutRequests
  <2> QED
    BY <2>1, <2>2, <2>4 DEF FewStranded, Answerable
<1> QED
  BY <1>1, Invariance, FlightInvariance, FewAreStranded, PTL

=============================================================================
