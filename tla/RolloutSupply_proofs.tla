------------------------- MODULE RolloutSupply_proofs -------------------------
(***************************************************************************)
(* Counting in RolloutReplay, for any number of prompts and sessions and   *)
(* all configurations: the prompts in flight, the groups of a filtered     *)
(* batch, and the age of what is trained on.  CInv is inductive relative   *)
(* to IInv of RolloutReplay_proofs.  The age is bounded under "wait"       *)
(* because every sampling that finds overdue prompts takes a batch of      *)
(* them, and no more than warmup batches are ever overdue.                 *)
(***************************************************************************)
EXTENDS RolloutReplay_proofs, FiniteSetTheorems

-----------------------------------------------------------------------------
(* The invariant.                                                          *)

\* The trainer has not sampled in this step, or not yet in this turn of the filter loop.
Unsampled == phase \in {"warmup", "register", "sample", "take"}

\* The batches registered and not sampled.
Batches ==
  IF phase = "warmup" THEN config.warmup - warm
  ELSE IF phase \in {"sample", "take"} THEN config.warmup + 1 ELSE config.warmup

SupplyExact == warm <= config.warmup /\ Cardinality(Outstanding) = BatchSize * Batches

\* What the group filter accepted in earlier turns of its loop has rollout.n rows, and so
\* has the batch it hands over.
AcceptedComplete ==
  config.filter =>
    /\ Unsampled => \A u \in UidsOf(picked) : Complete(u, picked)
    /\ phase = "filter" => \A u \in Earlier : Complete(u, picked)

BatchFull ==
  (config.filter /\ phase \in {"step_end", "cleanup"}) =>
    /\ Cardinality(UidsOf(picked)) = BatchSize
    /\ \A u \in UidsOf(picked) : Complete(u, picked)

\* Without the filter the trainer holds one batch, from its sampling to its clean-up.
OneBatch == ~ config.filter => phase # "filter" /\ (Unsampled => picked = {})

\* Versions after which a prompt that waits is overdue at every poll, if it is in flight.
Slack == IF MaxAge > 2 THEN MaxAge - 1 ELSE 1

\* The prompts of version b and before that wait, and the version of the next sampling.
Old(b) == {u \in Outstanding : born[u] <= b}
NextSample == IF phase \in {"step_end", "cleanup", "raised"} THEN gs + 1 ELSE gs

\* "wait": what is overdue is terminal in the snapshot, and since the oldest go first every
\* sampling takes a batch of them while there are any.
OldConsumed ==
  config.strategy = "wait" /\ ~ config.filter =>
    /\ phase = "take" => \A u \in Outstanding : Age(u) >= MaxAge => u \in view.terminal
    /\ \A j \in 0 .. config.warmup :
         Cardinality(Old(NextSample - Slack - j)) <= BatchSize * (config.warmup - j)

CInv ==
  /\ SupplyExact
  /\ AcceptedComplete
  /\ BatchFull
  /\ OneBatch
  /\ OldConsumed
  /\ StalenessBounded

-----------------------------------------------------------------------------
(* Counting.                                                               *)

LEMMA UidsFinite ==
  ASSUME NEW S, S \subseteq Uid
  PROVE  IsFiniteSet(S) /\ Cardinality(S) \in Nat
  BY ConfigAssumption, FS_Subset, FS_CardinalityType

LEMMA FewerUids ==
  ASSUME NEW S, NEW T, S \subseteq T, T \subseteq Uid
  PROVE  /\ Cardinality(S) \in Nat /\ Cardinality(T) \in Nat
         /\ Cardinality(S) <= Cardinality(T)
<1>1. IsFiniteSet(T) /\ Cardinality(T) \in Nat /\ Cardinality(S) \in Nat
  BY UidsFinite
<1> QED
  BY <1>1, FS_Subset

LEMMA DisjointUids ==
  ASSUME NEW S, NEW T, S \subseteq Uid, T \subseteq Uid, S \cap T = {}
  PROVE  /\ Cardinality(S) \in Nat /\ Cardinality(T) \in Nat
         /\ Cardinality(S \cup T) = Cardinality(S) + Cardinality(T)
<1>1. /\ IsFiniteSet(S) /\ Cardinality(S) \in Nat
      /\ IsFiniteSet(T) /\ Cardinality(T) \in Nat
  BY UidsFinite
<1>2. Cardinality(S \cap T) = 0
  BY FS_EmptySet
<1>3. Cardinality(S \cup T) = Cardinality(S) + Cardinality(T) - Cardinality(S \cap T)
  BY <1>1, FS_Union
<1> QED
  BY <1>1, <1>2, <1>3

LEMMA WithoutUids ==
  ASSUME NEW S, NEW T, S \subseteq Uid, T \subseteq S
  PROVE  /\ Cardinality(S) \in Nat /\ Cardinality(T) \in Nat
         /\ Cardinality(S \ T) = Cardinality(S) - Cardinality(T)
<1>1. /\ Cardinality(S \ T) \in Nat /\ Cardinality(T) \in Nat
      /\ Cardinality((S \ T) \cup T) = Cardinality(S \ T) + Cardinality(T)
  BY DisjointUids
<1>2. (S \ T) \cup T = S
  OBVIOUS
<1>3. Cardinality(S) = Cardinality(S \ T) + Cardinality(T)
  BY <1>1, <1>2, Zenon
<1> QED
  BY <1>1, <1>3

\* One batch more.
LEMMA OneMoreBatch ==
  ASSUME NEW b \in Nat, NEW n \in Int
  PROVE  /\ b * n \in Int /\ b * (n + 1) \in Int
         /\ b * (n + 1) = b * n + b
  OBVIOUS

LEMMA Batched ==
  ASSUME NEW b \in Nat, NEW n \in Nat
  PROVE  b * n \in Nat
  OBVIOUS

LEMMA ConfigType ==
  ASSUME IInv
  PROVE  /\ config \in Config /\ config.warmup \in Nat /\ config.filter \in BOOLEAN
         /\ MaxAge \in Nat \ {0} /\ Slack \in Nat \ {0} /\ MaxAge <= Slack + 1
         /\ BatchSize \in Nat \ {0} /\ gs \in Nat \ {0}
         /\ Outstanding \subseteq Uid /\ Terminal \subseteq Outstanding
         /\ UidsOf(picked) \subseteq Uid /\ born \in [Uid -> Nat]
<1>1. config \in Config
  BY ConfigAssumption DEF IInv, TypeOK
<1>2. config.warmup \in Nat /\ config.filter \in BOOLEAN
  BY <1>1 DEF Config
<1>3. MaxAge \in Nat \ {0}
  <2> PICK s \in Nat \ {0}, t \in Nat \ {0} : s = config.sync /\ t = config.threshold
    BY <1>1 DEF Config
  <2>1. t * s \in Nat \ {0}
    OBVIOUS
  <2> QED
    BY <2>1 DEF MaxAge
<1>4. Slack \in Nat \ {0} /\ MaxAge <= Slack + 1
  BY <1>3 DEF Slack
<1>5. UidsOf(picked) \subseteq Uid
  BY DEF IInv, TypeOK, Trajectory, UidsOf
<1> QED
  BY <1>1, <1>2, <1>3, <1>4, <1>5, ConfigAssumption
  DEF IInv, TypeOK, Outstanding, Terminal

\* A group in the trainer's batch is complete until one of its rows comes or goes.
LEMMA StillComplete ==
  ASSUME NEW u, Complete(u, picked), UNCHANGED config,
         \A s \in Session : <<u, s>> \in picked' <=> <<u, s>> \in picked,
         \A s \in Session : <<u, s>> \in picked => rows'[u][s] = rows[u][s]
  PROVE  Complete(u, picked)'
<1>1. Rows(u, picked)' = Rows(u, picked)
  BY DEF Rows
<1>2. QED
  BY <1>1 DEF Complete

\* rollout.n rows, at most one a session, come from all sessions.
LEMMA OneRowEach ==
  ASSUME NEW u, NEW K, Complete(u, K), \A s \in Session : rows[u][s] \in Nat /\ rows[u][s] <= 1
  PROVE  \A s \in Session : <<u, s>> \in K
<1> DEFINE S == {s \in Session : <<u, s>> \in K}
           f == [s \in S |-> <<u, s, 1>>]
<1>1. IsFiniteSet(S) /\ IsFiniteSet(Session) /\ S \subseteq Session
  BY ConfigAssumption, FS_Subset
<1>2. Rows(u, K) \subseteq {f[s] : s \in S}
  <2> SUFFICES ASSUME NEW r \in Rows(u, K) PROVE r \in {f[s] : s \in S}
    OBVIOUS
  <2>1. r = <<u, r[2], r[3]>> /\ r[2] \in S /\ r[3] = 1
    BY DEF Rows
  <2>2. QED
    BY <2>1
<1>3. IsFiniteSet({f[s] : s \in S}) /\ Cardinality({f[s] : s \in S}) <= Cardinality(S)
  <2>1. f \in [S -> {f[s] : s \in S}] /\ \A t \in {f[s] : s \in S} : \E s \in S : f[s] = t
    OBVIOUS
  <2> HIDE DEF f, S
  <2>2. QED
    BY <1>1, <2>1, FS_Surjection DEF Surjection
<1> HIDE DEF f
<1>4. Cardinality(Rows(u, K)) <= Cardinality({f[s] : s \in S})
  BY <1>2, <1>3, FS_Subset
<1>5. Cardinality(Rows(u, K)) = Cardinality(Session)
  BY DEF Complete
<1>6. Cardinality(S) \in Nat /\ Cardinality(Session) \in Nat /\ Cardinality({f[s] : s \in S}) \in Nat
  BY <1>1, <1>3, FS_CardinalityType
<1>7. S = Session
  BY <1>1, <1>3, <1>4, <1>5, <1>6, FS_Subset
<1>8. QED
  BY <1>7

\* A registration adds a batch of prompts of the present version.
LEMMA RegisterCounts ==
  ASSUME IInv, Register
  PROVE  /\ Cardinality(Outstanding) \in Nat
         /\ Cardinality(Outstanding') = Cardinality(Outstanding) + BatchSize
         /\ \A b \in Int : b < gs =>
              {u \in Outstanding' : born'[u] <= b} = {u \in Outstanding : born[u] <= b}
<1> PICK G \in SUBSET {u \in Uid : born[u] = 0} :
      /\ Cardinality(G) = BatchSize
      /\ marker' = [u \in Uid |-> IF u \in G THEN "pending" ELSE marker[u]]
      /\ born' = [u \in Uid |-> IF u \in G THEN gs ELSE born[u]]
  BY DEF Register
<1>1. G \subseteq Uid /\ Outstanding \subseteq Uid /\ Outstanding \cap G = {}
  BY DEF IInv, MarkersExplained, Outstanding
<1>2. Outstanding' = Outstanding \cup G
  BY DEF Outstanding
<1>3. /\ Cardinality(Outstanding) \in Nat
      /\ Cardinality(Outstanding \cup G) = Cardinality(Outstanding) + Cardinality(G)
  BY <1>1, DisjointUids
<1>4. \A b \in Int : b < gs =>
        {u \in Outstanding' : born'[u] <= b} = {u \in Outstanding : born[u] <= b}
  <2> SUFFICES ASSUME NEW b \in Int, b < gs
               PROVE  {u \in Outstanding' : born'[u] <= b} = {u \in Outstanding : born[u] <= b}
    OBVIOUS
  <2>1. gs \in Nat
    BY DEF IInv, TypeOK
  <2>2. \A u \in G : born'[u] = gs /\ ~ (born'[u] <= b)
    BY <2>1
  <2>3. \A u \in Outstanding : born'[u] = born[u]
    BY <1>1
  <2> QED
    BY <1>2, <2>2, <2>3
<1> QED
  BY <1>2, <1>3, <1>4

-----------------------------------------------------------------------------
(* The steps.                                                              *)

LEMMA InitC == Init => CInv
<1> SUFFICES ASSUME Init PROVE CInv
  OBVIOUS
<1>1. IInv
  BY InitInv
<1>2. Outstanding = {} /\ Cardinality({}) = 0 /\ config.warmup \in Nat /\ BatchSize \in Nat
  BY <1>1, ConfigType, FS_EmptySet DEF Init, Outstanding
<1>3. SupplyExact
  BY <1>2 DEF Init, SupplyExact, Batches
<1>4. OldConsumed
  <2>1. \A b : Old(b) = {}
    BY <1>2 DEF Old
  <2>2. \A j \in 0 .. config.warmup : 0 <= BatchSize * (config.warmup - j)
    <3> SUFFICES ASSUME NEW j \in 0 .. config.warmup PROVE 0 <= BatchSize * (config.warmup - j)
      OBVIOUS
    <3>1. config.warmup - j \in Nat
      BY <1>2
    <3> QED
      BY <1>2, <3>1, Batched
  <2> QED
    BY <1>2, <2>1, <2>2 DEF OldConsumed, Init
<1>5. AcceptedComplete /\ BatchFull /\ OneBatch /\ StalenessBounded
  BY DEF Init, AcceptedComplete, BatchFull, OneBatch, StalenessBounded, Unsampled, UidsOf
<1> QED
  BY <1>3, <1>4, <1>5 DEF CInv

\* Coroutines neither register nor take prompts.
LEMMA QuietStep ==
  ASSUME IInv, CInv, UNCHANGED trainerVars, UNCHANGED born, Outstanding' = Outstanding,
         \A u \in Uid, s \in Session : <<u, s>> \in picked => rows'[u][s] = rows[u][s]
  PROVE  CInv'
<1> USE DEF trainerVars
<1>1. SupplyExact'
  BY DEF CInv, SupplyExact, Batches
<1>0. \A u \in UidsOf(picked) : Complete(u, picked) => Complete(u, picked)'
  BY ConfigType, StillComplete
<1>2. AcceptedComplete'
  BY <1>0 DEF CInv, AcceptedComplete, Unsampled, Earlier, UidsOf
<1>3. BatchFull'
  BY <1>0 DEF CInv, BatchFull, UidsOf
<1>4. OneBatch'
  BY DEF CInv, OneBatch, Unsampled
<1>5. OldConsumed'
  BY DEF CInv, OldConsumed, Old, NextSample, Slack, MaxAge, Age
<1>6. StalenessBounded'
  BY DEF CInv, StalenessBounded, Age, MaxAge, UidsOf
<1> QED
  BY <1>1, <1>2, <1>3, <1>4, <1>5, <1>6 DEF CInv

\* A batch is registered.
LEMMA RegisterC ==
  ASSUME IInv, CInv, Register, UNCHANGED <<config, gs, rows, view, picked>>,
         phase \in {"warmup", "register"}, phase' \in {"warmup", "sample"}, warm' <= config.warmup,
         Batches' = Batches + 1
  PROVE  CInv'
<1>0. /\ config.warmup \in Nat /\ BatchSize \in Nat /\ Slack \in Nat \ {0} /\ gs \in Nat
      /\ warm \in Nat
  BY ConfigType DEF IInv, TypeOK
<1>1. SupplyExact'
  <2>1. Cardinality(Outstanding') = Cardinality(Outstanding) + BatchSize
    BY RegisterCounts
  <2>2. Batches \in Int
    BY <1>0 DEF Batches
  <2>3. BatchSize * (Batches + 1) = BatchSize * Batches + BatchSize
    BY <1>0, <2>2, OneMoreBatch
  <2> QED
    BY <2>1, <2>3 DEF CInv, SupplyExact
<1>2. AcceptedComplete'
  BY DEF CInv, AcceptedComplete, Unsampled, Complete, Rows, UidsOf
<1>3. BatchFull' /\ StalenessBounded'
  BY DEF BatchFull, StalenessBounded
<1>4. OneBatch'
  BY DEF CInv, OneBatch, Unsampled
<1>5. OldConsumed'
  <2> SUFFICES ASSUME config.strategy = "wait", ~ config.filter, NEW j \in 0 .. config.warmup
               PROVE  Cardinality(Old(gs - Slack - j)') <= BatchSize * (config.warmup - j)
    BY DEF OldConsumed, NextSample, Slack, MaxAge
  <2>1. gs - Slack - j \in Int /\ gs - Slack - j < gs
    BY <1>0
  <2> PICK b \in Int : b = gs - Slack - j
    BY <2>1
  <2>2. {u \in Outstanding' : born'[u] <= b} = {u \in Outstanding : born[u] <= b}
    BY <2>1, RegisterCounts
  <2>3. Old(gs - Slack - j)' = Old(gs - Slack - j)
    BY <2>2 DEF Old, Slack, MaxAge
  <2>4. Cardinality(Old(gs - Slack - j)) <= BatchSize * (config.warmup - j)
    BY DEF CInv, OldConsumed, NextSample
  <2> QED
    BY <2>3, <2>4
<1> QED
  BY <1>1, <1>2, <1>3, <1>4, <1>5 DEF CInv

\* The snapshot of the poll holds everything overdue: nothing overdue is in flight.
LEMMA PollC ==
  ASSUME IInv, CInv, Poll
  PROVE  CInv'
<1> USE DEF Poll
<1>1. SupplyExact'
  BY DEF CInv, SupplyExact, Batches, Outstanding
<1>2. AcceptedComplete' /\ OneBatch'
  BY DEF CInv, AcceptedComplete, OneBatch, Unsampled, Complete, Rows, UidsOf
<1>3. BatchFull' /\ StalenessBounded'
  BY DEF BatchFull, StalenessBounded
<1>4. OldConsumed'
  <2> SUFFICES ASSUME config.strategy = "wait", ~ config.filter
               PROVE  OldConsumed'
    BY DEF OldConsumed
  <2>1. \A u \in Outstanding : Age(u) >= MaxAge => u \in Terminal
    BY DEF HasEnoughSamples, OverdueInFlight
  <2>2. \A b : Old(b)' = Old(b)
    BY DEF Old, Outstanding
  <2>3. Slack' = Slack /\ NextSample' = NextSample /\ NextSample = gs
    BY DEF Slack, MaxAge, NextSample
  <2>4. \A j \in 0 .. config.warmup :
          Cardinality(Old(NextSample - Slack - j)) <= BatchSize * (config.warmup - j)
    BY DEF CInv, OldConsumed
  <2>5. \A u \in Outstanding' : (Age(u) >= MaxAge)' => u \in view'.terminal
    BY <2>1 DEF Outstanding, Age, MaxAge
  <2>6. \A j \in 0 .. config.warmup :
          Cardinality(Old(NextSample - Slack - j)') <= BatchSize * (config.warmup - j)
    BY <2>2, <2>3, <2>4 DEF Old, Outstanding
  <2> QED
    BY <2>5, <2>6 DEF OldConsumed
<1> QED
  BY <1>1, <1>2, <1>3, <1>4 DEF CInv

\* What a sampling leaves of the prompts of version b and before: nothing, or a batch less.
LEMMA OldestFirst ==
  ASSUME IInv, phase = "take", NEW b \in Int, NEW G \in SUBSET view.terminal, Oldest(G),
         Cardinality(G) = BatchSize, marker' = ClearMarkers(G), born' = born,
         Old(b) \subseteq view.terminal
  PROVE  \/ Old(b)' = {}
         \/ /\ Old(b)' \subseteq Uid /\ Cardinality(Old(b)) \in Nat
            /\ Cardinality(Old(b)') = Cardinality(Old(b)) - BatchSize
<1>1. G \subseteq Outstanding /\ Outstanding \subseteq Uid /\ born \in [Uid -> Nat]
  BY ConfigType DEF IInv, ViewAccurate
<1>2. Old(b)' = Old(b) \ G
  BY <1>1 DEF Old, Outstanding, ClearMarkers
<1>3. CASE Old(b) \subseteq G
  BY <1>2, <1>3
<1>4. CASE ~ (Old(b) \subseteq G)
  <2> PICK v \in Old(b) : v \notin G
    BY <1>4
  <2>1. v \in view.terminal \ G /\ born[v] <= b /\ v \in Uid
    BY <1>1 DEF Old
  <2>2. \A u \in G : born[u] <= born[v] /\ born[u] \in Nat /\ born[v] \in Nat
    BY <1>1, <2>1 DEF Oldest
  <2>3. G \subseteq Old(b) /\ Old(b) \subseteq Uid
    BY <1>1, <2>1, <2>2 DEF Old
  <2>4. /\ Cardinality(Old(b)) \in Nat
        /\ Cardinality(Old(b) \ G) = Cardinality(Old(b)) - Cardinality(G)
    BY <2>3, WithoutUids
  <2> QED
    BY <1>2, <2>3, <2>4
<1> QED
  BY <1>3, <1>4

LEMMA TakeC ==
  ASSUME IInv, CInv, Take
  PROVE  CInv'
<1> PICK G \in SUBSET view.terminal :
      /\ Cardinality(G) = BatchSize /\ Oldest(G)
      /\ marker' = ClearMarkers(G)
      /\ picked' = picked \cup (Gathered(G) \ {k \in Gathered(G) : Stale(k[1])})
      /\ phase' \in {"raised", IF config.filter THEN "filter" ELSE "step_end"}
  BY DEF Take
<1>1. /\ phase = "take" /\ UNCHANGED <<config, gs, warm, gens, born, sess, rows, view, trained>>
  BY DEF Take
<1>2. /\ config \in Config /\ config.warmup \in Nat /\ BatchSize \in Nat \ {0}
      /\ MaxAge \in Nat \ {0} /\ Slack \in Nat \ {0} /\ MaxAge <= Slack + 1 /\ gs \in Nat \ {0}
      /\ Outstanding \subseteq Uid /\ born \in [Uid -> Nat]
  BY ConfigType
<1>3. G \subseteq Outstanding
  BY <1>1, ConfigType DEF IInv, ViewAccurate
<1>4. Outstanding' = Outstanding \ G
  BY <1>3 DEF ClearMarkers, Outstanding
<1>5. SupplyExact'
  <2>1. /\ Cardinality(Outstanding) \in Nat
        /\ Cardinality(Outstanding \ G) = Cardinality(Outstanding) - BatchSize
    BY <1>2, <1>3, WithoutUids
  <2>2. Cardinality(Outstanding) = BatchSize * (config.warmup + 1)
    BY <1>1 DEF CInv, SupplyExact, Batches
  <2>3. /\ BatchSize * config.warmup \in Int
        /\ BatchSize * (config.warmup + 1) = BatchSize * config.warmup + BatchSize
    BY <1>2, OneMoreBatch
  <2>4. Cardinality(Outstanding') = BatchSize * config.warmup
    BY <1>2, <1>4, <2>1, <2>2, <2>3
  <2>5. warm' <= config'.warmup
    BY <1>1 DEF CInv, SupplyExact
  <2>6. Batches' = config.warmup
    BY <1>1 DEF Batches
  <2> QED
    BY <2>4, <2>5, <2>6 DEF SupplyExact
<1>6. \A u \in UidsOf(picked') : u \in UidsOf(picked) \/ u \in G
  BY DEF UidsOf, Gathered
<1>7. AcceptedComplete'
  <2> SUFFICES ASSUME config.filter, phase' = "filter", NEW u \in Earlier'
               PROVE  Complete(u, picked)'
    BY <1>1 DEF AcceptedComplete, Unsampled
  <2>1. u \in UidsOf(picked)
    BY <1>1, <1>6 DEF Earlier
  <2>2. Complete(u, picked)
    BY <1>1, <2>1 DEF CInv, AcceptedComplete, Unsampled
  <2>3. \A t \in Session : <<u, t>> \in picked' <=> <<u, t>> \in picked
    BY <1>1 DEF Earlier, Gathered
  <2> QED
    BY <1>1, <2>2, <2>3, StillComplete
<1>8. BatchFull'
  BY <1>1 DEF BatchFull
<1>9. OneBatch'
  BY <1>1 DEF OneBatch, Unsampled
<1>10. OldConsumed'
  <2> SUFFICES ASSUME config.strategy = "wait", ~ config.filter, NEW i \in 0 .. config.warmup
               PROVE  Cardinality(Old(NextSample - Slack - i)') <= BatchSize * (config.warmup - i)
    <3>1. ~ config.filter => phase' \in {"raised", "step_end"}
      OBVIOUS
    <3> QED
      BY <1>1, <3>1 DEF OldConsumed
  <2>9. NextSample' = gs + 1 /\ Slack' = Slack /\ gs' = gs
    BY <1>1 DEF NextSample, Slack, MaxAge
  <2>0. config.warmup - i \in Nat /\ BatchSize * (config.warmup - i) \in Nat
    <3>1. config.warmup - i \in Nat
      BY <1>2
    <3> QED
      BY <1>2, <3>1, Batched
  <2>1. CASE i = 0
    <3> PICK A, B : A = Old(NextSample - Slack - i)' /\ B = Outstanding'
      OBVIOUS
    <3>1. A \subseteq B /\ B \subseteq Uid
      BY <1>2, <1>4 DEF Old
    <3>2. Cardinality(A) \in Nat /\ Cardinality(B) \in Nat /\ Cardinality(A) <= Cardinality(B)
      BY <3>1, FewerUids
    <3>3. Cardinality(B) = BatchSize * config.warmup
      BY <1>1, <1>5 DEF SupplyExact, Batches
    <3>4. config.warmup - i = config.warmup
      BY <1>2, <2>1
    <3> QED
      BY <2>0, <3>2, <3>3, <3>4
  <2>2. CASE i # 0
    <3> PICK j \in 0 .. config.warmup : i = j + 1
      BY <1>2, <2>2, i - 1 \in 0 .. config.warmup
    <3> PICK b \in Int : b = gs - Slack - j
      BY <1>2
    <3>1. gs + 1 - Slack - i = b
      BY <1>2
    <3>2. Old(b) \subseteq view.terminal
      <4> SUFFICES ASSUME NEW u \in Outstanding, born[u] <= b PROVE u \in view.terminal
        BY DEF Old
      <4>1. born[u] \in Nat
        BY <1>2
      <4>2. Age(u) >= MaxAge
        BY <1>2, <4>1 DEF Age
      <4> QED
        BY <1>1, <4>2 DEF CInv, OldConsumed
    <3>3. Cardinality(Old(b)) <= BatchSize * (config.warmup - j)
      BY <1>1 DEF CInv, OldConsumed, NextSample
    <3>4. \/ Old(b)' = {}
          \/ /\ Cardinality(Old(b)) \in Nat
             /\ Cardinality(Old(b)') = Cardinality(Old(b)) - BatchSize
      BY <1>1, <3>2, OldestFirst
    <3>5. /\ BatchSize * (config.warmup - i) \in Int
          /\ BatchSize * (config.warmup - j) = BatchSize * (config.warmup - i) + BatchSize
      <4>1. config.warmup - j = (config.warmup - i) + 1 /\ config.warmup - i \in Int
        BY <1>2
      <4> QED
        BY <1>2, <4>1, OneMoreBatch
    <3>6. Cardinality(Old(b)') <= BatchSize * (config.warmup - i)
      <4>1. CASE Old(b)' = {}
        <5>1. Cardinality(Old(b)') = 0
          BY <4>1, FS_EmptySet
        <5> QED
          BY <2>0, <5>1
      <4>2. CASE /\ Cardinality(Old(b)) \in Nat
                 /\ Cardinality(Old(b)') = Cardinality(Old(b)) - BatchSize
        BY <1>2, <3>3, <3>5, <4>2
      <4> QED
        BY <3>4, <4>1, <4>2
    <3>7. Old(NextSample - Slack - i)' = Old(b)'
      <4>1. (NextSample - Slack - i)' = b
        BY <1>2, <2>9, <3>1
      <4> QED
        BY <4>1, Zenon DEF Old
    <3> QED
      BY <3>6, <3>7
  <2> QED
    BY <2>1, <2>2
<1>11. StalenessBounded'
  <2> SUFFICES ASSUME phase' = "step_end", ~ config.filter, NEW u \in UidsOf(picked')
               PROVE  Age(u) <= IF config.strategy = "drop" THEN MaxAge
                                ELSE config.warmup + Slack
    BY <1>1 DEF StalenessBounded, Age, MaxAge, Slack
  <2>1. picked = {}
    BY <1>1 DEF CInv, OneBatch, Unsampled
  <2>2. u \in G /\ ~ Stale(u)
    BY <2>1 DEF UidsOf, Gathered
  <2>3. u \in Outstanding /\ born[u] \in Nat
    BY <1>2, <1>3, <2>2
  <2>4. CASE config.strategy = "drop"
    BY <1>2, <2>2, <2>3, <2>4 DEF Stale, Age
  <2>5. CASE config.strategy = "wait"
    <3> PICK b \in Int : b = gs - Slack - config.warmup
      BY <1>2
    <3>1. Cardinality(Old(b)) <= BatchSize * (config.warmup - config.warmup)
      BY <1>1, <1>2, <2>5, config.warmup \in 0 .. config.warmup DEF CInv, OldConsumed, NextSample
    <3>2. BatchSize * (config.warmup - config.warmup) = 0
      BY <1>2
    <3>3. Old(b) \subseteq Uid /\ IsFiniteSet(Old(b)) /\ Cardinality(Old(b)) \in Nat
      <4>1. Old(b) \subseteq Uid
        BY <1>2 DEF Old
      <4> QED
        BY <4>1, UidsFinite
    <3>4. Old(b) = {}
      BY <3>1, <3>2, <3>3, FS_EmptySet
    <3>5. ~ (born[u] <= b)
      BY <2>3, <3>4 DEF Old
    <3> QED
      BY <1>2, <2>3, <2>5, <3>5 DEF Age
  <2> QED
    BY <1>2, <2>4, <2>5 DEF Config
<1> QED
  BY <1>5, <1>7, <1>8, <1>9, <1>10, <1>11 DEF CInv

\* The filter accepts complete groups only, and goes on when it has a batch of them.
LEMMA FilterC ==
  ASSUME IInv, CInv, Filter
  PROVE  CInv'
<1> PICK V \in SUBSET {u \in UidsOf(picked) \ Earlier : Complete(u, picked)} :
      \E A \in SUBSET V :
        /\ Cardinality(A) = IF Cardinality(V) < BatchSize - Cardinality(Earlier)
                            THEN Cardinality(V) ELSE BatchSize - Cardinality(Earlier)
        /\ picked' = {k \in picked : k[1] \in Earlier \cup A}
        /\ phase' = AfterFilter(Cardinality(A) = BatchSize - Cardinality(Earlier))
  BY DEF Filter
<1> PICK A \in SUBSET V :
      /\ picked' = {k \in picked : k[1] \in Earlier \cup A}
      /\ phase' = AfterFilter(Cardinality(A) = BatchSize - Cardinality(Earlier))
  OBVIOUS
<1>1. /\ phase = "filter" /\ UNCHANGED <<config, gs, warm, gens, marker, born, sess, rows, view, trained>>
      /\ config.filter
  BY DEF Filter, CInv, OneBatch
<1>2. \A u \in Earlier \cup A : u \in UidsOf(picked) /\ Complete(u, picked)
  BY <1>1 DEF CInv, AcceptedComplete, Earlier
<1>3. UidsOf(picked') = Earlier \cup A
  BY <1>2 DEF UidsOf
<1>4. \A u \in Earlier \cup A : Complete(u, picked)'
  BY <1>1, <1>2, StillComplete
<1>5. SupplyExact'
  BY <1>1 DEF CInv, SupplyExact, Batches, AfterFilter, Outstanding
<1>6. AcceptedComplete'
  BY <1>1, <1>3, <1>4 DEF AcceptedComplete, Unsampled, AfterFilter, UidsOf
<1>7. BatchFull'
  <2>1. CASE phase' = "step_end"
    <3>1. Cardinality(A) = BatchSize - Cardinality(Earlier)
      BY <2>1 DEF AfterFilter
    <3>2. /\ Cardinality(Earlier) \in Nat /\ Cardinality(A) \in Nat
          /\ Cardinality(Earlier \cup A) = Cardinality(Earlier) + Cardinality(A)
      <4>1. Earlier \subseteq Uid /\ A \subseteq Uid /\ Earlier \cap A = {}
        BY ConfigType DEF Earlier
      <4> QED
        BY <4>1, DisjointUids
    <3>3. Cardinality(UidsOf(picked')) = BatchSize
      <4>1. Cardinality(Earlier \cup A) = BatchSize
        BY <3>1, <3>2, ConfigAssumption
      <4> QED
        BY <1>3, <4>1, Zenon
    <3> QED
      BY <1>3, <1>4, <3>3 DEF BatchFull, UidsOf
  <2>2. CASE phase' # "step_end"
    BY <2>2 DEF BatchFull, AfterFilter
  <2> QED
    BY <2>1, <2>2
<1>8. OneBatch' /\ OldConsumed' /\ StalenessBounded'
  BY <1>1 DEF OneBatch, OldConsumed, StalenessBounded
<1> QED
  BY <1>5, <1>6, <1>7, <1>8 DEF CInv

LEMMA StepEndC ==
  ASSUME IInv, CInv, StepEnd
  PROVE  CInv'
<1> USE DEF StepEnd
<1>1. SupplyExact'
  BY DEF CInv, SupplyExact, Batches, Outstanding
<1>2. AcceptedComplete' /\ OneBatch'
  BY DEF CInv, AcceptedComplete, OneBatch, Unsampled
<1>3. BatchFull' /\ StalenessBounded'
  BY DEF CInv, BatchFull, StalenessBounded, Complete, Rows, UidsOf
<1>4. OldConsumed'
  BY DEF CInv, OldConsumed, Old, Outstanding, NextSample, Slack, MaxAge, Age
<1> QED
  BY <1>1, <1>2, <1>3, <1>4 DEF CInv

LEMMA CleanupC ==
  ASSUME IInv, CInv, Cleanup
  PROVE  CInv'
<1> USE DEF Cleanup
<1>1. SupplyExact'
  BY DEF CInv, SupplyExact, Batches, Outstanding
<1>2. AcceptedComplete' /\ OneBatch'
  BY DEF CInv, AcceptedComplete, OneBatch, Unsampled, UidsOf
<1>3. BatchFull' /\ StalenessBounded'
  BY DEF CInv, BatchFull, StalenessBounded
<1>4. OldConsumed'
  <2>1. NextSample' = NextSample
    BY ConfigType DEF NextSample
  <2> QED
    BY <2>1 DEF CInv, OldConsumed, Old, Outstanding, Slack, MaxAge, Age
<1> QED
  BY <1>1, <1>2, <1>3, <1>4 DEF CInv

LEMMA WarmUpC ==
  ASSUME IInv, CInv, WarmUp
  PROVE  CInv'
<1>0. warm \in Nat /\ config.warmup \in Nat /\ warm <= config.warmup
  BY ConfigType DEF IInv, TypeOK, CInv, SupplyExact
<1>1. CASE Register /\ warm' = warm - 1 /\ MoreWarmUp /\ phase' = phase
  <2>1. Batches' = Batches + 1 /\ warm' <= config.warmup
    BY <1>0, <1>1 DEF WarmUp, Batches
  <2> QED
    BY <1>1, <2>1, RegisterC DEF WarmUp
<1>2. CASE ~ MoreWarmUp /\ phase' = "register" /\ UNCHANGED <<marker, born, warm>>
  <2>0. UNCHANGED <<config, gs, rows, view, picked>> /\ phase = "warmup" /\ Outstanding' = Outstanding
    BY <1>2 DEF WarmUp, Outstanding
  <2>1. SupplyExact'
    <3>1. Batches' = Batches
      BY <1>0, <1>2, <2>0 DEF MoreWarmUp, Batches
    <3> QED
      BY <1>2, <2>0, <3>1 DEF CInv, SupplyExact
  <2>2. AcceptedComplete' /\ OneBatch'
    BY <1>2, <2>0 DEF CInv, AcceptedComplete, OneBatch, Unsampled, Complete, Rows, UidsOf
  <2>3. BatchFull' /\ StalenessBounded'
    BY <1>2, <2>0 DEF BatchFull, StalenessBounded
  <2>4. OldConsumed'
    BY <1>2, <2>0 DEF CInv, OldConsumed, Old, NextSample, Slack, MaxAge, Age
  <2> QED
    BY <2>1, <2>2, <2>3, <2>4 DEF CInv
<1> QED
  BY <1>1, <1>2 DEF WarmUp

LEMMA AddBatchC ==
  ASSUME IInv, CInv, AddBatch
  PROVE  CInv'
<1>1. CASE Register /\ phase' = "sample"
  <2>1. Batches' = Batches + 1 /\ warm' <= config.warmup
    BY <1>1 DEF AddBatch, Batches, CInv, SupplyExact
  <2> QED
    BY <1>1, <2>1, RegisterC DEF AddBatch
<1>2. CASE config.filter /\ phase' = "raised" /\ UNCHANGED <<marker, born>>
  <2>0. UNCHANGED <<config, gs, warm, view, picked>> /\ phase = "register" /\ Outstanding' = Outstanding
    BY <1>2 DEF AddBatch, Outstanding
  <2>1. SupplyExact'
    BY <1>2, <2>0 DEF CInv, SupplyExact, Batches
  <2>2. AcceptedComplete' /\ OneBatch' /\ OldConsumed'
    BY <1>2, <2>0 DEF AcceptedComplete, OneBatch, OldConsumed, Unsampled
  <2>3. BatchFull' /\ StalenessBounded'
    BY <1>2, <2>0 DEF BatchFull, StalenessBounded
  <2> QED
    BY <2>1, <2>2, <2>3 DEF CInv
<1> QED
  BY <1>1, <1>2 DEF AddBatch

LEMMA NextC ==
  ASSUME IInv, CInv, [Next]_vars
  PROVE  CInv'
<1>1. CASE Trainer
  BY <1>1, WarmUpC, AddBatchC, PollC, TakeC, FilterC, StepEndC, CleanupC DEF Trainer
<1>2. ASSUME NEW u \in Uid, Prompt(u) PROVE CInv'
  <2>1. UNCHANGED trainerVars /\ UNCHANGED <<born, rows>>
    BY <1>2 DEF Prompt, StartPrompt, FinishPrompt, FailPrompt, trainerVars
  <2>2. Outstanding' = Outstanding
    BY <1>2 DEF Prompt, StartPrompt, FinishPrompt, FailPrompt, Outstanding, IInv, TypeOK
  <2> QED
    BY <2>1, <2>2, QuietStep
<1>3. ASSUME NEW u \in Uid, NEW s \in Session, SessionStep(u, s) \/ FailSession(u, s) PROVE CInv'
  <2>1. UNCHANGED trainerVars /\ UNCHANGED <<born, marker>>
    BY <1>3 DEF SessionStep, Generate, Post, PostNothing, FailSession, trainerVars
  <2>2. Outstanding' = Outstanding
    BY <2>1 DEF Outstanding
  <2>3. \A v \in Uid, t \in Session : <<v, t>> \in picked => rows'[v][t] = rows[v][t]
    BY <1>3 DEF SessionStep, Generate, Post, PostNothing, FailSession, IInv, TypeOK, KeysPosted
  <2> QED
    BY <2>1, <2>2, <2>3, QuietStep
<1>4. CASE UNCHANGED vars
  BY <1>4, QuietStep DEF vars, trainerVars, Outstanding
<1> QED
  BY <1>1, <1>2, <1>3, <1>4 DEF Next, Terminated

\* The filtered batch, spelled out session by session.
LEMMA WholeBatch == IInv /\ CInv => FilteredBatchFull
<1> SUFFICES ASSUME IInv, CInv, config.filter, phase \in {"step_end", "cleanup"},
                    NEW u \in UidsOf(picked), \A s \in Session : rows[u][s] <= 1
             PROVE  \A s \in Session : <<u, s>> \in picked
  BY DEF FilteredBatchFull, CInv, BatchFull, Complete
<1>1. Complete(u, picked)
  BY DEF CInv, BatchFull
<1>2. \A s \in Session : rows[u][s] \in Nat
  <2>1. u \in Uid /\ config.outputs \in Nat
    BY ConfigType DEF Config
  <2>2. QED
    BY <2>1 DEF IInv, TypeOK
<1>3. QED
  BY <1>1, <1>2, OneRowEach

-----------------------------------------------------------------------------
(* Theorems.                                                               *)

\* Registration, sampling and the filter loop keep the number of prompts in flight, and
\* every sampling of overdue prompts takes a batch of them.
THEOREM SupplyInvariance == Spec => []CInv
<1>1. IInv /\ CInv /\ [Next]_vars => CInv'
  BY NextC
<1> QED
  BY <1>1, InitC, Invariance, PTL DEF Spec

\* ReplayBuffer.sample never waits for prompts that were not registered.
THEOREM SupplyIsEnough == Spec => []SupplyCoversDemand
<1>1. CInv => SupplyCoversDemand
  BY DEF CInv, SupplyExact, Batches, SupplyCoversDemand
<1> QED
  BY <1>1, SupplyInvariance, PTL

\* The group filter hands over exactly train_batch_size groups of rollout.n rows, however
\* many turns of its loop it took; a group that lacks a session is among them only when
\* another of its sessions put more than one row.
THEOREM FilteredBatchIsFull == Spec => []FilteredBatchFull
<1>1. IInv /\ CInv => FilteredBatchFull
  BY WholeBatch
<1> QED
  BY <1>1, Invariance, SupplyInvariance, PTL

\* max_off_policy_threshold under both strategies: "drop" bounds the age of what is trained
\* on by itself, "wait" with the number of warm-up batches.
THEOREM StalenessIsBounded == Spec => []StalenessBounded
<1>1. CInv => StalenessBounded
  BY DEF CInv
<1> QED
  BY <1>1, SupplyInvariance, PTL

=============================================================================
