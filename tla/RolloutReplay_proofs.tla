------------------------ MODULE RolloutReplay_proofs ------------------------
(***************************************************************************)
(* Theorems about RolloutReplay, for any number of prompts, sessions and   *)
(* steps and any configuration.                                            *)
(***************************************************************************)
EXTENDS RolloutReplay, TLAPS

-----------------------------------------------------------------------------
(* The inductive invariant.                                                *)

\* A marker tells how far the prompt's coroutine is: sessions exist only after
\* it started, and a terminal marker (or a consumed one) says why it ended.
MarkersExplained ==
  \A u \in Uid :
    /\ born[u] = 0 => marker[u] = "absent"
    /\ (born[u] = 0 \/ marker[u] = "pending") => \A s \in Session : sess[u][s] = "idle"
    /\ marker[u] = "finished" => AllDone(u)
    /\ marker[u] = "failure" => AnyFailed(u)
    /\ (born[u] # 0 /\ marker[u] = "absent") => AllDone(u) \/ AnyFailed(u)

\* Every trajectory key, wherever it is listed, was posted by its session.
KeysPosted ==
  /\ \A k \in keys : sess[k[1]][k[2]] = "posted"
  /\ \A k \in picked : sess[k[1]][k[2]] = "posted"

\* Between the poll and the sampling, the snapshot is still true of TransferQueue
\* for every group it lists as terminal.
ViewAccurate ==
  phase = "take" =>
    /\ view.terminal \subseteq Terminal
    /\ view.keys \subseteq keys
    /\ \A u \in view.terminal : AllDone(u) =>
         \A s \in Session : sess[u][s] = "posted" => <<u, s>> \in view.keys

\* The trainer holds only groups whose marker it cleared.
HeldConsumed == \A u \in UidsOf(picked) : born[u] # 0 /\ marker[u] = "absent"

IInv ==
  /\ TypeOK
  /\ MarkersExplained
  /\ KeysPosted
  /\ ViewAccurate
  /\ HeldConsumed
  /\ NothingLost
  /\ GroupsWhole
  /\ LeaksOnlyFromFailures

-----------------------------------------------------------------------------
(* Every step preserves the invariant, one lemma per action.               *)

\* The initial states satisfy the invariant.
LEMMA InitInv == Init => IInv
  BY ConfigAssumption DEF Init, IInv, TypeOK, MarkersExplained, KeysPosted, ViewAccurate,
     HeldConsumed, NothingLost, GroupsWhole, LeaksOnlyFromFailures, Config, Phase, Marker,
     SessionState, UidsOf, Outstanding

\* _run_prompt starts: only the marker and the session states move.
LEMMA StartPromptInv ==
  ASSUME IInv, NEW u \in Uid, StartPrompt(u)
  PROVE  IInv'
<1>1. TypeOK'
  BY DEF StartPrompt, IInv, TypeOK, Marker, SessionState, servingVars, trainerVars
<1>2. MarkersExplained'
  BY DEF StartPrompt, IInv, TypeOK, MarkersExplained, AllDone, AnyFailed
<1>3. KeysPosted'
  BY DEF StartPrompt, IInv, TypeOK, MarkersExplained, KeysPosted, Trajectory, trainerVars
<1>4. ViewAccurate'
  BY DEF StartPrompt, IInv, ViewAccurate, Terminal, AllDone, trainerVars
<1>5. HeldConsumed'
  BY DEF StartPrompt, IInv, HeldConsumed, trainerVars
<1>6. NothingLost'
  BY DEF StartPrompt, IInv, NothingLost, Outstanding, trainerVars
<1>7. GroupsWhole'
  BY DEF StartPrompt, IInv, MarkersExplained, GroupsWhole, trainerVars
<1>8. LeaksOnlyFromFailures'
  BY DEF StartPrompt, IInv, LeaksOnlyFromFailures, Outstanding, trainerVars
<1>9. QED
  BY <1>1, <1>2, <1>3, <1>4, <1>5, <1>6, <1>7, <1>8 DEF IInv

\* A prompt is marked finished after its last session.
LEMMA FinishPromptInv ==
  ASSUME IInv, NEW u \in Uid, FinishPrompt(u)
  PROVE  IInv'
<1>1. TypeOK'
  BY DEF FinishPrompt, IInv, TypeOK, Marker, servingVars, trainerVars
<1>2. MarkersExplained'
  BY DEF FinishPrompt, IInv, MarkersExplained, AllDone, AnyFailed
<1>3. KeysPosted'
  BY DEF FinishPrompt, IInv, KeysPosted, trainerVars
<1>4. ViewAccurate'
  BY DEF FinishPrompt, IInv, ViewAccurate, Terminal, AllDone, trainerVars
<1>5. HeldConsumed'
  BY DEF FinishPrompt, IInv, HeldConsumed, trainerVars
<1>6. NothingLost'
  BY DEF FinishPrompt, IInv, NothingLost, Outstanding, trainerVars
<1>7. GroupsWhole'
  BY DEF FinishPrompt, IInv, GroupsWhole, trainerVars
<1>8. LeaksOnlyFromFailures'
  BY DEF FinishPrompt, IInv, LeaksOnlyFromFailures, Outstanding, trainerVars
<1>9. QED
  BY <1>1, <1>2, <1>3, <1>4, <1>5, <1>6, <1>7, <1>8 DEF IInv

\* A prompt is marked failed after the first session that failed.
LEMMA FailPromptInv ==
  ASSUME IInv, NEW u \in Uid, FailPrompt(u)
  PROVE  IInv'
<1>1. TypeOK'
  BY DEF FailPrompt, IInv, TypeOK, Marker, servingVars, trainerVars
<1>2. MarkersExplained'
  BY DEF FailPrompt, IInv, MarkersExplained, AllDone, AnyFailed
<1>3. KeysPosted'
  BY DEF FailPrompt, IInv, KeysPosted, trainerVars
<1>4. ViewAccurate'
  BY DEF FailPrompt, IInv, ViewAccurate, Terminal, AllDone, trainerVars
<1>5. HeldConsumed'
  BY DEF FailPrompt, IInv, HeldConsumed, trainerVars
<1>6. NothingLost'
  BY DEF FailPrompt, IInv, NothingLost, Outstanding, trainerVars
<1>7. GroupsWhole'
  BY DEF FailPrompt, IInv, GroupsWhole, trainerVars
<1>8. LeaksOnlyFromFailures'
  BY DEF FailPrompt, IInv, LeaksOnlyFromFailures, Outstanding, trainerVars
<1>9. QED
  BY <1>1, <1>2, <1>3, <1>4, <1>5, <1>6, <1>7, <1>8 DEF IInv

\* A session gets its output.
LEMMA GenerateInv ==
  ASSUME IInv, NEW u \in Uid, NEW s \in Session, Generate(u, s)
  PROVE  IInv'
<1>1. TypeOK'
  BY DEF Generate, IInv, TypeOK, SessionState, servingVars, trainerVars
<1>2. MarkersExplained'
  BY DEF Generate, IInv, MarkersExplained, AllDone, AnyFailed
<1>3. KeysPosted'
  BY DEF Generate, IInv, KeysPosted, trainerVars
<1>4. ViewAccurate'
  BY DEF Generate, IInv, MarkersExplained, ViewAccurate, Terminal, AllDone, trainerVars
<1>5. HeldConsumed'
  BY DEF Generate, IInv, HeldConsumed, trainerVars
<1>6. NothingLost'
  BY DEF Generate, IInv, NothingLost, Outstanding, trainerVars
<1>7. GroupsWhole'
  BY DEF Generate, IInv, GroupsWhole, trainerVars
<1>8. LeaksOnlyFromFailures'
  BY DEF Generate, IInv, LeaksOnlyFromFailures, Outstanding, trainerVars
<1>9. QED
  BY <1>1, <1>2, <1>3, <1>4, <1>5, <1>6, <1>7, <1>8 DEF IInv

\* A session puts its trajectory, maybe after its group was consumed.
LEMMA PostInv ==
  ASSUME IInv, NEW u \in Uid, NEW s \in Session, Post(u, s)
  PROVE  IInv'
<1>1. TypeOK'
  <2>1. config.outputs \in Nat
    BY ConfigAssumption DEF IInv, TypeOK, Config
  <2>2. rows' \in [Uid -> [Session -> 0 .. config.outputs]]
    BY <2>1 DEF Post, IInv, TypeOK
  <2>3. QED
    BY <2>2 DEF Post, IInv, TypeOK, SessionState, Trajectory, servingVars, trainerVars
<1>2. MarkersExplained'
  BY DEF Post, IInv, MarkersExplained, AllDone, AnyFailed
<1>3. KeysPosted'
  BY DEF Post, IInv, TypeOK, KeysPosted, trainerVars
<1>4. ViewAccurate'
  <2>1. SUFFICES ASSUME phase = "take", NEW v \in view.terminal, AllDone(v)', NEW t \in Session,
                        sess'[v][t] = "posted"
                 PROVE  <<v, t>> \in view.keys
    BY DEF Post, IInv, ViewAccurate, Terminal, trainerVars
  <2>2. v # u
    <3>1. v \in Terminal /\ ~AllDone(u)
      BY <2>1 DEF Post, IInv, ViewAccurate, AllDone
    <3>2. CASE v = u
      <4>1. AnyFailed(u)
        BY <3>1, <3>2 DEF IInv, MarkersExplained, Terminal
      <4>2. AnyFailed(u)'
        BY <4>1 DEF Post, AnyFailed
      <4>3. QED
        BY <2>1, <3>2, <4>2 DEF AllDone, AnyFailed
    <3>3. QED
      BY <3>2
  <2>3. sess'[v] = sess[v]
    BY <2>2 DEF Post
  <2>4. QED
    BY <2>1, <2>3 DEF IInv, ViewAccurate, AllDone
<1>5. HeldConsumed'
  BY DEF Post, IInv, HeldConsumed, trainerVars
<1>6. NothingLost'
  BY DEF Post, IInv, NothingLost, Outstanding, trainerVars
<1>7. GroupsWhole'
  BY DEF Post, IInv, GroupsWhole, trainerVars
<1>8. LeaksOnlyFromFailures'
  BY DEF Post, IInv, MarkersExplained, LeaksOnlyFromFailures, UidsOf, Outstanding, AllDone,
     AnyFailed, trainerVars
<1>9. QED
  BY <1>1, <1>2, <1>3, <1>4, <1>5, <1>6, <1>7, <1>8 DEF IInv

\* A session ends without output.
LEMMA PostNothingInv ==
  ASSUME IInv, NEW u \in Uid, NEW s \in Session, PostNothing(u, s)
  PROVE  IInv'
<1>1. TypeOK'
  BY DEF PostNothing, IInv, TypeOK, SessionState, servingVars, trainerVars
<1>2. MarkersExplained'
  BY DEF PostNothing, IInv, MarkersExplained, AllDone, AnyFailed
<1>3. KeysPosted'
  BY DEF PostNothing, IInv, KeysPosted, trainerVars
<1>4. ViewAccurate'
  <2>1. SUFFICES ASSUME phase = "take", NEW v \in view.terminal, AllDone(v)', NEW t \in Session,
                        sess'[v][t] = "posted"
                 PROVE  <<v, t>> \in view.keys
    BY DEF PostNothing, IInv, ViewAccurate, Terminal, trainerVars
  <2>2. v # u
    <3>1. v \in Terminal /\ ~AllDone(u)
      BY <2>1 DEF PostNothing, IInv, ViewAccurate, AllDone
    <3>2. CASE v = u
      <4>1. AnyFailed(u)
        BY <3>1, <3>2 DEF IInv, MarkersExplained, Terminal
      <4>2. AnyFailed(u)'
        BY <4>1 DEF PostNothing, AnyFailed
      <4>3. QED
        BY <2>1, <3>2, <4>2 DEF AllDone, AnyFailed
    <3>3. QED
      BY <3>2
  <2>3. sess'[v] = sess[v]
    BY <2>2 DEF PostNothing
  <2>4. QED
    BY <2>1, <2>3 DEF IInv, ViewAccurate, AllDone
<1>5. HeldConsumed'
  BY DEF PostNothing, IInv, HeldConsumed, trainerVars
<1>6. NothingLost'
  BY DEF PostNothing, IInv, NothingLost, Outstanding, trainerVars
<1>7. GroupsWhole'
  BY DEF PostNothing, IInv, GroupsWhole, trainerVars
<1>8. LeaksOnlyFromFailures'
  BY DEF PostNothing, IInv, LeaksOnlyFromFailures, Outstanding, trainerVars
<1>9. QED
  BY <1>1, <1>2, <1>3, <1>4, <1>5, <1>6, <1>7, <1>8 DEF IInv

\* A session fails.
LEMMA FailSessionInv ==
  ASSUME IInv, NEW u \in Uid, NEW s \in Session, FailSession(u, s)
  PROVE  IInv'
<1>1. TypeOK'
  BY DEF FailSession, IInv, TypeOK, SessionState, servingVars, trainerVars
<1>2. MarkersExplained'
  BY DEF FailSession, IInv, MarkersExplained, AllDone, AnyFailed, InFlight
<1>3. KeysPosted'
  BY DEF FailSession, IInv, KeysPosted, InFlight, trainerVars
<1>4. ViewAccurate'
  BY DEF FailSession, IInv, ViewAccurate, Terminal, AllDone, trainerVars
<1>5. HeldConsumed'
  BY DEF FailSession, IInv, HeldConsumed, trainerVars
<1>6. NothingLost'
  BY DEF FailSession, IInv, NothingLost, Outstanding, trainerVars
<1>7. GroupsWhole'
  BY DEF FailSession, IInv, GroupsWhole, trainerVars
<1>8. LeaksOnlyFromFailures'
  BY DEF FailSession, IInv, LeaksOnlyFromFailures, Outstanding, trainerVars
<1>9. QED
  BY <1>1, <1>2, <1>3, <1>4, <1>5, <1>6, <1>7, <1>8 DEF IInv

\* on_train_begin registers a batch or ends.
LEMMA WarmUpInv ==
  ASSUME IInv, WarmUp
  PROVE  IInv'
<1>1. TypeOK'
  BY ConfigAssumption DEF WarmUp, MoreWarmUp, Register, IInv, TypeOK, Phase, Marker, servingVars
<1>2. MarkersExplained'
  BY ConfigAssumption DEF WarmUp, Register, IInv, TypeOK, MarkersExplained, AllDone,
     AnyFailed
<1>3. KeysPosted'
  BY ConfigAssumption DEF WarmUp, IInv, KeysPosted
<1>4. ViewAccurate'
  BY ConfigAssumption DEF WarmUp, ViewAccurate
<1>5. HeldConsumed'
  BY ConfigAssumption DEF WarmUp, Register, IInv, TypeOK, HeldConsumed, Trajectory, UidsOf
<1>6. NothingLost'
  BY ConfigAssumption DEF WarmUp, Register, IInv, MarkersExplained, NothingLost, Trajectory,
     Outstanding
<1>7. GroupsWhole'
  BY ConfigAssumption DEF WarmUp, IInv, GroupsWhole
<1>8. LeaksOnlyFromFailures'
  BY ConfigAssumption DEF WarmUp, Register, IInv, LeaksOnlyFromFailures, Outstanding
<1>9. QED
  BY <1>1, <1>2, <1>3, <1>4, <1>5, <1>6, <1>7, <1>8 DEF IInv

\* The trainer registers a batch, or its filter budget is spent.
LEMMA AddBatchInv ==
  ASSUME IInv, AddBatch
  PROVE  IInv'
<1>1. TypeOK'
  BY ConfigAssumption DEF AddBatch, Register, IInv, TypeOK, Phase, Marker, servingVars
<1>2. MarkersExplained'
  BY ConfigAssumption DEF AddBatch, Register, IInv, TypeOK, MarkersExplained, AllDone,
     AnyFailed
<1>3. KeysPosted'
  BY ConfigAssumption DEF AddBatch, IInv, KeysPosted
<1>4. ViewAccurate'
  BY ConfigAssumption DEF AddBatch, ViewAccurate
<1>5. HeldConsumed'
  BY ConfigAssumption DEF AddBatch, Register, IInv, TypeOK, HeldConsumed, Trajectory, UidsOf
<1>6. NothingLost'
  BY ConfigAssumption DEF AddBatch, Register, IInv, MarkersExplained, NothingLost,
     Outstanding
<1>7. GroupsWhole'
  BY ConfigAssumption DEF AddBatch, IInv, GroupsWhole
<1>8. LeaksOnlyFromFailures'
  BY ConfigAssumption DEF AddBatch, Register, IInv, LeaksOnlyFromFailures, Outstanding
<1>9. QED
  BY <1>1, <1>2, <1>3, <1>4, <1>5, <1>6, <1>7, <1>8 DEF IInv

\* sample() takes its snapshot: the view becomes accurate again.
LEMMA PollInv ==
  ASSUME IInv, Poll
  PROVE  IInv'
<1>1. TypeOK'
  BY ConfigAssumption DEF Poll, IInv, TypeOK, Phase, Terminal, servingVars
<1>2. MarkersExplained'
  BY ConfigAssumption DEF Poll, IInv, MarkersExplained, AllDone, AnyFailed
<1>3. KeysPosted'
  BY ConfigAssumption DEF Poll, IInv, KeysPosted
<1>4. ViewAccurate'
  BY ConfigAssumption DEF Poll, IInv, ViewAccurate, NothingLost, Outstanding, Terminal
<1>5. HeldConsumed'
  BY ConfigAssumption DEF Poll, IInv, HeldConsumed
<1>6. NothingLost'
  BY ConfigAssumption DEF Poll, IInv, NothingLost, Outstanding
<1>7. GroupsWhole'
  BY ConfigAssumption DEF Poll, IInv, GroupsWhole
<1>8. LeaksOnlyFromFailures'
  BY ConfigAssumption DEF Poll, IInv, LeaksOnlyFromFailures, Outstanding
<1>9. QED
  BY <1>1, <1>2, <1>3, <1>4, <1>5, <1>6, <1>7, <1>8 DEF IInv

\* sample() hands out the groups of an older snapshot while sessions go on.
LEMMA TakeInv ==
  ASSUME IInv, Take
  PROVE  IInv'
<1>1. TypeOK'
  <2>1. PICK G \in SUBSET view.terminal :
          /\ marker' = ClearMarkers(G)
          /\ keys' = keys \ {k \in Gathered(G) : Stale(k[1])}
          /\ picked' = picked \cup (Gathered(G) \ {k \in Gathered(G) : Stale(k[1])})
          /\ phase' \in {"raised", "filter", "step_end"}
    BY DEF Take
  <2>2. marker' \in [Uid -> Marker]
    BY <2>1 DEF ClearMarkers, IInv, TypeOK, Marker
  <2>3. keys' \subseteq Trajectory /\ picked' \subseteq Trajectory
    BY <2>1 DEF Gathered, IInv, TypeOK
  <2>4. awake' \in BOOLEAN /\ stuck' \subseteq Trajectory
    BY DEF Take, LeaveRollout, IInv, TypeOK
  <2>5. QED
    BY <2>1, <2>2, <2>3, <2>4 DEF Take, IInv, TypeOK, Phase
<1>2. MarkersExplained'
  BY ConfigAssumption DEF Take, ClearMarkers, IInv, MarkersExplained, ViewAccurate,
     Terminal, AllDone, AnyFailed
<1>3. KeysPosted'
  BY ConfigAssumption DEF Take, Gathered, IInv, KeysPosted, ViewAccurate
<1>4. ViewAccurate'
  BY ConfigAssumption DEF Take, ViewAccurate
<1>5. HeldConsumed'
  BY ConfigAssumption DEF Take, ClearMarkers, Gathered, IInv, TypeOK, MarkersExplained,
     KeysPosted, ViewAccurate, HeldConsumed, Trajectory, UidsOf
<1>6. NothingLost'
  BY ConfigAssumption DEF Take, ClearMarkers, Gathered, IInv, MarkersExplained,
     ViewAccurate, HeldConsumed, NothingLost, GroupsWhole, Marker, UidsOf, Outstanding,
     Terminal
<1>7. GroupsWhole'
  BY ConfigAssumption DEF Take, Gathered, IInv, MarkersExplained, ViewAccurate, GroupsWhole,
     UidsOf, Terminal, AllDone, AnyFailed
<1>8. LeaksOnlyFromFailures'
  BY ConfigAssumption DEF Take, ClearMarkers, Gathered, IInv, TypeOK, MarkersExplained,
     KeysPosted, ViewAccurate, LeaksOnlyFromFailures, Trajectory, UidsOf, Outstanding,
     Terminal, AnyFailed
<1>9. QED
  BY <1>1, <1>2, <1>3, <1>4, <1>5, <1>6, <1>7, <1>8 DEF IInv

\* The group filter keeps some groups and clears the others.
LEMMA FilterInv ==
  ASSUME IInv, Filter
  PROVE  IInv'
<1>1. TypeOK'
  BY ConfigAssumption DEF Filter, AfterFilter, IInv, TypeOK, Phase, servingVars
<1>2. MarkersExplained'
  BY ConfigAssumption DEF Filter, IInv, MarkersExplained, AllDone, AnyFailed
<1>3. KeysPosted'
  BY ConfigAssumption DEF Filter, IInv, KeysPosted
<1>4. ViewAccurate'
  BY ConfigAssumption DEF Filter, AfterFilter, ViewAccurate
<1>5. HeldConsumed'
  BY ConfigAssumption DEF Filter, IInv, HeldConsumed, UidsOf
<1>6. NothingLost'
  BY ConfigAssumption DEF Filter, FilteredOut, IInv, HeldConsumed, NothingLost, UidsOf,
     Outstanding
<1>7. GroupsWhole'
  BY ConfigAssumption DEF Filter, IInv, GroupsWhole, UidsOf
<1>8. LeaksOnlyFromFailures'
  BY ConfigAssumption DEF Filter, FilteredOut, IInv, LeaksOnlyFromFailures, UidsOf,
     Outstanding
<1>9. QED
  BY <1>1, <1>2, <1>3, <1>4, <1>5, <1>6, <1>7, <1>8 DEF IInv

\* The update and on_step_end.
LEMMA StepEndInv ==
  ASSUME IInv, StepEnd
  PROVE  IInv'
<1>1. TypeOK'
  BY ConfigAssumption DEF StepEnd, ReturnToRollout, IInv, TypeOK, Phase, servingVars
<1>2. MarkersExplained'
  BY ConfigAssumption DEF StepEnd, IInv, MarkersExplained, AllDone, AnyFailed
<1>3. KeysPosted'
  BY ConfigAssumption DEF StepEnd, IInv, KeysPosted
<1>4. ViewAccurate'
  BY ConfigAssumption DEF StepEnd, ViewAccurate
<1>5. HeldConsumed'
  BY ConfigAssumption DEF StepEnd, IInv, HeldConsumed
<1>6. NothingLost'
  BY ConfigAssumption DEF StepEnd, IInv, NothingLost, Outstanding
<1>7. GroupsWhole'
  BY ConfigAssumption DEF StepEnd, IInv, GroupsWhole
<1>8. LeaksOnlyFromFailures'
  BY ConfigAssumption DEF StepEnd, IInv, LeaksOnlyFromFailures, Outstanding
<1>9. QED
  BY <1>1, <1>2, <1>3, <1>4, <1>5, <1>6, <1>7, <1>8 DEF IInv

\* The batch is cleared.
LEMMA CleanupInv ==
  ASSUME IInv, Cleanup
  PROVE  IInv'
<1>1. TypeOK'
  BY ConfigAssumption DEF Cleanup, Retained, IInv, TypeOK, Phase, servingVars
<1>2. MarkersExplained'
  BY ConfigAssumption DEF Cleanup, IInv, MarkersExplained, AllDone, AnyFailed
<1>3. KeysPosted'
  BY ConfigAssumption DEF Cleanup, Retained, IInv, KeysPosted
<1>4. ViewAccurate'
  BY ConfigAssumption DEF Cleanup, ViewAccurate
<1>5. HeldConsumed'
  BY ConfigAssumption DEF Cleanup, HeldConsumed, UidsOf
<1>6. NothingLost'
  BY ConfigAssumption DEF Cleanup, Retained, IInv, HeldConsumed, NothingLost, UidsOf,
     Outstanding
<1>7. GroupsWhole'
  BY ConfigAssumption DEF Cleanup, GroupsWhole, UidsOf
<1>8. LeaksOnlyFromFailures'
  BY ConfigAssumption DEF Cleanup, Retained, IInv, LeaksOnlyFromFailures, Outstanding
<1>9. QED
  BY <1>1, <1>2, <1>3, <1>4, <1>5, <1>6, <1>7, <1>8 DEF IInv

\* Every step preserves the invariant.
LEMMA NextInv == IInv /\ [Next]_vars => IInv'
<1> SUFFICES ASSUME IInv, [Next]_vars
             PROVE  IInv'
  OBVIOUS
<1>1. CASE Trainer
  BY <1>1, WarmUpInv, AddBatchInv, PollInv, TakeInv, FilterInv, StepEndInv, CleanupInv DEF
     Trainer
<1>2. CASE \E u \in Uid : Prompt(u)
  BY <1>2, StartPromptInv, FinishPromptInv, FailPromptInv DEF Prompt
<1>3. CASE \E u \in Uid, s \in Session : SessionStep(u, s) \/ FailSession(u, s)
  BY <1>3, GenerateInv, PostInv, PostNothingInv, FailSessionInv DEF SessionStep
<1>4. CASE UNCHANGED vars
  <2>1. TypeOK'
    BY <1>4 DEF vars, IInv, TypeOK
  <2>2. MarkersExplained' /\ KeysPosted'
    BY <1>4 DEF vars, IInv, MarkersExplained, KeysPosted, AllDone, AnyFailed
  <2>3. ViewAccurate'
    BY <1>4 DEF vars, IInv, ViewAccurate, Terminal, AllDone
  <2>4. HeldConsumed' /\ GroupsWhole'
    BY <1>4 DEF vars, IInv, HeldConsumed, GroupsWhole, UidsOf
  <2>5. NothingLost'
    BY <1>4 DEF vars, IInv, NothingLost, Outstanding
  <2>6. LeaksOnlyFromFailures'
    BY <1>4 DEF vars, IInv, LeaksOnlyFromFailures, Outstanding, UidsOf
  <2> QED
    BY <2>1, <2>2, <2>3, <2>4, <2>5, <2>6 DEF IInv
<1>5. QED
  BY <1>1, <1>2, <1>3, <1>4 DEF Next, Terminated

\* The inductive invariant holds of every reachable state.
THEOREM Invariance == Spec => []IInv
<1>1. QED
  BY InitInv, NextInv, PTL DEF Spec

\* The variables keep their types (all of the pipeline's steps).
THEOREM TypeCorrect == Spec => []TypeOK
<1>1. IInv => TypeOK
  BY DEF IInv
<1>2. QED
  BY <1>1, Invariance, PTL

\* Clearing keys (replay_buffer.sample, the group filter, the end of the step)
\* never takes away a trajectory that is still waited for or held.
THEOREM NothingIsLost == Spec => []NothingLost
<1>1. IInv => NothingLost
  BY DEF IInv
<1>2. QED
  BY <1>1, Invariance, PTL

\* A group without failed sessions is trained on whole: the poll that sees the
\* marker sees all of its trajectories.
THEOREM GroupsAreWhole == Spec => []GroupsWhole
<1>1. IInv => GroupsWhole
  BY DEF IInv
<1>2. QED
  BY <1>1, Invariance, PTL

\* Trajectories that stay in TransferQueue for ever come from failed groups only.
THEOREM LeaksAreFromFailures == Spec => []LeaksOnlyFromFailures
<1>1. IInv => LeaksOnlyFromFailures
  BY DEF IInv
<1>2. QED
  BY <1>1, Invariance, PTL

-----------------------------------------------------------------------------
(* Refinement of GroupLifecycle.                                           *)

\* The abstract variable.
stageOf == [u \in Uid |-> StageOf(u)]

\* The abstract module's own instance of FiniteSets counts alike.
LEMMA SameCardinality == \A G : Lifecycle!Cardinality(G) = Cardinality(G)
  BY DEF Cardinality, Lifecycle!Cardinality

\* Initially every group is new.
LEMMA InitRefines == Init => Lifecycle!Init
  BY DEF Init, Lifecycle!Init, StageOf

\* No stage changes when markers, tags and the trainer's batch stay the same.
LEMMA StageStutter ==
  ASSUME UNCHANGED <<marker, born, picked>>
  PROVE  stageOf' = stageOf
  BY DEF stageOf, StageOf, Terminal, Outstanding

\* The terminal marker of a prompt is the Close step of its group.
LEMMA CloseRefines ==
  ASSUME IInv, NEW u \in Uid, FinishPrompt(u) \/ FailPrompt(u)
  PROVE  Lifecycle!Close
<1>1. born[u] # 0 /\ marker[u] = "running" /\ UNCHANGED <<born, picked>>
  BY DEF FinishPrompt, FailPrompt, trainerVars, IInv, MarkersExplained
<1>2. PICK x \in {"finished", "failure"} : marker' = [marker EXCEPT ![u] = x]
  BY DEF FinishPrompt, FailPrompt
<1>3. u \in Lifecycle!InStage("open")
  BY <1>1 DEF Lifecycle!InStage, StageOf, Terminal, Outstanding
<1>4. StageOf(u)' = "ready"
  BY <1>1, <1>2 DEF StageOf, Terminal, IInv, TypeOK
<1>5. ASSUME NEW v \in Uid, v # u
      PROVE  StageOf(v)' = StageOf(v)
  BY <1>1, <1>2, <1>5 DEF StageOf, Terminal, Outstanding
<1>6. QED
  BY <1>3, <1>4, <1>5 DEF Lifecycle!Close, Lifecycle!Move

\* Registration of a batch is the abstract Register step.
LEMMA RegisterRefines ==
  ASSUME IInv, Register, UNCHANGED picked
  PROVE  Lifecycle!Register
<1>1. PICK G \in SUBSET {u \in Uid : born[u] = 0} :
        /\ Cardinality(G) = BatchSize
        /\ marker' = [u \in Uid |-> IF u \in G THEN "pending" ELSE marker[u]]
        /\ born' = [u \in Uid |-> IF u \in G THEN gs ELSE born[u]]
  BY DEF Register
<1>2. G \in SUBSET Lifecycle!InStage("new")
  BY DEF Lifecycle!InStage, StageOf
<1>3. \A u \in Uid : StageOf(u)' = IF u \in G THEN "open" ELSE StageOf(u)
  BY <1>1 DEF StageOf, Terminal, Outstanding, IInv, TypeOK
<1>4. QED
  BY <1>1, <1>2, <1>3, SameCardinality DEF Lifecycle!Register, Lifecycle!Move

\* sample() is the abstract Take step; groups that contribute nothing are spent.
LEMMA TakeRefines ==
  ASSUME IInv, Take
  PROVE  Lifecycle!Take
<1>1. PICK G \in SUBSET view.terminal :
        /\ Cardinality(G) = BatchSize
        /\ marker' = ClearMarkers(G)
        /\ picked' = picked \cup (Gathered(G) \ {k \in Gathered(G) : Stale(k[1])})
  BY DEF Take
<1>2. G \subseteq Terminal /\ born' = born /\ Terminal \subseteq Uid
  BY <1>1 DEF Take, IInv, ViewAccurate, Terminal
<1>3. \A u \in G : born[u] # 0
  BY <1>2 DEF IInv, MarkersExplained, Terminal
<1>4. G \in SUBSET Lifecycle!InStage("ready")
  BY <1>2, <1>3 DEF Lifecycle!InStage, StageOf
<1> DEFINE D == {u \in G : u \notin UidsOf(picked')}
<1>5. \A u \in G : u \notin Outstanding' /\ u \notin Terminal'
  BY <1>1, <1>2 DEF ClearMarkers, Outstanding, Terminal
<1>6. \A u \in G : StageOf(u)' = IF u \in D THEN "spent" ELSE "held"
  BY <1>2, <1>3, <1>5 DEF StageOf
<1>7. \A u \in Uid \ G : StageOf(u)' = StageOf(u)
  <2> SUFFICES ASSUME NEW u \in Uid \ G
               PROVE  StageOf(u)' = StageOf(u)
    OBVIOUS
  <2>1. marker'[u] = marker[u]
    BY <1>1 DEF ClearMarkers
  <2>2. u \in UidsOf(picked') <=> u \in UidsOf(picked)
    BY <1>1 DEF UidsOf, Gathered
  <2>3. QED
    BY <1>2, <2>1, <2>2 DEF StageOf, Terminal, Outstanding
<1>8. stageOf' = [u \in Uid |-> IF u \in D THEN "spent" ELSE IF u \in G THEN "held" ELSE stageOf[u]]
  BY <1>6, <1>7 DEF stageOf
<1>9. QED
  BY <1>1, <1>4, <1>8, SameCardinality DEF Lifecycle!Take, stageOf

\* Letting go of trajectories is the abstract Retire step.
LEMMA RetireRefines ==
  ASSUME IInv, picked' \subseteq picked, UNCHANGED <<marker, born>>
  PROVE  Lifecycle!Retire
<1> DEFINE G == UidsOf(picked) \ UidsOf(picked')
<1>1. G \in SUBSET Lifecycle!InStage("held")
  BY DEF IInv, TypeOK, HeldConsumed, Lifecycle!InStage, StageOf, Terminal, Outstanding,
     UidsOf, Trajectory
<1>2. \A u \in Uid : StageOf(u)' = IF u \in G THEN "spent" ELSE StageOf(u)
  BY DEF IInv, HeldConsumed, StageOf, Terminal, Outstanding, UidsOf
<1>3. QED
  BY <1>1, <1>2 DEF Lifecycle!Retire, Lifecycle!Move

\* Every step of the pipeline is a step of the life cycle or leaves it alone.
LEMMA StepRefines == IInv /\ [Next]_vars => [Lifecycle!Next]_stageOf
<1> SUFFICES ASSUME IInv, [Next]_vars
             PROVE  Lifecycle!Next \/ stageOf' = stageOf
  OBVIOUS
<1>1. CASE WarmUp \/ AddBatch
  <2>1. (Register /\ UNCHANGED picked) \/ UNCHANGED <<marker, born, picked>>
    BY <1>1 DEF WarmUp, AddBatch
  <2>2. QED
    BY <2>1, RegisterRefines, StageStutter DEF Lifecycle!Next
<1>2. CASE Take
  BY <1>2, TakeRefines DEF Lifecycle!Next
<1>3. CASE Filter \/ Cleanup
  BY <1>3, RetireRefines DEF Filter, Cleanup, Lifecycle!Next
<1>4. CASE Poll \/ StepEnd \/ UNCHANGED vars
  BY <1>4, StageStutter DEF Poll, StepEnd, vars
<1>5. CASE \E u \in Uid : Prompt(u)
  <2>1. PICK u \in Uid : Prompt(u)
    BY <1>5
  <2>2. CASE StartPrompt(u)
    <3>1. born[u] # 0 /\ UNCHANGED <<born, picked>> /\ marker[u] = "pending"
      BY <2>2 DEF StartPrompt, trainerVars, IInv, MarkersExplained
    <3>2. \A v \in Uid : StageOf(v)' = StageOf(v)
      BY <2>2, <3>1 DEF StartPrompt, StageOf, Terminal, Outstanding
    <3>3. QED
      BY <3>2 DEF stageOf
  <2>3. CASE FinishPrompt(u) \/ FailPrompt(u)
    BY <2>3, CloseRefines DEF Lifecycle!Next
  <2>4. QED
    BY <2>1, <2>2, <2>3 DEF Prompt
<1>6. CASE \E u \in Uid, s \in Session : SessionStep(u, s) \/ FailSession(u, s)
  BY <1>6, StageStutter DEF SessionStep, FailSession, Generate, Post, PostNothing,
     trainerVars
<1>7. QED
  BY <1>1, <1>2, <1>3, <1>4, <1>5, <1>6 DEF Next, Trainer, Terminated

\* Registered once, sampled at most once in a batch of BatchSize, never
\* resurrected: the pipeline implements GroupLifecycle.
THEOREM RefinesLifecycle == Spec => ImplementsLifecycle
<1>1. Init => Lifecycle!Init
  BY InitRefines
<1>2. IInv /\ [Next]_vars => [Lifecycle!Next]_stageOf
  BY StepRefines
<1>3. QED
  BY <1>1, <1>2, Invariance, PTL DEF Spec, ImplementsLifecycle, Lifecycle!Spec, stageOf
=============================================================================
