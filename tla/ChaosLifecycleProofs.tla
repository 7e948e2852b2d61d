------------------------ MODULE ChaosLifecycleProofs ------------------------
(***************************************************************************)
(* Proofs about ChaosLifecycle for any sets of runs and targets and any    *)
(* number of faults. LifecycleInv is inductive; the safety properties that *)
(* TLC checks on small instances follow from it.                           *)
(***************************************************************************)
EXTENDS ChaosLifecycle, TLAPS

\* The initial states satisfy the inductive invariant.
LEMMA InitInv == Init => LifecycleInv
BY LifecycleAssumption
   DEF Init, LifecycleInv, TypeOK, PostOrder, CacheBehind, WatchdogKnows,
       Clusters, Phase, StepState, PostState, TargetState, Ended

\* The router only routes to clusters that exist.
LEMMA AllClientsAreClusters == AllClients \subseteq Clusters
BY DEF AllClients, Clusters

-----------------------------------------------------------------------------
(* One lemma per group of actions *)

\* The engine and the operators preserve the invariant: a run with a POST has a
\* workflow, so it is never submitted again.
LEMMA EngineInv ==
    ASSUME LifecycleInv, NEW r \in Runs, EngineNext(r)
    PROVE  LifecycleInv'
<1> USE DEF LifecycleInv, TypeOK, PostOrder, CacheBehind, WatchdogKnows,
            Phase, Live, Ended, chaosStepVars, serverVars, targetVars,
            cancelVars, wdVars
<1>1. CASE \E c \in Clusters : SubmitRun(r, c)
  BY <1>1 DEF SubmitRun
<1>2. CASE StartRun(r)
  BY <1>2 DEF StartRun
<1>3. CASE FinishRun(r)
  BY <1>3 DEF FinishRun
<1>4. CASE TerminateRun(r)
  BY <1>4 DEF TerminateRun
<1>5. CASE ForceTerminate(r)
  BY <1>5 DEF ForceTerminate
<1>6. CASE DeleteWorkflow(r)
  BY <1>6 DEF DeleteWorkflow
<1>7. QED
  BY <1>1, <1>2, <1>3, <1>4, <1>5, <1>6 DEF EngineNext

\* The chaos template's steps preserve the invariant.
LEMMA ChaosStepInv ==
    ASSUME LifecycleInv, NEW r \in Runs, ChaosStepNext(r)
    PROVE  LifecycleInv'
<1> USE DEF LifecycleInv, TypeOK, PostOrder, CacheBehind, WatchdogKnows,
            StepState, PostState, engineVars, serverVars, targetVars,
            cancelVars, wdVars, Fault, NoFault
<1>1. CASE SendPost(r)
  BY <1>1 DEF SendPost
<1>2. CASE PostRefused(r)
  BY <1>2 DEF PostRefused, Answered
<1>3. CASE PostTimesOut(r)
  BY <1>3 DEF PostTimesOut
<1>4. CASE WaitOver(r)
  BY <1>4 DEF WaitOver
<1>5. CASE WaitFails(r)
  BY <1>5 DEF WaitFails
<1>6. CASE CleanupStep(r)
  BY <1>6 DEF CleanupStep, DeleteCluster
<1>7. CASE CleanupFails(r)
  BY <1>7 DEF CleanupFails
<1>8. QED
  BY <1>1, <1>2, <1>3, <1>4, <1>5, <1>6, <1>7 DEF ChaosStepNext

\* The handlers of POST /internal/chaos and DELETE /api/runs/{id} and the
\* informer preserve the invariant.
LEMMA ServerInv ==
    ASSUME LifecycleInv, NEW r \in Runs, ServerNext(r)
    PROVE  LifecycleInv'
<1> USE DEF LifecycleInv, TypeOK, PostOrder, CacheBehind, WatchdogKnows,
            StepState, PostState, Phase, Ended, engineVars, chaosStepVars,
            serverVars, targetVars, cancelVars, wdVars, Fault, NoFault
<1>1. CASE CreateChaos(r)
  BY <1>1 DEF CreateChaos, Answered
<1>2. CASE CreateChaosFails(r)
  BY <1>2 DEF CreateChaosFails, Answered
<1>3. CASE CancelRun(r)
  BY <1>3, AllClientsAreClusters DEF CancelRun
<1>4. CASE \E c \in Clusters : CancelDelete(r, c)
  BY <1>4 DEF CancelDelete
<1>5. CASE CancelPatch(r)
  BY <1>5 DEF CancelPatch
<1>6. CASE CancelAborted(r)
  BY <1>6 DEF CancelAborted
<1>7. CASE InformerSync(r)
  BY <1>7 DEF InformerSync
<1>8. QED
  BY <1>1, <1>2, <1>3, <1>4, <1>5, <1>6, <1>7 DEF ServerNext

\* Whatever clusters answer a list, the runs it yields have had their POST
\* served, and the list is made of runs.
LEMMA ListedRuns ==
    ASSUME LifecycleInv, NEW S \in SUBSET Clusters
    PROVE  /\ ListManaged(S) \subseteq Runs
           /\ \A r \in ListManaged(S) : post[r] = "served"
BY DEF LifecycleInv, TypeOK, PostOrder, ListManaged

\* A served run that the checker calls terminal has ended, when the informer is
\* prompt: the cache knows it, and the cache never runs ahead.
LEMMA TerminalIsEnded ==
    ASSUME LifecycleInv, PromptInformer, up, NEW r \in Runs,
           post[r] = "served", IsTerminal(r)
    PROVE  wf[r] \in Ended
BY DEF LifecycleInv, CacheBehind, IsTerminal, Ended

\* The watchdog preserves the invariant.
LEMMA WatchdogInv ==
    ASSUME LifecycleInv, WatchdogNext
    PROVE  LifecycleInv'
<1> USE DEF LifecycleInv, TypeOK, PostOrder, CacheBehind, WatchdogKnows,
            engineVars, chaosStepVars, serverVars, targetVars, cancelVars,
            Fault
<1>1. CASE WatchdogList
  BY <1>1, AllClientsAreClusters, ListedRuns DEF WatchdogList
<1>2. CASE WatchdogListPartial
  <2>1. PICK S \in SUBSET AllClients : wdTodo' = ListManaged(S)
    BY <1>2 DEF WatchdogListPartial
  <2>2. /\ ListManaged(S) \subseteq Runs
        /\ \A r \in ListManaged(S) : post[r] = "served"
    BY <2>1, AllClientsAreClusters, ListedRuns
  <2>3. QED
    BY <1>2, <2>1, <2>2 DEF WatchdogListPartial
<1>3. CASE \E r \in Runs : WatchdogCheck(r)
  <2>1. PICK r \in Runs : WatchdogCheck(r)
    BY <1>3
  <2>2. PromptInformer /\ IsTerminal(r) => wf[r] \in Ended
    BY <2>1, TerminalIsEnded DEF WatchdogCheck
  <2>3. QED
    BY <2>1, <2>2 DEF WatchdogCheck
<1>4. CASE WatchdogDelete
  BY <1>4 DEF WatchdogDelete
<1>5. CASE WatchdogDeleteFails
  BY <1>5 DEF WatchdogDeleteFails
<1>6. QED
  BY <1>1, <1>2, <1>3, <1>4, <1>5 DEF WatchdogNext

\* So do the refresher, the operator's edits, a crash and a restart.
LEMMA ProcessInv ==
    ASSUME LifecycleInv,
           \/ RefreshTargets
           \/ \E t \in Targets, s \in TargetState : ConfigureTarget(t, s)
           \/ Crash
           \/ Restart
    PROVE  LifecycleInv'
<1> USE DEF LifecycleInv, TypeOK, PostOrder, CacheBehind, WatchdogKnows,
            TargetState, Phase, Ended, engineVars, chaosStepVars, serverVars,
            targetVars, cancelVars, wdVars, Fault
<1>1. CASE RefreshTargets
  BY <1>1 DEF RefreshTargets
<1>2. CASE \E t \in Targets, s \in TargetState : ConfigureTarget(t, s)
  BY <1>2 DEF ConfigureTarget
<1>3. CASE Crash
  <2>1. TypeOK'
    <3>1. /\ cache' \in [Runs -> Phase]
          /\ registry' \in [Targets -> TargetState]
          /\ cancelTodo' \in [Runs -> SUBSET Clusters]
      BY <1>3 DEF Crash
    <3>2. \A r \in Runs : cancelTodo'[r] = {}
      BY <1>3 DEF Crash
    <3>3. up' = FALSE
      BY <1>3, Zenon DEF Crash
    <3>4. faults' \in Nat
      BY <1>3 DEF Crash
    <3>5. QED
      BY <1>3, <3>1, <3>2, <3>3, <3>4 DEF Crash
  <2>2. PostOrder'
    BY <1>3 DEF Crash
  <2>3. CacheBehind' /\ WatchdogKnows' /\ (cancelling \subseteq cancelled)'
    BY <1>3 DEF Crash
  <2>4. QED
    BY <2>1, <2>2, <2>3
<1>4. CASE Restart
  BY <1>4 DEF Restart
<1>5. QED
  BY <1>1, <1>2, <1>3, <1>4

\* Every step preserves the invariant.
LEMMA NextInv == LifecycleInv /\ [Next]_vars => LifecycleInv'
<1>1. ASSUME LifecycleInv, Next
      PROVE  LifecycleInv'
  BY <1>1, EngineInv, ChaosStepInv, ServerInv, WatchdogInv, ProcessInv DEF Next
<1>2. ASSUME LifecycleInv, UNCHANGED vars
      PROVE  LifecycleInv'
  BY <1>2 DEF LifecycleInv, TypeOK, PostOrder, CacheBehind, WatchdogKnows,
              vars, engineVars, chaosStepVars, serverVars, targetVars,
              cancelVars, wdVars
<1>3. QED
  BY <1>1, <1>2

-----------------------------------------------------------------------------
(* The theorems *)

\* The order of POSTs and CRs, the lag of the cache and what the watchdog holds
\* (chaos/watchdog.go, api/internal_chaos.go) stay as LifecycleInv describes.
THEOREM InvariantHolds == SafetySpec => []LifecycleInv
BY InitInv, NextInv, PTL DEF SafetySpec

\* A cleanup step that succeeded (pod-delete.yaml, DeleteForTarget) has removed
\* the run's chaos from every cluster, for good.
THEOREM CleanupIsFinalHolds == SafetySpec => []CleanupIsFinal
<1>1. LifecycleInv => CleanupIsFinal
  BY DEF LifecycleInv, PostOrder, CleanupIsFinal
<1>2. QED
  BY <1>1, InvariantHolds, PTL


-----------------------------------------------------------------------------
(* Who may take chaos away *)

\* The step-wise core of ReapsOnlyEndedRuns and of Promise!Remove: a CR leaves a
\* cluster only with a reason.
LEMMA RemovalHasReason ==
    ASSUME PromptInformer, LifecycleInv, [Next]_vars,
           NEW c \in Clusters, NEW r \in crs[c], r \notin crs'[c]
    PROVE  wf[r] \in Ended \/ r \in cancelling \/ step[r] = "cleaning"
<1> USE DEF LifecycleInv, TypeOK, engineVars, chaosStepVars, serverVars,
            targetVars, cancelVars, wdVars
<1>1. ASSUME NEW q \in Runs, EngineNext(q) PROVE UNCHANGED crs
  BY <1>1 DEF EngineNext, SubmitRun, StartRun, FinishRun, TerminateRun,
              ForceTerminate, DeleteWorkflow
<1>2. ASSUME NEW q \in Runs, ChaosStepNext(q)
      PROVE  UNCHANGED crs \/ (q = r /\ step[r] = "cleaning")
  BY <1>2 DEF ChaosStepNext, SendPost, PostRefused, PostTimesOut, WaitOver,
              WaitFails, CleanupStep, CleanupFails, DeleteCluster
<1>3. ASSUME NEW q \in Runs, ServerNext(q)
      PROVE  r \in crs'[c] \/ (q = r /\ r \in cancelling)
  BY <1>3 DEF ServerNext, CreateChaos, CreateChaosFails, CancelRun,
              CancelDelete, CancelPatch, CancelAborted, InformerSync
<1>4. ASSUME WatchdogNext
      PROVE  UNCHANGED crs \/ wf[r] \in Ended
  BY <1>4 DEF WatchdogNext, WatchdogList, WatchdogListPartial, WatchdogCheck,
              WatchdogDelete, WatchdogDeleteFails, WatchdogKnows
<1>5. ASSUME \/ RefreshTargets
             \/ \E t \in Targets, s \in TargetState : ConfigureTarget(t, s)
             \/ Crash
             \/ Restart
             \/ UNCHANGED vars
      PROVE  UNCHANGED crs
  BY <1>5 DEF RefreshTargets, ConfigureTarget, Crash, Restart, vars
<1>6. QED
  BY <1>1, <1>2, <1>3, <1>4, <1>5 DEF Next

\* If the informer reports a workflow before its chaos step posts, neither the
\* watchdog (chaos/watchdog.go) nor a cancel of another run takes chaos away
\* from a live run.
THEOREM ReapsOnlyEndedRunsHolds ==
    ASSUME PromptInformer
    PROVE  SafetySpec => ReapsOnlyEndedRuns
<1>1. LifecycleInv /\ [Next]_vars =>
        [\A c \in Clusters : \A r \in crs[c] :
            r \notin crs'[c] => \/ wf[r] \in Ended
                                \/ r \in cancelling
                                \/ step[r] = "cleaning"]_vars
  BY RemovalHasReason
<1>2. QED
  BY <1>1, InvariantHolds, PTL DEF SafetySpec, ReapsOnlyEndedRuns


-----------------------------------------------------------------------------
(* ChaosLifecycle implements the safety part of ChaosPromise *)

\* What a step may do to the abstract state of the run r ...
RunStep(r) ==
    \/ ChaosOf(r)' = ChaosOf(r) /\ NeedOf(r)' = NeedOf(r)
    \/ ChaosOf(r) = "never" /\ ChaosOf(r)' = "active" /\ NeedOf(r)' = NeedOf(r)
    \/ /\ ChaosOf(r) = "never" /\ ChaosOf(r)' = "gone"
       /\ \/ NeedOf(r)' = NeedOf(r)
          \/ NeedOf(r) = "needed" /\ NeedOf(r)' = "released"
    \/ ChaosOf(r)' = ChaosOf(r) /\ NeedOf(r) = "needed" /\ NeedOf(r)' = "released"
    \/ ChaosOf(r)' = ChaosOf(r) /\ NeedOf(r) # "ended" /\ NeedOf(r)' = "ended"
    \/ /\ ChaosOf(r) = "active" /\ ChaosOf(r)' = "gone"
       /\ NeedOf(r) # "needed" /\ NeedOf(r)' = NeedOf(r)

\* ... and to that of every other run.
OthersKeep(r) ==
    \A q \in Runs \ {r} : ChaosOf(q)' = ChaosOf(q) /\ NeedOf(q)' = NeedOf(q)

\* Such a step is a step of the promise, or a stutter.
LEMMA AbstractStep ==
    ASSUME NEW r \in Runs, RunStep(r), OthersKeep(r)
    PROVE  [Promise!Next]_(Promise!vars)
<1> DEFINE chaos == [q \in Runs |-> ChaosOf(q)]
           need == [q \in Runs |-> NeedOf(q)]
<1>1. chaos' = [chaos EXCEPT ![r] = ChaosOf(r)']
  BY DEF OthersKeep
<1>2. need' = [need EXCEPT ![r] = NeedOf(r)']
  BY DEF OthersKeep
<1>3. /\ ChaosOf(r)' = ChaosOf(r) => chaos' = chaos
      /\ NeedOf(r)' = NeedOf(r) => need' = need
  BY <1>1, <1>2
<1>4. chaos[r] = ChaosOf(r) /\ need[r] = NeedOf(r)
  OBVIOUS
<1>5. CASE ChaosOf(r)' = ChaosOf(r) /\ NeedOf(r)' = NeedOf(r)
  BY <1>3, <1>5 DEF Promise!vars
<1>6. CASE /\ ChaosOf(r) = "never" /\ ChaosOf(r)' = "active"
           /\ NeedOf(r)' = NeedOf(r)
  <2>1. Promise!Inject(r)
    BY <1>1, <1>3, <1>4, <1>6 DEF Promise!Inject
  <2>2. QED
    BY <2>1 DEF Promise!Next
<1>7. CASE /\ ChaosOf(r) = "never" /\ ChaosOf(r)' = "gone"
           /\ \/ NeedOf(r)' = NeedOf(r)
              \/ NeedOf(r) = "needed" /\ NeedOf(r)' = "released"
  <2>1. Promise!Decline(r)
    BY <1>1, <1>2, <1>3, <1>4, <1>7 DEF Promise!Decline
  <2>2. QED
    BY <2>1 DEF Promise!Next
<1>8. CASE /\ ChaosOf(r)' = ChaosOf(r)
           /\ NeedOf(r) = "needed" /\ NeedOf(r)' = "released"
  <2>1. Promise!Release(r)
    BY <1>2, <1>3, <1>4, <1>8 DEF Promise!Release
  <2>2. QED
    BY <2>1 DEF Promise!Next
<1>9. CASE /\ ChaosOf(r)' = ChaosOf(r)
           /\ NeedOf(r) # "ended" /\ NeedOf(r)' = "ended"
  <2>1. Promise!End(r)
    BY <1>2, <1>3, <1>4, <1>9 DEF Promise!End
  <2>2. QED
    BY <2>1 DEF Promise!Next
<1>10. CASE /\ ChaosOf(r) = "active" /\ ChaosOf(r)' = "gone"
            /\ NeedOf(r) # "needed" /\ NeedOf(r)' = NeedOf(r)
  <2>1. Promise!Remove(r)
    BY <1>1, <1>3, <1>4, <1>10 DEF Promise!Remove
  <2>2. QED
    BY <2>1 DEF Promise!Next
<1>11. QED
  BY <1>5, <1>6, <1>7, <1>8, <1>9, <1>10 DEF RunStep

\* A run that the step does not name, and a step that touches nothing the
\* promise looks at, keep their abstract state.
LEMMA Untouched ==
    ASSUME NEW q \in Runs,
           wf'[q] = wf[q] \/ (wf[q] \notin Ended /\ wf'[q] \notin Ended),
           step'[q] = step[q], post'[q] = post[q],
           q \in cancelled' <=> q \in cancelled,
           \A c \in Clusters : q \in crs'[c] <=> q \in crs[c]
    PROVE  ChaosOf(q)' = ChaosOf(q) /\ NeedOf(q)' = NeedOf(q)
BY DEF ChaosOf, NeedOf

\* The engine ends a run or leaves its abstract state alone.
LEMMA EngineAbstract ==
    ASSUME LifecycleInv, NEW r \in Runs, EngineNext(r)
    PROVE  RunStep(r) /\ OthersKeep(r)
<1> USE DEF LifecycleInv, TypeOK, Ended, Live, Phase, chaosStepVars, serverVars,
            targetVars, cancelVars, wdVars
<1>1. /\ step' = step /\ post' = post /\ crs' = crs /\ cancelled' = cancelled
      /\ \A q \in Runs \ {r} : wf'[q] = wf[q]
      /\ wf[r] \in Ended => wf'[r] \in Ended
  BY DEF EngineNext, SubmitRun, StartRun, FinishRun, TerminateRun,
         ForceTerminate, DeleteWorkflow
<1>2. OthersKeep(r)
  BY <1>1, Untouched DEF OthersKeep
<1>3. ChaosOf(r)' = ChaosOf(r)
  BY <1>1 DEF ChaosOf
<1>4. NeedOf(r)' = NeedOf(r) \/ (NeedOf(r) # "ended" /\ NeedOf(r)' = "ended")
  BY <1>1 DEF NeedOf
<1>5. QED
  BY <1>2, <1>3, <1>4 DEF RunStep

\* A step of the chaos template gives chaos up, takes it away for good, or keeps it.
LEMMA ChaosStepAbstract ==
    ASSUME LifecycleInv, NEW r \in Runs, ChaosStepNext(r)
    PROVE  RunStep(r) /\ OthersKeep(r)
<1> USE DEF LifecycleInv, TypeOK, PostOrder, engineVars, serverVars, targetVars,
            cancelVars, wdVars
<1>1. /\ wf' = wf /\ cancelled' = cancelled
      /\ \A q \in Runs \ {r} :
            /\ step'[q] = step[q] /\ post'[q] = post[q]
            /\ \A c \in Clusters : q \in crs'[c] <=> q \in crs[c]
  BY DEF ChaosStepNext, SendPost, PostRefused, PostTimesOut, WaitOver, WaitFails,
         CleanupStep, CleanupFails, DeleteCluster, Answered
<1>2. OthersKeep(r)
  BY <1>1, Untouched DEF OthersKeep
<1>3. CASE SendPost(r) \/ PostTimesOut(r) \/ WaitOver(r) \/ WaitFails(r)
  <2>1. ChaosOf(r)' = ChaosOf(r)
    BY <1>3 DEF SendPost, PostTimesOut, WaitOver, WaitFails, ChaosOf
  <2>2. \/ NeedOf(r)' = NeedOf(r)
        \/ NeedOf(r) = "needed" /\ NeedOf(r)' = "released"
    BY <1>3 DEF SendPost, PostTimesOut, WaitOver, WaitFails, NeedOf, Ended
  <2>3. QED
    BY <1>2, <2>1, <2>2 DEF RunStep
<1>4. CASE PostRefused(r)
  <2>1. ChaosOf(r) = "never" /\ ChaosOf(r)' = "gone"
    BY <1>4 DEF PostRefused, ChaosOf
  <2>2. \/ NeedOf(r)' = NeedOf(r)
        \/ NeedOf(r) = "needed" /\ NeedOf(r)' = "released"
    BY <1>4 DEF PostRefused, Answered, NeedOf
  <2>3. QED
    BY <1>2, <2>1, <2>2 DEF RunStep
<1>5. CASE CleanupStep(r) \/ CleanupFails(r)
  <2>1. /\ wf[r] = "Running" /\ step[r] = "cleaning"
        /\ step'[r] \in {"done", "failed"} /\ post' = post
        /\ crs' \in {crs, [crs EXCEPT ![target[r]] = @ \ {r}]}
    BY <1>5 DEF CleanupStep, CleanupFails, DeleteCluster
  <2>2. NeedOf(r) = "released" /\ NeedOf(r)' = "released"
    BY <1>1, <2>1 DEF NeedOf, Ended
  <2>3. \/ ChaosOf(r)' = ChaosOf(r)
        \/ ChaosOf(r) = "active" /\ ChaosOf(r)' = "gone"
    BY <2>1 DEF ChaosOf
  <2>4. QED
    BY <1>2, <2>2, <2>3 DEF RunStep
<1>6. QED
  BY <1>3, <1>4, <1>5 DEF ChaosStepNext

\* The handlers inject chaos once, or take it away for a cancel.
LEMMA ServerAbstract ==
    ASSUME LifecycleInv, NEW r \in Runs, ServerNext(r)
    PROVE  RunStep(r) /\ OthersKeep(r)
<1> USE DEF LifecycleInv, TypeOK, PostOrder, engineVars, chaosStepVars,
            serverVars, targetVars, cancelVars, wdVars
<1>1. /\ wf' = wf
      /\ \A q \in Runs \ {r} :
            /\ step'[q] = step[q] /\ post'[q] = post[q]
            /\ q \in cancelled' <=> q \in cancelled
            /\ \A c \in Clusters : q \in crs'[c] <=> q \in crs[c]
  BY DEF ServerNext, CreateChaos, CreateChaosFails, CancelRun, CancelDelete,
         CancelPatch, CancelAborted, InformerSync, Answered
<1>2. OthersKeep(r)
  BY <1>1, Untouched DEF OthersKeep
<1>3. CASE CreateChaos(r)
  <2>1. ChaosOf(r) = "never" /\ ChaosOf(r)' = "active"
    BY <1>3 DEF CreateChaos, ChaosOf
  <2>2. NeedOf(r)' = NeedOf(r)
    BY <1>3 DEF CreateChaos, Answered, NeedOf
  <2>3. QED
    BY <1>2, <2>1, <2>2 DEF RunStep
<1>4. CASE CreateChaosFails(r)
  <2>1. ChaosOf(r) = "never" /\ ChaosOf(r)' = "gone"
    BY <1>4 DEF CreateChaosFails, ChaosOf
  <2>2. \/ NeedOf(r)' = NeedOf(r)
        \/ NeedOf(r) = "needed" /\ NeedOf(r)' = "released"
    BY <1>4 DEF CreateChaosFails, Answered, NeedOf
  <2>3. QED
    BY <1>2, <2>1, <2>2 DEF RunStep
<1>5. CASE \E c \in Clusters : CancelDelete(r, c)
  <2>1. /\ r \in cancelled /\ cancelled' = cancelled /\ step' = step /\ post' = post
        /\ \/ crs' = crs
           \/ \E c \in Clusters : crs' = [crs EXCEPT ![c] = @ \ {r}]
    BY <1>5 DEF CancelDelete
  <2>2. NeedOf(r)' = NeedOf(r) /\ NeedOf(r) # "needed"
    BY <1>1, <2>1 DEF NeedOf
  <2>3. \/ ChaosOf(r)' = ChaosOf(r)
        \/ ChaosOf(r) = "active" /\ ChaosOf(r)' = "gone"
    BY <2>1 DEF ChaosOf
  <2>4. QED
    BY <1>2, <2>2, <2>3 DEF RunStep
<1>6. CASE CancelRun(r) \/ CancelPatch(r) \/ CancelAborted(r) \/ InformerSync(r)
  <2>1. /\ step' = step /\ post' = post /\ crs' = crs
        /\ cancelled' \in {cancelled, cancelled \cup {r}}
    BY <1>6 DEF CancelRun, CancelPatch, CancelAborted, InformerSync
  <2>2. ChaosOf(r)' = ChaosOf(r)
    BY <2>1 DEF ChaosOf
  <2>3. \/ NeedOf(r)' = NeedOf(r)
        \/ NeedOf(r) = "needed" /\ NeedOf(r)' = "released"
    BY <1>1, <2>1 DEF NeedOf
  <2>4. QED
    BY <1>2, <2>2, <2>3 DEF RunStep
<1>7. QED
  BY <1>3, <1>4, <1>5, <1>6 DEF ServerNext

\* A step that touches neither the runs nor their chaos is a stutter.
LEMMA StutterAbstract ==
    ASSUME UNCHANGED <<wf, step, post, crs, cancelled>>
    PROVE  UNCHANGED Promise!vars
BY DEF Promise!vars, ChaosOf, NeedOf

\* With a prompt informer the watchdog takes away only what an ended run left.
LEMMA WatchdogAbstract ==
    ASSUME PromptInformer, LifecycleInv, WatchdogNext
    PROVE  [Promise!Next]_(Promise!vars)
<1> USE DEF LifecycleInv, TypeOK, PostOrder, WatchdogKnows, engineVars,
            chaosStepVars, serverVars, targetVars, cancelVars
<1>1. CASE \/ WatchdogList \/ WatchdogListPartial \/ WatchdogDeleteFails
           \/ \E r \in Runs : WatchdogCheck(r)
  BY <1>1, StutterAbstract DEF WatchdogList, WatchdogListPartial,
     WatchdogDeleteFails, WatchdogCheck
<1>2. CASE WatchdogDelete
  <2>1. PICK r \in Runs : wdDoomed = {r}
    BY <1>2 DEF WatchdogDelete
  <2>2. /\ wf[r] \in Ended /\ UNCHANGED <<wf, step, post, cancelled>>
        /\ crs' = [crs EXCEPT ![Local] = @ \ {r}]
    BY <1>2, <2>1 DEF WatchdogDelete, RouterDeleteCluster
  <2>3. OthersKeep(r)
    BY <2>2, Untouched DEF OthersKeep
  <2>4. NeedOf(r) = "ended" /\ NeedOf(r)' = "ended"
    BY <2>2 DEF NeedOf
  <2>5. \/ ChaosOf(r)' = ChaosOf(r)
        \/ ChaosOf(r) = "active" /\ ChaosOf(r)' = "gone"
    BY <2>2 DEF ChaosOf
  <2>6. RunStep(r)
    BY <2>4, <2>5 DEF RunStep
  <2>7. QED
    BY <2>3, <2>6, AbstractStep
<1>3. QED
  BY <1>1, <1>2 DEF WatchdogNext

\* Every step of the system is a step of the promise, or a stutter.
LEMMA StepRefines ==
    ASSUME PromptInformer, LifecycleInv, [Next]_vars
    PROVE  [Promise!Next]_(Promise!vars)
<1>1. ASSUME NEW r \in Runs, EngineNext(r) \/ ChaosStepNext(r) \/ ServerNext(r)
      PROVE  [Promise!Next]_(Promise!vars)
  BY <1>1, EngineAbstract, ChaosStepAbstract, ServerAbstract, AbstractStep
<1>2. ASSUME \/ RefreshTargets
             \/ \E t \in Targets, s \in TargetState : ConfigureTarget(t, s)
             \/ Crash
             \/ Restart
             \/ UNCHANGED vars
      PROVE  UNCHANGED <<wf, step, post, crs, cancelled>>
  BY <1>2 DEF RefreshTargets, ConfigureTarget, Crash, Restart, vars, engineVars,
              chaosStepVars, cancelVars
<1>3. QED
  BY <1>1, <1>2, WatchdogAbstract, StutterAbstract DEF Next

\* The chaos control path (api/internal_chaos.go, api/handlers.go CancelRun,
\* chaos/watchdog.go, the chaos templates) implements the safety part of
\* ChaosPromise: chaos is injected at most once per run, and removed only when
\* the run has ended, was cancelled, or gave it up.
THEOREM RefinesPromise ==
    ASSUME PromptInformer
    PROVE  SafetySpec => KeepsPromiseSafely
<1>1. Init => Promise!Init
  BY DEF Init, Promise!Init, ChaosOf, NeedOf, Ended
<1>2. LifecycleInv /\ [Next]_vars => [Promise!Next]_(Promise!vars)
  BY StepRefines
<1>3. QED
  BY <1>1, <1>2, InvariantHolds, PTL
     DEF SafetySpec, KeepsPromiseSafely, Promise!Safety

=============================================================================
