--------------------------- MODULE ChaosLifecycle ---------------------------
(***************************************************************************)
(* The life of the chaos resources (CRs) that test runs inject: the Argo   *)
(* WorkflowTemplate that posts, holds and deletes one                      *)
(* (helm/.../workflowtemplates/chaos), the controlplane's /internal/chaos  *)
(* handlers and chaos.Router, DELETE /api/runs/{id}, the target registry's *)
(* refresher, and the watchdog that reaps what a run left behind.          *)
(*                                                                         *)
(* One action is one API call or one decision taken on state read before,  *)
(* because that is where the steps of different actors interleave. Every   *)
(* chaos template posts one CR per run under a generated name, so a CR is  *)
(* identified by the run whose dlh.run-id label it carries, and what       *)
(* chaos.Ref encodes (which does not include the cluster) is that run too. *)
(***************************************************************************)
EXTENDS Naturals

CONSTANTS
    Runs,            \* workflow names, which are the run ids
    Targets,         \* ids of the remote target clusters
    Local,           \* the framework cluster, targetID ""
    PromptInformer,  \* TRUE: the informer reports a workflow before its chaos step
    MaxFaults        \* bound on crashes and failed, partial or unanswered calls

ASSUME LifecycleAssumption ==
    /\ Local \notin Targets
    /\ PromptInformer \in BOOLEAN
    /\ MaxFaults \in Nat

VARIABLES
    wf,         \* run -> phase of its Workflow in the API server
    shutdown,   \* runs whose workflow has spec.shutdown = Terminate
    target,     \* run -> cluster its target_id parameter names
    step,       \* run -> where the steps of its chaos template are
    post,       \* run -> what became of its POST /internal/chaos
    crs,        \* cluster -> runs that have a chaos CR there
    up,         \* the controlplane process is serving
    cache,      \* run -> phase of its Workflow in the informer cache
    configured, \* target -> how the operator has set it up (ConfigMap, Secret)
    registry,   \* target -> what the last refresh loaded
    cancelling, \* runs with a DELETE /api/runs/{id} being served
    cancelTodo, \* run -> clusters its DeleteByRun has not visited yet
    cancelled,  \* runs a cancel was ever accepted for (history)
    wdTodo,     \* runs of the listed CRs the watchdog's tick has still to check
    wdDoomed,   \* the run whose ref it is about to delete (at most one)
    faults      \* faults so far

engineVars == <<wf, shutdown, target>>
chaosStepVars == <<step, post>>
serverVars == <<up, cache>>
targetVars == <<configured, registry>>
cancelVars == <<cancelling, cancelTodo, cancelled>>
wdVars == <<wdTodo, wdDoomed>>
vars == <<engineVars, chaosStepVars, crs, serverVars, targetVars, cancelVars,
          wdVars, faults>>

Clusters == {Local} \cup Targets

\* Succeeded, Failed and Error are told apart by nothing here: "Done".
Phase == {"None", "Pending", "Running", "Done", "Gone"}
Live == {"Pending", "Running"}
Ended == {"Done", "Gone"}

StepState == {"idle", "posting", "waiting", "cleaning", "done", "failed"}
PostState == {"unsent", "sent", "served"}

\* A target is missing, loaded without a usable kubeconfig, or usable.
TargetState == {"absent", "broken", "ok"}

TypeOK ==
    /\ wf \in [Runs -> Phase]
    /\ shutdown \in SUBSET Runs
    /\ target \in [Runs -> Clusters]
    /\ step \in [Runs -> StepState]
    /\ post \in [Runs -> PostState]
    /\ crs \in [Clusters -> SUBSET Runs]
    /\ up \in BOOLEAN
    /\ cache \in [Runs -> Phase]
    /\ configured \in [Targets -> TargetState]
    /\ registry \in [Targets -> TargetState]
    /\ cancelling \in SUBSET Runs
    /\ cancelTodo \in [Runs -> SUBSET Clusters]
    /\ \A r \in Runs : cancelTodo[r] # {} => r \in cancelling
    /\ cancelled \in SUBSET Runs
    /\ wdTodo \in SUBSET Runs
    /\ wdDoomed \in SUBSET Runs
    /\ faults \in Nat

\* The controlplane has synced its informer; the first refresh is still to come.
Init ==
    /\ wf = [r \in Runs |-> "None"]
    /\ shutdown = {}
    /\ target = [r \in Runs |-> Local]
    /\ step = [r \in Runs |-> "idle"]
    /\ post = [r \in Runs |-> "unsent"]
    /\ crs = [c \in Clusters |-> {}]
    /\ up = TRUE
    /\ cache = [r \in Runs |-> "None"]
    /\ configured \in [Targets -> TargetState]
    /\ registry = [t \in Targets |-> "absent"]
    /\ cancelling = {}
    /\ cancelTodo = [r \in Runs |-> {}]
    /\ cancelled = {}
    /\ wdTodo = {}
    /\ wdDoomed = {}
    /\ faults = 0

Fault == faults < MaxFaults /\ faults' = faults + 1
NoFault == UNCHANGED faults

-----------------------------------------------------------------------------
(* Router: which cluster a call reaches *)

\* Router.allClients: Local and every target with a kubeconfig.
AllClients == {Local} \cup {t \in Targets : registry[t] = "ok"}

\* Router.pick succeeds and the client it returns has a kubeconfig.
Routable(c) == c \in AllClients

\* The cluster DeleteForTarget's client talks to.
DeleteClusterUntargeted(c) == Local  \* broken variant: Router.Delete is called
DeleteCluster(c) == c

\* The cluster Router.Delete reaches: the ref does not say where it came from.
RouterDeleteCluster == Local

\* main.go's checker: an absent workflow counts as finished.
IsTerminalIfPending(r) == cache[r] # "Running"  \* broken variant: "" is terminal
IsTerminalIfPresent(r) == cache[r] = "Done"      \* broken variant: absent is not
IsTerminal(r) == cache[r] \in {"None", "Done", "Gone"}

-----------------------------------------------------------------------------
(* The workflow engine and the operators of the cluster *)

\* A Workflow is created, by runs.Submitter or by an Argo CronWorkflow.
SubmitRun(r, c) ==
    /\ wf[r] = "None"
    /\ wf' = [wf EXCEPT ![r] = "Pending"]
    /\ target' = [target EXCEPT ![r] = c]
    /\ UNCHANGED <<shutdown, chaosStepVars, crs, serverVars, targetVars,
                   cancelVars, wdVars, faults>>

StartRun(r) ==
    /\ wf[r] = "Pending"
    /\ r \notin shutdown
    /\ wf' = [wf EXCEPT ![r] = "Running"]
    /\ UNCHANGED <<shutdown, target, chaosStepVars, crs, serverVars, targetVars,
                   cancelVars, wdVars, faults>>

\* The scenario ends by itself: a step before the chaos failed, or the chaos
\* step is over (continueOn failed) and the rest has run.
FinishRun(r) ==
    /\ wf[r] = "Running"
    /\ step[r] \in {"idle", "done", "failed"}
    /\ wf' = [wf EXCEPT ![r] = "Done"]
    /\ UNCHANGED <<shutdown, target, chaosStepVars, crs, serverVars, targetVars,
                   cancelVars, wdVars, faults>>

\* The engine obeys spec.shutdown = Terminate: no further step runs.
TerminateRun(r) ==
    /\ r \in shutdown
    /\ wf[r] \in Live
    /\ wf' = [wf EXCEPT ![r] = "Done"]
    /\ UNCHANGED <<shutdown, target, chaosStepVars, crs, serverVars, targetVars,
                   cancelVars, wdVars, faults>>

\* `argo terminate`, without the controlplane.
ForceTerminate(r) ==
    /\ wf[r] \in Live
    /\ shutdown' = shutdown \cup {r}
    /\ UNCHANGED <<wf, target, chaosStepVars, crs, serverVars, targetVars,
                   cancelVars, wdVars, faults>>

\* The Workflow is deleted: collected after its TTL, or by an operator.
DeleteWorkflow(r) ==
    /\ wf[r] \in Live \cup {"Done"}
    /\ wf' = [wf EXCEPT ![r] = "Gone"]
    /\ UNCHANGED <<shutdown, target, chaosStepVars, crs, serverVars, targetVars,
                   cancelVars, wdVars, faults>>

\* The operator edits the dlh-targets ConfigMap or a kubeconfig Secret.
ConfigureTarget(t, s) ==
    /\ configured' = [configured EXCEPT ![t] = s]
    /\ UNCHANGED <<engineVars, chaosStepVars, crs, serverVars, registry,
                   cancelVars, wdVars, faults>>

-----------------------------------------------------------------------------
(* The steps of a chaos WorkflowTemplate: post, wait, cleanup *)

\* build-body is done and the http template sends its POST.
SendPost(r) ==
    /\ wf[r] = "Running"
    /\ step[r] = "idle"
    /\ PromptInformer /\ up => cache[r] # "None"
    /\ step' = [step EXCEPT ![r] = "posting"]
    /\ post' = [post EXCEPT ![r] = "sent"]
    /\ UNCHANGED <<engineVars, crs, serverVars, targetVars, cancelVars, wdVars,
                   faults>>

\* The caller hears the answer if it still waits for it.
Answered(r, s) == [step EXCEPT ![r] = IF @ = "posting" THEN s ELSE @]

\* Nobody is listening, or the connection breaks: the http template fails.
PostRefused(r) ==
    /\ ~up
    /\ post[r] = "sent"
    /\ post' = [post EXCEPT ![r] = "served"]
    /\ step' = Answered(r, "failed")
    /\ UNCHANGED <<engineVars, crs, serverVars, targetVars, cancelVars, wdVars,
                   faults>>

\* The http template gives up on an answer that is still to come.
PostTimesOut(r) ==
    /\ wf[r] = "Running"
    /\ step[r] = "posting"
    /\ Fault
    /\ step' = [step EXCEPT ![r] = "failed"]
    /\ UNCHANGED <<engineVars, post, crs, serverVars, targetVars, cancelVars,
                   wdVars>>

\* wait-window has slept for the chaos duration.
WaitOver(r) ==
    /\ wf[r] = "Running"
    /\ step[r] = "waiting"
    /\ step' = [step EXCEPT ![r] = "cleaning"]
    /\ UNCHANGED <<engineVars, post, crs, serverVars, targetVars, cancelVars,
                   wdVars, faults>>

\* The sleeping pod is evicted: cleanup is a step, not an exit handler, and is skipped.
WaitFails(r) ==
    /\ wf[r] = "Running"
    /\ step[r] = "waiting"
    /\ Fault
    /\ step' = [step EXCEPT ![r] = "failed"]
    /\ UNCHANGED <<engineVars, post, crs, serverVars, targetVars, cancelVars,
                   wdVars>>

\* cleanup-chaos: DELETE /internal/chaos/{ref}, answered 204 (NotFound included).
CleanupStep(r) ==
    /\ wf[r] = "Running"
    /\ step[r] = "cleaning"
    /\ up /\ Routable(target[r])
    /\ crs' = [crs EXCEPT ![DeleteCluster(target[r])] = @ \ {r}]
    /\ step' = [step EXCEPT ![r] = "done"]
    /\ UNCHANGED <<engineVars, post, serverVars, targetVars, cancelVars, wdVars,
                   faults>>

\* curl -f sees an error: no controlplane, a target it cannot route to, or a
\* call that failed with the CR deleted (answer lost) or not.
CleanupFails(r) ==
    /\ wf[r] = "Running"
    /\ step[r] = "cleaning"
    /\ \/ ~(up /\ Routable(target[r])) /\ NoFault /\ UNCHANGED crs
       \/ up /\ Routable(target[r]) /\ Fault
          /\ crs' \in {crs, [crs EXCEPT ![target[r]] = @ \ {r}]}
    /\ step' = [step EXCEPT ![r] = "failed"]
    /\ UNCHANGED <<engineVars, post, serverVars, targetVars, cancelVars, wdVars>>

-----------------------------------------------------------------------------
(* POST /internal/chaos *)

\* CreateForTarget creates the labelled CR: 201. Nothing asks whether the run
\* is still alive, so a late request is served too.
CreateChaos(r) ==
    /\ up
    /\ post[r] = "sent"
    /\ Routable(target[r])
    /\ post' = [post EXCEPT ![r] = "served"]
    /\ crs' = [crs EXCEPT ![target[r]] = @ \cup {r}]
    /\ step' = Answered(r, "waiting")
    /\ UNCHANGED <<engineVars, serverVars, targetVars, cancelVars, wdVars,
                   faults>>

\* 500: the target is unknown to the registry, has no kubeconfig, or its
\* API server refuses the create.
CreateChaosFails(r) ==
    /\ up
    /\ post[r] = "sent"
    /\ \/ ~Routable(target[r]) /\ NoFault
       \/ Routable(target[r]) /\ Fault
    /\ post' = [post EXCEPT ![r] = "served"]
    /\ step' = Answered(r, "failed")
    /\ UNCHANGED <<engineVars, crs, serverVars, targetVars, cancelVars, wdVars>>

-----------------------------------------------------------------------------
(* DELETE /api/runs/{id}: chaos first, then shutdown = Terminate *)

\* The run is in the cache (404 otherwise); DeleteByRun fixes its clients.
CancelRun(r) ==
    /\ up
    /\ r \notin cancelling
    /\ cache[r] \notin {"None", "Gone"}
    /\ cancelling' = cancelling \cup {r}
    /\ cancelTodo' = [cancelTodo EXCEPT ![r] = AllClients]
    /\ cancelled' = cancelled \cup {r}
    /\ UNCHANGED <<engineVars, chaosStepVars, crs, serverVars, targetVars,
                   wdVars, faults>>

\* One client's DeleteByRun: list by label and delete; a failed list or delete
\* is passed over.
CancelDelete(r, c) ==
    /\ r \in cancelling
    /\ c \in cancelTodo[r]
    /\ cancelTodo' = [cancelTodo EXCEPT ![r] = @ \ {c}]
    /\ \/ crs' = [crs EXCEPT ![c] = @ \ {r}] /\ NoFault
       \/ UNCHANGED crs /\ Fault
    /\ UNCHANGED <<engineVars, chaosStepVars, serverVars, targetVars,
                   cancelling, cancelled, wdVars>>

\* The merge patch; a workflow that is gone makes it fail.
CancelPatch(r) ==
    /\ r \in cancelling
    /\ cancelTodo[r] = {}
    /\ shutdown' = IF wf[r] = "Gone" THEN shutdown ELSE shutdown \cup {r}
    /\ cancelling' = cancelling \ {r}
    /\ UNCHANGED <<wf, target, chaosStepVars, crs, serverVars, targetVars,
                   cancelTodo, cancelled, wdVars, faults>>

\* The client disconnects: every later call of the request fails.
CancelAborted(r) ==
    /\ r \in cancelling
    /\ Fault
    /\ cancelling' = cancelling \ {r}
    /\ cancelTodo' = [cancelTodo EXCEPT ![r] = {}]
    /\ UNCHANGED <<engineVars, chaosStepVars, crs, serverVars, targetVars,
                   cancelled, wdVars>>

-----------------------------------------------------------------------------
(* The watchdog's tick *)

\* Router.ListManaged over the clients that answer.
ListManagedByTarget(S) == UNION {crs[c] : c \in S \ {Local}}  \* broken variant: dlh.target label
ListManaged(S) == UNION {crs[c] : c \in S}

\* A tick begins: list everything.
WatchdogList ==
    /\ up
    /\ wdTodo = {} /\ wdDoomed = {}
    /\ wdTodo' = ListManaged(AllClients)
    /\ UNCHANGED <<engineVars, chaosStepVars, crs, serverVars, targetVars,
                   cancelVars, wdDoomed, faults>>

\* ... or what the clusters that answer hold: an error is skipped in silence.
WatchdogListPartial ==
    /\ up
    /\ wdTodo = {} /\ wdDoomed = {}
    /\ Fault
    /\ \E S \in SUBSET AllClients : wdTodo' = ListManaged(S)
    /\ UNCHANGED <<engineVars, chaosStepVars, crs, serverVars, targetVars,
                   cancelVars, wdDoomed>>

\* One round of the loop: is the run of these refs over?
WatchdogCheck(r) ==
    /\ r \in wdTodo
    /\ wdDoomed = {}
    /\ wdTodo' = wdTodo \ {r}
    /\ wdDoomed' = IF IsTerminal(r) THEN {r} ELSE {}
    /\ UNCHANGED <<engineVars, chaosStepVars, crs, serverVars, targetVars,
                   cancelVars, faults>>

\* Chaos.Delete(ref); a CR that is not there counts as deleted.
WatchdogDelete ==
    /\ wdDoomed # {}
    /\ crs' = [crs EXCEPT ![RouterDeleteCluster] = @ \ wdDoomed]
    /\ wdDoomed' = {}
    /\ UNCHANGED <<engineVars, chaosStepVars, serverVars, targetVars,
                   cancelVars, wdTodo, faults>>

\* The call fails; the next tick lists the CR again.
WatchdogDeleteFails ==
    /\ wdDoomed # {}
    /\ Fault
    /\ wdDoomed' = {}
    /\ UNCHANGED <<engineVars, chaosStepVars, crs, serverVars, targetVars,
                   cancelVars, wdTodo>>

-----------------------------------------------------------------------------
(* Informer, registry refresher, crash and restart *)

\* The watch brings the cache up to date with one workflow.
InformerSync(r) ==
    /\ up
    /\ cache[r] # wf[r]
    /\ cache' = [cache EXCEPT ![r] = wf[r]]
    /\ UNCHANGED <<engineVars, chaosStepVars, crs, up, targetVars, cancelVars,
                   wdVars, faults>>

\* A refresh that loads; one that fails leaves the registry as it is.
RefreshTargets ==
    /\ up
    /\ registry' = configured
    /\ UNCHANGED <<engineVars, chaosStepVars, crs, serverVars, configured,
                   cancelVars, wdVars, faults>>

\* The process dies with all it held, the cancels it was serving included; a
\* POST in flight is refused or reaches the next process.
Crash ==
    /\ up
    /\ Fault
    /\ up' = FALSE
    /\ cache' = [r \in Runs |-> "None"]
    /\ registry' = [t \in Targets |-> "absent"]
    /\ cancelling' = {}
    /\ cancelTodo' = [r \in Runs |-> {}]
    /\ wdTodo' = {}
    /\ wdDoomed' = {}
    /\ UNCHANGED <<engineVars, chaosStepVars, crs, configured, cancelled>>

\* Broken variant: the watchdog starts before the cache is synced.
RestartUnsynced ==
    /\ ~up
    /\ up' = TRUE
    /\ UNCHANGED <<engineVars, chaosStepVars, crs, cache, targetVars,
                   cancelVars, wdVars, faults>>

\* NewWorkflowLister returns once the cache is synced; only then do the
\* watchdog and the server start.
Restart ==
    /\ ~up
    /\ up' = TRUE
    /\ cache' = wf
    /\ UNCHANGED <<engineVars, chaosStepVars, crs, targetVars, cancelVars,
                   wdVars, faults>>

-----------------------------------------------------------------------------

EngineNext(r) ==
    \/ \E c \in Clusters : SubmitRun(r, c)
    \/ StartRun(r)
    \/ FinishRun(r)
    \/ TerminateRun(r)
    \/ ForceTerminate(r)
    \/ DeleteWorkflow(r)

ChaosStepNext(r) ==
    \/ SendPost(r)
    \/ PostRefused(r)
    \/ PostTimesOut(r)
    \/ WaitOver(r)
    \/ WaitFails(r)
    \/ CleanupStep(r)
    \/ CleanupFails(r)

ServerNext(r) ==
    \/ CreateChaos(r)
    \/ CreateChaosFails(r)
    \/ CancelRun(r)
    \/ \E c \in Clusters : CancelDelete(r, c)
    \/ CancelPatch(r)
    \/ CancelAborted(r)
    \/ InformerSync(r)

WatchdogNext ==
    \/ WatchdogList
    \/ WatchdogListPartial
    \/ \E r \in Runs : WatchdogCheck(r)
    \/ WatchdogDelete
    \/ WatchdogDeleteFails

Next ==
    \/ \E r \in Runs : EngineNext(r) \/ ChaosStepNext(r) \/ ServerNext(r)
    \/ WatchdogNext
    \/ RefreshTargets
    \/ \E t \in Targets, s \in TargetState : ConfigureTarget(t, s)
    \/ Crash
    \/ Restart

ServeCancel(r) == CancelPatch(r) \/ \E c \in Clusters : CancelDelete(r, c)

\* The informer, the refresher and the watchdog are loops of the process that
\* never block on each other, a request being served runs on, and the Deployment
\* restarts the process. Nothing is assumed of the workflow engine, of
\* operators, or of API clients.
Fairness ==
    /\ \A r \in Runs : WF_vars(InformerSync(r)) /\ WF_vars(ServeCancel(r))
    /\ WF_vars(RefreshTargets)
    /\ WF_vars(WatchdogList)
    /\ WF_vars(\E r \in Runs : WatchdogCheck(r))
    /\ WF_vars(WatchdogDelete)
    /\ WF_vars(Restart)

SafetySpec == Init /\ [][Next]_vars
Spec == SafetySpec /\ Fairness

-----------------------------------------------------------------------------
(* Properties *)

\* A chaos CR disappears only when its run has ended, a cancel of the run is
\* being served, or the run's own cleanup step asks for it: neither the watchdog
\* acting on a cache and a list that are both stale, nor a cancel of another
\* run, takes chaos away from a run that is still measuring under it.
ReapsOnlyEndedRuns ==
    [][\A c \in Clusters : \A r \in crs[c] :
         r \notin crs'[c] => \/ wf[r] \in Ended
                             \/ r \in cancelling
                             \/ step[r] = "cleaning"]_vars

\* When the cleanup step has succeeded, the run's chaos is in no cluster and
\* stays out: the DELETE reached the cluster the POST went to, and no late POST
\* can put it back.
CleanupIsFinal ==
    \A r \in Runs : step[r] = "done" =>
        post[r] = "served" /\ \A c \in Clusters : r \notin crs[c]

\* The chaos a run left in cluster c is eventually gone, however the run ended
\* and whatever was crashed, timed out or cancelled on the way.
ReapedIn(c) ==
    \A r \in Runs : (wf[r] \in Ended /\ r \in crs[c]) ~> r \notin crs[c]

\* The watchdog clears the framework cluster.
LocalOrphansReaped == ReapedIn(Local)

\* The same for the remote targets that stay registered with a good kubeconfig,
\* as the design document promises.
RemoteOrphansReaped ==
    \A t \in Targets :
        \A r \in Runs :
            (wf[r] \in Ended /\ r \in crs[t]) ~>
                (r \notin crs[t] \/ configured[t] # "ok" \/ registry[t] # "ok")

-----------------------------------------------------------------------------
(* The inductive invariant behind the safety properties *)

\* A CR exists only after the run's one POST was served, in the cluster the
\* run targets, and not once its cleanup step has succeeded.
PostOrder ==
    \A r \in Runs :
        /\ post[r] = "unsent" <=> step[r] = "idle"
        /\ post[r] # "unsent" => wf[r] # "None"
        /\ step[r] \in {"waiting", "cleaning", "done"} => post[r] = "served"
        /\ \A c \in Clusters :
              r \in crs[c] => post[r] = "served" /\ target[r] = c /\ step[r] # "done"

\* The cache may lag but never runs ahead; with a prompt informer it knows every
\* run that has posted.
CacheBehind ==
    \A r \in Runs :
        /\ cache[r] \in Ended => wf[r] \in Ended
        /\ PromptInformer /\ up /\ post[r] # "unsent" => cache[r] # "None"

\* What the watchdog holds is of a live process; it is about to delete only what
\* it may.
WatchdogKnows ==
    /\ wdTodo # {} => up
    /\ \A r \in wdTodo : post[r] = "served"
    /\ \A q, r \in wdDoomed : q = r
    /\ PromptInformer => \A r \in wdDoomed : wf[r] \in Ended

\* Together these are inductive.
LifecycleInv ==
    /\ TypeOK
    /\ PostOrder
    /\ CacheBehind
    /\ WatchdogKnows
    /\ cancelling \subseteq cancelled

-----------------------------------------------------------------------------
(* Refinement of ChaosPromise, one instance per run *)

ChaosOf(r) ==
    IF \E c \in Clusters : r \in crs[c] THEN "active"
    ELSE IF post[r] = "served" THEN "gone" ELSE "never"

NeedOf(r) ==
    IF wf[r] \in Ended THEN "ended"
    ELSE IF r \in cancelled \/ step[r] \in {"cleaning", "done", "failed"}
    THEN "released" ELSE "needed"

Promise == INSTANCE ChaosPromise WITH
    chaos <- [r \in Runs |-> ChaosOf(r)], need <- [r \in Runs |-> NeedOf(r)]

\* Every run's chaos is injected at most once and removed only with a reason.
KeepsPromiseSafely == Promise!Safety

\* ... and eventually removed once the run has ended.
KeepsPromise == Promise!Spec

=============================================================================
