# Verification of dlh-test-fw

TLA+ models of the dlh control plane: TLC model-checks them on small instances,
TLAPS proves the main safety properties for every value of the constants.
Paths are relative to the repository; `cp/` stands for `controlplane/`.

## 1. The system

A *run* is an Argo Workflow made from a scenario WorkflowTemplate: it seeds a
fixture, drives k6 load, injects chaos into a (possibly remote) cluster, and
judges SLO thresholds. The control plane is a Go server beside the engine.

| Component | State it keeps | Operations | Talks to |
|---|---|---|---|
| Chaos client, router, remote client (`cp/internal/chaos`) | none; the CRs in the clusters | Create, Delete, DeleteByRun, ListByRun, ListManaged, routed by target id | API servers, target registry |
| Internal chaos API (`cp/internal/api/internal_chaos.go`) | none | POST and DELETE `/internal/chaos` | called by workflow steps; router |
| Chaos WorkflowTemplates (`helm/.../chaos`) | the step a run is in | build-body, post, wait, cleanup | internal chaos API |
| Watchdog (`cp/internal/chaos/watchdog.go`) | one tick's list | every 30 s: list, check, delete | router, informer cache |
| Target registry (`cp/internal/targets`) | id -> kubeconfig | Get, List, refresh every 30 s, Probe | ConfigMap, Secrets |
| Workflow informer (`cp/internal/k8s/workflows.go`) | cache, subscribers | List, Get, Subscribe, broadcast | API server; Syncer, SSE, watchdog |
| Run API (`cp/internal/api/handlers.go`) | none | list, get, create, cancel, reprioritize, queue, priorities | all of the above |
| Run records (`cp/internal/runs`) | Syncer.last; manifests in MinIO | Submit, Write, Read, handle | informer channel, MinIO |
| Priorities (`cp/internal/priorities`) | a ConfigMap | Get, All, Set | API server |
| Queue lanes (`cp/internal/queue`) | none | BuildLanes | workflows of the cache |
| Verdict cache (`cp/internal/runs/verdictcache.go`) | scores of finished runs | Score | reports in MinIO |
| Event stream (`cp/internal/api/sse.go`) | one channel per client | snapshot, then events | informer |
| Schedules (`cp/internal/schedules`) | CronWorkflows | create, list, get, delete, pause, resume | API server |
| Auth (`cp/internal/auth`, `cp/internal/api/server.go`) | role bindings, provider cache | Verify, Issue, Exchange, Resolve | OIDC issuers |
| CLI (`cp/cmd/dlh`) | saved token | login, run --wait, runs, targets, schedules | the API |
| Verdict job (`verdict-job`) | none | windows, thresholds, report, exit code | PromQL endpoint |
| Scenario WorkflowTemplates (`helm/.../scenario`) | the step group a run is in | prepare, chaos beside load, verdict | engine, chaos API, verdict job |
| Web UI (`cp/web`) | what a page shows | load, reload on events | the API |
| Packaging, dashboards | - | - | - |

What is hard here: several loops of one process (watchdog, refresher, informer,
Syncer) and its request handlers act on caches of state that lives elsewhere;
the engine, operators and API clients act on that state meanwhile; calls fail,
time out, arrive late; the process dies between any two of them. `PROJECT.json`
lists each hazard at its line, with the property that covers it.

What makes each component correct:

- chaos control path: injected chaos goes away once its run is over, and never
  before the run is done with it;
- run records: a record never claims what has not happened, a terminal record
  is final, the end of every run is recorded, an accepted run can be read;
- priorities: no accepted override is lost; a run's priority is that of the
  documented order (request, scenario default, template);
- queue lanes: each waiting run once, in the order the engine releases them;
- event stream: nothing is lost between snapshot and events but by a full
  channel; a page and `dlh run --wait` learn the end of the run;
- verdict: PASS only when every check of a valid SLO was made on its own, past
  window and passed; whoever has a score has that of the archived report;
- schedules: a confirmed pause or delete lasts, competing creates have one
  winner, no answer lies;
- access: a token is accepted only in its lifetime, with the highest bound role,
  and exchanging it neither prolongs access beyond one session nor raises a role.

## 2. Modules

| Module | Models | Role |
|---|---|---|
| `ChaosPromise` | what the chaos path promises of one run's chaos | abstract specification |
| `ChaosLifecycle` | templates' steps, chaos API, router, cancel, registry, watchdog, crash | core |
| `ChaosLifecycleProofs` | invariants, action property, refinement | TLAPS |
| `RunRecord` | what the record of a run promises to whoever reads it | abstract specification |
| `RunManifest` | CreateRun's record, informer, channel, Syncer, MinIO, crash | refines `RunRecord` |
| `RunManifestProofs` | invariants, refinement, final records | TLAPS |
| `OverrideMap` | the priority overrides as a map that PUTs change atomically | abstract specification |
| `PriorityStore` | the ConfigMap, Set and All under optimistic concurrency | refines `OverrideMap` |
| `PriorityStoreProofs` | invariant, refinement | TLAPS |
| `QueueLanes` | BuildLanes as a pure operator | used by `RunQueue` |
| `RunQueue` | Submit, Reprioritize, the engine's queue, GET /api/queue | composes `PriorityStore` and `QueueLanes` |
| `MCRunQueue` | lanes, baked priorities, symmetry set | TLC |
| `RunQueueProofs` | invariants, effective priority, lanes and their order, the defaults' map | TLAPS |
| `EventStream` | SSE handler, page of a run, `dlh run --wait`, informer, crash | composes three clients with the informer |
| `EventStreamProofs` | invariants, no gap, faithful clients | TLAPS |
| `Verdict` | step groups, verdict job, verdict cache, the Syncer's score | composes scenario, job and control plane |
| `MCVerdict` | parameters, SLO documents, samples | TLC |
| `VerdictProofs` | invariant, four properties, bound on the job's steps | TLAPS |
| `Schedules` | schedule operations, failing and late calls, clients that give up, crash | component |
| `SchedulesProofs` | invariant and three properties | TLAPS |
| `DeviceLogin` | device-code poll and cached token | used by `Access` |
| `Access` | middleware, roles, exchange, restart | composes `DeviceLogin` with the control plane |
| `MCAccess` | groups, bindings, symmetry set | TLC |
| `AccessProofs` | invariants and four properties | TLAPS |

### ChaosLifecycle

One action is one API call, or one decision taken on state read before.
`wf`, `shutdown`, `target` are the Workflow objects; `step` is the position in
the chaos template (`posting` is the http template waiting for its answer),
`post` is the request on the wire, which outlives a caller that gave up;
`crs[c]` are the runs with a chaos CR in cluster `c`. A run posts one CR under a
generated name, so the run identifies it; `chaos.Ref` does not carry the cluster
and neither does the model, which is how the watchdog's misrouted delete shows.

| Code | Actions |
|---|---|
| `chaos/*.yaml`: post, wait, cleanup | SendPost, PostRefused, PostTimesOut, WaitOver, WaitFails, CleanupStep, CleanupFails |
| `InternalChaosHandler.Create`, `LocalChaosClient.Create` | CreateChaos, CreateChaosFails |
| `Handlers.CancelRun`, `DeleteByRun` | CancelRun, CancelDelete, CancelPatch, CancelAborted |
| `Watchdog.tick`, `Router.ListManaged`, `Router.Delete` | WatchdogList, WatchdogListPartial, WatchdogCheck, WatchdogDelete, WatchdogDeleteFails |
| `Refresher.tick`, `Registry.Replace` | RefreshTargets |
| informer, `main` | InformerSync, Crash, Restart |
| Argo, operators (external) | SubmitRun, StartRun, FinishRun, TerminateRun, ForceTerminate, DeleteWorkflow, ConfigureTarget |

Succeeded, Failed and Error are one phase "Done"; "Gone" is a deleted Workflow.
`PromptInformer` says that the cache has a run before the run posts its chaos.
With it the watchdog is safe; without it, it is not (section 4, limits).
Two Workflows never share a name and a target id names one cluster throughout.

### RunManifest

`phase`, `deleted` are the Workflow; `cache`, `queue` the informer's store and
the Syncer's channel; `last`, `writing` the Syncer; `create` the handler;
`primary`, `index` the objects in MinIO (the by-scenario and by-target copies
are one: they are put one after the other, and nothing reads them). A record is
its status. A write is two puts and each can fail or be cut off by a crash.

| Code | Actions |
|---|---|
| `Handlers.CreateRun` | CreateRun, HandlerPut, HandlerPutFails |
| `Handlers.GetRun` | operator GetRun |
| `workflowLister.eventHandlerFuncs`, `broadcast` | InformerSees, InformerSeesDelete, InformerMissesDelete, Resync, Broadcast |
| `Syncer.handle`, `ManifestWriter.Write` | SyncerTake, SyncerPut, SyncerPutFails |
| process | Crash, Restart |
| Argo (external) | CronRun, StartRun, EndRun, DeleteWorkflow |

`RunRecord` is what a reader may rely on: `record` is the primary object and
`listed` the copies, a `Write` says something that has already been so and none
follows one that said Done, and the copies say Done only once the record does,
which is what the order of the puts in `Write` is for. Here the informer changes
its store and calls its handler in one step; `EventStream` has them apart.

`PromptHandlers` says that CreateRun has written its manifest when the run ends
(a run takes minutes, the write milliseconds). Without it a terminal record can
be replaced (section 4, limits).

### PriorityStore

`exists`, `version`, `data` are the ConfigMap; `asked[p]` is the body of PUT
`p`, `put[p]` how far it is, `copy[p]` what it has read. A PUT reads once and
writes once; it does not retry. The API server's part, refusing an Update of a
version that has changed and a Create of what exists, is external.

| Code | Actions |
|---|---|
| `priorities.Store.Set`, `Handlers.PutScenarioPriority` | SetGet, SetGetFails, Update, Create, WriteFails |
| `priorities.Store.All`, `Get` | operator All |
| operators (external) | EditConfigMap, CanUpdate |

A failed write may have been executed; its PUT is answered with an error either
way. Entries that are not integers (`Junk`) are kept by Set and skipped by All.

### RunQueue and QueueLanes

`order`, `post`, `stamp`, `due` are the POST /api/runs requests; `wf` the
Workflows and `view` their copies in the informer's cache; `bump`, `target`,
`wish` the requests that reprioritise. Two history variables: `offered[q]` are the
effective priorities that were in force while POST `q` had read nothing yet, and
`missed` the POSTs whose own read of the defaults failed.
Each read and each write of the handlers is an action of its own.

| Code | Actions |
|---|---|
| `Submitter.Submit`, `resolvePriority` | SubmitRefused, SubmitNamed, SubmitResolve, SubmitResolveFails, SubmitCreate, SubmitCreateFails |
| `Submitter.Reprioritize`, its handler | BumpFind, BumpCheck, BumpPatch, BumpFails |
| informer | InformerSync |
| `queue.BuildLanes` | operators of QueueLanes |
| engine, time (external) | Enqueue, Release, EndRun, Tick |

A run id has the second of its POST in it, so two POSTs of a scenario can get
the same. An int32 is -Half..(Half - 1) and a conversion to it wraps. The
template's own priority is constant; Workflows are not deleted (a run id would
be free again only long after its second). Slot numbers in the lanes are left
out.

`BuildLanes` is written without a loop: `Distinct` are the places that addEntry
keeps, the first of each id, and `Ascending` puts a set in the order of a strict
total order by counting, for each element, those below it. `StableOrder` makes
one of sort.SliceStable's comparison and the place in the list, so the result is
the one a stable sort has.

### EventStream

`phase`, `deleted` are the Workflows, `cache` the informer's store, `notices` what
its handler is still to be told: client-go changes the store first and calls the
handler later. `record` is the manifest of the run that is watched. It is never
ahead of the Workflow, but it may be missing (a CronWorkflow's run has none until
the Syncer writes, and CreateRun's own write is best-effort), late, behind, or set
back by CreateRun's late write. `conn`, `chan`, `sent` are one stream; `reload`,
`answers`, `page` the page; `wait` the command, from its POST on.

| Code | Actions |
|---|---|
| `SSEHandler.Handle`, `workflowLister.Subscribe`, `broadcast` | Subscribe, Snapshot, Emit, Disconnect, Broadcast |
| guard of the SSE route, proxy | Refuse |
| `RunDetailPage` | Load, LoadFails, Arrive |
| `dlh run --wait`, `waitForRun`, `Handlers.GetRun` | Poll, RequestFails, operator GetRun |
| `Handlers.CreateRun` after Submit | Accept |
| informer, process | InformerSees, InformerSeesDelete, Resync, Notify, Crash, Restart |
| Syncer | SyncerRecords |
| Argo, operators (external) | StartWorkflow, EndRun, DeleteWorkflow |

Clients only tell terminal phases from the others, so a status is Live or Done.
A browser opens a stream that broke again, and one answered with an error never.

### Verdict

`stage`, `chaos`, `load`, `phase` are the Workflow, `job`, `results`, `report`
the verdict job, `archived` the report in MinIO, `cached`, `caller`, `answer`,
`recorded` who asks for the score. `mishap` is history: the run was cancelled or
one of the two reports was lost, the only ways in which score and phase differ.

| Code | Actions |
|---|---|
| `scenario/mysql-pod-delete.yaml` | Prepare, PrepareFails, ChaosStep, LoadStep, TestOver |
| `slo.Validate`, `window.Validate`, `window.Compute` | operators ValidSLO, ValidParams, Compute |
| `main`, `eval.Evaluate`, `prom.QueryAt`, `report.Write`, `metrics.Push` | Parse, QueryAt, WriteJSON, WriteHTML, Push, JobOver |
| `VerdictCache.Score`, `ReportReader.Read`, `Syncer.handle` | ScoreLookup, ScoreRead, SyncerReadsScore, Restart |
| `Handlers.CancelRun` | Cancel |

### Schedules

`cron` is the CronWorkflow, `stage[q]` how far the handler of request `q` is,
`answer[q]` its HTTP status or what a 200 shows. A client that gives up (`left`)
leaves its handler running until the server notices, if it does. A call that
failed for its handler, or that a canceled handler or a dead process left behind
(`late`), lands later or never. `made` and `mine` number the CronWorkflows of one
name; `failed`, `saw`, `disturbed` and `quiet` are history. `Unknown` is what a
handler makes of an error it does not know: of a create's it searches the text for
"not found" and "already exists", so that it may answer 404, 409 or 400.

| Code | Actions |
|---|---|
| `schedules.Manager`, handlers of `/api/schedules` | RejectCreate, CheckTemplate, Create, ListOrGet, Delete, SetSuspend, CallFails |
| `dlh schedule`, `apiClient`, its connection | Send, Reply, GiveUp, Canceled |
| process, Kubernetes API, helm (external) | Crash, Vanish, EditTemplate |

### DeviceLogin and Access

`due` and `deadline` are the ticker and the context of `pollForToken`; a tick
that nobody takes waits, at most one. `session`, `ci`, `file` are the tokens of
the holders, `vouched` (history) when the last token that a provider gave them
expires. `exchange` are the requests that the exchange serves: any bearer token
that the middleware accepts, and in the body the token of any holder, whose
groups the session gets.

| Code | Actions |
|---|---|
| `requestDeviceCode`, `pollForToken`, `saveToken` | AskCode, Expire, Poll, Token, Pending, SlowDown, Refused, Save |
| `auth.Middleware`, `Roles.Resolve` | operators Accepted, Claims, RoleOf, Resolve |
| `NewRouter`, for the exchange | operator ReachesExchange |
| `Exchanger.Validate` | operators Bodies, ExchangedGroups |
| `handleOidcExchange`, `Exchanger`, `SessionIssuer` | AskExchange, Fetched, FetchFails, Issue |
| start of the process, `NewRoles` | Start, MapRace |
| CI provider (external) | CIToken |

Two exchanges inside `providerFor` at once touch a plain map, which the Go runtime
may answer by ending the process: MapRace. The roles ConfigMap is read at the start
only, so Start takes any of its contents and edits need no action. The routes and
their guards are not modelled, but for the way to the exchange.

The Deployment runs one replica; the overlap of two processes in a rolling
update is not modelled.

## 3. Runs

| Run | Instance | Shows |
|---|---|---|
| `chaos_target` | 1 run, 1 target, 2 faults | the inductive invariant with the types, a successful cleanup is final, local orphans are reaped |
| `chaos_two_runs` | 2 runs, local cluster, no fault | no live run loses its chaos; each run's chaos keeps ChaosPromise, fairness included |
| `chaos_remote` | 1 run, 1 target, no fault | **violated**: remote orphans are never reaped |
| `records_faulty` | 1 run, 4 places, 2 crashes, 2 failed puts | records never run ahead; the manifests implement RunRecord, so terminal ones stay |
| `records_clean` | 2 runs, 1 place, 1 crash | coalescing is safe, accepted runs are found, every end is recorded though events are dropped again and again |
| `queue_defaults` | 1 POST, 2 PUTs, 2 scenarios, 1 edit, 1 failing PUT, 1 failing call of the POST | no override is lost; a run gets the priority asked for or shown, or its template's if its read failed |
| `queue_order` | 2 POSTs in 2 seconds, 1 reprioritisation, 1 lane, 1 failing call of either | accepted runs are distinct; the page shows the order of release |
| `event_stream` | 1 run, 1 place, 2 answers on their way, 1 crash, failed write or failed request | no gap; stream, page and command tell of no end too early; the command fails only when something did, and ends; the page settles |
| `verdict` | 5 windows, 8 SLOs, 3 numbers, NaN, empty, error; 2 readers | success is earned, scores agree, windows tile and are past, the job ends |
| `schedules` | 3 requests, 1 fault, 1 edit of the template | silence lasts, one create wins, answers are true |
| `access` | 1 person, 1 job, 2 exchanges, 2 keys, 4 instants, any restarts | access is bounded, no exchange raises a role, the poll is well-behaved |
| `access_exchange` | the same | **violated**: a CI job cannot exchange its token |

Bounds. One run already interleaves template, cancel, watchdog, informer,
operator and crash; the second run is there for what one cannot show: a cancel
or a tick of one run touching the other's chaos, and the competition for the
channel. A fault budget of 2 lets a second failure hit the repair of the first;
with two runs the faults are left to the theorem `RefinesPromise`. A channel of one place drops at the
second event, as one of 16 drops at the seventeenth; four places hold the whole
life of a run. The proofs remove these bounds for the safety properties.
Two PUTs are the least that can erase each other's override, and two scenarios
tell an erased override from a replaced one. In `queue_order` the two POSTs can
have the same run id or follow each other by a second, one scenario has no
priority of its own, and the priority 10 wraps to 2 (Half = 4), above the
other's. Requests of a kind are symmetric: no property names one.
A stream's channel of one place drops at the second event, two answers are the
least that can overtake each other, and a handler that is one notice behind shows
the store ahead of the stream; more notices only come of changes, which are few.
The one fault of `event_stream` is a crash, a failed write or read of the manifest
or a failed request: each alone ends the command, and the proofs have any number.
The SLOs
have thresholds with and without raw_promql, neither, and each kind of invalid
one; the numbers lie below, on and above the bound of 1. Three schedule requests
are two that compete and one that undoes. A session of two time units, an id
token of one and four instants let every token expire and be renewed; with two
keys a restart changes the key, keeps it or takes the old one again. Exchanges and
keys are symmetric.

Deadlock is checked in the chaos runs and in `verdict`; the record runs and
`event_stream` end when every Workflow is deleted, the others when their
finitely many requests are answered and the clock is at its bound, and say so
in their cfg.

Fairness. Weak fairness of the loops and of a request being served: the
informer, the refresher and the watchdog run in goroutines that do not block on
each other, and the Deployment restarts the process. Nothing is assumed of the
engine, operators or clients: a run may stay live for ever. Strong fairness of
Resync when the channel has room: a resync walks the store twice a minute in no
fixed order and the Syncer empties the channel in between, so no run meets a
full channel for ever. Fault bounds are finite, so from some point on there are
no more faults; that is what "eventually" is relative to.
In `EventStream` the informer and its handler, the handlers of the stream and of
the POST, the page, the command and the restart are weakly fair. Resync is strongly
fair while the stream has room for what it says and for the notices ahead of it,
for the same reason; clients may lose the stream again and again. In `Verdict` only the
job is fair: it is one process with a timeout on each request.
The queue, schedule and access runs check safety only and assume no fairness.

Every property of a passing run has a mutant in `PROJECT.json`: a definition
next to the one it replaces, marked "Broken variant", which breaks it.

## 4. Findings and limits

Two runs show the code at odds with what the repository says of it:

1. `chaos_remote`, `cp/internal/chaos/router.go:45`: the watchdog lists chaos in
   every cluster but deletes in the framework cluster only, so remote orphans
   stay for ever. The design document promises they do not.
2. `access_exchange`, `cp/internal/api/server.go:88`: `POST /api/oidc/exchange`
   goes through the middleware that asks for a bearer token. The API document
   calls it public, and the GitHub action posts to it without one.

The passing runs rest on assumptions that are constants of the modules. Setting
them the other way gives counterexamples, which show the limits of the code:

- `PromptInformer = FALSE`: a run that the informer does not know yet counts as
  over (`cp/cmd/dlh-controlplane/main.go:85`), and the watchdog takes its chaos.
- `MaxWriteFailures = 1`: the Syncer remembers a status before it is written
  (`syncer.go:76`); after a failed put every event that could repair the record
  is coalesced, and EndIsRecorded fails.
- `PromptHandlers = FALSE`: CreateRun's own write (`handlers.go:183`) is not
  ordered with the Syncer's and can replace a terminal record for good.

Other limits that the models contain without a claim against them:

- A failed read of the defaults (`submit.go:126`) counts as "no override": the run
  is accepted with its template's priority, and nothing corrects it.
  `EffectiveIsApplied` says that this is all a failed read does.
- Priorities beyond 32 bits wrap (`submit.go:121`): `EffectiveIsApplied` is
  stated for those that fit. A run admitted between the check and the patch of a
  reprioritisation (`reprioritize.go:28`) is patched to no effect.
- A Workflow deleted before its end is recorded keeps `dlh run --wait` polling
  for ever (`cp/cmd/dlh/run.go:69`); `WaitEnds` excludes it.
- The page shows an error that was answered once for good, and a stream that was
  refused is not opened again; `PageShowsEnd` excludes both.
- A report.html that cannot be written fails the job after report.json was
  (`report.go:66`): then score and phase disagree. The Syncer reads the score
  once (`syncer.go:94`), so a manifest may stay without one.
- The chaos starts when its step does, beside the load, whatever
  `chaos_start_after` says; and the windows count from the load step's startedAt
  (`mysql-pod-delete.yaml:79-109`). No property relates windows and chaos.
- Errors of a schedule's Create are told apart by their text
  (`cp/internal/api/schedules.go:119`), so a failing call is answered as an invalid
  request, or 404 or 409, whatever is there; `AnswersAreTrue` claims of such an
  answer only that it is no 201. Create does not ask whether the template is a scenario, as Submit does.
  `SchedulesPage.tsx:49` reports success without a look at the answer.
- A resume that lands late wakes a schedule after a pause was confirmed:
  `QuietWhenTold` claims nothing while a create or resume can still land.
- A manifest that could not be written (`handlers.go:183`) or read makes
  `dlh run --wait` fail although the run goes on. `ClientsAreFaithful` says that
  only such a failure, a crash or a failed request does.
- A person's session from the exchange has no groups, so it is a viewer's: only
  repository claims become groups (`exchange.go:62-67`). A provider that cannot
  be reached is answered 401, as a bad token is. Roles are read once, at start.
- `http.PostForm` in `login.go:163` has no deadline of its own, and a tick that
  was waiting can follow the next one in less than an interval;
  `SlowDownIsHonoured` speaks of the time since the last slow_down.

## 5. Proofs

`ChaosLifecycleProofs` proves for every set of runs and targets and any number
of faults:

- `InvariantHolds`: `LifecycleInv`, the inductive invariant. Type correctness
  alone says nothing of late POSTs. `PostOrder` ties a CR to the one POST of its
  run, to the cluster it went to, and to a cleanup that has not succeeded;
  `CacheBehind` says the cache never claims an end that has not happened;
  `WatchdogKnows` says that what the watchdog is about to delete is of an ended
  run, which stays true while the run moves because ends are final.
- `CleanupIsFinalHolds` from it.
- `ReapsOnlyEndedRunsHolds` and `RefinesPromise` assume `PromptInformer`. The
  refinement maps each action to one of ChaosPromise or a stutter.

`RunManifestProofs` proves for every set of runs, channel capacity and number of
crashes and failures:

- `RecordInvHolds`: `RecordInv`. `NothingInvented` bounds everything the process
  holds by what has happened; `WritesLast` ties a write to the status last
  taken; `NothingOlder` says that nothing queued, cached or being written is
  older than a terminal record, write or event before it; `HandlerOrder` places
  the handler's write.
- `TypeCorrect`, with the bound of the channel, and `NeverAheadHolds` need no
  assumption. `SeenIsWrittenHolds` assumes `PromptHandlers` and that no put
  fails; `AnsweredRunIsFoundHolds` only that no put fails.
- `RefinesRecord` assumes `PromptHandlers`: every step is one of `RunRecord` or a
  stutter. Steps of the Workflow are Advance; a put by the handler or the Syncer
  is Write or List, which needs `NothingInvented` for the truth of what is
  written, `NothingOlder` for nothing to follow an end, and its last conjunct,
  that a copy says Done only when the primary object does, for the order of the
  puts. Everything else, crashes and failed puts included, writes nothing.
- `TerminalIsFinalHolds` follows from the refinement, for object and copies.

`PriorityStoreProofs` proves for every set of scenarios and PUTs and any number
of edits and failures:

- `StoreInvHolds`: `StoreInv`. `VersionPinsData` says that a version stands for
  one content, deletion and re-creation included; this is why an Update that
  the API server accepts writes the current entries with one changed.
- `RefinesMap`: `PriorityStore` implements `OverrideMap`. An accepted write is
  an Accept, a write answered with an error a Reject with or without effect, an
  operator's edit an Edit, and the rest stutters.

`RunQueueProofs` proves for every set of requests and scenarios, any clock
bound and any int32 size:

- `QueueInvHolds`: `QueueInv`, which adds to the types that an accepted POST's
  Workflow exists; distinct runs need it, since that Workflow is what refuses a
  second POST of the same second. `TypeCorrect` includes that what is written to
  `spec.priority` fits it.
- `AcceptedRunsAreDistinctHolds` from it.
- `KeepsMapHolds`: the steps of `RunQueue` are steps of `PriorityStore` or leave
  the ConfigMap alone, so the composition inherits `RefinesMap`.
- `LaneIsSorted`: for any list of workflows, those listed twice or naming a lock
  twice included, a lane shows each live holder and waiter once and sorted.
  Sorting by counting makes this a proof about finite sets instead of an
  induction on lists: the places of a strict total order are a bijection
  (`AscendingFacts`), and both stable sorts are such orders (`StableOrderTotal`).
- `QueueShowsReleaseOrderHolds`: the same over the runs of the cache. The
  listing has each of them once (`ListingFacts`), so a lane has as many entries
  as there are waiters, and what it sorts by is what the engine ranks by. It
  needs the scenarios to be finitely many, which they are.
- `EffectiveIsAppliedHolds` assumes that priorities fit an int32. `EffectInv` adds
  that a POST about to read has the present default among those offered to it,
  and that only a failed read gets into `missed`.

`EventStreamProofs` proves for every set of runs, channel capacity and number of
notices, answers and faults:

- `StreamInvHolds`: `StreamInv`, whose `NothingInvented` bounds what cache and
  record say by what has happened, and says that a command which polls has a
  record unless something failed. `NoGap` is inductive with it: the store appends
  to the notices, Notify moves the oldest of them to the channel, Emit from there
  to `sent`, and the last word about the run stays what the store has.
- `NoGapHolds` from it.
- `ClientsAreFaithfulHolds`: `ClientInv` adds that what is on its way, in notices,
  in the stream's channel and in answers to the page, says Done only of runs that
  are over; ends are for good, so it may arrive as late and in whatever order.

`VerdictProofs` proves for all parameters, SLO documents, samples and callers:

- `VerdictInvHolds`: `VerdictInv`, a chain: what the job has passed follows from
  its inputs, results from the checks, report from results, archived report from
  the job's, scores from the archived report.
- `PassIsEarnedHolds`, `ScoresAgreeHolds`, `QueriesArePastHolds` from it;
  `WindowsTileHolds` is arithmetic on `Compute`.
- `VerdictIsBoundedHolds`: `Left` counts what the job still has to do; each of its
  steps lowers it, no other step raises it while the job runs, and it is 0 only
  when the run is over. This is what `VerdictEnds` needs besides fairness.

`SchedulesProofs` proves for any set of requests, faults and edits:

- `SchedulesInvHolds`: `SchedulesInv`. `HistoryInv` says that a request whose client
  waits has seen the present, and that a handler makes no call after one that
  failed; `SilenceInv` that silence about to be told is true.
- `QuietWhenToldHolds`, `OneCreateWinsHolds`, `AnswersAreTrueHolds`; the last two
  strengthen it, by mine[p] <= made and by what a landed answer has seen.

`AccessProofs` proves for any holders, groups, bindings, keys, intervals,
lifetimes and restarts:

- `AccessInvHolds`: `AccessInv`, with `LoginInv` for the ticker and `VouchedInv`,
  which bounds each token, wherever it is kept, by what vouches for its holder:
  its expiry, and its groups.
- `AccessIsBoundedHolds`, `OnePollPastDeadlineHolds`, `SlowDownIsHonouredHolds`
  from it. `ExchangeGivesNoMoreHolds` needs besides that fewer groups never resolve
  to a higher role (`ResolveGrows`).

Only model-checked: the liveness properties (`KeepsPromise` beyond its safety
part, `LocalOrphansReaped`, `EndIsRecorded`, `WaitEnds`, `PageShowsEnd`,
`VerdictEnds` beyond the bound on its steps), since fairness and ENABLED are
beyond the prover. Every other property of a passing run has its theorem.

## 6. Not modelled

See `components` in `PROJECT.json`. Out of reach or without behaviour of its
own: k6 scripts and shell bodies, decoding in the generated API code, the pages
of the web UI that load once, dashboards, packaging, configuration parsing, the
connection probe of a target. Left out of the modelled parts: names, labels and
bodies of CRs; List's filter and sort; parsing of targets.yaml; parameters and
times in a manifest; the run parameters of a submission; slot numbers in a lane;
the routes and their guards (static, and decided on the path of a request, which
the models do not have); the verification of signatures, which is library code; the mode without
authentication; fixture and k6 bodies of a scenario.

## 7. What could follow

- A composition of `ChaosLifecycle` and `RunManifest` over one informer; today
  they share it through `PromptInformer`.
- `EventStream` over `RunManifest` itself instead of over its own, weaker, record,
  and `RunManifest` with the informer's store and handler in two steps.
- The overlap of two processes in a rolling update.
