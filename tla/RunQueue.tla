------------------------------ MODULE RunQueue ------------------------------
(***************************************************************************)
(* Which run goes first: POST /api/runs as runs.Submitter resolves its     *)
(* priority and names its Workflow, POST /api/runs/{id}/priority, the      *)
(* engine's semaphore queue, and the view of it that GET /api/queue gives. *)
(* Composes PriorityStore (the defaults that Submit reads) and QueueLanes. *)
(***************************************************************************)
EXTENDS PriorityStore, Sequences, FiniteSets

CONSTANTS
    Posts,     \* POST /api/runs requests
    Bumps,     \* POST /api/runs/{id}/priority requests
    Baked,     \* scenario -> spec.priority of its template, or None
    LaneOf,    \* scenario -> key of the semaphore its template takes
    Slots,     \* what each semaphore admits at a time
    Half,      \* an int32 is one of -Half..(Half - 1), and conversions to it wrap
    MaxTime,   \* bound on the clock, in seconds
    MaxSubmitFaults  \* bound on failing calls of the two kinds of POST

\* What spec.priority, an int32, can be.
Prios == (-Half)..(Half - 1) \cup {None}

\* int32(p)
Int32(p) == ((p + Half) % (2 * Half)) - Half

ASSUME QueueAssumption ==
    /\ Half \in Nat \ {0}
    /\ Baked \in [Scenarios -> Prios]
    /\ Scenarios # {}
    /\ IsFiniteSet(Scenarios)
    /\ DOMAIN LaneOf = Scenarios
    /\ Slots \in Nat \ {0}
    /\ MaxTime \in Nat
    /\ MaxSubmitFaults \in Nat

VARIABLES
    clock,
    submitFaults,
    order,    \* POST -> scenario and priority (or None) it asks for; never changes
    post,     \* POST -> how far it is
    stamp,    \* POST -> second its run id is made of
    due,      \* POST -> effective priority it has resolved
    offered,  \* POST -> defaults in force since it began (history)
    missed,   \* POSTs whose read of the defaults failed (history)
    wf,       \* run id -> its Workflow
    view,     \* run id -> its Workflow in the informer's cache
    bump,     \* request -> how far it is
    target,   \* request -> run it is for, once checked
    wish      \* request -> priority it asks for; never changes

postVars == <<order, post, stamp, due, offered, missed>>
bumpVars == <<bump, target, wish>>
queueVars == <<clock, submitFaults, postVars, wf, view, bumpVars>>
vars == <<storeVars, queueVars>>

Q == INSTANCE QueueLanes WITH NoPriority <- None

\* Run ids are <scenario>-YYYYMMDD-HHMMSS.
RunIds == [scenario : Scenarios, second : 0..MaxTime]

\* "New" has no phase yet, "Waiting" is Pending with its lock in .waiting,
\* "Running" has it in .holding.
WfPhase == {"None", "New", "Waiting", "Running", "Done"}
Pending == {"New", "Waiting"}

Workflows == [phase : WfPhase, priority : Prios, created : 0..MaxTime]
NoWf == [phase |-> "None", priority |-> None, created |-> 0]

QueueTypeOK ==
    /\ clock \in 0..MaxTime
    /\ submitFaults \in 0..MaxSubmitFaults
    /\ order \in [Posts -> [scenario : Scenarios, priority : Values \cup {None}]]
    /\ post \in [Posts -> {"start", "named", "resolved", "accepted", "rejected"}]
    /\ stamp \in [Posts -> 0..MaxTime]
    /\ due \in [Posts -> Prios]
    /\ wf \in [RunIds -> Workflows]
    /\ view \in [RunIds -> Workflows]
    /\ bump \in [Bumps -> {"start", "found", "checked", "accepted", "rejected"}]
    /\ target \in [Bumps -> RunIds]
    /\ wish \in [Bumps -> Values]

TypeOK ==
    /\ StoreTypeOK
    /\ QueueTypeOK
    /\ offered \in [Posts -> SUBSET (Values \cup Prios \cup {0})]
    /\ missed \in SUBSET Posts

Init ==
    /\ StoreInit
    /\ clock = 0
    /\ submitFaults = 0
    /\ order \in [Posts -> [scenario : Scenarios, priority : Values \cup {None}]]
    /\ post = [q \in Posts |-> "start"]
    /\ stamp = [q \in Posts |-> 0]
    /\ due = [q \in Posts |-> None]
    /\ offered = [q \in Posts |-> {}]
    /\ missed = {}
    /\ wf = [r \in RunIds |-> NoWf]
    /\ view = wf
    /\ bump = [b \in Bumps |-> "start"]
    /\ target = [b \in Bumps |-> CHOOSE r \in RunIds : TRUE]
    /\ wish \in [Bumps -> Values]

\* An unset priority counts as 0, for the engine and for the API.
Rank(p) == IF p = None THEN 0 ELSE p

\* GetScenarioPriorities and PutScenarioPriority report override ?? baked.
Effective(s) == IF All[s] # None THEN All[s] ELSE Rank(Baked[s])

RunOf(q) == [scenario |-> order[q].scenario, second |-> stamp[q]]

SubmitFault == submitFaults < MaxSubmitFaults /\ submitFaults' = submitFaults + 1

\* What every POST under way could have been given, and which could not read it.
Observe ==
    /\ offered' = [q \in Posts |->
           IF post'[q] = "named" THEN offered[q] \cup {Effective(order[q].scenario)'}
           ELSE offered[q]]
    /\ missed' = missed \cup
           {q \in Posts : /\ post[q] = "named" /\ post'[q] = "resolved"
                          /\ submitFaults' # submitFaults}

-----------------------------------------------------------------------------
(* POST /api/runs: Submitter.Submit *)

\* There is no such template, it is not a scenario, or it cannot be read.
SubmitRefused(q) ==
    /\ post[q] = "start"
    /\ post' = [post EXCEPT ![q] = "rejected"]
    /\ UNCHANGED <<storeVars, submitFaults, clock, order, stamp, due, wf, view, bumpVars>>

\* The template is a scenario; the run id is made of the current second.
SubmitNamed(q) ==
    /\ post[q] = "start"
    /\ post' = [post EXCEPT ![q] = "named"]
    /\ stamp' = [stamp EXCEPT ![q] = clock]
    /\ UNCHANGED <<storeVars, submitFaults, clock, order, due, wf, view, bumpVars>>

\* Broken variant: the scenario's default wins over the request.
ResolveDefaultFirst(q) ==
    IF All[order[q].scenario] # None THEN Int32(All[order[q].scenario])
    ELSE IF order[q].priority # None THEN Int32(order[q].priority)
    ELSE Baked[order[q].scenario]

\* resolvePriority: request, then scenario default, then template.
ResolvePriority(q) ==
    IF order[q].priority # None THEN Int32(order[q].priority)
    ELSE IF All[order[q].scenario] # None THEN Int32(All[order[q].scenario])
    ELSE Baked[order[q].scenario]

SubmitResolve(q) ==
    /\ post[q] = "named"
    /\ post' = [post EXCEPT ![q] = "resolved"]
    /\ due' = [due EXCEPT ![q] = ResolvePriority(q)]
    /\ UNCHANGED <<storeVars, submitFaults, clock, order, stamp, wf, view, bumpVars>>

\* The read of the defaults fails: as if there were none.
SubmitResolveFails(q) ==
    /\ post[q] = "named"
    /\ order[q].priority = None
    /\ SubmitFault
    /\ post' = [post EXCEPT ![q] = "resolved"]
    /\ due' = [due EXCEPT ![q] = Baked[order[q].scenario]]
    /\ UNCHANGED <<storeVars, clock, order, stamp, wf, view, bumpVars>>

Submitted(q) == [phase |-> "New", priority |-> due[q], created |-> clock]

\* Broken variant: a Workflow that exists is taken for the one just created.
SubmitCreateIdempotent(q) ==
    /\ post[q] = "resolved"
    /\ post' = [post EXCEPT ![q] = "accepted"]
    /\ wf' = [wf EXCEPT ![RunOf(q)] = IF @.phase = "None" THEN Submitted(q) ELSE @]
    /\ UNCHANGED <<storeVars, submitFaults, clock, order, stamp, due, view, bumpVars>>

\* Create the Workflow: 202. AlreadyExists is an error.
SubmitCreate(q) ==
    /\ post[q] = "resolved"
    /\ IF wf[RunOf(q)].phase = "None"
       THEN /\ wf' = [wf EXCEPT ![RunOf(q)] = Submitted(q)]
            /\ post' = [post EXCEPT ![q] = "accepted"]
       ELSE /\ post' = [post EXCEPT ![q] = "rejected"]
            /\ UNCHANGED wf
    /\ UNCHANGED <<storeVars, submitFaults, clock, order, stamp, due, view, bumpVars>>

\* Create is executed or not, and its answer is an error.
SubmitCreateFails(q) ==
    /\ post[q] = "resolved"
    /\ wf[RunOf(q)].phase = "None"
    /\ SubmitFault
    /\ wf' \in {wf, [wf EXCEPT ![RunOf(q)] = Submitted(q)]}
    /\ post' = [post EXCEPT ![q] = "rejected"]
    /\ UNCHANGED <<storeVars, clock, order, stamp, due, view, bumpVars>>

-----------------------------------------------------------------------------
(* POST /api/runs/{id}/priority: Submitter.Reprioritize *)

\* The run is in the informer's cache, or the answer is 404.
BumpFind(b, r) ==
    /\ bump[b] = "start"
    /\ target' = [target EXCEPT ![b] = r]
    /\ bump' = [bump EXCEPT ![b] = IF view[r].phase # "None" THEN "found" ELSE "rejected"]
    /\ UNCHANGED <<storeVars, submitFaults, clock, order, post, stamp, due, wf, view, wish>>

\* The API server has it pending, or the answer is 409.
BumpCheck(b) ==
    /\ bump[b] = "found"
    /\ bump' = [bump EXCEPT ![b] =
                  IF wf[target[b]].phase \in Pending THEN "checked" ELSE "rejected"]
    /\ UNCHANGED <<storeVars, submitFaults, clock, order, post, stamp, due, wf, view, target, wish>>

\* Broken variant: the patch is formatted without the cast to int32.
BumpPatchWide(b) ==
    /\ bump[b] = "checked"
    /\ wf' = [wf EXCEPT ![target[b]].priority = wish[b]]
    /\ bump' = [bump EXCEPT ![b] = "accepted"]
    /\ UNCHANGED <<storeVars, submitFaults, clock, order, post, stamp, due, view, target, wish>>

BumpPatch(b) ==
    /\ bump[b] = "checked"
    /\ wf' = [wf EXCEPT ![target[b]].priority = Int32(wish[b])]
    /\ bump' = [bump EXCEPT ![b] = "accepted"]
    /\ UNCHANGED <<storeVars, submitFaults, clock, order, post, stamp, due, view, target, wish>>

\* The Get fails, or the Patch, which is executed or not.
BumpFails(b) ==
    /\ bump[b] \in {"found", "checked"}
    /\ SubmitFault
    /\ \/ UNCHANGED wf
       \/ bump[b] = "checked" /\ wf' = [wf EXCEPT ![target[b]].priority = Int32(wish[b])]
    /\ bump' = [bump EXCEPT ![b] = "rejected"]
    /\ UNCHANGED <<storeVars, clock, order, post, stamp, due, view, target, wish>>

-----------------------------------------------------------------------------
(* The engine: one semaphore per lane, current priorities, oldest first *)

Lane(k) == {r \in RunIds : LaneOf[r.scenario] = k}
WaitingIn(k) == {r \in Lane(k) : wf[r].phase = "Waiting"}
HoldersOf(k) == {r \in Lane(k) : wf[r].phase = "Running"}

\* The engine's own order: spec.priority, then age.
Outranks(v, w) ==
    \/ Rank(v.priority) > Rank(w.priority)
    \/ Rank(v.priority) = Rank(w.priority) /\ v.created < w.created

First(k) == {r \in WaitingIn(k) : \A s \in WaitingIn(k) : ~Outranks(wf[s], wf[r])}

Enqueue(r) ==
    /\ wf[r].phase = "New"
    /\ wf' = [wf EXCEPT ![r].phase = "Waiting"]
    /\ UNCHANGED <<storeVars, submitFaults, clock, order, post, stamp, due, view, bumpVars>>

Release(r) ==
    LET k == LaneOf[r.scenario] IN
    /\ r \in First(k)
    /\ Cardinality(HoldersOf(k)) < Slots
    /\ wf' = [wf EXCEPT ![r].phase = "Running"]
    /\ UNCHANGED <<storeVars, submitFaults, clock, order, post, stamp, due, view, bumpVars>>

\* The run ends, or is terminated while it waits.
EndRun(r) ==
    /\ wf[r].phase \in {"New", "Waiting", "Running"}
    /\ wf' = [wf EXCEPT ![r].phase = "Done"]
    /\ UNCHANGED <<storeVars, submitFaults, clock, order, post, stamp, due, view, bumpVars>>

InformerSync(r) ==
    /\ view[r] # wf[r]
    /\ view' = [view EXCEPT ![r] = wf[r]]
    /\ UNCHANGED <<storeVars, submitFaults, clock, order, post, stamp, due, wf, bumpVars>>

Tick ==
    /\ clock < MaxTime
    /\ clock' = clock + 1
    /\ UNCHANGED <<storeVars, submitFaults, order, post, stamp, due, wf, view, bumpVars>>

StoreStep ==
    /\ StoreNext
    /\ UNCHANGED <<submitFaults, clock, order, post, stamp, due, wf, view, bumpVars>>

-----------------------------------------------------------------------------

PostNext(q) ==
    \/ SubmitRefused(q)
    \/ SubmitNamed(q)
    \/ SubmitResolve(q)
    \/ SubmitResolveFails(q)
    \/ SubmitCreate(q)
    \/ SubmitCreateFails(q)

BumpNext(b) ==
    \/ \E r \in RunIds : BumpFind(b, r)
    \/ BumpCheck(b)
    \/ BumpPatch(b)
    \/ BumpFails(b)

RunNext(r) == Enqueue(r) \/ Release(r) \/ EndRun(r) \/ InformerSync(r)

Step ==
    \/ StoreStep
    \/ Tick
    \/ \E q \in Posts : PostNext(q)
    \/ \E b \in Bumps : BumpNext(b)
    \/ \E r \in RunIds : RunNext(r)

Next == Step /\ Observe

Spec == Init /\ [][Next]_vars

-----------------------------------------------------------------------------
(* GET /api/queue *)

\* The workflows of the cache as BuildLanes gets them; the engine keeps
\* .waiting and .holding in step with the phase, and may leave a finished run's
\* status as it was.
Listed(r) ==
    LET lock == <<[map |-> "dlh-scenario-locks", key |-> LaneOf[r.scenario]]>> IN
    [id |-> r, phase |-> view[r].phase, priority |-> view[r].priority,
     created |-> view[r].created,
     holding |-> IF view[r].phase \in {"Running", "Done"} THEN lock ELSE <<>>,
     waiting |-> IF view[r].phase = "Waiting" THEN lock ELSE <<>>]

\* WorkflowLister.List: newest first, ties in any order.
Listings ==
    LET runs == {r \in RunIds : view[r].phase # "None"}
        n == Cardinality(runs)
    IN  {l \in [1..n -> {Listed(r) : r \in runs}] :
            /\ {l[i].id : i \in 1..n} = runs
            /\ \A i, j \in 1..n : i < j => l[i].created >= l[j].created}

-----------------------------------------------------------------------------
(* Properties *)

\* A run gets the priority its POST asks for or, if it asks for none, one that
\* GET /api/scenario-priorities showed as effective while the POST was served,
\* whatever PUTs, edits and deletions of the ConfigMap overlap it. Only a POST
\* whose own read of the defaults fails is left with its template's.
\* Claimed for priorities that fit an int32.
EffectiveIsApplied ==
    \A q \in Posts : post[q] \in {"resolved", "accepted"} =>
        Rank(due[q]) \in
            IF order[q].priority # None THEN {order[q].priority}
            ELSE IF q \in missed THEN {Rank(Baked[order[q].scenario])}
            ELSE offered[q]

\* Every POST answered 202 has a run of its own, although run ids are only as
\* fine as a second.
AcceptedRunsAreDistinct ==
    \A p, q \in Posts :
        post[p] = "accepted" /\ post[q] = "accepted" /\ RunOf(p) = RunOf(q) => p = q

\* The inductive invariant: an accepted POST has its Workflow, and so its run id is
\* taken for good.
QueueInv ==
    /\ StoreInv
    /\ TypeOK
    /\ \A q \in Posts : post[q] = "accepted" => wf[RunOf(q)].phase # "None"
    /\ AcceptedRunsAreDistinct

\* A queue page that is up to date shows in each lane the runs that hold its lock
\* and those that wait, each once, the latter in an order in which the engine
\* releases them, after reprioritisations too: none outranks one before it.
QueueShowsReleaseOrder ==
    view = wf =>
        \A l \in Listings, k \in {LaneOf[s] : s \in Scenarios} :
            LET lane == Q!BuildLanes(l, <<k>>)[1] IN
            /\ {lane.running[i].id : i \in DOMAIN lane.running} = HoldersOf(k)
            /\ {lane.pending[i].id : i \in DOMAIN lane.pending} = WaitingIn(k)
            /\ Len(lane.pending) = Cardinality(WaitingIn(k))
            /\ \A i, j \in DOMAIN lane.pending : i < j =>
                   ~Outranks(wf[lane.pending[j].id], wf[lane.pending[i].id])

=============================================================================
