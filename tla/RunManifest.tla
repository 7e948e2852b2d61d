----------------------------- MODULE RunManifest -----------------------------
(***************************************************************************)
(* The record of a run: the manifest in MinIO that outlives the run's      *)
(* Workflow, and the three parties that keep it.                           *)
(*   - POST /api/runs creates the Workflow and writes "Submitted"          *)
(*     (Handlers.CreateRun);                                               *)
(*   - the Workflow informer broadcasts what it sees to bounded channels   *)
(*     (workflowLister.broadcast);                                         *)
(*   - runs.Syncer takes events from its channel, coalesces them by the    *)
(*     last status it saw of the run, and writes the manifest.             *)
(* A write is two puts, the primary object and its index copies, and GET   *)
(* /api/runs/{id} reads the cache first and the primary object second.     *)
(***************************************************************************)
EXTENDS Naturals, Sequences

CONSTANTS
    Runs,             \* run ids, which are workflow names
    Scheduled,        \* those of runs that a CronWorkflow creates, not the API
    QueueCap,         \* capacity of a subscriber's channel (16 in the code)
    PromptHandlers,   \* TRUE: CreateRun has written its manifest when the run ends
    MaxCrashes,       \* bound on crashes of the controlplane
    MaxWriteFailures  \* bound on puts that MinIO refuses

ASSUME ManifestAssumption ==
    /\ Scheduled \subseteq Runs
    /\ QueueCap \in Nat \ {0}
    /\ PromptHandlers \in BOOLEAN
    /\ MaxCrashes \in Nat
    /\ MaxWriteFailures \in Nat

VARIABLES
    phase,    \* run -> phase of its Workflow in the API server
    deleted,  \* runs whose Workflow is deleted (phase keeps its final value)
    up,       \* the controlplane process is serving
    cache,    \* run -> phase in the informer's store, or "Removed"
    queue,    \* the Syncer's channel
    last,     \* Syncer.last: run -> last status taken from the channel
    writing,  \* the Syncer's Write in progress (at most one)
    create,   \* run -> where its CreateRun handler is
    primary,  \* run -> status in runs/by-id/{run}/manifest.json
    index,    \* run -> status in the copies under runs/index
    crashes,
    failures

argoVars == <<phase, deleted>>
informerVars == <<up, cache>>
syncerVars == <<last, writing>>
store == <<primary, index>>
bounds == <<crashes, failures>>
vars == <<argoVars, informerVars, queue, syncerVars, create, store, bounds>>

\* Succeeded, Failed and Error are told apart by nothing here: "Done".
Status == {"Pending", "Running", "Done"}
Phase == Status \cup {"None"}
Recorded == Phase \cup {"Submitted"}

\* ADDED and MODIFIED are handled alike: "SET".
Event == [type : {"SET", "DELETED"}, run : Runs, status : Status]
Job == [run : Runs, status : Status, put : {"primary", "index"}]

\* "none" until a handler serves the run (none does a Scheduled one); then the
\* puts of its Write; "answered" 202; "lost" in a crash.
HandlerState == {"none", "primary", "index", "answered", "lost"}

TypeOK ==
    /\ phase \in [Runs -> Phase]
    /\ deleted \in SUBSET Runs
    /\ up \in BOOLEAN
    /\ cache \in [Runs -> Phase \cup {"Removed"}]
    /\ queue \in Seq(Event)
    /\ Len(queue) <= QueueCap
    /\ last \in [Runs -> Phase]
    /\ writing \in SUBSET Job
    /\ \A j, k \in writing : j = k
    /\ create \in [Runs -> HandlerState]
    /\ primary \in [Runs -> Recorded]
    /\ index \in [Runs -> Recorded]
    /\ crashes \in 0..MaxCrashes
    /\ failures \in 0..MaxWriteFailures

Init ==
    /\ phase = [r \in Runs |-> "None"]
    /\ deleted = {}
    /\ up = TRUE
    /\ cache = [r \in Runs |-> "None"]
    /\ queue = << >>
    /\ last = [r \in Runs |-> "None"]
    /\ writing = {}
    /\ create = [r \in Runs |-> "none"]
    /\ primary = [r \in Runs |-> "None"]
    /\ index = [r \in Runs |-> "None"]
    /\ crashes = 0
    /\ failures = 0

-----------------------------------------------------------------------------
(* The workflow engine *)

\* A CronWorkflow submits the run.
CronRun(r) ==
    /\ r \in Scheduled
    /\ phase[r] = "None"
    /\ phase' = [phase EXCEPT ![r] = "Pending"]
    /\ UNCHANGED <<deleted, informerVars, queue, syncerVars, create, store, bounds>>

StartRun(r) ==
    /\ phase[r] = "Pending"
    /\ r \notin deleted
    /\ phase' = [phase EXCEPT ![r] = "Running"]
    /\ UNCHANGED <<deleted, informerVars, queue, syncerVars, create, store, bounds>>

\* The run ends, from either live phase (terminated or failed before it starts).
EndRun(r) ==
    /\ phase[r] \in {"Pending", "Running"}
    /\ r \notin deleted
    /\ PromptHandlers => create[r] \notin {"primary", "index"}
    /\ phase' = [phase EXCEPT ![r] = "Done"]
    /\ UNCHANGED <<deleted, informerVars, queue, syncerVars, create, store, bounds>>

\* Collected after its TTL, or deleted by an operator while it lives.
DeleteWorkflow(r) ==
    /\ phase[r] # "None"
    /\ r \notin deleted
    /\ deleted' = deleted \cup {r}
    /\ UNCHANGED <<phase, informerVars, queue, syncerVars, create, store, bounds>>

-----------------------------------------------------------------------------
(* POST /api/runs *)

\* Broken variant: the answer does not wait for the manifest.
CreateRunAnswersFirst(r) ==
    /\ up
    /\ r \notin Scheduled
    /\ phase[r] = "None"
    /\ phase' = [phase EXCEPT ![r] = "Pending"]
    /\ create' = [create EXCEPT ![r] = "answered"]
    /\ UNCHANGED <<deleted, informerVars, queue, syncerVars, store, bounds>>

\* Submitter.Submit has created the Workflow; the manifest is still to write.
CreateRun(r) ==
    /\ up
    /\ r \notin Scheduled
    /\ phase[r] = "None"
    /\ phase' = [phase EXCEPT ![r] = "Pending"]
    /\ create' = [create EXCEPT ![r] = "primary"]
    /\ UNCHANGED <<deleted, informerVars, queue, syncerVars, store, bounds>>

\* ManifestWriter.Write(Submitted), one put at a time.
HandlerPut(r) ==
    /\ create[r] \in {"primary", "index"}
    /\ IF create[r] = "primary"
       THEN /\ primary' = [primary EXCEPT ![r] = "Submitted"]
            /\ create' = [create EXCEPT ![r] = "index"]
            /\ UNCHANGED index
       ELSE /\ index' = [index EXCEPT ![r] = "Submitted"]
            /\ create' = [create EXCEPT ![r] = "answered"]
            /\ UNCHANGED primary
    /\ UNCHANGED <<argoVars, informerVars, queue, syncerVars, bounds>>

\* The first put that fails ends the Write; the handler answers 202 all the same.
HandlerPutFails(r) ==
    /\ create[r] \in {"primary", "index"}
    /\ failures < MaxWriteFailures
    /\ failures' = failures + 1
    /\ create' = [create EXCEPT ![r] = "answered"]
    /\ UNCHANGED <<argoVars, informerVars, queue, syncerVars, store, crashes>>

\* GET /api/runs/{id}: the Workflow if the cache has it, else the manifest;
\* "None" is a 404.
GetRun(r) == IF cache[r] \in Status THEN cache[r] ELSE primary[r]

-----------------------------------------------------------------------------
(* The informer *)

\* A full channel loses the event.
BroadcastUnbounded(e) == queue' = Append(queue, e)  \* broken variant
Broadcast(e) == queue' = IF Len(queue) < QueueCap THEN Append(queue, e) ELSE queue

\* AddFunc or UpdateFunc. A relist may skip phases.
InformerSees(r) ==
    /\ up
    /\ r \notin deleted
    /\ cache[r] # phase[r]
    /\ cache' = [cache EXCEPT ![r] = phase[r]]
    /\ Broadcast([type |-> "SET", run |-> r, status |-> phase[r]])
    /\ UNCHANGED <<argoVars, up, syncerVars, create, store, bounds>>

\* Broken variant: a deletion is taken for the end of the run.
InformerSeesEnd(r) ==
    /\ up
    /\ r \in deleted
    /\ cache[r] # "Removed"
    /\ cache' = [cache EXCEPT ![r] = "Removed"]
    /\ Broadcast([type |-> "DELETED", run |-> r, status |-> "Done"])
    /\ UNCHANGED <<argoVars, up, syncerVars, create, store, bounds>>

\* DeleteFunc with the workflow's final state.
InformerSeesDelete(r) ==
    /\ up
    /\ r \in deleted
    /\ cache[r] # "Removed"
    /\ cache' = [cache EXCEPT ![r] = "Removed"]
    /\ Broadcast([type |-> "DELETED", run |-> r, status |-> phase[r]])
    /\ UNCHANGED <<argoVars, up, syncerVars, create, store, bounds>>

\* The deletion is found by a relist: DeleteFunc gets a tombstone, which is not
\* a *Workflow, and broadcasts nothing.
InformerMissesDelete(r) ==
    /\ up
    /\ r \in deleted
    /\ cache[r] # "Removed"
    /\ cache' = [cache EXCEPT ![r] = "Removed"]
    /\ UNCHANGED <<argoVars, up, queue, syncerVars, create, store, bounds>>

\* Every 30 s UpdateFunc is called again for each Workflow in the store.
ResyncNever(r) == FALSE /\ UNCHANGED vars  \* broken variant: no resync period
Resync(r) ==
    /\ up
    /\ cache[r] \in Status
    /\ Broadcast([type |-> "SET", run |-> r, status |-> cache[r]])
    /\ UNCHANGED <<argoVars, informerVars, syncerVars, create, store, bounds>>

-----------------------------------------------------------------------------
(* Syncer.handle *)

\* Resync noise: nothing new since the last event taken for this run.
Coalesced(e) == last[e.run] = e.status /\ e.type # "DELETED"

\* Broken variant: each Write runs in a goroutine of its own.
SyncerTakeConcurrently ==
    /\ up
    /\ queue # << >>
    /\ LET e == Head(queue) IN
         /\ queue' = Tail(queue)
         /\ last' = [last EXCEPT ![e.run] = e.status]
         /\ writing' = writing \cup
                         {[run |-> e.run, status |-> e.status, put |-> "primary"]}
    /\ UNCHANGED <<argoVars, informerVars, create, store, bounds>>

\* An event is taken, last is set, and the Write begins unless coalesced.
SyncerTake ==
    /\ up
    /\ queue # << >>
    /\ writing = {}
    /\ LET e == Head(queue) IN
         /\ queue' = Tail(queue)
         /\ last' = [last EXCEPT ![e.run] = e.status]
         /\ writing' = IF Coalesced(e) THEN {}
                       ELSE {[run |-> e.run, status |-> e.status, put |-> "primary"]}
    /\ UNCHANGED <<argoVars, informerVars, create, store, bounds>>

\* Broken variant: the copies under runs/index go first.
SyncerPutCopiesFirst ==
    \E j \in writing :
        /\ IF j.put = "primary"
           THEN /\ index' = [index EXCEPT ![j.run] = j.status]
                /\ writing' = (writing \ {j}) \cup {[j EXCEPT !.put = "index"]}
                /\ UNCHANGED primary
           ELSE /\ primary' = [primary EXCEPT ![j.run] = j.status]
                /\ writing' = writing \ {j}
                /\ UNCHANGED index
        /\ UNCHANGED <<argoVars, informerVars, queue, last, create, bounds>>

SyncerPut ==
    \E j \in writing :
        /\ IF j.put = "primary"
           THEN /\ primary' = [primary EXCEPT ![j.run] = j.status]
                /\ writing' = (writing \ {j}) \cup {[j EXCEPT !.put = "index"]}
                /\ UNCHANGED index
           ELSE /\ index' = [index EXCEPT ![j.run] = j.status]
                /\ writing' = writing \ {j}
                /\ UNCHANGED primary
        /\ UNCHANGED <<argoVars, informerVars, queue, last, create, bounds>>

\* A put that fails ends the Write with a log line.
SyncerPutFails ==
    /\ writing # {}
    /\ failures < MaxWriteFailures
    /\ failures' = failures + 1
    /\ writing' = {}
    /\ UNCHANGED <<argoVars, informerVars, queue, last, create, store, crashes>>

-----------------------------------------------------------------------------
(* Crash and restart *)

\* Broken variant: what the Syncer has seen survives the process.
CrashKeepsLast ==
    /\ up
    /\ crashes < MaxCrashes
    /\ crashes' = crashes + 1
    /\ up' = FALSE
    /\ cache' = [r \in Runs |-> "None"]
    /\ queue' = << >>
    /\ writing' = {}
    /\ create' = [r \in Runs |-> IF create[r] \in {"primary", "index"} THEN "lost"
                                 ELSE create[r]]
    /\ UNCHANGED <<argoVars, last, store, failures>>

\* A put under way at the crash has reached MinIO (it is done) or has not.
Crash ==
    /\ up
    /\ crashes < MaxCrashes
    /\ crashes' = crashes + 1
    /\ up' = FALSE
    /\ cache' = [r \in Runs |-> "None"]
    /\ queue' = << >>
    /\ last' = [r \in Runs |-> "None"]
    /\ writing' = {}
    /\ create' = [r \in Runs |-> IF create[r] \in {"primary", "index"} THEN "lost"
                                 ELSE create[r]]
    /\ UNCHANGED <<argoVars, store, failures>>

\* The first list fills the store. Its ADDED events find no subscriber: the
\* Syncer subscribes after NewWorkflowLister has returned.
Restart ==
    /\ ~up
    /\ up' = TRUE
    /\ cache' = [r \in Runs |-> IF r \in deleted THEN "Removed" ELSE phase[r]]
    /\ UNCHANGED <<argoVars, queue, syncerVars, create, store, bounds>>

-----------------------------------------------------------------------------

RunNext(r) ==
    \/ CronRun(r)
    \/ StartRun(r)
    \/ EndRun(r)
    \/ DeleteWorkflow(r)
    \/ CreateRun(r)
    \/ HandlerPut(r)
    \/ HandlerPutFails(r)
    \/ InformerSees(r)
    \/ InformerSeesDelete(r)
    \/ InformerMissesDelete(r)
    \/ Resync(r)

Next ==
    \/ \E r \in Runs : RunNext(r)
    \/ SyncerTake
    \/ SyncerPut
    \/ SyncerPutFails
    \/ Crash
    \/ Restart

\* The informer and the Syncer are loops of the process, and the Deployment
\* restarts it. A resync walks the store in no fixed order twice a minute, and
\* the Syncer empties its channel in between: a run whose resync finds room
\* again and again is not passed over for ever.
Fairness ==
    /\ \A r \in Runs :
         /\ WF_vars(InformerSees(r))
         /\ WF_vars(HandlerPut(r))
         /\ SF_vars(Resync(r) /\ Len(queue) < QueueCap)
    /\ WF_vars(SyncerTake)
    /\ WF_vars(SyncerPut)
    /\ WF_vars(Restart)

SafetySpec == Init /\ [][Next]_vars
Spec == SafetySpec /\ Fairness

-----------------------------------------------------------------------------
(* Properties *)

RankOf == [None |-> 0, Submitted |-> 1, Pending |-> 2, Running |-> 3, Done |-> 4]
Rank(s) == RankOf[s]

\* The record never claims more than has happened to the Workflow, through any
\* lag, loss or reordering of events and puts.
NeverAhead ==
    \A r \in Runs : Rank(primary[r]) <= Rank(phase[r]) /\ Rank(index[r]) <= Rank(phase[r])

\* What the Syncer has taken for terminal it has written, to the primary object
\* and the indexes, and no late write of its own or of the handler undoes it:
\* coalescing later events of the run is then safe.
\* Claimed only where no put fails and handlers are prompt.
SeenIsWritten ==
    \A r \in Runs :
        last[r] = "Done" /\ (\A j \in writing : j.run # r) =>
            primary[r] = "Done" /\ index[r] = "Done"

Record == INSTANCE RunRecord WITH record <- primary, listed <- index

\* What the manifests say of the runs is a record as a reader expects one: three
\* writers, lost and replayed events, failed puts and crashes look like single
\* writes of true things, none after the end, and the indexes show no end that
\* the primary object does not have (a GET of a run listed as over finds it so).
KeepsRecord == Record!Spec

\* A client that was answered 202 finds its run at once, although the informer
\* lags behind: the manifest covers for the cache, and a deleted Workflow is
\* still known by its record. Claimed only where no put fails.
AnsweredRunIsFound == \A r \in Runs : create[r] = "answered" => GetRun(r) # "None"

\* The end of a run is recorded as long as its Workflow is there to be seen,
\* whatever events are dropped and however often the process crashes.
EndIsRecorded ==
    \A r \in Runs :
        (phase[r] = "Done") ~> (primary[r] = "Done" \/ r \in deleted)

-----------------------------------------------------------------------------
(* The inductive invariant behind the safety properties *)

\* Whatever the process holds, and whatever is recorded, has happened.
NothingInvented ==
    /\ \A r \in Runs :
         /\ cache[r] \in Status => Rank(cache[r]) <= Rank(phase[r])
         /\ Rank(last[r]) <= Rank(phase[r])
         /\ create[r] # "none" \/ r \in deleted => phase[r] # "None"
         /\ cache[r] = "Removed" => r \in deleted
    /\ \A i \in DOMAIN queue : Rank(queue[i].status) <= Rank(phase[queue[i].run])
    /\ \A j \in writing : Rank(j.status) <= Rank(phase[j.run])

\* The Syncer writes what it has last seen, primary first.
WritesLast ==
    \A j \in writing :
        /\ j.status = last[j.run]
        /\ PromptHandlers /\ j.put = "index" /\ j.status = "Done"
              => primary[j.run] = "Done"

\* Nothing that is still to be written or replayed is older than a terminal
\* record, write or event of the run.
NothingOlder ==
    /\ \A i, k \in DOMAIN queue :
         (i < k /\ queue[i].run = queue[k].run /\ queue[i].status = "Done")
            => queue[k].status = "Done"
    /\ \A i \in DOMAIN queue :
         queue[i].status = "Done" => cache[queue[i].run] \notin {"Pending", "Running"}
    /\ \A j \in writing : j.status = "Done" =>
         /\ cache[j.run] \notin {"Pending", "Running"}
         /\ \A i \in DOMAIN queue : queue[i].run = j.run => queue[i].status = "Done"
    /\ \A r \in Runs : index[r] = "Done" => primary[r] = "Done"
    /\ \A r \in Runs : primary[r] = "Done" =>
         /\ cache[r] \notin {"Pending", "Running"}
         /\ \A i \in DOMAIN queue : queue[i].run = r => queue[i].status = "Done"
         /\ \A j \in writing : j.run = r => j.status = "Done"

\* A prompt handler writes before the end, and has written what it answered for.
HandlerOrder ==
    \A r \in Runs :
        /\ PromptHandlers /\ create[r] \in {"primary", "index"} => phase[r] # "Done"
        /\ MaxWriteFailures = 0 /\ create[r] \in {"index", "answered"}
              => primary[r] # "None"

\* Together with the properties these are inductive.
RecordInv ==
    /\ TypeOK
    /\ NeverAhead
    /\ NothingInvented
    /\ WritesLast
    /\ PromptHandlers => NothingOlder
    /\ HandlerOrder
    /\ PromptHandlers /\ MaxWriteFailures = 0 => SeenIsWritten

=============================================================================
