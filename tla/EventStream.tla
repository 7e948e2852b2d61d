----------------------------- MODULE EventStream -----------------------------
(***************************************************************************)
(* How the end of a run reaches those who watch it:                        *)
(*   - GET /api/runs/{id}/events: SSEHandler.Handle subscribes to the      *)
(*     informer, sends a snapshot and then the events of its own bounded   *)
(*     channel;                                                            *)
(*   - the page of the run, which takes each event as a hint and reads the *)
(*     run again with GET /api/runs/{id};                                  *)
(*   - dlh run --wait, which polls GET /api/runs/{id}.                     *)
(* One page and one waiting command watch the run Watched; every run's     *)
(* events go through the stream's channel. The record that GET falls back  *)
(* to may be missing, late or behind, but claims nothing that has not been *)
(* so. The informer changes its store first and calls the handler that     *)
(* broadcasts later.                                                       *)
(***************************************************************************)
EXTENDS Naturals, SequencesExt

CONSTANTS
    Runs,       \* run ids, which are workflow names
    Watched,    \* the run they watch
    QueueCap,   \* capacity of a subscriber's channel (16 in the code)
    MaxLoads,   \* bound on the page's GETs that are under way
    MaxNotices, \* bound on the notices ahead of one that a resync adds
    MaxFaults   \* bound on crashes, failed calls and failed requests

ASSUME StreamAssumption ==
    /\ Watched \in Runs
    /\ QueueCap \in Nat \ {0}
    /\ MaxLoads \in Nat \ {0}
    /\ MaxNotices \in Nat \ {0}
    /\ MaxFaults \in Nat

VARIABLES
    phase,    \* run -> phase of its Workflow in the API server
    deleted,  \* runs whose Workflow is deleted (phase keeps its final value)
    up,       \* the controlplane process is serving
    cache,    \* run -> phase in the informer's store, or "Removed"
    notices,  \* what the informer has yet to tell its handler, in order
    record,   \* status in the manifest of Watched, "None" without one
    faults,   \* what has gone wrong: the process, a manifest or a request
    conn,     \* the stream: "closed", "subscribed", "streaming" or, for good, "refused"
    chan,     \* the stream's channel
    sent,     \* status last sent on the stream, or "None"
    lost,     \* an event of Watched was dropped since the stream was opened (history)
    reload,   \* the page's timer is set: it will read the run again
    answers,  \* answers of GETs of the page that are on their way
    page,     \* status the page shows, "None" before the first, or "Broken"
    wait      \* dlh run --wait: "idle", "submitting", "polling", "returned" or "failed"

streamVars == <<conn, chan, sent, lost>>
pageVars == <<reload, answers, page>>
clientVars == <<streamVars, pageVars, wait>>
serverVars == <<phase, deleted, up, cache, notices, record, faults>>
vars == <<serverVars, clientVars>>

\* Clients tell only terminal phases from the others: Submitted, Pending and
\* Running are "Live".
Status == {"Live", "Done"}
Phase == Status \cup {"None"}

\* The type (ADDED, MODIFIED, DELETED) makes no difference to the clients.
Event == [run : Runs, status : Status]

TypeOK ==
    /\ phase \in [Runs -> Phase]
    /\ deleted \in SUBSET Runs
    /\ up \in BOOLEAN
    /\ cache \in [Runs -> Phase \cup {"Removed"}]
    /\ notices \in Seq(Event)
    /\ record \in Phase
    /\ faults \in 0..MaxFaults
    /\ conn \in {"closed", "subscribed", "streaming", "refused"}
    /\ chan \in Seq(Event)
    /\ Len(chan) <= QueueCap
    /\ sent \in Phase
    /\ lost \in BOOLEAN
    /\ reload \in BOOLEAN
    /\ answers \in Seq(Phase)
    /\ Len(answers) <= MaxLoads
    /\ page \in Phase \cup {"Broken"}
    /\ wait \in {"idle", "submitting", "polling", "returned", "failed"}

\* The page loads the run once when it is opened.
Init ==
    /\ phase = [r \in Runs |-> "None"]
    /\ deleted = {}
    /\ up = TRUE
    /\ cache = [r \in Runs |-> "None"]
    /\ notices = << >>
    /\ record = "None"
    /\ faults = 0
    /\ conn = "closed"
    /\ chan = << >>
    /\ sent = "None"
    /\ lost = FALSE
    /\ reload = TRUE
    /\ answers = << >>
    /\ page = "None"
    /\ wait = "idle"

-----------------------------------------------------------------------------
(* The engine, the records and the process *)

\* Something goes wrong.
Fault ==
    /\ faults < MaxFaults
    /\ faults' = faults + 1

\* A CronWorkflow, a POST of somebody else or, for Watched, that of the command
\* creates the Workflow. None has a manifest yet.
StartWorkflow(r) ==
    /\ phase[r] = "None"
    /\ phase' = [phase EXCEPT ![r] = "Live"]
    /\ \/ wait' = wait
       \/ r = Watched /\ up /\ wait' = "submitting"
    /\ UNCHANGED <<deleted, up, cache, notices, record, faults, streamVars, pageVars>>

\* CreateRun writes the manifest, whatever there is by now, and answers. The write
\* is best-effort: when it fails, executed or not, the answer is the same.
Accept ==
    /\ up
    /\ wait = "submitting"
    /\ wait' = "polling"
    /\ \/ record' = "Live" /\ UNCHANGED faults
       \/ record' \in {record, "Live"} /\ Fault
    /\ UNCHANGED <<phase, deleted, up, cache, notices, streamVars, pageVars>>

EndRun(r) ==
    /\ phase[r] = "Live"
    /\ r \notin deleted
    /\ phase' = [phase EXCEPT ![r] = "Done"]
    /\ UNCHANGED <<deleted, up, cache, notices, record, faults, clientVars>>

DeleteWorkflow(r) ==
    /\ phase[r] # "None"
    /\ r \notin deleted
    /\ deleted' = deleted \cup {r}
    /\ UNCHANGED <<phase, up, cache, notices, record, faults, clientVars>>

\* The Syncer writes a status that the run has, or had, at any time or never. Its
\* own writes are in order: none follows one of a terminal status.
SyncerRecords ==
    /\ up
    /\ phase[Watched] # "None"
    /\ record # "Done"
    /\ record' \in {"Live", phase[Watched]}
    /\ UNCHANGED <<phase, deleted, up, cache, notices, faults, clientVars>>

\* The handler has returned and its channel is gone.
Closed ==
    /\ conn' = IF conn = "refused" THEN conn ELSE "closed"
    /\ chan' = << >>
    /\ sent' = "None"
    /\ lost' = FALSE

\* The process takes its streams with it, and the POST it is serving.
Crash ==
    /\ up
    /\ Fault
    /\ up' = FALSE
    /\ cache' = [r \in Runs |-> "None"]
    /\ notices' = << >>
    /\ Closed
    /\ wait' = IF wait = "submitting" THEN "failed" ELSE wait
    /\ UNCHANGED <<phase, deleted, record, pageVars>>

\* The process serves once its store is filled. An ADDED that its handler has not
\* been told of by then is like a Resync that comes at once.
Restart ==
    /\ ~up
    /\ up' = TRUE
    /\ cache' = [r \in Runs |-> IF r \in deleted THEN "Removed" ELSE phase[r]]
    /\ UNCHANGED <<phase, deleted, notices, record, faults, clientVars>>

\* Broken variants: no fallback to the manifest; the manifest first.
GetRunCached == IF cache[Watched] \in Status THEN cache[Watched] ELSE "None"
GetRunRecorded == IF record # "None" THEN record ELSE cache[Watched]

\* GET /api/runs/{id}: the Workflow if the cache has it, else the manifest;
\* "None" is a 404.
GetRun == IF cache[Watched] \in Status THEN cache[Watched] ELSE record

-----------------------------------------------------------------------------
(* The stream: SSEHandler.Handle *)

\* workflowLister.Subscribe.
Subscribe ==
    /\ up
    /\ conn = "closed"
    /\ conn' = "subscribed"
    /\ UNCHANGED <<serverVars, chan, sent, lost, pageVars, wait>>

\* The snapshot, if the cache has the run.
Snapshot ==
    /\ conn = "subscribed"
    /\ conn' = "streaming"
    /\ IF cache[Watched] \in Status
       THEN sent' = cache[Watched] /\ reload' = TRUE
       ELSE UNCHANGED <<sent, reload>>
    /\ UNCHANGED <<serverVars, chan, lost, answers, page, wait>>

\* Broken variant: the snapshot is taken before the subscription.
OpenSnapshotFirst ==
    \/ /\ up
       /\ conn = "closed"
       /\ conn' = "snapshot"
       /\ sent' = IF cache[Watched] \in Status THEN cache[Watched] ELSE "None"
       /\ reload' = TRUE
       /\ UNCHANGED <<serverVars, chan, lost, answers, page, wait>>
    \/ /\ conn = "snapshot"
       /\ conn' = "streaming"
       /\ UNCHANGED <<serverVars, chan, sent, lost, pageVars, wait>>

OpenStream == Subscribe \/ Snapshot

\* The guard of the route finds the token expired, or a proxy finds nobody up: a
\* stream answered with an error is not opened again by a browser.
Refuse ==
    /\ conn = "closed"
    /\ conn' = "refused"
    /\ UNCHANGED <<serverVars, chan, sent, lost, pageVars, wait>>

\* An event leaves the channel; those of other runs are skipped.
Emit ==
    /\ conn = "streaming"
    /\ chan # << >>
    /\ chan' = Tail(chan)
    /\ IF Head(chan).run = Watched
       THEN sent' = Head(chan).status /\ reload' = TRUE
       ELSE UNCHANGED <<sent, reload>>
    /\ UNCHANGED <<serverVars, conn, lost, answers, page, wait>>

\* The client's timeout, its network or a proxy ends the stream; the handler
\* unsubscribes. A browser opens it again.
Disconnect ==
    /\ conn = "streaming"
    /\ Closed
    /\ UNCHANGED <<serverVars, pageVars, wait>>

-----------------------------------------------------------------------------
(* The informer *)

Open == conn \in {"subscribed", "streaming"}

\* Broken variant: an event is never lost.
BroadcastUnbounded(e) ==
    /\ chan' = IF Open THEN Append(chan, e) ELSE chan
    /\ UNCHANGED lost

\* broadcast: a full channel loses the event.
Broadcast(e) ==
    /\ chan' = IF Open /\ Len(chan) < QueueCap THEN Append(chan, e) ELSE chan
    /\ lost' = (lost \/ (Open /\ Len(chan) = QueueCap /\ e.run = Watched))

\* The store changes and the handler is to be told: an add or an update. A relist
\* may skip phases.
InformerSees(r) ==
    /\ up
    /\ r \notin deleted
    /\ cache[r] # phase[r]
    /\ cache' = [cache EXCEPT ![r] = phase[r]]
    /\ notices' = Append(notices, [run |-> r, status |-> phase[r]])
    /\ UNCHANGED <<phase, deleted, up, record, faults, clientVars>>

\* A deletion with the final state or, after a relist, with a tombstone, which
\* is not a *Workflow and of which DeleteFunc makes nothing.
InformerSeesDelete(r) ==
    /\ up
    /\ r \in deleted
    /\ cache[r] # "Removed"
    /\ cache' = [cache EXCEPT ![r] = "Removed"]
    /\ notices' \in {notices, Append(notices, [run |-> r, status |-> phase[r]])}
    /\ UNCHANGED <<phase, deleted, up, record, faults, clientVars>>

\* Every 30 s UpdateFunc is to be called again for each Workflow in the store.
ResyncNever(r) == FALSE /\ UNCHANGED vars  \* broken variant: no resync period
Resync(r) ==
    /\ up
    /\ cache[r] \in Status
    /\ Len(notices) < MaxNotices
    /\ notices' = Append(notices, [run |-> r, status |-> cache[r]])
    /\ UNCHANGED <<phase, deleted, up, cache, record, faults, clientVars>>

\* AddFunc, UpdateFunc or DeleteFunc is called with the oldest notice.
Notify ==
    /\ notices # << >>
    /\ notices' = Tail(notices)
    /\ Broadcast(Head(notices))
    /\ UNCHANGED <<phase, deleted, up, cache, record, faults, conn, sent, pageVars, wait>>

-----------------------------------------------------------------------------
(* The page *)

\* The timer fires and GET /api/runs/{id} is served. Earlier GETs may still be
\* on their way; none is cancelled.
Load ==
    /\ reload
    /\ up
    /\ Len(answers) < MaxLoads
    /\ reload' = FALSE
    /\ answers' = Append(answers, GetRun)
    /\ UNCHANGED <<serverVars, streamVars, page, wait>>

\* Nobody serves it, or it fails: on its way, for an expired token, or because the
\* run is only in a manifest that cannot be read. A failed connection is ignored,
\* an error answer is shown.
LoadFails ==
    /\ reload
    /\ \/ ~up /\ UNCHANGED faults
       \/ Fault
    /\ reload' = FALSE
    /\ page' \in {page, "Broken"}
    /\ UNCHANGED <<phase, deleted, up, cache, notices, record, streamVars, answers, wait>>

\* Answers arrive in any order. An error (404 here) is shown for good.
Arrive(i) ==
    /\ i \in DOMAIN answers
    /\ page' = IF page = "Broken" \/ answers[i] = "None" THEN "Broken" ELSE answers[i]
    /\ answers' = RemoveAt(answers, i)
    /\ UNCHANGED <<serverVars, streamVars, reload, wait>>

-----------------------------------------------------------------------------
(* dlh run --wait *)

\* waitForRun polls once the run is accepted. Any error ends it.
Poll ==
    /\ wait = "polling"
    /\ wait' = IF ~up \/ GetRun = "None" THEN "failed"
               ELSE IF GetRun = "Done" THEN "returned" ELSE wait
    /\ UNCHANGED <<serverVars, streamVars, pageVars>>

\* The POST or a GET of the command fails as a GET of the page does.
RequestFails ==
    /\ wait \in {"submitting", "polling"}
    /\ Fault
    /\ wait' = "failed"
    /\ UNCHANGED <<phase, deleted, up, cache, notices, record, streamVars, pageVars>>

-----------------------------------------------------------------------------

RunNext(r) ==
    \/ StartWorkflow(r)
    \/ EndRun(r)
    \/ DeleteWorkflow(r)
    \/ InformerSees(r)
    \/ InformerSeesDelete(r)
    \/ Resync(r)

Next ==
    \/ \E r \in Runs : RunNext(r)
    \/ Accept
    \/ SyncerRecords
    \/ Notify
    \/ Crash
    \/ Restart
    \/ OpenStream
    \/ Refuse
    \/ Emit
    \/ Disconnect
    \/ Load
    \/ LoadFails
    \/ \E i \in 1..MaxLoads : Arrive(i)
    \/ Poll
    \/ RequestFails

\* The informer, its handler, the handlers of requests, the browser and the command
\* run by themselves, and the Deployment restarts the process. A resync walks the
\* store twice a minute and the stream empties its channel in between, so again and
\* again there is room for what a resync says and all that is ahead of it.
Fairness ==
    /\ WF_vars(InformerSees(Watched) \/ InformerSeesDelete(Watched))
    /\ WF_vars(Notify)
    /\ SF_vars(Resync(Watched) /\ conn = "streaming" /\ Len(chan) + Len(notices) < QueueCap)
    /\ WF_vars(Restart)
    /\ WF_vars(Accept)
    /\ WF_vars(OpenStream)
    /\ WF_vars(Emit)
    /\ WF_vars(Load \/ LoadFails)
    /\ WF_vars(\E i \in 1..MaxLoads : Arrive(i))
    /\ WF_vars(Poll)

Spec == Init /\ [][Next]_vars /\ Fairness

-----------------------------------------------------------------------------
(* Properties *)

\* What queue q says last about Watched is s; it says nothing about it.
LastOf(q, s) ==
    \A i \in DOMAIN q :
       q[i].run = Watched /\ (\A k \in DOMAIN q : k > i => q[k].run # Watched)
          => q[i].status = s
Silent(q) == \A i \in DOMAIN q : q[i].run # Watched

\* Subscribing before the snapshot leaves no gap: as long as no event of the run
\* was dropped, the last word about it (the last the handler is to be told, else
\* the last in the stream's channel, else what was sent) is what the informer's
\* store has. What is said before that may be older than the snapshot.
LastWord(s) ==
    /\ LastOf(notices, s)
    /\ Silent(notices) => LastOf(chan, s)
    /\ Silent(notices) /\ Silent(chan) /\ conn = "streaming" => sent = s

NoGap == Open /\ ~lost /\ cache[Watched] \in Status => LastWord(cache[Watched])

\* What the process and the record say of the run has happened. There need not be a
\* record, but a command whose POST was answered has one unless something failed.
NothingInvented ==
    /\ \A r \in Runs :
         /\ phase[r] = "None" => cache[r] = "None" /\ r \notin deleted
         /\ cache[r] = "Done" => phase[r] = "Done"
         /\ cache[r] = "Removed" => r \in deleted
    /\ record = "Done" => phase[Watched] = "Done"
    /\ record # "None" \/ wait # "idle" => phase[Watched] # "None"
    /\ wait = "polling" /\ record = "None" => faults > 0

\* The inductive invariant. The notices end with what the store has, whether
\* anybody listens or not: that is what a new subscriber starts from.
StreamInv ==
    /\ TypeOK
    /\ NothingInvented
    /\ ~up => faults > 0 /\ ~Open /\ notices = << >>
    /\ ~Open => chan = << >>
    /\ cache[Watched] \in Status => LastOf(notices, cache[Watched])
    /\ NoGap

\* Nobody is told of an end that has not come, by a poll, on the stream or by an
\* answer that was overtaken; and dlh run --wait fails only when something went
\* wrong: the process crashed, the manifest could not be written or read, or a
\* request failed. Lag of the informer, loss of events, the collection of the
\* Workflow and the order of the writers of the record do not make it fail.
ClientsAreFaithful ==
    /\ wait = "returned" \/ sent = "Done" \/ page = "Done" => phase[Watched] = "Done"
    /\ wait = "failed" => faults > 0

\* dlh run --wait does return, or fail, when the run is over and stays readable. A Workflow
\* that is deleted before its end is recorded keeps it polling for ever.
WaitEnds ==
    <>[](phase[Watched] = "Done" /\ (Watched \notin deleted \/ record = "Done"))
        => <>[](wait \notin {"submitting", "polling"})

\* The page of a run that is over settles on the end, although events are
\* dropped, streams break, the process crashes and answers overtake each other;
\* unless an error was shown once, the stream is refused, or the Workflow is deleted.
PageShowsEnd ==
    phase[Watched] = "Done"
        ~> [](page \in {"Done", "Broken"} \/ Watched \in deleted \/ conn = "refused")

=============================================================================
