----------------------------- MODULE Schedules ------------------------------
(***************************************************************************)
(* Schedules: the dlh schedule commands and the handlers of /api/schedules *)
(* over schedules.Manager, which keeps nothing of its own: a schedule is   *)
(* Argo's CronWorkflow.  All requests are for one id.  Each request meets  *)
(* the Kubernetes API on its own.  A client waits 30 s; the handler goes   *)
(* on without it until the server notices.  A call that failed, or that a  *)
(* canceled handler or a dead controlplane left behind, may still land.    *)
(***************************************************************************)
EXTENDS Naturals, FiniteSets

CONSTANTS
    Requests,  \* requests of all clients, each sent at most once
    MaxFaults, \* bound on failing Kubernetes calls, clients giving up, crashes
    MaxEdits   \* bound on the installs and removals of the scenario's template

ASSUME SchedulesAssumption == MaxFaults \in Nat /\ MaxEdits \in Nat

VARIABLES
    template,  \* does the scenario's WorkflowTemplate exist?
    cron,      \* "gone", "active" or "suspended": the CronWorkflow
    made,      \* number of CronWorkflows created so far
    op,        \* request -> what it asks for
    stage,     \* request -> how far it is
    answer,    \* request -> the HTTP status, or what a 200 shows
    mine,      \* request -> which of the CronWorkflows its create made, or 0
    left,      \* requests whose client has gone
    late,      \* requests with a call under way that no handler waits for
    faults,
    edits,
    failed,    \* requests whose call to the Kubernetes API failed (history)
    saw,       \* request -> what was true at some time since it was sent (history)
    disturbed, \* requests during which a create or resume could land (history)
    quiet      \* was a client told that nothing will fire, and nobody asked
               \* for more since? (history)

requestVars == <<op, stage, answer, mine, left, late>>
historyVars == <<failed, saw, disturbed, quiet>>
vars == <<template, cron, made, requestVars, faults, edits, historyVars>>

Ops == {"create", "list", "get", "delete", "pause", "resume"}
Wakes == {"create", "resume"}
Hushes == {"delete", "pause"}

\* "checked": Create has seen the template. "landed": the handler has its answer.
\* "lost": the handler is gone.
Stages == {"idle", "sent", "checked", "landed", "done", "lost"}
Statuses == {"201", "204", "400", "404", "409", "500"}
Answers == Statuses \cup {"none", "active", "suspended", "gone"}
Facts == {"gone", "active", "suspended", "template", "no template"}

InFlight(q) == stage[q] \in {"sent", "checked", "landed"}
Waits(q) == InFlight(q) /\ q \notin left
CanLand(q) == stage[q] \in {"sent", "checked"} \/ q \in late
WakerFlying == \E q \in Requests : op[q] \in Wakes /\ CanLand(q)

Now == {cron, IF template THEN "template" ELSE "no template"}

\* A client hears that the schedule is paused or deleted.
ToldQuiet(q) == op[q] \in Hushes /\ answer[q] = "204"

-----------------------------------------------------------------------------
\* The history after a step in which the requests in heard got their answers.
Observe(heard) ==
    /\ saw' = [q \in Requests |-> IF Waits(q)' THEN saw[q] \cup Now' ELSE {}]
    /\ disturbed' = {q \in Requests : Waits(q)' /\ (q \in disturbed \/ WakerFlying')}
    /\ quiet' = (~WakerFlying' /\ (quiet \/ \E q \in heard : ToldQuiet(q) /\ q \notin disturbed))

Init ==
    /\ template \in BOOLEAN
    /\ cron = "gone"
    /\ made = 0
    /\ op = [q \in Requests |-> "list"]
    /\ stage = [q \in Requests |-> "idle"]
    /\ answer = [q \in Requests |-> "none"]
    /\ mine = [q \in Requests |-> 0]
    /\ left = {}
    /\ late = {}
    /\ faults = 0
    /\ edits = 0
    /\ failed = {}
    /\ saw = [q \in Requests |-> {}]
    /\ disturbed = {}
    /\ quiet = FALSE

Fault == faults < MaxFaults /\ faults' = faults + 1

\* A call takes effect; its handler, if it still waits, makes a of it.
Answer(q, a) ==
    /\ IF q \in late
       THEN UNCHANGED <<stage, answer>>
       ELSE /\ stage' = [stage EXCEPT ![q] = "landed"]
            /\ answer' = [answer EXCEPT ![q] = a]
    /\ late' = late \ {q}
    /\ UNCHANGED <<template, op, left, faults, edits, failed>>

\* A request passes authentication and its wrapper, and its body decodes.
Send(q, o) ==
    /\ stage[q] = "idle"
    /\ op' = [op EXCEPT ![q] = o]
    /\ stage' = [stage EXCEPT ![q] = "sent"]
    /\ UNCHANGED <<template, cron, made, answer, mine, left, late, faults, edits, failed>>
    /\ Observe({})

\* Create rejects a bad name, an empty scenario or cron.
RejectCreate(q) ==
    /\ op[q] = "create" /\ stage[q] = "sent"
    /\ Answer(q, "400")
    /\ UNCHANGED <<cron, made, mine>>
    /\ Observe({})

\* Broken variant: no look at the template.
SkipTemplate(q) ==
    /\ op[q] = "create" /\ stage[q] = "sent"
    /\ stage' = [stage EXCEPT ![q] = "checked"]
    /\ UNCHANGED <<template, op, answer, left, late, faults, edits, failed, cron, made, mine>>
    /\ Observe({})

\* Create looks for the scenario's WorkflowTemplate.
CheckTemplate(q) ==
    /\ op[q] = "create" /\ stage[q] = "sent"
    /\ IF template
       THEN /\ stage' = [stage EXCEPT ![q] = "checked"]
            /\ UNCHANGED <<template, op, answer, left, late, faults, edits, failed>>
       ELSE Answer(q, "404")
    /\ UNCHANGED <<cron, made, mine>>
    /\ Observe({})

\* Broken variant: an existing schedule is replaced.
Upsert(q) ==
    /\ op[q] = "create" /\ (stage[q] = "checked" \/ q \in late)
    /\ cron' = "active"
    /\ made' = IF cron = "gone" THEN made + 1 ELSE made
    /\ mine' = [mine EXCEPT ![q] = IF q \in late THEN @ ELSE made']
    /\ Answer(q, "201")
    /\ Observe({})

\* Create creates the CronWorkflow, unless one of that name exists.
Create(q) ==
    /\ op[q] = "create" /\ (stage[q] = "checked" \/ q \in late)
    /\ IF cron = "gone"
       THEN /\ cron' = "active"
            /\ made' = made + 1
            /\ mine' = [mine EXCEPT ![q] = IF q \in late THEN @ ELSE made']
            /\ Answer(q, "201")
       ELSE Answer(q, "409") /\ UNCHANGED <<cron, made, mine>>
    /\ Observe({})

\* List of an absent schedule leaves it out, Get answers 404.
ListOrGet(q) ==
    /\ op[q] \in {"list", "get"} /\ stage[q] = "sent"
    /\ Answer(q, IF op[q] = "get" /\ cron = "gone" THEN "404" ELSE cron)
    /\ UNCHANGED <<cron, made, mine>>
    /\ Observe({})

\* A schedule that is gone already is deleted as well.
Delete(q) ==
    /\ op[q] = "delete" /\ (stage[q] = "sent" \/ q \in late)
    /\ cron' = "gone"
    /\ Answer(q, "204")
    /\ UNCHANGED <<made, mine>>
    /\ Observe({})

\* Broken variant: the patch turns suspend over.
Toggle(q) ==
    /\ op[q] \in {"pause", "resume"} /\ (stage[q] = "sent" \/ q \in late)
    /\ cron' = CASE cron = "gone" -> "gone" [] cron = "active" -> "suspended"
                 [] cron = "suspended" -> "active"
    /\ Answer(q, IF cron = "gone" THEN "404" ELSE "204")
    /\ UNCHANGED <<made, mine>>
    /\ Observe({})

\* Pause and Resume: a merge patch of spec.suspend.
SetSuspend(q) ==
    /\ op[q] \in {"pause", "resume"} /\ (stage[q] = "sent" \/ q \in late)
    /\ IF cron = "gone"
       THEN Answer(q, "404") /\ UNCHANGED cron
       ELSE /\ Answer(q, "204")
            /\ cron' = IF op[q] = "pause" THEN "suspended" ELSE "active"
    /\ UNCHANGED <<made, mine>>
    /\ Observe({})

\* Broken variant: every error of one schedule is taken for NotFound.
AnyErrorIsNotFound(q) ==
    CASE op[q] = "create" -> {"400", "404", "409"} [] op[q] \in {"list", "delete"} -> {"500"}
      [] OTHER -> {"404"}

\* What the handler makes of an error it does not know: of a create's it looks for
\* "not found" and "already exists" in the text, which may have them for any reason.
Unknown(q) == IF op[q] = "create" THEN {"400", "404", "409"} ELSE {"500"}

\* The request's call under way changes something when it lands.
OnWire(q) ==
    \/ op[q] = "create" /\ stage[q] = "checked"
    \/ op[q] \in Hushes \cup {"resume"} /\ stage[q] = "sent"

\* The call to the Kubernetes API fails for the handler; it may land all the same.
CallFails(q) ==
    /\ stage[q] \in {"sent", "checked"}
    /\ Fault
    /\ stage' = [stage EXCEPT ![q] = "landed"]
    /\ \E a \in Unknown(q) : answer' = [answer EXCEPT ![q] = a]
    /\ late' = IF OnWire(q) THEN late \cup {q} ELSE late
    /\ failed' = failed \cup {q}
    /\ UNCHANGED <<template, cron, made, op, mine, left, edits>>
    /\ Observe({})

\* The answer is written, and reaches the client that is still there.
Reply(q) ==
    /\ stage[q] = "landed"
    /\ stage' = [stage EXCEPT ![q] = "done"]
    /\ UNCHANGED <<template, cron, made, op, answer, mine, left, late, faults, edits, failed>>
    /\ Observe({q} \ left)

\* The client's 30 seconds are over, or its connection breaks. The handler goes on.
GiveUp(q) ==
    /\ Waits(q)
    /\ Fault
    /\ left' = left \cup {q}
    /\ UNCHANGED <<template, cron, made, op, stage, answer, mine, late, edits, failed>>
    /\ Observe({})

\* The handlers of the requests in Q end here.
Abandon(Q) ==
    /\ stage' = [q \in Requests |-> IF q \in Q THEN "lost" ELSE stage[q]]
    /\ late' = late \cup {q \in Q : OnWire(q)}
    /\ UNCHANGED <<template, cron, made, op, answer, mine, left, edits, failed>>
    /\ Observe({})

\* The server notices that the client has gone: the handler's calls fail from now on.
Canceled(q) == q \in left /\ InFlight(q) /\ Abandon({q}) /\ UNCHANGED faults

\* The controlplane dies with all the requests it serves.
Crash == LET Q == {q \in Requests : InFlight(q)} IN Q # {} /\ Fault /\ Abandon(Q)

\* A call under way comes to nothing.
Vanish(q) ==
    /\ q \in late
    /\ late' = late \ {q}
    /\ UNCHANGED <<template, cron, made, op, stage, answer, mine, left, faults, edits, failed>>
    /\ Observe({})

\* helm installs or removes the scenario.
EditTemplate ==
    /\ edits < MaxEdits
    /\ edits' = edits + 1
    /\ template' = ~template
    /\ UNCHANGED <<cron, made, requestVars, faults, failed>>
    /\ Observe({})

Handle(q) ==
    \/ \E o \in Ops : Send(q, o)
    \/ RejectCreate(q)
    \/ CheckTemplate(q)
    \/ Create(q)
    \/ ListOrGet(q)
    \/ Delete(q)
    \/ SetSuspend(q)
    \/ CallFails(q)
    \/ Reply(q)
    \/ GiveUp(q)
    \/ Canceled(q)
    \/ Vanish(q)

Next == (\E q \in Requests : Handle(q)) \/ Crash \/ EditTemplate

Spec == Init /\ [][Next]_vars

-----------------------------------------------------------------------------
TypeOK ==
    /\ template \in BOOLEAN
    /\ cron \in {"gone", "active", "suspended"}
    /\ made \in Nat
    /\ op \in [Requests -> Ops]
    /\ stage \in [Requests -> Stages]
    /\ answer \in [Requests -> Answers]
    /\ mine \in [Requests -> Nat]
    /\ left \subseteq Requests
    /\ late \subseteq Requests
    /\ failed \subseteq Requests
    /\ faults \in 0..MaxFaults
    /\ edits \in 0..MaxEdits
    /\ saw \in [Requests -> SUBSET Facts]
    /\ disturbed \subseteq Requests
    /\ quiet \in BOOLEAN

(* A client that waits has seen what is true now, and whether a create or  *)
(* resume could land meanwhile; a create past its check saw the template;  *)
(* a handler goes on to no other call after one that failed.               *)
HistoryInv ==
    /\ \A q \in Requests : Waits(q) =>
          /\ Now \subseteq saw[q]
          /\ q \notin disturbed => ~WakerFlying
          /\ stage[q] = "checked" => op[q] = "create" /\ "template" \in saw[q]
    /\ \A q \in failed : stage[q] \in {"landed", "done", "lost"}

(* A told silence lasts, and is about to be true when it is about to be    *)
(* told; no create claims a CronWorkflow that was never made.              *)
SilenceInv ==
    /\ quiet => cron # "active" /\ ~WakerFlying
    /\ \A q \in Requests :
          stage[q] = "landed" /\ q \notin left /\ ToldQuiet(q) /\ q \notin disturbed
             => cron # "active"
    /\ \A q \in Requests : mine[q] <= made

(* The inductive invariant of the handlers, the crash and the late calls.  *)
SchedulesInv == TypeOK /\ HistoryInv /\ SilenceInv

(* After a client of dlh schedule pause or delete was told so, and as long *)
(* as no create or resume has been under way since it asked, the schedule  *)
(* cannot fire: no late call, repeated pause or crash wakes it.            *)
QuietWhenTold == quiet => cron # "active"

(* Two creates answered 201 made two different CronWorkflows (the first    *)
(* was deleted in between): competing creates have one winner, although    *)
(* each of them only checks the template first.                            *)
OneCreateWins ==
    \A p, q \in Requests : p # q /\ mine[p] # 0 => mine[p] # mine[q]

Justified(q) ==
    CASE answer[q] = "201" -> {"active", "template"} \subseteq saw[q]
      [] answer[q] = "409" -> saw[q] \cap {"active", "suspended"} # {}
      [] answer[q] = "404" -> (IF op[q] = "create" THEN "no template" ELSE "gone") \in saw[q]
      [] answer[q] = "204" -> (CASE op[q] = "pause" -> "suspended"
                                 [] op[q] = "resume" -> "active"
                                 [] OTHER -> "gone") \in saw[q]
      [] answer[q] \in {"400", "500"} -> TRUE
      [] OTHER -> answer[q] \in saw[q]

(* Whatever a handler answers was true at some time while its client       *)
(* waited, the template, other clients, late calls and failing ones        *)
(* notwithstanding: but for errors of unknown cause (400, 500), and for a  *)
(* create whose own call failed, which may be answered anything but 201.   *)
AnswersAreTrue ==
    \A q \in Requests :
        stage[q] = "landed" /\ q \notin left =>
            IF op[q] = "create" /\ q \in failed THEN answer[q] # "201" ELSE Justified(q)
=============================================================================
