-------------------------- MODULE SchedulesProofs ---------------------------
(***************************************************************************)
(* Proofs about Schedules, for any number of requests, failing calls,      *)
(* crashes and edits of the template.                                      *)
(***************************************************************************)
EXTENDS Schedules, TLAPS

\* What the history records of a step: HistoryInv but for the creates past their check.
LEMMA ObserveRecords ==
    ASSUME NEW heard, Observe(heard), NEW q \in Requests, Waits(q)'
    PROVE  /\ Now' \subseteq saw'[q]
           /\ saw[q] \subseteq saw'[q]
           /\ q \notin disturbed' => ~WakerFlying'
  <1>1. saw'[q] = saw[q] \cup Now'
    BY DEF Observe
  <1>2. q \notin disturbed' => ~WakerFlying'
    BY DEF Observe
  <1> QED BY <1>1, <1>2

LEMMA ObserveType ==
    ASSUME NEW heard, Observe(heard), TypeOK, cron' \in {"gone", "active", "suspended"}
    PROVE  /\ saw' \in [Requests -> SUBSET Facts]
           /\ disturbed' \subseteq Requests
           /\ quiet' \in BOOLEAN
  <1>1. Now' \subseteq Facts
    BY DEF Now, Facts
  <1>2. saw' \in [Requests -> SUBSET Facts]
    BY <1>1 DEF Observe, TypeOK, Facts
  <1>3. disturbed' \subseteq Requests
    BY DEF Observe
  <1>4. quiet' \in BOOLEAN
    BY DEF Observe
  <1> QED BY <1>2, <1>3, <1>4

\* Every step records what it does.
LEMMA NextObserves == Next => \E heard \in SUBSET Requests : Observe(heard)
  <1> SUFFICES ASSUME Next PROVE \E heard \in SUBSET Requests : Observe(heard)
    OBVIOUS
  <1>1. CASE \E q \in Requests : Reply(q)
    BY <1>1 DEF Reply
  <1>2. CASE \E q \in Requests : Handle(q) /\ ~Reply(q)
    BY <1>2 DEF Handle, Send, RejectCreate, CheckTemplate, Create, ListOrGet, Delete,
                SetSuspend, CallFails, GiveUp, Canceled, Abandon, Vanish
  <1>3. CASE Crash
    BY <1>3 DEF Crash, Abandon
  <1>4. CASE EditTemplate
    BY <1>4 DEF EditTemplate
  <1> QED BY <1>1, <1>2, <1>3, <1>4 DEF Next

LEMMA UnknownIsStatus ==
    \A q \in Requests : \A a \in Unknown(q) :
        /\ op[q] = "create" => a \in {"400", "404", "409"}
        /\ op[q] # "create" => a = "500"
  BY DEF Unknown

\* TypeOK without the history.
StateOK ==
    /\ template \in BOOLEAN
    /\ cron \in {"gone", "active", "suspended"}
    /\ made \in Nat
    /\ op \in [Requests -> Ops]
    /\ stage \in [Requests -> Stages]
    /\ answer \in [Requests -> Answers]
    /\ mine \in [Requests -> Nat]
    /\ left \subseteq Requests
    /\ late \subseteq Requests
    /\ failed \subseteq Requests
    /\ faults \in 0..MaxFaults
    /\ edits \in 0..MaxEdits

LEMMA AnswerType ==
    ASSUME StateOK, NEW q \in Requests, NEW a \in Answers, Answer(q, a)
    PROVE  /\ template' = template /\ op' = op /\ faults' = faults /\ edits' = edits
           /\ left' = left /\ failed' = failed /\ late' \subseteq Requests
           /\ stage' \in [Requests -> Stages]
           /\ answer' \in [Requests -> Answers]
  BY DEF Answer, StateOK, Stages, Answers

LEMMA CountStep == SchedulesAssumption /\ faults \in 0..MaxFaults /\ Fault => faults' \in 0..MaxFaults
  BY DEF Fault, SchedulesAssumption

LEMMA StateStep == StateOK /\ Next => StateOK'
  <1> SUFFICES ASSUME StateOK, Next PROVE StateOK'
    OBVIOUS
  <1>1. ASSUME NEW q \in Requests, NEW o \in Ops, Send(q, o) PROVE StateOK'
    BY <1>1 DEF Send, StateOK, Stages
  <1>2. ASSUME NEW q \in Requests, RejectCreate(q) PROVE StateOK'
    <2>1. "400" \in Answers
      BY DEF Answers, Statuses
    <2> QED BY <1>2, <2>1, AnswerType DEF RejectCreate, StateOK
  <1>3. ASSUME NEW q \in Requests, CheckTemplate(q) PROVE StateOK'
    <2>1. "404" \in Answers
      BY DEF Answers, Statuses
    <2>2. CASE template
      BY <1>3, <2>2 DEF CheckTemplate, StateOK, Stages
    <2>3. CASE ~template
      BY <1>3, <2>1, <2>3, AnswerType DEF CheckTemplate, StateOK
    <2> QED BY <2>2, <2>3
  <1>4. ASSUME NEW q \in Requests, Create(q) PROVE StateOK'
    <2>1. "201" \in Answers /\ "409" \in Answers
      BY DEF Answers, Statuses
    <2>2. CASE cron = "gone"
      <3>1. Answer(q, "201")
        BY <1>4, <2>2 DEF Create
      <3>2. cron' = "active" /\ made' \in Nat /\ mine' \in [Requests -> Nat]
        BY <1>4, <2>2 DEF Create, StateOK
      <3> QED BY <3>1, <3>2, <2>1, AnswerType DEF StateOK
    <2>3. CASE cron # "gone"
      BY <1>4, <2>1, <2>3, AnswerType DEF Create, StateOK
    <2> QED BY <2>2, <2>3
  <1>5. ASSUME NEW q \in Requests, ListOrGet(q) PROVE StateOK'
    <2> DEFINE a == IF op[q] = "get" /\ cron = "gone" THEN "404" ELSE cron
    <2>1. a \in Answers
      BY DEF StateOK, Answers, Statuses
    <2>2. Answer(q, a) /\ UNCHANGED <<cron, made, mine>>
      BY <1>5 DEF ListOrGet
    <2> HIDE DEF a
    <2> QED BY <2>1, <2>2, AnswerType DEF StateOK
  <1>6. ASSUME NEW q \in Requests, Delete(q) PROVE StateOK'
    <2>1. "204" \in Answers
      BY DEF Answers, Statuses
    <2> QED BY <1>6, <2>1, AnswerType DEF Delete, StateOK
  <1>7. ASSUME NEW q \in Requests, SetSuspend(q) PROVE StateOK'
    <2>1. "204" \in Answers /\ "404" \in Answers
      BY DEF Answers, Statuses
    <2> QED BY <1>7, <2>1, AnswerType DEF SetSuspend, StateOK
  <1>8. ASSUME NEW q \in Requests, CallFails(q) PROVE StateOK'
    <2>1. Unknown(q) \subseteq Answers
      BY DEF Unknown, Answers, Statuses
    <2>2. answer' \in [Requests -> Answers]
      BY <1>8, <2>1 DEF CallFails, StateOK
    <2>3. faults' \in 0..MaxFaults
      BY <1>8, CountStep, SchedulesAssumption DEF CallFails, StateOK
    <2>4. stage' \in [Requests -> Stages] /\ mine' \in [Requests -> Nat]
      BY <1>8 DEF CallFails, StateOK, Stages
    <2> QED BY <1>8, <2>2, <2>3, <2>4 DEF CallFails, StateOK
  <1>9. ASSUME NEW q \in Requests, Reply(q) PROVE StateOK'
    BY <1>9 DEF Reply, StateOK, Stages
  <1>10. ASSUME NEW Q \in SUBSET Requests, Abandon(Q), faults' \in 0..MaxFaults PROVE StateOK'
    <2>1. stage' \in [Requests -> Stages]
      BY <1>10 DEF Abandon, StateOK, Stages
    <2>2. late' \subseteq Requests
      BY <1>10 DEF Abandon, StateOK
    <2> QED BY <1>10, <2>1, <2>2 DEF Abandon, StateOK
  <1>13. ASSUME NEW q \in Requests, GiveUp(q) PROVE StateOK'
    <2>1. faults' \in 0..MaxFaults
      BY <1>13, CountStep, SchedulesAssumption DEF GiveUp, StateOK
    <2> QED BY <1>13, <2>1 DEF GiveUp, StateOK
  <1>14. ASSUME NEW q \in Requests, Canceled(q) PROVE StateOK'
    <2>1. faults' \in 0..MaxFaults
      BY <1>14 DEF Canceled, StateOK
    <2> QED BY <1>10, <1>14, <2>1 DEF Canceled
  <1>15. ASSUME Crash PROVE StateOK'
    <2>1. faults' \in 0..MaxFaults
      BY <1>15, CountStep, SchedulesAssumption DEF Crash, StateOK
    <2> QED BY <1>10, <1>15, <2>1 DEF Crash
  <1>11. ASSUME NEW q \in Requests, Vanish(q) PROVE StateOK'
    BY <1>11 DEF Vanish, StateOK, Stages
  <1>12. ASSUME EditTemplate PROVE StateOK'
    BY <1>12, SchedulesAssumption DEF EditTemplate, StateOK, requestVars, SchedulesAssumption
  <1> QED BY <1>1, <1>2, <1>3, <1>4, <1>5, <1>6, <1>7, <1>8, <1>9, <1>10, <1>11, <1>12,
          <1>13, <1>14, <1>15 DEF Next, Handle

LEMMA TypeStep == TypeOK /\ Next => TypeOK'
  <1> SUFFICES ASSUME TypeOK, Next PROVE TypeOK'
    OBVIOUS
  <1>1. StateOK'
    BY StateStep DEF TypeOK, StateOK
  <1>2. PICK heard \in SUBSET Requests : Observe(heard)
    BY NextObserves
  <1>3. /\ saw' \in [Requests -> SUBSET Facts]
        /\ disturbed' \subseteq Requests
        /\ quiet' \in BOOLEAN
    BY <1>1, <1>2, ObserveType DEF StateOK
  <1> QED BY <1>1, <1>3 DEF TypeOK, StateOK

\* A client that has gone does not come back, and a call that failed stays so.
LEMMA LeftStays == Next => left \subseteq left' /\ failed \subseteq failed'
  BY DEF Next, Handle, Send, RejectCreate, CheckTemplate, Answer, Create, ListOrGet, Delete,
     SetSuspend, CallFails, Reply, GiveUp, Canceled, Crash, Abandon, Vanish, EditTemplate,
     requestVars

\* The handler of one request leaves the others alone.
LEMMA OthersStay ==
    ASSUME TypeOK, NEW q \in Requests, NEW r \in Requests, r # q, Handle(r)
    PROVE  stage'[q] = stage[q] /\ op'[q] = op[q] /\ answer'[q] = answer[q]
  <1> USE DEF TypeOK
  <1>1. CASE (\E o \in Ops : Send(r, o)) \/ CallFails(r) \/ Reply(r) \/ GiveUp(r) \/ Vanish(r)
    BY <1>1 DEF Send, CallFails, Reply, GiveUp, Vanish
  <1>3. CASE RejectCreate(r) \/ CheckTemplate(r)
    BY <1>3 DEF RejectCreate, CheckTemplate, Answer
  <1>4. CASE Create(r) \/ ListOrGet(r)
    BY <1>4 DEF Create, ListOrGet, Answer
  <1>5. CASE Delete(r) \/ SetSuspend(r)
    BY <1>5 DEF Delete, SetSuspend, Answer
  <1>6. CASE Canceled(r)
    BY <1>6 DEF Canceled, Abandon
  <1> QED BY <1>1, <1>3, <1>4, <1>5, <1>6 DEF Handle

\* What a request asks for does not change.
LEMMA OpStays ==
    ASSUME TypeOK, Next, NEW q \in Requests, stage[q] # "idle"
    PROVE  op'[q] = op[q]
  <1>1. CASE Handle(q)
    BY <1>1 DEF Handle, Send, RejectCreate, CheckTemplate, Answer, Create, ListOrGet,
       Delete, SetSuspend, CallFails, Reply, GiveUp, Canceled, Abandon, Vanish
  <1>2. ASSUME NEW r \in Requests, r # q, Handle(r) PROVE op'[q] = op[q]
    BY <1>2, OthersStay
  <1>3. CASE Crash \/ EditTemplate
    BY <1>3 DEF Crash, Abandon, EditTemplate, requestVars
  <1> QED BY <1>1, <1>2, <1>3 DEF Next

\* A create past its check was there before the step, or this step checked it.
LEMMA CheckedStep ==
    ASSUME TypeOK, HistoryInv, Next, NEW q \in Requests, Waits(q)', stage'[q] = "checked"
    PROVE  op'[q] = "create" /\ "template" \in saw'[q]
  <1>1. q \notin left
    BY LeftStays DEF Waits
  <1>2. PICK heard \in SUBSET Requests : Observe(heard)
    BY NextObserves
  <1>3. Now' \subseteq saw'[q] /\ saw[q] \subseteq saw'[q]
    BY <1>2, ObserveRecords
  <1>4. CASE stage[q] = "checked"
    <2>1. op[q] = "create" /\ "template" \in saw[q]
      BY <1>1, <1>4 DEF HistoryInv, Waits, InFlight
    <2>2. op'[q] = op[q]
      BY <1>4, OpStays
    <2> QED BY <1>3, <2>1, <2>2
  <1>5. CASE stage[q] # "checked"
    <2>1. op'[q] = "create" /\ template' = TRUE
      <3>1. CASE CheckTemplate(q)
        BY <1>5, <3>1 DEF TypeOK, CheckTemplate, Answer
      <3>2. CASE Handle(q) /\ ~CheckTemplate(q)
        BY <1>5, <3>2 DEF TypeOK, Handle, Send, RejectCreate, Answer, Create, ListOrGet,
           Delete, SetSuspend, CallFails, Reply, GiveUp, Canceled, Abandon, Vanish
      <3>3. ASSUME NEW r \in Requests, r # q, Handle(r) PROVE FALSE
        BY <1>5, <3>3, OthersStay
      <3>4. CASE Crash \/ EditTemplate
        BY <1>5, <3>4 DEF TypeOK, Crash, Abandon, EditTemplate, requestVars
      <3> QED BY <3>1, <3>2, <3>3, <3>4 DEF Next
    <2> QED BY <1>3, <2>1 DEF Now
  <1> QED BY <1>4, <1>5

\* A request whose call failed has its answer, or never gets one.
LEMMA FailedStep ==
    ASSUME TypeOK, HistoryInv, Next
    PROVE  \A q \in failed' : stage'[q] \in {"landed", "done", "lost"}
  <1> USE DEF TypeOK
  <1>1. \A q \in failed : q \in Requests /\ stage[q] \in {"landed", "done", "lost"}
    BY DEF HistoryInv
  <1>2. ASSUME NEW r \in Requests, CallFails(r)
        PROVE  \A q \in failed' : stage'[q] \in {"landed", "done", "lost"}
    BY <1>1, <1>2 DEF CallFails
  <1>3. ASSUME NEW r \in Requests, Handle(r), ~CallFails(r)
        PROVE  \A q \in failed' : stage'[q] \in {"landed", "done", "lost"}
    BY <1>1, <1>3 DEF Handle, Send, RejectCreate, CheckTemplate, Answer, Create, ListOrGet,
       Delete, SetSuspend, Reply, GiveUp, Canceled, Abandon, Vanish, InFlight
  <1>4. ASSUME Crash \/ EditTemplate
        PROVE  \A q \in failed' : stage'[q] \in {"landed", "done", "lost"}
    BY <1>1, <1>4 DEF Crash, Abandon, EditTemplate, requestVars
  <1> QED BY <1>2, <1>3, <1>4 DEF Next

LEMMA HistoryStep == TypeOK /\ HistoryInv /\ Next => HistoryInv'
  <1> SUFFICES ASSUME TypeOK, HistoryInv, Next PROVE HistoryInv'
    OBVIOUS
  <1>1. PICK heard \in SUBSET Requests : Observe(heard)
    BY NextObserves
  <1>2. ASSUME NEW q \in Requests, Waits(q)'
        PROVE  /\ Now' \subseteq saw'[q]
               /\ q \notin disturbed' => ~WakerFlying'
               /\ stage'[q] = "checked" => op'[q] = "create" /\ "template" \in saw'[q]
    BY <1>1, <1>2, ObserveRecords, CheckedStep
  <1>3. \A q \in failed' : stage'[q] \in {"landed", "done", "lost"}
    BY FailedStep
  <1> QED BY <1>2, <1>3 DEF HistoryInv

-----------------------------------------------------------------------------
\* Only a create or resume that could land wakes a schedule.
LEMMA OnlyWakersWake ==
    ASSUME TypeOK, Next, cron' = "active"
    PROVE  cron = "active" \/ WakerFlying
  <1>1. ASSUME NEW q \in Requests, Create(q) \/ SetSuspend(q)
        PROVE  cron = "active" \/ WakerFlying
    BY <1>1 DEF Create, SetSuspend, WakerFlying, CanLand, Wakes
  <1>2. ASSUME NEW q \in Requests, Handle(q), ~Create(q), ~SetSuspend(q)
        PROVE  cron = "active"
    BY <1>2 DEF Handle, Send, RejectCreate, CheckTemplate, ListOrGet, Delete, CallFails, Reply,
       GiveUp, Canceled, Abandon, Vanish
  <1>3. ASSUME Crash \/ EditTemplate PROVE cron = "active"
    BY <1>3 DEF Crash, Abandon, EditTemplate
  <1> QED BY <1>1, <1>2, <1>3 DEF Next

\* A request that is landed after a step was in flight before it, with what it asked for.
LEMMA LandedWasInFlight ==
    ASSUME TypeOK, Next, NEW q \in Requests, stage'[q] = "landed"
    PROVE  InFlight(q) /\ op'[q] = op[q]
  <1>1. CASE Handle(q)
    BY <1>1 DEF TypeOK, Handle, Send, RejectCreate, CheckTemplate, Answer, Create, ListOrGet,
       Delete, SetSuspend, CallFails, Reply, GiveUp, Canceled, Abandon, Vanish, InFlight
  <1>2. ASSUME NEW r \in Requests, r # q, Handle(r) PROVE InFlight(q) /\ op'[q] = op[q]
    BY <1>2, OthersStay DEF InFlight
  <1>3. CASE Crash \/ EditTemplate
    BY <1>3 DEF TypeOK, Crash, Abandon, EditTemplate, requestVars, InFlight
  <1> QED BY <1>1, <1>2, <1>3 DEF Next

\* Undisturbed after a step is undisturbed before it.
LEMMA DisturbedGrows ==
    ASSUME Next, NEW q \in Requests, Waits(q)', q \notin disturbed'
    PROVE  q \notin disturbed
  <1>1. PICK heard \in SUBSET Requests : Observe(heard)
    BY NextObserves
  <1> QED BY <1>1 DEF Observe

\* The step that gives a pause or delete its 204 has silenced the schedule.
LEMMA LandingSilences ==
    ASSUME TypeOK, Next, NEW q \in Requests,
           stage'[q] = "landed", ToldQuiet(q)', ~(stage[q] = "landed" /\ ToldQuiet(q))
    PROVE  cron' # "active"
  <1>1. op'[q] = op[q] /\ op[q] \in Hushes /\ answer'[q] = "204"
    BY LandedWasInFlight DEF ToldQuiet
  <1>2. stage[q] = "landed" => answer[q] # "204"
    BY <1>1 DEF ToldQuiet
  <1>3. CASE \E r \in Requests : Delete(r) /\ r = q
    BY <1>3 DEF Delete
  <1>4. CASE \E r \in Requests : SetSuspend(r) /\ r = q
    BY <1>1, <1>4 DEF SetSuspend, Hushes
  <1>5. ASSUME NEW r \in Requests, r = q, ~Delete(r), ~SetSuspend(r), Handle(r) PROVE FALSE
    BY <1>1, <1>2, <1>5, UnknownIsStatus DEF TypeOK, Handle, Send, RejectCreate,
       CheckTemplate, Create, ListOrGet, CallFails, Reply, GiveUp, Canceled, Abandon, Vanish, Answer,
       Hushes
  <1>6. ASSUME NEW r \in Requests, r # q, Handle(r) PROVE FALSE
    BY <1>1, <1>2, <1>6 DEF TypeOK, Handle, Send, RejectCreate, CheckTemplate, Create,
       ListOrGet, Delete, SetSuspend, CallFails, Reply, GiveUp, Canceled, Abandon, Vanish, Answer
  <1>7. ASSUME Crash \/ EditTemplate PROVE FALSE
    BY <1>1, <1>2, <1>7 DEF TypeOK, Crash, Abandon, EditTemplate, requestVars
  <1> QED BY <1>3, <1>4, <1>5, <1>6, <1>7 DEF Next

LEMMA SilenceStep ==
    ASSUME TypeOK, HistoryInv, SilenceInv, Next
    PROVE  SilenceInv'
  <1>1. ASSUME quiet' PROVE cron' # "active" /\ ~WakerFlying'
    <2>1. CASE \E q \in Requests : Reply(q)
      <3>1. PICK q \in Requests : Reply(q)
        BY <2>1
      <3>2. cron' = cron /\ ~WakerFlying'
        BY <1>1, <3>1 DEF Reply, Observe
      <3>3. quiet \/ (ToldQuiet(q) /\ q \notin disturbed /\ q \notin left)
        BY <1>1, <3>1 DEF Reply, Observe
      <3> QED BY <3>1, <3>2, <3>3 DEF SilenceInv, Reply
    <2>2. CASE ~(\E q \in Requests : Reply(q))
      <3>1. quiet /\ ~WakerFlying'
        BY <1>1, <2>2 DEF Next, Handle, Send, RejectCreate, CheckTemplate, Create,
           ListOrGet, Delete, SetSuspend, CallFails, GiveUp, Canceled, Crash, Abandon, Vanish,
           EditTemplate, Observe
      <3> QED BY <3>1, OnlyWakersWake DEF SilenceInv
    <2> QED BY <2>1, <2>2
  <1>2. ASSUME NEW q \in Requests, stage'[q] = "landed", q \notin left', ToldQuiet(q)',
               q \notin disturbed'
        PROVE  cron' # "active"
    <2>1. Waits(q)' /\ Waits(q)
      BY <1>2, LandedWasInFlight, LeftStays DEF Waits, InFlight
    <2>2. ~WakerFlying
      BY <1>2, <2>1, DisturbedGrows DEF HistoryInv
    <2>3. CASE stage[q] = "landed" /\ ToldQuiet(q)
      BY <1>2, <2>1, <2>2, <2>3, OnlyWakersWake, DisturbedGrows DEF SilenceInv, Waits
    <2>4. CASE ~(stage[q] = "landed" /\ ToldQuiet(q))
      BY <1>2, <2>4, LandingSilences
    <2> QED BY <2>3, <2>4
  <1>3. ASSUME NEW q \in Requests PROVE mine'[q] <= made'
    <2>1. mine[q] \in Nat /\ made \in Nat /\ mine[q] <= made
      BY DEF TypeOK, SilenceInv
    <2>2. mine'[q] = mine[q] \/ mine'[q] = made'
      BY DEF TypeOK, Next, Handle, Send, RejectCreate, CheckTemplate, Create, ListOrGet,
         Delete, SetSuspend, CallFails, Reply, GiveUp, Canceled, Crash, Abandon, Vanish,
         EditTemplate, requestVars
    <2>3. made' = made \/ made' = made + 1
      BY DEF Next, Handle, Send, RejectCreate, CheckTemplate, Create, ListOrGet,
         Delete, SetSuspend, CallFails, Reply, GiveUp, Canceled, Crash, Abandon, Vanish,
         EditTemplate, requestVars
    <2> QED BY <2>1, <2>2, <2>3
  <1> QED BY <1>1, <1>2, <1>3 DEF SilenceInv

LEMMA InitInv == Init => SchedulesInv
  <1> SUFFICES ASSUME Init PROVE SchedulesInv
    OBVIOUS
  <1>1. TypeOK
    <2>1. op \in [Requests -> Ops] /\ stage \in [Requests -> Stages]
      BY DEF Init, Ops, Stages
    <2>2. answer \in [Requests -> Answers]
      BY DEF Init, Answers
    <2>3. mine \in [Requests -> Nat] /\ saw \in [Requests -> SUBSET Facts]
      BY DEF Init
    <2>4. faults \in 0..MaxFaults /\ edits \in 0..MaxEdits
      BY SchedulesAssumption DEF Init, SchedulesAssumption
    <2> QED BY <2>1, <2>2, <2>3, <2>4 DEF Init, TypeOK
  <1>2. HistoryInv
    BY DEF Init, HistoryInv, Waits, InFlight
  <1>3. SilenceInv
    BY DEF Init, SilenceInv
  <1> QED BY <1>1, <1>2, <1>3 DEF SchedulesInv

LEMMA StutterInv == SchedulesInv /\ UNCHANGED vars => SchedulesInv'
  <1> SUFFICES ASSUME SchedulesInv, UNCHANGED vars PROVE SchedulesInv'
    OBVIOUS
  <1> USE DEF vars, requestVars, historyVars
  <1>1. TypeOK'
    BY DEF SchedulesInv, TypeOK
  <1>2. HistoryInv'
    BY DEF SchedulesInv, HistoryInv, Waits, InFlight, Now, WakerFlying, CanLand
  <1>3. SilenceInv'
    BY DEF SchedulesInv, SilenceInv, WakerFlying, CanLand, ToldQuiet
  <1> QED BY <1>1, <1>2, <1>3 DEF SchedulesInv

(* The handlers of /api/schedules, the calls nobody waits for and the      *)
(* crashes keep the inductive invariant of the requests and their history. *)
THEOREM SchedulesInvHolds == Spec => []SchedulesInv
  <1>1. SchedulesInv /\ [Next]_vars => SchedulesInv'
    BY TypeStep, HistoryStep, SilenceStep, StutterInv DEF SchedulesInv
  <1> QED BY <1>1, InitInv, PTL DEF Spec

(* A client of dlh schedule pause or delete that was told so can rely on   *)
(* it until somebody creates or resumes.                                   *)
THEOREM QuietWhenToldHolds == Spec => []QuietWhenTold
  <1>1. SchedulesInv => QuietWhenTold
    BY DEF SchedulesInv, SilenceInv, QuietWhenTold
  <1> QED BY <1>1, SchedulesInvHolds, PTL

-----------------------------------------------------------------------------
\* Only a create that lands claims a CronWorkflow, the newest, which is new.
LEMMA OneCreateWinsStep == SchedulesInv /\ OneCreateWins /\ Next => OneCreateWins'
  <1> SUFFICES ASSUME SchedulesInv, OneCreateWins, Next, NEW p \in Requests, NEW q \in Requests,
                      p # q, mine'[p] # 0
               PROVE  mine'[p] # mine'[q]
    BY DEF OneCreateWins
  <1>1. CASE \E r \in Requests : Create(r)
    <2>1. PICK r \in Requests : Create(r)
      BY <1>1
    <2>2. \A s \in Requests \ {r} : mine'[s] = mine[s]
      BY <2>1 DEF Create, SchedulesInv, TypeOK
    <2>3. \A s \in Requests : mine[s] \in Nat /\ mine[s] <= made
      BY DEF SchedulesInv, TypeOK, SilenceInv
    <2>4. made \in Nat
      BY DEF SchedulesInv, TypeOK
    <2>5. mine'[r] \in {made + 1, mine[r]}
      BY <2>1 DEF Create, SchedulesInv, TypeOK
    <2> QED BY <2>2, <2>3, <2>4, <2>5 DEF OneCreateWins
  <1>2. CASE ~(\E r \in Requests : Create(r))
    <2>1. \A s \in Requests : mine'[s] = mine[s]
      BY <1>2 DEF SchedulesInv, TypeOK, Next, Handle, Send, RejectCreate, CheckTemplate,
         ListOrGet, Delete, SetSuspend, CallFails, Reply, GiveUp, Canceled, Crash, Abandon,
         Vanish, EditTemplate, requestVars
    <2> QED BY <2>1 DEF OneCreateWins
  <1> QED BY <1>1, <1>2

(* Two creates that were told 201 made two CronWorkflows.                  *)
THEOREM OneCreateWinsHolds == Spec => []OneCreateWins
  <1>1. Init => OneCreateWins
    BY DEF Init, OneCreateWins
  <1>2. OneCreateWins /\ UNCHANGED vars => OneCreateWins'
    BY DEF OneCreateWins, vars, requestVars
  <1>3. SchedulesInv /\ OneCreateWins /\ [Next]_vars => OneCreateWins'
    BY <1>2, OneCreateWinsStep
  <1> QED BY <1>1, <1>3, SchedulesInvHolds, PTL DEF Spec

-----------------------------------------------------------------------------
\* What a request hears that a step answers is true right after the step, but for a 201.
LEMMA NewAnswerIsTrue ==
    ASSUME SchedulesInv, Next, NEW q \in Requests, stage'[q] = "landed",
           stage[q] # "landed" \/ answer'[q] # answer[q],
           ~(op[q] = "create" /\ q \in failed')
    PROVE  \/ answer'[q] \in {"400", "500"}
           \/ answer'[q] = "201" /\ cron' = "active" /\ stage[q] = "checked"
           \/ answer'[q] = "409" /\ cron' \in {"active", "suspended"}
           \/ answer'[q] = "404" /\ op[q] = "create" /\ ~template'
           \/ answer'[q] = "404" /\ op[q] # "create" /\ cron' = "gone"
           \/ answer'[q] = "204" /\ op[q] = "pause" /\ cron' = "suspended"
           \/ answer'[q] = "204" /\ op[q] = "resume" /\ cron' = "active"
           \/ answer'[q] = "204" /\ op[q] = "delete" /\ cron' = "gone"
           \/ answer'[q] \in {"gone", "active", "suspended"} /\ answer'[q] = cron'
  <1>1. InFlight(q)
    BY LandedWasInFlight DEF SchedulesInv
  <1>2. cron \in {"gone", "active", "suspended"} /\ template \in BOOLEAN
    BY DEF SchedulesInv, TypeOK
  <1>3. ASSUME Handle(q), ~CallFails(q)
        PROVE  \/ RejectCreate(q) \/ (CheckTemplate(q) /\ ~template)
               \/ Create(q) \/ ListOrGet(q) \/ Delete(q) \/ SetSuspend(q)
    BY <1>1, <1>3 DEF SchedulesInv, TypeOK, Handle, Send, CheckTemplate, Reply,
       GiveUp, Canceled, Abandon, Vanish, InFlight
  <1>4. CASE CallFails(q)
    BY <1>4, UnknownIsStatus DEF CallFails, SchedulesInv, TypeOK
  <1>5. CASE RejectCreate(q) \/ (CheckTemplate(q) /\ ~template)
    BY <1>1, <1>5 DEF RejectCreate, CheckTemplate, Answer, SchedulesInv, TypeOK, InFlight
  <1>6. CASE Create(q)
    BY <1>1, <1>2, <1>6 DEF Create, Answer, SchedulesInv, TypeOK, InFlight
  <1>7. CASE ListOrGet(q)
    BY <1>1, <1>2, <1>7 DEF ListOrGet, Answer, SchedulesInv, TypeOK, InFlight
  <1>8. CASE Delete(q)
    BY <1>1, <1>8 DEF Delete, Answer, SchedulesInv, TypeOK, InFlight
  <1>9. CASE SetSuspend(q)
    BY <1>1, <1>2, <1>9 DEF SetSuspend, Answer, SchedulesInv, TypeOK, InFlight
  <1>10. ASSUME NEW r \in Requests, r # q, Handle(r) PROVE FALSE
    BY <1>1, <1>10 DEF SchedulesInv, TypeOK, Handle, Send, RejectCreate, CheckTemplate, Create,
       ListOrGet, Delete, SetSuspend, CallFails, Reply, GiveUp, Canceled, Abandon, Vanish, Answer
  <1>11. ASSUME Crash \/ EditTemplate PROVE FALSE
    BY <1>1, <1>11 DEF SchedulesInv, TypeOK, Crash, Abandon, EditTemplate,
       requestVars, InFlight
  <1> QED BY <1>3, <1>4, <1>5, <1>6, <1>7, <1>8, <1>9, <1>10, <1>11 DEF Next

\* A create whose call failed hears no 201.
LEMMA FailedCreateStep ==
    ASSUME SchedulesInv, AnswersAreTrue, Next, NEW q \in Requests, stage'[q] = "landed",
           q \notin left', op'[q] = "create", q \in failed'
    PROVE  answer'[q] # "201"
  <1>1. InFlight(q) /\ op[q] = "create" /\ q \notin left
    BY LandedWasInFlight, LeftStays DEF SchedulesInv
  <1>2. CASE q \in failed
    <2>1. stage[q] = "landed" /\ answer[q] # "201"
      BY <1>1, <1>2 DEF SchedulesInv, HistoryInv, InFlight, AnswersAreTrue
    <2>2. answer'[q] = answer[q]
      <3>1. CASE Handle(q)
        BY <1>1, <2>1, <3>1 DEF SchedulesInv, TypeOK, Handle, Send, RejectCreate, CheckTemplate,
           Answer, Create, ListOrGet, Delete, SetSuspend, CallFails, Reply, GiveUp, Canceled,
           Abandon, Vanish
      <3>2. ASSUME NEW r \in Requests, r # q, Handle(r) PROVE answer'[q] = answer[q]
        BY <3>2, OthersStay DEF SchedulesInv
      <3>3. CASE Crash \/ EditTemplate
        BY <3>3 DEF Crash, Abandon, EditTemplate, requestVars
      <3> QED BY <3>1, <3>2, <3>3 DEF Next
    <2> QED BY <2>1, <2>2
  <1>3. CASE q \notin failed
    <2>1. PICK r \in Requests : CallFails(r)
      BY <1>3 DEF Next, Handle, Send, RejectCreate, CheckTemplate, Answer, Create, ListOrGet,
         Delete, SetSuspend, Reply, GiveUp, Canceled, Crash, Abandon, Vanish, EditTemplate,
         requestVars
    <2>2. r = q
      BY <1>3, <2>1 DEF CallFails
    <2> QED BY <1>1, <2>1, <2>2, UnknownIsStatus DEF CallFails, SchedulesInv, TypeOK
  <1> QED BY <1>2, <1>3

LEMMA AnswersAreTrueStep == SchedulesInv /\ AnswersAreTrue /\ Next => AnswersAreTrue'
  <1> SUFFICES ASSUME SchedulesInv, AnswersAreTrue, Next,
                      NEW q \in Requests, stage'[q] = "landed", q \notin left',
                      ~(op'[q] = "create" /\ q \in failed')
               PROVE  Justified(q)'
    BY FailedCreateStep DEF AnswersAreTrue
  <1>1. Waits(q) /\ op'[q] = op[q] /\ Waits(q)'
    BY LandedWasInFlight, LeftStays DEF SchedulesInv, Waits, InFlight
  <1>2. PICK heard \in SUBSET Requests : Observe(heard)
    BY NextObserves
  <1>3. Now' \subseteq saw'[q] /\ saw[q] \subseteq saw'[q]
    BY <1>1, <1>2, ObserveRecords
  <1>4. CASE stage[q] = "landed" /\ answer'[q] = answer[q]
    <2>1. Justified(q)
      BY <1>1, <1>4, LeftStays DEF AnswersAreTrue, Waits
    <2> QED BY <1>1, <1>3, <1>4, <2>1 DEF Justified
  <1>5. CASE ~(stage[q] = "landed" /\ answer'[q] = answer[q])
    <2>1. stage[q] = "checked" => "template" \in saw'[q]
      BY <1>1, <1>3 DEF SchedulesInv, HistoryInv
    <2>2. cron' \in saw'[q] /\ (~template' => "no template" \in saw'[q])
      BY <1>3 DEF Now
    <2>3. op[q] \in Ops
      BY DEF SchedulesInv, TypeOK
    <2> QED BY <1>1, <1>5, <2>1, <2>2, <2>3, NewAnswerIsTrue DEF Justified, Ops
  <1> QED BY <1>4, <1>5

(* The handlers answer what was true while their client waited, whatever   *)
(* the template, the other clients and the failing calls do meanwhile.     *)
THEOREM AnswersAreTrueHolds == Spec => []AnswersAreTrue
  <1>1. Init => AnswersAreTrue
    BY DEF Init, AnswersAreTrue
  <1>2. AnswersAreTrue /\ UNCHANGED vars => AnswersAreTrue'
    BY DEF AnswersAreTrue, Justified, vars, requestVars, historyVars
  <1>3. SchedulesInv /\ AnswersAreTrue /\ [Next]_vars => AnswersAreTrue'
    BY <1>2, AnswersAreTrueStep
  <1> QED BY <1>1, <1>3, SchedulesInvHolds, PTL DEF Spec
=============================================================================
