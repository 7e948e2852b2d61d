------------------------------- MODULE Verdict -------------------------------
(***************************************************************************)
(* How a run comes to its verdict, and who learns it:                      *)
(*   - the steps of a scenario WorkflowTemplate: preparation, chaos and    *)
(*     load side by side, the verdict job after both;                      *)
(*   - the verdict job: it checks its inputs, queries the metrics at the   *)
(*     end of each threshold's window, writes report.json and report.html, *)
(*     pushes gauges and exits 0 or 1;                                     *)
(*   - the controlplane: runs.VerdictCache and the Syncer read the score   *)
(*     from the archived report.                                           *)
(***************************************************************************)
EXTENDS Integers, Sequences

CONSTANTS
    Params,   \* window.Params that runs are started with
    SLOs,     \* SLO documents
    Samples,  \* answers of the metrics store: numbers, NaN, Empty and Error
    NaN, Empty, Error,
    Bound,    \* the limit of every threshold
    Callers,  \* requests that ask for the score
    MaxTime   \* bound on the clock

Window == {"baseline", "chaos", "recovery", "full"}

\* A threshold has lt, gt, both or neither; raw_promql is absent when raw is "none".
Threshold == [lt : BOOLEAN, gt : BOOLEAN, window : Window \cup {"other"}]
SLO == [thresholds : Seq(Threshold), raw : Window \cup {"other", "none"}]

ASSUME VerdictAssumption ==
    /\ Params \subseteq [after : Int, chaos : Int, load : Int]
    /\ SLOs \subseteq SLO
    /\ NaN \notin Int
    /\ Samples \subseteq Int \cup {NaN, Empty, Error}
    /\ Bound \in Int
    /\ MaxTime \in Nat

VARIABLES
    params, slo,        \* what the run is started with; never change
    clock,
    stage,              \* step group of the Workflow: "prep", "test", "verdict", "over"
    chaos, chaosStart,  \* the chaos step, and when its chaos was injected
    load, loadStart,    \* the load step, and its startedAt
    phase,              \* of the Workflow
    job,                \* where the verdict job is
    results,            \* Result.Thresholds, the raw query's result last
    report,             \* report.json in the job's directory
    archived,           \* report.json in MinIO
    mishap,             \* the run was cancelled, or a report was lost (history)
    cached,             \* VerdictCache.scores for the run
    caller,             \* request -> "idle", or "missed" the cache
    answer,             \* request -> score it was last given
    handled,            \* Syncer.last has the run as finished
    recorded            \* Score in the manifest

runVars == <<params, slo, clock, stage, chaos, chaosStart, load, loadStart, phase>>
jobVars == <<job, results, report>>
scoreVars == <<cached, caller, answer, handled, recorded>>
vars == <<runVars, jobVars, archived, mishap, scoreVars>>

Value == Int \cup {NaN}
Check == [kind : {"lt", "gt", "raw"}, window : Window \cup {"other"}]
Result == [check : Check, value : Value, passed : BOOLEAN]
Report == {"none", "broken", "pass", "fail"}
Score == {"none", "pass", "fail"}

TypeOK ==
    /\ params \in Params
    /\ slo \in SLOs
    /\ clock \in 0..MaxTime
    /\ stage \in {"prep", "test", "verdict", "over"}
    /\ chaos \in {"none", "active", "done", "failed"}
    /\ chaosStart \in 0..MaxTime
    /\ load \in {"none", "running", "done", "failed"}
    /\ loadStart \in 0..MaxTime
    /\ phase \in {"Running", "Succeeded", "Failed"}
    /\ job \in {"none", "parse", "eval", "html", "push", "pass", "fail"}
    /\ results \in Seq(Result)
    /\ report \in Report
    /\ archived \in Report
    /\ mishap \in BOOLEAN
    /\ cached \in Score
    /\ caller \in [Callers -> {"idle", "missed"}]
    /\ answer \in [Callers -> Score]
    /\ handled \in BOOLEAN
    /\ recorded \in Score

Init ==
    /\ params \in Params
    /\ slo \in SLOs
    /\ clock = 0
    /\ stage = "prep"
    /\ chaos = "none"
    /\ chaosStart = 0
    /\ load = "none"
    /\ loadStart = 0
    /\ phase = "Running"
    /\ job = "none"
    /\ results = << >>
    /\ report = "none"
    /\ archived = "none"
    /\ mishap = FALSE
    /\ cached = "none"
    /\ caller = [c \in Callers |-> "idle"]
    /\ answer = [c \in Callers |-> "none"]
    /\ handled = FALSE
    /\ recorded = "none"

-----------------------------------------------------------------------------
(* Windows and thresholds *)

\* SLO.Validate
ValidSLO(s) ==
    /\ s.thresholds # << >> \/ s.raw # "none"
    /\ \A i \in DOMAIN s.thresholds :
         s.thresholds[i].lt # s.thresholds[i].gt /\ s.thresholds[i].window \in Window
    /\ s.raw \in Window \cup {"none"}

\* Params.Validate
ValidParams(p) == p.after >= 0 /\ p.chaos > 0 /\ p.load > 0 /\ p.after + p.chaos <= p.load

\* Broken variant: recovery is what follows the start of the chaos.
ComputeOverlapping(p, w) ==
    CASE w = "baseline" -> [start |-> 0, end |-> p.after]
      [] w = "chaos"    -> [start |-> p.after, end |-> p.after + p.chaos]
      [] w = "recovery" -> [start |-> p.after, end |-> p.load]
      [] w = "full"     -> [start |-> 0, end |-> p.load]

\* window.Compute, relative to the start of the load.
Compute(p, w) ==
    CASE w = "baseline" -> [start |-> 0, end |-> p.after]
      [] w = "chaos"    -> [start |-> p.after, end |-> p.after + p.chaos]
      [] w = "recovery" -> [start |-> p.after + p.chaos, end |-> p.load]
      [] w = "full"     -> [start |-> 0, end |-> p.load]

\* What Evaluate goes through: the thresholds, then raw_promql.
Checks(s) ==
    [i \in DOMAIN s.thresholds |->
        [kind |-> IF s.thresholds[i].lt THEN "lt" ELSE "gt", window |-> s.thresholds[i].window]]
    \o (IF s.raw = "none" THEN << >> ELSE << [kind |-> "raw", window |-> s.raw] >>)

\* A NaN passes nothing.
Passes(kind, v) ==
    /\ v # NaN
    /\ kind = "lt" => v < Bound
    /\ kind = "gt" => v > Bound
    /\ kind = "raw" => v = 1

-----------------------------------------------------------------------------
(* The Workflow *)

Tick ==
    /\ clock < MaxTime
    /\ clock' = clock + 1
    /\ UNCHANGED <<params, slo, stage, chaos, chaosStart, load, loadStart, phase,
                   jobVars, archived, mishap, scoreVars>>

\* prep-slo, load-fixture and prep-table succeed; chaos and load start together.
Prepare ==
    /\ stage = "prep"
    /\ stage' = "test"
    /\ load' = "running"
    /\ loadStart' = clock
    /\ UNCHANGED <<params, slo, clock, chaos, chaosStart, phase, jobVars, archived, mishap, scoreVars>>

\* One of them fails, and the Workflow with it.
PrepareFails ==
    /\ stage = "prep"
    /\ stage' = "over"
    /\ phase' = "Failed"
    /\ UNCHANGED <<params, slo, clock, chaos, chaosStart, load, loadStart, jobVars, archived, mishap, scoreVars>>

ChaosStep ==
    /\ stage = "test"
    /\ \/ chaos = "none" /\ chaos' = "active" /\ chaosStart' = clock
       \/ /\ chaos = "active"
          /\ clock >= chaosStart + params.chaos
          /\ chaos' = "done"
          /\ UNCHANGED chaosStart
       \/ chaos \in {"none", "active"} /\ chaos' = "failed" /\ UNCHANGED chaosStart
    /\ UNCHANGED <<params, slo, clock, stage, load, loadStart, phase, jobVars, archived, mishap, scoreVars>>

\* k6 runs for load_duration from some time after the step's start.
LoadStep ==
    /\ stage = "test"
    /\ load = "running"
    /\ \/ clock >= loadStart + params.load /\ load' = "done"
       \/ load' = "failed"
    /\ UNCHANGED <<params, slo, clock, stage, chaos, chaosStart, loadStart, phase, jobVars, archived, mishap, scoreVars>>

\* Broken variant: the verdict is a step beside the load.
TestOverEarly ==
    /\ stage = "test"
    /\ chaos \in {"done", "failed"}
    /\ stage' = "verdict"
    /\ job' = "parse"
    /\ UNCHANGED <<params, slo, clock, chaos, chaosStart, load, loadStart, phase, results, report, archived, mishap, scoreVars>>

\* Both steps are over. A failed chaos step is passed over (continueOn).
TestOver ==
    /\ stage = "test"
    /\ chaos \in {"done", "failed"}
    /\ load \in {"done", "failed"}
    /\ IF load = "done"
       THEN stage' = "verdict" /\ job' = "parse" /\ UNCHANGED phase
       ELSE stage' = "over" /\ phase' = "Failed" /\ UNCHANGED job
    /\ UNCHANGED <<params, slo, clock, chaos, chaosStart, load, loadStart, results, report, archived, mishap, scoreVars>>

\* The run is terminated; what the job has written is archived or not.
Cancel ==
    /\ stage # "over"
    /\ stage' = "over"
    /\ phase' = "Failed"
    /\ archived' \in {"none", report}
    /\ mishap' = TRUE
    /\ UNCHANGED <<params, slo, clock, chaos, chaosStart, load, loadStart, jobVars, scoreVars>>

-----------------------------------------------------------------------------
(* The verdict job: main *)

JobStep(j) ==
    /\ stage = "verdict"
    /\ job = j
    /\ UNCHANGED <<runVars, archived, scoreVars>>

\* Broken variant: a document that does not parse leaves the job waiting.
ParseHangs ==
    /\ JobStep("parse")
    /\ ValidSLO(slo) /\ ValidParams(params)
    /\ job' = "eval"
    /\ UNCHANGED <<results, report, mishap>>

\* slo.Parse and Params.Validate; log.Fatal exits 1, as FAIL does.
Parse ==
    /\ JobStep("parse")
    /\ job' = IF ValidSLO(slo) /\ ValidParams(params) THEN "eval" ELSE "fail"
    /\ UNCHANGED <<results, report, mishap>>

\* One turn of Evaluate's loop. An empty answer counts as 0; an error ends the job.
QueryAt ==
    /\ JobStep("eval")
    /\ Len(results) < Len(Checks(slo))
    /\ \E s \in Samples :
         IF s = Error THEN job' = "fail" /\ UNCHANGED results
         ELSE LET v == IF s = Empty THEN 0 ELSE s
                  c == Checks(slo)[Len(results) + 1]
              IN  /\ results' = Append(results, [check |-> c, value |-> v, passed |-> Passes(c.kind, v)])
                  /\ UNCHANGED job
    /\ UNCHANGED <<report, mishap>>

\* Broken variant: the last check decides.
OverallLast == results[Len(results)].passed

\* Result.Overall
Overall == \A i \in DOMAIN results : results[i].passed

HasNaN == \E i \in DOMAIN results : results[i].value = NaN

\* Broken variant: NaN is encoded like any number.
WriteJSONWithNaN ==
    /\ JobStep("eval")
    /\ Len(results) = Len(Checks(slo))
    /\ \/ report' = (IF Overall THEN "pass" ELSE "fail") /\ job' = "html"
       \/ report' \in {"none", "broken"} /\ job' = "fail"
    /\ UNCHANGED <<results, mishap>>

\* report.Write up to report.json. It may fail before or after the file exists;
\* a NaN cannot be encoded and leaves it empty.
WriteJSON ==
    /\ JobStep("eval")
    /\ Len(results) = Len(Checks(slo))
    /\ \/ ~HasNaN /\ report' = (IF Overall THEN "pass" ELSE "fail") /\ job' = "html"
       \/ report' \in {"none", "broken"} /\ job' = "fail"
    /\ UNCHANGED <<results, mishap>>

\* report.html. When it fails, report.json stays behind.
WriteHTML ==
    /\ JobStep("html")
    /\ \/ job' = "push" /\ UNCHANGED mishap
       \/ job' = "fail" /\ mishap' = TRUE
    /\ UNCHANGED <<results, report>>

\* The gauges are pushed or not; then the exit code.
Push ==
    /\ JobStep("push")
    /\ job' = IF Overall THEN "pass" ELSE "fail"
    /\ UNCHANGED <<results, report, mishap>>

\* Argo archives the directory and takes the exit code. A report that cannot be
\* archived fails the step.
JobOver ==
    /\ stage = "verdict"
    /\ job \in {"pass", "fail"}
    /\ stage' = "over"
    /\ \/ /\ archived' = report
          /\ phase' = IF job = "pass" THEN "Succeeded" ELSE "Failed"
          /\ UNCHANGED mishap
       \/ archived' = "none" /\ phase' = "Failed" /\ mishap' = TRUE
    /\ UNCHANGED <<params, slo, clock, chaos, chaosStart, load, loadStart, jobVars, scoreVars>>

-----------------------------------------------------------------------------
(* Scores in the controlplane *)

\* ReportReader.Read: what does not decode is no report.
ReadReport == IF archived \in {"pass", "fail"} THEN archived ELSE "none"

\* VerdictCache.Score for a terminal run: the cache has it, or not.
ScoreLookup(c) ==
    /\ phase # "Running"
    /\ caller[c] = "idle"
    /\ IF cached # "none"
       THEN answer' = [answer EXCEPT ![c] = cached] /\ UNCHANGED caller
       ELSE caller' = [caller EXCEPT ![c] = "missed"] /\ UNCHANGED answer
    /\ UNCHANGED <<runVars, jobVars, archived, mishap, cached, handled, recorded>>

\* Broken variant: a missing report is remembered as a failure.
ScoreReadDefault(c) ==
    /\ caller[c] = "missed"
    /\ caller' = [caller EXCEPT ![c] = "idle"]
    /\ LET s == IF ReadReport = "none" THEN "fail" ELSE ReadReport IN
         cached' = s /\ answer' = [answer EXCEPT ![c] = s]
    /\ UNCHANGED <<runVars, jobVars, archived, mishap, handled, recorded>>

\* It reads the report, or MinIO fails. Only a score is remembered.
ScoreRead(c) ==
    /\ caller[c] = "missed"
    /\ caller' = [caller EXCEPT ![c] = "idle"]
    /\ \E s \in {"none", ReadReport} :
         /\ answer' = [answer EXCEPT ![c] = s]
         /\ cached' = IF s = "none" THEN cached ELSE s
    /\ UNCHANGED <<runVars, jobVars, archived, mishap, handled, recorded>>

\* Syncer.handle, at its first sight of the finished run: it rewrites the manifest
\* with the score it reads, or without one.
SyncerReadsScore ==
    /\ phase # "Running"
    /\ ~handled
    /\ handled' = TRUE
    /\ recorded' \in {"none", ReadReport}
    /\ UNCHANGED <<runVars, jobVars, archived, mishap, cached, caller, answer>>

\* The process restarts; the manifest stays.
Restart ==
    /\ cached' = "none"
    /\ caller' = [c \in Callers |-> "idle"]
    /\ answer' = [c \in Callers |-> "none"]
    /\ handled' = FALSE
    /\ UNCHANGED <<runVars, jobVars, archived, mishap, recorded>>

-----------------------------------------------------------------------------

Job == Parse \/ QueryAt \/ WriteJSON \/ WriteHTML \/ Push \/ JobOver

Next ==
    \/ Tick
    \/ Prepare
    \/ PrepareFails
    \/ ChaosStep
    \/ LoadStep
    \/ TestOver
    \/ Cancel
    \/ Job
    \/ \E c \in Callers : ScoreLookup(c) \/ ScoreRead(c)
    \/ SyncerReadsScore
    \/ Restart

\* The job is sequential and its calls have timeouts (30 s a query, 5 s the push).
Spec == Init /\ [][Next]_vars /\ WF_vars(Job)

-----------------------------------------------------------------------------
(* Properties *)

\* What each place of the job has established.
JobFollowsInputs ==
    /\ stage = "prep" => load = "none"
    /\ phase = "Running" <=> stage # "over"
    /\ load = "done" => clock >= loadStart + params.load
    /\ stage = "verdict" => load = "done"
    /\ job # "none" => stage \in {"verdict", "over"} /\ load = "done"
    /\ job \in {"eval", "html", "push", "pass"} => ValidSLO(slo) /\ ValidParams(params)

ResultsFollowChecks ==
    /\ Len(results) <= Len(Checks(slo))
    /\ \A i \in DOMAIN results :
         /\ results[i].check = Checks(slo)[i]
         /\ results[i].passed = Passes(results[i].check.kind, results[i].value)

ReportFollowsResults ==
    /\ job \in {"none", "parse", "eval"} => report = "none"
    /\ job \in {"html", "push", "pass"} => Len(results) = Len(Checks(slo)) /\ report \in {"pass", "fail"}
    /\ report \in {"pass", "fail"} => (report = "pass" <=> Overall) /\ ~HasNaN
    /\ job = "pass" => Overall
    /\ job = "fail" /\ report = "pass" => mishap

ArchiveFollowsReport ==
    /\ archived # "none" => archived = report /\ stage = "over"
    /\ phase = "Succeeded" => job = "pass" /\ archived = report
    /\ stage = "over" /\ ~mishap /\ job \in {"pass", "fail"} => (job = "pass" <=> phase = "Succeeded")
    /\ archived # "none" /\ ~mishap => job \in {"pass", "fail"}

ScoresFollowArchive ==
    \A s \in {cached, recorded} \cup {answer[c] : c \in Callers} :
        s \in {"pass", "fail"} => s = archived

\* The inductive invariant: every report follows from the checks, every archived
\* report from the job's, every score from the archived report.
VerdictInv ==
    /\ TypeOK
    /\ JobFollowsInputs
    /\ ResultsFollowChecks
    /\ ReportFollowsResults
    /\ ArchiveFollowsReport
    /\ ScoresFollowArchive

\* A run succeeds only when its load ran to its end, every check of its valid SLO
\* was made, none came out NaN, all passed, and the archived report says so.
PassIsEarned ==
    phase = "Succeeded" =>
        /\ load = "done"
        /\ ValidSLO(slo) /\ ValidParams(params)
        /\ Len(results) = Len(Checks(slo))
        /\ \A i \in DOMAIN results :
             /\ results[i].check = Checks(slo)[i]
             /\ Passes(results[i].check.kind, results[i].value)
        /\ archived = "pass"

\* Whoever has a score has that of the archived report, and unless the run was
\* cancelled or a report lost, that is the run's phase: concurrent lookups,
\* failed reads and restarts never show another one.
ScoresAgree ==
    \A s \in {cached, recorded} \cup {answer[c] : c \in Callers} :
        s \in {"pass", "fail"} =>
            /\ s = archived
            /\ ~mishap => (s = "pass" <=> phase = "Succeeded")

\* The job looks at no time that has not come: every window has ended.
QueriesArePast ==
    stage = "verdict" /\ ValidParams(params) =>
        \A w \in Window : loadStart + Compute(params, w).end <= clock

\* Valid parameters cut the load into baseline, chaos and recovery: no instant of
\* it is in two of them and none is left out.
In(t, w) == Compute(params, w).start <= t /\ t < Compute(params, w).end
WindowsTile ==
    ValidParams(params) =>
        \A t \in 0..MaxTime :
            /\ In(t, "full") <=> \E w \in {"baseline", "chaos", "recovery"} : In(t, w)
            /\ \A v, w \in {"baseline", "chaos", "recovery"} : In(t, v) /\ In(t, w) => v = w

\* The job comes to an end whatever its inputs and the answers it gets.
VerdictEnds == stage = "verdict" ~> stage = "over"

=============================================================================
