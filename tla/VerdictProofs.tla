---------------------------- MODULE VerdictProofs ----------------------------
(***************************************************************************)
(* Proofs about Verdict, for every set of parameters, SLO documents and    *)
(* answers: the inductive invariant VerdictInv, that a success is earned,  *)
(* that scores agree with the report and that queries look at the past.    *)
(***************************************************************************)
EXTENDS Verdict, SequenceTheorems, TLAPS

\* The checks of an SLO document are a sequence: its thresholds, then the raw query.
LEMMA ChecksAreChecks ==
    ASSUME NEW s \in SLO
    PROVE  Checks(s) \in Seq(Check) /\ Len(Checks(s)) \in Nat
<1> DEFINE T == [i \in DOMAIN s.thresholds |->
                    [kind |-> IF s.thresholds[i].lt THEN "lt" ELSE "gt", window |-> s.thresholds[i].window]]
           R == IF s.raw = "none" THEN << >> ELSE << [kind |-> "raw", window |-> s.raw] >>
<1>1. s.thresholds \in Seq(Threshold) /\ s.raw \in Window \cup {"other", "none"}
  BY DEF SLO
<1>2. T \in Seq(Check)
  <2>1. DOMAIN s.thresholds = 1..Len(s.thresholds) /\ Len(s.thresholds) \in Nat
    BY <1>1
  <2>2. \A i \in 1..Len(s.thresholds) : T[i] \in Check
    <3> TAKE i \in 1..Len(s.thresholds)
    <3>1. s.thresholds[i] \in Threshold /\ i \in DOMAIN s.thresholds
      BY <1>1, <2>1
    <3>2. s.thresholds[i].window \in Window \cup {"other"}
      BY <3>1 DEF Threshold
    <3>3. T[i] = [kind |-> IF s.thresholds[i].lt THEN "lt" ELSE "gt", window |-> s.thresholds[i].window]
      BY <3>1
    <3> HIDE DEF T
    <3> QED
      BY <3>2, <3>3 DEF Check
  <2>3. T \in [1..Len(s.thresholds) -> Check]
    BY <2>1, <2>2
  <2> HIDE DEF T
  <2>4. \E n \in Nat : T \in [1..n -> Check]
    BY <2>1, <2>3
  <2>5. Seq(Check) = UNION {[1..n -> Check] : n \in Nat}
    BY SeqDef
  <2> QED
    BY <2>4, <2>5
<1>3. R \in Seq(Check)
  <2>1. CASE s.raw = "none"
    BY <2>1
  <2>2. CASE s.raw # "none"
    <3>1. [kind |-> "raw", window |-> s.raw] \in Check
      BY <1>1, <2>2 DEF Check
    <3> QED
      BY <2>2, <3>1
  <2> QED
    BY <2>1, <2>2
<1>4. Checks(s) = T \o R
  BY DEF Checks
<1> HIDE DEF T, R
<1> QED
  BY <1>2, <1>3, <1>4, ConcatProperties

\* Adding a result at the end leaves the others in place.
LEMMA AppendResult ==
    ASSUME NEW rs \in Seq(Result), NEW r \in Result
    PROVE  /\ Append(rs, r) \in Seq(Result)
           /\ Len(Append(rs, r)) = Len(rs) + 1
           /\ Len(rs) \in Nat
           /\ DOMAIN Append(rs, r) = DOMAIN rs \cup {Len(rs) + 1}
           /\ \A i \in DOMAIN rs : Append(rs, r)[i] = rs[i]
           /\ Append(rs, r)[Len(rs) + 1] = r
OBVIOUS

\* Valid parameters cut the load into baseline, chaos and recovery.
THEOREM WindowsTileLemma ==
    ASSUME params \in [after : Int, chaos : Int, load : Int]
    PROVE  WindowsTile
<1> SUFFICES ASSUME ValidParams(params), NEW t \in 0..MaxTime
             PROVE  /\ In(t, "full") <=> \E w \in {"baseline", "chaos", "recovery"} : In(t, w)
                    /\ \A v, w \in {"baseline", "chaos", "recovery"} : In(t, v) /\ In(t, w) => v = w
  BY DEF WindowsTile
<1>1. /\ params.after \in Int /\ params.chaos \in Int /\ params.load \in Int /\ t \in Int
      /\ params.after >= 0 /\ params.chaos > 0 /\ params.after + params.chaos <= params.load
  BY VerdictAssumption DEF ValidParams
<1>2. /\ In(t, "baseline") <=> 0 <= t /\ t < params.after
      /\ In(t, "chaos") <=> params.after <= t /\ t < params.after + params.chaos
      /\ In(t, "recovery") <=> params.after + params.chaos <= t /\ t < params.load
      /\ In(t, "full") <=> 0 <= t /\ t < params.load
  BY <1>1 DEF In, Compute
<1> QED
  BY <1>1, <1>2

-----------------------------------------------------------------------------
(* The inductive invariant *)

\* Initially nothing has run.
LEMMA InitVerdictInv == Init => VerdictInv
<1> SUFFICES ASSUME Init PROVE VerdictInv
  OBVIOUS
<1>1. TypeOK
  <2>1. results \in Seq(Result)
    BY DEF Init
  <2>2. 0 \in 0..MaxTime
    BY VerdictAssumption
  <2> QED
    BY <2>1, <2>2 DEF Init, TypeOK, Report, Score
<1>2. JobFollowsInputs
  BY DEF Init, JobFollowsInputs
<1>3. ResultsFollowChecks
  <2>1. Len(Checks(slo)) \in Nat
    BY ChecksAreChecks, VerdictAssumption DEF Init
  <2>2. Len(<< >>) = 0 /\ DOMAIN << >> = {}
    OBVIOUS
  <2> QED
    BY <2>1, <2>2 DEF Init, ResultsFollowChecks
<1>4. ReportFollowsResults /\ ArchiveFollowsReport /\ ScoresFollowArchive
  BY DEF Init, ReportFollowsResults, ArchiveFollowsReport, ScoresFollowArchive
<1> QED
  BY <1>1, <1>2, <1>3, <1>4 DEF VerdictInv

\* A query adds the result of the next check, or ends the job.
LEMMA QueryFacts ==
    ASSUME TypeOK, QueryAt
    PROVE  /\ Len(results) \in Nat /\ Len(Checks(slo)) \in Nat
           /\ \/ job' = "fail" /\ results' = results
              \/ \E r \in Result :
                    /\ job' = "eval"
                    /\ results' = Append(results, r)
                    /\ r.check = Checks(slo)[Len(results) + 1]
                    /\ r.passed = Passes(r.check.kind, r.value)
           /\ results' \in Seq(Result)
<1>1. results \in Seq(Result) /\ Len(results) \in Nat
  BY DEF TypeOK
<1>2. Checks(slo) \in Seq(Check) /\ Len(Checks(slo)) \in Nat
  BY ChecksAreChecks, VerdictAssumption DEF TypeOK
<1>3. Len(results) + 1 \in 1..Len(Checks(slo)) /\ Checks(slo)[Len(results) + 1] \in Check
  BY <1>1, <1>2 DEF QueryAt
<1>4. PICK s \in Samples :
         IF s = Error THEN job' = "fail" /\ UNCHANGED results
         ELSE LET v == IF s = Empty THEN 0 ELSE s
                  c == Checks(slo)[Len(results) + 1]
              IN  /\ results' = Append(results, [check |-> c, value |-> v, passed |-> Passes(c.kind, v)])
                  /\ UNCHANGED job
  BY DEF QueryAt
<1>5. CASE s = Error
  BY <1>1, <1>2, <1>4, <1>5
<1>6. CASE s # Error
  <2> DEFINE v == IF s = Empty THEN 0 ELSE s
             c == Checks(slo)[Len(results) + 1]
             r == [check |-> c, value |-> v, passed |-> Passes(c.kind, v)]
  <2>1. v \in Value
    BY <1>6, VerdictAssumption DEF Value
  <2>2. Passes(c.kind, v) \in BOOLEAN
    BY DEF Passes
  <2>3. r \in Result
    BY <1>3, <2>1, <2>2 DEF Result
  <2>4. results' = Append(results, r) /\ job' = "eval"
    BY <1>4, <1>6 DEF QueryAt, JobStep
  <2>5. r.check = c /\ r.passed = Passes(r.check.kind, r.value)
    OBVIOUS
  <2>6. Append(results, r) \in Seq(Result)
    BY <1>1, <2>3, AppendResult
  <2> HIDE DEF r, v
  <2> QED
    BY <1>1, <1>2, <2>3, <2>4, <2>5, <2>6
<1> QED
  BY <1>5, <1>6

\* A step keeps every variable in its set.
LEMMA TypeStep == TypeOK /\ [Next]_vars => TypeOK'
<1> SUFFICES ASSUME TypeOK, [Next]_vars PROVE TypeOK'
  OBVIOUS
<1> USE DEF TypeOK
<1>1. /\ params' \in Params /\ slo' \in SLOs
      /\ stage' \in {"prep", "test", "verdict", "over"}
      /\ chaos' \in {"none", "active", "done", "failed"}
      /\ load' \in {"none", "running", "done", "failed"}
      /\ phase' \in {"Running", "Succeeded", "Failed"}
  BY DEF vars, runVars, jobVars, scoreVars, Next, Tick, Prepare, PrepareFails, ChaosStep, LoadStep, TestOver,
         Cancel, Job, JobStep, Parse, QueryAt, WriteJSON, WriteHTML, Push, JobOver, ScoreLookup, ScoreRead,
         SyncerReadsScore, Restart
<1>2. clock' \in 0..MaxTime /\ chaosStart' \in 0..MaxTime /\ loadStart' \in 0..MaxTime
  BY VerdictAssumption
     DEF vars, runVars, jobVars, scoreVars, Next, Tick, Prepare, PrepareFails, ChaosStep, LoadStep, TestOver,
         Cancel, Job, JobStep, Parse, QueryAt, WriteJSON, WriteHTML, Push, JobOver, ScoreLookup, ScoreRead,
         SyncerReadsScore, Restart
<1>3. /\ job' \in {"none", "parse", "eval", "html", "push", "pass", "fail"}
      /\ report' \in Report /\ archived' \in Report
  BY DEF Report, vars, runVars, jobVars, scoreVars, Next, Tick, Prepare, PrepareFails, ChaosStep, LoadStep,
         TestOver, Cancel, Job, JobStep, Parse, QueryAt, WriteJSON, WriteHTML, Push, JobOver, ScoreLookup,
         ScoreRead, SyncerReadsScore, Restart
<1>4. /\ cached' \in Score /\ recorded' \in Score
      /\ caller' \in [Callers -> {"idle", "missed"}]
      /\ answer' \in [Callers -> Score]
  BY DEF Report, Score, ReadReport, vars, runVars, jobVars, scoreVars, Next, Tick, Prepare, PrepareFails,
         ChaosStep, LoadStep, TestOver, Cancel, Job, JobStep, Parse, QueryAt, WriteJSON, WriteHTML, Push,
         JobOver, ScoreLookup, ScoreRead, SyncerReadsScore, Restart
<1>5. mishap' \in BOOLEAN /\ handled' \in BOOLEAN
  BY DEF vars, runVars, jobVars, scoreVars, Next, Tick, Prepare, PrepareFails, ChaosStep, LoadStep, TestOver,
         Cancel, Job, JobStep, Parse, QueryAt, WriteJSON, WriteHTML, Push, JobOver, ScoreLookup, ScoreRead,
         SyncerReadsScore, Restart
<1>6. results' \in Seq(Result)
  <2>1. CASE QueryAt
    BY <2>1, QueryFacts DEF QueryAt
  <2>2. CASE ~QueryAt
    BY <2>2 DEF vars, runVars, jobVars, scoreVars, Next, Tick, Prepare, PrepareFails, ChaosStep, LoadStep,
         TestOver, Cancel, Job, JobStep, Parse, WriteJSON, WriteHTML, Push, JobOver, ScoreLookup, ScoreRead,
         SyncerReadsScore, Restart
  <2> QED
    BY <2>1, <2>2
<1> QED
  BY <1>1, <1>2, <1>3, <1>4, <1>5, <1>6

\* Each place of the job keeps what it has established.
LEMMA JobStepFacts ==
    ASSUME VerdictInv, [Next]_vars
    PROVE  JobFollowsInputs'
<1>1. /\ slo' = slo /\ params' = params
  BY DEF vars, runVars, jobVars, scoreVars, Next, Tick, Prepare, PrepareFails, ChaosStep, LoadStep, TestOver,
         Cancel, Job, JobStep, Parse, QueryAt, WriteJSON, WriteHTML, Push, JobOver, ScoreLookup, ScoreRead,
         SyncerReadsScore, Restart
<1>2. /\ stage' = "prep" => load' = "none"
      /\ phase' = "Running" <=> stage' # "over"
      /\ stage' = "verdict" => load' = "done"
      /\ job' # "none" => stage' \in {"verdict", "over"} /\ load' = "done"
  BY DEF VerdictInv, TypeOK, JobFollowsInputs, vars, runVars, jobVars, scoreVars, Next, Tick, Prepare,
         PrepareFails, ChaosStep, LoadStep, TestOver, Cancel, Job, JobStep, Parse, QueryAt, WriteJSON, WriteHTML,
         Push, JobOver, ScoreLookup, ScoreRead, SyncerReadsScore, Restart
<1>3. job' \in {"eval", "html", "push", "pass"} => ValidSLO(slo) /\ ValidParams(params)
  BY DEF VerdictInv, JobFollowsInputs, vars, runVars, jobVars, scoreVars, Next, Tick, Prepare,
         PrepareFails, ChaosStep, LoadStep, TestOver, Cancel, Job, JobStep, Parse, QueryAt, WriteJSON, WriteHTML,
         Push, JobOver, ScoreLookup, ScoreRead, SyncerReadsScore, Restart
<1>4. load' = "done" => clock' >= loadStart' + params.load
  <2>1. clock \in Int /\ loadStart \in Int /\ params.load \in Int
    BY VerdictAssumption DEF VerdictInv, TypeOK
  <2>2. load = "done" => clock >= loadStart + params.load
    BY DEF VerdictInv, JobFollowsInputs
  <2>3. CASE Tick
    BY <2>1, <2>2, <2>3 DEF Tick
  <2>4. CASE Prepare
    BY <2>4 DEF Prepare
  <2>5. CASE LoadStep
    BY <2>1, <2>2, <2>5 DEF LoadStep
  <2>6. CASE ~Tick /\ ~Prepare /\ ~LoadStep
    <3>1. load' = load /\ clock' = clock /\ loadStart' = loadStart
      BY <2>6 DEF vars, runVars, jobVars, scoreVars, Next, PrepareFails, ChaosStep, TestOver, Cancel, Job,
             JobStep, Parse, QueryAt, WriteJSON, WriteHTML, Push, JobOver, ScoreLookup, ScoreRead,
             SyncerReadsScore, Restart
    <3> QED
      BY <2>2, <3>1
  <2> QED
    BY <2>3, <2>4, <2>5, <2>6
<1> QED
  BY <1>1, <1>2, <1>3, <1>4 DEF JobFollowsInputs, ValidSLO, ValidParams

\* Results follow the checks, one by one.
LEMMA ResultsStep ==
    ASSUME VerdictInv, [Next]_vars
    PROVE  ResultsFollowChecks' /\ (~QueryAt => results' = results)
<1>1. slo' = slo
  BY DEF vars, runVars, jobVars, scoreVars, Next, Tick, Prepare, PrepareFails, ChaosStep, LoadStep, TestOver,
         Cancel, Job, JobStep, Parse, QueryAt, WriteJSON, WriteHTML, Push, JobOver, ScoreLookup, ScoreRead,
         SyncerReadsScore, Restart
<1>2. ~QueryAt => results' = results
  BY DEF vars, runVars, jobVars, scoreVars, Next, Tick, Prepare, PrepareFails, ChaosStep, LoadStep, TestOver,
         Cancel, Job, JobStep, Parse, WriteJSON, WriteHTML, Push, JobOver, ScoreLookup, ScoreRead,
         SyncerReadsScore, Restart
<1>3. ResultsFollowChecks /\ TypeOK
  BY DEF VerdictInv
<1>4. CASE results' = results
  BY <1>1, <1>3, <1>4 DEF ResultsFollowChecks, Checks, Passes
<1>5. CASE QueryAt /\ results' # results
  <2>1. PICK r \in Result : /\ results' = Append(results, r)
                            /\ r.check = Checks(slo)[Len(results) + 1]
                            /\ r.passed = Passes(r.check.kind, r.value)
    BY <1>3, <1>5, QueryFacts
  <2>2. results \in Seq(Result)
    BY <1>3 DEF TypeOK
  <2>3. /\ Len(results') = Len(results) + 1
        /\ DOMAIN results' = DOMAIN results \cup {Len(results) + 1}
        /\ \A i \in DOMAIN results : results'[i] = results[i]
        /\ results'[Len(results) + 1] = r
    BY <2>1, <2>2, AppendResult
  <2>4. Len(results) + 1 <= Len(Checks(slo))
    BY <1>3, <1>5, QueryFacts DEF QueryAt
  <2>5. Len(results') <= Len(Checks(slo))
    BY <2>3, <2>4
  <2>6. \A i \in DOMAIN results' :
          /\ results'[i].check = Checks(slo)[i]
          /\ results'[i].passed = Passes(results'[i].check.kind, results'[i].value)
    BY <1>3, <2>1, <2>3 DEF ResultsFollowChecks
  <2> QED
    BY <1>1, <1>2, <2>5, <2>6 DEF ResultsFollowChecks
<1> QED
  BY <1>2, <1>4, <1>5

\* A passing value is not NaN.
LEMMA OverallHasNoNaN ==
    ASSUME ResultsFollowChecks, Overall
    PROVE  ~HasNaN
BY DEF ResultsFollowChecks, Overall, HasNaN, Passes

\* The report says what the results say.
LEMMA ReportStep ==
    ASSUME VerdictInv, [Next]_vars
    PROVE  ReportFollowsResults'
<1>1. slo' = slo
  BY DEF vars, runVars, jobVars, scoreVars, Next, Tick, Prepare, PrepareFails, ChaosStep, LoadStep, TestOver,
         Cancel, Job, JobStep, Parse, QueryAt, WriteJSON, WriteHTML, Push, JobOver, ScoreLookup, ScoreRead,
         SyncerReadsScore, Restart
<1>2. CASE QueryAt
  <2>1. report' = report /\ report = "none" /\ job' \in {"eval", "fail"}
    BY <1>2, QueryFacts DEF QueryAt, JobStep, VerdictInv, ReportFollowsResults
  <2> QED
    BY <2>1 DEF ReportFollowsResults
<1>3. CASE ~QueryAt
  <2>1. results' = results
    BY <1>3, ResultsStep
  <2>2. (Overall <=> Overall') /\ (HasNaN <=> HasNaN') /\ Len(Checks(slo))' = Len(Checks(slo))
    BY <1>1, <2>1 DEF Overall, HasNaN, Checks
  <2>3. CASE job' = job /\ report' = report
    <3>1. mishap => mishap'
      BY DEF vars, runVars, jobVars, scoreVars, Next, Tick, Prepare, PrepareFails, ChaosStep, LoadStep,
             TestOver, Cancel, Job, JobStep, Parse, QueryAt, WriteJSON, WriteHTML, Push, JobOver, ScoreLookup,
             ScoreRead, SyncerReadsScore, Restart
    <3> QED
      BY <2>1, <2>2, <2>3, <3>1 DEF VerdictInv, ReportFollowsResults
  <2>4. CASE TestOver
    BY <2>1, <2>2, <2>4 DEF TestOver, VerdictInv, JobFollowsInputs, ReportFollowsResults
  <2>5. CASE Parse
    BY <2>1, <2>2, <2>5 DEF Parse, JobStep, VerdictInv, ReportFollowsResults
  <2>6. CASE WriteJSON
    BY <2>1, <2>2, <2>6 DEF WriteJSON, JobStep, VerdictInv, ReportFollowsResults
  <2>7. CASE WriteHTML
    BY <2>1, <2>2, <2>7 DEF WriteHTML, JobStep, VerdictInv, ReportFollowsResults
  <2>8. CASE Push
    BY <2>1, <2>2, <2>8 DEF Push, JobStep, VerdictInv, ReportFollowsResults
  <2>9. TestOver \/ Parse \/ WriteJSON \/ WriteHTML \/ Push \/ (job' = job /\ report' = report)
    BY <1>3 DEF vars, runVars, jobVars, scoreVars, Next, Tick, Prepare, PrepareFails, ChaosStep, LoadStep,
             Cancel, Job, JobOver, ScoreLookup, ScoreRead, SyncerReadsScore, Restart
  <2> QED
    BY <2>3, <2>4, <2>5, <2>6, <2>7, <2>8, <2>9
<1> QED
  BY <1>2, <1>3

\* The archive has the report of the job, and the run the phase of its exit code.
LEMMA ArchiveStep ==
    ASSUME VerdictInv, [Next]_vars
    PROVE  ArchiveFollowsReport' /\ (archived # "none" => archived' = archived)
<1>1. CASE JobOver
  BY <1>1 DEF JobOver, VerdictInv, TypeOK, jobVars, JobFollowsInputs, ReportFollowsResults, ArchiveFollowsReport
<1>2. CASE Cancel
  BY <1>2 DEF Cancel, VerdictInv, TypeOK, jobVars, JobFollowsInputs, ArchiveFollowsReport
<1>3. CASE Prepare \/ PrepareFails \/ TestOver
  BY <1>3 DEF Prepare, PrepareFails, TestOver, jobVars, VerdictInv, TypeOK, JobFollowsInputs, ArchiveFollowsReport
<1>4. CASE Parse \/ QueryAt \/ WriteJSON \/ WriteHTML \/ Push
  <2>1. /\ stage' = stage /\ stage = "verdict" /\ phase' = phase /\ archived' = archived
    BY <1>4 DEF Parse, QueryAt, WriteJSON, WriteHTML, Push, JobStep, runVars
  <2> QED
    BY <2>1 DEF VerdictInv, JobFollowsInputs, ArchiveFollowsReport
<1>5. CASE stage' = stage /\ phase' = phase /\ archived' = archived /\ job' = job /\ report' = report /\ (mishap => mishap')
  BY <1>5 DEF VerdictInv, ArchiveFollowsReport
<1>6. \/ JobOver \/ Cancel \/ Prepare \/ PrepareFails \/ TestOver
      \/ Parse \/ QueryAt \/ WriteJSON \/ WriteHTML \/ Push
      \/ stage' = stage /\ phase' = phase /\ archived' = archived /\ job' = job /\ report' = report /\ (mishap => mishap')
  <2>1. CASE Tick \/ ChaosStep \/ LoadStep \/ UNCHANGED vars
    BY <2>1 DEF vars, runVars, jobVars, Tick, ChaosStep, LoadStep
  <2>2. CASE (\E c \in Callers : ScoreLookup(c) \/ ScoreRead(c)) \/ SyncerReadsScore \/ Restart
    BY <2>2 DEF runVars, jobVars, scoreVars, ScoreLookup, ScoreRead, SyncerReadsScore, Restart
  <2> QED
    BY <2>1, <2>2 DEF Next, Job
<1> QED
  BY <1>1, <1>2, <1>3, <1>4, <1>5, <1>6

\* Every score that is handed out or kept is the archive's.
LEMMA ScoresStep ==
    ASSUME VerdictInv, [Next]_vars
    PROVE  ScoresFollowArchive'
<1>1. archived # "none" => archived' = archived
  BY ArchiveStep
<1>2. archived \in Report /\ answer \in [Callers -> Score] /\ cached \in Score /\ recorded \in Score
  BY DEF VerdictInv, TypeOK
<1>3. /\ cached \in {"none", archived} /\ recorded \in {"none", archived}
      /\ \A c \in Callers : answer[c] \in {"none", archived}
  BY <1>2 DEF VerdictInv, ScoresFollowArchive, Score
<1>4. /\ cached' \in {"none", cached, ReadReport} /\ recorded' \in {"none", recorded, ReadReport}
      /\ \A c \in Callers : answer'[c] \in {"none", answer[c], cached, ReadReport}
  BY <1>2 DEF vars, runVars, jobVars, scoreVars, Next, Tick, Prepare, PrepareFails, ChaosStep, LoadStep,
         TestOver, Cancel, Job, JobStep, Parse, QueryAt, WriteJSON, WriteHTML, Push, JobOver, ScoreLookup,
         ScoreRead, SyncerReadsScore, Restart
<1>5. ReadReport \in {"none", archived}
  BY DEF ReadReport
<1> QED
  BY <1>1, <1>3, <1>4, <1>5 DEF ScoresFollowArchive

\* A step keeps the invariant.
LEMMA StepVerdictInv == VerdictInv /\ [Next]_vars => VerdictInv'
BY TypeStep, JobStepFacts, ResultsStep, ReportStep, ArchiveStep, ScoresStep DEF VerdictInv

-----------------------------------------------------------------------------
(* Theorems *)

\* The inductive invariant holds.
THEOREM VerdictInvHolds == Spec => []VerdictInv
BY InitVerdictInv, StepVerdictInv, PTL DEF Spec

\* No run succeeds without having earned it.
THEOREM PassIsEarnedHolds == Spec => []PassIsEarned
<1>1. VerdictInv => PassIsEarned
  BY DEF VerdictInv, JobFollowsInputs, ResultsFollowChecks, ReportFollowsResults, ArchiveFollowsReport, Overall,
         PassIsEarned
<1> QED
  BY <1>1, VerdictInvHolds, PTL

\* Scores agree with the archived report and with the phase.
THEOREM ScoresAgreeHolds == Spec => []ScoresAgree
<1>1. VerdictInv => ScoresAgree
  <2> SUFFICES ASSUME VerdictInv, NEW s \in {"pass", "fail"}, s = archived, ~mishap
               PROVE  s = "pass" <=> phase = "Succeeded"
    BY DEF VerdictInv, ScoresFollowArchive, ScoresAgree
  <2>1. stage = "over" /\ report = s /\ job \in {"pass", "fail"}
    BY DEF VerdictInv, ArchiveFollowsReport
  <2>2. job = "pass" <=> phase = "Succeeded"
    BY <2>1 DEF VerdictInv, ArchiveFollowsReport
  <2>3. report = "pass" <=> job = "pass"
    BY <2>1 DEF VerdictInv, ReportFollowsResults
  <2> QED
    BY <2>1, <2>2, <2>3
<1> QED
  BY <1>1, VerdictInvHolds, PTL

\* The windows of a run tile its load.
THEOREM WindowsTileHolds == Spec => []WindowsTile
<1>1. VerdictInv => params \in [after : Int, chaos : Int, load : Int]
  BY VerdictAssumption DEF VerdictInv, TypeOK
<1> QED
  BY <1>1, WindowsTileLemma, VerdictInvHolds, PTL

\* The job asks only about the past.
THEOREM QueriesArePastHolds == Spec => []QueriesArePast
<1>1. VerdictInv => QueriesArePast
  <2> SUFFICES ASSUME VerdictInv, stage = "verdict", ValidParams(params), NEW w \in Window
               PROVE  loadStart + Compute(params, w).end <= clock
    BY DEF QueriesArePast
  <2>1. clock \in Int /\ loadStart \in Int /\ params \in [after : Int, chaos : Int, load : Int]
    BY VerdictAssumption DEF VerdictInv, TypeOK
  <2>2. clock >= loadStart + params.load
    BY DEF VerdictInv, JobFollowsInputs
  <2>3. Compute(params, w).end \in Int /\ Compute(params, w).end <= params.load
    BY <2>1 DEF Compute, ValidParams, Window
  <2> QED
    BY <2>1, <2>2, <2>3
<1> QED
  BY <1>1, VerdictInvHolds, PTL

-----------------------------------------------------------------------------
(* What VerdictEnds rests on besides fairness *)

\* How many steps of the job are left at most: to parse, a query for each check,
\* two reports, the push and the exit.
Left ==
    IF stage # "verdict" THEN 0
    ELSE CASE job = "parse" -> Len(Checks(slo)) + 5
           [] job = "eval"  -> (Len(Checks(slo)) - Len(results)) + 4
           [] job = "html"  -> 3
           [] job = "push"  -> 2
           [] OTHER         -> 1

\* While the job runs something is left to do, and never more than it has inputs for.
LEMMA LeftBounds ==
    ASSUME VerdictInv
    PROVE  /\ Left \in Nat
           /\ Left = 0 <=> stage # "verdict"
           /\ Left <= Len(Checks(slo)) + 5
<1>1. /\ Len(Checks(slo)) \in Nat /\ Len(results) \in Nat
      /\ Len(results) <= Len(Checks(slo))
  BY ChecksAreChecks, VerdictAssumption DEF VerdictInv, TypeOK, ResultsFollowChecks
<1>2. job \in {"none", "parse", "eval", "html", "push", "pass", "fail"}
  BY DEF VerdictInv, TypeOK
<1> QED
  BY <1>1, <1>2 DEF Left

\* Each step of the job leaves less to do, and no other step leaves more.
LEMMA LeftStep ==
    ASSUME VerdictInv, VerdictInv', [Next]_vars, stage = "verdict"
    PROVE  /\ Job => Left' < Left
           /\ Left' <= Left
<1>1. /\ Len(Checks(slo)) \in Nat /\ Len(results) \in Nat
      /\ Len(results) <= Len(Checks(slo))
  BY ChecksAreChecks, VerdictAssumption DEF VerdictInv, TypeOK, ResultsFollowChecks
<1>2. Left \in Nat /\ Left # 0
  BY LeftBounds
<1>3. slo' = slo /\ Len(Checks(slo))' = Len(Checks(slo))
  BY DEF Checks, vars, runVars, jobVars, scoreVars, Next, Tick, Prepare, PrepareFails, ChaosStep, LoadStep,
         TestOver, Cancel, Job, JobStep, Parse, QueryAt, WriteJSON, WriteHTML, Push, JobOver, ScoreLookup,
         ScoreRead, SyncerReadsScore, Restart
<1>4. CASE stage' # "verdict"
  BY <1>2, <1>4 DEF Left
<1>5. CASE Parse
  BY <1>1, <1>3, <1>5 DEF Left, Parse, JobStep, runVars
<1>6. CASE QueryAt
  <2>1. \/ job' = "fail"
        \/ job' = "eval" /\ Len(results') = Len(results) + 1
    BY <1>6, QueryFacts, AppendResult DEF VerdictInv, TypeOK
  <2>2. job = "eval" /\ stage' = stage /\ Len(results) < Len(Checks(slo))
    BY <1>6 DEF QueryAt, JobStep, runVars
  <2> QED
    BY <1>1, <1>3, <2>1, <2>2 DEF Left
<1>7. CASE WriteJSON
  BY <1>1, <1>3, <1>7 DEF Left, WriteJSON, JobStep, runVars
<1>8. CASE WriteHTML \/ Push
  BY <1>8 DEF Left, WriteHTML, Push, JobStep, runVars
<1>9. CASE ~Job /\ stage' = "verdict"
  <2>1. job' = job /\ results' = results /\ stage' = stage
    BY <1>9 DEF vars, runVars, jobVars, scoreVars, Next, Tick, Prepare, PrepareFails, ChaosStep, LoadStep,
         TestOver, Cancel, ScoreLookup, ScoreRead, SyncerReadsScore, Restart
  <2> QED
    BY <1>1, <1>2, <1>3, <1>9, <2>1 DEF Left
<1>10. CASE JobOver
  BY <1>4, <1>10 DEF JobOver
<1> QED
  BY <1>4, <1>5, <1>6, <1>7, <1>8, <1>9, <1>10 DEF Job

\* A verdict job takes at most five steps and one for each check, whatever its
\* inputs and the answers it gets: no loop of it goes on for ever, so that it ends
\* as soon as it is scheduled and every call of it returns.
THEOREM VerdictIsBoundedHolds ==
    Spec => [][stage = "verdict" =>
                 /\ 0 < Left /\ Left <= Len(Checks(slo)) + 5
                 /\ Job => Left' < Left
                 /\ Left' <= Left /\ 0 <= Left'
                 /\ Left' = 0 <=> stage' = "over"]_vars
<1>1. VerdictInv /\ VerdictInv' /\ [Next]_vars =>
        [stage = "verdict" =>
           /\ 0 < Left /\ Left <= Len(Checks(slo)) + 5
           /\ Job => Left' < Left
           /\ Left' <= Left /\ 0 <= Left'
           /\ Left' = 0 <=> stage' = "over"]_vars
  <2> SUFFICES ASSUME VerdictInv, VerdictInv', [Next]_vars, stage = "verdict"
               PROVE  /\ 0 < Left /\ Left <= Len(Checks(slo)) + 5
                      /\ Job => Left' < Left
                      /\ Left' <= Left /\ 0 <= Left'
                      /\ Left' = 0 <=> stage' = "over"
    OBVIOUS
  <2>1. Left \in Nat /\ Left # 0 /\ Left <= Len(Checks(slo)) + 5
    BY LeftBounds
  <2>2. Left' \in Nat /\ (Left' = 0 <=> stage' # "verdict")
    <3>1. /\ Len(Checks(slo'))\in Nat /\ Len(results') \in Nat
          /\ Len(results') <= Len(Checks(slo'))
      BY ChecksAreChecks, VerdictAssumption, SMTT(20) DEF VerdictInv, TypeOK, ResultsFollowChecks, Checks
    <3>2. Checks(slo)' = Checks(slo')
      BY DEF Checks
    <3> QED
      BY <3>1, <3>2 DEF VerdictInv, TypeOK, Left
  <2>3. stage' \in {"verdict", "over"}
    BY DEF vars, runVars, jobVars, scoreVars, Next, Tick, Prepare, PrepareFails, ChaosStep, LoadStep,
         TestOver, Cancel, Job, JobStep, Parse, QueryAt, WriteJSON, WriteHTML, Push, JobOver, ScoreLookup,
         ScoreRead, SyncerReadsScore, Restart
  <2> QED
    BY <2>1, <2>2, <2>3, LeftStep
<1> QED
  BY <1>1, VerdictInvHolds, PTL DEF Spec

=============================================================================
