--------------------------- MODULE RunQueueProofs ---------------------------
(***************************************************************************)
(* Proofs about RunQueue, for any requests, scenarios and clock: types are *)
(* kept, every accepted POST has a run of its own, the priority that was   *)
(* shown is applied if priorities fit an int32, the defaults stay a map    *)
(* that PUTs change atomically, and the lanes of the queue page are in the *)
(* order of release.                                                       *)
(***************************************************************************)
EXTENDS RunQueue, PriorityStoreProofs, FiniteSetTheorems

-----------------------------------------------------------------------------
(* Data *)

\* The cast to int32 yields an int32, and is the identity on int32s.
LEMMA Int32Facts ==
    ASSUME NEW p \in Int
    PROVE  /\ Int32(p) \in Prios
           /\ p \in Prios => Int32(p) = p
<1>1. Half \in Nat /\ Half >= 1 /\ 2 * Half \in Nat /\ 2 * Half >= 2
  BY QueueAssumption
<1> DEFINE x == p + Half
           w == 2 * Half
<1>2. /\ x % w \in 0..(w - 1)
      /\ x \in 0..(w - 1) => x % w = x
  <2>1. x \in Int /\ w \in Nat /\ w > 0
    BY <1>1
  <2> HIDE DEF x, w
  <2>2. QED
    BY <2>1
<1>3. Int32(p) = (x % w) - Half
  BY DEF Int32
<1>4. p \in Prios => p \in (-Half)..(Half - 1)
  BY StoreAssumption DEF Prios
<1>5. QED
  BY <1>1, <1>2, <1>3, <1>4 DEF Prios

\* What is resolved fits spec.priority.
LEMMA ResolvedFits ==
    ASSUME TypeOK, NEW q \in Posts
    PROVE  /\ ResolvePriority(q) \in Prios
           /\ Baked[order[q].scenario] \in Prios
           /\ order[q].scenario \in Scenarios
           /\ order[q].priority \in Values \cup {None}
<1>1. order[q].scenario \in Scenarios /\ order[q].priority \in Values \cup {None}
  BY DEF TypeOK, QueueTypeOK
<1>2. Baked[order[q].scenario] \in Prios
  BY <1>1, QueueAssumption
<1>3. All[order[q].scenario] \in Values \cup {None}
  BY <1>1, AllFacts DEF TypeOK
<1>4. QED
  BY <1>1, <1>2, <1>3, Int32Facts, StoreAssumption DEF ResolvePriority

\* What is shown as effective is a priority.
LEMMA EffectiveFacts ==
    ASSUME StoreTypeOK, NEW s \in Scenarios
    PROVE  Effective(s) \in Values \cup Prios \cup {0}
BY AllFacts, QueueAssumption DEF Effective, Rank

LEMMA RunFacts ==
    ASSUME QueueTypeOK, NEW q \in Posts
    PROVE  /\ RunOf(q) \in RunIds
           /\ wf[RunOf(q)] \in Workflows
           /\ due[q] \in Prios => Submitted(q) \in Workflows
BY DEF QueueTypeOK, RunOf, RunIds, Submitted, Workflows, WfPhase

-----------------------------------------------------------------------------
(* Types *)

LEMMA InitTyped ==
    ASSUME Init
    PROVE  TypeOK
<1>1. StoreTypeOK
  BY StoreAssumption DEF Init, StoreInit, StoreTypeOK, NoData, Entries, PutState
<1>2. 0 \in 0..MaxTime /\ None \in Prios /\ RunIds # {}
  <2>1. 0 \in 0..MaxTime /\ None \in Prios
    BY QueueAssumption DEF Prios
  <2>2. PICK s \in Scenarios : TRUE
    BY QueueAssumption
  <2>3. [scenario |-> s, second |-> 0] \in RunIds
    BY <2>1, <2>2 DEF RunIds
  <2>4. QED
    BY <2>1, <2>3
<1>3. NoWf \in Workflows
  BY <1>2 DEF NoWf, Workflows, WfPhase
<1>4. (CHOOSE r \in RunIds : TRUE) \in RunIds
  BY <1>2
<1>5. QueueTypeOK
  BY <1>2, <1>3, <1>4, QueueAssumption DEF Init, QueueTypeOK
<1>6. QED
  BY <1>1, <1>5 DEF Init, TypeOK

\* A Workflow whose phase or priority changes is still a Workflow.
LEMMA WfTyped ==
    ASSUME QueueTypeOK, NEW r \in RunIds
    PROVE  /\ \A ph \in WfPhase : [wf EXCEPT ![r].phase = ph] \in [RunIds -> Workflows]
           /\ \A v \in Prios : [wf EXCEPT ![r].priority = v] \in [RunIds -> Workflows]
           /\ \A w \in Workflows : [wf EXCEPT ![r] = w] \in [RunIds -> Workflows]
BY DEF QueueTypeOK, Workflows

\* A failing call of a submission stays within its bound.
LEMMA SubmitFaultBound ==
    ASSUME QueueTypeOK, SubmitFault
    PROVE  submitFaults' \in 0..MaxSubmitFaults
BY QueueAssumption DEF QueueTypeOK, SubmitFault

LEMMA PostTyped ==
    ASSUME QueueInv, NEW q \in Posts, PostNext(q)
    PROVE  QueueTypeOK'
<1>0. QueueTypeOK
  BY DEF QueueInv, TypeOK
<1>1. CASE SubmitNamed(q)
  BY <1>0, <1>1 DEF SubmitNamed, QueueTypeOK, bumpVars
<1>10. CASE SubmitRefused(q)
  BY <1>0, <1>10 DEF SubmitRefused, QueueTypeOK, bumpVars
<1> USE DEF QueueInv, TypeOK
<1>2. CASE SubmitResolve(q)
  BY <1>2, ResolvedFits DEF SubmitResolve, QueueTypeOK, bumpVars
<1>3. CASE SubmitResolveFails(q)
  BY <1>3, ResolvedFits, SubmitFaultBound DEF SubmitResolveFails, QueueTypeOK, bumpVars
<1>4. CASE SubmitCreate(q)
  <2>1. due[q] \in Prios
    BY DEF QueueTypeOK
  <2>2. wf' \in [RunIds -> Workflows]
    <3>1. wf' = wf \/ wf' = [wf EXCEPT ![RunOf(q)] = Submitted(q)]
      BY <1>4 DEF SubmitCreate
    <3>2. RunOf(q) \in RunIds /\ Submitted(q) \in Workflows
      BY <2>1, RunFacts
    <3>3. [wf EXCEPT ![RunOf(q)] = Submitted(q)] \in [RunIds -> Workflows]
      BY <3>2, WfTyped
    <3>4. QED
      BY <3>1, <3>3 DEF QueueTypeOK
  <2>3. QED
    BY <1>4, <2>2 DEF SubmitCreate, QueueTypeOK, bumpVars
<1>5. CASE SubmitCreateFails(q)
  <2>1. due[q] \in Prios
    BY DEF QueueTypeOK
  <2>2. wf' \in [RunIds -> Workflows]
    <3>1. wf' = wf \/ wf' = [wf EXCEPT ![RunOf(q)] = Submitted(q)]
      BY <1>5 DEF SubmitCreateFails
    <3>2. RunOf(q) \in RunIds /\ Submitted(q) \in Workflows
      BY <2>1, RunFacts
    <3>3. [wf EXCEPT ![RunOf(q)] = Submitted(q)] \in [RunIds -> Workflows]
      BY <3>2, WfTyped
    <3>4. QED
      BY <3>1, <3>3 DEF QueueTypeOK
  <2>3. QED
    BY <1>5, <2>2, SubmitFaultBound DEF SubmitCreateFails, QueueTypeOK, bumpVars
<1>6. QED
  BY <1>1, <1>10, <1>2, <1>3, <1>4, <1>5 DEF PostNext

LEMMA BumpTyped ==
    ASSUME QueueInv, NEW b \in Bumps, BumpNext(b)
    PROVE  QueueTypeOK'
<1> USE DEF QueueInv, TypeOK
<1>1. CASE BumpPatch(b)
  <2>1. wish[b] \in Int /\ target[b] \in RunIds
    BY StoreAssumption DEF QueueTypeOK
  <2>2. wf' \in [RunIds -> Workflows]
    BY <1>1, <2>1, Int32Facts, WfTyped DEF BumpPatch
  <2>3. QED
    BY <1>1, <2>2 DEF BumpPatch, QueueTypeOK
<1>2. CASE \E r \in RunIds : BumpFind(b, r)
  BY <1>2 DEF BumpFind, QueueTypeOK
<1>3. CASE BumpCheck(b)
  BY <1>3 DEF BumpCheck, QueueTypeOK
<1>4. CASE BumpFails(b)
  <2>1. wish[b] \in Int /\ target[b] \in RunIds
    BY StoreAssumption DEF QueueTypeOK
  <2>2. [wf EXCEPT ![target[b]].priority = Int32(wish[b])] \in [RunIds -> Workflows]
    BY <2>1, Int32Facts, WfTyped
  <2>3. wf' \in [RunIds -> Workflows]
    BY <1>4, <2>2 DEF BumpFails, QueueTypeOK
  <2>4. QED
    BY <1>4, <2>3, SubmitFaultBound DEF BumpFails, QueueTypeOK
<1>5. QED
  BY <1>1, <1>2, <1>3, <1>4 DEF BumpNext

LEMMA RunTyped ==
    ASSUME QueueInv, NEW r \in RunIds, RunNext(r)
    PROVE  QueueTypeOK'
<1> USE DEF QueueInv, TypeOK
<1>1. CASE InformerSync(r)
  BY <1>1 DEF InformerSync, QueueTypeOK, bumpVars
<1>2. CASE Enqueue(r) \/ Release(r) \/ EndRun(r)
  <2>1. \E ph \in WfPhase : wf' = [wf EXCEPT ![r].phase = ph]
    BY <1>2 DEF Enqueue, Release, EndRun, WfPhase
  <2>2. wf' \in [RunIds -> Workflows]
    BY <2>1, WfTyped
  <2>3. UNCHANGED <<submitFaults, clock, order, post, stamp, due, view, bump, target, wish>>
    BY <1>2 DEF Enqueue, Release, EndRun, bumpVars
  <2>4. QED
    BY <2>2, <2>3 DEF QueueTypeOK
<1>3. QED
  BY <1>1, <1>2 DEF RunNext

\* Steps of RunQueue keep the invariant of the store they read.
LEMMA StoreKept ==
    ASSUME QueueInv, Step
    PROVE  StoreInv'
<1> USE DEF QueueInv
<1>1. CASE StoreStep
  BY <1>1, PutKeepsInv, EditKeepsInv DEF StoreStep, StoreNext
<1>2. CASE UNCHANGED storeVars
  BY <1>2 DEF StoreInv, StoreTypeOK, VersionPinsData, storeVars, configMap, putVars
<1>3. ~StoreStep => UNCHANGED storeVars
  BY DEF Step, Tick, PostNext, SubmitNamed, SubmitResolve, SubmitResolveFails, SubmitCreate,
         SubmitCreateFails, SubmitRefused, BumpNext, BumpPatch, BumpFind, BumpCheck, BumpFails,
         RunNext, Enqueue, Release, EndRun, InformerSync
<1>4. QED
  BY <1>1, <1>2, <1>3

LEMMA StepTyped ==
    ASSUME QueueInv, Next
    PROVE  TypeOK'
<1>1. StoreTypeOK'
  BY StoreKept DEF Next, StoreInv
<1>2. QueueTypeOK'
  <2>1. CASE StoreStep
    BY <2>1 DEF QueueInv, TypeOK, StoreStep, QueueTypeOK, bumpVars
  <2>2. CASE Tick
    BY <2>2, QueueAssumption DEF QueueInv, TypeOK, Tick, QueueTypeOK, bumpVars
  <2>3. QED
    BY <2>1, <2>2, PostTyped, BumpTyped, RunTyped DEF Next, Step
<1>3. ASSUME NEW q \in Posts
      PROVE  Effective(order[q].scenario)' \in Values \cup Prios \cup {0}
  <2>1. order'[q].scenario \in Scenarios
    BY <1>2 DEF QueueTypeOK
  <2>2. QED
    BY <1>1, <2>1, QueueAssumption DEF Effective, Rank, All, StoreTypeOK, Entries
<1>4. offered' \in [Posts -> SUBSET (Values \cup Prios \cup {0})]
  BY <1>3 DEF QueueInv, TypeOK, Next, Observe
<1>5. missed' \in SUBSET Posts
  BY DEF QueueInv, TypeOK, Next, Observe
<1>6. QED
  BY <1>1, <1>2, <1>4, <1>5 DEF TypeOK

-----------------------------------------------------------------------------
(* Accepted runs *)

\* The step creates the run of q and touches no other POST.
CreatedBy(q) ==
    /\ post[q] = "resolved"
    /\ wf[RunOf(q)].phase = "None"
    /\ wf'[RunOf(q)].phase # "None"
    /\ \A p \in Posts : p # q => post'[p] = post[p]

\* What a step may do to POSTs and to the existence of runs.
LEMMA StepShape ==
    ASSUME QueueInv, Step
    PROVE  /\ order' = order
           /\ \A r \in RunIds : wf[r].phase # "None" => wf'[r].phase # "None"
           /\ \A q \in Posts : post[q] \in {"resolved", "accepted"} => stamp'[q] = stamp[q]
           /\ \A q \in Posts : post'[q] = "accepted" /\ post[q] # "accepted" => CreatedBy(q)
<1> USE DEF QueueInv, TypeOK
<1>1. CASE StoreStep \/ Tick
  BY <1>1 DEF StoreStep, Tick
<1>2. CASE \E r \in RunIds : RunNext(r)
  <2>1. PICK r \in RunIds : RunNext(r)
    BY <1>2
  <2>2. wf' = wf \/ \E ph \in WfPhase \ {"None"} : wf' = [wf EXCEPT ![r].phase = ph]
    BY <2>1 DEF RunNext, Enqueue, Release, EndRun, InformerSync, WfPhase
  <2>3. UNCHANGED <<order, post, stamp>>
    BY <2>1 DEF RunNext, Enqueue, Release, EndRun, InformerSync
  <2>4. \A t \in RunIds : wf[t].phase # "None" => wf'[t].phase # "None"
    <3>1. CASE wf' = wf
      BY <3>1
    <3>2. CASE \E ph \in WfPhase \ {"None"} : wf' = [wf EXCEPT ![r].phase = ph]
      BY <3>2 DEF QueueTypeOK, Workflows
    <3>3. QED
      BY <2>2, <3>1, <3>2
  <2>5. QED
    BY <2>3, <2>4
<1>3. CASE \E b \in Bumps : BumpNext(b)
  <2>1. PICK b \in Bumps : BumpNext(b)
    BY <1>3
  <2>2. wf' = wf \/ wf' = [wf EXCEPT ![target[b]].priority = Int32(wish[b])]
    BY <2>1 DEF BumpNext, BumpPatch, BumpFind, BumpCheck, BumpFails
  <2>3. \A r \in RunIds : wf'[r].phase = wf[r].phase
    <3>1. CASE wf' = wf
      BY <3>1
    <3>2. CASE wf' = [wf EXCEPT ![target[b]].priority = Int32(wish[b])]
      BY <3>2 DEF QueueTypeOK, Workflows
    <3>3. QED
      BY <2>2, <3>1, <3>2
  <2>4. UNCHANGED <<order, post, stamp>>
    BY <2>1 DEF BumpNext, BumpPatch, BumpFind, BumpCheck, BumpFails
  <2>5. QED
    BY <2>3, <2>4
<1>4. ASSUME NEW q \in Posts,
             SubmitNamed(q) \/ SubmitRefused(q) \/ SubmitResolve(q) \/ SubmitResolveFails(q)
      PROVE  /\ UNCHANGED <<order, wf>>
             /\ \A p \in Posts : post[p] \in {"resolved", "accepted"} => stamp'[p] = stamp[p]
             /\ \A p \in Posts : post'[p] = "accepted" => post[p] = "accepted"
  BY <1>4 DEF SubmitNamed, SubmitRefused, SubmitResolve, SubmitResolveFails, QueueTypeOK
<1>5. ASSUME NEW q \in Posts, SubmitCreate(q)
      PROVE  /\ UNCHANGED <<order, stamp>>
             /\ post[q] = "resolved"
             /\ \A p \in Posts : p # q => post'[p] = post[p]
             /\ \A r \in RunIds : wf[r].phase # "None" => wf'[r].phase # "None"
             /\ post'[q] = "accepted" => /\ wf[RunOf(q)].phase = "None"
                                        /\ wf'[RunOf(q)].phase # "None"
  <2>1. Submitted(q).phase # "None" /\ RunOf(q) \in RunIds
    BY RunFacts DEF Submitted
  <2>2. CASE wf[RunOf(q)].phase = "None"
    BY <1>5, <2>1, <2>2 DEF SubmitCreate, QueueTypeOK
  <2>3. CASE wf[RunOf(q)].phase # "None"
    BY <1>5, <2>1, <2>3 DEF SubmitCreate, QueueTypeOK
  <2>4. QED
    BY <2>2, <2>3
<1>6. ASSUME NEW q \in Posts, SubmitCreateFails(q)
      PROVE  /\ UNCHANGED <<order, stamp>>
             /\ \A p \in Posts : post'[p] = "accepted" => post[p] = "accepted"
             /\ \A r \in RunIds : wf[r].phase # "None" => wf'[r].phase # "None"
  BY <1>6, RunFacts DEF SubmitCreateFails, Submitted, QueueTypeOK
<1>7. CASE \E q \in Posts : PostNext(q)
  <2>1. PICK q \in Posts : PostNext(q)
    BY <1>7
  <2>2. CASE SubmitNamed(q) \/ SubmitRefused(q) \/ SubmitResolve(q) \/ SubmitResolveFails(q)
    <3>1. order' = order /\ wf' = wf
      BY <1>4, <2>2
    <3>2. /\ \A p \in Posts : post[p] \in {"resolved", "accepted"} => stamp'[p] = stamp[p]
          /\ \A p \in Posts : post'[p] = "accepted" => post[p] = "accepted"
      BY <1>4, <2>2
    <3>3. QED
      BY <3>1, <3>2
  <2>3. CASE SubmitCreate(q)
    <3>1. \A p \in Posts : p # q => post'[p] = post[p]
      BY <1>5, <2>3
    <3>2. post'[q] = "accepted" => CreatedBy(q)
      BY <1>5, <2>3 DEF CreatedBy
    <3>3. QED
      BY <1>5, <2>3, <3>1, <3>2
  <2>4. CASE SubmitCreateFails(q)
    BY <1>6, <2>4
  <2>5. QED
    BY <2>1, <2>2, <2>3, <2>4 DEF PostNext
<1>8. QED
  BY <1>1, <1>2, <1>3, <1>7 DEF Step

LEMMA DistinctKept ==
    ASSUME QueueInv, Next
    PROVE  /\ \A q \in Posts : post'[q] = "accepted" => wf'[RunOf(q)'].phase # "None"
           /\ AcceptedRunsAreDistinct'
<1>1. Step
  BY DEF Next
<1>2. \A q \in Posts : post[q] \in {"resolved", "accepted"} => RunOf(q)' = RunOf(q)
  <2>1. /\ order' = order
        /\ \A q \in Posts : post[q] \in {"resolved", "accepted"} => stamp'[q] = stamp[q]
    BY <1>1, StepShape
  <2>2. QED
    BY <2>1 DEF RunOf
<1>3. \A q \in Posts : RunOf(q) \in RunIds
  BY RunFacts DEF QueueInv, TypeOK
<1>4. ASSUME NEW q \in Posts, post'[q] = "accepted", post[q] # "accepted"
      PROVE  /\ RunOf(q)' = RunOf(q)
             /\ wf[RunOf(q)].phase = "None"
             /\ wf'[RunOf(q)].phase # "None"
             /\ \A p \in Posts : p # q => post'[p] = post[p]
  <2>1. /\ post[q] = "resolved"
        /\ wf[RunOf(q)].phase = "None"
        /\ wf'[RunOf(q)].phase # "None"
        /\ \A p \in Posts : p # q => post'[p] = post[p]
    BY <1>1, <1>4, StepShape DEF CreatedBy
  <2>2. QED
    BY <1>2, <2>1
<1>5. \A q \in Posts : post'[q] = "accepted" => wf'[RunOf(q)'].phase # "None"
  BY <1>1, <1>2, <1>3, <1>4, StepShape DEF QueueInv
<1>6. ASSUME NEW p \in Posts, NEW q \in Posts,
             post'[p] = "accepted", post'[q] = "accepted", RunOf(p)' = RunOf(q)'
      PROVE  p = q
  BY <1>2, <1>4, <1>6 DEF QueueInv, AcceptedRunsAreDistinct
<1>7. QED
  BY <1>5, <1>6 DEF AcceptedRunsAreDistinct

\* Run submission, the store and the queue keep their types; each accepted POST
\* has its Workflow.
THEOREM QueueInvHolds == Spec => []QueueInv
<1>1. Init => QueueInv
  <2>1. ASSUME Init PROVE StoreInv
    BY <2>1, InitTyped DEF TypeOK, StoreInv, VersionPinsData, Init, StoreInit
  <2>2. QED
    BY <2>1, InitTyped DEF QueueInv, Init, AcceptedRunsAreDistinct
<1>2. QueueInv /\ [Next]_vars => QueueInv'
  <2>1. ASSUME QueueInv, Next PROVE QueueInv'
    BY <2>1, StoreKept, StepTyped, DistinctKept DEF QueueInv, Next
  <2>2. ASSUME QueueInv, UNCHANGED vars PROVE QueueInv'
    BY <2>2 DEF QueueInv, StoreInv, StoreTypeOK, VersionPinsData, TypeOK, QueueTypeOK,
                AcceptedRunsAreDistinct, RunOf, vars, storeVars, configMap, putVars, queueVars,
                postVars, bumpVars
  <2>3. QED
    BY <2>1, <2>2
<1>3. QED
  BY <1>1, <1>2, PTL DEF Spec

\* Every variable of the run queue keeps its type; in particular what is written to
\* spec.priority always fits it.
THEOREM TypeCorrect == Spec => []TypeOK
<1>1. QueueInv => TypeOK
  BY DEF QueueInv
<1>2. QED
  BY <1>1, QueueInvHolds, PTL

\* No two POSTs that were answered 202 share a run (submit.go Submit), although run
\* ids repeat within a second.
THEOREM AcceptedRunsAreDistinctHolds == Spec => []AcceptedRunsAreDistinct
<1>1. QueueInv => AcceptedRunsAreDistinct
  BY DEF QueueInv
<1>2. QED
  BY <1>1, QueueInvHolds, PTL

-----------------------------------------------------------------------------
(* The defaults under the submissions *)

\* Submissions, reprioritisations and the engine leave the store of the defaults
\* alone: it keeps the map that it keeps by itself (submit.go only reads it).
THEOREM KeepsMapHolds == Spec => KeepsMap
<1>1. Init => StoreInit
  BY DEF Init
<1>2. [Next]_vars => [StoreNext]_storeVars
  <2>1. UNCHANGED vars => UNCHANGED storeVars
    BY DEF vars
  <2>2. Step => StoreNext \/ UNCHANGED storeVars
    BY DEF Step, StoreStep, Tick, PostNext, SubmitNamed, SubmitResolve, SubmitResolveFails,
       SubmitCreate, SubmitCreateFails, SubmitRefused, BumpNext, BumpFind, BumpCheck, BumpPatch,
       BumpFails, RunNext, Enqueue, Release, EndRun, InformerSync
  <2> QED
    BY <2>1, <2>2 DEF Next
<1>3. Spec => StoreSpec
  BY <1>1, <1>2, PTL DEF Spec, StoreSpec
<1> QED
  BY <1>3, RefinesMap

-----------------------------------------------------------------------------
(* Lanes: what sorting yields *)

\* R is a strict total order on I.
TotalOrder(I, R) ==
    /\ \A i \in I : <<i, i>> \notin R
    /\ \A i, j, k \in I : <<i, j>> \in R /\ <<j, k>> \in R => <<i, k>> \in R
    /\ \A i, j \in I : i # j => <<i, j>> \in R \/ <<j, i>> \in R

\* A finite set in ascending order has each of its elements, once and in order.
LEMMA AscendingFacts ==
    ASSUME NEW I, IsFiniteSet(I), NEW R, TotalOrder(I, R)
    PROVE  /\ Cardinality(I) \in Nat
           /\ \A n \in 1..Cardinality(I) : Q!Ascending(I, R)[n] \in I
           /\ \A i \in I : \E n \in 1..Cardinality(I) : Q!Ascending(I, R)[n] = i
           /\ \A m, n \in 1..Cardinality(I) :
                 m < n => <<Q!Ascending(I, R)[m], Q!Ascending(I, R)[n]>> \in R
<1> DEFINE Below(i) == {j \in I : <<j, i>> \in R}
           Place(i) == Cardinality(Below(i)) + 1
           N == Cardinality(I)
           a == Q!Ascending(I, R)
<1>1. N \in Nat
  BY FS_CardinalityType
<1>2. \A i \in I : IsFiniteSet(Below(i)) /\ Cardinality(Below(i)) \in Nat
  BY FS_Subset, FS_CardinalityType
<1>3. ASSUME NEW i \in I PROVE Place(i) \in 1..N
  <2>1. Below(i) \in SUBSET I /\ Below(i) # I
    BY DEF TotalOrder
  <2>2. Cardinality(Below(i)) <= N /\ (N = Cardinality(Below(i)) => I = Below(i))
    BY <2>1, FS_Subset
  <2> HIDE DEF Below
  <2>3. QED
    BY <1>1, <1>2, <2>1, <2>2
<1>4. ASSUME NEW i \in I, NEW j \in I, <<i, j>> \in R
      PROVE  Place(i) < Place(j)
  <2>1. Below(i) \in SUBSET Below(j) /\ Below(i) # Below(j)
    BY <1>4 DEF TotalOrder
  <2>2. /\ Cardinality(Below(i)) <= Cardinality(Below(j))
        /\ Cardinality(Below(j)) = Cardinality(Below(i)) => Below(j) = Below(i)
    BY <1>2, <2>1, FS_Subset
  <2> HIDE DEF Below
  <2>3. QED
    BY <1>2, <2>1, <2>2
<1>5. a = [n \in 1..N |-> CHOOSE i \in I : Place(i) = n]
  BY DEF Q!Ascending, Q!Cardinality, Cardinality
<1> HIDE DEF Below, Place, N, a
<1> DEFINE place == [i \in I |-> Place(i)]
<1>6. place \in [I -> 1..N] /\ \A i \in I : place[i] = Place(i)
  BY <1>3
<1>7. \A i, j \in I : place[i] = place[j] => i = j
  <2>1. ASSUME NEW i \in I, NEW j \in I, i # j
        PROVE  Place(i) # Place(j)
    <3>1. Place(i) \in Int /\ Place(j) \in Int
      BY <1>1, <1>3
    <3>2. Place(i) < Place(j) \/ Place(j) < Place(i)
      BY <1>4, <2>1 DEF TotalOrder
    <3>3. QED
      BY <3>1, <3>2
  <2>2. QED
    BY <1>6, <2>1
<1>8. \A n \in 1..N : \E i \in I : Place(i) = n
  <2>1. place \in Injection(I, 1..N)
    BY <1>6, <1>7 DEF Injection, IsInjective
  <2>2. IsFiniteSet(1..N) /\ Cardinality(1..N) = N
    BY <1>1, FS_Interval
  <2>3. place \in Surjection(I, 1..N)
    BY <2>1, <2>2, FS_Injection DEF N
  <2>4. QED
    BY <1>6, <2>3 DEF Surjection
<1>9. \A n \in 1..N : a[n] \in I /\ Place(a[n]) = n
  BY <1>5, <1>8
<1>10. ASSUME NEW i \in I
       PROVE  \E n \in 1..N : a[n] = i
  <2>1. Place(i) \in 1..N /\ a[Place(i)] \in I /\ Place(a[Place(i)]) = Place(i)
    BY <1>3, <1>9
  <2>2. QED
    BY <1>6, <1>7, <2>1
<1>11. ASSUME NEW m \in 1..N, NEW n \in 1..N, m < n
       PROVE  <<a[m], a[n]>> \in R
  <2>1. a[m] \in I /\ a[n] \in I /\ Place(a[m]) = m /\ Place(a[n]) = n
    BY <1>9
  <2>2. a[m] # a[n] /\ <<a[n], a[m]>> \notin R
    BY <1>4, <1>11, <2>1, <1>1
  <2>3. QED
    BY <2>1, <2>2 DEF TotalOrder
<1>12. QED
  BY <1>1, <1>9, <1>10, <1>11 DEF a, N

\* Both of BuildLanes' stable sorts have one result.
LEMMA StableOrderTotal ==
    ASSUME NEW l, NEW I \in SUBSET Nat,
           \A i \in I : l[i].priority \in Prios /\ l[i].created \in Int
    PROVE  /\ TotalOrder(I, Q!StableOrder(l, I, Q!Older))
           /\ TotalOrder(I, Q!StableOrder(l, I, Q!Precedes))
<1> DEFINE prio(i) == Q!PrioVal(l[i])
           born(i) == l[i].created
<1>1. \A i \in I : prio(i) \in Int /\ born(i) \in Int /\ i \in Int
  BY QueueAssumption DEF Q!PrioVal, Prios
<1>2. \A i, j \in I : <<i, j>> \in Q!StableOrder(l, I, Q!Older) <=>
          \/ born(i) < born(j)
          \/ ~(born(j) < born(i)) /\ i < j
  BY DEF Q!StableOrder, Q!Older
<1>3. \A i, j \in I : <<i, j>> \in Q!StableOrder(l, I, Q!Precedes) <=>
          \/ prio(i) > prio(j)
          \/ prio(i) = prio(j) /\ born(i) < born(j)
          \/ /\ ~(prio(j) > prio(i))
             /\ ~(prio(j) = prio(i) /\ born(j) < born(i))
             /\ i < j
  BY DEF Q!StableOrder, Q!Precedes, Q!Older
<1> HIDE DEF prio, born
<1>4. TotalOrder(I, Q!StableOrder(l, I, Q!Older))
  <2> DEFINE R == Q!StableOrder(l, I, Q!Older)
  <2>1. \A i, j \in I : <<i, j>> \in R <=>
          \/ born(i) < born(j)
          \/ ~(born(j) < born(i)) /\ i < j
    BY <1>2
  <2> HIDE DEF R
  <2>2. TotalOrder(I, R)
    BY <1>1, <2>1 DEF TotalOrder
  <2>3. QED
    BY <2>2 DEF R
<1>5. TotalOrder(I, Q!StableOrder(l, I, Q!Precedes))
  <2> DEFINE R == Q!StableOrder(l, I, Q!Precedes)
  <2>1. \A i, j \in I : <<i, j>> \in R <=>
          \/ prio(i) > prio(j)
          \/ prio(i) = prio(j) /\ born(i) < born(j)
          \/ /\ ~(prio(j) > prio(i))
             /\ ~(prio(j) = prio(i) /\ born(j) < born(i))
             /\ i < j
    BY <1>3
  <2> HIDE DEF R
  <2>2. TotalOrder(I, R)
    BY <1>1, <2>1 DEF TotalOrder
  <2>3. QED
    BY <2>2 DEF R
<1>6. QED
  BY <1>4, <1>5

\* Entries in the order of R.
Sorted(s, l, I, R) == \A m, n \in DOMAIN s : m < n =>
    \E i, j \in I : s[m] = l[i] /\ s[n] = l[j] /\ <<i, j>> \in R

\* The sorted entries of a lane: each place once, in order.
LEMMA InOrderFacts ==
    ASSUME NEW l, NEW I, IsFiniteSet(I), NEW R, TotalOrder(I, R),
           NEW s, s = Q!InOrder(l, I, R)
    PROVE  /\ Len(s) = Cardinality(I)
           /\ \A n \in DOMAIN s : \E i \in I : s[n] = l[i]
           /\ \A i \in I : \E n \in DOMAIN s : s[n] = l[i]
           /\ Sorted(s, l, I, R)
<1> DEFINE a == Q!Ascending(I, R)
           N == Cardinality(I)
<1>1. /\ N \in Nat
      /\ \A n \in 1..N : a[n] \in I
      /\ \A i \in I : \E n \in 1..N : a[n] = i
      /\ \A m, n \in 1..N : m < n => <<a[m], a[n]>> \in R
  BY AscendingFacts
<1>2. s = [n \in 1..N |-> l[a[n]]]
  BY DEF Q!InOrder, Q!Cardinality, Cardinality
<1> HIDE DEF a, N
<1>3. /\ s = [n \in 1..N |-> s[n]]
      /\ DOMAIN s = 1..N
      /\ \A n \in DOMAIN s : s[n] = l[a[n]]
  BY <1>2
<1>4. \A n \in DOMAIN s : \E i \in I : s[n] = l[i]
  BY <1>1, <1>3
<1>5. \A i \in I : \E n \in DOMAIN s : s[n] = l[i]
  BY <1>1, <1>3
<1>6. Sorted(s, l, I, R)
  BY <1>1, <1>3 DEF Sorted
<1>7. QED
  <2>1. Len(s) = N
    BY <1>1, <1>3
  <2>2. QED
    BY <2>1, <1>4, <1>5, <1>6 DEF N

-----------------------------------------------------------------------------
(* Lanes: any list of workflows *)

\* The places of the live workflows whose status names the lock k.
Holding(wfs, k) == {i \in DOMAIN wfs : Q!LiveWf(wfs[i]) /\ Q!Names(wfs[i].holding, k)}
Awaiting(wfs, k) == {i \in DOMAIN wfs : Q!LiveWf(wfs[i]) /\ Q!Names(wfs[i].waiting, k)}

\* The entries are workflows at the places M, and each of their ids is there once.
ShowsOnce(s, wfs, M) ==
    /\ \A n \in DOMAIN s : \E i \in M : s[n] = wfs[i]
    /\ \A i \in M : \E n \in DOMAIN s : s[n].id = wfs[i].id
    /\ \A m, n \in DOMAIN s : s[m].id = s[n].id => m = n

\* A finite set of numbers that is not empty has a least one.
LEMMA LeastPlace ==
    ASSUME NEW I \in SUBSET Nat, IsFiniteSet(I), I # {}
    PROVE  \E i \in I : \A j \in I : i <= j
<1> DEFINE R == {p \in I \X I : p[1] < p[2]}
           a == Q!Ascending(I, R)
           N == Cardinality(I)
<1>1. \A i, j \in I : <<i, j>> \in R <=> i < j
  OBVIOUS
<1> HIDE DEF R
<1>2. TotalOrder(I, R)
  BY <1>1 DEF TotalOrder
<1>3. /\ N \in Nat
      /\ \A n \in 1..N : a[n] \in I
      /\ \A i \in I : \E n \in 1..N : a[n] = i
      /\ \A m, n \in 1..N : m < n => <<a[m], a[n]>> \in R
  BY <1>2, AscendingFacts
<1> HIDE DEF a, N
<1>4. 1 \in 1..N /\ a[1] \in I
  <2>1. PICK i \in I : i \in I
    OBVIOUS
  <2>2. PICK n \in 1..N : a[n] = i
    BY <1>3, <2>1
  <2>3. 1 \in 1..N
    BY <1>3, <2>2
  <2> QED
    BY <1>3, <2>3
<1>5. ASSUME NEW j \in I PROVE a[1] <= j
  <2>1. PICK n \in 1..N : a[n] = j
    BY <1>3
  <2>2. CASE n = 1
    BY <1>4, <2>1, <2>2
  <2>3. CASE n # 1
    <3>1. 1 < n
      BY <1>3, <2>3
    <3>2. a[1] < a[n]
      BY <1>1, <1>3, <1>4, <2>1, <3>1
    <3>3. a[1] \in Nat /\ j \in Nat
      BY <1>4
    <3> QED
      BY <2>1, <3>2, <3>3
  <2> QED
    BY <2>2, <2>3
<1> QED
  BY <1>4, <1>5

\* Of the places with one id, addEntry keeps the first.
LEMMA DistinctFacts ==
    ASSUME NEW wfs, NEW M \in SUBSET Nat, IsFiniteSet(M)
    PROVE  /\ Q!Distinct(wfs, M) \subseteq M /\ IsFiniteSet(Q!Distinct(wfs, M))
           /\ \A i \in M : \E j \in Q!Distinct(wfs, M) : wfs[j].id = wfs[i].id
           /\ \A i, j \in Q!Distinct(wfs, M) : wfs[i].id = wfs[j].id => i = j
<1>1. Q!Distinct(wfs, M) \in SUBSET M /\ IsFiniteSet(Q!Distinct(wfs, M))
  <2>1. Q!Distinct(wfs, M) \in SUBSET M
    BY DEF Q!Distinct
  <2> QED
    BY <2>1, FS_Subset
<1>2. ASSUME NEW i \in M
      PROVE  \E j \in Q!Distinct(wfs, M) : wfs[j].id = wfs[i].id
  <2> DEFINE I == {j \in M : wfs[j].id = wfs[i].id}
  <2>1. I \in SUBSET M /\ i \in I
    OBVIOUS
  <2>2. I \in SUBSET Nat /\ IsFiniteSet(I) /\ I # {}
    BY <2>1, FS_Subset
  <2>3. \A j : j \in I <=> j \in M /\ wfs[j].id = wfs[i].id
    OBVIOUS
  <2> HIDE DEF I
  <2>4. PICK j \in I : \A h \in I : j <= h
    BY <2>2, LeastPlace
  <2> QED
    BY <2>3, <2>4 DEF Q!Distinct
<1>3. ASSUME NEW i \in Q!Distinct(wfs, M), NEW j \in Q!Distinct(wfs, M), wfs[i].id = wfs[j].id
      PROVE  i = j
  <2>1. i \in Nat /\ j \in Nat /\ i <= j /\ j <= i
    BY <1>1, <1>3 DEF Q!Distinct
  <2> QED
    BY <2>1
<1> QED
  BY <1>1, <1>2, <1>3

\* What addEntry keeps of the places M.
Kept(I, wfs, M) == I = Q!Distinct(wfs, M)

\* Sorting what addEntry has kept loses no id and repeats none.
LEMMA SortedOnce ==
    ASSUME NEW wfs, NEW M \in SUBSET Nat, IsFiniteSet(M), NEW I, Kept(I, wfs, M),
           NEW R, TotalOrder(I, R)
    PROVE  /\ ShowsOnce(Q!InOrder(wfs, I, R), wfs, M)
           /\ Sorted(Q!InOrder(wfs, I, R), wfs, I, R)
<1> DEFINE s == Q!InOrder(wfs, I, R)
<1>1. /\ I \subseteq M /\ IsFiniteSet(I)
      /\ \A i \in M : \E j \in I : wfs[j].id = wfs[i].id
      /\ \A i, j \in I : wfs[i].id = wfs[j].id => i = j
  BY DistinctFacts DEF Kept
<1>2. /\ Sorted(s, wfs, I, R)
      /\ \A n \in DOMAIN s : \E i \in I : s[n] = wfs[i]
      /\ \A i \in I : \E n \in DOMAIN s : s[n] = wfs[i]
      /\ DOMAIN s \subseteq Int
  <2>1. DOMAIN s = 1..Cardinality(I) /\ Cardinality(I) \in Nat
    BY <1>1, FS_CardinalityType DEF Q!InOrder, Q!Cardinality, Cardinality
  <2>2. IsFiniteSet(I)
    BY <1>1
  <2>3. Sorted(s, wfs, I, R)
    BY <2>2, InOrderFacts
  <2>4. /\ \A n \in DOMAIN s : \E i \in I : s[n] = wfs[i]
        /\ \A i \in I : \E n \in DOMAIN s : s[n] = wfs[i]
    BY <2>2, InOrderFacts
  <2> QED
    BY <2>1, <2>3, <2>4
<1> HIDE DEF s
<1>3. ASSUME NEW m \in DOMAIN s, NEW n \in DOMAIN s, m < n
      PROVE  s[m].id # s[n].id
  <2>1. PICK i \in I, j \in I : s[m] = wfs[i] /\ s[n] = wfs[j] /\ <<i, j>> \in R
    BY <1>2, <1>3, ZenonT(40) DEF Sorted
  <2> QED
    BY <1>1, <2>1 DEF TotalOrder
<1>4. ShowsOnce(s, wfs, M)
  BY <1>1, <1>2, <1>3 DEF ShowsOnce
<1> QED
  BY <1>2, <1>4 DEF s

\* A lane shows each live workflow that holds its lock, or waits for it, exactly
\* once (queue.go BuildLanes, addEntry): for any list of workflows, in which one may
\* be listed twice or name a lock twice. Holders are listed oldest first, waiters by
\* priority and then oldest first.
THEOREM LaneIsSorted ==
    ASSUME NEW wfs, NEW n \in Nat, DOMAIN wfs = 1..n, NEW k,
           \A i \in 1..n : wfs[i].priority \in Prios /\ wfs[i].created \in Int
    PROVE  /\ ShowsOnce(Q!BuildLane(wfs, k).running, wfs, Holding(wfs, k))
           /\ ShowsOnce(Q!BuildLane(wfs, k).pending, wfs, Awaiting(wfs, k))
           /\ \A i, j \in DOMAIN Q!BuildLane(wfs, k).running : i < j =>
                 ~Q!Older(Q!BuildLane(wfs, k).running[j], Q!BuildLane(wfs, k).running[i])
           /\ \A i, j \in DOMAIN Q!BuildLane(wfs, k).pending : i < j =>
                 ~Q!Precedes(Q!BuildLane(wfs, k).pending[j], Q!BuildLane(wfs, k).pending[i])
<1> DEFINE H == Q!Holders(wfs, k)
           W == Q!Waiters(wfs, k)
           RH == Q!StableOrder(wfs, H, Q!Older)
           RW == Q!StableOrder(wfs, W, Q!Precedes)
           running == Q!BuildLane(wfs, k).running
           pending == Q!BuildLane(wfs, k).pending
<1>1. running = Q!InOrder(wfs, H, RH) /\ pending = Q!InOrder(wfs, W, RW)
  BY DEF Q!BuildLane
<1>2. Kept(H, wfs, Holding(wfs, k)) /\ Kept(W, wfs, Awaiting(wfs, k))
  BY DEF Kept, Q!Holders, Q!Waiters, Holding, Awaiting
<1> HIDE DEF running, pending, H, W
<1>3. /\ Holding(wfs, k) \in SUBSET (1..n) /\ IsFiniteSet(Holding(wfs, k))
      /\ Awaiting(wfs, k) \in SUBSET (1..n) /\ IsFiniteSet(Awaiting(wfs, k))
  <2>1. Holding(wfs, k) \in SUBSET (1..n) /\ Awaiting(wfs, k) \in SUBSET (1..n)
    BY DEF Holding, Awaiting
  <2>2. IsFiniteSet(1..n)
    BY FS_Interval
  <2> QED
    BY <2>1, <2>2, FS_Subset
<1>4. H \in SUBSET (1..n) /\ W \in SUBSET (1..n)
  BY <1>2, <1>3 DEF Kept, Q!Distinct
<1>5. TotalOrder(H, RH) /\ TotalOrder(W, RW)
  <2>1. H \in SUBSET Nat /\ W \in SUBSET Nat
    BY <1>4
  <2>2. /\ \A i \in H : wfs[i].priority \in Prios /\ wfs[i].created \in Int
        /\ \A i \in W : wfs[i].priority \in Prios /\ wfs[i].created \in Int
    BY <1>4
  <2> QED
    BY <2>1, <2>2, StableOrderTotal
<1> HIDE DEF RH, RW
<1>6. ShowsOnce(running, wfs, Holding(wfs, k)) /\ Sorted(running, wfs, H, RH)
  <2>1. Holding(wfs, k) \in SUBSET Nat
    BY <1>3
  <2> QED
    BY <1>1, <1>2, <1>3, <1>5, <2>1, SortedOnce
<1>7. ShowsOnce(pending, wfs, Awaiting(wfs, k)) /\ Sorted(pending, wfs, W, RW)
  <2>1. Awaiting(wfs, k) \in SUBSET Nat
    BY <1>3
  <2> QED
    BY <1>1, <1>2, <1>3, <1>5, <2>1, SortedOnce
<1>8. \A i, j \in DOMAIN running : i < j => ~Q!Older(running[j], running[i])
  <2> SUFFICES ASSUME NEW i \in DOMAIN running, NEW j \in DOMAIN running, i < j
               PROVE  ~Q!Older(running[j], running[i])
    OBVIOUS
  <2>1. PICK p \in H, q \in H : running[i] = wfs[p] /\ running[j] = wfs[q] /\ <<p, q>> \in RH
    BY <1>6, ZenonT(40) DEF Sorted
  <2>2. wfs[p].created \in Int /\ wfs[q].created \in Int
    BY <1>4
  <2> QED
    BY <2>1, <2>2 DEF RH, Q!StableOrder, Q!Older
<1>9. \A i, j \in DOMAIN pending : i < j => ~Q!Precedes(pending[j], pending[i])
  <2> SUFFICES ASSUME NEW i \in DOMAIN pending, NEW j \in DOMAIN pending, i < j
               PROVE  ~Q!Precedes(pending[j], pending[i])
    OBVIOUS
  <2>1. PICK p \in W, q \in W : pending[i] = wfs[p] /\ pending[j] = wfs[q] /\ <<p, q>> \in RW
    BY <1>7, ZenonT(40) DEF Sorted
  <2>2. /\ wfs[p].created \in Int /\ wfs[q].created \in Int
        /\ Q!PrioVal(wfs[p]) \in Int /\ Q!PrioVal(wfs[q]) \in Int
    BY <1>4, QueueAssumption DEF Q!PrioVal, Prios
  <2> QED
    BY <2>1, <2>2 DEF RW, Q!StableOrder, Q!Precedes, Q!Older
<1> QED
  BY <1>6, <1>7, <1>8, <1>9 DEF running, pending

-----------------------------------------------------------------------------
(* Lanes: the page *)

LEMMA RunIdsFinite == IsFiniteSet(RunIds)
<1> DEFINE P == Scenarios \X (0..MaxTime)
           f == [p \in P |-> [scenario |-> p[1], second |-> p[2]]]
<1>1. IsFiniteSet(0..MaxTime)
  BY QueueAssumption, FS_Interval
<1>2. IsFiniteSet(P)
  BY <1>1, QueueAssumption, FS_Product
<1>3. f \in Surjection(P, RunIds)
  <2>1. f \in [P -> RunIds]
    BY DEF RunIds
  <2>2. ASSUME NEW r \in RunIds PROVE \E p \in P : f[p] = r
    <3>1. r.scenario \in Scenarios /\ r.second \in 0..MaxTime
      BY DEF RunIds
    <3>2. <<r.scenario, r.second>> \in P
      BY <3>1
    <3>3. f[<<r.scenario, r.second>>] = [scenario |-> r.scenario, second |-> r.second]
      BY <3>2
    <3>4. [scenario |-> r.scenario, second |-> r.second] = r
      BY DEF RunIds
    <3>5. QED
      BY <3>2, <3>3, <3>4
  <2>3. QED
    BY <2>1, <2>2 DEF Surjection
<1>4. QED
  BY <1>2, <1>3, FS_Surjection

\* The runs of the cache.
Known == {r \in RunIds : view[r].phase # "None"}

\* A listing has each run of the cache once, with what the cache says of it.
LEMMA ListingFacts ==
    ASSUME NEW l \in Listings
    PROVE  /\ Cardinality(Known) \in Nat
           /\ DOMAIN l = 1..Cardinality(Known)
           /\ \A i \in DOMAIN l : l[i].id \in Known /\ l[i] = Listed(l[i].id)
           /\ \A r \in Known : \E i \in DOMAIN l : l[i].id = r
           /\ \A i, j \in DOMAIN l : l[i].id = l[j].id => i = j
<1> DEFINE n == Cardinality(Known)
           f == [i \in 1..n |-> l[i].id]
<1>1. IsFiniteSet(Known) /\ n \in Nat
  <2>1. Known \in SUBSET RunIds
    BY DEF Known
  <2>2. IsFiniteSet(Known)
    BY <2>1, RunIdsFinite, FS_Subset
  <2>3. QED
    BY <2>2, FS_CardinalityType
<1>2. /\ l \in [1..n -> {Listed(r) : r \in Known}]
      /\ {l[i].id : i \in 1..n} = Known
  BY DEF Listings, Known
<1> HIDE DEF n
<1>3. \A i \in 1..n : l[i].id \in Known /\ l[i] = Listed(l[i].id)
  <2>1. ASSUME NEW i \in 1..n PROVE l[i] = Listed(l[i].id)
    <3>1. PICK r \in Known : l[i] = Listed(r)
      BY <1>2
    <3>2. Listed(r).id = r
      BY DEF Listed
    <3>3. QED
      BY <3>1, <3>2
  <2>2. QED
    BY <1>2, <2>1
<1>4. \A r \in Known : \E i \in 1..n : l[i].id = r
  BY <1>2
<1>5. \A i, j \in 1..n : l[i].id = l[j].id => i = j
  <2>1. f \in Surjection(1..n, Known)
    BY <1>3, <1>4 DEF Surjection
  <2>2. IsFiniteSet(1..n) /\ Cardinality(1..n) = Cardinality(Known)
    BY <1>1, FS_Interval DEF n
  <2>3. f \in Injection(1..n, Known)
    BY <2>1, <2>2, FS_SurjSameCardinalityImpliesInj
  <2>4. QED
    BY <2>3 DEF Injection, IsInjective
<1>6. QED
  BY <1>1, <1>2, <1>3, <1>4, <1>5 DEF n

\* The places of a listing that hold, or wait for, the lock k.
LEMMA MemberFacts ==
    ASSUME NEW l \in Listings, NEW k
    PROVE  /\ Q!Holders(l, k) = {i \in DOMAIN l : /\ view[l[i].id].phase = "Running"
                                                  /\ LaneOf[l[i].id.scenario] = k}
           /\ Q!Waiters(l, k) = {i \in DOMAIN l : /\ view[l[i].id].phase = "Waiting"
                                                  /\ LaneOf[l[i].id.scenario] = k}
<1>1. ASSUME NEW i \in DOMAIN l
      PROVE  /\ Q!LiveWf(l[i]) <=> view[l[i].id].phase # "Done"
             /\ Q!Names(l[i].holding, k) <=> /\ view[l[i].id].phase \in {"Running", "Done"}
                                             /\ LaneOf[l[i].id.scenario] = k
             /\ Q!Names(l[i].waiting, k) <=> /\ view[l[i].id].phase = "Waiting"
                                             /\ LaneOf[l[i].id.scenario] = k
  <2> DEFINE r == l[i].id
             lock == <<[map |-> "dlh-scenario-locks", key |-> LaneOf[r.scenario]]>>
  <2>1. l[i] = Listed(r)
    BY ListingFacts
  <2> HIDE DEF r
  <2>2. /\ l[i].phase = view[r].phase
        /\ l[i].holding = IF view[r].phase \in {"Running", "Done"} THEN lock ELSE <<>>
        /\ l[i].waiting = IF view[r].phase = "Waiting" THEN lock ELSE <<>>
    BY <2>1 DEF Listed
  <2>3. Q!Names(lock, k) <=> LaneOf[r.scenario] = k
    BY DEF Q!Names, Q!LockKey
  <2>4. ~Q!Names(<<>>, k)
    BY DEF Q!Names
  <2>5. QED
    BY <2>2, <2>3, <2>4 DEF Q!LiveWf, r
<1>2. \A i, j \in DOMAIN l : l[i].id = l[j].id => i = j
  BY ListingFacts
<1>3. DOMAIN l \subseteq Nat
  BY ListingFacts
<1>4. QED
  BY <1>1, <1>2, <1>3 DEF Q!Holders, Q!Waiters, Q!Distinct

\* The places of l whose run is in phase ph under the lock k.
PlacesOf(I, l, k, ph) == \A i : i \in I <=>
    i \in DOMAIN l /\ view[l[i].id].phase = ph /\ LaneOf[l[i].id.scenario] = k

\* The runs in phase ph under the lock k.
RunsOf(k, ph) == {r \in Lane(k) : view[r].phase = ph}

\* Entries that show each of these runs once.
Shows(s, runs) == {s[n].id : n \in DOMAIN s} = runs /\ Len(s) = Cardinality(runs)

\* One side of a lane: the members of the listing that are in some phase there.
LEMMA SideFacts ==
    ASSUME NEW l \in Listings, NEW k, NEW ph, ph # "None", NEW R,
           NEW I, PlacesOf(I, l, k, ph), TotalOrder(I, R)
    PROVE  IsFiniteSet(I) /\ Shows(Q!InOrder(l, I, R), RunsOf(k, ph))
<1> DEFINE s == Q!InOrder(l, I, R)
           runs == RunsOf(k, ph)
           f == [i \in I |-> l[i].id]
<1>1. IsFiniteSet(I) /\ I \subseteq DOMAIN l
  <2>1. Cardinality(Known) \in Nat /\ DOMAIN l = 1..Cardinality(Known)
    BY ListingFacts
  <2> DEFINE n == Cardinality(Known)
  <2> HIDE DEF n
  <2>2. IsFiniteSet(1..n)
    BY <2>1, FS_Interval DEF n
  <2>3. IsFiniteSet(DOMAIN l) /\ I \in SUBSET DOMAIN l
    BY <2>1, <2>2 DEF n, PlacesOf
  <2>4. QED
    BY <2>3, FS_Subset
<1>2. /\ \A i \in I : l[i].id \in runs
      /\ \A r \in runs : \E i \in I : l[i].id = r
  <2>1. /\ \A i \in DOMAIN l : l[i].id \in Known
        /\ \A r \in Known : \E i \in DOMAIN l : l[i].id = r
    BY ListingFacts
  <2>2. \A r : r \in runs <=> /\ r \in RunIds /\ LaneOf[r.scenario] = k
                              /\ view[r].phase = ph
    BY DEF Lane, RunsOf
  <2> HIDE DEF runs
  <2>3. \A r \in runs : r \in Known
    BY <2>2 DEF Known
  <2>4. \A i \in I : l[i].id \in runs
    <3>1. \A i \in I : /\ i \in DOMAIN l /\ view[l[i].id].phase = ph
                       /\ LaneOf[l[i].id.scenario] = k
      BY DEF PlacesOf
    <3>2. QED
      BY <2>1, <2>2, <3>1 DEF Known
  <2>5. \A r \in runs : \E i \in I : l[i].id = r
    BY <2>1, <2>2, <2>3 DEF PlacesOf
  <2>6. QED
    BY <2>4, <2>5
<1>3. /\ Len(s) = Cardinality(I)
      /\ \A n \in DOMAIN s : \E i \in I : s[n] = l[i]
      /\ \A i \in I : \E n \in DOMAIN s : s[n] = l[i]
  BY <1>1, InOrderFacts
<1> HIDE DEF s, runs
<1>4. {s[n].id : n \in DOMAIN s} = runs
  BY <1>2, <1>3
<1>5. Cardinality(runs) = Cardinality(I)
  <2>1. \A i, j \in I : l[i].id = l[j].id => i = j
    BY <1>1, ListingFacts
  <2>2. f \in Bijection(I, runs)
    BY <1>2, <2>1 DEF Bijection, Injection, Surjection, IsInjective
  <2>3. QED
    BY <1>1, <2>2, FS_Bijection DEF ExistsBijection
<1>6. QED
  BY <1>1, <1>3, <1>4, <1>5 DEF Shows, s, runs

\* The queue page shows who holds each lock, and who waits for it in the order in
\* which the engine releases them (queue.go BuildLanes), for any cache, listing,
\* lock and priorities.
LEMMA LanesInOrder ==
    ASSUME QueueTypeOK
    PROVE  QueueShowsReleaseOrder
<1> SUFFICES ASSUME view = wf, NEW l \in Listings, NEW k
             PROVE  LET lane == Q!BuildLanes(l, <<k>>)[1] IN
                    /\ {lane.running[i].id : i \in DOMAIN lane.running} = HoldersOf(k)
                    /\ {lane.pending[i].id : i \in DOMAIN lane.pending} = WaitingIn(k)
                    /\ Len(lane.pending) = Cardinality(WaitingIn(k))
                    /\ \A i, j \in DOMAIN lane.pending : i < j =>
                          ~Outranks(wf[lane.pending[j].id], wf[lane.pending[i].id])
  BY DEF QueueShowsReleaseOrder
<1> DEFINE H == Q!Holders(l, k)
           W == Q!Waiters(l, k)
           RH == Q!StableOrder(l, H, Q!Older)
           RW == Q!StableOrder(l, W, Q!Precedes)
           lane == Q!BuildLanes(l, <<k>>)[1]
<1>1. lane.running = Q!InOrder(l, H, RH) /\ lane.pending = Q!InOrder(l, W, RW)
  BY DEF Q!BuildLanes, Q!BuildLane
<1>2. /\ H = {i \in DOMAIN l : /\ view[l[i].id].phase = "Running"
                               /\ LaneOf[l[i].id.scenario] = k}
      /\ W = {i \in DOMAIN l : /\ view[l[i].id].phase = "Waiting"
                               /\ LaneOf[l[i].id.scenario] = k}
  BY MemberFacts
<1>3. ASSUME NEW i \in DOMAIN l
      PROVE  /\ i \in Nat
             /\ l[i].id \in RunIds
             /\ l[i].priority = view[l[i].id].priority /\ l[i].priority \in Prios
             /\ l[i].created = view[l[i].id].created /\ l[i].created \in Int
  <2>1. i \in Nat /\ l[i].id \in RunIds /\ l[i] = Listed(l[i].id)
    <3>1. DOMAIN l = 1..Cardinality(Known) /\ l[i].id \in Known /\ l[i] = Listed(l[i].id)
      BY ListingFacts
    <3>2. QED
      BY <3>1 DEF Known
  <2>2. view[l[i].id] \in Workflows
    BY <2>1 DEF QueueTypeOK
  <2>3. QED
    BY <2>1, <2>2, QueueAssumption DEF Listed, Workflows
<1> HIDE DEF lane
<1>4. /\ H \in SUBSET Nat /\ W \in SUBSET Nat
      /\ \A i \in H : l[i].priority \in Prios /\ l[i].created \in Int
      /\ \A i \in W : l[i].priority \in Prios /\ l[i].created \in Int
  BY <1>2, <1>3
<1>5. TotalOrder(H, RH) /\ TotalOrder(W, RW)
  BY <1>4, StableOrderTotal
<1> DEFINE holding == lane.running
           pending == lane.pending
<1>6. holding = Q!InOrder(l, H, RH) /\ pending = Q!InOrder(l, W, RW)
  BY <1>1
<1> HIDE DEF H, W, RH, RW, holding, pending
<1>7. Shows(holding, HoldersOf(k))
  <2>1. HoldersOf(k) = RunsOf(k, "Running")
    BY DEF HoldersOf, RunsOf
  <2>2. PlacesOf(H, l, k, "Running")
    BY <1>2 DEF PlacesOf
  <2>3. QED
    BY <1>6, <1>5, <2>1, <2>2, SideFacts
<1>8. Shows(pending, WaitingIn(k)) /\ IsFiniteSet(W)
  <2>1. WaitingIn(k) = RunsOf(k, "Waiting")
    BY DEF WaitingIn, RunsOf
  <2>2. PlacesOf(W, l, k, "Waiting")
    BY <1>2 DEF PlacesOf
  <2>3. QED
    BY <1>6, <1>5, <2>1, <2>2, SideFacts
<1>9. ASSUME NEW m \in DOMAIN pending, NEW n \in DOMAIN pending, m < n
      PROVE  ~Outranks(wf[pending[n].id], wf[pending[m].id])
  <2>1. PICK i \in W, j \in W : /\ pending[m] = l[i] /\ pending[n] = l[j]
                                /\ <<i, j>> \in RW
    <3>1. Sorted(pending, l, W, RW)
      BY <1>6, <1>5, <1>8, InOrderFacts
    <3>2. QED
      BY <3>1, <1>9, ZenonT(40) DEF Sorted
  <2>2. Q!Precedes(l[i], l[j]) \/ ~Q!Precedes(l[j], l[i])
    BY <2>1 DEF Q!StableOrder, RW
  <2> DEFINE x == wf[l[i].id]
             y == wf[l[j].id]
  <2>3. /\ l[i].priority = x.priority /\ x.priority \in Prios
        /\ l[j].priority = y.priority /\ y.priority \in Prios
        /\ l[i].created = x.created /\ x.created \in Int
        /\ l[j].created = y.created /\ y.created \in Int
    BY <1>2, <1>3, <2>1
  <2>4. Q!PrioVal(l[i]) = Rank(x.priority) /\ Q!PrioVal(l[j]) = Rank(y.priority)
    BY <2>3 DEF Q!PrioVal, Rank
  <2>5. Rank(x.priority) \in Int /\ Rank(y.priority) \in Int
    BY <2>3, QueueAssumption DEF Rank, Prios
  <2> HIDE DEF x, y
  <2>6. ~Outranks(y, x)
    BY <2>2, <2>3, <2>4, <2>5 DEF Q!Precedes, Q!Older, Outranks
  <2>7. QED
    BY <2>1, <2>6 DEF x, y
<1>10. QED
  BY <1>7, <1>8, <1>9 DEF Shows, lane, holding, pending

\* The queue page is right about each lane in every state in which the informer
\* has caught up (queue.go BuildLanes, workflows.go List, the engine's order).
THEOREM QueueShowsReleaseOrderHolds == Spec => []QueueShowsReleaseOrder
<1>1. QueueInv => QueueShowsReleaseOrder
  BY LanesInOrder DEF QueueInv, TypeOK
<1>2. QED
  BY <1>1, QueueInvHolds, PTL

-----------------------------------------------------------------------------
(* Effective priorities *)

\* A POST that has read its template knows the default now in force, and one that
\* has resolved its priority has a right one.
EffectInv ==
    /\ \A q \in Posts : post[q] = "named" =>
           Effective(order[q].scenario) \in offered[q] /\ q \notin missed
    /\ \A q \in Posts : post[q] = "start" => q \notin missed
    /\ EffectiveIsApplied

\* Only resolving sets a priority.
LEMMA DueShape ==
    ASSUME QueueInv, Step, NEW q \in Posts, post'[q] \in {"resolved", "accepted"}
    PROVE  \/ SubmitResolve(q) \/ SubmitResolveFails(q)
           \/ post[q] \in {"resolved", "accepted"} /\ due'[q] = due[q]
<1> USE DEF QueueInv, TypeOK
<1>1. CASE post' = post /\ due' = due
  BY <1>1
<1>2. CASE \E p \in Posts : PostNext(p)
  <2>1. PICK p \in Posts : PostNext(p)
    BY <1>2
  <2>2. CASE SubmitNamed(p) \/ SubmitRefused(p)
    BY <2>2 DEF SubmitNamed, SubmitRefused, QueueTypeOK
  <2>3. CASE SubmitResolve(p) \/ SubmitResolveFails(p)
    BY <2>3 DEF SubmitResolve, SubmitResolveFails, QueueTypeOK
  <2>4. CASE SubmitCreate(p)
    BY <2>4 DEF SubmitCreate, QueueTypeOK
  <2>5. CASE SubmitCreateFails(p)
    BY <2>5 DEF SubmitCreateFails, QueueTypeOK
  <2>6. QED
    BY <2>1, <2>2, <2>3, <2>4, <2>5 DEF PostNext
<1>3. QED
  BY <1>1, <1>2 DEF Step, StoreStep, Tick, BumpNext, BumpPatch, BumpFind, BumpCheck,
                    BumpFails, RunNext, Enqueue, Release, EndRun, InformerSync

\* Nothing goes back to its start, and only what is at the start gets a run id.
LEMMA NamedShape ==
    ASSUME QueueInv, Step, NEW q \in Posts
    PROVE  /\ post'[q] = "named" => post[q] \in {"start", "named"}
           /\ post'[q] = "start" => post[q] = "start"
<1> USE DEF QueueInv, TypeOK, QueueTypeOK
<1>1. CASE post' = post
  BY <1>1
<1>2. CASE \E p \in Posts : PostNext(p)
  BY <1>2 DEF PostNext, SubmitNamed, SubmitRefused, SubmitResolve, SubmitResolveFails,
              SubmitCreate, SubmitCreateFails
<1>3. QED
  BY <1>1, <1>2 DEF Step, StoreStep, Tick, BumpNext, BumpPatch, BumpFind, BumpCheck,
                    BumpFails, RunNext, Enqueue, Release, EndRun, InformerSync

\* What is resolved is what was asked for or what is shown.
LEMMA ResolvedIsShown ==
    ASSUME QueueInv, Values \subseteq Prios, NEW q \in Posts
    PROVE  Rank(ResolvePriority(q)) = IF order[q].priority # None THEN order[q].priority
                                      ELSE Effective(order[q].scenario)
<1>1. order[q].scenario \in Scenarios /\ order[q].priority \in Values \cup {None}
  BY ResolvedFits DEF QueueInv
<1>2. All[order[q].scenario] \in Values \cup {None}
  BY <1>1, AllFacts DEF QueueInv, TypeOK
<1>3. \A v \in Values : Int32(v) = v /\ v # None
  BY Int32Facts, StoreAssumption
<1>4. QED
  BY <1>1, <1>2, <1>3 DEF ResolvePriority, Effective, Rank

\* A failed read is remembered, and nothing else that sets a priority is.
LEMMA MissedShape ==
    ASSUME QueueInv, Next, NEW q \in Posts
    PROVE  /\ q \in missed => q \in missed'
           /\ SubmitResolveFails(q) => q \in missed'
           /\ SubmitResolve(q) /\ q \notin missed => q \notin missed'
           /\ post[q] # "named" /\ q \notin missed => q \notin missed'
<1> USE DEF QueueInv, TypeOK, QueueTypeOK
<1>1. missed' = missed \cup
          {p \in Posts : /\ post[p] = "named" /\ post'[p] = "resolved"
                         /\ submitFaults' # submitFaults}
  BY DEF Next, Observe
<1>2. SubmitResolveFails(q) => /\ post[q] = "named" /\ post'[q] = "resolved"
                               /\ submitFaults' # submitFaults
  BY QueueAssumption DEF SubmitResolveFails, SubmitFault
<1>3. SubmitResolve(q) => submitFaults' = submitFaults
  BY DEF SubmitResolve
<1>4. QED
  BY <1>1, <1>2, <1>3

LEMMA EffectKept ==
    ASSUME QueueInv, EffectInv, Next, Values \subseteq Prios
    PROVE  EffectInv'
<1>1. Step /\ Observe
  BY DEF Next
<1>2. /\ offered \in [Posts -> SUBSET (Values \cup Prios \cup {0})]
      /\ order' = order
  BY <1>1, StepShape DEF QueueInv, TypeOK
<1>3. ASSUME NEW q \in Posts, post'[q] = "named"
      PROVE  Effective(order[q].scenario)' \in offered'[q]
  BY <1>1, <1>2, <1>3 DEF Observe
<1>4. ASSUME NEW q \in Posts, post'[q] = "named"
      PROVE  q \notin missed'
  <2>1. q \notin missed
    BY <1>1, <1>4, NamedShape DEF EffectInv
  <2>2. QED
    BY <1>4, <2>1 DEF Next, Observe
<1>5. ASSUME NEW q \in Posts, post'[q] \in {"resolved", "accepted"}
      PROVE  Rank(due'[q]) \in
                 IF order'[q].priority # None THEN {order'[q].priority}
                 ELSE IF q \in missed' THEN {Rank(Baked[order'[q].scenario])}
                 ELSE offered'[q]
  <2>1. offered'[q] = offered[q]
    BY <1>1, <1>2, <1>5 DEF Observe
  <2>2. CASE SubmitResolve(q)
    <3>1. due'[q] = ResolvePriority(q) /\ post[q] = "named"
      BY <2>2 DEF SubmitResolve, QueueInv, TypeOK, QueueTypeOK
    <3>2. Effective(order[q].scenario) \in offered[q] /\ q \notin missed
      BY <3>1 DEF EffectInv
    <3>3. q \notin missed'
      BY <2>2, <3>2, MissedShape
    <3>4. QED
      BY <1>2, <2>1, <3>1, <3>2, <3>3, ResolvedIsShown
  <2>3. CASE SubmitResolveFails(q)
    <3>1. due'[q] = Baked[order[q].scenario] /\ order[q].priority = None
      BY <2>3 DEF SubmitResolveFails, QueueInv, TypeOK, QueueTypeOK
    <3>2. q \in missed'
      BY <2>3, MissedShape
    <3>3. QED
      BY <1>2, <3>1, <3>2
  <2>4. CASE post[q] \in {"resolved", "accepted"} /\ due'[q] = due[q]
    <3>1. q \in missed' <=> q \in missed
      BY <2>4, MissedShape
    <3>2. QED
      BY <1>2, <2>1, <2>4, <3>1 DEF EffectInv, EffectiveIsApplied
  <2>5. QED
    BY <1>1, <1>5, <2>2, <2>3, <2>4, DueShape
<1>6. Rank(due)' = Rank(due') /\ \A q \in Posts : Rank(due[q])' = Rank(due'[q])
  BY DEF Rank
<1>7. ASSUME NEW q \in Posts, post'[q] = "start"
      PROVE  q \notin missed'
  <2>1. post[q] = "start" /\ q \notin missed
    BY <1>1, <1>7, NamedShape DEF EffectInv
  <2>2. QED
    BY <1>7, <2>1 DEF Next, Observe
<1>8. EffectiveIsApplied'
  BY <1>5, <1>6 DEF EffectiveIsApplied, Rank
<1>9. QED
  BY <1>3, <1>4, <1>7, <1>8 DEF EffectInv

\* A run gets the priority it asks for or one that was shown as its scenario's
\* effective priority while it was submitted (submit.go resolvePriority, handlers.go
\* GetScenarioPriorities), for priorities that fit an int32; if its own read of the
\* defaults fails, its template's.
THEOREM EffectiveIsAppliedHolds ==
    ASSUME Values \subseteq Prios
    PROVE  Spec => []EffectiveIsApplied
<1>1. Init => EffectInv
  BY DEF Init, EffectInv, EffectiveIsApplied
<1>2. QueueInv /\ EffectInv /\ [Next]_vars => EffectInv'
  <2>1. ASSUME QueueInv, EffectInv, UNCHANGED vars PROVE EffectInv'
    BY <2>1 DEF EffectInv, EffectiveIsApplied, Effective, All, vars, storeVars, configMap,
                putVars, queueVars, postVars, bumpVars, Rank
  <2>2. QED
    BY <2>1, EffectKept
<1>3. EffectInv => EffectiveIsApplied
  BY DEF EffectInv
<1>4. QED
  BY <1>1, <1>2, <1>3, QueueInvHolds, PTL DEF Spec

=============================================================================
