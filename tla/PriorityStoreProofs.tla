------------------------- MODULE PriorityStoreProofs -------------------------
(***************************************************************************)
(* Proofs about PriorityStore, for any scenarios, PUTs, edits and faults:  *)
(* a version pins the content it was written with, and the ConfigMap under *)
(* optimistic concurrency implements the atomic map OverrideMap.           *)
(***************************************************************************)
EXTENDS PriorityStore, TLAPS

\* What a PUT would send is well formed and has no other scenario changed.
LEMMA RewrittenFacts ==
    ASSUME StoreTypeOK, NEW p \in Puts
    PROVE  /\ Rewritten(p) \in [Scenarios -> Entries]
           /\ [NoData EXCEPT ![asked[p].scenario] = asked[p].priority]
                 \in [Scenarios -> Entries]
           /\ asked[p].scenario \in Scenarios
           /\ asked[p].priority \in Values
BY DEF StoreTypeOK, Rewritten, Entries, NoData

\* Versions that were read are not newer than the object.
LEMMA VersionFacts ==
    ASSUME StoreInv
    PROVE  /\ version \in Nat
           /\ version + 1 \in Nat
           /\ \A p \in Puts : /\ copy[p].version \in Nat
                              /\ copy[p].version <= version
                              /\ copy[p].version # version + 1
                              /\ copy[p].version <= version + 1
<1>1. version \in Nat /\ \A p \in Puts : copy[p].version \in Nat /\ copy[p].version <= version
  BY DEF StoreInv, StoreTypeOK, VersionPinsData
<1>2. QED
  BY <1>1

\* A write keeps the invariant: nobody holds the new version yet.
LEMMA WriteKeepsInv ==
    ASSUME StoreInv,
           NEW d \in [Scenarios -> Entries], Write(d),
           NEW p \in Puts, NEW st \in {"accepted", "rejected"},
           put' = [put EXCEPT ![p] = st],
           UNCHANGED <<asked, copy, edits>>,
           storeFaults' \in 0..MaxStoreFaults
    PROVE  StoreInv'
<1>1. StoreTypeOK'
  BY VersionFacts DEF StoreInv, StoreTypeOK, Write, PutState
<1>2. VersionPinsData'
  BY VersionFacts DEF VersionPinsData, Write
<1>3. QED
  BY <1>1, <1>2 DEF StoreInv

\* So does a rejection that leaves the ConfigMap alone.
LEMMA RejectKeepsInv ==
    ASSUME StoreInv,
           NEW p \in Puts, put' = [put EXCEPT ![p] = "rejected"],
           UNCHANGED <<configMap, asked, copy, edits>>,
           storeFaults' \in 0..MaxStoreFaults
    PROVE  StoreInv'
<1>1. StoreTypeOK'
  BY DEF StoreInv, StoreTypeOK, configMap, PutState
<1>2. VersionPinsData'
  BY DEF StoreInv, StoreTypeOK, VersionPinsData, configMap
<1>3. QED
  BY <1>1, <1>2 DEF StoreInv

\* A fault stays within its bound.
LEMMA FaultBound ==
    ASSUME StoreInv
    PROVE  /\ storeFaults \in 0..MaxStoreFaults
           /\ StoreFault => storeFaults' \in 0..MaxStoreFaults
BY StoreAssumption DEF StoreInv, StoreTypeOK, StoreFault

LEMMA SetGetKeepsInv ==
    ASSUME StoreInv, NEW p \in Puts, SetGet(p)
    PROVE  StoreInv'
<1>1. StoreTypeOK'
  <2>1. CASE exists
    BY <2>1, SMTT(20) DEF StoreInv, StoreTypeOK, SetGet, configMap, PutState
  <2>2. CASE ~exists
    BY <2>2 DEF StoreInv, StoreTypeOK, SetGet, configMap, PutState
  <2>3. QED
    BY <2>1, <2>2
<1>2. VersionPinsData'
  <2>1. CASE exists
    BY <2>1, VersionFacts, SMTT(20) DEF StoreInv, StoreTypeOK, VersionPinsData, SetGet, configMap
  <2>2. CASE ~exists
    BY <2>2 DEF StoreInv, StoreTypeOK, VersionPinsData, SetGet, configMap
  <2>3. QED
    BY <2>1, <2>2
<1>3. QED
  BY <1>1, <1>2 DEF StoreInv

LEMMA PutKeepsInv ==
    ASSUME StoreInv, NEW p \in Puts, PutNext(p)
    PROVE  StoreInv'
<1>1. CASE SetGet(p)
  BY <1>1, SetGetKeepsInv
<1>2. CASE SetGetFails(p)
  BY <1>2, RejectKeepsInv, FaultBound DEF SetGetFails
<1>3. CASE Update(p)
  <2>1. CASE CanUpdate(p)
    BY <1>3, <2>1, WriteKeepsInv, RewrittenFacts, FaultBound DEF Update, StoreInv
  <2>2. CASE ~CanUpdate(p)
    BY <1>3, <2>2, RejectKeepsInv, FaultBound DEF Update
  <2>3. QED
    BY <2>1, <2>2
<1>4. CASE Create(p)
  <2>1. CASE ~exists
    BY <1>4, <2>1, WriteKeepsInv, RewrittenFacts, FaultBound DEF Create, StoreInv
  <2>2. CASE exists
    BY <1>4, <2>2, RejectKeepsInv, FaultBound DEF Create
  <2>3. QED
    BY <2>1, <2>2
<1>5. CASE WriteFails(p)
  <2>1. UNCHANGED <<asked, copy, edits>> /\ put' = [put EXCEPT ![p] = "rejected"]
    BY <1>5 DEF WriteFails
  <2>2. storeFaults' \in 0..MaxStoreFaults
    BY <1>5, FaultBound DEF WriteFails
  <2>3. CASE UNCHANGED configMap
    BY <2>1, <2>2, <2>3, RejectKeepsInv
  <2>4. CASE \/ Write(Rewritten(p))
             \/ Write([NoData EXCEPT ![asked[p].scenario] = asked[p].priority])
    BY <2>1, <2>2, <2>4, WriteKeepsInv, RewrittenFacts DEF StoreInv
  <2>5. QED
    BY <1>5, <2>3, <2>4 DEF WriteFails
<1>6. QED
  BY <1>1, <1>2, <1>3, <1>4, <1>5 DEF PutNext

LEMMA EditKeepsInv ==
    ASSUME StoreInv, EditConfigMap
    PROVE  StoreInv'
<1>1. data' \in [Scenarios -> Entries] /\ exists' \in BOOLEAN /\ (~exists' => data' = NoData)
  <2>1. exists \in BOOLEAN /\ data \in [Scenarios -> Entries] /\ NoData \in [Scenarios -> Entries]
    BY DEF StoreInv, StoreTypeOK, Entries, NoData
  <2>2. CASE /\ exists /\ UNCHANGED exists
             /\ \E s \in Scenarios, e \in Entries : data' = [data EXCEPT ![s] = e]
    BY <2>1, <2>2
  <2>3. CASE exists' = ~exists /\ data' = NoData
    BY <2>1, <2>3
  <2>4. QED
    BY <2>2, <2>3 DEF EditConfigMap
<1>2. edits' \in 0..MaxEdits
  BY StoreAssumption DEF EditConfigMap, StoreInv, StoreTypeOK
<1>3. /\ version' = version + 1
      /\ UNCHANGED <<asked, put, copy, storeFaults>>
  BY DEF EditConfigMap, putVars
<1>4. StoreTypeOK'
  BY <1>1, <1>2, <1>3, VersionFacts DEF StoreInv, StoreTypeOK
<1>5. VersionPinsData'
  BY <1>1, <1>3, VersionFacts DEF VersionPinsData
<1>6. QED
  BY <1>4, <1>5 DEF StoreInv

\* The store's variables keep their types, and a PUT that holds the current version
\* of the ConfigMap holds its current data (priorities.go Set), although edits,
\* deletions and other PUTs come between its read and its write.
THEOREM StoreInvHolds == StoreSpec => []StoreInv
<1>1. StoreInit => StoreInv
  BY StoreAssumption
     DEF StoreInit, StoreInv, StoreTypeOK, VersionPinsData, NoData, Entries, PutState
<1>2. StoreInv /\ [StoreNext]_storeVars => StoreInv'
  <2>1. ASSUME StoreInv, UNCHANGED storeVars PROVE StoreInv'
    BY <2>1 DEF StoreInv, StoreTypeOK, VersionPinsData, storeVars, configMap, putVars
  <2>2. QED
    BY <2>1, PutKeepsInv, EditKeepsInv DEF StoreNext
<1>3. QED
  BY <1>1, <1>2, PTL DEF StoreSpec

-----------------------------------------------------------------------------
(* Refinement of OverrideMap *)

\* The overrides are priorities or nothing; junk is nobody's override.
LEMMA AllFacts ==
    /\ StoreTypeOK => All \in [Scenarios -> Values \cup {None}]
    /\ data = NoData => All = NoData
BY StoreAssumption DEF StoreTypeOK, All, Entries, NoData

\* One entry more in the data is one override more in the map.
LEMMA WriteIsEffect ==
    ASSUME StoreInv, NEW p \in Puts,
           data' = [data EXCEPT ![asked[p].scenario] = asked[p].priority]
    PROVE  Map!Effect(p)
<1>1. asked[p].priority # Junk
  BY RewrittenFacts, StoreAssumption DEF StoreInv
<1>2. data \in [Scenarios -> Entries]
  BY DEF StoreInv, StoreTypeOK
<1>3. QED
  BY <1>1, <1>2, RewrittenFacts DEF All, Map!Effect, StoreInv

\* What an accepted write sends is the current data with one entry changed.
LEMMA WrittenIsCurrent ==
    ASSUME StoreInv, NEW p \in Puts,
           \/ put[p] = "found" /\ CanUpdate(p) /\ Write(Rewritten(p))
           \/ ~exists /\ Write([NoData EXCEPT ![asked[p].scenario] = asked[p].priority])
    PROVE  Map!Effect(p)
<1>1. data' = [data EXCEPT ![asked[p].scenario] = asked[p].priority]
  BY DEF StoreInv, VersionPinsData, CanUpdate, Write, Rewritten
<1>2. QED
  BY <1>1, WriteIsEffect

LEMMA AnswerFacts ==
    ASSUME StoreInv, NEW p \in Puts, NEW st \in PutState, put' = [put EXCEPT ![p] = st]
    PROVE  [q \in Puts |-> Answer(q)]' =
               [[q \in Puts |-> Answer(q)] EXCEPT ![p] =
                   IF st = "accepted" THEN "ok" ELSE IF st = "rejected" THEN "error" ELSE "none"]
BY DEF StoreInv, StoreTypeOK, Answer

\* A PUT that is answered 200 at this step.
LEMMA AcceptRefines ==
    ASSUME StoreInv, NEW p \in Puts, put[p] \in {"found", "absent"},
           put' = [put EXCEPT ![p] = "accepted"], Map!Effect(p),
           UNCHANGED <<asked, edits>>
    PROVE  Map!Accept(p)
BY AnswerFacts DEF Map!Accept, Answer, PutState

\* A PUT that is answered with an error at this step.
LEMMA RejectRefines ==
    ASSUME StoreInv, NEW p \in Puts, put[p] \in {"start", "found", "absent"},
           put' = [put EXCEPT ![p] = "rejected"],
           Map!Effect(p) \/ UNCHANGED data,
           UNCHANGED <<asked, edits>>
    PROVE  Map!Reject(p)
BY AnswerFacts DEF Map!Reject, Answer, PutState, All

LEMMA PutRefines ==
    ASSUME StoreInv, NEW p \in Puts, PutNext(p)
    PROVE  [Map!Next]_(Map!vars)
<1>1. CASE SetGet(p)
  <2>1. PICK st \in {"found", "absent"} : put' = [put EXCEPT ![p] = st]
    BY <1>1 DEF SetGet
  <2>2. [q \in Puts |-> Answer(q)]' = [q \in Puts |-> Answer(q)]
    BY <1>1, <2>1 DEF SetGet, StoreInv, StoreTypeOK, Answer
  <2>3. QED
    BY <1>1, <2>2 DEF SetGet, configMap, All, Map!vars
<1>2. CASE SetGetFails(p)
  BY <1>2, RejectRefines DEF SetGetFails, configMap, Map!Next
<1>3. CASE Update(p)
  <2>1. CASE CanUpdate(p)
    BY <1>3, <2>1, WrittenIsCurrent, AcceptRefines DEF Update, Map!Next
  <2>2. CASE ~CanUpdate(p)
    BY <1>3, <2>2, RejectRefines DEF Update, configMap, Map!Next
  <2>3. QED
    BY <2>1, <2>2
<1>4. CASE Create(p)
  <2>1. CASE ~exists
    BY <1>4, <2>1, WrittenIsCurrent, AcceptRefines DEF Create, Map!Next
  <2>2. CASE exists
    BY <1>4, <2>2, RejectRefines DEF Create, configMap, Map!Next
  <2>3. QED
    BY <2>1, <2>2
<1>5. CASE WriteFails(p)
  <2>1. put[p] \in {"found", "absent"}
    BY <1>5 DEF WriteFails
  <2>2. Map!Effect(p) \/ UNCHANGED data
    BY <1>5, WrittenIsCurrent DEF WriteFails, configMap
  <2>3. QED
    BY <1>5, <2>1, <2>2, RejectRefines DEF WriteFails, Map!Next
<1>6. QED
  BY <1>1, <1>2, <1>3, <1>4, <1>5 DEF PutNext

\* Whatever PUTs overlap, whatever operators do and whichever calls fail, the
\* overrides that Store.All reports behave as a map on which each PUT takes effect
\* at once, entirely, and on its own scenario only (priorities.go Set and All,
\* handlers.go PutScenarioPriority).
THEOREM RefinesMap == StoreSpec => KeepsMap
<1>1. StoreInit => Map!Init
  <2>1. StoreInit => StoreTypeOK /\ data = NoData
    BY StoreAssumption DEF StoreInit, StoreTypeOK, NoData, Entries, PutState
  <2>2. QED
    BY <2>1, AllFacts DEF StoreInit, Map!Init, Answer
<1>2. StoreInv /\ StoreInv' /\ [StoreNext]_storeVars => [Map!Next]_(Map!vars)
  <2>1. ASSUME StoreInv, StoreInv', EditConfigMap PROVE Map!Edit
    <3>1. All' \in [Scenarios -> Values \cup {None}]
      BY <2>1, StoreAssumption DEF StoreInv, StoreTypeOK, All, Entries
    <3>2. QED
      BY <2>1, <3>1 DEF EditConfigMap, putVars, Map!Edit, Answer
  <2>2. ASSUME UNCHANGED storeVars PROVE UNCHANGED Map!vars
    BY <2>2 DEF storeVars, configMap, putVars, Map!vars, All, Answer
  <2>3. QED
    BY <2>1, <2>2, PutRefines DEF StoreNext, Map!Next
<1>3. QED
  BY <1>1, <1>2, StoreInvHolds, PTL DEF StoreSpec, KeepsMap, Map!Spec

=============================================================================
