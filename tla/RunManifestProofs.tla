-------------------------- MODULE RunManifestProofs --------------------------
(***************************************************************************)
(* Proofs about RunManifest: the inductive invariant RecordInv and, from   *)
(* it, that records never run ahead, that the manifests implement the      *)
(* record of RunRecord, that terminal records are final, that what the     *)
(* Syncer has seen is written and that an answered run is found.           *)
(***************************************************************************)
EXTENDS RunManifest, TLAPS

\* How far each status is along a run's life.
LEMMA RankValues ==
    /\ Rank("None") = 0
    /\ Rank("Submitted") = 1
    /\ Rank("Pending") = 2
    /\ Rank("Running") = 3
    /\ Rank("Done") = 4
BY DEF Rank, RankOf

\* Nothing is further along than the end.
LEMMA RankBound == \A s \in Recorded : Rank(s) \in 0..4 /\ (Rank(s) = 4 => s = "Done")
BY RankValues DEF Recorded, Phase, Status

\* A status is never "None".
LEMMA StatusFacts == \A s \in Status : s \in Recorded /\ s \in Phase /\ s # "None" /\ Rank(s) >= 2
BY RankValues DEF Recorded, Phase, Status

\* A broadcast adds its event at the end of the channel or loses it.
LEMMA BroadcastFacts ==
    ASSUME TypeOK, NEW e \in Event, Broadcast(e)
    PROVE  /\ queue' \in Seq(Event)
           /\ Len(queue') <= QueueCap
           /\ \A i \in DOMAIN queue' : (i \in DOMAIN queue /\ queue'[i] = queue[i]) \/ queue'[i] = e
           /\ \A i, k \in DOMAIN queue' : i < k => i \in DOMAIN queue /\ queue'[i] = queue[i]
<1>1. queue \in Seq(Event) /\ Len(queue) \in Nat /\ Len(queue) <= QueueCap /\ QueueCap \in Nat
  BY ManifestAssumption DEF TypeOK
<1>2. CASE Len(queue) < QueueCap
  <2>1. queue' = Append(queue, e)
    BY <1>2 DEF Broadcast
  <2>2. /\ queue' \in Seq(Event)
        /\ Len(queue') = Len(queue) + 1
        /\ DOMAIN queue' = 1..(Len(queue) + 1)
        /\ DOMAIN queue = 1..Len(queue)
        /\ \A i \in 1..Len(queue) : queue'[i] = queue[i]
        /\ queue'[Len(queue) + 1] = e
    BY <1>1, <2>1
  <2> QED
    BY <1>1, <1>2, <2>2
<1>3. CASE ~(Len(queue) < QueueCap)
  <2>1. queue' = queue
    BY <1>3 DEF Broadcast
  <2> QED
    BY <1>1, <2>1
<1> QED
  BY <1>2, <1>3

\* Taking the first event shifts the others.
LEMMA TakeFacts ==
    ASSUME TypeOK, queue # << >>
    PROVE  /\ Head(queue) \in Event
           /\ 1 \in DOMAIN queue
           /\ Head(queue) = queue[1]
           /\ Tail(queue) \in Seq(Event)
           /\ Len(Tail(queue)) <= QueueCap
           /\ \A i \in DOMAIN Tail(queue) :
                i \in Nat /\ i + 1 \in DOMAIN queue /\ 1 < i + 1 /\ Tail(queue)[i] = queue[i + 1]
<1>1. queue \in Seq(Event) /\ Len(queue) \in Nat /\ Len(queue) <= QueueCap /\ QueueCap \in Nat
  BY ManifestAssumption DEF TypeOK
<1>2. Len(queue) >= 1 /\ DOMAIN queue = 1..Len(queue)
  BY <1>1
<1>3. /\ Tail(queue) \in Seq(Event)
      /\ Len(Tail(queue)) = Len(queue) - 1
      /\ DOMAIN Tail(queue) = 1..(Len(queue) - 1)
      /\ \A i \in 1..(Len(queue) - 1) : Tail(queue)[i] = queue[i + 1]
  BY <1>1, <1>2
<1>4. Head(queue) = queue[1] /\ queue[1] \in Event
  BY <1>1, <1>2
<1> QED
  BY <1>1, <1>2, <1>3, <1>4

\* What the channel and the Syncer hold is of the right kind.
LEMMA HeldFacts ==
    ASSUME TypeOK
    PROVE  /\ \A i \in DOMAIN queue : queue[i] \in Event
           /\ \A i \in DOMAIN queue : queue[i].run \in Runs /\ queue[i].status \in Status
           /\ \A j \in writing : j.run \in Runs /\ j.status \in Status
<1>1. \A i \in DOMAIN queue : queue[i] \in Event
  BY DEF TypeOK
<1>2. \A i \in DOMAIN queue : queue[i].run \in Runs /\ queue[i].status \in Status
  BY <1>1 DEF Event
<1>3. \A j \in writing : j.run \in Runs /\ j.status \in Status
  BY DEF TypeOK, Job
<1> QED
  BY <1>1, <1>2, <1>3

\* When only phases move, and only forward, nothing becomes invented or ahead.
LEMMA ForwardOnly ==
    ASSUME TypeOK, NeverAhead, NothingInvented,
           phase' \in [Runs -> Phase],
           \A q \in Runs : Rank(phase[q]) <= Rank(phase'[q]),
           \A q \in Runs : create'[q] # "none" \/ q \in deleted => phase'[q] # "None",
           UNCHANGED <<deleted, cache, queue, last, writing, primary, index>>
    PROVE  NeverAhead' /\ NothingInvented'
<1>1. \A s \in Recorded : Rank(s) \in Nat
  BY RankBound
<1>2. /\ \A q \in Runs : phase[q] \in Recorded /\ phase'[q] \in Recorded
      /\ \A q \in Runs : primary[q] \in Recorded /\ index[q] \in Recorded /\ last[q] \in Recorded
  BY DEF TypeOK, Recorded
<1>3. NeverAhead'
  BY <1>1, <1>2 DEF NeverAhead
<1>4. \A i \in DOMAIN queue : queue[i].run \in Runs /\ queue[i].status \in Recorded
  BY HeldFacts, StatusFacts
<1>5. \A j \in writing : j.run \in Runs /\ j.status \in Recorded
  BY HeldFacts, StatusFacts
<1>6. \A q \in Runs : cache[q] \in Status => cache[q] \in Recorded
  BY StatusFacts
<1>7. \A q \in Runs : /\ cache[q] \in Status => Rank(cache[q]) <= Rank(phase'[q])
                      /\ Rank(last[q]) <= Rank(phase'[q])
  BY <1>1, <1>2, <1>6 DEF NothingInvented
<1>8. \A i \in DOMAIN queue : Rank(queue[i].status) <= Rank(phase'[queue[i].run])
  BY <1>1, <1>2, <1>4 DEF NothingInvented
<1>9. \A j \in writing : Rank(j.status) <= Rank(phase'[j.run])
  BY <1>1, <1>2, <1>5 DEF NothingInvented
<1> QED
  BY <1>3, <1>7, <1>8, <1>9 DEF NothingInvented

\* Nothing has happened yet.
LEMMA InitInv == Init => RecordInv
<1> SUFFICES ASSUME Init PROVE RecordInv
  OBVIOUS
<1>1. TypeOK
  BY ManifestAssumption
     DEF Init, TypeOK, Phase, Status, Recorded, HandlerState, Event, Job
<1>2. NeverAhead /\ NothingInvented
  BY RankValues DEF Init, NeverAhead, NothingInvented, Status
<1>3. WritesLast /\ NothingOlder /\ HandlerOrder /\ SeenIsWritten
  BY DEF Init, WritesLast, NothingOlder, HandlerOrder, SeenIsWritten
<1> QED
  BY <1>1, <1>2, <1>3 DEF RecordInv

\* The engine moves a run on, and not to the end under a prompt handler's hands.
LEMMA PhaseStep ==
    ASSUME RecordInv, NEW r \in Runs, NEW p \in Status,
           phase' = [phase EXCEPT ![r] = p],
           Rank(phase[r]) <= Rank(p),
           PromptHandlers /\ p = "Done" => create[r] \notin {"primary", "index"},
           UNCHANGED <<deleted, informerVars, queue, syncerVars, create, store, bounds>>
    PROVE  RecordInv'
<1> USE DEF informerVars, syncerVars, store, bounds
<1>1. TypeOK'
  BY DEF RecordInv, TypeOK, Phase
<1>2. \A q \in Runs : phase'[q] \in Phase /\ Rank(phase[q]) <= Rank(phase'[q])
  BY RankBound DEF RecordInv, TypeOK, Phase, Recorded
<1>3. \A q \in Runs : create[q] # "none" \/ q \in deleted => phase'[q] # "None"
  BY StatusFacts DEF RecordInv, TypeOK, NothingInvented
<1>4. NeverAhead' /\ NothingInvented'
  BY <1>1, <1>2, <1>3, ForwardOnly DEF RecordInv, TypeOK
<1>5. WritesLast' /\ (PromptHandlers => NothingOlder)'
  BY DEF RecordInv, WritesLast, NothingOlder
<1>6. HandlerOrder' /\ (PromptHandlers /\ MaxWriteFailures = 0 => SeenIsWritten)'
  BY DEF RecordInv, TypeOK, HandlerOrder, SeenIsWritten
<1> QED
  BY <1>1, <1>4, <1>5, <1>6 DEF RecordInv

\* The engine's steps preserve the invariant.
LEMMA EngineInv ==
    ASSUME RecordInv, NEW r \in Runs,
           CronRun(r) \/ StartRun(r) \/ EndRun(r) \/ DeleteWorkflow(r)
    PROVE  RecordInv'
<1>1. CASE CronRun(r)
  <2>1. /\ "Pending" \in Status
        /\ phase' = [phase EXCEPT ![r] = "Pending"]
        /\ Rank(phase[r]) <= Rank("Pending")
        /\ PromptHandlers /\ "Pending" = "Done" => create[r] \notin {"primary", "index"}
        /\ UNCHANGED <<deleted, informerVars, queue, syncerVars, create, store, bounds>>
    BY <1>1, RankValues DEF CronRun, Status
  <2> QED
    BY <2>1, PhaseStep
<1>2. CASE StartRun(r)
  <2>1. /\ "Running" \in Status
        /\ phase' = [phase EXCEPT ![r] = "Running"]
        /\ Rank(phase[r]) <= Rank("Running")
        /\ PromptHandlers /\ "Running" = "Done" => create[r] \notin {"primary", "index"}
        /\ UNCHANGED <<deleted, informerVars, queue, syncerVars, create, store, bounds>>
    BY <1>2, RankValues DEF StartRun, Status
  <2> QED
    BY <2>1, PhaseStep
<1>3. CASE EndRun(r)
  <2>1. /\ "Done" \in Status
        /\ phase' = [phase EXCEPT ![r] = "Done"]
        /\ Rank(phase[r]) <= Rank("Done")
        /\ PromptHandlers /\ "Done" = "Done" => create[r] \notin {"primary", "index"}
        /\ UNCHANGED <<deleted, informerVars, queue, syncerVars, create, store, bounds>>
    BY <1>3, RankValues DEF EndRun, Status
  <2> QED
    BY <2>1, PhaseStep
<1>4. CASE DeleteWorkflow(r)
  <2> USE <1>4 DEF DeleteWorkflow, informerVars, syncerVars, store, bounds
  <2>1. TypeOK'
    BY DEF RecordInv, TypeOK
  <2>2. NeverAhead' /\ NothingInvented' /\ WritesLast'
    BY DEF RecordInv, NeverAhead, NothingInvented, WritesLast
  <2>3. /\ (PromptHandlers => NothingOlder)' /\ HandlerOrder'
        /\ (PromptHandlers /\ MaxWriteFailures = 0 => SeenIsWritten)'
    BY DEF RecordInv, NothingOlder, HandlerOrder, SeenIsWritten
  <2> QED
    BY <2>1, <2>2, <2>3 DEF RecordInv
<1> QED
  BY <1>1, <1>2, <1>3, <1>4

\* POST /api/runs preserves the invariant.
LEMMA HandlerInv ==
    ASSUME RecordInv, NEW r \in Runs,
           CreateRun(r) \/ HandlerPut(r) \/ HandlerPutFails(r)
    PROVE  RecordInv'
<1> USE DEF argoVars, informerVars, syncerVars, store, bounds
<1>1. CASE CreateRun(r)
  <2> USE <1>1 DEF CreateRun
  <2>1. TypeOK'
    BY DEF RecordInv, TypeOK, Phase, Status, HandlerState
  <2>2. \A q \in Runs : phase'[q] \in Phase /\ Rank(phase[q]) <= Rank(phase'[q])
    BY RankValues, RankBound DEF RecordInv, TypeOK, Phase, Recorded, Status
  <2>3. \A q \in Runs : create'[q] # "none" \/ q \in deleted => phase'[q] # "None"
    BY DEF RecordInv, TypeOK, NothingInvented
  <2>4. NeverAhead' /\ NothingInvented'
    BY <2>1, <2>2, <2>3, ForwardOnly DEF RecordInv, TypeOK
  <2>6. /\ WritesLast' /\ (PromptHandlers => NothingOlder)' /\ HandlerOrder'
        /\ (PromptHandlers /\ MaxWriteFailures = 0 => SeenIsWritten)'
    BY DEF RecordInv, TypeOK, WritesLast, NothingOlder, HandlerOrder, SeenIsWritten
  <2> QED
    BY <2>1, <2>4, <2>6 DEF RecordInv
<1>2. CASE HandlerPut(r)
  <2> USE <1>2 DEF HandlerPut
  <2>1. TypeOK'
    BY DEF RecordInv, TypeOK, Recorded, HandlerState
  <2>2. /\ PromptHandlers => phase[r] # "Done" /\ last[r] # "Done" /\ primary[r] # "Done"
        /\ Rank(phase[r]) >= 2
    <3>1. PromptHandlers => phase[r] # "Done"
      BY DEF RecordInv, HandlerOrder
    <3>2. phase[r] \in Status /\ last[r] \in Recorded /\ primary[r] \in Recorded
      BY DEF RecordInv, TypeOK, NothingInvented, Phase, Recorded
    <3>3. Rank(last[r]) <= Rank(phase[r]) /\ Rank(primary[r]) <= Rank(phase[r])
      BY DEF RecordInv, NothingInvented, NeverAhead
    <3> QED
      BY <3>1, <3>2, <3>3, RankValues DEF Status
  <2>3. NeverAhead'
    BY <2>2, RankValues, RankBound DEF RecordInv, TypeOK, NeverAhead, Recorded
  <2>4. NothingInvented'
    BY DEF RecordInv, TypeOK, NothingInvented
  <2>5. WritesLast'
    <3>1. \A j \in writing : j.run = r /\ PromptHandlers => j.status # "Done"
      BY <2>2 DEF RecordInv, WritesLast
    <3> QED
      BY <3>1 DEF RecordInv, TypeOK, WritesLast, Job
  <2>6. (PromptHandlers => NothingOlder)'
    BY <2>2 DEF RecordInv, TypeOK, NothingOlder
  <2>7. HandlerOrder'
    BY DEF RecordInv, TypeOK, HandlerOrder
  <2>8. (PromptHandlers /\ MaxWriteFailures = 0 => SeenIsWritten)'
    BY <2>2 DEF RecordInv, TypeOK, SeenIsWritten
  <2> QED
    BY <2>1, <2>3, <2>4, <2>5, <2>6, <2>7, <2>8 DEF RecordInv
<1>3. CASE HandlerPutFails(r)
  <2> USE <1>3 DEF HandlerPutFails
  <2>1. TypeOK' /\ MaxWriteFailures # 0
    BY ManifestAssumption DEF RecordInv, TypeOK, HandlerState
  <2>2. NeverAhead' /\ NothingInvented' /\ WritesLast' /\ (PromptHandlers => NothingOlder)'
    BY DEF RecordInv, TypeOK, NeverAhead, NothingInvented, WritesLast, NothingOlder
  <2>3. HandlerOrder'
    BY <2>1 DEF RecordInv, TypeOK, HandlerOrder
  <2> QED
    BY <2>1, <2>2, <2>3 DEF RecordInv
<1> QED
  BY <1>1, <1>2, <1>3

\* The informer takes in a phase that is the run's own and broadcasts it.
LEMMA BroadcastInv ==
    ASSUME RecordInv, NEW r \in Runs, NEW e \in Event, NEW c \in Status \cup {"Removed"},
           e.run = r,
           \/ e.status = phase[r] /\ c \in {phase[r], "Removed"}
           \/ e.status = cache[r] /\ c = cache[r],
           c = "Removed" => r \in deleted,
           cache' = [cache EXCEPT ![r] = c],
           Broadcast(e),
           UNCHANGED <<argoVars, up, syncerVars, create, store, bounds>>
    PROVE  RecordInv'
<1> USE DEF argoVars, syncerVars, store, bounds
<1>1. TypeOK
  BY DEF RecordInv
<1>2. /\ queue' \in Seq(Event)
      /\ Len(queue') <= QueueCap
      /\ \A i \in DOMAIN queue' : (i \in DOMAIN queue /\ queue'[i] = queue[i]) \/ queue'[i] = e
      /\ \A i, k \in DOMAIN queue' : i < k => i \in DOMAIN queue /\ queue'[i] = queue[i]
  BY <1>1, BroadcastFacts
<1>3. TypeOK'
  BY <1>1, <1>2 DEF TypeOK, Phase
<1>4. e.status \in Status /\ phase[r] \in Phase
  BY <1>1 DEF Event, TypeOK
<1>5. NothingInvented'
  <2>1. Rank(e.status) <= Rank(phase[r])
    <3>1. e.status = phase[r] => Rank(e.status) <= Rank(phase[r])
      BY <1>4, RankBound DEF Recorded
    <3>2. e.status = cache[r] => Rank(e.status) <= Rank(phase[r])
      BY <1>4 DEF RecordInv, NothingInvented
    <3> QED
      BY <3>1, <3>2
  <2>2. \A q \in Runs : cache'[q] \in Status => Rank(cache'[q]) <= Rank(phase[q])
    <3>1. c \in Status => Rank(c) <= Rank(phase[r])
      BY <1>4, RankBound DEF RecordInv, NothingInvented, Recorded, Status
    <3> QED
      BY <3>1, <1>1 DEF RecordInv, NothingInvented, TypeOK
  <2>3. \A i \in DOMAIN queue' : Rank(queue'[i].status) <= Rank(phase[queue'[i].run])
    BY <1>2, <2>1 DEF RecordInv, NothingInvented
  <2> QED
    BY <2>2, <2>3 DEF RecordInv, NothingInvented
<1>6. (PromptHandlers => NothingOlder)'
  <2> SUFFICES ASSUME PromptHandlers PROVE NothingOlder'
    OBVIOUS
  <2>1. NothingOlder /\ NothingInvented /\ NeverAhead
    BY DEF RecordInv
  <2>2. e.status = "Done" => c \notin {"Pending", "Running"}
    OBVIOUS
  <2>3. ASSUME phase[r] = "Done", cache[r] \notin {"Pending", "Running"}
        PROVE  e.status = "Done" /\ c \notin {"Pending", "Running"}
    BY <2>3, <1>4 DEF Status
  <2>4. \A s \in Recorded : Rank(s) >= 4 => s = "Done"
    BY RankBound
  <2>5. phase[r] \in Recorded /\ \A q \in Runs : cache[q] \in Phase \cup {"Removed"}
    BY <1>1 DEF TypeOK, Recorded
  <2>6. \A i \in DOMAIN queue : queue[i].run = r /\ queue[i].status = "Done" =>
             e.status = "Done" /\ c \notin {"Pending", "Running"}
    BY <2>1, <2>3, <2>4, <2>5, RankValues DEF NothingOlder, NothingInvented
  <2>7. \A j \in writing : j.run = r /\ j.status = "Done" =>
             e.status = "Done" /\ c \notin {"Pending", "Running"}
    BY <2>1, <2>3, <2>4, <2>5, RankValues DEF NothingOlder, NothingInvented
  <2>8. primary[r] = "Done" => e.status = "Done" /\ c \notin {"Pending", "Running"}
    BY <2>1, <2>3, <2>4, <2>5, RankValues DEF NothingOlder, NeverAhead
  <2>9. \A q \in Runs : cache'[q] = IF q = r THEN c ELSE cache[q]
    BY <1>1 DEF TypeOK
  <2>10. \A i \in DOMAIN queue : queue[i].run \in Runs
    BY <1>1, HeldFacts
  <2>11. \A j \in writing : j.run \in Runs
    BY <1>1, HeldFacts
  <2>12. \A i, k \in DOMAIN queue' :
            (i < k /\ queue'[i].run = queue'[k].run /\ queue'[i].status = "Done")
              => queue'[k].status = "Done"
    BY <1>2, <2>1, <2>6 DEF NothingOlder
  <2>13. \A i \in DOMAIN queue' :
            queue'[i].status = "Done" => cache'[queue'[i].run] \notin {"Pending", "Running"}
    BY <1>2, <2>1, <2>2, <2>6, <2>9, <2>10 DEF NothingOlder
  <2>14. \A j \in writing : j.status = "Done" =>
            /\ cache'[j.run] \notin {"Pending", "Running"}
            /\ \A i \in DOMAIN queue' : queue'[i].run = j.run => queue'[i].status = "Done"
    BY <1>2, <2>1, <2>7, <2>9, <2>11 DEF NothingOlder
  <2>15. \A q \in Runs : primary[q] = "Done" =>
            /\ cache'[q] \notin {"Pending", "Running"}
            /\ \A i \in DOMAIN queue' : queue'[i].run = q => queue'[i].status = "Done"
            /\ \A j \in writing : j.run = q => j.status = "Done"
    BY <1>2, <2>1, <2>8, <2>9 DEF NothingOlder
  <2>16. \A q \in Runs : index[q] = "Done" => primary[q] = "Done"
    BY <2>1 DEF NothingOlder
  <2> QED
    BY <2>12, <2>13, <2>14, <2>15, <2>16 DEF NothingOlder
<1>7. NeverAhead' /\ WritesLast' /\ HandlerOrder'
  BY DEF RecordInv, NeverAhead, WritesLast, HandlerOrder
<1>8. (PromptHandlers /\ MaxWriteFailures = 0 => SeenIsWritten)'
  BY DEF RecordInv, SeenIsWritten
<1> QED
  BY <1>3, <1>5, <1>6, <1>7, <1>8 DEF RecordInv

\* The informer's steps preserve the invariant.
LEMMA InformerInv ==
    ASSUME RecordInv, NEW r \in Runs,
           InformerSees(r) \/ InformerSeesDelete(r) \/ InformerMissesDelete(r) \/ Resync(r)
    PROVE  RecordInv'
<1>1. TypeOK
  BY DEF RecordInv
<1>2. ASSUME NEW s \in Status
      PROVE  /\ [type |-> "SET", run |-> r, status |-> s] \in Event
             /\ [type |-> "DELETED", run |-> r, status |-> s] \in Event
  BY DEF Event
<1>3. phase[r] \in Phase /\ cache[r] \in Phase \cup {"Removed"}
  BY <1>1 DEF TypeOK
<1>4. CASE InformerSees(r)
  <2> DEFINE e == [type |-> "SET", run |-> r, status |-> phase[r]]
  <2>1. cache[r] # phase[r] /\ cache[r] # "Removed"
    BY <1>4 DEF InformerSees, RecordInv, NothingInvented
  <2>2. phase[r] = "None" => cache[r] = "None"
    BY <1>3, <2>1, RankValues DEF RecordInv, NothingInvented, Phase, Status
  <2>3. phase[r] \in Status /\ phase[r] # "Removed"
    BY <1>3, <2>1, <2>2 DEF Phase, Status
  <2>4. e \in Event /\ e.run = r /\ e.status = phase[r]
    BY <1>2, <2>3
  <2>5. /\ cache' = [cache EXCEPT ![r] = phase[r]]
        /\ Broadcast(e)
        /\ UNCHANGED <<argoVars, up, syncerVars, create, store, bounds>>
    BY <1>4 DEF InformerSees
  <2> QED
    BY <2>3, <2>4, <2>5, BroadcastInv
<1>5. CASE InformerSeesDelete(r)
  <2> DEFINE e == [type |-> "DELETED", run |-> r, status |-> phase[r]]
  <2>1. phase[r] \in Status
    BY <1>3, <1>5 DEF InformerSeesDelete, RecordInv, NothingInvented, Phase
  <2>2. e \in Event /\ e.run = r /\ e.status = phase[r]
    BY <1>2, <2>1
  <2>3. /\ cache' = [cache EXCEPT ![r] = "Removed"]
        /\ Broadcast(e)
        /\ r \in deleted
        /\ UNCHANGED <<argoVars, up, syncerVars, create, store, bounds>>
    BY <1>5 DEF InformerSeesDelete
  <2> QED
    BY <2>2, <2>3, BroadcastInv
<1>6. CASE InformerMissesDelete(r)
  <2> USE <1>6 DEF InformerMissesDelete, argoVars, syncerVars, store, bounds
  <2>1. TypeOK'
    BY <1>1 DEF TypeOK
  <2>2. \A q \in Runs : cache'[q] = IF q = r THEN "Removed" ELSE cache[q]
    BY <1>1 DEF TypeOK
  <2>3. NothingInvented'
    BY <2>2 DEF RecordInv, NothingInvented, Status
  <2>4. (PromptHandlers => NothingOlder)'
    BY <2>2, <1>1, HeldFacts DEF RecordInv, NothingOlder
  <2>5. NeverAhead' /\ WritesLast' /\ HandlerOrder'
    BY DEF RecordInv, NeverAhead, WritesLast, HandlerOrder
  <2>6. (PromptHandlers /\ MaxWriteFailures = 0 => SeenIsWritten)'
    BY DEF RecordInv, SeenIsWritten
  <2> QED
    BY <2>1, <2>3, <2>4, <2>5, <2>6 DEF RecordInv
<1>7. CASE Resync(r)
  <2> DEFINE e == [type |-> "SET", run |-> r, status |-> cache[r]]
  <2>1. cache[r] \in Status /\ cache[r] # "Removed"
    BY <1>7 DEF Resync, Status
  <2>2. e \in Event /\ e.run = r /\ e.status = cache[r]
    BY <1>2, <2>1
  <2>3. /\ cache' = [cache EXCEPT ![r] = cache[r]]
        /\ Broadcast(e)
        /\ UNCHANGED <<argoVars, up, syncerVars, create, store, bounds>>
    BY <1>1, <1>7 DEF Resync, informerVars, TypeOK
  <2> QED
    BY <2>1, <2>2, <2>3, BroadcastInv
<1> QED
  BY <1>4, <1>5, <1>6, <1>7

\* Taking an event preserves the invariant: what it coalesces is written already.
LEMMA TakeInv == ASSUME RecordInv, SyncerTake PROVE RecordInv'
<1> DEFINE e == Head(queue)
           job == [run |-> e.run, status |-> e.status, put |-> "primary"]
<1> USE DEF argoVars, informerVars, store, bounds
<1>1. TypeOK /\ queue # << >> /\ writing = {}
  BY DEF RecordInv, SyncerTake
<1>2. /\ e \in Event /\ 1 \in DOMAIN queue /\ e = queue[1]
      /\ queue' \in Seq(Event) /\ Len(queue') <= QueueCap
      /\ \A i \in DOMAIN queue' :
            i \in Nat /\ i + 1 \in DOMAIN queue /\ 1 < i + 1 /\ queue'[i] = queue[i + 1]
  BY <1>1, TakeFacts DEF SyncerTake
<1>3. e.run \in Runs /\ e.status \in Status /\ job \in Job
  BY <1>2 DEF Event, Job
<1>4. /\ \A q \in Runs : last'[q] = IF q = e.run THEN e.status ELSE last[q]
      /\ last' \in [Runs -> Phase]
  BY <1>1, <1>3 DEF TypeOK, SyncerTake, Phase
<1>5. writing' = IF Coalesced(e) THEN {} ELSE {job}
  BY DEF SyncerTake
<1>6. UNCHANGED <<argoVars, informerVars, create, store, bounds>>
  BY DEF SyncerTake
<1> HIDE DEF e, job
<1>7. \A j \in writing' : j = job
  BY <1>5
<1>8. job.run = e.run /\ job.status = e.status /\ job.put = "primary"
  BY DEF job
<1>9. TypeOK'
  <2>1. writing' \in SUBSET Job /\ \A j, k \in writing' : j = k
    BY <1>3, <1>5
  <2> QED
    BY <1>1, <1>2, <1>4, <1>6, <2>1 DEF TypeOK
<1>10. Rank(e.status) <= Rank(phase[e.run])
  BY <1>2 DEF RecordInv, NothingInvented
<1>11. NeverAhead' /\ HandlerOrder'
  BY <1>6 DEF RecordInv, NeverAhead, HandlerOrder
<1>12. NothingInvented'
  BY <1>2, <1>4, <1>6, <1>7, <1>8, <1>10 DEF RecordInv, NothingInvented
<1>13. WritesLast'
  BY <1>3, <1>4, <1>7, <1>8 DEF WritesLast
<1>14. (PromptHandlers => NothingOlder)'
  <2> SUFFICES ASSUME PromptHandlers PROVE NothingOlder'
    OBVIOUS
  <2>1. NothingOlder
    BY DEF RecordInv
  <2>2. \A i, k \in DOMAIN queue' : i < k => i + 1 < k + 1
    BY <1>2
  <2>3. \A i, k \in DOMAIN queue' :
            (i < k /\ queue'[i].run = queue'[k].run /\ queue'[i].status = "Done")
              => queue'[k].status = "Done"
    BY <1>2, <2>1, <2>2 DEF NothingOlder
  <2>4. \A i \in DOMAIN queue' :
            queue'[i].status = "Done" => cache'[queue'[i].run] \notin {"Pending", "Running"}
    BY <1>2, <1>6, <2>1 DEF NothingOlder
  <2>5. e.status = "Done" =>
            /\ cache[e.run] \notin {"Pending", "Running"}
            /\ \A i \in DOMAIN queue' : queue'[i].run = e.run => queue'[i].status = "Done"
    BY <1>2, <2>1 DEF NothingOlder
  <2>6. \A q \in Runs : primary[q] = "Done" =>
            /\ cache[q] \notin {"Pending", "Running"}
            /\ \A i \in DOMAIN queue' : queue'[i].run = q => queue'[i].status = "Done"
            /\ e.run = q => e.status = "Done"
    BY <1>2, <2>1 DEF NothingOlder
  <2>7. \A q \in Runs : index[q] = "Done" => primary[q] = "Done"
    BY <2>1 DEF NothingOlder
  <2> QED
    BY <1>6, <1>7, <1>8, <2>3, <2>4, <2>5, <2>6, <2>7 DEF NothingOlder
<1>15. (PromptHandlers /\ MaxWriteFailures = 0 => SeenIsWritten)'
  <2> SUFFICES ASSUME PromptHandlers, MaxWriteFailures = 0, NEW q \in Runs,
                      last'[q] = "Done", \A j \in writing' : j.run # q
               PROVE  primary[q] = "Done" /\ index[q] = "Done"
    BY <1>6 DEF SeenIsWritten
  <2>1. last[q] = "Done"
    <3>1. CASE q = e.run
      <4>1. Coalesced(e)
        BY <1>5, <1>8, <3>1
      <4> QED
        BY <1>4, <3>1, <4>1 DEF Coalesced
    <3>2. CASE q # e.run
      BY <1>4, <3>2
    <3> QED
      BY <3>1, <3>2
  <2> QED
    BY <1>1, <2>1 DEF RecordInv, SeenIsWritten
<1> QED
  BY <1>9, <1>11, <1>12, <1>13, <1>14, <1>15 DEF RecordInv

\* A put of the Syncer, done or failed, preserves the invariant.
LEMMA PutInv == ASSUME RecordInv, SyncerPut \/ SyncerPutFails PROVE RecordInv'
<1> USE DEF argoVars, informerVars, store, bounds
<1>1. TypeOK
  BY DEF RecordInv
<1>2. CASE SyncerPut
  <2>1. PICK j \in writing :
           /\ IF j.put = "primary"
              THEN /\ primary' = [primary EXCEPT ![j.run] = j.status]
                   /\ writing' = (writing \ {j}) \cup {[j EXCEPT !.put = "index"]}
                   /\ UNCHANGED index
              ELSE /\ index' = [index EXCEPT ![j.run] = j.status]
                   /\ writing' = writing \ {j}
                   /\ UNCHANGED primary
           /\ UNCHANGED <<argoVars, informerVars, queue, last, create, bounds>>
    BY <1>2 DEF SyncerPut
  <2> DEFINE next == [j EXCEPT !.put = "index"]
  <2>2. j \in Job /\ writing = {j} /\ j.run \in Runs /\ j.status \in Status
    BY <1>1, HeldFacts DEF TypeOK
  <2>3. next \in Job /\ next.run = j.run /\ next.status = j.status /\ next.put = "index"
    BY <2>2 DEF Job
  <2>4. j.status \in Recorded /\ j.status # "None"
    BY <2>2, StatusFacts
  <2>5. j.status = last[j.run] /\ Rank(j.status) <= Rank(phase[j.run])
    BY DEF RecordInv, WritesLast, NothingInvented
  <2> HIDE DEF next
  <2>6. CASE j.put = "primary"
    <3>1. writing' = {next} /\ index' = index
      BY <2>1, <2>2, <2>6 DEF next
    <3>2. /\ primary' \in [Runs -> Recorded]
          /\ \A q \in Runs : primary'[q] = IF q = j.run THEN j.status ELSE primary[q]
      BY <1>1, <2>1, <2>2, <2>4, <2>6 DEF TypeOK
    <3>3. TypeOK'
      BY <1>1, <2>1, <2>3, <3>1, <3>2 DEF TypeOK
    <3>4. NeverAhead' /\ NothingInvented' /\ WritesLast'
      BY <2>1, <2>2, <2>3, <2>5, <3>1, <3>2
         DEF RecordInv, NeverAhead, NothingInvented, WritesLast
    <3>5. (PromptHandlers => NothingOlder)'
      <4> SUFFICES ASSUME PromptHandlers PROVE NothingOlder'
        OBVIOUS
      <4>1. NothingOlder /\ \A q \in Runs : primary[q] = "Done" /\ q = j.run => j.status = "Done"
        BY DEF RecordInv, NothingOlder
      <4> QED
        BY <2>1, <2>2, <2>3, <3>1, <3>2, <4>1 DEF NothingOlder
    <3>6. HandlerOrder'
      BY <2>1, <2>4, <3>2 DEF RecordInv, HandlerOrder
    <3>7. (PromptHandlers /\ MaxWriteFailures = 0 => SeenIsWritten)'
      BY <2>1, <2>2, <2>3, <3>1, <3>2 DEF RecordInv, SeenIsWritten
    <3> QED
      BY <3>3, <3>4, <3>5, <3>6, <3>7 DEF RecordInv
  <2>7. CASE j.put # "primary"
    <3>1. writing' = {} /\ primary' = primary
      BY <2>1, <2>2, <2>7
    <3>2. /\ index' \in [Runs -> Recorded]
          /\ \A q \in Runs : index'[q] = IF q = j.run THEN j.status ELSE index[q]
      BY <1>1, <2>1, <2>2, <2>4, <2>7 DEF TypeOK
    <3>3. TypeOK'
      BY <1>1, <2>1, <3>1, <3>2 DEF TypeOK
    <3>4. NeverAhead' /\ NothingInvented' /\ WritesLast'
      BY <2>1, <2>2, <2>5, <3>1, <3>2
         DEF RecordInv, NeverAhead, NothingInvented, WritesLast
    <3>5. (PromptHandlers => NothingOlder)'
      <4> SUFFICES ASSUME PromptHandlers PROVE NothingOlder'
        OBVIOUS
      <4>1. j.status = "Done" => primary[j.run] = "Done"
        BY <2>2, <2>7 DEF RecordInv, WritesLast, Job
      <4>2. \A q \in Runs : index'[q] = "Done" => primary[q] = "Done"
        BY <3>2, <4>1 DEF RecordInv, NothingOlder
      <4> QED
        BY <2>1, <3>1, <4>2 DEF RecordInv, NothingOlder
    <3>8. HandlerOrder'
      BY <2>1, <3>1 DEF RecordInv, HandlerOrder
    <3>6. (PromptHandlers /\ MaxWriteFailures = 0 => SeenIsWritten)'
      <4> SUFFICES ASSUME PromptHandlers, MaxWriteFailures = 0, NEW q \in Runs, last[q] = "Done"
                   PROVE  primary[q] = "Done" /\ index'[q] = "Done"
        BY <2>1, <3>1 DEF SeenIsWritten
      <4>1. CASE q = j.run
        <5>1. j.put = "index" /\ j.status = "Done"
          BY <2>2, <2>5, <2>7, <4>1 DEF Job
        <5>2. primary[q] = "Done"
          BY <4>1, <5>1 DEF RecordInv, WritesLast
        <5> QED
          BY <3>2, <4>1, <5>1, <5>2
      <4>2. CASE q # j.run
        BY <2>2, <3>2, <4>2 DEF RecordInv, SeenIsWritten
      <4> QED
        BY <4>1, <4>2
    <3> QED
      BY <3>3, <3>4, <3>5, <3>6, <3>8 DEF RecordInv
  <2> QED
    BY <2>6, <2>7
<1>3. CASE SyncerPutFails
  <2> USE <1>3 DEF SyncerPutFails
  <2>1. TypeOK' /\ MaxWriteFailures # 0
    BY <1>1, ManifestAssumption DEF TypeOK
  <2>2. NeverAhead' /\ NothingInvented' /\ WritesLast'
    BY DEF RecordInv, NeverAhead, NothingInvented, WritesLast
  <2>3. (PromptHandlers => NothingOlder)' /\ HandlerOrder'
    BY DEF RecordInv, NothingOlder, HandlerOrder
  <2> QED
    BY <2>1, <2>2, <2>3 DEF RecordInv
<1> QED
  BY <1>2, <1>3

\* A crash and a restart preserve the invariant.
LEMMA ProcessInv == ASSUME RecordInv, Crash \/ Restart PROVE RecordInv'
<1> USE DEF argoVars, syncerVars, store, bounds
<1>1. TypeOK
  BY DEF RecordInv
<1>2. CASE Crash
  <2> USE <1>2 DEF Crash
  <2>1. /\ queue' = << >> /\ writing' = {}
        /\ \A q \in Runs : cache'[q] = "None" /\ last'[q] = "None"
        /\ \A q \in Runs : create'[q] = IF create[q] \in {"primary", "index"} THEN "lost"
                                        ELSE create[q]
        /\ UNCHANGED <<phase, deleted, primary, index>>
    OBVIOUS
  <2>2. TypeOK'
    <3>1. << >> \in Seq(Event) /\ Len(<< >>) <= QueueCap
      BY ManifestAssumption
    <3>2. /\ cache' \in [Runs -> Phase \cup {"Removed"}]
          /\ last' \in [Runs -> Phase]
          /\ create' \in [Runs -> HandlerState]
      BY <1>1 DEF TypeOK, Phase, HandlerState
    <3>3. crashes' \in 0..MaxCrashes
      BY <1>1, ManifestAssumption DEF TypeOK
    <3>4. up' \in BOOLEAN
      OBVIOUS
    <3>5. writing' \in SUBSET Job /\ \A j, k \in writing' : j = k
      BY <2>1
    <3> QED
      BY <1>1, <2>1, <3>1, <3>2, <3>3, <3>4, <3>5 DEF TypeOK
  <2>3. DOMAIN queue' = {} /\ \A q \in Runs : Rank(phase[q]) >= 0
    BY <1>1, <2>1, RankBound DEF TypeOK, Recorded
  <2>4. NothingInvented'
    <3>1. \A q \in Runs : create'[q] # "none" => create[q] # "none"
      BY <2>1
    <3>2. "None" \notin Status /\ Rank("None") = 0
      BY RankValues DEF Status
    <3> QED
      BY <2>1, <2>3, <3>1, <3>2 DEF RecordInv, NothingInvented
  <2>5. NeverAhead' /\ WritesLast'
    BY <2>1 DEF RecordInv, NeverAhead, WritesLast
  <2>6. (PromptHandlers => NothingOlder)'
    BY <2>1, <2>3 DEF RecordInv, NothingOlder
  <2>7. HandlerOrder'
    BY <2>1 DEF RecordInv, HandlerOrder
  <2>8. (PromptHandlers /\ MaxWriteFailures = 0 => SeenIsWritten)'
    BY <2>1 DEF SeenIsWritten
  <2> QED
    BY <2>2, <2>4, <2>5, <2>6, <2>7, <2>8 DEF RecordInv
<1>3. CASE Restart
  <2> USE <1>3 DEF Restart
  <2>1. /\ \A q \in Runs : cache'[q] = IF q \in deleted THEN "Removed" ELSE phase[q]
        /\ UNCHANGED <<phase, deleted, queue, last, writing, create, primary, index>>
    OBVIOUS
  <2>2. TypeOK'
    BY <1>1 DEF TypeOK
  <2>3. NothingInvented'
    <3>1. "Removed" \notin Status /\ \A q \in Runs : phase[q] # "Removed" /\ Rank(phase[q]) \in Nat
      BY <1>1, RankBound DEF TypeOK, Phase, Status, Recorded
    <3> QED
      BY <2>1, <3>1 DEF RecordInv, NothingInvented
  <2>4. (PromptHandlers => NothingOlder)'
    <3> SUFFICES ASSUME PromptHandlers PROVE NothingOlder'
      OBVIOUS
    <3>1. \A q \in Runs : phase[q] \in Recorded /\ (Rank(phase[q]) >= 4 => phase[q] = "Done")
      BY <1>1, RankBound DEF TypeOK, Recorded
    <3>2. \A i \in DOMAIN queue : queue[i].run \in Runs
      BY <1>1, HeldFacts
    <3>3. \A j \in writing : j.run \in Runs
      BY <1>1, HeldFacts
    <3>4. \A q \in Runs : phase[q] = "Done" => cache'[q] \notin {"Pending", "Running"}
      BY <2>1
    <3>5. \A i \in DOMAIN queue : queue[i].status = "Done" => phase[queue[i].run] = "Done"
      BY <3>1, <3>2, RankValues DEF RecordInv, NothingInvented
    <3>6. \A j \in writing : j.status = "Done" => phase[j.run] = "Done"
      BY <3>1, <3>3, RankValues DEF RecordInv, NothingInvented
    <3>7. \A q \in Runs : primary[q] = "Done" => phase[q] = "Done"
      BY <3>1, RankValues DEF RecordInv, NeverAhead
    <3> QED
      BY <2>1, <3>2, <3>3, <3>4, <3>5, <3>6, <3>7 DEF RecordInv, NothingOlder
  <2>5. NeverAhead' /\ WritesLast' /\ HandlerOrder'
    BY <2>1 DEF RecordInv, NeverAhead, WritesLast, HandlerOrder
  <2>6. (PromptHandlers /\ MaxWriteFailures = 0 => SeenIsWritten)'
    BY <2>1 DEF RecordInv, SeenIsWritten
  <2> QED
    BY <2>2, <2>3, <2>4, <2>5, <2>6 DEF RecordInv
<1> QED
  BY <1>2, <1>3

\* Every step preserves the invariant.
LEMMA NextInv == RecordInv /\ [Next]_vars => RecordInv'
<1> SUFFICES ASSUME RecordInv, [Next]_vars PROVE RecordInv'
  OBVIOUS
<1>1. CASE UNCHANGED vars
  <2> USE <1>1 DEF vars, argoVars, informerVars, syncerVars, store, bounds
  <2>1. TypeOK'
    BY DEF RecordInv, TypeOK
  <2>2. NeverAhead' /\ NothingInvented' /\ WritesLast'
    BY DEF RecordInv, NeverAhead, NothingInvented, WritesLast
  <2>3. /\ (PromptHandlers => NothingOlder)' /\ HandlerOrder'
        /\ (PromptHandlers /\ MaxWriteFailures = 0 => SeenIsWritten)'
    BY DEF RecordInv, NothingOlder, HandlerOrder, SeenIsWritten
  <2> QED
    BY <2>1, <2>2, <2>3 DEF RecordInv
<1>2. ASSUME NEW r \in Runs, RunNext(r) PROVE RecordInv'
  <2>1. CASE CronRun(r) \/ StartRun(r) \/ EndRun(r) \/ DeleteWorkflow(r)
    BY <2>1, EngineInv
  <2>2. CASE CreateRun(r) \/ HandlerPut(r) \/ HandlerPutFails(r)
    BY <2>2, HandlerInv
  <2>3. CASE InformerSees(r) \/ InformerSeesDelete(r) \/ InformerMissesDelete(r) \/ Resync(r)
    BY <2>3, InformerInv
  <2> QED
    BY <1>2, <2>1, <2>2, <2>3 DEF RunNext
<1> QED
  BY <1>1, <1>2, TakeInv, PutInv, ProcessInv DEF Next

\* The invariant holds in every reachable state, for any runs, channel capacity
\* and number of crashes and failed puts.
THEOREM RecordInvHolds == SafetySpec => []RecordInv
<1>1. Init => RecordInv
  BY InitInv
<1>2. RecordInv /\ [Next]_vars => RecordInv'
  BY NextInv
<1> QED
  BY <1>1, <1>2, PTL DEF SafetySpec

\* The channel keeps its capacity and the Syncer has at most one Write under way.
THEOREM TypeCorrect == SafetySpec => []TypeOK
<1>1. RecordInv => TypeOK
  BY DEF RecordInv
<1> QED
  BY <1>1, RecordInvHolds, PTL

\* The manifest and its indexes never run ahead of the Workflow.
THEOREM NeverAheadHolds == SafetySpec => []NeverAhead
<1>1. RecordInv => NeverAhead
  BY DEF RecordInv
<1> QED
  BY <1>1, RecordInvHolds, PTL

-----------------------------------------------------------------------------
(* The manifests are a record (RunRecord) *)

\* What a record may say of a run that has come so far.
LEMMA SaidFacts ==
    /\ DOMAIN Record!Said = Phase
    /\ \A p \in Status : "Submitted" \in Record!Said[p]
    /\ \A p \in Phase : \A s \in Status : Rank(s) <= Rank(p) => s \in Record!Said[p]
    /\ \A p, q \in Phase : Rank(p) <= Rank(q) => Record!Said[p] \subseteq Record!Said[q]
<1>1. /\ DOMAIN Record!Said = Phase
      /\ Record!Said["None"] = {}
      /\ Record!Said["Pending"] = {"Submitted", "Pending"}
      /\ Record!Said["Running"] = {"Submitted", "Pending", "Running"}
      /\ Record!Said["Done"] = {"Submitted", "Pending", "Running", "Done"}
  BY DEF Record!Said, Phase, Status
<1> QED
  BY <1>1, RankValues DEF Phase, Status

\* The engine moves the run on.
LEMMA AdvanceStep ==
    ASSUME RecordInv, NEW r \in Runs,
           CronRun(r) \/ StartRun(r) \/ EndRun(r) \/ CreateRun(r)
    PROVE  Record!Advance(r)
<1>1. PICK p \in Status : /\ phase' = [phase EXCEPT ![r] = p]
                          /\ Rank(phase[r]) <= Rank(p)
  BY RankValues DEF CronRun, StartRun, EndRun, CreateRun, Status
<1>2. UNCHANGED <<primary, index>>
  BY DEF CronRun, StartRun, EndRun, CreateRun, store
<1>3. p \in Phase /\ phase[r] \in Phase
  BY DEF RecordInv, TypeOK, Phase
<1> QED
  BY <1>1, <1>2, <1>3, SaidFacts DEF Record!Advance

\* A prompt handler's put comes before the end of the run.
LEMMA HandlerStep ==
    ASSUME PromptHandlers, RecordInv, NEW r \in Runs, HandlerPut(r)
    PROVE  Record!Write(r) \/ Record!List(r)
<1> USE DEF argoVars
<1>1. /\ phase[r] \in Status /\ phase[r] # "Done"
      /\ primary[r] \in Recorded /\ index[r] \in Recorded
  BY DEF RecordInv, TypeOK, HandlerOrder, NothingInvented, HandlerPut, Phase
<1>2. primary[r] # "Done" /\ index[r] # "Done"
  <2>1. /\ Rank(primary[r]) <= Rank(phase[r]) /\ Rank(index[r]) <= Rank(phase[r])
        /\ Rank(phase[r]) < 4
    BY <1>1, RankValues DEF RecordInv, NeverAhead, Status
  <2> QED
    BY <1>1, <2>1, RankValues DEF Recorded, Phase, Status
<1>3. "Submitted" \in Record!Said[phase[r]]
  BY <1>1, SaidFacts
<1>4. CASE create[r] = "primary"
  BY <1>2, <1>3, <1>4 DEF HandlerPut, Record!Write
<1>5. CASE create[r] = "index"
  BY <1>2, <1>3, <1>5 DEF HandlerPut, Record!List
<1> QED
  BY <1>4, <1>5 DEF HandlerPut

\* A put of the Syncer says something true that is new, or says the end again.
LEMMA SyncerStep ==
    ASSUME PromptHandlers, RecordInv, SyncerPut
    PROVE  (\E r \in Runs : Record!Write(r) \/ Record!List(r)) \/ UNCHANGED Record!vars
<1> USE DEF argoVars
<1>1. PICK j \in writing :
         /\ IF j.put = "primary"
            THEN primary' = [primary EXCEPT ![j.run] = j.status] /\ UNCHANGED index
            ELSE index' = [index EXCEPT ![j.run] = j.status] /\ UNCHANGED primary
         /\ UNCHANGED phase
  BY DEF SyncerPut
<1>2. /\ j.run \in Runs /\ j.status \in Status /\ phase[j.run] \in Phase
      /\ primary \in [Runs -> Recorded] /\ index \in [Runs -> Recorded]
  BY HeldFacts DEF RecordInv, TypeOK
<1>3. j.status \in Record!Said[phase[j.run]]
  BY <1>2, SaidFacts DEF RecordInv, NothingInvented
<1>4. /\ primary[j.run] = "Done" => j.status = "Done"
      /\ index[j.run] = "Done" => primary[j.run] = "Done"
  BY <1>2 DEF RecordInv, NothingOlder
<1>5. j.put # "primary" /\ j.status = "Done" => primary[j.run] = "Done"
  BY DEF RecordInv, TypeOK, WritesLast, Job
<1>6. CASE j.put = "primary"
  <2>1. CASE primary[j.run] = "Done"
    <3>1. primary' = primary
      BY <1>1, <1>2, <1>4, <1>6, <2>1
    <3> QED
      BY <1>1, <1>6, <3>1 DEF Record!vars
  <2>2. CASE primary[j.run] # "Done"
    BY <1>1, <1>2, <1>3, <1>6, <2>2 DEF Record!Write
  <2> QED
    BY <2>1, <2>2
<1>7. CASE j.put # "primary"
  <2>1. CASE index[j.run] = "Done"
    <3>1. index' = index
      BY <1>1, <1>2, <1>4, <1>7, <2>1
    <3> QED
      BY <1>1, <1>7, <3>1 DEF Record!vars
  <2>2. CASE index[j.run] # "Done"
    BY <1>1, <1>2, <1>3, <1>5, <1>7, <2>2 DEF Record!List
  <2> QED
    BY <2>1, <2>2
<1> QED
  BY <1>6, <1>7

\* With prompt handlers, whatever is lost, replayed, refused or cut short, the
\* primary object and the indexes are the record of each run that RunRecord
\* promises: true, final once terminal, and never listed before it is recorded.
THEOREM RefinesRecord ==
    ASSUME PromptHandlers PROVE SafetySpec => KeepsRecord
<1>1. Init => Record!Init
  BY DEF Init, Record!Init
<1>2. RecordInv /\ [Next]_vars => [Record!Next]_(Record!vars)
  <2> SUFFICES ASSUME RecordInv, Next PROVE Record!Next \/ UNCHANGED Record!vars
    BY DEF vars, argoVars, store, Record!vars
  <2>1. ASSUME NEW r \in Runs, CronRun(r) \/ StartRun(r) \/ EndRun(r) \/ CreateRun(r)
        PROVE  Record!Next
    BY <2>1, AdvanceStep DEF Record!Next
  <2>2. ASSUME NEW r \in Runs, HandlerPut(r) PROVE Record!Next
    BY <2>2, PromptHandlers, HandlerStep DEF Record!Next
  <2>3. CASE SyncerPut
    BY <2>3, PromptHandlers, SyncerStep DEF Record!Next
  <2>4. ASSUME NEW r \in Runs,
               \/ DeleteWorkflow(r) \/ HandlerPutFails(r) \/ InformerSees(r)
               \/ InformerSeesDelete(r) \/ InformerMissesDelete(r) \/ Resync(r)
        PROVE  UNCHANGED Record!vars
    BY <2>4 DEF DeleteWorkflow, HandlerPutFails, InformerSees, InformerSeesDelete,
       InformerMissesDelete, Resync, argoVars, store, Record!vars
  <2>5. CASE SyncerTake \/ SyncerPutFails \/ Crash \/ Restart
    BY <2>5 DEF SyncerTake, SyncerPutFails, Crash, Restart, argoVars, store, Record!vars
  <2> QED
    BY <2>1, <2>2, <2>3, <2>4, <2>5 DEF Next, RunNext
<1> QED
  BY <1>1, <1>2, RecordInvHolds, PTL DEF SafetySpec, KeepsRecord, Record!Spec

\* A terminal record is final, in the primary object and in the indexes: neither
\* replayed events after a restart nor a deletion event turn it back.
TerminalIsFinal ==
    [][\A r \in Runs : /\ primary[r] = "Done" => primary'[r] = "Done"
                       /\ index[r] = "Done" => index'[r] = "Done"]_vars

\* It follows from the refinement: a write of the abstract record touches no end.
THEOREM TerminalIsFinalHolds ==
    ASSUME PromptHandlers PROVE SafetySpec => TerminalIsFinal
<1> DEFINE Keeps == \A r \in Runs : /\ primary[r] = "Done" => primary'[r] = "Done"
                                    /\ index[r] = "Done" => index'[r] = "Done"
<1>1. TypeOK /\ [Record!Next]_(Record!vars) => [Keeps]_vars
  <2> SUFFICES ASSUME TypeOK, Record!Next \/ UNCHANGED Record!vars PROVE Keeps
    OBVIOUS
  <2>1. primary \in [Runs -> Recorded] /\ index \in [Runs -> Recorded]
    BY DEF TypeOK
  <2>2. CASE UNCHANGED Record!vars
    BY <2>2 DEF Record!vars
  <2>3. ASSUME NEW r \in Runs, Record!Advance(r) PROVE Keeps
    BY <2>3 DEF Record!Advance
  <2>4. ASSUME NEW r \in Runs, Record!Write(r) PROVE Keeps
    BY <2>1, <2>4 DEF Record!Write
  <2>5. ASSUME NEW r \in Runs, Record!List(r) PROVE Keeps
    BY <2>1, <2>5 DEF Record!List
  <2> QED
    BY <2>2, <2>3, <2>4, <2>5 DEF Record!Next
<1>2. [][Keeps]_vars => TerminalIsFinal
  BY DEF TerminalIsFinal
<1>3. SafetySpec => KeepsRecord
  BY PromptHandlers, RefinesRecord
<1> QED
  BY <1>1, <1>2, <1>3, TypeCorrect, PTL DEF KeepsRecord, Record!Spec

-----------------------------------------------------------------------------
(* What the Syncer has seen and what a client was told *)

\* With prompt handlers and a store that fails no put, what the Syncer has seen
\* end is written.
THEOREM SeenIsWrittenHolds ==
    ASSUME PromptHandlers, MaxWriteFailures = 0 PROVE SafetySpec => []SeenIsWritten
<1>1. RecordInv => SeenIsWritten
  BY PromptHandlers, MaxWriteFailures = 0 DEF RecordInv
<1> QED
  BY <1>1, RecordInvHolds, PTL

\* With a store that fails no put, a run that was answered 202 is found.
THEOREM AnsweredRunIsFoundHolds ==
    ASSUME MaxWriteFailures = 0 PROVE SafetySpec => []AnsweredRunIsFound
<1>1. RecordInv => AnsweredRunIsFound
  BY MaxWriteFailures = 0 DEF RecordInv, HandlerOrder, AnsweredRunIsFound, GetRun, Status
<1> QED
  BY <1>1, RecordInvHolds, PTL

=============================================================================
