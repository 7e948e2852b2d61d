-------------------------- MODULE EventStreamProofs --------------------------
(***************************************************************************)
(* Proofs about EventStream, for every set of runs, channel capacity and   *)
(* number of faults: the inductive invariant StreamInv, that the stream    *)
(* has no gap and that no client is told of an end that has not come.      *)
(***************************************************************************)
EXTENDS EventStream, SequenceTheorems, TLAPS

\* A broadcast adds its event at the end of the channel, or leaves it alone.
LEMMA BroadcastFacts ==
    ASSUME TypeOK, NEW e \in Event, Broadcast(e)
    PROVE  /\ chan' \in Seq(Event)
           /\ Len(chan') <= QueueCap
           /\ lost' \in BOOLEAN
           /\ ~Open => chan' = chan
           /\ ~lost' => ~lost
           /\ Open /\ ~lost' /\ e.run = Watched => chan' = Append(chan, e)
           /\ chan' = chan \/ chan' = Append(chan, e)
<1>1. chan \in Seq(Event) /\ Len(chan) \in Nat /\ Len(chan) <= QueueCap /\ QueueCap \in Nat
  BY StreamAssumption DEF TypeOK
<1>2. Append(chan, e) \in Seq(Event) /\ Len(Append(chan, e)) = Len(chan) + 1
  BY <1>1
<1>3. chan' = IF Open /\ Len(chan) < QueueCap THEN Append(chan, e) ELSE chan
  BY DEF Broadcast
<1>4. lost' = (lost \/ (Open /\ Len(chan) = QueueCap /\ e.run = Watched))
  BY DEF Broadcast
<1>5. lost' \in BOOLEAN /\ (~lost' => ~lost)
  BY <1>4
<1>6. ~lost' => ~(Open /\ Len(chan) = QueueCap /\ e.run = Watched)
  BY <1>4
<1>7. /\ chan' \in Seq(Event)
      /\ Len(chan') <= QueueCap
      /\ ~Open => chan' = chan
      /\ chan' = chan \/ chan' = Append(chan, e)
  BY <1>1, <1>2, <1>3
<1>8. Open /\ Len(chan) # QueueCap => chan' = Append(chan, e)
  BY <1>1, <1>3
<1> QED
  BY <1>5, <1>6, <1>7, <1>8

\* What Append does to the last word of a queue.
LEMMA AppendLast ==
    ASSUME NEW q \in Seq(Event), NEW e \in Event
    PROVE  /\ e.run = Watched => /\ LastOf(Append(q, e), e.status)
                                 /\ ~Silent(Append(q, e))
           /\ e.run # Watched => /\ \A s : LastOf(q, s) => LastOf(Append(q, e), s)
                                 /\ Silent(Append(q, e)) <=> Silent(q)
<1> DEFINE a == Append(q, e)
<1>1. /\ DOMAIN a = DOMAIN q \cup {Len(q) + 1}
      /\ DOMAIN q = 1..Len(q) /\ Len(q) \in Nat
      /\ \A i \in DOMAIN q : a[i] = q[i] /\ Len(q) + 1 > i
      /\ a[Len(q) + 1] = e
  OBVIOUS
<1> HIDE DEF a
<1>2. ASSUME e.run = Watched
      PROVE  LastOf(a, e.status) /\ ~Silent(a)
  BY <1>1, <1>2 DEF LastOf, Silent
<1>3. ASSUME e.run # Watched
      PROVE  /\ \A s : LastOf(q, s) => LastOf(a, s)
             /\ Silent(a) <=> Silent(q)
  <2>1. ASSUME NEW s, LastOf(q, s) PROVE LastOf(a, s)
    <3> SUFFICES ASSUME NEW i \in DOMAIN a, a[i].run = Watched,
                        \A k \in DOMAIN a : k > i => a[k].run # Watched
                 PROVE  a[i].status = s
      BY DEF LastOf
    <3>1. i \in DOMAIN q /\ q[i].run = Watched /\ \A k \in DOMAIN q : k > i => q[k].run # Watched
      BY <1>1, <1>3
    <3> QED
      BY <1>1, <2>1, <3>1 DEF LastOf
  <2>2. Silent(a) <=> Silent(q)
    BY <1>1, <1>3 DEF Silent
  <2> QED
    BY <2>1, <2>2
<1> QED
  BY <1>2, <1>3 DEF a

\* What taking the oldest event off a queue does to its last word.
LEMMA TailLast ==
    ASSUME NEW q \in Seq(Event), q # << >>
    PROVE  /\ Head(q) \in Event /\ Tail(q) \in Seq(Event)
           /\ Len(q) \in Nat /\ Len(Tail(q)) = Len(q) - 1
           /\ \A s : LastOf(q, s) => LastOf(Tail(q), s)
           /\ \A s : LastOf(q, s) /\ Silent(Tail(q)) /\ Head(q).run = Watched
                        => Head(q).status = s
           /\ Silent(q) <=> Head(q).run # Watched /\ Silent(Tail(q))
<1> DEFINE t == Tail(q)
           h == Head(q)
<1>1. /\ h \in Event /\ h = q[1] /\ 1 \in DOMAIN q
      /\ t \in Seq(Event) /\ Len(q) \in Nat /\ Len(t) = Len(q) - 1
      /\ DOMAIN q = 1..Len(q) /\ DOMAIN t = 1..(Len(q) - 1)
  OBVIOUS
<1>2. \A i \in 1..(Len(q) - 1) : t[i] = q[i + 1]
  OBVIOUS
<1> HIDE DEF t, h
<1>3. \A i \in DOMAIN t : i + 1 \in DOMAIN q /\ t[i] = q[i + 1]
  BY <1>1, <1>2
<1>4. \A k \in DOMAIN q : k = 1 \/ (k - 1 \in DOMAIN t /\ t[k - 1] = q[k])
  BY <1>1, <1>2
<1>5. ASSUME NEW s, LastOf(q, s) PROVE LastOf(t, s)
  <2> SUFFICES ASSUME NEW i \in DOMAIN t, t[i].run = Watched,
                      \A k \in DOMAIN t : k > i => t[k].run # Watched
               PROVE  t[i].status = s
    BY DEF LastOf
  <2>1. \A k \in DOMAIN q : k > i + 1 => q[k].run # Watched
    <3> SUFFICES ASSUME NEW k \in DOMAIN q, k > i + 1 PROVE q[k].run # Watched
      OBVIOUS
    <3>1. k - 1 \in DOMAIN t /\ k - 1 > i /\ t[k - 1] = q[k]
      BY <1>1, <1>4
    <3> QED
      BY <3>1
  <2>2. i + 1 \in DOMAIN q /\ q[i + 1].run = Watched /\ t[i] = q[i + 1]
    BY <1>3
  <2> QED
    BY <1>5, <2>1, <2>2 DEF LastOf
<1>6. ASSUME NEW s, LastOf(q, s), Silent(t), h.run = Watched PROVE h.status = s
  <2>1. \A k \in DOMAIN q : k > 1 => q[k].run # Watched
    BY <1>1, <1>4, <1>6 DEF Silent
  <2> QED
    BY <1>1, <1>6, <2>1 DEF LastOf
<1>7. Silent(q) <=> h.run # Watched /\ Silent(t)
  BY <1>1, <1>3, <1>4 DEF Silent
<1> QED
  BY <1>1, <1>5, <1>6, <1>7 DEF t, h

\* An empty channel is in bounds.
LEMMA EmptyFits ==
    /\ \A S : << >> \in Seq(S)
    /\ Len(<< >>) <= QueueCap
    /\ Len(<< >>) <= MaxLoads
    /\ \A s : LastOf(<< >>, s)
<1>1. QueueCap \in Nat /\ MaxLoads \in Nat /\ Len(<< >>) = 0
  BY StreamAssumption
<1>2. \A S : << >> \in Seq(S)
  OBVIOUS
<1>3. \A s : LastOf(<< >>, s)
  BY DEF LastOf
<1> QED
  BY <1>1, <1>2, <1>3

\* Initially nothing is known.
LEMMA InitStreamInv == Init => StreamInv
<1> SUFFICES ASSUME Init PROVE StreamInv
  OBVIOUS
<1>1. /\ chan \in Seq(Event) /\ Len(chan) <= QueueCap
      /\ answers \in Seq(Phase) /\ Len(answers) <= MaxLoads
      /\ notices \in Seq(Event)
  BY EmptyFits DEF Init
<1>2. TypeOK
  <2>1. /\ phase \in [Runs -> Phase]
        /\ cache \in [Runs -> Phase \cup {"Removed"}]
        /\ deleted \in SUBSET Runs
    BY DEF Init, Phase
  <2>2. up \in BOOLEAN /\ lost \in BOOLEAN /\ reload \in BOOLEAN
    BY DEF Init
  <2>3. faults \in 0..MaxFaults
    BY StreamAssumption DEF Init
  <2>4. /\ record \in Phase /\ sent \in Phase /\ page \in Phase \cup {"Broken"}
        /\ conn \in {"closed", "subscribed", "streaming", "refused"}
        /\ wait \in {"idle", "submitting", "polling", "returned", "failed"}
    BY DEF Init, Phase
  <2> QED
    BY <1>1, <2>1, <2>2, <2>3, <2>4 DEF TypeOK
<1>3. NothingInvented /\ NoGap
  BY StreamAssumption DEF Init, NothingInvented, NoGap, Open
<1> QED
  BY <1>2, <1>3, EmptyFits DEF StreamInv, Init, Open

\* Steps of the engine, of CreateRun and of the Syncer.
LEMMA EngineStep ==
    ASSUME StreamInv, NEW r \in Runs,
           StartWorkflow(r) \/ EndRun(r) \/ DeleteWorkflow(r) \/ Accept \/ SyncerRecords
    PROVE  StreamInv'
<1> USE StreamAssumption
<1>1. UNCHANGED <<up, cache, notices, streamVars, pageVars>> /\ (faults > 0 => faults' > 0)
  BY DEF StartWorkflow, EndRun, DeleteWorkflow, Accept, SyncerRecords, Fault, clientVars,
     StreamInv, TypeOK
<1>2. TypeOK' /\ NothingInvented'
  <2>1. CASE StartWorkflow(r)
    BY <2>1 DEF StartWorkflow, StreamInv, TypeOK, NothingInvented, Phase, Status, streamVars, pageVars
  <2>2. CASE EndRun(r)
    BY <2>2 DEF EndRun, StreamInv, TypeOK, NothingInvented, Phase, Status, clientVars, streamVars, pageVars
  <2>3. CASE DeleteWorkflow(r)
    BY <2>3 DEF DeleteWorkflow, StreamInv, TypeOK, NothingInvented, Phase, Status, clientVars, streamVars, pageVars
  <2>4. CASE Accept
    BY <2>4 DEF Accept, Fault, StreamInv, TypeOK, NothingInvented, Phase, Status, streamVars, pageVars
  <2>5. CASE SyncerRecords
    BY <2>5 DEF SyncerRecords, StreamInv, TypeOK, NothingInvented, Phase, Status, clientVars, streamVars, pageVars
  <2> QED
    BY <2>1, <2>2, <2>3, <2>4, <2>5
<1>3. NoGap' /\ (cache'[Watched] \in Status => LastOf(notices, cache[Watched])')
  BY <1>1 DEF StreamInv, NoGap, Open, LastWord, LastOf, Silent, streamVars
<1> QED
  BY <1>1, <1>2, <1>3 DEF StreamInv, Open, streamVars

\* A notice of what the store now has of its run keeps the last word right.
LEMMA NoticeKeepsWord ==
    ASSUME StreamInv, NEW e \in Event, notices' = Append(notices, e),
           UNCHANGED <<conn, chan, sent, lost>>,
           e.run # Watched => cache'[Watched] = cache[Watched],
           e.run = Watched /\ cache'[Watched] \in Status => e.status = cache'[Watched]
    PROVE  NoGap' /\ (cache'[Watched] \in Status => LastOf(notices, cache[Watched])')
<1> DEFINE s == cache'[Watched]
<1>1. notices \in Seq(Event)
  BY DEF StreamInv, TypeOK
<1>2. CASE e.run = Watched /\ s \in Status
  <2>1. LastOf(notices', s) /\ ~Silent(notices')
    BY <1>1, <1>2, AppendLast
  <2> QED
    BY <1>2, <2>1 DEF NoGap, LastWord, LastOf, Silent
<1>3. CASE e.run # Watched /\ s \in Status
  <2>1. LastOf(notices, s) /\ s = cache[Watched]
    BY <1>3 DEF StreamInv
  <2>2. LastOf(notices', s) /\ (Silent(notices') <=> Silent(notices))
    BY <1>1, <1>3, <2>1, AppendLast
  <2>3. Open /\ ~lost => LastWord(s)
    BY <1>3, <2>1 DEF StreamInv, NoGap
  <2>4. Open' /\ ~lost' => LastWord(cache[Watched])'
    BY <2>2, <2>3 DEF LastWord, LastOf, Silent, Open
  <2> QED
    BY <2>2, <2>4 DEF NoGap, LastOf
<1>4. CASE s \notin Status
  BY <1>4 DEF NoGap
<1> QED
  BY <1>2, <1>3, <1>4

\* Steps of the informer's store.
LEMMA InformerStep ==
    ASSUME StreamInv, NEW r \in Runs, InformerSees(r) \/ InformerSeesDelete(r) \/ Resync(r)
    PROVE  StreamInv'
<1> USE StreamAssumption
<1>1. UNCHANGED <<phase, deleted, up, record, faults, clientVars>> /\ up
  BY DEF InformerSees, InformerSeesDelete, Resync
<1>2. cache' \in [Runs -> Phase \cup {"Removed"}] /\ NothingInvented'
  <2>1. CASE InformerSees(r)
    <3>1. cache' = [cache EXCEPT ![r] = phase[r]] /\ r \notin deleted
      BY <2>1 DEF InformerSees
    <3> QED
      BY <1>1, <3>1 DEF StreamInv, TypeOK, NothingInvented, Phase, Status, clientVars
  <2>2. CASE InformerSeesDelete(r)
    BY <1>1, <2>2 DEF InformerSeesDelete, StreamInv, TypeOK, NothingInvented, clientVars
  <2>3. CASE Resync(r)
    BY <1>1, <2>3 DEF Resync, StreamInv, TypeOK, NothingInvented, clientVars
  <2> QED
    BY <2>1, <2>2, <2>3
<1>3. ASSUME notices' \in Seq(Event),
             NoGap' /\ (cache'[Watched] \in Status => LastOf(notices, cache[Watched])')
      PROVE  StreamInv'
  <2>1. TypeOK'
    BY <1>1, <1>2, <1>3 DEF StreamInv, TypeOK, clientVars, streamVars, pageVars
  <2> QED
    BY <1>1, <1>2, <1>3, <2>1 DEF StreamInv, Open, clientVars, streamVars
<1>4. ASSUME NEW e \in Event, notices' = Append(notices, e),
             e.run # Watched => cache'[Watched] = cache[Watched],
             e.run = Watched /\ cache'[Watched] \in Status => e.status = cache'[Watched]
      PROVE  StreamInv'
  <2>1. notices' \in Seq(Event)
    BY <1>4 DEF StreamInv, TypeOK
  <2>2. NoGap' /\ (cache'[Watched] \in Status => LastOf(notices, cache[Watched])')
    BY <1>1, <1>4, NoticeKeepsWord DEF clientVars, streamVars
  <2> QED
    BY <1>3, <2>1, <2>2
<1>5. CASE InformerSees(r)
  <2> DEFINE e == [run |-> r, status |-> phase[r]]
  <2>1. phase[r] \in Status
    BY <1>5 DEF InformerSees, StreamInv, TypeOK, NothingInvented, Phase
  <2>2. e \in Event /\ e.run = r /\ e.status = phase[r]
    BY <2>1 DEF Event
  <2>3. /\ notices' = Append(notices, e)
        /\ cache'[r] = phase[r]
        /\ \A q \in Runs : q # r => cache'[q] = cache[q]
    BY <1>5 DEF InformerSees, StreamInv, TypeOK
  <2> HIDE DEF e
  <2> QED
    BY <1>4, <2>2, <2>3
<1>6. CASE InformerSeesDelete(r)
  <2> DEFINE e == [run |-> r, status |-> phase[r]]
  <2>1. phase[r] \in Status
    BY <1>6 DEF InformerSeesDelete, StreamInv, TypeOK, NothingInvented, Phase
  <2>2. e \in Event /\ e.run = r
    BY <2>1 DEF Event
  <2>3. /\ cache'[r] \notin Status
        /\ \A q \in Runs : q # r => cache'[q] = cache[q]
        /\ notices' = Append(notices, e) \/ notices' = notices
    BY <1>6 DEF InformerSeesDelete, StreamInv, TypeOK, Status
  <2> HIDE DEF e
  <2>4. CASE notices' = Append(notices, e)
    BY <1>4, <2>2, <2>3, <2>4
  <2>5. CASE notices' = notices
    <3>1. cache'[Watched] \in Status => cache'[Watched] = cache[Watched]
      BY <2>3
    <3>2. NoGap' /\ (cache'[Watched] \in Status => LastOf(notices, cache[Watched])')
      BY <1>1, <2>5, <3>1 DEF StreamInv, NoGap, Open, LastWord, LastOf, Silent, clientVars, streamVars
    <3> QED
      BY <1>3, <2>5, <3>2 DEF StreamInv, TypeOK
  <2> QED
    BY <2>3, <2>4, <2>5
<1>7. CASE Resync(r)
  <2> DEFINE e == [run |-> r, status |-> cache[r]]
  <2>1. e \in Event /\ e.run = r /\ e.status = cache[r]
    BY <1>7 DEF Resync, Event
  <2>2. notices' = Append(notices, e) /\ cache' = cache
    BY <1>7 DEF Resync
  <2> HIDE DEF e
  <2> QED
    BY <1>4, <2>1, <2>2
<1> QED
  BY <1>5, <1>6, <1>7

\* The informer's handler is called with the oldest notice.
LEMMA NotifyStep ==
    ASSUME StreamInv, Notify
    PROVE  StreamInv'
<1> USE StreamAssumption
<1> DEFINE e == Head(notices)
           s == cache[Watched]
<1>1. /\ UNCHANGED <<phase, deleted, up, cache, record, faults, conn, sent, pageVars, wait>>
      /\ notices' = Tail(notices) /\ Broadcast(e)
      /\ notices \in Seq(Event) /\ notices # << >> /\ chan \in Seq(Event)
  BY DEF Notify, StreamInv, TypeOK
<1>2. /\ e \in Event /\ notices' \in Seq(Event)
      /\ LastOf(notices, s) => LastOf(notices', s)
      /\ LastOf(notices, s) /\ Silent(notices') /\ e.run = Watched => e.status = s
      /\ Silent(notices) <=> e.run # Watched /\ Silent(notices')
  BY <1>1, TailLast
<1> HIDE DEF e
<1>3. /\ chan' \in Seq(Event) /\ Len(chan') <= QueueCap /\ lost' \in BOOLEAN
      /\ ~Open => chan' = chan
      /\ ~lost' => ~lost
      /\ Open /\ ~lost' /\ e.run = Watched => chan' = Append(chan, e)
      /\ chan' = chan \/ chan' = Append(chan, e)
  BY <1>1, <1>2, BroadcastFacts DEF StreamInv
<1>4. TypeOK'
  BY <1>1, <1>2, <1>3 DEF StreamInv, TypeOK, pageVars
<1>5. NothingInvented'
  BY <1>1 DEF StreamInv, NothingInvented
<1>6. s \in Status => LastOf(notices', s)
  BY <1>2 DEF StreamInv
<1>7. ASSUME Open, ~lost', s \in Status
      PROVE  /\ Silent(notices') => LastOf(chan', s)
             /\ Silent(notices') /\ Silent(chan') /\ conn = "streaming" => sent = s
  <2>1. /\ LastOf(notices, s)
        /\ Silent(notices) => LastOf(chan, s)
        /\ Silent(notices) /\ Silent(chan) /\ conn = "streaming" => sent = s
    BY <1>3, <1>7 DEF StreamInv, NoGap, LastWord
  <2>2. CASE e.run = Watched
    <3>1. chan' = Append(chan, e)
      BY <1>3, <1>7, <2>2
    <3>2. LastOf(chan', e.status) /\ ~Silent(chan')
      BY <1>1, <1>2, <2>2, <3>1, AppendLast
    <3> QED
      BY <1>2, <2>1, <2>2, <3>2
  <2>3. CASE e.run # Watched
    <3>1. (LastOf(chan, s) => LastOf(chan', s)) /\ (Silent(chan') <=> Silent(chan))
      BY <1>1, <1>2, <1>3, <2>3, AppendLast, ZenonT(40)
    <3> QED
      BY <1>2, <2>1, <2>3, <3>1
  <2> QED
    BY <2>2, <2>3
<1>8. NoGap'
  <2>1. ASSUME Open', ~lost', cache'[Watched] \in Status PROVE LastWord(cache[Watched])'
    BY <1>1, <1>6, <1>7, <2>1 DEF LastWord, LastOf, Silent, Open
  <2> QED
    BY <2>1 DEF NoGap
<1>9. /\ ~up' => faults' > 0 /\ ~Open' /\ notices' = << >>
      /\ ~Open' => chan' = << >>
      /\ cache'[Watched] \in Status => LastOf(notices, cache[Watched])'
  BY <1>1, <1>3, <1>6 DEF StreamInv, Open, LastOf
<1> QED
  BY <1>4, <1>5, <1>8, <1>9 DEF StreamInv

\* Steps of the stream's handler and of its connection.
LEMMA StreamStep ==
    ASSUME StreamInv, OpenStream \/ Refuse \/ Emit \/ Disconnect \/ Crash \/ Restart
    PROVE  StreamInv'
<1> USE StreamAssumption
<1>1. CASE Subscribe
  BY <1>1, EmptyFits DEF Subscribe, StreamInv, TypeOK, NothingInvented, NoGap, Open, LastWord, LastOf, Silent, serverVars, pageVars
<1>2. CASE Snapshot
  <2>1. UNCHANGED serverVars /\ UNCHANGED <<chan, lost, answers, page, wait>> /\ conn' = "streaming"
    BY <1>2 DEF Snapshot
  <2>2. TypeOK'
    BY <1>2 DEF Snapshot, StreamInv, TypeOK, Phase, serverVars
  <2>3. NoGap'
    BY <1>2, <2>1 DEF Snapshot, StreamInv, NoGap, Open, LastWord, LastOf, Silent, serverVars
  <2>4. NothingInvented'
    BY <2>1 DEF StreamInv, NothingInvented, serverVars
  <2>5. conn = "subscribed"
    BY <1>2 DEF Snapshot
  <2> QED
    BY <2>1, <2>2, <2>3, <2>4, <2>5 DEF StreamInv, serverVars, Open, LastOf
<1>3. CASE Emit
  <2>1. UNCHANGED serverVars /\ UNCHANGED <<conn, lost, answers, page, wait>> /\ conn = "streaming"
    BY <1>3 DEF Emit
  <2>2. /\ chan \in Seq(Event) /\ chan # << >> /\ chan' = Tail(chan)
        /\ QueueCap \in Nat /\ Len(chan) <= QueueCap
        /\ (Head(chan).run = Watched /\ sent' = Head(chan).status /\ reload' = TRUE)
           \/ (Head(chan).run # Watched /\ UNCHANGED <<sent, reload>>)
    BY <1>3 DEF Emit, StreamInv, TypeOK
  <2> DEFINE e == Head(chan)
             s == cache[Watched]
  <2>3. /\ e \in Event /\ Tail(chan) \in Seq(Event)
        /\ Len(chan) \in Nat /\ Len(Tail(chan)) = Len(chan) - 1
        /\ LastOf(chan, s) => LastOf(Tail(chan), s)
        /\ LastOf(chan, s) /\ Silent(Tail(chan)) /\ e.run = Watched => e.status = s
        /\ Silent(chan) <=> e.run # Watched /\ Silent(Tail(chan))
    BY <2>2, TailLast
  <2>4. Len(chan') <= QueueCap
    BY <2>2, <2>3
  <2>5. TypeOK'
    BY <2>1, <2>2, <2>3, <2>4 DEF StreamInv, TypeOK, serverVars, Event, Phase
  <2>6. ASSUME ~lost, s \in Status
        PROVE  LastWord(s)'
    <3>1. LastWord(s)
      BY <2>1, <2>6 DEF StreamInv, NoGap, Open
    <3>2. LastOf(notices, s) /\ (Silent(notices) => LastOf(chan', s))
      BY <2>2, <2>3, <3>1 DEF LastWord
    <3>3. Silent(notices) /\ Silent(chan') => sent' = s
      BY <2>1, <2>2, <2>3, <3>1 DEF LastWord
    <3>4. cache' = cache /\ notices' = notices
      BY <2>1 DEF serverVars
    <3> QED
      BY <3>2, <3>3, <3>4 DEF LastWord, LastOf, Silent
  <2>7. NoGap'
    BY <2>1, <2>6 DEF NoGap, serverVars
  <2> QED
    BY <2>1, <2>5, <2>7 DEF StreamInv, NothingInvented, serverVars, Open, LastOf
<1>4. CASE Disconnect
  <2>1. /\ UNCHANGED serverVars /\ UNCHANGED <<pageVars, wait>>
        /\ conn' \in {"closed", "refused"} /\ chan' = << >> /\ sent' = "None" /\ lost' = FALSE
    BY <1>4 DEF Disconnect, Closed, StreamInv
  <2>2. chan' \in Seq(Event) /\ Len(chan') <= QueueCap
    BY <2>1, EmptyFits
  <2>3. TypeOK'
    BY <2>1, <2>2 DEF StreamInv, TypeOK, serverVars, pageVars, Phase
  <2> QED
    BY <2>1, <2>3 DEF StreamInv, NothingInvented, NoGap, Open, LastOf, serverVars
<1>5. CASE Crash
  <2>1. faults' \in 0..MaxFaults /\ faults' > 0
    BY <1>5 DEF Crash, Fault, StreamInv, TypeOK
  <2>2. /\ cache' = [r \in Runs |-> "None"] /\ notices' = << >>
        /\ up' = FALSE
        /\ conn' \in {"closed", "refused"} /\ chan' = << >> /\ sent' = "None" /\ lost' = FALSE
        /\ wait' = IF wait = "submitting" THEN "failed" ELSE wait
        /\ UNCHANGED <<phase, deleted, record, pageVars>>
    BY <1>5 DEF Crash, Closed
  <2>3. chan' \in Seq(Event) /\ Len(chan') <= QueueCap /\ notices' \in Seq(Event)
    BY <2>2, EmptyFits
  <2>4. TypeOK'
    BY <2>1, <2>2, <2>3 DEF StreamInv, TypeOK, pageVars, Phase
  <2>5. NothingInvented' /\ NoGap' /\ cache'[Watched] \notin Status
    BY <2>1, <2>2 DEF StreamInv, NothingInvented, NoGap, Open, Status
  <2> QED
    BY <2>1, <2>2, <2>4, <2>5 DEF StreamInv, Open
<1>6. CASE Restart
  <2>1. TypeOK' /\ NothingInvented'
    BY <1>6 DEF Restart, StreamInv, TypeOK, NothingInvented, Phase, Status, clientVars, streamVars, pageVars
  <2>2. UNCHANGED <<conn, chan>> /\ up' = TRUE /\ ~Open /\ notices' = << >>
    BY <1>6 DEF Restart, clientVars, streamVars, StreamInv
  <2> QED
    BY <2>1, <2>2, EmptyFits DEF StreamInv, NoGap, Open
<1>7. CASE Refuse
  BY <1>7 DEF Refuse, StreamInv, TypeOK, NothingInvented, NoGap, Open, LastOf, serverVars, pageVars
<1> QED
  BY <1>1, <1>2, <1>3, <1>4, <1>5, <1>6, <1>7 DEF OpenStream

\* Removing an element keeps a sequence one.
LEMMA RemoveAtFacts ==
    ASSUME NEW S, NEW s \in Seq(S), NEW i \in DOMAIN s
    PROVE  RemoveAt(s, i) \in Seq(S) /\ Len(RemoveAt(s, i)) = Len(s) - 1
<1>1. i \in 1..Len(s) /\ Len(s) \in Nat /\ \A k \in 1..Len(s) : s[k] \in S
  OBVIOUS
<1>2. SubSeq(s, 1, i - 1) \in Seq(S) /\ Len(SubSeq(s, 1, i - 1)) = i - 1
  <2>1. 1 \in Int /\ i - 1 \in Int /\ \A k \in 1..(i - 1) : s[k] \in S
    BY <1>1
  <2>2. /\ SubSeq(s, 1, i - 1) \in Seq(S)
        /\ Len(SubSeq(s, 1, i - 1)) = IF 1 <= i - 1 THEN (i - 1) - 1 + 1 ELSE 0
    BY <2>1, SubSeqProperties
  <2> QED
    BY <1>1, <2>2
<1>3. SubSeq(s, i + 1, Len(s)) \in Seq(S) /\ Len(SubSeq(s, i + 1, Len(s))) = Len(s) - i
  <2>1. i + 1 \in Int /\ Len(s) \in Int /\ \A k \in (i + 1)..Len(s) : s[k] \in S
    BY <1>1
  <2>2. /\ SubSeq(s, i + 1, Len(s)) \in Seq(S)
        /\ Len(SubSeq(s, i + 1, Len(s))) = IF i + 1 <= Len(s) THEN Len(s) - (i + 1) + 1 ELSE 0
    BY <2>1, SubSeqProperties
  <2> QED
    BY <1>1, <2>2
<1> DEFINE a == SubSeq(s, 1, i - 1)
           b == SubSeq(s, i + 1, Len(s))
<1>4. a \o b \in Seq(S) /\ Len(a \o b) = Len(a) + Len(b)
  <2> HIDE DEF a, b
  <2>1. a \in Seq(S) /\ b \in Seq(S)
    BY <1>2, <1>3 DEF a, b
  <2> QED
    BY <2>1, ConcatProperties
<1>5. RemoveAt(s, i) = a \o b
  BY DEF RemoveAt
<1>6. Len(a) + Len(b) = Len(s) - 1
  BY <1>1, <1>2, <1>3, SMTT(20)
<1> QED
  BY <1>4, <1>5, <1>6

\* Steps of the page and of the waiting command.
LEMMA ClientStep ==
    ASSUME StreamInv,
           Load \/ LoadFails \/ (\E i \in 1..MaxLoads : Arrive(i)) \/ Poll \/ RequestFails
    PROVE  StreamInv'
<1> USE StreamAssumption
<1>1. /\ UNCHANGED <<phase, deleted, up, cache, notices, record, streamVars>>
      /\ faults' \in 0..MaxFaults /\ (faults > 0 => faults' > 0)
  BY DEF Load, LoadFails, Arrive, Poll, RequestFails, Fault, serverVars, StreamInv, TypeOK
<1>2. TypeOK' /\ (wait' = wait \/ (wait # "idle" /\ wait' \in {"returned", "failed"}))
  <2>1. CASE Load
    <3>1. GetRun \in Phase /\ answers \in Seq(Phase)
      BY DEF GetRun, StreamInv, TypeOK, Phase, Status
    <3>2. answers' \in Seq(Phase) /\ Len(answers') = Len(answers) + 1 /\ Len(answers) \in Nat
      BY <2>1, <3>1 DEF Load
    <3>3. Len(answers') <= MaxLoads /\ reload' = FALSE /\ UNCHANGED <<page, wait>>
      BY <2>1, <3>2 DEF Load
    <3> QED
      BY <1>1, <3>2, <3>3 DEF StreamInv, TypeOK, streamVars
  <2>2. CASE LoadFails
    BY <1>1, <2>2 DEF LoadFails, StreamInv, TypeOK, streamVars
  <2>3. ASSUME NEW i \in 1..MaxLoads, Arrive(i)
        PROVE  TypeOK' /\ wait' = wait
    <3>1. answers \in Seq(Phase) /\ i \in DOMAIN answers /\ answers[i] \in Phase
      BY <2>3 DEF Arrive, StreamInv, TypeOK
    <3>2. answers' \in Seq(Phase) /\ Len(answers') = Len(answers) - 1 /\ Len(answers) \in Nat
      BY <2>3, <3>1, RemoveAtFacts DEF Arrive
    <3>3. page' \in Phase \cup {"Broken"}
      BY <2>3, <3>1 DEF Arrive
    <3> QED
      BY <1>1, <2>3, <3>2, <3>3 DEF Arrive, StreamInv, TypeOK, streamVars
  <2>4. CASE Poll \/ RequestFails
    BY <1>1, <2>4 DEF Poll, RequestFails, StreamInv, TypeOK, streamVars, pageVars
  <2> QED
    BY <2>1, <2>2, <2>3, <2>4
<1>3. NoGap' /\ (cache'[Watched] \in Status => LastOf(notices, cache[Watched])')
  BY <1>1 DEF StreamInv, NoGap, Open, LastWord, LastOf, Silent, streamVars
<1>4. NothingInvented'
  BY <1>1, <1>2 DEF StreamInv, NothingInvented
<1> QED
  BY <1>1, <1>2, <1>3, <1>4 DEF StreamInv, Open, streamVars

LEMMA StreamInvInductive == StreamInv /\ [Next]_vars => StreamInv'
<1> SUFFICES ASSUME StreamInv, [Next]_vars PROVE StreamInv'
  OBVIOUS
<1>1. ASSUME NEW r \in Runs, RunNext(r) PROVE StreamInv'
  BY <1>1, EngineStep, InformerStep DEF RunNext
<1>2. CASE Accept \/ SyncerRecords
  <2>1. Watched \in Runs
    BY StreamAssumption
  <2> QED
    BY <1>2, <2>1, EngineStep
<1>3. CASE Crash \/ Restart \/ OpenStream \/ Refuse \/ Emit \/ Disconnect
  BY <1>3, StreamStep
<1>4. CASE Load \/ LoadFails \/ (\E i \in 1..MaxLoads : Arrive(i)) \/ Poll \/ RequestFails
  BY <1>4, ClientStep
<1>5. CASE Notify
  BY <1>5, NotifyStep
<1>6. CASE UNCHANGED vars
  BY <1>6 DEF vars, serverVars, clientVars, streamVars, pageVars, StreamInv, TypeOK,
              NothingInvented, NoGap, Open, LastWord, LastOf, Silent
<1> QED
  BY <1>1, <1>2, <1>3, <1>4, <1>5, <1>6 DEF Next

\* StreamInv holds in every reachable state.
THEOREM StreamInvHolds == Spec => []StreamInv
<1>1. Init => StreamInv
  BY InitStreamInv
<1>2. StreamInv /\ [Next]_vars => StreamInv'
  BY StreamInvInductive
<1> QED
  BY <1>1, <1>2, PTL DEF Spec

\* While no event of the run was dropped, the last word of the stream about it is
\* what the informer knows (SSEHandler.Handle subscribes before the snapshot).
THEOREM NoGapHolds == Spec => []NoGap
<1>1. StreamInv => NoGap
  BY DEF StreamInv
<1> QED
  BY <1>1, StreamInvHolds, PTL

-----------------------------------------------------------------------------
(* What the clients are told *)

\* Events and answers that say the end of a run only when it has come.
TrueEvents == {e \in Event : e.status = "Done" => phase[e.run] = "Done"}
TrueAnswers == {a \in Phase : a = "Done" => phase[Watched] = "Done"}

\* What the clients know, and what is on its way to them, is true.
ClientInv ==
    /\ ClientsAreFaithful
    /\ notices \in Seq(TrueEvents)
    /\ chan \in Seq(TrueEvents)
    /\ answers \in Seq(TrueAnswers)

\* An end is for good, and so is a fault.
LEMMA EndStays ==
    ASSUME StreamInv, [Next]_vars
    PROVE  /\ \A r \in Runs : phase[r] = "Done" => phase'[r] = "Done"
           /\ faults > 0 => faults' > 0
           /\ TrueEvents \subseteq TrueEvents'
           /\ TrueAnswers \subseteq TrueAnswers'
<1>1. \A r \in Runs : phase[r] = "Done" => phase'[r] = "Done"
  <2> SUFFICES ASSUME NEW q \in Runs, phase[q] = "Done" PROVE phase'[q] = "Done"
    OBVIOUS
  <2>1. ASSUME NEW r \in Runs, RunNext(r) PROVE phase'[q] = "Done"
    BY <2>1 DEF RunNext, StartWorkflow, EndRun, DeleteWorkflow,
       InformerSees, InformerSeesDelete, Resync, StreamInv, TypeOK
  <2> QED
    BY <2>1 DEF Next, Accept, SyncerRecords, Notify, Crash, Restart, OpenStream, Subscribe, Snapshot,
       Refuse, Emit, Disconnect, Load, LoadFails, Arrive, Poll, RequestFails, vars, serverVars
<1>2. faults > 0 => faults' > 0
  <2>1. ASSUME NEW r \in Runs, RunNext(r) PROVE faults' = faults
    BY <2>1 DEF RunNext, StartWorkflow, EndRun, DeleteWorkflow, InformerSees,
       InformerSeesDelete, Resync
  <2>2. faults' = faults \/ Fault
    BY <2>1 DEF Next, Accept, SyncerRecords, Notify, Crash, Restart, OpenStream, Subscribe, Snapshot,
       Refuse, Emit, Disconnect, Load, LoadFails, Arrive, Poll, RequestFails, vars, serverVars
  <2> QED
    BY <2>2, StreamAssumption DEF Fault, StreamInv, TypeOK
<1>3. TrueEvents \subseteq TrueEvents' /\ TrueAnswers \subseteq TrueAnswers'
  BY <1>1, StreamAssumption DEF TrueEvents, TrueAnswers, Event
<1> QED
  BY <1>1, <1>2, <1>3

\* GET /api/runs/{id} never answers with an end that has not come, and a command
\* whose POST was answered is answered unless something failed.
LEMMA AnswerIsTrue ==
    ASSUME StreamInv
    PROVE  /\ GetRun \in TrueAnswers
           /\ wait = "polling" /\ GetRun = "None" => faults > 0
BY StreamAssumption
   DEF GetRun, StreamInv, TypeOK, NothingInvented, TrueAnswers, Phase, Status

\* Sequences of more.
LEMMA SeqGrows ==
    ASSUME NEW S, NEW T, S \subseteq T, NEW s \in Seq(S)
    PROVE  s \in Seq(T)
OBVIOUS

\* What the stream holds and has sent, and what it is still to hold, stays true.
LEMMA StreamIsTrue ==
    ASSUME StreamInv, ClientInv, [Next]_vars
    PROVE  /\ notices' \in Seq(TrueEvents')
           /\ chan' \in Seq(TrueEvents')
           /\ sent' = "Done" => phase'[Watched] = "Done"
<1>1. /\ TrueEvents \subseteq TrueEvents'
      /\ phase[Watched] = "Done" => phase'[Watched] = "Done"
      /\ sent = "Done" => phase[Watched] = "Done"
      /\ chan \in Seq(TrueEvents) /\ notices \in Seq(TrueEvents)
  BY EndStays, StreamAssumption DEF ClientInv, ClientsAreFaithful
<1>2. chan \in Seq(TrueEvents') /\ notices \in Seq(TrueEvents')
  BY <1>1, SeqGrows
<1>3. CASE UNCHANGED <<notices, chan, sent>>
  BY <1>1, <1>2, <1>3
<1>4. ASSUME NEW r \in Runs, InformerSees(r) \/ InformerSeesDelete(r) \/ Resync(r)
      PROVE  notices' \in Seq(TrueEvents') /\ UNCHANGED <<chan, sent>>
  <2>1. UNCHANGED <<chan, sent>>
    BY <1>4 DEF InformerSees, InformerSeesDelete, Resync, clientVars, streamVars
  <2>2. /\ phase \in [Runs -> Phase]
        /\ cache[r] = "Done" => phase[r] = "Done"
        /\ phase[r] # "None" => phase[r] \in Status
    BY DEF StreamInv, TypeOK, NothingInvented, Phase
  <2>3. notices' = notices \/ \E e \in TrueEvents : notices' = Append(notices, e)
    <3>1. CASE InformerSees(r) \/ InformerSeesDelete(r)
      <4>1. phase[r] \in Status
        BY <2>2, <3>1 DEF InformerSees, InformerSeesDelete, StreamInv, NothingInvented
      <4>2. [run |-> r, status |-> phase[r]] \in TrueEvents
        BY <4>1 DEF TrueEvents, Event
      <4> QED
        BY <3>1, <4>2 DEF InformerSees, InformerSeesDelete
    <3>2. CASE Resync(r)
      <4>1. [run |-> r, status |-> cache[r]] \in TrueEvents
        BY <2>2, <3>2 DEF Resync, TrueEvents, Event
      <4> QED
        BY <3>2, <4>1 DEF Resync
    <3> QED
      BY <1>4, <3>1, <3>2
  <2>4. ASSUME NEW e \in TrueEvents, notices' = Append(notices, e)
        PROVE  notices' \in Seq(TrueEvents')
    <3>1. e \in TrueEvents'
      BY <1>1
    <3> QED
      BY <1>2, <2>4, <3>1
  <2> QED
    BY <1>2, <2>1, <2>3, <2>4
<1>5. CASE Notify
  <2>1. notices # << >> /\ notices' = Tail(notices) /\ sent' = sent /\ Broadcast(Head(notices))
    BY <1>5 DEF Notify
  <2>2. Tail(notices) \in Seq(TrueEvents') /\ Head(notices) \in TrueEvents'
    BY <1>2, <2>1
  <2>3. Head(notices) \in Event
    BY <1>1, <2>1 DEF TrueEvents
  <2>4. chan' = chan \/ chan' = Append(chan, Head(notices))
    BY <2>1, <2>3, BroadcastFacts DEF StreamInv
  <2> QED
    BY <1>1, <1>2, <2>1, <2>2, <2>4
<1>6. CASE Snapshot
  <2>1. UNCHANGED <<notices, chan>> /\ (sent' = sent \/ sent' = cache[Watched])
    BY <1>6 DEF Snapshot, serverVars
  <2>2. cache[Watched] = "Done" => phase[Watched] = "Done"
    BY StreamAssumption DEF StreamInv, NothingInvented
  <2> QED
    BY <1>1, <1>2, <2>1, <2>2
<1>7. CASE Emit
  <2>1. /\ chan # << >> /\ chan' = Tail(chan) /\ notices' = notices
        /\ sent' = sent \/ (Head(chan).run = Watched /\ sent' = Head(chan).status)
    BY <1>7 DEF Emit, serverVars
  <2>2. Tail(chan) \in Seq(TrueEvents') /\ Head(chan) \in TrueEvents'
    BY <1>2, <2>1
  <2> QED
    BY <1>1, <1>2, <2>1, <2>2 DEF TrueEvents
<1>8. CASE Crash \/ Disconnect
  <2>1. chan' = << >> /\ sent' = "None" /\ (notices' = << >> \/ notices' = notices)
    BY <1>8 DEF Crash, Disconnect, Closed, serverVars
  <2> QED
    BY <1>2, <2>1, EmptyFits
<1>9. ASSUME NEW r \in Runs, StartWorkflow(r) \/ EndRun(r) \/ DeleteWorkflow(r)
      PROVE  UNCHANGED <<notices, chan, sent>>
  BY <1>9 DEF StartWorkflow, EndRun, DeleteWorkflow, clientVars, streamVars
<1>10. CASE \/ Accept \/ SyncerRecords \/ Restart \/ Subscribe \/ Refuse \/ Load \/ LoadFails
            \/ (\E i \in 1..MaxLoads : Arrive(i)) \/ Poll \/ RequestFails \/ UNCHANGED vars
  <2>1. UNCHANGED <<notices, chan, sent>>
    BY <1>10 DEF Accept, SyncerRecords, Restart, Subscribe, Refuse, Load, LoadFails, Arrive, Poll,
       RequestFails, vars, serverVars, clientVars, streamVars
  <2> QED
    BY <1>1, <1>2, <2>1
<1> QED
  BY <1>1, <1>3, <1>4, <1>5, <1>6, <1>7, <1>8, <1>9, <1>10 DEF Next, RunNext, OpenStream

\* What a GET has answered and the clients make of it stays true.
LEMMA PollIsTrue ==
    ASSUME StreamInv, ClientInv, [Next]_vars
    PROVE  /\ answers' \in Seq(TrueAnswers')
           /\ wait' = "returned" \/ page' = "Done" => phase'[Watched] = "Done"
           /\ wait' = "failed" => faults' > 0
<1>1. /\ TrueAnswers \subseteq TrueAnswers'
      /\ phase[Watched] = "Done" => phase'[Watched] = "Done"
      /\ faults > 0 => faults' > 0
      /\ wait = "returned" \/ page = "Done" => phase[Watched] = "Done"
      /\ wait = "failed" => faults > 0
      /\ answers \in Seq(TrueAnswers)
  BY EndStays, StreamAssumption DEF ClientInv, ClientsAreFaithful
<1>2. answers \in Seq(TrueAnswers')
  BY <1>1, SeqGrows
<1>3. GetRun \in TrueAnswers'
  BY <1>1, AnswerIsTrue
<1>4. CASE UNCHANGED <<answers, page, wait>>
  BY <1>1, <1>2, <1>4
<1>5. CASE Load
  <2>1. answers' = Append(answers, GetRun) /\ UNCHANGED <<page, wait>>
    BY <1>5 DEF Load
  <2> QED
    BY <1>1, <1>2, <1>3, <2>1
<1>6. CASE LoadFails
  <2>1. answers' = answers /\ page' \in {page, "Broken"} /\ wait' = wait
    BY <1>6 DEF LoadFails
  <2> QED
    BY <1>1, <1>2, <2>1
<1>7. ASSUME NEW i \in 1..MaxLoads, Arrive(i)
      PROVE  /\ answers' \in Seq(TrueAnswers')
             /\ page' = "Done" => phase'[Watched] = "Done"
             /\ wait' = wait
  <2>1. /\ i \in DOMAIN answers /\ answers' = RemoveAt(answers, i) /\ wait' = wait
        /\ page' = "Broken" \/ page' = answers[i]
    BY <1>7 DEF Arrive
  <2>2. RemoveAt(answers, i) \in Seq(TrueAnswers')
    BY <1>2, <2>1, RemoveAtFacts
  <2>3. answers[i] \in TrueAnswers'
    BY <1>2, <2>1
  <2> QED
    BY <2>1, <2>2, <2>3 DEF TrueAnswers
<1>8. CASE Poll
  <2>1. /\ UNCHANGED <<answers, page>>
        /\ wait = "polling"
        /\ wait' = IF ~up \/ GetRun = "None" THEN "failed"
                   ELSE IF GetRun = "Done" THEN "returned" ELSE wait
    BY <1>8 DEF Poll, pageVars
  <2>2. ~up => faults > 0
    BY DEF StreamInv
  <2>3. GetRun = "Done" => phase'[Watched] = "Done"
    BY <1>3 DEF TrueAnswers
  <2> QED
    BY <1>1, <1>2, <2>1, <2>2, <2>3, AnswerIsTrue
<1>9. CASE Accept \/ Crash \/ RequestFails
  <2>1. UNCHANGED <<answers, page>> /\ (wait' = wait \/ wait' \in {"polling", "failed"})
    BY <1>9 DEF Accept, Crash, RequestFails, pageVars
  <2>2. wait' = "failed" => wait = "failed" \/ faults' > 0
    BY <1>9, StreamAssumption DEF Accept, Crash, RequestFails, Fault, StreamInv, TypeOK
  <2> QED
    BY <1>1, <1>2, <2>1, <2>2
<1>10. ASSUME NEW r \in Runs, RunNext(r)
       PROVE  UNCHANGED <<answers, page>> /\ wait' \in {wait, "submitting"}
  BY <1>10 DEF RunNext, StartWorkflow, EndRun, DeleteWorkflow, InformerSees,
     InformerSeesDelete, Resync, clientVars, pageVars
<1>11. CASE \/ SyncerRecords \/ Notify \/ Restart \/ OpenStream \/ Refuse \/ Emit \/ Disconnect
            \/ UNCHANGED vars
  <2>1. answers' = answers /\ page' = page /\ wait' = wait
    BY <1>11 DEF SyncerRecords, Notify, Restart, OpenStream, Subscribe, Snapshot, Refuse, Emit,
       Disconnect, vars, clientVars, pageVars
  <2> QED
    BY <1>1, <1>2, <2>1
<1> QED
  BY <1>1, <1>2, <1>4, <1>5, <1>6, <1>7, <1>8, <1>9, <1>10, <1>11 DEF Next

\* A poll, the stream and the page tell of the end only when it has come, and
\* dlh run --wait fails only when the process, a manifest or a request failed
\* (sse.go Handle, run.go waitForRun, handlers.go GetRun and CreateRun).
THEOREM ClientsAreFaithfulHolds == Spec => []ClientsAreFaithful
<1>1. Init => ClientInv
  BY EmptyFits DEF Init, ClientInv, ClientsAreFaithful
<1>2. StreamInv /\ ClientInv /\ [Next]_vars => ClientInv'
  BY StreamIsTrue, PollIsTrue DEF ClientInv, ClientsAreFaithful
<1>3. ClientInv => ClientsAreFaithful
  BY DEF ClientInv
<1> QED
  BY <1>1, <1>2, <1>3, StreamInvHolds, PTL DEF Spec

=============================================================================
