---------------------------- MODULE AccessProofs ----------------------------
(***************************************************************************)
(* Proofs about Access and the DeviceLogin it is composed with, for any    *)
(* holders, groups, lifetimes, and numbers of exchanges and restarts.      *)
(***************************************************************************)
EXTENDS Access, TLAPS

LEMMA PositiveOrIsPositive ==
    ASSUME NEW n \in Nat, NEW default \in Nat \ {0}
    PROVE  PositiveOr(n, default) \in Nat /\ PositiveOr(n, default) > 0
  BY DEF PositiveOr

\* Every action of dlh login keeps its invariant.
LEMMA LoginStep == LoginInv /\ LoginNext => LoginInv' /\ clock' = clock
  <1> SUFFICES ASSUME LoginInv, LoginNext PROVE LoginInv' /\ clock' = clock
    OBVIOUS
  <1> USE LoginAssumption DEF LoginAssumption, LoginInv, LoginTypeOK
  <1>1. CASE AskCode
    <2>1. PICK i \in Intervals, e \in Expiries :
              /\ interval' = PositiveOr(i, Step)
              /\ deadline' = clock + PositiveOr(e, DefaultExpiry)
              /\ due' = clock + PositiveOr(i, Step)
      BY <1>1 DEF AskCode
    <2>2. /\ PositiveOr(i, Step) \in Nat /\ PositiveOr(i, Step) > 0
          /\ PositiveOr(e, DefaultExpiry) \in Nat
      BY PositiveOrIsPositive
    <2> QED BY <1>1, <2>1, <2>2 DEF AskCode
  <1>2. CASE Expire
    BY <1>2 DEF Expire, Exit, PollingOver
  <1>3. CASE Poll
    <2>1. due' \in Nat
      BY <1>3 DEF Poll
    <2> QED BY <1>3, <2>1 DEF Poll
  <1>4. CASE Token
    BY <1>4 DEF Token, PollingOver
  <1>5. CASE Pending
    BY <1>5 DEF Pending, pollVars
  <1>6. CASE SlowDown
    BY <1>6 DEF SlowDown
  <1>7. CASE Refused
    BY <1>7 DEF Refused, Exit, PollingOver
  <1>8. CASE Save
    BY <1>8 DEF Save, Exit, PollingOver
  <1> QED BY <1>1, <1>2, <1>3, <1>4, <1>5, <1>6, <1>7, <1>8 DEF LoginNext

LEMMA TickKeepsLogin == LoginInv /\ Tick => LoginInv'
  BY LoginAssumption DEF LoginAssumption, LoginInv, LoginTypeOK, Tick, loginVars, pollVars

LEMMA LoginKept ==
    ASSUME LoginInv, clock' = clock, UNCHANGED loginVars
    PROVE  LoginInv'
  BY DEF LoginInv, LoginTypeOK, loginVars, pollVars

-----------------------------------------------------------------------------
Groups == SUBSET (IdGroups \cup CIGroups)
ExchangeRecords ==
    [who : Holders, exp : Nat, groups : Groups, stage : {"none", "fetching", "ready"}]
SessionRecords == [exp : Nat, key : Keys, groups : Groups]

LEMMA NoExchangeType == NoExchange \in ExchangeRecords
  BY DEF NoExchange, ExchangeRecords, Groups, Holders

\* What an access action that is not a login leaves as it is.
LEMMA AccessTypeStep == AccessInv /\ Next => AccessTypeOK'
  <1> SUFFICES ASSUME AccessInv, Next PROVE AccessTypeOK'
    OBVIOUS
  <1> USE AccessAssumption, LoginAssumption
      DEF AccessAssumption, LoginAssumption, AccessInv, AccessTypeOK
  <1>0. clock \in Nat
    BY DEF LoginInv, LoginTypeOK
  <1> DEFINE ExchangeType == exchange \in [Exchanges -> ExchangeRecords]
             SessionType == session \in [Holders -> SessionRecords]
  <1>000. ExchangeType /\ SessionType
    BY DEF ExchangeRecords, SessionRecords, Groups
  <1>00. UNCHANGED accessVars => AccessTypeOK'
    BY DEF accessVars
  <1>1. ASSUME Login PROVE AccessTypeOK'
    <2>1. token' \in Nat
      BY <1>1, LoginStep DEF Login, LoginInv, LoginTypeOK
    <2>2. vouched' \in [Holders -> Nat]
      BY <1>1, <2>1 DEF Login
    <2> QED BY <1>1, <2>2 DEF Login
  <1>2. ASSUME NEW j \in Jobs, CIToken(j) PROVE AccessTypeOK'
    <2> DEFINE exp == clock + IdLifetime
    <2>0. exp \in Nat
      BY <1>0
    <2>1. ci' = [ci EXCEPT ![j] = exp] /\ vouched' = [vouched EXCEPT ![j] = exp]
      BY <1>2 DEF CIToken
    <2> HIDE DEF exp
    <2>2. ci' \in [Jobs -> Nat] /\ vouched' \in [Holders -> Nat]
      BY <2>0, <2>1
    <2> QED BY <1>2, <2>2 DEF CIToken
  <1>4. ASSUME NEW x \in Exchanges, NEW h \in Holders, AskExchange(x, h)
        PROVE  AccessTypeOK'
    <2>1. PICK exp \in Bodies(h) : exchange' = [exchange EXCEPT ![x] =
              [who |-> h, exp |-> exp, groups |-> ExchangedGroups(h), stage |-> FirstStage(h)]]
      BY <1>4 DEF AskExchange
    <2>2. exp \in Nat
      BY <2>1 DEF Bodies, External, LoginInv, LoginTypeOK, Holders
    <2>3. ExchangedGroups(h) \in Groups /\ FirstStage(h) \in {"fetching", "ready"}
      BY DEF ExchangedGroups, FirstStage, Groups
    <2>4. exchange' \in [Exchanges -> ExchangeRecords]
      BY <1>000, <2>1, <2>2, <2>3 DEF ExchangeRecords
    <2> QED BY <1>4, <2>4 DEF AskExchange, exchangeUnchanged, ExchangeRecords, Groups
  <1>5. ASSUME NEW x \in Exchanges, Fetched(x) PROVE AccessTypeOK'
    <2>1. cached' \subseteq {"idp", "ci"}
      BY <1>5 DEF Fetched, Issuer
    <2>2. exchange' \in [Exchanges -> ExchangeRecords]
      BY <1>000, <1>5 DEF Fetched, ExchangeRecords
    <2> QED BY <1>5, <2>1, <2>2 DEF Fetched, exchangeUnchanged, ExchangeRecords, Groups
  <1>6. ASSUME NEW x \in Exchanges, FetchFails(x) PROVE AccessTypeOK'
    <2>1. exchange' \in [Exchanges -> ExchangeRecords]
      BY <1>000, <1>6, NoExchangeType DEF FetchFails
    <2> QED BY <1>6, <2>1 DEF FetchFails, exchangeUnchanged, ExchangeRecords, Groups
  <1>7. ASSUME NEW x \in Exchanges, Issue(x) PROVE AccessTypeOK'
    <2>1. exchange' \in [Exchanges -> ExchangeRecords]
      BY <1>000, <1>7, NoExchangeType DEF Issue
    <2>2. [exp |-> clock + Lifetime, key |-> key, groups |-> exchange[x].groups]
              \in SessionRecords
      BY <1>0, <1>000 DEF SessionRecords, ExchangeRecords
    <2>3. session' \in [Holders -> SessionRecords]
      BY <1>000, <1>7, <2>2 DEF Issue
    <2> QED BY <1>7, <2>1, <2>3 DEF Issue, exchangeUnchanged, ExchangeRecords, SessionRecords,
            Groups
  <1>8. ASSUME Start PROVE AccessTypeOK'
    <2>1. exchange' \in [Exchanges -> ExchangeRecords]
      BY <1>8, NoExchangeType DEF Start
    <2>2. key' \in Keys
      BY <1>8 DEF Start
    <2> QED BY <1>8, <2>1, <2>2 DEF Start, ExchangeRecords, Groups
  <1>9. ASSUME Tick PROVE AccessTypeOK'
    BY <1>9, <1>00 DEF Tick
  <1> QED BY <1>1, <1>2, <1>4, <1>5, <1>6, <1>7, <1>8, <1>9 DEF Next, MapRace

\* What VouchedInv says of a token that is exchanged, and of a session.
Backed(t) == t.exp <= vouched[t.who] /\ t.groups \subseteq Claims(t.who)
Honest(h) == session[h].exp <= vouched[h] + Lifetime /\ session[h].groups \subseteq Claims(h)

\* What a login does to the tokens it keeps and to what vouches for the person.
LEMMA LoginTokens ==
    ASSUME AccessInv, Login
    PROVE  VouchedInv'
  <1> USE LoginAssumption DEF LoginAssumption
  <1>13. (\A x \in Exchanges : Backed(exchange[x])) /\ (\A h \in Holders : Honest(h))
    BY DEF AccessInv, VouchedInv, Backed, Honest
  <1>1. LoginNext /\ clock' = clock /\ clock \in Nat /\ IdLifetime \in Nat
    BY LoginStep DEF Login, AccessInv, LoginInv, LoginTypeOK
  <1>2. /\ vouched \in [Holders -> Nat] /\ Person \in Holders
        /\ token \in Nat /\ file \in Nat
    BY DEF AccessInv, AccessTypeOK, LoginInv, LoginTypeOK, Holders
  <1>3. \/ token' = clock + IdLifetime /\ login' = "got" /\ file' = file
        \/ token' = 0 /\ file' \in {token, file, 0}
        \/ token' = token /\ login # "got" /\ file' = file
    BY <1>1 DEF LoginNext, AskCode, Expire, Exit, PollingOver, Poll, Token, Pending, SlowDown, Refused, Save,
       pollVars
  <1>4. token # 0 => login = "got"
    BY DEF AccessInv, VouchedInv
  <1>5. vouched[Person] <= clock + IdLifetime /\ token <= vouched[Person] /\ file <= vouched[Person]
    BY <1>2 DEF AccessInv, VouchedInv
  <1>6. /\ vouched'[Person] \in Nat
        /\ vouched[Person] <= vouched'[Person] /\ vouched'[Person] <= clock + IdLifetime
        /\ token' <= vouched'[Person] /\ file' <= vouched'[Person]
        /\ \A h \in Holders \ {Person} : vouched'[h] = vouched[h]
    BY <1>1, <1>2, <1>3, <1>4, <1>5 DEF Login
  <1>7. \A h \in Holders : vouched[h] <= vouched'[h] /\ vouched'[h] <= clock' + IdLifetime
    BY <1>1, <1>2, <1>6 DEF AccessInv, VouchedInv
  <1>8. vouched' \in [Holders -> Nat]
    BY <1>1, <1>2, <1>3 DEF Login
  <1>9. token' # 0 => login' = "got"
    BY <1>3, <1>4
  <1>10. \A j \in Jobs : ci'[j] <= vouched'[j]
    <2> SUFFICES ASSUME NEW j \in Jobs PROVE ci[j] <= vouched'[j]
      BY DEF Login
    <2>1. j \in Holders /\ ci[j] \in Nat /\ vouched[j] \in Nat /\ ci[j] <= vouched[j]
      BY DEF Holders, AccessInv, AccessTypeOK, VouchedInv
    <2> QED BY <1>7, <1>8, <2>1
  <1>11. \A x \in Exchanges : Backed(exchange[x])'
    <2> SUFFICES ASSUME NEW x \in Exchanges PROVE exchange[x].exp <= vouched'[exchange[x].who]
      BY <1>13 DEF Login, Backed, Claims
    <2>1. exchange[x].exp \in Nat /\ exchange[x].who \in Holders
      BY DEF AccessInv, AccessTypeOK
    <2>2. exchange[x].exp <= vouched[exchange[x].who]
      BY <1>13 DEF Backed
    <2> QED BY <1>2, <1>7, <1>8, <2>1, <2>2
  <1>12. \A h \in Holders : Honest(h)'
    <2> SUFFICES ASSUME NEW h \in Holders PROVE session[h].exp <= vouched'[h] + Lifetime
      BY <1>13 DEF Login, Honest, Claims
    <2>1. session[h].exp \in Nat /\ session[h].exp <= vouched[h] + Lifetime
      BY <1>13 DEF AccessInv, AccessTypeOK, Honest
    <2> QED BY <1>2, <1>7, <1>8, <2>1, AccessAssumption DEF AccessAssumption
  <1> QED BY <1>6, <1>7, <1>9, <1>10, <1>11, <1>12 DEF VouchedInv, Backed, Honest

LEMMA VouchedStep == AccessInv /\ Next => VouchedInv'
  <1> SUFFICES ASSUME AccessInv, Next PROVE VouchedInv'
    OBVIOUS
  <1> USE AccessAssumption, LoginAssumption DEF AccessAssumption, LoginAssumption
  <1>0. /\ clock \in Nat /\ token \in Nat /\ file \in Nat
        /\ ci \in [Jobs -> Nat] /\ vouched \in [Holders -> Nat]
        /\ session \in [Holders -> SessionRecords]
        /\ exchange \in [Exchanges -> ExchangeRecords]
        /\ Person \in Holders /\ Jobs \subseteq Holders
    BY DEF AccessInv, AccessTypeOK, LoginInv, LoginTypeOK, Holders, SessionRecords,
       ExchangeRecords, Groups
  <1>00. VouchedInv
    BY DEF AccessInv
  <1>01. (\A x \in Exchanges : Backed(exchange[x])) /\ (\A h \in Holders : Honest(h))
    BY <1>00 DEF VouchedInv, Backed, Honest
  <1>02. ASSUME UNCHANGED <<clock, loginVars, ci, vouched>>,
                \A x \in Exchanges : Backed(exchange'[x]),
                session' = session
         PROVE  VouchedInv'
    <2>1. \A x \in Exchanges : Backed(exchange[x])'
      BY <1>02 DEF Backed, Claims
    <2>2. \A h \in Holders : Honest(h)'
      BY <1>01, <1>02 DEF Honest, Claims
    <2> QED BY <1>00, <1>02, <2>1, <2>2 DEF VouchedInv, Backed, Honest, loginVars
  <1>03. Backed(NoExchange)
    BY <1>0 DEF Backed, NoExchange
  <1>1. ASSUME Login PROVE VouchedInv'
    BY <1>1, LoginTokens
  <1>2. ASSUME NEW j \in Jobs, CIToken(j) PROVE VouchedInv'
    <2>1. vouched'[j] = clock + IdLifetime /\ vouched[j] <= clock + IdLifetime
      BY <1>0, <1>00, <1>2 DEF CIToken, VouchedInv
    <2>2. \A h \in Holders : vouched'[h] \in Nat /\ vouched[h] <= vouched'[h]
                               /\ vouched'[h] <= clock + IdLifetime
      BY <1>0, <1>00, <1>2, <2>1 DEF CIToken, VouchedInv
    <2>3. \A i \in Jobs : ci'[i] <= vouched'[i]
      BY <1>0, <1>00, <1>2 DEF CIToken, VouchedInv
    <2>4. \A x \in Exchanges : Backed(exchange[x])'
      <3> SUFFICES ASSUME NEW x \in Exchanges PROVE exchange[x].exp <= vouched'[exchange[x].who]
        BY <1>01, <1>2 DEF CIToken, Backed, Claims
      <3>1. /\ exchange[x].exp \in Nat /\ exchange[x].who \in Holders
            /\ exchange[x].exp <= vouched[exchange[x].who]
        BY <1>0, <1>01 DEF Backed, ExchangeRecords
      <3> QED BY <1>0, <2>2, <3>1
    <2>5. \A h \in Holders : Honest(h)'
      <3> SUFFICES ASSUME NEW h \in Holders PROVE session[h].exp <= vouched'[h] + Lifetime
        BY <1>01, <1>2 DEF CIToken, Honest, Claims
      <3>1. session[h].exp \in Nat /\ session[h].exp <= vouched[h] + Lifetime
        BY <1>0, <1>01 DEF Honest, SessionRecords
      <3> QED BY <1>0, <2>2, <3>1
    <2>6. token <= vouched'[Person] /\ file <= vouched'[Person]
      BY <1>0, <1>00, <2>2 DEF VouchedInv
    <2> QED BY <1>00, <1>2, <2>2, <2>3, <2>4, <2>5, <2>6
            DEF CIToken, VouchedInv, Backed, Honest, loginVars
  <1>4. ASSUME NEW x \in Exchanges, NEW h \in Holders, AskExchange(x, h)
        PROVE  VouchedInv'
    <2> DEFINE t == [who |-> h, exp |-> External(h), groups |-> ExchangedGroups(h),
                     stage |-> FirstStage(h)]
    <2>1. exchange' = [exchange EXCEPT ![x] = t]
      BY <1>4 DEF AskExchange, Bodies
    <2>2. External(h) <= vouched[h]
      BY <1>0, <1>00 DEF External, VouchedInv, Holders
    <2>3. ExchangedGroups(h) \subseteq Claims(h)
      BY DEF ExchangedGroups, Claims
    <2>4. Backed(t)
      BY <2>2, <2>3 DEF Backed
    <2> HIDE DEF t
    <2>5. \A y \in Exchanges : Backed(exchange'[y])
      BY <1>0, <1>01, <2>1, <2>4
    <2> QED BY <1>02, <1>4, <2>5 DEF AskExchange, exchangeUnchanged
  <1>5. ASSUME NEW x \in Exchanges, Fetched(x) PROVE VouchedInv'
    <2>1. \A y \in Exchanges : /\ exchange'[y].exp = exchange[y].exp
                                /\ exchange'[y].who = exchange[y].who
                                /\ exchange'[y].groups = exchange[y].groups
      BY <1>0, <1>5 DEF Fetched, ExchangeRecords
    <2>2. \A y \in Exchanges : Backed(exchange'[y])
      BY <1>01, <2>1 DEF Backed
    <2> QED BY <1>02, <1>5, <2>2 DEF Fetched, exchangeUnchanged
  <1>6. ASSUME NEW x \in Exchanges, FetchFails(x) PROVE VouchedInv'
    <2>1. \A y \in Exchanges : Backed(exchange'[y])
      BY <1>0, <1>01, <1>03, <1>6 DEF FetchFails
    <2> QED BY <1>02, <1>6, <2>1 DEF FetchFails, exchangeUnchanged
  <1>7. ASSUME NEW x \in Exchanges, Issue(x) PROVE VouchedInv'
    <2>0. \A y \in Exchanges : Backed(exchange'[y])
      BY <1>0, <1>01, <1>03, <1>7 DEF Issue
    <2>1. \A y \in Exchanges : Backed(exchange[y])'
      BY <1>7, <2>0 DEF Backed, Claims, Issue, exchangeUnchanged
    <2> DEFINE t == exchange[x]
    <2>2. t.who \in Holders /\ t.exp \in Nat /\ t.exp <= vouched[t.who]
          /\ t.groups \subseteq Claims(t.who)
      BY <1>0, <1>01 DEF Backed, ExchangeRecords
    <2>3. ExternalValid(t.exp) => clock + Lifetime <= vouched[t.who] + Lifetime
      BY <1>0, <2>2 DEF ExternalValid
    <2>4. \A h \in Holders :
              \/ session'[h] = session[h]
              \/ /\ h = t.who /\ ExternalValid(t.exp)
                 /\ session'[h].exp = clock + Lifetime /\ session'[h].groups = t.groups
      BY <1>0, <1>7 DEF Issue
    <2> HIDE DEF t
    <2>5. ASSUME NEW h \in Holders PROVE Honest(h)'
      <3>1. CASE session'[h] = session[h]
        BY <1>01, <1>7, <3>1 DEF Honest, Claims, Issue, exchangeUnchanged
      <3>2. CASE session'[h] # session[h]
        BY <1>7, <2>2, <2>3, <2>4, <3>2 DEF Honest, Claims, Issue, exchangeUnchanged
      <3> QED BY <3>1, <3>2
    <2> QED BY <1>00, <1>7, <2>1, <2>5
            DEF Issue, exchangeUnchanged, VouchedInv, Backed, Honest, loginVars
  <1>8. ASSUME Start PROVE VouchedInv'
    <2>1. \A y \in Exchanges : Backed(exchange'[y])
      BY <1>03, <1>8 DEF Start
    <2> QED BY <1>02, <1>8, <2>1 DEF Start
  <1>9. ASSUME Tick PROVE VouchedInv'
    <2>1. \A h \in Holders : vouched[h] <= clock' + IdLifetime
      BY <1>0, <1>00, <1>9 DEF Tick, VouchedInv
    <2>2. (\A y \in Exchanges : Backed(exchange[y])') /\ (\A h \in Holders : Honest(h)')
      BY <1>01, <1>9 DEF Tick, accessVars, Backed, Honest, Claims
    <2> QED BY <1>00, <1>9, <2>1, <2>2
            DEF Tick, VouchedInv, Backed, Honest, loginVars, accessVars
  <1> QED BY <1>1, <1>2, <1>4, <1>5, <1>6, <1>7, <1>8, <1>9 DEF Next, MapRace

LEMMA LoginInvStep == LoginInv /\ Next => LoginInv'
  <1> SUFFICES ASSUME LoginInv, Next PROVE LoginInv'
    OBVIOUS
  <1>1. CASE Login
    BY <1>1, LoginStep DEF Login
  <1>2. CASE Tick
    BY <1>2, TickKeepsLogin
  <1>3. CASE ~Login /\ ~Tick
    <2>1. clock' = clock /\ UNCHANGED loginVars
      BY <1>3 DEF Next, CIToken, AskExchange, Fetched, FetchFails, Issue, Start, MapRace,
         exchangeUnchanged
    <2> QED BY <2>1, LoginKept
  <1> QED BY <1>1, <1>2, <1>3

LEMMA InitInv == Init => AccessInv
  <1> SUFFICES ASSUME Init PROVE AccessInv
    OBVIOUS
  <1> USE AccessAssumption, LoginAssumption
      DEF AccessAssumption, LoginAssumption, Init, LoginInit, AccessInit
  <1>1. LoginInv
    BY DEF LoginInv, LoginTypeOK
  <1>2. exchange \in [Exchanges -> ExchangeRecords]
    BY NoExchangeType
  <1>3. session \in [Holders -> SessionRecords]
    BY DEF SessionRecords, Groups
  <1>4. AccessTypeOK
    BY <1>2, <1>3 DEF AccessTypeOK, ExchangeRecords, SessionRecords, Groups
  <1>5. VouchedInv
    BY DEF VouchedInv, NoExchange, Holders
  <1> QED BY <1>1, <1>4, <1>5 DEF AccessInv

LEMMA StutterInv == AccessInv /\ UNCHANGED vars => AccessInv'
  <1> SUFFICES ASSUME AccessInv, UNCHANGED vars PROVE AccessInv'
    OBVIOUS
  <1>1. LoginInv'
    BY LoginKept DEF AccessInv, vars
  <1>2. AccessTypeOK'
    BY DEF AccessInv, AccessTypeOK, vars, accessVars
  <1>3. VouchedInv'
    BY DEF AccessInv, VouchedInv, Claims, vars, accessVars, loginVars
  <1> QED BY <1>1, <1>2, <1>3 DEF AccessInv

(* The inductive invariant of dlh login, tokens, sessions and restarts.    *)
THEOREM AccessInvHolds == Spec => []AccessInv
  <1>1. AccessInv /\ [Next]_vars => AccessInv'
    BY LoginInvStep, AccessTypeStep, VouchedStep, StutterInv DEF AccessInv
  <1> QED BY <1>1, InitInv, PTL DEF Spec

(* The middleware lets nobody in a session's lifetime after the last token *)
(* that a provider gave them has expired.                                  *)
THEOREM AccessIsBoundedHolds == Spec => []AccessIsBounded
  <1>1. AccessInv => AccessIsBounded
    <2> SUFFICES ASSUME AccessInv, NEW h \in Holders, NEW b \in {"session", "external"},
                        Accepted(h, b)
                 PROVE  clock < vouched[h] + Lifetime
      BY DEF AccessIsBounded
    <2>1. /\ clock \in Nat /\ file \in Nat /\ session[h].exp \in Nat /\ vouched[h] \in Nat
          /\ Lifetime \in Nat \ {0}
      BY AccessAssumption DEF AccessInv, LoginInv, LoginTypeOK, AccessTypeOK, AccessAssumption
    <2>2. CASE SessionValid(h)
      BY <2>1, <2>2 DEF SessionValid, AccessInv, VouchedInv
    <2>3. CASE h = Person /\ ExternalValid(file)
      BY <2>1, <2>3 DEF ExternalValid, AccessInv, VouchedInv
    <2> QED BY <2>2, <2>3 DEF Accepted
  <1> QED BY <1>1, AccessInvHolds, PTL

\* More groups give no lower role.
LEMMA ResolveGrows ==
    ASSUME NEW some, NEW all, some \subseteq all
    PROVE  Level(Resolve(some)) <= Level(Resolve(all))
  <1> DEFINE Bound(groups) == {bindings[g] : g \in groups \cap DOMAIN bindings}
             Best(roles) == CASE "admin" \in roles -> "admin"
                              [] "runner" \in roles /\ "admin" \notin roles -> "runner"
                              [] OTHER -> "viewer"
  <1>1. Bound(some) \subseteq Bound(all)
    OBVIOUS
  <1>2. Resolve(some) = Best(Bound(some)) /\ Resolve(all) = Best(Bound(all))
    BY DEF Resolve
  <1> HIDE DEF Bound
  <1>3. Level(Best(Bound(some))) <= Level(Best(Bound(all)))
    BY <1>1 DEF Level
  <1> HIDE DEF Best
  <1> QED BY <1>2, <1>3

(* The exchange gives nobody a higher role than their own provider does,   *)
(* whoever asks for it, for any groups, bindings and restarts.             *)
THEOREM ExchangeGivesNoMoreHolds == Spec => []ExchangeGivesNoMore
  <1>1. AccessInv => ExchangeGivesNoMore
    <2> SUFFICES ASSUME AccessInv, NEW h \in Holders
                 PROVE  Level(RoleOf(h, "session")) <= Level(Resolve(Claims(h)))
      BY DEF ExchangeGivesNoMore
    <2>1. session[h].groups \subseteq Claims(h)
      BY DEF AccessInv, VouchedInv
    <2> QED BY <2>1, ResolveGrows DEF RoleOf
  <1> QED BY <1>1, AccessInvHolds, PTL

(* At most one poll of dlh login goes out after the code has expired.      *)
THEOREM OnePollPastDeadlineHolds == Spec => []OnePollPastDeadline
  <1>1. AccessInv => OnePollPastDeadline
    BY DEF AccessInv, LoginInv, OnePollPastDeadline
  <1> QED BY <1>1, AccessInvHolds, PTL

(* dlh login waits a whole interval after every slow_down.                 *)
THEOREM SlowDownIsHonouredHolds == Spec => SlowDownIsHonoured
  <1>1. AccessInv /\ Poll => clock >= slowed + interval
    BY DEF AccessInv, LoginInv, LoginTypeOK, Poll
  <1> QED BY <1>1, AccessInvHolds, PTL DEF SlowDownIsHonoured

=============================================================================
