------------------------------- MODULE Access -------------------------------
(***************************************************************************)
(* Who is let in as what, and for how long: auth.Middleware with session   *)
(* and id tokens, auth.Roles, POST /api/oidc/exchange with its Exchanger   *)
(* and SessionIssuer, and restarts.  Composed with dlh login, which gives  *)
(* a person an id token; a CI job gets its tokens from the CI provider.    *)
(***************************************************************************)
EXTENDS DeviceLogin, FiniteSets

CONSTANTS
    Person, Jobs,  \* holders of tokens: somebody with dlh, and CI jobs
    IdGroups,      \* groups in the person's id token
    CIGroups,      \* groups that Validate makes of a job's repository claims
    Bindings,      \* contents of the roles ConfigMap: group -> role
    Exchanges,     \* exchange requests served at a time
    Keys,          \* signing keys of sessions
    Lifetime       \* of a session (1 h)

Holders == {Person} \cup Jobs

ASSUME AccessAssumption ==
    /\ Lifetime \in Nat \ {0}
    /\ Bindings # {} /\ Keys # {}

VARIABLES
    ci,        \* job -> when its CI token expires, 0 without one
    session,   \* holder -> when the session in its name expires, its groups and key
    vouched,   \* holder -> when its last external token expires (history)
    key,       \* the signing key in use
    bindings,  \* what the process loaded of the roles ConfigMap when it started
    cached,    \* issuers in Exchanger.providers
    exchange   \* exchange request -> how far it is, and the token it is about

accessVars == <<ci, session, vouched, key, bindings, cached, exchange>>
vars == <<clock, loginVars, accessVars>>

\* The bearer token a request carries.
Bearers == {"session", "external", "none"}

NoExchange == [who |-> Person, exp |-> 0, groups |-> {}, stage |-> "none"]

\* The provider whose token a holder has.
Issuer(h) == IF h = Person THEN "idp" ELSE "ci"
External(h) == IF h = Person THEN file ELSE ci[h]

-----------------------------------------------------------------------------
(* auth.Middleware and auth.Roles *)

SessionValid(h) == clock < session[h].exp /\ session[h].key = key

\* go-oidc accepts a token in the very second it expires.
ExternalValid(exp) == exp > 0 /\ clock <= exp

\* The middleware knows sessions and the tokens of its own provider.
Accepted(h, bearer) ==
    \/ bearer = "session" /\ SessionValid(h)
    \/ bearer = "external" /\ h = Person /\ ExternalValid(file)

\* The groups that a holder's provider vouches for.
Claims(h) == IF h = Person THEN IdGroups ELSE CIGroups

\* Validate takes groups from the repository claims only, which a person's token has not.
ExchangedGroups(h) == IF h = Person THEN {} ELSE CIGroups

Level(role) ==
    CASE role = "viewer" -> 1 [] role = "runner" -> 2 [] role = "admin" -> 3 [] OTHER -> 0

\* The highest role any group is bound to, at least viewer.
Resolve(groups) ==
    LET bound == {bindings[g] : g \in groups \cap DOMAIN bindings}
    IN  CASE "admin" \in bound -> "admin"
          [] "runner" \in bound /\ "admin" \notin bound -> "runner"
          [] OTHER -> "viewer"

\* The role that the middleware puts into the context of an accepted request.
RoleOf(h, bearer) ==
    Resolve(IF bearer = "session" THEN session[h].groups ELSE Claims(h))

-----------------------------------------------------------------------------
(* POST /api/oidc/exchange *)

\* The path of the exchange is none of those that NewRouter lets past authMW.
ReachesExchange(h, bearer) == Accepted(h, bearer)
Callers == {h \in Holders : \E bearer \in Bearers : ReachesExchange(h, bearer)}

exchangeUnchanged == <<clock, loginVars, ci, vouched, key, bindings>>

\* Holders whose session, put in the body, would be validated, too.
BodiesWithSession(h) == {External(h), session[h].exp}

\* Expiry of the tokens that a holder can have validated: those of a trusted issuer.
Bodies(h) == {External(h)}

\* Where an exchange about the token of h begins: is its provider known already?
FirstStage(h) == IF Issuer(h) \in cached THEN "ready" ELSE "fetching"

\* Broken variant: the session is to have the groups in the request's context.
AskWithCallersGroups(x, h) ==
    /\ exchange[x].stage = "none"
    /\ \E b \in Callers, exp \in Bodies(h) :
          exchange' = [exchange EXCEPT ![x] =
              [who |-> h, exp |-> exp, groups |-> Claims(b), stage |-> FirstStage(h)]]
    /\ UNCHANGED <<exchangeUnchanged, session, cached>>

\* Somebody whom the middleware accepts has h's token exchanged, which need not be
\* the caller's own.
AskExchange(x, h) ==
    /\ exchange[x].stage = "none"
    /\ Callers # {}
    /\ \E exp \in Bodies(h) :
          exchange' = [exchange EXCEPT ![x] =
              [who |-> h, exp |-> exp, groups |-> ExchangedGroups(h), stage |-> FirstStage(h)]]
    /\ UNCHANGED <<exchangeUnchanged, session, cached>>

\* providerFor fetches the provider's configuration and keeps it.
Fetched(x) ==
    /\ exchange[x].stage = "fetching"
    /\ cached' = cached \cup {Issuer(exchange[x].who)}
    /\ exchange' = [exchange EXCEPT ![x].stage = "ready"]
    /\ UNCHANGED <<exchangeUnchanged, session>>

\* The provider cannot be reached: the handler answers 401.
FetchFails(x) ==
    /\ exchange[x].stage = "fetching"
    /\ exchange' = [exchange EXCEPT ![x] = NoExchange]
    /\ UNCHANGED <<exchangeUnchanged, session, cached>>

\* Validate verifies the token; Issue signs a session, or the handler answers 401.
Issue(x) ==
    /\ exchange[x].stage = "ready"
    /\ exchange' = [exchange EXCEPT ![x] = NoExchange]
    /\ session' = IF ExternalValid(exchange[x].exp)
                  THEN [session EXCEPT ![exchange[x].who] =
                          [exp |-> clock + Lifetime, key |-> key, groups |-> exchange[x].groups]]
                  ELSE session
    /\ UNCHANGED <<exchangeUnchanged, cached>>

-----------------------------------------------------------------------------
\* The process starts: it loads the bindings, which may have been edited (nothing
\* looks at the ConfigMap at any other time), and perhaps a new signing key.
Start ==
    /\ bindings' \in Bindings
    /\ key' \in Keys
    /\ cached' = {}
    /\ exchange' = [x \in Exchanges |-> NoExchange]
    /\ UNCHANGED <<clock, loginVars, ci, session, vouched>>

\* Two requests touch the plain map of providers at once, and the runtime ends the process.
MapRace ==
    /\ \E x, y \in Exchanges : x # y /\ {exchange[x].stage, exchange[y].stage} = {"fetching"}
    /\ Start

CIToken(j) ==
    /\ ci' = [ci EXCEPT ![j] = clock + IdLifetime]
    /\ vouched' = [vouched EXCEPT ![j] = clock + IdLifetime]
    /\ UNCHANGED <<clock, loginVars, session, key, bindings, cached, exchange>>

Login ==
    /\ LoginNext
    /\ vouched' = IF token' # 0 THEN [vouched EXCEPT ![Person] = token'] ELSE vouched
    /\ UNCHANGED <<ci, session, key, bindings, cached, exchange>>

Tick ==
    /\ clock < MaxTime
    /\ clock' = clock + 1
    /\ UNCHANGED <<loginVars, accessVars>>

AccessInit ==
    /\ ci = [j \in Jobs |-> 0]
    /\ key \in Keys
    /\ session = [h \in Holders |-> [exp |-> 0, key |-> key, groups |-> {}]]
    /\ vouched = [h \in Holders |-> 0]
    /\ bindings \in Bindings
    /\ cached = {}
    /\ exchange = [x \in Exchanges |-> NoExchange]

Init == LoginInit /\ AccessInit

Next ==
    \/ Login
    \/ \E j \in Jobs : CIToken(j)
    \/ \E x \in Exchanges, h \in Holders : AskExchange(x, h)
    \/ \E x \in Exchanges : Fetched(x) \/ FetchFails(x) \/ Issue(x)
    \/ Start
    \/ MapRace
    \/ Tick

Spec == Init /\ [][Next]_vars

-----------------------------------------------------------------------------
AccessTypeOK ==
    /\ ci \in [Jobs -> Nat]
    /\ session \in [Holders -> [exp : Nat, key : Keys, groups : SUBSET (IdGroups \cup CIGroups)]]
    /\ vouched \in [Holders -> Nat]
    /\ key \in Keys
    /\ bindings \in Bindings
    /\ cached \subseteq {"idp", "ci"}
    /\ exchange \in [Exchanges ->
          [who : Holders, exp : Nat, groups : SUBSET (IdGroups \cup CIGroups),
           stage : {"none", "fetching", "ready"}]]

(* No token, wherever it is kept, outlives what vouches for its holder, or *)
(* has other groups.                                                       *)
VouchedInv ==
    /\ \A h \in Holders : vouched[h] <= clock + IdLifetime
    /\ token # 0 => login = "got"
    /\ token <= vouched[Person] /\ file <= vouched[Person]
    /\ \A j \in Jobs : ci[j] <= vouched[j]
    /\ \A x \in Exchanges :
          LET t == exchange[x] IN t.exp <= vouched[t.who] /\ t.groups \subseteq Claims(t.who)
    /\ \A h \in Holders :
          session[h].exp <= vouched[h] + Lifetime /\ session[h].groups \subseteq Claims(h)

(* The inductive invariant of login, tokens, sessions and restarts.        *)
AccessInv == LoginInv /\ AccessTypeOK /\ VouchedInv

(* Nobody is let in a session's lifetime or more after the last token that *)
(* their provider gave them expired: exchanging, a restart or another key  *)
(* never prolongs it.                                                      *)
AccessIsBounded ==
    \A h \in Holders, b \in {"session", "external"} :
        Accepted(h, b) => clock < vouched[h] + Lifetime

(* Nobody is served by a higher role with a session than with the token it *)
(* was issued for, whoever sent that token to the exchange, whatever the   *)
(* sender's own role, and whatever roles a restart loads meanwhile.        *)
ExchangeGivesNoMore ==
    \A h \in Holders : Accepted(h, "session") =>
        Level(RoleOf(h, "session")) <= Level(Resolve(Claims(h)))

(* api/openapi.yaml: the exchange is a public endpoint, its token is       *)
(* validated by the Exchanger: whoever holds a valid external token gets   *)
(* to the handler with it, without another token.                          *)
ExchangeIsPublic ==
    \A h \in Holders : ExternalValid(External(h)) => ReachesExchange(h, "none")
=============================================================================
