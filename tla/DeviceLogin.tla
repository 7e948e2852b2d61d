---------------------------- MODULE DeviceLogin -----------------------------
(***************************************************************************)
(* dlh login: the device-code flow of the command line tool.  It asks the  *)
(* identity provider for a code, polls for the token on a time.Ticker      *)
(* under a deadline, and caches what it gets in ~/.config/dlh/token.       *)
(* Clock readings are in seconds or any other unit.                        *)
(***************************************************************************)
EXTENDS Integers

CONSTANTS
    Step,          \* the default interval, and what a slow_down adds (5 s)
    DefaultExpiry, \* lifetime of a code if the provider names none (600 s)
    Intervals,     \* intervals a provider sends; 0 stands for none
    Expiries,      \* lifetimes of a code it sends; 0 stands for none
    IdLifetime,    \* lifetime of an id token
    MaxTime        \* bound on the clock

ASSUME LoginAssumption ==
    /\ Step \in Nat \ {0} /\ DefaultExpiry \in Nat \ {0}
    /\ Intervals \subseteq Nat /\ Expiries \subseteq Nat
    /\ IdLifetime \in Nat
    /\ MaxTime \in Nat

VARIABLES
    clock,
    login,     \* how far dlh login is; "idle" when it does not run
    interval,  \* pollForToken's interval
    due,       \* when the ticker fires next; a tick nobody takes waits
    deadline,  \* when its context, and the device code, expire
    slowed,    \* when the last slow_down came, or the polling began (history)
    late,      \* polls sent since the deadline (history)
    token,     \* when the id token in memory expires, 0 without one
    file       \* when the cached token expires, 0 for a missing or empty file

pollVars == <<interval, due, deadline, slowed, late>>
loginVars == <<login, pollVars, token, file>>

PositiveOr(n, default) == IF n > 0 THEN n ELSE default

LoginInit ==
    /\ clock = 0
    /\ login = "idle"
    /\ interval = 0 /\ due = 0 /\ deadline = 0 /\ slowed = 0 /\ late = 0
    /\ token = 0
    /\ file = 0

\* requestDeviceCode, and pollForToken up to its loop.
AskCode ==
    /\ login = "idle"
    /\ login' = "waiting"
    /\ \E i \in Intervals, e \in Expiries :
          /\ interval' = PositiveOr(i, Step)
          /\ deadline' = clock + PositiveOr(e, DefaultExpiry)
          /\ due' = clock + PositiveOr(i, Step)
    /\ slowed' = clock
    /\ UNCHANGED <<clock, late, token, file>>

\* pollForToken's local variables are gone.
PollingOver == interval' = 0 /\ due' = 0 /\ deadline' = 0 /\ slowed' = 0 /\ late' = 0

\* The command returns.
Exit ==
    /\ login' = "idle"
    /\ PollingOver
    /\ token' = 0
    /\ UNCHANGED clock

\* The select takes ctx.Done.
Expire ==
    /\ login = "waiting" /\ clock >= deadline
    /\ Exit
    /\ UNCHANGED file

\* The select takes the tick, also when the context is done. The ticker is next
\* due at the first multiple of its interval that is still to come.
Poll ==
    /\ login = "waiting" /\ clock >= due
    /\ login' = "asked"
    /\ \E t \in (clock + 1)..(clock + interval) : (t - due) % interval = 0 /\ due' = t
    /\ late' = IF clock >= deadline THEN late + 1 ELSE late
    /\ UNCHANGED <<clock, interval, deadline, slowed, token, file>>

\* pollForToken returns with the token. To a poll sent after the code expired the
\* provider answers an error.
Token ==
    /\ login = "asked" /\ late = 0
    /\ login' = "got"
    /\ token' = clock + IdLifetime
    /\ PollingOver
    /\ UNCHANGED <<clock, file>>

Pending ==
    /\ login = "asked" /\ late = 0
    /\ login' = "waiting"
    /\ UNCHANGED <<clock, pollVars, token, file>>

\* Broken variant: the ticker keeps its pace.
SlowDownWithoutReset ==
    /\ login = "asked" /\ late = 0
    /\ login' = "waiting"
    /\ interval' = interval + Step
    /\ slowed' = clock
    /\ UNCHANGED <<clock, due, deadline, late, token, file>>

\* t.Reset(interval) also discards a tick that was waiting.
SlowDown ==
    /\ login = "asked" /\ late = 0
    /\ login' = "waiting"
    /\ interval' = interval + Step
    /\ due' = clock + interval'
    /\ slowed' = clock
    /\ UNCHANGED <<clock, deadline, late, token, file>>

\* Broken variant: every error is taken for authorization_pending.
RefusedIsPending ==
    /\ login = "asked"
    /\ login' = "waiting"
    /\ UNCHANGED <<clock, pollVars, token, file>>

\* Any other error, of the provider or of the connection.
Refused == login = "asked" /\ Exit /\ UNCHANGED file

\* saveToken, whose write may fail before or after it empties the file.
Save ==
    /\ login = "got"
    /\ file' \in {token, file, 0}
    /\ Exit

LoginNext ==
    \/ AskCode
    \/ Expire
    \/ Poll
    \/ Token
    \/ Pending
    \/ SlowDown
    \/ Refused
    \/ Save

-----------------------------------------------------------------------------
LoginTypeOK ==
    /\ clock \in 0..MaxTime
    /\ login \in {"idle", "waiting", "asked", "got"}
    /\ {interval, due, deadline, slowed, late, token, file} \subseteq Nat

(* While it waits, the ticker is due a whole interval after the last       *)
(* slow_down, and no poll has been late: the provider ends a late one.     *)
LoginInv ==
    /\ LoginTypeOK
    /\ login \in {"waiting", "asked"} => interval > 0 /\ due >= slowed + interval
    /\ login = "waiting" => late = 0
    /\ late <= 1
    /\ login = "idle" => late = 0

(* The tool never asks sooner than a whole interval after it was told to   *)
(* slow down, or after it began: a tick that fell due during the request   *)
(* does not survive.                                                       *)
SlowDownIsHonoured == [][Poll => clock >= slowed + interval]_<<clock, loginVars>>

(* The deadline and the ticker race when both are due; still at most one   *)
(* poll goes out after the code has expired.                               *)
OnePollPastDeadline == late <= 1
=============================================================================
