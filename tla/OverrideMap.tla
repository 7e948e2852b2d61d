----------------------------- MODULE OverrideMap -----------------------------
(***************************************************************************)
(* What the scenario-priorities store promises: a map from scenarios to    *)
(* overrides on which every PUT takes effect at once and for its own       *)
(* scenario only.  A PUT that was answered 200 has taken effect; one that  *)
(* was answered with an error may have, as a whole, or not at all.         *)
(* Operators edit the map behind the API's back.                           *)
(* PriorityStore is shown to implement this module.                        *)
(***************************************************************************)
EXTENDS Naturals

CONSTANTS Scenarios, Values, None, Puts

VARIABLES
    overrides,  \* scenario -> its override, or None
    asked,      \* PUT -> the scenario and the priority it asks for
    answer,     \* PUT -> "none" yet, "ok" or "error"
    edits       \* operators' edits so far

vars == <<overrides, asked, answer, edits>>

Init ==
    /\ overrides \in [Scenarios -> Values \cup {None}]
    /\ asked \in [Puts -> [scenario : Scenarios, priority : Values]]
    /\ answer = [p \in Puts |-> "none"]
    /\ edits = 0

Effect(p) == overrides' = [overrides EXCEPT ![asked[p].scenario] = asked[p].priority]

Accept(p) ==
    /\ answer[p] = "none"
    /\ answer' = [answer EXCEPT ![p] = "ok"]
    /\ Effect(p)
    /\ UNCHANGED <<asked, edits>>

Reject(p) ==
    /\ answer[p] = "none"
    /\ answer' = [answer EXCEPT ![p] = "error"]
    /\ Effect(p) \/ UNCHANGED overrides
    /\ UNCHANGED <<asked, edits>>

Edit ==
    /\ overrides' \in [Scenarios -> Values \cup {None}]
    /\ edits' = edits + 1
    /\ UNCHANGED <<asked, answer>>

Next == Edit \/ \E p \in Puts : Accept(p) \/ Reject(p)

Spec == Init /\ [][Next]_vars

=============================================================================
