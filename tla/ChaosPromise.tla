---------------------------- MODULE ChaosPromise ----------------------------
(***************************************************************************)
(* What the chaos control path promises about the chaos of a run, whatever *)
(* the controlplane, the workflow engine and the watchdog do to keep it:   *)
(*   - the run's chaos is injected at most once, and never comes back;     *)
(*   - it is taken away only when the run no longer needs it;              *)
(*   - once the run has ended, injected chaos is eventually taken away.    *)
(* ChaosLifecycle is shown to implement this module.                       *)
(***************************************************************************)

CONSTANT Runs

VARIABLES
    chaos,   \* run -> "never" injected, "active" in a cluster, "gone" for good
    need     \* run -> "needed" by the run, "released" by it, or the run "ended"

vars == <<chaos, need>>

TypeOK ==
    /\ chaos \in [Runs -> {"never", "active", "gone"}]
    /\ need \in [Runs -> {"needed", "released", "ended"}]

Init ==
    /\ chaos = [r \in Runs |-> "never"]
    /\ need = [r \in Runs |-> "needed"]

\* The request is executed. It may arrive late, even after the run ended.
Inject(r) ==
    /\ chaos[r] = "never"
    /\ chaos' = [chaos EXCEPT ![r] = "active"]
    /\ UNCHANGED need

\* The request is refused or lost: this run will never have chaos, and a run
\* still waiting for it needs it no longer.
Decline(r) ==
    /\ chaos[r] = "never"
    /\ chaos' = [chaos EXCEPT ![r] = "gone"]
    /\ \/ UNCHANGED need
       \/ need[r] = "needed" /\ need' = [need EXCEPT ![r] = "released"]

\* The run, or an operator who cancels it, gives the chaos up.
Release(r) ==
    /\ need[r] = "needed"
    /\ need' = [need EXCEPT ![r] = "released"]
    /\ UNCHANGED chaos

End(r) ==
    /\ need[r] # "ended"
    /\ need' = [need EXCEPT ![r] = "ended"]
    /\ UNCHANGED chaos

\* Taking the chaos away needs a reason.
Remove(r) ==
    /\ chaos[r] = "active"
    /\ need[r] # "needed"
    /\ chaos' = [chaos EXCEPT ![r] = "gone"]
    /\ UNCHANGED need

Next == \E r \in Runs : Inject(r) \/ Decline(r) \/ Release(r) \/ End(r) \/ Remove(r)

Safety == Init /\ [][Next]_vars

\* Only the chaos of an ended run must go.
Spec == Safety /\ \A r \in Runs : WF_vars(need[r] = "ended" /\ Remove(r))

=============================================================================
