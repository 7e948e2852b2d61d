----------------------------- MODULE RunRecord -----------------------------
(***************************************************************************)
(* What the record of a run promises to whoever reads it, whatever writes  *)
(* it, crashes, or fails in between:                                       *)
(*   - it says only what has already been so of the run;                   *)
(*   - it may say less for a while, even again, but once it says the run   *)
(*     is over it stays, and it is never taken away;                       *)
(*   - the listing shows an end only after the record itself does.         *)
(* RunManifest is shown to implement this module.                          *)
(***************************************************************************)

CONSTANT Runs

VARIABLES
    phase,   \* run -> phase of its Workflow
    record,  \* run -> status in its record, or "None"
    listed   \* run -> status in the listing of runs, or "None"

vars == <<phase, record, listed>>

\* What a record may say of a run in each phase.
Said ==
    [None    |-> {},
     Pending |-> {"Submitted", "Pending"},
     Running |-> {"Submitted", "Pending", "Running"},
     Done    |-> {"Submitted", "Pending", "Running", "Done"}]

Init ==
    /\ phase = [r \in Runs |-> "None"]
    /\ record = [r \in Runs |-> "None"]
    /\ listed = [r \in Runs |-> "None"]

\* The run moves on, and everything that could be said of it still can.
Advance(r) ==
    \E p \in DOMAIN Said :
        /\ Said[phase[r]] \subseteq Said[p]
        /\ phase' = [phase EXCEPT ![r] = p]
        /\ UNCHANGED <<record, listed>>

Write(r) ==
    \E s \in Said[phase[r]] :
        /\ record[r] # "Done"
        /\ record' = [record EXCEPT ![r] = s]
        /\ UNCHANGED <<phase, listed>>

List(r) ==
    \E s \in Said[phase[r]] :
        /\ listed[r] # "Done"
        /\ s = "Done" => record[r] = "Done"
        /\ listed' = [listed EXCEPT ![r] = s]
        /\ UNCHANGED <<phase, record>>

Next == \E r \in Runs : Advance(r) \/ Write(r) \/ List(r)

Spec == Init /\ [][Next]_vars

=============================================================================
