----------------------------- MODULE MCRunQueue -----------------------------
(***************************************************************************)
(* Instances of RunQueue for TLC: all scenarios take the lock of one lane. *)
(***************************************************************************)
EXTENDS RunQueue, TLC

CONSTANTS
    mysql,  \* key of the lane
    Unset   \* scenarios whose template bakes no priority

MCLaneOf == [s \in Scenarios |-> mysql]

\* The other templates bake the priority 1.
MCBaked == [s \in Scenarios |-> IF s \in Unset THEN None ELSE 1]

\* Requests of a kind are interchangeable.
RequestSymmetry == Permutations(Posts) \cup Permutations(Puts)

=============================================================================
