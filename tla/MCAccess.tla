------------------------------ MODULE MCAccess ------------------------------
(***************************************************************************)
(* Instances of Access for TLC: one group for the person, one for the job, *)
(* bound to roles or to a name that is none.                               *)
(***************************************************************************)
EXTENDS Access, TLC

MCIdGroups == {"dlh-admins"}
MCCIGroups == {"ci-owner:dlh"}

MCBindings == {
    [g \in MCIdGroups |-> "admin"],
    [g \in MCIdGroups \cup MCCIGroups |-> IF g \in MCIdGroups THEN "admins" ELSE "runner"]}

\* Exchanges are interchangeable, and so are keys.
Symmetry == Permutations(Exchanges) \cup Permutations(Keys)

=============================================================================
