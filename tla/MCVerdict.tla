------------------------------ MODULE MCVerdict ------------------------------
(***************************************************************************)
(* An instance of Verdict for TLC: valid and invalid durations and SLOs.   *)
(***************************************************************************)
EXTENDS Verdict

Th(l, g, w) == [lt |-> l, gt |-> g, window |-> w]
One(t) == [thresholds |-> <<t>>, raw |-> "none"]

MCParams ==
    {[after |-> a, chaos |-> c, load |-> 2] : a \in {0, 1}, c \in {1, 2}}
        \cup {[after |-> 0, chaos |-> 1, load |-> 1]}

MCSLOs ==
    { [thresholds |-> <<Th(TRUE, FALSE, "chaos"), Th(FALSE, TRUE, "recovery")>>, raw |-> "none"],
      [thresholds |-> <<Th(TRUE, FALSE, "baseline")>>, raw |-> "full"],
      [thresholds |-> << >>, raw |-> "full"],
      [thresholds |-> << >>, raw |-> "none"],
      [thresholds |-> << >>, raw |-> "other"],
      One(Th(TRUE, TRUE, "chaos")),
      One(Th(FALSE, FALSE, "chaos")),
      One(Th(TRUE, FALSE, "other")) }

MCSamples == {0, 1, 2, NaN, Empty, Error}

=============================================================================
