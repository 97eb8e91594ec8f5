------------------------------ MODULE MCBudget ------------------------------
(* Constants for model-checking Budget. *)
EXTENDS Budget

CONSTANT never

\* Readings a unit or two apart; nothing, a burst, or a restarted cpu_time.
MCGaps == {0, 1, 2}
MCCosts == {-1, 0, 4}

\* Every tier starts with the shortest period.
MCConfigured == {[tier \in Tiers |-> 1]}

=============================================================================
