------------------------------- MODULE Ladder -------------------------------
(***************************************************************************)
(* The tiers and the order in which the budget slows them: what            *)
(* degradedFrom and Budget.Period (internal/collector/budget.go) say.      *)
(***************************************************************************)
EXTENDS Integers

Tiers == {"requests", "counters", "space", "cpu history"}

MaxLevel == 3

\* degradedFrom: the level from which a tier is slowed.
DegradedFrom(tier) == CASE tier = "space" -> 1
                        [] tier = "counters" -> 2
                        [] tier = "requests" -> 3

\* Budget.Period: tier D, which is not in the order, is never slowed.
PeriodAt(base, level, tier) ==
  IF tier # "cpu history" /\ level >= DegradedFrom(tier)
  THEN 2 * base[tier] ELSE base[tier]

=============================================================================
