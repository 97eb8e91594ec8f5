------------------------------ MODULE Throttle ------------------------------
(***************************************************************************)
(* What the tiers are promised of the observation budget, without a clock, *)
(* a reading or an average: a level that moves by one step at a time, and  *)
(* base periods that only a person changes.  Budget implements it, and     *)
(* Collector allows for all of it.                                         *)
(***************************************************************************)
EXTENDS Ladder

CONSTANTS Subjects,  \* the tiers that have a base period
          Periods,   \* the base periods they may be given
          Commanded  \* the tiers a person may give one

VARIABLES
  base, \* Budget.base
  level \* Budget.level

promised == <<base, level>>

Init == base \in [Subjects -> Periods] /\ level = 0

\* Observe, whatever it has read.
Move ==
  /\ level' \in (level - 1 .. level + 1) \cap 0 .. MaxLevel
  /\ UNCHANGED base

SetBase(tier, d) ==
  /\ base' = [base EXCEPT ![tier] = d]
  /\ UNCHANGED level

Next == Move \/ \E tier \in Commanded, d \in Periods : SetBase(tier, d)

Spec == Init /\ [][Next]_promised

-----------------------------------------------------------------------------
Slowed(tier) == PeriodAt(base, level, tier) # base[tier]

\* Whether the throttle takes the one before the other.
Dispensable(one, other) ==
  one # "cpu history" /\ (other = "cpu history" \/ DegradedFrom(one) < DegradedFrom(other))

\* No step of the throttle changes the cadence of two tiers, and the one it
\* changes is doubled or restored while all that are less valuable are slowed
\* and none that is more valuable is: the request grid gives last and is given
\* back first, and the CPU history never gives.
GivesInOrder ==
  [][\A tier \in Subjects :
       base' = base /\ PeriodAt(base, level', tier) # PeriodAt(base, level, tier) =>
         /\ tier # "cpu history" /\ Slowed(tier)' = ~Slowed(tier)
         /\ \A other \in Subjects \ {tier} :
              /\ PeriodAt(base, level', other) = PeriodAt(base, level, other)
              /\ Slowed(other) <=> Dispensable(other, tier)]_promised

=============================================================================
