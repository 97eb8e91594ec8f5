-------------------------- MODULE Collector_proofs --------------------------
(***************************************************************************)
(* For every set of tiers, every period they may be given and every floor  *)
(* and ceiling of the backoff: each tier speaks for itself, and a broken   *)
(* one is tried again no sooner than its periods allow.                    *)
(*                                                                         *)
(* The period may change while a tier waits, by the f key or the budget,   *)
(* and the backoff it waits out was made of the one before; so the         *)
(* invariant is about the periods it was ever given since it broke.        *)
(***************************************************************************)
EXTENDS Collector, WellFoundedInduction, TLAPS

CollectorTypes ==
  /\ now \in Nat
  /\ base \in [Driven -> Periods] /\ level \in Int
  /\ ctx \in {"live", "done"}
  /\ pc \in [Driven -> {"preflight", "begin", "wait", "sample", "cost",
                        "decide", "returned"}]
  /\ start \in [Driven -> Nat] /\ \A t \in Driven : start[t] <= now
  /\ ok \in [Driven -> BOOLEAN]
  /\ backoff \in [Driven -> Nat] /\ due \in [Driven -> Nat]
  /\ asked \in [Driven -> SUBSET Nat]

\* A sample's outcome and the message of its tier agree from the sample on.
Spoken ==
  \A t \in Driven : pc[t] \in {"cost", "decide", "wait"} /\ ctx = "live" =>
    (t \in tierErr <=> ~ok[t])

\* A backoff is no shorter than one of the periods it was made of.
Backed ==
  \A t \in Driven : backoff[t] # 0 =>
    backoff[t] >= MinBackoff /\ \E period \in asked[t] : backoff[t] >= period

\* A tier that waits after a failure waits its backoff out.
Spaced ==
  \A t \in Driven : pc[t] = "wait" /\ ~ok[t] =>
    backoff[t] # 0 /\ due[t] >= start[t] + backoff[t]

CollectorInv == CollectorTypes /\ Spoken /\ Backed /\ Spaced

-----------------------------------------------------------------------------
\* A set of naturals that is not empty has a least element, and Min finds it.
LEMMA LeastPeriod ==
  ASSUME NEW S \in SUBSET Nat, NEW one \in S
  PROVE  Min(S) <= one /\ Min(S) \in Nat
<1>1. PICK least \in S : \A i \in S : ~(<<i, least>> \in OpToRel(<, Nat))
  BY NatLessThanWellFounded, WFMin
<1>2. ASSUME NEW i \in S PROVE least <= i
  <2>1. ~(<<i, least>> \in OpToRel(<, Nat)) /\ <<i, least>> \in Nat \X Nat
    BY <1>1
  <2>2. <<i, least>>[1] = i /\ <<i, least>>[2] = least
    OBVIOUS
  <2>3. ~(i < least)
    BY <2>1, <2>2 DEF OpToRel
  <2> QED
    BY <2>3
<1> QED
  BY <1>2 DEF Min

\* Whatever the level, a period is one.
LEMMA PeriodIsOne ==
  ASSUME CollectorTypes, NEW t \in Driven PROVE Period(t) \in Nat \ {0}
<1>1. base[t] \in Nat \ {0}
  <2>1. base \in [Driven -> Periods]
    BY DEF CollectorTypes
  <2>2. Periods \subseteq Nat \ {0}
    BY CollectorAssumption
  <2> QED
    BY ONLY <2>1, <2>2, t \in Driven
<1>2. Period(t) = 2 * base[t] \/ Period(t) = base[t]
  BY DEF Period, PeriodAt
<1> QED
  BY <1>1, <1>2

\* The backoff grows from the period of its first failure.
LEMMA BackoffGrows ==
  ASSUME NEW last \in Nat, NEW period \in Nat \ {0}
  PROVE  /\ NextBackoff(last, period) \in Nat \ {0}
         /\ NextBackoff(last, period) >= last
         /\ last = 0 => /\ NextBackoff(last, period) >= period
                        /\ NextBackoff(last, period) >= MinBackoff
  BY CollectorAssumption DEF NextBackoff, Larger, Smaller

-----------------------------------------------------------------------------
LEMMA InitEstablishesCollectorInv == Init => CollectorInv
  BY CollectorAssumption DEF Init, CollectorInv, CollectorTypes, Spoken, Backed, Spaced

\* The wait is chosen.
LEMMA DecideKeeps ==
  ASSUME CollectorInv, NEW t \in Driven, Decide(t) PROVE CollectorInv'
<1> DEFINE period == Period(t)
           next   == NextBackoff(backoff[t], period)
<1>1. /\ pc[t] = "decide" /\ pc' = [pc EXCEPT ![t] = "wait"]
      /\ backoff' = [backoff EXCEPT ![t] = IF ok[t] THEN 0 ELSE next]
      /\ asked' = [asked EXCEPT ![t] = IF ok[t] THEN {} ELSE @ \cup {period}]
      /\ due' = [due EXCEPT ![t] =
                   now + IF ok[t] THEN Larger(period - (now - start[t]), 0) ELSE backoff'[t]]
      /\ UNCHANGED <<now, ctx, base, level, start, ok, tierErr>>
  BY DEF Decide, budgetVars, statusVars
<1>2. period \in Nat \ {0}
  BY PeriodIsOne DEF CollectorInv
<1> HIDE DEF period
<1>3. /\ backoff[t] \in Nat /\ next \in Nat \ {0} /\ next >= backoff[t]
      /\ backoff[t] = 0 => next >= period /\ next >= MinBackoff
  BY <1>2, BackoffGrows DEF CollectorInv, CollectorTypes
<1> HIDE DEF next
<1>4. Larger(period - (now - start[t]), 0) \in Nat
  BY <1>2 DEF Larger, CollectorInv, CollectorTypes
<1>5. due'[t] \in Nat /\ (~ok[t] => due'[t] = now + next)
  BY <1>1, <1>3, <1>4 DEF CollectorInv, CollectorTypes
<1>6. \A u \in Driven \ {t} : due'[u] = due[u]
  BY <1>1 DEF CollectorInv, CollectorTypes
<1>7. CollectorTypes'
  <2>1. due' \in [Driven -> Nat]
    BY <1>1, <1>5, <1>6 DEF CollectorInv, CollectorTypes
  <2>2. backoff' \in [Driven -> Nat] /\ asked' \in [Driven -> SUBSET Nat]
    BY <1>1, <1>2, <1>3 DEF CollectorInv, CollectorTypes
  <2> QED
    BY <1>1, <2>1, <2>2 DEF CollectorInv, CollectorTypes
<1>8. Spoken'
  BY <1>1 DEF CollectorInv, CollectorTypes, Spoken
<1>9. Backed'
  <2> SUFFICES ASSUME NEW u \in Driven, backoff'[u] # 0
               PROVE  backoff'[u] >= MinBackoff /\ \E p \in asked'[u] : backoff'[u] >= p
    BY DEF Backed
  <2>1. CASE u # t
    BY <1>1, <2>1 DEF CollectorInv, CollectorTypes, Backed
  <2>2. CASE u = t
    <3>1. ~ok[t] /\ backoff'[t] = next /\ asked'[t] = asked[t] \cup {period}
      BY <1>1, <2>2 DEF CollectorInv, CollectorTypes
    <3>2. CASE backoff[t] = 0
      BY <1>3, <2>2, <3>1, <3>2
    <3>3. CASE backoff[t] # 0
      <4>1. PICK p \in asked[t] : backoff[t] >= p
        BY <3>3 DEF CollectorInv, Backed
      <4>2. p \in Nat /\ backoff[t] >= MinBackoff /\ MinBackoff \in Nat
        BY <3>3, CollectorAssumption DEF CollectorInv, CollectorTypes, Backed
      <4> QED
        BY <1>3, <2>2, <3>1, <4>1, <4>2
    <3> QED
      BY <3>2, <3>3
  <2> QED
    BY <2>1, <2>2
<1>10. Spaced'
  <2> SUFFICES ASSUME NEW u \in Driven, pc'[u] = "wait", ~ok'[u]
               PROVE  backoff'[u] # 0 /\ due'[u] >= start'[u] + backoff'[u]
    BY DEF Spaced
  <2>1. CASE u # t
    BY <1>1, <1>6, <2>1 DEF CollectorInv, CollectorTypes, Spaced
  <2>2. CASE u = t
    <3>1. backoff'[t] = next /\ start'[t] = start[t] /\ start[t] <= now /\ now \in Nat
          /\ start[t] \in Nat /\ ~ok[t]
      BY <1>1, <2>2 DEF CollectorInv, CollectorTypes
    <3> QED
      BY <1>3, <1>5, <2>2, <3>1
  <2> QED
    BY <2>1, <2>2
<1> QED
  BY <1>7, <1>8, <1>9, <1>10 DEF CollectorInv

LEMMA NextKeepsCollectorInv == CollectorInv /\ [Next]_vars => CollectorInv'
<1> SUFFICES ASSUME CollectorInv, [Next]_vars PROVE CollectorInv'
  OBVIOUS
<1> USE DEF CollectorInv, budgetVars, loopVars, statusVars
<1>1. ASSUME NEW works \in BOOLEAN, Identify(works) PROVE CollectorInv'
  BY <1>1 DEF Identify, CollectorTypes, Spoken, Backed, Spaced
<1>2. ASSUME NEW t \in Driven, Begin(t) PROVE CollectorInv'
  <2>1. CollectorTypes'
    <3>1. ok' \in [Driven -> BOOLEAN]
      BY <1>2 DEF Begin, CollectorTypes
    <3>2. pc' \in [Driven -> {"preflight", "begin", "wait", "sample", "cost", "decide", "returned"}]
      BY <1>2 DEF Begin, CollectorTypes
    <3>3. start' \in [Driven -> Nat] /\ \A u \in Driven : start'[u] <= now
      BY <1>2 DEF Begin, CollectorTypes
    <3> QED
      BY <1>2, <3>1, <3>2, <3>3 DEF Begin, CollectorTypes
  <2>2. Spoken'
    BY <1>2 DEF Begin, CollectorTypes, Spoken
  <2>3. Backed'
    BY <1>2 DEF Begin, Backed
  <2>4. Spaced'
    BY <1>2 DEF Begin, CollectorTypes, Spaced
  <2> QED
    BY <2>1, <2>2, <2>3, <2>4
<1>3. ASSUME NEW t \in Driven, Answers(t) \/ Fails(t) PROVE CollectorInv'
  <2>1. /\ pc[t] = "sample" /\ pc' = [pc EXCEPT ![t] = AfterSample(t)]
        /\ AfterSample(t) \in {"cost", "decide"}
        /\ UNCHANGED <<now, ctx, base, level, start, backoff, due, asked>>
    BY <1>3 DEF Answers, Fails, AfterSample
  <2>2. CollectorTypes'
    <3>1. ok' \in [Driven -> BOOLEAN]
      BY <1>3 DEF Answers, Fails, CollectorTypes
    <3> QED
      BY <2>1, <3>1 DEF CollectorTypes
  <2>3. Spoken'
    <3>1. CASE Answers(t)
      BY <2>1, <3>1 DEF Answers, CollectorTypes, Spoken
    <3>2. CASE Fails(t)
      BY <2>1, <3>2 DEF Fails, CollectorTypes, Spoken
    <3> QED
      BY <1>3, <3>1, <3>2
  <2>4. Backed'
    BY <2>1 DEF Backed
  <2>5. Spaced'
    <3>1. \A u \in Driven \ {t} : pc'[u] = pc[u] /\ ok'[u] = ok[u]
      BY <1>3, <2>1 DEF Answers, Fails, CollectorTypes
    <3> QED
      BY <2>1, <3>1 DEF CollectorTypes, Spaced
  <2> QED
    BY <2>2, <2>3, <2>4, <2>5
<1>4. ASSUME NEW t \in Driven, ReadsCost(t) PROVE CollectorInv'
  BY <1>4 DEF ReadsCost, MaxLevel, CollectorTypes, Spoken, Backed, Spaced
<1>5. ASSUME NEW t \in Driven, Returns(t) PROVE CollectorInv'
  BY <1>5 DEF Returns, CollectorTypes, Spoken, Backed, Spaced
<1>6. ASSUME NEW d \in Periods, SetPeriod(d) PROVE CollectorInv'
  BY <1>6 DEF SetPeriod, CollectorTypes, Spoken, Backed, Spaced
<1>7. CASE Cancel \/ Clock
  BY <1>7 DEF Cancel, Clock, CollectorTypes, Spoken, Backed, Spaced
<1>8. CASE UNCHANGED vars
  BY <1>8 DEF vars, CollectorTypes, Spoken, Backed, Spaced
<1> QED
  BY <1>1, <1>2, <1>3, <1>4, <1>5, <1>6, <1>7, <1>8, DecideKeeps DEF Next, Loop

LEMMA CollectorInvAlways == Spec => []CollectorInv
  BY InitEstablishesCollectorInv, NextKeepsCollectorInv, PTL DEF Spec

-----------------------------------------------------------------------------
\* For every set of tiers: what is said of one is what its own last sample said.
THEOREM TiersSpeakForThemselves == Spec => []EachTierSpeaksForItself
<1>1. CollectorInv => EachTierSpeaksForItself
  BY DEF CollectorInv, Spoken, EachTierSpeaksForItself, Waiting
<1> QED
  BY <1>1, CollectorInvAlways, PTL

\* For every change of the periods in between: two attempts of a broken tier
\* are as far apart as the shortest of them.
THEOREM BrokenTiersWait == Spec => RetriesAreSpaced
<1> DEFINE Apart ==
      \A t \in Driven : Waiting(t) /\ ~ok[t] /\ pc'[t] = "sample" =>
        now - start[t] >= Larger(MinBackoff, Min(asked[t]))
<1>1. CollectorInv /\ [Next]_vars => [Apart]_vars
  <2> SUFFICES ASSUME CollectorInv, Next, NEW t \in Driven,
                      pc[t] = "wait", ~ok[t], pc'[t] = "sample"
               PROVE  now - start[t] >= Larger(MinBackoff, Min(asked[t]))
    BY DEF Apart, Waiting
  <2>1. Begin(t)
    <3>1. ASSUME NEW u \in Driven, u # t PROVE ~Loop(u)
      <4>1. DOMAIN pc = Driven
        BY DEF CollectorInv, CollectorTypes
      <4>2. ASSUME NEW place, pc' = [pc EXCEPT ![u] = place] PROVE FALSE
        BY <3>1, <4>1, <4>2
      <4> QED
        BY <4>2 DEF Loop, Begin, Answers, Fails, ReadsCost, Decide, Returns
    <3>2. Loop(t) => Begin(t)
      <4>1. DOMAIN pc = Driven
        BY DEF CollectorInv, CollectorTypes
      <4> QED
        BY <4>1 DEF Loop, Answers, Fails, ReadsCost, Decide, Returns
    <3> QED
      BY <3>1, <3>2 DEF Next, Identify, SetPeriod, Cancel, Clock, loopVars
  <2>2. now >= start[t] + backoff[t] /\ backoff[t] # 0
    BY <2>1 DEF Begin, CollectorInv, CollectorTypes, Spaced
  <2>3. PICK period \in asked[t] : backoff[t] >= period
    BY <2>2 DEF CollectorInv, Backed
  <2>4. Min(asked[t]) <= period /\ Min(asked[t]) \in Nat
    <3>1. asked[t] \in SUBSET Nat
      BY DEF CollectorInv, CollectorTypes
    <3> QED
      BY <2>3, <3>1, LeastPeriod
  <2>5. /\ backoff[t] >= MinBackoff /\ backoff[t] \in Nat /\ start[t] \in Nat
        /\ now \in Nat /\ period \in Nat /\ MinBackoff \in Nat
    BY <2>2, CollectorAssumption DEF CollectorInv, CollectorTypes, Backed
  <2> QED
    BY <2>2, <2>3, <2>4, <2>5 DEF Larger
<1> QED
  BY <1>1, CollectorInvAlways, PTL DEF Spec, RetriesAreSpaced

-----------------------------------------------------------------------------
(* What the loops allow for of the budget.                                 *)

\* The loops are in the way of nothing a budget that keeps its promise may do:
\* when a tier that has read the tool's own cost calls Observe, every move the
\* promise allows is a step of the collector; so is every period the f key may
\* set, whenever it is pressed.
THEOREM LoopsAdmitTheBudget ==
  /\ \A t \in Driven :
       /\ Promise!Move
       /\ pc[t] = "cost" /\ pc' = [pc EXCEPT ![t] = "decide"] /\ costErr' = FALSE
       /\ UNCHANGED <<now, ctx, start, ok, backoff, due, asked, tierErr, identifyErr>>
       => Next
  /\ \A tier \in Driven \cap {"requests"}, d \in Periods :
       /\ Promise!SetBase(tier, d)
       /\ UNCHANGED <<now, ctx, loopVars, statusVars>>
       => Next
<1>1. ASSUME NEW t \in Driven, Promise!Move, pc[t] = "cost",
             pc' = [pc EXCEPT ![t] = "decide"], costErr' = FALSE,
             UNCHANGED <<now, ctx, start, ok, backoff, due, asked, tierErr, identifyErr>>
      PROVE  Next
  <2>1. UNCHANGED base /\ level' \in (level - 1 .. level + 1) \cap 0 .. MaxLevel
    BY <1>1 DEF Promise!Move, MaxLevel, Promise!MaxLevel
  <2>2. ReadsCost(t)
    BY <1>1, <2>1, Zenon DEF ReadsCost
  <2> QED
    BY <2>2 DEF Next, Loop
<1>2. ASSUME NEW tier \in Driven \cap {"requests"}, NEW d \in Periods,
             Promise!SetBase(tier, d), UNCHANGED <<now, ctx, loopVars, statusVars>>
      PROVE  Next
  <2>1. SetPeriod(d)
    BY <1>2, Zenon DEF Promise!SetBase, SetPeriod
  <2> QED
    BY <2>1 DEF Next
<1> QED
  BY <1>1, <1>2, Zenon

-----------------------------------------------------------------------------
(* Types.                                                                  *)

\* The clock stops at its bound, the level stays on the ladder, and a message
\* is of a tier that runs.
Bounds ==
  /\ now <= MaxClock /\ level \in 0 .. MaxLevel
  /\ tierErr \subseteq Driven
  /\ identifyErr \in BOOLEAN /\ costErr \in BOOLEAN

LEMMA BoundsHold == CollectorInv /\ Bounds /\ [Next]_vars => Bounds'
<1> SUFFICES ASSUME CollectorInv, Bounds, [Next]_vars PROVE Bounds'
  OBVIOUS
<1> USE DEF Bounds, budgetVars, statusVars
<1>1. ASSUME NEW works \in BOOLEAN, Identify(works) PROVE Bounds'
  BY Zenon, <1>1 DEF Identify
<1>2. ASSUME NEW t \in Driven, Begin(t) \/ Decide(t) \/ Returns(t) PROVE Bounds'
  BY Zenon, <1>2 DEF Begin, Decide, Returns
<1>3. ASSUME NEW t \in Driven, Answers(t) \/ Fails(t) PROVE Bounds'
  BY Zenon, <1>3 DEF Answers, Fails
<1>4. ASSUME NEW t \in Driven, ReadsCost(t) PROVE Bounds'
  BY Zenon, <1>4 DEF ReadsCost
<1>5. CASE (\E d \in Periods : SetPeriod(d)) \/ Cancel
  BY Zenon, <1>5 DEF SetPeriod, Cancel
<1>6. CASE Clock
  <2>1. now' = now + 1 /\ now < MaxClock /\ now \in Nat /\ MaxClock \in Nat
    BY <1>6, CollectorAssumption DEF Clock, CollectorInv, CollectorTypes
  <2>2. now' <= MaxClock
    BY ONLY <2>1
  <2> QED
    BY Zenon, <1>6, <2>2 DEF Clock
<1>7. CASE UNCHANGED vars
  BY Zenon, <1>7 DEF vars
<1> QED
  BY <1>1, <1>2, <1>3, <1>4, <1>5, <1>6, <1>7 DEF Next, Loop

\* Every variable of the loops and of what they share keeps its type.
THEOREM TypeCorrect == Spec => []TypeOK
<1>1. Init => Bounds
  <2>1. 0 <= MaxClock /\ 0 \in 0 .. MaxLevel
    BY CollectorAssumption DEF MaxLevel
  <2> QED
    BY Zenon, <2>1 DEF Init, Bounds
<1>2. CollectorInv /\ Bounds => TypeOK
  <2> SUFFICES ASSUME CollectorInv, Bounds PROVE TypeOK
    OBVIOUS
  <2>1. now \in 0 .. MaxClock
    BY CollectorAssumption DEF CollectorInv, CollectorTypes, Bounds
  <2>2. start \in [Driven -> 0 .. MaxClock]
    <3>1. \A t \in Driven : start[t] \in 0 .. MaxClock
      BY CollectorAssumption DEF CollectorInv, CollectorTypes, Bounds
    <3> QED
      BY <3>1 DEF CollectorInv, CollectorTypes
  <2> QED
    BY Zenon, <2>1, <2>2 DEF CollectorInv, CollectorTypes, Bounds, TypeOK
<1> QED
  BY <1>1, <1>2, BoundsHold, CollectorInvAlways, PTL DEF Spec

=============================================================================
