--------------------------- MODULE Samples_proofs ---------------------------
(***************************************************************************)
(* What is made of the samples, for every value of the constants.          *)
(*                                                                         *)
(* The figures of ServerFigures.tla: whatever the readings have rows for,  *)
(* however often a query fails or the server restarts, a rate is the       *)
(* difference of the two readings it is shown for.                         *)
(*                                                                         *)
(* The retention window of Window.tla: whatever the samples hold, eviction *)
(* keeps all that its bounds allow, and the queries view counts no         *)
(* execution twice, and every one where they come one by one.              *)
(*                                                                         *)
(* The layout of Blocking.tla: whatever blocks what in a sample, every row *)
(* is laid out once, under a row of the session that blocks it.            *)
(***************************************************************************)
EXTENDS Window, ServerFigures, FiniteSetTheorems, WellFoundedInduction, TLAPS

-----------------------------------------------------------------------------
(* The figures of the dashboard.                                           *)

\* The reading kept is the last one made, and while the server runs on, no
\* counter is below it.
ReadingKept ==
  /\ prev = None <=> is = None
  /\ is # None =>
       /\ is.rows = prev /\ is.at = prevAt
       /\ is.epoch \in Nat /\ is.epoch <= epoch
       /\ prevAt \in Nat /\ DOMAIN prev \subseteq Counters
       /\ \A k \in DOMAIN prev :
            prev[k] \in Nat /\ (is.epoch = epoch => prev[k] <= counters[k])

FiguresInv ==
  /\ clock \in Nat /\ epoch \in Nat /\ counters \in [Counters -> Nat]
  /\ pc \in [Tiers -> {"idle", "stamped", "applied"}] /\ at \in [Tiers -> Nat]
  /\ ReadingKept
  /\ pc["counters"] = "applied" => AreOf(draft, was, is)
  /\ RateIsTrue

LEMMA FiguresInit == Init => FiguresInv
  BY DEF Init, FiguresInv, ReadingKept, RateIsTrue, Tiers

\* What apply makes of a reading and the one before is of those two.
LEMMA FiguresAreOfBoth ==
  ASSUME FiguresInv, NEW keys \in SUBSET Counters, NEW when \in Nat
  PROVE  LET rows == Restrict(counters, keys)
         IN  AreOf(Figures(rows, when), is, [at |-> when, rows |-> rows, epoch |-> epoch])
<1> DEFINE rows == Restrict(counters, keys)
           reading == [at |-> when, rows |-> rows, epoch |-> epoch]
           both == IF is = None THEN {} ELSE DOMAIN is.rows \cap DOMAIN reading.rows
           grown == IF prev = None THEN {} ELSE Grown(rows)
           Gain(k) == reading.rows[k] - is.rows[k]
<1>1. DOMAIN rows = keys /\ \A k \in keys : rows[k] = counters[k] /\ rows[k] \in Nat
  BY DEF Restrict, FiguresInv
<1>2. /\ reading.rows = rows /\ reading.at = when /\ reading.epoch = epoch
  OBVIOUS
<1> HIDE DEF rows, reading
<1>3. \A k \in both :
        /\ is # None /\ prev # None /\ k \in keys /\ k \in DOMAIN prev
        /\ prev[k] \in Nat /\ rows[k] \in Nat
        /\ Gain(k) = rows[k] - prev[k] /\ (k \in grown <=> Gain(k) >= 0)
        /\ epoch = is.epoch => Gain(k) >= 0
  <2> SUFFICES ASSUME NEW k \in both
               PROVE  /\ is # None /\ prev # None /\ k \in keys /\ k \in DOMAIN prev
                      /\ prev[k] \in Nat /\ rows[k] \in Nat
                      /\ Gain(k) = rows[k] - prev[k] /\ (k \in grown <=> Gain(k) >= 0)
                      /\ epoch = is.epoch => Gain(k) >= 0
    OBVIOUS
  <2>1. is # None /\ prev # None /\ is.rows = prev
    BY DEF FiguresInv, ReadingKept
  <2>2. k \in keys /\ k \in DOMAIN prev
    BY <1>1, <1>2, <2>1
  <2>3. /\ prev[k] \in Nat /\ rows[k] \in Nat /\ rows[k] = counters[k]
        /\ epoch = is.epoch => prev[k] <= counters[k]
    BY <1>1, <2>1, <2>2 DEF FiguresInv, ReadingKept
  <2>4. Gain(k) = rows[k] - prev[k]
    BY <1>2, <2>1
  <2>5. k \in grown <=> rows[k] >= prev[k]
    BY <1>1, <2>1, <2>2 DEF Grown
  <2> QED
    BY <2>1, <2>2, <2>3, <2>4, <2>5
<1>4. \A k : k \notin both => k \notin grown
  <2>1. prev # None => is # None /\ is.rows = prev
    BY DEF FiguresInv, ReadingKept
  <2> QED
    BY <1>1, <1>2, <2>1 DEF Grown
<1>5. is # None => is.at = prevAt /\ prevAt \in Nat
  BY DEF FiguresInv, ReadingKept
<1> DEFINE shown == Figures(rows, when)
<1>6. \A k \in PerSecond :
        shown.rate[k] = IF k \in grown /\ when > prevAt
                        THEN [num |-> rows[k] - prev[k], over |-> when - prevAt] ELSE None
  BY DEF Figures
<1>7. \A k \in DOMAIN BaseOf :
        shown.ratio[k] = IF {k, BaseOf[k]} \subseteq grown /\ rows[BaseOf[k]] - prev[BaseOf[k]] > 0
                         THEN [num |-> rows[k] - prev[k],
                               over |-> rows[BaseOf[k]] - prev[BaseOf[k]]]
                         ELSE None
  BY DEF Figures
<1> HIDE DEF shown, grown, both, Gain
<1>8. ASSUME NEW k \in PerSecond
      PROVE  IF k \notin both \/ when <= is.at THEN shown.rate[k] = None
             ELSE /\ epoch = is.epoch =>
                       shown.rate[k] = [num |-> Gain(k), over |-> when - is.at]
                  /\ Gain(k) < 0 => shown.rate[k] = None
  <2>1. CASE k \notin both
    BY <1>4, <1>6, <2>1
  <2>2. CASE k \in both /\ when <= is.at
    <3>1. ~(when > prevAt)
      BY <1>3, <1>5, <2>2
    <3> QED
      BY <1>6, <2>2, <3>1
  <2>3. CASE k \in both /\ ~(when <= is.at)
    <3>1. is.at = prevAt /\ when > prevAt
      BY <1>3, <1>5, <2>3
    <3>2. /\ Gain(k) = rows[k] - prev[k] /\ (k \in grown <=> Gain(k) >= 0) /\ Gain(k) \in Int
          /\ epoch = is.epoch => Gain(k) >= 0
      BY <1>3, <2>3
    <3>3. epoch = is.epoch => shown.rate[k] = [num |-> Gain(k), over |-> when - is.at]
      BY <1>6, <3>1, <3>2
    <3>4. Gain(k) < 0 => k \notin grown
      BY <3>2
    <3>5. Gain(k) < 0 => shown.rate[k] = None
      BY <1>6, <3>4
    <3> QED
      BY <2>3, <3>3, <3>5
  <2> QED
    BY <2>1, <2>2, <2>3
<1>9. ASSUME NEW k \in DOMAIN BaseOf
      PROVE  IF ~({k, BaseOf[k]} \subseteq both) \/ Gain(BaseOf[k]) <= 0 \/ Gain(k) < 0
             THEN shown.ratio[k] = None
             ELSE shown.ratio[k] = [num |-> Gain(k), over |-> Gain(BaseOf[k])]
  <2> DEFINE b == BaseOf[k]
  <2>1. shown.ratio[k] = IF {k, b} \subseteq grown /\ rows[b] - prev[b] > 0
                         THEN [num |-> rows[k] - prev[k], over |-> rows[b] - prev[b]]
                         ELSE None
    BY <1>7
  <2> HIDE DEF b
  <2>2. CASE ~({k, b} \subseteq both)
    <3>1. ~({k, b} \subseteq grown)
      BY <1>4, <2>2
    <3> QED
      BY <2>1, <2>2, <3>1 DEF b
  <2>3. CASE {k, b} \subseteq both
    <3>1. /\ Gain(k) = rows[k] - prev[k] /\ (k \in grown <=> Gain(k) >= 0) /\ Gain(k) \in Int
          /\ Gain(b) = rows[b] - prev[b] /\ (b \in grown <=> Gain(b) >= 0) /\ Gain(b) \in Int
      BY <1>3, <2>3
    <3>2. CASE Gain(b) <= 0 \/ Gain(k) < 0
      <4>1. ~({k, b} \subseteq grown) \/ ~(rows[b] - prev[b] > 0)
        BY <3>1, <3>2
      <4> QED
        BY <2>1, <3>2, <4>1 DEF b
    <3>3. CASE ~(Gain(b) <= 0) /\ ~(Gain(k) < 0)
      <4>1. {k, b} \subseteq grown /\ rows[b] - prev[b] > 0
        BY <3>1, <3>3
      <4> QED
        BY <2>1, <2>3, <3>1, <3>3, <4>1 DEF b
    <3> QED
      BY <3>2, <3>3
  <2> QED
    BY <2>2, <2>3
<1>10. AreOf(shown, is, reading)
  BY <1>2, <1>8, <1>9 DEF AreOf, both, Gain
<1> QED
  BY <1>10 DEF shown, reading, rows

LEMMA FiguresStep == FiguresInv /\ [Next]_vars => FiguresInv'
<1> SUFFICES ASSUME FiguresInv, [Next]_vars PROVE FiguresInv'
  OBVIOUS
<1>1. ASSUME UNCHANGED <<clock, epoch, counters, at>>, UNCHANGED counterVars,
             pc' \in [Tiers -> {"idle", "stamped", "applied"}],
             pc'["counters"] = "applied" => pc["counters"] = "applied"
      PROVE  FiguresInv'
  BY <1>1 DEF FiguresInv, ReadingKept, RateIsTrue, AreOf, counterVars
<1>2. ASSUME NEW t \in Tiers, Stamp(t) PROVE FiguresInv'
  <2>1. /\ pc[t] = "idle" /\ pc' = [pc EXCEPT ![t] = "stamped"]
        /\ at' = [at EXCEPT ![t] = clock]
        /\ UNCHANGED <<clock, epoch, counters>> /\ UNCHANGED counterVars
    BY <1>2 DEF Stamp, serverVars
  <2>2. pc'["counters"] = "applied" => pc["counters"] = "applied"
    BY <2>1 DEF FiguresInv, Tiers
  <2>3. at' \in [Tiers -> Nat] /\ pc' \in [Tiers -> {"idle", "stamped", "applied"}]
    BY <2>1 DEF FiguresInv
  <2> QED
    BY <2>1, <2>2, <2>3 DEF FiguresInv, ReadingKept, RateIsTrue, AreOf, counterVars
<1>3. CASE ReadCounters
  <2> DEFINE when == at["counters"]
  <2>1. PICK keys \in Readings \cup {{}} :
          Apply(Restrict(counters, keys),
                [at |-> when, rows |-> Restrict(counters, keys), epoch |-> epoch])
    BY <1>3 DEF ReadCounters
  <2> DEFINE rows == Restrict(counters, keys)
             reading == [at |-> when, rows |-> rows, epoch |-> epoch]
  <2>2. /\ keys \in SUBSET Counters /\ when \in Nat
        /\ clock \in Nat /\ epoch \in Nat /\ counters \in [Counters -> Nat]
    BY FiguresAssumption DEF FiguresInv, Tiers
  <2>3. /\ draft' = Figures(rows, when) /\ prev' = rows /\ prevAt' = when
        /\ was' = is /\ is' = reading
        /\ pc' = [pc EXCEPT !["counters"] = "applied"]
        /\ UNCHANGED <<clock, epoch, counters, at, figures, of>>
    BY <1>3, <2>1 DEF ReadCounters, Apply, Kept, To, serverVars
  <2>4. rows \in [keys -> Nat] /\ \A k \in keys : rows[k] = counters[k] /\ rows[k] \in Nat
    BY <2>2 DEF Restrict
  <2>5. rows # None /\ reading # None
    <3> HIDE DEF rows, when
    <3>1. reading \in [at : Nat, rows : [keys -> Nat], epoch : Nat]
      BY <2>2, <2>4
    <3> QED
      BY <2>4, <3>1, FiguresAssumption
  <2>6. AreOf(Figures(rows, when), is, reading)
    BY <2>2, FiguresAreOfBoth
  <2>7. AreOf(draft', was', is')
    <3> HIDE DEF rows, reading
    <3> QED
      BY <2>3, <2>6
  <2>8. /\ reading.rows = rows /\ reading.at = when /\ reading.epoch = epoch
        /\ DOMAIN rows = keys
    BY <2>4
  <2> HIDE DEF rows, reading, when
  <2>9. ReadingKept'
    BY <2>2, <2>3, <2>4, <2>5, <2>8 DEF ReadingKept
  <2>10. RateIsTrue'
    BY <2>3 DEF FiguresInv, RateIsTrue, AreOf
  <2>11. AreOf(draft, was, is)'
    BY <2>7 DEF AreOf
  <2>12. pc' \in [Tiers -> {"idle", "stamped", "applied"}] /\ at' \in [Tiers -> Nat]
    BY <2>3 DEF FiguresInv
  <2> QED
    BY <2>2, <2>3, <2>9, <2>10, <2>11, <2>12 DEF FiguresInv
<1>4. CASE ReadOSViews
  <2>1. /\ pc["counters"] = "applied" /\ figures' = draft
        /\ of' = [was |-> was, is |-> is] /\ pc' = [pc EXCEPT !["counters"] = "idle"]
        /\ UNCHANGED <<clock, epoch, counters, at, prev, prevAt, was, is>>
    BY <1>4 DEF ReadOSViews, To, serverVars
  <2>2. AreOf(draft, was, is)
    BY <2>1 DEF FiguresInv
  <2>3. figures' = draft /\ of'.was = was /\ of'.is = is
    BY <2>1
  <2>4. RateIsTrue'
    BY <2>2, <2>3 DEF RateIsTrue, AreOf
  <2>5. pc'["counters"] = "idle" /\ pc' \in [Tiers -> {"idle", "stamped", "applied"}]
    BY <2>1 DEF FiguresInv, Tiers
  <2> QED
    BY <2>1, <2>4, <2>5 DEF FiguresInv, ReadingKept
<1>5. CASE Breaks
  <2>1. /\ pc' = [pc EXCEPT !["counters"] = "idle"]
        /\ UNCHANGED <<clock, epoch, counters, at, prev, prevAt, figures, was, is, of>>
    BY <1>5 DEF Breaks, To, serverVars
  <2>2. pc'["counters"] = "idle" /\ pc' \in [Tiers -> {"idle", "stamped", "applied"}]
    BY <2>1 DEF FiguresInv, Tiers
  <2> QED
    BY <2>1, <2>2 DEF FiguresInv, ReadingKept, RateIsTrue, AreOf
<1>6. CASE ReadSpace \/ SpaceBreaks
  <2>1. /\ pc' = [pc EXCEPT !["space"] = "idle"]
        /\ UNCHANGED <<clock, epoch, counters, at>> /\ UNCHANGED counterVars
    BY <1>6 DEF ReadSpace, SpaceBreaks, To, serverVars
  <2>2. /\ pc' \in [Tiers -> {"idle", "stamped", "applied"}]
        /\ pc'["counters"] = "applied" => pc["counters"] = "applied"
    BY <2>1 DEF FiguresInv, Tiers
  <2> QED
    BY <1>1, <2>1, <2>2
<1>7. CASE Work
  <2>1. /\ clock' = clock + 1 /\ counters' \in [Counters -> 0 .. MaxClock]
        /\ \A k \in Counters : counters'[k] \in {counters[k], counters[k] + 1}
        /\ UNCHANGED <<epoch, pc, at>> /\ UNCHANGED counterVars
    BY <1>7 DEF Work
  <2>2. \A k \in Counters : counters'[k] \in Nat /\ counters[k] \in Nat /\ counters[k] <= counters'[k]
    BY <2>1 DEF FiguresInv
  <2>3. clock' \in Nat /\ counters' \in [Counters -> Nat]
    BY <2>1, <2>2 DEF FiguresInv
  <2>4. ReadingKept'
    BY <2>1, <2>2 DEF FiguresInv, ReadingKept, counterVars
  <2> QED
    BY <2>1, <2>3, <2>4 DEF FiguresInv, RateIsTrue, AreOf, counterVars
<1>8. CASE Restart
  <2>1. /\ epoch' = epoch + 1 /\ counters' = [k \in Counters |-> 0]
        /\ UNCHANGED <<clock, pc, at>> /\ UNCHANGED counterVars
    BY <1>8 DEF Restart
  <2>2. epoch' \in Nat /\ counters' \in [Counters -> Nat]
    BY <2>1 DEF FiguresInv
  <2>3. ReadingKept'
    BY <2>1 DEF FiguresInv, ReadingKept, counterVars
  <2> QED
    BY <2>1, <2>2, <2>3 DEF FiguresInv, RateIsTrue, AreOf, counterVars
<1>9. CASE UNCHANGED vars
  BY <1>1, <1>9 DEF vars, serverVars, FiguresInv
<1> QED
  BY <1>2, <1>3, <1>4, <1>5, <1>6, <1>7, <1>8, <1>9 DEF Next

\* The figures shown are of two readings that followed each other, each the
\* difference of its own counter or none at all (counterState.apply,
\* SampleServer).
THEOREM RatesAreTrue == Spec => []RateIsTrue
<1>1. FiguresInv => RateIsTrue
  BY DEF FiguresInv
<1> QED
  BY <1>1, FiguresInit, FiguresStep, PTL DEF Spec

-----------------------------------------------------------------------------
\* The size kept is the last one read, whatever failed since.
GrowthInv ==
  /\ vprev # None => vof.is = [at |-> vprevAt, size |-> vprev]
  /\ GrowthIsTrue

\* The version store's growth is that of the last two sizes read, over the
\* time between them (rateState.rate, readSpace).
THEOREM GrowthIsOfTheLastTwo == Spec => []GrowthIsTrue
<1>1. Init => GrowthInv
  BY DEF Init, GrowthInv, GrowthIsTrue
<1>2. GrowthInv /\ [Next]_vars => GrowthInv'
  <2> SUFFICES ASSUME GrowthInv, [Next]_vars PROVE GrowthInv'
    OBVIOUS
  <2>1. CASE ReadSpace
    <3>1. CASE Growth(store, at["space"]) /\ vof' = [was |-> vof.is,
                 is |-> [at |-> at["space"], size |-> store]]
      <4>1. /\ vprev' = store /\ vprevAt' = at["space"]
            /\ vof'.was = vof.is /\ vof'.is = [at |-> at["space"], size |-> store]
        BY <3>1 DEF Growth
      <4>2. growth' # None =>
              /\ vprev # None
              /\ growth' = [num |-> store - vprev, over |-> at["space"] - vprevAt]
        BY <3>1 DEF Growth
      <4>3. growth' # None => vof'.was = [at |-> vprevAt, size |-> vprev]
        BY <4>1, <4>2 DEF GrowthInv
      <4>4. growth' # None =>
              /\ vof'.was.at = vprevAt /\ vof'.was.size = vprev
              /\ vof'.is.at = at["space"] /\ vof'.is.size = store
        BY <4>1, <4>3
      <4>5. GrowthIsTrue'
        BY <4>2, <4>4 DEF GrowthIsTrue
      <4> QED
        BY <4>1, <4>5 DEF GrowthInv
    <3>2. CASE growth' = None /\ UNCHANGED <<vprev, vprevAt, vof>>
      BY <3>2 DEF GrowthInv, GrowthIsTrue
    <3> QED
      BY <2>1, <3>1, <3>2 DEF ReadSpace
  <2>2. ASSUME UNCHANGED spaceVars PROVE GrowthInv'
    BY <2>2 DEF GrowthInv, GrowthIsTrue, spaceVars
  <2> QED
    BY <2>1, <2>2 DEF Next, Stamp, ReadCounters, ReadOSViews, Breaks, SpaceBreaks, Work, Restart, vars
<1>3. GrowthInv => GrowthIsTrue
  BY DEF GrowthInv
<1> QED
  BY <1>1, <1>2, <1>3, PTL DEF Spec

-----------------------------------------------------------------------------
(* The retention window.                                                   *)

\* A set of naturals that is not empty has a least one, and Min finds it.
LEMMA LeastOf ==
  ASSUME NEW S \in SUBSET Nat, S # {}
  PROVE  Min(S) \in S /\ \A i \in S : Min(S) <= i
<1>1. PICK least \in S : \A i \in S : ~(<<i, least>> \in OpToRel(<, Nat))
  BY NatLessThanWellFounded, WFMin
<1>2. ASSUME NEW i \in S PROVE least <= i
  <2>1. ~(<<i, least>> \in OpToRel(<, Nat)) /\ <<i, least>> \in Nat \X Nat
    BY <1>1
  <2>2. <<i, least>>[1] = i /\ <<i, least>>[2] = least
    OBVIOUS
  <2>3. ~(i < least)
    BY <2>1, <2>2 DEF OpToRel
  <2> QED
    BY <2>3
<1> QED
  BY <1>2 DEF Min

\* What holds at a natural if it holds below it holds at all of an interval.
LEMMA NoneIsFirst ==
  ASSUME NEW n \in Nat, NEW S \in SUBSET (0 .. n),
         \A i \in S : \E j \in S : j < i
  PROVE  S = {}
<1> SUFFICES ASSUME S # {} PROVE FALSE
  OBVIOUS
<1>1. S \in SUBSET Nat
  OBVIOUS
<1>2. Min(S) \in S /\ \A i \in S : Min(S) <= i
  BY <1>1, LeastOf
<1>3. PICK j \in S : j < Min(S)
  BY <1>2
<1>4. Min(S) <= j /\ j \in Nat /\ Min(S) \in Nat
  BY <1>1, <1>2
<1> QED
  BY <1>3, <1>4

\* The running sums of some sizes are what their definition says.
LEMMA UptoIs ==
  ASSUME NEW sizes \in Seq(Nat)
  PROVE  /\ Upto(sizes) \in [0 .. Len(sizes) -> Nat]
         /\ Upto(sizes)[0] = 0
         /\ \A i \in 1 .. Len(sizes) : Upto(sizes)[i] = Upto(sizes)[i - 1] + sizes[i]
<1> DEFINE n == Len(sizes)
           Sums(f, m) == /\ f \in [0 .. m -> Nat] /\ f[0] = 0
                         /\ \A i \in 1 .. m : f[i] = f[i - 1] + sizes[i]
           none == {m \in 0 .. n : \A f : ~Sums(f, m)}
<1>1. n \in Nat /\ \A i \in 1 .. n : sizes[i] \in Nat
  OBVIOUS
<1> HIDE DEF n
<1>2. none = {}
  <2>1. ASSUME NEW m \in none PROVE \E j \in none : j < m
    <3>1. CASE m = 0
      <4>1. Sums([i \in 0 .. 0 |-> 0], 0)
        OBVIOUS
      <4> QED
        BY <4>1, <3>1
    <3>2. CASE m # 0
      <4>1. m \in Nat /\ m - 1 \in 0 .. n /\ m \in 1 .. n /\ m - 1 < m
        BY <1>1, <3>2
      <4> SUFFICES ASSUME m - 1 \notin none PROVE FALSE
        BY <4>1
      <4>2. PICK f : Sums(f, m - 1)
        BY <4>1
      <4> DEFINE g == [i \in 0 .. m |-> IF i = m THEN f[m - 1] + sizes[m] ELSE f[i]]
      <4>3. g \in [0 .. m -> Nat]
        BY <4>1, <4>2, <1>1
      <4>4. g[0] = 0
        BY <4>1, <4>2, <3>2
      <4>5. ASSUME NEW i \in 1 .. m PROVE g[i] = g[i - 1] + sizes[i]
        <5>1. CASE i = m
          BY <5>1, <4>1
        <5>2. CASE i # m
          <6>1. i \in 1 .. m - 1 /\ i \in 0 .. m /\ i - 1 \in 0 .. m /\ i - 1 # m
            BY <5>2, <4>1
          <6> QED
            BY <6>1, <4>2, <5>2
        <5> QED
          BY <5>1, <5>2
      <4>6. Sums(g, m)
        BY <4>3, <4>4, <4>5
      <4> QED
        BY <4>6
    <3> QED
      BY <3>1, <3>2
  <2> HIDE DEF none
  <2>2. none \in SUBSET (0 .. n)
    BY DEF none
  <2> QED
    BY <2>1, <2>2, <1>1, NoneIsFirst
<1>3. PICK f : Sums(f, n)
  <2>1. n \in 0 .. n
    BY <1>1
  <2>2. n \notin none
    BY ONLY <1>2
  <2> HIDE DEF Sums
  <2> QED
    BY <2>1, <2>2
<1> DEFINE Eq(g) == g = [i \in 0 .. n |-> IF i = 0 THEN 0 ELSE g[i - 1] + sizes[i]]
           u == CHOOSE g : Eq(g)
<1>4. Eq(f)
  <2>1. ASSUME NEW i \in 0 .. n
        PROVE  f[i] = IF i = 0 THEN 0 ELSE f[i - 1] + sizes[i]
    BY <1>1, <1>3
  <2> QED
    BY <1>3, <2>1
<1>5. Eq(u)
  <2> HIDE DEF Eq
  <2> QED
    BY <1>4
<1>6. Upto(sizes) = u
  BY DEF Upto, n
<1> HIDE DEF u
<1>7. u[0] = 0 /\ \A i \in 1 .. n : u[i] = u[i - 1] + sizes[i]
  <2>1. \A i \in 0 .. n : u[i] = IF i = 0 THEN 0 ELSE u[i - 1] + sizes[i]
    BY <1>5
  <2>2. 0 \in 0 .. n /\ \A i \in 1 .. n : i \in 0 .. n /\ i # 0
    BY <1>1
  <2> QED
    BY <2>1, <2>2
<1> DEFINE odd == {i \in 0 .. n : u[i] \notin Nat}
<1>8. odd = {}
  <2>1. ASSUME NEW i \in odd PROVE \E j \in odd : j < i
    <3>1. i # 0
      BY <1>7
    <3>2. i \in 1 .. n /\ i - 1 \in 0 .. n /\ i - 1 < i
      BY <3>1, <1>1
    <3>3. u[i] = u[i - 1] + sizes[i] /\ sizes[i] \in Nat /\ u[i] \notin Nat
      BY <3>2, <1>7, <1>1
    <3>4. u[i - 1] \notin Nat
      BY <3>3
    <3> QED
      BY <3>2, <3>4
  <2> HIDE DEF odd
  <2>2. odd \in SUBSET (0 .. n)
    BY DEF odd
  <2> QED
    BY <2>1, <2>2, <1>1, NoneIsFirst
<1>9. u \in [0 .. n -> Nat]
  BY <1>5, <1>8
<1> QED
  BY <1>6, <1>7, <1>9 DEF n

\* A running sum does not go down.
LEMMA UptoGrows ==
  ASSUME NEW sizes \in Seq(Nat), NEW i \in 0 .. Len(sizes)
  PROVE  \A j \in i .. Len(sizes) : Upto(sizes)[i] <= Upto(sizes)[j]
<1> DEFINE n == Len(sizes)
           u == Upto(sizes)
           less == {j \in i .. n : ~(u[i] <= u[j])}
<1>1. /\ n \in Nat /\ u \in [0 .. n -> Nat]
      /\ \A j \in 1 .. n : u[j] = u[j - 1] + sizes[j] /\ sizes[j] \in Nat
  BY UptoIs
<1> HIDE DEF n, u
<1>2. ASSUME NEW j \in less PROVE \E k \in less : k < j
  <2>1. i \in 0 .. n
    BY DEF n
  <2>2. j # i
    BY <1>1, <2>1
  <2>3. j \in 1 .. n /\ j - 1 \in i .. n /\ j - 1 < j /\ j - 1 \in 0 .. n
    BY <2>1, <2>2, <1>1
  <2>4. u[j] = u[j - 1] + sizes[j] /\ sizes[j] \in Nat /\ u[j - 1] \in Nat /\ u[i] \in Nat
    BY <2>1, <2>3, <1>1
  <2>5. ~(u[i] <= u[j - 1])
    BY <2>4
  <2> QED
    BY <2>3, <2>5
<1>3. less \in SUBSET (0 .. n)
  BY <1>1 DEF n
<1> HIDE DEF less
<1>4. less = {}
  BY <1>1, <1>2, <1>3, NoneIsFirst
<1> QED
  BY <1>4 DEF less, n, u

\* The running sums of a stretch are those of the whole, less what is before it.
LEMMA UptoOfStretch ==
  ASSUME NEW whole \in Seq(Nat), NEW part \in Seq(Nat), NEW d \in Nat,
         d + Len(part) <= Len(whole),
         \A q \in 1 .. Len(part) : part[q] = whole[d + q]
  PROVE  \A q \in 0 .. Len(part) : Upto(part)[q] = Upto(whole)[d + q] - Upto(whole)[d]
<1> DEFINE n == Len(part)
           m == Len(whole)
           t == Upto(part)
           u == Upto(whole)
           off == {q \in 0 .. n : t[q] # u[d + q] - u[d]}
<1>1. /\ n \in Nat /\ t \in [0 .. n -> Nat] /\ t[0] = 0
      /\ \A q \in 1 .. n : t[q] = t[q - 1] + part[q] /\ part[q] \in Nat
  BY UptoIs
<1>2. /\ m \in Nat /\ u \in [0 .. m -> Nat]
      /\ \A q \in 1 .. m : u[q] = u[q - 1] + whole[q] /\ whole[q] \in Nat
  BY UptoIs
<1>3. d + n <= m /\ \A q \in 1 .. n : part[q] = whole[d + q]
  OBVIOUS
<1> HIDE DEF n, m, t, u
<1>4. ASSUME NEW q \in off PROVE \E k \in off : k < q
  <2>1. q # 0
    BY <1>1, <1>2, <1>3
  <2>2. /\ q \in 1 .. n /\ q - 1 \in 0 .. n /\ q - 1 < q
        /\ d + q \in 1 .. m /\ (d + q) - 1 = d + (q - 1) /\ d + (q - 1) \in 0 .. m /\ d \in 0 .. m
    BY <2>1, <1>1, <1>2, <1>3
  <2>3. /\ t[q] = t[q - 1] + part[q] /\ u[d + q] = u[d + (q - 1)] + whole[d + q]
        /\ part[q] = whole[d + q] /\ part[q] \in Nat
        /\ t[q - 1] \in Nat /\ u[d + (q - 1)] \in Nat /\ u[d] \in Nat
    BY <2>2, <1>1, <1>2, <1>3
  <2>4. t[q] # u[d + q] - u[d]
    OBVIOUS
  <2>5. t[q - 1] # u[d + (q - 1)] - u[d]
    BY ONLY <2>3, <2>4
  <2> QED
    BY <2>2, <2>5
<1>5. off \in SUBSET (0 .. n)
  OBVIOUS
<1> HIDE DEF off
<1>6. off = {}
  BY <1>1, <1>4, <1>5, NoneIsFirst
<1> QED
  BY <1>6 DEF off, n, t, u

\* How many ticks of the past the window has let go of, and what the first
\* ticks of the past had in all.
Gone == Len(all) - Len(ticks)

Past == Upto(SizesOf(all))

KeptTypes ==
  /\ all \in Seq(Records)
  /\ ticks \in Seq(Ticks)
  /\ \A i \in DOMAIN ticks : Size(ticks[i]) \in Nat

\* The clock has gone on from every tick to the next.
ClockGoesOn == \A i, j \in DOMAIN all : i < j => all[i].at < all[j].at

\* The window is the past without its oldest ticks, and the count is right.
IsTheRest ==
  /\ Gone \in Nat
  /\ \A q \in DOMAIN ticks : all[Gone + q] = [at |-> ticks[q].at, size |-> Size(ticks[q])]
  /\ samples = Past[Len(all)] - Past[Gone]

\* What is kept is inside both bounds; what is gone was outside one of them, and
\* is for good.
GoneForGood ==
  /\ samples <= MaxSamples
  /\ \A q \in DOMAIN ticks : ticks[q].at >= Now - Retention
  /\ \A i \in 1 .. Gone :
       \/ all[i].at < Now - Retention
       \/ Past[Len(all)] - Past[i - 1] > MaxSamples

KeptInv == KeptTypes /\ ClockGoesOn /\ IsTheRest /\ GoneForGood

LEMMA KeptInit == WindowInit => KeptInv
<1> SUFFICES ASSUME WindowInit PROVE KeptInv
  OBVIOUS
<1>1. all = <<>> /\ ticks = <<>> /\ samples = 0
  BY DEF WindowInit
<1>2. Len(all) = 0 /\ Len(ticks) = 0 /\ DOMAIN all = {} /\ DOMAIN ticks = {} /\ Gone = 0
  BY <1>1 DEF Gone
<1>3. SizesOf(all) \in Seq(Nat) /\ Len(SizesOf(all)) = 0
  BY <1>1 DEF SizesOf
<1>4. Past[0] = 0
  BY <1>3, UptoIs DEF Past
<1>5. KeptTypes
  BY <1>1, <1>2 DEF KeptTypes
<1> QED
  BY <1>1, <1>2, <1>4, <1>5, WindowAssumption
     DEF KeptInv, ClockGoesOn, IsTheRest, GoneForGood

LEMMA KeptStutters ==
  ASSUME KeptInv, UNCHANGED windowVars
  PROVE  KeptInv'
BY DEF KeptInv, KeptTypes, ClockGoesOn, IsTheRest, GoneForGood, Gone, Past, Now, windowVars

\* An execution of an instant is one of the last sample's, or has begun since: in
\* a request that came before it, which the last sample may have seen.
Follows(r, when) ==
  \/ r \in Range(Latest)
  \/ /\ r.began > LastLook /\ r.began <= when
     /\ r.asked <= r.began \/ \E old \in Range(Latest) : r.asked = old.asked

LEMMA SampledIs ==
  ASSUME ticks \in Seq(Ticks), NEW when \in Nat, LastLook \in Nat, NEW most \in Nat,
         NEW rows \in Sampled(when, most)
  PROVE  rows \in Seq(Rows) /\ \A r \in Range(rows) : Follows(r, when)
<1> DEFINE since == LastLook + 1 .. when
           begun == {r \in [spid  : Sessions,
                            shape : Statements,
                            asked : since \cup {old.asked : old \in Range(Latest)},
                            began : since] :
                       \/ r.asked \in since /\ r.asked <= r.began
                       \/ \E old \in Range(Latest) : r.spid = old.spid /\ r.asked = old.asked}
<1>1. Latest \in Seq(Rows)
  <2>1. CASE ticks = <<>>
    BY <2>1 DEF Latest
  <2>2. CASE ticks # <<>>
    <3>1. Len(ticks) \in DOMAIN ticks /\ ticks[Len(ticks)] \in Ticks
      BY <2>2
    <3> QED
      BY <3>1, <2>2 DEF Latest, Ticks
  <2> QED
    BY <2>1, <2>2
<1>2. \A r \in Range(Latest) : r \in Rows
  BY <1>1 DEF Range
<1>3. \A r \in Range(Latest) : r.asked \in Nat
  BY <1>2 DEF Rows
<1>4. \A t \in since : t \in Nat /\ t > LastLook /\ t <= when
  OBVIOUS
<1>5. ASSUME NEW r \in begun PROVE r \in Rows /\ Follows(r, when)
  <2>1. r \in [spid : Sessions, shape : Statements, asked : Nat, began : since]
    BY <1>3, <1>4
  <2>2. r \in Rows /\ r.began \in since
    BY <2>1, <1>4 DEF Rows
  <2>3. r.asked <= r.began \/ \E old \in Range(Latest) : r.asked = old.asked
    OBVIOUS
  <2> QED
    BY <2>2, <2>3, <1>4 DEF Follows
<1>6. Alive(when) = Range(Latest) \cup begun
  BY DEF Alive
<1>7. \A r \in Alive(when) : r \in Rows /\ Follows(r, when)
  <2>1. \A r \in Range(Latest) : Follows(r, when)
    BY DEF Follows
  <2> HIDE DEF begun
  <2> QED
    BY <2>1, <1>2, <1>5, <1>6
<1>8. PICK n \in 0 .. most : rows \in [1 .. n -> Alive(when)]
  BY DEF Sampled
<1>9. \A r \in Range(rows) : r \in Alive(when)
  BY <1>8 DEF Range
<1> HIDE DEF since, begun
<1>10. rows \in [1 .. n -> Rows] /\ n \in Nat
  BY <1>7, <1>8
<1>11. rows \in Seq(Rows)
  BY <1>10
<1> QED
  BY <1>7, <1>9, <1>11

LEMMA SizesAreSizes ==
  ASSUME NEW w \in Seq(Ticks), \A i \in DOMAIN w : Size(w[i]) \in Nat
  PROVE  /\ Sizes(w) \in Seq(Nat) /\ Len(Sizes(w)) = Len(w)
         /\ \A i \in 1 .. Len(w) : Sizes(w)[i] = Size(w[i])
BY DEF Sizes

\* Eviction takes the oldest ticks: those too old, and then as many as the cap
\* asks for.
Takes(w, when, n, old, drop) ==
  /\ \A d \in 0 .. old - 1 : ~Fresh(w[d + 1], when)
  /\ old = Len(w) \/ Fresh(w[old + 1], when)
  /\ \A d \in old .. drop - 1 : ~(n - Upto(Sizes(w))[d] <= MaxSamples)
  /\ drop = Len(w) \/ n - Upto(Sizes(w))[drop] <= MaxSamples
  /\ Evicted(w, when, n).ticks = From(w, drop + 1)
  /\ Evicted(w, when, n).samples = n - Upto(Sizes(w))[drop]

LEMMA EvictedIs ==
  ASSUME NEW w \in Seq(Ticks), \A i \in DOMAIN w : Size(w[i]) \in Nat,
         NEW when \in Nat, NEW n \in Nat
  PROVE  \E old \in 0 .. Len(w) : \E drop \in old .. Len(w) : Takes(w, when, n, old, drop)
<1> DEFINE aged == {d \in 0 .. Len(w) : d = Len(w) \/ Fresh(w[d + 1], when)}
           old == Min(aged)
<1>1. Len(w) \in aged /\ aged \in SUBSET Nat
  OBVIOUS
<1>2. old \in aged /\ \A d \in aged : old <= d
  <2> HIDE DEF aged
  <2> QED
    BY <1>1, LeastOf
<1>3. /\ old \in 0 .. Len(w) /\ (old = Len(w) \/ Fresh(w[old + 1], when))
      /\ \A d \in 0 .. Len(w) : d < old => ~Fresh(w[d + 1], when)
  <2> HIDE DEF old
  <2> QED
    BY <1>2
<1>4. old = Old(w, when)
  BY DEF Old
<1> HIDE DEF old, aged
<1> DEFINE inside == {d \in old .. Len(w) : d = Len(w) \/ n - Upto(Sizes(w))[d] <= MaxSamples}
           drop == Min(inside)
<1>5. Len(w) \in inside /\ inside \in SUBSET Nat
  BY <1>3
<1>6. drop \in inside /\ \A d \in inside : drop <= d
  <2> HIDE DEF inside
  <2> QED
    BY <1>5, LeastOf
<1>7. /\ drop \in old .. Len(w) /\ (drop = Len(w) \/ n - Upto(Sizes(w))[drop] <= MaxSamples)
      /\ \A d \in old .. Len(w) : d < drop => ~(n - Upto(Sizes(w))[d] <= MaxSamples)
  <2> HIDE DEF drop
  <2> QED
    BY <1>3, <1>6
<1>8. /\ Evicted(w, when, n).ticks = From(w, drop + 1)
      /\ Evicted(w, when, n).samples = n - Upto(Sizes(w))[drop]
  BY <1>4 DEF Evicted
<1> HIDE DEF drop
<1> HIDE DEF inside
<1>9. /\ \A d \in 0 .. old - 1 : d \in 0 .. Len(w) /\ d < old
      /\ \A d \in old .. drop - 1 : d \in old .. Len(w) /\ d < drop
  BY <1>3, <1>7
<1>10. Takes(w, when, n, old, drop)
  BY <1>3, <1>7, <1>8, <1>9 DEF Takes
<1> QED
  BY <1>3, <1>7, <1>10

LEMMA SizesOfAreSizes ==
  ASSUME NEW past \in Seq(Records)
  PROVE  /\ SizesOf(past) \in Seq(Nat) /\ Len(SizesOf(past)) = Len(past)
         /\ \A i \in 1 .. Len(past) : SizesOf(past)[i] = past[i].size /\ past[i].size \in Nat
<1>1. \A i \in 1 .. Len(past) : past[i] \in Records
  OBVIOUS
<1>2. \A i \in 1 .. Len(past) : past[i].size \in Nat
  BY <1>1 DEF Records
<1>3. DOMAIN past = 1 .. Len(past) /\ Len(past) \in Nat
  OBVIOUS
<1> QED
  BY <1>2, <1>3 DEF SizesOf

\* One size more leaves the running sums before it as they were.
LEMMA UptoOneMore ==
  ASSUME NEW sizes \in Seq(Nat), NEW more \in Seq(Nat), NEW x \in Nat,
         Len(more) = Len(sizes) + 1, more[Len(sizes) + 1] = x,
         \A i \in 1 .. Len(sizes) : more[i] = sizes[i]
  PROVE  /\ Upto(more)[Len(sizes) + 1] = Upto(sizes)[Len(sizes)] + x
         /\ \A i \in 0 .. Len(sizes) : Upto(more)[i] = Upto(sizes)[i]
<1> DEFINE n == Len(sizes)
           t == Upto(sizes)
           u == Upto(more)
<1>1. n \in Nat /\ t \in [0 .. n -> Nat]
  BY UptoIs
<1>2. u \in [0 .. n + 1 -> Nat] /\ u[0] = 0 /\ \A i \in 1 .. n + 1 : u[i] = u[i - 1] + more[i]
  BY UptoIs
<1>3. \A q \in 0 .. n : t[q] = u[0 + q] - u[0]
  <2>1. 0 + Len(sizes) <= Len(more)
    OBVIOUS
  <2>2. \A q \in 1 .. Len(sizes) : sizes[q] = more[0 + q]
    OBVIOUS
  <2> HIDE DEF n, t, u
  <2>3. 0 \in Nat
    OBVIOUS
  <2>4. \A q \in 0 .. Len(sizes) : Upto(sizes)[q] = Upto(more)[0 + q] - Upto(more)[0]
    BY <2>1, <2>2, <2>3, UptoOfStretch
  <2> QED
    BY <2>4 DEF n, t, u
<1>4. more[n + 1] = x
  OBVIOUS
<1> HIDE DEF n, t, u
<1>5. \A i \in 0 .. n : u[i] = t[i]
  BY <1>1, <1>2, <1>3
<1>6. n + 1 \in 1 .. n + 1 /\ (n + 1) - 1 = n /\ n \in 0 .. n
  BY <1>1
<1>7. u[n + 1] = t[n] + x
  BY <1>2, <1>4, <1>5, <1>6
<1> QED
  BY <1>5, <1>7 DEF n, t, u

LEMMA PastIs ==
  ASSUME KeptTypes
  PROVE  /\ Past \in [0 .. Len(all) -> Nat]
         /\ \A i \in 0 .. Len(all) : \A j \in i .. Len(all) : Past[i] <= Past[j]
<1>1. SizesOf(all) \in Seq(Nat) /\ Len(SizesOf(all)) = Len(all)
  BY SizesOfAreSizes DEF KeptTypes
<1>2. Past \in [0 .. Len(all) -> Nat]
  BY <1>1, UptoIs DEF Past
<1>3. ASSUME NEW i \in 0 .. Len(all) PROVE \A j \in i .. Len(all) : Past[i] <= Past[j]
  BY <1>1, UptoGrows DEF Past
<1> QED
  BY <1>2, <1>3

\* The sums of the window are those of the past, less what is gone.
LEMMA WindowOfThePast ==
  ASSUME NEW w \in Seq(Ticks), \A i \in DOMAIN w : Size(w[i]) \in Nat,
         NEW past \in Seq(Records), NEW d \in Nat, d + Len(w) <= Len(past),
         \A q \in 1 .. Len(w) : past[d + q].size = Size(w[q])
  PROVE  \A q \in 0 .. Len(w) :
           Upto(Sizes(w))[q] = Upto(SizesOf(past))[d + q] - Upto(SizesOf(past))[d]
<1>1. /\ Sizes(w) \in Seq(Nat) /\ Len(Sizes(w)) = Len(w)
      /\ \A i \in 1 .. Len(w) : Sizes(w)[i] = Size(w[i])
  BY SizesAreSizes
<1>2. /\ SizesOf(past) \in Seq(Nat) /\ Len(SizesOf(past)) = Len(past)
      /\ \A i \in 1 .. Len(past) : SizesOf(past)[i] = past[i].size
  BY SizesOfAreSizes
<1>3. ASSUME NEW q \in 1 .. Len(w) PROVE Sizes(w)[q] = SizesOf(past)[d + q]
  <2>1. d + q \in 1 .. Len(past)
    OBVIOUS
  <2> QED
    BY <2>1, <1>1, <1>2
<1>4. d + Len(Sizes(w)) <= Len(SizesOf(past))
  BY <1>1, <1>2
<1>5. \A q \in 0 .. Len(Sizes(w)) :
        Upto(Sizes(w))[q] = Upto(SizesOf(past))[d + q] - Upto(SizesOf(past))[d]
  <2>1. \A q \in 1 .. Len(Sizes(w)) : Sizes(w)[q] = SizesOf(past)[d + q]
    BY <1>1, <1>3
  <2> QED
    BY <2>1, <1>1, <1>2, <1>4, UptoOfStretch
<1> QED
  BY <1>1, <1>5

\* One more tick, and what is left of the window: nothing is lost that was not
\* outside a bound.
LEMMA KeptStep ==
  ASSUME KeptInv, NEW tick \in Ticks, Size(tick) \in Nat,
         \A i \in DOMAIN all : all[i].at < tick.at,
         AppendTick(tick)
  PROVE  KeptInv'
<1> DEFINE w == Append(ticks, tick)
           n == samples + Size(tick)
           new == [at |-> tick.at, size |-> Size(tick)]
           then == Append(all, new)
           L == Len(all)
           T == Upto(Sizes(w))
           P == Upto(SizesOf(then))
<1>1. /\ L \in Nat /\ Len(ticks) \in Nat /\ Gone \in Nat /\ Gone = L - Len(ticks)
      /\ ticks \in Seq(Ticks) /\ all \in Seq(Records)
      /\ new \in Records /\ tick.at \in Nat
  BY DEF KeptInv, KeptTypes, IsTheRest, Gone, Ticks, Records
<1>2. /\ w \in Seq(Ticks) /\ Len(w) = Len(ticks) + 1
      /\ \A i \in 1 .. Len(ticks) : w[i] = ticks[i]
      /\ w[Len(w)] = tick
  BY <1>1
<1>3. \A i \in DOMAIN w : Size(w[i]) \in Nat
  <2> SUFFICES ASSUME NEW i \in 1 .. Len(w) PROVE Size(w[i]) \in Nat
    BY <1>2
  <2>1. i \in 1 .. Len(ticks) \/ i = Len(w)
    BY <1>1, <1>2
  <2>2. \A j \in 1 .. Len(ticks) : Size(ticks[j]) \in Nat
    BY <1>1 DEF KeptInv, KeptTypes
  <2> QED
    BY <2>1, <2>2, <1>2
<1>4. /\ then \in Seq(Records) /\ Len(then) = L + 1
      /\ \A i \in 1 .. L : then[i] = all[i]
      /\ then[L + 1] = new
  BY <1>1
<1>5. all' = then
  BY DEF AppendTick
<1>0. L = Len(all)
  OBVIOUS
<1> HIDE DEF then, w, L
<1>6. \A q \in 1 .. Len(w) :
        Gone + q \in 1 .. L + 1 /\ then[Gone + q] = [at |-> w[q].at, size |-> Size(w[q])]
  <2> SUFFICES ASSUME NEW q \in 1 .. Len(w)
               PROVE  Gone + q \in 1 .. L + 1
                      /\ then[Gone + q] = [at |-> w[q].at, size |-> Size(w[q])]
    OBVIOUS
  <2>1. CASE q \in 1 .. Len(ticks)
    <3>1. Gone + q \in 1 .. L /\ Gone + q \in 1 .. L + 1
      BY <2>1, <1>1
    <3>2. all[Gone + q] = [at |-> ticks[q].at, size |-> Size(ticks[q])]
      BY <2>1, <1>1 DEF KeptInv, IsTheRest
    <3> QED
      BY <3>1, <3>2, <2>1, <1>2, <1>4
  <2>2. CASE q = Len(w)
    <3>1. Gone + q = L + 1 /\ L + 1 \in 1 .. L + 1
      BY <2>2, <1>1, <1>2
    <3> QED
      BY <3>1, <2>2, <1>2, <1>4
  <2> QED
    BY <2>1, <2>2, <1>1, <1>2
<1>7. /\ P \in [0 .. L + 1 -> Nat] /\ P[L + 1] = Past[L] + Size(tick)
      /\ \A i \in 0 .. L : P[i] = Past[i]
  <2>1. /\ SizesOf(all) \in Seq(Nat) /\ Len(SizesOf(all)) = L
        /\ \A i \in 1 .. L : SizesOf(all)[i] = all[i].size
    BY <1>0, <1>1, SizesOfAreSizes
  <2>2. /\ SizesOf(then) \in Seq(Nat) /\ Len(SizesOf(then)) = L + 1
        /\ \A i \in 1 .. L + 1 : SizesOf(then)[i] = then[i].size
    BY <1>4, SizesOfAreSizes
  <2>3. SizesOf(then)[L + 1] = Size(tick)
    <3>1. L + 1 \in 1 .. L + 1
      BY <1>1
    <3> QED
      BY <3>1, <2>2, <1>4
  <2>4. \A i \in 1 .. L : SizesOf(then)[i] = SizesOf(all)[i]
    <3>1. \A i \in 1 .. L : i \in 1 .. L + 1
      BY <1>1
    <3> QED
      BY <3>1, <2>1, <2>2, <1>4
  <2>5. /\ P[L + 1] = Past[L] + Size(tick)
        /\ \A i \in 0 .. L : P[i] = Past[i]
    BY <1>0, <2>1, <2>2, <2>3, <2>4, UptoOneMore DEF Past
  <2> QED
    BY <2>2, <2>5, UptoIs
<1>8. \A q \in 0 .. Len(w) : T[q] = P[Gone + q] - P[Gone]
  <2>1. Gone + Len(w) <= Len(then)
    BY <1>1, <1>2, <1>4
  <2>2. ASSUME NEW q \in 1 .. Len(w) PROVE then[Gone + q].size = Size(w[q])
    <3>1. then[Gone + q] = [at |-> w[q].at, size |-> Size(w[q])]
      BY <1>6
    <3> QED
      BY ONLY <3>1
  <2> QED
    BY <2>1, <2>2, <1>1, <1>2, <1>3, <1>4, WindowOfThePast
<1>9. n = P[L + 1] - P[Gone] /\ n \in Nat
  <2>1. samples = Past[L] - Past[Gone]
    BY <1>0 DEF KeptInv, IsTheRest
  <2>2. Gone \in 0 .. L /\ L \in 0 .. L /\ L \in Gone .. L
    BY <1>1
  <2>3. Past[L] \in Nat /\ Past[Gone] \in Nat /\ Past[Gone] <= Past[L]
    BY <1>0, <2>2, PastIs DEF KeptInv
  <2>4. P[L + 1] = Past[L] + Size(tick) /\ P[Gone] = Past[Gone]
    BY <2>2, <1>7
  <2>5. Size(tick) \in Nat /\ n = samples + Size(tick)
    OBVIOUS
  <2> QED
    BY ONLY <2>1, <2>3, <2>4, <2>5
<1> HIDE DEF n, T, P, new
<1>10. PICK old \in 0 .. Len(w) : \E drop \in old .. Len(w) : Takes(w, tick.at, n, old, drop)
  BY <1>1, <1>2, <1>3, <1>9, EvictedIs
<1>11. PICK drop \in old .. Len(w) :
         /\ \A d \in 0 .. old - 1 : ~Fresh(w[d + 1], tick.at)
         /\ old = Len(w) \/ Fresh(w[old + 1], tick.at)
         /\ \A d \in old .. drop - 1 : ~(n - T[d] <= MaxSamples)
         /\ drop = Len(w) \/ n - T[drop] <= MaxSamples
         /\ Evicted(w, tick.at, n).ticks = From(w, drop + 1)
         /\ Evicted(w, tick.at, n).samples = n - T[drop]
  BY <1>10 DEF Takes, T
<1>12. ticks' = From(w, drop + 1) /\ samples' = n - T[drop]
  BY <1>11 DEF AppendTick, n, w
<1>13. /\ Len(w) \in Nat /\ old \in Nat /\ drop \in Nat /\ old <= drop /\ drop <= Len(w)
       /\ Gone + Len(w) = L + 1
  BY <1>1, <1>2
<1>14. /\ ticks' \in Seq(Ticks) /\ Len(ticks') = Len(w) - drop
       /\ \A q \in 1 .. Len(w) - drop : ticks'[q] = w[drop + q]
  BY <1>2, <1>12, <1>13 DEF From
<1>15. L + 1 = Len(all') /\ Gone' = Gone + drop /\ Past' = P
  <2>1. L + 1 = Len(all')
    BY <1>4, <1>5
  <2>2. Gone' = Len(all') - Len(ticks')
    BY DEF Gone
  <2>3. Gone' = (L + 1) - (Len(w) - drop)
    BY <2>1, <2>2, <1>14
  <2>4. Past' = P
    BY <1>5 DEF Past, P, SizesOf
  <2>5. L \in Nat /\ Gone \in Nat
    BY <1>1
  <2> QED
    BY ONLY <2>1, <2>3, <2>4, <2>5, <1>13
<1>16. Now' = tick.at
  BY <1>4, <1>5, <1>15 DEF Now, new
<1>17. \A d \in 0 .. Len(w) : n - T[d] = P[L + 1] - P[Gone + d] /\ P[Gone + d] \in Nat
  <2> SUFFICES ASSUME NEW d \in 0 .. Len(w)
               PROVE  n - T[d] = P[L + 1] - P[Gone + d] /\ P[Gone + d] \in Nat
    OBVIOUS
  <2>1. Gone + d \in 0 .. L + 1 /\ Gone \in 0 .. L + 1 /\ L + 1 \in 0 .. L + 1
    BY <1>1, <1>13
  <2>2. P[Gone + d] \in Nat /\ P[Gone] \in Nat /\ P[L + 1] \in Nat
    BY <2>1, <1>7
  <2>3. T[d] = P[Gone + d] - P[Gone]
    BY <1>8
  <2> QED
    BY ONLY <2>2, <2>3, <1>9
<1>18. KeptTypes'
  <2>1. ASSUME NEW q \in 1 .. Len(ticks') PROVE Size(ticks'[q]) \in Nat
    <3>1. drop + q \in 1 .. Len(w) /\ ticks'[q] = w[drop + q]
      BY <1>13, <1>14
    <3> QED
      BY <3>1, <1>2, <1>3
  <2>2. DOMAIN ticks' = 1 .. Len(ticks')
    BY <1>14
  <2>3. all' \in Seq(Records)
    BY <1>4, <1>5
  <2>4. \A i \in DOMAIN ticks' : Size(ticks'[i]) \in Nat
    BY <2>1, <2>2
  <2>5. (\A i \in DOMAIN ticks : Size(ticks[i]) \in Nat)'
    BY <2>4 DEF Size
  <2> QED
    BY <2>3, <2>5, <1>14 DEF KeptTypes
<1>19. ClockGoesOn'
  <2> SUFFICES ASSUME NEW i \in 1 .. L + 1, NEW j \in 1 .. L + 1, i < j
               PROVE  all'[i].at < all'[j].at
    BY <1>4, <1>5 DEF ClockGoesOn
  <2>1. i \in 1 .. L /\ all'[i] = all[i]
    BY <1>1, <1>4, <1>5
  <2>4. DOMAIN all = 1 .. L
    BY <1>0, <1>1
  <2>2. CASE j \in 1 .. L
    <3>1. all'[j] = all[j]
      BY <2>2, <1>4, <1>5
    <3> QED
      BY <2>1, <2>2, <2>4, <3>1 DEF KeptInv, ClockGoesOn
  <2>3. CASE j = L + 1
    <3>1. all'[j].at = tick.at
      BY <2>3, <1>4, <1>5 DEF new
    <3> QED
      BY <2>1, <2>4, <3>1
  <2> QED
    BY <2>2, <2>3, <1>1
<1>20. IsTheRest'
  <2>1. Gone' \in Nat
    BY <1>1, <1>13, <1>15
  <2>2. ASSUME NEW q \in DOMAIN ticks'
        PROVE  all'[Gone' + q] = [at |-> ticks'[q].at, size |-> Size(ticks'[q])]
    <3>1. q \in 1 .. Len(w) - drop /\ ticks'[q] = w[drop + q]
      BY <1>14
    <3>2. drop + q \in 1 .. Len(w) /\ Gone' + q = Gone + (drop + q)
      BY <3>1, <1>1, <1>13, <1>15
    <3> QED
      BY <3>1, <3>2, <1>5, <1>6
  <2>3. samples' = Past'[Len(all')] - Past'[Gone']
    <3>1. drop \in 0 .. Len(w)
      BY <1>13
    <3> QED
      BY <3>1, <1>12, <1>15, <1>17
  <2> QED
    BY <2>1, <2>2, <2>3 DEF IsTheRest, Size
<1>21. GoneForGood'
  <2>1. samples' <= MaxSamples
    <3>1. CASE drop = Len(w)
      <4>1. n - T[drop] = P[L + 1] - P[L + 1] /\ P[L + 1] \in Nat
        <5>1. drop \in 0 .. Len(w) /\ Gone + drop = L + 1
          BY <3>1, <1>13
        <5> QED
          BY <5>1, <1>17
      <4> QED
        BY <4>1, <1>12, WindowAssumption
    <3>2. CASE n - T[drop] <= MaxSamples
      BY <3>2, <1>12
    <3> QED
      BY <3>1, <3>2, <1>11
  <2>2. ASSUME NEW q \in DOMAIN ticks' PROVE ticks'[q].at >= tick.at - Retention
    <3>1. q \in 1 .. Len(w) - drop /\ ticks'[q] = w[drop + q]
      BY <1>14
    <3>2. old < Len(w) /\ old + 1 \in 1 .. Len(w) /\ drop + q \in 1 .. Len(w) /\ old + 1 <= drop + q
      BY <3>1, <1>13
    <3>3. w[old + 1].at >= tick.at - Retention
      BY <3>2, <1>11, <1>13 DEF Fresh
    <3>4. w[old + 1].at \in Nat /\ w[drop + q].at \in Nat
      <4>1. w[old + 1] \in Ticks /\ w[drop + q] \in Ticks
        BY <3>2, <1>2
      <4> QED
        BY <4>1 DEF Ticks
    <3>5. w[old + 1].at <= w[drop + q].at
      <4>1. CASE old + 1 = drop + q
        BY <4>1, <3>4
      <4>2. CASE old + 1 # drop + q
        <5>1. /\ Gone + (old + 1) \in 1 .. L + 1 /\ Gone + (drop + q) \in 1 .. L + 1
              /\ Gone + (old + 1) < Gone + (drop + q)
          <6>1. /\ Gone + (old + 1) \in 1 .. L + 1 /\ Gone + (drop + q) \in 1 .. L + 1
            BY <3>2, <1>6
          <6>2. Gone \in Nat /\ q \in Nat
            BY <3>1, <1>1
          <6> QED
            BY ONLY <6>1, <6>2, <3>2, <4>2, <1>13
        <5>2. DOMAIN all' = 1 .. L + 1
          BY <1>4, <1>5
        <5>3. all'[Gone + (old + 1)].at < all'[Gone + (drop + q)].at
          BY <5>1, <5>2, <1>19 DEF ClockGoesOn
        <5>4. /\ all'[Gone + (old + 1)].at = w[old + 1].at
              /\ all'[Gone + (drop + q)].at = w[drop + q].at
          <6>1. /\ all'[Gone + (old + 1)] = [at |-> w[old + 1].at, size |-> Size(w[old + 1])]
                /\ all'[Gone + (drop + q)] = [at |-> w[drop + q].at, size |-> Size(w[drop + q])]
            BY <3>2, <1>5, <1>6
          <6> QED
            BY ONLY <6>1
        <5> QED
          BY <5>3, <5>4, <3>4
      <4> QED
        BY <4>1, <4>2
    <3>6. tick.at - Retention \in Int
      BY <1>1, WindowAssumption
    <3> QED
      BY <3>1, <3>3, <3>4, <3>5, <3>6
  <2>3. ASSUME NEW i \in 1 .. Gone + drop
        PROVE  all'[i].at < tick.at - Retention \/ P[L + 1] - P[i - 1] > MaxSamples
    <3>1. CASE i \in 1 .. Gone
      <4>1. /\ i \in 1 .. L /\ L \in 1 .. L /\ i - 1 \in 0 .. L /\ L \in i - 1 .. L
            /\ all'[i] = all[i]
        <5>1. i \in 1 .. L /\ L \in 1 .. L /\ i - 1 \in 0 .. L /\ L \in i - 1 .. L
          <6>1. L \in Nat /\ Gone \in Nat /\ Len(ticks) \in Nat /\ Gone = L - Len(ticks)
            BY <1>1
          <6> QED
            BY ONLY <3>1, <6>1
        <5> QED
          BY <5>1, <1>4, <1>5
      <4>2. \/ all[i].at < Now - Retention
            \/ Past[L] - Past[i - 1] > MaxSamples
        BY <3>1, <1>0 DEF KeptInv, GoneForGood
      <4>3. CASE all[i].at < Now - Retention
        <5>1. L \in DOMAIN all /\ Now = all[L].at /\ all[i] \in Records
              /\ all[L] \in Records
          BY <4>1, <1>0, <1>1 DEF Now
        <5>2. Now < tick.at
          BY <5>1
        <5>3. Now \in Nat /\ all[i].at \in Nat /\ Retention \in Nat
          BY <5>1, WindowAssumption DEF Records
        <5>4. all[i].at < tick.at - Retention
          <6>1. tick.at \in Nat
            BY <1>1
          <6> QED
            BY ONLY <5>2, <5>3, <4>3, <6>1
        <5> QED
          BY <5>4, <4>1
      <4>4. CASE Past[L] - Past[i - 1] > MaxSamples
        <5>1. P[L + 1] = Past[L] + Size(tick) /\ P[i - 1] = Past[i - 1]
          BY <4>1, <1>7
        <5>2. Past[L] \in Nat /\ Past[i - 1] \in Nat
          <6>1. Past \in [0 .. L -> Nat]
            BY <1>0, PastIs DEF KeptInv
          <6> QED
            BY ONLY <6>1, <4>1
        <5>3. Size(tick) \in Nat /\ MaxSamples \in Nat
          BY WindowAssumption
        <5>4. P[L + 1] - P[i - 1] > MaxSamples
          BY ONLY <5>1, <5>2, <5>3, <4>4
        <5> QED
          BY <5>4
      <4> QED
        BY <4>2, <4>3, <4>4
    <3>2. CASE i \notin 1 .. Gone
      <4> DEFINE d == i - 1 - Gone
      <4>1. d \in 0 .. drop - 1 /\ d \in 0 .. Len(w) /\ d + 1 \in 1 .. Len(w)
            /\ Gone + d = i - 1 /\ Gone + (d + 1) = i
        <5>1. Gone \in Nat /\ i \in Nat /\ i > Gone /\ i <= Gone + drop
          BY <3>2, <1>1, <1>13
        <5> QED
          BY ONLY <5>1, <1>13
      <4> HIDE DEF d
      <4>2. CASE d \in 0 .. old - 1
        <5>1. ~(w[d + 1].at >= tick.at - Retention)
          BY <4>2, <1>11 DEF Fresh
        <5>2. w[d + 1].at \in Nat /\ tick.at - Retention \in Int
          <6>1. w[d + 1] \in Ticks
            BY <4>1, <1>2
          <6> QED
            BY <6>1, <1>1, WindowAssumption DEF Ticks
        <5>3. all'[i].at = w[d + 1].at
          <6>1. all'[i] = [at |-> w[d + 1].at, size |-> Size(w[d + 1])]
            BY <4>1, <1>5, <1>6
          <6> QED
            BY ONLY <6>1
        <5> QED
          BY <5>1, <5>2, <5>3
      <4>3. CASE d \in old .. drop - 1
        <5>1. ~(n - T[d] <= MaxSamples)
          BY <4>3, <1>11
        <5>2. n - T[d] = P[L + 1] - P[i - 1] /\ P[i - 1] \in Nat
          BY <4>1, <1>17
        <5>3. P[L + 1] \in Nat /\ MaxSamples \in Nat
          <6>1. L + 1 \in 0 .. L + 1
            BY <1>1
          <6> QED
            BY <6>1, <1>7, WindowAssumption
        <5>4. P[L + 1] - P[i - 1] > MaxSamples
          BY ONLY <5>1, <5>2, <5>3
        <5> QED
          BY <5>4
      <4> QED
        BY <4>1, <4>2, <4>3, <1>13
    <3> QED
      BY <3>1, <3>2
  <2> QED
    BY <2>1, <2>2, <2>3, <1>15, <1>16 DEF GoneForGood
<1> QED
  BY <1>18, <1>19, <1>20, <1>21 DEF KeptInv

\* A step of the window appends one tick, later than every other, whose rows
\* are what the server runs then.
LEMMA NextIs ==
  ASSUME KeptInv, WindowNext
  PROVE  \E tick \in Ticks :
           /\ Size(tick) \in Nat
           /\ \A i \in DOMAIN all : all[i].at < tick.at
           /\ LastLook < tick.at
           /\ \A r \in Range(tick.rows) : Follows(r, tick.at)
           /\ AppendTick(tick)
<1> DEFINE last == IF all = <<>> THEN 0 ELSE all[Len(all)].at
<1>1. PICK pace \in Paces : \E rows \in Sampled(pace[1] + last, pace[3]) :
        AppendTick([at |-> pace[1] + last, rows |-> rows, others |-> pace[2]])
  BY DEF WindowNext
<1>2. PICK rows \in Sampled(pace[1] + last, pace[3]) :
        AppendTick([at |-> pace[1] + last, rows |-> rows, others |-> pace[2]])
  BY <1>1
<1>3. pace[1] \in Nat /\ pace[1] > 0 /\ pace[2] \in Nat /\ pace[3] \in Nat
  BY WindowAssumption
<1>4. all \in Seq(Records) /\ ticks \in Seq(Ticks)
  BY DEF KeptInv, KeptTypes
<1>5. last \in Nat /\ \A i \in DOMAIN all : all[i].at <= last
  <2>1. CASE all = <<>>
    BY <2>1
  <2>2. CASE all # <<>>
    <3>1. Len(all) \in 1 .. Len(all) /\ last = all[Len(all)].at /\ DOMAIN all = 1 .. Len(all)
      BY <2>2, <1>4
    <3>2. \A i \in 1 .. Len(all) : all[i].at \in Nat
      <4>1. \A i \in 1 .. Len(all) : all[i] \in Records
        BY <1>4
      <4> QED
        BY <4>1 DEF Records
    <3>3. ASSUME NEW i \in 1 .. Len(all) PROVE all[i].at <= all[Len(all)].at
      BY <3>1, <3>2, <1>4 DEF KeptInv, ClockGoesOn
    <3> QED
      BY <3>1, <3>2, <3>3
  <2> QED
    BY <2>1, <2>2
<1>6. LastLook \in Nat /\ LastLook <= last
  <2>1. CASE ticks = <<>>
    BY <2>1, <1>5 DEF LastLook
  <2>2. CASE ticks # <<>>
    <3>1. Len(ticks) \in 1 .. Len(ticks) /\ DOMAIN ticks = 1 .. Len(ticks)
      BY <2>2, <1>4
    <3>2. ticks[Len(ticks)].at \in Nat
      <4>1. ticks[Len(ticks)] \in Ticks
        BY <3>1, <1>4
      <4> QED
        BY <4>1 DEF Ticks
    <3>3. Gone + Len(ticks) = Len(all) /\ Len(all) \in DOMAIN all
      <4>1. Len(all) \in Nat /\ Gone \in Nat
        BY <1>4 DEF KeptInv, IsTheRest
      <4> QED
        BY <4>1, <3>1, <1>4 DEF Gone
    <3>4. all[Len(all)] = [at |-> ticks[Len(ticks)].at, size |-> Size(ticks[Len(ticks)])]
      BY <3>1, <3>3 DEF KeptInv, IsTheRest
    <3>5. all[Len(all)].at = ticks[Len(ticks)].at
      BY ONLY <3>4
    <3>6. all[Len(all)].at <= last
      BY <3>3, <1>5
    <3> QED
      BY <2>2, <3>2, <3>5, <3>6 DEF LastLook
  <2> QED
    BY <2>1, <2>2
<1> DEFINE tick == [at |-> pace[1] + last, rows |-> rows, others |-> pace[2]]
<1> HIDE DEF last
<1>7. /\ pace[1] + last \in Nat /\ last < pace[1] + last /\ LastLook < pace[1] + last
  BY <1>3, <1>5, <1>6
<1>8. rows \in Seq(Rows) /\ \A r \in Range(rows) : Follows(r, pace[1] + last)
  BY <1>2, <1>3, <1>4, <1>6, <1>7, SampledIs
<1>9. tick \in Ticks /\ Size(tick) \in Nat
  <2>1. Len(rows) \in Nat
    BY <1>8
  <2> QED
    BY <2>1, <1>3, <1>7, <1>8 DEF Ticks, Size
<1>10. ASSUME NEW i \in DOMAIN all PROVE all[i].at < tick.at
  <2>1. all[i].at \in Nat
    <3>1. all[i] \in Records
      BY <1>4
    <3> QED
      BY <3>1 DEF Records
  <2> QED
    BY <2>1, <1>5, <1>7
<1>11. AppendTick(tick)
  BY <1>2
<1> QED
  BY <1>7, <1>8, <1>9, <1>10, <1>11

LEMMA KeptNext == KeptInv /\ WindowNext => KeptInv'
  BY NextIs, KeptStep

LEMMA KeptIsTheMost == KeptInv => KeepsAllItMay
<1> SUFFICES ASSUME KeptInv PROVE KeepsAllItMay
  OBVIOUS
<1> DEFINE L == Len(all)
<1>1. /\ L \in Nat /\ Len(ticks) \in Nat /\ Gone \in Nat /\ Gone = L - Len(ticks)
      /\ all \in Seq(Records) /\ ticks \in Seq(Ticks)
      /\ \A i \in DOMAIN ticks : Size(ticks[i]) \in Nat
  BY DEF KeptInv, KeptTypes, IsTheRest, Gone
<1>2. samples = Past[L] - Past[Gone] /\ Past \in [0 .. L -> Nat]
  BY PastIs DEF KeptInv, IsTheRest
<1>3. ASSUME NEW i \in 1 .. L + 1
      PROVE  /\ From(all, i) \in Seq(Records)
             /\ Len(From(all, i)) = L + 1 - i
             /\ \A q \in 1 .. L + 1 - i : From(all, i)[q] = all[i - 1 + q]
             /\ Total(SizesOf(From(all, i))) = Past[L] - Past[i - 1]
  <2>1. /\ From(all, i) \in Seq(Records)
        /\ Len(From(all, i)) = L + 1 - i
        /\ \A q \in 1 .. L + 1 - i : From(all, i)[q] = all[i - 1 + q]
    BY <1>1 DEF From
  <2>2. /\ SizesOf(all) \in Seq(Nat) /\ Len(SizesOf(all)) = L
        /\ \A q \in 1 .. L : SizesOf(all)[q] = all[q].size
    BY <1>1, SizesOfAreSizes
  <2>3. /\ SizesOf(From(all, i)) \in Seq(Nat) /\ Len(SizesOf(From(all, i))) = L + 1 - i
        /\ \A q \in 1 .. L + 1 - i : SizesOf(From(all, i))[q] = From(all, i)[q].size
    BY <2>1, SizesOfAreSizes
  <2>4. ASSUME NEW q \in 1 .. Len(SizesOf(From(all, i)))
        PROVE  SizesOf(From(all, i))[q] = SizesOf(all)[i - 1 + q]
    <3>1. q \in 1 .. L + 1 - i /\ i - 1 + q \in 1 .. L
      BY <2>3, <1>1
    <3> QED
      BY <3>1, <2>1, <2>2, <2>3
  <2>5. i - 1 \in Nat /\ i - 1 + Len(SizesOf(From(all, i))) = L
        /\ Len(SizesOf(From(all, i))) \in 0 .. Len(SizesOf(From(all, i)))
    BY <2>3, <1>1
  <2>6. i - 1 + Len(SizesOf(From(all, i))) <= Len(SizesOf(all))
    BY <2>2, <2>5, <1>1
  <2>7. \A q \in 0 .. Len(SizesOf(From(all, i))) :
          Upto(SizesOf(From(all, i)))[q] = Past[i - 1 + q] - Past[i - 1]
    BY <2>2, <2>3, <2>4, <2>5, <2>6, UptoOfStretch DEF Past
  <2> QED
    BY <2>1, <2>5, <2>7 DEF Total
<1>4. samples = Total(Sizes(ticks))
  <2>1. ASSUME NEW q \in 1 .. Len(ticks) PROVE all[Gone + q].size = Size(ticks[q])
    <3>1. all[Gone + q] = [at |-> ticks[q].at, size |-> Size(ticks[q])]
      <4>1. q \in DOMAIN ticks
        BY <1>1
      <4> QED
        BY <4>1 DEF KeptInv, IsTheRest
    <3> QED
      BY ONLY <3>1
  <2>2. Gone + Len(ticks) = L /\ Gone + Len(ticks) <= L /\ Len(ticks) \in 0 .. Len(ticks)
    BY <1>1
  <2>3. Upto(Sizes(ticks))[Len(ticks)] = Past[L] - Past[Gone]
    BY <2>1, <2>2, <1>1, WindowOfThePast DEF Past
  <2>4. Len(Sizes(ticks)) = Len(ticks)
    BY <1>1, SizesAreSizes
  <2> QED
    BY <2>3, <2>4, <1>2 DEF Total
<1> DEFINE most == {i \in 1 .. L + 1 : Bounded(From(all, i))}
<1>5. Gone + 1 \in 1 .. L + 1
  BY <1>1
<1>6. [i \in DOMAIN ticks |-> [at |-> ticks[i].at, size |-> Size(ticks[i])]] = From(all, Gone + 1)
  <2> DEFINE said == [i \in DOMAIN ticks |-> [at |-> ticks[i].at, size |-> Size(ticks[i])]]
  <2>1. Len(From(all, Gone + 1)) = Len(ticks) /\ From(all, Gone + 1) \in Seq(Records)
    BY <1>1, <1>3, <1>5
  <2>2. ASSUME NEW q \in 1 .. Len(ticks) PROVE From(all, Gone + 1)[q] = said[q]
    <3>1. q \in 1 .. L + 1 - (Gone + 1) /\ (Gone + 1) - 1 + q = Gone + q /\ q \in DOMAIN ticks
      BY <1>1
    <3>2. From(all, Gone + 1)[q] = all[Gone + q]
      BY <3>1, <1>3, <1>5
    <3>3. all[Gone + q] = [at |-> ticks[q].at, size |-> Size(ticks[q])]
      BY <3>1 DEF KeptInv, IsTheRest
    <3> QED
      BY <3>1, <3>2, <3>3
  <2>3. DOMAIN said = 1 .. Len(ticks) /\ DOMAIN From(all, Gone + 1) = 1 .. Len(ticks)
    BY <2>1, <1>1
  <2>4. From(all, Gone + 1) = [q \in 1 .. Len(ticks) |-> From(all, Gone + 1)[q]]
    BY <2>1, <2>3
  <2>5. said = [q \in 1 .. Len(ticks) |-> said[q]]
    BY <2>3
  <2> HIDE DEF said
  <2>6. From(all, Gone + 1) = said
    BY <2>2, <2>4, <2>5
  <2> QED
    BY <2>6 DEF said
<1>7. Gone + 1 \in most
  <2>1. ASSUME NEW q \in DOMAIN From(all, Gone + 1)
        PROVE  From(all, Gone + 1)[q].at >= Now - Retention
    <3>1. q \in DOMAIN ticks
      BY <1>6
    <3>2. From(all, Gone + 1)[q] = [at |-> ticks[q].at, size |-> Size(ticks[q])]
      BY <3>1, <1>6
    <3>3. From(all, Gone + 1)[q].at = ticks[q].at
      BY ONLY <3>2
    <3> QED
      BY <3>1, <3>3 DEF KeptInv, GoneForGood
  <2>2. Total(SizesOf(From(all, Gone + 1))) = samples
    <3>1. (Gone + 1) - 1 = Gone
      BY <1>1
    <3> QED
      BY <3>1, <1>2, <1>3, <1>5
  <2> QED
    BY <2>1, <2>2, <1>5 DEF Bounded, KeptInv, GoneForGood
<1>8. ASSUME NEW i \in 1 .. Gone PROVE i \notin most
  <2>1. i \in 1 .. L /\ i \in 1 .. L + 1 /\ 1 \in 1 .. L + 1 - i /\ i - 1 + 1 = i
    BY <1>1
  <2>2. CASE all[i].at < Now - Retention
    <3>1. From(all, i)[1] = all[i] /\ 1 \in DOMAIN From(all, i)
      <4>1. From(all, i) \in Seq(Records) /\ Len(From(all, i)) = L + 1 - i
        BY <2>1, <1>3
      <4>2. From(all, i)[1] = all[i - 1 + 1]
        BY <2>1, <1>3
      <4> QED
        BY <4>1, <4>2, <2>1
    <3>2. all[i].at \in Nat /\ Now - Retention \in Int
      <4>1. all[i] \in Records /\ all[L] \in Records /\ Now = all[L].at
        <5>1. L \in 1 .. L
          BY <2>1, <1>1
        <5> QED
          BY <5>1, <2>1, <1>1 DEF Now
      <4> QED
        BY <4>1, WindowAssumption DEF Records
    <3>3. ~(From(all, i)[1].at >= Now - Retention)
      BY <3>1, <3>2, <2>2
    <3>4. ~Bounded(From(all, i))
      BY <3>1, <3>3 DEF Bounded
    <3> QED
      BY <3>4
  <2>3. CASE Past[L] - Past[i - 1] > MaxSamples
    <3>1. Total(SizesOf(From(all, i))) = Past[L] - Past[i - 1]
      BY <2>1, <1>3
    <3>2. Past[L] \in Nat /\ Past[i - 1] \in Nat /\ MaxSamples \in Nat
      <4>1. L \in 0 .. L /\ i - 1 \in 0 .. L
        BY <2>1, <1>1
      <4> QED
        BY <4>1, <1>2, WindowAssumption
    <3>3. ~(Total(SizesOf(From(all, i))) <= MaxSamples)
      BY <3>1, <3>2, <2>3
    <3> QED
      BY <3>3 DEF Bounded
  <2> QED
    BY <2>2, <2>3 DEF KeptInv, GoneForGood
<1>9. Min(most) = Gone + 1
  <2>1. most \in SUBSET Nat
    BY <1>1
  <2>2. \A i \in most : i \in Nat /\ i >= 1
    BY <1>1
  <2> HIDE DEF most
  <2>3. Min(most) \in most /\ Min(most) <= Gone + 1
    BY <2>1, <1>7, LeastOf
  <2>4. Min(most) \in Nat /\ Min(most) >= 1 /\ Min(most) \notin 1 .. Gone
    BY <2>2, <2>3, <1>8
  <2>5. Gone \in Nat
    BY <1>1
  <2> QED
    BY ONLY <2>3, <2>4, <2>5
<1> QED
  BY <1>4, <1>6, <1>9 DEF KeepsAllItMay

-----------------------------------------------------------------------------
(* Sums over a set.                                                        *)

SumOn(f, I) == SumFunctionOnSet(f, I)

\* A function gives every set of indices the sum over it, taken one index at a
\* time.
Sums(f, I, sum) ==
  sum = [s \in SUBSET I |->
           IF s = {} THEN 0 ELSE f[CHOOSE x \in s : TRUE] + sum[s \ {CHOOSE x \in s : TRUE}]]

\* A set is smaller without one of its elements.
LEMMA OneLess ==
  ASSUME NEW I, IsFiniteSet(I), NEW x \in I
  PROVE  /\ IsFiniteSet(I \ {x}) /\ Cardinality(I) \in Nat /\ Cardinality(I) # 0
         /\ Cardinality(I \ {x}) = Cardinality(I) - 1
         /\ I \ {x} \in SUBSET I
<1>1. IsFiniteSet(I \ {x}) /\ Cardinality(I \ {x}) = Cardinality(I) - 1
  BY FS_RemoveElement
<1>2. Cardinality(I) \in Nat /\ Cardinality(I \ {x}) \in Nat
  BY <1>1, FS_CardinalityType
<1> QED
  BY <1>1, <1>2

\* There is such a function.
LEMMA SumsExist ==
  ASSUME NEW I, IsFiniteSet(I), NEW f
  PROVE  \E sum : Sums(f, I, sum)
<1> DEFINE n == Cardinality(I)
           one(s) == CHOOSE x \in s : TRUE
           upTo(m) == {s \in SUBSET I : Cardinality(s) <= m}
           Part(g, m) == g = [s \in upTo(m) |->
                                IF s = {} THEN 0 ELSE f[one(s)] + g[s \ {one(s)}]]
           none == {m \in 0 .. n : \A g : ~Part(g, m)}
<1>1. n \in Nat
  BY FS_CardinalityType
<1>2. ASSUME NEW s \in SUBSET I
      PROVE  IsFiniteSet(s) /\ Cardinality(s) \in Nat /\ Cardinality(s) <= n
  BY FS_Subset, FS_CardinalityType
<1>3. ASSUME NEW s \in SUBSET I, s # {}
      PROVE  /\ one(s) \in s /\ s \ {one(s)} \in SUBSET I
             /\ Cardinality(s \ {one(s)}) = Cardinality(s) - 1
  <2>1. one(s) \in s
    BY <1>3
  <2> HIDE DEF one
  <2> QED
    BY <2>1, <1>2, OneLess
<1> HIDE DEF n, one
<1>4. none = {}
  <2>1. ASSUME NEW m \in none PROVE \E j \in none : j < m
    <3>1. CASE m = 0
      <4> DEFINE g == [s \in upTo(0) |-> 0]
      <4>1. \A s \in upTo(0) : s = {}
        BY <1>2, FS_EmptySet
      <4>2. Part(g, 0)
        BY <4>1
      <4> QED
        BY <4>2, <3>1
    <3>2. CASE m # 0
      <4>1. m \in Nat /\ m - 1 \in 0 .. n /\ m - 1 < m
        BY <1>1, <3>2
      <4> SUFFICES ASSUME m - 1 \notin none PROVE FALSE
        BY <4>1
      <4>2. PICK g : Part(g, m - 1)
        BY <4>1
      <4> DEFINE pick(s) == IF s = {} THEN 0 ELSE f[one(s)] + g[s \ {one(s)}]
                 h == [s \in upTo(m) |-> pick(s)]
      <4>3. ASSUME NEW s \in upTo(m - 1) PROVE s \in upTo(m) /\ g[s] = pick(s) /\ h[s] = g[s]
        <5>1. s \in upTo(m)
          BY <1>2, <4>1
        <5>2. g[s] = pick(s)
          BY <4>2
        <5> QED
          BY <5>1, <5>2
      <4>4. ASSUME NEW s \in upTo(m), s # {} PROVE h[s \ {one(s)}] = g[s \ {one(s)}]
        <5>1. s \ {one(s)} \in upTo(m - 1)
          BY <1>2, <1>3, <4>1, <4>4
        <5> QED
          BY <5>1, <4>3
      <4>5. Part(h, m)
        <5>1. \A s \in upTo(m) : pick(s) = IF s = {} THEN 0 ELSE f[one(s)] + h[s \ {one(s)}]
          BY <4>4
        <5> HIDE DEF pick
        <5>2. h = [s \in upTo(m) |-> pick(s)]
          OBVIOUS
        <5> HIDE DEF h, upTo
        <5> QED
          BY <5>1, <5>2
      <4>6. m \in none /\ ~Part(h, m)
        <5>1. m \in none
          OBVIOUS
        <5> HIDE DEF Part
        <5> QED
          BY <5>1
      <4> QED
        BY <4>5, <4>6
    <3> QED
      BY <3>1, <3>2
  <2>2. none \in SUBSET (0 .. n)
    OBVIOUS
  <2> HIDE DEF none
  <2> QED
    BY <2>1, <2>2, <1>1, NoneIsFirst
<1>5. PICK g : Part(g, n)
  <2>1. n \in 0 .. n
    BY <1>1
  <2>2. n \notin none
    BY ONLY <1>4
  <2> HIDE DEF Part
  <2> QED
    BY <2>1, <2>2
<1>6. upTo(n) = SUBSET I
  BY <1>2
<1> HIDE DEF upTo
<1>7. Sums(f, I, g)
  BY <1>5, <1>6 DEF Sums, one
<1> QED
  BY <1>7

\* And the sum over a set is what it gives it.
LEMMA SumOnIs ==
  ASSUME NEW I, IsFiniteSet(I), NEW f
  PROVE  \E sum : Sums(f, I, sum) /\ SumOn(f, I) = sum[I]
<1> DEFINE sum == CHOOSE sum : Sums(f, I, sum)
<1>1. Sums(f, I, sum)
  BY SumsExist
<1>2. SumOn(f, I) = sum[I]
  BY DEF SumOn, Sums, SumFunctionOnSet, FoldFunctionOnSet, MapThenFoldSet
<1> QED
  BY <1>1, <1>2

\* What holds of a finite set if it holds of it without one of its elements
\* holds of every finite set.
LEMMA NoneIsLeast ==
  ASSUME NEW I, IsFiniteSet(I), NEW bad \in SUBSET (SUBSET I),
         \A s \in bad : \E x \in s : s \ {x} \in bad
  PROVE  bad = {}
<1> DEFINE n == Cardinality(I)
           sizes == {m \in 0 .. n : \E s \in bad : Cardinality(s) = m}
<1>1. n \in Nat
  BY FS_CardinalityType
<1>2. ASSUME NEW s \in SUBSET I
      PROVE  IsFiniteSet(s) /\ Cardinality(s) \in 0 .. n
  BY FS_Subset, FS_CardinalityType
<1> HIDE DEF n
<1>3. ASSUME NEW m \in sizes PROVE \E k \in sizes : k < m
  <2>1. PICK s \in bad : Cardinality(s) = m
    OBVIOUS
  <2>2. PICK x \in s : s \ {x} \in bad
    OBVIOUS
  <2>3. IsFiniteSet(s)
    BY <1>2
  <2>4. Cardinality(s \ {x}) = m - 1 /\ Cardinality(s \ {x}) \in 0 .. n /\ m \in Nat
    BY <1>1, <1>2, <2>1, <2>2, <2>3, OneLess
  <2> QED
    BY <2>2, <2>4
<1>4. sizes \in SUBSET (0 .. n)
  OBVIOUS
<1> HIDE DEF sizes
<1>5. sizes = {}
  BY <1>1, <1>3, <1>4, NoneIsFirst
<1> QED
  BY <1>2, <1>5 DEF sizes

\* Two sums of one function agree where both are defined.
LEMMA SumsAgree ==
  ASSUME NEW I, IsFiniteSet(I), NEW J \in SUBSET I, NEW f, NEW a, NEW b,
         Sums(f, I, a), Sums(f, J, b)
  PROVE  \A s \in SUBSET J : a[s] = b[s]
<1> DEFINE bad == {s \in SUBSET J : a[s] # b[s]}
           one(s) == CHOOSE x \in s : TRUE
<1>1. IsFiniteSet(J)
  BY FS_Subset
<1>2. \A s \in SUBSET J : a[s] = IF s = {} THEN 0 ELSE f[one(s)] + a[s \ {one(s)}]
  BY DEF Sums
<1>3. \A s \in SUBSET J : b[s] = IF s = {} THEN 0 ELSE f[one(s)] + b[s \ {one(s)}]
  BY DEF Sums
<1>4. \A s : s # {} => one(s) \in s
  OBVIOUS
<1> HIDE DEF one
<1>5. ASSUME NEW s \in bad PROVE \E x \in s : s \ {x} \in bad
  <2>1. s # {}
    BY <1>2, <1>3
  <2>2. one(s) \in s /\ s \ {one(s)} \in SUBSET J
    BY <2>1, <1>4
  <2>3. a[s \ {one(s)}] # b[s \ {one(s)}]
    BY <2>1, <1>2, <1>3
  <2> QED
    BY <2>2, <2>3
<1> HIDE DEF bad
<1>6. bad = {}
  <2>1. bad \in SUBSET (SUBSET J)
    BY DEF bad
  <2> QED
    BY <2>1, <1>1, <1>5, NoneIsLeast
<1> QED
  BY <1>6 DEF bad

LEMMA SumOfNone == \A f : SumOn(f, {}) = 0
<1> SUFFICES ASSUME NEW f PROVE SumOn(f, {}) = 0
  OBVIOUS
<1>1. PICK sum : Sums(f, {}, sum) /\ SumOn(f, {}) = sum[{}]
  BY SumOnIs, FS_EmptySet
<1> QED
  BY <1>1 DEF Sums

LEMMA SumOfOneMore ==
  ASSUME NEW I, IsFiniteSet(I), I # {}, NEW f
  PROVE  \E x \in I : SumOn(f, I) = f[x] + SumOn(f, I \ {x})
<1> DEFINE x == CHOOSE x \in I : TRUE
           J == I \ {x}
<1>1. PICK a : Sums(f, I, a) /\ SumOn(f, I) = a[I]
  BY SumOnIs
<1>2. x \in I
  OBVIOUS
<1>3. J \in SUBSET I /\ IsFiniteSet(J)
  BY FS_Subset
<1>4. a[I] = f[x] + a[J]
  BY <1>1 DEF Sums
<1> HIDE DEF J, x
<1>5. PICK b : Sums(f, J, b) /\ SumOn(f, J) = b[J]
  BY <1>3, SumOnIs
<1>6. a[J] = b[J]
  <2>1. J \in SUBSET J
    OBVIOUS
  <2> QED
    BY <2>1, <1>1, <1>3, <1>5, SumsAgree
<1> QED
  BY <1>1, <1>2, <1>4, <1>5, <1>6 DEF J

LEMMA SumIsNat ==
  ASSUME NEW I, IsFiniteSet(I), NEW f, \A x \in I : f[x] \in Nat
  PROVE  \A s \in SUBSET I : SumOn(f, s) \in Nat
<1> DEFINE bad == {s \in SUBSET I : SumOn(f, s) \notin Nat}
<1>1. ASSUME NEW s \in bad PROVE \E x \in s : s \ {x} \in bad
  <2>1. s \in SUBSET I /\ IsFiniteSet(s) /\ SumOn(f, s) \notin Nat
    BY FS_Subset
  <2>4. s # {}
    <3> SUFFICES ASSUME s = {} PROVE FALSE
      OBVIOUS
    <3>1. SumOn(f, {}) = 0
      BY SumOfNone
    <3> QED
      BY <3>1, <2>1
  <2>2. PICK x \in s : SumOn(f, s) = f[x] + SumOn(f, s \ {x})
    BY <2>1, <2>4, SumOfOneMore
  <2>3. f[x] \in Nat /\ s \ {x} \in SUBSET I
    OBVIOUS
  <2>5. SumOn(f, s \ {x}) \notin Nat
    BY ONLY <2>1, <2>2, <2>3
  <2> QED
    BY <2>3, <2>5
<1>2. bad \in SUBSET (SUBSET I)
  OBVIOUS
<1> HIDE DEF bad
<1>3. bad = {}
  BY <1>1, <1>2, NoneIsLeast
<1> QED
  BY <1>3 DEF bad

\* The order in which a sum is taken does not matter: any element may be last.
LEMMA SumWithout ==
  ASSUME NEW I, IsFiniteSet(I), NEW f, \A x \in I : f[x] \in Nat
  PROVE  \A s \in SUBSET I : \A x \in s : SumOn(f, s) = f[x] + SumOn(f, s \ {x})
<1> DEFINE bad == {s \in SUBSET I : \E x \in s : SumOn(f, s) # f[x] + SumOn(f, s \ {x})}
<1>1. ASSUME NEW s \in bad PROVE \E x \in s : s \ {x} \in bad
  <2> SUFFICES ASSUME \A x \in s : s \ {x} \notin bad PROVE FALSE
    OBVIOUS
  <2>1. PICK x \in s : SumOn(f, s) # f[x] + SumOn(f, s \ {x})
    OBVIOUS
  <2>2. IsFiniteSet(s) /\ s # {} /\ s \in SUBSET I
    BY FS_Subset
  <2>3. PICK c \in s : SumOn(f, s) = f[c] + SumOn(f, s \ {c})
    BY <2>2, SumOfOneMore
  <2>4. c # x
    BY <2>1, <2>3
  <2> DEFINE rest == (s \ {c}) \ {x}
  <2>5. SumOn(f, s \ {c}) = f[x] + SumOn(f, rest)
    <3>1. s \ {c} \in SUBSET I /\ x \in s \ {c} /\ s \ {c} \notin bad
      BY <2>2, <2>4
    <3> QED
      BY <3>1
  <2>6. SumOn(f, s \ {x}) = f[c] + SumOn(f, (s \ {x}) \ {c})
    <3>1. s \ {x} \in SUBSET I /\ c \in s \ {x} /\ s \ {x} \notin bad
      BY <2>2, <2>4
    <3> QED
      BY <3>1
  <2>7. (s \ {x}) \ {c} = rest
    OBVIOUS
  <2>8. f[x] \in Nat /\ f[c] \in Nat /\ SumOn(f, rest) \in Nat
    BY <2>2, SumIsNat
  <2> HIDE DEF rest, bad
  <2>9. SumOn(f, s \ {x}) = f[c] + SumOn(f, rest)
    BY <2>6, <2>7
  <2> QED
    BY ONLY <2>1, <2>3, <2>5, <2>8, <2>9
<1>2. bad \in SUBSET (SUBSET I)
  OBVIOUS
<1> HIDE DEF bad
<1>3. bad = {}
  BY <1>1, <1>2, NoneIsLeast
<1> QED
  BY <1>3 DEF bad

\* Two functions that agree on a set have the same sum over it.
LEMMA SumsOfLikes ==
  ASSUME NEW I, IsFiniteSet(I), NEW f, NEW g,
         \A x \in I : f[x] \in Nat /\ g[x] = f[x]
  PROVE  SumOn(f, I) = SumOn(g, I)
<1> DEFINE bad == {s \in SUBSET I : SumOn(f, s) # SumOn(g, s)}
<1>1. ASSUME NEW s \in bad PROVE \E x \in s : s \ {x} \in bad
  <2>1. s # {} /\ IsFiniteSet(s) /\ s \in SUBSET I
    BY SumOfNone, FS_Subset
  <2>2. PICK x \in s : SumOn(f, s) = f[x] + SumOn(f, s \ {x})
    BY <2>1, SumOfOneMore
  <2>3. SumOn(g, s) = g[x] + SumOn(g, s \ {x})
    BY <2>1, SumWithout
  <2>4. f[x] = g[x] /\ s \ {x} \in SUBSET I
    BY <2>1
  <2> QED
    BY <2>2, <2>3, <2>4
<1>2. bad \in SUBSET (SUBSET I)
  OBVIOUS
<1> HIDE DEF bad
<1>3. bad = {} /\ I \in SUBSET I
  BY <1>1, <1>2, NoneIsLeast
<1> QED
  BY <1>3 DEF bad

\* The sum over two sets that have nothing in common.
LEMMA SumOfBoth ==
  ASSUME NEW A, IsFiniteSet(A), NEW B, IsFiniteSet(B), A \cap B = {}, NEW f,
         \A x \in A \cup B : f[x] \in Nat
  PROVE  SumOn(f, A \cup B) = SumOn(f, A) + SumOn(f, B)
<1> DEFINE bad == {s \in SUBSET B : SumOn(f, A \cup s) # SumOn(f, A) + SumOn(f, s)}
<1>1. IsFiniteSet(A \cup B) /\ \A s \in SUBSET (A \cup B) : SumOn(f, s) \in Nat
  BY FS_Union, SumIsNat
<1>2. ASSUME NEW s \in bad PROVE \E x \in s : s \ {x} \in bad
  <2>1. s \in SUBSET B /\ A \cup s \in SUBSET (A \cup B) /\ A \in SUBSET (A \cup B)
    OBVIOUS
  <2>2. s # {}
    <3> SUFFICES ASSUME s = {} PROVE FALSE
      OBVIOUS
    <3>1. A \cup s = A /\ SumOn(f, s) = 0
      BY SumOfNone
    <3>2. SumOn(f, A) \in Nat
      BY <2>1, <1>1
    <3>3. SumOn(f, A \cup s) # SumOn(f, A) + SumOn(f, s)
      OBVIOUS
    <3> HIDE DEF bad
    <3>4. SumOn(f, A \cup s) = SumOn(f, A)
      BY ONLY <3>1
    <3> QED
      BY ONLY <3>1, <3>2, <3>3, <3>4
  <2>3. PICK x : x \in s
    BY <2>2
  <2>4. SumOn(f, s) = f[x] + SumOn(f, s \ {x})
    BY <2>1, <2>3, SumWithout
  <2>5. SumOn(f, A \cup s) = f[x] + SumOn(f, (A \cup s) \ {x})
    BY <1>1, <2>1, <2>3, SumWithout
  <2>6. (A \cup s) \ {x} = A \cup (s \ {x})
    BY <2>1, <2>3
  <2>7. f[x] \in Nat /\ SumOn(f, A) \in Nat /\ SumOn(f, s \ {x}) \in Nat
    <3>1. x \in A \cup B /\ s \ {x} \in SUBSET (A \cup B)
      BY <2>1, <2>3
    <3> QED
      BY <3>1, <2>1, <1>1
  <2>8. SumOn(f, A \cup (s \ {x})) # SumOn(f, A) + SumOn(f, s \ {x})
    <3>1. SumOn(f, A \cup s) # SumOn(f, A) + SumOn(f, s)
      OBVIOUS
    <3>2. SumOn(f, A \cup s) = f[x] + SumOn(f, A \cup (s \ {x}))
      BY <2>5, <2>6
    <3>3. SumOn(f, A \cup (s \ {x})) \in Nat
      BY <1>1, <2>1
    <3> QED
      BY ONLY <3>1, <3>2, <3>3, <2>4, <2>7
  <2> QED
    BY <2>1, <2>3, <2>8
<1>3. bad \in SUBSET (SUBSET B)
  OBVIOUS
<1> HIDE DEF bad
<1>4. bad = {} /\ B \in SUBSET B
  BY <1>2, <1>3, NoneIsLeast
<1> QED
  BY <1>4 DEF bad

-----------------------------------------------------------------------------
(* Executions over the ticks of a window.                                  *)

\* The rows of a tick, in whatever order.
RowsIn(w, i) == Range(w[i].rows)

\* What a window says of the server: no execution begins before its request
\* came, and one that was not there at the tick before has begun since.
Lived(w) ==
  /\ w \in Seq(Ticks)
  /\ \A i, j \in 1 .. Len(w) : i < j => w[i].at < w[j].at
  /\ \A i \in 1 .. Len(w) :
       \A r \in RowsIn(w, i) : r.asked <= r.began /\ r.began <= w[i].at
  /\ \A i \in 2 .. Len(w) :
       \A r \in RowsIn(w, i) : r \in RowsIn(w, i - 1) \/ r.began > w[i - 1].at

LEMMA LivedTypes ==
  ASSUME NEW w, Lived(w), NEW i \in 1 .. Len(w)
  PROVE  /\ Len(w) \in Nat /\ w[i].at \in Nat /\ IsFiniteSet(RowsIn(w, i))
         /\ w[i].rows \in Seq(Rows)
         /\ \A r \in RowsIn(w, i) : r.asked \in Nat /\ r.began \in Nat /\ r.spid \in Sessions
<1>1. w[i] \in Ticks /\ Len(w) \in Nat
  BY DEF Lived
<1>2. w[i].at \in Nat /\ w[i].rows \in Seq(Rows)
  BY <1>1 DEF Ticks
<1> DEFINE rows == w[i].rows
<1>3. RowsIn(w, i) = {rows[n] : n \in 1 .. Len(rows)}
  BY <1>2 DEF RowsIn, Range
<1>4. Len(rows) \in Nat /\ \A n \in 1 .. Len(rows) : rows[n] \in Rows
  BY <1>2
<1>5. IsFiniteSet(RowsIn(w, i))
  <2> DEFINE f == [n \in 1 .. Len(rows) |-> rows[n]]
  <2>1. f \in Surjection(1 .. Len(rows), RowsIn(w, i))
    BY <1>3 DEF Surjection
  <2>2. IsFiniteSet(1 .. Len(rows))
    <3> HIDE DEF rows
    <3> QED
      BY <1>4, FS_Interval
  <2> HIDE DEF f, rows
  <2> QED
    BY <2>1, <2>2, FS_Surjection
<1>6. \A r \in RowsIn(w, i) : r \in Rows
  BY <1>3, <1>4
<1> QED
  BY <1>1, <1>2, <1>5, <1>6 DEF Rows

\* An execution seen twice was seen at every tick between.
LEMMA SeenBetween ==
  ASSUME NEW w, Lived(w), NEW i \in 1 .. Len(w), NEW j \in 1 .. i, NEW r,
         r \in RowsIn(w, j), r \in RowsIn(w, i)
  PROVE  \A k \in j .. i : r \in RowsIn(w, k)
<1> DEFINE missing == {d \in 0 .. i - j : r \notin RowsIn(w, i - d)}
<1>0. i \in Nat /\ j \in Nat /\ j >= 1 /\ j <= i /\ Len(w) \in Nat /\ i <= Len(w) /\ i - j \in Nat
  BY LivedTypes
<1>1. ASSUME NEW d \in missing PROVE \E e \in missing : e < d
  <2>1. d # 0
    BY <1>0
  <2> DEFINE k == i - d
  <2>2. /\ k \in 1 .. Len(w) /\ k >= j /\ k + 1 \in 2 .. Len(w) /\ d - 1 \in 0 .. i - j
        /\ k + 1 = i - (d - 1) /\ d - 1 < d /\ k + 1 - 1 = k /\ k \in Nat
    BY <2>1, <1>0
  <2>3. r \notin RowsIn(w, k)
    OBVIOUS
  <2> HIDE DEF k, missing
  <2> SUFFICES ASSUME r \in RowsIn(w, k + 1) PROVE FALSE
    <3>1. r \notin RowsIn(w, k + 1) => d - 1 \in missing
      BY <2>2 DEF missing
    <3> QED
      BY <3>1, <2>2
  <2>4. r.began > w[k].at
    <3>1. r \in RowsIn(w, k + 1 - 1) \/ r.began > w[k + 1 - 1].at
      BY <2>2 DEF Lived
    <3> QED
      BY <3>1, <2>2, <2>3
  <2>5. j \in 1 .. Len(w) /\ w[j].at \in Nat /\ w[k].at \in Nat /\ r.began \in Nat
    <3>1. j \in 1 .. Len(w)
      BY <1>0
    <3> QED
      BY <3>1, <2>2, LivedTypes
  <2>6. r.began <= w[j].at
    BY <2>5 DEF Lived
  <2>7. w[j].at <= w[k].at
    <3>1. CASE j = k
      BY <3>1, <2>5
    <3>2. CASE j < k
      BY <3>2, <2>2, <2>5 DEF Lived
    <3>3. j \in Nat
      BY <1>0
    <3> QED
      BY <3>1, <3>2, <3>3, <2>2
  <2> QED
    BY ONLY <2>4, <2>5, <2>6, <2>7
<1>2. missing \in SUBSET (0 .. i - j)
  OBVIOUS
<1> HIDE DEF missing
<1>3. missing = {}
  BY <1>0, <1>1, <1>2, NoneIsFirst
<1>4. ASSUME NEW k \in j .. i PROVE r \in RowsIn(w, k)
  <2>1. i - k \in 0 .. i - j /\ i - (i - k) = k
    BY <1>0
  <2> QED
    BY <2>1, <1>3 DEF missing
<1> QED
  BY <1>4

\* An execution that is not in the next tick is over.
LEMMA OverIsOver ==
  ASSUME NEW w, Lived(w), NEW i \in 1 .. Len(w), NEW j \in 1 .. i - 1, NEW r,
         r \in RowsIn(w, j), r \notin RowsIn(w, j + 1)
  PROVE  r \notin RowsIn(w, i)
<1>1. i \in Nat /\ j \in Nat /\ j \in 1 .. i /\ j + 1 \in j .. i
  BY LivedTypes
<1> QED
  BY <1>1, SeenBetween

LEMMA MaxIs ==
  ASSUME NEW S \in SUBSET Int, NEW m \in S, \A x \in S : m >= x
  PROVE  Max(S) = m
<1>1. Max(S) \in S /\ \A x \in S : Max(S) >= x
  BY DEF Max
<1>2. Max(S) >= m /\ m >= Max(S) /\ Max(S) \in Int /\ m \in Int
  BY <1>1
<1> QED
  BY ONLY <1>2

\* What an execution had counted at last is its age at the last tick it is in.
LEMMA LastSeenIs ==
  ASSUME NEW w, Lived(w), NEW t \in 1 .. Len(w), NEW r \in RowsIn(w, t),
         \A j \in t + 1 .. Len(w) : r \notin RowsIn(w, j)
  PROVE  LastSeen(w, r) = w[t].at - r.asked /\ LastSeen(w, r) \in Nat
<1> DEFINE seen == {j \in DOMAIN w : r \in RowsIn(w, j)}
           S == {Elapsed(w, i, r) : i \in seen}
<1>1. w \in Seq(Ticks) /\ DOMAIN w = 1 .. Len(w) /\ Len(w) \in Nat
  BY DEF Lived
<1>2. r.asked \in Nat /\ w[t].at \in Nat /\ r.asked <= w[t].at
  BY LivedTypes DEF Lived
<1>3. ASSUME NEW i \in seen
      PROVE  /\ i \in 1 .. Len(w) /\ w[i].at \in Nat /\ w[i].at <= w[t].at
             /\ Elapsed(w, i, r) = w[i].at - r.asked
  <2>1. i \in 1 .. Len(w) /\ r \in RowsIn(w, i)
    BY <1>1
  <2>2. i <= t
    BY <2>1, <1>1
  <2>3. w[i].at \in Nat
    BY <2>1, LivedTypes
  <2>4. CASE i = t
    BY <2>1, <2>4, <1>2 DEF Elapsed
  <2>5. CASE i < t
    <3>1. w[i].at < w[t].at
      BY <2>1, <2>5 DEF Lived
    <3> QED
      BY <3>1, <2>1, <2>3, <1>2 DEF Elapsed
  <2> QED
    BY <2>1, <2>2, <2>4, <2>5
<1>4. t \in seen /\ Elapsed(w, t, r) = w[t].at - r.asked
  BY <1>1 DEF Elapsed
<1> HIDE DEF seen
<1>5. S \in SUBSET Int
  BY <1>2, <1>3
<1>6. w[t].at - r.asked \in S
  BY <1>4
<1>7. \A x \in S : w[t].at - r.asked >= x
  BY <1>2, <1>3
<1>8. LastSeen(w, r) = Max(S)
  BY DEF LastSeen, seen, RowsIn
<1> HIDE DEF S
<1> QED
  BY <1>2, <1>5, <1>6, <1>7, <1>8, MaxIs

LEMMA EveryExecutionHasALast ==
  ASSUME NEW w, Lived(w), NEW i \in 1 .. Len(w), NEW r \in RowsIn(w, i)
  PROVE  \E t \in 1 .. Len(w) : r \in RowsIn(w, t) /\ \A j \in t + 1 .. Len(w) : r \notin RowsIn(w, j)
<1> DEFINE n == Len(w)
           later == {d \in 0 .. n - 1 : r \in RowsIn(w, n - d)}
           d == Min(later)
<1>1. n \in Nat /\ i \in Nat /\ i >= 1 /\ i <= n
  BY LivedTypes
<1>2. n - i \in later
  <2>1. n - i \in 0 .. n - 1 /\ n - (n - i) = i
    BY <1>1
  <2> QED
    BY <2>1
<1>3. later \in SUBSET Nat /\ later \in SUBSET (0 .. n - 1)
  BY <1>1
<1>4. d \in later /\ \A e \in later : d <= e
  <2> HIDE DEF later
  <2> QED
    BY <1>2, <1>3, LeastOf
<1> HIDE DEF d, n
<1>5. d \in Nat /\ n - d \in 1 .. n /\ r \in RowsIn(w, n - d)
  BY <1>1, <1>4
<1>6. ASSUME NEW j \in n - d + 1 .. n PROVE r \notin RowsIn(w, j)
  <2>1. n - j \in 0 .. n - 1 /\ n - (n - j) = j /\ ~(d <= n - j)
    BY <1>1, <1>5
  <2>2. n - j \notin later
    BY <2>1, <1>4
  <2> QED
    BY <2>1, <2>2
<1> QED
  BY <1>5, <1>6 DEF n

LEMMA ExecutionsAreFinite ==
  ASSUME NEW w, Lived(w), NEW key
  PROVE  /\ IsFiniteSet(Executions(w, key))
         /\ \A r \in Executions(w, key) : LastSeen(w, r) \in Nat /\ r.spid \in Sessions
<1> DEFINE all_rows == {RowsIn(w, i) : i \in DOMAIN w}
<1>1. DOMAIN w = 1 .. Len(w) /\ Len(w) \in Nat
  BY DEF Lived
<1>2. IsFiniteSet(all_rows)
  <2> DEFINE f == [i \in DOMAIN w |-> RowsIn(w, i)]
  <2>1. f \in Surjection(DOMAIN w, all_rows)
    BY DEF Surjection
  <2>2. IsFiniteSet(DOMAIN w)
    BY <1>1, FS_Interval
  <2> HIDE DEF f, all_rows
  <2> QED
    BY <2>1, <2>2, FS_Surjection
<1>3. \A rows \in all_rows : IsFiniteSet(rows)
  BY <1>1, LivedTypes
<1>4. IsFiniteSet(UNION all_rows)
  <2> HIDE DEF all_rows
  <2> QED
    BY <1>2, <1>3, FS_UNION
<1>5. Executions(w, key) \in SUBSET (UNION all_rows)
  BY DEF Executions, RowsIn
<1>6. IsFiniteSet(Executions(w, key))
  <2> HIDE DEF all_rows
  <2> QED
    BY <1>4, <1>5, FS_Subset
<1>7. ASSUME NEW r \in Executions(w, key) PROVE LastSeen(w, r) \in Nat /\ r.spid \in Sessions
  <2>1. PICK i \in 1 .. Len(w) : r \in RowsIn(w, i)
    BY <1>1 DEF Executions, RowsIn
  <2>2. PICK t \in 1 .. Len(w) : r \in RowsIn(w, t) /\ \A j \in t + 1 .. Len(w) : r \notin RowsIn(w, j)
    BY <2>1, EveryExecutionHasALast
  <2> QED
    BY <2>2, LastSeenIs, LivedTypes
<1> QED
  BY <1>6, <1>7

\* The executions of one session that the first ticks have.
Known(w, key, spid, i) ==
  {r \in UNION {RowsIn(w, j) : j \in 1 .. i} : r.shape = key /\ r.spid = spid}

Ages(w, key) == [r \in Executions(w, key) |-> LastSeen(w, r)]

RunRecords == [tick : Nat, cpu : Nat, runs : Nat, total : Nat]

\* The executions of a shape on one session come one by one.
Plain(w, key, spid) ==
  \A i \in 1 .. Len(w) : \A r \in RowsOf(w, i, key, spid) :
    r.began = r.asked /\ \A s \in RowsOf(w, i, key, spid) : s = r

\* Where they do, its executions but the last one have been counted after some
\* ticks, and the last one is as old as it was when last seen.
CountsEach(w, key, spid, i, run) ==
  \E r \in RowsOf(w, run.tick, key, spid) :
    /\ run.cpu = Elapsed(w, run.tick, r)
    /\ run.runs + 1 = Cardinality(Known(w, key, spid, i))
    /\ run.total = SumOn(Ages(w, key), Known(w, key, spid, i) \ {r})

\* The run of a session after some ticks: with it, no more have been counted than
\* there were executions.
RunIs(w, key, spid, i, run) ==
  /\ run \in RunRecords /\ run.tick <= i
  /\ \A j \in run.tick + 1 .. i : RowsOf(w, j, key, spid) = {}
  /\ run.tick = 0 => run = NoRun
  /\ run.tick # 0 =>
       /\ RowsOf(w, run.tick, key, spid) # {}
       /\ run.runs + 1 <= Cardinality(Known(w, key, spid, i))
       /\ Plain(w, key, spid) => CountsEach(w, key, spid, i, run)

LEMMA RowsOfAre ==
  ASSUME NEW w, Lived(w), NEW i \in 1 .. Len(w), NEW key, NEW spid
  PROVE  /\ IsFiniteSet(RowsOf(w, i, key, spid))
         /\ RowsOf(w, i, key, spid) = {r \in RowsIn(w, i) : r.shape = key /\ r.spid = spid}
         /\ \A r \in RowsOf(w, i, key, spid) :
              /\ r \in RowsIn(w, i) /\ r.shape = key /\ r.spid = spid
              /\ Elapsed(w, i, r) = w[i].at - r.asked /\ Elapsed(w, i, r) \in 0 .. w[i].at
         /\ RowsOf(w, i, key, spid) # {} =>
              Leading(w, i, key, spid) \in RowsOf(w, i, key, spid)
<1> DEFINE here == RowsOf(w, i, key, spid)
<1>1. here = {r \in RowsIn(w, i) : r.shape = key /\ r.spid = spid}
  BY DEF RowsOf, RowsIn
<1>2. here \in SUBSET RowsIn(w, i) /\ IsFiniteSet(RowsIn(w, i))
  BY <1>1, LivedTypes
<1>3. IsFiniteSet(here)
  BY <1>2, FS_Subset
<1>4. ASSUME NEW r \in here
      PROVE  /\ r \in RowsIn(w, i) /\ r.shape = key /\ r.spid = spid
             /\ Elapsed(w, i, r) = w[i].at - r.asked /\ Elapsed(w, i, r) \in 0 .. w[i].at
  <2>1. r \in RowsIn(w, i) /\ r.shape = key /\ r.spid = spid
    BY <1>1
  <2>2. w[i].at \in Nat /\ r.asked \in Nat /\ r.began \in Nat
    BY <2>1, LivedTypes
  <2>3. r.asked <= r.began /\ r.began <= w[i].at
    BY <2>1 DEF Lived
  <2> QED
    BY <2>1, <2>2, <2>3 DEF Elapsed
<1>5. ASSUME here # {} PROVE Leading(w, i, key, spid) \in here
  <2> DEFINE rows == w[i].rows
             own == {n \in DOMAIN rows : rows[n] \in here}
  <2>1. rows \in Seq(Rows)
    BY LivedTypes
  <2>2. own \in SUBSET Nat
    BY <2>1
  <2>3. own # {}
    <3>1. PICK r : r \in here
      BY <1>5
    <3>2. r \in Range(rows)
      BY <3>1, <1>2 DEF RowsIn
    <3>3. PICK n \in DOMAIN rows : rows[n] = r
      BY <3>2 DEF Range
    <3> QED
      BY <3>1, <3>3
  <2>4. Leading(w, i, key, spid) = rows[Min(own)]
    BY DEF Leading
  <2>5. Min(own) \in own
    <3> HIDE DEF own
    <3> QED
      BY <2>2, <2>3, LeastOf
  <2> QED
    BY <2>4, <2>5
<1> QED
  BY <1>1, <1>3, <1>4, <1>5

LEMMA KnownIs ==
  ASSUME NEW w, Lived(w), NEW i \in 0 .. Len(w), NEW key, NEW spid
  PROVE  /\ Known(w, key, spid, i) \in SUBSET Executions(w, key)
         /\ IsFiniteSet(Known(w, key, spid, i))
         /\ \A r : r \in Known(w, key, spid, i) <=>
                     \E j \in 1 .. i : r \in RowsOf(w, j, key, spid)
         /\ i # 0 => Known(w, key, spid, i) = Known(w, key, spid, i - 1) \cup RowsOf(w, i, key, spid)
<1>1. Len(w) \in Nat /\ DOMAIN w = 1 .. Len(w) /\ i \in Nat /\ i <= Len(w)
  BY DEF Lived
<1>2. ASSUME NEW r
      PROVE  r \in Known(w, key, spid, i) <=> \E j \in 1 .. i : r \in RowsOf(w, j, key, spid)
  BY DEF Known, RowsOf, RowsIn
<1>3. Known(w, key, spid, i) \in SUBSET Executions(w, key)
  <2>1. \A j \in 1 .. i : j \in DOMAIN w
    BY <1>1
  <2> QED
    BY <2>1 DEF Known, Executions, RowsIn
<1>4. IsFiniteSet(Known(w, key, spid, i))
  BY <1>3, ExecutionsAreFinite, FS_Subset
<1>5. ASSUME i # 0
      PROVE  Known(w, key, spid, i) = Known(w, key, spid, i - 1) \cup RowsOf(w, i, key, spid)
  <2>1. 1 .. i = (1 .. i - 1) \cup {i}
    BY <1>1, <1>5
  <2> QED
    BY <2>1 DEF Known, RowsOf, RowsIn
<1> QED
  BY <1>2, <1>3, <1>4, <1>5

\* The ages of executions have sums.
LEMMA AgesAdd ==
  ASSUME NEW w, Lived(w), NEW key, NEW A \in SUBSET Executions(w, key)
  PROVE  /\ IsFiniteSet(A) /\ SumOn(Ages(w, key), A) \in Nat
         /\ \A r \in A : /\ Ages(w, key)[r] = LastSeen(w, r) /\ LastSeen(w, r) \in Nat
                         /\ SumOn(Ages(w, key), A) = LastSeen(w, r) + SumOn(Ages(w, key), A \ {r})
<1>1. IsFiniteSet(A) /\ IsFiniteSet(Executions(w, key))
  BY ExecutionsAreFinite, FS_Subset
<1>2. \A r \in Executions(w, key) : Ages(w, key)[r] = LastSeen(w, r) /\ Ages(w, key)[r] \in Nat
  BY ExecutionsAreFinite DEF Ages
<1>3. SumOn(Ages(w, key), A) \in Nat
  BY <1>1, <1>2, SumIsNat
<1>4. \A r \in A : SumOn(Ages(w, key), A) = Ages(w, key)[r] + SumOn(Ages(w, key), A \ {r})
  BY <1>1, <1>2, SumWithout
<1> QED
  BY <1>1, <1>2, <1>3, <1>4

LEMMA MaxOfTwo ==
  ASSUME NEW a \in Nat, NEW b \in Nat, a <= b
  PROVE  Max({a, b}) = b
<1>1. {a, b} \in SUBSET Int /\ b \in {a, b} /\ \A x \in {a, b} : b >= x
  OBVIOUS
<1> QED
  BY <1>1, MaxIs

\* Max finds one of a bounded set.
LEMMA GreatestIn ==
  ASSUME NEW b \in Nat, NEW S \in SUBSET (0 .. b), S # {}
  PROVE  Max(S) \in S
<1> DEFINE under == {b - x : x \in S}
           least == Min(under)
<1>1. under \in SUBSET Nat /\ under # {}
  <2>1. \A x \in S : b - x \in Nat
    OBVIOUS
  <2> QED
    BY <2>1
<1>2. least \in under /\ \A d \in under : least <= d
  <2> HIDE DEF under
  <2> QED
    BY <1>1, LeastOf
<1> HIDE DEF least
<1>3. PICK m \in S : least = b - m
  BY <1>2
<1>4. ASSUME NEW x \in S PROVE m >= x
  <2>1. b - m <= b - x
    BY <1>2, <1>3
  <2>2. m \in Int /\ x \in Int
    OBVIOUS
  <2> QED
    BY ONLY <2>1, <2>2, b \in Nat
<1>5. S \in SUBSET Int
  OBVIOUS
<1> QED
  BY <1>3, <1>4, <1>5, MaxIs

\* A run that has ended has been counted, with its counters.
LEMMA RunEnded ==
  ASSUME NEW run \in RunRecords
  PROVE  /\ EndRun(run) \in RunRecords
         /\ EndRun(run).runs = run.runs + 1 /\ EndRun(run).total = run.total + run.cpu
         /\ [EndRun(run) EXCEPT !.cpu = 0] \in RunRecords
         /\ [EndRun(run) EXCEPT !.cpu = 0].cpu = 0
         /\ [EndRun(run) EXCEPT !.cpu = 0].runs = run.runs + 1
         /\ [EndRun(run) EXCEPT !.cpu = 0].total = run.total + run.cpu
<1>1. run.runs + 1 \in Nat /\ run.total + run.cpu \in Nat
  BY DEF RunRecords
<1> DEFINE ended == EndRun(run)
<1>2. /\ ended \in RunRecords
      /\ ended.runs = run.runs + 1 /\ ended.total = run.total + run.cpu
  BY <1>1 DEF EndRun, RunRecords
<1> HIDE DEF ended
<1>3. /\ [ended EXCEPT !.cpu = 0] \in RunRecords
      /\ [ended EXCEPT !.cpu = 0].cpu = 0
      /\ [ended EXCEPT !.cpu = 0].runs = ended.runs
      /\ [ended EXCEPT !.cpu = 0].total = ended.total
  BY <1>2 DEF RunRecords
<1> QED
  BY <1>2, <1>3 DEF ended

\* The run that the rows of a tick join: the one there was, or one that begins.
Carried(w, i, key, spid, run) ==
  IF run.tick = 0 \/ Continues(w, i, Leading(w, i, key, spid), run) THEN run
  ELSE [EndRun(run) EXCEPT !.cpu = 0]

\* The largest counters of a run with them.
Reached(w, i, key, spid, run) ==
  Max({Carried(w, i, key, spid, run).cpu} \cup
      {Elapsed(w, i, r) : r \in RowsOf(w, i, key, spid)})

\* Rows of a tick make it the last one of the run.
LEMMA WalkedTo ==
  ASSUME NEW w, Lived(w), NEW i \in 1 .. Len(w), NEW key, NEW spid, NEW run \in RunRecords,
         RowsOf(w, i, key, spid) # {}
  PROVE  /\ Carried(w, i, key, spid, run) \in RunRecords
         /\ Walked(w, key, spid, run, i) \in RunRecords
         /\ Walked(w, key, spid, run, i).tick = i
         /\ Walked(w, key, spid, run, i).runs = Carried(w, i, key, spid, run).runs
         /\ Walked(w, key, spid, run, i).total = Carried(w, i, key, spid, run).total
         /\ Walked(w, key, spid, run, i).cpu = Reached(w, i, key, spid, run)
<1> DEFINE here == RowsOf(w, i, key, spid)
           walked == Walked(w, key, spid, run, i)
           cur == Carried(w, i, key, spid, run)
           most == Max({cur.cpu} \cup {Elapsed(w, i, r) : r \in here})
<1>1. i \in Nat /\ w[i].at \in Nat
  BY LivedTypes
<1>2. cur \in RunRecords
  <2>1. [EndRun(run) EXCEPT !.cpu = 0] \in RunRecords
    BY RunEnded
  <2> QED
    BY <2>1 DEF Carried
<1>3. walked = [cur EXCEPT !.tick = i, !.cpu = most]
  BY DEF Walked, Carried
<1>4. \A r \in here : Elapsed(w, i, r) \in 0 .. w[i].at
  BY RowsOfAre
<1> HIDE DEF cur, here, walked
<1>5. most \in Nat
  <2>1. cur.cpu \in Nat
    BY <1>2 DEF RunRecords
  <2> DEFINE b == cur.cpu + w[i].at
             S == {cur.cpu} \cup {Elapsed(w, i, r) : r \in here}
  <2>2. b \in Nat /\ cur.cpu \in 0 .. b /\ \A x \in 0 .. w[i].at : x \in 0 .. b
    BY <1>1, <2>1
  <2>3. S \in SUBSET (0 .. b) /\ S # {}
    BY <1>4, <2>2
  <2> HIDE DEF b
  <2>4. Max(S) \in S
    <3> HIDE DEF S
    <3> QED
      BY <2>2, <2>3, GreatestIn
  <2>5. Max(S) \in 0 .. b
    <3> HIDE DEF S
    <3> QED
      BY <2>3, <2>4
  <2> QED
    BY <2>2, <2>5
<1> HIDE DEF most
<1>6. /\ walked \in RunRecords /\ walked.tick = i
      /\ walked.runs = cur.runs /\ walked.total = cur.total /\ walked.cpu = most
  BY <1>1, <1>2, <1>3, <1>5 DEF RunRecords
<1> QED
  BY <1>2, <1>6 DEF Reached, cur, here, walked, most

\* A run begins at a row only if the execution is one that no tick before had.
LEMMA BeginsWithANewOne ==
  ASSUME NEW w, Lived(w), NEW i \in 1 .. Len(w), NEW key, NEW spid, NEW run,
         run.tick \in 1 .. i - 1,
         \A j \in run.tick + 1 .. i - 1 : RowsOf(w, j, key, spid) = {},
         NEW r \in RowsOf(w, i, key, spid), ~Continues(w, i, r, run)
  PROVE  r \notin Known(w, key, spid, i - 1)
<1> SUFFICES ASSUME r \in Known(w, key, spid, i - 1) PROVE FALSE
  OBVIOUS
<1>1. i \in Nat /\ i <= Len(w) /\ Len(w) \in Nat /\ run.tick \in Nat /\ run.tick >= 1 /\ run.tick <= i - 1
      /\ i > 1 /\ i \in 2 .. Len(w) /\ i - 1 \in 1 .. Len(w) /\ i - 1 \in 0 .. Len(w)
  BY LivedTypes
<1>2. PICK j \in 1 .. i - 1 : r \in RowsOf(w, j, key, spid)
  BY <1>1, KnownIs
<1>3. j \in 1 .. Len(w) /\ j \in 1 .. i /\ i - 1 \in j .. i
  BY <1>1
<1>4. r \in RowsIn(w, j) /\ r \in RowsIn(w, i) /\ r.shape = key /\ r.spid = spid
      /\ Elapsed(w, i, r) = w[i].at - r.asked
  BY <1>2, <1>3, RowsOfAre
<1>5. r \in RowsIn(w, i - 1)
  BY <1>3, <1>4, SeenBetween
<1>6. r \in RowsOf(w, i - 1, key, spid)
  BY <1>1, <1>4, <1>5, RowsOfAre
<1>7. run.tick = i - 1
  <2>1. ~(i - 1 \in run.tick + 1 .. i - 1)
    BY <1>6
  <2> QED
    BY <2>1, <1>1
<1>8. ~(Elapsed(w, i, r) >= Gap(w, i)) /\ Gap(w, i) = w[i].at - w[i - 1].at
  BY <1>1, <1>7 DEF Continues, Gap
<1>9. r.asked <= w[i - 1].at
  <2>1. r.asked <= r.began /\ r.began <= w[i - 1].at
    BY <1>1, <1>5 DEF Lived
  <2>2. r.asked \in Nat /\ r.began \in Nat /\ w[i - 1].at \in Nat
    BY <1>1, <1>5, LivedTypes
  <2> QED
    BY ONLY <2>1, <2>2
<1>10. w[i].at \in Nat /\ w[i - 1].at \in Nat /\ r.asked \in Nat
  BY <1>1, <1>4, LivedTypes
<1> QED
  BY ONLY <1>4, <1>8, <1>9, <1>10

\* Where executions come one by one, a run goes on with the execution it has, and
\* one that does not has counted it in full.
LEMMA WalkedOnPlainly ==
  ASSUME NEW w, Lived(w), NEW i \in 1 .. Len(w), NEW key, NEW spid, NEW run,
         RunIs(w, key, spid, i - 1, run), Plain(w, key, spid),
         RowsOf(w, i, key, spid) # {}
  PROVE  CountsEach(w, key, spid, i, Walked(w, key, spid, run, i))
<1> DEFINE before == Known(w, key, spid, i - 1)
           now == Known(w, key, spid, i)
           ages == Ages(w, key)
           here == RowsOf(w, i, key, spid)
           walked == Walked(w, key, spid, run, i)
<1>1. /\ i \in Nat /\ i >= 1 /\ i <= Len(w) /\ Len(w) \in Nat
      /\ i \in 0 .. Len(w) /\ i - 1 \in 0 .. Len(w) /\ i - 1 \in Nat /\ i # 0
  BY LivedTypes
<1>2. /\ now = before \cup here
      /\ now \in SUBSET Executions(w, key) /\ before \in SUBSET Executions(w, key)
      /\ IsFiniteSet(before)
      /\ \A r : r \in before <=> \E j \in 1 .. i - 1 : r \in RowsOf(w, j, key, spid)
  BY <1>1, KnownIs
<1>3. /\ run \in RunRecords /\ run.tick <= i - 1
      /\ run.tick \in Nat /\ run.cpu \in Nat /\ run.runs \in Nat /\ run.total \in Nat
      /\ \A j \in run.tick + 1 .. i - 1 : RowsOf(w, j, key, spid) = {}
      /\ run.tick = 0 => run = NoRun
  BY DEF RunIs, RunRecords
<1>4. RowsOf(w, i, key, spid) # {}
  OBVIOUS
<1>5. PICK r \in here : r = Leading(w, i, key, spid)
  BY <1>4, RowsOfAre
<1>6. /\ here = {r} /\ r \in RowsIn(w, i) /\ r.shape = key /\ r.spid = spid
      /\ r.began = r.asked /\ r \in here
      /\ Elapsed(w, i, r) = w[i].at - r.began /\ Elapsed(w, i, r) \in Nat
  <2>1. r.began = r.asked /\ \A s \in here : s = r
    BY DEF Plain
  <2>2. /\ r \in RowsIn(w, i) /\ r.shape = key /\ r.spid = spid
        /\ Elapsed(w, i, r) = w[i].at - r.asked /\ Elapsed(w, i, r) \in 0 .. w[i].at
    BY RowsOfAre
  <2> QED
    BY <2>1, <2>2
<1> DEFINE goes == run.tick = 0 \/ Continues(w, i, r, run)
           cur == Carried(w, i, key, spid, run)
<1>7. cur = IF goes THEN run ELSE [EndRun(run) EXCEPT !.cpu = 0]
  BY <1>5 DEF Carried
<1>8. /\ walked \in RunRecords /\ walked.tick = i
      /\ walked.runs = cur.runs /\ walked.total = cur.total
      /\ walked.cpu = Max({cur.cpu, Elapsed(w, i, r)})
      /\ cur \in RunRecords
  <2>1. /\ cur \in RunRecords
        /\ walked \in RunRecords /\ walked.tick = i
        /\ walked.runs = cur.runs /\ walked.total = cur.total
        /\ walked.cpu = Reached(w, i, key, spid, run)
    BY <1>3, <1>4, WalkedTo
  <2>2. Reached(w, i, key, spid, run) = Max({cur.cpu} \cup {Elapsed(w, i, s) : s \in here})
    BY DEF Reached
  <2> HIDE DEF here, cur, walked
  <2>3. {Elapsed(w, i, s) : s \in here} = {Elapsed(w, i, r)}
    BY <1>6
  <2>4. {cur.cpu} \cup {Elapsed(w, i, s) : s \in here} = {cur.cpu, Elapsed(w, i, r)}
    BY <2>3
  <2> QED
    BY <2>1, <2>2, <2>4
<1>9. cur \in RunRecords
  BY <1>8
<1> HIDE DEF cur, walked, here, now, before, ages
<1>10. ASSUME cur.cpu <= Elapsed(w, i, r),
             cur.runs + 1 = Cardinality(now), cur.total = SumOn(ages, now \ {r})
      PROVE  CountsEach(w, key, spid, i, Walked(w, key, spid, run, i))
  <2>1. cur.cpu \in Nat /\ cur.runs \in Nat /\ cur.total \in Nat
    BY <1>9 DEF RunRecords
  <2>2. walked.cpu = Elapsed(w, i, r)
    BY <2>1, <1>6, <1>8, <1>10, MaxOfTwo
  <2>3. r \in RowsOf(w, walked.tick, key, spid)
    BY <1>6, <1>8 DEF here
  <2>4. CountsEach(w, key, spid, i, walked)
    BY <2>2, <2>3, <1>8, <1>10 DEF CountsEach, now, ages
  <2> QED
    BY <2>4 DEF walked
<1>11. CASE run.tick = 0
  <2>1. before = {}
    <3>1. \A j \in 1 .. i - 1 : RowsOf(w, j, key, spid) = {}
      BY <1>11, <1>1, <1>3
    <3> QED
      BY <3>1, <1>2
  <2>2. now = {r} /\ now \ {r} = {}
    BY <2>1, <1>6, <1>2
  <2>3. cur.cpu = 0 /\ cur.runs = 0 /\ cur.total = 0
    BY <1>7, <1>11, <1>3 DEF NoRun
  <2>4. Cardinality(now) = 1
    BY <2>2, FS_Singleton
  <2>5. SumOn(ages, now \ {r}) = 0
    BY <2>2, SumOfNone
  <2>6. cur.cpu <= Elapsed(w, i, r)
    BY <2>3, <1>6
  <2> QED
    BY <2>3, <2>4, <2>5, <2>6, <1>10
<1>12. CASE run.tick # 0
  <2>1. PICK c \in RowsOf(w, run.tick, key, spid) :
          /\ run.cpu = Elapsed(w, run.tick, c)
          /\ run.runs + 1 = Cardinality(before)
          /\ run.total = SumOn(ages, before \ {c})
    BY <1>12 DEF RunIs, CountsEach, before, ages
  <2> DEFINE t == run.tick
  <2>2. t \in 1 .. Len(w) /\ t \in 1 .. i - 1 /\ t < i /\ t \in Nat
    BY <1>12, <1>1, <1>3
  <2>3. /\ c \in RowsIn(w, t) /\ c.shape = key /\ c.spid = spid
        /\ RowsOf(w, t, key, spid) = {c}
        /\ run.cpu = w[t].at - c.asked /\ c.began = c.asked /\ c \in before
    <3>1. c \in RowsOf(w, t, key, spid)
      BY <2>1
    <3>2. c.began = c.asked /\ \A e \in RowsOf(w, t, key, spid) : e = c
      BY <3>1, <2>2 DEF Plain
    <3> QED
      BY <3>1, <3>2, <2>1, <2>2, <1>2, RowsOfAre
  <2>4. /\ w[t].at \in Nat /\ w[i].at \in Nat /\ c.began \in Nat /\ r.began \in Nat
        /\ c.began <= w[t].at
    BY <2>2, <2>3, <1>6, LivedTypes DEF Lived
  <2>5. w[t].at < w[i].at
    BY <2>2 DEF Lived
  <2> HIDE DEF t
  <2>6. CASE Continues(w, i, r, run)
    <3>1. t = i - 1 /\ Elapsed(w, i, r) >= Gap(w, i)
      BY <2>6 DEF Continues, t
    <3>2. Gap(w, i) = w[i].at - w[t].at
      BY <3>1, <2>2, <1>1 DEF Gap
    <3>3. r.began <= w[t].at
      BY <3>1, <3>2, <2>4, <1>6
    <3>4. r \in RowsIn(w, t)
      <4>1. i \in 2 .. Len(w)
        BY <2>2, <1>1
      <4>2. r \in RowsIn(w, i - 1) \/ r.began > w[i - 1].at
        BY <4>1, <1>6 DEF Lived
      <4> QED
        BY <4>2, <3>1, <3>3, <2>4
    <3>5. r = c
      BY <3>4, <2>2, <2>3, <1>6, RowsOfAre
    <3>6. now = before
      BY <3>5, <2>3, <1>6, <1>2
    <3>7. cur = run
      BY <1>7, <2>6
    <3>8. cur.cpu <= Elapsed(w, i, r)
      BY <3>5, <3>7, <2>3, <2>4, <2>5, <1>6
    <3> QED
      BY <3>5, <3>6, <3>7, <3>8, <2>1, <1>10
  <2>7. CASE ~Continues(w, i, r, run)
    <3>1. ~goes /\ cur = [EndRun(run) EXCEPT !.cpu = 0]
      BY <1>7, <2>7, <1>12
    <3>2. cur.cpu = 0 /\ cur.runs = run.runs + 1 /\ cur.total = run.total + run.cpu
      BY <3>1, <1>3, RunEnded
    <3>3. t + 1 \in 1 .. Len(w) /\ t + 1 <= i /\ t \in 1 .. (t + 1)
      BY <2>2, <1>1
    <3>4. c \notin RowsIn(w, t + 1)
      <4>1. CASE t = i - 1
        <5>1. ~(Elapsed(w, i, r) >= Gap(w, i)) /\ i > 1 /\ t + 1 = i
          BY <4>1, <2>2, <2>7, <1>1 DEF Continues, t
        <5>2. Gap(w, i) = w[i].at - w[t].at
          BY <5>1, <4>1 DEF Gap
        <5>3. r.began > w[t].at
          BY <5>1, <5>2, <2>4, <1>6
        <5>4. r # c
          BY <5>3, <2>4
        <5> QED
          <6>1. i \in 1 .. Len(w) /\ here = {e \in RowsIn(w, i) : e.shape = key /\ e.spid = spid}
            BY RowsOfAre DEF here
          <6> QED
            BY <6>1, <5>1, <5>4, <2>3, <1>6
      <4>2. CASE t # i - 1
        <5>1. t + 1 \in run.tick + 1 .. i - 1
          BY <4>2, <2>2, <1>1 DEF t
        <5>2. RowsOf(w, t + 1, key, spid) = {}
          BY <5>1, <1>3
        <5> QED
          BY <5>2, <2>3 DEF RowsOf, RowsIn
      <4> QED
        BY <4>1, <4>2
    <3>5. \A j \in t + 1 .. Len(w) : c \notin RowsIn(w, j)
      <4> SUFFICES ASSUME NEW j \in t + 1 .. Len(w) PROVE c \notin RowsIn(w, j)
        OBVIOUS
      <4>1. j \in 1 .. Len(w) /\ t \in 1 .. j - 1
        BY <2>2, <1>1
      <4> QED
        BY <4>1, <3>4, <2>3, OverIsOver
    <3>6. LastSeen(w, c) = run.cpu
      BY <3>5, <2>2, <2>3, LastSeenIs
    <3>7. r # c
      <4>1. i \in t + 1 .. Len(w)
        BY <3>3, <1>1
      <4> QED
        BY <4>1, <3>5, <1>6
    <3>8. r \notin before
      <4>1. run.tick \in 1 .. i - 1 /\ r \in RowsOf(w, i, key, spid)
        BY <2>2, <1>6 DEF t, here
      <4> QED
        BY <4>1, <2>7, <1>3, BeginsWithANewOne DEF before
    <3>9. now = before \cup {r} /\ now \ {r} = before
      BY <3>8, <1>6, <1>2
    <3>10. Cardinality(now) = Cardinality(before) + 1
      BY <3>8, <3>9, <1>2, FS_AddElement
    <3>11. SumOn(ages, before) = LastSeen(w, c) + SumOn(ages, before \ {c})
      BY <2>3, <1>2, AgesAdd DEF ages
    <3>12. cur.total = SumOn(ages, now \ {r})
      <4>1. run.total \in Nat /\ run.cpu \in Nat
        BY <1>3
      <4>2. SumOn(ages, before) = run.cpu + run.total
        BY <3>6, <3>11, <2>1
      <4>3. cur.total = SumOn(ages, before)
        BY ONLY <4>1, <4>2, <3>2
      <4> QED
        BY <4>3, <3>9
    <3>13. cur.runs + 1 = Cardinality(now)
      BY <3>2, <3>10, <2>1
    <3>14. cur.cpu <= Elapsed(w, i, r)
      BY <3>2, <1>6
    <3> QED
      BY <3>12, <3>13, <3>14, <1>10
  <2> QED
    BY <2>6, <2>7
<1> QED
  BY <1>11, <1>12

\* The walk of a tick keeps the run of a session what it should be: a row where
\* there was none, or another execution, begins a run of its own.
LEMMA WalkedOn ==
  ASSUME NEW w, Lived(w), NEW i \in 1 .. Len(w), NEW key, NEW spid, NEW run,
         RunIs(w, key, spid, i - 1, run)
  PROVE  RunIs(w, key, spid, i, Walked(w, key, spid, run, i))
<1> DEFINE before == Known(w, key, spid, i - 1)
           now == Known(w, key, spid, i)
           here == RowsOf(w, i, key, spid)
           walked == Walked(w, key, spid, run, i)
<1>1. /\ i \in Nat /\ i >= 1 /\ i <= Len(w) /\ Len(w) \in Nat
      /\ i \in 0 .. Len(w) /\ i - 1 \in 0 .. Len(w) /\ i - 1 \in Nat /\ i # 0
  BY LivedTypes
<1>2. /\ now = before \cup here
      /\ IsFiniteSet(before) /\ IsFiniteSet(now)
  BY <1>1, KnownIs
<1>3. /\ run \in RunRecords /\ run.tick <= i - 1
      /\ run.tick \in Nat /\ run.cpu \in Nat /\ run.runs \in Nat /\ run.total \in Nat
      /\ \A j \in run.tick + 1 .. i - 1 : RowsOf(w, j, key, spid) = {}
      /\ run.tick = 0 => run = NoRun
  BY DEF RunIs, RunRecords
<1>4. CASE here = {}
  <2>1. walked = run /\ now = before
    BY <1>2, <1>4 DEF Walked
  <2>2. \A j \in run.tick + 1 .. i : RowsOf(w, j, key, spid) = {}
    <3> SUFFICES ASSUME NEW j \in run.tick + 1 .. i PROVE RowsOf(w, j, key, spid) = {}
      OBVIOUS
    <3>1. j = i \/ j \in run.tick + 1 .. i - 1
      BY <1>1, <1>3
    <3> QED
      BY <3>1, <1>3, <1>4
  <2>3. run.tick <= i
    BY <1>1, <1>3
  <2> HIDE DEF walked
  <2>4. run.tick # 0 =>
          /\ RowsOf(w, run.tick, key, spid) # {}
          /\ run.runs + 1 <= Cardinality(now)
          /\ Plain(w, key, spid) => CountsEach(w, key, spid, i, run)
    BY <2>1 DEF RunIs, CountsEach
  <2>5. RunIs(w, key, spid, i, run)
    BY <2>2, <2>3, <2>4, <1>3 DEF RunIs
  <2> QED
    BY <2>1, <2>5 DEF walked
<1>5. CASE here # {}
  <2> DEFINE lead == Leading(w, i, key, spid)
             cur == Carried(w, i, key, spid, run)
  <2>1. lead \in here
    BY <1>5, RowsOfAre
  <2>2. walked \in RunRecords /\ walked.tick = i /\ walked.runs = cur.runs
    BY <1>3, <1>5, WalkedTo
  <2>3. Plain(w, key, spid) => CountsEach(w, key, spid, i, walked)
    BY <1>5, WalkedOnPlainly
  <2>0. cur = IF run.tick = 0 \/ Continues(w, i, lead, run) THEN run
              ELSE [EndRun(run) EXCEPT !.cpu = 0]
    BY DEF Carried
  <2> HIDE DEF walked, here, lead, cur
  <2>4. cur.runs + 1 <= Cardinality(now)
    <3>0. lead \in now /\ before \in SUBSET now
      BY <2>1, <1>2
    <3> HIDE DEF before, now
    <3>1. Cardinality(before) \in Nat /\ Cardinality(now) \in Nat
      BY <1>2, FS_CardinalityType
    <3>2. Cardinality(before) <= Cardinality(now)
      BY <3>0, <1>2, FS_Subset
    <3>3. CASE run.tick = 0
      <4>1. cur.runs = 0
        BY <2>0, <3>3, <1>3 DEF NoRun
      <4>2. Cardinality(now) # 0
        BY <3>0, <1>2, FS_EmptySet
      <4> QED
        BY <4>1, <4>2, <3>1
    <3>4. CASE run.tick # 0 /\ Continues(w, i, lead, run)
      <4>1. cur.runs = run.runs
        BY <2>0, <3>4
      <4>2. run.runs + 1 <= Cardinality(before)
        BY <3>4 DEF RunIs, before
      <4> QED
        BY ONLY <4>1, <4>2, <3>1, <3>2, <1>3
    <3>5. CASE run.tick # 0 /\ ~Continues(w, i, lead, run)
      <4>1. cur.runs = run.runs + 1
        BY <2>0, <3>5, <1>3, RunEnded
      <4>2. run.runs + 1 <= Cardinality(before)
        BY <3>5 DEF RunIs, before
      <4>3. lead \notin before
        <5>1. run.tick \in 1 .. i - 1 /\ lead \in RowsOf(w, i, key, spid)
          BY <3>5, <1>1, <1>3, <2>1 DEF here
        <5> QED
          BY <5>1, <3>5, <1>3, BeginsWithANewOne DEF before
      <4>4. Cardinality(before \cup {lead}) = Cardinality(before) + 1
        BY <4>3, <1>2, FS_AddElement
      <4>5. Cardinality(before \cup {lead}) <= Cardinality(now)
        <5>1. before \cup {lead} \in SUBSET now
          BY <3>0
        <5> QED
          BY <5>1, <1>2, FS_Subset
      <4> QED
        BY ONLY <4>1, <4>2, <4>4, <4>5, <3>1, <1>3
    <3> QED
      BY <3>3, <3>4, <3>5
  <2>5. \A j \in walked.tick + 1 .. i : RowsOf(w, j, key, spid) = {}
    BY <2>2, <1>1
  <2>6. RowsOf(w, walked.tick, key, spid) # {}
    BY <2>2, <1>5 DEF here
  <2>7. walked.runs + 1 <= Cardinality(Known(w, key, spid, i))
    BY <2>2, <2>4
  <2>8. walked.tick <= i /\ walked.tick # 0
    BY <2>2, <1>1
  <2>9. RunIs(w, key, spid, i, walked)
    BY <2>2, <2>3, <2>5, <2>6, <2>7, <2>8 DEF RunIs
  <2> QED
    BY <2>9 DEF walked
<1> QED
  BY <1>4, <1>5

\* The walk over the ticks keeps the run of a session what it should be.
LEMMA WalkIs ==
  ASSUME NEW w, Lived(w), NEW key, NEW spid
  PROVE  \E last : /\ RunIs(w, key, spid, Len(w), last)
                   /\ Runs(w, key, spid) = IF last.tick = 0 THEN NoRun ELSE EndRun(last)
<1> DEFINE n == Len(w)
           Walks(f, m) == /\ f = [i \in 0 .. m |-> f[i]] /\ f[0] = NoRun
                          /\ \A i \in 1 .. m : f[i] = Walked(w, key, spid, f[i - 1], i)
           none == {m \in 0 .. n : \A f : ~Walks(f, m)}
<1>1. n \in Nat
  BY DEF Lived
<1> HIDE DEF n
<1>2. none = {}
  <2>1. ASSUME NEW m \in none PROVE \E j \in none : j < m
    <3>1. CASE m = 0
      <4>1. Walks([i \in 0 .. 0 |-> NoRun], 0)
        OBVIOUS
      <4> QED
        BY <4>1, <3>1
    <3>2. CASE m # 0
      <4>1. m \in Nat /\ m - 1 \in 0 .. n /\ m \in 1 .. n /\ m - 1 < m
        BY <1>1, <3>2
      <4> SUFFICES ASSUME m - 1 \notin none PROVE FALSE
        BY <4>1
      <4>2. PICK f : Walks(f, m - 1)
        BY <4>1
      <4> DEFINE g == [i \in 0 .. m |->
                         IF i = m THEN Walked(w, key, spid, f[m - 1], m) ELSE f[i]]
      <4>3. g = [i \in 0 .. m |-> g[i]]
        OBVIOUS
      <4>4. g[0] = NoRun
        BY <4>1, <4>2, <3>2
      <4>5. ASSUME NEW i \in 1 .. m PROVE g[i] = Walked(w, key, spid, g[i - 1], i)
        <5>1. i - 1 \in 0 .. m /\ i - 1 # m /\ i \in 0 .. m
          BY <4>1
        <5>2. g[i - 1] = f[i - 1]
          BY <5>1
        <5>3. CASE i = m
          BY <5>1, <5>2, <5>3
        <5>4. CASE i # m
          <6>1. i \in 1 .. m - 1
            BY <5>4, <4>1
          <6> QED
            BY <6>1, <5>1, <5>2, <5>4, <4>2
        <5> QED
          BY <5>3, <5>4
      <4> HIDE DEF g
      <4>6. Walks(g, m)
        BY <4>3, <4>4, <4>5
      <4> QED
        BY <4>6
    <3> QED
      BY <3>1, <3>2
  <2>2. none \in SUBSET (0 .. n)
    OBVIOUS
  <2> HIDE DEF none
  <2> QED
    BY <2>1, <2>2, <1>1, NoneIsFirst
<1>3. PICK f : Walks(f, n)
  <2>1. n \in 0 .. n
    BY <1>1
  <2>2. n \notin none
    BY ONLY <1>2
  <2> HIDE DEF Walks
  <2> QED
    BY <2>1, <2>2
<1> DEFINE Eq(g) == g = [i \in 0 .. n |->
                           IF i = 0 THEN NoRun ELSE Walked(w, key, spid, g[i - 1], i)]
           u == CHOOSE g : Eq(g)
<1>4. Eq(f)
  <2>1. ASSUME NEW i \in 0 .. n
        PROVE  f[i] = IF i = 0 THEN NoRun ELSE Walked(w, key, spid, f[i - 1], i)
    <3>1. i = 0 \/ i \in 1 .. n
      BY <1>1
    <3> QED
      BY <3>1, <1>3
  <2>2. f = [i \in 0 .. n |-> f[i]]
    BY <1>3
  <2> QED
    BY <2>1, <2>2
<1>5. Eq(u)
  <2> HIDE DEF Eq
  <2> QED
    BY <1>4
<1>6. Runs(w, key, spid) = IF u[n].tick = 0 THEN NoRun ELSE EndRun(u[n])
  BY DEF Runs, n
<1> HIDE DEF u
<1>7. \A i \in 0 .. n : u[i] = IF i = 0 THEN NoRun ELSE Walked(w, key, spid, u[i - 1], i)
  BY <1>5
<1> DEFINE off == {i \in 0 .. n : ~RunIs(w, key, spid, i, u[i])}
<1>8. off = {}
  <2>1. ASSUME NEW i \in off PROVE \E j \in off : j < i
    <3>1. CASE i = 0
      <4>1. u[0] = NoRun
        BY <1>7, <3>1
      <4>2. NoRun \in RunRecords /\ NoRun.tick = 0
        BY DEF NoRun, RunRecords
      <4>3. RunIs(w, key, spid, 0, NoRun)
        BY <4>2 DEF RunIs
      <4> QED
        BY <4>1, <4>3, <3>1
    <3>2. CASE i # 0
      <4>1. i \in 1 .. n /\ i - 1 \in 0 .. n /\ i - 1 < i
        BY <1>1, <3>2
      <4>2. u[i] = Walked(w, key, spid, u[i - 1], i)
        BY <1>7, <3>2
      <4>3. ~RunIs(w, key, spid, i - 1, u[i - 1])
        BY <4>1, <4>2, WalkedOn DEF n
      <4> QED
        BY <4>1, <4>3
    <3> QED
      BY <3>1, <3>2
  <2>2. off \in SUBSET (0 .. n)
    OBVIOUS
  <2> HIDE DEF off
  <2> QED
    BY <2>1, <2>2, <1>1, NoneIsFirst
<1>9. RunIs(w, key, spid, n, u[n])
  <2>1. n \in 0 .. n
    BY <1>1
  <2> QED
    BY <2>1, <1>8
<1> QED
  BY <1>6, <1>9 DEF n

\* The walk counts no more than the executions of one session, and where they
\* come one by one all of them, each with its counters.
LEMMA RunsAre ==
  ASSUME NEW w, Lived(w), NEW key, NEW spid
  PROVE  LET own == Known(w, key, spid, Len(w))
             made == Runs(w, key, spid)
         IN  /\ made.runs \in Nat /\ made.total \in Nat
             /\ made.runs <= Cardinality(own)
             /\ made.runs > 0 <=> own # {}
             /\ Plain(w, key, spid) => /\ made.runs = Cardinality(own)
                                       /\ made.total = SumOn(Ages(w, key), own)
<1> DEFINE n == Len(w)
           own == Known(w, key, spid, n)
           made == Runs(w, key, spid)
           ages == Ages(w, key)
<1>1. PICK last : /\ RunIs(w, key, spid, n, last)
                  /\ made = IF last.tick = 0 THEN NoRun ELSE EndRun(last)
  BY WalkIs
<1>2. /\ last \in RunRecords /\ last.tick <= n
      /\ last.tick \in Nat /\ last.cpu \in Nat /\ last.runs \in Nat /\ last.total \in Nat
      /\ \A j \in last.tick + 1 .. n : RowsOf(w, j, key, spid) = {}
  BY <1>1 DEF RunIs, RunRecords
<1>3. n \in Nat /\ n \in 0 .. n
  BY DEF Lived
<1>4. /\ own \in SUBSET Executions(w, key)
      /\ \A r : r \in own <=> \E j \in 1 .. n : r \in RowsOf(w, j, key, spid)
  BY <1>3, KnownIs
<1>5. CASE last.tick = 0
  <2>1. own = {}
    BY <1>2, <1>4, <1>5
  <2>2. made.runs = 0 /\ made.total = 0
    BY <1>1, <1>5 DEF NoRun
  <2>3. Cardinality(own) = 0
    BY <2>1, FS_EmptySet
  <2>4. SumOn(ages, own) = 0
    BY <2>1, SumOfNone
  <2> QED
    BY <2>1, <2>2, <2>3, <2>4
<1>6. CASE last.tick # 0
  <2> DEFINE t == last.tick
  <2>1. made.runs = last.runs + 1 /\ made.total = last.total + last.cpu
    BY <1>1, <1>2, <1>6, RunEnded
  <2>2. t \in 1 .. n /\ t \in Nat
    BY <1>2, <1>3, <1>6
  <2>3. last.runs + 1 <= Cardinality(own) /\ RowsOf(w, t, key, spid) # {}
    BY <1>1, <1>6 DEF RunIs
  <2>4. own # {}
    BY <2>2, <2>3, <1>4
  <2>5. ASSUME Plain(w, key, spid)
        PROVE  made.runs = Cardinality(own) /\ made.total = SumOn(ages, own)
    <3>1. PICK r \in RowsOf(w, t, key, spid) :
            /\ last.cpu = Elapsed(w, t, r)
            /\ last.runs + 1 = Cardinality(own)
            /\ last.total = SumOn(ages, own \ {r})
      BY <1>1, <1>6, <2>5 DEF RunIs, CountsEach
    <3> HIDE DEF own, ages, made
    <3>2. /\ r \in RowsIn(w, t) /\ r.shape = key /\ r.spid = spid
          /\ last.cpu = w[t].at - r.asked
      BY <3>1, <2>2, RowsOfAre
    <3>3. r \in own
      BY <3>1, <2>2, <1>4
    <3>4. \A j \in t + 1 .. n : r \notin RowsIn(w, j)
      BY <1>2, <3>2 DEF RowsOf, RowsIn
    <3>5. LastSeen(w, r) = last.cpu
      BY <2>2, <3>2, <3>4, LastSeenIs
    <3>6. SumOn(ages, own) = LastSeen(w, r) + SumOn(ages, own \ {r})
      BY <3>3, <1>4, AgesAdd DEF ages
    <3>7. SumOn(ages, own) = last.cpu + last.total
      BY <3>1, <3>5, <3>6
    <3>8. made.total = SumOn(ages, own)
      BY ONLY <2>1, <3>7, <1>2
    <3> QED
      BY <3>1, <3>8, <2>1
  <2>6. made.runs \in Nat /\ made.total \in Nat /\ made.runs > 0
    BY <2>1, <1>2
  <2> QED
    BY <2>1, <2>3, <2>4, <2>5, <2>6
<1> QED
  BY <1>5, <1>6

\* What is counted over the sessions is no more than the executions of all of
\* them, and what they add up to where they come one by one.
LEMMA SeenIs ==
  ASSUME NEW w, Lived(w), NEW key
  PROVE  LET those == Executions(w, key)
             seen  == Seen(w, key)
         IN  /\ seen.runs <= Cardinality(those)
             /\ seen.sessions = Cardinality({r.spid : r \in those})
             /\ OneByOne(w, key) =>
                  /\ seen.runs = Cardinality(those)
                  /\ seen.cpu = SumFunction([r \in those |-> LastSeen(w, r)])
<1> DEFINE E == Executions(w, key)
           ages == Ages(w, key)
           own(s) == Known(w, key, s, Len(w))
           runs == [s \in Sessions |-> Runs(w, key, s).runs]
           cpu == [s \in Sessions |-> Runs(w, key, s).total]
           those(T) == {r \in E : r.spid \in T}
           Adds(T) == /\ SumOn(runs, T) \in Nat /\ SumOn(runs, T) <= Cardinality(those(T))
                      /\ OneByOne(w, key) => /\ SumOn(runs, T) = Cardinality(those(T))
                                             /\ SumOn(cpu, T) = SumOn(ages, those(T))
           bad == {T \in SUBSET Sessions : ~Adds(T)}
<1>1. IsFiniteSet(Sessions)
  BY WindowAssumption
<1>2. IsFiniteSet(E) /\ \A r \in E : r.spid \in Sessions
  BY ExecutionsAreFinite
<1>3. ASSUME NEW s \in Sessions
      PROVE  /\ own(s) = {r \in E : r.spid = s}
             /\ IsFiniteSet(own(s)) /\ Cardinality(own(s)) \in Nat
             /\ SumOn(ages, own(s)) \in Nat
             /\ runs[s] \in Nat /\ cpu[s] \in Nat /\ runs[s] <= Cardinality(own(s))
             /\ runs[s] > 0 <=> own(s) # {}
             /\ OneByOne(w, key) => runs[s] = Cardinality(own(s)) /\ cpu[s] = SumOn(ages, own(s))
  <2>1. Len(w) \in Nat /\ DOMAIN w = 1 .. Len(w) /\ Len(w) \in 0 .. Len(w)
    BY DEF Lived
  <2>2. own(s) = {r \in E : r.spid = s}
    BY <2>1 DEF Known, Executions, RowsIn
  <2>3. own(s) \in SUBSET E /\ IsFiniteSet(own(s))
    BY <2>1, KnownIs
  <2>4. Cardinality(own(s)) \in Nat
    BY <2>3, FS_CardinalityType
  <2>5. SumOn(ages, own(s)) \in Nat
    BY <2>3, AgesAdd
  <2>6. OneByOne(w, key) => Plain(w, key, s)
    <3> SUFFICES ASSUME OneByOne(w, key), NEW i \in 1 .. Len(w), NEW r \in RowsOf(w, i, key, s)
                 PROVE  r.began = r.asked /\ \A e \in RowsOf(w, i, key, s) : e = r
      BY DEF Plain
    <3>1. r \in Executions(w, key) /\ i \in DOMAIN w
      BY <2>1 DEF RowsOf, Executions
    <3> QED
      BY <3>1 DEF OneByOne, RowsOf
  <2>7. /\ runs[s] \in Nat /\ cpu[s] \in Nat /\ runs[s] <= Cardinality(own(s))
        /\ runs[s] > 0 <=> own(s) # {}
        /\ OneByOne(w, key) => runs[s] = Cardinality(own(s)) /\ cpu[s] = SumOn(ages, own(s))
    BY <2>6, RunsAre
  <2> QED
    BY <2>2, <2>3, <2>4, <2>5, <2>7
<1>4. ASSUME NEW T \in SUBSET Sessions
      PROVE  those(T) \in SUBSET E /\ IsFiniteSet(those(T)) /\ SumOn(ages, those(T)) \in Nat
  <2>1. those(T) \in SUBSET E
    OBVIOUS
  <2> HIDE DEF those
  <2> QED
    BY <2>1, AgesAdd
<1>5. \A r \in E : ages[r] \in Nat
  BY ExecutionsAreFinite DEF Ages
<1> HIDE DEF E, ages, own, runs, cpu
<1>6. bad = {}
  <2>1. ASSUME NEW T \in bad PROVE \E x \in T : T \ {x} \in bad
    <3>0. T \in SUBSET Sessions /\ ~Adds(T)
      OBVIOUS
    <3>1. T # {}
      <4> SUFFICES ASSUME T = {} PROVE FALSE
        OBVIOUS
      <4>1. those(T) = {}
        OBVIOUS
      <4> HIDE DEF those
      <4>2. Cardinality(those(T)) = 0 /\ SumOn(ages, those(T)) = 0
        BY <4>1, FS_EmptySet, SumOfNone
      <4>3. SumOn(runs, T) = 0 /\ SumOn(cpu, T) = 0
        BY SumOfNone
      <4> QED
        BY <4>2, <4>3, <3>0
    <3>2. PICK x \in T : TRUE
      BY <3>1
    <3> DEFINE U == T \ {x}
    <3>3. x \in Sessions /\ U \in SUBSET Sessions
      BY <3>0, <3>2
    <3> SUFFICES ASSUME Adds(U) PROVE FALSE
      <4> HIDE DEF Adds
      <4> QED
        BY <3>2, <3>3
    <3>4. those(T) = those(U) \cup own(x) /\ those(U) \cap own(x) = {}
      BY <3>2, <3>3, <1>3
    <3>5. /\ SumOn(runs, T) = runs[x] + SumOn(runs, U)
          /\ SumOn(cpu, T) = cpu[x] + SumOn(cpu, U)
      <4>1. (\A s \in Sessions : runs[s] \in Nat) /\ (\A s \in Sessions : cpu[s] \in Nat)
        BY <1>3
      <4> QED
        BY <4>1, <3>0, <3>2, <1>1, SumWithout
    <3>6. /\ those(U) \in SUBSET E /\ IsFiniteSet(those(U))
          /\ IsFiniteSet(own(x)) /\ own(x) \in SUBSET E
      BY <3>3, <1>3, <1>4
    <3>7. /\ SumOn(runs, U) \in Nat /\ SumOn(runs, U) <= Cardinality(those(U))
          /\ OneByOne(w, key) => /\ SumOn(runs, U) = Cardinality(those(U))
                                 /\ SumOn(cpu, U) = SumOn(ages, those(U))
      OBVIOUS
    <3> HIDE DEF those, U
    <3>8. Cardinality(those(T)) = Cardinality(those(U)) + Cardinality(own(x))
      <4>1. /\ Cardinality(those(U) \cup own(x))
                 = Cardinality(those(U)) + Cardinality(own(x)) - Cardinality(those(U) \cap own(x))
        BY <3>6, FS_Union
      <4>2. Cardinality(those(U) \cap own(x)) = 0
        BY <3>4, FS_EmptySet
      <4>3. Cardinality(those(U)) \in Nat /\ Cardinality(own(x)) \in Nat
        BY <3>6, FS_CardinalityType
      <4> QED
        BY <4>1, <4>2, <4>3, <3>4
    <3>9. SumOn(ages, those(T)) = SumOn(ages, those(U)) + SumOn(ages, own(x))
      <4>1. \A r \in those(U) \cup own(x) : ages[r] \in Nat
        BY <3>6, <1>5
      <4> QED
        BY <4>1, <3>4, <3>6, SumOfBoth
    <3>10. /\ runs[x] \in Nat /\ runs[x] <= Cardinality(own(x))
           /\ OneByOne(w, key) => runs[x] = Cardinality(own(x)) /\ cpu[x] = SumOn(ages, own(x))
      BY <3>3, <1>3
    <3>11. /\ Cardinality(those(U)) \in Nat /\ Cardinality(own(x)) \in Nat
           /\ SumOn(ages, those(U)) \in Nat /\ SumOn(ages, own(x)) \in Nat
      BY <3>3, <3>6, <1>3, <1>4, FS_CardinalityType
    <3>12. SumOn(runs, T) \in Nat /\ SumOn(runs, T) <= Cardinality(those(T))
      BY ONLY <3>5, <3>7, <3>8, <3>10, <3>11
    <3>13. OneByOne(w, key) =>
             SumOn(runs, T) = Cardinality(those(T)) /\ SumOn(cpu, T) = SumOn(ages, those(T))
      BY ONLY <3>5, <3>7, <3>8, <3>9, <3>10, <3>11
    <3> QED
      BY <3>0, <3>12, <3>13
  <2>2. bad \in SUBSET (SUBSET Sessions)
    OBVIOUS
  <2> HIDE DEF bad
  <2> QED
    BY <2>1, <2>2, <1>1, NoneIsLeast
<1>7. Adds(Sessions) /\ those(Sessions) = E
  <2>1. those(Sessions) = E
    BY <1>2
  <2>2. Adds(Sessions)
    <3> HIDE DEF Adds
    <3> QED
      BY <1>6
  <2> QED
    BY <2>1, <2>2
<1>8. /\ SumFunction(runs) <= Cardinality(E)
      /\ OneByOne(w, key) => /\ SumFunction(runs) = Cardinality(E)
                             /\ SumFunction(cpu) = SumFunction(ages)
  <2>1. DOMAIN runs = Sessions /\ DOMAIN cpu = Sessions /\ DOMAIN ages = E
    BY DEF runs, cpu, ages, E, Ages
  <2> HIDE DEF those
  <2> QED
    BY <1>7, <2>1 DEF SumFunction, SumOn
<1>9. {s \in Sessions : runs[s] > 0} = {r.spid : r \in E}
  <2>1. ASSUME NEW s \in Sessions PROVE runs[s] > 0 <=> \E r \in E : r.spid = s
    <3>1. (runs[s] > 0 <=> own(s) # {}) /\ own(s) = {r \in E : r.spid = s}
      BY <1>3
    <3> QED
      BY <3>1
  <2> QED
    BY <2>1, <1>2
<1>10. ages = [r \in Executions(w, key) |-> LastSeen(w, r)]
  BY DEF ages, Ages
<1>11. Seen(w, key) = [runs     |-> SumFunction(runs),
                       cpu      |-> SumFunction(cpu),
                       sessions |-> Cardinality({s \in Sessions : runs[s] > 0})]
  <2>1. {s \in Sessions : runs[s] > 0} = {s \in Sessions : Runs(w, key, s).runs > 0}
    BY DEF runs
  <2> QED
    BY <2>1 DEF Seen, runs, cpu
<1> QED
  BY <1>8, <1>9, <1>10, <1>11 DEF E

\* What is left of a sequence without its first elements.
LEMMA FromIs ==
  ASSUME NEW S, NEW w \in Seq(S), NEW d \in 0 .. Len(w)
  PROVE  /\ From(w, d + 1) \in Seq(S) /\ Len(From(w, d + 1)) = Len(w) - d
         /\ \A i \in 1 .. Len(w) - d : From(w, d + 1)[i] = w[d + i]
BY DEF From

\* The count of the samples is one.
LEMMA KeptCounts == KeptInv => samples \in Nat
<1> SUFFICES ASSUME KeptInv PROVE samples \in Nat
  OBVIOUS
<1>1. /\ Len(all) \in Nat /\ Gone \in Nat /\ all \in Seq(Records)
      /\ Len(ticks) \in Nat /\ Gone = Len(all) - Len(ticks)
  BY DEF KeptInv, KeptTypes, IsTheRest, Gone
<1>2. Past \in [0 .. Len(all) -> Nat]
  BY PastIs DEF KeptInv
<1>3. /\ SizesOf(all) \in Seq(Nat) /\ Len(SizesOf(all)) = Len(all)
  BY <1>1, SizesOfAreSizes
<1>4. /\ Gone \in 0 .. Len(SizesOf(all)) /\ Len(all) \in Gone .. Len(SizesOf(all))
      /\ Gone \in 0 .. Len(all) /\ Len(all) \in 0 .. Len(all)
  BY <1>1, <1>3
<1>5. Past[Gone] <= Past[Len(all)]
  BY <1>3, <1>4, UptoGrows DEF Past
<1>6. samples = Past[Len(all)] - Past[Gone]
  BY DEF KeptInv, IsTheRest
<1>7. Past[Gone] \in Nat /\ Past[Len(all)] \in Nat
  BY <1>2, <1>4
<1> QED
  BY ONLY <1>5, <1>6, <1>7

\* What a step appends is what the server ran at its instant, and eviction takes
\* from the front: the window still says what the server ran.
LEMMA LivedStep ==
  ASSUME KeptInv, Lived(ticks), WindowNext
  PROVE  Lived(ticks')
<1>1. PICK tick \in Ticks :
        /\ Size(tick) \in Nat
        /\ LastLook < tick.at
        /\ \A r \in Range(tick.rows) : Follows(r, tick.at)
        /\ AppendTick(tick)
  BY NextIs
<1> DEFINE w == Append(ticks, tick)
           n == Len(ticks)
           m == samples + Size(tick)
<1>2. /\ ticks \in Seq(Ticks) /\ n \in Nat
      /\ w \in Seq(Ticks) /\ Len(w) = n + 1 /\ w[n + 1] = tick
      /\ \A i \in 1 .. n : w[i] = ticks[i]
  BY DEF Lived
<1>3. tick.at \in Nat /\ \A r \in Range(tick.rows) : r.asked \in Nat /\ r.began \in Nat
  <2>1. tick.at \in Nat /\ tick.rows \in Seq(Rows)
    BY DEF Ticks
  <2>2. \A r \in Range(tick.rows) : r \in Rows
    BY <2>1 DEF Range
  <2> QED
    BY <2>1, <2>2 DEF Rows
<1>4. /\ n = 0 => Range(Latest) = {} /\ LastLook = 0
      /\ n # 0 => Range(Latest) = RowsIn(ticks, n) /\ LastLook = ticks[n].at
  BY <1>2 DEF Latest, LastLook, Range, RowsIn
<1>5. ASSUME NEW i \in 1 .. n
      PROVE  ticks[i].at \in Nat /\ ticks[i].at < tick.at
  <2>1. n \in 1 .. n /\ n # 0 /\ i <= n /\ i \in Nat
    BY <1>2
  <2>2. ticks[i].at \in Nat /\ ticks[n].at \in Nat
    BY <2>1, LivedTypes
  <2>3. i < n => ticks[i].at < ticks[n].at
    BY <2>1 DEF Lived
  <2>4. ticks[n].at < tick.at
    BY <2>1, <1>1, <1>4
  <2>5. i = n \/ i < n
    BY <2>1
  <2> QED
    BY <2>2, <2>3, <2>4, <2>5, <1>3
<1>6. \A r \in Range(tick.rows) : r.asked <= r.began /\ r.began <= tick.at
  <2>1. ASSUME NEW r \in Range(Latest)
        PROVE  r.asked \in Nat /\ r.asked <= r.began /\ r.began <= LastLook /\ LastLook < tick.at
    <3>1. n # 0 /\ n \in 1 .. n /\ r \in RowsIn(ticks, n) /\ LastLook = ticks[n].at
      BY <1>2, <1>4
    <3>2. r.asked <= r.began /\ r.began <= ticks[n].at /\ r.asked \in Nat
      BY <3>1, LivedTypes DEF Lived
    <3> QED
      BY <3>1, <3>2, <1>1
  <2>2. LastLook \in Nat
    <3>1. n = 0 \/ n \in 1 .. n
      BY <1>2
    <3> QED
      BY <3>1, <1>4, <1>5
  <2> SUFFICES ASSUME NEW r \in Range(tick.rows) PROVE r.asked <= r.began /\ r.began <= tick.at
    OBVIOUS
  <2>3. CASE r \in Range(Latest)
    <3>1. r.asked <= r.began /\ r.began <= LastLook /\ LastLook < tick.at
      BY <2>1, <2>3
    <3>2. r.asked \in Nat /\ r.began \in Nat
      BY <1>3
    <3> QED
      BY ONLY <3>1, <3>2, <2>2, <1>3
  <2>4. CASE r \notin Range(Latest)
    <3>1. /\ r.began > LastLook /\ r.began <= tick.at
          /\ r.asked <= r.began \/ \E old \in Range(Latest) : r.asked = old.asked
      BY <2>4, <1>1 DEF Follows
    <3>2. r.asked \in Nat /\ r.began \in Nat
      BY <1>3
    <3>3. ASSUME NEW old \in Range(Latest), r.asked = old.asked PROVE r.asked <= r.began
      <4>1. old.asked \in Nat /\ old.asked <= old.began /\ old.began <= LastLook /\ old.began \in Nat
        <5>1. n # 0 /\ n \in 1 .. n /\ old \in RowsIn(ticks, n)
          BY <1>2, <1>4
        <5> QED
          BY <5>1, <2>1, LivedTypes
      <4> QED
        BY ONLY <4>1, <3>1, <3>2, <3>3, <2>2
    <3> QED
      BY <3>1, <3>3
  <2> QED
    BY <2>3, <2>4
<1> HIDE DEF w, n
<1>7. Lived(w)
  <2>1. ASSUME NEW i \in 1 .. n + 1, NEW j \in 1 .. n + 1, i < j PROVE w[i].at < w[j].at
    <3>1. i \in 1 .. n
      BY <2>1, <1>2
    <3>2. CASE j = n + 1
      BY <3>1, <3>2, <1>2, <1>5
    <3>3. CASE j # n + 1
      <4>1. j \in 1 .. n
        BY <3>3, <1>2
      <4> QED
        BY <4>1, <3>1, <2>1, <1>2 DEF Lived, n
    <3> QED
      BY <3>2, <3>3
  <2>2. ASSUME NEW i \in 1 .. n + 1
        PROVE  \A r \in RowsIn(w, i) : r.asked <= r.began /\ r.began <= w[i].at
    <3>1. CASE i = n + 1
      BY <3>1, <1>2, <1>6 DEF RowsIn
    <3>2. CASE i # n + 1
      <4>1. i \in 1 .. n
        BY <3>2, <1>2
      <4> QED
        BY <4>1, <1>2 DEF Lived, RowsIn, n
    <3> QED
      BY <3>1, <3>2
  <2>3. ASSUME NEW i \in 2 .. n + 1, NEW r \in RowsIn(w, i)
        PROVE  r \in RowsIn(w, i - 1) \/ r.began > w[i - 1].at
    <3>1. CASE i = n + 1
      <4>1. n # 0 /\ n \in 1 .. n /\ i - 1 = n /\ w[n] = ticks[n] /\ w[i] = tick
        BY <3>1, <1>2
      <4> QED
        BY <4>1, <1>1, <1>4 DEF Follows, RowsIn
    <3>2. CASE i # n + 1
      <4>1. i \in 2 .. n /\ i \in 1 .. n /\ i - 1 \in 1 .. n
        BY <3>2, <1>2
      <4>2. w[i] = ticks[i] /\ w[i - 1] = ticks[i - 1]
        BY <4>1, <1>2
      <4> QED
        BY <4>1, <4>2, <2>3 DEF Lived, RowsIn, n
    <3> QED
      BY <3>1, <3>2
  <2> QED
    BY <2>1, <2>2, <2>3, <1>2 DEF Lived
<1>8. PICK drop \in 0 .. n + 1 : ticks' = From(w, drop + 1)
  <2>1. \A i \in DOMAIN w : Size(w[i]) \in Nat
    <3>1. \A i \in DOMAIN ticks : Size(ticks[i]) \in Nat
      BY DEF KeptInv, KeptTypes
    <3>2. DOMAIN w = 1 .. n + 1 /\ DOMAIN ticks = 1 .. n
      BY <1>2 DEF n
    <3>3. ASSUME NEW i \in 1 .. n + 1 PROVE Size(w[i]) \in Nat
      <4>1. i = n + 1 \/ i \in 1 .. n
        BY <1>2
      <4> QED
        BY <4>1, <3>1, <3>2, <1>1, <1>2
    <3> QED
      BY <3>2, <3>3
  <2>2. m \in Nat
    <3>1. samples \in Nat
      BY KeptCounts
    <3> QED
      BY <3>1, <1>1
  <2> HIDE DEF m
  <2>3. PICK old \in 0 .. Len(w) : \E drop \in old .. Len(w) : Takes(w, tick.at, m, old, drop)
    BY <2>1, <2>2, <1>2, <1>3, EvictedIs
  <2>4. PICK drop \in old .. Len(w) : Takes(w, tick.at, m, old, drop)
    BY <2>3
  <2>5. drop \in 0 .. n + 1
    BY <1>2
  <2>6. Evicted(w, tick.at, m).ticks = From(w, drop + 1)
    BY <2>4 DEF Takes
  <2>7. ticks' = Evicted(w, tick.at, m).ticks
    BY <1>1 DEF AppendTick, w, m
  <2> QED
    BY <2>5, <2>6, <2>7
<1>9. /\ ticks' \in Seq(Ticks) /\ Len(ticks') = n + 1 - drop
      /\ \A i \in 1 .. n + 1 - drop : ticks'[i] = w[i + drop]
  <2>1. drop \in 0 .. Len(w)
    BY <1>2
  <2>2. \A i \in 1 .. n + 1 - drop : drop + i = i + drop
    BY <1>2
  <2>3. w \in Seq(Ticks) /\ Len(w) = n + 1 /\ n \in Nat /\ drop \in Nat /\ drop <= n + 1
    BY <1>2
  <2> DEFINE rest == From(w, drop + 1)
  <2>4. /\ rest \in Seq(Ticks) /\ Len(rest) = Len(w) - drop
        /\ \A i \in 1 .. Len(w) - drop : rest[i] = w[drop + i]
    BY ONLY <2>1, <2>3, FromIs
  <2>5. ticks' = rest
    BY <1>8
  <2> HIDE DEF rest
  <2>6. ticks' \in Seq(Ticks) /\ Len(ticks') = n + 1 - drop
    BY ONLY <2>3, <2>4, <2>5
  <2>7. ASSUME NEW i \in 1 .. n + 1 - drop PROVE ticks'[i] = w[i + drop]
    <3>1. i \in 1 .. Len(w) - drop /\ drop + i = i + drop
      BY <2>2, <2>3
    <3>2. rest[i] = w[drop + i]
      BY ONLY <3>1, <2>4
    <3> QED
      BY <3>1, <3>2, <2>5
  <2> QED
    BY <2>6, <2>7
<1> DEFINE rest == ticks'
           l == n + 1 - drop
<1>10. l \in Nat /\ drop \in Nat /\ l + drop = n + 1
  BY <1>2
<1> HIDE DEF rest, l
<1>11. /\ rest \in Seq(Ticks) /\ Len(rest) = l
       /\ \A i \in 1 .. l : rest[i] = w[i + drop] /\ i + drop \in 1 .. Len(w)
  BY <1>2, <1>9, <1>10 DEF rest, l
<1>12. \A i, j \in 1 .. l : i < j => rest[i].at < rest[j].at
  <2> SUFFICES ASSUME NEW i \in 1 .. l, NEW j \in 1 .. l, i < j PROVE rest[i].at < rest[j].at
    OBVIOUS
  <2>1. i + drop < j + drop
    BY <1>10
  <2> QED
    BY <2>1, <1>7, <1>11 DEF Lived
<1>13. \A i \in 1 .. l :
         \A r \in RowsIn(rest, i) : r.asked <= r.began /\ r.began <= rest[i].at
  BY <1>7, <1>11 DEF Lived, RowsIn
<1>14. \A i \in 2 .. l :
         \A r \in RowsIn(rest, i) : r \in RowsIn(rest, i - 1) \/ r.began > rest[i - 1].at
  <2> SUFFICES ASSUME NEW i \in 2 .. l, NEW r \in RowsIn(rest, i)
               PROVE  r \in RowsIn(rest, i - 1) \/ r.began > rest[i - 1].at
    OBVIOUS
  <2>1. i \in 1 .. l /\ i - 1 \in 1 .. l /\ i + drop \in 2 .. Len(w) /\ i - 1 + drop = i + drop - 1
    BY <1>2, <1>10
  <2>2. rest[i] = w[i + drop] /\ rest[i - 1] = w[i + drop - 1]
    BY <2>1, <1>11
  <2> QED
    BY <2>1, <2>2, <1>7 DEF Lived, RowsIn
<1>15. Lived(rest)
  BY <1>11, <1>12, <1>13, <1>14 DEF Lived
<1> QED
  BY <1>15 DEF rest

LEMMA LivedInit == WindowInit => Lived(ticks)
<1> SUFFICES ASSUME WindowInit PROVE Lived(ticks)
  OBVIOUS
<1>1. ticks = <<>> /\ ticks \in Seq(Ticks) /\ Len(ticks) = 0
  BY DEF WindowInit
<1> QED
  BY <1>1 DEF Lived

LEMMA LivedStutters ==
  ASSUME Lived(ticks), UNCHANGED windowVars
  PROVE  Lived(ticks')
BY DEF windowVars

\* The window is the most of the past that both bounds allow, for every
\* retention, cap and sequence of samples: Append and evictLocked lose no tick
\* that could have been kept, and the count they keep is the one there is.
THEOREM WindowKeepsTheMost == WindowSpec => []KeepsAllItMay
<1>1. WindowInit => KeptInv
  BY KeptInit
<1>2. KeptInv /\ [WindowNext]_windowVars => KeptInv'
  BY KeptNext, KeptStutters
<1>3. KeptInv => KeepsAllItMay
  BY KeptIsTheMost
<1> QED
  BY <1>1, <1>2, <1>3, PTL DEF WindowSpec

\* Every variable of the window keeps its type: the count never passes the cap,
\* nor does a subtraction take it below nothing.
THEOREM WindowTypeCorrect == WindowSpec => []TypeOK
<1> DEFINE Inv == KeptInv /\ capped \in BOOLEAN
<1>1. WindowInit => Inv
  BY KeptInit DEF WindowInit
<1>2. Inv /\ [WindowNext]_windowVars => Inv'
  <2>1. ASSUME NEW w, NEW when, NEW n PROVE Evicted(w, when, n).capped \in BOOLEAN
    <3> DEFINE left(d) == n - Upto(Sizes(w))[d]
               old     == Old(w, when)
               drop    == Min({d \in old .. Len(w) : d = Len(w) \/ left(d) <= MaxSamples})
    <3>1. Evicted(w, when, n)
            = [ticks |-> From(w, drop + 1), samples |-> left(drop), capped |-> drop > old]
      BY DEF Evicted
    <3> HIDE DEF left, old, drop
    <3>2. Evicted(w, when, n).capped = (drop > old)
      BY ONLY <3>1
    <3>3. (drop > old) \in BOOLEAN
      OBVIOUS
    <3> QED
      BY ONLY <3>2, <3>3
  <2>2. WindowNext => capped' \in BOOLEAN
    BY <2>1, Zenon DEF WindowNext, AppendTick
  <2>3. UNCHANGED windowVars => capped' = capped
    BY DEF windowVars
  <2> QED
    BY <2>2, <2>3, KeptNext, KeptStutters
<1>3. Inv => TypeOK
  <2> SUFFICES ASSUME KeptInv PROVE samples \in 0 .. MaxSamples
    BY DEF KeptInv, KeptTypes, TypeOK
  <2>1. Len(all) \in Nat /\ Gone \in 0 .. Len(all) /\ Len(all) \in Gone .. Len(all)
    BY DEF KeptInv, KeptTypes, IsTheRest, Gone
  <2>2. Past[Len(all)] \in Nat /\ Past[Gone] \in Nat /\ Past[Gone] <= Past[Len(all)]
    BY <2>1, PastIs DEF KeptInv
  <2>3. samples = Past[Len(all)] - Past[Gone] /\ samples <= MaxSamples
    BY DEF KeptInv, IsTheRest, GoneForGood
  <2> QED
    BY ONLY <2>2, <2>3, WindowAssumption
<1> QED
  BY <1>1, <1>2, <1>3, PTL DEF WindowSpec

\* The queries view counts executions, for any set of sessions and statements,
\* however they come and go between the ticks and whatever eviction has cut off:
\* it makes no more runs than there were executions, though a session has several
\* requests at once and a request goes through several statements; and where each
\* execution is the first of its request and alone of its shape on its session,
\* each is one run with its counters once (Statements).
THEOREM ViewCountsExecutions == WindowSpec => []RunsAreExecutions
<1> DEFINE Inv == KeptInv /\ Lived(ticks)
<1>1. WindowInit => Inv
  BY KeptInit, LivedInit
<1>2. Inv /\ [WindowNext]_windowVars => Inv'
  <2>1. KeptInv /\ [WindowNext]_windowVars => KeptInv'
    BY KeptNext, KeptStutters
  <2>2. KeptInv /\ Lived(ticks) /\ [WindowNext]_windowVars => Lived(ticks')
    BY LivedStep, LivedStutters
  <2>3. Lived(ticks)' <=> Lived(ticks')
    BY DEF Lived
  <2> QED
    BY <2>1, <2>2, <2>3
<1>3. Inv => RunsAreExecutions
  BY SeenIs DEF RunsAreExecutions
<1> QED
  BY <1>1, <1>2, <1>3, PTL DEF WindowSpec

-----------------------------------------------------------------------------
(* The blocking tree of a sample.                                          *)

\* The order of references is a total one.
LEMMA BeforeOrders ==
  /\ \A a \in Nat \X Nat : ~Before(a, a)
  /\ \A a, b, c \in Nat \X Nat : Before(a, b) /\ Before(b, c) => Before(a, c)
  /\ \A a, b \in Nat \X Nat : a # b => Before(a, b) \/ Before(b, a)
<1>1. ASSUME NEW a \in Nat \X Nat
      PROVE  a[1] \in Nat /\ a[2] \in Nat /\ a = <<a[1], a[2]>>
  OBVIOUS
<1>2. ASSUME NEW a \in Nat \X Nat PROVE ~Before(a, a)
  BY <1>1 DEF Before
<1>3. ASSUME NEW a \in Nat \X Nat, NEW b \in Nat \X Nat, NEW c \in Nat \X Nat,
             Before(a, b), Before(b, c)
      PROVE  Before(a, c)
  <2>1. /\ a[1] \in Nat /\ a[2] \in Nat /\ b[1] \in Nat /\ b[2] \in Nat
        /\ c[1] \in Nat /\ c[2] \in Nat
    BY <1>1
  <2> QED
    BY ONLY <2>1, <1>3 DEF Before
<1>4. ASSUME NEW a \in Nat \X Nat, NEW b \in Nat \X Nat, a # b
      PROVE  Before(a, b) \/ Before(b, a)
  <2>1. a[1] # b[1] \/ a[2] # b[2]
    BY <1>1, <1>4
  <2>2. /\ a[1] \in Nat /\ a[2] \in Nat /\ b[1] \in Nat /\ b[2] \in Nat
    BY <1>1
  <2> QED
    BY ONLY <2>1, <2>2 DEF Before
<1> QED
  BY <1>2, <1>3, <1>4

\* A set of references that is not empty has a first one.
LEMMA FirstOf ==
  ASSUME NEW s \in SUBSET (Nat \X Nat), s # {}
  PROVE  \E x \in s : \A y \in s \ {x} : Before(x, y)
<1> DEFINE firsts == {r[1] : r \in s}
           m == Min(firsts)
           seconds == {r[2] : r \in {q \in s : q[1] = m}}
           l == Min(seconds)
<1>1. \A r \in s : r[1] \in Nat /\ r[2] \in Nat /\ r = <<r[1], r[2]>>
  OBVIOUS
<1>2. firsts \in SUBSET Nat /\ firsts # {}
  BY <1>1
<1>3. m \in firsts /\ \A i \in firsts : m <= i
  <2> HIDE DEF firsts
  <2> QED
    BY <1>2, LeastOf
<1> HIDE DEF m
<1>4. seconds \in SUBSET Nat /\ seconds # {}
  BY <1>1, <1>3
<1>5. l \in seconds /\ \A i \in seconds : l <= i
  <2> HIDE DEF seconds
  <2> QED
    BY <1>4, LeastOf
<1> HIDE DEF l
<1>6. PICK x \in s : x[1] = m /\ x[2] = l
  BY <1>5
<1>7. ASSUME NEW y \in s, y # x PROVE Before(x, y)
  <2>1. m <= y[1] /\ (y[1] = m => l <= y[2])
    BY <1>3, <1>5
  <2>2. x[1] # y[1] \/ x[2] # y[2]
    BY <1>1, <1>7
  <2>3. x[1] \in Nat /\ x[2] \in Nat /\ y[1] \in Nat /\ y[2] \in Nat
    BY <1>1
  <2> QED
    BY ONLY <2>1, <2>2, <2>3, <1>6 DEF Before
<1> QED
  BY <1>7

Sorts(list, refs) ==
  /\ list \in [1 .. Cardinality(refs) -> refs]
  /\ \A i, j \in DOMAIN list : i < j => Before(list[i], list[j])

\* There is a list of any finite set of references, in order.
LEMMA SortedExists ==
  ASSUME NEW refs \in SUBSET (Nat \X Nat), IsFiniteSet(refs)
  PROVE  \E list : Sorts(list, refs)
<1> DEFINE bad == {s \in SUBSET refs : \A list : ~Sorts(list, s)}
<1>1. ASSUME NEW s \in bad PROVE \E x \in s : s \ {x} \in bad
  <2>0. s \in SUBSET refs /\ s \in SUBSET (Nat \X Nat) /\ IsFiniteSet(s)
    BY FS_Subset
  <2>1. s # {}
    <3> SUFFICES ASSUME s = {} PROVE FALSE
      OBVIOUS
    <3>1. Cardinality(s) = 0
      BY FS_EmptySet
    <3>2. Sorts([i \in 1 .. 0 |-> 0], s)
      BY <3>1 DEF Sorts
    <3> QED
      BY <3>2
  <2>2. PICK x \in s : \A y \in s \ {x} : Before(x, y)
    BY <2>0, <2>1, FirstOf
  <2> DEFINE n == Cardinality(s)
             t == s \ {x}
  <2>3. n \in Nat /\ n # 0 /\ Cardinality(t) = n - 1 /\ t \in SUBSET refs
    BY <2>0, OneLess
  <2> SUFFICES ASSUME t \notin bad PROVE FALSE
    OBVIOUS
  <2>4. PICK f : Sorts(f, t)
    BY <2>3
  <2>5. f \in [1 .. n - 1 -> t] /\ \A i, j \in 1 .. n - 1 : i < j => Before(f[i], f[j])
    BY <2>3, <2>4 DEF Sorts
  <2> HIDE DEF n
  <2> DEFINE g == [i \in 1 .. n |-> IF i = 1 THEN x ELSE f[i - 1]]
  <2>6. ASSUME NEW i \in 1 .. n, i # 1 PROVE i - 1 \in 1 .. n - 1 /\ g[i] = f[i - 1] /\ g[i] \in t
    <3>1. i - 1 \in 1 .. n - 1
      BY <2>3, <2>6
    <3> QED
      BY <3>1, <2>5, <2>6
  <2>7. g \in [1 .. n -> s]
    BY <2>6
  <2>8. ASSUME NEW i \in 1 .. n, NEW j \in 1 .. n, i < j PROVE Before(g[i], g[j])
    <3>1. j # 1
      BY <2>3, <2>8
    <3>2. g[j] = f[j - 1] /\ g[j] \in t /\ j - 1 \in 1 .. n - 1
      BY <3>1, <2>6
    <3>3. CASE i = 1
      <4>1. g[i] = x
        BY <3>3
      <4> QED
        BY <4>1, <3>2, <2>2
    <3>4. CASE i # 1
      <4>1. g[i] = f[i - 1] /\ i - 1 \in 1 .. n - 1
        BY <3>4, <2>6
      <4>2. i - 1 < j - 1
        BY <2>8, <2>3
      <4> QED
        BY <4>1, <4>2, <3>2, <2>5
    <3> QED
      BY <3>3, <3>4
  <2> HIDE DEF g
  <2>9. Sorts(g, s)
    <3>1. DOMAIN g = 1 .. n
      BY <2>7
    <3> QED
      BY <3>1, <2>7, <2>8 DEF Sorts, n
  <2> QED
    BY <2>9
<1>2. bad \in SUBSET (SUBSET refs)
  OBVIOUS
<1>3. bad = {}
  <2> HIDE DEF bad
  <2> QED
    BY <1>1, <1>2, NoneIsLeast
<1>4. refs \in SUBSET refs /\ refs \notin bad
  BY <1>3
<1> QED
  BY <1>4

\* byRef loses and repeats nothing.
LEMMA InOrderIs ==
  ASSUME NEW refs \in SUBSET (Nat \X Nat), IsFiniteSet(refs)
  PROVE  /\ InOrder(refs) \in [1 .. Cardinality(refs) -> refs]
         /\ Cardinality(refs) \in Nat
         /\ \A r \in refs : \E i \in 1 .. Cardinality(refs) : InOrder(refs)[i] = r
<1> DEFINE n == Cardinality(refs)
           list == InOrder(refs)
<1>1. PICK some : Sorts(some, refs)
  BY SortedExists
<1>2. Sorts(list, refs)
  <2>1. \E l \in [1 .. Cardinality(refs) -> refs] :
          \A i, j \in DOMAIN l : i < j => Before(l[i], l[j])
    BY <1>1 DEF Sorts
  <2> QED
    BY <2>1 DEF InOrder, Sorts
<1>3. n \in Nat
  BY FS_CardinalityType
<1> HIDE DEF list
<1>4. list \in [1 .. n -> refs] /\ \A i, j \in 1 .. n : i < j => Before(list[i], list[j])
  BY <1>2 DEF Sorts
<1> HIDE DEF n
<1>5. ASSUME NEW i \in 1 .. n, NEW j \in 1 .. n, list[i] = list[j] PROVE i = j
  <2>1. list[i] \in Nat \X Nat
    BY <1>4
  <2>2. ~Before(list[i], list[j]) /\ ~Before(list[j], list[i])
    BY <2>1, <1>5, BeforeOrders
  <2>3. ~(i < j) /\ ~(j < i)
    BY <2>2, <1>4
  <2> QED
    BY <2>3, <1>3
<1>6. list \in Injection(1 .. n, refs)
  BY <1>4, <1>5 DEF Injection, IsInjective
<1>7. Cardinality(1 .. n) = n
  <2>1. 1 \in Int /\ n \in Int /\ ~(1 > n) => n - 1 + 1 = n
    BY <1>3
  <2>2. Cardinality(1 .. n) = IF 1 > n THEN 0 ELSE n - 1 + 1
    BY <1>3, FS_Interval
  <2> QED
    BY <2>2, <1>3
<1>8. list \in Surjection(1 .. n, refs)
  BY <1>6, <1>7, FS_Injection DEF n
<1> QED
  BY <1>3, <1>4, <1>8 DEF n, list, Surjection

\* A sample of finitely many rows.
IsSample(sample) == Refs(sample) \in SUBSET (Nat \X Nat) /\ IsFiniteSet(Refs(sample))

Entries(sample) == [ref : Refs(sample), depth : Nat]

\* The rows that a session blocks, and those of sessions not laid out yet.
Blocked(sample, spid) ==
  {ref \in Refs(sample) : ~IsRoot(sample, ref) /\ sample[ref] = spid}

Pending(sample, out) ==
  {ref \in Refs(sample) :
     ~IsRoot(sample, ref) /\ ~\E by \in Laid(out) : by[1] = sample[ref]}

\* What a list of rows to be laid out holds.
LEMMA AtIs ==
  ASSUME NEW sample, IsSample(sample), NEW refs \in SUBSET Refs(sample), NEW depth \in Nat
  PROVE  /\ At(InOrder(refs), depth) \in Seq(Entries(sample))
         /\ Len(At(InOrder(refs), depth)) = Cardinality(refs) /\ Cardinality(refs) \in Nat
         /\ \A i \in 1 .. Cardinality(refs) :
              /\ At(InOrder(refs), depth)[i].ref \in refs
              /\ At(InOrder(refs), depth)[i].depth = depth
         /\ Laid(At(InOrder(refs), depth)) = refs
<1> DEFINE n == Cardinality(refs)
           list == InOrder(refs)
           entries == At(list, depth)
<1>1. refs \in SUBSET (Nat \X Nat) /\ IsFiniteSet(refs)
  BY FS_Subset DEF IsSample
<1>2. /\ list \in [1 .. n -> refs] /\ n \in Nat
      /\ \A r \in refs : \E i \in 1 .. n : list[i] = r
  BY <1>1, InOrderIs
<1> HIDE DEF list, n
<1>3. entries = [i \in 1 .. n |-> [ref |-> list[i], depth |-> depth]]
  BY <1>2 DEF At
<1>4. ASSUME NEW i \in 1 .. n
      PROVE  entries[i] \in Entries(sample) /\ entries[i].ref = list[i] /\ entries[i].depth = depth
  <2>1. entries[i] = [ref |-> list[i], depth |-> depth] /\ list[i] \in Refs(sample)
    BY <1>2, <1>3
  <2> QED
    BY <2>1 DEF Entries
<1> HIDE DEF entries
<1>5. entries \in Seq(Entries(sample)) /\ Len(entries) = n /\ DOMAIN entries = 1 .. n
  <2> DEFINE X == Entries(sample)
  <2>1. entries \in [1 .. n -> X] /\ n \in Nat
    BY <1>2, <1>3, <1>4
  <2> HIDE DEF X
  <2>2. entries \in Seq(X) /\ Len(entries) = n /\ DOMAIN entries = 1 .. n
    BY ONLY <2>1
  <2> QED
    BY <2>2 DEF X
<1>6. Laid(entries) = refs
  BY <1>2, <1>4, <1>5 DEF Laid
<1> QED
  BY <1>2, <1>4, <1>5, <1>6 DEF entries, list, n

-----------------------------------------------------------------------------
(* What walk keeps.                                                        *)

\* A row further in has a row to stand under among the first n, of the session
\* that blocks it.
Hangs(sample, out, n, e) ==
  /\ LastAt(out, n, e.depth - 1) \in 1 .. n
  /\ out[LastAt(out, n, e.depth - 1)].ref[1] = sample[e.ref]

OnceEach(out) == \A i, j \in 1 .. Len(out) : out[i].ref = out[j].ref => i = j

Falls(todo) == \A i, j \in 1 .. Len(todo) : i < j => todo[j].depth <= todo[i].depth

AllHang(sample, out) ==
  \A i \in 1 .. Len(out) : out[i].depth > 0 => Hangs(sample, out, i - 1, out[i])

WillHang(sample, out, todo) ==
  \A i \in 1 .. Len(todo) : todo[i].depth > 0 => Hangs(sample, out, Len(out), todo[i])

Attached(sample, out, todo) ==
  \A ref \in Refs(sample) :
    ~IsRoot(sample, ref) /\ (\E by \in Laid(out) : by[1] = sample[ref])
      => ref \in Laid(out) \cup Laid(todo)

InsideIfLed(sample, list) ==
  \A i \in 1 .. Len(list) :
    list[i].ref \in Led(sample) /\ ~IsRoot(sample, list[i].ref) => list[i].depth > 0

\* The rows laid out and those to be laid out, with the rows owed.
LayoutInv(sample, owed, st) ==
  /\ st \in [out : Seq(Entries(sample)), todo : Seq(Entries(sample))]
  /\ OnceEach(st.out) /\ Falls(st.todo)
  /\ AllHang(sample, st.out) /\ WillHang(sample, st.out, st.todo)
  /\ Attached(sample, st.out, st.todo)
  /\ InsideIfLed(sample, st.out) /\ InsideIfLed(sample, st.todo)
  /\ owed \subseteq Laid(st.out) \cup Laid(st.todo)

\* What walk has still to look at.
Weight(sample, st) == Len(st.todo) + Cardinality(Pending(sample, st.out))

\* The last row of a depth is that of the rows before another one is added.
LEMMA LastAtKept ==
  ASSUME NEW out, NEW more, NEW n \in Nat, NEW depth,
         \A j \in 1 .. n : more[j] = out[j]
  PROVE  LastAt(more, n, depth) = LastAt(out, n, depth)
<1>1. {j \in 1 .. n : more[j].depth = depth} = {j \in 1 .. n : out[j].depth = depth}
  OBVIOUS
<1> QED
  BY <1>1 DEF LastAt

\* A row of another depth is not it.
LEMMA LastAtSkips ==
  ASSUME NEW out, NEW n \in Nat, NEW depth, out[n + 1].depth # depth
  PROVE  LastAt(out, n + 1, depth) = LastAt(out, n, depth)
<1>1. \A j \in 1 .. n + 1 : j \in 1 .. n \/ j = n + 1
  OBVIOUS
<1>2. \A j \in 1 .. n : j \in 1 .. n + 1
  OBVIOUS
<1>3. {j \in 1 .. n + 1 : out[j].depth = depth} = {j \in 1 .. n : out[j].depth = depth}
  BY <1>1, <1>2
<1> QED
  BY <1>3 DEF LastAt

\* A row of that depth is it.
LEMMA LastAtIsLast ==
  ASSUME NEW out, NEW n \in Nat
  PROVE  LastAt(out, n + 1, out[n + 1].depth) = n + 1
<1> DEFINE S == {j \in 1 .. n + 1 : out[j].depth = out[n + 1].depth} \cup {0}
<1>1. S \in SUBSET Int /\ n + 1 \in S /\ \A x \in S : n + 1 >= x
  OBVIOUS
<1> HIDE DEF S
<1>2. Max(S) = n + 1
  BY <1>1, MaxIs
<1> QED
  BY <1>2 DEF S, LastAt

\* One call of walk keeps all of it, and has one row less to look at.
LEMMA WalkKeeps ==
  ASSUME NEW sample, IsSample(sample), NEW owed, NEW st, LayoutInv(sample, owed, st),
         st.todo # <<>>
  PROVE  /\ LayoutInv(sample, owed, Walk(sample, st))
         /\ Weight(sample, Walk(sample, st)) = Weight(sample, st) - 1
         /\ Weight(sample, st) \in Nat
<1> DEFINE out == st.out
           todo == st.todo
           row == Head(todo)
           rest == Tail(todo)
           n == Len(out)
           m == Len(todo)
           spid == row.ref[1]
           E == Entries(sample)
<1>1. /\ out \in Seq(E) /\ todo \in Seq(E) /\ st = [out |-> out, todo |-> todo]
      /\ OnceEach(out) /\ Falls(todo) /\ AllHang(sample, out) /\ WillHang(sample, out, todo)
      /\ Attached(sample, out, todo) /\ InsideIfLed(sample, out) /\ InsideIfLed(sample, todo)
      /\ owed \subseteq Laid(out) \cup Laid(todo)
  BY DEF LayoutInv
<1>2. \A e \in E : e.ref \in Refs(sample) /\ e.depth \in Nat
  BY DEF Entries
<1> HIDE DEF out, todo, E
<1>3. /\ n \in Nat /\ m \in Nat /\ m >= 1 /\ row = todo[1] /\ row \in E
      /\ rest \in Seq(E) /\ Len(rest) = m - 1
      /\ \A i \in 1 .. m - 1 : rest[i] = todo[i + 1]
  BY <1>1 DEF todo
<1>4. \A i \in 1 .. m : todo[i] \in E
  BY <1>1
<1>5. /\ DOMAIN out = 1 .. n /\ DOMAIN todo = 1 .. m /\ DOMAIN rest = 1 .. m - 1
  BY <1>1, <1>3
<1> HIDE DEF row, rest, n, m
<1>6. Laid(todo) = Laid(rest) \cup {row.ref}
  <2>1. ASSUME NEW i \in 1 .. m PROVE i = 1 \/ (i - 1 \in 1 .. m - 1 /\ rest[i - 1] = todo[i])
    <3>1. i = 1 \/ (i - 1 \in 1 .. m - 1 /\ i - 1 + 1 = i)
      BY <1>3
    <3> QED
      BY <3>1, <1>3
  <2>2. \A i \in 1 .. m - 1 : i + 1 \in 1 .. m
    BY <1>3
  <2>3. 1 \in 1 .. m
    BY <1>3
  <2>4. Laid(todo) \subseteq Laid(rest) \cup {row.ref}
    <3>1. ASSUME NEW i \in 1 .. m PROVE todo[i].ref \in Laid(rest) \cup {row.ref}
      <4>1. CASE i = 1
        BY <4>1, <1>3
      <4>2. CASE i # 1
        <5>1. i - 1 \in DOMAIN rest /\ rest[i - 1] = todo[i]
          BY <4>2, <2>1, <1>5
        <5> QED
          BY <5>1 DEF Laid
      <4> QED
        BY <4>1, <4>2
    <3> QED
      BY <3>1, <1>5 DEF Laid
  <2>5. Laid(rest) \subseteq Laid(todo)
    BY <2>2, <1>3, <1>5 DEF Laid
  <2>6. row.ref \in Laid(todo)
    BY <2>3, <1>3, <1>5 DEF Laid
  <2> QED
    BY <2>4, <2>5, <2>6
<1>7. Falls(rest) /\ InsideIfLed(sample, rest)
      /\ \A i \in 1 .. m - 1 : rest[i].depth <= row.depth /\ rest[i] \in E
  <2>1. \A i \in 1 .. m - 1 : i + 1 \in 1 .. m /\ 1 < i + 1
    BY <1>3
  <2>2. Falls(rest)
    <3>1. ASSUME NEW i \in 1 .. m - 1, NEW j \in 1 .. m - 1, i < j
          PROVE  rest[j].depth <= rest[i].depth
      <4>1. i + 1 < j + 1
        BY <3>1
      <4> QED
        BY <4>1, <2>1, <1>1, <1>3 DEF Falls, m
    <3> QED
      BY <3>1, <1>3 DEF Falls
  <2>3. InsideIfLed(sample, rest)
    BY <2>1, <1>1, <1>3 DEF InsideIfLed, m
  <2>4. \A i \in 1 .. m - 1 : rest[i].depth <= row.depth
    <3>1. 1 \in 1 .. m
      BY <1>3
    <3> QED
      BY <3>1, <2>1, <1>1, <1>3 DEF Falls, m
  <2> QED
    BY <2>1, <2>2, <2>3, <2>4, <1>3, <1>4
<1>8. /\ IsFiniteSet(Pending(sample, out)) /\ Cardinality(Pending(sample, out)) \in Nat
      /\ Weight(sample, st) = m + Cardinality(Pending(sample, out))
  <2>1. Pending(sample, out) \in SUBSET Refs(sample)
    BY DEF Pending
  <2>2. IsFiniteSet(Pending(sample, out)) /\ Cardinality(Pending(sample, out)) \in Nat
    BY <2>1, FS_Subset, FS_CardinalityType DEF IsSample
  <2> QED
    BY <2>2 DEF Weight, m, out, todo
<1>9. WillHang(sample, out, rest)
  <2>1. \A i \in 1 .. m - 1 : i + 1 \in 1 .. m
    BY <1>3
  <2> QED
    BY <2>1, <1>1, <1>3 DEF WillHang, m
<1>10. CASE row.ref \in Laid(out)
  <2> DEFINE new == [out |-> out, todo |-> rest]
  <2>1. Walk(sample, st) = new
    <3>1. Walk(sample, st) = [st EXCEPT !.todo = Tail(@)]
      BY <1>10 DEF Walk, row, todo, out
    <3> QED
      BY <3>1, <1>1 DEF rest, todo, out
  <2>2. new.out = out /\ new.todo = rest
    OBVIOUS
  <2>3. new \in [out : Seq(E), todo : Seq(E)]
    BY <1>1, <1>3
  <2> HIDE DEF new
  <2>4. Laid(out) \cup Laid(todo) = Laid(out) \cup Laid(rest)
    BY <1>6, <1>10
  <2>5. Attached(sample, out, rest) /\ owed \subseteq Laid(out) \cup Laid(rest)
    BY <2>4, <1>1 DEF Attached
  <2>6. LayoutInv(sample, owed, new)
    BY <2>2, <2>3, <2>5, <1>1, <1>7, <1>9 DEF LayoutInv, E
  <2>7. Weight(sample, new) = (m - 1) + Cardinality(Pending(sample, out))
    BY <2>2, <1>3 DEF Weight
  <2> QED
    BY <2>1, <2>6, <2>7, <1>3, <1>8
<1>11. CASE row.ref \notin Laid(out)
  <2> DEFINE here == \E ref \in Laid(out) : ref[1] = spid
             kids == IF here THEN <<>> ELSE At(Children(sample, spid), row.depth + 1)
             next == Append(out, row)
             then == kids \o rest
             new == [out |-> next, todo |-> then]
             k == Len(kids)
  <2>1. Walk(sample, st) = new
    <3>1. st.todo # <<>> /\ Head(st.todo).ref \notin Laid(st.out)
      BY <1>11 DEF row, todo, out
    <3> QED
      BY <3>1 DEF Walk, row, rest, todo, out
  <2>2. new.out = next /\ new.todo = then
    OBVIOUS
  <2> DEFINE fam == IF here THEN {} ELSE Blocked(sample, spid)
  <2>3. /\ kids \in Seq(E) /\ k = Cardinality(fam) /\ k \in Nat
        /\ \A i \in 1 .. k : /\ kids[i] \in E /\ kids[i].ref \in Blocked(sample, spid)
                             /\ kids[i].depth = row.depth + 1
        /\ Laid(kids) = fam
    <3>1. CASE here
      <4>1. kids = <<>> /\ fam = {}
        BY <3>1
      <4>2. Laid(kids) = {} /\ Cardinality(fam) = 0
        <5>1. Laid(<<>>) = {}
          BY DEF Laid
        <5> HIDE DEF kids, fam
        <5> QED
          BY ONLY <5>1, <4>1, FS_EmptySet
      <4>3. kids \in Seq(E) /\ k = 0
        <5>1. kids = <<>>
          BY <4>1
        <5> HIDE DEF kids
        <5> QED
          BY ONLY <5>1
      <4> HIDE DEF kids, fam, k
      <4>4. \A i \in 1 .. k : FALSE
        BY <4>3
      <4> QED
        BY <4>1, <4>2, <4>3, <4>4
    <3>2. CASE ~here
      <4>1. fam \in SUBSET Refs(sample) /\ fam = Blocked(sample, spid)
        BY <3>2 DEF Blocked
      <4>2. kids = At(InOrder(fam), row.depth + 1)
        BY <3>2, <4>1 DEF Children, Blocked
      <4>3. row.depth + 1 \in Nat
        BY <1>2, <1>3
      <4> HIDE DEF fam, kids
      <4>4. /\ kids \in Seq(E) /\ Len(kids) = Cardinality(fam) /\ Cardinality(fam) \in Nat
            /\ \A i \in 1 .. Cardinality(fam) :
                 kids[i].ref \in fam /\ kids[i].depth = row.depth + 1
            /\ Laid(kids) = fam
        BY <4>1, <4>2, <4>3, AtIs DEF E
      <4>5. \A i \in 1 .. Cardinality(fam) : kids[i] \in E
        BY <4>4
      <4> QED
        BY <4>1, <4>4, <4>5
    <3> QED
      BY <3>1, <3>2
  <2> HIDE DEF kids, fam
  <2>4. /\ next \in Seq(E) /\ Len(next) = n + 1 /\ next[n + 1] = row
        /\ \A i \in 1 .. n : next[i] = out[i]
    BY <1>1, <1>3 DEF n
  <2>5. /\ then \in Seq(E) /\ Len(then) = k + (m - 1)
        /\ \A i \in 1 .. k : then[i] = kids[i]
        /\ \A i \in 1 .. m - 1 : then[k + i] = rest[i]
    <3>1. kids \in Seq(E) /\ rest \in Seq(E) /\ Len(rest) = m - 1
      BY <2>3, <1>3
    <3>2. then = kids \o rest
      OBVIOUS
    <3>3. k = Len(kids) /\ k \in Nat
      BY <2>3
    <3> HIDE DEF then, next, new, k, kids, fam, here, rest, E
    <3>4. then \in Seq(E)
      BY ONLY <3>1, <3>2
    <3>5. Len(then) = Len(kids) + Len(rest)
      BY ONLY <3>1, <3>2
    <3>6. \A i \in 1 .. Len(kids) : then[i] = kids[i]
      BY ONLY <3>1, <3>2
    <3>7. \A i \in 1 .. Len(rest) : then[Len(kids) + i] = rest[i]
      BY ONLY <3>1, <3>2
    <3> QED
      BY <3>1, <3>3, <3>4, <3>5, <3>6, <3>7
  <2>6. ASSUME NEW i \in 1 .. k + (m - 1)
        PROVE  \/ i \in 1 .. k /\ then[i] = kids[i]
               \/ i - k \in 1 .. m - 1 /\ then[i] = rest[i - k]
    <3>1. i \in 1 .. k \/ (i - k \in 1 .. m - 1 /\ k + (i - k) = i)
      BY <2>3, <1>3
    <3> QED
      BY <3>1, <2>5
  <2> HIDE DEF next, then, k
  <2>7. Laid(next) = Laid(out) \cup {row.ref}
    <3>1. DOMAIN next = 1 .. n + 1 /\ \A i \in 1 .. n + 1 : i \in 1 .. n \/ i = n + 1
      BY <2>4, <1>3
    <3>2. n + 1 \in 1 .. n + 1 /\ \A i \in 1 .. n : i \in 1 .. n + 1
      BY <1>3
    <3> QED
      BY <3>1, <3>2, <2>4, <1>5 DEF Laid
  <2>8. Laid(then) = fam \cup Laid(rest)
    <3>1. DOMAIN then = 1 .. k + (m - 1)
      BY <2>5
    <3>2. \A i \in 1 .. k : i \in 1 .. k + (m - 1)
      BY <2>3, <1>3
    <3>3. \A i \in 1 .. m - 1 : k + i \in 1 .. k + (m - 1)
      BY <2>3, <1>3
    <3>4. DOMAIN kids = 1 .. k
      BY <2>3 DEF k
    <3>5. Laid(then) \subseteq Laid(kids) \cup Laid(rest)
      BY <3>1, <3>4, <2>6, <1>5 DEF Laid
    <3>6. Laid(kids) \subseteq Laid(then) /\ Laid(rest) \subseteq Laid(then)
      BY <3>1, <3>2, <3>3, <3>4, <2>5, <1>5 DEF Laid
    <3> QED
      BY <3>5, <3>6, <2>3
  <2>9. OnceEach(next)
    <3>1. ASSUME NEW i \in 1 .. n PROVE next[i].ref # row.ref
      BY <2>4, <1>5, <1>11 DEF Laid
    <3>2. ASSUME NEW i \in 1 .. n + 1, NEW j \in 1 .. n + 1, next[i].ref = next[j].ref
          PROVE  i = j
      <4>1. (i \in 1 .. n \/ i = n + 1) /\ (j \in 1 .. n \/ j = n + 1)
        BY <1>3
      <4> QED
        BY <4>1, <3>1, <3>2, <2>4, <1>1 DEF OnceEach, n
    <3> QED
      BY <3>2, <2>4 DEF OnceEach
  <2>10. Falls(then)
    <3>1. ASSUME NEW i \in 1 .. k + (m - 1), NEW j \in 1 .. k + (m - 1), i < j
          PROVE  then[j].depth <= then[i].depth
      <4>1. CASE i \in 1 .. k
        <5>1. then[i].depth = row.depth + 1 /\ row.depth \in Nat
          BY <4>1, <2>3, <2>5, <1>2, <1>3
        <5>2. CASE j \in 1 .. k
          BY <5>1, <5>2, <2>3, <2>5
        <5>3. CASE j \notin 1 .. k
          <6>1. j - k \in 1 .. m - 1 /\ then[j] = rest[j - k]
            BY <5>3, <2>6
          <6>2. rest[j - k].depth <= row.depth /\ rest[j - k].depth \in Nat
            BY <6>1, <1>2, <1>7
          <6> QED
            BY <5>1, <6>1, <6>2
        <5> QED
          BY <5>2, <5>3
      <4>2. CASE i \notin 1 .. k
        <5>1. j \notin 1 .. k
          BY <4>2, <3>1, <2>3
        <5>2. /\ i - k \in 1 .. m - 1 /\ then[i] = rest[i - k]
              /\ j - k \in 1 .. m - 1 /\ then[j] = rest[j - k]
          BY <5>1, <4>2, <2>6
        <5>3. i - k < j - k
          BY <3>1, <2>3, <1>3
        <5> QED
          BY <5>2, <5>3, <1>3, <1>7 DEF Falls
      <4> QED
        BY <4>1, <4>2
    <3> QED
      BY <3>1, <2>5 DEF Falls
  <2>11. ASSUME NEW d, NEW e, d \in Int, d # row.depth, d = e.depth - 1,
                Hangs(sample, out, n, e)
         PROVE  Hangs(sample, next, n + 1, e)
    <3>1. LastAt(next, n + 1, d) = LastAt(next, n, d)
      BY <2>4, <2>11, <1>3, LastAtSkips
    <3>2. LastAt(next, n, d) = LastAt(out, n, d)
      <4>1. n \in Nat /\ \A j \in 1 .. n : next[j] = out[j]
        BY <2>4, <1>3
      <4> QED
        BY ONLY <4>1, LastAtKept
    <3>3. /\ LastAt(out, n, d) \in 1 .. n
          /\ out[LastAt(out, n, d)].ref[1] = sample[e.ref]
      BY <2>11 DEF Hangs
    <3>4. LastAt(out, n, d) \in 1 .. n + 1
      BY <3>3, <1>3
    <3> QED
      BY <3>1, <3>2, <3>3, <3>4, <2>4, <2>11 DEF Hangs
  <2>12. AllHang(sample, next)
    <3>1. ASSUME NEW i \in 1 .. n + 1, next[i].depth > 0
          PROVE  Hangs(sample, next, i - 1, next[i])
      <4>1. i \in 1 .. n \/ i = n + 1
        BY <1>3
      <4> DEFINE d == next[i].depth - 1
      <4>2. i - 1 \in Nat /\ i - 1 <= n
        BY <1>3
      <4>3. \A j \in 1 .. i - 1 : next[j] = out[j]
        BY <4>2, <2>4, <1>3
      <4>4. LastAt(next, i - 1, d) = LastAt(out, i - 1, d)
        <5> HIDE DEF d
        <5> QED
          BY <4>2, <4>3, LastAtKept
      <4>5. Hangs(sample, out, i - 1, next[i])
        <5>1. CASE i \in 1 .. n
          <6>1. next[i] = out[i] /\ out[i].depth > 0
            BY <5>1, <3>1, <2>4
          <6> QED
            BY <6>1, <5>1, <1>1 DEF AllHang, n
        <5>2. CASE i = n + 1
          <6>1. next[i] = todo[1] /\ i - 1 = n /\ 1 \in 1 .. m /\ todo[1].depth > 0
            BY <5>2, <3>1, <2>4, <1>3
          <6>2. Hangs(sample, out, n, todo[1])
            BY <6>1, <1>1 DEF WillHang, n, m
          <6> QED
            BY <6>1, <6>2
        <5> QED
          BY <4>1, <5>1, <5>2
      <4>6. LastAt(out, i - 1, d) \in 1 .. i - 1
        BY <4>5 DEF Hangs
      <4>7. next[LastAt(out, i - 1, d)] = out[LastAt(out, i - 1, d)]
        <5> HIDE DEF d
        <5> QED
          BY <4>3, <4>6
      <4> QED
        BY <4>4, <4>5, <4>6, <4>7 DEF Hangs
    <3> QED
      BY <3>1, <2>4 DEF AllHang
  <2>13. WillHang(sample, next, then)
    <3>1. ASSUME NEW i \in 1 .. k + (m - 1), then[i].depth > 0
          PROVE  Hangs(sample, next, n + 1, then[i])
      <4>1. CASE i \in 1 .. k
        <5>1. /\ then[i].ref \in Blocked(sample, spid) /\ then[i].depth = row.depth + 1
              /\ row.depth \in Nat
          BY <4>1, <2>3, <2>5, <1>2, <1>3
        <5>2. then[i].depth - 1 = next[n + 1].depth
          BY <5>1, <2>4
        <5>3. LastAt(next, n + 1, next[n + 1].depth) = n + 1
          BY <1>3, LastAtIsLast
        <5>4. sample[then[i].ref] = spid /\ next[n + 1].ref[1] = spid
          BY <5>1, <2>4 DEF Blocked
        <5>5. n + 1 \in 1 .. n + 1
          BY <1>3
        <5> QED
          BY <5>2, <5>3, <5>4, <5>5 DEF Hangs
      <4>2. CASE i \notin 1 .. k
        <5>1. i - k \in 1 .. m - 1 /\ then[i] = rest[i - k]
          BY <4>2, <2>6
        <5>2. /\ rest[i - k].depth <= row.depth /\ rest[i - k].depth \in Nat
              /\ row.depth \in Nat
          BY <5>1, <1>2, <1>3, <1>7
        <5>3. rest[i - k].depth - 1 \in Int /\ rest[i - k].depth - 1 # row.depth
          BY <5>2
        <5>4. Hangs(sample, out, n, rest[i - k])
          BY <5>1, <3>1, <1>3, <1>9 DEF WillHang, n
        <5> QED
          BY <5>1, <5>3, <5>4, <2>11
      <4> QED
        BY <4>1, <4>2
    <3> QED
      BY <3>1, <2>4, <2>5 DEF WillHang
  <2>14. Laid(out) \cup Laid(todo) \subseteq Laid(next) \cup Laid(then)
    BY <2>7, <2>8, <1>6
  <2>15. Attached(sample, next, then)
    <3>1. ASSUME NEW ref \in Refs(sample), ~IsRoot(sample, ref),
                 NEW by \in Laid(next), by[1] = sample[ref]
          PROVE  ref \in Laid(next) \cup Laid(then)
      <4>1. CASE \E old \in Laid(out) : old[1] = sample[ref]
        BY <4>1, <3>1, <2>14, <1>1 DEF Attached
      <4>2. CASE ~\E old \in Laid(out) : old[1] = sample[ref]
        <5>1. by = row.ref /\ sample[ref] = spid
          BY <4>2, <3>1, <2>7
        <5>2. fam = Blocked(sample, spid)
          BY <4>2, <5>1 DEF fam
        <5> QED
          BY <5>1, <5>2, <3>1, <2>8 DEF Blocked
      <4> QED
        BY <4>1, <4>2
    <3> QED
      BY <3>1 DEF Attached
  <2>16. InsideIfLed(sample, next)
    <3>1. ASSUME NEW i \in 1 .. n + 1, next[i].ref \in Led(sample), ~IsRoot(sample, next[i].ref)
          PROVE  next[i].depth > 0
      <4>1. CASE i \in 1 .. n
        BY <4>1, <3>1, <2>4, <1>1 DEF InsideIfLed, n
      <4>2. CASE i \notin 1 .. n
        <5>1. i = n + 1 /\ 1 \in 1 .. m
          BY <4>2, <1>3
        <5> QED
          BY <5>1, <3>1, <2>4, <1>1, <1>3 DEF InsideIfLed, m
      <4> QED
        BY <4>1, <4>2
    <3> QED
      BY <3>1, <2>4 DEF InsideIfLed
  <2>17. InsideIfLed(sample, then)
    <3>1. ASSUME NEW i \in 1 .. k + (m - 1), then[i].ref \in Led(sample),
                 ~IsRoot(sample, then[i].ref)
          PROVE  then[i].depth > 0
      <4>1. CASE i \in 1 .. k
        <5>1. then[i].depth = row.depth + 1 /\ row.depth \in Nat
          BY <4>1, <2>3, <2>5, <1>2, <1>3
        <5> QED
          BY <5>1
      <4>2. CASE i \notin 1 .. k
        <5>1. i - k \in 1 .. m - 1 /\ then[i] = rest[i - k]
          BY <4>2, <2>6
        <5> QED
          BY <5>1, <3>1, <1>3, <1>7 DEF InsideIfLed
      <4> QED
        BY <4>1, <4>2
    <3> QED
      BY <3>1, <2>5 DEF InsideIfLed
  <2>18. LayoutInv(sample, owed, new)
    <3>1. new \in [out : Seq(E), todo : Seq(E)]
      BY <2>4, <2>5
    <3>2. owed \subseteq Laid(next) \cup Laid(then)
      BY <2>14, <1>1
    <3> HIDE DEF new
    <3> QED
      BY <3>1, <3>2, <2>2, <2>9, <2>10, <2>12, <2>13, <2>15, <2>16, <2>17 DEF LayoutInv, E
  <2>19. Cardinality(Pending(sample, out)) = Cardinality(Pending(sample, next)) + k
         /\ Cardinality(Pending(sample, next)) \in Nat
    <3>1. Pending(sample, next) = Pending(sample, out) \ fam
      <4>1. CASE here
        <5>1. fam = {}
          BY <4>1 DEF fam
        <5>2. \A ref \in Refs(sample) :
                (\E by \in Laid(next) : by[1] = sample[ref])
                  <=> \E by \in Laid(out) : by[1] = sample[ref]
          BY <4>1, <2>7
        <5> QED
          BY <5>1, <5>2 DEF Pending
      <4>2. CASE ~here
        <5>1. fam = Blocked(sample, spid)
          BY <4>2 DEF fam
        <5>2. \A ref \in Refs(sample) :
                (\E by \in Laid(next) : by[1] = sample[ref])
                  <=> (\E by \in Laid(out) : by[1] = sample[ref]) \/ sample[ref] = spid
          BY <2>7
        <5> QED
          BY <5>1, <5>2 DEF Pending, Blocked
      <4> QED
        BY <4>1, <4>2
    <3>2. fam \in SUBSET Pending(sample, out)
      BY DEF fam, Pending, Blocked
    <3>3. IsFiniteSet(fam) /\ IsFiniteSet(Pending(sample, next))
      BY <3>1, <3>2, <1>8, FS_Subset
    <3>4. /\ Pending(sample, out) = Pending(sample, next) \cup fam
          /\ Pending(sample, next) \cap fam = {}
      BY <3>1, <3>2
    <3>5. /\ Cardinality(Pending(sample, next)) \in Nat /\ Cardinality(fam) \in Nat
          /\ Cardinality(Pending(sample, next) \cap fam) = 0
      BY <3>3, <3>4, FS_CardinalityType, FS_EmptySet
    <3>6. Cardinality(Pending(sample, next) \cup fam)
            = Cardinality(Pending(sample, next)) + Cardinality(fam)
                - Cardinality(Pending(sample, next) \cap fam)
      BY <3>3, FS_Union
    <3>7. Cardinality(Pending(sample, next) \cup fam) = Cardinality(Pending(sample, out))
      BY <3>4
    <3> QED
      BY ONLY <3>5, <3>6, <3>7, <2>3
  <2>20. Weight(sample, new) = (k + (m - 1)) + Cardinality(Pending(sample, next))
    BY <2>2, <2>5 DEF Weight
  <2>21. Weight(sample, new) = Weight(sample, st) - 1 /\ Weight(sample, st) \in Nat
    BY ONLY <2>3, <2>19, <2>20, <1>3, <1>8
  <2> QED
    BY <2>1, <2>18, <2>21
<1> QED
  BY <1>10, <1>11

\* The whole walk ends with nothing to look at, and has kept all of it.
LEMMA WalkAllIs ==
  ASSUME NEW sample, IsSample(sample), NEW owed, NEW out0, NEW todo0,
         LayoutInv(sample, owed, [out |-> out0, todo |-> todo0]),
         Weight(sample, [out |-> out0, todo |-> todo0]) <= 2 * Cardinality(Refs(sample))
  PROVE  \E st : /\ LayoutInv(sample, owed, st) /\ st.todo = <<>>
                 /\ st.out = WalkAll(sample, out0, todo0)
<1> DEFINE n == 2 * Cardinality(Refs(sample))
           start == [out |-> out0, todo |-> todo0]
           Walks(f, m) == /\ f = [i \in 0 .. m |-> f[i]] /\ f[0] = start
                          /\ \A i \in 1 .. m : f[i] = Walk(sample, f[i - 1])
           none == {m \in 0 .. n : \A f : ~Walks(f, m)}
<1>1. n \in Nat
  <2>1. Cardinality(Refs(sample)) \in Nat
    BY FS_CardinalityType DEF IsSample
  <2> QED
    BY <2>1
<1>2. LayoutInv(sample, owed, start) /\ Weight(sample, start) <= n
  OBVIOUS
<1> HIDE DEF n, start
<1>3. none = {}
  <2>1. ASSUME NEW m \in none PROVE \E j \in none : j < m
    <3>1. CASE m = 0
      <4>1. Walks([i \in 0 .. 0 |-> start], 0)
        OBVIOUS
      <4> QED
        BY <4>1, <3>1
    <3>2. CASE m # 0
      <4>1. m \in Nat /\ m - 1 \in 0 .. n /\ m \in 1 .. n /\ m - 1 < m
        BY <1>1, <3>2
      <4> SUFFICES ASSUME m - 1 \notin none PROVE FALSE
        BY <4>1
      <4>2. PICK f : Walks(f, m - 1)
        BY <4>1
      <4> DEFINE g == [i \in 0 .. m |-> IF i = m THEN Walk(sample, f[m - 1]) ELSE f[i]]
      <4>3. g = [i \in 0 .. m |-> g[i]]
        OBVIOUS
      <4>4. g[0] = start
        BY <4>1, <4>2, <3>2
      <4>5. ASSUME NEW i \in 1 .. m PROVE g[i] = Walk(sample, g[i - 1])
        <5>1. i - 1 \in 0 .. m /\ i - 1 # m /\ i \in 0 .. m
          BY <4>1
        <5>2. g[i - 1] = f[i - 1]
          BY <5>1
        <5>3. CASE i = m
          BY <5>1, <5>2, <5>3
        <5>4. CASE i # m
          <6>1. i \in 1 .. m - 1
            BY <5>4, <4>1
          <6> QED
            BY <6>1, <5>1, <5>2, <5>4, <4>2
        <5> QED
          BY <5>3, <5>4
      <4> HIDE DEF g
      <4>6. Walks(g, m)
        BY <4>3, <4>4, <4>5
      <4> QED
        BY <4>6
    <3> QED
      BY <3>1, <3>2
  <2>2. none \in SUBSET (0 .. n)
    OBVIOUS
  <2> HIDE DEF none
  <2> QED
    BY <2>1, <2>2, <1>1, NoneIsFirst
<1>4. PICK f : Walks(f, n)
  <2>1. n \in 0 .. n
    BY <1>1
  <2>2. n \notin none
    BY ONLY <1>3
  <2> HIDE DEF Walks
  <2> QED
    BY <2>1, <2>2
<1> DEFINE Eq(g) == g = [i \in 0 .. n |-> IF i = 0 THEN start ELSE Walk(sample, g[i - 1])]
           u == CHOOSE g : Eq(g)
<1>5. Eq(f)
  <2>1. ASSUME NEW i \in 0 .. n
        PROVE  f[i] = IF i = 0 THEN start ELSE Walk(sample, f[i - 1])
    <3>1. i = 0 \/ i \in 1 .. n
      BY <1>1
    <3> QED
      BY <3>1, <1>4
  <2>2. f = [i \in 0 .. n |-> f[i]]
    BY <1>4
  <2> QED
    BY <2>1, <2>2
<1>6. Eq(u)
  <2> HIDE DEF Eq
  <2> QED
    BY <1>5
<1>7. WalkAll(sample, out0, todo0) = u[n].out
  BY DEF WalkAll, n, start
<1> HIDE DEF u
<1>8. \A i \in 0 .. n : u[i] = IF i = 0 THEN start ELSE Walk(sample, u[i - 1])
  BY <1>6
<1> DEFINE Looked(i) == /\ LayoutInv(sample, owed, u[i])
                        /\ u[i].todo = <<>> \/ Weight(sample, u[i]) <= n - i
           off == {i \in 0 .. n : ~Looked(i)}
<1>9. off = {}
  <2>1. ASSUME NEW i \in off PROVE \E j \in off : j < i
    <3>1. CASE i = 0
      <4>1. u[0] = start /\ n - 0 = n
        BY <1>1, <1>8
      <4> QED
        BY <4>1, <3>1, <1>2
    <3>2. CASE i # 0
      <4>1. i \in 1 .. n /\ i - 1 \in 0 .. n /\ i - 1 < i
        BY <1>1, <3>2
      <4>2. u[i] = Walk(sample, u[i - 1])
        BY <1>8, <3>2
      <4> SUFFICES ASSUME i - 1 \notin off PROVE FALSE
        BY <4>1
      <4>3. /\ LayoutInv(sample, owed, u[i - 1])
            /\ u[i - 1].todo = <<>> \/ Weight(sample, u[i - 1]) <= n - (i - 1)
        BY <4>1
      <4>4. CASE u[i - 1].todo = <<>>
        <5>1. u[i] = u[i - 1]
          BY <4>2, <4>4 DEF Walk
        <5> QED
          BY <5>1, <4>3, <4>4
      <4>5. CASE u[i - 1].todo # <<>>
        <5>1. /\ LayoutInv(sample, owed, u[i])
              /\ Weight(sample, u[i]) = Weight(sample, u[i - 1]) - 1
              /\ Weight(sample, u[i - 1]) \in Nat
          BY <4>2, <4>3, <4>5, WalkKeeps
        <5>2. i \in Nat
          BY <1>1
        <5>3. Weight(sample, u[i]) <= n - i
          BY ONLY <5>1, <5>2, <4>3, <4>5, <1>1
        <5> QED
          BY <5>1, <5>3
      <4> QED
        BY <4>4, <4>5
    <3> QED
      BY <3>1, <3>2
  <2>2. off \in SUBSET (0 .. n)
    OBVIOUS
  <2> HIDE DEF off
  <2> QED
    BY <2>1, <2>2, <1>1, NoneIsFirst
<1>10. Looked(n)
  <2>1. n \in 0 .. n
    BY <1>1
  <2> HIDE DEF Looked
  <2> QED
    BY <2>1, <1>9
<1>11. u[n].todo = <<>>
  <2> SUFFICES ASSUME u[n].todo # <<>> PROVE FALSE
    OBVIOUS
  <2>1. Weight(sample, u[n]) <= n - n /\ n - n = 0
    BY <1>1, <1>10
  <2>2. Weight(sample, u[n]) \in Nat
    BY <1>10, WalkKeeps
  <2>3. Len(u[n].todo) \in Nat /\ Len(u[n].todo) > 0
    BY <1>10 DEF LayoutInv
  <2>4. Cardinality(Pending(sample, u[n].out)) \in Nat
    <3>1. Pending(sample, u[n].out) \in SUBSET Refs(sample)
      BY DEF Pending
    <3> QED
      BY <3>1, FS_Subset, FS_CardinalityType DEF IsSample
  <2> QED
    BY ONLY <2>1, <2>2, <2>3, <2>4 DEF Weight
<1> QED
  BY <1>7, <1>10, <1>11

\* A list that begins a walk is no longer than a walk is.
LEMMA BeginsInside ==
  ASSUME NEW sample, IsSample(sample), NEW refs \in SUBSET Refs(sample), NEW out
  PROVE  Weight(sample, [out |-> out, todo |-> At(InOrder(refs), 0)])
           <= 2 * Cardinality(Refs(sample))
<1>1. Len(At(InOrder(refs), 0)) = Cardinality(refs)
  BY AtIs
<1>2. Pending(sample, out) \in SUBSET Refs(sample)
  BY DEF Pending
<1>3. /\ Cardinality(refs) \in Nat /\ Cardinality(refs) <= Cardinality(Refs(sample))
      /\ Cardinality(Pending(sample, out)) \in Nat
      /\ Cardinality(Pending(sample, out)) <= Cardinality(Refs(sample))
      /\ Cardinality(Refs(sample)) \in Nat
  BY <1>2, FS_Subset, FS_CardinalityType DEF IsSample
<1>4. Weight(sample, [out |-> out, todo |-> At(InOrder(refs), 0)])
        = Cardinality(refs) + Cardinality(Pending(sample, out))
  BY <1>1 DEF Weight
<1> QED
  BY <1>3, <1>4

\* What is laid out are rows of the sample.
LEMMA LaidAre ==
  ASSUME NEW sample, NEW out \in Seq(Entries(sample))
  PROVE  /\ Laid(out) \in SUBSET Refs(sample)
         /\ DOMAIN out = 1 .. Len(out) /\ Len(out) \in Nat
         /\ \A i \in 1 .. Len(out) : out[i].ref \in Refs(sample)
<1>1. DOMAIN out = 1 .. Len(out) /\ Len(out) \in Nat
  OBVIOUS
<1>2. \A e \in Entries(sample) : e.ref \in Refs(sample)
  BY DEF Entries
<1>3. \A i \in 1 .. Len(out) : out[i] \in Entries(sample)
  <2> DEFINE X == Entries(sample)
  <2>1. out \in Seq(X)
    OBVIOUS
  <2> HIDE DEF X
  <2>2. \A i \in 1 .. Len(out) : out[i] \in X
    BY ONLY <2>1
  <2> QED
    BY <2>2 DEF X
<1>4. \A i \in 1 .. Len(out) : out[i].ref \in Refs(sample)
  BY <1>2, <1>3
<1> QED
  BY <1>1, <1>4 DEF Laid

\* What is laid out when nothing is left to look at is closed, so that it holds
\* all that a chain leads to.
LEMMA LedIsLaid ==
  ASSUME NEW sample, NEW st, LayoutInv(sample, Roots(sample), st), st.todo = <<>>
  PROVE  Led(sample) \subseteq Laid(st.out) /\ Laid(st.out) \in SUBSET Refs(sample)
<1> DEFINE out == st.out
           laid == Laid(out)
<1>1. laid \in SUBSET Refs(sample)
  <2>1. out \in Seq(Entries(sample))
    BY DEF LayoutInv
  <2> QED
    BY <2>1, LaidAre
<1>2. Laid(st.todo) = {}
  BY DEF LayoutInv, Laid
<1>3. Attached(sample, out, st.todo) /\ Roots(sample) \subseteq laid
  BY <1>2 DEF LayoutInv
<1> HIDE DEF out
<1>4. Closed(sample, laid)
  BY <1>2, <1>3 DEF Closed, Attached, Roots
<1> QED
  BY <1>1, <1>4 DEF Led, out

\* What is laid out once each, and is all of the sample, is as long as it.
LEMMA AsManyAs ==
  ASSUME NEW sample, IsSample(sample), NEW out \in Seq(Entries(sample)), OnceEach(out),
         Laid(out) = Refs(sample)
  PROVE  Len(out) = Cardinality(Refs(sample))
<1> DEFINE n == Len(out)
           f == [i \in 1 .. n |-> out[i].ref]
<1>1. n \in Nat /\ DOMAIN out = 1 .. n
  BY LaidAre
<1>2. \A i \in 1 .. n : out[i].ref \in Refs(sample)
  BY LaidAre
<1> HIDE DEF n
<1>3. f \in [1 .. n -> Refs(sample)]
  BY <1>2
<1>4. \A i, j \in 1 .. n : f[i] = f[j] => i = j
  BY DEF OnceEach, n
<1>5. \A r \in Refs(sample) : \E i \in 1 .. n : f[i] = r
  <2>1. \A r \in Laid(out) : \E i \in 1 .. n : out[i].ref = r
    BY <1>1 DEF Laid
  <2> QED
    BY <2>1
<1> HIDE DEF f
<1>6. f \in Bijection(1 .. n, Refs(sample))
  BY <1>3, <1>4, <1>5 DEF Bijection, Injection, Surjection, IsInjective
<1>7. IsFiniteSet(1 .. n) /\ Cardinality(1 .. n) = n
  <2>1. Cardinality(1 .. n) = (IF 1 > n THEN 0 ELSE n - 1 + 1) /\ IsFiniteSet(1 .. n)
    BY <1>1, FS_Interval
  <2> QED
    BY <2>1, <1>1
<1>8. Cardinality(Refs(sample)) = Cardinality(1 .. n)
  BY <1>6, <1>7, FS_Bijection DEF ExistsBijection
<1> QED
  BY <1>7, <1>8 DEF n

\* A walk may begin with nothing laid out and the roots at the margin.
LEMMA RootsBegin ==
  ASSUME NEW sample, IsSample(sample)
  PROVE  LayoutInv(sample, Roots(sample),
                   [out |-> <<>>, todo |-> At(InOrder(Roots(sample)), 0)])
<1> DEFINE todo == At(InOrder(Roots(sample)), 0)
           n == Cardinality(Roots(sample))
           st == [out |-> <<>>, todo |-> todo]
<1>1. Roots(sample) \in SUBSET Refs(sample) /\ \A r \in Roots(sample) : IsRoot(sample, r)
  BY DEF Roots
<1>2. /\ todo \in Seq(Entries(sample)) /\ Len(todo) = n /\ n \in Nat
      /\ \A i \in 1 .. n : todo[i].ref \in Roots(sample) /\ todo[i].depth = 0
      /\ Laid(todo) = Roots(sample)
  BY <1>1, AtIs
<1> HIDE DEF todo, n
<1>3. Laid(<<>>) = {}
  BY DEF Laid
<1>4. st.out = <<>> /\ st.todo = todo /\ st \in [out : Seq(Entries(sample)), todo : Seq(Entries(sample))]
  <2>1. <<>> \in Seq(Entries(sample))
    OBVIOUS
  <2> QED
    BY <2>1, <1>2
<1> HIDE DEF st
<1>5. OnceEach(<<>>) /\ AllHang(sample, <<>>) /\ InsideIfLed(sample, <<>>)
  BY DEF OnceEach, AllHang, InsideIfLed
<1>6. Falls(todo)
  BY <1>2 DEF Falls
<1>7. WillHang(sample, <<>>, todo)
  BY <1>2 DEF WillHang
<1>8. Attached(sample, <<>>, todo)
  BY <1>3 DEF Attached
<1>9. InsideIfLed(sample, todo)
  BY <1>1, <1>2 DEF InsideIfLed
<1> QED
  BY <1>2, <1>4, <1>5, <1>6, <1>7, <1>8, <1>9 DEF LayoutInv, st, todo

\* A walk may go on with what no chain leads to, at the margin.
LEMMA RestBegins ==
  ASSUME NEW sample, IsSample(sample), NEW st, LayoutInv(sample, Roots(sample), st),
         st.todo = <<>>
  PROVE  LayoutInv(sample, Refs(sample),
                   [out |-> st.out, todo |-> At(InOrder(Refs(sample) \ Laid(st.out)), 0)])
<1> DEFINE out == st.out
           rest == Refs(sample) \ Laid(out)
           todo == At(InOrder(rest), 0)
           n == Cardinality(rest)
           new == [out |-> out, todo |-> todo]
<1>1. rest \in SUBSET Refs(sample)
  OBVIOUS
<1>2. /\ todo \in Seq(Entries(sample)) /\ Len(todo) = n /\ n \in Nat
      /\ \A i \in 1 .. n : todo[i].ref \in rest /\ todo[i].depth = 0
      /\ Laid(todo) = rest
  BY <1>1, AtIs
<1>3. Led(sample) \subseteq Laid(out)
  BY LedIsLaid
<1>4. /\ out \in Seq(Entries(sample)) /\ OnceEach(out) /\ AllHang(sample, out)
      /\ InsideIfLed(sample, out)
  BY DEF LayoutInv
<1>5. Refs(sample) \subseteq Laid(out) \cup Laid(todo)
  BY <1>2
<1>6. InsideIfLed(sample, todo)
  <2>1. ASSUME NEW i \in 1 .. n PROVE todo[i].ref \notin Led(sample)
    BY <1>2, <1>3
  <2> HIDE DEF todo, n
  <2> QED
    BY <2>1, <1>2 DEF InsideIfLed
<1> HIDE DEF todo, n, rest, out
<1>7. new.out = out /\ new.todo = todo
      /\ new \in [out : Seq(Entries(sample)), todo : Seq(Entries(sample))]
  BY <1>2, <1>4
<1> HIDE DEF new
<1>8. Falls(todo)
  BY <1>2 DEF Falls
<1>9. WillHang(sample, out, todo)
  BY <1>2 DEF WillHang
<1>10. Attached(sample, out, todo)
  BY <1>5 DEF Attached
<1>11. LayoutInv(sample, Refs(sample), new)
  BY <1>4, <1>5, <1>6, <1>7, <1>8, <1>9, <1>10 DEF LayoutInv
<1> QED
  BY <1>11 DEF new, todo, rest, out

\* Flatten lays out every row of a sample once, and under the one it hangs on.
LEMMA FlattenIs ==
  ASSUME NEW sample, IsSample(sample)
  PROVE  IsLayout(sample, Flatten(sample)) /\ NoneAdrift(sample, Flatten(sample))
<1> DEFINE roots == At(InOrder(Roots(sample)), 0)
           led == WalkAll(sample, <<>>, roots)
           rest == At(InOrder(Refs(sample) \ Laid(led)), 0)
           out == Flatten(sample)
<1>1. PICK a : /\ LayoutInv(sample, Roots(sample), a) /\ a.todo = <<>>
               /\ a.out = led
  <2>1. LayoutInv(sample, Roots(sample), [out |-> <<>>, todo |-> roots])
    BY RootsBegin
  <2>2. Weight(sample, [out |-> <<>>, todo |-> roots]) <= 2 * Cardinality(Refs(sample))
    <3>1. Roots(sample) \in SUBSET Refs(sample)
      BY DEF Roots
    <3> QED
      BY <3>1, BeginsInside
  <2> HIDE DEF roots
  <2> QED
    BY <2>1, <2>2, WalkAllIs
<1>2. out = WalkAll(sample, led, rest)
  BY DEF Flatten
<1> HIDE DEF led, out
<1>3. PICK b : /\ LayoutInv(sample, Refs(sample), b) /\ b.todo = <<>>
               /\ b.out = out
  <2>1. LayoutInv(sample, Refs(sample), [out |-> led, todo |-> rest])
    BY <1>1, RestBegins
  <2>2. Weight(sample, [out |-> led, todo |-> rest]) <= 2 * Cardinality(Refs(sample))
    <3>1. Refs(sample) \ Laid(led) \in SUBSET Refs(sample)
      OBVIOUS
    <3> QED
      BY <3>1, BeginsInside
  <2> HIDE DEF rest
  <2> QED
    BY <2>1, <2>2, <1>2, WalkAllIs
<1> DEFINE n == Len(out)
<1>4. /\ out \in Seq(Entries(sample)) /\ OnceEach(out) /\ AllHang(sample, out)
      /\ InsideIfLed(sample, out) /\ Refs(sample) \subseteq Laid(out) \cup Laid(<<>>)
  BY <1>3 DEF LayoutInv
<1>5. Laid(out) = Refs(sample)
  <2>1. Laid(<<>>) = {}
    BY DEF Laid
  <2>2. Laid(out) \in SUBSET Refs(sample)
    BY <1>4, LaidAre
  <2> QED
    BY <2>1, <2>2, <1>4
<1>6. n = Cardinality(Refs(sample))
  BY <1>4, <1>5, AsManyAs
<1>7. n \in Nat /\ DOMAIN out = 1 .. n
  BY <1>4
<1>8. ASSUME NEW i \in 1 .. n, out[i].depth > 0
      PROVE  Parent(out, i) # 0 /\ out[Parent(out, i)].ref[1] = sample[out[i].ref]
  <2>1. Hangs(sample, out, i - 1, out[i])
    BY <1>8, <1>4 DEF AllHang
  <2>2. Parent(out, i) \in 1 .. i - 1 /\ out[Parent(out, i)].ref[1] = sample[out[i].ref]
    BY <2>1 DEF Hangs, Parent
  <2> QED
    BY <2>2
<1>9. IsLayout(sample, out)
  <2> HIDE DEF n
  <2> QED
    BY <1>5, <1>6, <1>7, <1>8 DEF IsLayout, n
<1>10. NoneAdrift(sample, out)
  BY <1>4, <1>7 DEF NoneAdrift, InsideIfLed
<1> QED
  BY <1>9, <1>10 DEF out

\* Every sample is one.
LEMMA SamplesAre ==
  ASSUME NEW sample \in Samples
  PROVE  IsSample(sample)
<1>1. PICK refs \in SUBSET (Spids \X Requests) : sample \in [refs -> Spids \cup {0}]
  BY DEF Samples
<1>2. Refs(sample) = refs
  BY <1>1 DEF Refs
<1>3. refs \in SUBSET (Nat \X Nat)
  BY BlockingAssumption
<1>4. IsFiniteSet(Spids \X Requests)
  BY BlockingAssumption, FS_Product
<1>5. IsFiniteSet(refs)
  BY <1>4, FS_Subset
<1> QED
  BY <1>2, <1>3, <1>5 DEF IsSample

-----------------------------------------------------------------------------
\* The blocking view: the rows that Flatten makes of a sample are all of the
\* sample, each once, each under a row of the session that blocks it, and at
\* the margin only if no chain leads to it.
THEOREM EveryChainIsLaidOut ==
  \A sample \in Samples :
    IsLayout(sample, Flatten(sample)) /\ NoneAdrift(sample, Flatten(sample))
BY SamplesAre, FlattenIs

\* The same, of the latest sample of the window, whatever the ticks were.
THEOREM EverySampleLaidOut == WindowSpec => []EveryRowLaidOut
<1>1. EveryRowLaidOut
  BY EveryChainIsLaidOut DEF EveryRowLaidOut
<1> QED
  BY <1>1, PTL

=============================================================================
