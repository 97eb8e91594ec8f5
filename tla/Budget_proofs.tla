---------------------------- MODULE Budget_proofs ----------------------------
(***************************************************************************)
(* For every window, recovery period, limit, configuration and sequence of *)
(* readings: how the throttle is spaced on the way up, and what it waits   *)
(* for on the way down.                                                    *)
(*                                                                         *)
(* The average itself (Hot) is left opaque: what is proved holds whatever  *)
(* the readings add up to.                                                 *)
(***************************************************************************)
EXTENDS Budget, SequenceTheorems, WellFoundedInduction, TLAPS

\* The assumption, in the form the proofs use.
LEMMA Constants ==
  /\ Window \in Nat \ {0} /\ Recovery \in Nat \ {0}
  /\ Never \notin Int
  /\ Periods \subseteq Nat \ {0}
  /\ Commanded \subseteq Tiers \ {"space"}
  /\ Configured \subseteq [Tiers -> Periods]
  /\ Gaps \subseteq Nat /\ Costs \subseteq Int
BY BudgetAssumption

\* A set of naturals that is not empty has a least element.
LEMMA LeastNat ==
  ASSUME NEW S \in SUBSET Nat, S # {}
  PROVE  \E k \in S : \A i \in S : k <= i
<1>1. PICK k \in S : \A i \in S : ~(<<i, k>> \in OpToRel(<, Nat))
  BY NatLessThanWellFounded, WFMin
<1>2. ASSUME NEW i \in S PROVE k <= i
  <2>1. ~(<<i, k>> \in OpToRel(<, Nat))
    BY <1>1
  <2>2. <<i, k>> \in Nat \X Nat
    OBVIOUS
  <2>3. <<i, k>>[1] = i /\ <<i, k>>[2] = k
    OBVIOUS
  <2>4. ~(i < k)
    BY <2>1, <2>2, <2>3 DEF OpToRel
  <2> QED BY <2>4
<1> QED BY <1>2

\* Min finds it.
LEMMA LeastOf ==
  ASSUME NEW S \in SUBSET Nat, S # {}
  PROVE  Min(S) \in S /\ \A i \in S : Min(S) <= i
BY LeastNat DEF Min

\* The average is over the limit or it is not.
LEMMA Bool == ASSUME NEW w PROVE Hot(w) \in BOOLEAN
BY DEF Hot

\* The interval just folded in ends inside the window, so something is kept;
\* what is kept was there, and the oldest of it ends inside the window.
LEMMA KeptFacts ==
  ASSUME NEW w \in Seq(Intervals), NEW iv \in Intervals, NEW at \in Int,
         iv.end = at
  PROVE  /\ Kept(Append(w, iv), at) \in Seq(Intervals)
         /\ Len(Kept(Append(w, iv), at)) >= 1
         /\ Kept(Append(w, iv), at)[1].end > at - Window
         /\ \A i \in 1 .. Len(Kept(Append(w, iv), at)) :
              \E j \in 1 .. Len(w) + 1 : Kept(Append(w, iv), at)[i] = Append(w, iv)[j]
<1> DEFINE v == Append(w, iv)
           inside == {i \in 1 .. Len(v) : v[i].end > at - Window}
           first == Min(inside)
<1>1. v \in Seq(Intervals) /\ Len(v) = Len(w) + 1 /\ v[Len(v)] = iv /\ Len(w) \in Nat
  OBVIOUS
<1>2. Len(v) \in inside
  BY <1>1, Constants
<1>3. first \in inside
  <2>1. inside \in SUBSET Nat /\ inside # {}
    BY <1>1, <1>2
  <2> HIDE DEF inside
  <2> QED BY <2>1, LeastOf
<1>4. first \in 1 .. Len(v) /\ v[first].end > at - Window
  BY <1>3
<1>5. Kept(v, at) = SubSeq(v, first, Len(v))
  BY <1>2 DEF Kept
<1> HIDE DEF first, inside, v
<1>6. /\ SubSeq(v, first, Len(v)) \in Seq(Intervals)
      /\ Len(SubSeq(v, first, Len(v))) = Len(v) - first + 1
      /\ \A i \in 1 .. Len(v) - first + 1 : SubSeq(v, first, Len(v))[i] = v[first + i - 1]
  <2>1. \A i \in first .. Len(v) : v[i] \in Intervals
    BY <1>1, <1>4
  <2> QED BY <1>1, <1>4, <2>1, SubSeqProperties
<1>7. SubSeq(v, first, Len(v))[1] = v[first]
  BY <1>1, <1>4, <1>6
<1>8. \A i \in 1 .. Len(v) - first + 1 : first + i - 1 \in 1 .. Len(w) + 1
  BY <1>1, <1>4
<1>9. \A i \in 1 .. Len(v) - first + 1 :
        \E j \in 1 .. Len(w) + 1 : SubSeq(v, first, Len(v))[i] = v[j]
  BY <1>6, <1>8
<1>10. /\ Kept(v, at) \in Seq(Intervals)
       /\ Len(Kept(v, at)) >= 1
       /\ Kept(v, at)[1].end > at - Window
       /\ \A i \in 1 .. Len(Kept(v, at)) :
            \E j \in 1 .. Len(w) + 1 : Kept(v, at)[i] = v[j]
  BY <1>1, <1>4, <1>5, <1>6, <1>7, <1>9
<1> QED BY <1>10 DEF v
-----------------------------------------------------------------------------
(* The inductive invariant.                                                *)

\* Intervals lie in the past and are no wider than the widest.
WindowInv ==
  \A i \in 1 .. Len(window) :
    /\ prev # Never
    /\ window[i].start <= window[i].end /\ window[i].end <= prev
    /\ window[i].end - window[i].start <= widest

\* The histories lie in the past, in order.
OrderInv ==
  /\ evaluatedAt # Never =>
       /\ prev # Never /\ evaluatedAt <= prev
       /\ streak.from # Never /\ streak.from <= evaluatedAt
  /\ movedAt # Never => evaluatedAt # Never /\ movedAt <= evaluatedAt

\* lastEscalate is the last change of level, in either direction.
LadderInv ==
  /\ lastEscalate = movedAt
  /\ cooldown = CooldownOf(base)
  /\ level > 0 => movedAt # Never

MovedInStreak == movedAt # Never /\ movedAt >= streak.from

\* Where the quiet is counted from: the last change of level if there was one
\* in this streak, else not much before the streak.
QuietInv ==
  /\ quietFrom # Never =>
       /\ evaluatedAt # Never /\ ~streak.hot
       /\ quietFrom > streak.from - Window - widest
       /\ IF MovedInStreak THEN quietFrom = movedAt ELSE quietFrom <= streak.from
  /\ evaluatedAt # Never /\ ~streak.hot /\ level > 0 => quietFrom # Never

\* EscalatesInTime, told from the last change of level.
HotInv ==
  evaluatedAt # Never /\ streak.hot =>
    level = MaxLevel \/ (movedAt # Never /\ evaluatedAt - movedAt < cooldown)

IInv ==
  TypeOK /\ WindowInv /\ OrderInv /\ LadderInv /\ QuietInv /\ HotInv /\ RecoversInTime

-----------------------------------------------------------------------------
\* The cooldown is a window and two space periods.
LEMMA CooldownIsNat ==
  ASSUME NEW b \in [Tiers -> Periods]
  PROVE  CooldownOf(b) \in Nat /\ CooldownOf(b) = Window + 2 * b["space"]
<1>1. b["space"] \in Periods
  BY DEF Tiers
<1>2. b["space"] \in Nat /\ Window \in Nat
  BY <1>1, Constants
<1> QED BY <1>2 DEF CooldownOf

\* The throttle starts inside the invariant.
LEMMA InitIInv == Init => IInv
<1> SUFFICES ASSUME Init PROVE IInv
  OBVIOUS
<1> USE DEF Init
<1>1. base \in [Tiers -> Periods]
  BY Constants
<1>2. TypeOK
  BY <1>1, CooldownIsNat DEF TypeOK, Instants, MaxLevel
<1>3. WindowInv /\ OrderInv /\ LadderInv /\ QuietInv /\ HotInv /\ RecoversInTime
  BY DEF WindowInv, OrderInv, LadderInv, QuietInv, HotInv, RecoversInTime
<1> QED BY <1>2, <1>3 DEF IInv

\* What taking an average does to the window and to the histories.
LEMMA FoldFacts ==
  ASSUME IInv, NEW at \in Int, NEW ms \in Int, Fold(at, ms)
  PROVE  /\ prev \in Int /\ prev < at /\ prev' = at
         /\ window' \in Seq(Intervals)
         /\ widest' \in Nat /\ widest <= widest'
         /\ WindowInv'
         /\ window'[1].start \in Int /\ window'[1].start <= at
         /\ window'[1].start > at - Window - widest'
<1> DEFINE iv == [start |-> prev, end |-> at, ms |-> ms]
<1>1. /\ prev \in Int /\ prev < at /\ prev' = at /\ ms \in Nat
      /\ window \in Seq(Intervals) /\ widest \in Nat
      /\ window' = Kept(Append(window, iv), at)
      /\ Remember(window', at)
  BY DEF Fold, IInv, TypeOK, Instants
<1>2. iv \in Intervals /\ iv.end = at /\ iv.start = prev
  BY <1>1 DEF Intervals
<1>3. widest' \in Nat /\ widest <= widest' /\ at - prev <= widest'
  BY <1>1 DEF Remember, IInv, TypeOK, Instants, OrderInv
<1> HIDE DEF iv
<1>4. /\ window' \in Seq(Intervals)
      /\ Len(window') >= 1
      /\ window'[1].end > at - Window
      /\ \A i \in 1 .. Len(window') :
           \E j \in 1 .. Len(window) + 1 : window'[i] = Append(window, iv)[j]
  BY <1>1, <1>2, KeptFacts
<1>5. \A j \in 1 .. Len(window) + 1 :
        LET x == Append(window, iv)[j]
        IN x.start <= x.end /\ x.end <= at /\ x.end - x.start <= widest'
  <2> SUFFICES ASSUME NEW j \in 1 .. Len(window) + 1
               PROVE  LET x == Append(window, iv)[j]
                      IN x.start <= x.end /\ x.end <= at /\ x.end - x.start <= widest'
    OBVIOUS
  <2>1. CASE j = Len(window) + 1
    <3>1. Append(window, iv)[j] = iv
      BY <2>1, <1>1, <1>2
    <3> QED BY <3>1, <1>1, <1>2, <1>3
  <2>2. CASE j \in 1 .. Len(window)
    <3>1. Append(window, iv)[j] = window[j] /\ window[j] \in Intervals
      BY <2>2, <1>1, <1>2
    <3>2. window[j].start \in Int /\ window[j].end \in Int
      BY <3>1 DEF Intervals
    <3>3. /\ window[j].start <= window[j].end /\ window[j].end <= prev
          /\ window[j].end - window[j].start <= widest
      BY <2>2 DEF IInv, WindowInv
    <3> QED BY <3>1, <3>2, <3>3, <1>1, <1>3
  <2> QED BY <2>1, <2>2, <1>1
<1>6. \A i \in 1 .. Len(window') :
        /\ window'[i] \in Intervals
        /\ window'[i].start <= window'[i].end /\ window'[i].end <= at
        /\ window'[i].end - window'[i].start <= widest'
  BY <1>4, <1>5
<1>7. WindowInv'
  BY <1>6, <1>1, Constants DEF WindowInv
<1>8. /\ window'[1] \in Intervals
      /\ window'[1].start <= window'[1].end /\ window'[1].end <= at
      /\ window'[1].end - window'[1].start <= widest'
  BY <1>4, <1>6
<1>9. window'[1].start \in Int /\ window'[1].end \in Int
  BY <1>8 DEF Intervals
<1> QED BY <1>1, <1>3, <1>4, <1>7, <1>8, <1>9, Constants

\* What the streak is after an average.
LEMMA StreakFacts ==
  ASSUME IInv, NEW at \in Int, NEW ms \in Int, Fold(at, ms)
  PROVE  /\ evaluatedAt' = at /\ evaluatedAt' # Never
         /\ streak' \in [hot : BOOLEAN, from : Instants]
         /\ streak'.hot = Hot(window')
         /\ streak'.from \in Int /\ streak'.from <= at
         /\ \/ evaluatedAt # Never /\ streak.hot = streak'.hot /\ streak' = streak
            \/ /\ evaluatedAt = Never \/ streak.hot # streak'.hot
               /\ streak'.from = at
<1>1. /\ evaluatedAt' = at
      /\ streak' = IF evaluatedAt # Never /\ streak.hot = Hot(window')
                   THEN streak ELSE [hot |-> Hot(window'), from |-> at]
  BY DEF Fold, Remember
<1>2. Hot(window') \in BOOLEAN
  BY Bool
<1>3. /\ prev \in Int /\ prev < at
      /\ streak \in [hot : BOOLEAN, from : Instants]
      /\ evaluatedAt \in Instants
  BY FoldFacts DEF IInv, TypeOK
<1>4. CASE evaluatedAt # Never /\ streak.hot = Hot(window')
  <2>1. streak' = streak
    BY <1>1, <1>4
  <2>2. streak.from \in Int /\ streak.from <= at
    BY <1>3, <1>4 DEF IInv, OrderInv, Instants
  <2> QED BY <1>1, <1>3, <1>4, <2>1, <2>2, Constants
<1>5. CASE ~(evaluatedAt # Never /\ streak.hot = Hot(window'))
  <2>1. streak' = [hot |-> Hot(window'), from |-> at]
    BY <1>1, <1>5
  <2>2. streak' \in [hot : BOOLEAN, from : Instants]
    BY <2>1, <1>2 DEF Instants
  <2> QED BY <1>1, <1>5, <2>1, <2>2, Constants
<1> QED BY <1>4, <1>5

-----------------------------------------------------------------------------
\* The cooldown is never nothing.
LEMMA CooldownPositive ==
  ASSUME IInv
  PROVE  cooldown \in Nat /\ cooldown > 0
<1>1. base \in [Tiers -> Periods] /\ cooldown = Window + 2 * base["space"]
  BY CooldownIsNat DEF IInv, TypeOK, LadderInv
<1>2. base["space"] \in Periods
  BY <1>1 DEF Tiers
<1>3. base["space"] \in Nat /\ Window \in Nat \ {0}
  BY <1>2, Constants
<1> QED BY <1>1, <1>3

\* The part of TypeOK a revision decides.
Types ==
  /\ level \in 0 .. MaxLevel /\ lastEscalate \in Instants /\ quietFrom \in Instants
  /\ movedAt \in Instants

\* An average over the limit keeps the invariant.
LEMMA HotStep ==
  ASSUME IInv, NEW at \in Int, NEW ms \in Int, Fold(at, ms),
         ReviseHot(window', at)
  PROVE  Types' /\ OrderInv' /\ LadderInv' /\ QuietInv' /\ HotInv' /\ RecoversInTime'
<1>1. /\ prev \in Int /\ prev < at /\ prev' = at
      /\ evaluatedAt' = at /\ evaluatedAt' # Never
      /\ streak'.from \in Int /\ streak'.from <= at /\ streak'.from # Never
      /\ streak'.hot = TRUE /\ base' = base /\ cooldown' = cooldown
      /\ cooldown \in Nat /\ cooldown > 0
  <2>1. Hot(window') = TRUE
    BY Bool DEF ReviseHot
  <2>2. base' = base /\ cooldown' = cooldown
    BY DEF Fold, baseVars
  <2>3. cooldown \in Nat /\ cooldown > 0
    BY CooldownPositive
  <2> QED BY <2>1, <2>2, <2>3, FoldFacts, StreakFacts, Constants
<1>2. quietFrom' = Never
  BY DEF ReviseHot
<1>3. level \in 0 .. 3 /\ movedAt \in Instants /\ lastEscalate = movedAt
  BY DEF IInv, TypeOK, LadderInv, MaxLevel
<1>4. CASE Escalates(at)
  <2>1. level' = level + 1 /\ lastEscalate' = at /\ movedAt' = at /\ level < MaxLevel
    BY <1>3, <1>4 DEF ReviseHot, Escalates, Fold, Remember
  <2> QED BY <1>1, <1>2, <1>3, <2>1, Constants
          DEF Types, Instants, OrderInv, LadderInv, QuietInv, HotInv, RecoversInTime,
              MaxLevel, IInv
<1>5. CASE ~Escalates(at)
  <2>1. level' = level /\ lastEscalate' = lastEscalate /\ movedAt' = movedAt
    BY <1>5 DEF ReviseHot, Fold, Remember
  <2>2. level = MaxLevel \/ (movedAt # Never /\ at - movedAt < cooldown)
    BY <1>1, <1>3, <1>5, Constants DEF Escalates, Instants, MaxLevel
  <2>3. movedAt # Never => movedAt <= at
    BY <1>1, <1>3, Constants DEF IInv, TypeOK, OrderInv, Instants
  <2>4. level' > 0 => movedAt' # Never
    BY <2>1 DEF IInv, LadderInv
  <2>5. OrderInv'
    BY <1>1, <2>1, <2>3 DEF OrderInv
  <2>6. LadderInv'
    BY <1>1, <1>3, <2>1, <2>4 DEF LadderInv, IInv
  <2>7. QuietInv' /\ HotInv' /\ RecoversInTime'
    BY <1>1, <1>2, <2>1, <2>2 DEF QuietInv, HotInv, RecoversInTime
  <2>8. Types'
    BY <1>2, <1>3, <2>1 DEF Types, Instants, MaxLevel
  <2> QED BY <2>5, <2>6, <2>7, <2>8
<1> QED BY <1>4, <1>5
\* So does one that leaves the level alone.
LEMMA QuietStep ==
  ASSUME IInv, NEW at \in Int, NEW ms \in Int, Fold(at, ms),
         ReviseQuiet(window', at)
  PROVE  Types' /\ OrderInv' /\ LadderInv' /\ QuietInv' /\ HotInv' /\ RecoversInTime'
<1>1. /\ prev \in Int /\ prev < at /\ prev' = at
      /\ evaluatedAt' = at /\ evaluatedAt' # Never
      /\ streak'.from \in Int /\ streak'.from <= at /\ streak'.from # Never
      /\ streak'.hot = FALSE /\ base' = base /\ cooldown' = cooldown
      /\ level' = level /\ lastEscalate' = lastEscalate /\ movedAt' = movedAt
  <2>1. Hot(window') = FALSE
    BY Bool DEF ReviseQuiet
  <2>2. base' = base /\ cooldown' = cooldown
    BY DEF Fold, baseVars
  <2>3. level' = level /\ lastEscalate' = lastEscalate /\ movedAt' = movedAt
    BY DEF ReviseQuiet, Fold, Remember
  <2> QED BY <2>1, <2>2, <2>3, FoldFacts, StreakFacts, Constants
<1>2. level \in 0 .. 3 /\ movedAt \in Instants /\ lastEscalate = movedAt
  BY DEF IInv, TypeOK, LadderInv, MaxLevel
<1>3. movedAt # Never => movedAt <= evaluatedAt /\ evaluatedAt # Never
                         /\ evaluatedAt \in Int /\ movedAt \in Int /\ movedAt < at
  BY <1>1, <1>2, Constants DEF IInv, TypeOK, OrderInv, Instants
<1>4. LadderInv'
  BY <1>1, <1>2 DEF LadderInv, IInv
<1>5. OrderInv' /\ HotInv'
  BY <1>1, <1>3 DEF OrderInv, HotInv
<1>6. CASE level = 0
  <2>1. quietFrom' = Never
    BY <1>6 DEF ReviseQuiet
  <2>2. Types'
    BY <1>1, <1>2, <2>1 DEF Types, Instants, MaxLevel
  <2>3. QuietInv' /\ RecoversInTime'
    BY <1>1, <1>6, <2>1 DEF QuietInv, RecoversInTime
  <2> QED BY <1>4, <1>5, <2>2, <2>3
<1>7. CASE level # 0
  <2>1. quietFrom = Never /\ quietFrom' = window'[1].start
    BY <1>7 DEF ReviseQuiet
  <2>2. /\ quietFrom' \in Int /\ quietFrom' <= at /\ quietFrom' # Never
        /\ quietFrom' > at - Window - widest'
        /\ widest' \in Nat
    BY <2>1, FoldFacts, Constants
  <2>3. level > 0
    BY <1>2, <1>7
  <2>4. evaluatedAt = Never \/ streak.hot # FALSE
    BY <2>1, <2>3 DEF IInv, QuietInv
  <2>5. streak'.from = at
    BY <1>1, <2>4, StreakFacts
  <2>6. Types'
    BY <1>1, <1>2, <2>2 DEF Types, Instants, MaxLevel
  <2>7. ~MovedInStreak'
    BY <1>1, <1>3, <2>5, Constants DEF MovedInStreak
  <2>8. quietFrom' > streak'.from - Window - widest' /\ quietFrom' <= streak'.from
    BY <2>2, <2>5
  <2>9. QuietInv'
    BY <1>1, <2>2, <2>7, <2>8 DEF QuietInv
  <2>10. Settled' = at
    BY <1>1, <1>3, <2>5, Constants DEF Settled
  <2>11. RecoversInTime'
    BY <1>1, <2>10, Constants DEF RecoversInTime
  <2> QED BY <1>4, <1>5, <2>6, <2>9, <2>11
<1> QED BY <1>6, <1>7

\* So does one inside the limit with quiet already counted.
LEMMA RecoverStep ==
  ASSUME IInv, NEW at \in Int, NEW ms \in Int, Fold(at, ms),
         ReviseRecovers(window', at)
  PROVE  Types' /\ OrderInv' /\ LadderInv' /\ QuietInv' /\ HotInv' /\ RecoversInTime'
<1>1. /\ prev \in Int /\ prev < at /\ prev' = at
      /\ evaluatedAt' = at /\ evaluatedAt' # Never
      /\ streak'.from \in Int /\ streak'.from <= at /\ streak'.from # Never
      /\ streak'.hot = FALSE /\ base' = base /\ cooldown' = cooldown
      /\ widest \in Nat /\ widest' \in Nat /\ widest <= widest'
  <2>1. Hot(window') = FALSE
    BY Bool DEF ReviseRecovers
  <2>2. base' = base /\ cooldown' = cooldown
    BY DEF Fold, baseVars
  <2> QED BY <2>1, <2>2, FoldFacts, StreakFacts, Constants DEF IInv, TypeOK
<1>2. /\ level \in 1 .. 3 /\ movedAt \in Int /\ lastEscalate = movedAt
      /\ movedAt # Never /\ movedAt <= at
  <2>1. level \in 1 .. 3 /\ movedAt # Never /\ movedAt \in Int /\ lastEscalate = movedAt
    BY DEF ReviseRecovers, IInv, TypeOK, LadderInv, MaxLevel, Instants
  <2>2. evaluatedAt \in Int /\ evaluatedAt <= prev /\ movedAt <= evaluatedAt
    BY <2>1 DEF IInv, TypeOK, OrderInv, Instants
  <2> QED BY <1>1, <2>1, <2>2
<1>3. /\ quietFrom # Never /\ quietFrom \in Int
      /\ evaluatedAt # Never /\ ~streak.hot
      /\ quietFrom > streak.from - Window - widest
      /\ IF MovedInStreak THEN quietFrom = movedAt ELSE quietFrom <= streak.from
  BY DEF ReviseRecovers, IInv, TypeOK, QuietInv, Instants
<1>4. streak' = streak
  BY <1>1, <1>3, StreakFacts DEF IInv, TypeOK
<1>5. CASE at - quietFrom >= Recovery
  <2>1. level' = level - 1 /\ quietFrom' = at /\ lastEscalate' = at /\ movedAt' = at
    BY <1>2, <1>5 DEF ReviseRecovers, Fold, Remember
  <2>2. Types' /\ OrderInv' /\ LadderInv' /\ HotInv'
    BY <1>1, <1>2, <2>1, Constants
       DEF Types, Instants, MaxLevel, OrderInv, LadderInv, HotInv, IInv
  <2>3. MovedInStreak' /\ at > streak'.from - Window - widest'
    BY <1>1, <2>1, Constants DEF MovedInStreak
  <2>4. QuietInv'
    BY <1>1, <2>1, <2>3, Constants DEF QuietInv
  <2>5. Settled' = at
    BY <1>1, <2>1, Constants DEF Settled
  <2>6. RecoversInTime'
    BY <1>1, <2>5, Constants DEF RecoversInTime
  <2> QED BY <2>2, <2>4, <2>6
<1>6. CASE at - quietFrom < Recovery
  <2>1. level' = level /\ quietFrom' = quietFrom /\ lastEscalate' = lastEscalate
        /\ movedAt' = movedAt
    <3>1. ~(at - quietFrom >= Recovery)
      BY <1>1, <1>3, <1>6, Constants
    <3>2. level' = level /\ quietFrom' = quietFrom /\ lastEscalate' = lastEscalate
      BY <3>1 DEF ReviseRecovers
    <3> QED BY <3>2 DEF Fold, Remember
  <2>2. Types' /\ OrderInv' /\ LadderInv' /\ HotInv'
    BY <1>1, <1>2, <1>3, <2>1, Constants
       DEF Types, Instants, MaxLevel, OrderInv, LadderInv, HotInv, IInv
  <2>3. MovedInStreak' = MovedInStreak
    BY <1>4, <2>1 DEF MovedInStreak
  <2>4. quietFrom > streak.from - Window - widest'
    BY <1>1, <1>3, <1>4, Constants
  <2>5. QuietInv'
    BY <1>1, <1>3, <1>4, <2>1, <2>3, <2>4 DEF QuietInv
  <2>6. Settled' \in Int /\ quietFrom <= Settled'
    BY <1>1, <1>2, <1>3, <1>4, <2>1 DEF Settled, MovedInStreak
  <2>7. at - Settled' < Recovery
    <3>1. \A x, y \in Int : y <= x /\ at - y < Recovery => at - x < Recovery
      BY Constants
    <3> QED BY <1>3, <1>6, <2>6, <3>1
  <2>8. RecoversInTime'
    BY <1>1, <2>7 DEF RecoversInTime
  <2> QED BY <2>2, <2>5, <2>8
<1> QED BY <1>1, <1>3, <1>5, <1>6, Constants
-----------------------------------------------------------------------------
\* A reading that is folded in keeps the invariant.
LEMMA FoldKeeps ==
  ASSUME IInv, NEW at \in Int, NEW ms \in Int, Fold(at, ms)
  PROVE  IInv'
<1>1. Revise(window', at)
  BY DEF Fold
<1>2. Types' /\ OrderInv' /\ LadderInv' /\ QuietInv' /\ HotInv' /\ RecoversInTime'
  BY <1>1, HotStep, QuietStep, RecoverStep DEF Revise
<1>3. base' = base /\ cooldown' = cooldown
  BY DEF Fold, baseVars
<1>4. TypeOK'
  BY <1>2, <1>3, FoldFacts, StreakFacts DEF TypeOK, Types, Instants, IInv
<1> QED BY <1>2, <1>4, FoldFacts DEF IInv

\* A reading that only moves prev forward.
LEMMA ReadingKeeps ==
  ASSUME IInv, NEW at \in Int, prev' = at, prev # Never => prev <= at,
         UNCHANGED <<window, level, lastEscalate, quietFrom, baseVars, seenVars>>
  PROVE  IInv'
<1> USE DEF baseVars, seenVars
<1>1. prev' \in Int /\ prev' # Never
  BY Constants
<1>2. TypeOK'
  BY <1>1 DEF IInv, TypeOK, Instants
<1>3. WindowInv'
  <2> SUFFICES ASSUME NEW i \in 1 .. Len(window)
               PROVE  /\ prev' # Never
                      /\ window[i].start <= window[i].end /\ window[i].end <= prev'
                      /\ window[i].end - window[i].start <= widest
    BY DEF WindowInv
  <2>1. /\ prev # Never /\ prev \in Int /\ window[i].end \in Int
        /\ window[i].start <= window[i].end /\ window[i].end <= prev
        /\ window[i].end - window[i].start <= widest
    <3>1. window[i] \in Intervals
      BY DEF IInv, TypeOK
    <3>2. window[i].end \in Int
      BY <3>1 DEF Intervals
    <3> QED BY <3>2 DEF IInv, WindowInv, TypeOK, Instants
  <2> QED BY <1>1, <2>1
<1>4. OrderInv'
  <2>1. evaluatedAt # Never => evaluatedAt <= at
    BY Constants DEF IInv, OrderInv, TypeOK, Instants
  <2> QED BY <1>1, <2>1 DEF IInv, OrderInv
<1>5. LadderInv' /\ QuietInv' /\ HotInv' /\ RecoversInTime'
  BY DEF IInv, LadderInv, QuietInv, HotInv, RecoversInTime, MovedInStreak, Settled
<1> QED BY <1>2, <1>3, <1>4, <1>5 DEF IInv

\* A period set by hand leaves the cooldown what it was.
LEMMA SetBaseKeeps ==
  ASSUME IInv, NEW tier \in Commanded, NEW d \in Periods, SetBase(tier, d)
  PROVE  IInv'
<1> USE DEF throttleVars, seenVars
<1>1. base' = [base EXCEPT ![tier] = d] /\ cooldown' = CooldownOf(base')
  BY DEF SetBase
<1>2. base \in [Tiers -> Periods] /\ base' \in [Tiers -> Periods]
  BY <1>1, Constants DEF IInv, TypeOK
<1>3. base'["space"] = base["space"]
  BY <1>1, <1>2, Constants DEF Tiers
<1>4. cooldown' = cooldown /\ cooldown \in Nat
  BY <1>1, <1>2, <1>3, CooldownIsNat DEF IInv, LadderInv
<1>5. /\ UNCHANGED <<prev, window, level, lastEscalate, quietFrom>>
      /\ UNCHANGED <<streak, evaluatedAt, widest, movedAt>>
  BY DEF SetBase
<1>6. TypeOK'
  BY <1>2, <1>4, <1>5 DEF IInv, TypeOK, Instants
<1>7. WindowInv' /\ OrderInv'
  BY <1>5 DEF IInv, WindowInv, OrderInv
<1>8. LadderInv'
  BY <1>1, <1>5 DEF IInv, LadderInv
<1>9. QuietInv' /\ HotInv' /\ RecoversInTime'
  BY <1>4, <1>5 DEF IInv, QuietInv, HotInv, RecoversInTime, MovedInStreak, Settled
<1> QED BY <1>6, <1>7, <1>8, <1>9 DEF IInv

\* The invariant is about the variables of the throttle only.
LEMMA StutterKeeps ==
  ASSUME IInv, UNCHANGED budgetVars
  PROVE  IInv'
BY DEF budgetVars, throttleVars, baseVars, seenVars, IInv, TypeOK, Instants, WindowInv,
       OrderInv, LadderInv, QuietInv, HotInv, RecoversInTime, MovedInStreak, Settled

\* Any reading keeps the invariant.
LEMMA ObserveKeeps ==
  ASSUME IInv, NEW dt \in Gaps, NEW ms \in Costs,
         Observe(IF prev = Never THEN 0 ELSE prev + dt, ms)
  PROVE  IInv'
<1> DEFINE at == IF prev = Never THEN 0 ELSE prev + dt
<1>1. at \in Int /\ ms \in Int /\ (prev # Never => prev \in Int /\ prev <= at)
  BY Constants DEF IInv, TypeOK, Instants
<1> HIDE DEF at
<1>2. Seed(at) \/ Skip(at, ms) \/ Fold(at, ms)
  BY DEF Observe, at
<1>3. CASE Seed(at)
  BY <1>1, <1>3, ReadingKeeps DEF Seed
<1>4. CASE Skip(at, ms)
  BY <1>1, <1>4, ReadingKeeps DEF Skip
<1>5. CASE Fold(at, ms)
  BY <1>1, <1>5, FoldKeeps
<1> QED BY <1>2, <1>3, <1>4, <1>5

-----------------------------------------------------------------------------
\* Every step of the throttle keeps the invariant.
THEOREM Inductive == IInv /\ [Next]_budgetVars => IInv'
<1> SUFFICES ASSUME IInv, [Next]_budgetVars PROVE IInv'
  OBVIOUS
<1>1. CASE \E tier \in Commanded, d \in Periods : SetBase(tier, d)
  BY <1>1, SetBaseKeeps
<1>2. CASE UNCHANGED budgetVars
  BY <1>2, StutterKeeps
<1>3. CASE \E dt \in Gaps, ms \in Costs :
             LET at == IF prev = Never THEN 0 ELSE prev + dt
             IN at <= MaxClock /\ Observe(at, ms)
  BY <1>3, ObserveKeeps
<1> QED BY <1>1, <1>2, <1>3 DEF Next

\* The invariant holds throughout.
LEMMA Invariant == Spec => []IInv
BY InitIInv, Inductive, PTL DEF Spec

\* The throttle's variables keep their types: the level never leaves the
\* ladder, and the cooldown is always a number of units.
THEOREM TypeCorrect == Spec => []TypeOK
<1>1. IInv => TypeOK
  BY DEF IInv
<1> QED BY Invariant, <1>1, PTL

\* Over the limit, the level is at the top or less than a cooldown from its
\* last move.
THEOREM EscalationInTime == Spec => []EscalatesInTime
<1>1. IInv => EscalatesInTime
  <2> SUFFICES ASSUME IInv, evaluatedAt # Never, streak.hot,
                      movedAt # Never, evaluatedAt - movedAt < cooldown
               PROVE  evaluatedAt - Settled < cooldown
    BY DEF IInv, HotInv, EscalatesInTime
  <2>1. /\ movedAt \in Int /\ evaluatedAt \in Int /\ streak.from \in Int
        /\ cooldown \in Nat
    BY DEF IInv, TypeOK, Instants, OrderInv
  <2>2. Settled \in Int /\ movedAt <= Settled
    BY <2>1 DEF Settled
  <2>3. \A x, y, t, c \in Int : y <= x /\ t - y < c => t - x < c
    OBVIOUS
  <2> QED BY <2>1, <2>2, <2>3
<1> QED BY Invariant, <1>1, PTL

\* Inside the limit, the level is at the bottom or less than a recovery period
\* from its last move or from the first average inside it.
THEOREM RecoveryInTime == Spec => []RecoversInTime
<1>1. IInv => RecoversInTime
  BY DEF IInv
<1> QED BY Invariant, <1>1, PTL

-----------------------------------------------------------------------------
\* A change of level is the work of one average.
LEMMA LevelMoves ==
  ASSUME IInv, [Next]_budgetVars, level' # level
  PROVE  \E at \in Int, ms \in Int : Fold(at, ms)
<1> USE DEF throttleVars
<1>1. ~(\E tier \in Commanded, d \in Periods : SetBase(tier, d))
  BY DEF SetBase
<1>2. ~UNCHANGED budgetVars
  BY DEF budgetVars
<1>3. PICK dt \in Gaps, ms \in Costs :
        Observe(IF prev = Never THEN 0 ELSE prev + dt, ms)
  BY <1>1, <1>2 DEF Next
<1> DEFINE at == IF prev = Never THEN 0 ELSE prev + dt
<1>4. at \in Int /\ ms \in Int
  BY Constants DEF IInv, TypeOK, Instants
<1> HIDE DEF at
<1>5. ~Seed(at) /\ ~Skip(at, ms)
  BY DEF Seed, Skip
<1>6. Fold(at, ms)
  BY <1>3, <1>5 DEF Observe, at
<1> QED BY <1>4, <1>6

\* A step up waits for a full window and a throttled space period after the
\* last change of level, whichever way that went.
THEOREM StepsAreSpaced == Spec => SpacedSteps
<1>1. IInv /\ [Next]_budgetVars =>
        [level' > level /\ movedAt # Never =>
           prev' - movedAt >= Window + 2 * base["space"]]_budgetVars
  <2> SUFFICES ASSUME IInv, [Next]_budgetVars, level' > level, movedAt # Never
               PROVE  prev' - movedAt >= Window + 2 * base["space"]
    OBVIOUS
  <2>1. level \in Int /\ base \in [Tiers -> Periods] /\ lastEscalate = movedAt
    BY DEF IInv, TypeOK, LadderInv
  <2>2. level' # level
    BY <2>1
  <2>3. PICK at \in Int, ms \in Int : Fold(at, ms)
    BY <2>2, LevelMoves
  <2>4. ReviseHot(window', at) /\ Escalates(at)
    BY <2>1, <2>3 DEF Fold, Revise, ReviseHot, ReviseQuiet, ReviseRecovers
  <2>5. at - movedAt >= cooldown
    BY <2>1, <2>4 DEF Escalates
  <2>6. cooldown = Window + 2 * base["space"]
    BY <2>1, CooldownIsNat DEF IInv, LadderInv
  <2> QED BY <2>3, <2>5, <2>6, FoldFacts
<1> QED BY Invariant, <1>1, PTL DEF Spec, SpacedSteps

\* A step down is taken inside one unbroken streak of averages inside the
\* limit, and a second one in it a recovery period after the first.
THEOREM RecoveryIsEarned == Spec => RecoveryEarned
<1>1. IInv /\ [Next]_budgetVars =>
        [level' < level =>
          /\ ~streak.hot /\ streak' = streak
          /\ prev' - streak.from > Recovery - Window - widest'
          /\ movedAt >= streak.from => prev' - movedAt >= Recovery]_budgetVars
  <2> SUFFICES ASSUME IInv, [Next]_budgetVars, level' < level
               PROVE  /\ ~streak.hot /\ streak' = streak
                      /\ prev' - streak.from > Recovery - Window - widest'
                      /\ movedAt >= streak.from => prev' - movedAt >= Recovery
    OBVIOUS
  <2>1. level \in Int
    BY DEF IInv, TypeOK
  <2>2. level' # level
    BY <2>1
  <2>3. PICK at \in Int, ms \in Int : Fold(at, ms)
    BY <2>2, LevelMoves
  <2>4. /\ ReviseRecovers(window', at) /\ at - quietFrom >= Recovery
        /\ ~Hot(window')
    BY <2>1, <2>3 DEF Fold, Revise, ReviseHot, ReviseQuiet, ReviseRecovers
  <2>5. /\ quietFrom # Never /\ quietFrom \in Int
        /\ evaluatedAt # Never /\ ~streak.hot
        /\ quietFrom > streak.from - Window - widest
        /\ IF MovedInStreak THEN quietFrom = movedAt ELSE quietFrom <= streak.from
        /\ streak.from \in Int /\ movedAt # Never /\ movedAt \in Int
    BY <2>4 DEF ReviseRecovers, IInv, TypeOK, QuietInv, OrderInv, LadderInv,
                Instants, MaxLevel
  <2>6. streak' = streak
    BY <2>3, <2>4, <2>5, StreakFacts, Bool DEF IInv, TypeOK
  <2>7. prev' = at /\ widest \in Int /\ widest' \in Int /\ widest <= widest'
    BY <2>3, FoldFacts DEF IInv, TypeOK
  <2>8. at - streak.from > Recovery - Window - widest'
    <3>1. \A q, s, t, w, v \in Int :
            q > s - Window - w /\ w <= v /\ t - q >= Recovery => t - s > Recovery - Window - v
      BY Constants
    <3> QED BY <2>4, <2>5, <2>7, <3>1
  <2>9. movedAt >= streak.from => at - movedAt >= Recovery
    BY <2>4, <2>5 DEF MovedInStreak
  <2> QED BY <2>5, <2>6, <2>7, <2>8, <2>9
<1> QED BY Invariant, <1>1, PTL DEF Spec, RecoveryEarned

-----------------------------------------------------------------------------
(* What the tiers see of the throttle.                                     *)

\* A reading moves the level by a step at most, inside the ladder.
LEMMA ReadingMoves ==
  ASSUME TypeOK, NEW at, NEW ms, Observe(at, ms)
  PROVE  [Promise!Move]_<<base, level>>
<1>1. level \in 0 .. MaxLevel /\ MaxLevel = 3
  BY DEF TypeOK, MaxLevel
<1>2. UNCHANGED base
  BY DEF Observe, Seed, Skip, Fold, baseVars
<1>3. level' = level \/ (level' = level + 1 /\ level < MaxLevel) \/ (level' = level - 1 /\ level > 0)
  <2>1. CASE Seed(at) \/ Skip(at, ms)
    BY <2>1 DEF Seed, Skip
  <2>2. CASE Fold(at, ms)
    BY <2>2 DEF Fold, Revise, ReviseHot, ReviseQuiet, ReviseRecovers, Escalates
  <2> QED
    BY <2>1, <2>2 DEF Observe
<1>4. level' \in (level - 1 .. level + 1) \cap 0 .. MaxLevel
  BY ONLY <1>1, <1>3
<1> QED
  BY <1>2, <1>4 DEF Promise!Move, MaxLevel, Promise!MaxLevel

\* Every step of the throttle is one that the tiers are promised, or none.
LEMMA StepsArePromised ==
  ASSUME TypeOK, [Next]_budgetVars
  PROVE  [Promise!Next]_Promise!promised
<1>1. CASE \E tier \in Commanded, d \in Periods : SetBase(tier, d)
  BY <1>1 DEF SetBase, Promise!SetBase, Promise!Next, throttleVars
<1>2. CASE UNCHANGED budgetVars
  BY <1>2 DEF budgetVars, throttleVars, baseVars, Promise!promised
<1>3. CASE \E dt \in Gaps, ms \in Costs :
             LET at == IF prev = Never THEN 0 ELSE prev + dt
             IN at <= MaxClock /\ Observe(at, ms)
  <2>1. PICK dt \in Gaps, ms \in Costs :
          Observe(IF prev = Never THEN 0 ELSE prev + dt, ms)
    BY <1>3
  <2> QED
    BY <2>1, ReadingMoves DEF Promise!Next, Promise!promised
<1> QED
  BY <1>1, <1>2, <1>3 DEF Next

\* The throttle implements what the tiers are promised of it: however the
\* readings fall, Observe moves the level by one step at most and never off
\* the ladder, and SetBase alone moves a base period.
THEOREM BudgetKeepsItsPromise == Spec => KeepsItsPromise
<1>1. Init => Promise!Init
  BY Constants DEF Init, Promise!Init
<1>2. TypeOK /\ [Next]_budgetVars => [Promise!Next]_Promise!promised
  BY StepsArePromised
<1> QED
  BY <1>1, <1>2, TypeCorrect, PTL DEF Spec, KeepsItsPromise, Promise!Spec

\* degradedFrom puts the tiers in an order, so that a step of the level moves
\* one tier's cadence, at its place in that order.
LEMMA OneGives ==
  ASSUME base \in [Tiers -> Periods], level \in 0 .. MaxLevel, Promise!Move,
         NEW tier \in Tiers,
         Promise!PeriodAt(base, level', tier) # Promise!PeriodAt(base, level, tier)
  PROVE  /\ tier # "cpu history" /\ Promise!Slowed(tier)' = ~Promise!Slowed(tier)
         /\ \A other \in Tiers \ {tier} :
              /\ Promise!PeriodAt(base, level', other) = Promise!PeriodAt(base, level, other)
              /\ Promise!Slowed(other) <=> Promise!Dispensable(other, tier)
<1>1. \A t \in Tiers : base[t] \in Nat \ {0} /\ 2 * base[t] # base[t] /\ base'[t] = base[t]
  <2>1. \A t \in Tiers : base[t] \in Nat \ {0} /\ base'[t] = base[t]
    BY Constants DEF Promise!Move
  <2> QED
    BY <2>1
<1>2. \A t \in Tiers :
        /\ Promise!Slowed(t) <=> t # "cpu history" /\ level >= Promise!DegradedFrom(t)
        /\ Promise!Slowed(t)' <=> t # "cpu history" /\ level' >= Promise!DegradedFrom(t)
        /\ Promise!PeriodAt(base, level', t) = Promise!PeriodAt(base, level, t)
             <=> (t = "cpu history" \/ (level >= Promise!DegradedFrom(t) <=> level' >= Promise!DegradedFrom(t)))
  BY <1>1 DEF Promise!Slowed, Promise!PeriodAt
<1>3. /\ Promise!DegradedFrom("space") = 1 /\ Promise!DegradedFrom("counters") = 2
      /\ Promise!DegradedFrom("requests") = 3
  BY DEF Promise!DegradedFrom
<1>4. level \in 0 .. 3 /\ level' \in (level - 1 .. level + 1) \cap 0 .. 3
  BY DEF Promise!Move, MaxLevel, Promise!MaxLevel
<1>5. tier # "cpu history" /\ ~(level >= Promise!DegradedFrom(tier) <=> level' >= Promise!DegradedFrom(tier))
  BY <1>2
<1>6. Promise!Slowed(tier)' = ~Promise!Slowed(tier)
  BY <1>2, <1>5 DEF Promise!Slowed
<1>7. ASSUME NEW other \in Tiers \ {tier}
      PROVE  /\ Promise!PeriodAt(base, level', other) = Promise!PeriodAt(base, level, other)
             /\ Promise!Slowed(other) <=> Promise!Dispensable(other, tier)
  <2>1. CASE other = "cpu history"
    BY <1>2, <2>1 DEF Promise!Dispensable
  <2>2. CASE other # "cpu history"
    <3>1. tier \in {"space", "counters", "requests"} /\ other \in {"space", "counters", "requests"}
          /\ tier # other
      BY <1>5, <2>2 DEF Tiers
    <3>2. /\ Promise!DegradedFrom(tier) \in 1 .. 3 /\ Promise!DegradedFrom(other) \in 1 .. 3
          /\ Promise!DegradedFrom(tier) # Promise!DegradedFrom(other)
      BY <1>3, <3>1
    <3>3. /\ level >= Promise!DegradedFrom(other) <=> level' >= Promise!DegradedFrom(other)
          /\ level >= Promise!DegradedFrom(other) <=> Promise!DegradedFrom(other) < Promise!DegradedFrom(tier)
      <4> DEFINE t == Promise!DegradedFrom(tier)
                 o == Promise!DegradedFrom(other)
      <4>1. t \in 1 .. 3 /\ o \in 1 .. 3 /\ t # o /\ ~(level >= t <=> level' >= t)
        BY <3>2, <1>5
      <4> HIDE DEF t, o
      <4>2. level \in 0 .. 3 /\ level' \in 0 .. 3 /\ level' >= level - 1 /\ level' <= level + 1
        BY ONLY <1>4
      <4>3. (level = t /\ level' = t - 1) \/ (level = t - 1 /\ level' = t)
        BY ONLY <4>1, <4>2
      <4>4. /\ level >= o <=> level' >= o
            /\ level >= o <=> o < t
        BY ONLY <4>1, <4>2, <4>3
      <4> QED
        BY <4>4 DEF t, o
    <3> QED
      BY <1>2, <1>5, <2>2, <3>3 DEF Promise!Dispensable
  <2> QED
    BY <2>1, <2>2
<1> QED
  BY <1>5, <1>6, <1>7

\* Whatever the load, the throttle takes the space tier first, then the
\* counters, then the request grid, gives them back the other way round, and
\* leaves the CPU history alone ("the request grid the tool exists to show
\* gives last").
THEOREM TheGridGivesLast == Spec => Promise!GivesInOrder
<1> DEFINE InOrder ==
      \A tier \in Tiers :
        base' = base /\ Promise!PeriodAt(base, level', tier) # Promise!PeriodAt(base, level, tier) =>
          /\ tier # "cpu history" /\ Promise!Slowed(tier)' = ~Promise!Slowed(tier)
          /\ \A other \in Tiers \ {tier} :
               /\ Promise!PeriodAt(base, level', other) = Promise!PeriodAt(base, level, other)
               /\ Promise!Slowed(other) <=> Promise!Dispensable(other, tier)
<1>1. TypeOK /\ [Next]_budgetVars => [InOrder]_Promise!promised
  <2> SUFFICES ASSUME TypeOK, [Next]_budgetVars, ~(UNCHANGED Promise!promised),
                      NEW tier \in Tiers, base' = base,
                      Promise!PeriodAt(base, level', tier) # Promise!PeriodAt(base, level, tier)
               PROVE  /\ tier # "cpu history" /\ Promise!Slowed(tier)' = ~Promise!Slowed(tier)
                      /\ \A other \in Tiers \ {tier} :
                           /\ Promise!PeriodAt(base, level', other) = Promise!PeriodAt(base, level, other)
                           /\ Promise!Slowed(other) <=> Promise!Dispensable(other, tier)
    OBVIOUS
  <2>1. Promise!Next
    BY StepsArePromised
  <2>2. level' # level
    OBVIOUS
  <2>3. Promise!Move
    BY <2>1, <2>2 DEF Promise!Next, Promise!SetBase
  <2> QED
    BY <2>3, OneGives DEF TypeOK
<1> QED
  BY <1>1, TypeCorrect, PTL DEF Spec, Promise!GivesInOrder

=============================================================================
