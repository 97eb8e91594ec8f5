------------------------------- MODULE Budget -------------------------------
(***************************************************************************)
(* The observation budget (internal/collector): a throttle level decided   *)
(* from the server CPU the tool itself has used over a sliding window.     *)
(*                                                                         *)
(* Budget.mu is held for the whole of Observe and SetBase, so each is one  *)
(* step.  Instants and durations are integers of one unit, the cost is in  *)
(* milliseconds, and the average is compared to the limit without          *)
(* dividing.                                                               *)
(***************************************************************************)
EXTENDS Integers, Sequences, FiniteSetsExt, Functions, Ladder

CONSTANTS Window,    \* budgetWindow
          Recovery,  \* recoveryPeriod
          Limit,     \* milliseconds of CPU per unit of time
          Periods,   \* base periods a configuration or a person may give
          Configured,\* configurations the tool is started with
          Commanded, \* tiers whose base period a person may change: the
                     \* interface offers the request grid, and only it
          Gaps,      \* bound: time between two readings
          Costs,     \* bound: what cpu_time has grown by at the next reading
          MaxClock,  \* bound: instant of the last reading
          Never      \* the zero time.Time

ASSUME BudgetAssumption ==
  /\ Window \in Nat \ {0} /\ Recovery \in Nat \ {0} /\ Limit \in Nat
  /\ Periods \subseteq Nat \ {0} /\ Commanded \subseteq Tiers \ {"space"}
  /\ Configured \subseteq [Tiers -> Periods]
  /\ Gaps \subseteq Nat /\ Costs \subseteq Int
  /\ MaxClock \in Nat /\ Never \notin Int

VARIABLES
  prev,         \* Budget.prev.At, Never until seeded
  window,       \* Budget.window: intervals, oldest first
  level,        \* Budget.level
  lastEscalate, \* Budget.lastEscalate
  quietFrom,    \* Budget.quietFrom
  cooldown,     \* Budget.escalateCooldown
  base,         \* Budget.base
  streak,       \* history: the last average was hot, and since when they all were
  evaluatedAt,  \* history: instant of the last average
  widest,       \* history: longest time between two averages
  movedAt       \* history: instant of the last change of level

throttleVars == <<prev, window, level, lastEscalate, quietFrom>>
baseVars == <<base, cooldown>>
seenVars == <<streak, evaluatedAt, widest, movedAt>>
budgetVars == <<throttleVars, baseVars, seenVars>>

Intervals == [start : Int, end : Int, ms : Nat]
Instants == Int \cup {Never}

TypeOK ==
  /\ prev \in Instants
  /\ window \in Seq(Intervals)
  /\ level \in 0 .. MaxLevel
  /\ lastEscalate \in Instants /\ quietFrom \in Instants
  /\ base \in [Tiers -> Periods]
  /\ cooldown \in Nat
  /\ streak \in [hot : BOOLEAN, from : Instants]
  /\ evaluatedAt \in Instants /\ movedAt \in Instants
  /\ widest \in Nat

CooldownOf(b) == Window + 2 * b["space"]

Init ==
  /\ prev = Never /\ window = <<>> /\ level = 0
  /\ lastEscalate = Never /\ quietFrom = Never
  /\ base \in Configured
  /\ cooldown = CooldownOf(base)
  /\ streak = [hot |-> FALSE, from |-> Never]
  /\ evaluatedAt = Never /\ movedAt = Never /\ widest = 0

-----------------------------------------------------------------------------
(* The window.                                                             *)

\* What is left of w at `at`: the oldest intervals go, up to the first that
\* ends inside the window.
Kept(w, at) ==
  LET inside == {i \in 1 .. Len(w) : w[i].end > at - Window}
  IN IF inside = {} THEN <<>> ELSE SubSeq(w, Min(inside), Len(w))

\* windowAverage > limit, the average being weighted by time.
Hot(w) ==
  SumFunction([i \in DOMAIN w |-> w[i].ms])
    > Limit * SumFunction([i \in DOMAIN w |-> w[i].end - w[i].start])

-----------------------------------------------------------------------------
(* reviseLocked, over the new window w.                                    *)

Escalates(at) ==
  level < MaxLevel /\ (lastEscalate = Never \/ at - lastEscalate >= cooldown)

\* Mutant of ReviseHot: the quiet streak is not broken.
ReviseHotKeepsQuiet(w, at) ==
  /\ Hot(w)
  /\ IF Escalates(at) THEN level' = level + 1 /\ lastEscalate' = at
                      ELSE UNCHANGED <<level, lastEscalate>>
  /\ UNCHANGED quietFrom

\* Mutant of ReviseHot: the last step up is never taken.
ReviseHotStopsShort(w, at) ==
  /\ Hot(w)
  /\ quietFrom' = Never
  /\ IF Escalates(at) /\ level < MaxLevel - 1
     THEN level' = level + 1 /\ lastEscalate' = at
     ELSE UNCHANGED <<level, lastEscalate>>

ReviseHot(w, at) ==
  /\ Hot(w)
  /\ quietFrom' = Never
  /\ IF Escalates(at) THEN level' = level + 1 /\ lastEscalate' = at
                      ELSE UNCHANGED <<level, lastEscalate>>

\* Nothing to give back, or the first quiet average since a hot one: the
\* quiet is credited from the start of the oldest interval kept.
ReviseQuiet(w, at) ==
  /\ ~Hot(w)
  /\ level = 0 \/ quietFrom = Never
  /\ quietFrom' = IF level = 0 THEN Never ELSE w[1].start
  /\ UNCHANGED <<level, lastEscalate>>

\* Mutant of ReviseRecovers: a step down does not hold back a step up.
ReviseRecoversAlone(w, at) ==
  /\ ~Hot(w)
  /\ level > 0 /\ quietFrom # Never
  /\ IF at - quietFrom >= Recovery
     THEN /\ level' = level - 1 /\ quietFrom' = at /\ UNCHANGED lastEscalate
     ELSE UNCHANGED <<level, quietFrom, lastEscalate>>

\* Mutant of ReviseRecovers: every quiet average starts the clock again.
ReviseRecoversRestarts(w, at) ==
  /\ ~Hot(w)
  /\ level > 0 /\ quietFrom # Never
  /\ quietFrom' = at
  /\ IF at - quietFrom >= Recovery
     THEN level' = level - 1 /\ lastEscalate' = at
     ELSE UNCHANGED <<level, lastEscalate>>

ReviseRecovers(w, at) ==
  /\ ~Hot(w)
  /\ level > 0 /\ quietFrom # Never
  /\ IF at - quietFrom >= Recovery
     THEN level' = level - 1 /\ quietFrom' = at /\ lastEscalate' = at
     ELSE UNCHANGED <<level, quietFrom, lastEscalate>>

Revise(w, at) ==
  ReviseHot(w, at) \/ ReviseQuiet(w, at) \/ ReviseRecovers(w, at)

\* What the histories keep of the average taken at `at` over w.
Remember(w, at) ==
  LET since == IF evaluatedAt = Never THEN prev ELSE evaluatedAt
  IN /\ evaluatedAt' = at
     /\ widest' = IF at - since > widest THEN at - since ELSE widest
     /\ streak' = IF evaluatedAt # Never /\ streak.hot = Hot(w)
                  THEN streak ELSE [hot |-> Hot(w), from |-> at]
     /\ movedAt' = IF level' # level THEN at ELSE movedAt

-----------------------------------------------------------------------------
\* The first reading carries no rate.
Seed(at) ==
  /\ prev = Never
  /\ prev' = at
  /\ UNCHANGED <<window, level, lastEscalate, quietFrom, baseVars, seenVars>>

\* A reading that cannot be differentiated, because the clock did not move or
\* cpu_time has gone down since the last one, is skipped.
Skip(at, ms) ==
  /\ prev # Never
  /\ at - prev <= 0 \/ ms < 0
  /\ prev' = at
  /\ UNCHANGED <<window, level, lastEscalate, quietFrom, baseVars, seenVars>>

Fold(at, ms) ==
  /\ prev # Never
  /\ at - prev > 0 /\ ms >= 0
  /\ prev' = at
  /\ window' = Kept(Append(window, [start |-> prev, end |-> at, ms |-> ms]), at)
  /\ Revise(window', at)
  /\ Remember(window', at)
  /\ UNCHANGED baseVars

\* Observe, of a reading taken at `at` where cpu_time has grown by ms.
Observe(at, ms) == Seed(at) \/ Skip(at, ms) \/ Fold(at, ms)

SetBase(tier, d) ==
  /\ base' = [base EXCEPT ![tier] = d]
  /\ cooldown' = CooldownOf(base')
  /\ UNCHANGED <<throttleVars, seenVars>>

\* The next reading is taken a gap after the last one.
Next ==
  \/ \E dt \in Gaps, ms \in Costs :
       LET at == IF prev = Never THEN 0 ELSE prev + dt
       IN at <= MaxClock /\ Observe(at, ms)
  \/ \E tier \in Commanded, d \in Periods : SetBase(tier, d)

Spec == Init /\ [][Next]_budgetVars

-----------------------------------------------------------------------------
(* Properties.                                                             *)

\* After any change of level, a step up or a step down, the level goes up
\* again only when a full window and a throttled space period have passed:
\* "a step's own effect has to become visible before another step is
\* justified", and a burst after a recovery must not walk it straight back.
SpacedSteps ==
  [][level' > level /\ movedAt # Never =>
       prev' - movedAt >= Window + 2 * base["space"]]_budgetVars

\* A step is given back only inside an unbroken streak of quiet averages, as
\* old as the recovery period less what the first of them had evidence for:
\* one window and one interval.  A second step in the same streak is a full
\* recovery period after the first.
RecoveryEarned ==
  [][level' < level =>
       /\ ~streak.hot /\ streak' = streak
       /\ prev' - streak.from > Recovery - Window - widest'
       /\ movedAt >= streak.from => prev' - movedAt >= Recovery]_budgetVars

\* Since when the throttle has been where it is under the load there is now.
Settled == IF movedAt # Never /\ movedAt > streak.from THEN movedAt ELSE streak.from

\* While the averages are over the limit the level keeps going up, until the
\* request grid itself is slowed: an average over the limit finds it there, or
\* less than a cooldown after its last move, whatever happened before.
EscalatesInTime ==
  evaluatedAt # Never /\ streak.hot =>
    level = MaxLevel \/ evaluatedAt - Settled < cooldown

\* While the averages are inside the limit the level goes all the way back, a
\* step for every recovery period: no refresh rate stays degraded under a load
\* that no longer justifies it.
RecoversInTime ==
  evaluatedAt # Never /\ ~streak.hot =>
    level = 0 \/ evaluatedAt - Settled < Recovery

\* What the tiers see of it.
Promise == INSTANCE Throttle WITH Subjects <- Tiers

\* However the readings fall, the tiers are promised a level that moves by one
\* step, and periods that only a person changes.
KeepsItsPromise == Promise!Spec

=============================================================================
