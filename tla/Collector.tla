----------------------------- MODULE Collector -----------------------------
(***************************************************************************)
(* The collector (internal/collector): one goroutine per tier, which       *)
(* samples, reads its period from the budget, and waits for the rest of    *)
(* that period or, when the sample failed, for a growing backoff.          *)
(*                                                                         *)
(* The budget is here only as the level it has decided: any reading of the *)
(* tool's own cost may move it by a step, which is what module Budget      *)
(* promises.  Durations and instants are integers of one unit.             *)
(***************************************************************************)
EXTENDS Integers, FiniteSetsExt, Ladder

CONSTANTS Driven,     \* allTiers: the tiers with a goroutine
          Periods,    \* base periods that configuration and the f key accept
          MinBackoff, MaxBackoff,
          MaxClock    \* bound: the last instant

ASSUME CollectorAssumption ==
  /\ Driven \subseteq Tiers /\ Driven # {} /\ IsFiniteSet(Driven)
  /\ Periods \subseteq Nat \ {0} /\ Periods # {}
  /\ MinBackoff \in Nat \ {0} /\ MaxBackoff \in Nat /\ MinBackoff <= MaxBackoff
  /\ MaxClock \in Nat

VARIABLES
  now,         \* the clock
  base,        \* Budget.base
  level,       \* Budget.level
  ctx,         \* "live", or "done" once the context is cancelled
  pc,          \* per tier: where loop is
  start,       \* per tier: `start`, when the last sample was begun
  ok,          \* per tier: `ok`, what sample has reported
  backoff,     \* per tier: `backoff`
  due,         \* per tier: when the wait is over
  tierErr,     \* Collector.tierErr, as the set of tiers that have a message
  identifyErr, \* Collector.identifyErr is set
  costErr,     \* Collector.costErr is set
  asked        \* history, per tier: periods read since its last success

budgetVars == <<base, level>>
loopVars == <<pc, start, ok, backoff, due, asked>>
statusVars == <<tierErr, identifyErr, costErr>>
vars == <<now, ctx, budgetVars, loopVars, statusVars>>

TypeOK ==
  /\ now \in 0 .. MaxClock
  /\ base \in [Driven -> Periods] /\ level \in 0 .. MaxLevel
  /\ ctx \in {"live", "done"}
  /\ pc \in [Driven -> {"preflight", "begin", "wait", "sample", "cost",
                        "decide", "returned"}]
  /\ start \in [Driven -> 0 .. MaxClock]
  /\ ok \in [Driven -> BOOLEAN]
  /\ backoff \in [Driven -> Nat] /\ due \in [Driven -> Nat]
  /\ tierErr \subseteq Driven
  /\ identifyErr \in BOOLEAN /\ costErr \in BOOLEAN
  /\ asked \in [Driven -> SUBSET Nat]

Init ==
  /\ now = 0 /\ ctx = "live"
  /\ base \in [Driven -> Periods] /\ level = 0
  /\ pc = [t \in Driven |-> "preflight"]
  /\ start = [t \in Driven |-> 0]
  /\ ok = [t \in Driven |-> TRUE]
  /\ backoff = [t \in Driven |-> 0]
  /\ due = [t \in Driven |-> 0]
  /\ tierErr = {} /\ identifyErr = FALSE /\ costErr = FALSE
  /\ asked = [t \in Driven |-> {}]

Period(t) == PeriodAt(base, level, t)

Larger(a, b) == IF a > b THEN a ELSE b
Smaller(a, b) == IF a < b THEN a ELSE b

-----------------------------------------------------------------------------
\* Run: the preflight, then every goroutine is started, whatever it said.
Identify(works) ==
  /\ \A t \in Driven : pc[t] = "preflight"
  /\ identifyErr' = ~works
  /\ pc' = [t \in Driven |-> "begin"]
  /\ UNCHANGED <<now, ctx, budgetVars, start, ok, backoff, due, asked, tierErr,
                 costErr>>

\* The wait is over and sample is called; it places no call once the context
\* is done.
Begin(t) ==
  /\ pc[t] \in {"begin", "wait"}
  /\ pc[t] = "wait" => due[t] <= now
  /\ start' = [start EXCEPT ![t] = now]
  /\ IF ctx = "live"
     THEN pc' = [pc EXCEPT ![t] = "sample"] /\ UNCHANGED ok
     ELSE pc' = [pc EXCEPT ![t] = "decide"] /\ ok' = [ok EXCEPT ![t] = FALSE]
  /\ UNCHANGED <<now, ctx, budgetVars, backoff, due, asked, statusVars>>

\* Only the counters tier goes on to read the tool's own cost, and only while
\* the context is alive.
AfterSample(t) == IF t = "counters" /\ ctx = "live" THEN "cost" ELSE "decide"

\* Mutant of Answers: one failure state for the whole collector.
AnswersForAll(t) ==
  /\ pc[t] = "sample"
  /\ ok' = [ok EXCEPT ![t] = TRUE]
  /\ tierErr' = {}
  /\ identifyErr' = FALSE
  /\ pc' = [pc EXCEPT ![t] = AfterSample(t)]
  /\ UNCHANGED <<now, ctx, budgetVars, start, backoff, due, asked, costErr>>

\* The source answers: this tier is healthy, and the preflight's complaint is
\* obsolete.
Answers(t) ==
  /\ pc[t] = "sample"
  /\ ok' = [ok EXCEPT ![t] = TRUE]
  /\ tierErr' = tierErr \ {t}
  /\ identifyErr' = FALSE
  /\ pc' = [pc EXCEPT ![t] = AfterSample(t)]
  /\ UNCHANGED <<now, ctx, budgetVars, start, backoff, due, asked, costErr>>

Fails(t) ==
  /\ pc[t] = "sample"
  /\ ok' = [ok EXCEPT ![t] = FALSE]
  /\ tierErr' = tierErr \cup {t}
  /\ pc' = [pc EXCEPT ![t] = AfterSample(t)]
  /\ UNCHANGED <<now, ctx, budgetVars, start, backoff, due, asked, identifyErr,
                 costErr>>

\* Cost and Observe, whatever became of the sample.
ReadsCost(t) ==
  /\ pc[t] = "cost"
  /\ \/ costErr' = TRUE /\ UNCHANGED level
     \/ costErr' = FALSE /\ level' \in (level - 1 .. level + 1) \cap 0 .. MaxLevel
  /\ pc' = [pc EXCEPT ![t] = "decide"]
  /\ UNCHANGED <<now, ctx, base, start, ok, backoff, due, asked, tierErr,
                 identifyErr>>

\* Mutant of NextBackoff: the floor is the bare minimum.
NextBackoffBareFloor(last, period) ==
  LET ceiling == Larger(MaxBackoff, period)
  IN IF last = 0 THEN MinBackoff
     ELSE IF last < ceiling THEN Smaller(2 * last, ceiling) ELSE last

\* From the tier's own period, doubling up to the ceiling.
NextBackoff(last, period) ==
  LET floor == Larger(period, MinBackoff)
      ceiling == Larger(MaxBackoff, floor)
  IN IF last = 0 THEN floor
     ELSE IF last < ceiling THEN Smaller(2 * last, ceiling) ELSE last

\* The period is read once the sample is over, and the wait chosen.
Decide(t) ==
  /\ pc[t] = "decide"
  /\ backoff' = [backoff EXCEPT ![t] =
                   IF ok[t] THEN 0 ELSE NextBackoff(@, Period(t))]
  /\ due' = [due EXCEPT ![t] =
               now + IF ok[t] THEN Larger(Period(t) - (now - start[t]), 0)
                     ELSE backoff'[t]]
  /\ asked' = [asked EXCEPT ![t] = IF ok[t] THEN {} ELSE @ \cup {Period(t)}]
  /\ pc' = [pc EXCEPT ![t] = "wait"]
  /\ UNCHANGED <<now, ctx, budgetVars, start, ok, statusVars>>

\* ctx.Done, which the wait is a select with.
Returns(t) ==
  /\ pc[t] = "wait" /\ ctx = "done"
  /\ pc' = [pc EXCEPT ![t] = "returned"]
  /\ UNCHANGED <<now, ctx, budgetVars, start, ok, backoff, due, asked,
                 statusVars>>

Loop(t) == Begin(t) \/ Answers(t) \/ Fails(t) \/ ReadsCost(t) \/ Decide(t)
           \/ Returns(t)

\* The f key, of which only the request tier's period is a subject.
SetPeriod(d) ==
  /\ "requests" \in Driven
  /\ base' = [base EXCEPT !["requests"] = d]
  /\ UNCHANGED <<now, ctx, level, loopVars, statusVars>>

Cancel ==
  /\ ctx = "live" /\ ctx' = "done"
  /\ UNCHANGED <<now, budgetVars, loopVars, statusVars>>

Clock ==
  /\ now < MaxClock /\ now' = now + 1
  /\ UNCHANGED <<ctx, budgetVars, loopVars, statusVars>>

Next ==
  \/ \E works \in BOOLEAN : Identify(works)
  \/ \E t \in Driven : Loop(t)
  \/ \E d \in Periods : SetPeriod(d)
  \/ Cancel \/ Clock

Spec == Init /\ [][Next]_vars

-----------------------------------------------------------------------------
(* Properties.                                                             *)

Waiting(t) == pc[t] = "wait"

\* What the status bar says of a tier is what that tier's own last sample
\* said, whatever the others have said since: "a healthy tier's own success
\* must not be allowed to erase a different tier's still-current error".
EachTierSpeaksForItself ==
  \A t \in Driven : Waiting(t) /\ ctx = "live" => (t \in tierErr <=> ~ok[t])

\* A broken tier does not hammer the server: two attempts are as far apart as
\* the shortest of the periods it has been given since it broke, and never
\* closer than the minimum.
RetriesAreSpaced ==
  [][\A t \in Driven : Waiting(t) /\ ~ok[t] /\ pc'[t] = "sample" =>
       now - start[t] >= Larger(MinBackoff, Min(asked[t]))]_vars

\* What the loops have to allow for: a budget that keeps its promise.
Promise == INSTANCE Throttle WITH Subjects <- Driven, Commanded <- Driven \cap {"requests"}

=============================================================================
