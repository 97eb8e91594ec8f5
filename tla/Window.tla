------------------------------- MODULE Window -------------------------------
(***************************************************************************)
(* The retention window (internal/window): the ticks of the request tier,  *)
(* bounded by age and by the number of samples they hold, and what the     *)
(* queries and history views make of them.  Window.mu makes Append, and    *)
(* each walk over the ticks, one step.                                     *)
(*                                                                         *)
(* A row is a request of a user session, and a session may have several.   *)
(* The counters of a row are those of its request and grow with the time   *)
(* since it came; its statement is the one the request is at.  For the     *)
(* properties alone a row says when that execution began, and the instant  *)
(* its request came names the request among those of its session.          *)
(***************************************************************************)
EXTENDS Blocking

CONSTANTS Retention,  \* Window.retention
          MaxSamples, \* Window.maxSample
          Sessions,   \* sessions of the monitored server
          Statements, \* statement shapes: a hash, or a text without one
          Paces,      \* bound: time between two ticks, the rows of system
                      \* sessions, and the most rows of user sessions
          MaxTicks    \* bound: ticks appended

ASSUME WindowAssumption ==
  /\ Retention \in Nat \ {0} /\ MaxSamples \in Nat \ {0}
  /\ Paces \subseteq (Nat \ {0}) \X Nat \X Nat
  /\ MaxTicks \in Nat
  /\ IsFiniteSet(Sessions)

VARIABLES
  ticks,   \* Window.ticks, oldest first
  samples, \* Window.samples
  capped,  \* Window.capped
  all      \* history: the instant and the size of every tick ever appended

windowVars == <<ticks, samples, capped, all>>

Rows == [spid : Sessions, shape : Statements, asked : Nat, began : Nat]

Ticks == [at : Nat, rows : Seq(Rows), others : Nat]

Records == [at : Nat, size : Nat]

TypeOK ==
  /\ ticks \in Seq(Ticks) /\ samples \in 0 .. MaxSamples
  /\ capped \in BOOLEAN /\ all \in Seq(Records)

WindowInit == ticks = <<>> /\ samples = 0 /\ capped = FALSE /\ all = <<>>

-----------------------------------------------------------------------------
From(w, i) == SubSeq(w, i, Len(w))

Size(tick) == Len(tick.rows) + tick.others

Sizes(w) == [i \in DOMAIN w |-> Size(w[i])]

\* What the first of some sizes add up to.
Upto(sizes) ==
  LET upto[i \in 0 .. Len(sizes)] == IF i = 0 THEN 0 ELSE upto[i - 1] + sizes[i]
  IN  upto

Total(sizes) == Upto(sizes)[Len(sizes)]

\* Mutant of Fresh: the bound itself is too old.
FreshStrictly(tick, at) == tick.at > at - Retention

\* Not before the cutoff.
Fresh(tick, at) == tick.at >= at - Retention

\* How many of the oldest ticks go for their age: eviction stops at the first
\* that is not too old.
Old(w, at) == Min({d \in 0 .. Len(w) : d = Len(w) \/ Fresh(w[d + 1], at)})

\* evictLocked, over ticks w whose samples are counted as n: what it leaves of
\* both, and whether the cap took part.  After the age, the oldest go until
\* what is left of the count is inside the cap.
Evicted(w, at, n) ==
  LET left(d) == n - Upto(Sizes(w))[d]
      old     == Old(w, at)
      drop    == Min({d \in old .. Len(w) : d = Len(w) \/ left(d) <= MaxSamples})
  IN [ticks |-> From(w, drop + 1), samples |-> left(drop), capped |-> drop > old]

AppendTick(tick) ==
  LET left == Evicted(Append(ticks, tick), tick.at, samples + Size(tick))
  IN /\ ticks' = left.ticks
     /\ samples' = left.samples
     /\ capped' = left.capped
     /\ all' = Append(all, [at |-> tick.at, size |-> Size(tick)])

\* Latest.
Latest == IF ticks = <<>> THEN <<>> ELSE ticks[Len(ticks)].rows

\* When the server was last seen by a sample that is kept.
LastLook == IF ticks = <<>> THEN 0 ELSE ticks[Len(ticks)].at

\* The executions an instant may find: those of the last sample, and what has
\* begun since, in a request of the last sample or in one that came since.
Alive(at) ==
  LET since == LastLook + 1 .. at
      begun == {r \in [spid  : Sessions,
                       shape : Statements,
                       asked : since \cup {old.asked : old \in Range(Latest)},
                       began : since] :
                  \/ r.asked \in since /\ r.asked <= r.began
                  \/ \E old \in Range(Latest) : r.spid = old.spid /\ r.asked = old.asked}
  IN Range(Latest) \cup begun

\* The rows of an instant, in any order: each request is at one statement.
Sampled(at, most) ==
  {rows \in UNION {[1 .. n -> Alive(at)] : n \in 0 .. most} :
     \A i, j \in DOMAIN rows :
       rows[i].spid = rows[j].spid /\ rows[i].asked = rows[j].asked => i = j}

\* The clock of the samples does not go back.
WindowNext ==
  \E pace \in Paces :
    LET at == pace[1] + (IF all = <<>> THEN 0 ELSE all[Len(all)].at)
    IN /\ Len(all) < MaxTicks
       /\ \E rows \in Sampled(at, pace[3]) :
            AppendTick([at |-> at, rows |-> rows, others |-> pace[2]])

WindowSpec == WindowInit /\ [][WindowNext]_windowVars

-----------------------------------------------------------------------------
(* Statements: what the queries view makes of the ticks.                   *)

\* The rows of one session for one shape in a tick, and the first of them.
RowsOf(w, i, key, spid) ==
  {r \in Range(w[i].rows) : r.shape = key /\ r.spid = spid}

Leading(w, i, key, spid) ==
  w[i].rows[Min({n \in DOMAIN w[i].rows : w[i].rows[n] \in RowsOf(w, i, key, spid)})]

Elapsed(w, i, r) == w[i].at - r.asked

\* How long ago the tick before was.
Gap(w, i) == IF i > 1 THEN w[i].at - w[i - 1].at ELSE 0

\* Mutant of Continues: whatever was there a tick ago is still running.
ContinuesNextTick(w, i, r, run) == run.tick = i - 1

\* A run that was in the tick before goes on when the request is at least as
\* old as that tick.
Continues(w, i, r, run) == run.tick = i - 1 /\ Elapsed(w, i, r) >= Gap(w, i)

NoRun == [tick |-> 0, cpu |-> 0, runs |-> 0, total |-> 0]

\* endRun: a run contributes its largest counters, which are cumulative.
EndRun(run) ==
  [run EXCEPT !.runs = @ + 1, !.total = @ + run.cpu]

\* What one tick makes of the run of a session, if it has rows of that shape:
\* the first decides whether the run goes on, the others join it.
Walked(w, key, spid, run, i) ==
  LET here == RowsOf(w, i, key, spid)
      cur  == IF run.tick = 0 \/ Continues(w, i, Leading(w, i, key, spid), run) THEN run
              ELSE [EndRun(run) EXCEPT !.cpu = 0]
  IN IF here = {} THEN run
     ELSE [cur EXCEPT !.tick = i,
                      !.cpu = Max({@} \cup {Elapsed(w, i, r) : r \in here})]

\* The walk over the ticks, for one shape and one session.
Runs(w, key, spid) ==
  LET run[i \in 0 .. Len(w)] ==
        IF i = 0 THEN NoRun ELSE Walked(w, key, spid, run[i - 1], i)
      last == run[Len(w)]
  IN IF last.tick = 0 THEN NoRun ELSE EndRun(last)

\* Statements, one group of it.
Seen(w, key) ==
  [runs     |-> SumFunction([s \in Sessions |-> Runs(w, key, s).runs]),
   cpu      |-> SumFunction([s \in Sessions |-> Runs(w, key, s).total]),
   sessions |-> Cardinality({s \in Sessions : Runs(w, key, s).runs > 0})]

-----------------------------------------------------------------------------
(* Properties.                                                             *)

Now == all[Len(all)].at

SizesOf(past) == [i \in DOMAIN past |-> past[i].size]

\* A past that respects both bounds at the last tick.
Bounded(past) ==
  /\ \A i \in DOMAIN past : past[i].at >= Now - Retention
  /\ Total(SizesOf(past)) <= MaxSamples

\* The window is the most of the past that both bounds allow, and nothing
\* between its oldest tick and the last one is missing: however evictions for
\* age and for count have alternated, no tick was dropped that could have been
\* kept, and the count the cap is compared with is the count there is.
KeepsAllItMay ==
  /\ samples = Total(Sizes(ticks))
  /\ all # <<>> =>
    [i \in DOMAIN ticks |-> [at |-> ticks[i].at, size |-> Size(ticks[i])]]
      = From(all, Min({i \in 1 .. Len(all) + 1 : Bounded(From(all, i))}))

\* The executions of a shape that the window has samples of.
Executions(w, key) ==
  {r \in UNION {Range(w[i].rows) : i \in DOMAIN w} : r.shape = key}

\* What the last sample of an execution had counted.
LastSeen(w, r) ==
  Max({Elapsed(w, i, r) : i \in {j \in DOMAIN w : r \in Range(w[j].rows)}})

\* Every execution of a shape is the first of its request, and no session is at
\* two of them in one sample.
OneByOne(w, key) ==
  /\ \A r \in Executions(w, key) : r.began = r.asked
  /\ \A i \in DOMAIN w : \A r, s \in Range(w[i].rows) :
       r.shape = key /\ s.shape = key /\ r.spid = s.spid => r = s

\* The queries view never counts an execution twice, whatever requests a session
\* has at once, whatever statements a request goes through and whatever eviction
\* has cut off, and names every session that had one.  Where executions come one
\* by one it counts each: two of one statement on one session in neighbouring
\* ticks are two, one that spans many ticks is one, and each adds its counters
\* once.
RunsAreExecutions ==
  \A key \in Statements :
    LET those == Executions(ticks, key)
        seen  == Seen(ticks, key)
    IN /\ seen.runs <= Cardinality(those)
       /\ seen.sessions = Cardinality({r.spid : r \in those})
       /\ OneByOne(ticks, key) =>
            /\ seen.runs = Cardinality(those)
            /\ seen.cpu = SumFunction([r \in those |-> LastSeen(ticks, r)])

\* The blocking view lays out the latest sample, whatever blocks what in it: no
\* row is lost, repeated or hung under a stranger, and none that a chain leads
\* to is left at the margin.  Flatten reads no other tick, so the first will do.
EveryRowLaidOut ==
  Len(all) = 1 /\ ticks # <<>> =>
    \A sample \in Samples :
      Cardinality(Refs(sample)) = Size(ticks[1]) =>
        IsLayout(sample, Flatten(sample)) /\ NoneAdrift(sample, Flatten(sample))

=============================================================================
