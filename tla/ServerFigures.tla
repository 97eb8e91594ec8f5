---------------------------- MODULE ServerFigures ----------------------------
(***************************************************************************)
(* The dashboard's figures: Source.SampleServer (internal/source/mssql/    *)
(* server.go) and the differences of counters.go.  The goroutine of the    *)
(* counters tier stamps its sample, reads the performance counters, makes  *)
(* figures of them and the reading before, and reads the OS views; that of *)
(* the space tier reads tempdb and the version store, which has a rate of  *)
(* its own.  Every query may find its view unreadable or the connection    *)
(* broken, and the server may restart.                                     *)
(*                                                                         *)
(* A figure is a number, a quotient [num, over], or None when it is not    *)
(* available.  Units and the factors of time and percent are left out, and *)
(* so are the tempdb and CPU figures, which are shown as they are read.    *)
(***************************************************************************)
EXTENDS Integers, Functions

CONSTANTS
  Counters,   \* the keys of a reading
  Raw,        \* those shown as they are
  PerSecond,  \* those shown per second
  BaseOf,     \* a function: the base of each that is shown as a ratio
  Guarded,    \* "longest_transaction_s": only with read committed snapshot
  Readings,   \* the sets of counters a reading may have rows for
  Pages,      \* how big the version store may be
  MaxClock,   \* bound: the clock
  MaxEpoch,   \* bound: how often the server restarts
  None

\* A reading of some of the counters is not None, nor is a record of one.
ASSUME FiguresAssumption ==
  /\ Readings \subseteq SUBSET Counters
  /\ \A keys \in Readings \cup {{}} :
       None \notin [keys -> Nat] \cup [at : Nat, rows : [keys -> Nat], epoch : Nat]

VARIABLES
  caps,     \* what of "wide", "scheduler", "store" Identify has found
  rcsi,     \* ServerInfo.HasReadCommittedSnapshot
  clock,    \* bounded
  epoch,    \* how often the server has restarted; bounded
  counters, \* the server's, since then
  store,    \* the version store's size
  driven,   \* the tier looked at: the two share nothing but the server
  pc,       \* per tier: "idle", "stamped" and, of the counters tier, "applied"
  at,       \* per tier: out.At
  draft,    \* the figures of the sample under way
  prev, prevAt,    \* counterState
  vprev, vprevAt,  \* rateState of the version store, vprev None until seeded
  figures,  \* those of the last sample of the counters tier
  growth,   \* version_store_growth_mb_s of the last of the space tier
  was, is,  \* history: the last two readings, [at, rows, epoch]
  of,       \* history: the two readings the figures are of
  vof       \* history: the two sizes growth is of, each [at, size]

serverVars == <<driven, caps, rcsi, clock, epoch, counters, store>>
counterVars == <<draft, prev, prevAt, figures, was, is, of>>
spaceVars == <<vprev, vprevAt, growth, vof>>
vars == <<serverVars, pc, at, counterVars, spaceVars>>

Tiers == {"counters", "space"}

Init ==
  /\ caps \in SUBSET {"wide", "scheduler", "store"} /\ rcsi \in BOOLEAN
  /\ driven \in Tiers
  /\ clock = 0 /\ epoch = 0
  /\ counters = [k \in Counters |-> 0] /\ store \in Pages
  /\ pc = [t \in Tiers |-> "idle"] /\ at = [t \in Tiers |-> 0]
  /\ draft = None /\ figures = None /\ growth = None
  /\ prev = None /\ prevAt = 0 /\ vprev = None /\ vprevAt = 0
  /\ was = None /\ is = None /\ of = None /\ vof = [was |-> None, is |-> None]

-----------------------------------------------------------------------------
(* counters.go                                                             *)

\* Mutant: a counter that went backwards is differentiated all the same.
GrownOrNot(rows) == DOMAIN prev \cap DOMAIN rows

\* In both readings, and not lower in the second: a counter that went
\* backwards was reset with the instance.
Grown(rows) == {k \in DOMAIN prev \cap DOMAIN rows : rows[k] >= prev[k]}

\* counterState.apply and applyLongestTransactionGate
Figures(rows, when) ==
  LET grown   == IF prev = None THEN {} ELSE Grown(rows)
      gain(k) == rows[k] - prev[k]
  IN  [raw   |-> [k \in Raw |->
                    IF k \in DOMAIN rows /\ (k = Guarded => rcsi) THEN rows[k] ELSE None],
       rate  |-> [k \in PerSecond |->
                    IF k \in grown /\ when > prevAt
                    THEN [num |-> gain(k), over |-> when - prevAt] ELSE None],
       ratio |-> [k \in DOMAIN BaseOf |->
                    IF {k, BaseOf[k]} \subseteq grown /\ gain(BaseOf[k]) > 0
                    THEN [num |-> gain(k), over |-> gain(BaseOf[k])] ELSE None]]

\* "Replace rather than merge."
Kept(rows) == rows

Apply(rows, reading) ==
  /\ draft' = Figures(rows, at["counters"])
  /\ prev' = Kept(rows) /\ prevAt' = at["counters"]
  /\ was' = is /\ is' = reading

-----------------------------------------------------------------------------
(* SampleServer.                                                           *)

To(t, where) == pc' = [pc EXCEPT ![t] = where] /\ UNCHANGED at

\* The sample is stamped before the connection is waited for.
Stamp(t) ==
  /\ t = driven /\ pc[t] = "idle"
  /\ pc' = [pc EXCEPT ![t] = "stamped"]
  /\ at' = [at EXCEPT ![t] = clock]
  /\ UNCHANGED <<serverVars, counterVars, spaceVars>>

\* readCounters, answered: with rows, or with none when the login may not
\* read them, by Identify's word or now.
ReadCounters ==
  /\ pc["counters"] = "stamped"
  /\ \E keys \in (IF "wide" \in caps THEN Readings ELSE {}) \cup {{}} :
       LET rows == Restrict(counters, keys)
       IN  Apply(rows, [at |-> at["counters"], rows |-> rows, epoch |-> epoch])
  /\ To("counters", "applied")
  /\ UNCHANGED <<serverVars, figures, of, spaceVars>>

\* readOSViews, answered or not to be asked: the sample is complete.
ReadOSViews ==
  /\ pc["counters"] = "applied"
  /\ figures' = draft /\ draft' = None
  /\ of' = [was |-> was, is |-> is]
  /\ To("counters", "idle")
  /\ UNCHANGED <<serverVars, prev, prevAt, was, is, spaceVars>>

\* A connection that breaks loses the sample; what was applied stays applied.
Breaks ==
  /\ \/ pc["counters"] = "stamped" /\ "wide" \in caps
     \/ pc["counters"] = "applied" /\ "scheduler" \in caps
  /\ draft' = None
  /\ To("counters", "idle")
  /\ UNCHANGED <<serverVars, prev, prevAt, figures, was, is, of, spaceVars>>

\* Mutant of Growth: the instant is kept as it was.
GrowthSinceFirst(size, when) ==
  /\ vprev' = size /\ vprevAt' = (IF vprev = None THEN when ELSE vprevAt)
  /\ growth' = IF vprev = None \/ when <= vprevAt THEN None
               ELSE [num |-> size - vprev, over |-> when - vprevAt]

\* rateState.rate: it may be negative.
Growth(size, when) ==
  /\ vprev' = size /\ vprevAt' = when
  /\ growth' = IF vprev = None \/ when <= vprevAt THEN None
               ELSE [num |-> size - vprev, over |-> when - vprevAt]

\* readSpace: the version store's size, or nothing if it may not be read.
ReadSpace ==
  /\ pc["space"] = "stamped"
  /\ \/ /\ "store" \in caps
        /\ Growth(store, at["space"])
        /\ vof' = [was |-> vof.is, is |-> [at |-> at["space"], size |-> store]]
     \/ growth' = None /\ UNCHANGED <<vprev, vprevAt, vof>>
  /\ To("space", "idle")
  /\ UNCHANGED <<serverVars, counterVars>>

SpaceBreaks ==
  /\ pc["space"] = "stamped" /\ caps \cap {"wide", "store"} # {}
  /\ To("space", "idle")
  /\ UNCHANGED <<serverVars, counterVars, spaceVars>>

-----------------------------------------------------------------------------
(* The server.                                                             *)

Work ==
  /\ clock < MaxClock
  /\ clock' = clock + 1
  /\ counters' \in [Counters -> 0 .. MaxClock]
  /\ \A k \in Counters : counters'[k] \in {counters[k], counters[k] + 1}
  /\ driven = "counters" => store' = store
  /\ driven = "space" => counters' = counters
  /\ store' \in Pages
  /\ UNCHANGED <<driven, caps, rcsi, epoch, pc, at, counterVars, spaceVars>>

Restart ==
  /\ epoch < MaxEpoch
  /\ epoch' = epoch + 1 /\ counters' = [k \in Counters |-> 0]
  /\ UNCHANGED <<driven, caps, rcsi, clock, store, pc, at, counterVars, spaceVars>>

Next ==
  \/ \E t \in Tiers : Stamp(t)
  \/ ReadCounters \/ ReadOSViews \/ Breaks \/ ReadSpace \/ SpaceBreaks
  \/ Work \/ Restart

Spec == Init /\ [][Next]_vars

-----------------------------------------------------------------------------
\* What the figures made of two readings that followed each other are: for each
\* what its counter gained between them, over the time, or its base's gain,
\* between the same two; none for a counter that either lacks.  Across a
\* restart of the server a counter seen to go backwards shows none.
AreOf(shown, earlier, later) ==
  LET both == IF earlier = None THEN {} ELSE DOMAIN earlier.rows \cap DOMAIN later.rows
      Gain(k) == later.rows[k] - earlier.rows[k]
      OneRun == later.epoch = earlier.epoch
  IN  /\ \A k \in PerSecond :
           IF k \notin both \/ later.at <= earlier.at THEN shown.rate[k] = None
           ELSE /\ OneRun => shown.rate[k] = [num |-> Gain(k), over |-> later.at - earlier.at]
                /\ Gain(k) < 0 => shown.rate[k] = None
      /\ \A k \in DOMAIN BaseOf :
           LET b == BaseOf[k]
           IN  IF ~({k, b} \subseteq both) \/ Gain(b) <= 0 \/ Gain(k) < 0
               THEN shown.ratio[k] = None
               ELSE shown.ratio[k] = [num |-> Gain(k), over |-> Gain(b)]

\* The figures shown are those of the last two readings that made a sample.
RateIsTrue == of # None => AreOf(figures, of.was, of.is)

\* The version store's growth is the difference of the last two sizes read,
\* up or down, over the time between them, whatever failed in between.
GrowthIsTrue ==
  growth # None =>
    growth = [num |-> vof.is.size - vof.was.size, over |-> vof.is.at - vof.was.at]

=============================================================================
