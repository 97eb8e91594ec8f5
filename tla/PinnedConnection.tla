-------------------------- MODULE PinnedConnection --------------------------
(***************************************************************************)
(* The one connection every query of the tool goes through                 *)
(* (internal/source/mssql/mssql.go): Source.pool, a database/sql pool of   *)
(* at most one connection, and Source.db, that connection leased once and  *)
(* kept.  Source.mu is held for a whole query; a connection that dies is   *)
(* found dead by the query it fails, given back, and leased anew by the    *)
(* next one.                                                               *)
(*                                                                         *)
(* database/sql and the driver are modelled by what this use of them       *)
(* shows: a leased connection takes the only slot until it is closed, and  *)
(* without a free slot a lease waits, without a deadline of its own.       *)
(***************************************************************************)
EXTENDS Naturals

CONSTANTS
  Callers,    \* the goroutines that query
  Main,       \* the one that opens and closes, before and after them
  None,
  MaxFaults   \* bound: how often the link is cut, by either end

ASSUME PinnedAssumption == Main \notin Callers /\ None \notin Callers \cup {Main}

Everyone == Callers \cup {Main}

VARIABLES
  pool,    \* Source.pool: "none", "open"
  slot,    \* the pool's one connection: "free" (there is none), "idle", "leased"
  db,      \* whether Source.db is set
  link,    \* the connection: "none", "good", "cut" (not noticed), "bad" (the
           \* driver knows)
  session, \* which of the connections made so far it is
  mu,      \* who holds Source.mu
  pc,      \* per caller: "out", "waiting", "leasing", "spid", "asking",
           \* "repairing", "answered"
  answer,  \* per caller: what its last query returned
  opened,  \* Open has returned without an error
  up,      \* the server answers
  faults   \* bounded

poolVars == <<pool, slot, db>>
linkVars == <<link, session>>
serverVars == <<up, faults>>
callVars == <<mu, pc, answer, opened>>
pinnedVars == <<poolVars, linkVars, serverVars, callVars>>

\* Errors a connection that has gone shows as: sql.ErrConnDone and
\* driver.ErrBadConn ("gone"), and whatever reading from it returned ("broken").
\* "aborted" is the mssql.ServerError that cuts it, "refused" an mssql.Error.
Answers == {"ok", "refused", "cancelled", "gone", "broken", "aborted", "none"}

PinnedTypeOK ==
  /\ pool \in {"none", "open"} /\ slot \in {"free", "idle", "leased"}
  /\ db \in BOOLEAN /\ link \in {"none", "good", "cut", "bad"}
  /\ session \in Nat /\ faults \in Nat
  /\ mu \in Everyone \cup {None}
  /\ pc \in [Everyone -> {"out", "waiting", "leasing", "spid", "asking", "repairing", "answered"}]
  /\ answer \in [Everyone -> Answers]
  /\ opened \in BOOLEAN /\ up \in BOOLEAN

PinnedInit ==
  /\ pool = "none" /\ slot = "free" /\ db = FALSE
  /\ link = "none" /\ session = 0
  /\ up = TRUE /\ faults = 0
  /\ mu = None /\ opened = FALSE
  /\ pc = [c \in Everyone |-> "out"]
  /\ answer = [c \in Everyone |-> "none"]

-----------------------------------------------------------------------------
(* The pool.                                                               *)

\* Conn.Close of a connection that failed: the slot is free.
FreeSlot == slot' = "free" /\ link' = "none"

Returns(c, a) ==
  /\ answer' = [answer EXCEPT ![c] = a]
  /\ mu' = None
  /\ pc' = [pc EXCEPT ![c] = "answered"]

To(c, where) == pc' = [pc EXCEPT ![c] = where] /\ UNCHANGED <<mu, opened>>

-----------------------------------------------------------------------------
(* A query, under the lock.                                                *)

Call(c) ==
  /\ c \in Callers /\ opened /\ pc[c] = "out"
  /\ To(c, "waiting")
  /\ UNCHANGED <<poolVars, linkVars, serverVars, answer>>

Lock(c) ==
  /\ pc[c] = "waiting" /\ mu = None
  /\ mu' = c
  /\ pc' = [pc EXCEPT ![c] = IF db THEN "asking" ELSE "leasing"]
  /\ UNCHANGED <<poolVars, linkVars, serverVars, answer, opened>>

\* connLocked without a pool: ErrConnDone.
NoPool(c) ==
  /\ pc[c] = "leasing" /\ pool = "none"
  /\ Returns(c, "gone")
  /\ UNCHANGED <<poolVars, linkVars, serverVars, opened>>

\* pool.Conn takes the idle connection, or makes one.
Lease(c) ==
  /\ pc[c] = "leasing" /\ pool = "open"
  /\ \/ slot = "idle" /\ UNCHANGED linkVars
     \/ slot = "free" /\ up /\ link' = "good" /\ session' = session + 1
  /\ slot' = "leased"
  /\ To(c, "spid")
  /\ UNCHANGED <<pool, db, serverVars, answer>>

\* It cannot, or the caller gives up.
LeaseFails(c) ==
  /\ pc[c] = "leasing" /\ pool = "open" /\ slot = "free"
  /\ Returns(c, "broken")
  /\ UNCHANGED <<poolVars, linkVars, serverVars, opened>>

\* @@SPID is read, and the connection is pinned.
Pin(c) ==
  /\ pc[c] = "spid" /\ link = "good"
  /\ db' = TRUE
  /\ IF c = Main THEN Returns(c, "ok") /\ UNCHANGED opened
     ELSE To(c, "asking") /\ UNCHANGED answer
  /\ UNCHANGED <<pool, slot, linkVars, serverVars>>

\* It is closed instead, which gives it back: idle if there is nothing wrong
\* with it.
PinFails(c) ==
  /\ pc[c] = "spid"
  /\ IF link = "good" THEN slot' = "idle" /\ UNCHANGED link ELSE FreeSlot
  /\ Returns(c, "broken")
  /\ UNCHANGED <<pool, db, session, serverVars, opened>>

Answered(c, a) ==
  /\ pc[c] = "asking"
  /\ answer' = [answer EXCEPT ![c] = a]
  /\ To(c, "repairing")
  /\ UNCHANGED <<pool, db, session, serverVars>>

\* The server answers, with rows or with an error of its own.
Answer(c) == link = "good" /\ Answered(c, "ok") /\ UNCHANGED <<slot, link>>
Refuse(c) == link = "good" /\ Answered(c, "refused") /\ UNCHANGED <<slot, link>>

\* The caller's context is done: the driver cancels what is under way, or
\* gives the connection up if it cannot.
Cancel(c) ==
  /\ Answered(c, "cancelled")
  /\ UNCHANGED slot
  /\ link' = (IF link = "good" THEN "good" ELSE "bad")

\* The server ends this session with the query.
Abort(c) ==
  /\ faults < MaxFaults /\ link = "good"
  /\ faults' = faults + 1 /\ link' = "bad"
  /\ pc[c] = "asking" /\ To(c, "repairing")
  /\ answer' = [answer EXCEPT ![c] = "aborted"]
  /\ UNCHANGED <<poolVars, session, up>>

\* The connection is dead.  Found while sending, database/sql closes it at
\* once; found while reading, only the driver takes note.
Dead(c) ==
  /\ link # "good"
  /\ \/ Answered(c, "gone") /\ FreeSlot
     \/ Answered(c, "broken") /\ link' = "bad" /\ UNCHANGED slot

\* Mutant of Repair: the reference is dropped, the connection not closed.
RepairDropsOnly(c) ==
  /\ pc[c] = "repairing"
  /\ db' = (answer[c] = "ok" \/ (answer[c] # "gone" /\ link # "bad"))
  /\ Returns(c, answer[c])
  /\ UNCHANGED <<pool, slot, linkVars, serverVars, opened>>

\* repairLocked: closed and forgotten when the error, or the driver's own
\* flag, says it is dead.
Repair(c) ==
  /\ pc[c] = "repairing"
  /\ IF answer[c] # "ok" /\ (answer[c] = "gone" \/ link = "bad")
     THEN FreeSlot /\ db' = FALSE
     ELSE UNCHANGED <<slot, link, db>>
  /\ Returns(c, answer[c])
  /\ UNCHANGED <<pool, session, serverVars, opened>>

\* What a caller makes of the answer is its own affair.
Done(c) ==
  /\ pc[c] = "answered"
  /\ pc' = [pc EXCEPT ![c] = "out"] /\ answer' = [answer EXCEPT ![c] = "none"]
  /\ UNCHANGED <<poolVars, linkVars, serverVars, mu, opened>>

Query(c) ==
  \/ Lock(c) \/ NoPool(c) \/ Lease(c) \/ LeaseFails(c) \/ Pin(c) \/ PinFails(c)
  \/ Answer(c) \/ Refuse(c) \/ Cancel(c) \/ Abort(c) \/ Dead(c) \/ Repair(c)

-----------------------------------------------------------------------------
(* Open and Close.                                                         *)

\* The ping makes the connection and leaves it idle; then it is pinned, under
\* the lock.  Until Open has returned nobody else calls.  The number of sessions
\* is bounded here.
Ping ==
  /\ ~opened /\ pool = "none" /\ pc[Main] = "out" /\ mu = None /\ up
  /\ session <= MaxFaults
  /\ pool' = "open" /\ slot' = "idle" /\ link' = "good" /\ session' = session + 1
  /\ mu' = Main /\ pc' = [pc EXCEPT ![Main] = "leasing"]
  /\ UNCHANGED <<db, serverVars, answer, opened>>

\* Mutant of PoolClosed: the pool is dropped, and not closed.
PoolDropped == UNCHANGED <<slot, link>>

\* pool.Close closes what is idle; a leased connection is closed by its lessee.
PoolClosed == IF slot = "leased" THEN UNCHANGED <<slot, link>> ELSE FreeSlot

OpenReturns ==
  /\ pc[Main] = "answered" /\ ~opened
  /\ IF answer[Main] = "ok" THEN opened' = TRUE /\ UNCHANGED <<pool, slot, link>>
     ELSE pool' = "none" /\ PoolClosed /\ UNCHANGED opened
  /\ pc' = [pc EXCEPT ![Main] = "out"]
  /\ answer' = [answer EXCEPT ![Main] = "none"]
  /\ UNCHANGED <<db, session, serverVars, mu>>

\* Close, at the end; a handler that outlived the shutdown may still call.
Close ==
  /\ opened /\ mu = None /\ pool = "open"
  /\ pool' = "none" /\ db' = FALSE /\ FreeSlot
  /\ UNCHANGED <<session, serverVars, callVars>>

-----------------------------------------------------------------------------
(* The server and the way to it.                                           *)

Lost == IF link = "good" THEN link' = "cut" ELSE UNCHANGED link

Cut ==
  /\ faults < MaxFaults /\ link = "good"
  /\ faults' = faults + 1 /\ link' = "cut"
  /\ UNCHANGED <<poolVars, session, callVars, up>>

Down ==
  /\ faults < MaxFaults /\ up
  /\ faults' = faults + 1 /\ up' = FALSE /\ Lost
  /\ UNCHANGED <<poolVars, session, callVars>>

Up == ~up /\ up' = TRUE /\ UNCHANGED <<poolVars, linkVars, callVars, faults>>

-----------------------------------------------------------------------------
\* Whoever takes the lock finds the connection pinned, or the pool's only slot
\* free to pin another: never one that is leased and forgotten, on which the
\* next lease would wait for ever.  Without a pool no login is left.
PinHasTheSlot ==
  mu = None =>
    /\ db <=> slot = "leased"
    /\ pool = "none" /\ pc[Main] = "out" => slot = "free" /\ ~db

=============================================================================
