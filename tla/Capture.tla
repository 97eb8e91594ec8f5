------------------------------ MODULE Capture ------------------------------
(***************************************************************************)
(* The capture manager (internal/capture) over one SQL Server: the HTTP    *)
(* handlers that toggle a capture, the goroutine that drains each one, the *)
(* goroutines that stop it, the JSON Lines file each leaves, and the event *)
(* session each owns on the server.                                        *)
(*                                                                         *)
(* Manager.mu is never held across a call that can block, so a critical    *)
(* section under it is one step.  Every statement sent to the server is a  *)
(* step of its own, because every other process may move before it.        *)
(***************************************************************************)
EXTENDS Integers, Sequences, FiniteSets

CONSTANTS Callers,       \* HTTP handlers that may be inside Toggle
          Outsiders,     \* callers of Stop that hold no run: web.stopCapture
          OutsideReason, \* the reason each of them stops with
          Spids,         \* sessions of the server that can be captured
          None,          \* a nil pointer, a free mutex, a silent reason
          MaxRuns,       \* bound: captures started in a behaviour
          MaxLogins,     \* bound: logins a session id sees
          MaxAge,        \* bound: 1, captures pass the cap; 2, also twice it
          MaxTrouble,    \* bound: captures with a DDL statement that failed
          MaxStatements, \* bound: statements one capture reads
          LostAfter,     \* consecutive failed polls that end a capture
          RecentKept     \* statements the panel keeps

Runs == 1 .. MaxRuns

DrainReasons == {"session gone", "session reused", "time cap", "server lost"}

StopReasons == {"key", "shutdown", "browser gone"} \cup DrainReasons

\* A run doubles as the goroutine `go m.stop(...)` its drain spawns.
Stoppers == Callers \cup Outsiders \cup Runs

ASSUME CaptureAssumption ==
  /\ MaxRuns \in Nat /\ MaxLogins \in Nat /\ MaxStatements \in Nat
  /\ MaxTrouble \in Nat /\ MaxAge \in 0 .. 2
  /\ LostAfter \in Nat \ {0} /\ RecentKept \in Nat \ {0}
  /\ None \notin Stoppers /\ None \notin StopReasons /\ None \notin Spids
  /\ Callers \cap Outsiders = {}
  /\ (Callers \cup Outsiders) \cap Runs = {}
  /\ OutsideReason \in [Outsiders -> {"shutdown", "browser gone"}]

VARIABLES
  toggling,   \* Manager.toggling: the caller that holds it
  run,        \* Manager.run: the run held, or None
  st,         \* Manager.st: what the panel is told
  rows,       \* Manager.rows: statements <<run, position in its file>>
  info,       \* per run: the session it watches and the login it saw
  drain,      \* per run: where its drain goroutine is
  cancelled,  \* per run: its context has been cancelled
  reason,     \* per run: run.reason
  why,        \* per run: the reason its own drain decided to end on
  fails,      \* per run: failed polls in a row
  statements, \* per run: run.statements, event records in its file
  fresh,      \* per run: statements of the last poll, not yet in rows
  file,       \* per run: "none", "open", or the reason of its end record
  nruns,      \* captures whose start got past WatchedSession
  pc,         \* where each stopper is
  target,     \* its local run: being stopped, or being started
  want,       \* per caller: the session id it was asked to toggle
  seen,       \* per caller: the run Toggle found running
  session,    \* per run: its event session on the server
  age,        \* per run: 0 young, 1 past the cap, 2 past twice the cap
  login,      \* per session id: whether it is there, and its login
  troubled    \* history: runs one of whose DDL statements failed

managerVars == <<toggling, run, st, rows>>
runVars == <<info, drain, cancelled, reason, why, fails, statements, fresh,
             file, nruns>>
callVars == <<pc, target, want, seen>>
serverVars == <<session, age, login, troubled>>

vars == <<managerVars, runVars, callVars, serverVars>>

-----------------------------------------------------------------------------
Logins == [up : BOOLEAN, n : 0 .. MaxLogins]

DrainStates == {"none", "select", "poll", "publish", "ended", "done"}

CallerOnly == {"lock", "watch", "sweep", "create", "start", "file", "undo",
               "install"}

StopStates == {"idle", "take", "cancel", "join", "drop"}

TypeOK ==
  /\ toggling \in Callers \cup {None}
  /\ run \in Runs \cup {None}
  /\ st \in [active : BOOLEAN, run : Runs \cup {None},
             stopped : StopReasons \cup {None}, statements : Nat]
  /\ rows \in Seq(Runs \X Nat)
  /\ info \in [Runs -> [spid : Spids, login : Logins] \cup {None}]
  /\ drain \in [Runs -> DrainStates]
  /\ cancelled \in [Runs -> BOOLEAN]
  /\ reason \in [Runs -> StopReasons \cup {None}]
  /\ why \in [Runs -> DrainReasons \cup {None}]
  /\ fails \in [Runs -> 0 .. LostAfter]
  /\ statements \in [Runs -> Nat]
  /\ fresh \in [Runs -> Nat]
  /\ file \in [Runs -> {"none", "open"} \cup StopReasons]
  /\ nruns \in 0 .. MaxRuns
  /\ pc \in [Stoppers -> StopStates \cup CallerOnly]
  /\ target \in [Stoppers -> Runs \cup {None}]
  /\ want \in [Callers -> Spids \cup {None}]
  /\ seen \in [Callers -> Runs \cup {None}]
  /\ session \in [Runs -> {"none", "created", "started", "dropped"}]
  /\ age \in [Runs -> 0 .. 2]
  /\ login \in [Spids -> Logins]
  /\ troubled \subseteq Runs

Init ==
  /\ toggling = None /\ run = None
  /\ st = [active |-> FALSE, run |-> None, stopped |-> None, statements |-> 0]
  /\ rows = <<>>
  /\ info = [r \in Runs |-> None]
  /\ drain = [r \in Runs |-> "none"]
  /\ cancelled = [r \in Runs |-> FALSE]
  /\ reason = [r \in Runs |-> None]
  /\ why = [r \in Runs |-> None]
  /\ fails = [r \in Runs |-> 0]
  /\ statements = [r \in Runs |-> 0]
  /\ fresh = [r \in Runs |-> 0]
  /\ file = [r \in Runs |-> "none"]
  /\ nruns = 0
  /\ pc = [p \in Stoppers |-> "idle"]
  /\ target = [p \in Stoppers |-> None]
  /\ want = [c \in Callers |-> None]
  /\ seen = [c \in Callers |-> None]
  /\ session = [r \in Runs |-> "none"]
  /\ age = [r \in Runs |-> 0]
  /\ login = [s \in Spids |-> [up |-> TRUE, n |-> 0]]
  /\ troubled = {}

-----------------------------------------------------------------------------
(* The server, as the manager uses it.                                     *)

Exists(r) == session[r] \in {"created", "started"}

\* One DDL statement on r's event session, taking it from one of `from` to
\* `to`.  An error says nothing about the effect: the statement may have been
\* lost on its way to the server, or the answer on its way back.
Statement(r, from, to, ok) ==
  /\ ok => session[r] \in from
  /\ \/ /\ session[r] \in from
        /\ session' = [session EXCEPT ![r] = to]
     \/ ~ok /\ UNCHANGED session
  /\ troubled' = IF ok THEN troubled ELSE troubled \cup {r}
  /\ Cardinality(troubled') <= MaxTrouble

CreateSession(r, ok) == Statement(r, {"none"}, "created", ok)
StartSession(r, ok) == Statement(r, {"created"}, "started", ok)
DropSession(r, ok) == Statement(r, {"created", "started"}, "dropped", ok)

\* What a sweep selects: a definition that is not started, or a session older
\* than twice the cap.  The gap between its SELECT and its DROPs matters to
\* other instances only, and is the subject of another module.
Swept == {r \in Runs : \/ session[r] = "created"
                       \/ session[r] = "started" /\ age[r] = 2}

\* An end of the monitored session, or a reset by its connection pool.
SessionEnds(s) ==
  /\ login[s].up
  /\ login' = [login EXCEPT ![s].up = FALSE]
  /\ UNCHANGED <<managerVars, runVars, callVars, session, age, troubled>>

SessionBegins(s) ==
  /\ login[s].n < MaxLogins
  /\ login' = [login EXCEPT ![s] = [up |-> TRUE, n |-> @.n + 1]]
  /\ UNCHANGED <<managerVars, runVars, callVars, session, age, troubled>>

\* Time passes: r reaches the cap, then twice the cap.
Ages(r) ==
  /\ session[r] = "started" /\ age[r] < MaxAge
  /\ age' = [age EXCEPT ![r] = @ + 1]
  /\ UNCHANGED <<managerVars, runVars, callVars, session, login, troubled>>

-----------------------------------------------------------------------------
(* Stop, as run by a stopper p.                                            *)

Goto(p, label) == pc' = [pc EXCEPT ![p] = label]

\* The `only` of stop: the run a drain's own goroutine was handed.
OnlyNobody(p) == None \* mutant of Only: the drain stops whatever runs

Only(p) == IF p \in Runs THEN p ELSE None

ReasonOf(p) == IF p \in Callers THEN "key"
               ELSE IF p \in Outsiders THEN OutsideReason[p]
               ELSE why[p]

\* Where Toggle goes when its Stop returned without an error.
AfterStop(c) == IF seen[c] # None /\ info[seen[c]].spid = want[c]
                THEN "return" ELSE "watch"

\* What a stopper does once stop has returned.  Toggle unlocks on every path;
\* the locals of a call that has returned are gone.
Unlock(c) ==
  /\ toggling' = None
  /\ target' = [target EXCEPT ![c] = None]
  /\ want' = [want EXCEPT ![c] = None]
  /\ seen' = [seen EXCEPT ![c] = None]
  /\ Goto(c, "idle")

Stopped(p, ok) ==
  IF p \in Callers /\ ~(ok /\ AfterStop(p) = "watch")
  THEN Unlock(p)
  ELSE /\ target' = [target EXCEPT ![p] = None]
       /\ Goto(p, IF p \in Callers THEN "watch" ELSE "idle")
       /\ UNCHANGED <<toggling, want, seen>>

\* Under mu: nothing to stop, or not the run this caller may stop.
StopNothing(p) ==
  /\ pc[p] = "take"
  /\ run = None \/ (Only(p) # None /\ run # Only(p))
  /\ Stopped(p, TRUE)
  /\ UNCHANGED <<run, st, rows, runVars, serverVars>>

\* Mutant of StopTake: m.run is not cleared.
StopTakeKeepsRun(p) ==
  /\ pc[p] = "take" /\ run # None
  /\ Only(p) # None => run = Only(p)
  /\ target' = [target EXCEPT ![p] = run]
  /\ reason' = [reason EXCEPT ![run] = ReasonOf(p)]
  /\ st' = [st EXCEPT !.active = FALSE, !.stopped = ReasonOf(p)]
  /\ Goto(p, "cancel")
  /\ UNCHANGED <<toggling, run, rows, info, drain, cancelled, why, fails,
                 statements, fresh, file, nruns, want, seen, serverVars>>

\* Under mu: the run is taken and the state says why it ended.
StopTake(p) ==
  /\ pc[p] = "take"
  /\ run # None
  /\ Only(p) # None => run = Only(p)
  /\ target' = [target EXCEPT ![p] = run]
  /\ reason' = [reason EXCEPT ![run] = ReasonOf(p)]
  /\ st' = [st EXCEPT !.active = FALSE, !.stopped = ReasonOf(p)]
  /\ run' = None
  /\ Goto(p, "cancel")
  /\ UNCHANGED <<toggling, rows, info, drain, cancelled, why, fails,
                 statements, fresh, file, nruns, want, seen, serverVars>>

\* Mutant of StopCancel: the context is not cancelled.
StopWithoutCancel(p) ==
  /\ pc[p] = "cancel" /\ Goto(p, "join")
  /\ UNCHANGED <<managerVars, runVars, target, want, seen, serverVars>>

StopCancel(p) ==
  /\ pc[p] = "cancel"
  /\ cancelled' = [cancelled EXCEPT ![target[p]] = TRUE]
  /\ Goto(p, "join")
  /\ UNCHANGED <<managerVars, info, drain, reason, why, fails, statements,
                 fresh, file, nruns, target, want, seen, serverVars>>

\* Mutant of StopJoin: the drain is not waited for.
StopWithoutJoin(p) ==
  /\ pc[p] = "join" /\ Goto(p, "drop")
  /\ UNCHANGED <<managerVars, runVars, target, want, seen, serverVars>>

\* <-r.done
StopJoin(p) ==
  /\ pc[p] = "join"
  /\ drain[target[p]] = "done"
  /\ Goto(p, "drop")
  /\ UNCHANGED <<managerVars, runVars, target, want, seen, serverVars>>

StopDrop(p) ==
  /\ pc[p] = "drop"
  /\ \E ok \in BOOLEAN : DropSession(target[p], ok) /\ Stopped(p, ok)
  /\ UNCHANGED <<run, st, rows, runVars, age, login>>

StopStep(p) == StopNothing(p) \/ StopTake(p) \/ StopCancel(p) \/ StopJoin(p)
               \/ StopDrop(p)

\* web.stopCapture, from a place that holds no run.
OutsiderStops(p) ==
  /\ pc[p] = "idle"
  /\ Goto(p, "take")
  /\ UNCHANGED <<managerVars, runVars, target, want, seen, serverVars>>

-----------------------------------------------------------------------------
(* Toggle and start, as run by a caller c.                                 *)

InToggle == {c \in Callers : pc[c] # "idle"}

Press(c, s) ==
  /\ pc[c] = "idle"
  /\ want' = [want EXCEPT ![c] = s]
  /\ Goto(c, "lock")
  /\ UNCHANGED <<managerVars, runVars, target, seen, serverVars>>

\* Mutant of Lock: no toggling mutex.
LockFree(c) ==
  /\ pc[c] = "lock"
  /\ toggling' = c
  /\ seen' = [seen EXCEPT ![c] = run]
  /\ Goto(c, IF run = None THEN "watch" ELSE "take")
  /\ UNCHANGED <<run, st, rows, runVars, target, want, serverVars>>

\* toggling.Lock, and the read of m.run it protects.
Lock(c) ==
  /\ pc[c] = "lock"
  /\ toggling = None
  /\ toggling' = c
  /\ seen' = [seen EXCEPT ![c] = run]
  /\ Goto(c, IF run = None THEN "watch" ELSE "take")
  /\ UNCHANGED <<run, st, rows, runVars, target, want, serverVars>>

\* WatchedSession, then the directory of the trace files.  Bound: once MaxRuns
\* captures have been started, WatchedSession only fails.
StartWatch(c) ==
  /\ pc[c] = "watch"
  /\ \/ Unlock(c) /\ UNCHANGED <<info, nruns>>
     \/ /\ login[want[c]].up
        /\ nruns < MaxRuns
        /\ nruns' = nruns + 1
        /\ target' = [target EXCEPT ![c] = nruns + 1]
        /\ info' = [info EXCEPT ![nruns + 1] =
                      [spid |-> want[c], login |-> login[want[c]]]]
        /\ Goto(c, "sweep")
        /\ UNCHANGED <<toggling, want, seen>>
  /\ UNCHANGED <<run, st, rows, drain, cancelled, reason, why, fails,
                 statements, fresh, file, serverVars>>

\* A sweep that fails stops at the statement that failed.
StartSweep(c) ==
  /\ pc[c] = "sweep"
  /\ \E gone \in SUBSET Swept :
       /\ session' = [r \in Runs |-> IF r \in gone THEN "dropped"
                                     ELSE session[r]]
       /\ \/ /\ gone = Swept
             /\ Goto(c, "create")
             /\ UNCHANGED <<toggling, target, want, seen>>
          \/ Unlock(c)
  /\ UNCHANGED <<run, st, rows, runVars, age, login, troubled>>

StartCreate(c) ==
  /\ pc[c] = "create"
  /\ \E ok \in BOOLEAN :
       /\ CreateSession(target[c], ok)
       /\ IF ok THEN /\ Goto(c, "start")
                     /\ UNCHANGED <<toggling, target, want, seen>>
                ELSE Unlock(c)
  /\ UNCHANGED <<run, st, rows, runVars, age, login>>

StartStart(c) ==
  /\ pc[c] = "start"
  /\ \E ok \in BOOLEAN : /\ StartSession(target[c], ok)
                         /\ Goto(c, IF ok THEN "file" ELSE "undo")
  /\ UNCHANGED <<managerVars, runVars, target, want, seen, age, login>>

\* Mutant of StartFile: no DROP when the file cannot be created.
StartFileNoUndo(c) ==
  /\ pc[c] = "file"
  /\ \/ Unlock(c) /\ UNCHANGED file
     \/ /\ Goto(c, "install") /\ file' = [file EXCEPT ![target[c]] = "open"]
        /\ UNCHANGED <<toggling, target, want, seen>>
  /\ UNCHANGED <<run, st, rows, info, drain, cancelled, reason, why, fails,
                 statements, fresh, nruns, serverVars>>

\* outdir.Create and the header record.
StartFile(c) ==
  /\ pc[c] = "file"
  /\ \/ Goto(c, "undo") /\ UNCHANGED file
     \/ Goto(c, "install") /\ file' = [file EXCEPT ![target[c]] = "open"]
  /\ UNCHANGED <<managerVars, info, drain, cancelled, reason, why, fails,
                 statements, fresh, nruns, target, want, seen, serverVars>>

\* The DROP of a capture whose START or whose file failed; its own error is
\* not looked at.
StartUndo(c) ==
  /\ pc[c] = "undo"
  /\ \E ok \in BOOLEAN : DropSession(target[c], ok)
  /\ Unlock(c)
  /\ UNCHANGED <<run, st, rows, runVars, age, login>>

\* Under mu the manager takes the new run; then its drain starts.
StartInstall(c) ==
  /\ pc[c] = "install"
  /\ run' = target[c]
  /\ rows' = <<>>
  /\ st' = [active |-> TRUE, run |-> target[c], stopped |-> None,
            statements |-> 0]
  /\ drain' = [drain EXCEPT ![target[c]] = "select"]
  /\ Unlock(c)
  /\ UNCHANGED <<info, cancelled, reason, why, fails, statements, fresh, file,
                 nruns, serverVars>>

ToggleStep(c) ==
  \/ StartWatch(c) \/ StartSweep(c) \/ StartCreate(c) \/ StartStart(c)
  \/ StartFile(c) \/ StartUndo(c) \/ StartInstall(c)

-----------------------------------------------------------------------------
(* The drain goroutine of run r.                                           *)

\* The drain decides to end: it keeps running, idle, until it is cancelled,
\* and a goroutine of its own calls stop with this run.
Over(r, w) ==
  /\ why' = [why EXCEPT ![r] = w]
  /\ drain' = [drain EXCEPT ![r] = "ended"]
  /\ Goto(r, "take")

\* Mutant of TickCheck: no time cap.
TickCheckNoCap(r) ==
  /\ drain[r] = "select"
  /\ drain' = [drain EXCEPT ![r] = "poll"]
  /\ UNCHANGED <<managerVars, info, cancelled, reason, why, fails, statements,
                 fresh, file, nruns, callVars, serverVars>>

\* The tick's look at the clock and at the watched session.  A WatchedSession
\* that fails decides nothing.
TickCheck(r) ==
  /\ drain[r] = "select"
  /\ \/ age[r] > 0 /\ Over(r, "time cap")
     \/ /\ age[r] = 0
        /\ LET now == login[info[r].spid]
           IN \/ ~now.up /\ Over(r, "session gone")
              \/ now.up /\ now # info[r].login /\ Over(r, "session reused")
     \/ /\ age[r] = 0
        /\ drain' = [drain EXCEPT ![r] = "poll"]
        /\ UNCHANGED <<why, pc>>
  /\ UNCHANGED <<managerVars, info, cancelled, reason, fails, statements,
                 fresh, file, nruns, target, want, seen, serverVars>>

\* A failed poll, the thirtieth in a row of which is an ending.
PollFails(r) ==
  /\ drain[r] = "poll"
  /\ fails' = [fails EXCEPT ![r] = @ + 1]
  /\ IF fails[r] + 1 >= LostAfter
     THEN Over(r, "server lost")
     ELSE /\ drain' = [drain EXCEPT ![r] = "select"]
          /\ UNCHANGED <<why, pc>>
  /\ UNCHANGED <<managerVars, info, cancelled, reason, statements, fresh, file,
                 nruns, target, want, seen, serverVars>>

\* A poll that answers, and its event records.  An event session that is gone
\* answers with nothing.
Poll(r) ==
  /\ drain[r] = "poll"
  /\ \E n \in 0 .. (MaxStatements - statements[r]) :
       /\ session[r] # "started" => n = 0
       /\ fresh' = [fresh EXCEPT ![r] = n]
       /\ statements' = [statements EXCEPT ![r] = @ + n]
  /\ fails' = [fails EXCEPT ![r] = 0]
  /\ drain' = [drain EXCEPT ![r] = "publish"]
  /\ UNCHANGED <<managerVars, info, cancelled, reason, why, file, nruns,
                 callVars, serverVars>>

\* The last n of a sequence.
LastOf(seq, n) ==
  SubSeq(seq, IF Len(seq) > n THEN Len(seq) - n + 1 ELSE 1, Len(seq))

\* Positions lo .. hi of r's file.
Records(r, lo, hi) == [i \in 1 .. (hi - lo + 1) |-> <<r, lo + i - 1>>]

\* Mutant of Publish: the drain publishes whatever the manager runs.
PublishAlways(r) ==
  /\ drain[r] = "publish"
  /\ rows' = LastOf(rows \o Records(r, statements[r] - fresh[r] + 1,
                                    statements[r]), RecentKept)
  /\ st' = [st EXCEPT !.statements = statements[r]]
  /\ drain' = [drain EXCEPT ![r] = "select"]
  /\ fresh' = [fresh EXCEPT ![r] = 0]
  /\ UNCHANGED <<toggling, run, info, cancelled, reason, why, fails,
                 statements, file, nruns, callVars, serverVars>>

\* Under mu, and only while this is still the running capture.
Publish(r) ==
  /\ drain[r] = "publish"
  /\ IF run = r
     THEN /\ rows' = LastOf(rows \o Records(r, statements[r] - fresh[r] + 1,
                                               statements[r]), RecentKept)
          /\ st' = [st EXCEPT !.statements = statements[r]]
     ELSE UNCHANGED <<rows, st>>
  /\ drain' = [drain EXCEPT ![r] = "select"]
  /\ fresh' = [fresh EXCEPT ![r] = 0]
  /\ UNCHANGED <<toggling, run, info, cancelled, reason, why, fails,
                 statements, file, nruns, callVars, serverVars>>

\* ctx.Done: the end record, with the reason read under mu.  The select picks
\* a ready tick or this one at random, so a tick may still come first.
Finish(r) ==
  /\ drain[r] \in {"select", "ended"}
  /\ cancelled[r]
  /\ file' = [file EXCEPT ![r] = reason[r]]
  /\ drain' = [drain EXCEPT ![r] = "done"]
  /\ UNCHANGED <<managerVars, info, cancelled, reason, why, fails, statements,
                 fresh, nruns, callVars, serverVars>>

Tick(r) == TickCheck(r) \/ PollFails(r) \/ Poll(r) \/ Publish(r)

-----------------------------------------------------------------------------
ManagerNext ==
  \/ \E p \in Stoppers : StopStep(p)
  \/ \E c \in Callers : Lock(c) \/ ToggleStep(c)
  \/ \E r \in Runs : Tick(r) \/ Finish(r)

ServerNext ==
  \/ \E s \in Spids : SessionEnds(s) \/ SessionBegins(s)
  \/ \E r \in Runs : Ages(r)

Next ==
  \/ ManagerNext
  \/ ServerNext
  \/ \E c \in Callers, s \in Spids : Press(c, s)
  \/ \E p \in Outsiders : OutsiderStops(p)

Spec == Init /\ [][Next]_vars

-----------------------------------------------------------------------------
(* Properties.                                                             *)

Alive(r) == drain[r] \notin {"none", "done"}

Stopping(p) == pc[p] \in {"cancel", "join", "drop"}

Starting(c) == pc[c] \in {"start", "file", "undo", "install"}

\* "Two tabs pressing the key together would otherwise leave a capture running
\* with nothing holding it": a drain nobody has cancelled is the manager's run,
\* or one stopper has just taken it and is about to cancel it.
DrainIsHeld ==
  \A r \in Runs : Alive(r) /\ ~cancelled[r] =>
    run = r \/ \E p \in Stoppers : pc[p] = "cancel" /\ target[p] = r

\* A capture is ended once: no two stoppers cancel, wait for and drop the same
\* run, and none of them ends the run the manager holds now.
EndedOnce ==
  \A p, q \in Stoppers : Stopping(p) /\ Stopping(q) =>
    /\ target[p] = target[q] => p = q
    /\ target[p] # run

\* "Ending a stranger's work under someone else's reason is worse than doing
\* nothing": an end record names a drain's reason only if the capture's own
\* drain decided it.
EndReasonIsOwn ==
  \A r \in Runs : file[r] \in DrainReasons => file[r] = why[r]

\* The key ends the capture it was pressed on: Toggle decides on the run it
\* read, lets go of the mutex, and Stop takes the run it finds.
KeyEndsWhatItSaw ==
  \A c \in Callers : Stopping(c) => target[c] = seen[c]

\* What the panel is told is one capture's: it is active exactly when the
\* manager holds a run and then names that run, and once ended it gives the
\* reason that capture ended for, whatever is still winding down beside it.
PanelNamesTheRun ==
  /\ st.active <=> run # None
  /\ run # None => st.run = run
  /\ ~st.active /\ st.run # None => st.stopped = reason[st.run]

\* The statements the panel shows are the last RecentKept event records of the
\* file of the capture it names, in order and with none of another capture's:
\* "a drain finishing beside a capture that has already started must not write
\* into it".
PanelIsTailOfFile ==
  IF st.run = None THEN rows = <<>>
  ELSE /\ st.statements <= statements[st.run]
       /\ rows = LastOf(Records(st.run, 1, st.statements), RecentKept)

\* No event session is forgotten: one that exists on the server is that of the
\* running capture, or of one a goroutine is still starting or stopping, unless
\* a statement sent for it failed.
EventSessionAccounted ==
  \A r \in Runs : Exists(r) =>
    \/ run = r
    \/ \E p \in Stoppers : Stopping(p) /\ target[p] = r
    \/ \E c \in Callers : Starting(c) /\ target[c] = r
    \/ r \in troubled

\* An event session is dropped only after its drain has written the last of
\* what it read: except for a machine suspended past twice the cap, where the
\* sweep of a new start may come first.
DrainedBeforeDrop ==
  \A r \in Runs : session[r] = "dropped" /\ age[r] < 2 => ~Alive(r)

\* The manager's goroutines implement one slot: a capture is running while the
\* manager holds it, ended once a stopper has taken it, closed once its drain
\* has written the end record.
PhaseOf(r) == CASE drain[r] = "none" -> "new"
                [] drain[r] = "done" -> "closed"
                [] OTHER -> IF run = r THEN "running" ELSE "ended"

Slot == INSTANCE CaptureSlot
          WITH Reasons <- StopReasons, slot <- run, cause <- reason,
               phase <- [r \in Runs |-> PhaseOf(r)]

\* Manager "runs at most one capture at a time", and each is ended once and
\* filed after it has ended, for one reason.
ImplementsSlot == Slot!Spec

=============================================================================
