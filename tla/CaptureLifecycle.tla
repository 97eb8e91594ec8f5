-------------------------- MODULE CaptureLifecycle --------------------------
(***************************************************************************)
(* The capture manager inside the process that serves the page: the count  *)
(* of open streams, the grace timer armed when the last one closes, and    *)
(* the shutdown that stops the capture before the source is closed and the *)
(* process exits (internal/web/server.go, cmd/sqltop/main.go).  Each       *)
(* timer's callback and Serve itself are stoppers of the manager.  The     *)
(* handler of the key asks the server whether it can capture before it     *)
(* enters Toggle, and enters it with a context nothing cancels.            *)
(***************************************************************************)
EXTENDS Capture

CONSTANTS Serve,     \* the stopper that is Server.Serve
          MaxClients \* bound: streams open at once

\* One per time.AfterFunc: the bound on how often the last stream closes.
Timers == Outsiders \ {Serve}

ASSUME LifecycleAssumption ==
  /\ Serve \in Outsiders
  /\ MaxClients \in Nat
  /\ \A o \in Outsiders :
       OutsideReason[o] = IF o = Serve THEN "shutdown" ELSE "browser gone"

VARIABLES
  clients, \* Server.clients
  idle,    \* Server.captureIdle: the pending timer, or None
  timer,   \* per timer: where it and its callback are
  armedAt, \* per timer: captures started before it was armed
  phase,   \* the process: serving, draining, stopping, returned, exited
  asking,  \* handlers of the key that are still in Manager.State
  late,    \* history: a handler was there or in Toggle when Serve called Stop
  begun    \* history: the runs whose drain had been started by then

webVars == <<clients, idle, timer, armedAt, phase, asking, late, begun>>

allVars == <<vars, webVars>>

WebTypeOK ==
  /\ TypeOK
  /\ clients \in 0 .. MaxClients
  /\ idle \in Timers \cup {None}
  /\ timer \in [Timers -> {"unset", "armed", "disarmed", "fired", "look",
                           "stop", "over"}]
  /\ armedAt \in [Timers -> SUBSET Runs]
  /\ phase \in {"serving", "draining", "stopping", "returned", "exited"}
  /\ asking \subseteq Callers
  /\ late \in BOOLEAN
  /\ begun \subseteq Runs

WebInit ==
  /\ Init
  /\ clients = 0 /\ idle = None
  /\ timer = [t \in Timers |-> "unset"]
  /\ armedAt = [t \in Timers |-> {}]
  /\ phase = "serving" /\ asking = {} /\ late = FALSE /\ begun = {}

-----------------------------------------------------------------------------
\* Timer.Stop: without effect on a timer whose callback has started.
Disarmed ==
  [t \in Timers |-> IF t = idle /\ timer[t] = "armed" THEN "disarmed"
                    ELSE timer[t]]

\* Mutant of ClientArrived: the pending grace is not disarmed.
ClientArrivedArmed ==
  /\ phase = "serving" /\ clients < MaxClients
  /\ clients' = clients + 1
  /\ UNCHANGED <<vars, idle, timer, armedAt, phase, asking, late, begun>>

ClientArrived ==
  /\ phase = "serving"
  /\ clients < MaxClients
  /\ clients' = clients + 1
  /\ timer' = Disarmed
  /\ idle' = None
  /\ UNCHANGED <<vars, armedAt, phase, asking, late, begun>>

\* h.Started is behind these runs.
StartedRuns == {r \in Runs : session[r] \notin {"none", "created"}}

ClientLeft ==
  /\ phase # "exited"
  /\ clients > 0
  /\ clients' = clients - 1
  /\ IF clients > 1
     THEN UNCHANGED <<idle, timer, armedAt>>
     ELSE \E t \in Timers :
            /\ timer[t] = "unset"
            /\ timer' = [Disarmed EXCEPT ![t] = "armed"]
            /\ armedAt' = [armedAt EXCEPT ![t] = StartedRuns]
            /\ idle' = t
  /\ UNCHANGED <<vars, phase, asking, late, begun>>

\* The callback: it starts, reads the count, reads the manager's state, and
\* calls stopCapture.  State asks the server two questions after it has read
\* the manager, so anything may happen before the call.
GraceExpires(t) ==
  /\ timer[t] = "armed"
  /\ timer' = [timer EXCEPT ![t] = "fired"]
  /\ UNCHANGED <<vars, clients, idle, armedAt, phase, asking, late, begun>>

\* Mutant of GraceCountsClients: off by one.
GraceCountsNobody(t) ==
  /\ timer[t] = "fired"
  /\ timer' = [timer EXCEPT ![t] = IF clients >= 0 THEN "over" ELSE "look"]
  /\ UNCHANGED <<vars, clients, idle, armedAt, phase, asking, late, begun>>

GraceCountsClients(t) ==
  /\ timer[t] = "fired"
  /\ timer' = [timer EXCEPT ![t] = IF clients > 0 THEN "over" ELSE "look"]
  /\ UNCHANGED <<vars, clients, idle, armedAt, phase, asking, late, begun>>

GraceReadsState(t) ==
  /\ timer[t] = "look"
  /\ IF st.active /\ st.run \notin armedAt[t]
     THEN /\ timer' = [timer EXCEPT ![t] = "over"]
          /\ UNCHANGED vars
     ELSE /\ timer' = [timer EXCEPT ![t] = "stop"]
          /\ OutsiderStops(t)
  /\ UNCHANGED <<clients, idle, armedAt, phase, asking, late, begun>>

GraceStep(t) == GraceExpires(t) \/ GraceCountsClients(t) \/ GraceReadsState(t)

\* A POST of the key is taken off its connection.  A connection opened before
\* Ctrl-C may still bring one while the server drains.
Posted(c) ==
  /\ phase \in {"serving", "draining"}
  /\ pc[c] = "idle" /\ c \notin asking
  /\ asking' = asking \cup {c}
  /\ UNCHANGED <<vars, clients, idle, timer, armedAt, phase, late, begun>>

\* The server can capture, or a capture was active: Toggle is called, with a
\* context of its own, whatever became of the process meanwhile.
EntersToggle(c) ==
  /\ c \in asking
  /\ asking' = asking \ {c}
  /\ \E s \in Spids : Press(c, s)
  /\ UNCHANGED <<clients, idle, timer, armedAt, phase, late, begun>>

\* State saw no capture active, and the server cannot capture or did not say.
TurnedAway(c) ==
  /\ c \in asking
  /\ ~st.active
  /\ asking' = asking \ {c}
  /\ UNCHANGED <<vars, clients, idle, timer, armedAt, phase, late, begun>>

HandlerStep(c) == Posted(c) \/ EntersToggle(c) \/ TurnedAway(c)

\* Ctrl-C.
Interrupt ==
  /\ phase = "serving"
  /\ phase' = "draining"
  /\ UNCHANGED <<vars, clients, idle, timer, armedAt, asking, late, begun>>

\* gracefulShutdown has returned, with every handler gone or after its two
\* seconds with some still running: it closes their connections, not them.  The
\* grace is disarmed and Stop called.
ServeStops ==
  /\ phase = "draining"
  /\ phase' = "stopping"
  /\ timer' = Disarmed
  /\ idle' = None
  /\ late' = (asking \cup InToggle # {})
  /\ begun' = {r \in Runs : drain[r] # "none"}
  /\ OutsiderStops(Serve)
  /\ UNCHANGED <<clients, armedAt, asking>>

\* Mutant of ServeReturns: Stop is not waited for.
ServeReturnsEarly ==
  /\ phase = "stopping"
  /\ phase' = "returned"
  /\ UNCHANGED <<vars, clients, idle, timer, armedAt, asking, late, begun>>

ServeReturns ==
  /\ phase = "stopping"
  /\ pc[Serve] = "idle"
  /\ phase' = "returned"
  /\ UNCHANGED <<vars, clients, idle, timer, armedAt, asking, late, begun>>

\* The collector has stopped, the source is closed, the process exits: no
\* goroutine takes another step.
Exit ==
  /\ phase = "returned"
  /\ phase' = "exited"
  /\ UNCHANGED <<vars, clients, idle, timer, armedAt, asking, late, begun>>

ServeStep == ServeStops \/ ServeReturns \/ Exit

Running == phase # "exited"

WebNext ==
  \/ Running /\ (ManagerNext \/ ServerNext) /\ UNCHANGED webVars
  \/ Running /\ \E c \in Callers : HandlerStep(c)
  \/ ClientArrived \/ ClientLeft \/ Interrupt \/ ServeStep
  \/ Running /\ \E t \in Timers : GraceStep(t)

WebSpec == WebInit /\ [][WebNext]_allVars

\* For as long as the process lives every goroutine that can run is run, every
\* statement sent to the server is answered or fails, and a runtime timer
\* fires.  A Go mutex passes to a waiter that has starved, and a select with a
\* ready Done does not choose the tick forever: those two are strong.
WebFairness ==
  /\ \A p \in Stoppers : WF_allVars(Running /\ StopStep(p) /\ UNCHANGED webVars)
  /\ \A c \in Callers :
       /\ SF_allVars(Running /\ Lock(c) /\ UNCHANGED webVars)
       /\ WF_allVars(Running /\ ToggleStep(c) /\ UNCHANGED webVars)
  /\ \A r \in Runs :
       /\ WF_allVars(Running /\ Tick(r) /\ UNCHANGED webVars)
       /\ SF_allVars(Running /\ Finish(r) /\ UNCHANGED webVars)
  /\ \A t \in Timers : WF_allVars(Running /\ GraceStep(t))
  /\ WF_allVars(ServeStep)

FairWebSpec == WebSpec /\ WebFairness

-----------------------------------------------------------------------------
\* While a page is watching no grace is running: a reload that overlaps the
\* old connection, or a second tab, keeps the capture alive.  Of the timers
\* ever made at most the one the server remembers can still fire.
NoGraceWhileWatched ==
  \A t \in Timers : timer[t] = "armed" => clients = 0 /\ idle = t

\* A capture that was running, or ending, when Serve called Stop is dropped
\* before the process exits, unless another goroutine is at stopping it or a
\* statement sent for it failed.  What else outlives the process a handler has
\* started since, which had not left Toggle, or had yet to enter it, by then.
OnlyInFlightOutlives ==
  phase = "exited" => \A r \in Runs : Exists(r) /\ r \notin troubled =>
    \/ \E p \in Stoppers \ {Serve} : Stopping(p) /\ target[p] = r
    \/ late /\ r \notin begun

\* "An event session outliving the process is the residue this whole design is
\* arranged around not producing" (internal/web/server.go:565): once the
\* process has exited no event session of its own is left on the server,
\* unless the server refused a statement sent for it or a handler of the key
\* had not finished when Serve's grace ran out.
NothingOutlivesTheProcess ==
  phase = "exited" /\ ~late => \A r \in Runs : Exists(r) => r \in troubled

\* Toggle always returns to the handler that called it, whatever the server
\* answers and whoever else is stopping the capture: no two of the goroutines
\* wait for each other.  Only the end of the process takes it away.
ToggleReturns ==
  \A c \in Callers : pc[c] = "lock" ~> pc[c] = "idle" \/ phase = "exited"

\* A capture past its cap ends without anybody's help: its file gets an end
\* record and its event session leaves the server, unless a statement failed
\* or the process ended first.
CapEndsCapture ==
  \A r \in Runs : Alive(r) /\ age[r] > 0 ~>
    \/ file[r] \in StopReasons /\ (Exists(r) => r \in troubled)
    \/ phase = "exited"

\* A capture nobody watches stops: once the last stream has closed on a
\* capture, that capture ends or a stream opens, with nobody pressing a key.
UnwatchedCaptureEnds ==
  \A r \in Runs, t \in Timers :
    run = r /\ timer[t] = "armed" /\ r \in armedAt[t]
      ~> run # r \/ clients > 0 \/ phase # "serving"

\* A Ctrl-C ends the process, with a capture running or not, whatever the
\* server answers.
InterruptEndsProcess == phase = "draining" ~> phase = "exited"

=============================================================================
