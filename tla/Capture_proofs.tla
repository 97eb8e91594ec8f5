--------------------------- MODULE Capture_proofs ---------------------------
(***************************************************************************)
(* Theorems about Capture, for any number of handlers, of other callers of *)
(* Stop and of captures, and then about CaptureLifecycle: no grace runs    *)
(* while somebody watches, and the process leaves behind only what was in  *)
(* other hands when it looked.                                             *)
(*                                                                         *)
(* An action of Capture changes the manager's control in one of fourteen   *)
(* ways or not at all.  They are defined first, without the data they      *)
(* carry along, and each invariant is then shown to survive each of them.  *)
(* Every step of the process is one of Capture or leaves its state alone,  *)
(* so what is shown of Capture holds there; what is added is the count of  *)
(* streams, the timers, and the order in which Serve ends.                 *)
(***************************************************************************)
EXTENDS CaptureLifecycle, SequenceTheorems, TLAPS

ctl == <<toggling, run, drain, cancelled, reason, why, file, nruns, pc, target,
         seen>>

-----------------------------------------------------------------------------
(* The steps of the control.                                               *)

Building(c) == pc[c] \in {"sweep", "create", "start", "file", "undo",
                          "install"}

Asks(p) ==
  /\ pc[p] = "idle" /\ p \in Callers \cup Outsiders
  /\ pc' = [pc EXCEPT ![p] = IF p \in Callers THEN "lock" ELSE "take"]
  /\ UNCHANGED <<toggling, run, drain, cancelled, reason, why, file, nruns,
                 target, seen>>

Takes(p) ==
  /\ pc[p] = "take" /\ run # None /\ (p \in Runs => run = p)
  /\ pc' = [pc EXCEPT ![p] = "cancel"]
  /\ target' = [target EXCEPT ![p] = run]
  /\ reason' = [reason EXCEPT ![run] = ReasonOf(p)]
  /\ run' = None
  /\ UNCHANGED <<toggling, drain, cancelled, why, file, nruns, seen>>

Cancels(p) ==
  /\ pc[p] = "cancel"
  /\ pc' = [pc EXCEPT ![p] = "join"]
  /\ cancelled' = [cancelled EXCEPT ![target[p]] = TRUE]
  /\ UNCHANGED <<toggling, run, drain, reason, why, file, nruns, target, seen>>

Joins(p) ==
  /\ pc[p] = "join"
  /\ pc' = [pc EXCEPT ![p] = "drop"]
  /\ UNCHANGED <<toggling, run, drain, cancelled, reason, why, file, nruns,
                 target, seen>>

\* stop returns to a goroutine that is no handler.
Gives(p) ==
  /\ p \notin Callers /\ pc[p] \in {"take", "drop"}
  /\ pc' = [pc EXCEPT ![p] = "idle"]
  /\ target' = [target EXCEPT ![p] = None]
  /\ UNCHANGED <<toggling, run, drain, cancelled, reason, why, file, nruns,
                 seen>>

\* stop returns to a Toggle that goes on to start another capture.
Replaces(c) ==
  /\ c \in Callers
  /\ pc[c] = "drop" \/ (pc[c] = "take" /\ run = None)
  /\ pc' = [pc EXCEPT ![c] = "watch"]
  /\ target' = [target EXCEPT ![c] = None]
  /\ UNCHANGED <<toggling, run, drain, cancelled, reason, why, file, nruns,
                 seen>>

Leaves(c) ==
  /\ c \in Callers
  /\ pc[c] \in {"take", "drop", "watch", "sweep", "create", "undo"}
  /\ pc' = [pc EXCEPT ![c] = "idle"]
  /\ toggling' = None
  /\ target' = [target EXCEPT ![c] = None]
  /\ seen' = [seen EXCEPT ![c] = None]
  /\ UNCHANGED <<run, drain, cancelled, reason, why, file, nruns>>

Locks(c) ==
  /\ pc[c] = "lock" /\ toggling = None
  /\ pc' = [pc EXCEPT ![c] = IF run = None THEN "watch" ELSE "take"]
  /\ toggling' = c
  /\ seen' = [seen EXCEPT ![c] = run]
  /\ UNCHANGED <<run, drain, cancelled, reason, why, file, nruns, target>>

Reserves(c) ==
  /\ pc[c] = "watch" /\ nruns < MaxRuns
  /\ pc' = [pc EXCEPT ![c] = "sweep"]
  /\ nruns' = nruns + 1
  /\ target' = [target EXCEPT ![c] = nruns + 1]
  /\ UNCHANGED <<toggling, run, drain, cancelled, reason, why, file, seen>>

Builds(c, next) ==
  /\ pc[c] \in {"sweep", "create", "start", "file"}
  /\ pc' = [pc EXCEPT ![c] = next]
  /\ file' \in {file, [file EXCEPT ![target[c]] = "open"]}
  /\ UNCHANGED <<toggling, run, drain, cancelled, reason, why, nruns, target,
                 seen>>

Installs(c) ==
  /\ pc[c] = "install"
  /\ pc' = [pc EXCEPT ![c] = "idle"]
  /\ run' = target[c]
  /\ drain' = [drain EXCEPT ![target[c]] = "select"]
  /\ toggling' = None
  /\ target' = [target EXCEPT ![c] = None]
  /\ seen' = [seen EXCEPT ![c] = None]
  /\ UNCHANGED <<cancelled, reason, why, file, nruns>>

Decides(r, w) ==
  /\ drain[r] \in {"select", "poll"}
  /\ drain' = [drain EXCEPT ![r] = "ended"]
  /\ why' = [why EXCEPT ![r] = w]
  /\ pc' = [pc EXCEPT ![r] = "take"]
  /\ UNCHANGED <<toggling, run, cancelled, reason, file, nruns, target, seen>>

Drains(r, next) ==
  /\ drain[r] \in {"select", "poll", "publish"}
  /\ drain' = [drain EXCEPT ![r] = next]
  /\ UNCHANGED <<toggling, run, cancelled, reason, why, file, nruns, pc,
                 target, seen>>

Finishes(r) ==
  /\ drain[r] \in {"select", "ended"} /\ cancelled[r]
  /\ drain' = [drain EXCEPT ![r] = "done"]
  /\ file' = [file EXCEPT ![r] = reason[r]]
  /\ UNCHANGED <<toggling, run, cancelled, reason, why, nruns, pc, target,
                 seen>>

BuildSteps == {"create", "start", "file", "undo", "install"}
DrainSteps == {"select", "poll", "publish"}

Step ==
  \/ \E p \in Stoppers : Asks(p) \/ Takes(p) \/ Cancels(p) \/ Joins(p)
                         \/ Gives(p)
  \/ \E c \in Callers : Replaces(c) \/ Leaves(c) \/ Locks(c) \/ Reserves(c)
                        \/ Installs(c)
  \/ \E c \in Callers, next \in BuildSteps : Builds(c, next)
  \/ \E r \in Runs, w \in DrainReasons : Decides(r, w)
  \/ \E r \in Runs, next \in DrainSteps : Drains(r, next)
  \/ \E r \in Runs : Finishes(r)
  \/ UNCHANGED ctl

\* Every action of Capture is one of these steps.
LEMMA Steps == ASSUME Next PROVE Step
<1> USE CaptureAssumption DEF Stoppers
<1>1. ASSUME NEW p \in Stoppers, StopNothing(p) PROVE Step
  BY <1>1 DEF StopNothing, Only, Stopped, Unlock, Goto, runVars, Step,
              Gives, Leaves, Replaces
<1>2. ASSUME NEW p \in Stoppers, StopTake(p) PROVE Step
  BY <1>2 DEF StopTake, Only, Goto, Step, Takes
<1>3. ASSUME NEW p \in Stoppers, StopCancel(p) PROVE Step
  BY <1>3 DEF StopCancel, Goto, managerVars, Step, Cancels
<1>4. ASSUME NEW p \in Stoppers, StopJoin(p) PROVE Step
  BY <1>4 DEF StopJoin, Goto, managerVars, runVars, Step, Joins
<1>5. ASSUME NEW p \in Stoppers, StopDrop(p) PROVE Step
  <2>1. PICK ok \in BOOLEAN : Stopped(p, ok)
    BY <1>5 DEF StopDrop
  <2>2. /\ pc[p] = "drop"
        /\ UNCHANGED <<run, drain, cancelled, reason, why, file, nruns>>
    BY <1>5 DEF StopDrop, runVars
  <2>3. CASE p \in Callers /\ ~(ok /\ AfterStop(p) = "watch")
    BY <2>1, <2>2, <2>3 DEF Stopped, Unlock, Goto, Step, Leaves
  <2>4. CASE p \in Callers /\ ok /\ AfterStop(p) = "watch"
    <3>1. Replaces(p)
      BY <2>1, <2>2, <2>4 DEF Stopped, Goto, Replaces
    <3>2. QED
      BY <2>4, <3>1 DEF Step
  <2>5. CASE p \notin Callers
    BY <2>1, <2>2, <2>5 DEF Stopped, Goto, Step, Gives
  <2>6. QED
    BY <2>3, <2>4, <2>5
<1>6. ASSUME NEW c \in Callers, Lock(c) PROVE Step
  BY <1>6 DEF Lock, Goto, runVars, Step, Locks
<1>7. ASSUME NEW c \in Callers, StartWatch(c) PROVE Step
  BY <1>7 DEF StartWatch, Unlock, Goto, Step, Leaves, Reserves
<1>8. ASSUME NEW c \in Callers, StartSweep(c) PROVE Step
  BY <1>8 DEF StartSweep, Unlock, Goto, runVars, Step, Leaves, Builds,
              BuildSteps
<1>9. ASSUME NEW c \in Callers, StartCreate(c) PROVE Step
  BY <1>9 DEF StartCreate, Unlock, Goto, runVars, Step, Leaves, Builds,
              BuildSteps
<1>10. ASSUME NEW c \in Callers, StartStart(c) PROVE Step
  BY <1>10 DEF StartStart, Goto, managerVars, runVars, Step, Builds, BuildSteps
<1>11. ASSUME NEW c \in Callers, StartFile(c) PROVE Step
  BY <1>11 DEF StartFile, Goto, managerVars, Step, Builds, BuildSteps
<1>12. ASSUME NEW c \in Callers, StartUndo(c) PROVE Step
  BY <1>12 DEF StartUndo, Unlock, Goto, runVars, Step, Leaves
<1>13. ASSUME NEW c \in Callers, StartInstall(c) PROVE Step
  BY <1>13 DEF StartInstall, Unlock, Goto, Step, Installs
<1>14. ASSUME NEW r \in Runs, TickCheck(r) PROVE Step
  BY <1>14 DEF TickCheck, Over, Goto, managerVars, DrainReasons, Step, Decides,
               Drains, DrainSteps
<1>15. ASSUME NEW r \in Runs, PollFails(r) PROVE Step
  BY <1>15 DEF PollFails, Over, Goto, managerVars, DrainReasons, Step, Decides,
               Drains, DrainSteps
<1>16. ASSUME NEW r \in Runs, Poll(r) PROVE Step
  BY <1>16 DEF Poll, managerVars, callVars, Step, Drains, DrainSteps
<1>17. ASSUME NEW r \in Runs, Publish(r) PROVE Step
  BY <1>17 DEF Publish, callVars, Step, Drains, DrainSteps
<1>18. ASSUME NEW r \in Runs, Finish(r) PROVE Step
  BY <1>18 DEF Finish, managerVars, callVars, Step, Finishes
<1>19. CASE ServerNext
  BY <1>19 DEF ServerNext, SessionEnds, SessionBegins, Ages, managerVars,
               runVars, callVars, Step, ctl
<1>20. ASSUME NEW c \in Callers, NEW s \in Spids, Press(c, s) PROVE Step
  BY <1>20 DEF Press, Goto, managerVars, runVars, Step, Asks
<1>21. ASSUME NEW p \in Outsiders, OutsiderStops(p) PROVE Step
  BY <1>21 DEF OutsiderStops, Goto, managerVars, runVars, Step, Asks
<1>22. QED
  BY <1>1, <1>2, <1>3, <1>4, <1>5, <1>6, <1>7, <1>8, <1>9, <1>10, <1>11, <1>12,
     <1>13, <1>14, <1>15, <1>16, <1>17, <1>18, <1>19, <1>20, <1>21
     DEF Next, ManagerNext, StopStep, ToggleStep, Tick

-----------------------------------------------------------------------------
(* The invariant.                                                          *)

CtlOK ==
  /\ toggling \in Callers \cup {None}
  /\ run \in Runs \cup {None}
  /\ drain \in [Runs -> DrainStates]
  /\ cancelled \in [Runs -> BOOLEAN]
  /\ reason \in [Runs -> StopReasons \cup {None}]
  /\ why \in [Runs -> DrainReasons \cup {None}]
  /\ file \in [Runs -> {"none", "open"} \cup StopReasons]
  /\ nruns \in 0 .. MaxRuns
  /\ pc \in [Stoppers -> StopStates \cup CallerOnly]
  /\ target \in [Stoppers -> Runs \cup {None}]
  /\ seen \in [Callers -> Runs \cup {None}]

\* toggling is held by the one handler between its Lock and its return, and
\* nobody but a handler starts captures.
MutexInv ==
  /\ \A c \in Callers : toggling = c <=> pc[c] \notin {"idle", "lock"}
  /\ \A p \in Stoppers \ Callers : pc[p] \in StopStates

\* What is being stopped was started, is no longer the manager's, and has its
\* reason.
StopInv ==
  \A p \in Stoppers : Stopping(p) =>
    /\ target[p] \in Runs /\ target[p] # run
    /\ drain[target[p]] # "none" /\ reason[target[p]] # None

\* It is nobody else's to stop.
OnceInv ==
  \A p, q \in Stoppers :
    Stopping(p) /\ Stopping(q) /\ target[p] = target[q] => p = q

\* A handler past WatchedSession builds a capture that is not yet drained, and
\* the manager holds none; one that stops stops what it saw.
StartInv ==
  /\ \A c \in Callers :
       /\ Building(c) => target[c] \in 1 .. nruns /\ drain[target[c]] = "none"
       /\ Building(c) \/ pc[c] = "watch" => run = None
       /\ pc[c] = "take" => run \in {None, seen[c]}
       /\ Stopping(c) => run = None /\ target[c] = seen[c]
  /\ \A r \in Runs : r > nruns => drain[r] = "none"

\* The run held is being drained and not cancelled; a cancelled one has been
\* started and given its reason, and a finished one has been cancelled.
RunInv ==
  /\ run # None => Alive(run) /\ ~cancelled[run]
  /\ \A r \in Runs :
       /\ cancelled[r] => reason[r] # None /\ drain[r] # "none"
       /\ drain[r] = "done" => cancelled[r]

\* A drain decides once, before its own goroutine stops anything, and its
\* reason reaches the capture through that goroutine only.
WhyInv ==
  \A r \in Runs :
    /\ drain[r] \notin {"ended", "done"} => why[r] = None /\ pc[r] = "idle"
    /\ pc[r] = "take" => why[r] # None
    /\ reason[r] \in DrainReasons => reason[r] = why[r]
    /\ drain[r] # "done" => file[r] \notin StopReasons

CtlInv ==
  /\ CtlOK /\ MutexInv /\ StopInv /\ OnceInv /\ StartInv /\ RunInv
  /\ WhyInv /\ DrainIsHeld /\ EndReasonIsOwn

-----------------------------------------------------------------------------
\* Handlers, other callers of Stop and runs are different stoppers, and None is
\* none of them.
LEMMA Apart ==
  /\ None \notin Stoppers /\ None \notin Runs
  /\ \A p : p \in Stoppers <=> p \in Callers \/ p \in Outsiders \/ p \in Runs
  /\ \A c \in Callers : c \notin Outsiders /\ c \notin Runs
  /\ \A o \in Outsiders : o \notin Runs
BY CaptureAssumption DEF Stoppers

\* Runs are numbers, and the next capture is one of them.
LEMMA RunsFacts ==
  ASSUME CtlOK
  PROVE  /\ nruns \in Nat
         /\ \A r \in Runs : r \in Nat
         /\ \A i \in 1 .. nruns : i \in Runs
         /\ nruns < MaxRuns => nruns + 1 \in Runs /\ nruns + 1 \in 0 .. MaxRuns
<1>1. nruns \in 0 .. MaxRuns
  BY DEF CtlOK
<1>2. MaxRuns \in Nat
  BY CaptureAssumption
<1>3. QED
  BY <1>1, <1>2 DEF Runs

\* What the reasons are, and which of them a stopper that is about to take a
\* run may give.
LEMMA ReasonFacts ==
  /\ None \notin StopReasons /\ DrainReasons \subseteq StopReasons
  /\ None \notin DrainReasons
  /\ "none" \notin StopReasons /\ "open" \notin StopReasons
BY CaptureAssumption DEF StopReasons, DrainReasons

\* A stopper about to take a run has a reason to give it, and a drain's reason
\* only if it is that drain's own goroutine.
LEMMA ReasonTaken ==
  ASSUME CtlOK, WhyInv, NEW p \in Stoppers, pc[p] = "take"
  PROVE  /\ ReasonOf(p) \in StopReasons
         /\ ReasonOf(p) \in DrainReasons => p \in Runs /\ ReasonOf(p) = why[p]
<1> USE CaptureAssumption DEF Stoppers, ReasonOf
<1>1. CASE p \in Callers
  BY <1>1 DEF StopReasons, DrainReasons
<1>2. CASE p \in Outsiders
  <2>1. OutsideReason[p] \in {"shutdown", "browser gone"}
    BY <1>2
  <2>2. ReasonOf(p) = OutsideReason[p]
    BY <1>2
  <2>3. QED
    BY <2>1, <2>2 DEF StopReasons, DrainReasons
<1>3. CASE p \in Runs
  <2>1. ReasonOf(p) = why[p]
    BY <1>3
  <2>2. why[p] \in DrainReasons
    BY <1>3 DEF CtlOK, WhyInv
  <2>3. QED
    BY <1>3, <2>1, <2>2, ReasonFacts
<1>4. QED
  BY <1>1, <1>2, <1>3

\* Each step keeps the types of the control.
LEMMA CtlOKKept ==
  ASSUME CtlOK, StopInv, RunInv, WhyInv, Step
  PROVE  CtlOK'
<1> USE Apart
<1>1. ASSUME NEW p \in Stoppers, Asks(p) PROVE CtlOK'
  BY <1>1 DEF Asks, CtlOK, CallerOnly, StopStates
<1>2. ASSUME NEW p \in Stoppers, Takes(p) PROVE CtlOK'
  BY <1>2, ReasonTaken DEF Takes, CtlOK, CallerOnly, StopStates
<1>3. ASSUME NEW p \in Stoppers, Cancels(p) PROVE CtlOK'
  BY <1>3 DEF Cancels, CtlOK, CallerOnly, StopStates, StopInv, Stopping
<1>4. ASSUME NEW p \in Stoppers, Joins(p) PROVE CtlOK'
  BY <1>4 DEF Joins, CtlOK, CallerOnly, StopStates
<1>5. ASSUME NEW p \in Stoppers, Gives(p) PROVE CtlOK'
  BY <1>5 DEF Gives, CtlOK, CallerOnly, StopStates
<1>6. ASSUME NEW c \in Callers, Replaces(c) PROVE CtlOK'
  BY <1>6 DEF Replaces, CtlOK, CallerOnly, StopStates
<1>7. ASSUME NEW c \in Callers, Leaves(c) PROVE CtlOK'
  BY <1>7 DEF Leaves, CtlOK, CallerOnly, StopStates
<1>8. ASSUME NEW c \in Callers, Locks(c) PROVE CtlOK'
  BY <1>8 DEF Locks, CtlOK, CallerOnly, StopStates
<1>9. ASSUME NEW c \in Callers, Reserves(c) PROVE CtlOK'
  <2>1. nruns + 1 \in Runs /\ nruns' \in 0 .. MaxRuns
    BY <1>9, RunsFacts DEF Reserves
  <2>2. QED
    BY <1>9, <2>1 DEF Reserves, CtlOK, CallerOnly, StopStates
<1>10. ASSUME NEW c \in Callers, Installs(c) PROVE CtlOK'
  BY <1>10 DEF Installs, CtlOK, CallerOnly, StopStates, DrainStates
<1>11. ASSUME NEW c \in Callers, NEW next \in BuildSteps, Builds(c, next)
       PROVE  CtlOK'
  BY <1>11 DEF Builds, BuildSteps, CtlOK, CallerOnly, StopStates
<1>12. ASSUME NEW r \in Runs, NEW w \in DrainReasons, Decides(r, w)
       PROVE  CtlOK'
  BY <1>12 DEF Decides, CtlOK, CallerOnly, StopStates, DrainStates
<1>13. ASSUME NEW r \in Runs, NEW next \in DrainSteps, Drains(r, next)
       PROVE  CtlOK'
  BY <1>13 DEF Drains, DrainSteps, CtlOK, DrainStates
<1>14. ASSUME NEW r \in Runs, Finishes(r) PROVE CtlOK'
  BY <1>14 DEF Finishes, CtlOK, DrainStates, RunInv
<1>15. CASE UNCHANGED ctl
  BY <1>15 DEF ctl, CtlOK
<1>16. QED
  BY <1>1, <1>2, <1>3, <1>4, <1>5, <1>6, <1>7, <1>8, <1>9, <1>10, <1>11,
     <1>12, <1>13, <1>14, <1>15
     DEF Step

\* toggling is taken by Locks alone, when it is free, and given back where a
\* handler returns.
LEMMA MutexInvKept ==
  ASSUME CtlOK, MutexInv, Step
  PROVE  MutexInv'
<1> USE Apart
<1>1. ASSUME NEW p \in Stoppers, Asks(p) PROVE MutexInv'
  BY <1>1 DEF Asks, CtlOK, MutexInv, StopStates, Runs
<1>2. ASSUME NEW p \in Stoppers, Takes(p) PROVE MutexInv'
  BY <1>2 DEF Takes, CtlOK, MutexInv, StopStates, Runs
<1>3. ASSUME NEW p \in Stoppers, Cancels(p) PROVE MutexInv'
  BY <1>3 DEF Cancels, CtlOK, MutexInv, StopStates, Runs
<1>4. ASSUME NEW p \in Stoppers, Joins(p) PROVE MutexInv'
  BY <1>4 DEF Joins, CtlOK, MutexInv, StopStates, Runs
<1>5. ASSUME NEW p \in Stoppers, Gives(p) PROVE MutexInv'
  BY <1>5 DEF Gives, CtlOK, MutexInv, StopStates, Runs
<1>6. ASSUME NEW c \in Callers, Replaces(c) PROVE MutexInv'
  BY <1>6 DEF Replaces, CtlOK, MutexInv, StopStates, Runs
<1>7. ASSUME NEW c \in Callers, Leaves(c) PROVE MutexInv'
  BY <1>7 DEF Leaves, CtlOK, MutexInv, StopStates, Runs
<1>8. ASSUME NEW c \in Callers, Locks(c) PROVE MutexInv'
  BY <1>8 DEF Locks, CtlOK, MutexInv, StopStates, Runs
<1>9. ASSUME NEW c \in Callers, Reserves(c) PROVE MutexInv'
  BY <1>9 DEF Reserves, CtlOK, MutexInv, StopStates, Runs
<1>10. ASSUME NEW c \in Callers, Installs(c) PROVE MutexInv'
  BY <1>10 DEF Installs, CtlOK, MutexInv, StopStates, Runs
<1>11. ASSUME NEW c \in Callers, NEW next \in BuildSteps, Builds(c, next)
       PROVE  MutexInv'
  BY <1>11 DEF Builds, BuildSteps, CtlOK, MutexInv, StopStates, Runs
<1>12. ASSUME NEW r \in Runs, NEW w \in DrainReasons, Decides(r, w)
       PROVE  MutexInv'
  BY <1>12 DEF Decides, CtlOK, MutexInv, StopStates, Runs
<1>13. ASSUME NEW r \in Runs, NEW next \in DrainSteps, Drains(r, next)
       PROVE  MutexInv'
  BY <1>13 DEF Drains, DrainSteps, CtlOK, MutexInv, StopStates, Runs
<1>14. ASSUME NEW r \in Runs, Finishes(r) PROVE MutexInv'
  BY <1>14 DEF Finishes, CtlOK, MutexInv, StopStates, Runs
<1>15. CASE UNCHANGED ctl
  BY <1>15 DEF ctl, CtlOK, MutexInv, StopStates, Runs
<1>16. QED
  BY <1>1, <1>2, <1>3, <1>4, <1>5, <1>6, <1>7, <1>8, <1>9, <1>10, <1>11,
     <1>12, <1>13, <1>14, <1>15
     DEF Step

\* A run is taken from the manager with its reason, and one is taken only while
\* it is drained.
LEMMA StopInvKept ==
  ASSUME CtlOK, MutexInv, StopInv, StartInv, RunInv, WhyInv, Step
  PROVE  StopInv'
<1> USE Apart
<1>1. ASSUME NEW p \in Stoppers, Asks(p) PROVE StopInv'
  BY <1>1 DEF Asks, CtlOK, StopInv, Stopping
<1>2. ASSUME NEW p \in Stoppers, Takes(p) PROVE StopInv'
  <2>1. /\ run \in Runs /\ drain[run] # "none"
        /\ ReasonOf(p) # None
    BY <1>2, ReasonFacts, ReasonTaken DEF Takes, CtlOK, RunInv, Alive
  <2>2. ASSUME NEW q \in Stoppers, Stopping(q)' PROVE q = p \/ Stopping(q)
    BY <1>2, <2>2 DEF Takes, Stopping, CtlOK
  <2>3. /\ target'[p] = run
        /\ \A q \in Stoppers : q # p => target'[q] = target[q]
    BY <1>2 DEF Takes, CtlOK
  <2>4. /\ reason'[run] # None
        /\ \A r \in Runs : r # run => reason'[r] = reason[r]
    BY <1>2, <2>1 DEF Takes, CtlOK
  <2>5. run' = None /\ drain' = drain
    BY <1>2 DEF Takes
  <2>6. ASSUME NEW q \in Stoppers, Stopping(q)'
        PROVE  /\ target'[q] \in Runs /\ target'[q] # None
               /\ drain[target'[q]] # "none" /\ reason'[target'[q]] # None
    <3>1. CASE q = p
      BY <2>1, <2>3, <2>4, <3>1
    <3>2. CASE q # p
      BY <2>2, <2>3, <2>4, <2>6, <3>2 DEF StopInv
    <3>3. QED
      BY <3>1, <3>2
  <2>7. QED
    BY <2>5, <2>6 DEF StopInv
<1>3. ASSUME NEW p \in Stoppers, Cancels(p) PROVE StopInv'
  BY <1>3 DEF Cancels, CtlOK, StopInv, Stopping
<1>4. ASSUME NEW p \in Stoppers, Joins(p) PROVE StopInv'
  BY <1>4 DEF Joins, CtlOK, StopInv, Stopping
<1>5. ASSUME NEW p \in Stoppers, Gives(p) PROVE StopInv'
  BY <1>5 DEF Gives, CtlOK, StopInv, Stopping
<1>6. ASSUME NEW c \in Callers, Replaces(c) PROVE StopInv'
  BY <1>6 DEF Replaces, CtlOK, StopInv, Stopping
<1>7. ASSUME NEW c \in Callers, Leaves(c) PROVE StopInv'
  BY <1>7 DEF Leaves, CtlOK, StopInv, Stopping
<1>8. ASSUME NEW c \in Callers, Locks(c) PROVE StopInv'
  BY <1>8 DEF Locks, CtlOK, StopInv, Stopping
<1>9. ASSUME NEW c \in Callers, Reserves(c) PROVE StopInv'
  BY <1>9 DEF Reserves, CtlOK, StopInv, Stopping
<1>10. ASSUME NEW c \in Callers, Installs(c) PROVE StopInv'
  <2>1. /\ target[c] \in Runs /\ drain[target[c]] = "none"
    BY <1>10, RunsFacts DEF Installs, StartInv, Building
  <2>2. ASSUME NEW q \in Stoppers, Stopping(q)'
        PROVE  Stopping(q) /\ target'[q] = target[q]
    BY <1>10, <2>2 DEF Installs, Stopping, CtlOK
  <2>3. \A r \in Runs : drain'[r] = IF r = target[c] THEN "select" ELSE drain[r]
    BY <1>10, <2>1 DEF Installs, CtlOK
  <2>4. QED
    BY <1>10, <2>1, <2>2, <2>3 DEF Installs, StopInv
<1>11. ASSUME NEW c \in Callers, NEW next \in BuildSteps, Builds(c, next)
       PROVE  StopInv'
  BY <1>11 DEF Builds, BuildSteps, CtlOK, StopInv, Stopping
<1>12. ASSUME NEW r \in Runs, NEW w \in DrainReasons, Decides(r, w)
       PROVE  StopInv'
  BY <1>12 DEF Decides, CtlOK, StopInv, Stopping
<1>13. ASSUME NEW r \in Runs, NEW next \in DrainSteps, Drains(r, next)
       PROVE  StopInv'
  BY <1>13 DEF Drains, DrainSteps, CtlOK, StopInv, Stopping
<1>14. ASSUME NEW r \in Runs, Finishes(r) PROVE StopInv'
  BY <1>14 DEF Finishes, CtlOK, StopInv, Stopping
<1>15. CASE UNCHANGED ctl
  BY <1>15 DEF ctl, CtlOK, StopInv, Stopping
<1>16. QED
  BY <1>1, <1>2, <1>3, <1>4, <1>5, <1>6, <1>7, <1>8, <1>9, <1>10, <1>11,
     <1>12, <1>13, <1>14, <1>15
     DEF Step

\* Two stoppers cannot hold one run: the first to take it leaves None behind.
LEMMA OnceInvKept ==
  ASSUME CtlOK, StopInv, OnceInv, Step
  PROVE  OnceInv'
<1> USE Apart
<1>1. ASSUME NEW p \in Stoppers, Asks(p) PROVE OnceInv'
  BY <1>1 DEF Asks, CtlOK, OnceInv, Stopping
<1>2. ASSUME NEW p \in Stoppers, Takes(p) PROVE OnceInv'
  BY <1>2 DEF Takes, CtlOK, OnceInv, Stopping, StopInv
<1>3. ASSUME NEW p \in Stoppers, Cancels(p) PROVE OnceInv'
  BY <1>3 DEF Cancels, CtlOK, OnceInv, Stopping
<1>4. ASSUME NEW p \in Stoppers, Joins(p) PROVE OnceInv'
  BY <1>4 DEF Joins, CtlOK, OnceInv, Stopping
<1>5. ASSUME NEW p \in Stoppers, Gives(p) PROVE OnceInv'
  BY <1>5 DEF Gives, CtlOK, OnceInv, Stopping
<1>6. ASSUME NEW c \in Callers, Replaces(c) PROVE OnceInv'
  BY <1>6 DEF Replaces, CtlOK, OnceInv, Stopping
<1>7. ASSUME NEW c \in Callers, Leaves(c) PROVE OnceInv'
  BY <1>7 DEF Leaves, CtlOK, OnceInv, Stopping
<1>8. ASSUME NEW c \in Callers, Locks(c) PROVE OnceInv'
  BY <1>8 DEF Locks, CtlOK, OnceInv, Stopping
<1>9. ASSUME NEW c \in Callers, Reserves(c) PROVE OnceInv'
  BY <1>9 DEF Reserves, CtlOK, OnceInv, Stopping
<1>10. ASSUME NEW c \in Callers, Installs(c) PROVE OnceInv'
  BY <1>10 DEF Installs, CtlOK, OnceInv, Stopping
<1>11. ASSUME NEW c \in Callers, NEW next \in BuildSteps, Builds(c, next)
       PROVE  OnceInv'
  BY <1>11 DEF Builds, BuildSteps, CtlOK, OnceInv, Stopping
<1>12. ASSUME NEW r \in Runs, NEW w \in DrainReasons, Decides(r, w)
       PROVE  OnceInv'
  BY <1>12 DEF Decides, CtlOK, OnceInv, Stopping
<1>13. ASSUME NEW r \in Runs, NEW next \in DrainSteps, Drains(r, next)
       PROVE  OnceInv'
  BY <1>13 DEF Drains, DrainSteps, CtlOK, OnceInv, Stopping
<1>14. ASSUME NEW r \in Runs, Finishes(r) PROVE OnceInv'
  BY <1>14 DEF Finishes, CtlOK, OnceInv, Stopping
<1>15. CASE UNCHANGED ctl
  BY <1>15 DEF ctl, CtlOK, OnceInv, Stopping
<1>16. QED
  BY <1>1, <1>2, <1>3, <1>4, <1>5, <1>6, <1>7, <1>8, <1>9, <1>10, <1>11,
     <1>12, <1>13, <1>14, <1>15
     DEF Step

\* While a handler holds toggling nothing but that handler gives the manager a
\* run, so what it read of run can only go stale by becoming None.
LEMMA StartInvKept ==
  ASSUME CtlOK, MutexInv, StopInv, StartInv, RunInv, Step
  PROVE  StartInv'
<1> USE Apart
<1>1. ASSUME NEW p \in Stoppers, Asks(p) PROVE StartInv'
  BY <1>1 DEF Asks, CtlOK, StartInv, Building, Stopping
<1>2. ASSUME NEW p \in Stoppers, Takes(p) PROVE StartInv'
  BY <1>2 DEF Takes, CtlOK, StartInv, Building, Stopping, MutexInv, Runs
<1>3. ASSUME NEW p \in Stoppers, Cancels(p) PROVE StartInv'
  BY <1>3 DEF Cancels, CtlOK, StartInv, Building, Stopping
<1>4. ASSUME NEW p \in Stoppers, Joins(p) PROVE StartInv'
  BY <1>4 DEF Joins, CtlOK, StartInv, Building, Stopping
<1>5. ASSUME NEW p \in Stoppers, Gives(p) PROVE StartInv'
  BY <1>5 DEF Gives, CtlOK, StartInv, Building, Stopping
<1>6. ASSUME NEW c \in Callers, Replaces(c) PROVE StartInv'
  BY <1>6 DEF Replaces, CtlOK, StartInv, Building, Stopping, MutexInv, Runs
<1>7. ASSUME NEW c \in Callers, Leaves(c) PROVE StartInv'
  BY <1>7 DEF Leaves, CtlOK, StartInv, Building, Stopping
<1>8. ASSUME NEW c \in Callers, Locks(c) PROVE StartInv'
  BY <1>8 DEF Locks, CtlOK, StartInv, Building, Stopping, MutexInv, Runs
<1>9. ASSUME NEW c \in Callers, Reserves(c) PROVE StartInv'
  <2>1. nruns + 1 \in Runs /\ drain[nruns + 1] = "none" /\ run = None
    BY <1>9, RunsFacts DEF Reserves, StartInv
  <2>2. /\ pc'[c] = "sweep" /\ target'[c] = nruns'
        /\ \A d \in Callers : d # c => pc'[d] = pc[d] /\ target'[d] = target[d]
    BY <1>9 DEF Reserves, CtlOK
  <2>3. nruns \in Nat /\ nruns' = nruns + 1 /\ UNCHANGED <<run, drain, seen>>
    BY <1>9, RunsFacts DEF Reserves
  <2>4. \A r \in Runs : r > nruns' => drain'[r] = "none"
    BY <2>3, RunsFacts DEF StartInv
  <2>5. ASSUME NEW d \in Callers
        PROVE  /\ Building(d)' => target'[d] \in 1 .. nruns'
                                  /\ drain[target'[d]] = "none"
               /\ Building(d)' \/ pc'[d] = "watch" => run = None
               /\ pc'[d] = "take" => run \in {None, seen[d]}
               /\ Stopping(d)' => run = None /\ target'[d] = seen[d]
    <3>1. CASE d = c
      BY <2>1, <2>2, <2>3, <3>1 DEF Stopping
    <3>2. CASE d # c
      BY <2>2, <2>3, <3>2 DEF StartInv, Building, Stopping
    <3>3. QED
      BY <3>1, <3>2
  <2>6. QED
    BY <2>3, <2>4, <2>5 DEF StartInv
<1>10. ASSUME NEW c \in Callers, Installs(c) PROVE StartInv'
  <2>1. target[c] \in 1 .. nruns /\ target[c] \in Runs /\ nruns \in Nat
    BY <1>10, RunsFacts DEF Installs, StartInv, Building
  <2>2. \A d \in Callers : pc'[d] \in {"idle", "lock"}
    BY <1>10 DEF Installs, MutexInv, CtlOK
  <2>3. \A r \in Runs : r > nruns' => drain'[r] = "none"
    BY <1>10, <2>1, RunsFacts DEF Installs, StartInv, CtlOK
  <2>4. QED
    BY <2>2, <2>3 DEF StartInv, Building, Stopping
<1>11. ASSUME NEW c \in Callers, NEW next \in BuildSteps, Builds(c, next)
       PROVE  StartInv'
  BY <1>11 DEF Builds, BuildSteps, CtlOK, StartInv, Building, Stopping
<1>12. ASSUME NEW r \in Runs, NEW w \in DrainReasons, Decides(r, w)
       PROVE  StartInv'
  <2>1. \A q \in Runs : drain'[q] = "none" <=> drain[q] = "none"
    BY <1>12 DEF Decides, CtlOK
  <2>2. \A c \in Callers : pc'[c] = pc[c]
    BY <1>12 DEF Decides, CtlOK
  <2>3. \A i \in 1 .. nruns : i \in Runs
    BY RunsFacts
  <2>4. UNCHANGED <<run, nruns, target, seen>>
    BY <1>12 DEF Decides
  <2>5. QED
    BY <2>1, <2>2, <2>3, <2>4 DEF StartInv, Building, Stopping
<1>13. ASSUME NEW r \in Runs, NEW next \in DrainSteps, Drains(r, next)
       PROVE  StartInv'
  <2>1. \A q \in Runs : drain'[q] = "none" <=> drain[q] = "none"
    BY <1>13 DEF Drains, DrainSteps, CtlOK
  <2>2. \A c \in Callers : pc'[c] = pc[c]
    BY <1>13 DEF Drains, CtlOK
  <2>3. \A i \in 1 .. nruns : i \in Runs
    BY RunsFacts
  <2>4. UNCHANGED <<run, nruns, target, seen>>
    BY <1>13 DEF Drains
  <2>5. QED
    BY <2>1, <2>2, <2>3, <2>4 DEF StartInv, Building, Stopping
<1>14. ASSUME NEW r \in Runs, Finishes(r) PROVE StartInv'
  <2>1. \A q \in Runs : drain'[q] = "none" <=> drain[q] = "none"
    BY <1>14 DEF Finishes, CtlOK
  <2>2. \A c \in Callers : pc'[c] = pc[c]
    BY <1>14 DEF Finishes, CtlOK
  <2>3. \A i \in 1 .. nruns : i \in Runs
    BY RunsFacts
  <2>4. UNCHANGED <<run, nruns, target, seen>>
    BY <1>14 DEF Finishes
  <2>5. QED
    BY <2>1, <2>2, <2>3, <2>4 DEF StartInv, Building, Stopping
<1>15. CASE UNCHANGED ctl
  BY <1>15 DEF ctl, CtlOK, StartInv, Building, Stopping
<1>16. QED
  BY <1>1, <1>2, <1>3, <1>4, <1>5, <1>6, <1>7, <1>8, <1>9, <1>10, <1>11,
     <1>12, <1>13, <1>14, <1>15
     DEF Step

\* Only a run that has been taken is cancelled, and only a cancelled one is
\* done.
LEMMA RunInvKept ==
  ASSUME CtlOK, StopInv, StartInv, RunInv, WhyInv, Step
  PROVE  RunInv'
<1> USE Apart
<1>1. ASSUME NEW p \in Stoppers, Asks(p) PROVE RunInv'
  BY <1>1 DEF Asks, CtlOK, RunInv, Alive
<1>2. ASSUME NEW p \in Stoppers, Takes(p) PROVE RunInv'
  BY <1>2, ReasonFacts, ReasonTaken DEF Takes, CtlOK, RunInv, Alive
<1>3. ASSUME NEW p \in Stoppers, Cancels(p) PROVE RunInv'
  BY <1>3 DEF Cancels, CtlOK, RunInv, Alive, StopInv, Stopping
<1>4. ASSUME NEW p \in Stoppers, Joins(p) PROVE RunInv'
  BY <1>4 DEF Joins, CtlOK, RunInv, Alive
<1>5. ASSUME NEW p \in Stoppers, Gives(p) PROVE RunInv'
  BY <1>5 DEF Gives, CtlOK, RunInv, Alive
<1>6. ASSUME NEW c \in Callers, Replaces(c) PROVE RunInv'
  BY <1>6 DEF Replaces, CtlOK, RunInv, Alive
<1>7. ASSUME NEW c \in Callers, Leaves(c) PROVE RunInv'
  BY <1>7 DEF Leaves, CtlOK, RunInv, Alive
<1>8. ASSUME NEW c \in Callers, Locks(c) PROVE RunInv'
  BY <1>8 DEF Locks, CtlOK, RunInv, Alive
<1>9. ASSUME NEW c \in Callers, Reserves(c) PROVE RunInv'
  BY <1>9 DEF Reserves, CtlOK, RunInv, Alive
<1>10. ASSUME NEW c \in Callers, Installs(c) PROVE RunInv'
  BY <1>10 DEF Installs, CtlOK, RunInv, Alive, StartInv, Building
<1>11. ASSUME NEW c \in Callers, NEW next \in BuildSteps, Builds(c, next)
       PROVE  RunInv'
  BY <1>11 DEF Builds, BuildSteps, CtlOK, RunInv, Alive
<1>12. ASSUME NEW r \in Runs, NEW w \in DrainReasons, Decides(r, w)
       PROVE  RunInv'
  BY <1>12 DEF Decides, CtlOK, RunInv, Alive
<1>13. ASSUME NEW r \in Runs, NEW next \in DrainSteps, Drains(r, next)
       PROVE  RunInv'
  BY <1>13 DEF Drains, DrainSteps, CtlOK, RunInv, Alive
<1>14. ASSUME NEW r \in Runs, Finishes(r) PROVE RunInv'
  BY <1>14 DEF Finishes, CtlOK, RunInv, Alive
<1>15. CASE UNCHANGED ctl
  BY <1>15 DEF ctl, CtlOK, RunInv, Alive
<1>16. QED
  BY <1>1, <1>2, <1>3, <1>4, <1>5, <1>6, <1>7, <1>8, <1>9, <1>10, <1>11,
     <1>12, <1>13, <1>14, <1>15
     DEF Step

\* A drain that has decided leaves its loop, so it decides once; its reason is
\* given to its own run, since its goroutine takes no other.
LEMMA WhyInvKept ==
  ASSUME CtlOK, StartInv, RunInv, WhyInv, Step
  PROVE  WhyInv'
<1> USE Apart
<1>1. ASSUME NEW p \in Stoppers, Asks(p) PROVE WhyInv'
  BY <1>1 DEF Asks, CtlOK, WhyInv
<1>2. ASSUME NEW p \in Stoppers, Takes(p) PROVE WhyInv'
  <2>1. run \in Runs /\ run' = None /\ UNCHANGED <<drain, why, file>>
    BY <1>2 DEF Takes, CtlOK
  <2>2. /\ reason'[run] = ReasonOf(p)
        /\ \A r \in Runs : r # run => reason'[r] = reason[r]
    BY <1>2, <2>1 DEF Takes, CtlOK
  <2>3. \A q \in Stoppers : q # p => pc'[q] = pc[q]
    BY <1>2 DEF Takes, CtlOK
  <2>4. pc'[p] = "cancel" /\ pc[p] = "take"
    BY <1>2 DEF Takes, CtlOK
  <2>5. ReasonOf(p) \in DrainReasons => ReasonOf(p) = why[run]
    BY <1>2, ReasonTaken DEF Takes
  <2>6. QED
    BY <2>1, <2>2, <2>3, <2>4, <2>5 DEF WhyInv
<1>3. ASSUME NEW p \in Stoppers, Cancels(p) PROVE WhyInv'
  BY <1>3 DEF Cancels, CtlOK, WhyInv
<1>4. ASSUME NEW p \in Stoppers, Joins(p) PROVE WhyInv'
  BY <1>4 DEF Joins, CtlOK, WhyInv
<1>5. ASSUME NEW p \in Stoppers, Gives(p) PROVE WhyInv'
  BY <1>5 DEF Gives, CtlOK, WhyInv
<1>6. ASSUME NEW c \in Callers, Replaces(c) PROVE WhyInv'
  BY <1>6 DEF Replaces, CtlOK, WhyInv
<1>7. ASSUME NEW c \in Callers, Leaves(c) PROVE WhyInv'
  BY <1>7 DEF Leaves, CtlOK, WhyInv
<1>8. ASSUME NEW c \in Callers, Locks(c) PROVE WhyInv'
  BY <1>8 DEF Locks, CtlOK, WhyInv
<1>9. ASSUME NEW c \in Callers, Reserves(c) PROVE WhyInv'
  BY <1>9 DEF Reserves, CtlOK, WhyInv
<1>10. ASSUME NEW c \in Callers, Installs(c) PROVE WhyInv'
  BY <1>10 DEF Installs, CtlOK, WhyInv, StartInv, Building
<1>11. ASSUME NEW c \in Callers, NEW next \in BuildSteps, Builds(c, next)
       PROVE  WhyInv'
  BY <1>11, ReasonFacts DEF Builds, BuildSteps, CtlOK, WhyInv
<1>12. ASSUME NEW r \in Runs, NEW w \in DrainReasons, Decides(r, w)
       PROVE  WhyInv'
  <2>1. r \in Stoppers
    OBVIOUS
  <2>2. \A q \in Runs : /\ drain'[q] = IF q = r THEN "ended" ELSE drain[q]
                       /\ why'[q] = IF q = r THEN w ELSE why[q]
    BY <1>12 DEF Decides, CtlOK
  <2>3. /\ pc'[r] = "take"
        /\ \A q \in Stoppers : q # r => pc'[q] = pc[q]
    BY <1>12, <2>1 DEF Decides, CtlOK
  <2>4. w # None /\ UNCHANGED <<reason, file>>
    BY <1>12, ReasonFacts DEF Decides
  <2>5. reason[r] \notin DrainReasons
    BY <1>12, ReasonFacts DEF Decides, WhyInv
  <2>6. drain[r] # "done"
    BY <1>12 DEF Decides
  <2>7. ASSUME NEW q \in Runs
        PROVE  /\ drain'[q] \notin {"ended", "done"} =>
                    why'[q] = None /\ pc'[q] = "idle"
               /\ pc'[q] = "take" => why'[q] # None
               /\ reason'[q] \in DrainReasons => reason'[q] = why'[q]
               /\ drain'[q] # "done" => file'[q] \notin StopReasons
    <3>1. CASE q = r
      BY <2>2, <2>3, <2>4, <2>5, <2>6, <3>1 DEF WhyInv
    <3>2. CASE q # r
      BY <2>2, <2>3, <2>4, <3>2 DEF WhyInv
    <3>3. QED
      BY <3>1, <3>2
  <2>8. QED
    BY <2>7 DEF WhyInv
<1>13. ASSUME NEW r \in Runs, NEW next \in DrainSteps, Drains(r, next)
       PROVE  WhyInv'
  BY <1>13 DEF Drains, DrainSteps, CtlOK, WhyInv
<1>14. ASSUME NEW r \in Runs, Finishes(r) PROVE WhyInv'
  BY <1>14 DEF Finishes, CtlOK, WhyInv
<1>15. CASE UNCHANGED ctl
  BY <1>15 DEF ctl, CtlOK, WhyInv
<1>16. QED
  BY <1>1, <1>2, <1>3, <1>4, <1>5, <1>6, <1>7, <1>8, <1>9, <1>10, <1>11,
     <1>12, <1>13, <1>14, <1>15
     DEF Step

\* A run stops being the manager's in Takes, whose stopper cancels it next.
LEMMA DrainIsHeldKept ==
  ASSUME CtlOK, MutexInv, StopInv, StartInv, RunInv, WhyInv,
         DrainIsHeld, Step
  PROVE  DrainIsHeld'
<1> USE Apart
<1>1. ASSUME NEW p \in Stoppers, Asks(p) PROVE DrainIsHeld'
  BY <1>1 DEF Asks, CtlOK, DrainIsHeld, Alive
<1>2. ASSUME NEW p \in Stoppers, Takes(p) PROVE DrainIsHeld'
  BY <1>2 DEF Takes, CtlOK, DrainIsHeld, Alive
<1>3. ASSUME NEW p \in Stoppers, Cancels(p) PROVE DrainIsHeld'
  <2>1. target[p] \in Runs
    BY <1>3 DEF Cancels, StopInv, Stopping
  <2>2. \A r \in Runs : cancelled'[r] = (r = target[p] \/ cancelled[r])
    BY <1>3, <2>1 DEF Cancels, CtlOK
  <2>3. ASSUME NEW r \in Runs, Alive(r), ~cancelled'[r], run # r
        PROVE  \E q \in Stoppers : pc'[q] = "cancel" /\ target[q] = r
    <3>1. PICK q \in Stoppers : pc[q] = "cancel" /\ target[q] = r
      BY <2>2, <2>3 DEF DrainIsHeld
    <3>2. q # p
      BY <2>2, <2>3, <3>1
    <3>3. pc'[q] = "cancel"
      BY <1>3, <3>1, <3>2 DEF Cancels, CtlOK
    <3>4. QED
      BY <3>1, <3>3
  <2>4. QED
    BY <1>3, <2>3 DEF Cancels, DrainIsHeld, Alive
<1>4. ASSUME NEW p \in Stoppers, Joins(p) PROVE DrainIsHeld'
  BY <1>4 DEF Joins, CtlOK, DrainIsHeld, Alive
<1>5. ASSUME NEW p \in Stoppers, Gives(p) PROVE DrainIsHeld'
  BY <1>5 DEF Gives, CtlOK, DrainIsHeld, Alive
<1>6. ASSUME NEW c \in Callers, Replaces(c) PROVE DrainIsHeld'
  BY <1>6 DEF Replaces, CtlOK, DrainIsHeld, Alive
<1>7. ASSUME NEW c \in Callers, Leaves(c) PROVE DrainIsHeld'
  BY <1>7 DEF Leaves, CtlOK, DrainIsHeld, Alive
<1>8. ASSUME NEW c \in Callers, Locks(c) PROVE DrainIsHeld'
  BY <1>8 DEF Locks, CtlOK, DrainIsHeld, Alive
<1>9. ASSUME NEW c \in Callers, Reserves(c) PROVE DrainIsHeld'
  BY <1>9 DEF Reserves, CtlOK, DrainIsHeld, Alive
<1>10. ASSUME NEW c \in Callers, Installs(c) PROVE DrainIsHeld'
  <2>1. target[c] \in Runs /\ run = None
    BY <1>10, RunsFacts DEF Installs, StartInv, Building
  <2>2. \A r \in Runs : r # target[c] => drain'[r] = drain[r]
    BY <1>10, <2>1 DEF Installs, CtlOK
  <2>3. \A q \in Stoppers : pc[q] = "cancel" =>
          pc'[q] = "cancel" /\ target'[q] = target[q]
    BY <1>10 DEF Installs, CtlOK
  <2>4. run' = target[c] /\ cancelled' = cancelled
    BY <1>10 DEF Installs
  <2>5. QED
    BY <2>1, <2>2, <2>3, <2>4 DEF DrainIsHeld, Alive
<1>11. ASSUME NEW c \in Callers, NEW next \in BuildSteps, Builds(c, next)
       PROVE  DrainIsHeld'
  BY <1>11 DEF Builds, BuildSteps, CtlOK, DrainIsHeld, Alive
<1>12. ASSUME NEW r \in Runs, NEW w \in DrainReasons, Decides(r, w)
       PROVE  DrainIsHeld'
  <2>1. \A q \in Runs : Alive(q)' => Alive(q)
    BY <1>12 DEF Decides, Alive, CtlOK
  <2>2. r \in Stoppers /\ pc[r] = "idle"
    BY <1>12 DEF Decides, WhyInv
  <2>3. \A q \in Stoppers : pc[q] = "cancel" => pc'[q] = "cancel"
    BY <1>12, <2>2 DEF Decides, CtlOK
  <2>4. QED
    BY <1>12, <2>1, <2>3 DEF Decides, DrainIsHeld
<1>13. ASSUME NEW r \in Runs, NEW next \in DrainSteps, Drains(r, next)
       PROVE  DrainIsHeld'
  BY <1>13 DEF Drains, DrainSteps, CtlOK, DrainIsHeld, Alive
<1>14. ASSUME NEW r \in Runs, Finishes(r) PROVE DrainIsHeld'
  BY <1>14 DEF Finishes, CtlOK, DrainIsHeld, Alive
<1>15. CASE UNCHANGED ctl
  BY <1>15 DEF ctl, CtlOK, DrainIsHeld, Alive
<1>16. QED
  BY <1>1, <1>2, <1>3, <1>4, <1>5, <1>6, <1>7, <1>8, <1>9, <1>10, <1>11,
     <1>12, <1>13, <1>14, <1>15
     DEF Step

\* An end record is written once, with the reason its stopper gave.
LEMMA EndReasonIsOwnKept ==
  ASSUME CtlOK, RunInv, WhyInv, EndReasonIsOwn, Step
  PROVE  EndReasonIsOwn'
<1> USE Apart
<1>1. ASSUME NEW p \in Stoppers, Asks(p) PROVE EndReasonIsOwn'
  BY <1>1 DEF Asks, CtlOK, EndReasonIsOwn
<1>2. ASSUME NEW p \in Stoppers, Takes(p) PROVE EndReasonIsOwn'
  BY <1>2 DEF Takes, CtlOK, EndReasonIsOwn
<1>3. ASSUME NEW p \in Stoppers, Cancels(p) PROVE EndReasonIsOwn'
  BY <1>3 DEF Cancels, CtlOK, EndReasonIsOwn
<1>4. ASSUME NEW p \in Stoppers, Joins(p) PROVE EndReasonIsOwn'
  BY <1>4 DEF Joins, CtlOK, EndReasonIsOwn
<1>5. ASSUME NEW p \in Stoppers, Gives(p) PROVE EndReasonIsOwn'
  BY <1>5 DEF Gives, CtlOK, EndReasonIsOwn
<1>6. ASSUME NEW c \in Callers, Replaces(c) PROVE EndReasonIsOwn'
  BY <1>6 DEF Replaces, CtlOK, EndReasonIsOwn
<1>7. ASSUME NEW c \in Callers, Leaves(c) PROVE EndReasonIsOwn'
  BY <1>7 DEF Leaves, CtlOK, EndReasonIsOwn
<1>8. ASSUME NEW c \in Callers, Locks(c) PROVE EndReasonIsOwn'
  BY <1>8 DEF Locks, CtlOK, EndReasonIsOwn
<1>9. ASSUME NEW c \in Callers, Reserves(c) PROVE EndReasonIsOwn'
  BY <1>9 DEF Reserves, CtlOK, EndReasonIsOwn
<1>10. ASSUME NEW c \in Callers, Installs(c) PROVE EndReasonIsOwn'
  BY <1>10 DEF Installs, CtlOK, EndReasonIsOwn
<1>11. ASSUME NEW c \in Callers, NEW next \in BuildSteps, Builds(c, next)
       PROVE  EndReasonIsOwn'
  <2>1. \A r \in Runs : file'[r] \in {file[r], "open"}
    BY <1>11 DEF Builds, CtlOK
  <2>2. "open" \notin DrainReasons
    BY DEF DrainReasons
  <2>3. QED
    BY <1>11, <2>1, <2>2 DEF Builds, EndReasonIsOwn
<1>12. ASSUME NEW r \in Runs, NEW w \in DrainReasons, Decides(r, w)
       PROVE  EndReasonIsOwn'
  BY <1>12, ReasonFacts DEF Decides, CtlOK, EndReasonIsOwn, WhyInv
<1>13. ASSUME NEW r \in Runs, NEW next \in DrainSteps, Drains(r, next)
       PROVE  EndReasonIsOwn'
  BY <1>13 DEF Drains, DrainSteps, CtlOK, EndReasonIsOwn
<1>14. ASSUME NEW r \in Runs, Finishes(r) PROVE EndReasonIsOwn'
  BY <1>14 DEF Finishes, CtlOK, EndReasonIsOwn, WhyInv
<1>15. CASE UNCHANGED ctl
  BY <1>15 DEF ctl, CtlOK, EndReasonIsOwn
<1>16. QED
  BY <1>1, <1>2, <1>3, <1>4, <1>5, <1>6, <1>7, <1>8, <1>9, <1>10, <1>11,
     <1>12, <1>13, <1>14, <1>15
     DEF Step

-----------------------------------------------------------------------------
(* The data: the panel, the counts, and what is on the server.             *)

PanelOK ==
  /\ st \in [active : BOOLEAN, run : Runs \cup {None},
             stopped : StopReasons \cup {None}, statements : Nat]
  /\ rows \in Seq(Runs \X Nat)

LocalOK ==
  /\ info \in [Runs -> [spid : Spids, login : Logins] \cup {None}]
  /\ want \in [Callers -> Spids \cup {None}]

CountOK ==
  /\ fails \in [Runs -> 0 .. LostAfter]
  /\ statements \in [Runs -> Nat]
  /\ fresh \in [Runs -> Nat]

ServerOK ==
  /\ session \in [Runs -> {"none", "created", "started", "dropped"}]
  /\ age \in [Runs -> 0 .. 2]
  /\ login \in [Spids -> Logins]
  /\ troubled \subseteq Runs

\* A handler inside Toggle knows the session it was asked for.
WantInv == \A c \in Callers : pc[c] # "idle" => want[c] # None

\* A drain that goes on has not failed its last poll, and what a poll has read
\* is part of what the run has.
CountInv ==
  \A r \in Runs :
    /\ drain[r] \notin {"ended", "done"} => fails[r] < LostAfter
    /\ fresh[r] <= statements[r]

\* What is typed: the control and the four parts of the data.
LEMMA TypeSplit ==
  TypeOK <=> CtlOK /\ PanelOK /\ LocalOK /\ CountOK /\ ServerOK
BY DEF TypeOK, CtlOK, PanelOK, LocalOK, CountOK, ServerOK

\* Which actions touch the data, and how.
PanelStep ==
  \/ UNCHANGED <<st, rows>>
  \/ \E p \in Stoppers : StopTake(p)
  \/ \E c \in Callers : StartInstall(c)
  \/ \E r \in Runs : Publish(r)

LocalStep ==
  /\ UNCHANGED info \/ \E c \in Callers : StartWatch(c)
  /\ \/ /\ UNCHANGED want
        /\ \A c \in Callers : pc'[c] # "idle" => pc[c] # "idle"
     \/ \E c \in Callers : /\ want' = [want EXCEPT ![c] = None]
                           /\ pc' = [pc EXCEPT ![c] = "idle"]
     \/ \E c \in Callers, s \in Spids : /\ want' = [want EXCEPT ![c] = s]
                                       /\ pc' = [pc EXCEPT ![c] = "lock"]

CountStep ==
  \/ UNCHANGED <<drain, fails, statements, fresh>>
  \/ \E c \in Callers : StartInstall(c)
  \/ \E r \in Runs : TickCheck(r) \/ PollFails(r) \/ Poll(r) \/ Publish(r)
                      \/ Finish(r)

ServerStep ==
  /\ \/ UNCHANGED session
     \/ \E c \in Callers : StartSweep(c)
     \/ \E r \in Runs, to \in {"created", "started", "dropped"} :
          session' = [session EXCEPT ![r] = to]
  /\ \/ UNCHANGED troubled
     \/ \E r \in Runs : troubled' = troubled \cup {r}
  /\ UNCHANGED age \/ \E r \in Runs : Ages(r)
  /\ UNCHANGED login \/ \E s \in Spids : SessionEnds(s) \/ SessionBegins(s)

DataStep == PanelStep /\ LocalStep /\ CountStep /\ ServerStep

\* A DDL statement moves one event session or none, and may be a failed one.
LEMMA StatementFacts ==
  ASSUME NEW r \in Runs, NEW from,
         NEW to \in {"created", "started", "dropped"}, NEW ok \in BOOLEAN,
         Statement(r, from, to, ok)
  PROVE  /\ UNCHANGED session \/ session' = [session EXCEPT ![r] = to]
         /\ troubled' = troubled \/ troubled' = troubled \cup {r}
BY DEF Statement

\* Every action of Capture touches the data in one of those ways.
LEMMA DataSteps ==
  ASSUME CtlOK, StopInv, StartInv, Next PROVE DataStep
<1> USE Apart DEF managerVars, runVars, callVars, serverVars, Goto
<1> USE DEF DataStep, PanelStep, LocalStep, CountStep, ServerStep
<1>1. ASSUME NEW p \in Stoppers, StopNothing(p) PROVE DataStep
  BY <1>1 DEF StopNothing, Stopped, Unlock, CtlOK
<1>2. ASSUME NEW p \in Stoppers, StopTake(p) PROVE DataStep
  BY <1>2 DEF StopTake, CtlOK
<1>3. ASSUME NEW p \in Stoppers, StopCancel(p) PROVE DataStep
  BY <1>3 DEF StopCancel, CtlOK
<1>4. ASSUME NEW p \in Stoppers, StopJoin(p) PROVE DataStep
  BY <1>4 DEF StopJoin, CtlOK
<1>5. ASSUME NEW p \in Stoppers, StopDrop(p) PROVE DataStep
  <2>1. target[p] \in Runs /\ p \in Stoppers
    BY <1>5, RunsFacts DEF StopDrop, StopInv, Stopping
  <2>2. /\ \/ UNCHANGED session
           \/ session' = [session EXCEPT ![target[p]] = "dropped"]
        /\ troubled' = troubled \/ troubled' = troubled \cup {target[p]}
    BY <1>5, <2>1, StatementFacts DEF StopDrop, DropSession
  <2>3. UNCHANGED <<st, rows, drain, fails, statements, fresh, info, age,
                   login>>
    BY <1>5 DEF StopDrop
  <2>4. \/ /\ UNCHANGED want
           /\ \A d \in Callers : pc'[d] # "idle" => pc[d] # "idle"
        \/ \E d \in Callers : /\ want' = [want EXCEPT ![d] = None]
                              /\ pc' = [pc EXCEPT ![d] = "idle"]
    BY <1>5 DEF StopDrop, CtlOK, Stopped, Unlock
  <2>5. QED
    BY <2>1, <2>2, <2>3, <2>4
<1>6. ASSUME NEW c \in Callers, Lock(c) PROVE DataStep
  BY <1>6 DEF Lock, CtlOK
<1>7. ASSUME NEW c \in Callers, StartWatch(c) PROVE DataStep
  BY <1>7 DEF StartWatch, Unlock, CtlOK
<1>8. ASSUME NEW c \in Callers, StartSweep(c) PROVE DataStep
  BY <1>8 DEF StartSweep, Unlock, CtlOK
<1>9. ASSUME NEW c \in Callers, StartCreate(c) PROVE DataStep
  <2>1. target[c] \in Runs /\ c \in Stoppers
    BY <1>9, RunsFacts DEF StartCreate, StartInv, Building
  <2>2. /\ \/ UNCHANGED session
           \/ session' = [session EXCEPT ![target[c]] = "created"]
        /\ troubled' = troubled \/ troubled' = troubled \cup {target[c]}
    BY <1>9, <2>1, StatementFacts DEF StartCreate, CreateSession
  <2>3. UNCHANGED <<st, rows, drain, fails, statements, fresh, info, age,
                   login>>
    BY <1>9 DEF StartCreate
  <2>4. \/ /\ UNCHANGED want
           /\ \A d \in Callers : pc'[d] # "idle" => pc[d] # "idle"
        \/ \E d \in Callers : /\ want' = [want EXCEPT ![d] = None]
                              /\ pc' = [pc EXCEPT ![d] = "idle"]
    BY <1>9 DEF StartCreate, CtlOK, Unlock
  <2>5. QED
    BY <2>1, <2>2, <2>3, <2>4
<1>10. ASSUME NEW c \in Callers, StartStart(c) PROVE DataStep
  <2>1. target[c] \in Runs /\ c \in Stoppers
    BY <1>10, RunsFacts DEF StartStart, StartInv, Building
  <2>2. /\ \/ UNCHANGED session
           \/ session' = [session EXCEPT ![target[c]] = "started"]
        /\ troubled' = troubled \/ troubled' = troubled \cup {target[c]}
    BY <1>10, <2>1, StatementFacts DEF StartStart, StartSession
  <2>3. UNCHANGED <<st, rows, drain, fails, statements, fresh, info, age,
                   login>>
    BY <1>10 DEF StartStart
  <2>4. \/ /\ UNCHANGED want
           /\ \A d \in Callers : pc'[d] # "idle" => pc[d] # "idle"
        \/ \E d \in Callers : /\ want' = [want EXCEPT ![d] = None]
                              /\ pc' = [pc EXCEPT ![d] = "idle"]
    BY <1>10 DEF StartStart, CtlOK
  <2>5. QED
    BY <2>1, <2>2, <2>3, <2>4
<1>11. ASSUME NEW c \in Callers, StartFile(c) PROVE DataStep
  BY <1>11 DEF StartFile, CtlOK
<1>12. ASSUME NEW c \in Callers, StartUndo(c) PROVE DataStep
  <2>1. target[c] \in Runs /\ c \in Stoppers
    BY <1>12, RunsFacts DEF StartUndo, StartInv, Building
  <2>2. /\ \/ UNCHANGED session
           \/ session' = [session EXCEPT ![target[c]] = "dropped"]
        /\ troubled' = troubled \/ troubled' = troubled \cup {target[c]}
    BY <1>12, <2>1, StatementFacts DEF StartUndo, DropSession
  <2>3. UNCHANGED <<st, rows, drain, fails, statements, fresh, info, age,
                   login>>
    BY <1>12 DEF StartUndo
  <2>4. \/ /\ UNCHANGED want
           /\ \A d \in Callers : pc'[d] # "idle" => pc[d] # "idle"
        \/ \E d \in Callers : /\ want' = [want EXCEPT ![d] = None]
                              /\ pc' = [pc EXCEPT ![d] = "idle"]
    BY <1>12 DEF StartUndo, CtlOK, Unlock
  <2>5. QED
    BY <2>1, <2>2, <2>3, <2>4
<1>13. ASSUME NEW c \in Callers, StartInstall(c) PROVE DataStep
  <2>1. /\ UNCHANGED <<info, session, age, login, troubled>>
        /\ want' = [want EXCEPT ![c] = None] /\ pc' = [pc EXCEPT ![c] = "idle"]
    BY <1>13 DEF StartInstall, Unlock
  <2>2. QED
    BY <1>13, <2>1
<1>14. ASSUME NEW r \in Runs, TickCheck(r) PROVE DataStep
  <2>1. UNCHANGED <<st, rows, info, want, session, age, login, troubled>>
    BY <1>14 DEF TickCheck
  <2>2. \A d \in Callers : pc'[d] = pc[d]
    <3>1. pc' = pc \/ pc' = [pc EXCEPT ![r] = "take"]
      BY <1>14 DEF TickCheck, Over
    <3>2. QED
      BY <3>1 DEF CtlOK
  <2>3. PanelStep /\ LocalStep /\ ServerStep
    BY <2>1, <2>2
  <2>4. CountStep
    BY <1>14
  <2>5. QED
    BY <2>3, <2>4
<1>15. ASSUME NEW r \in Runs, PollFails(r) PROVE DataStep
  <2>1. UNCHANGED <<st, rows, info, want, session, age, login, troubled>>
    BY <1>15 DEF PollFails
  <2>2. \A d \in Callers : pc'[d] = pc[d]
    <3>1. pc' = pc \/ pc' = [pc EXCEPT ![r] = "take"]
      BY <1>15 DEF PollFails, Over
    <3>2. QED
      BY <3>1 DEF CtlOK
  <2>3. PanelStep /\ LocalStep /\ ServerStep
    BY <2>1, <2>2
  <2>4. CountStep
    BY <1>15
  <2>5. QED
    BY <2>3, <2>4
<1>16. ASSUME NEW r \in Runs, Poll(r) PROVE DataStep
  BY <1>16 DEF Poll, CtlOK
<1>17. ASSUME NEW r \in Runs, Publish(r) PROVE DataStep
  BY <1>17 DEF Publish, CtlOK
<1>18. ASSUME NEW r \in Runs, Finish(r) PROVE DataStep
  BY <1>18 DEF Finish, CtlOK
<1>19. CASE ServerNext
  BY <1>19 DEF ServerNext, SessionEnds, SessionBegins, Ages
<1>20. ASSUME NEW c \in Callers, NEW s \in Spids, Press(c, s) PROVE DataStep
  BY <1>20 DEF Press
<1>21. ASSUME NEW p \in Outsiders, OutsiderStops(p) PROVE DataStep
  BY <1>21 DEF OutsiderStops
<1>22. QED
  BY <1>1, <1>2, <1>3, <1>4, <1>5, <1>6, <1>7, <1>8, <1>9, <1>10, <1>11,
     <1>12, <1>13, <1>14, <1>15, <1>16, <1>17, <1>18, <1>19, <1>20, <1>21
     DEF Next, ManagerNext, StopStep, ToggleStep, Tick

\* Records yields rows of the panel.
LEMMA RecordsTyped ==
  ASSUME NEW r \in Runs, NEW lo \in Nat, NEW hi \in Nat, lo >= 1, hi >= lo - 1
  PROVE  Records(r, lo, hi) \in Seq(Runs \X Nat)
<1>1. hi - lo + 1 \in Nat
  OBVIOUS
<1>2. \A i \in 1 .. (hi - lo + 1) : <<r, lo + i - 1>> \in Runs \X Nat
  OBVIOUS
<1>3. QED
  BY <1>1, <1>2 DEF Records

\* The tail of a sequence is a sequence of the same things.
LEMMA LastOfTyped ==
  ASSUME NEW S, NEW s \in Seq(S), NEW n \in Nat PROVE LastOf(s, n) \in Seq(S)
BY DEF LastOf

\* What is assumed of the numbers.
LEMMA Bounds ==
  /\ LostAfter \in Nat /\ LostAfter > 0
  /\ MaxStatements \in Nat /\ RecentKept \in Nat
  /\ MaxLogins \in Nat /\ MaxAge \in 0 .. 2 /\ MaxRuns \in Nat
<1>1. /\ LostAfter \in Nat \ {0} /\ RecentKept \in Nat \ {0}
      /\ MaxStatements \in Nat /\ MaxLogins \in Nat /\ MaxAge \in 0 .. 2
      /\ MaxRuns \in Nat
  BY CaptureAssumption
<1>2. QED
  BY <1>1

\* The panel keeps its type: what Publish appends are rows, and the reason that
\* StopTake gives is one there is.
LEMMA PanelKept ==
  ASSUME CtlOK, PanelOK, CountOK, WhyInv, CountInv, PanelStep PROVE PanelOK'
<1> USE Apart
<1>1. CASE UNCHANGED <<st, rows>>
  BY <1>1 DEF PanelOK
<1>2. ASSUME NEW p \in Stoppers, StopTake(p) PROVE PanelOK'
  <2>1. ReasonOf(p) \in StopReasons
    BY <1>2, ReasonTaken DEF StopTake
  <2>2. st' = [st EXCEPT !.active = FALSE, !.stopped = ReasonOf(p)]
    BY <1>2 DEF StopTake
  <2>3. UNCHANGED rows
    BY <1>2 DEF StopTake
  <2>4. QED
    BY <2>1, <2>2, <2>3 DEF PanelOK
<1>3. ASSUME NEW c \in Callers, StartInstall(c) PROVE PanelOK'
  <2>1. target[c] \in Runs \cup {None}
    BY DEF CtlOK
  <2>2. QED
    BY <1>3, <2>1 DEF StartInstall, PanelOK
<1>4. ASSUME NEW r \in Runs, Publish(r) PROVE PanelOK'
  <2>1. CASE run # r
    BY <1>4, <2>1 DEF Publish, PanelOK
  <2>2. CASE run = r
    <3>1. statements[r] \in Nat /\ fresh[r] \in Nat /\ fresh[r] <= statements[r]
      BY DEF CountOK, CountInv
    <3>2. Records(r, statements[r] - fresh[r] + 1, statements[r])
            \in Seq(Runs \X Nat)
      <4>1. /\ statements[r] - fresh[r] + 1 \in Nat
            /\ statements[r] - fresh[r] + 1 >= 1
            /\ statements[r] >= (statements[r] - fresh[r] + 1) - 1
        BY <3>1
      <4>2. QED
        BY <3>1, <4>1, RecordsTyped
    <3>3. rows \o Records(r, statements[r] - fresh[r] + 1, statements[r])
            \in Seq(Runs \X Nat)
      BY <3>2 DEF PanelOK
    <3>4. LastOf(rows \o Records(r, statements[r] - fresh[r] + 1,
                                statements[r]),
                 RecentKept) \in Seq(Runs \X Nat)
      BY <3>3, Bounds, LastOfTyped
    <3>5. rows' \in Seq(Runs \X Nat)
      BY <1>4, <2>2, <3>4 DEF Publish
    <3>6. st' = [st EXCEPT !.statements = statements[r]]
      BY <1>4, <2>2 DEF Publish
    <3>7. QED
      BY <3>1, <3>5, <3>6 DEF PanelOK
  <2>3. QED
    BY <2>1, <2>2
<1>5. QED
  BY <1>1, <1>2, <1>3, <1>4 DEF PanelStep

\* A handler inside Toggle keeps the session it was asked for, and the session
\* a capture watches is that one.
LEMMA LocalKept ==
  ASSUME CtlOK, LocalOK, WantInv, ServerOK, LocalStep
  PROVE  LocalOK' /\ WantInv'
<1>1. ASSUME NEW c \in Callers, StartWatch(c)
      PROVE  info' \in [Runs -> [spid : Spids, login : Logins] \cup {None}]
  <2>1. CASE UNCHANGED info
    BY <2>1 DEF LocalOK
  <2>2. CASE info' = [info EXCEPT ![nruns + 1] =
                        [spid |-> want[c], login |-> login[want[c]]]]
    <3>1. want[c] \in Spids
      BY <1>1 DEF StartWatch, WantInv, LocalOK
    <3>2. login[want[c]] \in Logins
      BY <3>1 DEF ServerOK
    <3>3. QED
      BY <2>2, <3>1, <3>2 DEF LocalOK
  <2>3. QED
    BY <1>1, <2>1, <2>2 DEF StartWatch
<1>2. want' \in [Callers -> Spids \cup {None}]
  BY DEF LocalStep, LocalOK
<1>3. CASE /\ UNCHANGED want
           /\ \A c \in Callers : pc'[c] # "idle" => pc[c] # "idle"
  BY <1>1, <1>2, <1>3 DEF LocalStep, LocalOK, WantInv
<1>4. CASE \E c \in Callers : /\ want' = [want EXCEPT ![c] = None]
                            /\ pc' = [pc EXCEPT ![c] = "idle"]
  BY <1>1, <1>2, <1>4, Apart DEF LocalStep, LocalOK, WantInv, CtlOK
<1>5. CASE \E c \in Callers, s \in Spids : /\ want' = [want EXCEPT ![c] = s]
                                      /\ pc' = [pc EXCEPT ![c] = "lock"]
  <2>1. None \notin Spids
    BY CaptureAssumption
  <2>2. QED
    BY <1>1, <1>2, <1>5, <2>1, Apart DEF LocalStep, LocalOK, WantInv, CtlOK
<1>6. QED
  BY <1>1, <1>2, <1>3, <1>4, <1>5 DEF LocalStep

\* A drain that goes on stays short of LostAfter failed polls, and publishes no
\* more than it read.
LEMMA CountKept ==
  ASSUME CtlOK, CountOK, CountInv, StartInv, CountStep
  PROVE  CountOK' /\ CountInv'
<1> USE Apart
<1>1. CASE UNCHANGED <<drain, fails, statements, fresh>>
  BY <1>1 DEF CountOK, CountInv
<1>2. ASSUME NEW c \in Callers, StartInstall(c) PROVE CountOK' /\ CountInv'
  <2>1. target[c] \in Runs /\ drain[target[c]] = "none"
    BY <1>2, RunsFacts DEF StartInstall, StartInv, Building
  <2>2. /\ \A r \in Runs : drain'[r] \in {drain[r], "select"}
        /\ \A r \in Runs : r # target[c] => drain'[r] = drain[r]
    BY <1>2, <2>1 DEF StartInstall, CtlOK
  <2>3. UNCHANGED <<fails, statements, fresh>>
    BY <1>2 DEF StartInstall
  <2>4. QED
    BY <2>1, <2>2, <2>3 DEF CountOK, CountInv
<1>3. ASSUME NEW r \in Runs, TickCheck(r) PROVE CountOK' /\ CountInv'
  <2>1. UNCHANGED <<fails, statements, fresh>> /\ drain[r] = "select"
    BY <1>3 DEF TickCheck
  <2>2. \A q \in Runs : q # r => drain'[q] = drain[q]
    BY <1>3 DEF TickCheck, Over, CtlOK
  <2>3. QED
    BY <2>1, <2>2 DEF CountOK, CountInv
<1>4. ASSUME NEW r \in Runs, PollFails(r) PROVE CountOK' /\ CountInv'
  <2>1. /\ UNCHANGED <<statements, fresh>> /\ drain[r] = "poll"
        /\ fails' = [fails EXCEPT ![r] = fails[r] + 1]
    BY <1>4 DEF PollFails
  <2>2. \A q \in Runs : q # r => drain'[q] = drain[q]
    BY <1>4 DEF PollFails, Over, CtlOK
  <2>3. drain'[r] = "ended" \/ fails[r] + 1 < LostAfter
    <3>1. fails[r] \in Nat /\ LostAfter \in Nat
      BY Bounds DEF CountOK
    <3>2. CASE fails[r] + 1 >= LostAfter
      BY <1>4, <3>2 DEF PollFails, Over, CtlOK
    <3>3. QED
      BY <3>1, <3>2
  <2>4. fails[r] < LostAfter /\ fails[r] \in 0 .. LostAfter
    BY <2>1 DEF CountOK, CountInv
  <2>5. fails[r] + 1 \in 0 .. LostAfter
    BY <2>4, Bounds
  <2>6. CountOK'
    BY <2>1, <2>5 DEF CountOK
  <2>7. \A q \in Runs : /\ q # r => fails'[q] = fails[q]
                       /\ fails'[r] = fails[r] + 1
    BY <2>1 DEF CountOK
  <2>8. CountInv'
    BY <2>1, <2>2, <2>3, <2>7 DEF CountInv
  <2>9. QED
    BY <2>6, <2>8
<1>5. ASSUME NEW r \in Runs, Poll(r) PROVE CountOK' /\ CountInv'
  <2>1. PICK n \in 0 .. (MaxStatements - statements[r]) :
          /\ fresh' = [fresh EXCEPT ![r] = n]
          /\ statements' = [statements EXCEPT ![r] = statements[r] + n]
    BY <1>5 DEF Poll
  <2>2. /\ fails' = [fails EXCEPT ![r] = 0]
        /\ drain' = [drain EXCEPT ![r] = "publish"]
    BY <1>5 DEF Poll
  <2>3. n \in Nat /\ statements[r] \in Nat
    BY Bounds DEF CountOK
  <2>4. LostAfter \in Nat /\ LostAfter > 0
    BY Bounds
  <2>5. CountOK'
    BY <2>1, <2>2, <2>3, <2>4 DEF CountOK
  <2>6. \A q \in Runs : q # r => /\ drain'[q] = drain[q] /\ fails'[q] = fails[q]
                                /\ fresh'[q] = fresh[q]
                                /\ statements'[q] = statements[q]
    BY <2>1, <2>2 DEF CountOK, CtlOK
  <2>7. /\ fails'[r] = 0 /\ fresh'[r] = n /\ statements'[r] = statements[r] + n
    BY <2>1, <2>2 DEF CountOK
  <2>8. CountInv'
    BY <2>3, <2>4, <2>6, <2>7 DEF CountInv
  <2>9. QED
    BY <2>5, <2>8
<1>6. ASSUME NEW r \in Runs, Publish(r) PROVE CountOK' /\ CountInv'
  <2>1. /\ fresh' = [fresh EXCEPT ![r] = 0] /\ UNCHANGED <<fails, statements>>
        /\ drain' = [drain EXCEPT ![r] = "select"] /\ drain[r] = "publish"
    BY <1>6 DEF Publish
  <2>2. \A q \in Runs : /\ q # r => drain'[q] = drain[q]
                       /\ fresh'[q] = IF q = r THEN 0 ELSE fresh[q]
    BY <2>1 DEF CountOK, CtlOK
  <2>3. CountOK'
    BY <2>1 DEF CountOK
  <2>4. CountInv'
    BY <2>1, <2>2 DEF CountInv, CountOK
  <2>5. QED
    BY <2>3, <2>4
<1>7. ASSUME NEW r \in Runs, Finish(r) PROVE CountOK' /\ CountInv'
  <2>1. /\ UNCHANGED <<fails, statements, fresh>>
        /\ drain' = [drain EXCEPT ![r] = "done"]
    BY <1>7 DEF Finish
  <2>2. QED
    BY <2>1 DEF CountOK, CountInv, CtlOK
<1>8. QED
  BY <1>1, <1>2, <1>3, <1>4, <1>5, <1>6, <1>7 DEF CountStep

\* The server's side keeps its type.
LEMMA ServerKept == ASSUME ServerOK, ServerStep PROVE ServerOK'
<1>1. session' \in [Runs -> {"none", "created", "started", "dropped"}]
  <2>1. ASSUME NEW c \in Callers, StartSweep(c)
        PROVE  session' \in [Runs -> {"none", "created", "started", "dropped"}]
    BY <2>1 DEF StartSweep, ServerOK
  <2>2. QED
    BY <2>1 DEF ServerStep, ServerOK
<1>2. troubled' \subseteq Runs
  BY DEF ServerStep, ServerOK
<1>3. age' \in [Runs -> 0 .. 2]
  <2>1. ASSUME NEW r \in Runs, Ages(r) PROVE age' \in [Runs -> 0 .. 2]
    <3>1. age[r] \in 0 .. 2 /\ MaxAge \in 0 .. 2
      BY CaptureAssumption DEF ServerOK
    <3>2. age[r] + 1 \in 0 .. 2
      BY <2>1, <3>1 DEF Ages
    <3>3. QED
      BY <2>1, <3>2 DEF Ages, ServerOK
  <2>2. QED
    BY <2>1 DEF ServerStep, ServerOK
<1>4. login' \in [Spids -> Logins]
  <2>1. ASSUME NEW s \in Spids, SessionEnds(s)
        PROVE  login' \in [Spids -> Logins]
    BY <2>1 DEF SessionEnds, ServerOK, Logins
  <2>2. ASSUME NEW s \in Spids, SessionBegins(s)
        PROVE  login' \in [Spids -> Logins]
    <3>1. login[s].n \in 0 .. MaxLogins /\ MaxLogins \in Nat
      BY CaptureAssumption DEF ServerOK, Logins
    <3>2. [up |-> TRUE, n |-> login[s].n + 1] \in Logins
      BY <2>2, <3>1 DEF SessionBegins, Logins
    <3>3. QED
      BY <2>2, <3>2 DEF SessionBegins, ServerOK
  <2>3. QED
    BY <2>1, <2>2 DEF ServerStep, ServerOK
<1>5. QED
  BY <1>1, <1>2, <1>3, <1>4 DEF ServerOK

-----------------------------------------------------------------------------
(* Together.                                                               *)

IInv ==
  /\ CtlInv
  /\ PanelOK /\ LocalOK /\ CountOK /\ ServerOK
  /\ WantInv /\ CountInv

\* The invariant holds before anything has started.
LEMMA InitInv == ASSUME Init PROVE IInv
<1> USE Apart, Bounds, ReasonFacts DEF Init
<1>1. CtlOK
  BY DEF CtlOK, DrainStates, StopStates
<1>2. MutexInv /\ StopInv /\ OnceInv
  BY DEF MutexInv, StopInv, OnceInv, Stopping, StopStates
<1>3. StartInv /\ RunInv /\ WhyInv
  BY DEF StartInv, Building, Stopping, RunInv, Alive, WhyInv, Stoppers
<1>4. DrainIsHeld /\ EndReasonIsOwn
  BY DEF DrainIsHeld, Alive, EndReasonIsOwn
<1>5. PanelOK /\ LocalOK /\ CountOK /\ WantInv /\ CountInv
  BY DEF PanelOK, LocalOK, CountOK, WantInv, CountInv, Stoppers
<1>6. ServerOK
  BY DEF ServerOK, Logins
<1>7. QED
  BY <1>1, <1>2, <1>3, <1>4, <1>5, <1>6 DEF IInv, CtlInv

\* Every step of Capture keeps the invariant.
LEMMA NextInv == ASSUME IInv, [Next]_vars PROVE IInv'
<1>1. CASE Next
  <2>1. Step /\ DataStep
    BY <1>1, Steps, DataSteps DEF IInv, CtlInv
  <2>2. CtlInv'
    BY <2>1, CtlOKKept, MutexInvKept, StopInvKept, OnceInvKept, StartInvKept,
       RunInvKept, WhyInvKept, DrainIsHeldKept, EndReasonIsOwnKept
       DEF IInv, CtlInv
  <2>3. PanelOK' /\ LocalOK' /\ CountOK' /\ ServerOK' /\ WantInv' /\ CountInv'
    BY <2>1, PanelKept, LocalKept, CountKept, ServerKept
       DEF IInv, CtlInv, DataStep
  <2>4. QED
    BY <2>2, <2>3 DEF IInv
<1>2. CASE UNCHANGED vars
  <2> USE <1>2 DEF vars, managerVars, runVars, callVars, serverVars
  <2>1. /\ CtlOK' /\ MutexInv' /\ StopInv' /\ OnceInv' /\ StartInv' /\ RunInv'
        /\ WhyInv' /\ DrainIsHeld' /\ EndReasonIsOwn'
    BY CtlOKKept, MutexInvKept, StopInvKept, OnceInvKept, StartInvKept,
       RunInvKept, WhyInvKept, DrainIsHeldKept, EndReasonIsOwnKept
       DEF IInv, CtlInv, Step, ctl
  <2>2. PanelOK' /\ LocalOK' /\ CountOK'
    BY DEF IInv, PanelOK, LocalOK, CountOK
  <2>3. ServerOK' /\ WantInv' /\ CountInv'
    BY DEF IInv, ServerOK, WantInv, CountInv
  <2>4. QED
    BY <2>1, <2>2, <2>3 DEF IInv, CtlInv
<1>3. QED
  BY <1>1, <1>2

\* Every behaviour of Capture stays inside the invariant.
THEOREM Invariant == Spec => []IInv
BY InitInv, NextInv, PTL DEF Spec

\* Every variable of the manager, of its drains and of the server keeps its
\* type, however many captures are started.
THEOREM TypeCorrect == Spec => []TypeOK
<1>1. IInv => TypeOK
  BY TypeSplit DEF IInv, CtlInv
<1>2. QED
  BY Invariant, <1>1, PTL

\* No capture is left running with nothing holding it.
THEOREM DrainsAreHeld == Spec => []DrainIsHeld
<1>1. IInv => DrainIsHeld
  BY DEF IInv, CtlInv
<1>2. QED
  BY Invariant, <1>1, PTL

\* However many handlers, drains and other goroutines stop at once, each
\* capture is ended by one of them, and never the one that replaced it.
THEOREM EndsOnce == Spec => []EndedOnce
<1>1. IInv => EndedOnce
  BY DEF IInv, CtlInv, StopInv, OnceInv, EndedOnce
<1>2. QED
  BY Invariant, <1>1, PTL

\* An end record that names a drain's reason names that drain's own.
THEOREM ReasonsAreOwn == Spec => []EndReasonIsOwn
<1>1. IInv => EndReasonIsOwn
  BY DEF IInv, CtlInv
<1>2. QED
  BY Invariant, <1>1, PTL

\* Toggle ends the capture it was pressed on or none, whatever ended or began
\* while it held no lock on the run.
THEOREM KeyIsExact == Spec => []KeyEndsWhatItSaw
<1>1. IInv => KeyEndsWhatItSaw
  BY DEF IInv, CtlInv, StartInv, KeyEndsWhatItSaw
<1>2. QED
  BY Invariant, <1>1, PTL

\* Whoever waits for a drain has cancelled it.
JoinInv == \A p \in Stoppers : pc[p] = "join" => cancelled[target[p]]

\* What makes ToggleReturns true of the shape of the code: whoever waits waits
\* for somebody who can move.  A handler at toggling waits for another one,
\* which is inside Toggle and past that lock; a stopper at <-r.done waits for
\* a drain that has begun and been cancelled, and a drain takes neither lock
\* on its way to its end.
NoCircle ==
  /\ \A c \in Callers : pc[c] = "lock" /\ toggling # None =>
       /\ toggling \in Callers \ {c}
       /\ pc[toggling] \notin {"idle", "lock"}
  /\ \A p \in Stoppers : pc[p] = "join" =>
       /\ target[p] \in Runs /\ cancelled[target[p]]
       /\ drain[target[p]] \in {"select", "poll", "publish", "ended", "done"}

\* A context is never uncancelled, and a stopper that waits keeps its run.
LEMMA JoinInvKept ==
  ASSUME CtlOK, StopInv, JoinInv, Step
  PROVE  JoinInv'
<1> USE Apart
<1>1. ASSUME NEW p \in Stoppers, Asks(p) PROVE JoinInv'
  BY <1>1 DEF Asks, CtlOK, JoinInv
<1>2. ASSUME NEW p \in Stoppers, Takes(p) PROVE JoinInv'
  BY <1>2 DEF Takes, CtlOK, JoinInv
<1>3. ASSUME NEW p \in Stoppers, Cancels(p) PROVE JoinInv'
  <2>1. target[p] \in Runs
    BY <1>3 DEF Cancels, StopInv, Stopping
  <2>2. \A q \in Stoppers : pc[q] = "join" => target[q] \in Runs
    BY DEF StopInv, Stopping
  <2>3. QED
    BY <1>3, <2>1, <2>2 DEF Cancels, CtlOK, JoinInv
<1>4. ASSUME NEW p \in Stoppers, Joins(p) PROVE JoinInv'
  BY <1>4 DEF Joins, CtlOK, JoinInv
<1>5. ASSUME NEW p \in Stoppers, Gives(p) PROVE JoinInv'
  BY <1>5 DEF Gives, CtlOK, JoinInv
<1>6. ASSUME NEW c \in Callers, Replaces(c) PROVE JoinInv'
  BY <1>6 DEF Replaces, CtlOK, JoinInv
<1>7. ASSUME NEW c \in Callers, Leaves(c) PROVE JoinInv'
  BY <1>7 DEF Leaves, CtlOK, JoinInv
<1>8. ASSUME NEW c \in Callers, Locks(c) PROVE JoinInv'
  BY <1>8 DEF Locks, CtlOK, JoinInv
<1>9. ASSUME NEW c \in Callers, Reserves(c) PROVE JoinInv'
  BY <1>9 DEF Reserves, CtlOK, JoinInv
<1>10. ASSUME NEW c \in Callers, Installs(c) PROVE JoinInv'
  BY <1>10 DEF Installs, CtlOK, JoinInv
<1>11. ASSUME NEW c \in Callers, NEW next \in BuildSteps, Builds(c, next)
       PROVE  JoinInv'
  BY <1>11 DEF Builds, BuildSteps, CtlOK, JoinInv
<1>12. ASSUME NEW r \in Runs, NEW w \in DrainReasons, Decides(r, w)
       PROVE  JoinInv'
  BY <1>12 DEF Decides, CtlOK, JoinInv
<1>13. ASSUME NEW r \in Runs, NEW next \in DrainSteps, Drains(r, next)
       PROVE  JoinInv'
  BY <1>13 DEF Drains, CtlOK, JoinInv
<1>14. ASSUME NEW r \in Runs, Finishes(r) PROVE JoinInv'
  BY <1>14 DEF Finishes, CtlOK, JoinInv
<1>15. CASE UNCHANGED ctl
  BY <1>15 DEF ctl, CtlOK, JoinInv
<1>16. QED
  BY <1>1, <1>2, <1>3, <1>4, <1>5, <1>6, <1>7, <1>8, <1>9, <1>10, <1>11,
     <1>12, <1>13, <1>14, <1>15
     DEF Step

\* No two goroutines of the manager ever wait for each other.
THEOREM NobodyWaitsInACircle == Spec => []NoCircle
<1>1. Init => JoinInv
  BY DEF Init, JoinInv
<1>2. ASSUME IInv, JoinInv, [Next]_vars PROVE JoinInv'
  <2>1. CASE Next
    BY <1>2, <2>1, Steps, JoinInvKept DEF IInv, CtlInv
  <2>2. CASE UNCHANGED vars
    BY <1>2, <2>2 DEF vars, callVars, runVars, JoinInv
  <2>3. QED
    BY <1>2, <2>1, <2>2
<1>3. ASSUME CtlInv, JoinInv PROVE NoCircle
  <2>1. ASSUME NEW c \in Callers, pc[c] = "lock", toggling # None
        PROVE  /\ toggling \in Callers \ {c}
               /\ pc[toggling] \notin {"idle", "lock"}
    <3>1. toggling \in Callers
      BY <1>3, <2>1 DEF CtlInv, CtlOK
    <3>2. pc[toggling] \notin {"idle", "lock"}
      BY <1>3, <3>1 DEF CtlInv, MutexInv
    <3>3. QED
      BY <2>1, <3>1, <3>2
  <2>2. ASSUME NEW p \in Stoppers, pc[p] = "join"
        PROVE  /\ target[p] \in Runs /\ cancelled[target[p]]
               /\ drain[target[p]] \in {"select", "poll", "publish", "ended",
                                        "done"}
    <3>1. target[p] \in Runs /\ drain[target[p]] # "none"
      BY <1>3, <2>2 DEF CtlInv, StopInv, Stopping
    <3>2. cancelled[target[p]]
      BY <1>3, <2>2 DEF JoinInv
    <3>3. drain[target[p]] \in DrainStates
      BY <1>3, <3>1 DEF CtlInv, CtlOK
    <3>4. QED
      BY <3>1, <3>2, <3>3 DEF DrainStates
  <2>3. QED
    BY <2>1, <2>2 DEF NoCircle
<1>4. QED
  BY Invariant, <1>1, <1>2, <1>3, PTL DEF Spec, IInv

-----------------------------------------------------------------------------
(* The manager is one slot.                                                *)

phases == [r \in Runs |-> PhaseOf(r)]

\* What a step does to the phases, capture by capture, is what it does to the
\* slot.
LEMMA SlotStep ==
  ASSUME CtlOK, StopInv, StartInv, RunInv, WhyInv, Step
  PROVE  Slot!Next \/ UNCHANGED <<run, phases, reason>>
<1> USE Apart DEF phases
<1>1. ASSUME NEW c \in Callers, Installs(c) PROVE Slot!Next
  <2>1. PICK r \in Runs : r = target[c]
    BY <1>1, RunsFacts DEF Installs, StartInv, Building
  <2>2. drain[r] = "none" /\ run = None
    BY <1>1, <2>1 DEF Installs, StartInv, Building
  <2>3. /\ run' = r /\ UNCHANGED reason
        /\ drain' = [drain EXCEPT ![r] = "select"]
    BY <1>1, <2>1 DEF Installs
  <2>4. PhaseOf(r) = "new" /\ PhaseOf(r)' = "running"
    BY <2>2, <2>3 DEF PhaseOf, CtlOK
  <2>5. \A q \in Runs : q # r => PhaseOf(q)' = PhaseOf(q)
    BY <2>2, <2>3 DEF PhaseOf, CtlOK
  <2>6. phases' = [phases EXCEPT ![r] = "running"]
    BY <2>4, <2>5
  <2>7. Slot!Begin(r)
    BY <2>2, <2>3, <2>4, <2>6 DEF Slot!Begin
  <2>8. QED
    BY <2>7 DEF Slot!Next
<1>2. ASSUME NEW p \in Stoppers, Takes(p) PROVE Slot!Next
  <2>1. /\ run \in Runs /\ Alive(run) /\ ReasonOf(p) \in StopReasons
    BY <1>2, ReasonTaken DEF Takes, RunInv, CtlOK
  <2>2. /\ run' = None /\ UNCHANGED drain
        /\ reason' = [reason EXCEPT ![run] = ReasonOf(p)]
    BY <1>2 DEF Takes
  <2>3. PhaseOf(run) = "running"
    BY <2>1 DEF PhaseOf, Alive
  <2>4. \A r \in Runs : PhaseOf(r)' = IF r = run THEN "ended" ELSE PhaseOf(r)
    BY <2>1, <2>2 DEF PhaseOf, Alive
  <2>5. phases' = [phases EXCEPT ![run] = "ended"]
    BY <2>1, <2>4
  <2>6. Slot!End(ReasonOf(p))
    BY <2>1, <2>2, <2>5 DEF Slot!End
  <2>7. QED
    BY <2>1, <2>6 DEF Slot!Next
<1>3. ASSUME NEW r \in Runs, Finishes(r) PROVE Slot!Next
  <2>1. /\ UNCHANGED <<run, reason>> /\ run # r
        /\ drain[r] \in {"select", "ended"}
        /\ drain' = [drain EXCEPT ![r] = "done"]
    BY <1>3 DEF Finishes, RunInv
  <2>2. PhaseOf(r) = "ended" /\ PhaseOf(r)' = "closed"
    BY <2>1 DEF PhaseOf, CtlOK
  <2>3. \A q \in Runs : q # r => PhaseOf(q)' = PhaseOf(q)
    BY <2>1 DEF PhaseOf, CtlOK
  <2>4. phases' = [phases EXCEPT ![r] = "closed"]
    BY <2>2, <2>3
  <2>5. Slot!Close(r)
    BY <2>1, <2>2, <2>4 DEF Slot!Close
  <2>6. QED
    BY <2>5 DEF Slot!Next
<1>4. ASSUME UNCHANGED <<run, reason>>,
             \A q \in Runs :
               \/ drain'[q] = drain[q]
               \/ /\ drain[q] \in {"select", "poll", "publish", "ended"}
                  /\ drain'[q] \in {"select", "poll", "publish", "ended"}
      PROVE  UNCHANGED <<run, phases, reason>>
  <2>1. \A q \in Runs : PhaseOf(q)' = PhaseOf(q)
    BY <1>4 DEF PhaseOf
  <2>2. QED
    BY <1>4, <2>1
<1>5. ASSUME NEW r \in Runs, NEW w \in DrainReasons, Decides(r, w)
      PROVE  UNCHANGED <<run, phases, reason>>
  <2>1. /\ UNCHANGED <<run, reason>> /\ drain[r] \in {"select", "poll"}
        /\ \A q \in Runs : drain'[q] = IF q = r THEN "ended" ELSE drain[q]
    BY <1>5 DEF Decides, CtlOK
  <2>2. QED
    BY <1>4, <2>1
<1>6. ASSUME NEW r \in Runs, NEW next \in DrainSteps, Drains(r, next)
      PROVE  UNCHANGED <<run, phases, reason>>
  <2>1. /\ UNCHANGED <<run, reason>>
        /\ drain[r] \in {"select", "poll", "publish"}
        /\ \A q \in Runs : drain'[q] = IF q = r THEN next ELSE drain[q]
    BY <1>6 DEF Drains, CtlOK
  <2>2. QED
    BY <1>4, <2>1 DEF DrainSteps
<1>7. CASE UNCHANGED <<run, reason, drain>>
  BY <1>7, <1>4
<1>8. ASSUME NEW p \in Stoppers, Asks(p) \/ Cancels(p) \/ Joins(p) \/ Gives(p)
      PROVE  UNCHANGED <<run, reason, drain>>
  BY <1>8 DEF Asks, Cancels, Joins, Gives
<1>9. ASSUME NEW c \in Callers, Replaces(c) \/ Leaves(c) \/ Locks(c)
             \/ Reserves(c)
      PROVE  UNCHANGED <<run, reason, drain>>
  BY <1>9 DEF Replaces, Leaves, Locks, Reserves
<1>10. ASSUME NEW c \in Callers, NEW next \in BuildSteps, Builds(c, next)
       PROVE  UNCHANGED <<run, reason, drain>>
  BY <1>10 DEF Builds
<1>11. UNCHANGED ctl => UNCHANGED <<run, reason, drain>>
  BY DEF ctl
<1>12. \/ Slot!Next \/ UNCHANGED <<run, phases, reason>>
       \/ UNCHANGED <<run, reason, drain>>
  BY <1>1, <1>2, <1>3, <1>5, <1>6, <1>8, <1>9, <1>10, <1>11 DEF Step
<1>13. QED
  BY <1>7, <1>12

\* The goroutines of the manager implement one slot that holds one capture at a
\* time, ends it once and for one reason, and closes it after that.
THEOREM ManagerIsASlot == Spec => ImplementsSlot
<1>1. Init => Slot!Init
  BY Apart DEF Init, Slot!Init, PhaseOf
<1>2. IInv /\ [Next]_vars => [Slot!Next]_Slot!vars
  <2> SUFFICES ASSUME IInv, [Next]_vars
               PROVE  Slot!Next \/ UNCHANGED Slot!vars
    OBVIOUS
  <2>1. CASE Next
    BY <2>1, Steps, SlotStep DEF IInv, CtlInv, Slot!vars, phases
  <2>2. CASE UNCHANGED vars
    BY <2>2 DEF vars, managerVars, runVars, Slot!vars, PhaseOf
  <2>3. QED
    BY <2>1, <2>2
<1>3. QED
  BY Invariant, <1>1, <1>2, PTL DEF Spec, ImplementsSlot, Slot!Spec

-----------------------------------------------------------------------------
(* The event sessions.                                                     *)

\* A handler that has started its event session has it still; a stopper that
\* drops one has seen its drain end; and one that is drained is there, unless
\* a sweep found it past twice the cap.
SessionInv ==
  /\ \A c \in Callers :
       pc[c] \in {"file", "install"} => session[target[c]] = "started"
  /\ \A p \in Stoppers : pc[p] = "drop" => drain[target[p]] = "done"
  /\ \A r \in Runs : Alive(r) =>
       session[r] = "started" \/ (session[r] = "dropped" /\ age[r] = 2)

HeldInv == EventSessionAccounted /\ SessionInv

\* A step that touches no event session keeps them accounted for when it lets
\* nobody go who has one in hand.
LEMMA HandsKept ==
  ASSUME EventSessionAccounted, UNCHANGED <<session, troubled>>,
         run' = run \/ run = None,
         \A p \in Stoppers : Stopping(p) => Stopping(p)' /\ target'[p] = target[p],
         \A c \in Callers : Starting(c) => Starting(c)' /\ target'[c] = target[c]
  PROVE  EventSessionAccounted'
<1> SUFFICES ASSUME NEW r \in Runs, Exists(r)', run' # r, r \notin troubled'
             PROVE  \/ \E p \in Stoppers : Stopping(p)' /\ target'[p] = r
                    \/ \E c \in Callers : Starting(c)' /\ target'[c] = r
  BY DEF EventSessionAccounted
<1>1. Exists(r) /\ r \notin troubled
  BY DEF Exists
<1>2. run # r
  BY Apart
<1> QED
  BY <1>1, <1>2 DEF EventSessionAccounted

LEMMA HeldKept == ASSUME IInv, HeldInv, Next PROVE HeldInv'
<1> USE Apart DEF Goto, managerVars, runVars, callVars, serverVars
<1> USE DEF HeldInv, SessionInv, Alive, Stopping, Starting
<1>0. CtlOK /\ StopInv /\ StartInv /\ MutexInv /\ WhyInv /\ ServerOK
  BY TypeSplit DEF IInv, CtlInv
<1>1. ASSUME NEW p \in Stoppers, StopNothing(p) PROVE HeldInv'
  BY <1>0, <1>1, HandsKept DEF StopNothing, Stopped, Unlock, CtlOK
<1>3. ASSUME NEW p \in Stoppers, StopCancel(p) PROVE HeldInv'
  BY <1>0, <1>3, HandsKept DEF StopCancel, CtlOK
<1>4. ASSUME NEW p \in Stoppers, StopJoin(p) PROVE HeldInv'
  BY <1>0, <1>4, HandsKept DEF StopJoin, CtlOK
<1>6. ASSUME NEW c \in Callers, Lock(c) PROVE HeldInv'
  BY <1>0, <1>6, HandsKept DEF Lock, CtlOK
<1>7. ASSUME NEW c \in Callers, StartWatch(c) PROVE HeldInv'
  BY <1>0, <1>7, HandsKept DEF StartWatch, Unlock, CtlOK
<1>11. ASSUME NEW c \in Callers, StartFile(c) PROVE HeldInv'
  BY <1>0, <1>11, HandsKept DEF StartFile, CtlOK
<1>14. ASSUME NEW r \in Runs, TickCheck(r) PROVE HeldInv'
  <2>1. pc[r] = "idle" /\ r \in Stoppers /\ drain[r] \notin {"none", "done"}
    BY <1>0, <1>14 DEF TickCheck, WhyInv
  <2>2. /\ UNCHANGED <<run, session, troubled, target, age>>
        /\ \A p \in Stoppers : pc'[p] = pc[p] \/ (p = r /\ pc'[p] = "take")
        /\ \A q \in Runs : drain'[q] = drain[q] \/ (q = r /\ drain'[q] \notin {"none", "done"})
    BY <1>0, <1>14 DEF TickCheck, Over, CtlOK
  <2>3. EventSessionAccounted'
    BY <2>1, <2>2, HandsKept
  <2>4. SessionInv'
    BY <1>0, <2>1, <2>2 DEF StopInv
  <2> QED
    BY <2>3, <2>4
<1>15. ASSUME NEW r \in Runs, PollFails(r) PROVE HeldInv'
  <2>1. pc[r] = "idle" /\ r \in Stoppers /\ drain[r] \notin {"none", "done"}
    BY <1>0, <1>15 DEF PollFails, WhyInv
  <2>2. /\ UNCHANGED <<run, session, troubled, target, age>>
        /\ \A p \in Stoppers : pc'[p] = pc[p] \/ (p = r /\ pc'[p] = "take")
        /\ \A q \in Runs : drain'[q] = drain[q] \/ (q = r /\ drain'[q] \notin {"none", "done"})
    <3>1. \/ /\ drain' = [drain EXCEPT ![r] = "ended"]
             /\ pc' = [pc EXCEPT ![r] = "take"]
          \/ drain' = [drain EXCEPT ![r] = "select"] /\ pc' = pc
      BY <1>15 DEF PollFails, Over
    <3>2. UNCHANGED <<run, session, troubled, target, age>>
      BY <1>15 DEF PollFails
    <3> QED
      BY <1>0, <3>1, <3>2 DEF CtlOK
  <2>3. EventSessionAccounted'
    BY <2>1, <2>2, HandsKept
  <2>4. SessionInv'
    BY <1>0, <2>1, <2>2 DEF StopInv
  <2> QED
    BY <2>3, <2>4
<1>16. ASSUME NEW r \in Runs, Poll(r) PROVE HeldInv'
  BY <1>0, <1>16, HandsKept DEF Poll, CtlOK
<1>17. ASSUME NEW r \in Runs, Publish(r) PROVE HeldInv'
  BY <1>0, <1>17, HandsKept DEF Publish, CtlOK
<1>18. ASSUME NEW r \in Runs, Finish(r) PROVE HeldInv'
  BY <1>0, <1>18, HandsKept DEF Finish, CtlOK
<1>20. ASSUME NEW c \in Callers, NEW s \in Spids, Press(c, s) PROVE HeldInv'
  BY <1>0, <1>20, HandsKept DEF Press, CtlOK
<1>21. ASSUME NEW p \in Outsiders, OutsiderStops(p) PROVE HeldInv'
  BY <1>0, <1>21, HandsKept DEF OutsiderStops, CtlOK
<1>2. ASSUME NEW p \in Stoppers, StopTake(p) PROVE HeldInv'
  <2>1. EventSessionAccounted'
    BY <1>0, <1>2 DEF StopTake, CtlOK, EventSessionAccounted, Exists
  <2>2. SessionInv'
    BY <1>0, <1>2 DEF StopTake, CtlOK
  <2> QED
    BY <2>1, <2>2
<1>5. ASSUME NEW p \in Stoppers, StopDrop(p) PROVE HeldInv'
  <2>1. PICK ok \in BOOLEAN : DropSession(target[p], ok) /\ Stopped(p, ok)
    BY <1>5 DEF StopDrop
  <2>2. target[p] \in Runs /\ drain[target[p]] = "done" /\ pc[p] = "drop"
    BY <1>0, <1>5 DEF StopDrop, StopInv
  <2>3. UNCHANGED <<run, drain, age>>
    BY <1>5 DEF StopDrop
  <2>4. \A q \in Stoppers : q # p => pc'[q] = pc[q] /\ target'[q] = target[q]
    BY <1>0, <2>1 DEF Stopped, Unlock, CtlOK
  <2>5. pc'[p] \in {"watch", "idle"}
    BY <1>0, <2>1 DEF Stopped, Unlock, CtlOK
  <2>6. /\ \A r \in Runs : r # target[p] => session'[r] = session[r]
        /\ session'[target[p]] = "dropped" \/ target[p] \in troubled'
        /\ troubled \subseteq troubled'
    BY <1>0, <2>1, <2>2 DEF DropSession, Statement, ServerOK
  <2>7. EventSessionAccounted'
    BY <2>2, <2>3, <2>4, <2>5, <2>6 DEF EventSessionAccounted, Exists
  <2>8. \A c \in Callers : pc[c] \in {"file", "install"} => target[c] \in Runs /\ target[c] # target[p]
    BY <1>0, <2>2, RunsFacts DEF StartInv, Building
  <2>9. SessionInv'
    BY <1>0, <2>2, <2>3, <2>4, <2>5, <2>6, <2>8
  <2> QED
    BY <2>7, <2>9
<1>8. ASSUME NEW c \in Callers, StartSweep(c) PROVE HeldInv'
  <2>1. PICK gone \in SUBSET Swept :
          session' = [r \in Runs |-> IF r \in gone THEN "dropped" ELSE session[r]]
    BY <1>8 DEF StartSweep
  <2>2. /\ pc[c] = "sweep" /\ UNCHANGED <<run, drain, age, troubled>>
        /\ \A q \in Stoppers : q # c => pc'[q] = pc[q] /\ target'[q] = target[q]
        /\ pc'[c] \in {"create", "idle"}
    BY <1>0, <1>8 DEF StartSweep, Unlock, CtlOK
  <2>3. EventSessionAccounted'
    BY <2>1, <2>2 DEF EventSessionAccounted, Exists
  <2>4. \A d \in Callers \ {c} : pc[d] \in {"idle", "lock"}
    BY <1>0, <2>2 DEF MutexInv
  <2>5. SessionInv'
    BY <2>1, <2>2, <2>4 DEF Swept
  <2> QED
    BY <2>3, <2>5
<1>9. ASSUME NEW c \in Callers, StartCreate(c) PROVE HeldInv'
  <2>1. PICK ok \in BOOLEAN :
          /\ CreateSession(target[c], ok)
          /\ pc'[c] = IF ok THEN "start" ELSE "idle"
          /\ ok => target' = target
    BY <1>0, <1>9 DEF StartCreate, Unlock, CtlOK
  <2>2. /\ pc[c] = "create" /\ UNCHANGED <<run, drain, age>>
        /\ \A q \in Stoppers : q # c => pc'[q] = pc[q] /\ target'[q] = target[q]
    BY <1>0, <1>9 DEF StartCreate, Unlock, CtlOK
  <2>3. target[c] \in Runs /\ drain[target[c]] = "none"
    BY <1>0, <2>2, RunsFacts DEF StartInv, Building
  <2>4. /\ \A r \in Runs : r # target[c] => session'[r] = session[r]
        /\ ok \/ target[c] \in troubled'
        /\ troubled \subseteq troubled'
    BY <1>0, <2>1, <2>3 DEF CreateSession, Statement, ServerOK
  <2>5. EventSessionAccounted'
    BY <2>1, <2>2, <2>3, <2>4 DEF EventSessionAccounted, Exists
  <2>6. \A d \in Callers \ {c} : pc[d] \in {"idle", "lock"}
    BY <1>0, <2>2 DEF MutexInv
  <2>7. SessionInv'
    BY <2>1, <2>2, <2>3, <2>4, <2>6
  <2> QED
    BY <2>5, <2>7
<1>10. ASSUME NEW c \in Callers, StartStart(c) PROVE HeldInv'
  <2>1. PICK ok \in BOOLEAN : /\ StartSession(target[c], ok)
                              /\ pc'[c] = IF ok THEN "file" ELSE "undo"
    BY <1>0, <1>10 DEF StartStart, CtlOK
  <2>2. /\ pc[c] = "start" /\ UNCHANGED <<run, drain, age, target>>
        /\ \A q \in Stoppers : q # c => pc'[q] = pc[q]
    BY <1>0, <1>10 DEF StartStart, CtlOK
  <2>3. target[c] \in Runs /\ drain[target[c]] = "none"
    BY <1>0, <2>2, RunsFacts DEF StartInv, Building
  <2>4. /\ \A r \in Runs : r # target[c] => session'[r] = session[r]
        /\ ok => session'[target[c]] = "started"
        /\ troubled \subseteq troubled'
    BY <1>0, <2>1, <2>3 DEF StartSession, Statement, ServerOK
  <2>5. EventSessionAccounted'
    BY <2>1, <2>2, <2>3, <2>4 DEF EventSessionAccounted, Exists
  <2>6. \A d \in Callers \ {c} : pc[d] \in {"idle", "lock"}
    BY <1>0, <2>2 DEF MutexInv
  <2>7. SessionInv'
    BY <2>1, <2>2, <2>3, <2>4, <2>6
  <2> QED
    BY <2>5, <2>7
<1>12. ASSUME NEW c \in Callers, StartUndo(c) PROVE HeldInv'
  <2>1. PICK ok \in BOOLEAN : DropSession(target[c], ok)
    BY <1>12 DEF StartUndo
  <2>2. /\ pc[c] = "undo" /\ pc'[c] = "idle" /\ UNCHANGED <<run, drain, age>>
        /\ \A q \in Stoppers : q # c => pc'[q] = pc[q] /\ target'[q] = target[q]
    BY <1>0, <1>12 DEF StartUndo, Unlock, CtlOK
  <2>3. target[c] \in Runs /\ drain[target[c]] = "none"
    BY <1>0, <2>2, RunsFacts DEF StartInv, Building
  <2>4. /\ \A r \in Runs : r # target[c] => session'[r] = session[r]
        /\ session'[target[c]] = "dropped" \/ target[c] \in troubled'
        /\ troubled \subseteq troubled'
    BY <1>0, <2>1, <2>3 DEF DropSession, Statement, ServerOK
  <2>5. EventSessionAccounted'
    BY <2>1, <2>2, <2>3, <2>4 DEF EventSessionAccounted, Exists
  <2>6. \A d \in Callers \ {c} : pc[d] \in {"idle", "lock"}
    BY <1>0, <2>2 DEF MutexInv
  <2>7. SessionInv'
    BY <2>1, <2>2, <2>3, <2>4, <2>6
  <2> QED
    BY <2>5, <2>7
<1>13. ASSUME NEW c \in Callers, StartInstall(c) PROVE HeldInv'
  <2>1. /\ pc[c] = "install" /\ pc'[c] = "idle" /\ run' = target[c]
        /\ UNCHANGED <<session, age, troubled>>
        /\ \A q \in Stoppers : q # c => pc'[q] = pc[q] /\ target'[q] = target[q]
        /\ \A r \in Runs : drain'[r] = IF r = target[c] THEN "select" ELSE drain[r]
    BY <1>0, <1>13 DEF StartInstall, Unlock, CtlOK
  <2>2. /\ target[c] \in Runs /\ drain[target[c]] = "none" /\ run = None
    BY <1>0, <2>1, RunsFacts DEF StartInv, Building
  <2>3. EventSessionAccounted'
    BY <2>1, <2>2 DEF EventSessionAccounted, Exists
  <2>4. SessionInv'
    BY <1>0, <2>1, <2>2 DEF StopInv
  <2> QED
    BY <2>3, <2>4
<1>19. CASE ServerNext
  <2>1. ASSUME NEW s \in Spids, SessionEnds(s) \/ SessionBegins(s) PROVE HeldInv'
    BY <2>1, HandsKept DEF SessionEnds, SessionBegins
  <2>2. ASSUME NEW r \in Runs, Ages(r) PROVE HeldInv'
    BY <1>0, <2>2, HandsKept DEF Ages, ServerOK
  <2> QED
    BY <1>19, <2>1, <2>2 DEF ServerNext
<1> QED
  BY <1>1, <1>2, <1>3, <1>4, <1>5, <1>6, <1>7, <1>8, <1>9, <1>10, <1>11, <1>12,
     <1>13, <1>14, <1>15, <1>16, <1>17, <1>18, <1>19, <1>20, <1>21
     DEF Next, ManagerNext, StopStep, ToggleStep, Tick

LEMMA HeldAlways == Spec => []HeldInv
<1>1. Init => HeldInv
  BY Apart DEF Init, HeldInv, SessionInv, EventSessionAccounted, Exists, Alive
<1>2. IInv /\ HeldInv /\ [Next]_vars => HeldInv'
  <2>1. CASE UNCHANGED vars
    BY <2>1 DEF vars, managerVars, runVars, callVars, serverVars, HeldInv, SessionInv, EventSessionAccounted,
                Exists, Alive, Stopping, Starting
  <2> QED
    BY <2>1, HeldKept
<1> QED
  BY <1>1, <1>2, Invariant, PTL DEF Spec

\* No event session exists that nobody has in hand, unless a statement sent for
\* it failed.
THEOREM NothingIsForgotten == Spec => []EventSessionAccounted
<1>1. HeldInv => EventSessionAccounted
  BY DEF HeldInv
<1> QED
  BY <1>1, HeldAlways, PTL

\* However a capture ends, what its drain read is on file before its event
\* session is dropped.
THEOREM DropsWaitForTheDrain == Spec => []DrainedBeforeDrop
<1>1. HeldInv => DrainedBeforeDrop
  BY DEF HeldInv, SessionInv, DrainedBeforeDrop
<1> QED
  BY <1>1, HeldAlways, PTL

-----------------------------------------------------------------------------
(* The panel.                                                              *)

\* Nothing but a start, and the stop that takes the run, touches the run held,
\* a reason, or what the panel says of either.
LEMMA PanelNamesKept == ASSUME IInv, PanelNamesTheRun, Next PROVE PanelNamesTheRun'
<1> USE DEF managerVars, runVars, serverVars
<1>0. /\ CtlOK /\ StopInv /\ StartInv
      /\ st \in [active : BOOLEAN, run : Runs \cup {None},
                 stopped : StopReasons \cup {None}, statements : Nat]
  BY TypeSplit DEF IInv, CtlInv, PanelOK
<1>1. ASSUME NEW p \in Stoppers, StopTake(p) PROVE PanelNamesTheRun'
  BY <1>0, <1>1 DEF StopTake, PanelNamesTheRun, CtlOK
<1>2. ASSUME NEW c \in Callers, StartInstall(c) PROVE PanelNamesTheRun'
  <2>1. target[c] \in Runs
    BY <1>0, <1>2, RunsFacts DEF StartInstall, StartInv, Building
  <2> QED
    BY <1>2, <2>1, Apart DEF StartInstall, PanelNamesTheRun
<1>3. ASSUME NEW r \in Runs, Publish(r) PROVE PanelNamesTheRun'
  BY <1>0, <1>3 DEF Publish, PanelNamesTheRun
<1>4. CASE UNCHANGED <<st, run, reason>>
  BY <1>4 DEF PanelNamesTheRun
<1>5. ASSUME NEW p \in Stoppers,
             StopNothing(p) \/ StopCancel(p) \/ StopJoin(p) \/ StopDrop(p)
      PROVE  UNCHANGED <<st, run, reason>>
  BY <1>5 DEF StopNothing, StopCancel, StopJoin, StopDrop
<1>6. ASSUME NEW c \in Callers,
             \/ Lock(c) \/ StartWatch(c) \/ StartSweep(c) \/ StartCreate(c)
             \/ StartStart(c) \/ StartFile(c) \/ StartUndo(c)
      PROVE  UNCHANGED <<st, run, reason>>
  BY <1>6 DEF Lock, StartWatch, StartSweep, StartCreate, StartStart, StartFile, StartUndo
<1>7. ASSUME NEW r \in Runs, TickCheck(r) \/ PollFails(r) \/ Poll(r) \/ Finish(r)
      PROVE  UNCHANGED <<st, run, reason>>
  BY <1>7 DEF TickCheck, PollFails, Poll, Finish
<1>8. CASE ServerNext
  BY <1>4, <1>8 DEF ServerNext, SessionEnds, SessionBegins, Ages
<1>9. ASSUME NEW c \in Callers, NEW s \in Spids, Press(c, s)
      PROVE  UNCHANGED <<st, run, reason>>
  BY <1>9 DEF Press
<1>10. ASSUME NEW p \in Outsiders, OutsiderStops(p) PROVE UNCHANGED <<st, run, reason>>
  BY <1>10 DEF OutsiderStops
<1> QED
  BY <1>1, <1>2, <1>3, <1>4, <1>5, <1>6, <1>7, <1>8, <1>9, <1>10
     DEF Next, ManagerNext, StopStep, ToggleStep, Tick

\* The panel speaks of the capture that runs, or of how the last one ended.
THEOREM PanelIsOfOneCapture == Spec => []PanelNamesTheRun
<1>1. Init => PanelNamesTheRun
  BY DEF Init, PanelNamesTheRun
<1>2. IInv /\ PanelNamesTheRun /\ [Next]_vars => PanelNamesTheRun'
  <2>1. CASE UNCHANGED vars
    BY <2>1 DEF vars, managerVars, runVars, PanelNamesTheRun
  <2> QED
    BY <2>1, PanelNamesKept
<1> QED
  BY <1>1, <1>2, Invariant, PTL DEF Spec

-----------------------------------------------------------------------------
(* The rows of the panel.                                                 *)

\* What stands where in a stretch of a file.
LEMMA RecordsFacts ==
  ASSUME NEW r \in Runs, NEW lo \in Nat, NEW hi \in Nat, lo >= 1, hi >= lo - 1
  PROVE  /\ Records(r, lo, hi) \in Seq(Runs \X Nat)
         /\ Len(Records(r, lo, hi)) = hi - lo + 1
         /\ \A i \in 1 .. hi - lo + 1 : Records(r, lo, hi)[i] = <<r, lo + i - 1>>
<1> DEFINE q == Records(r, lo, hi)
<1>1. DOMAIN q = 1 .. hi - lo + 1 /\ \A i \in 1 .. hi - lo + 1 : q[i] = <<r, lo + i - 1>>
  BY DEF Records
<1>2. q \in Seq(Runs \X Nat)
  BY RecordsTyped
<1> HIDE DEF q
<1>3. PICK n \in Nat : n = hi - lo + 1
  OBVIOUS
<1>4. Len(q) \in Nat /\ DOMAIN q = 1 .. Len(q)
  BY <1>2, LenProperties
<1>5. Len(q) = n
  BY ONLY n \in Nat, <1>1, <1>3, <1>4
<1> QED
  BY <1>1, <1>2, <1>3, <1>5 DEF q

\* A stretch is known by its length and its entries.
LEMMA IsRecords ==
  ASSUME NEW r \in Runs, NEW lo \in Nat, NEW hi \in Nat, lo >= 1, hi >= lo - 1,
         NEW S, NEW q \in Seq(S), Len(q) = hi - lo + 1,
         \A i \in 1 .. hi - lo + 1 : q[i] = <<r, lo + i - 1>>
  PROVE  q = Records(r, lo, hi)
<1>1. DOMAIN q = 1 .. hi - lo + 1 /\ q = [i \in DOMAIN q |-> q[i]]
  BY LenProperties
<1> QED
  BY <1>1 DEF Records

\* Two stretches that meet are one.
LEMMA RecordsJoin ==
  ASSUME NEW r \in Runs, NEW lo \in Nat, NEW mid \in Nat, NEW hi \in Nat,
         lo >= 1, mid >= lo - 1, hi >= mid
  PROVE  Records(r, lo, mid) \o Records(r, mid + 1, hi) = Records(r, lo, hi)
<1> DEFINE A == Records(r, lo, mid)
           B == Records(r, mid + 1, hi)
<1>1. /\ A \in Seq(Runs \X Nat) /\ Len(A) = mid - lo + 1
      /\ \A i \in 1 .. mid - lo + 1 : A[i] = <<r, lo + i - 1>>
  BY RecordsFacts
<1>2. /\ B \in Seq(Runs \X Nat) /\ Len(B) = hi - mid
      /\ \A i \in 1 .. hi - mid : B[i] = <<r, mid + i>>
  <2>1. mid + 1 \in Nat /\ mid + 1 >= 1 /\ hi >= (mid + 1) - 1
    OBVIOUS
  <2>2. /\ B \in Seq(Runs \X Nat) /\ Len(B) = hi - (mid + 1) + 1
        /\ \A i \in 1 .. hi - (mid + 1) + 1 : B[i] = <<r, (mid + 1) + i - 1>>
    BY <2>1, RecordsFacts
  <2>3. hi - (mid + 1) + 1 = hi - mid /\ \A i \in 1 .. hi - mid : (mid + 1) + i - 1 = mid + i
    OBVIOUS
  <2> QED
    BY <2>2, <2>3
<1> HIDE DEF A, B
<1>3. /\ A \o B \in Seq(Runs \X Nat)
      /\ Len(A \o B) = Len(A) + Len(B)
      /\ \A i \in 1 .. Len(A) + Len(B) :
           (A \o B)[i] = IF i <= Len(A) THEN A[i] ELSE B[i - Len(A)]
  BY <1>1, <1>2, ConcatProperties
<1> DEFINE whole == A \o B
<1>4. whole \in Seq(Runs \X Nat) /\ Len(whole) = hi - lo + 1
  BY <1>1, <1>2, <1>3
<1>5. ASSUME NEW i \in 1 .. hi - lo + 1 PROVE whole[i] = <<r, lo + i - 1>>
  <2> DEFINE n == mid - lo + 1
  <2>1. whole[i] = IF i <= n THEN A[i] ELSE B[i - n]
    BY <1>1, <1>2, <1>3
  <2> HIDE DEF whole
  <2>2. CASE i <= n
    BY <1>1, <2>1, <2>2
  <2>3. CASE ~(i <= n)
    <3>1. i - n \in 1 .. hi - mid /\ mid + (i - n) = lo + i - 1
      BY <2>3
    <3> QED
      BY <1>2, <2>1, <2>3, <3>1
  <2> QED
    BY <2>2, <2>3
<1> HIDE DEF whole
<1>6. hi >= lo - 1 /\ \A i \in 1 .. hi - lo + 1 : whole[i] = <<r, lo + i - 1>>
  BY <1>5
<1>7. whole = Records(r, lo, hi)
  BY <1>4, <1>6, IsRecords
<1> QED
  BY <1>7 DEF whole, A, B

\* The tail of a stretch is a stretch.
LEMMA RecordsTail ==
  ASSUME NEW r \in Runs, NEW lo \in Nat, NEW hi \in Nat, lo >= 1, hi >= lo - 1,
         NEW k \in Nat
  PROVE  LastOf(Records(r, lo, hi), k)
           = Records(r, IF hi - lo + 1 > k THEN hi - k + 1 ELSE lo, hi)
<1> DEFINE q == Records(r, lo, hi)
           n == hi - lo + 1
           from == IF n > k THEN n - k + 1 ELSE 1
           new == IF n > k THEN hi - k + 1 ELSE lo
<1>1. /\ n \in Nat /\ from \in Nat /\ from >= 1 /\ from <= n + 1
      /\ new \in Nat /\ new >= 1 /\ hi >= new - 1
      /\ n - from + 1 = hi - new + 1
      /\ \A i \in 1 .. hi - new + 1 :
           from + i - 1 \in 1 .. n /\ lo + (from + i - 1) - 1 = new + i - 1
  OBVIOUS
<1>2. q \in Seq(Runs \X Nat) /\ Len(q) = n /\ \A i \in 1 .. n : q[i] = <<r, lo + i - 1>>
  BY RecordsFacts
<1> HIDE DEF q
<1>3. LastOf(q, k) = SubSeq(q, from, n)
  BY <1>2 DEF LastOf
<1> HIDE DEF n, from, new
<1>4. \A i \in from .. n : q[i] \in Runs \X Nat
  BY <1>1, <1>2, LenProperties
<1> DEFINE t == SubSeq(q, from, n)
<1>5. /\ t \in Seq(Runs \X Nat)
      /\ Len(t) = IF from <= n THEN n - from + 1 ELSE 0
      /\ \A i \in 1 .. n - from + 1 : t[i] = q[from + i - 1]
  BY ONLY <1>1, <1>4, SubSeqProperties
<1> HIDE DEF t
<1>6. Len(t) = hi - new + 1 /\ \A i \in 1 .. hi - new + 1 : t[i] = <<r, new + i - 1>>
  <2>1. Len(t) = hi - new + 1
    BY <1>1, <1>5
  <2>2. ASSUME NEW i \in 1 .. hi - new + 1 PROVE t[i] = <<r, new + i - 1>>
    <3>1. t[i] = q[from + i - 1]
      BY <1>1, <1>5
    <3>2. q[from + i - 1] = <<r, lo + (from + i - 1) - 1>>
      BY <1>1, <1>2
    <3> QED
      BY <1>1, <3>1, <3>2
  <2> QED
    BY <2>1, <2>2
<1>7. t = Records(r, new, hi)
  BY <1>1, <1>5, <1>6, IsRecords
<1> QED
  BY <1>3, <1>7 DEF t, q, n, new

\* What a tail is followed by makes the tail of the whole.
LEMMA TailGrows ==
  ASSUME NEW r \in Runs, NEW a \in Nat, NEW b \in Nat, a <= b, NEW k \in Nat
  PROVE  LastOf(LastOf(Records(r, 1, a), k) \o Records(r, a + 1, b), k)
           = LastOf(Records(r, 1, b), k)
<1> DEFINE from == IF a > k THEN a - k + 1 ELSE 1
<1>1. from \in Nat /\ from >= 1 /\ a >= from - 1 /\ b >= from - 1
  OBVIOUS
<1>2. LastOf(Records(r, 1, a), k) = Records(r, from, a)
  <2>1. 1 \in Nat /\ 1 >= 1 /\ a >= 1 - 1 /\ a - 1 + 1 = a
    OBVIOUS
  <2>2. LastOf(Records(r, 1, a), k) = Records(r, IF a - 1 + 1 > k THEN a - k + 1 ELSE 1, a)
    BY <2>1, RecordsTail
  <2> QED
    BY <2>1, <2>2
<1>3. LastOf(Records(r, 1, b), k) = Records(r, IF b > k THEN b - k + 1 ELSE 1, b)
  <2>1. 1 \in Nat /\ 1 >= 1 /\ b >= 1 - 1 /\ b - 1 + 1 = b
    OBVIOUS
  <2>2. LastOf(Records(r, 1, b), k) = Records(r, IF b - 1 + 1 > k THEN b - k + 1 ELSE 1, b)
    BY <2>1, RecordsTail
  <2> QED
    BY <2>1, <2>2
<1> HIDE DEF from
<1>4. Records(r, from, a) \o Records(r, a + 1, b) = Records(r, from, b)
  BY <1>1, RecordsJoin
<1>5. LastOf(Records(r, from, b), k)
        = Records(r, IF b - from + 1 > k THEN b - k + 1 ELSE from, b)
  BY <1>1, RecordsTail
<1>6. (IF b - from + 1 > k THEN b - k + 1 ELSE from) = IF b > k THEN b - k + 1 ELSE 1
  BY DEF from
<1> QED
  BY <1>2, <1>3, <1>4, <1>5, <1>6

\* What the drains have read, and what of it the panel of the running capture
\* has not been told.
FreshInv ==
  /\ \A r \in Runs :
       /\ drain[r] = "none" => statements[r] = 0
       /\ drain[r] # "publish" => fresh[r] = 0
  /\ run # None => st.statements = statements[run] - fresh[run]

TailInv == PanelNamesTheRun /\ FreshInv /\ PanelIsTailOfFile

\* A panel that has just been given to a capture shows nothing of it.
LEMMA EmptyTail == ASSUME NEW r \in Runs PROVE <<>> = LastOf(Records(r, 1, 0), RecentKept)
<1>1. /\ 0 \in Nat /\ 1 \in Nat /\ 1 >= 1 /\ 0 >= 1 - 1 /\ 0 - 1 + 1 = 0
      /\ RecentKept \in Nat /\ ~(0 > RecentKept)
  BY Bounds
<1>2. LastOf(Records(r, 1, 0), RecentKept) = Records(r, 1, 0)
  <2>1. LastOf(Records(r, 1, 0), RecentKept)
          = Records(r, IF 0 - 1 + 1 > RecentKept THEN 0 - RecentKept + 1 ELSE 1, 0)
    BY <1>1, RecordsTail
  <2> QED
    BY <1>1, <2>1
<1>3. Records(r, 1, 0) \in Seq(Runs \X Nat) /\ Len(Records(r, 1, 0)) = 0
  BY <1>1, RecordsFacts
<1>4. \A s \in Seq(Runs \X Nat) : Len(s) = 0 => s = <<>>
  OBVIOUS
<1> QED
  BY <1>2, <1>3, <1>4

\* Only the drain of the run that is held tells the panel, and all it has read.
LEMMA PublishKeepsTail ==
  ASSUME IInv, TailInv, PanelNamesTheRun', NEW r \in Runs, Publish(r) PROVE TailInv'
<1>0. /\ CtlOK /\ CountOK /\ CountInv
      /\ st \in [active : BOOLEAN, run : Runs \cup {None},
                 stopped : StopReasons \cup {None}, statements : Nat]
  BY TypeSplit DEF IInv, CtlInv, PanelOK
<1>1. /\ drain[r] = "publish"
      /\ drain' = [drain EXCEPT ![r] = "select"] /\ fresh' = [fresh EXCEPT ![r] = 0]
      /\ UNCHANGED <<run, statements>>
  BY DEF Publish
<1>2. /\ statements[r] \in Nat /\ fresh[r] \in Nat /\ fresh[r] <= statements[r]
      /\ fresh'[r] = 0 /\ drain'[r] = "select"
      /\ \A q \in Runs \ {r} : fresh'[q] = fresh[q] /\ drain'[q] = drain[q]
  BY <1>0, <1>1 DEF CtlOK, CountOK, CountInv
<1>3. \A q \in Runs : /\ drain'[q] = "none" => statements'[q] = 0
                      /\ drain'[q] # "publish" => fresh'[q] = 0
  BY <1>1, <1>2 DEF TailInv, FreshInv
<1>4. CASE run # r
  <2>1. UNCHANGED <<st, rows>>
    BY <1>4 DEF Publish
  <2>2. run # None => run \in Runs
    BY <1>0 DEF CtlOK
  <2> QED
    BY <1>1, <1>2, <1>3, <1>4, <2>1, <2>2 DEF TailInv, FreshInv, PanelIsTailOfFile
<1>5. CASE run = r
  <2> DEFINE a == statements[r] - fresh[r]
             b == statements[r]
  <2>1. st.run = r /\ st.statements = a
    BY <1>5, Apart DEF TailInv, FreshInv, PanelNamesTheRun
  <2>2. rows = LastOf(Records(r, 1, a), RecentKept)
    BY <2>1, Apart DEF TailInv, PanelIsTailOfFile
  <2>3. /\ rows' = LastOf(rows \o Records(r, a + 1, b), RecentKept)
        /\ st' = [st EXCEPT !.statements = b]
    BY <1>5 DEF Publish
  <2>4. st'.run = r /\ st'.statements = b
    BY <1>0, <2>1, <2>3
  <2>5. a \in Nat /\ b \in Nat /\ a <= b /\ RecentKept \in Nat
    BY <1>2, Bounds
  <2> HIDE DEF a
  <2>6. rows' = LastOf(Records(r, 1, b), RecentKept)
    BY <2>2, <2>3, <2>5, TailGrows
  <2>7. PanelIsTailOfFile'
    BY <1>1, <2>4, <2>5, <2>6, Apart DEF PanelIsTailOfFile
  <2>8. st'.statements = statements'[run'] - fresh'[run']
    BY <1>1, <1>2, <1>5, <2>4
  <2> QED
    BY <1>3, <2>7, <2>8 DEF TailInv, FreshInv
<1> QED
  BY <1>4, <1>5

\* The panel keeps up with the file through every other step.
LEMMA TailKept ==
  ASSUME IInv, TailInv, PanelNamesTheRun', Next PROVE TailInv'
<1> USE DEF managerVars, runVars, serverVars
<1>0. /\ CtlOK /\ CountOK /\ StartInv
      /\ st \in [active : BOOLEAN, run : Runs \cup {None},
                 stopped : StopReasons \cup {None}, statements : Nat]
  BY TypeSplit DEF IInv, CtlInv, PanelOK
<1> DEFINE rest == <<run, st, rows, drain, statements, fresh>>
<1>1. CASE UNCHANGED rest
  BY <1>1 DEF TailInv, FreshInv, PanelIsTailOfFile
<1>2. ASSUME NEW p \in Stoppers, StopTake(p) PROVE TailInv'
  <2>1. /\ run' = None /\ UNCHANGED <<rows, drain, statements, fresh>>
        /\ st' = [st EXCEPT !.active = FALSE, !.stopped = ReasonOf(p)]
    BY <1>2 DEF StopTake
  <2>2. st'.run = st.run /\ st'.statements = st.statements
    BY <1>0, <2>1
  <2> QED
    BY <2>1, <2>2 DEF TailInv, FreshInv, PanelIsTailOfFile
<1>3. ASSUME NEW c \in Callers, StartInstall(c) PROVE TailInv'
  <2> DEFINE r == target[c]
  <2>1. r \in Runs /\ drain[r] = "none"
    BY <1>0, <1>3, RunsFacts DEF StartInstall, StartInv, Building
  <2>2. /\ run' = r /\ rows' = <<>> /\ st'.run = r /\ st'.statements = 0
        /\ drain' = [drain EXCEPT ![r] = "select"]
        /\ UNCHANGED <<statements, fresh>>
    BY <1>3 DEF StartInstall
  <2>3. statements[r] = 0 /\ fresh[r] = 0
    BY <2>1 DEF TailInv, FreshInv
  <2>4. /\ drain'[r] = "select"
        /\ \A q \in Runs \ {r} : drain'[q] = drain[q]
    BY <1>0, <2>1, <2>2 DEF CtlOK
  <2>5. FreshInv'
    BY <2>1, <2>2, <2>3, <2>4 DEF TailInv, FreshInv
  <2>6. PanelIsTailOfFile'
    BY <2>1, <2>2, <2>3, EmptyTail, Apart DEF PanelIsTailOfFile
  <2> QED
    BY <2>5, <2>6 DEF TailInv
<1>4. ASSUME NEW r \in Runs, TickCheck(r) \/ PollFails(r) \/ Finish(r) PROVE TailInv'
  <2>1. UNCHANGED <<run, st, rows, statements, fresh>>
    BY <1>4 DEF TickCheck, PollFails, Finish
  <2>2. drain[r] \in {"select", "poll", "ended"}
    BY <1>4 DEF TickCheck, PollFails, Finish
  <2>3. \A q \in Runs :
          \/ drain'[q] = drain[q]
          \/ q = r /\ drain'[q] \in {"select", "poll", "ended", "done"}
    <3>1. CASE TickCheck(r)
      BY <1>0, <3>1 DEF TickCheck, Over, CtlOK
    <3>2. CASE PollFails(r)
      <4>1. drain' \in {[drain EXCEPT ![r] = "ended"], [drain EXCEPT ![r] = "select"]}
        BY <3>2 DEF PollFails, Over
      <4> QED
        BY <1>0, <4>1 DEF CtlOK
    <3>3. CASE Finish(r)
      BY <1>0, <3>3 DEF Finish, CtlOK
    <3> QED
      BY <1>4, <3>1, <3>2, <3>3
  <2> QED
    BY <2>1, <2>2, <2>3 DEF TailInv, FreshInv, PanelIsTailOfFile
<1>5. ASSUME NEW r \in Runs, Poll(r) PROVE TailInv'
  <2>1. /\ UNCHANGED <<run, st, rows>> /\ drain[r] = "poll"
        /\ drain' = [drain EXCEPT ![r] = "publish"]
    BY <1>5 DEF Poll
  <2>2. PICK n \in 0 .. (MaxStatements - statements[r]) :
          /\ fresh' = [fresh EXCEPT ![r] = n]
          /\ statements' = [statements EXCEPT ![r] = @ + n]
    BY <1>5 DEF Poll
  <2>3. /\ n \in Nat /\ fresh[r] = 0 /\ statements[r] \in Nat
        /\ drain'[r] = "publish" /\ fresh'[r] = n /\ statements'[r] = statements[r] + n
        /\ \A q \in Runs \ {r} :
             drain'[q] = drain[q] /\ fresh'[q] = fresh[q] /\ statements'[q] = statements[q]
    BY <1>0, <2>1, <2>2 DEF CtlOK, CountOK, TailInv, FreshInv
  <2>4. \A q \in Runs : /\ drain'[q] = "none" => statements'[q] = 0
                        /\ drain'[q] # "publish" => fresh'[q] = 0
    BY <2>3 DEF TailInv, FreshInv
  <2>5. run' # None => st'.statements = statements'[run'] - fresh'[run']
    <3>1. run # None => run \in Runs /\ st.statements = statements[run] - fresh[run]
      BY <1>0 DEF CtlOK, TailInv, FreshInv
    <3> QED
      BY <2>1, <2>3, <3>1
  <2>6. PanelIsTailOfFile'
    <3>1. \A q \in Runs : statements[q] \in Nat /\ statements'[q] >= statements[q]
      BY <1>0, <2>3 DEF CountOK
    <3>2. st.run # None => st.run \in Runs /\ st.statements \in Nat /\ st.statements <= statements[st.run]
      BY <1>0 DEF TailInv, PanelIsTailOfFile
    <3>3. st.run # None => st.statements <= statements'[st.run]
      BY <3>1, <3>2, <2>3, <1>0
    <3> QED
      BY <2>1, <3>3 DEF TailInv, PanelIsTailOfFile
  <2> QED
    BY <2>4, <2>5, <2>6 DEF TailInv, FreshInv
<1>6. ASSUME NEW r \in Runs, Publish(r) PROVE TailInv'
  BY <1>6, PublishKeepsTail
<1>7. ASSUME NEW p \in Stoppers,
             StopNothing(p) \/ StopCancel(p) \/ StopJoin(p) \/ StopDrop(p)
      PROVE  UNCHANGED rest
  BY <1>7 DEF StopNothing, StopCancel, StopJoin, StopDrop
<1>8. ASSUME NEW c \in Callers,
             \/ Lock(c) \/ StartWatch(c) \/ StartSweep(c) \/ StartCreate(c)
             \/ StartStart(c) \/ StartFile(c) \/ StartUndo(c)
      PROVE  UNCHANGED rest
  BY <1>8 DEF Lock, StartWatch, StartSweep, StartCreate, StartStart, StartFile, StartUndo
<1>9. CASE ServerNext
  BY <1>1, <1>9 DEF ServerNext, SessionEnds, SessionBegins, Ages
<1>10. ASSUME NEW c \in Callers, NEW s \in Spids, Press(c, s) PROVE UNCHANGED rest
  BY <1>10 DEF Press
<1>11. ASSUME NEW p \in Outsiders, OutsiderStops(p) PROVE UNCHANGED rest
  BY <1>11 DEF OutsiderStops
<1> HIDE DEF rest
<1> QED
  BY <1>1, <1>2, <1>3, <1>4, <1>5, <1>6, <1>7, <1>8, <1>9, <1>10, <1>11
     DEF Next, ManagerNext, StopStep, ToggleStep, Tick

\* The statements the panel shows are the tail of the file of the capture it
\* names, whatever else is still being written beside it.
THEOREM PanelShowsItsOwnFile == Spec => []PanelIsTailOfFile
<1>1. Init => TailInv
  BY DEF Init, TailInv, PanelNamesTheRun, FreshInv, PanelIsTailOfFile
<1>2. IInv /\ TailInv /\ [Next]_vars => TailInv'
  <2>1. CASE UNCHANGED vars
    BY <2>1 DEF vars, managerVars, runVars, TailInv, FreshInv, PanelNamesTheRun,
                PanelIsTailOfFile
  <2>2. CASE Next /\ TailInv
    BY <2>2, PanelNamesKept, TailKept DEF TailInv
  <2> QED
    BY <2>1, <2>2
<1>3. TailInv => PanelIsTailOfFile
  BY DEF TailInv
<1> QED
  BY <1>1, <1>2, <1>3, Invariant, PTL DEF Spec

-----------------------------------------------------------------------------
(* The capture inside the process that serves the page.                    *)

Ending == phase \in {"stopping", "returned", "exited"}

GraceInv ==
  /\ clients \in Nat
  /\ timer \in [Timers -> {"unset", "armed", "disarmed", "fired", "look",
                           "stop", "over"}]
  /\ NoGraceWhileWatched

\* Once Serve has called Stop with no handler of the key left, none enters Toggle
\* again and the manager holds no run after Serve's turn; with some left, it holds
\* after that turn none that had been started before the call.
EndInv ==
  /\ phase \in {"serving", "draining", "stopping", "returned", "exited"}
  /\ Ending /\ ~late => asking = {} /\ InToggle = {} /\ (run = None \/ pc[Serve] = "take")
  /\ \A r \in begun : r \in Runs /\ drain[r] # "none"
  /\ begun # {} => Ending
  /\ Ending /\ run \in begun => pc[Serve] = "take"
  /\ phase \in {"returned", "exited"} => pc[Serve] = "idle"

-----------------------------------------------------------------------------
\* A step of the process is one of the manager, or leaves it as it is.
LEMMA WebStepsAreSteps == ASSUME [WebNext]_allVars PROVE [Next]_vars
<1>1. ASSUME NEW t \in Timers, GraceStep(t) PROVE [Next]_vars
  BY <1>1 DEF GraceStep, GraceExpires, GraceCountsClients, GraceReadsState, Next, Timers
<1>2. CASE ServeStep
  BY <1>2, LifecycleAssumption DEF ServeStep, ServeStops, ServeReturns, Exit, Next
<1>3. CASE ClientArrived \/ ClientLeft \/ Interrupt
  BY <1>3 DEF ClientArrived, ClientLeft, Interrupt
<1>4. CASE UNCHANGED allVars
  BY <1>4 DEF allVars
<1>5. ASSUME NEW c \in Callers, HandlerStep(c) PROVE [Next]_vars
  BY <1>5 DEF HandlerStep, Posted, EntersToggle, TurnedAway, Next
<1> QED
  BY <1>1, <1>2, <1>3, <1>4, <1>5 DEF WebNext, Next

\* The process implements the manager: with timers and Serve for its stoppers,
\* and an end, it does nothing that Capture does not allow.  Every theorem above
\* is one of the process.
THEOREM TheProcessIsAManager == WebSpec => Spec
<1>1. WebInit => Init
  BY DEF WebInit
<1> QED
  BY <1>1, WebStepsAreSteps, PTL DEF WebSpec, Spec

LEMMA TheManagerIsInside == WebSpec => [](IInv /\ HeldInv)
  BY TheProcessIsAManager, Invariant, HeldAlways, PTL

-----------------------------------------------------------------------------
(* The grace.                                                              *)

LEMMA GraceKept == ASSUME GraceInv, [WebNext]_allVars PROVE GraceInv'
<1> USE DEF GraceInv, NoGraceWhileWatched
<1>1. CASE ClientArrived
  BY <1>1 DEF ClientArrived, Disarmed
<1>2. CASE ClientLeft
  <2>1. CASE clients > 1
    BY <1>2, <2>1 DEF ClientLeft
  <2>2. CASE ~(clients > 1)
    <3>1. clients = 1 /\ clients' = 0
      BY <1>2, <2>2 DEF ClientLeft
    <3>2. PICK t \in Timers : timer' = [Disarmed EXCEPT ![t] = "armed"] /\ idle' = t
      BY <1>2, <2>2 DEF ClientLeft
    <3>3. \A u \in Timers : timer[u] # "armed"
      BY <3>1
    <3> QED
      BY <3>1, <3>2, <3>3 DEF Disarmed
  <2> QED
    BY <2>1, <2>2
<1>3. ASSUME NEW t \in Timers, GraceStep(t) PROVE GraceInv'
  BY <1>3 DEF GraceStep, GraceExpires, GraceCountsClients, GraceReadsState
<1>4. CASE ServeStep
  BY <1>4 DEF ServeStep, ServeStops, ServeReturns, Exit, Disarmed
<1>5. CASE UNCHANGED <<clients, idle, timer>>
  BY <1>5
<1>6. ASSUME NEW c \in Callers, HandlerStep(c) PROVE UNCHANGED <<clients, idle, timer>>
  BY <1>6 DEF HandlerStep, Posted, EntersToggle, TurnedAway
<1> QED
  BY <1>1, <1>2, <1>3, <1>4, <1>5, <1>6 DEF WebNext, Interrupt, webVars, allVars

LEMMA GraceInvAlways == WebSpec => []GraceInv
<1>1. WebInit => GraceInv
  BY DEF WebInit, GraceInv, NoGraceWhileWatched
<1> QED
  BY <1>1, GraceKept, PTL DEF WebSpec

\* For every number of streams and timers: none that can still fire was armed
\* before the page came back.
THEOREM GraceWaitsForNobody == WebSpec => []NoGraceWhileWatched
<1>1. GraceInv => NoGraceWhileWatched
  BY DEF GraceInv
<1> QED
  BY <1>1, GraceInvAlways, PTL

-----------------------------------------------------------------------------
(* The end of the process.                                                 *)

\* Serve's call of Stop, once over, is not made again by anybody.
LEMMA ServeStaysOut ==
  ASSUME CtlOK, ManagerNext \/ ServerNext, pc[Serve] = "idle"
  PROVE  pc'[Serve] = "idle"
<1> USE Apart, LifecycleAssumption DEF Goto, runVars, callVars, managerVars, serverVars
<1>1. ASSUME NEW p \in Stoppers, StopStep(p) PROVE pc'[Serve] = "idle"
  <2>1. p # Serve
    BY <1>1 DEF StopStep, StopNothing, StopTake, StopCancel, StopJoin, StopDrop
  <2>2. pc' = [pc EXCEPT ![p] = pc'[p]]
    BY <1>1 DEF StopStep, StopNothing, StopTake, StopCancel, StopJoin, StopDrop,
                Stopped, Unlock, CtlOK
  <2> QED
    BY <2>1, <2>2 DEF CtlOK
<1>2. ASSUME NEW c \in Callers, Lock(c) \/ ToggleStep(c) PROVE pc'[Serve] = "idle"
  <2>1. c # Serve
    OBVIOUS
  <2>2. pc' = [pc EXCEPT ![c] = pc'[c]]
    BY <1>2 DEF Lock, ToggleStep, StartWatch, StartSweep, StartCreate, StartStart, StartFile,
                StartUndo, StartInstall, Unlock, CtlOK
  <2> QED
    BY <2>1, <2>2 DEF CtlOK
<1>3. ASSUME NEW r \in Runs, Tick(r) \/ Finish(r) PROVE pc'[Serve] = "idle"
  <2>1. r # Serve
    OBVIOUS
  <2>2. pc' = pc \/ pc' = [pc EXCEPT ![r] = "take"]
    BY <1>3 DEF Tick, TickCheck, PollFails, Over, Poll, Publish, Finish
  <2> QED
    BY <2>1, <2>2 DEF CtlOK
<1>4. CASE ServerNext
  BY <1>4 DEF ServerNext, SessionEnds, SessionBegins, Ages
<1> QED
  BY <1>1, <1>2, <1>3, <1>4 DEF ManagerNext

\* With no handler inside Toggle no capture is installed, and Serve's turn takes
\* the one there is.
LEMMA NoneIsInstalled ==
  ASSUME CtlOK, ManagerNext \/ ServerNext, InToggle = {},
         run = None \/ pc[Serve] = "take"
  PROVE  InToggle' = {} /\ (run' = None \/ pc'[Serve] = "take")
<1> USE Apart, LifecycleAssumption DEF Goto, runVars, callVars, managerVars, serverVars
<1>0. (\A c \in Callers : pc'[c] = "idle") => InToggle' = {}
  BY DEF InToggle
<1>1. \A c \in Callers : pc[c] = "idle"
  BY DEF InToggle
<1>2. ASSUME NEW p \in Stoppers, StopStep(p)
      PROVE  InToggle' = {} /\ (run' = None \/ pc'[Serve] = "take")
  <2>1. p \notin Callers
    BY <1>1, <1>2 DEF StopStep, StopNothing, StopTake, StopCancel, StopJoin, StopDrop
  <2>2. pc' = [pc EXCEPT ![p] = pc'[p]]
    BY <1>2 DEF StopStep, StopNothing, StopTake, StopCancel, StopJoin, StopDrop,
                Stopped, Unlock, CtlOK
  <2>3. InToggle' = {}
    BY <1>0, <1>1, <2>1, <2>2 DEF CtlOK
  <2>4. run' \in {run, None} /\ (p = Serve /\ pc[p] = "take" => run' = None)
    BY <1>2 DEF StopStep, StopNothing, StopTake, StopCancel, StopJoin, StopDrop, Only
  <2> QED
    BY <2>2, <2>3, <2>4 DEF CtlOK
<1>3. ASSUME NEW c \in Callers, Lock(c) \/ ToggleStep(c) PROVE FALSE
  BY <1>1, <1>3 DEF Lock, ToggleStep, StartWatch, StartSweep, StartCreate, StartStart,
                    StartFile, StartUndo, StartInstall
<1>4. ASSUME NEW r \in Runs, Tick(r) \/ Finish(r)
      PROVE  InToggle' = {} /\ (run' = None \/ pc'[Serve] = "take")
  <2>1. run' = run
    BY <1>4 DEF Tick, TickCheck, PollFails, Poll, Publish, Finish
  <2>2. pc' = pc \/ pc' = [pc EXCEPT ![r] = "take"]
    BY <1>4 DEF Tick, TickCheck, PollFails, Over, Poll, Publish, Finish
  <2>3. r \notin Callers /\ r # Serve /\ r \in Stoppers
    OBVIOUS
  <2>4. \A p \in Callers \cup {Serve} : pc'[p] = pc[p]
    BY <2>2, <2>3 DEF CtlOK
  <2> QED
    BY <1>0, <1>1, <2>1, <2>4
<1>5. CASE ServerNext
  BY <1>5 DEF ServerNext, SessionEnds, SessionBegins, Ages, InToggle
<1> QED
  BY <1>2, <1>3, <1>4, <1>5 DEF ManagerNext

\* A timer, or Serve, that is to take the run takes it, or the run is gone before.
LEMMA TurnIsKept ==
  ASSUME CtlOK, ManagerNext \/ ServerNext, NEW t \in Outsiders, pc[t] = "take",
         run # None, run' # None
  PROVE  pc'[t] = "take"
<1> USE Apart DEF Goto, runVars, callVars, managerVars, serverVars
<1>1. ASSUME NEW p \in Stoppers, StopStep(p) PROVE pc'[t] = "take"
  <2>1. p # t
    BY <1>1 DEF StopStep, StopNothing, StopTake, StopCancel, StopJoin, StopDrop, Only
  <2>2. pc' = [pc EXCEPT ![p] = pc'[p]]
    BY <1>1 DEF StopStep, StopNothing, StopTake, StopCancel, StopJoin, StopDrop,
                Stopped, Unlock, CtlOK
  <2> QED
    BY <2>1, <2>2 DEF CtlOK
<1>2. ASSUME NEW c \in Callers, Lock(c) \/ ToggleStep(c) PROVE pc'[t] = "take"
  <2>1. c # t
    OBVIOUS
  <2>2. pc' = [pc EXCEPT ![c] = pc'[c]]
    BY <1>2 DEF Lock, ToggleStep, StartWatch, StartSweep, StartCreate, StartStart, StartFile,
                StartUndo, StartInstall, Unlock, CtlOK
  <2> QED
    BY <2>1, <2>2 DEF CtlOK
<1>3. ASSUME NEW r \in Runs, Tick(r) \/ Finish(r) PROVE pc'[t] = "take"
  <2>1. r # t
    OBVIOUS
  <2>2. pc' = pc \/ pc' = [pc EXCEPT ![r] = "take"]
    BY <1>3 DEF Tick, TickCheck, PollFails, Over, Poll, Publish, Finish
  <2> QED
    BY <2>1, <2>2 DEF CtlOK
<1>4. CASE ServerNext
  BY <1>4 DEF ServerNext, SessionEnds, SessionBegins, Ages
<1> QED
  BY <1>1, <1>2, <1>3, <1>4 DEF ManagerNext

\* A run that had been started when Serve called Stop is the manager's no longer
\* once Serve has had its turn: what is installed later is started later.
LEMMA EarlierIsTaken ==
  ASSUME CtlOK, StartInv, ManagerNext \/ ServerNext,
         NEW B, \A r \in B : r \in Runs /\ drain[r] # "none",
         run \in B => pc[Serve] = "take"
  PROVE  /\ \A r \in B : drain'[r] # "none"
         /\ run' \in B => pc'[Serve] = "take"
<1> USE Apart, LifecycleAssumption DEF Goto, runVars, callVars, managerVars, serverVars
<1>1. \A r \in Runs : drain[r] # "none" => drain'[r] # "none"
  <2> DEFINE Moves(r) == drain' \in {[drain EXCEPT ![r] = x] :
                            x \in {"select", "poll", "publish", "ended", "done"}}
  <2>1. ASSUME NEW p \in Stoppers, StopStep(p) PROVE drain' = drain
    BY <2>1 DEF StopStep, StopNothing, StopTake, StopCancel, StopJoin, StopDrop
  <2>2. ASSUME NEW c \in Callers, StartInstall(c) PROVE Moves(target[c])
    BY <2>2 DEF StartInstall
  <2>3. ASSUME NEW c \in Callers, Lock(c) \/ ToggleStep(c), ~StartInstall(c)
        PROVE  drain' = drain
    BY <2>3 DEF Lock, ToggleStep, StartWatch, StartSweep, StartCreate, StartStart,
                StartFile, StartUndo
  <2>4. ASSUME NEW r \in Runs, Tick(r) \/ Finish(r) PROVE Moves(r)
    BY <2>4 DEF Tick, TickCheck, PollFails, Over, Poll, Publish, Finish
  <2>5. CASE ServerNext
    BY <2>5 DEF ServerNext, SessionEnds, SessionBegins, Ages
  <2>6. ASSUME NEW q, Moves(q), NEW r \in Runs, drain[r] # "none"
        PROVE  drain'[r] # "none"
    <3>1. PICK x \in {"select", "poll", "publish", "ended", "done"} :
            drain' = [drain EXCEPT ![q] = x]
      BY <2>6
    <3>2. r \in DOMAIN drain
      BY DEF CtlOK
    <3> QED
      BY ONLY <2>6, <3>1, <3>2
  <2> HIDE DEF Moves
  <2> QED
    BY <2>1, <2>2, <2>3, <2>4, <2>5, <2>6 DEF ManagerNext
<1>2. run' \in B => run' = run
  <2>1. ASSUME NEW p \in Stoppers, StopStep(p) PROVE run' \in {run, None}
    BY <2>1 DEF StopStep, StopNothing, StopTake, StopCancel, StopJoin, StopDrop
  <2>2. ASSUME NEW c \in Callers, StartInstall(c) PROVE run' \notin B
    BY <2>2 DEF StartInstall, StartInv, Building
  <2>3. ASSUME NEW c \in Callers, Lock(c) \/ ToggleStep(c), ~StartInstall(c) PROVE run' = run
    BY <2>3 DEF Lock, ToggleStep, StartWatch, StartSweep, StartCreate, StartStart,
                StartFile, StartUndo
  <2>4. ASSUME NEW r \in Runs, Tick(r) \/ Finish(r) PROVE run' = run
    BY <2>4 DEF Tick, TickCheck, PollFails, Poll, Publish, Finish
  <2>5. CASE ServerNext
    BY <2>5 DEF ServerNext, SessionEnds, SessionBegins, Ages
  <2> QED
    BY <2>1, <2>2, <2>3, <2>4, <2>5 DEF ManagerNext
<1>3. \A r \in B : r # None
  OBVIOUS
<1> QED
  BY <1>1, <1>2, <1>3, TurnIsKept

LEMMA EndKept == ASSUME IInv, EndInv, [WebNext]_allVars PROVE EndInv'
<1> USE LifecycleAssumption, Apart DEF EndInv, Ending
<1>0. /\ CtlOK
      /\ (\A c \in Callers : pc'[c] = pc[c]) => InToggle' = InToggle
  BY DEF IInv, CtlInv, InToggle
<1>1. CASE (ManagerNext \/ ServerNext) /\ UNCHANGED webVars
  <2>1. /\ \A r \in begun : drain'[r] # "none"
        /\ Ending /\ run' \in begun => pc'[Serve] = "take"
    BY <1>0, <1>1, EarlierIsTaken DEF IInv, CtlInv
  <2> QED
    BY <1>0, <1>1, <2>1, ServeStaysOut, NoneIsInstalled DEF webVars
<1>2. ASSUME NEW c \in Callers, HandlerStep(c) PROVE EndInv'
  <2>1. UNCHANGED <<run, drain, phase, late, begun>>
    BY <1>2 DEF HandlerStep, Posted, EntersToggle, TurnedAway, Press, vars, managerVars, runVars
  <2>2. c \notin Outsiders /\ (pc' = pc \/ pc' = [pc EXCEPT ![c] = "lock"])
    BY <1>2 DEF HandlerStep, Posted, EntersToggle, TurnedAway, Press, Goto, vars, callVars
  <2>3. pc'[Serve] = pc[Serve]
    BY <1>0, <2>2 DEF CtlOK
  <2>4. Ending /\ ~late => asking' = {} /\ InToggle' = {}
    <3>1. Ending /\ ~late => ~EntersToggle(c) /\ ~TurnedAway(c) /\ ~Posted(c)
      BY DEF EntersToggle, TurnedAway, Posted
    <3> QED
      BY <1>2, <3>1 DEF HandlerStep
  <2> QED
    BY <2>1, <2>3, <2>4
<1>3. CASE ClientArrived \/ ClientLeft \/ Interrupt
  BY <1>3 DEF ClientArrived, ClientLeft, Interrupt, vars, managerVars, runVars, callVars,
              InToggle
<1>4. CASE ServeStops
  <2>1. /\ phase' = "stopping" /\ late' = (asking \cup InToggle # {})
        /\ begun' = {r \in Runs : drain[r] # "none"} /\ UNCHANGED <<run, drain, asking>>
        /\ pc' = [pc EXCEPT ![Serve] = "take"]
    BY <1>4 DEF ServeStops, OutsiderStops, Goto, managerVars, runVars
  <2>2. pc'[Serve] = "take" /\ \A c \in Callers : pc'[c] = pc[c]
    BY <1>0, <2>1 DEF CtlOK
  <2> QED
    BY <1>0, <2>1, <2>2
<1>5. CASE ServeReturns \/ Exit
  BY <1>5 DEF ServeReturns, Exit, vars, managerVars, runVars, callVars, InToggle
<1>6. ASSUME NEW t \in Timers, GraceStep(t) PROVE EndInv'
  <2>1. t # Serve /\ t \in Outsiders
    BY DEF Timers
  <2>2. pc' = pc \/ pc' = [pc EXCEPT ![t] = "take"]
    BY <1>6 DEF GraceStep, GraceExpires, GraceCountsClients, GraceReadsState,
                OutsiderStops, Goto, vars, callVars
  <2>3. UNCHANGED <<run, drain, phase, asking, late, begun>>
    BY <1>6 DEF GraceStep, GraceExpires, GraceCountsClients, GraceReadsState,
                OutsiderStops, vars, managerVars, runVars
  <2> QED
    BY <1>0, <2>1, <2>2, <2>3 DEF CtlOK
<1>7. CASE UNCHANGED allVars
  BY <1>7 DEF allVars, vars, webVars, managerVars, runVars, callVars, InToggle
<1> QED
  BY <1>1, <1>2, <1>3, <1>4, <1>5, <1>6, <1>7 DEF WebNext, ServeStep

LEMMA EndInvAlways == WebSpec => []EndInv
<1>1. WebInit => EndInv
  BY DEF WebInit, EndInv, Ending
<1> QED
  BY <1>1, EndKept, TheManagerIsInside, PTL DEF WebSpec

\* For every number of goroutines: of the captures started before Serve called Stop
\* the process leaves on the server only what another goroutine was still stopping,
\* or what a statement failed for; any other was started after that call, by a
\* handler that was asking or inside Toggle when it was made.
THEOREM LeavesOnlyWhatWasInHand == WebSpec => []OnlyInFlightOutlives
<1>1. IInv /\ HeldInv /\ EndInv => OnlyInFlightOutlives
  <2> SUFFICES ASSUME IInv, HeldInv, EndInv, phase = "exited",
                      NEW r \in Runs, Exists(r), r \notin troubled,
                      ~\E p \in Stoppers \ {Serve} : Stopping(p) /\ target[p] = r
               PROVE  late /\ r \notin begun
    BY DEF OnlyInFlightOutlives
  <2>1. pc[Serve] = "idle" /\ ~Stopping(Serve)
    BY DEF EndInv, Stopping
  <2>2. run = r \/ \E c \in Callers : Starting(c) /\ target[c] = r
    BY <2>1 DEF HeldInv, EventSessionAccounted
  <2>3. CASE run = r
    BY <2>1, <2>3, Apart DEF EndInv, Ending
  <2>4. ASSUME NEW c \in Callers, Starting(c), target[c] = r PROVE late /\ r \notin begun
    <3>1. drain[r] = "none" /\ InToggle # {}
      BY <2>4 DEF IInv, CtlInv, StartInv, Building, Starting, InToggle
    <3> QED
      BY <3>1 DEF EndInv, Ending
  <2> QED
    BY <2>2, <2>3, <2>4
<1> QED
  BY <1>1, EndInvAlways, TheManagerIsInside, PTL

-----------------------------------------------------------------------------
(* Types of the process.                                                   *)

WebTypes ==
  /\ clients <= MaxClients
  /\ idle \in Timers \cup {None}
  /\ armedAt \in [Timers -> SUBSET Runs]
  /\ asking \subseteq Callers
  /\ late \in BOOLEAN

LEMMA StreamsBound == MaxClients \in Nat
  BY LifecycleAssumption, Zenon

LEMMA WebTypesKept == ASSUME GraceInv, WebTypes, [WebNext]_allVars PROVE WebTypes'
<1>1. clients \in Nat /\ clients <= MaxClients
  BY DEF GraceInv, WebTypes
<1>2. idle \in Timers \cup {None} /\ armedAt \in [Timers -> SUBSET Runs]
  BY DEF WebTypes
<1>3. late' \in BOOLEAN
  <2>1. late \in BOOLEAN
    BY DEF WebTypes
  <2> QED
    BY <2>1, Zenon
    DEF WebNext, ServeStep, ClientArrived, ClientLeft, Interrupt, ServeStops, ServeReturns,
        Exit, GraceStep, GraceExpires, GraceCountsClients, GraceReadsState, HandlerStep,
        Posted, EntersToggle, TurnedAway, webVars, allVars
<1>10. asking' \subseteq Callers
  <2>1. asking \subseteq Callers
    BY DEF WebTypes
  <2>2. \/ asking' = asking
        \/ \E c \in Callers : asking' = asking \cup {c} \/ asking' = asking \ {c}
    BY Zenon
    DEF WebNext, ServeStep, ClientArrived, ClientLeft, Interrupt, ServeStops, ServeReturns,
        Exit, GraceStep, GraceExpires, GraceCountsClients, GraceReadsState, HandlerStep,
        Posted, EntersToggle, TurnedAway, webVars, allVars
  <2> QED
    BY <2>1, <2>2
<1>4. ASSUME UNCHANGED clients, UNCHANGED armedAt, idle' \in {idle, None} PROVE WebTypes'
  BY <1>1, <1>2, <1>3, <1>10, <1>4, Zenon DEF WebTypes
<1>5. CASE ClientArrived
  <2>1. clients' = clients + 1 /\ clients < MaxClients
    BY <1>5 DEF ClientArrived
  <2>2. clients' <= MaxClients
    BY ONLY <1>1, <2>1, StreamsBound
  <2>3. idle' = None /\ armedAt' = armedAt
    BY <1>5 DEF ClientArrived
  <2> QED
    BY <1>2, <1>3, <1>10, <2>2, <2>3, Zenon DEF WebTypes
<1>6. CASE ClientLeft
  <2>1. clients' = clients - 1
    BY <1>6 DEF ClientLeft
  <2>2. clients' <= MaxClients
    BY ONLY <1>1, <2>1, StreamsBound
  <2>3. idle' \in Timers \cup {None} /\ armedAt' \in [Timers -> SUBSET Runs]
    <3>1. StartedRuns \in SUBSET Runs
      BY DEF StartedRuns
    <3>2. \/ UNCHANGED <<idle, armedAt>>
          \/ \E t \in Timers : armedAt' = [armedAt EXCEPT ![t] = StartedRuns] /\ idle' = t
      BY <1>6 DEF ClientLeft
    <3> QED
      BY ONLY <1>2, <3>1, <3>2
  <2> QED
    BY <1>3, <1>10, <2>2, <2>3, Zenon DEF WebTypes
<1>7. ASSUME NEW t \in Timers, GraceStep(t) PROVE WebTypes'
  BY <1>4, <1>7 DEF GraceStep, GraceExpires, GraceCountsClients, GraceReadsState
<1>8. CASE ServeStep \/ Interrupt
  BY <1>4, <1>8 DEF ServeStep, ServeStops, ServeReturns, Exit, Interrupt
<1>9. CASE UNCHANGED webVars
  BY <1>4, <1>9 DEF webVars
<1>11. ASSUME NEW c \in Callers, HandlerStep(c) PROVE WebTypes'
  BY <1>4, <1>11 DEF HandlerStep, Posted, EntersToggle, TurnedAway
<1> QED
  BY <1>5, <1>6, <1>7, <1>8, <1>9, <1>11 DEF WebNext, allVars

LEMMA WebTypesAlways == WebSpec => []WebTypes
<1>1. WebInit => WebTypes
  <2> SUFFICES ASSUME WebInit PROVE WebTypes
    OBVIOUS
  <2>1. clients <= MaxClients
    <3>1. clients = 0
      BY DEF WebInit
    <3> QED
      BY ONLY <3>1, StreamsBound
  <2>2. idle \in Timers \cup {None} /\ armedAt \in [Timers -> SUBSET Runs]
    BY DEF WebInit
  <2>3. late \in BOOLEAN /\ asking \subseteq Callers
    BY Zenon DEF WebInit
  <2> QED
    BY <2>1, <2>2, <2>3, Zenon DEF WebTypes
<1> QED
  BY <1>1, WebTypesKept, GraceInvAlways, PTL DEF WebSpec

\* Every variable of the process and of its manager keeps its type, however many
\* pages come and go.
THEOREM WebTypeCorrect == WebSpec => []WebTypeOK
<1>1. WebSpec => []TypeOK
  BY TheProcessIsAManager, TypeCorrect, PTL
<1>2. TypeOK /\ GraceInv /\ WebTypes /\ EndInv => WebTypeOK
  <2> SUFFICES ASSUME TypeOK, GraceInv, WebTypes, EndInv PROVE WebTypeOK
    OBVIOUS
  <2>1. clients \in 0 .. MaxClients
    <3>1. clients \in Nat /\ clients <= MaxClients
      BY DEF GraceInv, WebTypes
    <3> QED
      BY ONLY <3>1, StreamsBound
  <2>2. begun \subseteq Runs
    BY DEF EndInv
  <2> QED
    BY <2>1, <2>2, Zenon DEF GraceInv, WebTypes, EndInv, WebTypeOK
<1> QED
  BY <1>1, <1>2, WebTypesAlways, GraceInvAlways, EndInvAlways, PTL

-----------------------------------------------------------------------------
(* A capture nobody watches.                                               *)

\* Timer t is on its way to stop r: it was armed when r had been started, and
\* it has yet to fire, to look, or to have its turn in Stop.
WillStop(t, r) ==
  /\ r \in armedAt[t]
  /\ \/ timer[t] \in {"armed", "fired", "look"}
     \/ timer[t] = "stop" /\ pc[t] = "take"

LookedAfter(r) == \E t \in Timers : WillStop(t, r)

\* The safety half of UnwatchedCaptureEnds: the last stream that closes on a
\* capture leaves a timer on its way to stop it, and while nobody comes to watch
\* there is always one, until it has.  What could go wrong is a callback that
\* was told by a page which has since gone, or by the start of a capture, that
\* it is not needed, with no other behind it.
NobodyForgets ==
  [][\A r \in Runs :
       /\ run = r /\ run' = r /\ clients' = 0 /\ phase' = "serving"
       /\ clients > 0 \/ LookedAfter(r)
       => LookedAfter(r)']_allVars

\* Whoever is on the way to stop the run held stays on it, unless a stream
\* opens or the process ends.
LEMMA WillStopKept ==
  ASSUME CtlOK, GraceInv, WebTypes, PanelNamesTheRun, [WebNext]_allVars,
         NEW r \in Runs, run = r, run' = r, clients' = 0, phase' = "serving",
         clients = 0, NEW t \in Timers, WillStop(t, r)
  PROVE  WillStop(t, r)'
<1> USE Apart DEF WillStop
<1>0. t \in Outsiders /\ t \in Stoppers /\ run # None /\ run' # None
  BY DEF Timers
<1>1. CASE (ManagerNext \/ ServerNext) /\ UNCHANGED webVars
  BY <1>0, <1>1, TurnIsKept DEF webVars
<1>2. ASSUME NEW c \in Callers, HandlerStep(c) PROVE WillStop(t, r)'
  <2>1. UNCHANGED <<timer, armedAt>>
    BY <1>2 DEF HandlerStep, Posted, EntersToggle, TurnedAway
  <2>2. pc' = pc \/ pc' = [pc EXCEPT ![c] = "lock"]
    BY <1>2 DEF HandlerStep, Posted, EntersToggle, TurnedAway, Press, Goto, vars, callVars
  <2>3. pc'[t] = pc[t]
    BY <1>0, <2>2 DEF CtlOK
  <2> QED
    BY <2>1, <2>3
<1>3. CASE ClientArrived \/ ClientLeft
  <2>1. clients \in Nat
    BY DEF GraceInv
  <2> QED
    BY <1>3, <2>1 DEF ClientArrived, ClientLeft
<1>4. CASE Interrupt \/ ServeStep
  BY <1>4 DEF Interrupt, ServeStep, ServeStops, ServeReturns, Exit
<1>5. ASSUME NEW u \in Timers, GraceStep(u) PROVE WillStop(t, r)'
  <2>1. armedAt' = armedAt
    BY <1>5 DEF GraceStep, GraceExpires, GraceCountsClients, GraceReadsState
  <2>2. CASE u = t
    <3>1. CASE GraceExpires(t) \/ GraceCountsClients(t)
      BY <2>1, <3>1 DEF GraceExpires, GraceCountsClients, GraceInv
    <3>2. CASE GraceReadsState(t)
      <4>1. r \in armedAt[t]
        OBVIOUS
      <4>2. st.active => st.run = r
        BY DEF PanelNamesTheRun
      <4>3. timer' = [timer EXCEPT ![t] = "stop"] /\ OutsiderStops(t)
        BY <3>2, <4>1, <4>2 DEF GraceReadsState
      <4> QED
        BY <1>0, <2>1, <4>1, <4>3 DEF OutsiderStops, Goto, CtlOK, GraceInv
    <3> QED
      BY <1>5, <2>2, <3>1, <3>2 DEF GraceStep
  <2>3. CASE u # t
    <3>1. timer'[t] = timer[t]
      BY <1>5, <2>3 DEF GraceStep, GraceExpires, GraceCountsClients, GraceReadsState, GraceInv
    <3>2. pc'[t] = pc[t]
      BY <1>0, <1>5, <2>3 DEF GraceStep, GraceExpires, GraceCountsClients, GraceReadsState,
                              OutsiderStops, Goto, vars, callVars, CtlOK
    <3> QED
      BY <2>1, <3>1, <3>2
  <2> QED
    BY <2>2, <2>3
<1>6. CASE UNCHANGED allVars
  BY <1>6 DEF allVars, vars, callVars, webVars
<1> QED
  BY <1>1, <1>2, <1>3, <1>4, <1>5, <1>6 DEF WebNext

\* The last stream to close arms a timer that has seen the capture there is.
LEMMA LastOneArms ==
  ASSUME IInv, HeldInv, GraceInv, WebTypes, [WebNext]_allVars,
         NEW r \in Runs, run = r, clients' = 0, clients > 0
  PROVE  LookedAfter(r)'
<1>0. clients \in Nat
  BY DEF GraceInv
<1>1. ClientLeft
  <2>1. clients' # clients
    BY <1>0
  <2>2. ~ClientArrived
    BY <1>0 DEF ClientArrived
  <2> QED
    BY <2>1, <2>2
       DEF WebNext, Interrupt, ServeStep, ServeStops, ServeReturns, Exit, GraceStep,
           GraceExpires, GraceCountsClients, GraceReadsState, HandlerStep, Posted,
           EntersToggle, TurnedAway, webVars, allVars
<1>2. ~(clients > 1)
  BY <1>0, <1>1 DEF ClientLeft
<1>3. PICK t \in Timers : /\ timer' = [Disarmed EXCEPT ![t] = "armed"]
                          /\ armedAt' = [armedAt EXCEPT ![t] = StartedRuns]
  BY <1>1, <1>2 DEF ClientLeft
<1>4. r \in StartedRuns
  <2>1. Alive(r)
    BY Apart DEF IInv, CtlInv, RunInv
  <2> QED
    BY <2>1 DEF HeldInv, SessionInv, StartedRuns
<1>5. timer'[t] = "armed" /\ r \in armedAt'[t]
  BY <1>3, <1>4 DEF Disarmed, WebTypes
<1> QED
  BY <1>5 DEF LookedAfter, WillStop

\* However many pages come and go and however their timers overlap: a capture
\* nobody watches never loses the last one that would stop it.
THEOREM NobodyIsForgotten == WebSpec => NobodyForgets
<1> DEFINE
  Keeps(r) == /\ run = r /\ run' = r /\ clients' = 0 /\ phase' = "serving"
              /\ clients > 0 \/ LookedAfter(r)
              => LookedAfter(r)'
  Inv == IInv /\ HeldInv /\ PanelNamesTheRun /\ GraceInv /\ WebTypes
<1>1. ASSUME Inv, [WebNext]_allVars PROVE \A r \in Runs : Keeps(r)
  <2> SUFFICES ASSUME NEW r \in Runs, run = r, run' = r, clients' = 0,
                      phase' = "serving", clients > 0 \/ LookedAfter(r)
               PROVE  LookedAfter(r)'
    OBVIOUS
  <2>1. CASE clients > 0
    BY <1>1, <2>1, LastOneArms
  <2>2. CASE ~(clients > 0)
    <3>1. clients = 0
      BY <1>1, <2>2 DEF GraceInv
    <3>2. PICK t \in Timers : WillStop(t, r)
      BY <2>2 DEF LookedAfter
    <3>3. WillStop(t, r)'
      BY <1>1, <3>1, <3>2, WillStopKept DEF IInv, CtlInv
    <3> QED
      BY <3>3 DEF LookedAfter
  <2> QED
    BY <2>1, <2>2
<1>2. WebSpec => []WebTypes
  BY WebTypesAlways
<1>3. WebSpec => []PanelNamesTheRun
  BY TheProcessIsAManager, PanelIsOfOneCapture, PTL
<1>4. WebSpec => []Inv
  BY <1>2, <1>3, TheManagerIsInside, GraceInvAlways, PTL
<1>5. Inv /\ [WebNext]_allVars => [\A r \in Runs : Keeps(r)]_allVars
  BY <1>1
<1> QED
  BY <1>4, <1>5, PTL DEF WebSpec, NobodyForgets

=============================================================================
