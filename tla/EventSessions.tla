--------------------------- MODULE EventSessions ---------------------------
(***************************************************************************)
(* Instances of the program that capture on one server: the event sessions *)
(* they create, start and drop, and the sweep with which each removes what *)
(* the others may have left behind.  A sweep reads a list and then drops   *)
(* it name by name, so the instances interleave between its statements.    *)
(*                                                                         *)
(* Us is the instance whose ring buffer and drain RingBuffer describes:    *)
(* somebody else's sweep is how its event session can disappear.  The name *)
(* of an event session carries random digits; two never collide here.      *)
(***************************************************************************)
EXTENDS RingBuffer

CONSTANTS Instances,   \* processes with -capture on one server
          Us,          \* the one whose drain is modelled
          None,        \* no event session
          Cap,         \* captureCap, in units of the clock
          Late,        \* bound: how late past the cap a drain ends
          MaxCaptures  \* bound: event sessions an instance creates

ASSUME EventSessionsAssumption ==
  /\ Us \in Instances /\ Cap \in Nat \ {0} /\ Late \in 0 .. Cap - 1
  /\ MaxCaptures \in Nat

Names == Instances \X (1 .. MaxCaptures)

ASSUME NoneAssumption == None \notin Names \cup Nat

VARIABLES
  defined, \* the names of sys.server_event_sessions
  age,     \* by name, the age in sys.dm_xe_sessions; None when not started
  pc,      \* where each instance is
  list,    \* names its sweep has still to drop
  mine,    \* the event session its StartCapture or its run names
  made,    \* event sessions it has created
  read,    \* history: what the sweep's SELECT answered
  running  \* history: which of those were started then

sessionVars == <<defined, age>>
sweepVars == <<list, read, running>>
instVars == <<pc, mine, made, sweepVars>>
allVars == <<vars, sessionVars, instVars>>

Places == {"idle", "boot", "start", "sweepBoot", "sweepStart", "created",
           "unstarted", "capturing"}

Started(n) == age[n] # None

ESTypeOK ==
  /\ defined \subseteq Names
  /\ age \in [Names -> 0 .. 2 * Cap + 1 \cup {None}]
  /\ \A n \in Names : Started(n) => n \in defined
  /\ pc \in [Instances -> Places]
  /\ mine \in [Instances -> Names \cup {None}]
  /\ made \in [Instances -> 0 .. MaxCaptures]
  /\ {list, read, running} \subseteq [Instances -> SUBSET Names]

ESInit ==
  /\ Init
  /\ defined = {} /\ age = [n \in Names |-> None]
  /\ pc = [i \in Instances |-> "boot"]
  /\ mine = [i \in Instances |-> None] /\ made = [i \in Instances |-> 0]
  /\ list = [i \in Instances |-> {}]
  /\ read = list /\ running = list

-----------------------------------------------------------------------------
(* What a statement does on the server.                                    *)

Goto(i, place) == pc' = [pc EXCEPT ![i] = place]

\* DROP EVENT SESSION, which may take effect although its call fails.  Ours
\* disappears from under the ring buffer.
Drop(n) ==
  /\ defined' = defined \ {n}
  /\ age' = [age EXCEPT ![n] = None]
  /\ there' = (there /\ n # mine[Us])
  /\ UNCHANGED <<total, held, dropCount, drainVars>>

\* Mutant of Dead: a started session is dead as soon as it is past the cap.
DeadAtTheCap(n) == ~Started(n) \/ age[n] > Cap

\* sweepCaptureQueryTemplate: not started, or past twice the cap.
Dead(n) == ~Started(n) \/ age[n] > 2 * Cap

-----------------------------------------------------------------------------
(* SweepCaptures, at the start of the process and of every capture.        *)

\* The key is pressed, or another process is started.
BeginStart(i) ==
  /\ pc[i] = "idle" /\ made[i] < MaxCaptures
  /\ Goto(i, "start")
  /\ UNCHANGED <<vars, sessionVars, sweepVars, mine, made>>

\* An error: main logs it and goes on, StartCapture returns it.
GiveUp(i) ==
  /\ Goto(i, "idle")
  /\ list' = [list EXCEPT ![i] = {}]

Select(i) ==
  /\ pc[i] \in {"boot", "start"}
  /\ LET dead == {n \in defined : Dead(n)}
     IN /\ Goto(i, IF pc[i] = "boot" THEN "sweepBoot" ELSE "sweepStart")
        /\ list' = [list EXCEPT ![i] = dead]
        /\ read' = [read EXCEPT ![i] = dead]
        /\ running' = [running EXCEPT ![i] = {n \in dead : Started(n)}]
  /\ UNCHANGED <<vars, sessionVars, mine, made>>

SelectFails(i) ==
  /\ pc[i] \in {"boot", "start"}
  /\ GiveUp(i)
  /\ UNCHANGED <<vars, sessionVars, mine, made, read, running>>

Sweeping(i) == pc[i] \in {"sweepBoot", "sweepStart"}

SweepDrop(i, n) ==
  /\ Sweeping(i) /\ n \in list[i] /\ n \in defined
  /\ Drop(n)
  /\ list' = [list EXCEPT ![i] = @ \ {n}]
  /\ UNCHANGED <<pc, mine, made, read, running>>

\* Mutant of SweepDropFails: the sweep goes on to the next name.
SweepDropFailsGoesOn(i, n) ==
  /\ Sweeping(i) /\ n \in list[i]
  /\ list' = [list EXCEPT ![i] = @ \ {n}]
  /\ \/ UNCHANGED <<vars, sessionVars>>
     \/ Drop(n)
  /\ UNCHANGED <<pc, mine, made, read, running>>

\* Refused, because somebody else was first or the connection broke: the
\* first error ends the sweep.
SweepDropFails(i, n) ==
  /\ Sweeping(i) /\ n \in list[i]
  /\ GiveUp(i)
  /\ \/ UNCHANGED <<vars, sessionVars>>
     \/ Drop(n)
  /\ UNCHANGED <<mine, made, read, running>>

\* SweepCaptures returns to main.
Booted(i) ==
  /\ pc[i] = "sweepBoot" /\ list[i] = {}
  /\ GiveUp(i)
  /\ UNCHANGED <<vars, sessionVars, mine, made, read, running>>

-----------------------------------------------------------------------------
(* StartCapture, after its sweep.                                          *)

\* CREATE EVENT SESSION under a name of its own; a call that fails after its
\* effect leaves a definition that nobody names.
Create(i) ==
  /\ pc[i] = "sweepStart" /\ list[i] = {}
  /\ LET n == <<i, made[i] + 1>>
     IN \/ /\ defined' = defined \cup {n}
           /\ mine' = [mine EXCEPT ![i] = n]
           /\ Goto(i, "created")
        \/ /\ defined' \in {defined, defined \cup {n}}
           /\ Goto(i, "idle") /\ UNCHANGED mine
  /\ made' = [made EXCEPT ![i] = @ + 1]
  /\ UNCHANGED <<vars, age, sweepVars>>

\* The drain of a new run, over a buffer of its own.
FreshBuffer ==
  /\ there' = TRUE /\ total' = 0 /\ held' = 0 /\ dropCount' = 0
  /\ mark' = 0 /\ events' = <<>> /\ missed' = 0 /\ dropped' = 0
  /\ unknown' = FALSE /\ gapLost' = 0 /\ gapDropped' = 0

\* ALTER EVENT SESSION ... STATE = START.
Start(i) ==
  /\ pc[i] = "created" /\ mine[i] \in defined
  /\ age' = [age EXCEPT ![mine[i]] = 0]
  /\ Goto(i, "capturing")
  /\ IF i = Us THEN FreshBuffer ELSE UNCHANGED vars
  /\ UNCHANGED <<defined, sweepVars, mine, made>>

\* The call fails, before its effect or after it.
StartFails(i) ==
  /\ pc[i] = "created"
  /\ Goto(i, "unstarted")
  /\ \/ UNCHANGED age
     \/ mine[i] \in defined /\ age' = [age EXCEPT ![mine[i]] = 0]
  /\ UNCHANGED <<vars, defined, sweepVars, mine, made>>

\* A DROP of one's own session whose answer nobody acts on: the undo of a
\* failed START, StopCapture at the end of a run, or either of them lost.
DropMine(i) ==
  /\ pc[i] \in {"unstarted", "capturing"}
  /\ Goto(i, "idle")
  /\ mine' = [mine EXCEPT ![i] = None]
  /\ \/ UNCHANGED <<vars, sessionVars>>
     \/ Drop(mine[i])
  /\ UNCHANGED <<made, sweepVars>>

-----------------------------------------------------------------------------
\* The process dies wherever it is, and its successor sweeps.
Crash(i) ==
  /\ pc[i] # "boot"
  /\ Goto(i, "boot")
  /\ mine' = [mine EXCEPT ![i] = None]
  /\ list' = [list EXCEPT ![i] = {}]
  /\ UNCHANGED <<vars, sessionVars, made, read, running>>

\* A minute passes.  A drain ends its capture at the cap, and is never later
\* than Late; a process that is not there ends nothing.
Minute ==
  /\ \A i \in Instances :
       pc[i] = "capturing" /\ Started(mine[i]) => age[mine[i]] < Cap + Late
  /\ age' = [n \in Names |->
               IF Started(n) THEN IF age[n] > 2 * Cap THEN age[n] ELSE age[n] + 1
               ELSE None]
  /\ age' # age
  /\ UNCHANGED <<vars, defined, instVars>>

\* The session that Us captures on, and its drain.
Watching ==
  /\ pc[Us] = "capturing"
  /\ Processed \/ Dropped \/ Poll
  /\ UNCHANGED <<sessionVars, instVars>>

InstanceStep(i) ==
  \/ BeginStart(i) \/ Select(i) \/ SelectFails(i)
  \/ \E n \in list[i] : SweepDrop(i, n) \/ SweepDropFails(i, n)
  \/ Booted(i) \/ Create(i) \/ Start(i) \/ StartFails(i) \/ DropMine(i)
  \/ Crash(i)

ESNext == Minute \/ Watching \/ \E i \in Instances : InstanceStep(i)

ESSpec == ESInit /\ [][ESNext]_allVars

-----------------------------------------------------------------------------
(* Properties.                                                             *)

Live(n) == \E j \in Instances : pc[j] = "capturing" /\ mine[j] = n

\* A sweep never has a capture that was started when it read the server, and
\* that is still its owner's, among what it still means to drop, however long the
\* sweep takes: twice the cap is evidence that the owner is gone, as long as a
\* drain ends less than a cap late.  One that was only created by then is on the
\* list, and is dropped even when its owner starts it in between.
SweepSparesTheRunning ==
  \A i \in Instances : \A n \in list[i] \cap running[i] : ~Live(n)

\* A capture is created only when everything its sweep found dead is gone,
\* whoever dropped it and whatever failed on the way.
NothingDeadIsLeft ==
  \A i \in Instances : pc[i] = "created" => read[i] \cap defined = {}

=============================================================================
