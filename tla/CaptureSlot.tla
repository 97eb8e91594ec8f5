---------------------------- MODULE CaptureSlot ----------------------------
(***************************************************************************)
(* What the capture manager promises, without its goroutines: captures run *)
(* one at a time, each ends once, for one reason that never changes, and   *)
(* its trace file is closed after it has ended.                            *)
(***************************************************************************)
CONSTANTS Runs,    \* captures
          Reasons, \* why a capture may end
          None

VARIABLES slot,  \* the capture that is running, or None
          phase, \* per capture: where it is in its life
          cause  \* per capture: why it ended

vars == <<slot, phase, cause>>

Init ==
  /\ slot = None
  /\ phase = [r \in Runs |-> "new"]
  /\ cause = [r \in Runs |-> None]

Begin(r) ==
  /\ slot = None
  /\ phase[r] = "new"
  /\ slot' = r
  /\ phase' = [phase EXCEPT ![r] = "running"]
  /\ UNCHANGED cause

End(w) ==
  /\ slot # None
  /\ slot' = None
  /\ phase' = [phase EXCEPT ![slot] = "ended"]
  /\ cause' = [cause EXCEPT ![slot] = w]

Close(r) ==
  /\ phase[r] = "ended"
  /\ phase' = [phase EXCEPT ![r] = "closed"]
  /\ UNCHANGED <<slot, cause>>

Next ==
  \/ \E r \in Runs : Begin(r) \/ Close(r)
  \/ \E w \in Reasons : End(w)

Spec == Init /\ [][Next]_vars

=============================================================================
