------------------------- MODULE MCCaptureLifecycle -------------------------
(* Instances of CaptureLifecycle for TLC.                                  *)
EXTENDS CaptureLifecycle

CONSTANTS c1, t1, t2, srv, s1, nil

MCOutsideReason ==
  [o \in Outsiders |-> IF o = srv THEN "shutdown" ELSE "browser gone"]

=============================================================================
