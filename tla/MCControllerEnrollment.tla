----------------------- MODULE MCControllerEnrollment -----------------------
(* Bounded instances of ControllerEnrollment for TLC.                      *)
EXTENDS ControllerEnrollment
=============================================================================
