--------------------------- MODULE MCDeviceIdentity ---------------------------
(***************************************************************************)
(* Instances of DeviceIdentity for TLC.  The session and the requests are  *)
(* model values; the bounds are set in each configuration.                 *)
(***************************************************************************)
EXTENDS DeviceIdentity
=============================================================================
