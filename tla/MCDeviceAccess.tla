--------------------------- MODULE MCDeviceAccess ---------------------------
(***************************************************************************)
(* An instance of DeviceAccess over Pairing.                               *)
(***************************************************************************)
EXTENDS DeviceAccess

CONSTANTS p1, p2, q1, q2
=============================================================================
