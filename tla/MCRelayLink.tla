---------------------------- MODULE MCRelayLink ----------------------------
(***************************************************************************)
(* An instance of RelayLink.  A behaviour contains one of: three DELETE    *)
(* requests, two of them for the route of the sockets, and restarts; one   *)
(* DELETE while both ends connect; tickets that expire and are presented   *)
(* again, over a restart; requests of a device that connects twice; a      *)
(* request and a laptop that connects twice.                               *)
(***************************************************************************)
EXTENDS RelayLink

CONSTANTS h1, h2, d1, d2, home, elsewhere, e1, e2, e3, i1, i2

MCDeleteOf == [d \in Delete |-> IF d = e3 THEN elsewhere ELSE home]

Budget(sockets, deletes, requests, faults) ==
  [sockets |-> sockets, deletes |-> deletes, requests |-> requests, faults |-> faults]

MCBudgets == {Budget({h1}, {e1, e2, e3}, {}, {"restart"}),
              Budget({h1, h2, d1, d2}, {e1}, {}, {}),
              Budget({h1, h2, d1}, {}, {}, {"tickets", "restart"}),
              Budget({h1, d1, d2}, {}, {i1, i2}, {}),
              Budget({h1, h2, d1, d2}, {}, {i1}, {"restart"})}
=============================================================================
