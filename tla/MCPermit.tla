------------------------------- MODULE MCPermit -------------------------------
(***************************************************************************)
(* PermitHistory for TLC: the fewest ports that show what the count of an  *)
(* interface update does, one that clears its own flag and one that clears *)
(* none and acknowledges again in every loop.                              *)
(***************************************************************************)
EXTENDS PermitHistory

PermitPorts == {"Tcp", "Rtu3"}
PermitFiles == {"Tcp", "Rtu3", NoPort, "missing"}
==============================================================================
