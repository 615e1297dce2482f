------------------------------- MODULE MCStartup -------------------------------
(***************************************************************************)
(* Startup for TLC: the Rtu1 port, which opens a serial line and clears    *)
(* its own flag, and the Tcp port.                                         *)
(***************************************************************************)
EXTENDS Startup

StartPorts == {"Rtu1", "Tcp"}
==============================================================================
