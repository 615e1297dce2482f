---------------------------- MODULE MCConfHandoff ----------------------------
(***************************************************************************)
(* ConfHandoff for TLC.  The configurations give the constants the values  *)
(* of the committed build, except for bounds and for QBytes, which is      *)
(* chosen so small that the queues fill up.                                *)
(***************************************************************************)
EXTENDS ConfHandoffPermit

\* A port that clears its own flag and one that clears none, so that the count
\* reaches zero after the reload too.
TwoPorts == {"Rtu3", "Tcp"}

\* The kinds of device file.
AnyFile == {"Tcp", "Rtu3", NoPort, "missing", "malformed"}
PortFiles == {"Tcp", "Rtu"}

\* Of each kind of port one file: two that upload, one that clears another's
\* flag.
AllFiles == {"Rtu", "Rtu2", "Tcp", NoPort, "missing", "malformed"}
==============================================================================
