-------------------------------- MODULE MCUpload --------------------------------
(***************************************************************************)
(* Upload for TLC: the two ports that upload, and a configuration for each *)
(* of them.                                                                *)
(***************************************************************************)
EXTENDS Upload

PortFiles == {"Tcp", "Rtu"}
==============================================================================
