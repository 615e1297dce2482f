------------------------------ MODULE MCGateway ------------------------------
(***************************************************************************)
(* Gateway for TLC: the ports that upload, a broker that resolves and one  *)
(* that does not.                                                          *)
(***************************************************************************)
EXTENDS Gateway

UploadPorts == {"Rtu", "Tcp"}
GoodAndBad == {"a", "b"}
==============================================================================
