------------------------------ MODULE MCCloud ------------------------------
(***************************************************************************)
(* Cloud for TLC: two brokers, which shows the change from one to another. *)
(***************************************************************************)
EXTENDS Cloud

TwoBrokers == {"a", "b"}
NoBroker == {}
OneBad == {"b"}
==============================================================================
