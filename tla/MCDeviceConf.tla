----------------------------- MODULE MCDeviceConf -----------------------------
(***************************************************************************)
(* ConfigFiles for TLC: two sections, which share the name of one item, as *)
(* the sections of deviceTable do, and of which one has the unit the copy  *)
(* into the message turns into a pointer; and addresses, of which some are *)
(* shorter than others.                                                    *)
(***************************************************************************)
EXTENDS ConfigFiles

TwoSections ==
    [s \in {"PrimaryPipeNet", "SecondaryPipeNet"} |->
        IF s = "PrimaryPipeNet" THEN {"supplyWaterTemperature"}
        ELSE {"supplyWaterTemperature", "feedWaterPumpstate"}]
ShortAndLong == {<<1>>, <<1, 2>>, <<2, 1>>}
PumpState == <<"SecondaryPipeNet", "feedWaterPumpstate">>
==============================================================================
