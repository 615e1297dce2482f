---------------------------- MODULE CloudMessages ----------------------------
(***************************************************************************)
(* The messages of the cloud queue, as config.c and device.c put them in   *)
(* and cloud.c takes them out: type 1 carries the MQTT parameters, of      *)
(* which only the address of the broker matters, type 2 the JSON text of   *)
(* an upload.  "bytes" is the size given to msgsnd.                        *)
(***************************************************************************)
CONSTANTS
    Addrs,     \* brokers
    MqttBytes, \* sizeof(mqttConfParam_t), 24
    JsonBytes  \* length of the uploaded JSON text, 1666 for the template

NoAddr == "none"

MqttMsg(a) == [mtype |-> 1, bytes |-> MqttBytes, addr |-> a]
JsonMsg == [mtype |-> 2, bytes |-> JsonBytes, addr |-> NoAddr]
CloudMsgs == {MqttMsg(a) : a \in Addrs} \cup {JsonMsg}
==============================================================================
