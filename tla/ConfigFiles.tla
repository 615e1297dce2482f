----------------------------- MODULE ConfigFiles -----------------------------
(***************************************************************************)
(* What the config thread (config.c) keeps from one configuration file to  *)
(* the next: the parser of device files, as in DeviceConf, and flyMqttCong,*)
(* which each command 3 changes where config/public.yml says so and sends. *)
(* The thread does one thing after the other, so the reading of an MQTT    *)
(* section is one step between two device files.                           *)
(*                                                                         *)
(* Addresses are texts of at most 15 characters, as every IPv4 address is: *)
(* a longer one overruns tempScalarValue and mqttServerAddr.               *)
(***************************************************************************)
EXTENDS DeviceConf, Sequences

CONSTANTS
    Chars,       \* what addresses are written with
    MqttAddrs    \* the addresses the MQTT section of a file may give

ASSUME MqttAssumption == MqttAddrs \subseteq Seq(Chars)

VARIABLES
    mqttFiles,      \* MQTT sections read so far
    mqttServerAddr, \* the text in flyMqttCong
    mqttGiven,      \* the last address a file has given
    mqttLongest,    \* the length of the longest one
    mqttSent        \* the address last sent

mqttVars == <<mqttFiles, mqttServerAddr, mqttGiven, mqttLongest, mqttSent>>
filesVars == <<vars, mqttVars>>

\* The text of a zeroed field.
NoText == << >>

FilesInit ==
    /\ Init
    /\ mqttFiles = 0 /\ mqttLongest = 0
    /\ mqttServerAddr = NoText /\ mqttGiven = NoText /\ mqttSent = NoText
------------------------------------------------------------------------------
\* Mutant: the new address is put behind the old one.
CopiedBehind(new, old) == old \o new

\* memcpy of strlen(value) characters over the old text.
Copied(new, old) == new \o SubSeq(old, Len(new) + 1, Len(old))

\* A command 3 whose file gives an address, or none; then what is in
\* flyMqttCong is sent.
ReadMqtt ==
    /\ alive /\ ~reading
    /\ files + mqttFiles < MaxFiles
    /\ mqttFiles' = mqttFiles + 1
    /\ \/ \E a \in MqttAddrs :
             /\ mqttServerAddr' = Copied(a, mqttServerAddr)
             /\ mqttGiven' = a
             /\ mqttLongest' = IF Len(a) > mqttLongest THEN Len(a) ELSE mqttLongest
       \/ UNCHANGED <<mqttServerAddr, mqttGiven, mqttLongest>>
    /\ mqttSent' = mqttServerAddr'
    /\ UNCHANGED vars

ReadDevice ==
    /\ Next
    /\ files' + mqttFiles <= MaxFiles
    /\ UNCHANGED mqttVars

FilesNext == ReadMqtt \/ ReadDevice

FilesSpec == FilesInit /\ [][FilesNext]_filesVars
------------------------------------------------------------------------------
\* The gateway is sent to the broker the file names as long as no file has named
\* a longer address since the program was started (config.c:162-165, 791-796).
AddressAsGiven == Len(mqttGiven) = mqttLongest => mqttSent = mqttGiven
==============================================================================
