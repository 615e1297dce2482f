----------------------------- MODULE ConfHandoff -----------------------------
(***************************************************************************)
(* How a configuration travels through flyGateway, from the socket of the  *)
(* configuration program to the Modbus ports:                              *)
(*                                                                         *)
(*   configThreadFunc (config.c) reads a command, reads the YAML file it   *)
(*     announces and sends a message of type 1 (interfaces) or 2 (one end  *)
(*     device) to the local queue, or one of type 3's MQTT parameters to   *)
(*     the cloud queue;                                                    *)
(*   modbusTimerThreadFunc (device.c) takes one message per tick from the  *)
(*     local queue and raises the "new configuration" flags of the ports;  *)
(*   the five port threads poll their flag and acknowledge, an interface   *)
(*     update by decrementing localConfigCnt, a device configuration by    *)
(*     posting deviceConfSem.                                              *)
(*                                                                         *)
(* deviceConfSem is the permit these threads pass on: the config thread    *)
(* holds it while it parses a device file and sends it, the timer takes it *)
(* for every message, and whoever finishes the message gives it back.      *)
(*                                                                         *)
(* A port decrements localConfigCnt with a load, a store of its flag and a *)
(* store of the count (the order of the committed object code); the timer  *)
(* raises the flags before it resets the count.  These accesses are not    *)
(* protected by anything and are steps of their own here.                  *)
(***************************************************************************)
EXTENDS Integers, FiniteSets, SysVQueue, CloudMessages

CONSTANTS
    Ports,       \* the ports of the gateway: all of AllPorts in the program
    Cmds,        \* the commands the socket delivers: 1 interfaces, 2 end
                 \* devices, 3 MQTT
    Files,       \* the kinds of device file a list may name: the port the file
                 \* selects, NoPort, or "missing" or "malformed"
    PublicYml,   \* what reading config/public.yml may meet: "ok", "missing",
                 \* "malformed"
    MaxInputs,   \* bound: commands and list entries the environment supplies
    MaxRestarts, \* bound: restarts of the process
    MaxSem,      \* bound: the value up to which the semaphore is posted
    TextBytes,   \* sizeof(commonMsg_t.msgtext), 2048
    ConfBytes,   \* sizeof(endDeviceConf_t), 3344 in the committed build
    IfaceBytes,  \* sizeof(modbusConfParam_t), 520
    QBytes,      \* msg_qbytes of a queue (kernel.msgmnb), 16384 by default
    LocalIds,    \* the identifiers msgget may return for the local queue
    CntReload    \* what localConfigCnt is set to after a round, 0xFF

AllPorts == {"Rtu", "Rtu1", "Rtu2", "Rtu3", "Tcp"}
NoPort == "none"
Confs == Ports \cup {NoPort}

ASSUME HandoffAssumption ==
    /\ "Tcp" \in Ports /\ Ports \subseteq AllPorts
    /\ Cmds \subseteq {1, 2, 3}
    /\ Files \subseteq Confs \cup {"missing", "malformed"}
    /\ PublicYml \subseteq {"ok", "missing", "malformed"}
    /\ MaxInputs \in Nat /\ MaxRestarts \in Nat
    /\ MaxSem \in Nat \ {0}
    /\ {TextBytes, ConfBytes, IfaceBytes, MqttBytes, JsonBytes, QBytes}
           \subseteq Nat
    /\ IfaceBytes <= TextBytes
    /\ LocalIds \subseteq Nat
    /\ CntReload \in Nat /\ CntReload >= Cardinality(Ports)

\* The messages of the local queue.  Of a device configuration only the port
\* it selects matters here (the comparisons of devMsgDectect).
IfaceMsg == [mtype |-> 1, conf |-> NoPort, bytes |-> IfaceBytes]
ConfMsg(c) == [mtype |-> 2, conf |-> c, bytes |-> ConfBytes]
ZeroMsg == [mtype |-> 0, conf |-> NoPort, bytes |-> 0]
LocalMsgs == {IfaceMsg} \cup {ConfMsg(c) : c \in Confs}

VARIABLES
    up,            \* the process is running
    restarts,      \* restarts so far
    inputs,        \* inputs the environment has left
    cfgPc,         \* where the config thread is
    cfgFile,       \* the list entry it works on
    endDeviceConf, \* the configuration parsed last: the port it selects
    localId,       \* the identifier of the local queue
    localCmdMsgId, \* config.c's copy of it
    localQ,        \* the local queue, in the kernel
    cloudQ,        \* the cloud queue, in the kernel
    sem,           \* value of deviceConfSem
    tmPc,          \* where the timer thread is
    localBuf,      \* device.c's localCmdMsg
    tempSet,       \* tempConfig is not NULL
    cnt,           \* localConfigCnt; -1 stands for every negative value
    flag,          \* modbus...NewConf of each port: 0, 1 or 2
    ptPc,          \* where each port thread is
    reg,           \* the count a port has loaded and not stored yet
    due            \* modbusRtuTimeOut

cfgVars == <<cfgPc, cfgFile, endDeviceConf, localCmdMsgId>>
tmVars == <<tmPc, localBuf, tempSet>>
portVars == <<flag, ptPc, reg, due>>
queueVars == <<localQ, cloudQ>>
envVars == <<up, restarts, inputs, localId>>
vars == <<envVars, cfgVars, queueVars, sem, tmVars, cnt, portVars>>

CfgPcs == {"recv", "send1", "scan2", "wait", "parse", "send2", "post",
           "send3", "hang", "hangHeld"}
TmPcs == {"detect", "wait", "apply", "count", "tick", "reload"}
PtPcs == {"poll", "clear", "store", "work", "post", "tmo", "upload"}
Counts == Nat \cup {-1}

\* What localConfigCnt starts a round with: 5, the number of ports.
FullCount == Cardinality(Ports)

\* Types and ranges of all variables.
TypeOK ==
    /\ up \in BOOLEAN
    /\ restarts \in 0..MaxRestarts
    /\ inputs \in 0..MaxInputs
    /\ cfgPc \in CfgPcs
    /\ cfgFile \in Files \cup {NoPort}
    /\ endDeviceConf \in Confs
    /\ localId \in LocalIds
    /\ localCmdMsgId \in {0, localId}
    /\ localQ \in Seq(LocalMsgs)
    /\ cloudQ \in Seq(CloudMsgs)
    /\ sem \in 0..MaxSem
    /\ tmPc \in TmPcs
    /\ localBuf \in LocalMsgs \cup {ZeroMsg}
    /\ tempSet \in BOOLEAN
    /\ cnt \in Counts
    /\ flag \in [Ports -> 0..2]
    /\ ptPc \in [Ports -> PtPcs]
    /\ reg \in [Ports -> Counts]
    /\ due \in BOOLEAN

Init ==
    /\ up = TRUE /\ restarts = 0 /\ inputs = MaxInputs
    /\ cfgPc = "recv" /\ cfgFile = NoPort /\ endDeviceConf = NoPort
    /\ localId \in LocalIds /\ localCmdMsgId = localId
    /\ localQ = << >> /\ cloudQ = << >>
    /\ sem = 1
    /\ tmPc = "detect" /\ localBuf = ZeroMsg /\ tempSet = FALSE
    /\ cnt = FullCount
    /\ flag = [p \in Ports |-> 0]
    /\ ptPc = [p \in Ports |-> "poll"]
    /\ reg = [p \in Ports |-> 0]
    /\ due = FALSE
------------------------------------------------------------------------------
(***************************************************************************)
(* deviceConfSem.                                                          *)
(***************************************************************************)
\* Mutant: the wait does not sleep on zero.
SemWaitNoSleep == sem' = sem - 1

SemWait == sem > 0 /\ sem' = sem - 1
SemPost == sem < MaxSem /\ sem' = sem + 1
------------------------------------------------------------------------------
(***************************************************************************)
(* The config thread.  The rest of a line of the list, the scanner's state *)
(* and the values of the settings are left out.                            *)
(***************************************************************************)

\* A command arrives on the socket and config/public.yml is read.  An absent
\* file sends nothing; in a malformed one yaml_parser_scan never reaches the
\* end of the stream and its result is not looked at, so the scan never ends.
Receive(cmd, yml) ==
    /\ up /\ cfgPc = "recv" /\ inputs > 0
    /\ inputs' = inputs - 1
    /\ \/ yml = "missing" /\ cfgPc' = "recv"
       \/ yml # "missing" /\ cmd = 2 /\ cfgPc' = "scan2"
       \/ yml = "malformed" /\ cmd # 2 /\ cfgPc' = "hang"
       \/ yml = "ok" /\ cmd = 1 /\ cfgPc' = "send1"
       \/ yml = "ok" /\ cmd = 3 /\ cfgPc' = "send3"
    /\ UNCHANGED <<up, restarts, localId, cfgFile, endDeviceConf, localCmdMsgId,
                   queueVars, sem, tmVars, cnt, portVars>>

\* The list of device files: its next entry, its end, or the malformed line.
NextEntry(f) ==
    /\ up /\ cfgPc = "scan2" /\ inputs > 0
    /\ inputs' = inputs - 1
    /\ cfgFile' = f
    /\ cfgPc' = "wait"
    /\ UNCHANGED <<up, restarts, localId, endDeviceConf, localCmdMsgId,
                   queueVars, sem, tmVars, cnt, portVars>>

EndOfList ==
    /\ up /\ cfgPc = "scan2"
    /\ cfgPc' = "recv" /\ cfgFile' = NoPort
    /\ UNCHANGED <<envVars, endDeviceConf, localCmdMsgId,
                   queueVars, sem, tmVars, cnt, portVars>>

ScanForever ==
    /\ up /\ cfgPc = "scan2" /\ "malformed" \in PublicYml
    /\ cfgPc' = "hang" /\ cfgFile' = NoPort
    /\ UNCHANGED <<envVars, endDeviceConf, localCmdMsgId,
                   queueVars, sem, tmVars, cnt, portVars>>

ConfWait ==
    /\ up /\ cfgPc = "wait"
    /\ SemWait
    /\ cfgPc' = "parse"
    /\ UNCHANGED <<envVars, cfgFile, endDeviceConf, localCmdMsgId,
                   queueVars, tmVars, cnt, portVars>>

\* configForEndDeviceUpdate, then the copy of endDeviceConf into the message.
\* A file that cannot be opened leaves endDeviceConf as the last file set it,
\* and its message is sent all the same.  The copy runs past msgtext and over
\* localCmdMsgId, the next variable of the object file, with zero bytes.
ParseConf ==
    /\ up /\ cfgPc = "parse"
    /\ IF cfgFile = "malformed"
       THEN /\ cfgPc' = "hangHeld"
            /\ endDeviceConf' = NoPort
            /\ UNCHANGED localCmdMsgId
       ELSE /\ cfgPc' = "send2"
            /\ endDeviceConf' = IF cfgFile = "missing" THEN endDeviceConf
                                                       ELSE cfgFile
            /\ localCmdMsgId' = IF ConfBytes > TextBytes THEN 0
                                                         ELSE localCmdMsgId
    /\ cfgFile' = NoPort
    /\ UNCHANGED <<envVars, queueVars, sem, tmVars, cnt, portVars>>

\* msgsnd to the identifier the config thread has.  When that is not the
\* identifier of the local queue any more, the call fails and the process
\* exits, or it reaches (or sleeps on) some other queue of the system, one that is
\* not the gateway's.
MsgsndLocal(m, sent, asleep) ==
    \/ /\ localCmdMsgId = localId
       /\ HasRoom(localQ, m, QBytes)
       /\ localQ' = Append(localQ, m)
       /\ cfgPc' = sent
       /\ UNCHANGED up
    \/ /\ localCmdMsgId # localId
       /\ \/ up' = FALSE /\ UNCHANGED cfgPc
          \/ cfgPc' = sent /\ UNCHANGED up
          \/ cfgPc' = asleep /\ UNCHANGED up
       /\ UNCHANGED localQ

SendIface ==
    /\ up /\ cfgPc = "send1"
    /\ MsgsndLocal(IfaceMsg, "recv", "hang")
    /\ UNCHANGED <<restarts, inputs, localId, cfgFile, endDeviceConf, localCmdMsgId,
                   cloudQ, sem, tmVars, cnt, portVars>>

SendConf ==
    /\ up /\ cfgPc = "send2"
    /\ MsgsndLocal(ConfMsg(endDeviceConf), "post", "hangHeld")
    /\ UNCHANGED <<restarts, inputs, localId, cfgFile, endDeviceConf, localCmdMsgId,
                   cloudQ, sem, tmVars, cnt, portVars>>

ConfPost ==
    /\ up /\ cfgPc = "post"
    /\ SemPost
    /\ cfgPc' = "scan2"
    /\ UNCHANGED <<envVars, cfgFile, endDeviceConf, localCmdMsgId,
                   queueVars, tmVars, cnt, portVars>>

\* Mutant: the message is sent before the address is in it.
SendMqttEmpty(a) ==
    /\ up /\ cfgPc = "send3"
    /\ HasRoom(cloudQ, MqttMsg(NoAddr), QBytes)
    /\ cloudQ' = Append(cloudQ, MqttMsg(NoAddr))
    /\ cfgPc' = "recv"
    /\ UNCHANGED <<envVars, cfgFile, endDeviceConf, localCmdMsgId,
                   localQ, sem, tmVars, cnt, portVars>>

\* The address is the one the file gave; what the copy into mqttServerAddr
\* makes of it is the subject of the module ConfigFiles.
SendMqtt(a) ==
    /\ up /\ cfgPc = "send3"
    /\ HasRoom(cloudQ, MqttMsg(a), QBytes)
    /\ cloudQ' = Append(cloudQ, MqttMsg(a))
    /\ cfgPc' = "recv"
    /\ UNCHANGED <<envVars, cfgFile, endDeviceConf, localCmdMsgId,
                   localQ, sem, tmVars, cnt, portVars>>

\* The steps the thread takes by itself, and those that need an input.
ConfigStep ==
    \/ EndOfList \/ ScanForever \/ ConfWait \/ ParseConf
    \/ SendIface \/ SendConf \/ ConfPost
    \/ \E a \in Addrs : SendMqtt(a)

Input ==
    \/ \E cmd \in Cmds, yml \in PublicYml : Receive(cmd, yml)
    \/ \E f \in Files : NextEntry(f)
------------------------------------------------------------------------------
(***************************************************************************)
(* The timer thread.                                                       *)
(***************************************************************************)

\* Mutant: the receive takes a message of any length.
RecvAnyBytes == QBytes

\* The length devMsgDectect receives with: sizeof(commonMsg_t)-sizeof(long).
RecvBytes == TextBytes

\* devMsgDectect: the buffer is cleared, then one message is asked for
\* without waiting.  A message longer than the buffer stays in the queue.
Detect ==
    /\ up /\ tmPc = "detect"
    /\ IF Receivable(localQ, RecvBytes)
       THEN localBuf' = Head(localQ) /\ localQ' = Tail(localQ) /\ tmPc' = "wait"
       ELSE localBuf' = ZeroMsg /\ tmPc' = "tick" /\ UNCHANGED localQ
    /\ UNCHANGED <<envVars, cfgVars, cloudQ, sem, tempSet, cnt, portVars>>

TimerWait ==
    /\ up /\ tmPc = "wait"
    /\ SemWait
    /\ tmPc' = "apply"
    /\ UNCHANGED <<envVars, cfgVars, queueVars, localBuf, tempSet, cnt, portVars>>

\* An interface update raises the flag of every port, then resets the count.
\* (No port reads another port's flag, so the five stores are one step.)
ApplyIface ==
    /\ up /\ tmPc = "apply" /\ localBuf.mtype = 1
    /\ flag' = [p \in Ports |-> 1]
    /\ tmPc' = "count"
    /\ UNCHANGED <<envVars, cfgVars, queueVars, sem, localBuf, tempSet, cnt,
                   ptPc, reg, due>>

SetCount ==
    /\ up /\ tmPc = "count"
    /\ cnt' = FullCount
    /\ tmPc' = "tick"
    /\ UNCHANGED <<envVars, cfgVars, queueVars, sem, localBuf, tempSet, portVars>>

\* A device configuration raises the flag of the port it names, if any does.
ApplyConf ==
    /\ up /\ tmPc = "apply" /\ localBuf.mtype = 2
    /\ tempSet' = TRUE
    /\ flag' = [p \in Ports |-> IF p = localBuf.conf THEN 2 ELSE flag[p]]
    /\ tmPc' = "tick"
    /\ UNCHANGED <<envVars, cfgVars, queueVars, sem, localBuf, cnt,
                   ptPc, reg, due>>

\* Mutant: a round is taken for ended with at most one acknowledgement missing.
RoundOverOneShort == cnt <= 1

RoundOver == cnt = 0

\* The tick: the timeouts are raised and the count is tested for zero.
Tick ==
    /\ up /\ tmPc = "tick"
    /\ due' = TRUE
    /\ tmPc' = IF RoundOver THEN "reload" ELSE "detect"
    /\ UNCHANGED <<envVars, cfgVars, queueVars, sem, localBuf, tempSet, cnt,
                   flag, ptPc, reg>>

\* Mutant: the count is left at zero.
ReloadKeepsCount ==
    /\ up /\ tmPc = "reload"
    /\ SemPost
    /\ tmPc' = "detect"
    /\ UNCHANGED <<envVars, cfgVars, queueVars, localBuf, tempSet, cnt, portVars>>

Reload ==
    /\ up /\ tmPc = "reload"
    /\ cnt' = CntReload
    /\ SemPost
    /\ tmPc' = "detect"
    /\ UNCHANGED <<envVars, cfgVars, queueVars, localBuf, tempSet, portVars>>

TimerStep ==
    \/ Detect \/ TimerWait \/ ApplyIface \/ SetCount \/ ApplyConf \/ Tick \/ Reload
------------------------------------------------------------------------------
(***************************************************************************)
(* The port threads.  Only modbusRtuThreadFunc does something the others   *)
(* wait for when its timeout is due: it uploads.                           *)
(***************************************************************************)
EndOfLoop(p) == IF p = "Rtu" THEN "tmo" ELSE "poll"

\* Whose flag a port clears when it acknowledges an interface update: its own,
\* but modbusRtu2ThreadFunc clears modbusRtuNewConf.  modbusRtu3ThreadFunc
\* clears none.
Cleared(p) == IF p = "Rtu2" THEN "Rtu" ELSE p

Decrement(n) == IF n = -1 THEN -1 ELSE n - 1

\* Mutant: the decrement is protected with deviceConfSem, which the timer has.
AckLoadLocked(p) ==
    /\ up /\ ptPc[p] = "poll" /\ flag[p] = 1
    /\ SemWait
    /\ reg' = [reg EXCEPT ![p] = cnt]
    /\ ptPc' = [ptPc EXCEPT ![p] = IF p = "Rtu3" THEN "store" ELSE "clear"]
    /\ UNCHANGED <<envVars, cfgVars, queueVars, tmVars, cnt, flag, due>>

AckLoad(p) ==
    /\ up /\ ptPc[p] = "poll" /\ flag[p] = 1
    /\ reg' = [reg EXCEPT ![p] = cnt]
    /\ ptPc' = [ptPc EXCEPT ![p] = IF p = "Rtu3" THEN "store" ELSE "clear"]
    /\ UNCHANGED <<envVars, cfgVars, queueVars, sem, tmVars, cnt, flag, due>>

AckClear(p) ==
    /\ up /\ ptPc[p] = "clear"
    /\ flag' = [flag EXCEPT ![Cleared(p)] = 0]
    /\ ptPc' = [ptPc EXCEPT ![p] = "store"]
    /\ UNCHANGED <<envVars, cfgVars, queueVars, sem, tmVars, cnt, reg, due>>

AckStore(p) ==
    /\ up /\ ptPc[p] = "store"
    /\ cnt' = Decrement(reg[p])
    /\ reg' = [reg EXCEPT ![p] = 0]
    /\ ptPc' = [ptPc EXCEPT ![p] = EndOfLoop(p)]
    /\ UNCHANGED <<envVars, cfgVars, queueVars, sem, tmVars, flag, due>>

\* Mutant: the flag of a device configuration is not cleared, as the Rtu3
\* thread does not clear that of an interface update.
TakeConfKeepFlag(p) ==
    /\ up /\ ptPc[p] = "poll" /\ flag[p] = 2
    /\ ptPc' = [ptPc EXCEPT ![p] = IF p = "Tcp" THEN "work" ELSE "post"]
    /\ UNCHANGED <<envVars, cfgVars, queueVars, sem, tmVars, cnt, flag, reg, due>>

\* Mutant: the Tcp thread does not look for a device configuration.
TakeConfNotTcp(p) ==
    /\ up /\ ptPc[p] = "poll" /\ flag[p] = 2 /\ p # "Tcp"
    /\ flag' = [flag EXCEPT ![p] = 0]
    /\ ptPc' = [ptPc EXCEPT ![p] = "post"]
    /\ UNCHANGED <<envVars, cfgVars, queueVars, sem, tmVars, cnt, reg, due>>

\* A device configuration.  The contexts of the four serial ports are never
\* set, so these ports only give the permit back; the Tcp port connects and
\* uploads first.
TakeConf(p) ==
    /\ up /\ ptPc[p] = "poll" /\ flag[p] = 2
    /\ flag' = [flag EXCEPT ![p] = 0]
    /\ ptPc' = [ptPc EXCEPT ![p] = IF p = "Tcp" THEN "work" ELSE "post"]
    /\ UNCHANGED <<envVars, cfgVars, queueVars, sem, tmVars, cnt, reg, due>>

\* deviceStateUpdate: nothing without a configuration, else one JSON message,
\* sent with flag 0: the thread sleeps while the cloud queue is full.
DeviceStateUpdate ==
    IF tempSet
    THEN HasRoom(cloudQ, JsonMsg, QBytes) /\ cloudQ' = Append(cloudQ, JsonMsg)
    ELSE UNCHANGED cloudQ

TcpUpload ==
    /\ up /\ ptPc["Tcp"] = "work"
    /\ DeviceStateUpdate
    /\ ptPc' = [ptPc EXCEPT !["Tcp"] = "post"]
    /\ UNCHANGED <<envVars, cfgVars, localQ, sem, tmVars, cnt, flag, reg, due>>

ConfDone(p) ==
    /\ up /\ ptPc[p] = "post"
    /\ SemPost
    /\ ptPc' = [ptPc EXCEPT ![p] = EndOfLoop(p)]
    /\ UNCHANGED <<envVars, cfgVars, queueVars, tmVars, cnt, flag, reg, due>>

\* The rest of modbusRtuThreadFunc's loop: the timeout is tested after the
\* flag, and the upload of a due timeout uses whatever tempConfig points to.
RtuNothingNew ==
    /\ up /\ ptPc["Rtu"] = "poll" /\ flag["Rtu"] = 0
    /\ ptPc' = [ptPc EXCEPT !["Rtu"] = "tmo"]
    /\ UNCHANGED <<envVars, cfgVars, queueVars, sem, tmVars, cnt, flag, reg, due>>

RtuTimeout ==
    /\ up /\ ptPc["Rtu"] = "tmo"
    /\ due' = FALSE
    /\ ptPc' = [ptPc EXCEPT !["Rtu"] = IF due THEN "upload" ELSE "poll"]
    /\ UNCHANGED <<envVars, cfgVars, queueVars, sem, tmVars, cnt, flag, reg>>

RtuUpload ==
    /\ up /\ ptPc["Rtu"] = "upload"
    /\ DeviceStateUpdate
    /\ ptPc' = [ptPc EXCEPT !["Rtu"] = "poll"]
    /\ UNCHANGED <<envVars, cfgVars, localQ, sem, tmVars, cnt, flag, reg, due>>

RtuLoop == RtuNothingNew \/ RtuTimeout \/ RtuUpload

PortStep(p) ==
    \/ AckLoad(p) \/ AckClear(p) \/ AckStore(p)
    \/ TakeConf(p) \/ ConfDone(p)
    \/ p = "Tcp" /\ TcpUpload
    \/ p = "Rtu" /\ RtuLoop
------------------------------------------------------------------------------
(***************************************************************************)
(* The surroundings: the MQTT thread takes messages from the cloud queue,  *)
(* and the process is killed and started again, which keeps both queues.   *)
(***************************************************************************)
CloudTake ==
    /\ up /\ cloudQ # << >>
    /\ cloudQ' = Tail(cloudQ)
    /\ UNCHANGED <<envVars, cfgVars, localQ, sem, tmVars, cnt, portVars>>

Restart ==
    /\ restarts < MaxRestarts
    /\ restarts' = restarts + 1
    /\ up' = TRUE
    /\ cfgPc' = "recv" /\ cfgFile' = NoPort /\ endDeviceConf' = NoPort
    /\ localCmdMsgId' = localId
    /\ sem' = 1
    /\ tmPc' = "detect" /\ localBuf' = ZeroMsg /\ tempSet' = FALSE
    /\ cnt' = FullCount
    /\ flag' = [p \in Ports |-> 0]
    /\ ptPc' = [p \in Ports |-> "poll"]
    /\ reg' = [p \in Ports |-> 0]
    /\ due' = FALSE
    /\ UNCHANGED <<inputs, localId, queueVars>>

Next ==
    \/ Input
    \/ ConfigStep
    \/ TimerStep
    \/ \E p \in Ports : PortStep(p)
    \/ CloudTake
    \/ Restart

Spec == Init /\ [][Next]_vars

\* Every thread is scheduled again and again, and the MQTT thread keeps taking
\* messages; the socket need not deliver anything and nobody need restart the
\* process.  The Tcp thread sleeping in msgsnd is strongly fair: the kernel
\* wakes sleeping senders in the order they came, so the uploads of the Rtu
\* thread can not take every place that becomes free.
Fairness ==
    /\ WF_vars(ConfigStep)
    /\ WF_vars(TimerStep)
    /\ \A p \in Ports : WF_vars(PortStep(p))
    /\ SF_vars(TcpUpload)
    /\ WF_vars(CloudTake)

FairSpec == Spec /\ Fairness
------------------------------------------------------------------------------
(***************************************************************************)
(* Properties.                                                             *)
(***************************************************************************)

\* The build as committed: an end device's configuration is longer than the
\* text of a message.
Oversized == ConfBytes > TextBytes

\* A step that is not a restart of the process.
SameRun == restarts' = restarts

\* Once the configuration of an end device has been queued, it is never
\* received, and neither is any message behind it, of whatever type: msgrcv
\* fails with E2BIG on it at every tick (device.c:386).  The queue keeps all of
\* them in their order, at most moved up by one, over restarts too.
ConfStaysQueued ==
    [][Oversized =>
         \A i \in DOMAIN localQ :
            localQ[i].mtype = 2 =>
               \E d \in {0, 1} :
                  /\ d < i
                  /\ \A k \in i..Len(localQ) : /\ k - d \in DOMAIN localQ'
                                                /\ localQ'[k - d] = localQ[k]]_vars

\* As committed no end device configuration ever gets through: no port sees
\* flag 2, tempConfig stays NULL, so no port ever has anything to upload
\* (device.c:409-435, 612), although config.c keeps sending them.
NoConfReachesPort ==
    Oversized => /\ \A p \in Ports : flag[p] # 2 /\ ptPc[p] \notin {"work", "post"}
                 /\ ~tempSet
                 /\ \A i \in DOMAIN cloudQ : cloudQ[i].mtype = 1

\* The count can not come back to zero by itself: it is negative, and every
\* decrement under way stores a negative value; or it is not zero and no
\* decrement is under way or asked for.
CountDead ==
    \/ /\ cnt = -1
       /\ \A p \in Ports : ptPc[p] \in {"clear", "store"} => reg[p] <= 0
    \/ /\ cnt # 0
       /\ \A p \in Ports : flag[p] # 1 /\ ptPc[p] \notin {"clear", "store"}

\* The config thread sleeps in msgsnd with the permit, and the timer does not
\* make room: it waits for that permit, or the message at the head of the queue is
\* one it can not receive.
ConfigJammed ==
    /\ cfgPc = "send2" /\ localCmdMsgId = localId
    /\ ~HasRoom(localQ, ConfMsg(endDeviceConf), QBytes)
    /\ \/ tmPc = "wait"
       \/ Oversized /\ localQ # << >> /\ Head(localQ).mtype = 2

\* Nobody has the permit who could still give it back.  The timer can not while
\* it waits for the permit with the next message in hand, whatever the count.
PermitLost ==
    /\ sem = 0
    /\ cfgPc \notin {"parse", "send2", "post"} \/ ConfigJammed
    /\ tmPc \in {"detect", "wait", "tick"}
    /\ \A p \in Ports : flag[p] # 2 /\ ptPc[p] \notin {"work", "post"}
    /\ tmPc = "wait" \/ CountDead

\* A permit that is lost stays lost until the process is restarted: no order
\* of the threads' steps repairs it.  It is lost when the timer misses the
\* zero of the count (device.c:984) or receives the next message while an
\* update is not acknowledged (device.c:386, 394), when the config thread sleeps
\* on a full queue with it (config.c:678) or scans a malformed file without end
\* (config.c:237), or when the configuration names no port (device.c:409-435).
PermitLostForever == [][PermitLost /\ SameRun => PermitLost']_vars

\* An interface update that a port sees is acknowledged by that port, whatever
\* the other threads do (device.c:802-805, 925-928).  Only ports that clear
\* their own flag and no other port's are named; the Tcp port may be asleep in
\* msgsnd before it looks, and wakes because the MQTT thread takes messages.
AckedEventually ==
    \A p \in {"Rtu1", "Tcp"} \cap Ports : (flag[p] = 1) ~> (flag[p] # 1 \/ ~up)

\* What the comment of modbusRtuThreadFunc (device.c:751) says of an interface
\* update: the port is closed and initialised again.  So the flag that asks
\* for it is cleared by that thread alone, on its way there.
UpdateReachesPort ==
    [][flag["Rtu"] = 1 /\ flag'["Rtu"] = 0 /\ SameRun => ptPc["Rtu"] = "clear"]_vars

\* What README.md:2 says the gateway is for: a device that has been configured
\* is read and its data uploaded.
ConfUploaded ==
    (\E i \in DOMAIN localQ : localQ[i].mtype = 2)
        ~> (\E i \in DOMAIN cloudQ : cloudQ[i].mtype = 2)
==============================================================================
