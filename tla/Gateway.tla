-------------------------------- MODULE Gateway --------------------------------
(***************************************************************************)
(* The whole gateway: the threads of config.c and device.c (ConfHandoff)   *)
(* and those of cloud.c (Cloud) on one cloud queue, in one process.        *)
(*                                                                         *)
(* ConfHandoff assumes that somebody keeps taking messages from the cloud  *)
(* queue.  Here it is mqttThreadFunc that does, and it does so only        *)
(* between two messages: while it joins the network thread or tries to     *)
(* connect nothing is taken, the queue fills up, and a port that uploads   *)
(* sleeps in msgsnd with deviceConfSem.                                    *)
(***************************************************************************)
EXTENDS ConfHandoffPermit

CONSTANTS
    BadAddrs,  \* the brokers whose name never resolves
    MaxFaults, \* bound: connections lost and network outages
    NoMemory   \* mosquitto_new and mosquitto_loop_start may fail

VARIABLES
    cloudCmdMsg, mqttConfigState, pc,        \* of cloud.c
    host, link, closing, bye,                \* of the handle
    loop, rcOk,                              \* of the network thread
    net, faults                              \* of the surroundings

\* cloudQ and restarts are the variables of both sides.
C == INSTANCE Cloud

ASSUME GatewayAssumption ==
    /\ NoAddr \notin Addrs
    /\ BadAddrs \subseteq Addrs
    /\ MaxFaults \in Nat
    /\ NoMemory \in BOOLEAN

cloudOwn == <<cloudCmdMsg, mqttConfigState, pc, host, link, closing, bye,
              loop, rcOk, net, faults>>
handoffOwn == <<up, inputs, localId, cfgVars, localQ, sem, tmVars, cnt, portVars>>
gvars == <<vars, cloudOwn>>

GInit == Init /\ C!Init
------------------------------------------------------------------------------
\* A thread of config.c or device.c.
HandoffStep ==
    /\ Input \/ ConfigStep \/ TimerStep \/ \E p \in Ports : PortStep(p)
    /\ UNCHANGED cloudOwn

\* mqttThreadFunc's msgrcv is what takes a message from the cloud queue.
TakeMsg == CloudTake /\ C!ReceiveMsg

MqttOther ==
    /\ \/ C!MosquittoNew \/ C!ClearMsg \/ C!Branch \/ C!Disconnect \/ C!LoopStop
       \/ C!ConnectAsync \/ C!LoopStart \/ C!LoopStartFails \/ C!Publish
    /\ up
    /\ UNCHANGED handoffOwn

MqttThread == TakeMsg \/ MqttOther

NetworkThread == (C!LoopStep \/ C!LinkDrops) /\ up /\ UNCHANGED handoffOwn

Net == (C!NetDown \/ C!NetUp) /\ UNCHANGED handoffOwn

RestartAll == Restart /\ C!Restart

GNext == HandoffStep \/ MqttThread \/ NetworkThread \/ Net \/ RestartAll

GSpec == GInit /\ [][GNext]_gvars

\* Of the fairness of the two parts, what an upload needs; that messages are
\* taken from the cloud queue is no assumption any more.
GFairSpec ==
    /\ GSpec
    /\ SF_gvars(TcpUpload /\ UNCHANGED cloudOwn)
    /\ WF_gvars(MqttThread)
    /\ WF_gvars(C!LoopStep /\ up /\ UNCHANGED handoffOwn)
------------------------------------------------------------------------------
(***************************************************************************)
(* Properties.                                                             *)
(***************************************************************************)

\* config.c and device.c put into the queue what cloud.c expects of it: every
\* step of the gateway is one of Cloud, or none (config.c:794, device.c:727).
ImplementsCloud == C!Spec

\* mqttThreadFunc takes no message ever again: it tries to connect to a broker
\* that does not resolve, joins a thread that does not end, or has returned.
CloudDead ==
    \/ C!JoinStuck
    \/ pc = "connect" /\ cloudCmdMsg.addr \in BadAddrs
    \/ pc = "ended"

\* The Tcp thread sleeps in msgsnd on the full cloud queue, with the permit.
UploadJammed ==
    /\ CloudDead
    /\ ptPc["Tcp"] = "work" /\ tempSet
    /\ ~HasRoom(cloudQ, JsonMsg, QBytes)

\* One broker that does not resolve stops the configuration of devices too
\* (cloud.c:181, device.c:727, 928-934): nobody gets the permit before the process
\* is restarted, so no device file is read and no message of the local queue applied.
JamForever ==
    [][UploadJammed /\ SameRun => UploadJammed' /\ sem' = 0]_gvars

\* Short of that the port does get on: without a lost connection, an outage or
\* a restart an upload ends, and with it the use of the permit, unless a
\* broker does not resolve or a library call fails (device.c:727).
UploadEnds ==
    (ptPc["Tcp"] = "work")
        ~> (\/ ptPc["Tcp"] # "work"
            \/ faults > 0 \/ restarts > 0
            \/ host \in BadAddrs \/ pc = "ended")
==============================================================================
