-------------------------------- MODULE Cloud --------------------------------
(***************************************************************************)
(* The cloud side of flyGateway (cloud.c): mqttThreadFunc takes messages   *)
(* from the cloud queue, the address of an MQTT broker (type 1) or a JSON  *)
(* text to publish (type 2), and drives one handle of libmosquitto, whose  *)
(* network thread runs the callbacks of cloud.c.                           *)
(*                                                                         *)
(* Both threads read and write cloudCmdMsg and the state of the handle.    *)
(* A new broker is taken over in four calls: mosquitto_disconnect,         *)
(* mosquitto_loop_stop, which joins the network thread,                    *)
(* mosquitto_connect_async and mosquitto_loop_start.  The network thread   *)
(* ends only when it finds the handle "disconnecting" after its connection *)
(* is gone.                                                                *)
(*                                                                         *)
(* The network thread itself is external (the libmosquitto.so.1 the        *)
(* repository links against); modelled are the calls cloud.c makes and the *)
(* order in which the library runs the disconnect callback.                *)
(***************************************************************************)
EXTENDS SysVQueue, CloudMessages

CONSTANTS
    BadAddrs,    \* the brokers whose name never resolves
    QBytes,      \* msg_qbytes of the cloud queue (kernel.msgmnb), 16384 by default
    MaxFaults,   \* bound: connections lost and network outages
    MaxRestarts, \* bound: restarts of the process
    NoMemory     \* mosquitto_new and mosquitto_loop_start may fail

ASSUME CloudAssumption ==
    /\ NoAddr \notin Addrs
    /\ BadAddrs \subseteq Addrs
    /\ {MqttBytes, JsonBytes, QBytes, MaxFaults, MaxRestarts} \subseteq Nat
    /\ NoMemory \in BOOLEAN

\* cloudCmdMsg after its memset.
ZeroMsg == [mtype |-> 0, bytes |-> 0, addr |-> NoAddr]

\* What the disconnect callback leaves of a broker's address.
SeenMsg(a) == [MqttMsg(a) EXCEPT !.mtype = 0]

VARIABLES
    cloudQ,          \* the cloud queue, in the kernel
    cloudCmdMsg,     \* the one message buffer of cloud.c
    mqttConfigState, \* a network thread has been started
    pc,              \* where mqttThreadFunc is
    host,            \* the handle's broker
    link,            \* the broker the handle has a socket to
    closing,         \* the handle's state is "disconnecting"
    bye,             \* a DISCONNECT packet is queued in the handle
    loop,            \* where the network thread is
    rcOk,            \* the network thread's mosquitto_loop will return success
    net,             \* names resolve and the network is reachable
    faults, restarts \* what the surroundings have done so far

handleVars == <<host, link, closing, bye>>
threadVars == <<loop, rcOk>>
envVars == <<net, faults, restarts>>
vars == <<cloudQ, cloudCmdMsg, mqttConfigState, pc, handleVars, threadVars, envVars>>

Pcs == {"new", "clear", "recv", "branch", "disconnect", "join", "connect",
        "start", "publish", "ended"}
Loops == {"none", "run", "lost", "lostHeld", "callback", "callbackConnect",
          "check", "connect", "stuck", "ended"}

\* Types and ranges of all variables.
TypeOK ==
    /\ cloudQ \in Seq(CloudMsgs)
    /\ cloudCmdMsg \in CloudMsgs \cup {ZeroMsg} \cup {SeenMsg(a) : a \in Addrs}
    /\ mqttConfigState \in BOOLEAN
    /\ pc \in Pcs
    /\ {host, link} \subseteq Addrs \cup {NoAddr}
    /\ closing \in BOOLEAN /\ bye \in BOOLEAN
    /\ loop \in Loops /\ rcOk \in BOOLEAN
    /\ net \in BOOLEAN
    /\ faults \in 0..MaxFaults
    /\ restarts \in 0..MaxRestarts

Init ==
    /\ cloudQ = << >> /\ cloudCmdMsg = ZeroMsg
    /\ mqttConfigState = FALSE /\ pc = "new"
    /\ host = NoAddr /\ link = NoAddr /\ closing = FALSE /\ bye = FALSE
    /\ loop = "none" /\ rcOk = FALSE
    /\ net = TRUE /\ faults = 0 /\ restarts = 0
------------------------------------------------------------------------------
(***************************************************************************)
(* mqttThreadFunc.                                                         *)
(***************************************************************************)
MosquittoNew ==
    /\ pc = "new"
    /\ pc' \in {"clear"} \cup (IF NoMemory THEN {"ended"} ELSE {})
    /\ UNCHANGED <<cloudQ, cloudCmdMsg, mqttConfigState, handleVars, threadVars, envVars>>

\* Mutant: the memset clears the text and leaves the type of the last message.
ClearTextOnly ==
    /\ pc = "clear"
    /\ cloudCmdMsg' = [cloudCmdMsg EXCEPT !.addr = NoAddr]
    /\ pc' = "recv"
    /\ UNCHANGED <<cloudQ, mqttConfigState, handleVars, threadVars, envVars>>

\* dev2cloudMsgDectect clears the buffer, then sleeps until there is a message.
ClearMsg ==
    /\ pc = "clear"
    /\ cloudCmdMsg' = ZeroMsg
    /\ pc' = "recv"
    /\ UNCHANGED <<cloudQ, mqttConfigState, handleVars, threadVars, envVars>>

ReceiveMsg ==
    /\ pc = "recv" /\ cloudQ # << >>
    /\ cloudCmdMsg' = Head(cloudQ)
    /\ cloudQ' = Tail(cloudQ)
    /\ pc' = "branch"
    /\ UNCHANGED <<mqttConfigState, handleVars, threadVars, envVars>>

\* Mutant: a network thread that runs is not looked for.
BranchAlwaysConnect ==
    /\ pc = "branch"
    /\ pc' = CASE cloudCmdMsg.mtype = 1 -> "connect"
               [] cloudCmdMsg.mtype = 2 -> "publish"
               [] OTHER -> "clear"
    /\ UNCHANGED <<cloudQ, cloudCmdMsg, mqttConfigState, handleVars, threadVars, envVars>>

\* The type is read after the receive: the disconnect callback may have
\* cleared it, and then the message is passed over.
Branch ==
    /\ pc = "branch"
    /\ pc' = CASE cloudCmdMsg.mtype = 1 /\ mqttConfigState -> "disconnect"
               [] cloudCmdMsg.mtype = 1 /\ ~mqttConfigState -> "connect"
               [] cloudCmdMsg.mtype = 2 -> "publish"
               [] OTHER -> "clear"
    /\ UNCHANGED <<cloudQ, cloudCmdMsg, mqttConfigState, handleVars, threadVars, envVars>>

\* mosquitto_disconnect: without a socket nothing is queued.
Disconnect ==
    /\ pc = "disconnect"
    /\ closing' = TRUE
    /\ bye' = (link # NoAddr)
    /\ pc' = "join"
    /\ UNCHANGED <<cloudQ, cloudCmdMsg, mqttConfigState, host, link, threadVars, envVars>>

\* Mutant: mosquitto_loop_stop(mosq, true), which cancels the network thread.
LoopStopForced ==
    /\ pc = "join"
    /\ loop' = "none"
    /\ pc' = "connect"
    /\ UNCHANGED <<cloudQ, cloudCmdMsg, mqttConfigState, handleVars, rcOk, envVars>>

\* mosquitto_loop_stop(mosq, false) waits for the network thread to end.
LoopStop ==
    /\ pc = "join" /\ loop = "ended"
    /\ loop' = "none"
    /\ pc' = "connect"
    /\ UNCHANGED <<cloudQ, cloudCmdMsg, mqttConfigState, handleVars, rcOk, envVars>>

\* A handle that is made to connect forgets the old socket, what was queued on
\* it and that it was "disconnecting", before anything of it can fail.
ForgetLink == link' = NoAddr /\ closing' = FALSE /\ bye' = FALSE

Resolves(a) == net /\ a \notin BadAddrs

\* Mutant: the address is given up after one attempt.
ConnectAsyncOnce ==
    /\ pc = "connect"
    /\ host' = cloudCmdMsg.addr
    /\ IF Resolves(cloudCmdMsg.addr)
       THEN /\ link' = cloudCmdMsg.addr /\ pc' = "start"
            /\ closing' = FALSE /\ bye' = FALSE
       ELSE ForgetLink /\ pc' = "clear"
    /\ UNCHANGED <<cloudQ, cloudCmdMsg, mqttConfigState, threadVars, envVars>>

\* mosquitto_connect_async, tried again every second until it succeeds.
ConnectAsync ==
    /\ pc = "connect"
    /\ host' = cloudCmdMsg.addr
    /\ IF Resolves(cloudCmdMsg.addr)
       THEN /\ link' = cloudCmdMsg.addr /\ pc' = "start"
            /\ closing' = FALSE /\ bye' = FALSE
       ELSE ForgetLink /\ UNCHANGED pc
    /\ UNCHANGED <<cloudQ, cloudCmdMsg, mqttConfigState, threadVars, envVars>>

LoopStart ==
    /\ pc = "start"
    /\ loop' = "run" /\ rcOk' = FALSE
    /\ mqttConfigState' = TRUE
    /\ pc' = "clear"
    /\ UNCHANGED <<cloudQ, cloudCmdMsg, handleVars, envVars>>

LoopStartFails ==
    /\ pc = "start" /\ NoMemory
    /\ pc' = "ended"
    /\ UNCHANGED <<cloudQ, cloudCmdMsg, mqttConfigState, handleVars, threadVars, envVars>>

\* Mutant: publishing waits for a connection.
PublishConnected ==
    /\ pc = "publish" /\ link # NoAddr
    /\ pc' = "clear"
    /\ UNCHANGED <<cloudQ, cloudCmdMsg, mqttConfigState, handleVars, threadVars, envVars>>

\* mosquitto_publish: without a connection the text is dropped, the result is
\* not looked at.
Publish ==
    /\ pc = "publish"
    /\ pc' = "clear"
    /\ UNCHANGED <<cloudQ, cloudCmdMsg, mqttConfigState, handleVars, threadVars, envVars>>

MqttStep ==
    \/ MosquittoNew \/ ClearMsg \/ ReceiveMsg \/ Branch
    \/ Disconnect \/ LoopStop \/ ConnectAsync \/ LoopStart \/ LoopStartFails
    \/ Publish
------------------------------------------------------------------------------
(***************************************************************************)
(* The network thread of libmosquitto.                                     *)
(***************************************************************************)
\* The DISCONNECT packet is written and the socket closed; the callback is
\* then run with the lock of the packet being written (current_out_packet).
WriteDisconnect ==
    /\ loop = "run" /\ link # NoAddr /\ bye
    /\ link' = NoAddr /\ bye' = FALSE
    /\ loop' = "lostHeld" /\ rcOk' = TRUE
    /\ UNCHANGED <<cloudQ, cloudCmdMsg, mqttConfigState, pc, host, closing, envVars>>

\* Without a socket mosquitto_loop fails.
NoSocket ==
    /\ loop = "run" /\ link = NoAddr
    /\ loop' = "check" /\ rcOk' = FALSE
    /\ UNCHANGED <<cloudQ, cloudCmdMsg, mqttConfigState, pc, handleVars, envVars>>

Returned == loop' = IF rcOk THEN "run" ELSE "check"

\* Mutant: every disconnect is taken for a lost connection.
NeverAsked == FALSE

\* While a broker's address is in the buffer, the disconnect is taken for one
\* the program asked for.
Asked == cloudCmdMsg.mtype = 1

\* Mutant: the callback clears the whole buffer, as dev2cloudMsgDectect does.
ForgetMsg == cloudCmdMsg' = ZeroMsg

ForgetType == cloudCmdMsg' = [cloudCmdMsg EXCEPT !.mtype = 0]

\* mqtt_disconnect_callback.  To reconnect it needs the lock of the packet
\* being written: when it is run with that lock, the thread waits for itself.
Callback ==
    /\ loop \in {"lost", "lostHeld"}
    /\ IF Asked
       THEN ForgetType /\ Returned /\ UNCHANGED closing
       ELSE /\ UNCHANGED cloudCmdMsg
            /\ \/ loop = "lost" /\ loop' = "callback" /\ UNCHANGED closing
               \/ loop = "lostHeld" /\ loop' = "stuck" /\ closing' = FALSE
    /\ UNCHANGED <<cloudQ, mqttConfigState, pc, host, link, bye, rcOk, envVars>>

\* One mosquitto_reconnect_async of the callback's loop: the handle is reset,
\* then the connection is tried.
CallbackReconnect ==
    /\ loop = "callback"
    /\ ForgetLink
    /\ loop' = "callbackConnect"
    /\ UNCHANGED <<cloudQ, cloudCmdMsg, mqttConfigState, pc, host, rcOk, envVars>>

CallbackConnected ==
    /\ loop = "callbackConnect"
    /\ IF Resolves(host) THEN link' = host /\ Returned
                         ELSE loop' = "callback" /\ UNCHANGED link
    /\ UNCHANGED <<cloudQ, cloudCmdMsg, mqttConfigState, pc, host, closing, bye, rcOk, envVars>>

\* mosquitto_loop_forever after an error: the thread ends when the handle is
\* "disconnecting", else it sleeps and connects again.
CheckState ==
    /\ loop = "check"
    /\ IF closing THEN loop' = "ended" /\ UNCHANGED <<link, closing, bye>>
                  ELSE loop' = "connect" /\ ForgetLink
    /\ UNCHANGED <<cloudQ, cloudCmdMsg, mqttConfigState, pc, host, rcOk, envVars>>

Reconnect ==
    /\ loop = "connect"
    /\ IF Resolves(host) THEN link' = host /\ loop' = "run"
                         ELSE loop' = "check" /\ UNCHANGED link
    /\ UNCHANGED <<cloudQ, cloudCmdMsg, mqttConfigState, pc, host, closing, bye, rcOk, envVars>>

LoopStep ==
    \/ WriteDisconnect \/ NoSocket \/ Callback
    \/ CallbackReconnect \/ CallbackConnected \/ CheckState \/ Reconnect
------------------------------------------------------------------------------
(***************************************************************************)
(* The surroundings.                                                       *)
(***************************************************************************)
\* The config thread and the ports put messages into the queue, as long as it
\* has room for them.
Arrive ==
    /\ \E m \in CloudMsgs : HasRoom(cloudQ, m, QBytes) /\ cloudQ' = Append(cloudQ, m)
    /\ UNCHANGED <<cloudCmdMsg, mqttConfigState, pc, handleVars, threadVars, envVars>>

\* The broker or the network closes the connection; the network thread sees it
\* and closes the socket.
LinkDrops ==
    /\ faults < MaxFaults /\ faults' = faults + 1
    /\ loop = "run" /\ link # NoAddr
    /\ link' = NoAddr
    /\ loop' = "lost" /\ rcOk' = closing
    /\ UNCHANGED <<cloudQ, cloudCmdMsg, mqttConfigState, pc, host, closing, bye,
                   net, restarts>>

NetDown ==
    /\ faults < MaxFaults /\ faults' = faults + 1
    /\ net /\ net' = FALSE
    /\ UNCHANGED <<cloudQ, cloudCmdMsg, mqttConfigState, pc, handleVars, threadVars,
                   restarts>>

NetUp ==
    /\ ~net /\ net' = TRUE
    /\ UNCHANGED <<cloudQ, cloudCmdMsg, mqttConfigState, pc, handleVars, threadVars,
                   faults, restarts>>

\* The process is started again: cloudInit.  The kernel keeps the queue.
Restart ==
    /\ restarts < MaxRestarts /\ restarts' = restarts + 1
    /\ cloudCmdMsg' = ZeroMsg
    /\ mqttConfigState' = FALSE /\ pc' = "new"
    /\ host' = NoAddr /\ link' = NoAddr /\ closing' = FALSE /\ bye' = FALSE
    /\ loop' = "none" /\ rcOk' = FALSE
    /\ UNCHANGED <<cloudQ, net, faults>>

Surroundings == Arrive \/ LinkDrops \/ NetDown \/ NetUp \/ Restart

Next == MqttStep \/ LoopStep \/ Surroundings

Spec == Init /\ [][Next]_vars

\* Both threads are scheduled again and again, and an outage ends.
FairSpec ==
    /\ Spec
    /\ WF_vars(MqttStep)
    /\ WF_vars(LoopStep)
    /\ WF_vars(NetUp)
------------------------------------------------------------------------------
(***************************************************************************)
(* Properties.                                                             *)
(***************************************************************************)

\* The handle is reset for a new broker and a network thread is started only
\* while there is no network thread (cloud.c:175-189): no two threads ever run
\* on the handle, whatever the callback did in between.
OneLoop == pc \in {"connect", "start"} => loop = "none"

\* mosquitto_connect_async is given a pointer into the buffer the callback also
\* writes (cloud.c:112, 173, 181): what the connect loop reads through it is
\* still an address that was received.
AddrKept == pc \in {"disconnect", "join", "connect"} => cloudCmdMsg.addr \in Addrs

\* The mqtt thread joins a network thread that has forgotten that it should end.
JoinStuck == pc = "join" /\ ~closing /\ loop # "ended"

\* Once the network thread has reset the handle after mosquitto_disconnect, the
\* join of cloud.c:178 never returns: no loss of a connection, outage or
\* callback ends that thread, and no message is taken from the queue again.
JoinStuckForever ==
    [][JoinStuck /\ restarts' = restarts => JoinStuck' /\ Len(cloudQ') >= Len(cloudQ)]_vars

\* Only a loss or an outage makes mqttThreadFunc lose anything: without one no
\* message is passed over because the callback has cleared its type (cloud.c:110,
\* 168), no join hangs, and once there is a broker, data is handed to a handle with
\* a socket to the one configured last, although the result of
\* mosquitto_publish is not looked at (cloud.c:200).
NothingLost ==
    faults = 0 =>
       /\ pc = "branch" => cloudCmdMsg.mtype \in {1, 2}
       /\ pc = "publish" /\ mqttConfigState => link = host /\ host \in Addrs
       /\ ~JoinStuck

\* Without a loss, an outage or a restart every broker's address at the head of
\* the queue is connected to (cloud.c:168-189): the callback recognises the
\* disconnect the program asked for and the join ends.  Only an earlier address
\* that never resolves, and a failing library call, may stand in the way.
QuietTakeover ==
    \A a \in Addrs \ BadAddrs :
       (cloudQ # << >> /\ Head(cloudQ) = MqttMsg(a))
           ~> (\/ link = a
               \/ faults > 0 \/ restarts > 0
               \/ host \in BadAddrs \/ pc = "ended")

\* What the comment of cloud.c:174 says is done with a broker's address: the
\* client connects to that server.  Only for brokers whose name resolves.
NewBrokerUsed ==
    \A a \in Addrs \ BadAddrs :
       (cloudQ # << >> /\ Head(cloudQ) = MqttMsg(a)) ~> (link = a)
==============================================================================
