---------------------------- MODULE CloudProofs ----------------------------
(***************************************************************************)
(* Proofs about Cloud.  Inv is the inductive invariant behind them: next   *)
(* to the types it says that no network thread runs before the first one   *)
(* has been started, and that a buffer of type 1 holds an address, which   *)
(* is what connects the branch the mqtt thread takes to the state it finds *)
(* when it arrives at mosquitto_connect_async.  Quiet adds what holds of   *)
(* the network thread as long as no connection has been lost.              *)
(***************************************************************************)
EXTENDS Cloud, TLAPS

HasAddr == cloudCmdMsg.addr \in Addrs

Inv ==
    /\ TypeOK
    /\ OneLoop
    /\ ~mqttConfigState => loop = "none"
    /\ cloudCmdMsg.mtype = 1 => HasAddr
    /\ pc \in {"disconnect", "join", "connect", "start"} => HasAddr

\* What a message in the queue is.
LEMMA MsgsFields ==
    \A m \in CloudMsgs \cup {ZeroMsg} \cup {SeenMsg(a) : a \in Addrs} :
       /\ m.addr \in Addrs \cup {NoAddr}
       /\ m.mtype = 1 => m.addr \in Addrs
       /\ m.mtype \in 0..2
<1>1. \A a \in Addrs :
         /\ MqttMsg(a).mtype = 1 /\ MqttMsg(a).addr = a
         /\ SeenMsg(a).mtype = 0 /\ SeenMsg(a).addr = a
  BY DEF MqttMsg, SeenMsg
<1>2. /\ JsonMsg.mtype = 2 /\ JsonMsg.addr = NoAddr
      /\ ZeroMsg.mtype = 0 /\ ZeroMsg.addr = NoAddr
  BY DEF JsonMsg, ZeroMsg
<1>3. QED
  BY <1>1, <1>2 DEF CloudMsgs

\* Clearing the type of a broker's address leaves a buffer TypeOK allows.
LEMMA ClearedType ==
    ASSUME NEW m \in CloudMsgs \cup {ZeroMsg} \cup {SeenMsg(a) : a \in Addrs},
           m.mtype = 1
    PROVE  /\ [m EXCEPT !.mtype = 0] \in {SeenMsg(a) : a \in Addrs}
           /\ [m EXCEPT !.mtype = 0].addr = m.addr
           /\ [m EXCEPT !.mtype = 0].mtype = 0
<1>1. PICK a \in Addrs : m = MqttMsg(a)
  <2>1. JsonMsg.mtype # 1 /\ ZeroMsg.mtype # 1 /\ \A a \in Addrs : SeenMsg(a).mtype # 1
    BY DEF JsonMsg, ZeroMsg, SeenMsg, MqttMsg
  <2>2. QED
    BY <2>1 DEF CloudMsgs
<1>2. [m EXCEPT !.mtype = 0] = SeenMsg(a)
  BY <1>1 DEF MqttMsg, SeenMsg
<1> QED BY <1>1, <1>2 DEF MqttMsg, SeenMsg

\* The queue starts empty.
LEMMA EmptyType == << >> \in Seq(CloudMsgs)
OBVIOUS

\* Inv holds at the start of the program.
LEMMA InvInit == Init => Inv
<1> SUFFICES ASSUME Init PROVE Inv
  OBVIOUS
<1>1. TypeOK
  <2>1. faults \in 0..MaxFaults /\ restarts \in 0..MaxRestarts
    BY CloudAssumption DEF Init
  <2>2. cloudQ \in Seq(CloudMsgs)
    BY EmptyType DEF Init
  <2>3. /\ mqttConfigState \in BOOLEAN /\ closing \in BOOLEAN /\ bye \in BOOLEAN
        /\ rcOk \in BOOLEAN /\ net \in BOOLEAN
    BY DEF Init
  <2> QED BY <2>1, <2>2, <2>3 DEF Init, TypeOK, Pcs, Loops
<1>2. cloudCmdMsg.mtype = 0
  BY DEF Init, ZeroMsg
<1> QED BY <1>1, <1>2 DEF Init, Inv, OneLoop

\* Every step keeps Inv.
LEMMA InvNext == Inv /\ [Next]_vars => Inv'
<1> SUFFICES ASSUME Inv, [Next]_vars PROVE Inv'
  OBVIOUS
<1> USE CloudAssumption DEF Inv, TypeOK, OneLoop, HasAddr, Pcs, Loops,
        handleVars, threadVars, envVars
<1>1. CASE MosquittoNew
  BY <1>1 DEF MosquittoNew
<1>2. CASE ClearMsg
  BY <1>2 DEF ClearMsg, ZeroMsg
<1>3. CASE ReceiveMsg
  BY <1>3, MsgsFields DEF ReceiveMsg
<1>4. CASE Branch
  BY <1>4 DEF Branch
<1>5. CASE Disconnect
  BY <1>5 DEF Disconnect
<1>6. CASE LoopStop
  BY <1>6 DEF LoopStop
<1>7. CASE ConnectAsync
  BY <1>7 DEF ConnectAsync, ForgetLink
<1>8. CASE LoopStart
  BY <1>8 DEF LoopStart
<1>9. CASE LoopStartFails
  BY <1>9 DEF LoopStartFails
<1>10. CASE Publish
  BY <1>10 DEF Publish
<1>11. CASE WriteDisconnect
  BY <1>11 DEF WriteDisconnect
<1>12. CASE NoSocket
  BY <1>12 DEF NoSocket
<1>13. CASE Callback
  <2>1. CASE cloudCmdMsg.mtype = 1
    BY <1>13, <2>1, ClearedType DEF Callback, Asked, ForgetType, Returned
  <2>2. CASE cloudCmdMsg.mtype # 1
    BY <1>13, <2>2 DEF Callback, Asked
  <2> QED BY <2>1, <2>2
<1>14. CASE CallbackReconnect
  BY <1>14 DEF CallbackReconnect, ForgetLink
<1>15. CASE CallbackConnected
  BY <1>15 DEF CallbackConnected, Returned
<1>16. CASE CheckState
  BY <1>16 DEF CheckState, ForgetLink
<1>17. CASE Reconnect
  BY <1>17 DEF Reconnect
<1>18. CASE Arrive
  BY <1>18, MsgsFields DEF Arrive
<1>19. CASE LinkDrops
  BY <1>19 DEF LinkDrops
<1>20. CASE NetDown
  <2>1. net' \in BOOLEAN
    <3>1. net' = FALSE
      BY <1>20 DEF NetDown
    <3> QED BY <3>1
  <2>3. faults' \in 0..MaxFaults
    BY <1>20 DEF NetDown
  <2>2. UNCHANGED <<cloudQ, cloudCmdMsg, mqttConfigState, pc, handleVars,
                    threadVars, restarts>>
    BY <1>20 DEF NetDown
  <2> QED BY <2>1, <2>2, <2>3
<1>21. CASE NetUp
  BY <1>21 DEF NetUp
<1>22. CASE Restart
  <2>1. restarts' \in 0..MaxRestarts
    BY <1>22 DEF Restart
  <2>2. cloudCmdMsg' = ZeroMsg /\ cloudCmdMsg'.mtype = 0
    BY <1>22 DEF Restart, ZeroMsg
  <2>3. /\ mqttConfigState' = FALSE /\ pc' = "new" /\ loop' = "none"
        /\ closing' = FALSE /\ bye' = FALSE /\ rcOk' = FALSE
        /\ host' = NoAddr /\ link' = NoAddr
    BY <1>22 DEF Restart
  <2>4. UNCHANGED <<cloudQ, net, faults>>
    BY <1>22 DEF Restart
  <2>5. TypeOK'
    BY <2>1, <2>2, <2>3, <2>4
  <2> QED BY <2>2, <2>3, <2>5
<1>23. CASE UNCHANGED vars
  BY <1>23 DEF vars
<1> QED
  BY <1>1, <1>2, <1>3, <1>4, <1>5, <1>6, <1>7, <1>8, <1>9, <1>10, <1>11, <1>12, <1>13, <1>14, <1>15, <1>16, <1>17, <1>18, <1>19, <1>20, <1>21, <1>22, <1>23
     DEF Next, MqttStep, LoopStep, Surroundings

\* So Inv always holds.
LEMMA Invariance == Spec => []Inv
BY InvInit, InvNext, PTL DEF Spec

\* The variables of cloud.c and of the handle stay in their ranges.
THEOREM CloudTypes == Spec => []TypeOK
<1>1. Inv => TypeOK
  BY DEF Inv
<1> QED BY <1>1, Invariance, PTL

\* At most one network thread runs on the handle of the broker, and a new
\* broker is connected to only while there is none (cloud.c:175-189).
THEOREM OneNetworkThread == Spec => []OneLoop
<1>1. Inv => OneLoop
  BY DEF Inv
<1> QED BY <1>1, Invariance, PTL

\* The address the connect loop reads through its pointer into cloudCmdMsg is
\* a received one (cloud.c:112, 173, 181).
THEOREM AddressSurvives == Spec => []AddrKept
<1>1. Inv => AddrKept
  BY DEF Inv, AddrKept, HasAddr
<1> QED BY <1>1, Invariance, PTL

\* What makes NothingLost inductive.  Before the first fault the network thread
\* runs whenever a broker was configured and none is being taken over, on a
\* socket to the broker configured last; it leaves its loop only while it is
\* joined, on the DISCONNECT packet, and until its callback has run the buffer
\* still holds the broker's address that the callback looks for.
Quiet ==
    faults = 0 =>
       /\ net
       /\ loop \in {"none", "run", "lostHeld", "check", "ended"}
       /\ loop \in {"lostHeld", "check", "ended"} => pc = "join" /\ link = NoAddr /\ ~bye
       /\ loop = "run" =>
             \/ link = host /\ host \in Addrs /\ (bye <=> pc = "join")
             \/ link = NoAddr /\ ~bye /\ pc = "join"
       /\ loop = "lostHeld" \/ bye => cloudCmdMsg.mtype = 1
       /\ loop = "none" => ~bye
       /\ pc = "join" => closing /\ loop # "none"
       /\ pc = "disconnect" => loop = "run" /\ cloudCmdMsg.mtype = 1
       /\ pc = "branch" => cloudCmdMsg.mtype \in {1, 2}
       /\ pc = "start" => link = host /\ host \in Addrs /\ ~bye
       /\ pc = "new" => ~mqttConfigState
       /\ mqttConfigState /\ pc \in {"clear", "recv", "branch", "publish"} => loop = "run"

\* Every step keeps Quiet.
LEMMA QuietStep == Inv /\ Quiet /\ [Next]_vars => Quiet'
<1> SUFFICES ASSUME Inv, Quiet, [Next]_vars PROVE Quiet'
  OBVIOUS
<1> USE CloudAssumption DEF Inv, TypeOK, OneLoop, HasAddr, Pcs, Loops, Quiet,
        handleVars, threadVars, envVars
<1>1. CASE MosquittoNew
  BY <1>1 DEF MosquittoNew
<1>2. CASE ClearMsg
  BY <1>2 DEF ClearMsg, ZeroMsg
<1>3. CASE ReceiveMsg
  <2>1. \A m \in CloudMsgs : m.mtype \in {1, 2}
    BY DEF CloudMsgs, MqttMsg, JsonMsg
  <2>2. cloudCmdMsg' \in CloudMsgs
    BY <1>3 DEF ReceiveMsg
  <2> QED BY <1>3, <2>1, <2>2 DEF ReceiveMsg
<1>4. CASE Branch
  BY <1>4 DEF Branch
<1>5. CASE Disconnect
  BY <1>5 DEF Disconnect
<1>6. CASE LoopStop
  BY <1>6 DEF LoopStop
<1>7. CASE ConnectAsync
  BY <1>7 DEF ConnectAsync, Resolves, ForgetLink
<1>8. CASE LoopStart
  BY <1>8 DEF LoopStart
<1>9. CASE LoopStartFails
  BY <1>9 DEF LoopStartFails
<1>10. CASE Publish
  BY <1>10 DEF Publish
<1>11. CASE WriteDisconnect
  BY <1>11 DEF WriteDisconnect
<1>12. CASE NoSocket
  BY <1>12 DEF NoSocket
<1>13. CASE Callback
  BY <1>13, ClearedType DEF Callback, Asked, ForgetType, Returned
<1>14. CASE CallbackReconnect
  BY <1>14 DEF CallbackReconnect
<1>15. CASE CallbackConnected
  BY <1>15 DEF CallbackConnected
<1>16. CASE CheckState
  BY <1>16 DEF CheckState
<1>17. CASE Reconnect
  BY <1>17 DEF Reconnect
<1>18. CASE Arrive
  BY <1>18, MsgsFields DEF Arrive
<1>19. CASE LinkDrops
  BY <1>19 DEF LinkDrops
<1>20. CASE NetDown
  BY <1>20 DEF NetDown
<1>21. CASE NetUp
  BY <1>21 DEF NetUp
<1>22. CASE Restart
  BY <1>22 DEF Restart
<1>23. CASE UNCHANGED vars
  BY <1>23 DEF vars
<1> QED
  BY <1>1, <1>2, <1>3, <1>4, <1>5, <1>6, <1>7, <1>8, <1>9, <1>10, <1>11, <1>12, <1>13, <1>14, <1>15, <1>16, <1>17, <1>18, <1>19, <1>20, <1>21, <1>22, <1>23
     DEF Next, MqttStep, LoopStep, Surroundings

\* Without a lost connection and without an outage, no message is passed over,
\* no join hangs, and what is published goes to the broker configured last
\* (cloud.c:110, 168, 178, 200).
THEOREM OnlyFaultsLose == Spec => []NothingLost
<1>1. Init => Quiet
  BY DEF Init, Quiet, ZeroMsg
<1>2. Inv /\ Quiet => NothingLost
  BY DEF Inv, TypeOK, Quiet, NothingLost, JoinStuck
<1> QED BY <1>1, <1>2, QuietStep, Invariance, PTL DEF Spec

\* One step of a stuck join.
LEMMA JoinStuckStep ==
    ASSUME TypeOK, [Next]_vars, JoinStuck, restarts' = restarts
    PROVE  JoinStuck' /\ Len(cloudQ') >= Len(cloudQ)
<1> USE DEF TypeOK, JoinStuck, handleVars, threadVars, envVars
<1>1. CASE MqttStep
  BY <1>1 DEF MqttStep, MosquittoNew, ClearMsg, ReceiveMsg, Branch, Disconnect,
              LoopStop, ConnectAsync, LoopStart, LoopStartFails, Publish
<1>2. CASE LoopStep
  BY <1>2 DEF LoopStep, WriteDisconnect, NoSocket, Callback, Asked, ForgetType, CallbackReconnect,
              CallbackConnected, CheckState, Reconnect, Returned, ForgetLink
<1>3. CASE Arrive
  BY <1>3, MsgsFields DEF Arrive
<1>4. CASE LinkDrops \/ NetDown \/ NetUp
  BY <1>4 DEF LinkDrops, NetDown, NetUp
<1>5. CASE Restart
  BY <1>5 DEF Restart
<1>6. CASE UNCHANGED vars
  BY <1>6 DEF vars
<1> QED BY <1>1, <1>2, <1>3, <1>4, <1>5, <1>6 DEF Next, Surroundings

\* A join of a network thread that has forgotten that it should end never
\* returns (cloud.c:177-178).
THEOREM StuckJoinStays == Spec => JoinStuckForever
<1>1. Inv /\ [Next]_vars
        => [JoinStuck /\ restarts' = restarts
              => JoinStuck' /\ Len(cloudQ') >= Len(cloudQ)]_vars
  BY JoinStuckStep DEF Inv
<1> QED BY <1>1, Invariance, PTL DEF Spec, JoinStuckForever
==============================================================================
