----------------------------- MODULE GatewayProofs -----------------------------
(***************************************************************************)
(* The gateway implements both its halves, so that what is proved of them  *)
(* holds of it; and a port that sleeps on the cloud queue while its reader *)
(* is gone sleeps for ever.                                                *)
(***************************************************************************)
EXTENDS Gateway, ConfHandoffPermitProofs, WellFoundedInduction
------------------------------------------------------------------------------
(***************************************************************************)
(* A message more takes room away.  QueueBytes is defined by recursion, so *)
(* this rests on an induction over the positions of a queue, for which the *)
(* library's well-foundedness of < on the naturals is used: a set of       *)
(* positions at which something fails has a least element.                 *)
(***************************************************************************)

\* Every nonempty set of natural numbers has a least element.
LEMMA Least ==
    ASSUME NEW T, T \subseteq Nat, T # {}
    PROVE  \E m \in T : \A k \in T : m <= k
<1> DEFINE R == {ss \in Nat \X Nat : ss[1] < ss[2]}
<1>1. IsWellFoundedOn(R, Nat)
  BY NatLessThanWellFounded DEF OpToRel
<1> HIDE DEF R
<1>2. PICK m \in T : \A k \in T : ~ (<<k, m>> \in R)
  BY <1>1, WFMin
<1>3. ASSUME NEW k \in T PROVE m <= k
  <2>1. k \in Nat /\ m \in Nat
    OBVIOUS
  <2>2. ~(k < m)
    BY <1>2, <2>1 DEF R
  <2> QED BY <2>1, <2>2
<1> QED BY <1>3

\* b counts the bytes of the first n messages of q.
CountsUpTo(q, n, b) ==
    /\ b \in [0..n -> Nat]
    /\ b[0] = 0
    /\ \A i \in 1..n : b[i] = b[i - 1] + q[i].bytes

\* What the messages of a queue are: their bytes are a number.
Messages(q) == /\ Len(q) \in Nat
               /\ \A i \in 1..Len(q) : q[i].bytes \in Nat

\* The bytes can be counted up to every position.
LEMMA CountExists ==
    ASSUME NEW q, Messages(q)
    PROVE  \A n \in 0..Len(q) : \E b : CountsUpTo(q, n, b)
<1> DEFINE T == {n \in 0..Len(q) : ~ \E b : CountsUpTo(q, n, b)}
<1> SUFFICES ASSUME T # {} PROVE FALSE
  OBVIOUS
<1>1. T \subseteq Nat
  BY DEF Messages
<1>2. PICK m \in T : \A k \in T : m <= k
  BY <1>1, Least
<1>3. m \in 0..Len(q) /\ ~ \E b : CountsUpTo(q, m, b)
  OBVIOUS
<1>4. m # 0
  <2>1. CountsUpTo(q, 0, [i \in 0..0 |-> 0])
    BY DEF CountsUpTo
  <2> QED BY <1>3, <2>1
<1>5. m - 1 \in 0..Len(q) /\ m - 1 \notin T
  <2>1. m - 1 \in 0..Len(q) /\ ~(m <= m - 1)
    BY <1>3, <1>4 DEF Messages
  <2> HIDE DEF T
  <2> QED BY <1>2, <2>1
<1>6. PICK b : CountsUpTo(q, m - 1, b)
  BY <1>5
<1> DEFINE c == [i \in 0..m |-> IF i = m THEN b[m - 1] + q[m].bytes ELSE b[i]]
<1>7. CountsUpTo(q, m, c)
  <2>1. m \in Nat \ {0} /\ m \in 1..Len(q)
    BY <1>3, <1>4 DEF Messages
  <2>2. q[m].bytes \in Nat /\ b[m - 1] \in Nat
    BY <1>6, <2>1 DEF Messages, CountsUpTo
  <2>3. c \in [0..m -> Nat] /\ c[0] = 0
    BY <1>6, <2>1, <2>2 DEF CountsUpTo
  <2>4. ASSUME NEW i \in 1..m PROVE c[i] = c[i - 1] + q[i].bytes
    <3>1. i \in 0..m /\ i - 1 \in 0..m /\ i - 1 # m
      BY <2>1
    <3>2. c[i] = IF i = m THEN b[m - 1] + q[m].bytes ELSE b[i]
      BY <3>1
    <3>3. c[i - 1] = b[i - 1]
      BY <3>1
    <3> HIDE DEF c
    <3> QED BY <1>6, <2>1, <3>2, <3>3 DEF CountsUpTo
  <2> HIDE DEF c
  <2> QED BY <2>3, <2>4 DEF CountsUpTo
<1> QED BY <1>3, <1>7

\* In one way only.
LEMMA CountUnique ==
    ASSUME NEW q, NEW n \in Nat, NEW b, NEW c, CountsUpTo(q, n, b), CountsUpTo(q, n, c)
    PROVE  \A i \in 0..n : b[i] = c[i]
<1> DEFINE T == {i \in 0..n : b[i] # c[i]}
<1> SUFFICES ASSUME T # {} PROVE FALSE
  OBVIOUS
<1>1. T \subseteq Nat
  OBVIOUS
<1>2. PICK m \in T : \A k \in T : m <= k
  BY <1>1, Least
<1>3. m \in 1..n /\ m - 1 \in 0..n
  BY DEF CountsUpTo
<1>4. b[m - 1] = c[m - 1]
  BY <1>2, <1>3
<1> QED BY <1>3, <1>4 DEF CountsUpTo

\* QueueBytes is that count.
LEMMA BytesCounted ==
    ASSUME NEW q, Messages(q), NEW b, CountsUpTo(q, Len(q), b)
    PROVE  QueueBytes(q) = b[Len(q)]
<1> DEFINE F(f) == [i \in 0..Len(q) |-> IF i = 0 THEN 0 ELSE f[i - 1] + q[i].bytes]
<1> DEFINE s == CHOOSE f : f = F(f)
<1>1. b = F(b)
  BY DEF Messages, CountsUpTo
<1>2. s = F(s)
  <2> HIDE DEF F
  <2> QED BY <1>1
<1>3. \A i \in 0..Len(q) : s[i] = b[i]
  <2> HIDE DEF s
  <2> DEFINE T == {i \in 0..Len(q) : s[i] # b[i]}
  <2> SUFFICES ASSUME T # {} PROVE FALSE
    OBVIOUS
  <2>1. T \subseteq Nat
    BY DEF Messages
  <2>2. PICK m \in T : \A k \in T : m <= k
    BY <2>1, Least
  <2>3. m \in 0..Len(q) /\ s[m] # b[m] /\ Len(q) \in Nat
    BY DEF Messages
  <2>4. s[m] = IF m = 0 THEN 0 ELSE s[m - 1] + q[m].bytes
    BY <1>2, <2>3
  <2>5. m # 0
    BY <2>3, <2>4 DEF CountsUpTo
  <2>6. m - 1 \in 0..Len(q) /\ m - 1 \notin T
    BY <2>2, <2>3, <2>5
  <2> QED BY <2>3, <2>4, <2>5, <2>6 DEF CountsUpTo
<1>4. QueueBytes(q) = s[Len(q)]
  BY DEF QueueBytes
<1> HIDE DEF s
<1> QED BY <1>3, <1>4 DEF Messages

\* A message appended adds its bytes.
LEMMA BytesAppended ==
    ASSUME NEW M, NEW q \in Seq(M), NEW m \in M, \A x \in M : x.bytes \in Nat
    PROVE  /\ QueueBytes(q) \in Nat
           /\ QueueBytes(Append(q, m)) = QueueBytes(q) + m.bytes
<1> DEFINE p == Append(q, m)
<1>1. /\ p \in Seq(M) /\ Len(p) = Len(q) + 1 /\ Len(q) \in Nat
      /\ p[Len(q) + 1] = m /\ \A i \in 1..Len(q) : p[i] = q[i]
  OBVIOUS
<1>2. Messages(q) /\ Messages(p)
  BY <1>1 DEF Messages
<1> HIDE DEF p
<1>3. PICK b : CountsUpTo(q, Len(q), b)
  BY <1>1, <1>2, CountExists
<1>4. PICK c : CountsUpTo(p, Len(p), c)
  BY <1>1, <1>2, CountExists
<1> DEFINE d == [i \in 0..Len(q) |-> c[i]]
<1>5. CountsUpTo(q, Len(q), d)
  BY <1>1, <1>4 DEF CountsUpTo
<1>6. \A i \in 0..Len(q) : b[i] = d[i]
  BY <1>1, <1>3, <1>5, CountUnique
<1>7. b[Len(q)] = c[Len(q)]
  BY <1>1, <1>6
<1>8. c[Len(q) + 1] = c[Len(q)] + m.bytes
  BY <1>1, <1>4 DEF CountsUpTo
<1>9. QueueBytes(q) = b[Len(q)] /\ QueueBytes(p) = c[Len(p)]
  BY <1>2, <1>3, <1>4, BytesCounted
<1>10. b[Len(q)] \in Nat
  BY <1>1, <1>3 DEF CountsUpTo
<1> QED BY <1>1, <1>7, <1>8, <1>9, <1>10 DEF p

\* A queue that has no room for a message has none after another message.
THEOREM NoRoomAfterAppend ==
    ASSUME NEW M, NEW q \in Seq(M), NEW m \in M, \A x \in M : x.bytes \in Nat,
           NEW n \in Nat, NEW x \in M, ~HasRoom(q, x, n)
    PROVE  ~HasRoom(Append(q, m), x, n)
<1>1. /\ QueueBytes(q) \in Nat
      /\ QueueBytes(Append(q, m)) = QueueBytes(q) + m.bytes
  BY BytesAppended
<1>2. Len(Append(q, m)) = Len(q) + 1 /\ Len(q) \in Nat
  OBVIOUS
<1>3. m.bytes \in Nat /\ x.bytes \in Nat
  OBVIOUS
<1> QED BY <1>1, <1>2, <1>3 DEF HasRoom
------------------------------------------------------------------------------
(***************************************************************************)
(* The two halves, and the jam.                                            *)
(***************************************************************************)

\* A step of the gateway is one of ConfHandoff, or none.
THEOREM GatewayHandoff == GSpec => Spec
<1>1. GInit => Init
  BY DEF GInit
<1>2. [GNext]_gvars => [Next]_vars
  <2> SUFFICES ASSUME [GNext]_gvars PROVE [Next]_vars
    OBVIOUS
  <2>1. CASE HandoffStep
    BY <2>1 DEF HandoffStep, Next
  <2>2. CASE TakeMsg
    BY <2>2 DEF TakeMsg, Next
  <2>3. CASE MqttOther
    <3>1. UNCHANGED handoffOwn /\ UNCHANGED <<cloudQ, restarts>>
      BY <2>3 DEF MqttOther, C!MosquittoNew, C!ClearMsg, C!Branch, C!Disconnect,
                  C!LoopStop, C!ConnectAsync, C!LoopStart, C!LoopStartFails,
                  C!Publish, C!envVars
    <3> QED BY <3>1 DEF handoffOwn, vars, envVars, queueVars
  <2>4. CASE NetworkThread
    <3>1. UNCHANGED handoffOwn /\ UNCHANGED <<cloudQ, restarts>>
      BY <2>4 DEF NetworkThread, C!LoopStep, C!WriteDisconnect, C!NoSocket,
                  C!Callback, C!CallbackReconnect, C!CallbackConnected,
                  C!CheckState, C!Reconnect, C!LinkDrops, C!envVars
    <3> QED BY <3>1 DEF handoffOwn, vars, envVars, queueVars
  <2>5. CASE Net
    <3>1. UNCHANGED handoffOwn /\ UNCHANGED <<cloudQ, restarts>>
      BY <2>5 DEF Net, C!NetDown, C!NetUp
    <3> QED BY <3>1 DEF handoffOwn, vars, envVars, queueVars
  <2>6. CASE RestartAll
    BY <2>6 DEF RestartAll, Next
  <2>7. CASE UNCHANGED gvars
    BY <2>7 DEF gvars
  <2> QED BY <2>1, <2>2, <2>3, <2>4, <2>5, <2>6, <2>7 DEF GNext, MqttThread
<1> QED BY <1>1, <1>2, PTL DEF GSpec, Spec

\* A message the threads of config.c and device.c put into the cloud queue is
\* one that cloud.c expects, and there is room for it.
LEMMA HandoffArrives ==
    ASSUME TypeOK, HandoffStep
    PROVE  C!Arrive \/ UNCHANGED C!vars
<1>1. UNCHANGED <<cloudOwn, restarts>>
  BY DEF HandoffStep, Input, Receive, NextEntry, ConfigStep, EndOfList, ScanForever,
         ConfWait, ParseConf, SendIface, SendConf, ConfPost, SendMqtt,
         TimerStep, Detect, TimerWait, ApplyIface, SetCount, ApplyConf, Tick, Reload,
         PortStep, AckLoad, AckClear, AckStore, TakeConf, ConfDone, TcpUpload,
         RtuLoop, RtuNothingNew, RtuTimeout, RtuUpload, envVars
<1>2. \/ UNCHANGED cloudQ
      \/ \E m \in CloudMsgs : HasRoom(cloudQ, m, QBytes) /\ cloudQ' = Append(cloudQ, m)
  <2>1. CASE \E a \in Addrs : SendMqtt(a)
    BY <2>1 DEF SendMqtt, CloudMsgs
  <2>2. CASE TcpUpload \/ RtuUpload
    BY <2>2 DEF TcpUpload, RtuUpload, DeviceStateUpdate, CloudMsgs
  <2>3. CASE ~TcpUpload /\ ~RtuUpload /\ ~\E a \in Addrs : SendMqtt(a)
    BY <2>3 DEF HandoffStep, Input, Receive, NextEntry, ConfigStep, EndOfList, ScanForever,
         ConfWait, ParseConf, SendIface, SendConf, ConfPost, 
         TimerStep, Detect, TimerWait, ApplyIface, SetCount, ApplyConf, Tick, Reload,
         PortStep, AckLoad, AckClear, AckStore, TakeConf, ConfDone, 
         RtuLoop, RtuNothingNew, RtuTimeout, queueVars
  <2> QED BY <2>1, <2>2, <2>3
<1>3. C!CloudMsgs = CloudMsgs /\ \A q, m : C!HasRoom(q, m, QBytes) <=> HasRoom(q, m, QBytes)
  BY DEF C!CloudMsgs, CloudMsgs, C!MqttMsg, MqttMsg, C!JsonMsg, JsonMsg, C!NoAddr, NoAddr,
         C!HasRoom, HasRoom, C!QueueBytes, QueueBytes
<1> QED
  BY <1>1, <1>2, <1>3 DEF C!Arrive, C!vars, C!handleVars, C!threadVars, C!envVars, cloudOwn

\* The assumption of ConfHandoff about its reader is met by cloud.c: every step of
\* the gateway is one of Cloud, or none.
THEOREM GatewayCloud == GSpec => ImplementsCloud
<1>1. GInit => C!Init
  BY DEF GInit
<1>2. TypeOK /\ [GNext]_gvars => [C!Next]_(C!vars)
  <2> SUFFICES ASSUME TypeOK, [GNext]_gvars PROVE C!Next \/ UNCHANGED C!vars
    OBVIOUS
  <2>1. CASE HandoffStep
    BY <2>1, HandoffArrives DEF C!Next, C!Surroundings
  <2>2. CASE TakeMsg
    BY <2>2 DEF TakeMsg, C!Next, C!MqttStep
  <2>3. CASE MqttOther
    BY <2>3 DEF MqttOther, C!Next, C!MqttStep
  <2>4. CASE NetworkThread
    BY <2>4 DEF NetworkThread, C!Next, C!Surroundings
  <2>5. CASE Net
    BY <2>5 DEF Net, C!Next, C!Surroundings
  <2>6. CASE RestartAll
    BY <2>6 DEF RestartAll, C!Next, C!Surroundings
  <2>7. CASE UNCHANGED gvars
    BY <2>7 DEF gvars, vars, envVars, queueVars, cloudOwn, C!vars, C!handleVars,
                C!threadVars, C!envVars
  <2> QED BY <2>1, <2>2, <2>3, <2>4, <2>5, <2>6, <2>7 DEF GNext, MqttThread
<1> QED BY <1>1, <1>2, GatewayHandoff, TypeCorrect, PTL
          DEF GSpec, ImplementsCloud, C!Spec
------------------------------------------------------------------------------
(***************************************************************************)
(* A reader that is gone.                                                  *)
(***************************************************************************)

\* While mqttThreadFunc connects there is no network thread, so no callback
\* touches the address it tries.
LoopInv ==
    /\ pc \in {"connect", "start"} => loop = "none"
    /\ ~mqttConfigState => loop = "none"

LEMMA LoopInvStep == LoopInv /\ [C!Next]_(C!vars) => LoopInv'
<1> SUFFICES ASSUME LoopInv, C!Next \/ UNCHANGED C!vars PROVE LoopInv'
  OBVIOUS
<1> USE DEF LoopInv, C!handleVars, C!threadVars, C!envVars
<1>1. CASE C!MqttStep
  BY <1>1 DEF C!MqttStep, C!MosquittoNew, C!ClearMsg, C!ReceiveMsg, C!Branch,
              C!Disconnect, C!LoopStop, C!ConnectAsync, C!LoopStart,
              C!LoopStartFails, C!Publish
<1>2. CASE C!LoopStep
  BY <1>2 DEF C!LoopStep, C!WriteDisconnect, C!NoSocket, C!Callback, C!Returned,
              C!CallbackReconnect, C!CallbackConnected, C!CheckState, C!Reconnect
<1>3. CASE C!Surroundings
  BY <1>3 DEF C!Surroundings, C!Arrive, C!LinkDrops, C!NetDown, C!NetUp, C!Restart
<1>4. CASE UNCHANGED C!vars
  BY <1>4 DEF C!vars
<1> QED BY <1>1, <1>2, <1>3, <1>4 DEF C!Next

\* A reader that is gone stays gone, and the queue only grows.
LEMMA DeadStep ==
    ASSUME LoopInv, CloudDead, restarts' = restarts, C!Restart => restarts' # restarts,
           C!Next \/ UNCHANGED C!vars
    PROVE  /\ CloudDead'
           /\ \/ UNCHANGED cloudQ
              \/ \E m \in C!CloudMsgs : cloudQ' = Append(cloudQ, m)
<1> USE DEF LoopInv, CloudDead, C!JoinStuck, C!handleVars, C!threadVars, C!envVars
<1>1. CASE C!MqttStep
  BY <1>1 DEF C!MqttStep, C!MosquittoNew, C!ClearMsg, C!ReceiveMsg, C!Branch,
              C!Disconnect, C!LoopStop, C!ConnectAsync, C!LoopStart, C!Resolves,
              C!LoopStartFails, C!Publish, C!ForgetLink
<1>2. CASE C!LoopStep
  BY <1>2 DEF C!LoopStep, C!WriteDisconnect, C!NoSocket, C!Callback, C!Returned,
              C!CallbackReconnect, C!CallbackConnected, C!CheckState, C!Reconnect,
              C!ForgetLink
<1>3. CASE C!Arrive
  BY <1>3 DEF C!Arrive
<1>4. CASE C!LinkDrops \/ C!NetDown \/ C!NetUp
  BY <1>4 DEF C!LinkDrops, C!NetDown, C!NetUp
<1>5. CASE UNCHANGED C!vars
  BY <1>5 DEF C!vars
<1> QED BY <1>1, <1>2, <1>3, <1>4, <1>5 DEF C!Next, C!Surroundings

\* The port that sleeps does not wake up.
LEMMA SleeperStep ==
    ASSUME TypeOK, UploadJammed, [Next]_vars, SameRun
    PROVE  ptPc'["Tcp"] = "work" /\ tempSet'
<1> USE DEF UploadJammed, TypeOK, envVars, cfgVars, queueVars, tmVars, portVars
<1>1. CASE Input \/ ConfigStep
  BY <1>1 DEF Input, Receive, NextEntry, ConfigStep, EndOfList, ScanForever, ConfWait,
              ParseConf, SendIface, SendConf, ConfPost, SendMqtt
<1>2. CASE TimerStep
  BY <1>2 DEF TimerStep, Detect, TimerWait, ApplyIface, SetCount, ApplyConf, Tick, Reload
<1>3. ASSUME NEW p \in Ports, PortStep(p) PROVE ptPc'["Tcp"] = "work" /\ tempSet'
  <2>1. ~TcpUpload
    BY DEF TcpUpload, DeviceStateUpdate
  <2>2. "Tcp" \in Ports
    BY HandoffAssumption
  <2> QED
    BY <1>3, <2>1, <2>2 DEF PortStep, AckLoad, AckClear, AckStore, TakeConf, ConfDone,
              RtuLoop, RtuNothingNew, RtuTimeout, RtuUpload
<1>4. CASE CloudTake
  BY <1>4 DEF CloudTake
<1>5. CASE Restart
  BY <1>5 DEF Restart, SameRun
<1>6. CASE UNCHANGED vars
  BY <1>6 DEF vars
<1> QED BY <1>1, <1>2, <1>3, <1>4, <1>5, <1>6 DEF Next

\* The messages of the cloud queue have a length.
LEMMA CloudMsgBytes == \A m \in CloudMsgs : m.bytes \in Nat
BY HandoffAssumption DEF CloudMsgs, MqttMsg, JsonMsg

\* While only end devices are configured: once the Tcp thread sleeps on the full cloud
\* queue and its reader is gone, nobody gets deviceConfSem any more.
THEOREM JamStays == DeviceOnly /\ GSpec => JamForever
<1> SUFFICES ASSUME DeviceOnly PROVE GSpec => JamForever
  OBVIOUS
<1>0. Spec => []OnePermit
  BY PermitExclusive
<1>1. GInit => LoopInv
  BY DEF GInit, C!Init, LoopInv
<1>2. GSpec => []LoopInv
  BY <1>1, LoopInvStep, GatewayCloud, PTL DEF GSpec, ImplementsCloud, C!Spec
<1>3. TypeOK /\ LoopInv /\ OnePermit' /\ [Next]_vars /\ [C!Next]_(C!vars) /\ [GNext]_gvars
        => [UploadJammed /\ SameRun => UploadJammed' /\ sem' = 0]_gvars
  <2> SUFFICES ASSUME TypeOK, LoopInv, OnePermit', [Next]_vars, [C!Next]_(C!vars),
                      [GNext]_gvars, UploadJammed, SameRun
               PROVE  UploadJammed' /\ sem' = 0
    OBVIOUS
  <2>1. restarts' = restarts /\ (C!Restart => restarts' # restarts)
    <3>1. restarts \in Nat
      BY HandoffAssumption DEF TypeOK
    <3> QED BY <3>1 DEF SameRun, C!Restart
  <2>2. CloudDead'
    BY <2>1, DeadStep DEF UploadJammed
  <2>3. ptPc'["Tcp"] = "work" /\ tempSet'
    BY SleeperStep
  <2>4. ~HasRoom(cloudQ', JsonMsg, QBytes)
    <3>1. ~HasRoom(cloudQ, JsonMsg, QBytes) /\ cloudQ \in Seq(CloudMsgs)
      BY DEF UploadJammed, TypeOK
    <3>2. JsonMsg \in CloudMsgs /\ QBytes \in Nat
      BY HandoffAssumption DEF CloudMsgs
    <3>3. C!CloudMsgs = CloudMsgs
      BY DEF C!CloudMsgs, CloudMsgs, C!MqttMsg, MqttMsg, C!JsonMsg, JsonMsg, C!NoAddr, NoAddr
    <3>4. CASE UNCHANGED cloudQ
      BY <3>1, <3>4
    <3>5. CASE \E m \in CloudMsgs : cloudQ' = Append(cloudQ, m)
      BY <3>1, <3>2, <3>5, CloudMsgBytes, NoRoomAfterAppend
    <3> QED BY <2>1, <3>3, <3>4, <3>5, DeadStep DEF UploadJammed
  <2>5. sem' = 0
    BY <2>3, HandoffAssumption DEF OnePermit, PortHas
  <2> QED BY <2>2, <2>3, <2>4, <2>5 DEF UploadJammed
<1> QED
  BY <1>0, <1>2, <1>3, GatewayHandoff, GatewayCloud, TypeCorrect, PTL
     DEF GSpec, Spec, ImplementsCloud, C!Spec, JamForever
==============================================================================
