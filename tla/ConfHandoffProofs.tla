-------------------------- MODULE ConfHandoffProofs --------------------------
(***************************************************************************)
(* Theorems about ConfHandoff and its refinement of PermitToken, for every *)
(* set of ports, every list of files and every size of the structures.     *)
(***************************************************************************)
EXTENDS ConfHandoffPermit, FiniteSetTheorems, TLAPS

\* The ports are finitely many, so a round starts with a natural number.
LEMMA PortsFinite == IsFiniteSet(Ports)
<1>1. IsFiniteSet(AllPorts)
  <2>1. IsFiniteSet({"Rtu", "Rtu1", "Rtu2", "Rtu3"})
    <3>1. IsFiniteSet({"Rtu", "Rtu1", "Rtu2"})
      <4>1. IsFiniteSet({"Rtu", "Rtu1"})
        <5>1. IsFiniteSet({"Rtu"})
          BY FS_Singleton
        <5>2. IsFiniteSet({"Rtu"} \cup {"Rtu1"})
          BY <5>1, FS_AddElement
        <5>3. QED  BY <5>2
      <4>2. IsFiniteSet({"Rtu", "Rtu1"} \cup {"Rtu2"})
        BY <4>1, FS_AddElement
      <4>3. QED  BY <4>2
    <3>2. IsFiniteSet({"Rtu", "Rtu1", "Rtu2"} \cup {"Rtu3"})
      BY <3>1, FS_AddElement
    <3>3. QED  BY <3>2
  <2>2. IsFiniteSet({"Rtu", "Rtu1", "Rtu2", "Rtu3"} \cup {"Tcp"})
    BY <2>1, FS_AddElement
  <2>3. QED  BY <2>2 DEF AllPorts
<1>2. QED
  BY <1>1, FS_Subset, HandoffAssumption

\* The count starts a round with a natural number.
LEMMA FullCountNat == FullCount \in Nat
  BY PortsFinite, FS_CardinalityType DEF FullCount

\* Sending to and receiving from a queue keep its type.
LEMMA AppendType ==
  ASSUME NEW S, NEW q \in Seq(S), NEW m \in S
  PROVE  Append(q, m) \in Seq(S)
  OBVIOUS

\* A queue may be empty.
LEMMA EmptyType == ASSUME NEW S PROVE << >> \in Seq(S)
  OBVIOUS

\* What is received is a message, what remains is a queue.
LEMMA ReceiveType ==
  ASSUME NEW S, NEW q \in Seq(S), q # << >>
  PROVE  Head(q) \in S /\ Tail(q) \in Seq(S)
  OBVIOUS
------------------------------------------------------------------------------
(***************************************************************************)
(* Type correctness.                                                       *)
(***************************************************************************)

\* The config thread's steps keep the types of its variables and the queues.
LEMMA TypeConfig == TypeOK /\ (Input \/ ConfigStep) => TypeOK'
<1> SUFFICES ASSUME TypeOK, Input \/ ConfigStep
             PROVE  TypeOK'
  OBVIOUS
<1> USE HandoffAssumption DEF TypeOK, envVars, queueVars, tmVars, portVars, CfgPcs, Confs
<1>1. ASSUME NEW cmd \in Cmds, NEW yml \in PublicYml, Receive(cmd, yml)
      PROVE  TypeOK'
  BY <1>1 DEF Receive
<1>2. ASSUME NEW f \in Files, NextEntry(f)
      PROVE  TypeOK'
  BY <1>2 DEF NextEntry
<1>3. CASE EndOfList
  BY <1>3 DEF EndOfList
<1>4. CASE ScanForever
  BY <1>4 DEF ScanForever
<1>5. CASE ConfWait
  BY <1>5 DEF ConfWait, SemWait
<1>6. CASE ParseConf
  BY <1>6 DEF ParseConf
<1>7. CASE SendIface
  <2>1. Append(localQ, IfaceMsg) \in Seq(LocalMsgs)
    BY AppendType DEF LocalMsgs
  <2>2. localQ' \in {localQ, Append(localQ, IfaceMsg)}
    BY <1>7 DEF SendIface, MsgsndLocal
  <2>3. cfgPc' \in CfgPcs /\ up' \in BOOLEAN
    BY <1>7 DEF SendIface, MsgsndLocal
  <2>4. QED
    BY <1>7, <2>1, <2>2, <2>3 DEF SendIface
<1>8. CASE SendConf
  <2>1. Append(localQ, ConfMsg(endDeviceConf)) \in Seq(LocalMsgs)
    BY AppendType DEF LocalMsgs
  <2>2. localQ' \in {localQ, Append(localQ, ConfMsg(endDeviceConf))}
    BY <1>8 DEF SendConf, MsgsndLocal
  <2>3. cfgPc' \in CfgPcs /\ up' \in BOOLEAN
    BY <1>8 DEF SendConf, MsgsndLocal
  <2>4. QED
    BY <1>8, <2>1, <2>2, <2>3 DEF SendConf
<1>9. CASE ConfPost
  BY <1>9 DEF ConfPost, SemPost
<1>10. ASSUME NEW a \in Addrs, SendMqtt(a)
      PROVE  TypeOK'
  BY <1>10 DEF SendMqtt, CloudMsgs
<1>11. QED
  BY <1>1, <1>2, <1>3, <1>4, <1>5, <1>6, <1>7, <1>8, <1>9, <1>10
     DEF Input, ConfigStep

\* So do the timer's.
LEMMA TypeTimer == TypeOK /\ TimerStep => TypeOK'
<1> SUFFICES ASSUME TypeOK, TimerStep
             PROVE  TypeOK'
  OBVIOUS
<1> USE HandoffAssumption
    DEF TypeOK, envVars, cfgVars, queueVars, tmVars, portVars, TmPcs, Counts
<1>1. CASE Detect
  <2>1. CASE Receivable(localQ, RecvBytes)
    <3>1. Head(localQ) \in LocalMsgs /\ Tail(localQ) \in Seq(LocalMsgs)
      BY <2>1, ReceiveType DEF Receivable
    <3>2. QED
      BY <1>1, <2>1, <3>1 DEF Detect
  <2>2. CASE ~Receivable(localQ, RecvBytes)
    BY <1>1, <2>2 DEF Detect
  <2>3. QED
    BY <2>1, <2>2
<1>2. CASE TimerWait
  <2>1. sem' \in 0..MaxSem /\ tmPc' \in TmPcs
    BY <1>2 DEF TimerWait, SemWait
  <2>2. QED
    BY <1>2, <2>1 DEF TimerWait
<1>3. CASE ApplyIface
  BY <1>3 DEF ApplyIface
<1>4. CASE SetCount
  BY <1>4, FullCountNat DEF SetCount
<1>5. CASE ApplyConf
  BY <1>5 DEF ApplyConf
<1>6. CASE Tick
  BY <1>6 DEF Tick
<1>7. CASE Reload
  BY <1>7 DEF Reload, SemPost
<1>8. QED
  BY <1>1, <1>2, <1>3, <1>4, <1>5, <1>6, <1>7 DEF TimerStep

\* An upload keeps the type of the cloud queue.
LEMMA UploadType == TypeOK /\ DeviceStateUpdate => cloudQ' \in Seq(CloudMsgs)
<1> SUFFICES ASSUME TypeOK, DeviceStateUpdate
             PROVE  cloudQ' \in Seq(CloudMsgs)
  OBVIOUS
<1>1. cloudQ \in Seq(CloudMsgs) /\ JsonMsg \in CloudMsgs
  BY DEF TypeOK, CloudMsgs
<1>2. Append(cloudQ, JsonMsg) \in Seq(CloudMsgs)
  BY <1>1, AppendType
<1>3. QED
  BY <1>1, <1>2 DEF DeviceStateUpdate

\* So do those of a port.
LEMMA TypePort == ASSUME TypeOK, NEW p \in Ports, PortStep(p) PROVE TypeOK'
<1> USE HandoffAssumption
    DEF TypeOK, envVars, cfgVars, queueVars, tmVars, portVars, PtPcs, EndOfLoop
<1>1. CASE AckLoad(p)
  BY <1>1 DEF AckLoad
<1>2. CASE AckClear(p)
  <2>1. flag' = [q \in Ports |-> IF q = Cleared(p) THEN 0 ELSE flag[q]]
    BY <1>2 DEF AckClear
  <2>2. flag' \in [Ports -> 0..2]
    BY <2>1
  <2>3. QED
    BY <1>2, <2>2 DEF AckClear
<1>3. CASE AckStore(p)
  <2>1. Decrement(reg[p]) \in Counts
    BY DEF Decrement, Counts
  <2>2. 0 \in Counts
    BY DEF Counts
  <2>3. QED
    BY <1>3, <2>1, <2>2 DEF AckStore
<1>4. CASE TakeConf(p)
  BY <1>4 DEF TakeConf
<1>5. CASE ConfDone(p)
  BY <1>5 DEF ConfDone, SemPost
<1>6. CASE TcpUpload
  BY <1>6, UploadType DEF TcpUpload
<1>7. CASE RtuLoop
  <2>1. CASE RtuNothingNew
    BY <2>1 DEF RtuNothingNew
  <2>2. CASE RtuTimeout
    BY <2>2 DEF RtuTimeout
  <2>3. CASE RtuUpload
    BY <2>3, UploadType DEF RtuUpload
  <2>4. QED
    BY <1>7, <2>1, <2>2, <2>3 DEF RtuLoop
<1>8. QED
  BY <1>1, <1>2, <1>3, <1>4, <1>5, <1>6, <1>7 DEF PortStep

\* The program starts with every variable in its type,
LEMMA TypeInit == Init => TypeOK
<1> SUFFICES ASSUME Init PROVE TypeOK
  OBVIOUS
<1>1. /\ flag \in [Ports -> 0..2]
      /\ ptPc \in [Ports -> PtPcs]
      /\ reg \in [Ports -> Counts]
  BY DEF Init, PtPcs, Counts
<1>2. localQ \in Seq(LocalMsgs) /\ cloudQ \in Seq(CloudMsgs)
  BY EmptyType DEF Init
<1>3. /\ restarts \in 0..MaxRestarts /\ inputs \in 0..MaxInputs
      /\ sem \in 0..MaxSem /\ cnt \in Counts
  BY HandoffAssumption, FullCountNat DEF Init, Counts
<1>4. /\ cfgPc \in CfgPcs /\ cfgFile \in Files \cup {NoPort}
      /\ endDeviceConf \in Confs /\ localId \in LocalIds /\ localCmdMsgId \in {0, localId}
  BY DEF Init, CfgPcs, Confs
<1>5. /\ up \in BOOLEAN /\ tmPc \in TmPcs /\ tempSet \in BOOLEAN
      /\ localBuf \in LocalMsgs \cup {ZeroMsg} /\ due \in BOOLEAN
  BY DEF Init, TmPcs
<1>6. QED
  BY <1>1, <1>2, <1>3, <1>4, <1>5 DEF TypeOK

\* and every step keeps it there.
LEMMA TypeStep == TypeOK /\ [Next]_vars => TypeOK'
<1> SUFFICES ASSUME TypeOK, [Next]_vars
             PROVE  TypeOK'
  OBVIOUS
<1>1. CASE CloudTake
  BY <1>1 DEF CloudTake, TypeOK, envVars, cfgVars, tmVars, portVars
<1>2. CASE Restart
  <2>1. /\ flag' \in [Ports -> 0..2]
        /\ ptPc' \in [Ports -> PtPcs]
        /\ reg' \in [Ports -> Counts]
    BY <1>2 DEF Restart, PtPcs, Counts
  <2>2. /\ restarts' \in 0..MaxRestarts /\ inputs' \in 0..MaxInputs
        /\ sem' \in 0..MaxSem /\ cnt' \in Counts
    BY <1>2, HandoffAssumption, FullCountNat DEF Restart, Counts, TypeOK
  <2>3. /\ cfgPc' \in CfgPcs /\ cfgFile' \in Files \cup {NoPort}
        /\ endDeviceConf' \in Confs /\ localId' \in LocalIds /\ localCmdMsgId' \in {0, localId'}
    BY <1>2 DEF Restart, CfgPcs, Confs, TypeOK
  <2>4. /\ up' \in BOOLEAN /\ tmPc' \in TmPcs /\ tempSet' \in BOOLEAN
        /\ localBuf' \in LocalMsgs \cup {ZeroMsg} /\ due' \in BOOLEAN
    BY <1>2 DEF Restart, TmPcs
  <2>5. localQ' \in Seq(LocalMsgs) /\ cloudQ' \in Seq(CloudMsgs)
    BY <1>2 DEF Restart, TypeOK, queueVars
  <2>6. QED
    BY <2>1, <2>2, <2>3, <2>4, <2>5 DEF TypeOK
<1>3. CASE UNCHANGED vars
  BY <1>3 DEF vars, TypeOK, envVars, cfgVars, queueVars, tmVars, portVars
<1>4. QED
  BY <1>1, <1>2, <1>3, TypeConfig, TypeTimer, TypePort DEF Next

\* Every variable keeps its type.
THEOREM TypeCorrect == Spec => []TypeOK
<1> QED BY TypeInit, TypeStep, PTL DEF Spec
------------------------------------------------------------------------------
(***************************************************************************)
(* The committed build: a device configuration is too long for a message.  *)
(***************************************************************************)

\* The queue only yields interface updates, so the timer's buffer never holds
\* a device configuration.  This is what makes NoConfReachesPort inductive.
NoConfInv == NoConfReachesPort /\ (Oversized => localBuf.mtype # 2)

\* What the timer can receive is an interface update.
LEMMA OnlyIface ==
  ASSUME TypeOK, Oversized, Receivable(localQ, RecvBytes)
  PROVE  Head(localQ) = IfaceMsg
<1>1. Head(localQ) \in LocalMsgs /\ Head(localQ).bytes <= TextBytes
  BY ReceiveType DEF TypeOK, Receivable, RecvBytes
<1>2. \A c \in Confs : Head(localQ) # ConfMsg(c)
  BY <1>1, HandoffAssumption DEF ConfMsg, Oversized
<1>3. QED
  BY <1>1, <1>2 DEF LocalMsgs

\* A step of a port starts no upload and no device configuration.
LEMMA NoConfPort ==
  ASSUME TypeOK, Oversized, NoConfInv, NEW p \in Ports, PortStep(p)
  PROVE  NoConfInv'
<1> USE DEF NoConfInv, NoConfReachesPort, Oversized, TypeOK,
            envVars, cfgVars, queueVars, tmVars, EndOfLoop
<1>1. CASE AckLoad(p)
  BY <1>1 DEF AckLoad
<1>2. CASE AckClear(p)
  BY <1>2 DEF AckClear, Cleared
<1>3. CASE AckStore(p)
  BY <1>3 DEF AckStore
<1>4. CASE TakeConf(p)
  BY <1>4 DEF TakeConf
<1>5. CASE ConfDone(p)
  BY <1>5 DEF ConfDone
<1>6. CASE p = "Tcp" /\ TcpUpload
  BY <1>6 DEF TcpUpload
<1>7. CASE RtuLoop
  BY <1>7 DEF RtuLoop, RtuNothingNew, RtuTimeout, RtuUpload, DeviceStateUpdate
<1>8. QED
  BY <1>1, <1>2, <1>3, <1>4, <1>5, <1>6, <1>7 DEF PortStep

\* The timer's buffer, and what depends on it.
LEMMA NoConfAlways == Spec => []NoConfInv
<1>1. Init => NoConfInv
  BY DEF Init, NoConfInv, NoConfReachesPort, ZeroMsg
<1>2. TypeOK /\ NoConfInv /\ [Next]_vars => NoConfInv'
  <2> SUFFICES ASSUME TypeOK, NoConfInv, [Next]_vars, Oversized
               PROVE  NoConfInv'
    BY DEF NoConfInv, NoConfReachesPort, Oversized
  <2> USE DEF NoConfInv, NoConfReachesPort, Oversized
  <2>1. CASE Input
    BY <2>1 DEF Input, Receive, NextEntry, queueVars, tmVars, portVars
  <2>2. CASE ConfigStep /\ UNCHANGED cloudQ
    BY <2>2 DEF ConfigStep, EndOfList, ScanForever, ConfWait, ParseConf,
                SendIface, SendConf, ConfPost, SendMqtt, queueVars, tmVars, portVars
  <2>3. CASE \E a \in Addrs : SendMqtt(a)
    BY <2>3 DEF SendMqtt, TypeOK, MqttMsg, tmVars, portVars
  <2>4. CASE Detect
    BY <2>4, OnlyIface DEF Detect, IfaceMsg, ZeroMsg, portVars
  <2>5. CASE TimerStep /\ ~Detect
    BY <2>5 DEF TimerStep, TimerWait, ApplyIface, SetCount, ApplyConf, Tick,
                Reload, TypeOK, queueVars, portVars
  <2>6. CASE \E p \in Ports : PortStep(p)
    BY <2>6, NoConfPort
  <2>7. CASE CloudTake
    BY <2>7 DEF CloudTake, TypeOK, tmVars, portVars
  <2>8. CASE Restart
    BY <2>8 DEF Restart, ZeroMsg, queueVars
  <2>9. CASE UNCHANGED vars
    BY <2>9 DEF vars, queueVars, tmVars, portVars
  <2>10. ConfigStep => UNCHANGED cloudQ \/ \E a \in Addrs : SendMqtt(a)
    BY DEF ConfigStep, EndOfList, ScanForever, ConfWait, ParseConf,
           SendIface, SendConf, ConfPost, queueVars
  <2>11. QED
    BY <2>1, <2>2, <2>3, <2>4, <2>5, <2>6, <2>7, <2>8, <2>9, <2>10 DEF Next
<1>3. QED
  BY <1>1, <1>2, TypeCorrect, PTL DEF Spec

\* No device configuration of the committed build reaches a port.
THEOREM NoConfEverReachesPort == Spec => []NoConfReachesPort
<1>1. NoConfInv => NoConfReachesPort
  BY DEF NoConfInv
<1>2. QED
  BY <1>1, NoConfAlways, PTL

\* A step keeps every queued device configuration and all that is behind it.
ConfsStay ==
    \A i \in DOMAIN localQ :
       localQ[i].mtype = 2 =>
          \E d \in {0, 1} :
             /\ d < i
             /\ \A k \in i..Len(localQ) : /\ k - d \in DOMAIN localQ'
                                           /\ localQ'[k - d] = localQ[k]

\* Nothing but msgrcv shortens the queue, and msgrcv fails on a configuration.
LEMMA ConfsStayStep == TypeOK /\ Oversized /\ [Next]_vars => ConfsStay
<1> SUFFICES ASSUME TypeOK, Oversized, [Next]_vars
             PROVE  ConfsStay
  OBVIOUS
<1>0. localQ \in Seq(LocalMsgs)
  BY DEF TypeOK
<1>1. CASE UNCHANGED localQ
  BY <1>0, <1>1 DEF ConfsStay
<1>2. CASE \E m \in LocalMsgs : localQ' = Append(localQ, m)
  BY <1>0, <1>2 DEF ConfsStay
<1>3. CASE Receivable(localQ, RecvBytes) /\ localQ' = Tail(localQ)
  <2>1. localQ[1].mtype = 1 /\ localQ # << >>
    BY <1>3, OnlyIface DEF IfaceMsg, Receivable
  <2>2. QED
    BY <1>0, <1>3, <2>1 DEF ConfsStay
<1>4. \/ UNCHANGED localQ
      \/ \E m \in LocalMsgs : localQ' = Append(localQ, m)
      \/ Receivable(localQ, RecvBytes) /\ localQ' = Tail(localQ)
  <2>1. CASE Input
    BY <2>1 DEF Input, Receive, NextEntry, queueVars
  <2>2. CASE ConfigStep
    BY <2>2 DEF ConfigStep, EndOfList, ScanForever, ConfWait, ParseConf,
                SendIface, SendConf, ConfPost, SendMqtt, MsgsndLocal, queueVars,
                LocalMsgs, TypeOK
  <2>3. CASE TimerStep
    BY <2>3 DEF TimerStep, Detect, TimerWait, ApplyIface, SetCount, ApplyConf,
                Tick, Reload, queueVars
  <2>4. CASE \E p \in Ports : PortStep(p)
    BY <2>4 DEF PortStep, AckLoad, AckClear, AckStore, TakeConf, ConfDone,
                TcpUpload, RtuLoop, RtuNothingNew, RtuTimeout, RtuUpload, queueVars
  <2>5. CASE CloudTake \/ Restart
    BY <2>5 DEF CloudTake, Restart, queueVars
  <2>6. CASE UNCHANGED vars
    BY <2>6 DEF vars, queueVars
  <2>7. QED
    BY <2>1, <2>2, <2>3, <2>4, <2>5, <2>6 DEF Next
<1>5. QED
  BY <1>1, <1>2, <1>3, <1>4

\* A device configuration of the committed build is never received.
THEOREM ConfNeverLeavesQueue == Spec => ConfStaysQueued
<1>1. TypeOK /\ [Next]_vars => (Oversized => ConfsStay)
  BY ConfsStayStep
<1>2. QED
  BY <1>1, TypeCorrect, PTL DEF Spec, ConfStaysQueued, ConfsStay
------------------------------------------------------------------------------
(***************************************************************************)
(* A lost permit.                                                          *)
(***************************************************************************)

\* The config thread does not give a lost permit back.
LEMMA LostConfig == TypeOK /\ PermitLost /\ (Input \/ ConfigStep) => PermitLost'
<1> SUFFICES ASSUME TypeOK, PermitLost, Input \/ ConfigStep
             PROVE  PermitLost'
  OBVIOUS
<1> USE DEF PermitLost, CountDead, queueVars, tmVars, portVars
<1>1. CASE cfgPc \notin {"parse", "send2", "post"}
  <2>1. CASE Input
    BY <1>1, <2>1 DEF Input, Receive, NextEntry
  <2>2. CASE ConfigStep
    BY <1>1, <2>2 DEF ConfigStep, EndOfList, ScanForever, ConfWait, SemWait,
                ParseConf, SendIface, MsgsndLocal, SendConf, ConfPost, SendMqtt
  <2>3. QED
    BY <2>1, <2>2
<1>2. CASE ConfigJammed
  <2>1. ~Input /\ ~ConfigStep
    BY <1>2 DEF ConfigJammed, Input, Receive, NextEntry, ConfigStep, EndOfList,
                ScanForever, ConfWait, ParseConf, SendIface, SendConf, MsgsndLocal,
                ConfPost, SendMqtt
  <2>2. QED
    BY <2>1
<1>3. QED
  BY <1>1, <1>2

\* Nor does the timer: it finds no permit, or no zero, and makes no room.
LEMMA LostTimer == TypeOK /\ PermitLost /\ TimerStep => PermitLost'
<1> SUFFICES ASSUME TypeOK, PermitLost, TimerStep
             PROVE  PermitLost'
  OBVIOUS
<1>1. Detect \/ Tick
  BY DEF PermitLost, TimerStep, TimerWait, SemWait, ApplyIface, SetCount,
         ApplyConf, Reload
<1>2. CASE Tick
  BY <1>2 DEF Tick, RoundOver, PermitLost, CountDead, ConfigJammed, Oversized,
              cfgVars, queueVars, envVars
<1>3. CASE Detect
  <2>1. ConfigJammed => UNCHANGED localQ
    BY <1>3, OnlyIface DEF ConfigJammed, Detect, IfaceMsg
  <2>2. ConfigJammed => ConfigJammed'
    BY <1>3, <2>1 DEF Detect, ConfigJammed, Oversized, envVars, cfgVars
  <2>3. QED
    BY <1>3, <2>2 DEF Detect, PermitLost, CountDead, cfgVars, portVars
<1>4. QED
  BY <1>1, <1>2, <1>3

\* Nor does a port: the count it stores, if any, is negative.
LEMMA LostPort ==
  ASSUME TypeOK, PermitLost, NEW p \in Ports, PortStep(p)
  PROVE  PermitLost'
<1> USE DEF PermitLost, CountDead, ConfigJammed, Oversized, TypeOK,
            envVars, cfgVars, queueVars, tmVars, EndOfLoop
<1>1. CASE AckLoad(p)
  BY <1>1 DEF AckLoad
<1>2. CASE AckClear(p)
  BY <1>2 DEF AckClear, Cleared
<1>3. CASE AckStore(p)
  <2>1. CASE tmPc = "wait"
    BY <1>3, <2>1 DEF AckStore
  <2>2. CASE CountDead
    <3>1. cnt = -1 /\ reg[p] \in {-1, 0}
      BY <1>3, <2>2 DEF AckStore, Counts
    <3>2. cnt' = -1
      BY <1>3, <3>1 DEF AckStore, Decrement
    <3>3. QED
      BY <1>3, <3>1, <3>2 DEF AckStore
  <2>3. QED
    BY <2>1, <2>2
<1>4. CASE RtuLoop
  BY <1>4 DEF RtuLoop, RtuNothingNew, RtuTimeout, RtuUpload
<1>5. ~TakeConf(p) /\ ~ConfDone(p) /\ ~(p = "Tcp" /\ TcpUpload)
  BY DEF TakeConf, ConfDone, TcpUpload
<1>6. QED
  BY <1>1, <1>2, <1>3, <1>4, <1>5 DEF PortStep

\* No schedule of the threads repairs a lost permit.
THEOREM LostPermitStaysLost == Spec => PermitLostForever
<1>1. TypeOK /\ [Next]_vars => [PermitLost /\ SameRun => PermitLost']_vars
  <2> SUFFICES ASSUME TypeOK, Next, PermitLost, SameRun
               PROVE  PermitLost'
    OBVIOUS
  <2>1. CASE CloudTake
    BY <2>1 DEF CloudTake, PermitLost, CountDead, ConfigJammed, Oversized,
                envVars, cfgVars, tmVars, portVars
  <2>2. ~Restart
    BY DEF Restart, SameRun, TypeOK
  <2>3. QED
    BY <2>1, <2>2, LostConfig, LostTimer, LostPort DEF Next
<1>2. QED
  BY <1>1, TypeCorrect, PTL DEF Spec, PermitLostForever
==============================================================================
