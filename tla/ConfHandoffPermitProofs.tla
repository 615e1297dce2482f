----------------------- MODULE ConfHandoffPermitProofs -----------------------
(***************************************************************************)
(* Without interface updates there is one permit.  What there is with them *)
(* is the subject of PermitHistoryProofs.                                  *)
(***************************************************************************)
EXTENDS ConfHandoffProofs

\* The hypothesis of this module: no interface update is ever commanded.
DeviceOnly == 1 \notin Cmds

\* No trace of an interface update anywhere, so the count is never used and the
\* permit comes back only from those who took it.
NoIface ==
    /\ cfgPc # "send1"
    /\ \A i \in DOMAIN localQ : localQ[i].mtype # 1
    /\ localBuf.mtype # 1
    /\ tmPc \notin {"count", "reload"}
    /\ cnt = FullCount
    /\ \A p \in Ports : flag[p] # 1 /\ ptPc[p] \notin {"clear", "store"}

\* There are ports, so the count a round starts with is not zero: without a
\* decrement the timer never takes a round for ended.
LEMMA FullCountPositive == FullCount # 0
<1>1. Ports # {}
  BY HandoffAssumption
<1>2. QED
  BY <1>1, PortsFinite, FS_EmptySet DEF FullCount

\* A config thread that is never told to sends no interface update.
LEMMA NoIfaceConfig ==
  DeviceOnly /\ TypeOK /\ NoIface /\ (Input \/ ConfigStep) => NoIface'
<1> SUFFICES ASSUME DeviceOnly, TypeOK, NoIface, Input \/ ConfigStep
             PROVE  NoIface'
  OBVIOUS
<1>1. CASE Input
  BY <1>1 DEF Input, Receive, NextEntry, NoIface, DeviceOnly,
              queueVars, tmVars, portVars
<1>2. CASE SendConf
  <2>1. ConfMsg(endDeviceConf).mtype = 2
    BY DEF ConfMsg
  <2>2. \A i \in DOMAIN localQ' : localQ'[i].mtype # 1
    <3>1. localQ' = localQ \/ localQ' = Append(localQ, ConfMsg(endDeviceConf))
      BY <1>2 DEF SendConf, MsgsndLocal
    <3>2. localQ \in Seq(LocalMsgs) /\ \A i \in DOMAIN localQ : localQ[i].mtype # 1
      BY DEF NoIface, TypeOK
    <3>3. QED
      BY <2>1, <3>1, <3>2
  <2>3. QED
    BY <1>2, <2>2 DEF SendConf, MsgsndLocal, NoIface, tmVars, portVars
<1>3. CASE ConfigStep /\ ~SendConf
  BY <1>3 DEF ConfigStep, EndOfList, ScanForever, ConfWait, ParseConf, SendIface,
              ConfPost, SendMqtt, NoIface, queueVars, tmVars, portVars
<1>4. QED
  BY <1>1, <1>2, <1>3

\* So the timer receives none, raises no flag to 1 and never reloads.
LEMMA NoIfaceTimer == TypeOK /\ NoIface /\ TimerStep => NoIface'
<1> SUFFICES ASSUME TypeOK, NoIface, TimerStep
             PROVE  NoIface'
  OBVIOUS
<1>1. CASE Detect
  <2>1. CASE Receivable(localQ, RecvBytes)
    <3>1. Head(localQ).mtype # 1 /\ \A i \in DOMAIN Tail(localQ) : Tail(localQ)[i].mtype # 1
      BY <2>1 DEF Receivable, NoIface, TypeOK
    <3>2. QED
      BY <1>1, <2>1, <3>1 DEF Detect, NoIface, cfgVars, portVars
  <2>2. CASE ~Receivable(localQ, RecvBytes)
    BY <1>1, <2>2 DEF Detect, NoIface, ZeroMsg, cfgVars, portVars
  <2>3. QED
    BY <2>1, <2>2
<1>2. CASE TimerStep /\ ~Detect
  BY <1>2, FullCountPositive
     DEF TimerStep, TimerWait, ApplyIface, SetCount, ApplyConf, Tick, RoundOver,
         Reload, NoIface, cfgVars, queueVars, portVars
<1>3. QED
  BY <1>1, <1>2

\* And no port acknowledges one.
LEMMA NoIfacePort ==
  ASSUME TypeOK, NoIface, NEW p \in Ports, PortStep(p)
  PROVE  NoIface'
<1> USE DEF NoIface, TypeOK, cfgVars, queueVars, tmVars, EndOfLoop
<1>1. ~AckLoad(p) /\ ~AckClear(p) /\ ~AckStore(p)
  BY DEF AckLoad, AckClear, AckStore
<1>2. CASE TakeConf(p)
  BY <1>2 DEF TakeConf
<1>3. CASE ConfDone(p)
  BY <1>3 DEF ConfDone
<1>4. CASE p = "Tcp" /\ TcpUpload
  BY <1>4 DEF TcpUpload
<1>5. CASE RtuLoop
  BY <1>5 DEF RtuLoop, RtuNothingNew, RtuTimeout, RtuUpload
<1>6. QED
  BY <1>1, <1>2, <1>3, <1>4, <1>5 DEF PortStep

\* NoIface is an invariant.
LEMMA NoIfaceAlways == DeviceOnly /\ Spec => []NoIface
<1> SUFFICES ASSUME DeviceOnly
             PROVE  Spec => []NoIface
  OBVIOUS
<1>1. Init => NoIface
  BY DEF Init, NoIface, ZeroMsg
<1>2. TypeOK /\ NoIface /\ [Next]_vars => NoIface'
  <2> SUFFICES ASSUME TypeOK, NoIface, [Next]_vars
               PROVE  NoIface'
    OBVIOUS
  <2>1. CASE CloudTake
    BY <2>1 DEF CloudTake, NoIface, cfgVars, tmVars, portVars
  <2>2. CASE Restart
    BY <2>2 DEF Restart, NoIface, ZeroMsg, queueVars
  <2>3. CASE UNCHANGED vars
    BY <2>3 DEF vars, NoIface, cfgVars, queueVars, tmVars, portVars
  <2>4. QED
    BY <2>1, <2>2, <2>3, NoIfaceConfig, NoIfaceTimer, NoIfacePort DEF Next
<1>3. QED
  BY <1>1, <1>2, TypeCorrect, PTL DEF Spec
------------------------------------------------------------------------------
(***************************************************************************)
(* One permit.                                                             *)
(***************************************************************************)

\* A port has the permit for one thing at a time: while it works on a device
\* configuration its flag is not raised for the next one.  Without this a port
\* that posts might still have the permit.
PermitInv ==
    /\ OnePermit
    /\ \A p \in Ports : ptPc[p] \in {"work", "post"} => flag[p] # 2

\* The config thread takes the permit only when it is free.
LEMMA OnePermitConfig ==
  TypeOK /\ PermitInv /\ (Input \/ ConfigStep) => PermitInv'
<1> SUFFICES ASSUME TypeOK, PermitInv, Input \/ ConfigStep
             PROVE  PermitInv'
  OBVIOUS
<1> USE DEF PermitInv, OnePermit, ConfigHas, TimerHas, PortHas, queueVars, tmVars, portVars
<1>1. CASE Input
  BY <1>1 DEF Input, Receive, NextEntry
<1>2. CASE ConfWait
  BY <1>2 DEF ConfWait, SemWait
<1>3. CASE ConfPost
  BY <1>3 DEF ConfPost, SemPost
<1>4. CASE ConfigStep /\ ~ConfWait /\ ~ConfPost
  BY <1>4 DEF ConfigStep, EndOfList, ScanForever, ParseConf, SendIface,
              SendConf, MsgsndLocal, SendMqtt
<1>5. QED
  BY <1>1, <1>2, <1>3, <1>4

\* The timer takes it only when it is free, and hands it to one port at most.
LEMMA OnePermitTimer == TypeOK /\ NoIface /\ PermitInv /\ TimerStep => PermitInv'
<1> SUFFICES ASSUME TypeOK, NoIface, PermitInv, TimerStep
             PROVE  PermitInv'
  OBVIOUS
<1> USE DEF PermitInv, OnePermit, ConfigHas, TimerHas, PortHas, cfgVars, portVars
<1>1. CASE TimerWait
  BY <1>1 DEF TimerWait, SemWait
<1>2. CASE ApplyConf
  BY <1>2 DEF ApplyConf, TypeOK
<1>3. CASE TimerStep /\ ~TimerWait /\ ~ApplyConf
  BY <1>3 DEF NoIface, TimerStep, Detect, ApplyIface, SetCount, Tick, Reload
<1>4. QED
  BY <1>1, <1>2, <1>3

\* A port gives back only what it has.
LEMMA OnePermitPort ==
  ASSUME TypeOK, NoIface, PermitInv, NEW p \in Ports, PortStep(p)
  PROVE  PermitInv'
<1> USE DEF PermitInv, OnePermit, ConfigHas, TimerHas, PortHas, TypeOK, cfgVars, tmVars,
            EndOfLoop
<1>1. ~AckLoad(p) /\ ~AckClear(p) /\ ~AckStore(p)
  BY DEF NoIface, AckLoad, AckClear, AckStore
<1>2. CASE TakeConf(p)
  BY <1>2 DEF TakeConf
<1>3. CASE ConfDone(p)
  BY <1>3 DEF ConfDone, SemPost
<1>4. CASE p = "Tcp" /\ TcpUpload
  BY <1>4 DEF TcpUpload
<1>5. CASE RtuLoop
  BY <1>5 DEF RtuLoop, RtuNothingNew, RtuTimeout, RtuUpload
<1>6. QED
  BY <1>1, <1>2, <1>3, <1>4, <1>5 DEF PortStep

\* PermitInv is an invariant.
LEMMA PermitInvAlways == DeviceOnly /\ Spec => []PermitInv
<1>1. Init => PermitInv
  BY DEF Init, PermitInv, OnePermit, ConfigHas, TimerHas, PortHas
<1>2. TypeOK /\ NoIface /\ PermitInv /\ [Next]_vars => PermitInv'
  <2> SUFFICES ASSUME TypeOK, NoIface, PermitInv, [Next]_vars
               PROVE  PermitInv'
    OBVIOUS
  <2>1. CASE CloudTake
    BY <2>1 DEF CloudTake, PermitInv, OnePermit, ConfigHas, TimerHas, PortHas, cfgVars,
                tmVars, portVars
  <2>2. CASE Restart
    BY <2>2 DEF Restart, PermitInv, OnePermit, ConfigHas, TimerHas, PortHas
  <2>3. CASE UNCHANGED vars
    BY <2>3 DEF vars, PermitInv, OnePermit, ConfigHas, TimerHas, PortHas, cfgVars, tmVars,
                portVars
  <2>4. QED
    BY <2>1, <2>2, <2>3, OnePermitConfig, OnePermitTimer, OnePermitPort DEF Next
<1>3. QED
  BY <1>1, <1>2, TypeCorrect, NoIfaceAlways, PTL DEF Spec

\* While only end devices are configured the permit is exclusive.
THEOREM PermitExclusive == DeviceOnly /\ Spec => []OnePermit
<1>1. PermitInv => OnePermit
  BY DEF PermitInv
<1>2. QED
  BY <1>1, PermitInvAlways, PTL

\* While a port has the permit the timer fills its buffer only to wait then, so
\* that no other configuration is applied in it.
LEMMA OwnConfTimer == TypeOK /\ OnePermit /\ OwnConf /\ TimerStep => OwnConf'
<1> SUFFICES ASSUME TypeOK, OnePermit, OwnConf, TimerStep
             PROVE  OwnConf'
  OBVIOUS
<1> USE DEF OnePermit, OwnConf, TimerHas, PortHas, cfgVars, portVars
<1>1. CASE Detect
  BY <1>1 DEF Detect, ZeroMsg
<1>2. CASE TimerWait
  BY <1>2 DEF TimerWait, SemWait
<1>3. CASE ApplyConf
  BY <1>3 DEF ApplyConf, TypeOK
<1>4. CASE ApplyIface
  BY <1>4 DEF ApplyIface
<1>5. CASE SetCount \/ Tick \/ Reload
  BY <1>5 DEF SetCount, Tick, Reload
<1>6. QED
  BY <1>1, <1>2, <1>3, <1>4, <1>5 DEF TimerStep

\* A port gets the permit only from its raised flag, and leaves the buffer as it is.
LEMMA OwnConfPort ==
  ASSUME TypeOK, OwnConf, NEW p \in Ports, PortStep(p)
  PROVE  OwnConf'
<1> USE DEF OwnConf, PortHas, TypeOK, cfgVars, tmVars, EndOfLoop
<1>1. CASE AckLoad(p) \/ AckStore(p)
  BY <1>1 DEF AckLoad, AckStore
<1>2. CASE AckClear(p)
  BY <1>2 DEF AckClear
<1>3. CASE TakeConf(p)
  BY <1>3 DEF TakeConf
<1>4. CASE ConfDone(p)
  BY <1>4 DEF ConfDone
<1>5. CASE p = "Tcp" /\ TcpUpload
  BY <1>5 DEF TcpUpload
<1>6. CASE RtuLoop
  BY <1>6 DEF RtuLoop, RtuNothingNew, RtuTimeout, RtuUpload
<1>7. QED
  BY <1>1, <1>2, <1>3, <1>4, <1>5, <1>6 DEF PortStep

\* Where the permit is exclusive, each port finds its own configuration.
LEMMA OwnConfStep == TypeOK /\ OnePermit /\ OwnConf /\ [Next]_vars => OwnConf'
<1> SUFFICES ASSUME TypeOK, OnePermit, OwnConf, [Next]_vars
             PROVE  OwnConf'
  OBVIOUS
<1> USE DEF OwnConf, PortHas
<1>1. CASE Input \/ ConfigStep
  BY <1>1 DEF Input, Receive, NextEntry, ConfigStep, EndOfList, ScanForever, ConfWait,
              ParseConf, SendIface, SendConf, MsgsndLocal, ConfPost, SendMqtt,
              queueVars, tmVars, portVars
<1>2. CASE CloudTake
  BY <1>2 DEF CloudTake, tmVars, portVars
<1>3. CASE Restart
  BY <1>3 DEF Restart
<1>4. CASE UNCHANGED vars
  BY <1>4 DEF vars, tmVars, portVars
<1>5. QED
  BY <1>1, <1>2, <1>3, <1>4, OwnConfTimer, OwnConfPort DEF Next

\* While only end devices are configured a port finds another port's
\* configuration only while the timer waits for the permit.
THEOREM ConfOfItsOwn == DeviceOnly /\ Spec => []OwnConf
<1>1. Init => OwnConf
  BY DEF Init, OwnConf, PortHas
<1>2. QED
  BY <1>1, OwnConfStep, TypeCorrect, PermitExclusive, PTL DEF Spec
==============================================================================
