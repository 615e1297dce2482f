----------------------------- MODULE UploadProofs ------------------------------
(***************************************************************************)
(* Upload implements ConfHandoff: whatever the two ports do to the message *)
(* and the configuration they share, an upload is one step of ConfHandoff, *)
(* or the process ends in it.  And what ends it, and what is sent.         *)
(***************************************************************************)
EXTENDS Upload, ConfHandoffProofs

\* A port is inside deviceStateUpdate only when its thread is where it calls
\* it and there is a configuration; and what it then sends was given a type.
InUpload ==
    \A p \in Uploaders :
       /\ upPc[p] # "start" => Uploading(p) /\ tempSet
       /\ upPc[p] = "send" => call[p].mtype = 2

UploadInv == UploadTypeOK /\ InUpload

\* The steps of the other threads, and those in which a port does not upload,
\* go nowhere in deviceStateUpdate.
ElsewhereStep ==
    /\ \/ OtherThread
       \/ \E p \in Ports : OtherPortStep(p)
       \/ \E p \in Uploaders : NoUpload(p)

\* A port moves no other port's thread.
LEMMA OwnPc ==
    ASSUME TypeOK, NEW p \in Ports, PortStep(p)
    PROVE  /\ \A q \in Ports \ {p} : ptPc'[q] = ptPc[q]
           /\ UNCHANGED tempSet
<1> USE DEF TypeOK, EndOfLoop, tmVars
<1>1. CASE AckLoad(p) \/ AckClear(p) \/ AckStore(p)
  BY <1>1 DEF AckLoad, AckClear, AckStore
<1>2. CASE TakeConf(p) \/ ConfDone(p)
  BY <1>2 DEF TakeConf, ConfDone
<1>3. CASE p = "Tcp" /\ TcpUpload
  BY <1>3 DEF TcpUpload
<1>4. CASE p = "Rtu" /\ RtuLoop
  BY <1>4 DEF RtuLoop, RtuNothingNew, RtuTimeout, RtuUpload
<1> QED BY <1>1, <1>2, <1>3, <1>4 DEF PortStep

\* Nor does any other thread, and tempConfig is not set back.
LEMMA OtherThreadKeeps ==
    ASSUME OtherThread
    PROVE  UNCHANGED ptPc /\ (tempSet => tempSet')
<1>1. CASE Input
  BY <1>1 DEF Input, Receive, NextEntry, portVars, tmVars
<1>2. CASE ConfigStep
  BY <1>2 DEF ConfigStep, EndOfList, ScanForever, ConfWait, ParseConf, SendIface,
              SendConf, ConfPost, SendMqtt, portVars, tmVars
<1>3. CASE TimerStep
  BY <1>3 DEF TimerStep, Detect, TimerWait, ApplyIface, SetCount, ApplyConf, Tick,
              Reload, portVars
<1>4. CASE CloudTake
  BY <1>4 DEF CloudTake, portVars, tmVars
<1> QED BY <1>1, <1>2, <1>3, <1>4 DEF OtherThread

\* So whoever is inside deviceStateUpdate stays there.
LEMMA Elsewhere ==
    ASSUME TypeOK, UploadInv, ElsewhereStep
    PROVE  UploadInv' /\ UNCHANGED upVars
<1>1. UNCHANGED upVars
  BY DEF ElsewhereStep, OtherThread, OtherPortStep, NoUpload
<1>2. UploadTypeOK'
  BY <1>1 DEF UploadInv, UploadTypeOK, upVars
<1>3. ASSUME NEW p \in Uploaders, upPc[p] # "start"
      PROVE  Uploading(p)' /\ tempSet'
  <2>1. Uploading(p) /\ tempSet
    BY <1>3 DEF UploadInv, InUpload
  <2>2. p \in Ports
    BY UploadAssumption
  <2>3. CASE OtherThread
    BY <2>1, <2>3, OtherThreadKeeps DEF Uploading
  <2>4. ASSUME NEW q \in Ports, OtherPortStep(q)
        PROVE  Uploading(p)' /\ tempSet'
    <3>1. q # p
      BY <2>1, <2>4 DEF OtherPortStep
    <3> QED BY <2>1, <2>2, <2>4, <3>1, OwnPc DEF OtherPortStep, Uploading
  <2>5. ASSUME NEW q \in Uploaders, NoUpload(q)
        PROVE  Uploading(p)' /\ tempSet'
    BY <2>1, <2>5 DEF NoUpload
  <2> QED BY <2>3, <2>4, <2>5 DEF ElsewhereStep
<1> QED BY <1>1, <1>2, <1>3 DEF UploadInv, InUpload, upVars

\* A step of deviceStateUpdate keeps the types and the place of the others.
LEMMA UploadStepInv ==
    ASSUME TypeOK, UploadInv, NEW p \in Uploaders, UploadStep(p)
    PROVE  UploadInv'
<1> USE DEF UploadInv, UploadTypeOK, InUpload, UpStep, Uploaders, UpPcs
<1>0. UNCHANGED tempSet
  BY DEF UploadStep, Begin, ReadType, ReadScale, ClearMsg, SetType, CopyText, Msgsnd,
         Send, vars, tmVars
<1>1. CASE Begin(p)
  BY <1>1 DEF Begin, Uploading, vars, portVars, tmVars
<1>2. CASE ReadType(p)
  BY <1>2 DEF ReadType, Uploading, vars, portVars, tmVars
<1>3. CASE ReadScale(p)
  BY <1>3 DEF ReadScale, Uploading, Texts, vars, portVars, tmVars
<1>4. CASE ClearMsg(p)
  BY <1>4 DEF ClearMsg, Uploading, Messages, Empty, Texts, InUse, vars, portVars, tmVars
<1>5. CASE SetType(p)
  BY <1>5 DEF SetType, Uploading, Messages, vars, portVars, tmVars
<1>6. CASE CopyText(p)
  BY <1>6 DEF CopyText, Uploading, Messages, vars, portVars, tmVars
<1>7. CASE Msgsnd(p)
  BY <1>7 DEF Msgsnd, Copied, Uploading, Messages, Calls, vars, portVars, tmVars
<1>8. CASE Send(p)
  <2>1. \A q \in Uploaders \ {p} : ptPc'[q] = ptPc[q]
    BY <1>8, UploadAssumption DEF Send, TypeOK
  <2> QED BY <1>0, <1>8, <2>1 DEF Send, Uploading, Texts, Calls, NoCall
<1> QED BY <1>1, <1>2, <1>3, <1>4, <1>5, <1>6, <1>7, <1>8 DEF UploadStep

\* Seen from ConfHandoff a step of deviceStateUpdate is the upload of a port,
\* when it ends in the queue, and nothing before.
LEMMA UploadStepMaps ==
    ASSUME TypeOK, UploadInv, NEW p \in Uploaders, UploadStep(p)
    PROVE  [Next]_vars
<1>1. CASE Send(p)
  <2>1. /\ call[p].mtype = 2 /\ tempSet
        /\ up /\ Uploading(p)
    BY <1>1 DEF Send, UpStep, UploadInv, InUpload
  <2>2. [JsonMsg EXCEPT !.mtype = call[p].mtype] = JsonMsg
    BY <2>1 DEF JsonMsg
  <2>3. DeviceStateUpdate
    BY <1>1, <2>1, <2>2 DEF Send, DeviceStateUpdate
  <2>4. CASE p = "Tcp"
    BY <1>1, <2>1, <2>3, <2>4, UploadAssumption
       DEF Send, Uploading, TcpUpload, PortStep, Next
  <2>5. CASE p = "Rtu"
    BY <1>1, <2>1, <2>3, <2>5, UploadAssumption
       DEF Send, Uploading, RtuUpload, RtuLoop, PortStep, Next
  <2> QED BY <2>4, <2>5 DEF Uploaders
<1>2. CASE ~Send(p)
  BY <1>2 DEF UploadStep, Begin, ReadType, ReadScale, ClearMsg, SetType, CopyText, Msgsnd
<1> QED BY <1>1, <1>2

\* What a step of Upload is: the three kinds the proofs tell apart.
LEMMA UploadCases ==
    ASSUME [UploadNext]_uvars
    PROVE  \/ died = "no" /\ ElsewhereStep
           \/ died = "no" /\ \E p \in Uploaders : UploadStep(p)
           \/ UploadRestart
           \/ UNCHANGED uvars
  BY DEF UploadNext, ElsewhereStep

LEMMA UploadInvInit == UploadInit => UploadInv
  BY DEF UploadInit, UploadInv, UploadTypeOK, InUpload, Idle, UpPcs, Texts, Messages, Empty,
         Calls, NoCall, NoneSent

LEMMA UploadInvStep ==
    ASSUME TypeOK, UploadInv, [UploadNext]_uvars
    PROVE  UploadInv' /\ [Next]_vars
<1>1. CASE ElsewhereStep
  <2>1. [Next]_vars
    BY <1>1, UploadAssumption
       DEF ElsewhereStep, OtherThread, OtherPortStep, NoUpload, Next, Uploaders
  <2> QED BY <1>1, <2>1, Elsewhere
<1>2. CASE \E p \in Uploaders : UploadStep(p)
  BY <1>2, UploadStepInv, UploadStepMaps
<1>3. CASE UploadRestart
  BY <1>3 DEF UploadRestart, Next, UploadInv, UploadTypeOK, InUpload, Idle, UpPcs, Texts,
              Messages, Empty, Calls, NoCall, NoneSent
<1>4. CASE UNCHANGED uvars
  BY <1>4 DEF uvars, upVars, vars, portVars, tmVars, UploadInv, UploadTypeOK, InUpload,
              Uploading
<1> QED BY <1>1, <1>2, <1>3, <1>4, UploadCases

\* ConfHandoff's type invariant is inductive in Upload too.
LEMMA UploadInvAlways == UploadSpec => [](TypeOK /\ UploadInv) /\ [][Next]_vars
<1>1. UploadInit => TypeOK /\ UploadInv
  BY TypeInit, UploadInvInit DEF UploadInit
<1>2. TypeOK /\ UploadInv /\ [UploadNext]_uvars => (TypeOK /\ UploadInv)' /\ [Next]_vars
  BY UploadInvStep, TypeStep
<1> QED BY <1>1, <1>2, PTL DEF UploadSpec

\* An upload, in which the port goes through eight places and shares two
\* buffers with other threads, is one step of ConfHandoff to everyone else: one
\* message of type 2 enters the cloud queue when there is room, whatever the
\* other port did to cloudCmdMsg meanwhile (device.c:610-735).
THEOREM UploadIsOneStep == UploadSpec => UploadsAsOneStep
<1>1. UploadInit => Init
  BY DEF UploadInit
<1> QED BY <1>1, UploadInvAlways, PTL DEF UploadSpec, UploadsAsOneStep, Spec

\* The types of Upload's own variables.
THEOREM UploadTypes == UploadSpec => []UploadTypeOK
<1>1. UploadInv => UploadTypeOK
  BY DEF UploadInv
<1> QED BY <1>1, UploadInvAlways, PTL
------------------------------------------------------------------------------
(***************************************************************************)
(* How the process ends in an upload.                                      *)
(***************************************************************************)

\* The message has no type only while a port is between clearing it and giving
\* it one, or while no port is on its way from there to msgsnd.
Untyped ==
    cloudCmdMsg.mtype = 0 =>
       \/ \E q \in Uploaders : upPc[q] = "mtype"
       \/ \A q \in Uploaders : upPc[q] \notin {"copy", "msgsnd"}

\* It takes both ports: the one in msgsnd is past that place, so another is in
\* it (device.c:724-730).
THEOREM DiesOnlyTogether == UploadSpec => DiesTogether
<1>1. UploadInit => Untyped
  BY DEF UploadInit, Untyped, Idle
<1>2. ASSUME UploadInv, Untyped, [UploadNext]_uvars PROVE Untyped'
  <2>1. CASE ElsewhereStep
    BY <1>2, <2>1 DEF ElsewhereStep, OtherThread, OtherPortStep, NoUpload, upVars, Untyped
  <2>2. ASSUME NEW p \in Uploaders, UploadStep(p) PROVE Untyped'
    <3> USE <1>2, <2>2 DEF UploadInv, UploadTypeOK, Untyped, UpStep
    <3>1. CASE Begin(p) \/ ReadType(p) \/ ReadScale(p)
      BY <3>1 DEF Begin, ReadType, ReadScale
    <3>2. CASE ClearMsg(p)
      BY <3>2 DEF ClearMsg
    <3>3. CASE SetType(p)
      BY <3>3 DEF SetType, Messages
    <3>4. CASE CopyText(p)
      BY <3>4 DEF CopyText, Messages
    <3>5. CASE Msgsnd(p)
      BY <3>5 DEF Msgsnd
    <3>6. CASE Send(p)
      BY <3>6 DEF Send
    <3> QED BY <2>2, <3>1, <3>2, <3>3, <3>4, <3>5, <3>6 DEF UploadStep
  <2>3. CASE UploadRestart
    BY <2>3 DEF UploadRestart, Untyped, Idle
  <2>4. CASE UNCHANGED uvars
    BY <1>2, <2>4 DEF uvars, upVars, Untyped
  <2> QED BY <1>2, <2>1, <2>2, <2>3, <2>4, UploadCases
<1>3. ASSUME Untyped, UploadInv, [UploadNext]_uvars
      PROVE  [died = "no" /\ died' = "msgsnd" => \E p \in Uploaders : upPc[p] = "mtype"]_uvars
  <2> SUFFICES ASSUME died = "no", died' = "msgsnd"
               PROVE  \E p \in Uploaders : upPc[p] = "mtype"
    OBVIOUS
  <2>1. PICK p \in Uploaders : UploadStep(p)
    BY <1>3, UploadCases DEF ElsewhereStep, OtherThread, OtherPortStep, NoUpload,
       UploadRestart, uvars, upVars
  <2>2. Msgsnd(p)
    BY <2>1 DEF UploadStep, Begin, ReadType, ReadScale, ClearMsg, SetType, CopyText, Send
  <2>3. cloudCmdMsg.mtype = 0 /\ upPc[p] = "msgsnd"
    BY <2>2 DEF Msgsnd, UpStep
  <2> QED BY <1>3, <2>3 DEF Untyped
<1> QED BY <1>1, <1>2, <1>3, UploadInvAlways, PTL DEF UploadSpec, DiesTogether

------------------------------------------------------------------------------
(***************************************************************************)
(* What is sent.                                                           *)
(***************************************************************************)

\* Who has the message to itself finds its own text in it, and sends it whole.
Whole ==
    /\ \A p \in Uploaders : ~shared[p] =>
          /\ InUse(p) => \A q \in Uploaders \ {p} : ~InUse(q)
          /\ upPc[p] = "msgsnd" => cloudCmdMsg.text = text[p]
          /\ upPc[p] = "send" => call[p].text = call[p].length
    /\ WholeText

\* Only an upload that overlaps with another sends a text that is not its own, or
\* not whole (device.c:722-727).
THEOREM TextWhole == UploadSpec => []WholeText
<1>1. UploadInit => Whole
  BY DEF UploadInit, Whole, Idle, InUse, WholeText, NoneSent
<1>2. ASSUME UploadInv, Whole, [UploadNext]_uvars PROVE Whole'
  <2>1. CASE ElsewhereStep
    BY <1>2, <2>1 DEF ElsewhereStep, OtherThread, OtherPortStep, NoUpload, upVars, Whole,
                      InUse, WholeText
  <2>2. ASSUME NEW p \in Uploaders, UploadStep(p) PROVE Whole'
    <3> USE <1>2, <2>2 DEF UploadInv, UploadTypeOK, Whole, UpStep, InUse, WholeText
    <3>1. CASE Begin(p) \/ ReadType(p) \/ ReadScale(p)
      BY <3>1 DEF Begin, ReadType, ReadScale
    <3>2. CASE ClearMsg(p)
      BY <3>2 DEF ClearMsg
    <3>3. CASE SetType(p)
      BY <3>3 DEF SetType, Messages
    <3>4. CASE CopyText(p)
      BY <3>4 DEF CopyText, Messages
    <3>5. CASE Msgsnd(p)
      BY <3>5 DEF Msgsnd, Copied
    <3>6. CASE Send(p)
      BY <3>6 DEF Send
    <3> QED BY <2>2, <3>1, <3>2, <3>3, <3>4, <3>5, <3>6 DEF UploadStep
  <2>3. CASE UploadRestart
    BY <2>3 DEF UploadRestart, Whole, Idle, InUse, WholeText, NoneSent
  <2>4. CASE UNCHANGED uvars
    BY <1>2, <2>4 DEF uvars, upVars, Whole, InUse, WholeText
  <2> QED BY <1>2, <2>1, <2>2, <2>3, <2>4, UploadCases
<1>3. Whole => WholeText
  BY DEF Whole
<1> QED BY <1>1, <1>2, <1>3, UploadInvAlways, PTL DEF UploadSpec
==============================================================================
