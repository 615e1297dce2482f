--------------------------------- MODULE Upload ---------------------------------
(***************************************************************************)
(* deviceStateUpdate and modbusRtuReadData (device.c) step by step: what   *)
(* is one step of ConfHandoff, the upload of a port, in the order in which *)
(* it touches what it shares with other threads.  That is localCmdMsg,     *)
(* where tempConfig points and which the timer clears at every tick and    *)
(* fills before it waits for the permit; and cloudCmdMsg, which the Rtu    *)
(* and the Tcp thread both use for the message they send.                  *)
(*                                                                         *)
(* One unit stands for all the units of a configuration.  No context is    *)
(* ever set (initModbusTcpConnect, as initModbusRtuParam, assigns its own  *)
(* parameter), so every read fails and what is divided by Scale and put    *)
(* into the text is what the buffers on the port's stack hold.             *)
(***************************************************************************)
EXTENDS ConfHandoff

CONSTANT ZeroScale  \* the configurations whose Scale atoi reads as 0

\* The ports that upload.
Uploaders == {"Rtu", "Tcp"}

ASSUME UploadAssumption == ZeroScale \subseteq Confs /\ Uploaders \subseteq Ports

VARIABLES
    upPc,        \* where each of them is in deviceStateUpdate
    typed,       \* it has read a DataType it divides by Scale for
    text,        \* the text it has built: the template, or one with the port's
                 \* garbage in it, which stands under the port's name
    cloudCmdMsg, \* device.c's cloudCmdMsg, its text the one copied last
    call,        \* the msgsnd it is in: type, the text copied from the
                 \* buffer, and the text whose length it was given
    died,        \* what ended the process: "no", "divide", "msgsnd"
    shared,      \* memory: another port has had cloudCmdMsg in use since this
                 \* one cleared it
    sent         \* memory: the message sent last, as in call, and shared

upVars == <<upPc, typed, text, cloudCmdMsg, call, died, shared, sent>>
uvars == <<vars, upVars>>

UpPcs == {"start", "type", "scale", "clear", "mtype", "copy", "msgsnd", "send"}
Texts == {"template", "zeros"} \cup Uploaders
Empty == [mtype |-> 0, text |-> "zeros"]
Messages == [mtype : {0, 2}, text : Texts]
NoCall == [mtype |-> 0, text |-> "zeros", length |-> "zeros"]
Calls == [mtype : {0, 2}, text : Texts, length : Texts]
NoneSent == [text |-> "zeros", length |-> "zeros", shared |-> FALSE]

\* Types and ranges of the variables of this module.
UploadTypeOK ==
    /\ upPc \in [Uploaders -> UpPcs]
    /\ typed \in [Uploaders -> BOOLEAN]
    /\ text \in [Uploaders -> Texts]
    /\ cloudCmdMsg \in Messages
    /\ call \in [Uploaders -> Calls]
    /\ died \in {"no", "divide", "msgsnd"}
    /\ shared \in [Uploaders -> BOOLEAN]
    /\ sent \in [text : Texts, length : Texts, shared : BOOLEAN]

Idle == [upPc  |-> [p \in Uploaders |-> "start"],
         typed |-> [p \in Uploaders |-> FALSE],
         text  |-> [p \in Uploaders |-> "template"],
         call  |-> [p \in Uploaders |-> NoCall],
         shared |-> [p \in Uploaders |-> FALSE]]

UploadInit ==
    /\ Init
    /\ upPc = Idle.upPc /\ typed = Idle.typed /\ text = Idle.text
    /\ cloudCmdMsg = Empty /\ call = Idle.call
    /\ died = "no" /\ shared = Idle.shared /\ sent = NoneSent
------------------------------------------------------------------------------
\* The port's thread is in deviceStateUpdate.
Uploading(p) == ptPc[p] = IF p = "Tcp" THEN "work" ELSE "upload"

\* p goes on from one place of deviceStateUpdate to the next.
UpStep(p, from, to) ==
    /\ up /\ Uploading(p) /\ upPc[p] = from
    /\ upPc' = [upPc EXCEPT ![p] = to]

\* The template is parsed, if there is a configuration at all.
Begin(p) ==
    /\ UpStep(p, "start", "type")
    /\ tempSet
    /\ UNCHANGED <<vars, typed, text, cloudCmdMsg, call, died, shared, sent>>

\* The unit is passed by value, and copied from its beginning to its end: the
\* DataType comes before the Scale.  In a cleared buffer there is none, and in
\* an interface update none that is known.
ReadType(p) ==
    /\ UpStep(p, "type", "scale")
    /\ typed' = [typed EXCEPT ![p] = localBuf.mtype = 2]
    /\ UNCHANGED <<vars, text, cloudCmdMsg, call, died, shared, sent>>

\* The Scale that lies where tempConfig points.
ScaleIsZero == localBuf.mtype # 2 \/ localBuf.conf \in ZeroScale

\* An integer divided by 0 raises SIGFPE (the division of the C library of the
\* build); without a known DataType the item of the template stays.
ReadScale(p) ==
    /\ IF typed[p] /\ ScaleIsZero
       THEN /\ UpStep(p, "scale", "start")
            /\ died' = "divide"
            /\ UNCHANGED text
       ELSE /\ UpStep(p, "scale", "clear")
            /\ text' = [text EXCEPT ![p] = IF typed[p] THEN p ELSE "template"]
            /\ UNCHANGED died
    /\ UNCHANGED <<vars, typed, cloudCmdMsg, call, shared, sent>>

\* From its clearing to the copy of the kernel the message is in use.
InUse(p) == upPc[p] \in {"mtype", "copy", "msgsnd"}

ClearMsg(p) ==
    /\ UpStep(p, "clear", "mtype")
    /\ cloudCmdMsg' = Empty
    /\ shared' = [q \in Uploaders |->
                     IF q = p THEN \E o \in Uploaders \ {p} : InUse(o)
                              ELSE shared[q] \/ InUse(q)]
    /\ UNCHANGED <<vars, typed, text, call, died, sent>>

\* Mutant: the type is not set.
SetTypeLeft(p) ==
    /\ UpStep(p, "mtype", "copy")
    /\ UNCHANGED <<vars, typed, text, cloudCmdMsg, call, died, shared, sent>>

\* Mutant: the type of the other kind of message.
SetTypeOne(p) ==
    /\ UpStep(p, "mtype", "copy")
    /\ cloudCmdMsg' = [cloudCmdMsg EXCEPT !.mtype = 1]
    /\ UNCHANGED <<vars, typed, text, call, died, shared, sent>>

SetType(p) ==
    /\ UpStep(p, "mtype", "copy")
    /\ cloudCmdMsg' = [cloudCmdMsg EXCEPT !.mtype = 2]
    /\ UNCHANGED <<vars, typed, text, call, died, shared, sent>>

\* Mutant: the text is not copied.
CopyTextLeft(p) ==
    /\ UpStep(p, "copy", "msgsnd")
    /\ UNCHANGED <<vars, typed, text, cloudCmdMsg, call, died, shared, sent>>

CopyText(p) ==
    /\ UpStep(p, "copy", "msgsnd")
    /\ cloudCmdMsg' = [cloudCmdMsg EXCEPT !.text = text[p]]
    /\ UNCHANGED <<vars, typed, text, call, died, shared, sent>>

\* What msgsnd copies: what is in the message, as long as the port's own text.
Copied(p) == [mtype |-> cloudCmdMsg.mtype, text |-> cloudCmdMsg.text, length |-> text[p]]

\* Mutant: the result of msgsnd is not looked at.
MsgsndUnchecked(p) ==
    /\ UpStep(p, "msgsnd", "send")
    /\ call' = [call EXCEPT ![p] = Copied(p)]
    /\ UNCHANGED <<vars, typed, text, cloudCmdMsg, died, shared, sent>>

\* msgsnd copies the message, and refuses the type 0, which ends the process.
Msgsnd(p) ==
    /\ IF cloudCmdMsg.mtype = 0
       THEN /\ UpStep(p, "msgsnd", "start")
            /\ died' = "msgsnd"
            /\ UNCHANGED call
       ELSE /\ UpStep(p, "msgsnd", "send")
            /\ call' = [call EXCEPT ![p] = Copied(p)]
            /\ UNCHANGED died
    /\ UNCHANGED <<vars, typed, text, cloudCmdMsg, shared, sent>>

\* Then it waits until there is room for it; the room a message takes is that of
\* ConfHandoff, whatever its text.  With the function its locals end.
Send(p) ==
    /\ UpStep(p, "send", "start")
    /\ HasRoom(cloudQ, JsonMsg, QBytes)
    /\ cloudQ' = Append(cloudQ, [JsonMsg EXCEPT !.mtype = call[p].mtype])
    /\ sent' = [text |-> call[p].text, length |-> call[p].length, shared |-> shared[p]]
    /\ ptPc' = [ptPc EXCEPT ![p] = IF p = "Tcp" THEN "post" ELSE "poll"]
    /\ typed' = [typed EXCEPT ![p] = FALSE] /\ text' = [text EXCEPT ![p] = "template"]
    /\ call' = [call EXCEPT ![p] = NoCall] /\ shared' = [shared EXCEPT ![p] = FALSE]
    /\ UNCHANGED <<envVars, cfgVars, localQ, sem, tmVars, cnt, flag, reg, due,
                   cloudCmdMsg, died>>

UploadStep(p) ==
    \/ Begin(p) \/ ReadType(p) \/ ReadScale(p)
    \/ ClearMsg(p) \/ SetType(p) \/ CopyText(p) \/ Msgsnd(p) \/ Send(p)

\* Without a configuration there is nothing to upload.
NoUpload(p) ==
    /\ Uploading(p) /\ upPc[p] = "start" /\ ~tempSet
    /\ PortStep(p)
    /\ UNCHANGED upVars

OtherPortStep(p) ==
    /\ p \in Uploaders => ~Uploading(p)
    /\ PortStep(p)
    /\ UNCHANGED upVars

OtherThread ==
    /\ Input \/ ConfigStep \/ TimerStep \/ CloudTake
    /\ UNCHANGED upVars

UploadRestart ==
    /\ Restart
    /\ upPc' = Idle.upPc /\ typed' = Idle.typed /\ text' = Idle.text
    /\ cloudCmdMsg' = Empty /\ call' = Idle.call
    /\ died' = "no" /\ shared' = Idle.shared /\ sent' = NoneSent

UploadNext ==
    \/ /\ died = "no"
       /\ \/ OtherThread
          \/ \E p \in Ports : OtherPortStep(p)
          \/ \E p \in Uploaders : UploadStep(p) \/ NoUpload(p)
    \/ UploadRestart

UploadSpec == UploadInit /\ [][UploadNext]_uvars
------------------------------------------------------------------------------
(***************************************************************************)
(* Properties.                                                             *)
(***************************************************************************)

\* Step by step an upload does what the one step of ConfHandoff says: one
\* message of type 2 enters the cloud queue, or the process ends
\* (device.c:610-735).
UploadsAsOneStep == Spec

\* The process ends in msgsnd only when both ports upload at the same time:
\* while one calls msgsnd the other has just cleared the message they share
\* (device.c:724-730).
DiesTogether ==
    [][died = "no" /\ died' = "msgsnd" => \E p \in Uploaders : upPc[p] = "mtype"]_uvars

\* A port sends the text it has built, as long as it is, unless the other port
\* has used the message they share at the same time.  Then it may send the
\* other's text, or nothing but zeros, cut or filled up to the length of its own
\* (device.c:722-727), and nobody notices.
WholeText == ~sent.shared => sent.text = sent.length
==============================================================================
