-------------------------------- MODULE Startup --------------------------------
(***************************************************************************)
(* How the gateway comes up, and what its serial lines are opened with.    *)
(*                                                                         *)
(* main (main.c) creates the semaphore, forks, and calls configInit,       *)
(* deviceInit and cloudInit, whose results it ignores.  Each of these      *)
(* returns at the first call that fails and leaves running what it has     *)
(* started.  The threads are those of ConfHandoff and take their steps     *)
(* from the moment they are created.                                       *)
(*                                                                         *)
(* The config thread exists before the ports do.  It clears and fills the  *)
(* section of a serial port in flyModbusConf while it reads an interface   *)
(* file; a port thread writes its defaults there when it starts, and reads *)
(* them when it opens its line, then and after every interface update.     *)
(* Nothing protects flyModbusConf.                                         *)
(***************************************************************************)
EXTENDS ConfHandoff

CONSTANTS
    Forks,       \* TRUE: main forks, as committed; FALSE: it runs what
                 \* stands behind the two branches of its fork
    MaxFailures, \* bound: calls of main that fail
    MaxTokens    \* bound: sections and settings the interface files have

ASSUME StartupAssumption ==
    /\ Forks \subseteq BOOLEAN
    /\ MaxFailures \in Nat /\ MaxTokens \in Nat

\* The ports that open a serial line when they start.
Serial == Ports \cap {"Rtu", "Rtu1", "Rtu2"}
Threads == Ports \cup {"config", "timer", "mqtt"}

VARIABLES
    forks,    \* the element of Forks that holds
    mainPc,   \* the call main is at
    running,  \* the threads that have been created
    failures, \* calls that have failed so far
    reading,  \* the interface file: "no", "scan", or "name" in a new section
    devSeq,   \* the section being read
    tokens,   \* sections and settings left
    com,      \* name and baud rate of each serial port in flyModbusConf
    linePc,   \* where a port is with the setting up of its line
    baud,     \* the rate it has converted
    line      \* what it has made the context of its line with last

mainVars == <<forks, mainPc, running, failures>>
fileVars == <<reading, devSeq, tokens>>
lineVars == <<com, linePc, baud, line>>
svars == <<vars, mainVars, fileVars, lineVars>>

MainPcs == {"sem_init", "fork", "exec", "shell", "gone",
            "configQueues", "connect", "configThread",
            "deviceQueues", "ports", "timerThread",
            "cloudQueue", "mqttThread", "spin"}
Rates == {"", "9600", "file"}
NoCom == [name |-> FALSE, rate |-> ""]

\* Types and ranges of the variables of this module.
StartTypeOK ==
    /\ forks \in Forks
    /\ mainPc \in MainPcs
    /\ running \subseteq Threads
    /\ failures \in 0..MaxFailures
    /\ reading \in {"no", "scan", "name"}
    /\ devSeq \in Serial \cup {NoPort}
    /\ tokens \in 0..MaxTokens
    /\ com \in [Serial -> [name : BOOLEAN, rate : Rates]]
    /\ linePc \in [Serial -> {"name", "rate", "atoi", "open", "run"}]
    /\ baud \in [Serial -> Rates]
    /\ line \in [Serial -> {"none", "failed", "9600", "file"}]

\* What a process begins with, the semaphore and the queues apart.
Fresh == [com    |-> [p \in Serial |-> NoCom],
          linePc |-> [p \in Serial |-> "name"],
          baud   |-> [p \in Serial |-> ""],
          line   |-> [p \in Serial |-> "none"]]

StartInit ==
    /\ Init
    /\ forks \in Forks
    /\ mainPc = "sem_init" /\ running = {} /\ failures = 0
    /\ reading = "no" /\ devSeq = NoPort /\ tokens = MaxTokens
    /\ com = Fresh.com /\ linePc = Fresh.linePc
    /\ baud = Fresh.baud /\ line = Fresh.line
------------------------------------------------------------------------------
(***************************************************************************)
(* main and the three Init functions, call by call.                        *)
(***************************************************************************)

\* A call that succeeds, starting these threads, or fails.
Call(at, started, next, failed) ==
    /\ mainPc = at
    /\ \/ mainPc' = next /\ running' = running \cup started /\ UNCHANGED failures
       \/ /\ failures < MaxFailures
          /\ failures' = failures + 1
          /\ mainPc' = failed /\ UNCHANGED running

\* Neither branch goes on to configInit: the parent exits, the child executes
\* a shell or exits, and a fork that fails takes the parent's branch.  The
\* parent is gone at once; mainPc follows the child.
Fork ==
    \/ forks /\ Call("fork", {}, "exec", "gone")
    \/ forks /\ Call("exec", {}, "shell", "gone")
    \/ /\ ~forks /\ mainPc = "fork"
       /\ mainPc' = "configQueues" /\ UNCHANGED <<running, failures>>

\* configInit: socketClient exits the process when nobody listens.
ConfigInit ==
    \/ Call("configQueues", {}, "connect", "deviceQueues")
    \/ Call("connect", {}, "configThread", "gone")
    \/ Call("configThread", {"config"}, "deviceQueues", "deviceQueues")

\* The order in which deviceInit creates the port threads.
Order == [Rtu |-> 0, Rtu1 |-> 1, Rtu2 |-> 2, Rtu3 |-> 3, Tcp |-> 4]
NextPort(p) ==
    p \notin running /\ \A q \in Ports : Order[q] < Order[p] => q \in running

\* Mutant: deviceInit goes on when a port thread can not be created.
DeviceInitGoesOn ==
    \/ Call("deviceQueues", {}, "ports", "cloudQueue")
    \/ \E p \in Ports : NextPort(p) /\ Call("ports", {p},
            IF Ports \subseteq running \cup {p} THEN "timerThread" ELSE "ports",
            "timerThread")
    \/ Call("timerThread", {"timer"}, "cloudQueue", "cloudQueue")

DeviceInit ==
    \/ Call("deviceQueues", {}, "ports", "cloudQueue")
    \/ \E p \in Ports : NextPort(p) /\ Call("ports", {p},
            IF Ports \subseteq running \cup {p} THEN "timerThread" ELSE "ports",
            "cloudQueue")
    \/ Call("timerThread", {"timer"}, "cloudQueue", "cloudQueue")

\* Mutant: main does not get to cloudInit.
CloudInitLeft == Call("cloudQueue", {}, "spin", "spin")

CloudInit ==
    \/ Call("cloudQueue", {}, "mqttThread", "spin")
    \/ Call("mqttThread", {"mqtt"}, "spin", "spin")

MainStep ==
    /\ up
    /\ \/ Call("sem_init", {}, "fork", "gone")
       \/ Fork \/ ConfigInit \/ DeviceInit \/ CloudInit
    /\ UNCHANGED <<vars, forks, fileVars, lineVars>>
------------------------------------------------------------------------------
(***************************************************************************)
(* The config thread.  An interface file is read between the command and   *)
(* the message; a malformed one is read up to the place that is malformed. *)
(* Sections and settings no port thread looks at are left out.             *)
(***************************************************************************)
ReadCommand ==
    /\ \E cmd \in Cmds, yml \in PublicYml :
          /\ Receive(cmd, yml)
          /\ reading' = IF cmd = 1 /\ yml # "missing" THEN "scan" ELSE "no"
    /\ UNCHANGED <<devSeq, tokens, com>>

\* A section begins: its old contents are cleared, then its name is copied.
ClearSection(p) ==
    /\ reading = "scan" /\ tokens > 0
    /\ tokens' = tokens - 1
    /\ devSeq' = p
    /\ com' = [com EXCEPT ![p] = NoCom]
    /\ reading' = "name"
    /\ UNCHANGED vars

NameSection ==
    /\ reading = "name"
    /\ com' = [com EXCEPT ![devSeq].name = TRUE]
    /\ reading' = "scan"
    /\ UNCHANGED <<vars, devSeq, tokens>>

\* configForLocalUpdate returns when anchor and value are both there.
LocalUpdate(p, anchor, value) ==
    IF anchor /\ value THEN UNCHANGED com
                       ELSE com' = [com EXCEPT ![p].rate = "file"]

\* It is called with two arrays, the name of the setting and its value.
ReadBaudRate ==
    /\ reading = "scan" /\ tokens > 0
    /\ tokens' = tokens - 1
    /\ LocalUpdate(devSeq, TRUE, TRUE)
    /\ UNCHANGED <<vars, devSeq, reading>>

\* Mutant: the update is announced before the file has been read.
SendIfaceEarly ==
    /\ SendIface
    /\ UNCHANGED fileVars /\ UNCHANGED com

SendRead ==
    /\ reading = "scan"
    /\ SendIface
    /\ reading' = "no"
    /\ UNCHANGED <<devSeq, tokens, com>>

OtherCommand ==
    /\ \/ \E f \in Files : NextEntry(f)
       \/ EndOfList \/ ScanForever \/ ConfWait \/ ParseConf \/ SendConf \/ ConfPost
       \/ \E a \in Addrs : SendMqtt(a)
    /\ UNCHANGED <<fileVars, com>>

ConfigThread ==
    /\ up /\ "config" \in running
    /\ \/ ReadCommand \/ NameSection \/ ReadBaudRate \/ SendRead \/ OtherCommand
       \/ \E p \in Serial : ClearSection(p)
    /\ UNCHANGED <<mainVars, linePc, baud, line>>
------------------------------------------------------------------------------
(***************************************************************************)
(* The port threads.                                                       *)
(***************************************************************************)
At(p, pc, next) ==
    /\ p \in Serial /\ linePc[p] = pc
    /\ linePc' = [linePc EXCEPT ![p] = next]
    /\ UNCHANGED vars

\* Mutant: the default rate is not written.
DefaultNameOnly(p) ==
    /\ At(p, "name", "atoi")
    /\ com' = [com EXCEPT ![p].name = TRUE]
    /\ UNCHANGED <<baud, line>>

\* A port thread begins by writing its defaults over whatever is there.
DefaultName(p) ==
    /\ At(p, "name", "rate")
    /\ com' = [com EXCEPT ![p].name = TRUE]
    /\ UNCHANGED <<baud, line>>

DefaultRate(p) ==
    /\ At(p, "rate", "atoi")
    /\ com' = [com EXCEPT ![p].rate = "9600"]
    /\ UNCHANGED <<baud, line>>

\* initModbusRtuParam: the rate is converted, then modbus_new_rtu makes a
\* context, which libmodbus refuses without a name or with the rate 0 of an
\* empty text.  "line" is what that context was made with: it is assigned to the
\* parameter of the function only, so no port ever connects it.
ConvertRate(p) ==
    /\ At(p, "atoi", "open")
    /\ baud' = [baud EXCEPT ![p] = com[p].rate]
    /\ UNCHANGED <<com, line>>

\* Mutant: what modbus_new_rtu returns is not looked at.
OpenLineAnyway(p) ==
    /\ At(p, "open", "run")
    /\ line' = [line EXCEPT ![p] = baud[p]]
    /\ UNCHANGED <<com, baud>>

OpenLine(p) ==
    /\ At(p, "open", "run")
    /\ line' = [line EXCEPT ![p] = IF com[p].name /\ baud[p] # "" THEN baud[p]
                                                               ELSE "failed"]
    /\ UNCHANGED <<com, baud>>

\* Mutant: a port takes an interface update as a reason to start afresh.
AfterUpdateDefaults(p) == IF ptPc[p] = "store" THEN "name" ELSE "run"

\* After an interface update a serial port opens its line again.
AfterStep(p) == IF ptPc[p] = "store" THEN "atoi" ELSE "run"

\* The loop of the thread, as in ConfHandoff.
PortLoop(p) ==
    /\ PortStep(p)
    /\ IF p \in Serial
       THEN linePc[p] = "run" /\ linePc' = [linePc EXCEPT ![p] = AfterStep(p)]
       ELSE UNCHANGED linePc
    /\ UNCHANGED <<com, baud, line>>

PortThread(p) ==
    /\ up /\ p \in running
    /\ \/ DefaultName(p) \/ DefaultRate(p) \/ ConvertRate(p) \/ OpenLine(p)
       \/ PortLoop(p)
    /\ UNCHANGED <<mainVars, fileVars>>
------------------------------------------------------------------------------
TimerThread ==
    "timer" \in running /\ TimerStep /\ UNCHANGED <<mainVars, fileVars, lineVars>>

MqttTakes ==
    "mqtt" \in running /\ CloudTake /\ UNCHANGED <<mainVars, fileVars, lineVars>>

StartAgain ==
    /\ Restart
    /\ mainPc' = "sem_init" /\ running' = {}
    /\ reading' = "no" /\ devSeq' = NoPort
    /\ com' = Fresh.com /\ linePc' = Fresh.linePc
    /\ tokens' = MaxTokens
    /\ baud' = Fresh.baud /\ line' = Fresh.line
    /\ UNCHANGED <<forks, failures>>

StartNext ==
    \/ MainStep
    \/ ConfigThread
    \/ \E p \in Ports : PortThread(p)
    \/ TimerThread
    \/ MqttTakes
    \/ StartAgain

StartSpec == StartInit /\ [][StartNext]_svars

\* main is scheduled.
StartFairSpec == StartSpec /\ WF_svars(MainStep)
------------------------------------------------------------------------------
(***************************************************************************)
(* Properties.                                                             *)
(***************************************************************************)

\* The timer takes updates from the queue only when every port is there to
\* acknowledge them, and a port that is missing costs all of them their
\* timer, although main goes on as if nothing had happened (device.c:1014-1062).
TimerHasPorts == "timer" \in running => Ports \subseteq running

\* A line is opened with its defaults unless this process has read an interface
\* file: only a section cleared between the defaults and the opening makes it
\* fail, whatever the order in which the threads start (config.c:530,
\* device.c:741-743).
FailsByFile ==
    (\E p \in Serial : line[p] = "failed") => tokens < MaxTokens

\* Opening a line has failed for want of a rate, and there still is none.
RateGone(p) == line[p] = "failed" /\ com[p].rate = "" /\ baud[p] = ""

\* Once that has happened, because the section was cleared under an open
\* port or while it started, no update ever brings the line back: the defaults
\* are written when the thread starts and never again (config.c:533,
\* device.c:741-758).
RateLost == [][\A p \in Serial : RateGone(p) /\ SameRun => RateGone(p)']_svars

\* An update is in the file being read, in the queue or in the timer's hands.
Upstream ==
    \/ reading # "no"
    \/ \E i \in DOMAIN localQ : localQ[i].mtype = 1
    \/ tmPc \in {"wait", "apply"} /\ localBuf.mtype = 1

\* A port whose flag no other port clears: not Rtu, where Rtu2 runs too.
OwnFlag(p) == \A q \in Ports \ {p} : Cleared(q) # p

\* A port that runs its loop and has acknowledged what it was asked to.
AtRest(p) == /\ flag[p] # 1 /\ ptPc[p] \notin {"clear", "store"}
             /\ linePc[p] = "run"

\* The line that flyModbusConf describes.
LineOf(p) == IF com[p].name /\ com[p].rate # "" THEN com[p].rate ELSE "failed"

\* When no update is on its way, the line of a port at rest is as flyModbusConf
\* says, although the file was read under threads that were reading the same
\* memory: the update that follows makes up for it (config.c:526-665,
\* device.c:747-758).  Not so for Rtu, whose update Rtu2 takes away (device.c:856),
\* nor once the config thread has lost the queue (config.c:677), nor in a build
\* in which a device configuration can replace the update (device.c:411).
LinesAsRead ==
    Oversized /\ localCmdMsgId = localId /\ ~Upstream =>
       \A p \in Serial : OwnFlag(p) /\ AtRest(p) => line[p] = LineOf(p)

\* The comment of modbusRtuThreadFunc (device.c:751) has a port initialised
\* "with new parameters" after an interface update: the rate an interface file
\* gives for a port is stored where that port looks for it.
NewParameters ==
    [][\A p \in Serial :
          ReadBaudRate /\ devSeq = p => com'[p].rate = "file"]_svars

\* README.md:2 says the program collects and uploads, for which it needs its
\* threads.  As committed neither branch of main's fork starts any, however
\* often the process is started (main.c:22-32); if main did not fork, it would
\* start every thread unless a call fails or a thread it has started ends the
\* process.
StartsUnlessFails ==
    /\ [](forks => running = {})
    /\ []<>(running = Threads \/ failures > 0 \/ forks \/ ~up)
==============================================================================
