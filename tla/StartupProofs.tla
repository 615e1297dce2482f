----------------------------- MODULE StartupProofs -----------------------------
(***************************************************************************)
(* What holds of the start of the gateway for any number of ports, files,  *)
(* failures and restarts.  The steps of the threads are those of           *)
(* ConfHandoff, so what is proved of that module holds here too.           *)
(***************************************************************************)
EXTENDS Startup, ConfHandoffProofs

\* A step of the process, from main's first call on, is one of ConfHandoff or
\* none: that its threads start one by one, or not at all, and that its lines
\* are set up on the way, adds nothing (main.c:34-36).
THEOREM StartupHandoff == StartSpec => Spec
<1>1. StartInit => Init
  BY DEF StartInit
<1>2. [StartNext]_svars => [Next]_vars
  <2> SUFFICES ASSUME [StartNext]_svars PROVE [Next]_vars
    OBVIOUS
  <2>1. CASE MainStep
    BY <2>1 DEF MainStep
  <2>2. CASE ConfigThread
    <3>1. CASE ReadCommand
      BY <3>1 DEF ReadCommand, Next, Input
    <3>2. CASE NameSection \/ ReadBaudRate \/ \E p \in Serial : ClearSection(p)
      BY <3>2 DEF NameSection, ReadBaudRate, ClearSection
    <3>3. CASE SendRead
      BY <3>3 DEF SendRead, Next, ConfigStep
    <3>4. CASE OtherCommand
      BY <3>4 DEF OtherCommand, Next, ConfigStep, Input
    <3> QED BY <2>2, <3>1, <3>2, <3>3, <3>4 DEF ConfigThread
  <2>3. ASSUME NEW p \in Ports, PortThread(p) PROVE [Next]_vars
    <3>1. CASE PortLoop(p)
      BY <3>1 DEF PortLoop, Next
    <3>2. CASE ~PortLoop(p)
      BY <2>3, <3>2 DEF PortThread, DefaultName, DefaultRate, ConvertRate, OpenLine, At
    <3> QED BY <3>1, <3>2
  <2>4. CASE TimerThread
    BY <2>4 DEF TimerThread, Next
  <2>5. CASE MqttTakes
    BY <2>5 DEF MqttTakes, Next
  <2>6. CASE StartAgain
    BY <2>6 DEF StartAgain, Next
  <2>7. CASE UNCHANGED svars
    BY <2>7 DEF svars
  <2> QED BY <2>1, <2>2, <2>3, <2>4, <2>5, <2>6, <2>7 DEF StartNext
<1> QED BY <1>1, <1>2, PTL DEF StartSpec, Spec
------------------------------------------------------------------------------
\* deviceInit comes to the timer only with every port created.
PortsFirst ==
    /\ mainPc = "timerThread" => Ports \subseteq running
    /\ TimerHasPorts

\* The timer never runs without the ports that acknowledge what it hands out
\* (device.c:1014-1062), whichever call of main fails.
THEOREM TimerHasItsPorts == StartSpec => []TimerHasPorts
<1>1. StartInit => PortsFirst
  BY DEF StartInit, PortsFirst, TimerHasPorts
<1>2. PortsFirst /\ [StartNext]_svars => PortsFirst'
  <2> SUFFICES ASSUME PortsFirst, [StartNext]_svars PROVE PortsFirst'
    OBVIOUS
  <2> USE DEF PortsFirst, TimerHasPorts
  <2>1. CASE MainStep
    <3>1. CASE DeviceInit
      <4>1. CASE Call("deviceQueues", {}, "ports", "cloudQueue")
        BY <4>1 DEF Call
      <4>2. ASSUME NEW p \in Ports,
                   Call("ports", {p}, IF Ports \subseteq running \cup {p}
                                      THEN "timerThread" ELSE "ports", "cloudQueue")
            PROVE PortsFirst'
        <5>1. mainPc = "ports" /\ running \subseteq running'
          BY <4>2 DEF Call
        <5>2. mainPc' = "timerThread" => Ports \subseteq running'
          BY <4>2 DEF Call
        <5>3. p # "timer"
          BY HandoffAssumption DEF HandoffAssumption, AllPorts
        <5>4. "timer" \in running' => "timer" \in running
          BY <4>2, <5>3 DEF Call
        <5> QED BY <5>1, <5>2, <5>4
      <4>3. CASE Call("timerThread", {"timer"}, "cloudQueue", "cloudQueue")
        BY <4>3 DEF Call
      <4> QED BY <3>1, <4>1, <4>2, <4>3 DEF DeviceInit
    <3>2. CASE ConfigInit \/ CloudInit \/ Fork \/ Call("sem_init", {}, "fork", "gone")
      <4>1. mainPc' # "timerThread" /\ running \subseteq running'
        BY <3>2 DEF ConfigInit, CloudInit, Fork, Call
      <4>2. "timer" \in running' => "timer" \in running
        BY <3>2 DEF ConfigInit, CloudInit, Fork, Call
      <4> QED BY <4>1, <4>2
    <3> QED BY <2>1, <3>1, <3>2 DEF MainStep
  <2>2. CASE StartAgain
    BY <2>2 DEF StartAgain
  <2>3. CASE ~MainStep /\ ~StartAgain
    <3>1. UNCHANGED mainVars
      BY <2>3 DEF StartNext, ConfigThread, PortThread, TimerThread, MqttTakes, svars
    <3> QED BY <3>1 DEF mainVars
  <2> QED BY <2>1, <2>2, <2>3
<1>3. PortsFirst => TimerHasPorts
  BY DEF PortsFirst
<1> QED BY <1>1, <1>2, <1>3, PTL DEF StartSpec
------------------------------------------------------------------------------
\* What is known of a line: no rate comes from a file, for the config thread
\* always gives LocalUpdate an anchor and a value (config.c:583), and a line that has been
\* opened, or has failed, is past its defaults.
LineInv ==
    /\ com \in [Serial -> [name : BOOLEAN, rate : {"", "9600"}]]
    /\ linePc \in [Serial -> {"name", "rate", "atoi", "open", "run"}]
    /\ baud \in [Serial -> {"", "9600"}]
    /\ line \in [Serial -> {"none", "failed", "9600"}]
    /\ \A p \in Serial : linePc[p] \in {"name", "rate"} => line[p] = "none"

LEMMA LineInit == StartInit => LineInv
<1> SUFFICES ASSUME StartInit PROVE LineInv
  OBVIOUS
<1>1. com = [p \in Serial |-> NoCom] /\ linePc = [p \in Serial |-> "name"]
  BY DEF StartInit, Fresh
<1>2. baud = [p \in Serial |-> ""] /\ line = [p \in Serial |-> "none"]
  BY DEF StartInit, Fresh
<1> QED BY <1>1, <1>2 DEF LineInv, NoCom

\* A restart is another run of the process.
LEMMA RestartCounts == ASSUME TypeOK, Restart PROVE ~SameRun
<1>1. MaxRestarts \in Nat
  BY HandoffAssumption DEF Confs
<1>2. restarts \in 0..MaxRestarts
  BY DEF TypeOK
<1>3. restarts' = restarts + 1
  BY DEF Restart
<1> QED BY <1>1, <1>2, <1>3 DEF SameRun

\* Every step keeps it, and keeps a line without a rate without one.
LEMMA LineStep ==
    ASSUME TypeOK, LineInv, [StartNext]_svars
    PROVE  /\ LineInv'
           /\ \A p \in Serial : RateGone(p) /\ SameRun => RateGone(p)'
<1> USE DEF LineInv, RateGone
<1>1. CASE UNCHANGED lineVars
  BY <1>1 DEF lineVars
<1>2. CASE ConfigThread
  <2>1. UNCHANGED <<linePc, baud, line>>
    BY <1>2 DEF ConfigThread
  <2>2. CASE UNCHANGED com
    BY <2>1, <2>2
  <2>3. CASE NameSection
    <3>1. com' = [com EXCEPT ![devSeq].name = TRUE]
      BY <2>3 DEF NameSection
    <3> QED BY <2>1, <3>1
  <2>4. CASE \E s \in Serial : ClearSection(s)
    <3>1. PICK s \in Serial : com' = [com EXCEPT ![s] = NoCom]
      BY <2>4 DEF ClearSection
    <3>2. com' \in [Serial -> [name : BOOLEAN, rate : {"", "9600"}]]
      BY <3>1 DEF NoCom
    <3>3. \A p \in Serial : com[p].rate = "" => com'[p].rate = ""
      BY <3>1 DEF NoCom
    <3> QED BY <2>1, <3>2, <3>3
  <2> QED
    BY <1>2, <2>2, <2>3, <2>4
    DEF ConfigThread, ReadCommand, ReadBaudRate, LocalUpdate, SendRead, OtherCommand
<1>3. ASSUME NEW q \in Ports, PortThread(q)
      PROVE  /\ LineInv'
             /\ \A p \in Serial : RateGone(p) /\ SameRun => RateGone(p)'
  <2>1. CASE DefaultName(q)
    BY <2>1 DEF DefaultName, At
  <2>2. CASE DefaultRate(q)
    BY <2>2 DEF DefaultRate, At
  <2>3. CASE ConvertRate(q)
    BY <2>3 DEF ConvertRate, At
  <2>4. CASE OpenLine(q)
    BY <2>4 DEF OpenLine, At
  <2>5. CASE PortLoop(q)
    BY <2>5 DEF PortLoop, AfterStep
  <2> QED BY <1>3, <2>1, <2>2, <2>3, <2>4, <2>5 DEF PortThread
<1>4. CASE StartAgain
  <2>1. LineInv'
    BY <1>4 DEF StartAgain, Fresh, NoCom
  <2>2. ~SameRun
    BY <1>4, RestartCounts DEF StartAgain
  <2> QED BY <2>1, <2>2
<1> QED
  BY <1>1, <1>2, <1>3, <1>4
  DEF StartNext, MainStep, TimerThread, MqttTakes, svars, lineVars

\* What ConfHandoff's variables are typed with holds while the gateway starts.
LEMMA StartTyped == StartSpec => []TypeOK
<1>1. Spec => []TypeOK
  BY TypeCorrect
<1> QED BY <1>1, StartupHandoff, PTL

LEMMA LineAlways == StartSpec => []LineInv
<1>1. StartInit => LineInv
  BY LineInit
<1>2. TypeOK /\ LineInv /\ [StartNext]_svars => LineInv'
  BY LineStep
<1> QED BY <1>1, <1>2, StartTyped, PTL DEF StartSpec

\* A line that has lost its rate never gets it back in that run of the process
\* (config.c:533, device.c:741-758).
THEOREM RateStaysLost == StartSpec => RateLost
<1>1. TypeOK /\ LineInv /\ [StartNext]_svars
         => (\A p \in Serial : RateGone(p) /\ SameRun => RateGone(p)')
  BY LineStep
<1>2. TypeOK /\ LineInv /\ [StartNext]_svars
         => [\A p \in Serial : RateGone(p) /\ SameRun => RateGone(p)']_svars
  BY <1>1
<1> QED BY <1>2, StartTyped, LineAlways, PTL DEF StartSpec, RateLost
------------------------------------------------------------------------------
(***************************************************************************)
(* The variables of Startup keep their types.  Which section is being      *)
(* named has to be known for that of flyModbusConf.                        *)
(***************************************************************************)
TypeInv ==
    /\ StartTypeOK
    /\ reading = "name" => devSeq \in Serial

\* A call of main moves main on, starts threads and counts its failure.
LEMMA CallTypes ==
    ASSUME mainPc \in MainPcs, running \subseteq Threads, failures \in 0..MaxFailures,
           NEW at, NEW started \in SUBSET Threads, NEW next \in MainPcs,
           NEW failed \in MainPcs, Call(at, started, next, failed)
    PROVE  mainPc' \in MainPcs /\ running' \subseteq Threads /\ failures' \in 0..MaxFailures
  BY StartupAssumption DEF Call

LEMMA TypeMain == ASSUME TypeInv, MainStep PROVE TypeInv'
<1> USE DEF TypeInv, StartTypeOK
<1>1. /\ mainPc \in MainPcs /\ running \subseteq Threads /\ failures \in 0..MaxFailures
  OBVIOUS
<1>2. /\ {} \in SUBSET Threads /\ {"config"} \in SUBSET Threads
      /\ {"timer"} \in SUBSET Threads /\ {"mqtt"} \in SUBSET Threads
      /\ \A p \in Ports : {p} \in SUBSET Threads
  BY DEF Threads
<1> DEFINE Typed == mainPc' \in MainPcs /\ running' \subseteq Threads
                    /\ failures' \in 0..MaxFailures
<1>3. Call("sem_init", {}, "fork", "gone") => Typed
  BY <1>1, <1>2, CallTypes DEF MainPcs
<1>4. Fork => Typed
  <2>1. Call("fork", {}, "exec", "gone") => Typed
    BY <1>1, <1>2, CallTypes DEF MainPcs
  <2>2. Call("exec", {}, "shell", "gone") => Typed
    BY <1>1, <1>2, CallTypes DEF MainPcs
  <2>3. mainPc' = "configQueues" /\ UNCHANGED <<running, failures>> => Typed
    BY <1>1 DEF MainPcs
  <2> HIDE DEF Typed
  <2> QED BY <2>1, <2>2, <2>3 DEF Fork
<1>5. ConfigInit => Typed
  <2>1. Call("configQueues", {}, "connect", "deviceQueues") => Typed
    BY <1>1, <1>2, CallTypes DEF MainPcs
  <2>2. Call("connect", {}, "configThread", "gone") => Typed
    BY <1>1, <1>2, CallTypes DEF MainPcs
  <2>3. Call("configThread", {"config"}, "deviceQueues", "deviceQueues") => Typed
    BY <1>1, <1>2, CallTypes DEF MainPcs
  <2> HIDE DEF Typed
  <2> QED BY <2>1, <2>2, <2>3 DEF ConfigInit
<1>6. DeviceInit => Typed
  <2>1. Call("deviceQueues", {}, "ports", "cloudQueue") => Typed
    BY <1>1, <1>2, CallTypes DEF MainPcs
  <2>2. ASSUME NEW p \in Ports,
               Call("ports", {p}, IF Ports \subseteq running \cup {p}
                                  THEN "timerThread" ELSE "ports", "cloudQueue")
        PROVE  Typed
    BY <1>1, <1>2, <2>2, CallTypes DEF MainPcs
  <2>3. Call("timerThread", {"timer"}, "cloudQueue", "cloudQueue") => Typed
    BY <1>1, <1>2, CallTypes DEF MainPcs
  <2> HIDE DEF Typed
  <2> QED BY <2>1, <2>2, <2>3 DEF DeviceInit
<1>7. CloudInit => Typed
  <2>1. Call("cloudQueue", {}, "mqttThread", "spin") => Typed
    BY <1>1, <1>2, CallTypes DEF MainPcs
  <2>2. Call("mqttThread", {"mqtt"}, "spin", "spin") => Typed
    BY <1>1, <1>2, CallTypes DEF MainPcs
  <2> HIDE DEF Typed
  <2> QED BY <2>1, <2>2 DEF CloudInit
<1>8. Typed
  <2> HIDE DEF Typed
  <2> QED BY <1>3, <1>4, <1>5, <1>6, <1>7 DEF MainStep
<1> QED BY <1>8 DEF MainStep, fileVars, lineVars

LEMMA TypeConfigThread == ASSUME TypeInv, ConfigThread PROVE TypeInv'
<1> USE DEF TypeInv, StartTypeOK
<1>1. UNCHANGED <<forks, mainPc, running, failures, linePc, baud, line>>
  BY DEF ConfigThread, mainVars
<1>2. CASE ReadCommand
  BY <1>1, <1>2 DEF ReadCommand
<1>3. CASE NameSection
  BY <1>1, <1>3 DEF NameSection
<1>4. CASE ReadBaudRate
  BY <1>1, <1>4, StartupAssumption DEF ReadBaudRate, LocalUpdate
<1>5. CASE SendRead
  BY <1>1, <1>5 DEF SendRead
<1>6. CASE OtherCommand
  BY <1>1, <1>6 DEF OtherCommand, fileVars
<1>7. ASSUME NEW p \in Serial, ClearSection(p) PROVE TypeInv'
  <2>1. NoCom \in [name : BOOLEAN, rate : Rates]
    BY DEF NoCom, Rates
  <2> QED BY <1>1, <1>7, <2>1, StartupAssumption DEF ClearSection
<1> QED BY <1>2, <1>3, <1>4, <1>5, <1>6, <1>7 DEF ConfigThread

LEMMA TypePortThread == ASSUME TypeInv, NEW p \in Ports, PortThread(p) PROVE TypeInv'
<1> USE DEF TypeInv, StartTypeOK, At
<1>1. UNCHANGED <<forks, mainPc, running, failures, reading, devSeq, tokens>>
  BY DEF PortThread, mainVars, fileVars
<1>2. CASE DefaultName(p)
  BY <1>1, <1>2 DEF DefaultName
<1>3. CASE DefaultRate(p)
  BY <1>1, <1>3 DEF DefaultRate, Rates
<1>4. CASE ConvertRate(p)
  BY <1>1, <1>4 DEF ConvertRate
<1>5. CASE OpenLine(p)
  BY <1>1, <1>5 DEF OpenLine, Rates
<1>6. CASE PortLoop(p)
  BY <1>1, <1>6 DEF PortLoop, AfterStep
<1> QED BY <1>2, <1>3, <1>4, <1>5, <1>6 DEF PortThread

LEMMA TypeInvAlways == StartSpec => []TypeInv
<1>1. StartInit => TypeInv
  <2> SUFFICES ASSUME StartInit PROVE TypeInv
    OBVIOUS
  <2>1. /\ com = [p \in Serial |-> NoCom] /\ linePc = [p \in Serial |-> "name"]
        /\ baud = [p \in Serial |-> ""] /\ line = [p \in Serial |-> "none"]
    BY DEF StartInit, Fresh
  <2>2. NoCom \in [name : BOOLEAN, rate : Rates] /\ "" \in Rates
    BY DEF NoCom, Rates
  <2>3. /\ forks \in Forks /\ mainPc \in MainPcs /\ running \subseteq Threads
        /\ failures \in 0..MaxFailures /\ reading = "no"
        /\ devSeq \in Serial \cup {NoPort} /\ tokens \in 0..MaxTokens
    BY StartupAssumption DEF StartInit, MainPcs
  <2> QED BY <2>1, <2>2, <2>3 DEF TypeInv, StartTypeOK
<1>2. TypeInv /\ [StartNext]_svars => TypeInv'
  <2> SUFFICES ASSUME TypeInv, [StartNext]_svars PROVE TypeInv'
    OBVIOUS
  <2>1. CASE StartAgain
    <3>1. /\ com' = [p \in Serial |-> NoCom] /\ linePc' = [p \in Serial |-> "name"]
          /\ baud' = [p \in Serial |-> ""] /\ line' = [p \in Serial |-> "none"]
      BY <2>1 DEF StartAgain, Fresh
    <3>2. NoCom \in [name : BOOLEAN, rate : Rates] /\ "" \in Rates
      BY DEF NoCom, Rates
    <3>3. /\ forks' \in Forks /\ mainPc' \in MainPcs /\ running' \subseteq Threads
          /\ failures' \in 0..MaxFailures /\ reading' = "no"
          /\ devSeq' \in Serial \cup {NoPort} /\ tokens' \in 0..MaxTokens
      BY <2>1, StartupAssumption DEF StartAgain, MainPcs, TypeInv, StartTypeOK
    <3> QED BY <3>1, <3>2, <3>3 DEF TypeInv, StartTypeOK
  <2>2. CASE TimerThread \/ MqttTakes \/ UNCHANGED svars
    <3>1. UNCHANGED <<mainVars, fileVars, lineVars>>
      BY <2>2 DEF TimerThread, MqttTakes, svars
    <3> QED BY <3>1 DEF mainVars, fileVars, lineVars, TypeInv, StartTypeOK
  <2> QED BY <2>1, <2>2, TypeMain, TypeConfigThread, TypePortThread DEF StartNext
<1> QED BY <1>1, <1>2, PTL DEF StartSpec

\* The variables of Startup keep their types.
THEOREM StartTypes == StartSpec => []StartTypeOK
<1>1. TypeInv => StartTypeOK
  BY DEF TypeInv
<1> QED BY <1>1, TypeInvAlways, PTL
------------------------------------------------------------------------------
(***************************************************************************)
(* Before the first section of an interface file is read.                  *)
(***************************************************************************)

\* As long as no section has been cleared, a port past its defaults finds them
\* in flyModbusConf and has converted the default rate.
DefaultsKept ==
    tokens = MaxTokens =>
       \A p \in Serial :
          /\ linePc[p] # "name" => com[p].name
          /\ linePc[p] \notin {"name", "rate"} => com[p].rate = "9600"
          /\ linePc[p] = "open" => baud[p] = "9600"
          /\ line[p] # "failed"

LEMMA DefaultsKeptStep ==
    ASSUME TypeInv, DefaultsKept, [StartNext]_svars
    PROVE  DefaultsKept'
<1> SUFFICES ASSUME tokens' = MaxTokens
             PROVE  DefaultsKept'
  BY DEF DefaultsKept
<1> USE DEF TypeInv, StartTypeOK, DefaultsKept
<1>1. CASE MainStep \/ TimerThread \/ MqttTakes \/ UNCHANGED svars
  <2>1. UNCHANGED <<tokens, com, linePc, baud, line>>
    BY <1>1 DEF MainStep, TimerThread, MqttTakes, svars, fileVars, lineVars
  <2> QED BY <2>1
<1>2. CASE ConfigThread
  <2>1. UNCHANGED <<linePc, baud, line>>
    BY <1>2 DEF ConfigThread
  <2>2. CASE NameSection
    BY <2>1, <2>2 DEF NameSection
  <2>3. CASE ReadBaudRate \/ \E p \in Serial : ClearSection(p)
    <3>1. tokens > 0 /\ tokens' = tokens - 1
      BY <2>3 DEF ReadBaudRate, ClearSection
    <3> QED BY <3>1, StartupAssumption
  <2>4. CASE ReadCommand \/ SendRead \/ OtherCommand
    BY <2>1, <2>4 DEF ReadCommand, SendRead, OtherCommand, fileVars
  <2> QED BY <1>2, <2>2, <2>3, <2>4 DEF ConfigThread
<1>3. ASSUME NEW q \in Ports, PortThread(q) PROVE DefaultsKept'
  <2>1. UNCHANGED tokens
    BY <1>3 DEF PortThread, fileVars
  <2>2. CASE DefaultName(q)
    BY <2>1, <2>2 DEF DefaultName, At
  <2>3. CASE DefaultRate(q)
    BY <2>1, <2>3 DEF DefaultRate, At
  <2>4. CASE ConvertRate(q)
    BY <2>1, <2>4 DEF ConvertRate, At
  <2>5. CASE OpenLine(q)
    BY <2>1, <2>5 DEF OpenLine, At
  <2>6. CASE PortLoop(q)
    BY <2>1, <2>6 DEF PortLoop, AfterStep
  <2> QED BY <1>3, <2>2, <2>3, <2>4, <2>5, <2>6 DEF PortThread
<1>4. CASE StartAgain
  <2>1. /\ linePc' = [p \in Serial |-> "name"] /\ line' = [p \in Serial |-> "none"]
    BY <1>4 DEF StartAgain, Fresh
  <2> QED BY <2>1
<1> QED BY <1>1, <1>2, <1>3, <1>4 DEF StartNext

\* Whatever the order in which main, the config thread and the ports come to
\* their first steps, opening a line fails only after an interface file has
\* been read (config.c:530, device.c:741-743).
THEOREM LinesFailByFile == StartSpec => []FailsByFile
<1>1. StartInit => DefaultsKept
  <2> SUFFICES ASSUME StartInit PROVE DefaultsKept
    OBVIOUS
  <2>1. linePc = [p \in Serial |-> "name"] /\ line = [p \in Serial |-> "none"]
    BY DEF StartInit, Fresh
  <2> QED BY <2>1 DEF DefaultsKept
<1>2. TypeInv /\ DefaultsKept /\ [StartNext]_svars => DefaultsKept'
  BY DefaultsKeptStep
<1>3. TypeInv /\ DefaultsKept => FailsByFile
  BY StartupAssumption DEF TypeInv, StartTypeOK, DefaultsKept, FailsByFile
<1> QED BY <1>1, <1>2, <1>3, TypeInvAlways, PTL DEF StartSpec
------------------------------------------------------------------------------
(***************************************************************************)
(* What the lines are opened with, in the committed build.  An interface   *)
(* file may be read at any time, also while ports set up their lines with  *)
(* what it overwrites.  The argument follows the update it ends with: as   *)
(* long as that is on its way to the ports, the lines may be anything;     *)
(* when it has come, each port whose flag is its own still has to          *)
(* acknowledge it, or sets up its line with what flyModbusConf says now.   *)
(***************************************************************************)

\* A port that has an interface update to acknowledge, or is doing it.
Acking(p) == flag[p] = 1 \/ ptPc[p] \in {"clear", "store"}

\* A port has its line as flyModbusConf says, or will have without an update.
SetUp(p) ==
    \/ linePc[p] \in {"name", "rate", "atoi"}
    \/ linePc[p] = "open" /\ baud[p] = com[p].rate
    \/ linePc[p] = "run" /\ line[p] = LineOf(p)

\* No port misses the update of a file that has been read, unless the config thread
\* has lost the queue.
Announced ==
    /\ reading # "no" => cfgPc \in {"send1", "hang"}
    /\ localCmdMsgId = localId =>
          \/ Upstream
          \/ \A p \in Serial : OwnFlag(p) => Acking(p) \/ SetUp(p)

\* What the config thread overwrites it announces.
LEMMA AnnouncedConfig ==
    ASSUME TypeOK, TypeInv, Announced, ConfigThread
    PROVE  Announced'
<1> USE DEF Announced
<1>1. UNCHANGED <<linePc, baud, line>>
  BY DEF ConfigThread
<1>2. ASSUME UNCHANGED <<flag, ptPc, com, localId, tmPc, localBuf>>,
             localCmdMsgId' = localId => localCmdMsgId = localId,
             localCmdMsgId = localId /\ Upstream => Upstream',
             reading' # "no" => cfgPc' \in {"send1", "hang"}
      PROVE  Announced'
  <2>1. \A p \in Serial : (Acking(p)' <=> Acking(p)) /\ (SetUp(p)' <=> SetUp(p))
    BY <1>1, <1>2 DEF Acking, SetUp, LineOf
  <2> QED BY <1>2, <2>1
<1>3. CASE ReadCommand
  <2>1. PICK cmd \in Cmds, yml \in PublicYml :
           /\ Receive(cmd, yml)
           /\ reading' = IF cmd = 1 /\ yml # "missing" THEN "scan" ELSE "no"
    BY <1>3 DEF ReadCommand
  <2>2. reading = "no"
    BY <2>1 DEF Receive
  <2>3. /\ UNCHANGED <<flag, ptPc, localId, localCmdMsgId, localQ, tmPc, localBuf>>
        /\ reading' # "no" => cfgPc' \in {"send1", "hang"}
    BY <2>1 DEF Receive, queueVars, tmVars, portVars
  <2>4. UNCHANGED com
    BY <1>3 DEF ReadCommand
  <2>5. Upstream => Upstream'
    BY <2>2, <2>3 DEF Upstream
  <2> QED BY <1>2, <2>3, <2>4, <2>5
<1>4. CASE NameSection \/ ReadBaudRate \/ \E p \in Serial : ClearSection(p)
  <2>1. reading # "no" /\ reading' # "no" /\ UNCHANGED vars
    BY <1>4 DEF NameSection, ReadBaudRate, ClearSection
  <2> QED BY <2>1 DEF Upstream, vars, cfgVars
<1>5. CASE SendRead
  <2>1. /\ UNCHANGED <<flag, ptPc, localId, localCmdMsgId, tmPc, localBuf, com>>
        /\ reading' = "no"
    BY <1>5 DEF SendRead, SendIface, tmVars, portVars
  <2>2. localCmdMsgId = localId => Upstream'
    <3> SUFFICES ASSUME localCmdMsgId = localId PROVE Upstream'
      OBVIOUS
    <3>1. localQ' = Append(localQ, IfaceMsg) /\ localQ \in Seq(LocalMsgs)
      BY <1>5 DEF SendRead, SendIface, MsgsndLocal, TypeOK
    <3>2. Len(localQ) + 1 \in DOMAIN localQ' /\ localQ'[Len(localQ) + 1] = IfaceMsg
      BY <3>1
    <3>3. IfaceMsg.mtype = 1
      BY DEF IfaceMsg
    <3>4. \E i \in DOMAIN localQ' : localQ'[i].mtype = 1
      BY <3>2, <3>3
    <3> QED BY <3>4 DEF Upstream
  <2> QED BY <1>2, <2>1, <2>2
<1>6. CASE OtherCommand
  <2>1. UNCHANGED <<flag, ptPc, localId, tmPc, localBuf, reading, com>>
    BY <1>6 DEF OtherCommand, NextEntry, EndOfList, ScanForever, ConfWait, ParseConf,
                SendConf, ConfPost, SendMqtt, envVars, tmVars, portVars, fileVars
  <2>2. localCmdMsgId' = localId => localCmdMsgId = localId
    BY <1>6 DEF OtherCommand, NextEntry, EndOfList, ScanForever, ConfWait, ParseConf,
                SendConf, ConfPost, SendMqtt, TypeOK
  <2>3. cfgPc \notin {"send1", "hang"}
    BY <1>6 DEF OtherCommand, NextEntry, EndOfList, ScanForever, ConfWait, ParseConf,
                SendConf, ConfPost, SendMqtt
  <2>4. reading = "no" /\ reading' = "no"
    BY <2>1, <2>3
  <2>5. localQ' = localQ \/ localQ' = Append(localQ, ConfMsg(endDeviceConf))
    BY <1>6 DEF OtherCommand, NextEntry, EndOfList, ScanForever, ConfWait, ParseConf,
                SendConf, MsgsndLocal, ConfPost, SendMqtt, queueVars
  <2>6. \A i \in DOMAIN localQ : i \in DOMAIN localQ' /\ localQ'[i] = localQ[i]
    <3>1. localQ \in Seq(LocalMsgs)
      BY DEF TypeOK
    <3> QED BY <2>5, <3>1
  <2>7. Upstream => Upstream'
    BY <2>1, <2>4, <2>6 DEF Upstream
  <2> QED BY <1>2, <2>1, <2>2, <2>4, <2>7
<1> QED BY <1>3, <1>4, <1>5, <1>6 DEF ConfigThread

\* What the timer takes from the queue it hands to every port, and it never has a
\* device configuration in hand that could take the place of an update.
LEMMA AnnouncedTimer ==
    ASSUME TypeOK, NoConfInv, Oversized, Announced, TimerThread
    PROVE  Announced'
<1> USE DEF Announced
<1>1. /\ UNCHANGED <<reading, com, linePc, baud, line>>
      /\ UNCHANGED <<cfgPc, localCmdMsgId, localId, ptPc>>
  BY DEF TimerThread, fileVars, lineVars, TimerStep, Detect, TimerWait, ApplyIface,
         SetCount, ApplyConf, Tick, Reload, cfgVars, envVars, portVars
<1>2. \A p \in Serial : SetUp(p)' <=> SetUp(p)
  BY <1>1 DEF SetUp, LineOf
<1>3. CASE ApplyIface
  <2>1. \A p \in Ports : flag'[p] = 1
    BY <1>3 DEF ApplyIface
  <2>2. \A p \in Serial : Acking(p)'
    BY <2>1 DEF Acking, Serial
  <2> QED BY <1>1, <2>2
<1>4. ~ApplyConf
  BY DEF ApplyConf, NoConfInv
<1>5. CASE Detect \/ TimerWait \/ SetCount \/ Tick \/ Reload
  <2>1. \A p \in Serial : Acking(p)' <=> Acking(p)
    BY <1>1, <1>5 DEF Detect, TimerWait, SetCount, Tick, Reload, portVars, Acking
  <2>2. Upstream => Upstream'
    <3>1. CASE Detect
      <4>1. CASE Receivable(localQ, RecvBytes)
        <5>1. /\ localBuf' = Head(localQ) /\ localQ' = Tail(localQ) /\ tmPc' = "wait"
              /\ tmPc = "detect" /\ localQ \in Seq(LocalMsgs) /\ localQ # << >>
          BY <3>1, <4>1 DEF Detect, Receivable, TypeOK
        <5>2. ASSUME NEW i \in DOMAIN localQ, localQ[i].mtype = 1
              PROVE  Upstream'
          <6>1. CASE i = 1
            BY <5>1, <5>2, <6>1 DEF Upstream
          <6>2. CASE i # 1
            <7>1. i - 1 \in DOMAIN localQ' /\ localQ'[i - 1] = localQ[i]
              BY <5>1, <5>2, <6>2
            <7> QED BY <5>2, <7>1 DEF Upstream
          <6> QED BY <6>1, <6>2
        <5> QED BY <1>1, <5>1, <5>2 DEF Upstream
      <4>2. CASE ~Receivable(localQ, RecvBytes)
        BY <1>1, <3>1, <4>2 DEF Detect, Upstream
      <4> QED BY <4>1, <4>2
    <3>2. CASE TimerWait
      BY <1>1, <3>2 DEF TimerWait, Upstream, queueVars
    <3>3. CASE SetCount \/ Tick \/ Reload
      BY <1>1, <3>3 DEF SetCount, Tick, Reload, Upstream, queueVars
    <3> QED BY <1>5, <3>1, <3>2, <3>3
  <2> QED BY <1>1, <1>2, <2>1, <2>2
<1> QED BY <1>3, <1>4, <1>5 DEF TimerThread, TimerStep

\* A port that has acknowledged an update sets up its line with what it reads
\* from then on.
LEMMA AnnouncedPort ==
    ASSUME TypeOK, TypeInv, Announced, NEW q \in Ports, PortThread(q)
    PROVE  Announced'
<1> USE DEF Announced
<1>1. UNCHANGED reading
  BY DEF PortThread, fileVars
<1>2. UNCHANGED <<cfgPc, localCmdMsgId, localId, localQ, tmPc, localBuf>>
  BY DEF PortThread, DefaultName, DefaultRate, ConvertRate, OpenLine, At, PortLoop,
         PortStep, AckLoad, AckClear, AckStore, TakeConf, ConfDone, TcpUpload, RtuLoop,
         RtuNothingNew, RtuTimeout, RtuUpload, vars, envVars, cfgVars, tmVars, queueVars
<1>3. Upstream' <=> Upstream
  BY <1>1, <1>2 DEF Upstream
<1>4. ASSUME NEW p \in Serial, OwnFlag(p), Acking(p) \/ SetUp(p)
      PROVE  Acking(p)' \/ SetUp(p)'
  <2> USE DEF TypeInv, StartTypeOK
  <2>1. CASE UNCHANGED <<flag, ptPc>>
    <3>1. Acking(p) => Acking(p)'
      BY <2>1 DEF Acking
    <3>2. SetUp(p) => SetUp(p)'
      <4>1. CASE DefaultName(q)
        BY <4>1 DEF DefaultName, At, SetUp, LineOf
      <4>2. CASE DefaultRate(q)
        BY <4>2 DEF DefaultRate, At, SetUp, LineOf
      <4>3. CASE ConvertRate(q)
        BY <4>3 DEF ConvertRate, At, SetUp, LineOf
      <4>4. CASE OpenLine(q)
        BY <4>4 DEF OpenLine, At, SetUp, LineOf
      <4>5. CASE PortLoop(q)
        BY <4>5 DEF PortLoop, AfterStep, SetUp, LineOf
      <4> QED BY <4>1, <4>2, <4>3, <4>4, <4>5 DEF PortThread
    <3> QED BY <1>4, <3>1, <3>2
  <2>2. CASE PortLoop(q)
    <3>1. /\ UNCHANGED <<com, baud, line>>
          /\ linePc[q] = "run" /\ q \in Serial => linePc'[q] = AfterStep(q)
          /\ p # q => linePc'[p] = linePc[p]
      BY <2>2 DEF PortLoop
    <3>2. CASE AckStore(q)
      <4>1. CASE p = q
        <5>1. linePc'[p] = "atoi"
          BY <2>2, <3>2, <4>1 DEF PortLoop, AckStore, AfterStep
        <5> QED BY <5>1 DEF SetUp
      <4>2. CASE p # q
        BY <1>4, <3>1, <3>2, <4>2 DEF AckStore, Acking, SetUp, LineOf, Serial, TypeOK
      <4> QED BY <4>1, <4>2
    <3>3. CASE ~AckStore(q)
      <4>1. Acking(p) => Acking(p)'
        <5>0. p \in Ports /\ (q # p => Cleared(q) # p)
          BY <1>4 DEF Serial, OwnFlag
        <5>1. CASE AckLoad(q)
          BY <5>0, <5>1 DEF AckLoad, Acking, TypeOK
        <5>2. CASE AckClear(q)
          BY <5>0, <5>2 DEF AckClear, Acking, TypeOK
        <5>3. CASE TakeConf(q)
          BY <5>0, <5>3 DEF TakeConf, Acking, TypeOK
        <5>4. CASE ConfDone(q)
          BY <5>0, <5>4 DEF ConfDone, Acking, TypeOK
        <5>5. CASE q = "Tcp" /\ TcpUpload
          BY <5>0, <5>5 DEF TcpUpload, Acking, TypeOK
        <5>6. CASE q = "Rtu" /\ RtuLoop
          BY <5>0, <5>6 DEF RtuLoop, RtuNothingNew, RtuTimeout, RtuUpload, Acking, TypeOK
        <5> QED BY <2>2, <3>3, <5>1, <5>2, <5>3, <5>4, <5>5, <5>6 DEF PortLoop, PortStep
      <4>2. SetUp(p) => SetUp(p)'
        BY <2>2, <3>1 DEF PortLoop, AfterStep, SetUp, LineOf
      <4> QED BY <1>4, <4>1, <4>2
    <3> QED BY <3>2, <3>3
  <2>3. UNCHANGED <<flag, ptPc>> \/ PortLoop(q)
    BY DEF PortThread, DefaultName, DefaultRate, ConvertRate, OpenLine, At, vars, portVars
  <2> QED BY <2>1, <2>2, <2>3
<1> QED BY <1>1, <1>2, <1>3, <1>4

LEMMA AnnouncedStep ==
    ASSUME TypeOK, TypeInv, NoConfInv, Oversized, Announced, [StartNext]_svars
    PROVE  Announced'
<1>1. CASE MainStep \/ MqttTakes \/ UNCHANGED svars
  <2>1. /\ UNCHANGED <<cfgPc, localCmdMsgId, localId, localQ, tmPc, localBuf, flag, ptPc>>
        /\ UNCHANGED <<reading, com, linePc, baud, line>>
    BY <1>1 DEF MainStep, MqttTakes, CloudTake, svars, vars, envVars, cfgVars, tmVars,
                queueVars, portVars, fileVars, lineVars
  <2>2. /\ Upstream' <=> Upstream
        /\ \A p \in Serial : (Acking(p)' <=> Acking(p)) /\ (SetUp(p)' <=> SetUp(p))
    BY <2>1 DEF Upstream, Acking, SetUp, LineOf
  <2> QED BY <2>1, <2>2 DEF Announced
<1>2. CASE StartAgain
  <2>1. reading' = "no" /\ \A p \in Serial : linePc'[p] = "name"
    BY <1>2 DEF StartAgain, Fresh
  <2> QED BY <2>1 DEF Announced, SetUp
<1> QED
  BY <1>1, <1>2, AnnouncedConfig, AnnouncedTimer, AnnouncedPort DEF StartNext

\* Nothing protects flyModbusConf, and yet, when no update is on its way, the line
\* of every port whose flag is its own and that is at rest has been opened with
\* what is in it (config.c:526-665, device.c:747-758).  In the gateway that is
\* Rtu1, and Rtu2 until its first update, after which it never rests.
THEOREM LinesFollowFile == StartSpec => []LinesAsRead
<1>1. StartInit => Announced
  <2> SUFFICES ASSUME StartInit PROVE Announced
    OBVIOUS
  <2>1. reading = "no" /\ \A p \in Serial : linePc[p] = "name"
    BY DEF StartInit, Fresh
  <2> QED BY <2>1 DEF Announced, SetUp
<1>2. TypeOK /\ TypeInv /\ NoConfInv /\ (Oversized => Announced) /\ [StartNext]_svars
         => (Oversized => Announced)'
  BY AnnouncedStep DEF Oversized
<1>3. (Oversized => Announced) => LinesAsRead
  BY DEF LinesAsRead, Announced, AtRest, Acking, SetUp
<1>4. StartSpec => []NoConfInv
  BY NoConfAlways, StartupHandoff, PTL
<1> QED BY <1>1, <1>2, <1>3, <1>4, StartTyped, TypeInvAlways, PTL DEF StartSpec
==============================================================================
