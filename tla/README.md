# A verification of flyGateway in TLA+

flyGateway collects data of heating plants over Modbus and uploads it to a server
over MQTT. This directory holds TLA+ modules that model its threads, message queues,
parsers and startup, configurations with which TLC checks them, and theorems checked
by TLAPS. All paths below are relative to the repository; `PROJECT.json` maps each
definition to the lines it was translated from.

## 1. Inventory

### The parts and their state

| part | code | state it keeps | operations | modules |
|---|---|---|---|---|
| Config thread | `config.c` 136-149, 470-807 | `endDeviceConf`, `flyModbusConf`, `flyMqttCong`, one local and one cloud message buffer, the two queue identifiers | receive a command (1 interfaces, 2 end devices, 3 MQTT), read `config/public.yml` and the device files it lists, send to a queue | `ConfHandoff` |
| Parser of device files | `config.c` 171-385 | `endDeviceReadState1`, `pDataTempUnit`, `DataTempUnit` | section, item, field, end of file | `DeviceConf` |
| Parsers of `public.yml` | `config.c` 151-169, 388-470 | `flyModbusConf`, `flyMqttCong` | store a setting | `Startup`, `ConfigFiles` |
| Timer thread | `device.c` 382-437, 965-995 | `localCmdMsg`, `tempConfig`, `localConfigCnt`, five `...NewConf` and five `...TimeOut` flags | each second: take one message from the local queue, raise flags, test the count | `ConfHandoff` |
| Port threads | `device.c` 737-962 | one Modbus context each | set up the line; poll the flag; acknowledge, connect, read, upload | `ConfHandoff`, `Startup` |
| Reading and upload | `device.c` 515-735 | the JSON text, `cloudCmdMsg` | read each unit, fill in the text, send it | `Upload` |
| Cloud thread | `cloud.c` | `cloudCmdMsg`, `mqttConfigState`, the handle of libmosquitto | take a message: connect to a broker, or publish | `Cloud` |
| Disconnect callback | `cloud.c` 108-124 | the same `cloudCmdMsg` | on the network thread: forget the message's type, or reconnect | `Cloud` |
| Startup | `main.c`, `configInit`, `deviceInit`, `cloudInit` | `deviceConfSem` | make the semaphore, the queues, the socket, the threads | `Startup` |

### How they interact

```
 configuration program --socket--> config thread --local queue--> timer thread
                                       |                              | flags, count, tempConfig
                                       | cloud queue                  v
                                       +-------> cloud thread <-- five port threads <-> Modbus
                                                   |  ^ cloudCmdMsg          cloud queue
                                                   v  |
                                        libmosquitto's network thread <-> broker
```

* The queues are System V queues. They live in the kernel, are bounded in bytes and
  survive the process.
* `deviceConfSem` (one, `main.c:17`) is a permit that is handed on: the config thread
  holds it while it parses a device file and sends the result; the timer takes it for
  every message; a device configuration is given back by the port it is for, an
  interface update by the timer when `localConfigCnt` has come down to zero.
* Flags, count and `tempConfig` are plain variables shared by six threads;
  `flyModbusConf` is written by the config thread and by the ports it belongs to; the
  fields of `cloudCmdMsg` in `cloud.c` are shared by two threads, and so is the
  `cloudCmdMsg` of `device.c`.

### What is hard, and what makes each part correct

| part | hard behaviour | properties |
|---|---|---|
| Config and timer | a message longer than the receiver's buffer; a buffer overflow; sleeping in `msgsnd` with the permit; files that are absent or malformed; queues that survive a restart | `ConfStaysQueued`, `NoConfReachesPort`, `ConfUploaded` |
| Semaphore | passed between threads, lost on some paths, posted by an unprotected counter, posted once too often when a port acknowledges an update twice | `OnePermit`, `OneUntilExtra`, `UpdateExclusive`, `ImplementsToken`, `ImplementsFairToken`, `PermitLostForever` |
| Ports | unprotected flags and decrements, a flag cleared by another thread, a pointer into a buffer that is reused | `AckedEventually`, `UpdateReachesPort`, `OwnConf`, `OwnUntilExtra` |
| Parsers | state that survives a file, an index of -1, texts copied without their end, settings refused | `EndedAsGiven`, `OnlyNamed`, `WholeFile`, `CrashCause`, `AddressAsGiven`, `NewParameters` |
| Reading and upload | a message two threads share, a division by a scale of 0 | `WholeText`, `UploadsAsOneStep`, `DiesTogether` |
| Cloud | a callback on another thread that decides by a shared buffer; a join of a thread that may have forgotten to end | `OneLoop`, `AddrKept`, `NothingLost`, `JoinStuckForever`, `QuietTakeover`, `NewBrokerUsed` |
| Both halves | a broker that never resolves stops the ports, and with them the permit | `ImplementsCloud`, `JamForever`, `UploadEnds` |
| Startup | no process reaches the threads; a thread that cannot be created; lines opened while a file is read | `StartsUnlessFails`, `TimerHasPorts`, `FailsByFile`, `LinesAsRead`, `RateLost` |

`PROJECT.json` lists every hazard at its line, with the properties that cover it.

### A remark on what is asked

As committed, `main` never starts a thread (finding 4). Every module but `Startup`
therefore answers what the threads do when they run, as behind the two branches of the
`fork`. `StartupHandoff` is the bridge: whatever `Startup` does is something
`ConfHandoff` may do.

## 2. Modules

```
      SysVQueue   CloudMessages      (used by ConfHandoff; Cloud uses the second)
              \      /
             ConfHandoff  ----------+---------+------------+
                 |                  |         |            |
         ConfHandoffPermit       Startup   Upload       Gateway -- INSTANCE Cloud
                 |
           PermitHistory -- INSTANCE PermitToken

         DeviceFile  -->  DeviceConf  -->  ConfigFiles
```

* **`SysVQueue`**: the System V calls as the program uses them: room for a message,
  and what `msgrcv` without `MSG_NOERROR` does with one that is too long. External.
* **`CloudMessages`**: the messages of the cloud queue.
* **`ConfHandoff`**: the core. The config thread, the timer, the five ports and the
  two queues. One action per call that another thread can observe.
* **`PermitToken`**: the abstract specification of the semaphore: one permit, held by
  the config thread, the timer, a port with a device configuration or an interface
  update, free, or lost, until one is posted that nobody was owed (`Extra`).
* **`ConfHandoffPermit`**: who has the permit of `ConfHandoff`, `OnePermit`, `OwnConf`.
* **`PermitHistory`**: `ConfHandoff` with a memory of its interface updates (`owed`,
  `acked`, `again`), which no step depends on; the refinement mapping to `PermitToken`
  (`PermitHolder`) and what holds of the permit for every set of ports. An update has the
  permit from the timer until the timer posts it; it is lost when the timer waits with
  the next message in hand, or the count has passed zero. A port that acknowledges an
  update a second time, as the Rtu3 thread does in every loop, can bring the count to
  zero too early or again (`device.c:902`, `984`): then there is a permit too many.
* **`Cloud`**: the MQTT thread, the callback and the network thread on one handle.
* **`Gateway`**: `ConfHandoff` and `Cloud` (`INSTANCE`) on one cloud queue, in one
  process. What takes messages from the queue is `mqttThreadFunc` here.
* **`DeviceFile`**: what a device file says, whoever reads it: the reference.
* **`DeviceConf`**: the parser of device files at work on a `DeviceFile`.
* **`ConfigFiles`**: device files and MQTT sections one after the other.
* **`Startup`**: `main` call by call, the threads starting, the serial lines.
* **`Upload`**: the upload of a port step by step, with what it shares.
* **`MC...`**: the values TLC needs.
* **`ConfHandoffProofs`**, **`ConfHandoffPermitProofs`**, **`PermitHistoryProofs`**,
  **`CloudProofs`**, **`GatewayProofs`**, **`DeviceConfProofs`**, **`StartupProofs`**,
  **`UploadProofs`**: theorems.

### ConfHandoff against the code

`cfgPc`, `tmPc` and `ptPc` are the threads' positions; `localQ` and `cloudQ` the
queues; `sem` the semaphore; `localBuf` the timer's buffer; `cnt` is
`localConfigCnt`; `flag[p]` the `...NewConf` of a port.

| code | actions |
|---|---|
| `configThreadFunc`, command and `public.yml` | `Receive` (an absent file sends nothing, a malformed one is scanned for ever: the result of `yaml_parser_scan` is ignored) |
| its list of device files | `NextEntry`, `EndOfList`, `ScanForever` |
| one device file | `ConfWait`, `ParseConf`, `SendConf`, `ConfPost` |
| commands 1 and 3 | `SendIface`, `SendMqtt` |
| `devMsgDectect` | `Detect`, `TimerWait`, `ApplyIface` then `SetCount`, or `ApplyConf` |
| the rest of the timer's loop | `Tick`, `Reload` |
| a port's interface update | `AckLoad`, `AckClear`, `AckStore` |
| a port's device configuration | `TakeConf`, `TcpUpload`, `ConfDone` |
| the Rtu thread's timeout | `RtuNothingNew`, `RtuTimeout`, `RtuUpload` |
| a kill and a new start | `Restart` (keeps the queues) |

The sizes are those of the committed build (the `.o` files): a configuration is 3344
bytes, the text of a message 2048. Two facts follow and are in the model. First,
`msgrcv` never returns a device configuration. Second, the copy into the config
thread's buffer (`config.c:677`) runs over the variable that follows it in the object
file, the identifier of the local queue. Unless that identifier was 0, the next send
goes to another queue, sleeps there, or fails and the process exits. C leaves this
undefined; the model has the outcomes of the committed objects. (Identifier 0 goes to
the first queue made after a boot, which `configInit` makes the local one; the model
assumes that it is not the cloud queue's.)

A decrement of `localConfigCnt` is a load and a store with the store of the flag in
between, as in the committed objects. The five stores of `ApplyIface` are one step, as
no port reads another's flag.

What is abstracted: of a device file only the port it selects, or that it is absent or
malformed; of the interface settings everything (see `Startup`); of the JSON text its
length. The timeouts of the ports other than Rtu are not kept, as these threads only
print.

### Upload against the code

What `ConfHandoff` has as one step, the upload of the Rtu or the Tcp thread, is here
`Begin`, `ReadType`, `ReadScale` (one unit stands for all), `ClearMsg`, `SetType`,
`CopyText`, `Msgsnd` and `Send`, so that the other upload and the timer come in
between. `upPc` is the place in `deviceStateUpdate`, `call` what the kernel has copied
at the call of `msgsnd`: the type, the text of the buffer and the length, which is that
of the caller's own text. `shared` and `sent` remember, of the message sent last,
whether the other port had the buffer in use meanwhile. No context is ever set (`initModbusRtuParam` and
`initModbusTcpConnect` assign their own parameter), so every read fails and the text is
either the template's or made from what the stack held, and stands under the name of the
port that made it.

### Cloud against the code

`pc` is the position of `mqttThreadFunc`; `cloudCmdMsg` the shared buffer; `host`,
`link`, `closing`, `bye` the state of the handle; `loop` the network thread.
`ClearMsg`, `ReceiveMsg`, `Branch`, `Disconnect`, `LoopStop`, `ConnectAsync`,
`LoopStart`, `Publish` are the thread's calls in their order. `Callback`,
`CallbackReconnect`, `CallbackConnected` are `mqtt_disconnect_callback`.

The network thread is external and follows the `libmosquitto.so.1` in `lib/`: a
reconnect resets the state of the handle before it tries anything; after an error the
thread ends only if the state is "disconnecting", else it sleeps and reconnects; the
callback runs on that thread; after a DISCONNECT packet has been written it runs with
the lock of that packet, which a reconnect needs too. Not modelled: protocol errors by
the broker, which end the network thread.

The type of the message is read (`Branch`) after it was received (`ReceiveMsg`), and
the callback may clear it in between; then the new broker is silently passed over.

### DeviceConf and ConfigFiles against the code

`DeviceFile` learns a file entry by entry: `given`, `named`, `ended` are what it means.
`DeviceConf` follows with the parser's static variables: `OnSection` and `OnItem` are
the key scalars of `configForEndDeviceUpdate`, `OnField` is `parseConfigParam`, `Open`,
`End` and `Absent` the `fopen` and the copy into the message, which as committed runs
over the parser's variables (`CopyConf`). The constant `Builds` has the committed build
and one whose message is large enough, so that a reader sees what the overflow hides.
`ConfigFiles` puts `ReadMqtt` between the files: a whole command 3, with the `memcpy` of
`configForMqttUpdate` as what it does to a text (`Copied`).

### Startup against the code

`mainPc` is the call `main` is at; each `Call` succeeds or fails, and a failure returns
from that `...Init` only. `running` are the threads created, whose steps are those of
`ConfHandoff`. `com` is what `flyModbusConf` has of a serial port, `linePc` where its
thread is between writing its defaults and opening the line. A line counts as open when
`modbus_new_rtu` has made a context for it (`device.c:441`): that context is assigned to
the parameter of the function, so no port ever connects it. An interface file is read
token by token (`ClearSection`, `NameSection`, `ReadBaudRate`) while the ports go on.

## 3. What is checked

| run | specification and bounds | shows |
|---|---|---|
| `AsBuilt` | `Spec`; ports Rtu3, Tcp; commands 1, 2; every kind of file; 4 inputs, 1 restart; queue identifier 0 or 1 | no device configuration gets through, they stay queued over a restart, the queue fills up, a lost permit stays lost |
| `Fits` | `Spec`; all five ports; commands 2, 3; files for three ports, for none, absent and malformed ones; 4 inputs, 1 restart; *messages of 4096 bytes*, queue of one configuration | without interface updates the permit is never doubled, and a port finds another's configuration only while the timer waits |
| `Permit` | `HFairSpec`; ports Rtu3, Tcp; commands 1, 2; device files for either port, for none, absent ones; 3 inputs, 1 restart; *messages of 4096 bytes*, queue of one configuration | until a permit too many is posted there is one, passed on as `PermitToken` allows, and in the end it is or it is lost; an update keeps it until all ports have acknowledged it, and the Tcp port does; a port finds another's configuration only while the timer waits |
| `Upload` | `UploadSpec`; ports Rtu, Tcp; command 2; 3 inputs, 1 restart; *messages of 4096 bytes*, queue of one configuration | step by step an upload is the one step of `ConfHandoff`; whose text is sent with what length; how the process ends in `msgsnd` |
| `Cloud` | `FairSpec`; 2 brokers, one never resolves; queue of 3 messages, 3 faults, 1 restart, failing library calls | one network thread, a valid address, a stuck join stays stuck; without faults nothing is lost and every broker received is connected to |
| `Gateway` | `GFairSpec`; ports Rtu, Tcp; 2 brokers, one never resolves; commands 2, 3; 3 inputs, 1 fault, 1 restart; *messages of 4096 bytes* | the two halves fit together; how a broker that does not resolve stops the configuration of devices; short of that uploads end |
| `DeviceFiles` | `FilesSpec`; 2 sections, 2 items, 2 fields; 3 files; both builds; 3 addresses | what a device file configures and which address is sent, given the files before |
| `Startup` | `StartFairSpec`; ports Rtu1, Tcp; commands 1, 3; 2 inputs, 3 tokens, 1 failure, 1 restart; with and without the fork | the timer has its ports; how a serial line is opened, lost and, unless lost, kept as `flyModbusConf` says |
| `LostUpdate` | violation: `UpdateReachesPort` | finding 1 |
| `NeverUploaded` | violation: `ConfUploaded` | finding 2 |
| `CloudLost` | violation: `NewBrokerUsed`, 1 fault | finding 3 |
| `OldParameters` | violation: `NewParameters`, without the fork | finding 4 |

The runs with messages of 4096 bytes answer a what-if question: the message is large
enough for a configuration, everything else is as committed. Without that the handling
of device configurations in `device.c` is never exercised (`NoConfReachesPort`).
The permit is not exclusive for ever: with Rtu2 or Rtu3 the post of `device.c:987` comes
when the count, reloaded or not, reaches zero once too often, which `Permit` reaches.
What holds of it nevertheless is stated up to that post (`OneUntilExtra`,
`OwnUntilExtra`), or up to the second acknowledgement that leads to it
(`UpdateExclusive`), and the refinement has it as a step of its own (`Extra`).

### The findings

1. `modbusRtu2ThreadFunc` clears the flag of the Rtu thread (`device.c:856`), whose
   update is lost; its own flag stays raised.
2. A device configuration is longer than the buffer it is received into
   (`device.c:386`), so it is never received, and it blocks the local queue.
3. The disconnect callback tells the program's own disconnect from a lost connection by
   a field that both threads write (`cloud.c:110`). After a loss at the wrong moment
   `mosquitto_loop_stop` never returns and no message is taken any more.
4. `configForLocalUpdate` returns when anchor and value are both given
   (`config.c:393`), and it is always given both: no setting of an interface file is ever
   stored, although the section is cleared before. The port is initialised with what is
   left, not with the new parameters its comment speaks of (`device.c:751`).

`Startup` shows one more, as the first part of `StartsUnlessFails`: `main` forks and
neither branch goes on (`main.c:22-32`), the parent exits and the child becomes a shell,
so that as committed no thread is ever started.

Passing properties that describe what goes wrong, rather than that nothing does:
`ConfStaysQueued`, `PermitLostForever`, `JoinStuckForever`, `JamForever`, `RateLost`
(a bad state is never left), `CrashCause`, `DiesTogether`, `FailsByFile` (the only way
into it).

### Bounds, and why they are enough

* *Ports.* Tcp clears its own flag and Rtu3 none: with the two a decrement can get lost,
  the count can pass zero, and it can come to zero again, which is why `AsBuilt` and
  `Permit` have them. Rtu2, which clears another's flag, gets interface updates in
  `LostUpdate` only; to the count it is a port that clears none, as Rtu3. `Fits`, in
  which there are no updates, has all five. `Upload` and `Gateway` have the two ports
  that upload. `Startup` has Rtu1, the one serial port that keeps its line up to date in
  the gateway: Rtu2 clears the flag of Rtu and never comes to rest itself. Two serial
  ports do not interact but through the count. The count starts at the number of ports,
  as in the code. What is proved holds for all five.
* *Inputs.* Three are enough for an interface update to meet a device configuration in
  either order, for an update behind another, and for two configurations in a row.
* *`QBytes`.* Lowered so that one to three messages fill a queue, which takes five
  configurations at the kernel's default. In `Permit` one configuration fills it, so that
  the config thread really comes to sleep in `msgsnd` with the permit; with room for two
  it never does within the inputs, and the fair refinement would hold for that reason
  alone.
* *`CntReload`.* 2 or 4 for the code's 255. In `AsBuilt` and `Permit` it is 2, and Rtu3
  brings the reloaded count down to zero within the run, as it does in 255 loops: the
  permit too many of `Permit` comes about in that way too.
* *`cnt`.* Every negative value is -1: the code only compares with zero, and no
  increment exists.
* *`MaxSem`.* Bounds the posts nobody waited for; every post beyond two would only
  repeat what the second shows.
* *Faults in Cloud.* The shortest way to a stuck join takes one fault; three allow a
  loss during a reconnect during an outage.
* *Files.* Three device files: one that leaves something behind, one that passes it on
  and one that meets it. Two sections with an item name in common, two fields of which
  one ends the item: the table's size matters to no step.
* *Addresses.* One and two characters: a shorter text over a longer one, and two of one
  length.
* *Tokens.* Three sections or settings per process, in one file or in two: a section
  cleared under an open port, given a rate, and cleared again.
* *`ZeroScale`.* Empty in `Upload`: the files give no Scale of 0, so that every death by
  division there is the timer's doing.

Deadlock checking is off (`CHECK_DEADLOCK FALSE`) where the system really can stop: a
permit that is lost (the timer then waits for it for ever), a process that has exited,
an input that has ended. Every run has one of these.

### Fairness

`Fairness` in `ConfHandoff` is weak for each thread: the kernel schedules all of them,
and each polls in an endless loop. It is strong for one action, the `msgsnd` of the Tcp
thread: sleeping senders are woken in the order they came, so the uploads of the Rtu
thread cannot take every place that becomes free. `CloudTake` is weakly fair there,
which stands for a cloud thread that works; `Gateway` drops that assumption and has the
fairness of `mqttThreadFunc` and the network thread instead. In `Cloud` both threads
are weakly fair, and an outage ends. In `Startup` only `main` is fair. No input,
restart or fault is.

## 4. What is proved

The named assumptions of the modules (`HandoffAssumption`, `CloudAssumption`,
`GatewayAssumption`, `FileAssumption`, `SpillAssumption`, `MqttAssumption`,
`StartupAssumption`, `UploadAssumption`) are all that is assumed of the constants. The theorems hold for
every size of the structures and queues, every bound and every set of ports that contains
Tcp (and Rtu, in `Upload` and `Gateway`), the gateway's five included. `DeviceOnly` says
that no interface update is commanded; it is a hypothesis of the few theorems that name
it.

| theorem | statement | argument |
|---|---|---|
| `TypeCorrect` | `Spec => []TypeOK` | `TypeOK` is inductive |
| `NoConfEverReachesPort` | `Spec => []NoConfReachesPort` | `NoConfInv` |
| `ConfNeverLeavesQueue` | `Spec => ConfStaysQueued` | one step: a receive takes the head only, and the head is too long when a configuration is there |
| `LostPermitStaysLost` | `Spec => PermitLostForever` | `PermitLost` itself is the invariant of a run |
| `PermitExclusive`, `ConfOfItsOwn` | `DeviceOnly /\ Spec` implies `[]OnePermit` and `[]OwnConf` | `NoIface`, `PermitInv`: the timer cannot pass its `sem_wait` while a port has the permit |
| `OnePermitUntilExtra` | `HSpec => []OneUntilExtra` | `OneHas` |
| `UpdatesExclusive` | `HSpec => []UpdateExclusive` | `OneHas`, `NoneTwice` |
| `ConfOfItsOwnUntilExtra` | `HSpec => []OwnUntilExtra` | `OwnConfStep`, from `OnePermit` |
| `UpdatesToken` | `HSpec => ImplementsToken` | `OneHas` turns the threads' positions into the value of `PermitHolder` (`HolderIs`); then each action is a step of `PermitToken` or a stutter |
| `CloudTypes`, `OneNetworkThread`, `AddressSurvives` | `TypeOK`, `OneLoop`, `AddrKept` | `Inv` of `CloudProofs` |
| `OnlyFaultsLose` | `Spec => []NothingLost` of `Cloud` | `Quiet` |
| `StuckJoinStays` | `Spec => JoinStuckForever` | only the thread that is stuck could set "disconnecting" again |
| `GatewayHandoff`, `GatewayCloud` | `GSpec` implies `ConfHandoff`'s `Spec` and `ImplementsCloud` | every step of the gateway is one of each, or none |
| `JamStays` | `DeviceOnly /\ GSpec => JamForever` | a queue without room has none after another message; the permit stays with the sleeper, and no update is there to post it |
| `NoRoomAfterAppend` | a message more takes room away | the least position at which the sum of the bytes could be smaller |
| `ParserTypes`, `UnitsAsGiven`, `UnitsOnlyNamed`, `ConfIsFile`, `CrashOnlyBeforeUnits` | `TypeOK`, `EndedAsGiven`, `OnlyNamed`, `WholeFile`, `CrashCause` of `DeviceConf` | `Inv` of `DeviceConfProofs` |
| `FilesAreDeviceConf` | `FilesSpec => Spec` | an MQTT section leaves the parser of device files alone |
| `AddressIsGiven` | `FilesSpec => []AddressAsGiven` | `AddrInv` |
| `StartupHandoff` | `StartSpec => Spec` of `ConfHandoff` | every step of `Startup` is one of `ConfHandoff` or a stutter |
| `TimerHasItsPorts` | `StartSpec => []TimerHasPorts` | `PortsFirst` |
| `StartTypes` | `StartSpec => []StartTypeOK` | `TypeInv` |
| `RateStaysLost` | `StartSpec => RateLost` | `LineInv` |
| `LinesFailByFile` | `StartSpec => []FailsByFile` | `DefaultsKept` |
| `LinesFollowFile` | `StartSpec => []LinesAsRead` | `Announced`, `NoConfInv` |
| `UploadIsOneStep` | `UploadSpec => UploadsAsOneStep` | every step of `Upload` is one of `ConfHandoff` or a stutter |
| `UploadTypes`, `DiesOnlyTogether`, `TextWhole` | `UploadTypeOK`, `DiesTogether`, `WholeText` | `UploadInv`, `Untyped`, `Whole` |

The strengthenings, and why they are needed:

* `NoConfInv`: `NoConfReachesPort` is not inductive. A flag is raised from the timer's
  buffer, so the buffer must hold no configuration either; that follows from
  `Receivable` when `ConfBytes > TextBytes`.
* `NoIface` says that nothing of an interface update exists when none is commanded, so
  the count stays at its start and the timer never posts. `PermitInv` adds to
  `OnePermit` that a port at work has no second configuration flagged; without it a
  port that posts might keep the permit.
* `OneHas`: until there is a permit too many, `OnePermit` holds, a port has the permit
  for one thing at a time, and while an update is owed its permit no thread has one and
  none is free. The timer may then post for the update without making a second.
* `NoneTwice`: as long as no port has acknowledged an update twice, the timer comes to its
  post only when all ports have acknowledged it. It rests on `CountCovers`: the count is
  unprotected, so a decrement may be lost, but neither the count nor any value a port has
  loaded from it is ever below the number of ports that still have to acknowledge. A
  count of zero therefore means that all of them have.
* `Inv` of `CloudProofs` adds to `OneLoop` that no network thread exists before
  `mqttConfigState` is set and that a buffer of type 1 holds an address: this connects
  the branch the thread takes to the state it finds when it arrives at
  `mosquitto_connect_async`.
* `Inv` of `DeviceConfProofs` ties the parser's section, pointer and buffer to the entry
  the file is at (`InSection`, `AtUnit`, `Selected`), with what may be left of an
  earlier file (`Clean`, `WildCause`).
* `AddrInv`: the field holds a text as long as the longest one given that begins with
  the last one given.
* `LineInv`: a rate anywhere, in `flyModbusConf`, converted or on a line, is the default's
  or none, and a port that still has its defaults to write has opened nothing.
* `CountDead`, a part of `PermitLost`, is the strengthening for the count: a count that
  is not zero now may still come back to zero through a decrement under way.
* `Quiet`: before the first fault the network thread runs on a socket to the broker
  configured last, leaves its loop only while it is joined, and the buffer holds the
  address the callback looks for from `mosquitto_disconnect` until the callback has run.
  `NothingLost` alone says nothing of that window.
* `DefaultsKept`: until a file is read, a section is as the port's thread has written it,
  name first, so each position of the thread knows what is there.
* `Announced`: unless an update is in the file being read, in the queue or in the timer's
  hands (`Upstream`), every port whose flag is its own either still has to acknowledge one
  or has, or will open, its line with what is in its section now (`SetUp`, `LineOf`). When
  the port is at rest, that leaves the open line. That no device configuration takes the
  place of an update in the flag is `NoConfInv`.
* `Untyped`: the message has no type only while a port is between clearing it and giving
  it one, or while no port is on its way from there to `msgsnd`.
* `Whole`: while a port has `cloudCmdMsg` to itself, the buffer holds what it has put there,
  and so does the call it makes with it.

What the proofs corrected in the model:

* The start and the uploads went on in a process that had exited. No property
  was violated by it within the bounds, but steps of the invariants could not be proved.
  They now need `up`.
* A timer that waits for the permit with a message in hand no longer looks at the count
  (`device.c:394`), so an update under way will never be posted. `PermitLost` now counts
  this state as lost, and with it the refinement holds with interface updates too.
* The exclusive permit was first proved under the hypothesis that every port clears its
  own flag, which the gateway's Rtu2 and Rtu3 do not meet. What the hypothesis excluded
  is now in `PermitHistory`, and the theorems need none.
* The config thread asleep in `msgsnd` on a full local queue has the permit, but nobody
  can wake it (`config.c:678`). `ImplementsFairToken` held only because the queue of its
  run never filled; the permit of a jammed config thread is now lost, as it should be.

Only model-checked: the liveness properties `AckedEventually`, `ImplementsFairToken`,
`QuietTakeover`, `UploadEnds` and `StartsUnlessFails`, as liveness under fairness is out
of the prover's reach (the first part of `StartsUnlessFails` is an invariant, and not
proved either). Every other invariant, action property and refinement that a passing run
checks is a theorem; those of `OnePermit`, `OwnConf` and `JamForever` are under
`DeviceOnly`, which their runs meet. The violated properties have a counterexample and
need no proof.

## 5. Not modelled

* The texts of a device file that describe the device (protocol, port, address) beyond
  the port they select, `MQTT_PORT` and the settings of the network interfaces: each is
  one assignment, or refused by the test of `config.c:393`.
* Names and values of 16 characters and more, which overrun buffers on the stack: what
  lies behind them is the compiler's choice.
* Register addresses, values, word order and the JSON text: no context is ever set, so
  no register is ever read; a model of the conversions would describe code that only
  ever sees what the stack held. In `Upload` that is a text under the port's name.
* Memory: the trees `cJSON_free` leaves behind and the contexts of `initModbusTcpConnect`.
* What happens when the configuration program closes the socket: `recv` then returns 0
  for ever, which in the model is a socket that delivers nothing more.
* The vendored libraries and their documentation, terminal output, the line settings of
  the serial ports other than the rate, and the 4G start script.

## 6. Running it

```
tlasany ConfHandoff.tla
tlc -workers 2 -config Permit.cfg MCPermit
tlapm ConfHandoffProofs.tla
```

`PROJECT.json` names the module of each configuration. With two workers `Startup`,
`Permit`, `Upload` and `Gateway` take one to two minutes each, the others less.
Definitions whose comment begins with "Mutant:" are plausible slips of the code;
`PROJECT.json` names the property each of them breaks.
