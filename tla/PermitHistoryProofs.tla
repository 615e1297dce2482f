------------------------- MODULE PermitHistoryProofs -------------------------
(***************************************************************************)
(* The permit and interface updates, for every set of ports.  The count is *)
(* decremented without protection, so it may end up too high when two      *)
(* ports decrement it at once; the argument is that, until some port       *)
(* acknowledges an update twice, it is never too low: neither the count    *)
(* nor any value a port has loaded from it ever falls below the number of  *)
(* ports that still have to acknowledge.  Hence a count of zero means that *)
(* all of them have, and the post of the timer gives back the permit it    *)
(* took.                                                                   *)
(***************************************************************************)
EXTENDS PermitHistory, ConfHandoffPermitProofs

HTypeOK == owed \in {"no", "yes", "extra"} /\ acked \in SUBSET Ports /\ again \in BOOLEAN

\* At most one of the semaphore, the threads and an update has the permit.
OneHas ==
    owed # "extra" =>
       /\ OnePermit
       /\ \A p \in Ports : ptPc[p] \in {"work", "post"} => flag[p] # 2
       /\ owed = "yes" => sem = 0 /\ NobodyHas
       /\ tmPc = "count" => owed = "yes"

Missing == Ports \ acked

\* The values the count has and can get are at least the acknowledgements due;
\* between two updates none is due and the count is good for a round.
CountCovers ==
    /\ cnt \in Nat /\ cnt >= Cardinality(Missing)
    /\ \A p \in Ports : ptPc[p] \in {"clear", "store"} =>
          p \in Missing /\ reg[p] \in Nat /\ reg[p] >= Cardinality(Missing)
    /\ owed = "no" => cnt >= FullCount

NoneTwice ==
    ~again =>
       /\ owed # "extra"
       /\ acked # Ports => owed = "yes"
       /\ tmPc = "reload" => owed = "yes" /\ acked = Ports
       /\ CountCovers

HInv == HTypeOK /\ OneHas /\ NoneTwice

\* The memory restrains no thread: every step is one of ConfHandoff.
LEMMA HStep == [HNext]_<<vars, hVars>> => [Next]_vars
BY DEF HNext, HApplyIface, HReload, HPortStep, HRestart, OtherStep, Next, TimerStep

LEMMA HImplements == HSpec => Spec
<1>1. HInit => Init
  BY DEF HInit
<1>2. QED
  BY <1>1, HStep, PTL DEF HSpec, Spec

\* A set of ports is finite and not larger than the set of all ports.
LEMMA PortsCount ==
  ASSUME NEW S \in SUBSET Ports
  PROVE  /\ IsFiniteSet(S) /\ Cardinality(S) \in Nat
         /\ Cardinality(S) <= FullCount
         /\ Cardinality(S) = 0 => S = {}
         /\ \A p \in S : /\ Cardinality(S) >= 1
                         /\ Cardinality(S \ {p}) = Cardinality(S) - 1
<1>1. IsFiniteSet(S) /\ Cardinality(S) <= FullCount
  BY PortsFinite, FS_Subset DEF FullCount
<1>2. Cardinality(S) \in Nat
  BY <1>1, FS_CardinalityType
<1>3. Cardinality(S) = 0 => S = {}
  BY <1>1, FS_EmptySet
<1>4. ASSUME NEW p \in S
      PROVE  Cardinality(S \ {p}) = Cardinality(S) - 1 /\ Cardinality(S) >= 1
  <2>1. Cardinality(S \ {p}) = Cardinality(S) - 1 /\ IsFiniteSet(S \ {p})
    BY <1>1, FS_RemoveElement
  <2>2. Cardinality(S \ {p}) \in Nat
    BY <2>1, FS_CardinalityType
  <2>3. QED
    BY <1>2, <2>1, <2>2
<1>5. QED
  BY <1>1, <1>2, <1>3, <1>4

\* There are ports, so the count a round starts with is not zero.
LEMMA SomePorts == FullCount \in Nat /\ FullCount > 0
BY FullCountNat, FullCountPositive
------------------------------------------------------------------------------
(***************************************************************************)
(* One permit.                                                             *)
(***************************************************************************)

\* The config thread takes the permit only when it is free.
LEMMA OneHasConfig ==
  TypeOK /\ OneHas /\ (Input \/ ConfigStep) /\ UNCHANGED hVars => OneHas'
<1> SUFFICES ASSUME TypeOK, OneHas, Input \/ ConfigStep, UNCHANGED hVars, owed # "extra"
             PROVE  OneHas'
  BY DEF OneHas, hVars
<1>1. UNCHANGED <<flag, ptPc, tmPc, owed>>
  BY DEF Input, Receive, NextEntry, ConfigStep, EndOfList, ScanForever, ConfWait,
         ParseConf, SendIface, SendConf, ConfPost, SendMqtt, tmVars, portVars, hVars
<1>2. /\ TimerHas' = TimerHas
      /\ \A p \in Ports : PortHas(p)' = PortHas(p)
  BY <1>1 DEF PortHas, TimerHas
<1>3. \/ sem' = sem /\ (ConfigHas' => ConfigHas)
      \/ sem = 1 /\ sem' = 0
      \/ ConfigHas /\ sem' = sem + 1 /\ ~ConfigHas'
  BY DEF Input, Receive, NextEntry, ConfigStep, EndOfList, ScanForever, ConfWait,
         ParseConf, SendIface, SendConf, ConfPost, SendMqtt, MsgsndLocal,
         SemWait, SemPost, ConfigHas, OneHas, OnePermit
<1>4. ConfigHas => sem = 0 /\ owed # "yes"
  BY DEF OneHas, OnePermit, NobodyHas
<1>5. OnePermit'
  BY <1>2, <1>3, <1>4 DEF OneHas, OnePermit
<1>6. owed = "yes" => sem' = 0 /\ NobodyHas'
  BY <1>2, <1>3, <1>4 DEF OneHas, NobodyHas
<1>7. QED
  BY <1>1, <1>5, <1>6 DEF OneHas

HTimerStep ==
    \/ HApplyIface \/ HReload
    \/ /\ Detect \/ TimerWait \/ SetCount \/ ApplyConf \/ Tick
       /\ UNCHANGED hVars

\* The timer takes it only when it is free, hands it to one port at most or keeps
\* it for an update, and posts only what an update is owed, or one too many.
LEMMA OneHasTimer == TypeOK /\ OneHas /\ HTimerStep => OneHas'
<1> SUFFICES ASSUME TypeOK, OneHas, HTimerStep
             PROVE  OneHas'
  OBVIOUS
<1>1. UNCHANGED <<ptPc, cfgPc>>
  BY DEF HTimerStep, HApplyIface, HReload, Detect, TimerWait, ApplyIface, SetCount,
         ApplyConf, Tick, Reload, cfgVars, portVars
<1>2. ConfigHas' = ConfigHas
  BY <1>1 DEF ConfigHas
<1>3. CASE HApplyIface
  <2>1. /\ TimerHas /\ tmPc' = "count" /\ UNCHANGED sem
        /\ flag' = [p \in Ports |-> 1]
    BY <1>3 DEF HApplyIface, ApplyIface, TimerHas
  <2>2. owed # "extra" =>
          /\ owed' = "yes"
          /\ sem = 0 /\ ~ConfigHas /\ \A p \in Ports : ~PortHas(p)
    BY <1>3, <2>1 DEF HApplyIface, OneHas, OnePermit
  <2>3. owed' # "extra" => owed # "extra"
    BY <1>3 DEF HApplyIface
  <2>4. owed # "extra" => NobodyHas'
    BY <1>1, <1>2, <2>1, <2>2 DEF NobodyHas, TimerHas, PortHas
  <2>5. QED
    BY <2>1, <2>2, <2>3, <2>4 DEF OneHas, OnePermit, NobodyHas, PortHas
<1>4. CASE HReload
  <2>1. CASE owed = "yes"
    <3>1. sem = 0 /\ NobodyHas /\ owed' = "no"
      BY <1>4, <2>1 DEF HReload, OneHas
    <3>2. sem' = 1 /\ tmPc' = "detect" /\ UNCHANGED flag
      BY <1>4, <3>1 DEF HReload, Reload, SemPost, portVars
    <3>3. NobodyHas'
      BY <1>1, <1>2, <3>1, <3>2 DEF NobodyHas, TimerHas, PortHas
    <3>4. QED
      BY <3>1, <3>2, <3>3 DEF OneHas, OnePermit, NobodyHas, PortHas
  <2>2. CASE owed # "yes"
    BY <1>4, <2>2 DEF HReload, OneHas
  <2>3. QED
    BY <2>1, <2>2
<1>5. CASE (Detect \/ SetCount \/ Tick) /\ UNCHANGED hVars
  <2>1. /\ UNCHANGED <<sem, flag, owed>> /\ tmPc # "apply"
        /\ tmPc' \notin {"apply", "count"}
    BY <1>5 DEF Detect, SetCount, Tick, portVars, hVars
  <2>2. TimerHas' = TimerHas /\ \A p \in Ports : PortHas(p)' = PortHas(p)
    BY <1>1, <2>1 DEF TimerHas, PortHas
  <2>3. QED
    BY <1>1, <1>2, <2>1, <2>2 DEF OneHas, OnePermit, NobodyHas
<1>6. CASE TimerWait /\ UNCHANGED hVars
  <2>1. /\ sem > 0 /\ sem' = sem - 1 /\ tmPc' = "apply" /\ UNCHANGED <<flag, owed>>
    BY <1>6 DEF TimerWait, SemWait, portVars, hVars
  <2>2. \A p \in Ports : PortHas(p)' = PortHas(p)
    BY <1>1, <2>1 DEF PortHas
  <2>3. QED
    BY <1>1, <1>2, <2>1, <2>2 DEF OneHas, OnePermit, TimerHas
<1>7. CASE ApplyConf /\ UNCHANGED hVars
  <2>1. /\ TimerHas /\ ~TimerHas' /\ tmPc' = "tick" /\ UNCHANGED <<sem, owed>>
        /\ flag' = [p \in Ports |-> IF p = localBuf.conf THEN 2 ELSE flag[p]]
    BY <1>7 DEF ApplyConf, hVars, TimerHas
  <2>2. owed # "extra" =>
          owed # "yes" /\ sem = 0 /\ ~ConfigHas /\ \A p \in Ports : ~PortHas(p)
    BY <2>1 DEF OneHas, OnePermit, NobodyHas
  <2>3. owed # "extra" =>
          \A p \in Ports : /\ PortHas(p)' => p = localBuf.conf
                           /\ ptPc'[p] \notin {"work", "post"}
    BY <1>1, <2>1, <2>2 DEF PortHas
  <2>4. QED
    BY <1>1, <1>2, <2>1, <2>2, <2>3 DEF OneHas, OnePermit
<1>8. QED
  BY <1>3, <1>4, <1>5, <1>6, <1>7 DEF HTimerStep

\* A port gives back only what it has.
LEMMA OneHasPort ==
  ASSUME TypeOK, OneHas, NEW p \in Ports, HPortStep(p)
  PROVE  OneHas'
<1> SUFFICES ASSUME owed # "extra"
             PROVE  OneHas'
  BY DEF HPortStep, OneHas
<1>1. PortStep(p) /\ UNCHANGED owed
  BY DEF HPortStep
<1>2. UNCHANGED <<cfgPc, tmPc>> /\ ConfigHas' = ConfigHas /\ TimerHas' = TimerHas
  BY <1>1 DEF PortStep, AckLoad, AckClear, AckStore, TakeConf, ConfDone, TcpUpload,
         RtuLoop, RtuNothingNew, RtuTimeout, RtuUpload, cfgVars, tmVars,
         ConfigHas, TimerHas
<1>3. CASE ConfDone(p)
  <2>1. /\ ptPc[p] = "post" /\ UNCHANGED flag /\ sem' = sem + 1
        /\ ptPc' = [ptPc EXCEPT ![p] = EndOfLoop(p)]
    BY <1>3 DEF ConfDone, SemPost
  <2>2. /\ PortHas(p) /\ sem = 0 /\ ~ConfigHas /\ ~TimerHas /\ owed # "yes"
        /\ \A q \in Ports \ {p} : ~PortHas(q)
    BY <2>1 DEF OneHas, OnePermit, PortHas, NobodyHas
  <2>3. \A q \in Ports : ~PortHas(q)' /\ ptPc'[q] \notin {"work", "post"}
    BY <2>1, <2>2 DEF OneHas, PortHas, EndOfLoop, TypeOK
  <2>4. QED
    BY <1>1, <1>2, <2>1, <2>2, <2>3 DEF OneHas, OnePermit
<1>4. CASE ~ConfDone(p)
  <2>1. /\ UNCHANGED sem
        /\ \A q \in Ports : /\ PortHas(q)' => PortHas(q)
                            /\ ptPc'[q] \in {"work", "post"} =>
                                  \/ ptPc[q] \in {"work", "post"} /\ (flag'[q] = 2 => flag[q] = 2)
                                  \/ flag'[q] # 2
    <3> USE DEF PortHas, TypeOK, EndOfLoop
    <3>1. CASE AckLoad(p)
      BY <3>1 DEF AckLoad
    <3>2. CASE AckClear(p)
      BY <3>2 DEF AckClear
    <3>3. CASE AckStore(p)
      BY <3>3 DEF AckStore
    <3>4. CASE TakeConf(p)
      BY <3>4 DEF TakeConf
    <3>5. CASE p = "Tcp" /\ TcpUpload
      BY <3>5 DEF TcpUpload
    <3>6. CASE p = "Rtu" /\ RtuLoop
      BY <3>6 DEF RtuLoop, RtuNothingNew, RtuTimeout, RtuUpload
    <3>7. QED
      BY <1>1, <1>4, <3>1, <3>2, <3>3, <3>4, <3>5, <3>6 DEF PortStep
  <2>2. QED
    BY <1>1, <1>2, <2>1 DEF OneHas, OnePermit, NobodyHas
<1>5. QED
  BY <1>3, <1>4

\* Never two permits as long as none has been posted that was not owed.
LEMMA OneHasStep ==
  TypeOK /\ HTypeOK /\ OneHas /\ [HNext]_<<vars, hVars>> => OneHas'
<1> SUFFICES ASSUME TypeOK, OneHas, [HNext]_<<vars, hVars>>
             PROVE  OneHas'
  OBVIOUS
<1>1. CASE (CloudTake /\ UNCHANGED hVars) \/ UNCHANGED <<vars, hVars>>
  BY <1>1 DEF CloudTake, vars, hVars, cfgVars, tmVars, portVars, OneHas, OnePermit,
              NobodyHas, ConfigHas, TimerHas, PortHas
<1>2. CASE HRestart
  BY <1>2 DEF HRestart, Restart, OneHas, OnePermit, NobodyHas, ConfigHas, TimerHas, PortHas
<1>3. CASE HTimerStep
  BY <1>3, OneHasTimer
<1>4. QED
  BY <1>1, <1>2, <1>3, OneHasConfig, OneHasPort DEF HNext, OtherStep, HTimerStep
------------------------------------------------------------------------------
(***************************************************************************)
(* The count, until a port acknowledges an update twice.                   *)
(***************************************************************************)

\* The timer begins an update only when the one before has ended, and posts for it
\* only when no port is missing.
LEMMA NoneTwiceTimer ==
  TypeOK /\ HInv /\ HTimerStep => NoneTwice'
<1> SUFFICES ASSUME TypeOK, HInv, HTimerStep, ~again
             PROVE  NoneTwice'
  BY DEF HTimerStep, HApplyIface, HReload, hVars, NoneTwice
<1>0. /\ owed # "extra" /\ (acked # Ports => owed = "yes") /\ CountCovers
      /\ tmPc = "reload" => owed = "yes" /\ acked = Ports
  BY DEF HInv, NoneTwice
<1>1. /\ Missing \in SUBSET Ports /\ Cardinality(Missing) \in Nat
      /\ Cardinality(Missing) <= FullCount /\ (Cardinality(Missing) = 0 => Missing = {})
      /\ FullCount \in Nat /\ FullCount > 0
  BY PortsCount, SomePorts DEF Missing
<1>2. UNCHANGED <<ptPc, reg, again>>
  BY DEF HTimerStep, HApplyIface, HReload, Detect, TimerWait, ApplyIface, SetCount,
         ApplyConf, Tick, Reload, portVars, hVars
<1>3. CASE HApplyIface
  <2>1. /\ TimerHas /\ owed' = "yes" /\ acked' = {} /\ tmPc' = "count" /\ UNCHANGED cnt
    BY <1>0, <1>3 DEF HApplyIface, ApplyIface, TimerHas
  <2>2. owed # "yes"
    BY <1>0, <2>1 DEF HInv, OneHas, NobodyHas
  <2>3. acked = Ports /\ cnt \in Nat /\ cnt >= FullCount
    BY <1>0, <2>2 DEF CountCovers, HInv, HTypeOK
  <2>4. \A p \in Ports : ptPc[p] \notin {"clear", "store"}
    BY <1>0, <2>3 DEF CountCovers, Missing
  <2>5. Missing' = Ports
    BY <2>1 DEF Missing
  <2>6. CountCovers'
    BY <1>2, <2>1, <2>3, <2>4, <2>5 DEF CountCovers, FullCount
  <2>7. QED
    BY <2>1, <2>6 DEF NoneTwice
<1>4. CASE HReload
  <2>1. owed = "yes" /\ acked = Ports
    BY <1>0, <1>4 DEF HReload, Reload
  <2>2. owed' = "no" /\ acked' = acked /\ tmPc' = "detect" /\ cnt' = CntReload
    BY <1>4, <2>1 DEF HReload, Reload
  <2>3. Missing' = Missing
    BY <2>2 DEF Missing
  <2>4. CntReload \in Nat /\ CntReload >= FullCount
    BY HandoffAssumption DEF FullCount
  <2>5. CountCovers'
    BY <1>0, <1>1, <1>2, <2>2, <2>3, <2>4 DEF CountCovers
  <2>6. QED
    BY <2>1, <2>2, <2>5 DEF NoneTwice
<1>5. CASE SetCount /\ UNCHANGED hVars
  <2>1. /\ tmPc = "count" /\ tmPc' = "tick" /\ cnt' = FullCount
        /\ UNCHANGED <<owed, acked>>
    BY <1>5 DEF SetCount, hVars
  <2>2. owed = "yes"
    BY <1>0, <2>1 DEF HInv, OneHas
  <2>3. Missing' = Missing
    BY <2>1 DEF Missing
  <2>4. CountCovers'
    BY <1>0, <1>1, <1>2, <2>1, <2>2, <2>3 DEF CountCovers
  <2>5. QED
    BY <1>0, <2>1, <2>2, <2>4 DEF NoneTwice
<1>6. CASE (Detect \/ TimerWait \/ ApplyConf \/ Tick) /\ UNCHANGED hVars
  <2>1. /\ UNCHANGED <<cnt, owed, acked>>
        /\ tmPc' = "reload" => cnt = 0
    BY <1>6 DEF Detect, TimerWait, ApplyConf, Tick, RoundOver, hVars
  <2>2. Missing' = Missing
    BY <2>1 DEF Missing
  <2>3. CountCovers'
    BY <1>0, <1>2, <2>1, <2>2 DEF CountCovers
  <2>4. cnt = 0 => owed = "yes" /\ acked = Ports
    <3>1. cnt = 0 => owed # "no"
      BY <1>0, <1>1 DEF CountCovers
    <3>2. cnt = 0 => Missing = {}
      BY <1>0, <1>1 DEF CountCovers
    <3>3. QED
      BY <1>0, <3>1, <3>2 DEF HInv, HTypeOK, Missing
  <2>5. QED
    BY <1>0, <2>1, <2>3, <2>4 DEF NoneTwice
<1>7. QED
  BY <1>3, <1>4, <1>5, <1>6 DEF HTimerStep

\* A port is no longer missing when it stores its decrement, so the count and the
\* values loaded by the others still cover the rest.
LEMMA NoneTwicePort ==
  ASSUME TypeOK, HInv, NEW p \in Ports, HPortStep(p)
  PROVE  NoneTwice'
<1> SUFFICES ASSUME ~again'
             PROVE  NoneTwice'
  BY DEF NoneTwice
<1>0. /\ ~(ptPc[p] = "poll" /\ flag[p] = 1 /\ p \in acked) /\ ~again
      /\ acked' = IF ptPc[p] = "store" THEN acked \cup {p} ELSE acked
      /\ UNCHANGED owed /\ PortStep(p)
  BY DEF HPortStep
<1>1. /\ owed # "extra" /\ (acked # Ports => owed = "yes") /\ CountCovers
      /\ tmPc = "reload" => owed = "yes" /\ acked = Ports
  BY <1>0 DEF HInv, NoneTwice
<1>2. /\ Missing \in SUBSET Ports /\ Cardinality(Missing) \in Nat
      /\ \A q \in Missing : /\ Cardinality(Missing) >= 1
                            /\ Cardinality(Missing \ {q}) = Cardinality(Missing) - 1
  BY PortsCount DEF Missing
<1>3. UNCHANGED tmPc
  BY <1>0 DEF PortStep, AckLoad, AckClear, AckStore, TakeConf, ConfDone, TcpUpload,
              RtuLoop, RtuNothingNew, RtuTimeout, RtuUpload, tmVars
<1>4. CASE AckLoad(p)
  <2>1. /\ ptPc[p] = "poll" /\ flag[p] = 1 /\ UNCHANGED cnt
        /\ ptPc' = [ptPc EXCEPT ![p] = IF p = "Rtu3" THEN "store" ELSE "clear"]
        /\ reg' = [reg EXCEPT ![p] = cnt]
    BY <1>4 DEF AckLoad
  <2>2. p \in Missing /\ acked' = acked /\ Missing' = Missing
    BY <1>0, <2>1 DEF Missing
  <2>3. CountCovers'
    BY <1>0, <1>1, <1>2, <2>1, <2>2 DEF CountCovers, TypeOK
  <2>4. QED
    BY <1>0, <1>1, <1>3, <2>2, <2>3 DEF NoneTwice
<1>5. CASE AckStore(p)
  <2>1. /\ ptPc[p] = "store" /\ cnt' = Decrement(reg[p]) /\ reg' = [reg EXCEPT ![p] = 0]
        /\ ptPc' = [ptPc EXCEPT ![p] = EndOfLoop(p)]
    BY <1>5 DEF AckStore
  <2>2. p \in Missing /\ reg[p] \in Nat /\ reg[p] >= Cardinality(Missing)
    BY <1>1, <2>1 DEF CountCovers
  <2>3. acked' = acked \cup {p} /\ Missing' = Missing \ {p} /\ acked # Ports
    BY <1>0, <2>1, <2>2 DEF Missing
  <2>4. /\ Cardinality(Missing') = Cardinality(Missing) - 1
        /\ Cardinality(Missing) >= 1
    BY <1>2, <2>2, <2>3
  <2>5. cnt' = reg[p] - 1
    BY <2>1, <2>2 DEF Decrement
  <2>6. ptPc'[p] \notin {"clear", "store"}
    BY <2>1 DEF EndOfLoop, TypeOK
  <2>7. \A q \in Ports : ptPc'[q] \in {"clear", "store"} =>
           q \in Missing' /\ reg'[q] \in Nat /\ reg'[q] >= Cardinality(Missing')
    BY <1>1, <1>2, <2>1, <2>3, <2>4, <2>6 DEF CountCovers, TypeOK
  <2>8. CountCovers'
    BY <1>0, <1>1, <1>2, <2>2, <2>3, <2>4, <2>5, <2>7 DEF CountCovers
  <2>9. QED
    BY <1>0, <1>1, <1>3, <2>3, <2>8 DEF NoneTwice
<1>6. CASE ~AckLoad(p) /\ ~AckStore(p)
  <2>1. /\ UNCHANGED <<cnt, reg>> /\ ptPc[p] # "store"
        /\ \A q \in Ports : ptPc'[q] \in {"clear", "store"}
                               => ptPc[q] \in {"clear", "store"}
    <3> USE DEF TypeOK, EndOfLoop
    <3>1. CASE AckClear(p)
      BY <3>1 DEF AckClear
    <3>2. CASE TakeConf(p)
      BY <3>2 DEF TakeConf
    <3>3. CASE ConfDone(p)
      BY <3>3 DEF ConfDone
    <3>4. CASE p = "Tcp" /\ TcpUpload
      BY <3>4 DEF TcpUpload
    <3>5. CASE p = "Rtu" /\ RtuLoop
      BY <3>5 DEF RtuLoop, RtuNothingNew, RtuTimeout, RtuUpload
    <3>6. QED
      BY <1>0, <1>6, <3>1, <3>2, <3>3, <3>4, <3>5 DEF PortStep
  <2>2. acked' = acked /\ Missing' = Missing
    BY <1>0, <2>1 DEF Missing
  <2>3. CountCovers'
    BY <1>0, <1>1, <2>1, <2>2 DEF CountCovers
  <2>4. QED
    BY <1>0, <1>1, <1>3, <2>2, <2>3 DEF NoneTwice
<1>7. QED
  BY <1>4, <1>5, <1>6

\* HInv is an invariant.
LEMMA HInvStep == TypeOK /\ HInv /\ [HNext]_<<vars, hVars>> => HInv'
<1> SUFFICES ASSUME TypeOK, HInv, [HNext]_<<vars, hVars>>
             PROVE  HInv'
  OBVIOUS
<1>1. HTypeOK'
  BY DEF HInv, HTypeOK, HNext, HApplyIface, HReload, HPortStep, HRestart, OtherStep, hVars
<1>2. OneHas'
  BY OneHasStep DEF HInv
<1>3. NoneTwice'
  <2>1. CASE /\ Input \/ ConfigStep \/ CloudTake \/ UNCHANGED vars
             /\ UNCHANGED hVars
    <3>1. UNCHANGED <<ptPc, reg, cnt, tmPc, owed, acked, again>>
      BY <2>1 DEF Input, Receive, NextEntry, ConfigStep, EndOfList, ScanForever, ConfWait,
                  ParseConf, SendIface, SendConf, ConfPost, SendMqtt, CloudTake,
                  vars, tmVars, portVars, hVars
    <3>2. CountCovers' = CountCovers
      BY <3>1 DEF CountCovers, Missing
    <3>3. QED
      BY <3>1, <3>2 DEF HInv, NoneTwice
  <2>2. CASE HRestart
    <3>1. /\ owed' = "no" /\ acked' = Ports /\ cnt' = FullCount /\ tmPc' = "detect"
          /\ \A p \in Ports : ptPc'[p] = "poll"
      BY <2>2 DEF HRestart, Restart
    <3>2. Missing' = {} /\ Cardinality(Missing') = 0
      BY <3>1, FS_EmptySet DEF Missing
    <3>3. QED
      BY <3>1, <3>2, SomePorts DEF NoneTwice, CountCovers
  <2>3. CASE HTimerStep
    BY <2>3, NoneTwiceTimer
  <2>4. CASE \E p \in Ports : HPortStep(p)
    BY <2>4, NoneTwicePort
  <2>5. QED
    BY <2>1, <2>2, <2>3, <2>4 DEF HNext, OtherStep, HTimerStep
<1>4. QED
  BY <1>1, <1>2, <1>3 DEF HInv

LEMMA HInvAlways == HSpec => []HInv
<1>1. HInit => HInv
  <2> SUFFICES ASSUME HInit PROVE HInv
    OBVIOUS
  <2>1. /\ owed = "no" /\ acked = Ports /\ again = FALSE
        /\ cnt = FullCount /\ sem = 1 /\ tmPc = "detect" /\ cfgPc = "recv"
        /\ \A p \in Ports : flag[p] = 0 /\ ptPc[p] = "poll"
    BY DEF HInit, Init
  <2>2. Missing = {} /\ Cardinality(Missing) = 0
    BY <2>1, FS_EmptySet DEF Missing
  <2>3. NoneTwice
    BY <2>1, <2>2, SomePorts DEF NoneTwice, CountCovers
  <2>4. OneHas
    BY <2>1 DEF OneHas, OnePermit, ConfigHas, TimerHas, PortHas
  <2>5. HTypeOK
    BY DEF HInit, HTypeOK
  <2>6. QED
    BY <2>3, <2>4, <2>5 DEF HInv
<1>2. QED
  BY <1>1, HInvStep, HImplements, TypeCorrect, PTL DEF HSpec

\* Until a permit has been posted that was not owed, there is one permit, and
\* an update has it to itself.
THEOREM OnePermitUntilExtra == HSpec => []OneUntilExtra
<1>1. HInv => OneUntilExtra
  BY DEF HInv, OneHas, OneUntilExtra
<1>2. QED
  BY <1>1, HInvAlways, PTL

\* Until a port acknowledges an update twice, none is posted that was not owed
\* and every update has the permit until all ports have acknowledged it.
THEOREM UpdatesExclusive == HSpec => []UpdateExclusive
<1>1. HInv => UpdateExclusive
  BY DEF HInv, OneHas, OnePermit, NoneTwice, UpdateExclusive
<1>2. QED
  BY <1>1, HInvAlways, PTL

\* Until then, no update and no later configuration comes between a port and the
\* configuration it was given.
THEOREM ConfOfItsOwnUntilExtra == HSpec => []OwnUntilExtra
<1>1. HInit => OwnUntilExtra
  BY DEF HInit, Init, OwnUntilExtra, OwnConf, PortHas
<1>2. TypeOK /\ HInv /\ OwnUntilExtra /\ [HNext]_<<vars, hVars>> => OwnUntilExtra'
  <2> SUFFICES ASSUME TypeOK, HInv, OwnUntilExtra, [HNext]_<<vars, hVars>>, owed' # "extra"
               PROVE  OwnConf'
    BY DEF OwnUntilExtra
  <2>1. CASE HRestart
    BY <2>1 DEF HRestart, Restart, OwnConf, PortHas
  <2>2. CASE ~HRestart
    <3>1. owed # "extra"
      BY <2>2 DEF HNext, HApplyIface, HReload, HPortStep, OtherStep, hVars
    <3>2. QED
      BY <3>1, HStep, OwnConfStep DEF HInv, OneHas, OwnUntilExtra
  <2>3. QED
    BY <2>1, <2>2
<1>3. QED
  BY <1>1, <1>2, HInvAlways, HImplements, TypeCorrect, PTL DEF HSpec
------------------------------------------------------------------------------
(***************************************************************************)
(* The refinement of PermitToken.                                          *)
(***************************************************************************)

\* The holder of an exclusive permit is the thread or the update that has it.
HolderIs ==
    /\ owed = "extra" => PermitHolder = "extra"
    /\ owed # "extra" =>
       /\ PermitHolder = "free" <=> sem = 1
       /\ ConfigHas => PermitHolder = IF ConfigJammed THEN "lost" ELSE "config"
       /\ TimerHas => PermitHolder = "timer"
       /\ \A p \in Ports : PortHas(p) => PermitHolder = p
       /\ sem = 0 /\ NobodyHas => PermitHolder = IF UpdateHas THEN "update" ELSE "lost"

LEMMA Holder == OneHas => HolderIs
<1>1. owed = "extra" => PermitHolder = "extra"
  BY DEF PermitHolder
<1> SUFFICES ASSUME OneHas, owed # "extra" PROVE HolderIs
  BY <1>1 DEF HolderIs
<1>2. OnePermit
  BY DEF OneHas
<1>3. "free" \notin Ports
  BY HandoffAssumption DEF AllPorts
<1>4. ASSUME NEW p \in Ports, PortHas(p)
      PROVE  PermitHolder = p
  <2>1. sem # 1 /\ ~ConfigHas /\ ~TimerHas
    BY <1>2, <1>4 DEF OnePermit
  <2>2. PermitHolder = CHOOSE q \in Ports : PortHas(q)
    BY <1>4, <2>1 DEF PermitHolder
  <2>3. PortHas(CHOOSE q \in Ports : PortHas(q)) /\ (CHOOSE q \in Ports : PortHas(q)) \in Ports
    BY <1>4
  <2>4. QED
    BY <1>2, <1>4, <2>2, <2>3 DEF OnePermit
<1>5. sem = 1 => PermitHolder = "free"
  BY DEF PermitHolder
<1>6. sem # 1 => PermitHolder # "free"
  BY <1>3, <1>4 DEF PermitHolder
<1>7. /\ ConfigHas => PermitHolder = IF ConfigJammed THEN "lost" ELSE "config"
      /\ TimerHas => PermitHolder = "timer"
  BY <1>2 DEF PermitHolder, OnePermit
<1>8. sem = 0 /\ NobodyHas => PermitHolder = IF UpdateHas THEN "update" ELSE "lost"
  BY DEF PermitHolder, NobodyHas
<1>9. QED
  BY <1>1, <1>4, <1>5, <1>6, <1>7, <1>8 DEF HolderIs

\* A step that changes nobody's share of the permit does not change its holder.
LEMMA SameHolder ==
  ASSUME UNCHANGED <<sem, owed>>, ConfigHas' <=> ConfigHas, TimerHas' <=> TimerHas,
         \A p \in Ports : PortHas(p)' <=> PortHas(p),
         ConfigHas => (ConfigJammed' <=> ConfigJammed), UpdateHas' <=> UpdateHas
  PROVE  UNCHANGED PermitHolder
<1>1. (\E p \in Ports : PortHas(p))' <=> \E p \in Ports : PortHas(p)
  OBVIOUS
<1>2. (CHOOSE p \in Ports : PortHas(p))' = CHOOSE p \in Ports : PortHas(p)
  OBVIOUS
<1>3. QED
  BY <1>1, <1>2 DEF PermitHolder

TokenMoves == Token!Next \/ UNCHANGED Token!vars

\* Nothing moves any more once a permit too many has been posted.
LEMMA TokenExtra ==
  ASSUME HolderIs, HolderIs', owed = "extra", owed' = "extra", UNCHANGED restarts
  PROVE  TokenMoves
BY DEF HolderIs, TokenMoves, Token!vars

\* A step of the config thread takes the permit, ends its use, or keeps it.
LEMMA TokenConfig ==
  ASSUME TypeOK, OneHas, HolderIs, HolderIs', Input \/ ConfigStep, UNCHANGED hVars
  PROVE  TokenMoves
<1> USE DEF Token!Pass
<1>1. UNCHANGED <<restarts, owed, tmPc, flag, ptPc, cnt, reg>>
  BY DEF Input, Receive, NextEntry, ConfigStep, EndOfList, ScanForever, ConfWait,
         ParseConf, SendIface, SendConf, ConfPost, SendMqtt, envVars, tmVars, portVars,
         hVars
<1> SUFFICES ASSUME owed # "extra" PROVE TokenMoves
  BY <1>1, TokenExtra
<1>2. /\ TimerHas' <=> TimerHas
      /\ \A p \in Ports : PortHas(p)' <=> PortHas(p)
      /\ UpdateHas' <=> UpdateHas
  BY <1>1 DEF TimerHas, PortHas, UpdateHas, CountDead
<1>3. CASE UNCHANGED sem /\ ~ConfigHas /\ ~ConfigHas'
  BY <1>1, <1>2, <1>3, SameHolder DEF TokenMoves, Token!vars
<1>4. CASE ConfWait
  <2>1. sem = 1 /\ ConfigHas' /\ ~ConfigJammed'
    BY <1>4 DEF ConfWait, SemWait, ConfigHas, ConfigJammed, OneHas, OnePermit
  <2>2. Token!ConfigTakes
    BY <1>1, <2>1 DEF Token!ConfigTakes, HolderIs
  <2>3. QED
    BY <2>2 DEF TokenMoves, Token!Next
<1>5. CASE ConfPost \/ ParseConf \/ SendConf
  <2>1. ConfigHas /\ ~ConfigJammed /\ sem = 0
    BY <1>5 DEF ConfPost, ParseConf, SendConf, MsgsndLocal, ConfigHas, ConfigJammed,
                OneHas, OnePermit
  <2>2. ~TimerHas /\ (\A p \in Ports : ~PortHas(p)) /\ ~UpdateHas
    BY <2>1 DEF OneHas, OnePermit, UpdateHas, NobodyHas
  <2>3. sem' \in {0, 1}
    BY <1>5, <2>1 DEF ConfPost, SemPost, ParseConf, SendConf
  <2>4. PermitHolder = "config" /\ PermitHolder' \in {"config", "free", "lost"}
    BY <1>1, <1>2, <2>1, <2>2, <2>3 DEF HolderIs, NobodyHas
  <2>5. Token!ConfigEnds \/ UNCHANGED Token!vars
    BY <1>1, <2>4 DEF Token!ConfigEnds, Token!vars
  <2>6. QED
    BY <2>5 DEF TokenMoves, Token!Next
<1>6. \/ UNCHANGED sem /\ ~ConfigHas /\ ~ConfigHas'
      \/ ConfWait \/ ConfPost \/ ParseConf \/ SendConf
  BY DEF Input, Receive, NextEntry, ConfigStep, EndOfList, ScanForever,
         SendIface, MsgsndLocal, SendMqtt, ConfigHas
<1>7. QED
  BY <1>3, <1>4, <1>5, <1>6

\* When the timer looks for a message, a config thread that waits for room may
\* wait for ever from then on, and an update may lose the one who would end it.
LEMMA TokenDetect ==
  ASSUME TypeOK, OneHas, HolderIs, HolderIs', Detect, UNCHANGED hVars
  PROVE  TokenMoves
<1> USE DEF Token!Pass
<1>1. /\ UNCHANGED <<restarts, owed, sem, cfgPc, localId, localCmdMsgId, cnt, flag, ptPc>>
      /\ UNCHANGED <<endDeviceConf, reg>>
      /\ tmPc = "detect" /\ tmPc' \in {"wait", "tick"}
  BY DEF Detect, envVars, cfgVars, portVars, hVars
<1> SUFFICES ASSUME owed # "extra" PROVE TokenMoves
  BY <1>1, TokenExtra
<1>2. /\ ConfigHas' <=> ConfigHas
      /\ ~TimerHas /\ ~TimerHas'
      /\ \A p \in Ports : PortHas(p)' <=> PortHas(p)
      /\ UpdateHas' => UpdateHas
  BY <1>1 DEF ConfigHas, TimerHas, PortHas, UpdateHas, CountDead
<1>3. CASE ConfigHas
  <2>1. ConfigJammed => UNCHANGED localQ
    BY <1>1, OnlyIface DEF ConfigJammed, Detect, IfaceMsg
  <2>2. ConfigJammed => ConfigJammed'
    BY <1>1, <2>1 DEF ConfigJammed, Oversized
  <2>3. Token!ConfigEnds \/ UNCHANGED Token!vars
    BY <1>1, <1>2, <1>3, <2>2 DEF Token!ConfigEnds, Token!vars, HolderIs
  <2>4. QED
    BY <2>3 DEF TokenMoves, Token!Next
<1>4. CASE sem = 0 /\ NobodyHas
  <2>1. sem' = 0 /\ NobodyHas'
    BY <1>1, <1>2, <1>4 DEF NobodyHas
  <2>2. Token!UpdateEnds \/ UNCHANGED Token!vars
    BY <1>1, <1>2, <1>4, <2>1 DEF Token!UpdateEnds, Token!vars, HolderIs
  <2>3. QED
    BY <2>2 DEF TokenMoves, Token!Next
<1>5. CASE sem = 1 \/ \E p \in Ports : PortHas(p)
  <2>1. UNCHANGED PermitHolder
    BY <1>1, <1>2, <1>5 DEF HolderIs
  <2>2. QED
    BY <1>1, <2>1 DEF TokenMoves, Token!vars
<1>6. QED
  BY <1>2, <1>3, <1>4, <1>5 DEF OneHas, OnePermit, NobodyHas

\* The other steps of the timer take the permit, hand it to a port, to an update
\* or to nobody, and post it when the update has ended, or one too many.
LEMMA TokenTimer ==
  ASSUME TypeOK, OneHas, OneHas', HolderIs, HolderIs', HTimerStep, ~Detect
  PROVE  TokenMoves
<1> USE DEF Token!Pass
<1>1. UNCHANGED <<restarts, ptPc, reg, cfgVars, queueVars, localId>>
  BY DEF HTimerStep, HApplyIface, HReload, TimerWait, ApplyIface, SetCount, ApplyConf,
         Tick, Reload, envVars, portVars
<1>2. ConfigHas' <=> ConfigHas
  BY <1>1 DEF ConfigHas, cfgVars
<1> SUFFICES ASSUME owed # "extra" PROVE TokenMoves
  <2>1. owed = "extra" => owed' = "extra"
    BY DEF HTimerStep, HApplyIface, HReload, hVars
  <2>2. QED
    BY <1>1, <2>1, TokenExtra
<1>3. CASE TimerWait /\ UNCHANGED hVars
  <2>1. sem = 1 /\ TimerHas' /\ owed' # "extra"
    BY <1>3 DEF TimerWait, SemWait, TimerHas, OneHas, OnePermit, hVars
  <2>2. Token!TimerTakes
    BY <1>1, <2>1 DEF Token!TimerTakes, HolderIs
  <2>3. QED
    BY <2>2 DEF TokenMoves, Token!Next
<1>4. CASE (ApplyConf /\ UNCHANGED hVars) \/ HApplyIface
  <2>1. TimerHas /\ ~TimerHas' /\ sem = 0 /\ sem' = 0 /\ ~ConfigHas' /\ owed' # "extra"
    BY <1>2, <1>4 DEF ApplyConf, HApplyIface, ApplyIface, TimerHas, OneHas, OnePermit, hVars
  <2>2. PermitHolder' \in Ports \cup {"update", "lost"}
    BY <2>1 DEF HolderIs, NobodyHas
  <2>3. Token!TimerEnds
    BY <1>1, <2>1, <2>2 DEF Token!TimerEnds, HolderIs
  <2>4. QED
    BY <2>3 DEF TokenMoves, Token!Next
<1>5. CASE SetCount /\ UNCHANGED hVars
  <2>1. owed = "yes" /\ UpdateHas /\ UNCHANGED owed
    BY <1>5 DEF SetCount, UpdateHas, OneHas, hVars
  <2>2. /\ sem = 0 /\ NobodyHas /\ sem' = 0 /\ NobodyHas'
    BY <2>1 DEF OneHas
  <2>3. Token!UpdateEnds \/ UNCHANGED Token!vars
    BY <1>1, <2>1, <2>2 DEF Token!UpdateEnds, Token!vars, HolderIs
  <2>4. QED
    BY <2>3 DEF TokenMoves, Token!Next
<1>6. CASE HReload /\ owed = "yes"
  <2>1. UpdateHas /\ sem = 0 /\ NobodyHas /\ owed' = "no" /\ sem' = 1
    BY <1>6 DEF HReload, Reload, SemPost, UpdateHas, OneHas
  <2>2. Token!UpdateEnds
    BY <1>1, <2>1 DEF Token!UpdateEnds, HolderIs
  <2>3. QED
    BY <2>2 DEF TokenMoves, Token!Next
<1>7. CASE HReload /\ owed # "yes"
  <2>1. ~UpdateHas /\ ~TimerHas /\ owed' = "extra"
    BY <1>7 DEF HReload, Reload, UpdateHas, TimerHas
  <2>2. PermitHolder \in Ports \cup {"free", "config", "lost", "extra"}
    BY <2>1 DEF PermitHolder
  <2>3. Token!Extra
    BY <1>1, <2>1, <2>2 DEF Token!Extra, HolderIs
  <2>4. QED
    BY <2>3 DEF TokenMoves, Token!Next
<1>8. CASE Tick /\ UNCHANGED hVars
  <2>1. /\ UNCHANGED <<sem, flag, cnt, owed>> /\ tmPc = "tick"
        /\ tmPc' = IF cnt = 0 THEN "reload" ELSE "detect"
    BY <1>8 DEF Tick, RoundOver, hVars
  <2>2. CountDead' <=> CountDead
    BY <1>1, <2>1 DEF CountDead
  <2>3. /\ TimerHas' <=> TimerHas
        /\ \A p \in Ports : PortHas(p)' <=> PortHas(p)
    BY <1>1, <2>1 DEF TimerHas, PortHas
  <2>4. cnt = 0 => ~CountDead
    BY DEF CountDead
  <2>5. UpdateHas' <=> UpdateHas
    BY <2>1, <2>2, <2>4 DEF UpdateHas
  <2>6. ConfigJammed' <=> ConfigJammed
    BY <1>1, <2>1 DEF ConfigJammed, Oversized, cfgVars, queueVars
  <2>7. QED
    BY <1>1, <1>2, <2>1, <2>3, <2>5, <2>6, SameHolder DEF TokenMoves, Token!vars
<1>9. QED
  BY <1>3, <1>4, <1>5, <1>6, <1>7, <1>8 DEF HTimerStep

\* A count that can not come back to zero does not by a decrement either.
LEMMA CountStaysDead ==
  ASSUME TypeOK, CountDead, NEW p \in Ports, AckLoad(p) \/ AckClear(p) \/ AckStore(p)
  PROVE  CountDead'
<1> USE DEF CountDead, TypeOK, EndOfLoop
<1>1. CASE AckLoad(p)
  BY <1>1 DEF AckLoad
<1>2. CASE AckClear(p)
  BY <1>2 DEF AckClear
<1>3. CASE AckStore(p)
  <2>1. cnt = -1 /\ reg[p] \in {-1, 0}
    BY <1>3 DEF AckStore, Counts
  <2>2. cnt' = -1
    BY <1>3, <2>1 DEF AckStore, Decrement
  <2>3. QED
    BY <1>3, <2>1, <2>2 DEF AckStore
<1>4. QED
  BY <1>1, <1>2, <1>3

\* A step of a port gives the permit back, loses that of a port whose flag it
\* clears, ends an update, or changes nothing about the permit.
LEMMA TokenPort ==
  ASSUME TypeOK, OneHas, OneHas', HolderIs, HolderIs',
         NEW p \in Ports, HPortStep(p)
  PROVE  TokenMoves
<1> USE DEF Token!Pass
<1>1. /\ PortStep(p)
      /\ UNCHANGED <<restarts, owed, localId, cfgVars, tmPc, localQ>>
  BY DEF HPortStep, PortStep, AckLoad, AckClear, AckStore, TakeConf, ConfDone, TcpUpload,
         RtuLoop, RtuNothingNew, RtuTimeout, RtuUpload, envVars, tmVars, queueVars
<1>2. /\ ConfigHas' <=> ConfigHas
      /\ TimerHas' <=> TimerHas
      /\ ConfigJammed' <=> ConfigJammed
  BY <1>1 DEF ConfigHas, TimerHas, ConfigJammed, Oversized, cfgVars
<1> SUFFICES ASSUME owed # "extra" PROVE TokenMoves
  BY <1>1, TokenExtra
<1>3. CASE AckLoad(p) \/ AckClear(p) \/ AckStore(p)
  <2>1. UNCHANGED sem
    BY <1>3 DEF AckLoad, AckClear, AckStore
  <2>2. CASE owed = "yes"
    <3>1. sem = 0 /\ NobodyHas /\ NobodyHas'
      BY <1>1, <2>2 DEF OneHas
    <3>2. UpdateHas' => UpdateHas
      BY <1>1, <1>3, CountStaysDead DEF UpdateHas
    <3>3. Token!UpdateEnds \/ UNCHANGED Token!vars
      BY <1>1, <2>1, <3>1, <3>2 DEF Token!UpdateEnds, Token!vars, HolderIs
    <3>4. QED
      BY <3>3 DEF TokenMoves, Token!Next
  <2>3. CASE owed # "yes"
    <3>1. ~UpdateHas /\ ~UpdateHas'
      BY <1>1, <2>3 DEF UpdateHas
    <3>2. \A q \in Ports : PortHas(q)' => PortHas(q)
      BY <1>3 DEF AckLoad, AckClear, AckStore, EndOfLoop, PortHas, TypeOK
    <3>3. CASE \A q \in Ports : PortHas(q) => PortHas(q)'
      BY <1>1, <1>2, <2>1, <3>1, <3>2, <3>3, SameHolder DEF TokenMoves, Token!vars
    <3>4. CASE \E q \in Ports : PortHas(q) /\ ~PortHas(q)'
      <4>1. PICK q \in Ports : PortHas(q) /\ ~PortHas(q)'
        BY <3>4
      <4>2. sem = 0 /\ ~ConfigHas /\ ~TimerHas /\ \A r \in Ports : PortHas(r) => r = q
        BY <4>1 DEF OneHas, OnePermit
      <4>3. sem' = 0 /\ NobodyHas'
        BY <1>2, <2>1, <3>2, <4>1, <4>2 DEF NobodyHas
      <4>4. PermitHolder = q /\ PermitHolder' = "lost"
        BY <1>1, <3>1, <4>1, <4>3 DEF HolderIs
      <4>5. Token!PortEnds(q)
        BY <1>1, <4>4 DEF Token!PortEnds
      <4>6. QED
        BY <4>5 DEF TokenMoves, Token!Next
    <3>5. QED
      BY <3>3, <3>4
  <2>4. QED
    BY <2>2, <2>3
<1>4. CASE ConfDone(p)
  <2>1. PermitHolder = p /\ sem' = 1
    BY <1>4 DEF ConfDone, SemPost, PortHas, OneHas, OnePermit, HolderIs
  <2>2. Token!PortEnds(p)
    BY <1>1, <2>1 DEF Token!PortEnds, HolderIs
  <2>3. QED
    BY <2>2 DEF TokenMoves, Token!Next
<1>5. CASE TakeConf(p) \/ (p = "Tcp" /\ TcpUpload) \/ (p = "Rtu" /\ RtuLoop)
  <2>1. UNCHANGED <<sem, cnt, reg>> /\ \A q \in Ports : PortHas(q)' <=> PortHas(q)
    <3>1. CASE TakeConf(p)
      BY <3>1 DEF TakeConf, PortHas, TypeOK
    <3>2. CASE p = "Tcp" /\ TcpUpload
      BY <3>2 DEF TcpUpload, PortHas, TypeOK
    <3>3. CASE p = "Rtu" /\ RtuLoop
      BY <3>3 DEF RtuLoop, RtuNothingNew, RtuTimeout, RtuUpload, PortHas, TypeOK
    <3>4. QED
      BY <1>5, <3>1, <3>2, <3>3
  <2>2. \A q \in Ports : /\ flag'[q] = 1 <=> flag[q] = 1
                         /\ ptPc'[q] \in {"clear", "store"} <=> ptPc[q] \in {"clear", "store"}
    BY <1>5 DEF TakeConf, TcpUpload, RtuLoop, RtuNothingNew, RtuTimeout, RtuUpload, TypeOK
  <2>3. CountDead' <=> CountDead
    BY <2>1, <2>2 DEF CountDead
  <2>4. UpdateHas' <=> UpdateHas
    BY <1>1, <2>3 DEF UpdateHas
  <2>5. QED
    BY <1>1, <1>2, <2>1, <2>4, SameHolder DEF TokenMoves, Token!vars
<1>6. QED
  BY <1>1, <1>3, <1>4, <1>5 DEF PortStep

\* So every step is one of PermitToken, or none.
LEMMA TokenStep ==
  /\ TypeOK /\ OneHas /\ OneHas' /\ HolderIs /\ HolderIs'
  /\ [HNext]_<<vars, hVars>>
  => [Token!Next]_(Token!vars)
<1> SUFFICES ASSUME TypeOK, OneHas, OneHas', HolderIs, HolderIs', [HNext]_<<vars, hVars>>
             PROVE  TokenMoves
  BY DEF TokenMoves
<1>1. CASE HRestart
  <2>1. Token!Restart
    BY <1>1 DEF HRestart, Restart, Token!Restart, HolderIs
  <2>2. QED
    BY <2>1 DEF TokenMoves, Token!Next
<1>2. CASE (CloudTake \/ UNCHANGED vars) /\ UNCHANGED hVars
  <2>1. /\ UNCHANGED <<restarts, owed, localId, sem, cfgPc, localCmdMsgId, endDeviceConf>>
        /\ UNCHANGED <<localQ, tmPc, cnt, flag, ptPc, reg>>
    BY <1>2 DEF CloudTake, vars, envVars, cfgVars, queueVars, tmVars, portVars, hVars
  <2>2. UNCHANGED PermitHolder
    BY <2>1 DEF PermitHolder, ConfigHas, ConfigJammed, TimerHas, PortHas, UpdateHas, CountDead
  <2>3. QED
    BY <2>1, <2>2 DEF TokenMoves, Token!vars
<1>3. CASE HTimerStep
  <2>1. Detect => UNCHANGED hVars
    BY <1>3 DEF HTimerStep, HApplyIface, HReload, Detect, ApplyIface, Reload
  <2>2. QED
    BY <1>3, <2>1, TokenDetect, TokenTimer
<1>4. QED
  BY <1>1, <1>2, <1>3, TokenConfig, TokenPort DEF HNext, OtherStep, HTimerStep

\* The semaphore is the single permit of PermitToken, which an update has from
\* the timer until the timer has posted it or will not post it any more, whatever
\* ports there are and whatever the sizes of messages and queues.
THEOREM UpdatesToken == HSpec => ImplementsToken
<1>1. HInit => Token!Init
  BY DEF HInit, Init, Token!Init, PermitHolder
<1>2. HInv => OneHas /\ HolderIs
  BY Holder DEF HInv
<1>3. QED
  BY <1>1, <1>2, TokenStep, HInvAlways, HImplements, TypeCorrect, PTL
     DEF HSpec, ImplementsToken, Token!Spec
==============================================================================
