----------------------------- MODULE PermitHistory -----------------------------
(***************************************************************************)
(* ConfHandoff with a memory of its interface updates, which no thread has *)
(* and no step depends on.  An interface update takes one permit           *)
(* (device.c:394) and is owed one, which the timer posts when it sees      *)
(* localConfigCnt at zero (984-991).  But the thread of Rtu3 clears no     *)
(* flag and that of Rtu2 clears another's, so these two acknowledge the    *)
(* same update again in every loop, and the count can come to zero early,  *)
(* or a second time: then one more permit is posted than was taken.        *)
(*                                                                         *)
(* With what is remembered, ConfHandoff implements PermitToken for every   *)
(* set of ports, interface updates included.                               *)
(***************************************************************************)
EXTENDS ConfHandoffPermit

VARIABLES
    owed,   \* "yes": an update has taken a permit not posted yet; "extra": one
            \* has been posted that no update was owed
    acked,  \* the ports that have acknowledged the last update, until again
    again   \* some port has begun to acknowledge an update it had acknowledged

hVars == <<owed, acked, again>>

HInit == Init /\ owed = "no" /\ acked = Ports /\ again = FALSE

HApplyIface ==
    /\ ApplyIface
    /\ owed' = IF owed = "extra" THEN "extra" ELSE "yes"
    /\ acked' = {}
    /\ UNCHANGED again

HReload ==
    /\ Reload
    /\ owed' = IF owed = "yes" THEN "no" ELSE "extra"
    /\ UNCHANGED <<acked, again>>

\* A port that begins to acknowledge an update, and one that has done so.
HPortStep(p) ==
    /\ PortStep(p)
    /\ IF ptPc[p] = "poll" /\ flag[p] = 1 /\ p \in acked
       THEN again' = TRUE /\ acked' = {}
       ELSE /\ acked' = IF ptPc[p] = "store" /\ ~again THEN acked \cup {p} ELSE acked
            /\ UNCHANGED again
    /\ UNCHANGED owed

HRestart == Restart /\ owed' = "no" /\ acked' = Ports /\ again' = FALSE

\* The steps that neither take, post nor acknowledge for an update.
OtherStep ==
    /\ \/ Input \/ ConfigStep \/ CloudTake
       \/ Detect \/ TimerWait \/ SetCount \/ ApplyConf \/ Tick
    /\ UNCHANGED hVars

HNext ==
    \/ HApplyIface \/ HReload
    \/ \E p \in Ports : HPortStep(p)
    \/ HRestart
    \/ OtherStep

HSpec == HInit /\ [][HNext]_<<vars, hVars>>
HFairSpec == HSpec /\ Fairness
------------------------------------------------------------------------------
(***************************************************************************)
(* Properties.                                                             *)
(***************************************************************************)

NobodyHas == ~ConfigHas /\ ~TimerHas /\ \A p \in Ports : ~PortHas(p)

\* An update that is owed its permit has it as long as the timer may still
\* see the count at zero.  When the timer receives the next message first,
\* or the count can not come back to zero, the permit is lost.
UpdateHas ==
    /\ owed = "yes" /\ tmPc # "wait"
    /\ tmPc \in {"count", "reload"} \/ ~CountDead

PermitHolder ==
    IF owed = "extra" THEN "extra"
    ELSE IF sem = 1 THEN "free"
    ELSE IF ConfigHas THEN IF ConfigJammed THEN "lost" ELSE "config"
    ELSE IF TimerHas THEN "timer"
    ELSE IF \E p \in Ports : PortHas(p) THEN CHOOSE p \in Ports : PortHas(p)
    ELSE IF UpdateHas THEN "update"
    ELSE "lost"

Token == INSTANCE PermitToken WITH holder <- PermitHolder

\* As long as no permit has been posted that was not owed, the permit is
\* exclusive (OnePermit), and an interface update has it to itself from its
\* flags (device.c:397-406) to its post (984-991).
OneUntilExtra ==
    owed # "extra" =>
       /\ OnePermit
       /\ owed = "yes" => sem = 0 /\ NobodyHas

\* Only a port that acknowledges one update twice can make a permit come too
\* early or too often: until one does, every update has the permit to itself
\* until all ports have acknowledged it (device.c:749, 804, 855, 902, 927), and
\* what is posted is what is owed.  So the unprotected count, whose decrements
\* can get lost, errs on one side only: it may lose the permit.
UpdateExclusive ==
    ~again => /\ owed # "extra" /\ sem <= 1
              /\ acked # Ports => owed = "yes" /\ sem = 0 /\ NobodyHas

\* While there is no permit too many, a port finds its own configuration where
\* tempConfig points, as OwnConf says.
OwnUntilExtra == owed # "extra" => OwnConf

\* The threads pass the permit on only as PermitToken allows it.
ImplementsToken == Token!Spec

\* Moreover whoever has the permit gives it on in the end or it is lost: the ports
\* post after every device configuration (device.c:770-774, 825, 876, 908, 942),
\* and the timer after an update (984-991).
ImplementsFairToken == Token!FairSpec
==============================================================================
