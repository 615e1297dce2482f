----------------------------- MODULE PermitToken -----------------------------
(***************************************************************************)
(* What deviceConfSem promises: there is one permit.  The config thread    *)
(* has it while it parses a device file and sends it, the timer while it   *)
(* reads the message, then the port the configuration is for until it has  *)
(* finished with it, or the interface update until the count of its        *)
(* acknowledgements is at zero.  A malformed file, a configuration for no  *)
(* port or one whose flag is cleared before the port sees it, a full queue *)
(* and an update the timer loses count of lose it, and only a restart of   *)
(* the process makes a new one.  "extra" stands for all that follows when  *)
(* a permit is posted that no update is owed.                              *)
(***************************************************************************)
EXTENDS Naturals

CONSTANTS Ports,       \* the ports of the gateway
          MaxRestarts  \* bound: restarts of the process

VARIABLES holder,      \* who has the permit
          restarts     \* restarts so far

vars == <<holder, restarts>>

Init == holder = "free" /\ restarts = 0

Pass(from, to) ==
    /\ holder = from
    /\ holder' = to
    /\ UNCHANGED restarts

ConfigTakes == Pass("free", "config")
ConfigEnds == \E to \in {"free", "lost"} : Pass("config", to)
TimerTakes == Pass("free", "timer")
TimerEnds == \E to \in Ports \cup {"update", "lost"} : Pass("timer", to)
PortEnds(p) == \E to \in {"free", "lost"} : Pass(p, to)
UpdateEnds == \E to \in {"free", "lost"} : Pass("update", to)

\* A permit is posted that nobody had taken.
Extra == \E from \in Ports \cup {"free", "config", "lost", "extra"} : Pass(from, "extra")

Restart ==
    /\ restarts < MaxRestarts
    /\ restarts' = restarts + 1
    /\ holder' = "free"

Next ==
    \/ ConfigTakes \/ ConfigEnds
    \/ TimerTakes \/ TimerEnds
    \/ \E p \in Ports : PortEnds(p)
    \/ UpdateEnds \/ Extra
    \/ Restart

Spec == Init /\ [][Next]_vars

\* Whoever has the permit is done with it in the end.
FairSpec ==
    /\ Spec
    /\ WF_vars(ConfigEnds)
    /\ WF_vars(TimerEnds)
    /\ \A p \in Ports : WF_vars(PortEnds(p))
    /\ WF_vars(UpdateEnds)
==============================================================================
