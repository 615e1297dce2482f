-------------------------- MODULE ConfHandoffPermit --------------------------
(***************************************************************************)
(* Who has the permit of ConfHandoff, and that one at a time has it.       *)
(***************************************************************************)
EXTENDS ConfHandoff

\* Who has the permit: the config thread while it rewrites endDeviceConf and
\* the message, the timer while it reads a message, a port from the moment its
\* flag is raised until it posts.
ConfigHas == cfgPc \in {"parse", "send2", "post"}
TimerHas == tmPc = "apply"
PortHas(p) == flag[p] = 2 \/ ptPc[p] \in {"work", "post"}

\* The permit is exclusive: never do two threads have it, nor is it free while
\* one has it (config.c:668-684, device.c:394-435, 762-774).
OnePermit ==
    /\ sem \in {0, 1}
    /\ sem = 1 => ~ConfigHas /\ ~TimerHas /\ \A p \in Ports : ~PortHas(p)
    /\ ConfigHas => ~TimerHas /\ \A p \in Ports : ~PortHas(p)
    /\ TimerHas => \A p \in Ports : ~PortHas(p)
    /\ \A p, q \in Ports : PortHas(p) /\ PortHas(q) => p = q

\* tempConfig points into the timer's buffer (device.c:411), which the timer
\* clears at every tick (385) and fills with the next message before it waits
\* for the permit (386, 394).  A port at work can find it cleared; it finds the
\* configuration of another port only while the timer waits.
OwnConf ==
    \A p \in Ports : PortHas(p) =>
        \/ localBuf.mtype # 2
        \/ localBuf.conf = p
        \/ tmPc = "wait"
==============================================================================
