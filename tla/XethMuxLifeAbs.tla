---------------------------- MODULE XethMuxLifeAbs ----------------------------
(***************************************************************************)
(* What the mux lifecycle promises (spec, section 5, cancellation and     *)
(* teardown): the mux device is created once at module start, with or    *)
(* without a running sideband task; links (lowers and proxies) attach to  *)
(* it only while it exists; and it is released, together with every link *)
(* still attached, only after the sideband task has stopped.              *)
(***************************************************************************)
CONSTANTS Link          \* lowers and proxies that may attach to the mux

VARIABLES
    dev,        \* "absent" or "present": the registered mux device
    task,       \* "idle" or "running": the sideband receive task
    links       \* the links attached to the mux

vars == <<dev, task, links>>

Init ==
    /\ dev = "absent"
    /\ task = "idle"
    /\ links = {}

Create ==
    /\ dev = "absent"
    /\ dev' = "present"
    /\ task' \in {"idle", "running"}
    /\ UNCHANGED links

Attach(k) ==
    /\ dev = "present"
    /\ links' = links \cup {k}
    /\ UNCHANGED <<dev, task>>

Detach(k) ==
    /\ k \in links
    /\ links' = links \ {k}
    /\ UNCHANGED <<dev, task>>

TaskEnd ==
    /\ task = "running"
    /\ task' = "idle"
    /\ UNCHANGED <<dev, links>>

Release ==
    /\ dev = "present"
    /\ task = "idle"
    /\ dev' = "absent"
    /\ links' = {}
    /\ UNCHANGED task

Next ==
    \/ Create \/ TaskEnd \/ Release
    \/ \E k \in Link : Attach(k) \/ Detach(k)

Spec == Init /\ [][Next]_vars

=============================================================================
