----------------------------- MODULE XethMuxLife -----------------------------
(***************************************************************************)
(* The lifecycle of the mux in src/xeth_mux.c: xeth_mux_init at module    *)
(* start, with the failure of each of its steps, and xeth_mux_deinit at   *)
(* module stop or after a failed start, which stops the sideband task,    *)
(* busy-waits on its sb_task flag, detaches the lowers, unregisters the   *)
(* proxies and the mux and releases the sbrx state.  The sideband task    *)
(* (xeth_sb_start and its thread function) is not under src/; it is       *)
(* modelled from the spec: kthread_run creates it, and once the scheduler *)
(* first runs it, it sets its sb_task flag ("report started"), runs until *)
(* asked to stop, then clears the flag and exits.  Lowers and proxies     *)
(* attach while the mux is registered and deinit has not taken rtnl.     *)
(***************************************************************************)
EXTENDS FiniteSets

CONSTANTS
    Lower,      \* lower links that may be attached
    Upper,      \* proxies that may be created
    Outcome,    \* the ways xeth_mux_init may end
    EarlyRmmod  \* rmmod may begin before the new thread has first run

ASSUME /\ Outcome \subseteq {"ok", "sbrx_fail", "alloc_fail", "reg_fail",
                             "sb_fail"}
       /\ EarlyRmmod \in BOOLEAN

VARIABLES
    pc,         \* where the module is: "load", "up", "failed", or in deinit
    ret,        \* what xeth_mux_init, then xeth_mux_deinit, returned
    muxPtr,     \* the global xeth_mux: "null", "err", "dev" or "freed"
    reg,        \* the mux net device is registered
    sbrx,       \* xeth_sbrx_init's state is held
    sb,         \* priv->sb: "null", "err" or "task"
    task,       \* the sideband task: "none", "created", "running", "exited"
    stopReq,    \* kthread_stop has been called on the task
    flag,       \* the sb_task flag bit
    lowers,     \* lowers attached to the mux
    uppers,     \* proxies registered on the mux
    uaf         \* freed mux memory was read

vars == <<pc, ret, muxPtr, reg, sbrx, sb, task, stopReq, flag, lowers, uppers,
          uaf>>

DeinitPc == {"stop_task", "spin", "teardown"}

-----------------------------------------------------------------------------
(* xeth_mux_priv: NULL for a NULL or error pointer, else netdev_priv.     *)
MuxPriv == muxPtr \in {"dev", "freed"}

(* xeth_mux_flag: the bit, read under flag.mutex; false without a priv.   *)
XethFlag == MuxPriv /\ flag

(* xeth_mux_flag_set and xeth_mux_flag_clear: no-ops without a priv.      *)
FlagSet == IF MuxPriv THEN flag' = TRUE ELSE UNCHANGED flag

FlagClear == IF MuxPriv THEN flag' = FALSE ELSE UNCHANGED flag

SbStartRetNoIsErr(s) == IF s = "err" THEN "err" ELSE "ptr"

(* The value xeth_mux_init returns after xeth_sb_start.                   *)
SbStartRet(s) == IF s = "err" THEN "err" ELSE "ok"

Init ==
    /\ pc = "load" /\ ret = "none"
    /\ muxPtr = "null" /\ reg = FALSE /\ sbrx = FALSE
    /\ sb = "null" /\ task = "none" /\ stopReq = FALSE /\ flag = FALSE
    /\ lowers = {} /\ uppers = {} /\ uaf = FALSE

(* xeth_mux_init: sbrx_init, alloc_netdev_mqs, register_netdevice, then   *)
(* xeth_sb_start.  An allocation failure returns with the sbrx state      *)
(* held; a register failure kfree's the device and leaves xeth_mux        *)
(* pointing at it.                                                        *)
MuxInit(o) ==
    /\ pc = "load"
    /\ pc' = IF o = "ok" THEN "up" ELSE "failed"
    /\ sbrx' = (o # "sbrx_fail")
    /\ muxPtr' = CASE o = "sbrx_fail" -> "null"
                   [] o = "alloc_fail" -> "err"
                   [] o = "reg_fail" -> "freed"
                   [] OTHER -> "dev"
    /\ reg' = (o \in {"ok", "sb_fail"})
    /\ sb' = CASE o = "ok" -> "task" [] o = "sb_fail" -> "err" [] OTHER -> "null"
    /\ task' = IF o = "ok" THEN "created" ELSE "none"
    /\ ret' = IF o \in {"ok", "sb_fail"} THEN SbStartRet(sb') ELSE "err"
    /\ UNCHANGED <<stopReq, flag, lowers, uppers, uaf>>

(* A lower is enslaved (xeth_mux_add_lower) or released                    *)
(* (xeth_mux_del_lower), a proxy created or deleted, while the mux is      *)
(* registered and deinit has not yet taken the rtnl lock.                 *)
AttachOpen == reg /\ pc \in {"up", "stop_task", "spin"}

AddLower(l) ==
    /\ AttachOpen /\ l \notin lowers
    /\ lowers' = lowers \cup {l}
    /\ UNCHANGED <<pc, ret, muxPtr, reg, sbrx, sb, task, stopReq, flag,
                   uppers, uaf>>

DelLower(l) ==
    /\ AttachOpen /\ l \in lowers
    /\ lowers' = lowers \ {l}
    /\ UNCHANGED <<pc, ret, muxPtr, reg, sbrx, sb, task, stopReq, flag,
                   uppers, uaf>>

ProxyAdd(x) ==
    /\ AttachOpen /\ x \notin uppers
    /\ uppers' = uppers \cup {x}
    /\ UNCHANGED <<pc, ret, muxPtr, reg, sbrx, sb, task, stopReq, flag,
                   lowers, uaf>>

ProxyDel(x) ==
    /\ AttachOpen /\ x \in uppers
    /\ uppers' = uppers \ {x}
    /\ UNCHANGED <<pc, ret, muxPtr, reg, sbrx, sb, task, stopReq, flag,
                   lowers, uaf>>

-----------------------------------------------------------------------------
(* The head of xeth_mux_deinit: no priv, return err at once.  With the     *)
(* sb_task flag set, kthread_stop the task if priv->sb holds one (and     *)
(* wait for it to exit), then spin on the flag.  Reading priv of a freed  *)
(* mux is a use after free, and the kernel oopses.                        *)
DeinitBeginNoStop ==
    /\ pc \in {"up", "failed"} /\ (EarlyRmmod \/ task # "created")
    /\ IF ~MuxPriv THEN pc' = "done" /\ UNCHANGED <<uaf, stopReq>>
       ELSE IF muxPtr = "freed" THEN pc' = "done" /\ uaf' = TRUE
                                     /\ UNCHANGED stopReq
       ELSE /\ pc' = IF XethFlag THEN "spin" ELSE "teardown"
            /\ UNCHANGED <<uaf, stopReq>>
    /\ UNCHANGED <<ret, muxPtr, reg, sbrx, sb, task, flag, lowers, uppers>>

DeinitBeginNoWait ==
    /\ pc \in {"up", "failed"} /\ (EarlyRmmod \/ task # "created")
    /\ IF ~MuxPriv THEN pc' = "done" /\ UNCHANGED <<uaf, stopReq>>
       ELSE IF muxPtr = "freed" THEN pc' = "done" /\ uaf' = TRUE
                                     /\ UNCHANGED stopReq
       ELSE /\ stopReq' = (XethFlag /\ sb = "task")
            /\ pc' = "teardown"
            /\ UNCHANGED uaf
    /\ UNCHANGED <<ret, muxPtr, reg, sbrx, sb, task, flag, lowers, uppers>>

DeinitBegin ==
    /\ pc \in {"up", "failed"} /\ (EarlyRmmod \/ task # "created")
    /\ IF ~MuxPriv THEN pc' = "done" /\ UNCHANGED <<uaf, stopReq>>
       ELSE IF muxPtr = "freed" THEN pc' = "done" /\ uaf' = TRUE
                                     /\ UNCHANGED stopReq
       ELSE /\ stopReq' = (XethFlag /\ sb = "task")
            /\ pc' = CASE XethFlag /\ sb = "task" -> "stop_task"
                       [] XethFlag -> "spin"
                       [] OTHER -> "teardown"
            /\ UNCHANGED uaf
    /\ UNCHANGED <<ret, muxPtr, reg, sbrx, sb, task, flag, lowers, uppers>>

(* kthread_stop returns once the task has exited; priv->sb = NULL.        *)
StopReturns ==
    /\ pc = "stop_task" /\ task = "exited"
    /\ pc' = "spin" /\ sb' = "null"
    /\ UNCHANGED <<ret, muxPtr, reg, sbrx, task, stopReq, flag, lowers,
                   uppers, uaf>>

(* while (xeth_flag(sb_task)) ;  one test of the flag that finds it clear. *)
SpinEnds ==
    /\ pc = "spin" /\ ~XethFlag
    /\ pc' = "teardown"
    /\ UNCHANGED <<ret, muxPtr, reg, sbrx, sb, task, stopReq, flag, lowers,
                   uppers, uaf>>

TeardownNoSbrxDeinit ==
    /\ pc = "teardown"
    /\ pc' = "done"
    /\ lowers' = {} /\ uppers' = {} /\ reg' = FALSE /\ muxPtr' = "null"
    /\ UNCHANGED <<ret, sbrx, sb, task, stopReq, flag, uaf>>

(* The rest of xeth_mux_deinit, under rtnl: delete every lower, unregister *)
(* every proxy, then (after rcu_barrier) the mux; xeth_mux = NULL; and    *)
(* return xeth_sbrx_deinit(err).                                          *)
Teardown ==
    /\ pc = "teardown"
    /\ pc' = "done"
    /\ lowers' = {} /\ uppers' = {} /\ reg' = FALSE /\ muxPtr' = "null"
    /\ sbrx' = FALSE
    /\ UNCHANGED <<ret, sb, task, stopReq, flag, uaf>>

(* The scheduler first runs the new thread: it sets its sb_task flag.     *)
TaskRun ==
    /\ task = "created"
    /\ task' = "running" /\ FlagSet
    /\ UNCHANGED <<pc, ret, muxPtr, reg, sbrx, sb, stopReq, lowers, uppers,
                   uaf>>

(* The sideband task, asked to stop, clears its flag and exits.           *)
TaskExit ==
    /\ task = "running" /\ stopReq
    /\ task' = "exited" /\ FlagClear
    /\ UNCHANGED <<pc, ret, muxPtr, reg, sbrx, sb, stopReq, lowers, uppers,
                   uaf>>

Next ==
    \/ \E o \in Outcome : MuxInit(o)
    \/ \E l \in Lower : AddLower(l) \/ DelLower(l)
    \/ \E x \in Upper : ProxyAdd(x) \/ ProxyDel(x)
    \/ DeinitBegin \/ StopReturns \/ SpinEnds \/ Teardown
    \/ TaskRun \/ TaskExit

(* Once deinit has started, the rmmod thread keeps running its steps, and *)
(* the scheduler runs the woken sideband thread, first and after a stop.  *)
Fairness ==
    /\ WF_vars(StopReturns) /\ WF_vars(SpinEnds) /\ WF_vars(Teardown)
    /\ WF_vars(TaskRun) /\ WF_vars(TaskExit)

Spec == Init /\ [][Next]_vars /\ Fairness

-----------------------------------------------------------------------------
(* Every variable keeps its type; in particular xeth_mux_init returns 0   *)
(* or an error, never the sideband task pointer.                          *)
TypeOK ==
    /\ pc \in {"load", "up", "failed", "done"} \cup DeinitPc
    /\ ret \in {"none", "ok", "err"}
    /\ muxPtr \in {"null", "err", "dev", "freed"}
    /\ reg \in BOOLEAN /\ sbrx \in BOOLEAN /\ sb \in {"null", "err", "task"}
    /\ task \in {"none", "created", "running", "exited"}
    /\ stopReq \in BOOLEAN /\ flag \in BOOLEAN
    /\ lowers \subseteq Lower /\ uppers \subseteq Upper /\ uaf \in BOOLEAN

(* When xeth_mux_deinit has returned, whatever xeth_mux_init acquired is  *)
(* released: the sbrx state, the registered mux, every lower and proxy;   *)
(* xeth_mux is NULL or an error pointer, and no sideband thread is left   *)
(* to run module code that is about to be unloaded.                      *)
ResourcesReleased ==
    pc = "done" =>
        /\ ~sbrx /\ ~reg /\ lowers = {} /\ uppers = {}
        /\ muxPtr \in {"null", "err"} /\ task \notin {"created", "running"}

(* xeth_mux_deinit always returns: its busy-wait on the sb_task flag      *)
(* (xeth_mux.c, "while (xeth_flag(sb_task)) ;") ends.                     *)
DeinitCompletes == \A q \in DeinitPc : (pc = q) ~> (pc = "done")

(* No step reads the mux after it was freed.                              *)
NoUseAfterFree == ~uaf

(* The lifecycle implements XethMuxLifeAbs: the device is released, with  *)
(* its links, only after the sideband task has stopped.                   *)
Abs == INSTANCE XethMuxLifeAbs WITH
    Link <- Lower \cup Upper,
    dev <- IF reg THEN "present" ELSE "absent",
    task <- IF task \in {"created", "running"} THEN "running" ELSE "idle",
    links <- lowers \cup uppers

AbsSpec == Abs!Spec

=============================================================================
