------------------------------- MODULE XethNb -------------------------------
(***************************************************************************)
(* The event bridge of src/dkms/xeth_nb.c and the two dump requests of     *)
(* src/dkms/xeth_sbrx.c that start it.  The kernel side is an environment  *)
(* of network namespaces (created, put on net_namespace_list, taken off it *)
(* and destroyed, with their loopback registered and unregistered through  *)
(* the netdevice notifier), proxies registering, and route, address and    *)
(* neighbour events.  Each notifier turns an event into zero or one        *)
(* message appended to sbtx, the sideband transmit queue.                  *)
(***************************************************************************)
EXTENDS Integers, Sequences, SequencesExt, Functions, FiniteSets

CONSTANTS
    Net,        \* network namespaces
    InitNet,    \* init_net, which always exists
    XID,        \* XIDs of the mux's proxies (all non-zero)
    Foreign,    \* a net device that is no proxy of this mux
    NoNet,      \* the namespace field of a message that has none
    Variant,    \* values of fib_notifier_info_with_net (TRUE: before 5.5)
    RegFail,    \* whether registering a fib notifier may fail
    IfinfoFirst,\* whether the daemon dumps ifinfo before fibinfo
    MaxEv,      \* bound on route/address/neighbour events
    MaxDump,    \* bound on dump requests
    MaxLife,    \* bound on namespace creations and proxy registrations
    Teardown,   \* kernel variants in which the module is stopped
    FibStopFirst\* whether xeth_nb_stop_all_fib precedes the netdevice stop

ASSUME /\ InitNet \in Net /\ NoNet \notin Net /\ Foreign \notin XID
       /\ 0 \notin XID
       /\ Variant \subseteq BOOLEAN /\ RegFail \in BOOLEAN
       /\ IfinfoFirst \in BOOLEAN
       /\ MaxEv \in Nat /\ MaxDump \in Nat /\ MaxLife \in Nat
       /\ Teardown \subseteq Variant /\ FibStopFirst \in BOOLEAN

Notifier == {"inetaddr", "inet6addr", "netdevice", "netevent"}
Family   == {"inet", "inet6"}

(* A sideband message: its kind, the namespace and XID it is about, and,  *)
(* for a route, the number of the kernel event it reports.                 *)
Msg(k, ns, x, e) == [kind |-> k, ns |-> ns, xid |-> x, ev |-> e]
Message ==
    [kind : {"ifinfo", "ifa", "ifa6"}, ns : Net, xid : XID, ev : {0}]
    \cup [kind : {"netns_add", "netns_del"}, ns : Net, xid : {0}, ev : {0}]
    \cup [kind : {"fib"}, ns : Net, xid : {0}, ev : Nat \ {0}]
    \cup [kind : {"break", "neigh"}, ns : {NoNet}, xid : {0}, ev : {0}]

VARIABLES
    nsState,    \* per namespace: absent, init (set up), listed, exiting
    netList,    \* net_namespace_list, in order
    fibs,       \* nb->fibs: the namespaces with a fib notifier, in order
    notif,      \* the mux's *_notifier flag bits
    proxies,    \* XIDs of the registered proxies
    sbtx,       \* messages queued to the daemon
    routes,     \* history: the namespace of each route event, in order
    nEv,        \* events delivered so far
    nDump,      \* dump requests handled so far
    nLife,      \* namespaces created and proxies registered so far
    req,        \* kind of the last sideband request handled
    withNet,    \* the kernel variant, fixed at boot
    stopped     \* module stop: the calls made so far, "rx" (the sideband rx
                \* task stopped) then the stop functions in StopOrder

vars == <<nsState, netList, fibs, notif, proxies, sbtx, routes, nEv, nDump,
          nLife, req, withNet, stopped>>

Listed == ToSet(netList)

-----------------------------------------------------------------------------
(* xeth_nb_start_fib as the set of its outcomes, each a new fibs list and *)
(* the error returned: -EBUSY for a namespace already on the list, else   *)
(* the fmn is allocated and registered (which can fail) and appended.     *)
StartFib(fl, n) ==
    IF n \in ToSet(fl) THEN {[fibs |-> fl, err |-> "EBUSY"]}
    ELSE {[fibs |-> Append(fl, n), err |-> "OK"]}
         \cup (IF RegFail THEN {[fibs |-> fl, err |-> "EFAIL"]} ELSE {})

StartNewFibAlways(fl, n) ==
    IF ~withNet THEN StartFib(fl, n) ELSE {[fibs |-> fl, err |-> "OK"]}

(* xeth_nb_start_new_fib: only kernels whose fib events lack the          *)
(* namespace subscribe per namespace, and only once fibinfo was dumped.   *)
StartNewFib(fl, n) ==
    IF ~withNet /\ fl # <<>> THEN StartFib(fl, n)
    ELSE {[fibs |-> fl, err |-> "OK"]}

(* The loop of xeth_nb_start_all_fib over the namespaces after init_net: *)
(* it returns at the first error.                                          *)
RECURSIVE StartRest(_, _)
StartRest(fl, nets) ==
    IF nets = <<>> THEN {fl}
    ELSE UNION {IF r.err # "OK" THEN {r.fibs}
                ELSE StartRest(r.fibs, Tail(nets))
                : r \in StartNewFib(fl, Head(nets))}

(* xeth_nb_start_all_fib: init_net first, its error only printed.         *)
StartAllFib(fl) ==
    UNION {StartRest(r.fibs, SelectSeq(netList, LAMBDA n : n # InitNet))
           : r \in StartFib(fl, InitNet)}

(* xeth_nb_stop_net_fib: drop every fmn of the namespace.                 *)
StopNetFibKeep(fl, n) == fl

StopNetFib(fl, n) == SelectSeq(fl, LAMBDA m : m # n)

(* xeth_fibmuxnet_net: the namespace a fib event is reported with.        *)
FibNetOfFmn(fmnNet, evNet) == fmnNet

FibNet(fmnNet, evNet) == IF withNet THEN evNet ELSE fmnNet

ReachedAllNets(fl, n) == fl

(* The fmns whose notifier a route event in namespace n reaches: before  *)
(* 5.5 a fib notifier hears every namespace, after it only its own.       *)
Reached(fl, n) == SelectSeq(fl, LAMBDA m : withNet \/ m = n)

(* xeth_nb_start_##NB: -EBUSY if the flag is set, else register the      *)
(* notifier and set the flag; either way the notifier is on afterwards.   *)
StartNotifier(nf, b) == [nf EXCEPT ![b] = TRUE]

StopNotifierKeep(nf, b) == nf

(* xeth_nb_stop_##NB: if the flag is set, unregister the notifier and    *)
(* clear the flag; else nothing.                                           *)
StopNotifier(nf, b) == [nf EXCEPT ![b] = FALSE]

(* The order module stop calls the stop functions in.  The three address *)
(* and neighbour stops only clear their own flag, so their order does not *)
(* matter; the order of the fib and netdevice stops is a parameter.       *)
StopOrder ==
    <<"inetaddr", "inet6addr", "netevent">>
    \o (IF FibStopFirst THEN <<"fib", "netdevice">> ELSE <<"netdevice", "fib">>)

(* The stop function module stop calls next.                              *)
NextStop ==
    IF "rx" \in stopped /\ Cardinality(stopped) <= Len(StopOrder)
    THEN StopOrder[Cardinality(stopped)] ELSE "none"

(* register_netdevice_notifier and unregister_netdevice_notifier take    *)
(* pernet_ops_rwsem for write; copy_net_ns holds it for read from         *)
(* setup_net to the list_add, and cleanup_net from the list_del to the    *)
(* loopback's unregister.  So the netdevice notifier cannot come or go    *)
(* while a namespace is between those steps.                               *)
PernetOpsFree == \A n \in Net : nsState[n] \notin {"init", "exiting"}

-----------------------------------------------------------------------------
Init ==
    /\ nsState = [n \in Net |-> IF n = InitNet THEN "listed" ELSE "absent"]
    /\ netList = <<InitNet>>
    /\ fibs = <<>>
    /\ notif = [b \in Notifier |-> FALSE]
    /\ proxies = {}
    /\ sbtx = <<>>
    /\ routes = <<>>
    /\ nEv = 0
    /\ nDump = 0
    /\ nLife = 0
    /\ req = "none"
    /\ withNet \in Variant
    /\ stopped = {}

(* setup_net: the loopback registers (the netdevice notifier reports the *)
(* namespace and may start its fib notifier) before the namespace is put *)
(* on net_namespace_list.                                                  *)
NetCreate(n) ==
    /\ nsState[n] = "absent"
    /\ nLife < MaxLife
    /\ nLife' = nLife + 1
    /\ nsState' = [nsState EXCEPT ![n] = "init"]
    /\ IF notif["netdevice"]
       THEN \E r \in StartNewFib(fibs, n) :
               /\ fibs' = r.fibs
               /\ sbtx' = Append(sbtx, Msg("netns_add", n, 0, 0))
       ELSE UNCHANGED <<fibs, sbtx>>
    /\ UNCHANGED <<stopped, withNet, netList, notif, proxies, routes, nEv, nDump, req>>

NetList(n) ==
    /\ nsState[n] = "init"
    /\ nsState' = [nsState EXCEPT ![n] = "listed"]
    /\ netList' = Append(netList, n)
    /\ UNCHANGED <<stopped, withNet, fibs, notif, proxies, sbtx, routes, nEv, nDump,
                   req, nLife>>

(* cleanup_net: the namespace leaves the list, then its loopback          *)
(* unregisters and the netdevice notifier stops its fib notifier.         *)
NetUnlist(n) ==
    /\ n # InitNet
    /\ nsState[n] = "listed"
    /\ nsState' = [nsState EXCEPT ![n] = "exiting"]
    /\ netList' = Remove(netList, n)
    /\ UNCHANGED <<stopped, withNet, fibs, notif, proxies, sbtx, routes, nEv, nDump,
                   req, nLife>>

NetDestroy(n) ==
    /\ nsState[n] = "exiting"
    /\ nsState' = [nsState EXCEPT ![n] = "absent"]
    /\ IF notif["netdevice"]
       THEN /\ fibs' = StopNetFib(fibs, n)
            /\ sbtx' = Append(sbtx, Msg("netns_del", n, 0, 0))
       ELSE UNCHANGED <<fibs, sbtx>>
    /\ UNCHANGED <<stopped, withNet, netList, notif, proxies, routes, nEv, nDump, req,
                   nLife>>

(* A proxy registers in init_net: the netdevice notifier reports it.      *)
ProxyRegister(x) ==
    /\ x \notin proxies
    /\ nLife < MaxLife
    /\ nLife' = nLife + 1
    /\ proxies' = proxies \cup {x}
    /\ sbtx' = IF notif["netdevice"]
               THEN Append(sbtx, Msg("ifinfo", InitNet, x, 0)) ELSE sbtx
    /\ UNCHANGED <<stopped, withNet, nsState, netList, fibs, notif, routes, nEv, nDump,
                   req>>

(* Unregister is ignored by the notifier (the proxy's dellink reports it). *)
ProxyUnregister(x) ==
    /\ x \in proxies
    /\ proxies' = proxies \ {x}
    /\ UNCHANGED <<stopped, withNet, nsState, netList, fibs, notif, sbtx, routes, nEv,
                   nDump, req, nLife>>

(* xeth_nb_fib: a route add/replace/append/del in namespace n reaches     *)
(* every fmn whose notifier hears n, and each reports it.                  *)
RouteEvent(n) ==
    LET hit == Reached(fibs, n)
    IN  /\ nEv < MaxEv
        /\ n \in Listed
        /\ nEv' = nEv + 1
        /\ routes' = Append(routes, n)
        /\ sbtx' = sbtx \o [i \in 1..Len(hit) |->
                               Msg("fib", FibNet(hit[i], n), 0, Len(routes'))]
        /\ UNCHANGED <<stopped, withNet, nsState, netList, fibs, notif, proxies, nDump,
                       req, nLife>>

AddrEventAnyDev(fam, d) ==
    LET b == IF fam = "inet" THEN "inetaddr" ELSE "inet6addr"
        k == IF fam = "inet" THEN "ifa" ELSE "ifa6"
    IN  /\ nEv < MaxEv
        /\ nEv' = nEv + 1
        /\ sbtx' = IF notif[b] THEN Append(sbtx, Msg(k, InitNet, d, 0))
                   ELSE sbtx
        /\ UNCHANGED <<stopped, withNet, nsState, netList, fibs, notif, proxies,
                       routes, nDump, req, nLife>>

(* xeth_nb_inetaddr / xeth_nb_inet6addr: reported only for a proxy of     *)
(* this mux with a non-zero XID, and only while the notifier is on.        *)
AddrEvent(fam, d) ==
    LET b == IF fam = "inet" THEN "inetaddr" ELSE "inet6addr"
        k == IF fam = "inet" THEN "ifa" ELSE "ifa6"
    IN  /\ nEv < MaxEv
        /\ nEv' = nEv + 1
        /\ sbtx' = IF notif[b] /\ d \in proxies
                   THEN Append(sbtx, Msg(k, InitNet, d, 0)) ELSE sbtx
        /\ UNCHANGED <<stopped, withNet, nsState, netList, fibs, notif, proxies,
                       routes, nDump, req, nLife>>

(* xeth_nb_netevent: a neighbour update is always reported.               *)
NeighEvent ==
    /\ nEv < MaxEv
    /\ nEv' = nEv + 1
    /\ sbtx' = IF notif["netevent"]
               THEN Append(sbtx, Msg("neigh", NoNet, 0, 0)) ELSE sbtx
    /\ UNCHANGED <<stopped, withNet, nsState, netList, fibs, notif, proxies, routes,
                   nDump, req, nLife>>

ProxyMsgs(kind) ==
    LET xs == SetToSeq(proxies)
    IN  [i \in 1..Len(xs) |-> Msg(kind, InitNet, xs[i], 0)]

(* register_netdevice_notifier replays REGISTER for every device of every *)
(* listed namespace, its loopback first: each loopback reports its        *)
(* namespace and may start its fib notifier; the proxies, all in          *)
(* init_net, each report their ifinfo.                                     *)
RECURSIVE ReplayNets(_, _)
ReplayNets(st, nets) ==
    IF nets = <<>> THEN {st}
    ELSE LET n    == Head(nets)
             msgs == Append(st.msgs, Msg("netns_add", n, 0, 0))
                     \o (IF n = InitNet THEN ProxyMsgs("ifinfo") ELSE <<>>)
         IN  UNION {ReplayNets([fibs |-> r.fibs, msgs |-> msgs], Tail(nets))
                    : r \in StartNewFib(st.fibs, n)}

(* XETH_MSG_KIND_DUMP_IFINFO: every proxy's ifinfo, a break, then the     *)
(* netdevice and inetaddr notifiers are started (each -EBUSY if on).      *)
DumpIfinfo ==
    LET dumped == sbtx \o ProxyMsgs("ifinfo") \o <<Msg("break", NoNet, 0, 0)>>
    IN  /\ nDump < MaxDump
        /\ "rx" \notin stopped
        /\ ~notif["netdevice"] => PernetOpsFree
        /\ nDump' = nDump + 1
        /\ req' = "ifinfo"
        /\ IF notif["netdevice"]
           THEN /\ sbtx' = dumped
                /\ UNCHANGED fibs
           ELSE \E st \in ReplayNets([fibs |-> fibs, msgs |-> dumped],
                                     netList) :
                   /\ fibs' = st.fibs
                   /\ sbtx' = st.msgs
        /\ notif' = StartNotifier(StartNotifier(notif, "netdevice"),
                                  "inetaddr")
        /\ UNCHANGED <<stopped, withNet, nsState, netList, proxies, routes, nEv, nLife>>

(* XETH_MSG_KIND_DUMP_FIBINFO: start every fib notifier, a break, then    *)
(* the netevent notifier.                                                  *)
DumpFibinfo ==
    /\ nDump < MaxDump
    /\ "rx" \notin stopped
    /\ IfinfoFirst => notif["netdevice"]
    /\ nDump' = nDump + 1
    /\ req' = "fibinfo"
    /\ fibs' \in StartAllFib(fibs)
    /\ sbtx' = Append(sbtx, Msg("break", NoNet, 0, 0))
    /\ notif' = StartNotifier(notif, "netevent")
    /\ UNCHANGED <<stopped, withNet, nsState, netList, proxies, routes, nEv, nLife>>

(* Module stop begins: the sideband rx task is stopped first (spec 5),   *)
(* so no dump request restarts a subscription.                            *)
StopRx ==
    /\ withNet \in Teardown /\ stopped = {}
    /\ stopped' = {"rx"}
    /\ UNCHANGED <<nsState, netList, fibs, notif, proxies, sbtx, routes, nEv,
                   nDump, nLife, req, withNet>>

(* xeth_nb_stop_all_fib: every fmn is unregistered and taken off the list. *)
StopAllFib ==
    /\ NextStop = "fib"
    /\ stopped' = stopped \cup {"fib"}
    /\ fibs' = <<>>
    /\ UNCHANGED <<nsState, netList, notif, proxies, sbtx, routes, nEv, nDump,
                   nLife, req, withNet>>

(* One xeth_nb_stop_##NB, namespace and proxy events going on between    *)
(* the calls.                                                              *)
StopNb(b) ==
    /\ NextStop = b
    /\ b = "netdevice" /\ notif[b] => PernetOpsFree
    /\ stopped' = stopped \cup {b}
    /\ notif' = StopNotifier(notif, b)
    /\ UNCHANGED <<nsState, netList, fibs, proxies, sbtx, routes, nEv, nDump,
                   nLife, req, withNet>>

Next ==
    \/ StopRx \/ StopAllFib \/ \E b \in Notifier : StopNb(b)
    \/ \E n \in Net : NetCreate(n) \/ NetList(n) \/ NetUnlist(n)
                      \/ NetDestroy(n) \/ RouteEvent(n)
    \/ \E x \in XID : ProxyRegister(x) \/ ProxyUnregister(x)
    \/ \E fam \in Family, d \in XID \cup {Foreign} : AddrEvent(fam, d)
    \/ NeighEvent
    \/ DumpIfinfo
    \/ DumpFibinfo

Spec == Init /\ [][Next]_vars


-----------------------------------------------------------------------------
(* Every variable keeps its type.                                          *)
TypeOK ==
    /\ nsState \in [Net -> {"absent", "init", "listed", "exiting"}]
    /\ netList \in Seq(Net) /\ fibs \in Seq(Net)
    /\ notif \in [Notifier -> BOOLEAN]
    /\ proxies \subseteq XID
    /\ sbtx \in Seq(Message)
    /\ routes \in Seq(Net)
    /\ req \in {"none", "ifinfo", "fibinfo"}
    /\ nEv \in 0..MaxEv /\ nDump \in 0..MaxDump /\ nLife \in 0..MaxLife
    /\ stopped \subseteq {"rx", "fib"} \cup Notifier

(* A route event is reported to the daemon at most once, with the         *)
(* namespace it happened in (xeth_nb_fib via xeth_fibmuxnet_net).          *)
RouteReportedOnce ==
    \A i, j \in DOMAIN sbtx :
        sbtx[i].kind = "fib" =>
            /\ sbtx[i].ns = routes[sbtx[i].ev]
            /\ (sbtx[j].kind = "fib" /\ sbtx[j].ev = sbtx[i].ev => i = j)

(* No fmn outlives its namespace: xeth_nb_stop_net_fib runs before the    *)
(* namespace is freed, so a later unregister never touches a freed net.  *)
NoStaleFib == \A i \in DOMAIN fibs : nsState[fibs[i]] # "absent"

(* Once route events are forwarded per namespace and the netdevice        *)
(* notifier watches namespaces come and go, every listed namespace has    *)
(* its fmn: the spec's "new ones as they appear".                         *)
FibCovered ==
    notif["netdevice"] /\ fibs # <<>> => Listed \subseteq ToSet(fibs)

(* A DUMP_FIBINFO request leaves every listed namespace subscribed        *)
(* (spec 4.3: it starts all per-namespace route subscriptions, and        *)
(* subscription errors are logged without aborting the dump), so a        *)
(* repeated dump repairs a namespace that missed its fmn.  This is about  *)
(* xeth_nb_start_all_fib returning at xeth_nb_start_new_fib's -EBUSY.     *)
DumpFibStartsAll ==
    [][req' = "fibinfo" /\ nDump' # nDump =>
         Listed \subseteq ToSet(fibs')]_vars

(* A DUMP_IFINFO request sends each proxy's ifinfo once, then one break,  *)
(* then the subscriptions start (spec, end-to-end scenario A).            *)
DumpIfinfoOnce ==
    [][req' = "ifinfo" /\ nDump' # nDump =>
         LET new == SubSeq(sbtx', Len(sbtx) + 1, Len(sbtx'))
         IN  \A x \in proxies :
                Cardinality({i \in DOMAIN new :
                               new[i] = Msg("ifinfo", InitNet, x, 0)})
                = 1]_vars

(* After the ifinfo dump both address-change subscriptions, IPv4 and      *)
(* IPv6, are on (spec 4.3: "interface and address-change subscriptions"). *)
AddrSubscribed ==
    notif["netdevice"] => notif["inetaddr"] /\ notif["inet6addr"]

(* Once every stop function has run, whatever order they ran in and      *)
(* whatever namespaces came and went between them, the bridge is silent:  *)
(* no fib notifier is left registered and no event queues a message      *)
(* (xeth_nb_stop_all_fib, xeth_nb_stop_##NB, and the list_empty guard of  *)
(* xeth_nb_start_new_fib).                                                 *)
QuietAfterStop ==
    [][stopped = {"rx", "fib"} \cup Notifier => fibs' = <<>> /\ sbtx' = sbtx]_vars

=============================================================================
