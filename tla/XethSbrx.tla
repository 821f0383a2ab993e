------------------------------ MODULE XethSbrx ------------------------------
(***************************************************************************)
(* The sideband receive dispatcher of src/dkms/xeth_sbrx.c: each message   *)
(* from the daemon has its header checked and is then applied, by kind, to *)
(* the proxy its XID names (carrier, ethtool stat, link stat, speed).      *)
(* Proxies are created and deleted concurrently by the kernel; the two     *)
(* dump requests are modelled in XethNb.  A message is its kind, the form  *)
(* of its buffer (how it was framed), and the XID and value it carries.    *)
(***************************************************************************)
EXTENDS Naturals, FiniteSets

CONSTANTS
    XID,        \* XIDs the daemon may name
    ProxyKind,  \* XETH_DEV_KIND_*: "port" and the other proxy kinds
    Flag,       \* the carrier flag values the daemon sends (model values)
    CarrierOn,  \* XETH_CARRIER_ON
    Value,      \* stat counts and speeds carried by messages (non-zero)
    Form,       \* the buffer forms the daemon and the channel may deliver
    MaxMsg      \* bound on messages handled

ASSUME /\ "port" \in ProxyKind /\ "none" \notin ProxyKind
       /\ CarrierOn \in Flag /\ 0 \notin Value
       /\ Form \subseteq {"short", "nonzero", "badver", "trunc", "ok"}
       /\ MaxMsg \in Nat

(* XETH_MSG_KIND_*, "other" standing for every kind the switch ignores.   *)
MsgKind == {"carrier", "ethtool_stat", "link_stat", "speed", "other"}

(* The field a message of each kind carries: a carrier flag, or a count  *)
(* or speed.                                                               *)
FieldOf(k) == IF k = "carrier" THEN Flag ELSE Value

Msg == {m \in [kind : MsgKind, form : Form, xid : XID, val : Value \cup Flag] :
            m.val \in FieldOf(m.kind)}

VARIABLES
    kind,       \* the kind of the proxy registered under each XID, or none
    carrier,    \* netif_carrier_ok of each proxy's net device
    etStat,     \* last ethtool stat written to each port (0: none)
    linkStat,   \* last link stat written to each proxy (0: none)
    speed,      \* last speed written to each port (0: none)
    invalid,    \* the sbrx_invalid counter
    oops,       \* a NULL proxy was dereferenced: the sbrx task died
    ret,        \* what xeth_sbrx_msg returned for the last message
    lastMsg,    \* the last message handled
    nMsg        \* messages handled so far

vars == <<kind, carrier, etStat, linkStat, speed, invalid, oops, ret, lastMsg,
          nMsg>>

(* Everything the handlers keep about proxy x.                            *)
ProxyState(x) ==
    <<kind[x], carrier[x], etStat[x], linkStat[x], speed[x]>>

-----------------------------------------------------------------------------
(* xeth_sbrx_is_msg: the three sentinel fields read as zero.              *)
SbrxIsMsg(m) == m.form # "nonzero"

(* The checks at the top of xeth_sbrx_msg: length, sentinel, version.     *)
SbrxHeaderOk(m) == m.form \notin {"short", "badver"} /\ SbrxIsMsg(m)

(* The payload as the handler reads it.  Nothing checks n against the     *)
(* kind's payload size, so a truncated buffer yields whatever bytes       *)
(* follow it: any XID and any value.                                      *)
Payloads(m) ==
    IF m.form = "trunc" THEN [xid : XID, val : FieldOf(m.kind)]
    ELSE {[xid |-> m.xid, val |-> m.val]}

(* xeth_mux_inc_sbrx_invalid.                                             *)
IncInvalid == invalid' = invalid + 1

-----------------------------------------------------------------------------
(* The kind handlers.  Each resolves the XID with xeth_mux_proxy_of_xid   *)
(* and changes only that proxy.                                           *)
SbrxCarrierRawFlag(x, f) ==
    IF kind[x] = "port"
    THEN /\ carrier' = [carrier EXCEPT ![x] = f]
         /\ UNCHANGED <<invalid, oops>>
    ELSE /\ IncInvalid
         /\ UNCHANGED <<carrier, oops>>

SbrxCarrier(x, f) ==
    IF kind[x] = "port"
    THEN /\ carrier' = [carrier EXCEPT ![x] = (f = CarrierOn)]
         /\ UNCHANGED <<invalid, oops>>
    ELSE /\ IncInvalid
         /\ UNCHANGED <<carrier, oops>>

SbrxEtStatNoKind(x, v) ==
    /\ etStat' = IF kind[x] # "none" THEN [etStat EXCEPT ![x] = v] ELSE etStat
    /\ UNCHANGED <<invalid, oops>>

SbrxEtStat(x, v) ==
    /\ etStat' = IF kind[x] = "port" THEN [etStat EXCEPT ![x] = v] ELSE etStat
    /\ UNCHANGED <<invalid, oops>>

(* xeth_sbrx_link_stat dereferences the proxy without a NULL check.      *)
SbrxLinkStat(x, v) ==
    /\ IF kind[x] = "none"
       THEN oops' = TRUE /\ UNCHANGED linkStat
       ELSE linkStat' = [linkStat EXCEPT ![x] = v] /\ UNCHANGED oops
    /\ UNCHANGED invalid

SbrxSpeed(x, v) ==
    /\ speed' = IF kind[x] = "port" THEN [speed EXCEPT ![x] = v] ELSE speed
    /\ UNCHANGED <<invalid, oops>>

-----------------------------------------------------------------------------
Init ==
    /\ kind = [x \in XID |-> "none"]
    /\ carrier = [x \in XID |-> FALSE]
    /\ etStat = [x \in XID |-> 0]
    /\ linkStat = [x \in XID |-> 0]
    /\ speed = [x \in XID |-> 0]
    /\ invalid = 0
    /\ oops = FALSE
    /\ ret = "OK"
    /\ lastMsg = CHOOSE m \in Msg : TRUE
    /\ nMsg = 0

(* xeth_sbrx_msg: reject a bad header, else dispatch by kind; an unknown  *)
(* kind is counted and rejected.  The carrier and value handlers ignore   *)
(* the fields of the other kinds.                                          *)
Receive(m) ==
    /\ ~oops
    /\ nMsg < MaxMsg
    /\ nMsg' = nMsg + 1
    /\ lastMsg' = m
    /\ IF ~SbrxHeaderOk(m)
       THEN /\ ret' = "EINVAL"
            /\ UNCHANGED <<carrier, etStat, linkStat, speed, invalid, oops>>
       ELSE IF m.kind = "other"
       THEN /\ ret' = "EINVAL"
            /\ IncInvalid
            /\ UNCHANGED <<carrier, etStat, linkStat, speed, oops>>
       ELSE /\ ret' = "OK"
            /\ \E p \in Payloads(m) :
                 CASE m.kind = "carrier" ->
                        SbrxCarrier(p.xid, p.val)
                        /\ UNCHANGED <<etStat, linkStat, speed>>
                   [] m.kind = "ethtool_stat" ->
                        SbrxEtStat(p.xid, p.val)
                        /\ UNCHANGED <<carrier, linkStat, speed>>
                   [] m.kind = "link_stat" ->
                        SbrxLinkStat(p.xid, p.val)
                        /\ UNCHANGED <<carrier, etStat, speed>>
                   [] m.kind = "speed" ->
                        SbrxSpeed(p.xid, p.val)
                        /\ UNCHANGED <<carrier, etStat, linkStat>>
    /\ UNCHANGED kind

(* A proxy device is created: alloc_netdev zeroes its private area (the   *)
(* port's ethtool stats and speed) and xeth_proxy_setup zeroes its link   *)
(* stats.  Its carrier is whatever the driver's setup, not under src/,    *)
(* leaves it: either value.                                                *)
ProxyAdd(x, k) ==
    /\ kind[x] = "none"
    /\ kind' = [kind EXCEPT ![x] = k]
    /\ carrier' \in {[carrier EXCEPT ![x] = c] : c \in BOOLEAN}
    /\ etStat' = [etStat EXCEPT ![x] = 0]
    /\ linkStat' = [linkStat EXCEPT ![x] = 0]
    /\ speed' = [speed EXCEPT ![x] = 0]
    /\ UNCHANGED <<invalid, oops, ret, lastMsg, nMsg>>

(* The proxy is removed from the XID hash as its device unregisters.      *)
ProxyDel(x) ==
    /\ kind[x] # "none"
    /\ kind' = [kind EXCEPT ![x] = "none"]
    /\ UNCHANGED <<carrier, etStat, linkStat, speed, invalid, oops, ret,
                   lastMsg, nMsg>>

Next ==
    \/ \E m \in Msg : Receive(m)
    \/ \E x \in XID, k \in ProxyKind : ProxyAdd(x, k)
    \/ \E x \in XID : ProxyDel(x)

Spec == Init /\ [][Next]_vars

-----------------------------------------------------------------------------
(* Every variable keeps its type; in particular a carrier message sets    *)
(* the device's carrier to on or off, never to the raw flag byte.         *)
TypeOK ==
    /\ kind \in [XID -> ProxyKind \cup {"none"}]
    /\ carrier \in [XID -> BOOLEAN]
    /\ etStat \in [XID -> Value \cup {0}]
    /\ linkStat \in [XID -> Value \cup {0}]
    /\ speed \in [XID -> Value \cup {0}]
    /\ invalid \in 0..MaxMsg /\ oops \in BOOLEAN
    /\ ret \in {"OK", "EINVAL"} /\ lastMsg \in Msg /\ nMsg \in 0..MaxMsg

(* Handling a message changes the state of no proxy but the one its XID   *)
(* names: a message for one port never reaches another.                   *)
OnlyAddressedProxyChanges ==
    [][nMsg' # nMsg =>
         \A x \in XID \ {lastMsg'.xid} :
            ProxyState(x)' = ProxyState(x)]_vars

(* While an XID names a proxy that is no port, no step changes its        *)
(* carrier, ethtool stats or speed: the port-kind tests of the carrier,   *)
(* ethtool-stat and speed handlers, across deletes and re-creations of    *)
(* the XID with other kinds.                                               *)
NonPortUntouched ==
    [][\A x \in XID :
          kind[x] \notin {"port", "none"} /\ kind'[x] = kind[x] =>
             /\ carrier'[x] = carrier[x] /\ etStat'[x] = etStat[x]
             /\ speed'[x] = speed[x]]_vars

(* No handler dereferences a proxy that is not registered (spec 4.3:      *)
(* link-stat on a dangling XID is a defensive bug surface).               *)
NoNullDeref == ~oops

(* A stat or speed message whose XID resolves to no port is counted in    *)
(* sbrx_invalid (spec 4.3).                                                *)
UnresolvedCounted ==
    [][nMsg' # nMsg /\ ret' = "OK"
       /\ lastMsg'.kind \in {"ethtool_stat", "speed"}
       /\ lastMsg'.form = "ok" /\ kind[lastMsg'.xid] # "port" =>
         invalid' = invalid + 1]_vars

=============================================================================
