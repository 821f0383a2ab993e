------------------------------ MODULE XethMux ------------------------------
(***************************************************************************)
(* The xeth multiplexor data plane of src/xeth_mux.c: the lower (physical) *)
(* links enslaved to the mux and the fan-out table rebuilt from them, the  *)
(* transmit path that picks a lower from that table, the receive handler   *)
(* that classifies VLAN-tagged frames to a proxy by XID, and the exception *)
(* path that replays a daemon-supplied frame through the same handler.     *)
(* The proxy registry (the upper hash) is kept as the set of registered    *)
(* XIDs; its insert/remove live outside src/ and follow the spec.          *)
(***************************************************************************)
EXTENDS Integers, Sequences, SequencesExt, Functions, FiniteSets, Bitwise

CONSTANTS
    Lower,      \* physical net devices that may be enslaved to the mux
    Loopback,   \* the namespace loopback device, refused as a lower
    Busy,       \* lowers that already carry a foreign rx_handler
    NoLower,    \* an empty slot of the fan-out table (a NULL pointer)
    Untagged,   \* a transmitted frame without a VLAN tag
    ToMux,      \* a frame handed to the mux device itself
    ToNone,     \* a frame freed as a classification error
    XID,        \* XIDs a proxy may be created with
    Vid,        \* VLAN ids carried by frames
    Pcp,        \* priority code points carried by frames
    MaxRx,      \* bound on frames handed to the receive handler
    MaxTx       \* bound on frames transmitted through the mux

ASSUME /\ Busy \subseteq Lower
       /\ Loopback \notin Lower /\ NoLower \notin Lower
       /\ Cardinality(Lower) <= 16
       /\ Vid \subseteq 0..4095 /\ Pcp \subseteq 0..7
       /\ MaxRx \in Nat /\ MaxTx \in Nat

(* xeth_mux_lower_hash_bkts, and the VLAN constants of <linux/if_vlan.h>.  *)
NSlots        == 16
VlanVidMask   == 4095
VlanNVid      == 4096
VlanPrioShift == 13

Slots == 0 .. NSlots - 1

(* An 802.1Q tag control word: priority above the 12-bit VLAN id.          *)
Tci(pcp, vid) == pcp * 2^VlanPrioShift + vid

(* A frame as received on a lower: its outer tag (none, 802.1Q or          *)
(* 802.1ad) and, behind it, an inner tag.                                  *)
Frame ==
    [otype : {"none"}, opcp : {0}, ovid : {0}, itype : {"none"}, ivid : {0}]
    \cup [otype : {"q", "ad"}, opcp : Pcp, ovid : Vid,
          itype : {"none"}, ivid : {0}]
    \cup [otype : {"q", "ad"}, opcp : Pcp, ovid : Vid,
          itype : {"q", "ad"}, ivid : Vid]

(* Frames handed to xeth_mux_xmit carry a VLAN tag or none.                *)
TxTag == {Untagged} \cup {Tci(p, v) : p \in Pcp, v \in Vid}

Dest == XID \cup {ToMux, ToNone}

Stats == [rx_packets : Nat, rx_dropped : Nat, rx_errors : Nat,
          rx_frame_errors : Nat, tx_packets : Nat, tx_dropped : Nat,
          tx_errors : Nat]

VARIABLES
    lowers,     \* the mux's lower adjacency list, in link order
    rxh,        \* the rx_handler registered on each lower
    lowerTbl,   \* priv->lower[], the fan-out table
    upper,      \* XIDs of the proxies in the upper hash
    stats,      \* priv->link.stats
    noMem,      \* the sbrx_no_mem counter
    ret,        \* return code of the last ndo_add_slave/ndo_del_slave
    lastRx,     \* the last frame demuxed: its path, the frame, where it went
    txDev,      \* the device the last transmitted frame was queued to
    rxSeen,     \* frames handed to the receive handler so far
    txSeen      \* frames handed to xeth_mux_xmit so far

vars == <<lowers, rxh, lowerTbl, upper, stats, noMem, ret, lastRx, txDev,
          rxSeen, txSeen>>

-----------------------------------------------------------------------------
(* xeth_mux_reload_lowers: the n-th lower (from 1) is written to every     *)
(* n-th slot starting at slot n-1; later lowers overwrite earlier ones and *)
(* slots no lower reaches keep what they held.                             *)
RECURSIVE FillSlotsNoInc(_, _, _)
FillSlotsNoInc(tbl, ls, n) ==
    IF n > Len(ls) THEN tbl
    ELSE FillSlotsNoInc([i \in Slots |-> ls[n]], ls, n + 1)

RECURSIVE FillSlotsPastEnd(_, _, _, _)
FillSlotsPastEnd(tbl, dev, i, n) ==
    IF i > NSlots THEN tbl
    ELSE FillSlotsPastEnd([j \in DOMAIN tbl \cup {i} |->
                              IF j = i THEN dev ELSE tbl[j]], dev, i + n, n)

RECURSIVE FillSlots(_, _, _, _)
FillSlots(tbl, dev, i, n) ==
    IF i >= NSlots THEN tbl
    ELSE FillSlots([tbl EXCEPT ![i] = dev], dev, i + n, n)

RECURSIVE ReloadFrom(_, _, _)
ReloadFrom(tbl, ls, n) ==
    IF n > Len(ls) THEN tbl
    ELSE ReloadFrom(FillSlots(tbl, ls[n], n - 1, n), ls, n + 1)

ReloadLowersNoInc(tbl, ls) == FillSlotsNoInc(tbl, ls, 1)

ReloadLowersPastEnd(tbl, ls) ==
    IF ls = <<>> THEN tbl ELSE FillSlotsPastEnd(tbl, ls[1], 0, 1)

ReloadLowers(tbl, ls) == ReloadFrom(tbl, ls, 1)

(* xeth_mux_lower_hash: the low bit of the VLAN tag, slot 0 if untagged.   *)
LowerHash(t) == IF t = Untagged THEN 0 ELSE t & 1

-----------------------------------------------------------------------------
(* The sk_buff fields xeth_mux_demux reads.  A frame received on a lower   *)
(* reaches the rx_handler with its outer tag already moved to vlan_proto / *)
(* vlan_tci, skb->protocol the inner ethertype and skb->data at the inner  *)
(* tag.                                                                    *)
SkbOfRx(f) ==
    [vlan_proto |-> f.otype, vlan_tci |-> Tci(f.opcp, f.ovid),
     protocol |-> f.itype, hdr_tci |-> Tci(f.opcp, f.ivid)]

(* xeth_mux_exception: eth_type_trans pulls the Ethernet header, leaving  *)
(* skb->protocol the outer ethertype and skb->data at the outer TCI.       *)
(* vlan_get_tag finds no accelerated tag and reads a vlan_ethhdr at        *)
(* skb->data: its TPID and TCI are frame bytes 26..29, past the tags.      *)
(* Unless that TPID is a VLAN type, vlan_tci keeps the 0 of the fresh skb; *)
(* else it is the payload word w.                                          *)
SkbOfException(f, w) ==
    [vlan_proto |-> f.otype, vlan_tci |-> w,
     protocol |-> f.otype, hdr_tci |-> Tci(f.opcp, f.ovid)]

(* Payload words vlan_get_tag may take for a tag: 0 when bytes 26..27 are  *)
(* not a VLAN type, else bytes 28..29, drawn from the tags of Pcp x Vid.   *)
PayloadTci == {0} \cup {Tci(p, v) : p \in Pcp, v \in Vid}

DemuxXidNoMask(skb) ==
    IF skb.protocol = "q"
    THEN skb.vlan_tci | (VlanNVid * (skb.hdr_tci & VlanVidMask))
    ELSE skb.vlan_tci

(* xeth_mux_demux_vlan: the XID is the outer VLAN id, widened by the inner *)
(* VLAN id when an inner 802.1Q tag follows.                               *)
DemuxXid(skb) ==
    LET xid == skb.vlan_tci & VlanVidMask
    IN  IF skb.protocol = "q"
        THEN xid | (VlanNVid * (skb.hdr_tci & VlanVidMask))
        ELSE xid

(* What the spec asks of classification: the XID named by the frame's     *)
(* tags, outer VLAN id plus 4096 times the inner one when double tagged.   *)
WideXid(f) ==
    IF f.itype = "q" THEN f.ovid + VlanNVid * f.ivid ELSE f.ovid

SpecDest(f, ups) ==
    IF f.otype = "none" THEN ToMux
    ELSE IF WideXid(f) \in ups THEN WideXid(f) ELSE ToNone

-----------------------------------------------------------------------------
Init ==
    /\ lowers = <<>>
    /\ rxh = [l \in Lower |-> IF l \in Busy THEN "other" ELSE "none"]
    /\ lowerTbl = [i \in Slots |-> NoLower]
    /\ upper = {}
    /\ stats = [rx_packets |-> 0, rx_dropped |-> 0, rx_errors |-> 0,
                rx_frame_errors |-> 0, tx_packets |-> 0, tx_dropped |-> 0,
                tx_errors |-> 0]
    /\ noMem = 0
    /\ ret = "OK"
    /\ lastRx = [via |-> "none", frame |-> CHOOSE f \in Frame : TRUE,
                 to |-> ToNone]
    /\ txDev = NoLower
    /\ rxSeen = 0
    /\ txSeen = 0

(* xeth_mux_add_lower: the loopback and a lower held by another rx_handler *)
(* are refused, a lower already ours is accepted again; otherwise the      *)
(* handler is registered and the master link made, which may fail and is   *)
(* then undone; on success the fan-out table is reloaded.                  *)
AddLower(l) ==
    /\ \/ /\ l = Loopback
          /\ ret' = "EOPNOTSUPP"
          /\ UNCHANGED <<lowers, rxh, lowerTbl>>
       \/ /\ l \in Lower
          /\ rxh[l] # "none"
          /\ ret' = IF rxh[l] = "demux" THEN "OK" ELSE "EBUSY"
          /\ UNCHANGED <<lowers, rxh, lowerTbl>>
       \/ /\ l \in Lower
          /\ rxh[l] = "none"
          /\ lowers' = Append(lowers, l)
          /\ lowerTbl' = ReloadLowers(lowerTbl, lowers')
          /\ rxh' = [rxh EXCEPT ![l] = "demux"]
          /\ ret' = "OK"
       \/ /\ l \in Lower
          /\ rxh[l] = "none"
          /\ ret' = "ELINK"
          /\ UNCHANGED <<lowers, rxh, lowerTbl>>
    /\ UNCHANGED <<upper, stats, noMem, lastRx, txDev, rxSeen, txSeen>>

(* xeth_mux_del_lower: unlink, reload the table, unregister the handler.   *)
DelLower(l) ==
    /\ l \in ToSet(lowers)
    /\ lowers' = Remove(lowers, l)
    /\ lowerTbl' = ReloadLowers(lowerTbl, lowers')
    /\ rxh' = [rxh EXCEPT ![l] = "none"]
    /\ ret' = "OK"
    /\ UNCHANGED <<upper, stats, noMem, lastRx, txDev, rxSeen, txSeen>>

(* Proxy creation and deletion insert and remove an XID in the upper hash. *)
ProxyAdd(x) ==
    /\ x \notin upper
    /\ upper' = upper \cup {x}
    /\ UNCHANGED <<lowers, rxh, lowerTbl, stats, noMem, ret, lastRx, txDev,
                   rxSeen, txSeen>>

ProxyDel(x) ==
    /\ x \in upper
    /\ upper' = upper \ {x}
    /\ UNCHANGED <<lowers, rxh, lowerTbl, stats, noMem, ret, lastRx, txDev,
                   rxSeen, txSeen>>

(* xeth_mux_forward: dev_forward_skb succeeds or drops; the outcome is     *)
(* counted under link.mutex.                                               *)
Forward(s) ==
    \/ stats' = [s EXCEPT !.rx_packets = @ + 1]
    \/ stats' = [s EXCEPT !.rx_dropped = @ + 1]

DemuxMissNoFrameErr(s) == [s EXCEPT !.rx_errors = @ + 1]

DemuxMiss(s) == [s EXCEPT !.rx_errors = @ + 1, !.rx_frame_errors = @ + 1]

(* xeth_mux_demux, with xeth_mux_demux_vlan inlined: a VLAN-tagged frame   *)
(* goes to the proxy its XID names or is counted as a frame error; any    *)
(* other frame is forwarded to the mux itself.                             *)
Demux(skb, via, f) ==
    /\ rxSeen < MaxRx
    /\ rxSeen' = rxSeen + 1
    /\ IF skb.vlan_proto \in {"q", "ad"}
       THEN IF DemuxXid(skb) \in upper
            THEN /\ Forward(stats)
                 /\ lastRx' = [via |-> via, frame |-> f, to |-> DemuxXid(skb)]
            ELSE /\ stats' = DemuxMiss(stats)
                 /\ lastRx' = [via |-> via, frame |-> f, to |-> ToNone]
       ELSE /\ Forward(stats)
            /\ lastRx' = [via |-> via, frame |-> f, to |-> ToMux]

(* A frame arrives on a lower whose rx_handler is xeth_mux_demux.          *)
RxFrame(l, f) ==
    /\ rxh[l] = "demux"
    /\ Demux(SkbOfRx(f), "lower", f)
    /\ UNCHANGED <<lowers, rxh, lowerTbl, upper, noMem, ret, txDev, txSeen>>

(* xeth_mux_exception: the sideband task replays a frame; allocation of    *)
(* the sk_buff may fail and is counted.                                    *)
Exception(f) ==
    /\ \/ /\ \E w \in IF f.otype = "none" THEN {0} ELSE PayloadTci :
                Demux(SkbOfException(f, w), "exception", f)
          /\ UNCHANGED noMem
       \/ /\ rxSeen < MaxRx
          /\ noMem' = noMem + 1
          /\ rxSeen' = rxSeen + 1
          /\ lastRx' = [via |-> "nomem", frame |-> f, to |-> ToNone]
          /\ UNCHANGED stats
    /\ UNCHANGED <<lowers, rxh, lowerTbl, upper, ret, txDev, txSeen>>

(* xeth_mux_xmit: the slot is read, then under link.mutex the frame is     *)
(* queued to that lower (sent or dropped) or, if the slot is empty, freed  *)
(* and counted as a transmit error.                                        *)
Xmit(t) ==
    LET lower == lowerTbl[LowerHash(t)]
    IN  /\ txSeen < MaxTx
        /\ txSeen' = txSeen + 1
        /\ txDev' = lower
        /\ IF lower # NoLower
           THEN \/ stats' = [stats EXCEPT !.tx_dropped = @ + 1]
                \/ stats' = [stats EXCEPT !.tx_packets = @ + 1]
           ELSE stats' = [stats EXCEPT !.tx_errors = @ + 1]
        /\ UNCHANGED <<lowers, rxh, lowerTbl, upper, noMem, ret, lastRx,
                       rxSeen>>

Next ==
    \/ \E l \in Lower \cup {Loopback} : AddLower(l)
    \/ \E l \in Lower : DelLower(l)
    \/ \E x \in XID : ProxyAdd(x) \/ ProxyDel(x)
    \/ \E l \in Lower, f \in Frame : RxFrame(l, f)
    \/ \E f \in Frame : Exception(f)
    \/ \E t \in TxTag : Xmit(t)

Spec == Init /\ [][Next]_vars

-----------------------------------------------------------------------------
TypeOK ==
    /\ lowers \in Seq(Lower) /\ IsInjective(lowers)
    /\ rxh \in [Lower -> {"none", "demux", "other"}]
    /\ lowerTbl \in [Slots -> Lower \cup {NoLower}]
    /\ upper \subseteq XID
    /\ stats \in Stats
    /\ noMem \in Nat
    /\ ret \in {"OK", "EOPNOTSUPP", "EBUSY", "ELINK"}
    /\ lastRx \in [via : {"none", "lower", "exception", "nomem"}, frame : Frame,
                   to : Dest]
    /\ txDev \in Lower \cup {NoLower}
    /\ rxSeen \in 0..MaxRx /\ txSeen \in 0..MaxTx

(* Every frame a lower hands to xeth_mux_demux ends where its tags say:    *)
(* the proxy named by the (outer, and for a double 802.1Q tag, inner)      *)
(* VLAN ids, a frame error when no proxy has that XID, the mux when        *)
(* untagged -- whatever the priority bits and tag types.                   *)
DemuxClassifies ==
    [][rxSeen' # rxSeen /\ lastRx'.via = "lower"
         => lastRx'.to = SpecDest(lastRx'.frame, upper)]_vars

(* A frame replayed through xeth_mux_exception is classified exactly as    *)
(* the same frame received on a lower would be.                            *)
ExceptionLikeRx ==
    [][rxSeen' # rxSeen /\ lastRx'.via = "exception"
         => lastRx'.to = SpecDest(lastRx'.frame, upper)]_vars

(* Every frame is accounted exactly once in the link statistics: each one *)
(* demuxed as delivered, dropped or a frame error (with a matching         *)
(* rx_error), each one transmitted as sent, dropped or a transmit error.   *)
Accounting ==
    /\ stats.rx_packets + stats.rx_dropped + stats.rx_frame_errors + noMem
         = rxSeen
    /\ stats.rx_errors = stats.rx_frame_errors
    /\ stats.tx_packets + stats.tx_dropped + stats.tx_errors = txSeen

(* After xeth_mux_reload_lowers every enslaved lower holds a slot of the   *)
(* fan-out table, whatever the order lowers were added and removed in.     *)
TableCoversLowers ==
    \A l \in ToSet(lowers) : l \in Range(lowerTbl)

(* With no lower enslaved, xeth_mux_xmit drops the frame and counts a    *)
(* tx_error (spec 4.2: "If no physical link is active, drop and increment *)
(* tx_errors"), whatever lowers were added and deleted before; this rests  *)
(* on xeth_mux_reload_lowers leaving no slot to a deleted lower.           *)
NoLowerIsTxError ==
    [][txSeen' # txSeen /\ lowers = <<>> =>
          /\ txDev' = NoLower
          /\ stats'.tx_errors = stats.tx_errors + 1]_vars

(* The spec's fan-out promise: with n lowers and at least n distinct       *)
(* flow tags, each lower is chosen for some tag.                           *)
FanOutReachesEveryLower ==
    \A l \in ToSet(lowers) : \E t \in TxTag : lowerTbl[LowerHash(t)] = l

=============================================================================
