------------------------------ MODULE XethVlan ------------------------------
(***************************************************************************)
(* The legacy VLAN encapsulation of src/vlan.c over the device tables of   *)
(* src/xeth.h.  Each xeth device d has a 16-bit id, an index ndi into the  *)
(* nds table and an index iflinki into the iflinks table.  xeth_vlan_tx    *)
(* pushes an outer tag (priority, id) and queues the frame on d's iflink;  *)
(* the switch echoes it back, and xeth_vlan_rx pops the tag (the driver    *)
(* has already moved it to skb->vlan_proto/vlan_tci) and forwards the      *)
(* frame to the device the VID names.  xeth_vlan_sb does the same for a    *)
(* whole tagged frame written by the daemon to the side band.  A frame is  *)
(* its tags, its inner ethertype and, as a history field, its sender.      *)
(***************************************************************************)
EXTENDS Naturals, FiniteSets, Bitwise

CONSTANTS
    Dev,        \* the xeth net devices
    Id,         \* priv->id of each device
    Ndi,        \* priv->ndi of each device
    Iflinki,    \* priv->iflinki of each device
    Lower,      \* the iflink (switch port) devices
    NIds,       \* xeth.n.ids
    NNds,       \* xeth.n.nds
    NIflinks,   \* xeth.n.iflinks
    NdiById,    \* xeth.ndi_by_id, over 0..NIds-1
    Prio,       \* skb->priority values the stack may hand to xmit
    Proto,      \* ethertypes: "8021Q", "8021AD" and one upper protocol
    SbFrame,    \* the frames the daemon may write to the side band
    Foreign,    \* frames the switch may deliver from elsewhere
    Debug,      \* the build evaluates the debug macros' arguments
    None,       \* no device / no sender
    MaxIn       \* bound on frames sent, arriving or written to the side band

ASSUME /\ Id \in [Dev -> 0..65535] /\ NdiById \in [0..NIds-1 -> Nat]
       /\ {"8021Q", "8021AD"} \subseteq Proto /\ Debug \in BOOLEAN

(* xeth_vlan_is_8021X.                                                    *)
Is8021X(p) == p \in {"8021Q", "8021AD"}

(* VLAN_PRIO_SHIFT and VLAN_VID_MASK of a 16-bit TCI.                     *)
PrioOfShift12(tci) == tci \div 2^12
PrioOf(tci) == tci \div 2^13
VidOf(tci) == tci % 2^12

(* A frame as it travels.  tpid/tci is the outer tag ("none": untagged),  *)
(* inner the ethertype after it, src the device that sent it and sprio   *)
(* its skb->priority at xmit (history, None for frames from elsewhere).   *)
Frame == [n : Nat, tpid : Proto \cup {"none"}, tci : 0..65535,
          inner : Proto, src : Dev \cup {None}, sprio : Prio \cup {None}]

(* A frame handed to a device: its skb->vlan_proto ("none": 0), the      *)
(* ethertype in skb->protocol, its priority and the tag it arrived with.  *)
Delivery == [n : Nat, dev : Dev, tag : Proto \cup {"none"}, proto : Proto,
             prio : 0..7, src : Dev \cup {None}, sprio : Prio \cup {None}]

VARIABLES
    nds,        \* xeth.nds: the device at each ndi, or None
    iflinks,    \* xeth.iflinks: the lower at each iflinki, or None
    up,         \* the devices registered (their ndo_start_xmit may run)
    wire,       \* frames queued on the lowers and not yet echoed back
    delivered,  \* frames handed to the xeth devices
    txDropped,  \* nd->stats tx_dropped of each device
    rxDropped,  \* nd->rx_dropped of each device
    freed,      \* frames freed by rx for an unknown VID
    uaf,        \* a freed skb was read (vlan.c, the unknown-VID path)
    sbRet,      \* what xeth_vlan_sb returned last
    nIn         \* frames entering the model so far (numbers them)

vars == <<nds, iflinks, up, wire, delivered, txDropped, rxDropped, freed, uaf,
          sbRet, nIn>>

-----------------------------------------------------------------------------
(* xeth_nds, xeth_iflinks: an index beyond the table reads as NULL.       *)
XethNds(i) == IF i < NNds THEN nds[i] ELSE None
XethIflinks(i) == IF i < NIflinks THEN iflinks[i] ELSE None

(* xeth_set_nds / xeth_reset_nds: an index beyond the table is ignored.   *)
SetNds(i, nd) == IF i < NNds THEN [nds EXCEPT ![i] = nd] ELSE nds

(* xeth_set_iflinks / xeth_reset_iflinks.                                 *)
SetIflinks(i, l) ==
    IF i < NIflinks THEN [iflinks EXCEPT ![i] = l] ELSE iflinks

ToXethNdById(id) == IF id < NIds THEN XethNds(id) ELSE None

(* to_xeth_nd: the device of an id, through ndi_by_id.                    *)
ToXethNd(id) == IF id < NIds THEN XethNds(NdiById[id]) ELSE None

(* xeth_priv_iflink.                                                      *)
PrivIflink(d) == XethIflinks(Iflinki[d])

(* The outer tag xeth_vlan_tx pushes: the TPID by the inner protocol,     *)
(* and (u16)priority << 13 OR'ed with the 16-bit id.                      *)
TxTpid(p) == IF Is8021X(p) THEN "8021AD" ELSE "8021Q"
TxPcp(prio) == ((prio % 2^16) * 2^13) % 2^16
TxTci(d, prio) == TxPcp(prio) | Id[d]

-----------------------------------------------------------------------------
Init ==
    /\ nds = [i \in 0..NNds-1 |-> None]
    /\ iflinks = [i \in 0..NIflinks-1 |-> None]
    /\ up = {}
    /\ wire = {}
    /\ delivered = {}
    /\ txDropped = [d \in Dev |-> 0]
    /\ rxDropped = [d \in Dev |-> 0]
    /\ freed = 0
    /\ uaf = FALSE
    /\ sbRet = "none"
    /\ nIn = 0

(* A device registers: xeth_priv_set_nd(priv, nd).                        *)
Register(d) ==
    /\ d \notin up
    /\ up' = up \cup {d}
    /\ nds' = SetNds(Ndi[d], d)
    /\ UNCHANGED <<iflinks, wire, delivered, txDropped, rxDropped, freed, uaf,
                   sbRet, nIn>>

(* A device unregisters: xeth_reset_nds(priv->ndi).                       *)
Unregister(d) ==
    /\ d \in up
    /\ up' = up \ {d}
    /\ nds' = SetNds(Ndi[d], None)
    /\ UNCHANGED <<iflinks, wire, delivered, txDropped, rxDropped, freed, uaf,
                   sbRet, nIn>>

(* A lower is bound to, or unbound from, iflinks slot i.                  *)
BindIflink(i, l) ==
    /\ iflinks' = SetIflinks(i, l)
    /\ iflinks' # iflinks
    /\ UNCHANGED <<nds, up, wire, delivered, txDropped, rxDropped, freed, uaf,
                   sbRet, nIn>>

(* xeth_vlan_tx: with no iflink, or when vlan_insert_tag_set_proto fails *)
(* to allocate, the frame is dropped and counted; otherwise it is queued  *)
(* to the iflink with its new outer tag.                                  *)
Tx(d, prio, p) ==
    /\ d \in up
    /\ nIn < MaxIn
    /\ nIn' = nIn + 1
    /\ LET f == [n |-> nIn, tpid |-> TxTpid(p), tci |-> TxTci(d, prio),
                 inner |-> p, src |-> d, sprio |-> prio]
       IN \/ /\ txDropped' = [txDropped EXCEPT ![d] = @ + 1]
             /\ UNCHANGED wire
          \/ /\ PrivIflink(d) # None
             /\ wire' = wire \cup {f}
             /\ UNCHANGED txDropped
    /\ UNCHANGED <<nds, iflinks, up, delivered, rxDropped, freed, uaf, sbRet>>

(* The frame the rx handler forwards, or the drop dev_forward_skb may     *)
(* return (NET_RX_DROP) counted at the device.                            *)
Forward(nd, r) ==
    \/ delivered' = delivered \cup {r} /\ UNCHANGED rxDropped
    \/ rxDropped' = [rxDropped EXCEPT ![nd] = @ + 1] /\ UNCHANGED delivered

(* xeth_vlan_rx on frame f coming back from the switch.  An untagged     *)
(* frame passes to the stack.  A VID with no device frees the skb, and   *)
(* the debug call that follows reads skb->dev from the freed skb.  An    *)
(* inner 802.1Q tag is popped into the vlan metadata; otherwise the      *)
(* metadata is cleared.                                                  *)
Rx(f) ==
    /\ f \in wire
    /\ wire' = wire \ {f}
    /\ LET nd == ToXethNd(VidOf(f.tci))
           r == [n |-> f.n, dev |-> nd,
                 tag |-> IF f.inner = "8021Q" THEN "8021Q" ELSE "none",
                 proto |-> IF f.inner = "8021Q"
                           THEN CHOOSE q \in Proto : ~Is8021X(q)
                           ELSE f.inner,
                 prio |-> PrioOf(f.tci), src |-> f.src, sprio |-> f.sprio]
       IN IF ~Is8021X(f.tpid)
          THEN UNCHANGED <<delivered, rxDropped, freed, uaf>>
          ELSE IF nd = None
          THEN /\ freed' = freed + 1
               /\ uaf' = (uaf \/ Debug)
               /\ UNCHANGED <<delivered, rxDropped>>
          ELSE /\ Forward(nd, r)
               /\ UNCHANGED <<freed, uaf>>
    /\ UNCHANGED <<nds, iflinks, up, txDropped, sbRet, nIn>>

(* xeth_vlan_sb on a frame g from the daemon: its outer ethertype must be *)
(* a VLAN TPID (else -EINVAL) and its VID a device (else -ENOENT); an     *)
(* inner VLAN tag goes to the vlan metadata, then netif_rx, whose drop is *)
(* -EBUSY.  The skb is fresh, so its priority stays 0.                    *)
Sb(g) ==
    /\ LET nd == ToXethNd(VidOf(g.tci))
           r == [n |-> nIn, dev |-> nd,
                 tag |-> IF Is8021X(g.inner) THEN g.inner ELSE "none",
                 proto |-> IF Is8021X(g.inner)
                           THEN CHOOSE q \in Proto : ~Is8021X(q)
                           ELSE g.inner,
                 prio |-> 0, src |-> None, sprio |-> None]
       IN CASE ~Is8021X(g.tpid) -> sbRet' = "EINVAL" /\ UNCHANGED delivered
            [] nd = None -> sbRet' = "ENOENT" /\ UNCHANGED delivered
            [] OTHER -> \/ sbRet' = "n" /\ delivered' = delivered \cup {r}
                        \/ sbRet' = "EBUSY" /\ UNCHANGED delivered
    /\ nIn < MaxIn
    /\ nIn' = nIn + 1
    /\ UNCHANGED <<nds, iflinks, up, wire, txDropped, rxDropped, freed, uaf>>

(* A frame from another host arrives on a lower.                          *)
Arrive(f) ==
    /\ nIn < MaxIn
    /\ nIn' = nIn + 1
    /\ wire' = wire \cup {[f EXCEPT !.n = nIn]}
    /\ UNCHANGED <<nds, iflinks, up, delivered, txDropped, rxDropped, freed,
                   uaf, sbRet>>

Next ==
    \/ \E d \in Dev : Register(d) \/ Unregister(d)
    \/ \E i \in 0..NIflinks-1, l \in Lower \cup {None} : BindIflink(i, l)
    \/ \E d \in Dev, prio \in Prio, p \in Proto : Tx(d, prio, p)
    \/ \E f \in wire : Rx(f)
    \/ \E g \in SbFrame : Sb(g)
    \/ \E f \in Foreign : Arrive(f)

Spec == Init /\ [][Next]_vars

-----------------------------------------------------------------------------
(* What a delivered frame carries after its outer tag: the inner tag if   *)
(* one was popped into the metadata, else the ethertype.                  *)
Seen(r) == IF r.tag # "none" THEN r.tag ELSE r.proto

(* Every frame keeps a 16-bit outer TCI, every delivered frame a 3-bit    *)
(* priority; the tables hold only devices of the right kind.              *)
TypeOK ==
    /\ nds \in [0..NNds-1 -> Dev \cup {None}]
    /\ iflinks \in [0..NIflinks-1 -> Lower \cup {None}]
    /\ up \subseteq Dev /\ wire \subseteq Frame /\ delivered \subseteq Delivery
    /\ txDropped \in [Dev -> Nat] /\ rxDropped \in [Dev -> Nat]
    /\ freed \in Nat /\ uaf \in BOOLEAN
    /\ sbRet \in {"none", "n", "EINVAL", "ENOENT", "EBUSY"} /\ nIn \in 0..MaxIn

(* Round trip (vlan.c: "push outer VLAN tag with xeth's vid and skb's     *)
(* priority", "pop dev index and skb priority from outer VLAN"): a frame  *)
(* a device sent, echoed back while that device is registered, is handed  *)
(* to that same device, with the priority's PCP bits and its inner tag    *)
(* as sent, or counted as dropped there.                                  *)
EchoReturnsToSender ==
    [][\A f \in wire \ wire' :
          f.src \in up =>
             \/ \E r \in delivered' \ delivered :
                   /\ r.dev = f.src /\ r.prio = f.sprio % 8
                   /\ Seen(r) = f.inner
             \/ rxDropped'[f.src] = rxDropped[f.src] + 1]_vars

(* The rx handler never reads an skb it has already freed.               *)
NoUseAfterFree == ~uaf

=============================================================================
