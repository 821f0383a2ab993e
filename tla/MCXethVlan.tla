----------------------------- MODULE MCXethVlan -----------------------------
(* Two devices on one iflink.  Their ids and ndis differ, so a lookup     *)
(* that skips ndi_by_id reaches the wrong slot; one priority needs more   *)
(* than the three PCP bits.                                                *)
EXTENDS XethVlan, TLC

CONSTANTS a, b, l0

MCDev == {a, b}
MCId == (a :> 1) @@ (b :> 2)
MCNdi == (a :> 1) @@ (b :> 0)
MCIflinki == (a :> 0) @@ (b :> 0)
(* Ids with no device map past the end of nds.                            *)
MCNdiById == (0 :> 2) @@ (1 :> 1) @@ (2 :> 0)
MCPrio == {0, 13}
MCProto == {"8021Q", "8021AD", "ip"}
MCSbFrame == [tpid : {"ip", "8021Q"}, tci : {0, 2}, inner : {"ip", "8021AD"}]
MCForeign == {[n |-> 0, tpid |-> t, tci |-> 0, inner |-> "ip", src |-> None,
               sprio |-> None] : t \in {"none", "8021Q"}}

(* The same devices with a's id past the 12-bit VID: 4097 = 4096 + b's id. *)
MCWideId == (a :> 4097) @@ (b :> 1)
MCWideNdiById ==
    [i \in 0..4097 |-> CASE i = 1 -> 0 [] i = 4097 -> 1 [] OTHER -> 2]
=============================================================================
