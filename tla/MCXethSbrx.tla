----------------------------- MODULE MCXethSbrx -----------------------------
(* Two XIDs, a port kind and one other proxy kind, both carrier flags (model values).    *)
EXTENDS XethSbrx

MCXID == {1, 2}
MCProxyKind == {"port", "vlan"}
MCValue == {3}
(* Buffers the channel delivers whole, and with a truncated payload.      *)
MCWholeForms == {"short", "nonzero", "badver", "ok"}
MCAllForms == MCWholeForms \cup {"trunc"}
=============================================================================
