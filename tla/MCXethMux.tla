----------------------------- MODULE MCXethMux -----------------------------
(* Model-checking instance of XethMux: three lowers, one of them owned by  *)
(* a foreign rx_handler, XIDs reachable by single and double tags, and one *)
(* non-zero priority so that the priority bits of the tag are exercised.  *)
EXTENDS XethMux

CONSTANTS l1, l2, l3

MCLower == {l1, l2, l3}
MCBusy  == {l3}
MCNoBusy == {}
MCXID   == {1, 4097}
MCVid   == {1}
MCPcp   == {5}
=============================================================================
