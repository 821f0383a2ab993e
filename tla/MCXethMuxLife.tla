---------------------------- MODULE MCXethMuxLife ----------------------------
(* Three lowers and two proxies, and the outcomes of xeth_mux_init.          *)
EXTENDS XethMuxLife

CONSTANTS l1, l2, l3, x1, x2

MCLower == {l1, l2, l3}
MCUpper == {x1, x2}
(* The failures xeth_mux_init and its caller handle.                       *)
MCHandled == {"ok", "sbrx_fail", "sb_fail"}
=============================================================================
