------------------------------ MODULE MCXethNb ------------------------------
(* XethNb with init_net and two more namespaces (one in MCNet2), and one  *)
(* proxy.                                                                  *)
EXTENDS XethNb, TLC

CONSTANTS n0, n1, n2

MCNet == {n0, n1, n2}
MCXID == {1}
MCNet2 == {n0, n1}

(* n1 and n2 play the same part: only init_net is named by the code.      *)
MCSymmetry == Permutations({n1, n2})

(* Only the order of the states matters to the checked properties, so     *)
(* the sbtx history is bounded through MaxEv and MaxDump.                  *)
=============================================================================
