--------------------------- MODULE MCPortMessages --------------------------
(* An instance of PortMessages: masters m1, m2 and peers n1, n2 are model   *)
(* values, interchangeable within their kind.                               *)
EXTENDS PortMessages

CONSTANTS m1, m2, n1, n2

MCMasters == {m1, m2}
MCPeers == {n1, n2}

MCSymmetry == Permutations(MCMasters) \cup Permutations(MCPeers)
=============================================================================
