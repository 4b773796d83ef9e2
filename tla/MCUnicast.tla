----------------------------- MODULE MCUnicast -----------------------------
(* Instances of Unicast.                                                   *)
EXTENDS Unicast

CONSTANTS m1, a1

MCMasters == {m1}
MCAddrs == {a1}
=============================================================================
