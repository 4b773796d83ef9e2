------------------------- MODULE MCTransparentClock -------------------------
(* Instances of TransparentClock.                                          *)
EXTENDS TransparentClock

CONSTANTS s1, s2

(* One exchange; and the next one of its source and one of another source. *)
MCOneKey == {[source |-> s1, sequenceId |-> 0]}
MCThreeKeys == MCOneKey \cup {[source |-> s1, sequenceId |-> 1], [source |-> s2, sequenceId |-> 0]}

MCConfigs ==
    { [ports |-> 3, spanning |-> {},     mechanism |-> "E2E", keys |-> MCOneKey, domains |-> {0}],
      [ports |-> 3, spanning |-> {1, 2}, mechanism |-> "P2P", keys |-> MCOneKey, domains |-> {0}],
      [ports |-> 2, spanning |-> {1, 2}, mechanism |-> "E2E", keys |-> MCThreeKeys, domains |-> {0}],
      [ports |-> 2, spanning |-> {1, 2}, mechanism |-> "E2E", keys |-> MCOneKey, domains |-> {0, 1}] }

(* The switch in its default configuration.                                *)
MCPlainConfig ==
    { [ports |-> 3, spanning |-> {}, mechanism |-> "E2E", keys |-> MCOneKey, domains |-> {0}] }

(* Enough events to take a port through the states tc_blocked tells apart. *)
MCRoleEvents == {"ANNOUNCE_RECEIPT_TIMEOUT_EXPIRES", "RS_SLAVE"}
=============================================================================
