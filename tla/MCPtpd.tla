------------------------------- MODULE MCPtpd -------------------------------
(* The ptpd port with two other clocks: 1, which degrades from a better to  *)
(* a worse priority than ours, and 3, in between.                           *)
EXTENDS PtpdPort

MCAnnounces == { [source |-> 1, gm |-> 1, priority |-> 1, steps |-> 0],
                 [source |-> 3, gm |-> 1, priority |-> 1, steps |-> 1] }

(* What the daemon may be started as: a clock that may be master or slave   *)
(* until management makes it slave-only; a slave that waits a grace period;  *)
(* one that resets itself without updates; one that may be disabled; one     *)
(* with a backup interface; a master with and without the algorithm, the     *)
(* latter disabled at first.                                                 *)
MasterSlave == [p2p |-> FALSE, igmp |-> FALSE, disableBMCA |-> FALSE, maxListen |-> 2,
                grace |-> 0, backup |-> FALSE, clockUpdateTimeout |-> FALSE,
                clockClass |-> 248, priority1 |-> 2, portDisabled |-> FALSE,
                managed |-> {}]

SlaveOnly  == [MasterSlave EXCEPT !.clockClass = 255]

MCOptions == {
    [MasterSlave EXCEPT !.managed = {"SLAVE_ONLY"}],
    [SlaveOnly EXCEPT !.grace = 1, !.igmp = TRUE],
    [SlaveOnly EXCEPT !.clockUpdateTimeout = TRUE],
    [SlaveOnly EXCEPT !.managed = {"PORT"}],
    [SlaveOnly EXCEPT !.backup = TRUE, !.p2p = TRUE, !.igmp = TRUE,
                      !.managed = {"SLAVE_ONLY"}],
    [MasterSlave EXCEPT !.clockClass = 6, !.p2p = TRUE, !.managed = {"PRIORITY1"}],
    [MasterSlave EXCEPT !.clockClass = 6, !.disableBMCA = TRUE, !.igmp = TRUE,
                        !.portDisabled = TRUE, !.managed = {"PORT"}] }

MCPriorities == {0, 2}
=============================================================================
