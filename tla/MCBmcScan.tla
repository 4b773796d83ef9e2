----------------------------- MODULE MCBmcScan -----------------------------
(* Three grandmasters heard over several paths.  GM 10 and GM 30 differ in  *)
(* identity only; GM 20 has the better class and the worse priority1.  The  *)
(* datasets are scanned by dscmp and by telecom_dscmp side by side.         *)
EXTENDS BmcScan

VARIABLE telecomBest    \* the running best of the telecom profile

T == INSTANCE BmcScan WITH Telecom <- TRUE, best <- telecomBest

MCInit == Init /\ T!Init

MCNext == \E d \in Universe : Scan(d) /\ T!Scan(d)

MCSpec == MCInit /\ [][MCNext]_<<vars, telecomBest>>

(* BestBeatsSeen and BestRanksFirst of the scan with telecom_dscmp.         *)
TelecomBeatsSeen == T!BestBeatsSeen

TelecomRanksFirst == T!BestRanksFirst

MCGm ==
    { [identity |-> 10, priority1 |-> 128, clockClass |-> 248, priority2 |-> 128],
      [identity |-> 20, priority1 |-> 129, clockClass |-> 6,   priority2 |-> 128],
      [identity |-> 30, priority1 |-> 128, clockClass |-> 248, priority2 |-> 128] }

(* Sender, receiving port and its local priority, steps removed.  Port 256  *)
(* sorts before port 2 in little-endian octets.                             *)
MCPath ==
    { [cid |-> 5, port |-> 256, at |-> 1, lp |-> 128, steps |-> 1],
      [cid |-> 5, port |-> 2,   at |-> 2, lp |-> 127, steps |-> 1],
      [cid |-> 5, port |-> 2,   at |-> 3, lp |-> 128, steps |-> 1],
      [cid |-> 7, port |-> 1,   at |-> 1, lp |-> 128, steps |-> 2],
      [cid |-> 4, port |-> 1,   at |-> 2, lp |-> 127, steps |-> 3] }

MCUniverse ==
    { [ identity |-> g.identity,  priority1 |-> g.priority1,
        clockClass |-> g.clockClass,  clockAccuracy |-> 254,
        offsetScaledLogVariance |-> 65535,  priority2 |-> g.priority2,
        localPriority |-> p.lp,  stepsRemoved |-> p.steps,
        sender |-> [clockIdentity |-> p.cid, portNumber |-> p.port],
        receiver |-> [clockIdentity |-> 6, portNumber |-> p.at] ] :
      g \in { h \in MCGm : h.identity # 30 }, p \in MCPath }
    \cup
    { [ identity |-> g.identity,  priority1 |-> g.priority1,
        clockClass |-> g.clockClass,  clockAccuracy |-> 254,
        offsetScaledLogVariance |-> 65535,  priority2 |-> g.priority2,
        localPriority |-> 128,  stepsRemoved |-> 0,
        sender |-> [clockIdentity |-> 30, portNumber |-> 1],
        receiver |-> [clockIdentity |-> 6, portNumber |-> 3] ] :
      g \in { h \in MCGm : h.identity = 30 } }
=============================================================================
