----------------------------- MODULE MCPtpClock ----------------------------
(* Instances of PtpClock.  Clock 6 is the one modelled.                     *)
EXTENDS PtpClock

Ann(gm, p1, class, steps, cid) ==
    [ identity |-> gm,  priority1 |-> p1,  clockClass |-> class,
      clockAccuracy |-> 254,  offsetScaledLogVariance |-> 65535,
      priority2 |-> 128,  stepsRemoved |-> steps,
      sender |-> [clockIdentity |-> cid, portNumber |-> 1] ]

OwnDs(p1, class) ==
    [ identity |-> 6,  priority1 |-> p1,  clockClass |-> class,
      clockAccuracy |-> 254,  offsetScaledLogVariance |-> 65535,
      priority2 |-> 128,  localPriority |-> 0,  stepsRemoved |-> 0,
      sender |-> [clockIdentity |-> 6, portNumber |-> 0],
      receiver |-> [clockIdentity |-> 6, portNumber |-> 0] ]

AnnA  == Ann(10, 127, 248, 0, 10)      \* grandmaster 10, better than clock 6
AnnA2 == Ann(10, 129, 248, 0, 10)      \* the same one, now worse
AnnB  == Ann(10, 127, 248, 1, 12)      \* grandmaster 10 behind clock 12

OwnNormal == OwnDs(128, 248)
OwnPrimary == OwnDs(128, 6)

(* A grandmaster reached from both ports: clock 6 must choose.              *)
MCAnnounces == {AnnA, AnnA2, AnnB}
MCOnePort   == [p \in Ports |-> {AnnA, AnnB}]
MCTwoPorts  == [p \in Ports |-> IF p = 1 THEN {AnnA, AnnA2} ELSE {AnnB}]
MCSteady    == [p \in Ports |-> IF p = 1 THEN {AnnA} ELSE {AnnB}]

MCNormal  == {OwnNormal}
MCManaged == {OwnNormal, OwnPrimary}

(* Descriptors whose handlers change which port does what.                  *)
MCRoleFds == {FD_GENERAL, FD_ANNOUNCE, FD_SYNC_RX, FD_QUALIFICATION, FD_FAULT}
MCAllFds  == Fds

(* One announce of one master, for the liveness runs.                       *)
MCLiveHears == [p \in Ports |-> {AnnA}]
=============================================================================
