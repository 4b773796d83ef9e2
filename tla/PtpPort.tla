------------------------------ MODULE PtpPort ------------------------------
(***************************************************************************)
(* One port of an ordinary or boundary clock: the record it is, and what   *)
(* the functions of ptpPort*.c make of it.  A function of the code is an   *)
(* operator from the port to the port it leaves behind; PtpClock strings   *)
(* them together.  The delay, sync and peer-delay data, unicast            *)
(* negotiation and the 802.1AS capability are left out.                    *)
(***************************************************************************)
EXTENDS Bmc, PortFsm, Sequences, FiniteSets

CONSTANTS
    Announces,          \* announce messages the network may carry
    SlaveOnly,          \* slaveOnly: the slave-only state machine
    P2P,                \* delay_mechanism P2P, else E2E
    AsapFaults,         \* fault types whose reset interval is "ASAP"
    Jbod                \* boundary_clock_jbod: one PHC per port

Senders == { m.sender : m \in Announces }

FaultTypes == {"UNSPECIFIED", "BAD_PEER_NETWORK", "SWITCH_PHC"}

(* An announce message: what announce_to_dataset reads of it.              *)
AnnounceMsg ==
    [ identity : Nat,  priority1 : Nat,  clockClass : Nat,
      clockAccuracy : Nat,  offsetScaledLogVariance : Nat,
      priority2 : Nat,  stepsRemoved : UInt16,  sender : PortIdentity ]

(* The interval of SWITCH_PHC is fixed at 2^4 seconds (portCreate).        *)
ASSUME PortConfig ==
    /\ Announces \subseteq AnnounceMsg
    /\ {SlaveOnly, P2P, Jbod} \subseteq BOOLEAN
    /\ AsapFaults \subseteq {"UNSPECIFIED", "BAD_PEER_NETWORK"}

Timers == { "DELAY", "ANNOUNCE", "SYNC_RX", "QUALIFICATION",
            "MANNO", "SYNC_TX" }

FOREIGN_MASTER_THRESHOLD == 2

LinkFlags == {"CHANGED", "TS_LABEL"}

(* heard lists the foreign_clock records, the newest first, and msgs has   *)
(* the announces each of them keeps, the newest first; a timer is armed    *)
(* from the call that sets it to the one that clears it, fired or not      *)
(* (nothing reads a timerfd).                                              *)
PortRec ==
    [ state      : States,
      armed      : SUBSET Timers,
      heard      : Seq(Senders),
      msgs       : [Senders -> Seq(Announces)],
      best       : Senders \cup {Null},
      lastFault  : FaultTypes,
      faultTimer : BOOLEAN,
      rtnl       : BOOLEAN,
      linkUp     : BOOLEAN,
      linkFlags  : SUBSET LinkFlags ]

NoMsgs == [s \in Senders |-> <<>>]

(* portCreate: every descriptor closed, the link taken to be up.           *)
Created ==
    [ state |-> "INITIALIZING", armed |-> {}, heard |-> <<>>, msgs |-> NoMsgs,
      best |-> Null, lastFault |-> "UNSPECIFIED", faultTimer |-> FALSE,
      rtnl |-> FALSE, linkUp |-> TRUE, linkFlags |-> {} ]

----------------------------------------------------------------------------
(* Foreign masters.                                                        *)

Known(q, s) == \E i \in 1 .. Len(q.heard) : q.heard[i] = s

(* fc_prune keeps the newest announces: at most the threshold, and none    *)
(* that is older than four announce intervals, which is up to the clock.   *)
Prunings(msgs) ==
    { k \in 0 .. FOREIGN_MASTER_THRESHOLD : k <= Len(msgs) }

fc_prune(msgs, k) == SubSeq(msgs, 1, k)

fc_clear(q, s) == [q EXCEPT !.msgs[s] = <<>>]

(* announce_to_dataset for a message heard by port number p of clock id.   *)
announce_to_dataset(m, id, p) ==
    [ identity |-> m.identity,  priority1 |-> m.priority1,
      clockClass |-> m.clockClass,  clockAccuracy |-> m.clockAccuracy,
      offsetScaledLogVariance |-> m.offsetScaledLogVariance,
      priority2 |-> m.priority2,  localPriority |-> 128,
      stepsRemoved |-> m.stepsRemoved,  sender |-> m.sender,
      receiver |-> [clockIdentity |-> id, portNumber |-> p] ]

(* Messages of a port after m from s was kept in front of the k newest,    *)
(* and __announceCompare of m with the one before it.                      *)
Kept(q, m, k) ==
    [q EXCEPT !.msgs[m.sender] = <<m>> \o fc_prune(@, k)]

Differs(q, m, k) == k > 0 /\ q.msgs[m.sender][1] # m

NewForeignMaster(q, m) == [q EXCEPT !.heard = <<m.sender>> \o @]

(* The caller is told to decide again: a master reached the threshold or   *)
(* changed what it says.  The first announce only opens a record.          *)
addForeignMaster(q, m, k) ==
    IF ~Known(q, m.sender)
    THEN [port |-> NewForeignMaster(q, m), diff |-> FALSE]
    ELSE [port |-> Kept(q, m, k),
          diff |-> k = FOREIGN_MASTER_THRESHOLD - 1 \/ Differs(q, m, k)]

updateCurrentMaster(q, m, k) ==
    IF m.sender # q.best
    THEN addForeignMaster(q, m, k)
    ELSE [port |-> [Kept(q, m, k) EXCEPT !.armed = @ \cup {"ANNOUNCE"}],
          diff |-> Differs(q, m, k)]

portMsgProAnnounce(q, m, k) ==
    IF m.stepsRemoved >= 255 \/ q.state \in Down
    THEN [port |-> q, diff |-> FALSE]
    ELSE IF q.state \in {"PASSIVE"} \cup Slaving
         THEN updateCurrentMaster(q, m, k)
         ELSE addForeignMaster(q, m, k)

(* One round of port_compute_best, for the foreign master s: pruned to k,  *)
(* it takes the lead, is cleared, or is too weak to count.                 *)
PORT_BEST_FOREIGN_DS(q, id, p) ==
    IF q.best = Null THEN Null
    ELSE announce_to_dataset(q.msgs[q.best][1], id, p)

computeBestStep(q, s, k, id, p) ==
    LET r == [q EXCEPT !.msgs[s] = fc_prune(@, k)]
    IN IF k < FOREIGN_MASTER_THRESHOLD THEN r
       ELSE IF q.best = Null
               \/ Better(announce_to_dataset(q.msgs[s][1], id, p),
                         PORT_BEST_FOREIGN_DS(q, id, p))
            THEN [r EXCEPT !.best = s]
       ELSE fc_clear(r, s)

----------------------------------------------------------------------------
(* States, timers and faults.                                              *)

clear_fault_asap(type) == type \in AsapFaults

portOpDisable(q) ==
    [q EXCEPT !.armed = {}, !.heard = <<>>, !.msgs = NoMsgs, !.best = Null]

(* port_initialize: it forgets the last fault first; with the transport    *)
(* open the timers are new, and only ANNOUNCE is set.                      *)
port_initialize(q, ok) ==
    IF ok THEN [q EXCEPT !.lastFault = "UNSPECIFIED",
                         !.armed = {"ANNOUNCE"}, !.rtnl = TRUE]
          ELSE [q EXCEPT !.lastFault = "UNSPECIFIED", !.armed = {}]

(* A fault of an ASAP type is cleared in the same breath.                  *)
NextState(q, e, mdiff) ==
    LET s == Fsm(SlaveOnly, q.state, e, mdiff)
    IN IF s = "FAULTY" /\ clear_fault_asap(q.lastFault)
       THEN Fsm(SlaveOnly, s, "FAULT_CLEARED", FALSE)
       ELSE s

(* INITIALIZING is passed through: the port starts at once, or faults.     *)
portStateUpdate(q, e, mdiff, ok) ==
    LET s == NextState(q, e, mdiff)
        r == port_initialize(IF portIsEnabled(q.state) THEN portOpDisable(q)
                                                       ELSE q, ok)
        t == Fsm(SlaveOnly, s,
                 IF ok THEN "INIT_COMPLETE" ELSE "FAULT_DETECTED", FALSE)
    IN IF s = "INITIALIZING" THEN [r EXCEPT !.state = t]
                             ELSE [q EXCEPT !.state = s]

(* Mutant of TimersOf: only the delay timer is set for a port that follows.*)
TimersOfForgetful(s) ==
    CASE s = "PRE_MASTER"              -> {"QUALIFICATION"}
      [] s \in Mastering               -> {"MANNO", "SYNC_TX"}
      [] s \in {"LISTENING", "PASSIVE"} -> {"ANNOUNCE"}
      [] s \in Slaving                 -> {"DELAY"}
      [] OTHER                         -> {}

(* The timers a port sets when it enters a state, by delay mechanism.      *)
TimersOf(s) ==
    CASE s = "PRE_MASTER"   -> {"QUALIFICATION"}
      [] s \in Mastering    -> {"MANNO", "SYNC_TX"}
      [] s = "LISTENING"    -> {"ANNOUNCE"} \cup (IF P2P THEN {"DELAY"} ELSE {})
      [] s = "PASSIVE"      -> {"ANNOUNCE"}
      [] s \in Slaving      -> {"ANNOUNCE"} \cup (IF P2P THEN {} ELSE {"DELAY"})
      [] OTHER              -> {}

(* Mutants of LeftRunning: a transition clears no timer, or every one.     *)
LeftAll(q) == q.armed

LeftNone(q) == {}

(* _p2pTransition leaves the DELAY timer as it is, _e2eTransition does not. *)
LeftRunning(q) == IF P2P THEN q.armed \cap {"DELAY"} ELSE {}

Transition(q) ==
    IF q.state \in {"FAULTY", "DISABLED"} THEN portOpDisable(q)
    ELSE [q EXCEPT !.armed = LeftRunning(q) \cup TimersOf(q.state)]

(* bc_dispatch up to the PHC switch.                                       *)
DispatchOnce(q, e, mdiff, ok) ==
    LET r == portStateUpdate(q, e, mdiff, ok)
    IN IF r.state = q.state THEN r ELSE Transition(r)

(* bc_dispatch: with one PHC per port a new slave port takes over the      *)
(* servo's clock, and faults when it cannot.                               *)
bc_dispatch(q, e, mdiff, ok, switched) ==
    LET r == DispatchOnce(q, e, mdiff, ok)
    IN IF /\ Jbod /\ ~switched
          /\ r.state = "UNCALIBRATED" /\ q.state # "UNCALIBRATED"
       THEN DispatchOnce([r EXCEPT !.lastFault = "SWITCH_PHC"],
                         "FAULT_DETECTED", FALSE, ok)
       ELSE r
=============================================================================
