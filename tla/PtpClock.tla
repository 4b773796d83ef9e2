------------------------------ MODULE PtpClock -----------------------------
(***************************************************************************)
(* A boundary or ordinary clock: the loop of clock_poll, the handlers it   *)
(* calls for the descriptors poll(2) found ready, and the state decision   *)
(* at the end of a pass (ptpClockPoll.c, bc_event in ptpPortDevOrdinary.c, *)
(* port_link_status and port_compute_best in ptpPort.c).                   *)
(*                                                                         *)
(* The program is single-threaded; what interleaves is the outside world.  *)
(* A pass works through the snapshot of ready descriptors that poll took,  *)
(* so a handler may run for a timer that an earlier one has set anew.      *)
(* The loops over foreign masters and ports are one action per round.      *)
(***************************************************************************)
EXTENDS PtpPort

CONSTANTS
    N,                  \* number of ports
    Hears,              \* Hears[p]: the announces that can reach port p
    MasterOnly,         \* the ports configured masterOnly
    DefaultDs,          \* the datasets management may give the clock
    SyncTimeout,        \* syncReceiptTimeout is set
    InitCanFail,        \* port_initialize may fail (no socket, no timer)
    IoCanFail,          \* a receive or a transmission may fail
    HwTimestamps,       \* hardware time stamping: a link change may move PHC
    Bonded,             \* the interface is a bond: its label may change
    Watched,            \* bound: the descriptors poll may report
    MaxReady,           \* bound: descriptors ready in one pass
    RtnlBatch           \* bound: netlink messages in one read

Ports == 1 .. N

(* Index of a descriptor in the poll array; the fault timer comes last.    *)
FD_EVENT == 0
FD_GENERAL == 1
FD_DELAY == 2
FD_ANNOUNCE == 3
FD_SYNC_RX == 4
FD_QUALIFICATION == 5
FD_MANNO == 6
FD_SYNC_TX == 7
FD_RTNL == 10
FD_FAULT == 11
Sockets == {FD_EVENT, FD_GENERAL}
TimerFds == FD_DELAY .. FD_SYNC_TX
Fds == Sockets \cup TimerFds \cup {FD_RTNL, FD_FAULT}

TimerOf(f) ==
    CASE f = FD_DELAY -> "DELAY"            [] f = FD_ANNOUNCE -> "ANNOUNCE"
      [] f = FD_SYNC_RX -> "SYNC_RX"        [] f = FD_MANNO -> "MANNO"
      [] f = FD_QUALIFICATION -> "QUALIFICATION"
      [] f = FD_SYNC_TX -> "SYNC_TX"

(* The management port comes after all others and has no state machine.    *)
UdsPort == N + 1
Uds == << UdsPort, FD_GENERAL >>

ASSUME ClockConfig ==
    /\ N \in UInt16 \ {0}
    /\ Hears \in [Ports -> SUBSET Announces]
    /\ MasterOnly \subseteq Ports
    /\ DefaultDs \subseteq DataSet
    /\ \A d, e \in DefaultDs : d.identity = e.identity
    /\ {SyncTimeout, InitCanFail, IoCanFail, HwTimestamps, Bonded}
            \subseteq BOOLEAN
    /\ Watched \subseteq Fds
    /\ MaxReady \in Nat \ {0} /\ RtnlBatch \in Nat

VARIABLES
    port,       \* port[p]: the record of port p
    phase,      \* where clock_poll is
    revents,    \* descriptors of the snapshot still to be served
    cur,        \* port the current loop is at
    idx,        \* foreign master, or netlink message, the inner loop is at
    sde,        \* a state decision is due at the end of the pass
    dds,        \* the clock's own dataset
    newBest,    \* the running best of handle_state_decision_event
    best,       \* c->best: its port, its sender and the dataset it has
    bestId,     \* c->best_id
    fresh,      \* fresh_best: the grandmaster changed at this decision
    parent      \* parentDS: the parent port and its grandmaster

loop == <<phase, revents, cur, idx>>
decision == <<newBest, best, bestId, fresh, parent>>
vars == <<port, loop, sde, dds, decision>>

Phases == {"poll", "serve", "rtnl", "compute", "decide"}

ForeignBest == [port : Ports, sender : Senders, ds : DataSet] \cup {Null}

TypeOK ==
    /\ port \in [Ports -> PortRec]
    /\ phase \in Phases
    /\ revents \in SUBSET ((Ports \X Fds) \cup {Uds})
    /\ cur \in Ports
    /\ idx \in Nat
    /\ sde \in BOOLEAN /\ fresh \in BOOLEAN
    /\ dds \in DefaultDs
    /\ newBest \in ForeignBest /\ best \in ForeignBest
    /\ bestId \in Nat
    /\ parent \in [id : PortIdentity, gm : Nat]

clockIdentity == dds.identity

ParentSelf == [id |-> [clockIdentity |-> clockIdentity, portNumber |-> 0],
               gm |-> clockIdentity]

InitOutcomes == IF InitCanFail THEN BOOLEAN ELSE {TRUE}

(* bc_dispatch with every outcome of what it calls.                        *)
Dispatched(q, e, mdiff) ==
    { bc_dispatch(q, e, mdiff, ok, switched) :
        ok \in InitOutcomes, switched \in BOOLEAN }

Init ==
    /\ port \in [Ports -> Dispatched(Created, "INITIALIZE", FALSE)]
    /\ phase = "poll" /\ revents = {} /\ cur = 1 /\ idx = 0
    /\ sde = FALSE /\ dds \in DefaultDs
    /\ newBest = Null /\ best = Null /\ bestId = 0 /\ fresh = FALSE
    /\ parent = ParentSelf

----------------------------------------------------------------------------
(* poll(2).                                                                *)

Readable(p, f) ==
    /\ f \in Watched
    /\ CASE f \in Sockets  -> portIsEnabled(port[p].state)
         [] f \in TimerFds -> TimerOf(f) \in port[p].armed
         [] f = FD_RTNL    -> port[p].rtnl
         [] f = FD_FAULT   -> port[p].faultTimer

Ready == { x \in Ports \X Fds : Readable(x[1], x[2]) } \cup {Uds}

(* What a pass starts with when poll finds the descriptors of R readable.  *)
PollReturns(R) ==
    /\ phase = "poll"
    /\ revents' = R
    /\ phase' = "serve"
    /\ UNCHANGED <<port, cur, idx, sde, dds, decision>>

Poll ==
    \E x \in [1 .. MaxReady -> Ready] :
        PollReturns({ x[i] : i \in 1 .. MaxReady })

(* Mutant of Serving: the descriptors of a port in descending order.       *)
ServingBackwards(p, f) ==
    /\ phase = "serve"
    /\ << p, f >> \in revents
    /\ \A x \in revents : p < x[1] \/ (p = x[1] /\ x[2] <= f)

(* The descriptor clock_poll looks at next: ports in order, then indexes.  *)
Serving(p, f) ==
    /\ phase = "serve"
    /\ << p, f >> \in revents
    /\ \A x \in revents : p < x[1] \/ (p = x[1] /\ f <= x[2])

(* Mutant of Left: the round goes on with a port that is faulty now.       *)
LeftNoBreak(p, f, q) == revents \ {<< p, f >>}

(* What is left of the snapshot after port p answered descriptor f and is  *)
(* now q: a port that is faulty gets its fault timer set and its other     *)
(* descriptors skipped.                                                    *)
Left(p, f, q) ==
    IF q.state = "FAULTY" /\ f # FD_FAULT
    THEN { x \in revents : x[1] # p \/ x[2] = FD_FAULT }
    ELSE revents \ {<< p, f >>}

(* Mutant of FaultTimeout: clock_fault_timeout(p, 0).                      *)
FaultTimeoutCleared(q) ==
    IF q.state = "FAULTY" THEN [q EXCEPT !.faultTimer = FALSE] ELSE q

(* clock_fault_timeout(p, 1); an ASAP interval disarms the timer instead.  *)
FaultTimeout(q) ==
    IF q.state = "FAULTY"
    THEN [q EXCEPT !.faultTimer = ~clear_fault_asap(q.lastFault)]
    ELSE q

(* Mutant of Answered: the look at the state comes before the dispatch.    *)
AnsweredTooSoon(p, f, q, e) ==
    \E r \in Dispatched(FaultTimeout(q), e, FALSE) :
        /\ port' = [port EXCEPT ![p] = r]
        /\ revents' = Left(p, f, r)
        /\ phase' = "serve"
        /\ UNCHANGED <<cur, dds, decision>>

(* The rest of the round: the handler left the port as q and returned e.   *)
Answered(p, f, q, e) ==
    \E r \in Dispatched(q, e, FALSE) :
        /\ port' = [port EXCEPT ![p] = FaultTimeout(r)]
        /\ revents' = Left(p, f, r)
        /\ phase' = "serve"
        /\ UNCHANGED <<cur, dds, decision>>

----------------------------------------------------------------------------
(* bc_event.                                                               *)

(* Mutant of AnnounceTimeout: what was kept of the best master is not      *)
(* cleared.                                                                *)
AnnounceTimeoutKeeps(p, f) ==
    LET r == [port[p] EXCEPT !.armed = @ \cup {"ANNOUNCE"}]
    IN /\ Serving(p, f) /\ f \in {FD_ANNOUNCE, FD_SYNC_RX}
       /\ \/ Answered(p, f, r, "ANNOUNCE_RECEIPT_TIMEOUT_EXPIRES") /\ sde' = TRUE
          \/ /\ SlaveOnly /\ ~P2P /\ IoCanFail
             /\ portIsEnabled(r.state)
             /\ Answered(p, f, r, "FAULT_DETECTED")
             /\ sde' = sde
       /\ UNCHANGED idx

(* ANNOUNCE or SYNC_RX expired; a slave-only E2E port renews its transport. *)
AnnounceTimeout(p, f) ==
    LET q == IF port[p].best = Null THEN port[p]
             ELSE fc_clear(port[p], port[p].best)
        r == [q EXCEPT !.armed = @ \cup {"ANNOUNCE"}]
    IN /\ Serving(p, f) /\ f \in {FD_ANNOUNCE, FD_SYNC_RX}
       /\ \/ Answered(p, f, r, "ANNOUNCE_RECEIPT_TIMEOUT_EXPIRES") /\ sde' = TRUE
          \/ /\ SlaveOnly /\ ~P2P /\ IoCanFail
             /\ portIsEnabled(r.state)
             /\ Answered(p, f, r, "FAULT_DETECTED")
             /\ sde' = sde
       /\ UNCHANGED idx

(* DELAY, MANNO and SYNC_TX set themselves anew and transmit.              *)
TransmitTimeout(p, f) ==
    /\ Serving(p, f) /\ f \in {FD_DELAY, FD_MANNO, FD_SYNC_TX}
    /\ \E e \in {"NONE"} \cup (IF IoCanFail THEN {"FAULT_DETECTED"} ELSE {}) :
          Answered(p, f, [port[p] EXCEPT !.armed = @ \cup {TimerOf(f)}], e)
    /\ UNCHANGED <<idx, sde>>

QualificationTimeout(p) ==
    /\ Serving(p, FD_QUALIFICATION)
    /\ Answered(p, FD_QUALIFICATION, port[p], "QUALIFICATION_TIMEOUT_EXPIRES")
    /\ UNCHANGED <<idx, sde>>

(* A message that is dropped, or answered without changing the port, or    *)
(* whose reception or answer fails; P2P peers may be too many.             *)
ReceiveOther(p, f) ==
    /\ Serving(p, f) /\ f \in Sockets
    /\ \/ Answered(p, f, port[p], "NONE")
       \/ IoCanFail /\ Answered(p, f, port[p], "FAULT_DETECTED")
       \/ /\ IoCanFail /\ P2P
          /\ Answered(p, f, [port[p] EXCEPT !.lastFault = "BAD_PEER_NETWORK"],
                      "FAULT_DETECTED")
    /\ UNCHANGED <<idx, sde>>

(* _portIgnore drops the clock's own announces.                            *)
ReceiveAnnounce(p, f) ==
    /\ Serving(p, f) /\ f \in Sockets
    /\ \E m \in Hears[p] :
         /\ m.sender.clockIdentity # clockIdentity
         /\ \E k \in Prunings(port[p].msgs[m.sender]) :
              LET a == portMsgProAnnounce(port[p], m, k)
              IN /\ Answered(p, f, a.port,
                             IF a.diff THEN "STATE_DECISION_EVENT" ELSE "NONE")
                 /\ sde' = (sde \/ a.diff)
    /\ UNCHANGED idx

(* A Sync or Follow_Up of the parent completes a pair: the servo's verdict *)
(* is dispatched from within the handler, which then returns EV_NONE.      *)
ReceiveSync(p, f) ==
    LET q == IF SyncTimeout THEN [port[p] EXCEPT !.armed = @ \cup {"SYNC_RX"}]
             ELSE port[p]
    IN /\ Serving(p, f) /\ f \in Sockets
       /\ port[p].state \in Slaving
       /\ parent.id \in { m.sender : m \in Hears[p] }
       /\ \E e \in {"SYNCHRONIZATION_FAULT", "MASTER_CLOCK_SELECTED"} :
            \E r \in Dispatched(q, e, FALSE) : Answered(p, f, r, "NONE")
       /\ UNCHANGED <<idx, sde>>

(* clock_poll's last look at a port: its fault timer.                      *)
FaultTimerExpires(p) ==
    LET q == [port[p] EXCEPT !.faultTimer = FALSE]
    IN /\ Serving(p, FD_FAULT)
       /\ \E r \in IF q.linkUp THEN Dispatched(q, "FAULT_CLEARED", FALSE)
                   ELSE {q} :
            port' = [port EXCEPT ![p] = r]
       /\ revents' = revents \ {<< p, FD_FAULT >>}
       /\ UNCHANGED <<phase, cur, idx, sde, dds, decision>>

(* Management over the UDS port sets the default dataset (PRIORITY1,       *)
(* PRIORITY2, GRANDMASTER_SETTINGS_NP), or only reads.                     *)
Manage ==
    /\ phase = "serve" /\ revents = {Uds}
    /\ \/ dds' \in DefaultDs /\ sde' = TRUE
       \/ UNCHANGED <<dds, sde>>
    /\ revents' = {}
    /\ UNCHANGED <<port, phase, cur, idx, decision>>

----------------------------------------------------------------------------
(* FD_RTNL: rtnl_link_status calls port_link_status for every message of   *)
(* the read that is about this interface, then bc_event looks at the flags. *)

RtnlRead(p) ==
    /\ Serving(p, FD_RTNL)
    /\ phase' = "rtnl" /\ cur' = p /\ idx' = 0
    /\ UNCHANGED <<port, revents, sde, dds, decision>>

(* The flags after a message that says up, with a new label or not.        *)
LinkMessage(q, up, relabelled) ==
    [q EXCEPT !.linkUp = up,
              !.linkFlags = (IF q.linkUp = up THEN {} ELSE {"CHANGED"})
                            \cup (IF relabelled THEN {"TS_LABEL"} ELSE {})]

(* On a change with the link up the PHC is looked at again: it may lack    *)
(* the time stamping modes, be the same or another one, or not open.       *)
PhcOutcomes(r) ==
    IF HwTimestamps /\ r.linkUp /\ r.linkFlags # {}
    THEN {"switched", "modes", "failed"} ELSE {"switched"}

port_link_status(p) ==
    /\ phase = "rtnl" /\ cur = p /\ idx < RtnlBatch
    /\ \E up \in BOOLEAN, relabelled \in IF Bonded THEN BOOLEAN ELSE {FALSE} :
         LET r == LinkMessage(port[p], up, relabelled)
         IN \E phc \in PhcOutcomes(r) :
              LET s == IF phc = "modes"
                       THEN [r EXCEPT !.linkUp = FALSE, !.linkFlags = {"CHANGED"}]
                       ELSE r
              IN /\ \E t \in IF phc = "failed"
                             THEN Dispatched([s EXCEPT !.lastFault = "SWITCH_PHC"],
                                             "FAULT_DETECTED", FALSE)
                             ELSE {s} :
                      port' = [port EXCEPT ![p] = t]
                 /\ sde' = (sde \/ ~s.linkUp)
    /\ idx' = idx + 1
    /\ UNCHANGED <<phase, revents, cur, dds, decision>>

RtnlEvent(q) ==
    IF q.linkUp /\ q.linkFlags = {"CHANGED"} THEN "FAULT_CLEARED"
    ELSE IF "TS_LABEL" \in q.linkFlags \/ q.linkFlags = {"CHANGED"}
         THEN "FAULT_DETECTED"
    ELSE "NONE"

RtnlDone(p) ==
    /\ phase = "rtnl" /\ cur = p
    /\ Answered(p, FD_RTNL, port[p], RtnlEvent(port[p]))
    /\ idx' = 0
    /\ sde' = sde

----------------------------------------------------------------------------
(* handle_state_decision_event.                                            *)

(* Mutant of EndPass: the running best is not reset.                       *)
EndPassKeepsBest ==
    /\ phase = "serve" /\ revents = {}
    /\ phase' = (IF sde THEN "compute" ELSE "poll")
    /\ cur' = 1 /\ idx' = 0
    /\ UNCHANGED <<port, revents, sde, dds, decision>>

EndPass ==
    /\ phase = "serve" /\ revents = {}
    /\ phase' = (IF sde THEN "compute" ELSE "poll")
    /\ cur' = 1 /\ idx' = 0
    /\ newBest' = (IF sde THEN Null ELSE newBest)
    /\ UNCHANGED <<port, revents, sde, dds, best, bestId, fresh, parent>>

(* port_compute_best, entered for the port.                                *)
ComputeBest(p) ==
    /\ phase = "compute" /\ cur = p /\ idx = 0
    /\ port' = [port EXCEPT ![p].best = Null]
    /\ idx' = (IF p \in MasterOnly THEN Len(port[p].heard) ELSE 0) + 1
    /\ UNCHANGED <<phase, revents, cur, sde, dds, decision>>

ComputeBestRound(p) ==
    /\ phase = "compute" /\ cur = p
    /\ idx \in 1 .. Len(port[p].heard)
    /\ LET s == port[p].heard[idx]
       IN \E k \in Prunings(port[p].msgs[s]) :
            port' = [port EXCEPT ![p] =
                        computeBestStep(@, s, k, clockIdentity, p)]
    /\ idx' = idx + 1
    /\ UNCHANGED <<phase, revents, cur, sde, dds, decision>>

PortBestDs(p) == PORT_BEST_FOREIGN_DS(port[p], clockIdentity, p)

Candidate(p) ==
    IF /\ port[p].best # Null
       /\ newBest = Null \/ Better(PortBestDs(p), newBest.ds)
    THEN [port |-> p, sender |-> port[p].best, ds |-> PortBestDs(p)]
    ELSE newBest

(* Mutant of ComputeBestDone: the loop runs past the last port.            *)
ComputeBestPastEnd(p) ==
    /\ phase = "compute" /\ cur = p
    /\ idx > Len(port[p].heard)
    /\ newBest' = Candidate(p)
    /\ idx' = 0
    /\ cur' = p + 1
    /\ UNCHANGED <<port, revents, phase, sde, dds, best, bestId, fresh, parent>>

(* The port's best is in; after the last port the clock's best is known.   *)
ComputeBestDone(p) ==
    /\ phase = "compute" /\ cur = p
    /\ idx > Len(port[p].heard)
    /\ newBest' = Candidate(p)
    /\ idx' = 0
    /\ \/ /\ p < N
          /\ cur' = p + 1
          /\ UNCHANGED <<phase, best, bestId, fresh>>
       \/ /\ p = N
          /\ best' = newBest'
          /\ bestId' = (IF best' = Null THEN clockIdentity
                        ELSE best'.ds.identity)
          /\ fresh' = (bestId' # bestId)
          /\ cur' = 1
          /\ phase' = "decide"
    /\ UNCHANGED <<port, revents, sde, dds, parent>>

(* Mutant of Recommended: the best port is told by its grandmaster.        *)
RecommendedByGm(p) ==
    StateDecision(port[p].state, dds,
                  IF best = Null THEN Null ELSE best.ds,
                  /\ best # Null /\ port[p].best # Null
                  /\ PortBestDs(p).identity = best.ds.identity,
                  PortBestDs(p))

Recommended(p) ==
    StateDecision(port[p].state, dds,
                  IF best = Null THEN Null ELSE best.ds,
                  best # Null /\ best.port = p,
                  PortBestDs(p))

EventOf(role) ==
    CASE role = "LISTENING"    -> "NONE"
      [] role = "GRAND_MASTER" -> "RS_GRAND_MASTER"
      [] role = "MASTER"       -> "RS_MASTER"
      [] role = "PASSIVE"      -> "RS_PASSIVE"
      [] role = "SLAVE"        -> "RS_SLAVE"

(* Mutant of UpdatedParent: the parent only follows a new grandmaster.     *)
ParentIfFresh(role) ==
    CASE role = "GRAND_MASTER" -> ParentSelf
      [] role = "SLAVE" /\ fresh -> [id |-> best.sender, gm |-> best.ds.identity]
      [] OTHER -> parent

(* clock_update_grandmaster and clock_update_slave.                        *)
UpdatedParent(role) ==
    CASE role = "GRAND_MASTER" -> ParentSelf
      [] role = "SLAVE" -> [id |-> best.sender, gm |-> best.ds.identity]
      [] OTHER -> parent

Decide(p) ==
    /\ phase = "decide" /\ cur = p
    /\ parent' = UpdatedParent(Recommended(p))
    /\ \E r \in Dispatched(port[p], EventOf(Recommended(p)), fresh) :
          port' = [port EXCEPT ![p] = r]
    /\ IF p < N
       THEN cur' = p + 1 /\ UNCHANGED <<phase, sde>>
       ELSE cur' = 1 /\ phase' = "poll" /\ sde' = FALSE
    /\ UNCHANGED <<revents, idx, dds, newBest, best, bestId, fresh>>

----------------------------------------------------------------------------

Serve ==
    \E p \in Ports :
        \/ \E f \in Fds : \/ AnnounceTimeout(p, f)
                          \/ TransmitTimeout(p, f)
                          \/ ReceiveOther(p, f)
                          \/ ReceiveAnnounce(p, f)
                          \/ ReceiveSync(p, f)
        \/ QualificationTimeout(p)
        \/ FaultTimerExpires(p)
        \/ RtnlRead(p)
        \/ port_link_status(p)
        \/ RtnlDone(p)

StateDecisionEvent ==
    \E p \in Ports :
        \/ ComputeBest(p)
        \/ ComputeBestRound(p)
        \/ ComputeBestDone(p)
        \/ Decide(p)

Next == Poll \/ Serve \/ Manage \/ EndPass \/ StateDecisionEvent

Spec == Init /\ [][Next]_vars

(* clock_poll returns to the loop of ptp4l, which calls it again, so every *)
(* pass goes on to its end; and a timer that is armed whenever the clock   *)
(* polls is reported at last.                                              *)
TimerReported(p, f) == Poll /\ << p, f >> \in revents'

Fairness ==
    /\ WF_vars(Serve \/ Manage \/ EndPass \/ StateDecisionEvent)
    /\ \A p \in Ports, f \in {FD_ANNOUNCE, FD_FAULT} :
            SF_vars(TimerReported(p, f))

FairSpec == Spec /\ Fairness

----------------------------------------------------------------------------
(* Properties.  Between passes and while a pass is served the clock is     *)
(* settled; the decision loops are in the middle of changing their minds.  *)

Settled == phase \in {"poll", "serve", "rtnl"}

(* At most one port of a clock is a slave or on its way to be one, though  *)
(* handle_state_decision_event moves the ports one by one and servo,       *)
(* timeout and fault events move them in between.                          *)
AtMostOneSlave ==
    Settled => \A p, r \in Ports :
        port[p].state \in Slaving /\ port[r].state \in Slaving => p = r

(* The slave port is the port of the clock's best master, and the parent   *)
(* dataset names that master: the Syncs portMsgProSync lets through are    *)
(* those of the master the best-master algorithm chose.                    *)
SlaveFollowsBest ==
    Settled => \A p \in Ports : port[p].state \in Slaving =>
        /\ best # Null
        /\ best.port = p /\ best.sender = port[p].best
        /\ parent = [id |-> best.sender, gm |-> best.ds.identity]

(* A port that follows a foreign master has one: _updateCurrentMaster      *)
(* reads p->best without looking whether it is NULL.                       *)
BestPresent ==
    Settled => \A p \in Ports :
        port[p].state \in {"PASSIVE"} \cup Slaving => port[p].best # Null

(* The delay timer of an E2E port is served only while the best master has *)
(* a message: hybrid_e2e sends the request to the address of the first     *)
(* (TAILQ_FIRST(&p->best->messages) in port_delay_request).                *)
DelayRequestHasMaster ==
    ~P2P => \A p \in Ports : Serving(p, FD_DELAY) =>
        /\ port[p].best # Null
        /\ port[p].msgs[port[p].best] # <<>>

(* Only a master transmits Announce and Sync: outside the two master       *)
(* states neither timer is armed or still to be served.                    *)
OnlyMastersTransmit ==
    \A p \in Ports : port[p].state \notin Mastering =>
        /\ port[p].armed \cap {"MANNO", "SYNC_TX"} = {}
        /\ revents \cap {<< p, FD_MANNO >>, << p, FD_SYNC_TX >>} = {}

(* An enabled port always has the timer armed that gets it out of a silent *)
(* network: it cannot wait for ever for a message that never comes.        *)
NeverDeaf ==
    \A p \in Ports :
        /\ port[p].state \in Listeners => "ANNOUNCE" \in port[p].armed
        /\ port[p].state = "PRE_MASTER" => "QUALIFICATION" \in port[p].armed
        /\ port[p].state \in Mastering => {"MANNO", "SYNC_TX"} \subseteq port[p].armed

(* A port that is down holds no timer, no foreign master and no best: what *)
(* portOpDisable released is not set or added again by a later handler.    *)
DownHoldsNothing ==
    \A p \in Ports : port[p].state \in Down =>
        /\ port[p].armed = {} /\ port[p].heard = <<>>
        /\ port[p].msgs = NoMsgs /\ port[p].best = Null

(* A peer-delay port measures the link in every enabled state: the DELAY   *)
(* timer that _p2pTransition leaves running does run.                      *)
PdelayKeepsRunning ==
    P2P => \A p \in Ports :
        portIsEnabled(port[p].state) => "DELAY" \in port[p].armed

(* A faulty port with its link up waits for its fault timer: "Clear any    *)
(* fault after a little while" (clock_poll).                               *)
FaultWillBeCleared ==
    Settled => \A p \in Ports :
        port[p].state = "FAULTY" /\ port[p].linkUp /\ phase = "poll"
            => port[p].faultTimer

(* A running fault timer is not lost: while the port stays faulty with its *)
(* link up, the timer stays set (or is set again).  ptp4l.8:              *)
(* "the time in seconds between the detection of a port's fault and the    *)
(* fault being reset".                                                     *)
FaultTimerKept ==
    [][ \A p \in Ports :
          /\ port[p].state = "FAULTY" /\ port[p].faultTimer
          /\ port'[p].state = "FAULTY" /\ port'[p].linkUp
          => port'[p].faultTimer ]_vars

(* Every fault is cleared in the end, or the link goes down.               *)
FaultRecovered ==
    \A p \in Ports :
        port[p].state = "FAULTY" ~> port[p].state # "FAULTY" \/ ~port[p].linkUp

(* When the masters fall silent every slave port gives up in the end: the  *)
(* announce receipt timeout clears what it kept of its master, and no later *)
(* decision makes it a slave again on the strength of old announces.       *)
Reception ==
    \E p \in Ports, f \in Sockets : ReceiveAnnounce(p, f) \/ ReceiveSync(p, f)

MasterLossNoticed ==
    <>[][~Reception]_vars => <>[](\A p \in Ports : port[p].state \notin Slaving)
=============================================================================
