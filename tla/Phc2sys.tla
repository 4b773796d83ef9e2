------------------------------- MODULE Phc2sys -----------------------------
(***************************************************************************)
(* phc2sys -a: the clocks of ptp4l's ports and the system clock, which of  *)
(* them is the source of time and which are set from it, following the     *)
(* state of the ports (psysPmc.c, psysConfig.c, psysMain.c).               *)
(*                                                                         *)
(* The program waits in _psysPmcRun only.  What it reads there while it    *)
(* waits for one answer may change the states it is working with, and an   *)
(* answer that comes after it has given up is read by a later request.     *)
(*                                                                         *)
(* One port has one clock, port p clock p.  Servo, offsets, leap seconds   *)
(* and the move of an interface to another PHC are left out.               *)
(***************************************************************************)
EXTENDS Subscription, FiniteSetsExt

CONSTANTS
    PhcOf,              \* PhcOf[p]: phc_index of the clock of port p
    Realtime,           \* the uses of -r to be covered
    UpdateInterval      \* PMC_UPDATE_INTERVAL, in rounds

ASSUME Phc2sysConfig ==
    /\ PhcOf \in [Ports -> Nat]
    /\ Realtime \subseteq {"none", "dest_only", "source"}
    /\ UpdateInterval \in Nat \ {0} /\ Duration > UpdateInterval + 1

RT == 0                 \* the system clock
Clocks == Ports \cup {RT}

VARIABLES
    rt,         \* -r: "none", "dest_only", or also a "source"
    node        \* struct PhcNode, and where the program is

vars == <<serverVars, rt, node>>

(* Where _psysPmcRun is called with a timeout of a second.                 *)
Patient == { "identity", "number", "subscribed", "ports", "first_offset",
             "offset", "reinit" }

(* And where without.                                                      *)
Hasty == {"subscribe", "update", "events"}

Steps == Patient \cup Hasty \cup {"sleep", "sync", "exit"}

Norm == {PS_DISABLED, PS_PRE_MASTER, PS_MASTER, PS_UNCALIBRATED, PS_SLAVE}

Nodes ==
    [ step : Steps,
      idx : Ports,                      \* the port or clock of the loop
      pmc_ds_requested : BOOLEAN,
      age : 0 .. UpdateInterval,        \* rounds since pmc_last_update
      ports : [Ports -> Norm \cup {Null}],
      clocks : [Clocks -> Norm \cup {Null}],      \* clock->state
      new : [Ports -> Norm \cup {Null}],          \* clock->new_state
      state_changed : BOOLEAN,
      dst_clocks : SUBSET Clocks,
      master : Clocks \cup {Null} ]

TypeOK == ServerTypeOK /\ rt \in {"none", "dest_only", "source"} /\ node \in Nodes

Init ==
    /\ ServerInit
    /\ rt \in Realtime
    /\ node = [ step |-> "identity", idx |-> 1, pmc_ds_requested |-> FALSE,
                age |-> UpdateInterval,
                ports |-> [p \in Ports |-> Null],
                clocks |-> [c \in Clocks |-> Null],
                new |-> [c \in Ports |-> Null],
                state_changed |-> FALSE, dst_clocks |-> {}, master |-> Null ]

----------------------------------------------------------------------------
(* Port states.                                                            *)

psysNormalizeState(s) == IF s \in Norm THEN s ELSE PS_DISABLED

clock_compute_state(ports, c) ==
    IF ports[c] # Null /\ ports[c] > PS_DISABLED THEN ports[c] ELSE PS_DISABLED

(* Mutants of ClockMoves: a clock that is to change is compared only with   *)
(* what it was; no reconfiguration is asked for.                           *)
ClockMovesFrom(n, c, s) ==
    IF n.clocks[c] # s
    THEN [n EXCEPT !.new[c] = s, !.state_changed = TRUE] ELSE n

ClockMovesQuietly(n, c, s) ==
    IF n.clocks[c] # s \/ n.new[c] # Null THEN [n EXCEPT !.new[c] = s] ELSE n

(* Clock c is to be in state s: noted if it is not, or was to change.      *)
ClockMoves(n, c, s) ==
    IF n.clocks[c] # s \/ n.new[c] # Null
    THEN [n EXCEPT !.new[c] = s, !.state_changed = TRUE] ELSE n

(* __pmcRecvSubscribed: notices of ports not known yet are dropped.        *)
PortMoves(n, p, s) ==
    IF n.ports[p] \in {Null, s} THEN n
    ELSE ClockMoves([n EXCEPT !.ports[p] = s], p,
                    clock_compute_state([n.ports EXCEPT ![p] = s], p))

Noticed(n, m) ==
    IF m.id = "PORT_DATA_SET" THEN PortMoves(n, m.port, psysNormalizeState(m.state))
    ELSE n

----------------------------------------------------------------------------
(* psysReconfigure.                                                        *)

(* Mutant of Destinations: the case for an uncalibrated port is missing.   *)
DestinationsToo == Norm \ {PS_SLAVE}

Destinations == Norm \ {PS_UNCALIBRATED, PS_SLAVE}

In(n, states) == { c \in Ports : n.clocks[c] \in states }

(* Of the clocks with one PHC only the first of the list is a destination. *)
Selected(n) ==
    { c \in In(n, Destinations) :
        ~\E d \in In(n, Destinations) : d > c /\ PhcOf[d] = PhcOf[c] }

Sources(n) == In(n, {PS_UNCALIBRATED, PS_SLAVE})

(* The last of the list stands in for a source until the next time.  The   *)
(* list begins with the port added last.                                   *)
DefaultClock(n) ==
    LET RtState == IF rt = "none" THEN n.clocks[RT] ELSE PS_SLAVE
    IN  [n EXCEPT !.dst_clocks = Selected(n), !.master = 1,
                  !.new = [@ EXCEPT ![1] = n.clocks[1]],
                  !.clocks = [@ EXCEPT ![1] = PS_SLAVE, ![RT] = RtState]]

NoMaster(n) == [n EXCEPT !.dst_clocks = Selected(n), !.master = Null]

FromRealtime(n) ==
    [n EXCEPT !.dst_clocks = Selected(n), !.master = RT, !.clocks[RT] = PS_SLAVE]

FromPort(n) ==
    [n EXCEPT !.dst_clocks = Selected(n) \cup (IF rt = "none" THEN {} ELSE {RT}),
              !.master = CHOOSE c \in In(n, {PS_SLAVE}) : TRUE,
              !.clocks[RT] = IF rt = "none" THEN @ ELSE PS_MASTER]

Waiting(n) ==
    \/ Cardinality(Sources(n)) > 1
    \/ Sources(n) # {} /\ In(n, {PS_SLAVE}) = {}
    \/ Sources(n) = {} /\ Selected(n) = {}
    \/ Sources(n) = {} /\ rt # "source"
    \/ Selected(n) = {} /\ rt = "none"

(* Mutant of Chosen: the first clock that seems fit is taken.              *)
ChosenEagerly(n) ==
    IF In(n, {PS_SLAVE}) # {} /\ (Selected(n) # {} \/ rt # "none") THEN FromPort(n)
    ELSE IF rt = "source" THEN FromRealtime(n)
    ELSE IF Cardinality(Selected(n)) > 1 THEN DefaultClock(n)
    ELSE NoMaster(n)

Chosen(n) ==
    IF /\ Cardinality(Selected(n)) > 1 /\ In(n, {PS_SLAVE}) = {}
       /\ rt # "source"
    THEN DefaultClock(n)
    ELSE IF Waiting(n) THEN NoMaster(n)
    ELSE IF Sources(n) = {} THEN FromRealtime(n)
    ELSE FromPort(n)

(* The loop over the clocks, from c on: one that changes state is asked    *)
(* about again first (_psysClockReinit).                                   *)
Changing(n, c) == { d \in 1 .. c : n.new[d] # Null }

Continued(n, c) ==
    IF Changing(n, c) = {} THEN [Chosen(n) EXCEPT !.step = "sync"]
    ELSE [n EXCEPT !.step = "reinit", !.idx = Max(Changing(n, c))]

psysReconfigure(n) == Continued([n EXCEPT !.state_changed = FALSE], NumberPorts)

(* _psysClockReinit has returned.  A notice it read may have changed the   *)
(* new state once more.                                                    *)
Reinitialised(n, c) ==
    Continued([n EXCEPT !.clocks[c] = n.new[c], !.new[c] = Null], c - 1)

----------------------------------------------------------------------------
(* What follows a call of _psysPmcRun.                                     *)

Asks ==
    CASE node.step \in {"identity", "number"} -> DEFAULT
      [] node.step \in {"subscribed", "subscribe"} -> SUBSCRIBE
      [] node.step \in {"first_offset", "update", "offset"} -> TIME
      [] node.step \in {"ports", "reinit"} -> Properties(node.idx)
      [] OTHER -> Null

(* psysAutoInitPortsByPmc: port p is known, and with the last one the      *)
(* states of the clocks.                                                   *)
PortKnown(n, p) ==
    IF p < NumberPorts THEN [n EXCEPT !.idx = p + 1]
    ELSE [n EXCEPT !.step = "first_offset", !.state_changed = TRUE,
                   !.new = [c \in Ports |-> clock_compute_state(n.ports, c)]]

PortAnswered(n, p, s) ==
    IF p # n.idx THEN n
    ELSE IF n.step = "ports" THEN PortKnown([n EXCEPT !.ports[p] = s], p)
    ELSE Reinitialised([n EXCEPT !.ports[p] = s], p)

(* The call returned 1 with answer m.                                      *)
Returned(n, m) ==
    CASE n.step = "identity"      -> [n EXCEPT !.step = "number"]
      [] n.step = "number"        -> [n EXCEPT !.step = "subscribed"]
      [] n.step = "subscribed"    -> [n EXCEPT !.step = "ports"]
      [] n.step = "first_offset"  -> [n EXCEPT !.step = "sleep"]
      [] n.step = "subscribe"     -> [n EXCEPT !.step = "update"]
      [] n.step = "update"        -> [n EXCEPT !.step = "events", !.age = 0]
      [] n.step = "offset"        -> psysReconfigure(n)
      [] OTHER -> PortAnswered(n, m.port, psysNormalizeState(m.state))

(* It returned 0.                                                          *)
TimedOut(n) ==
    CASE n.step = "identity"      -> n
      [] n.step \in {"number", "subscribed", "ports", "first_offset"}
                                  -> [n EXCEPT !.step = "exit"]
      [] n.step = "subscribe"     -> [n EXCEPT !.step = "update"]
      [] n.step = "update"        -> [n EXCEPT !.step = "events"]
      [] n.step = "events"        -> [n EXCEPT !.step = IF n.state_changed
                                                        THEN "offset" ELSE "sync"]
      [] n.step = "offset"        -> [n EXCEPT !.step = "sleep"]
      [] n.step = "reinit"        -> Reinitialised(n, n.idx)

----------------------------------------------------------------------------
(* Actions: the rounds of _psysPmcRun's loop, and the main loop.           *)

(* Nothing to read and nothing asked for yet: the request goes out.        *)
PmcSend ==
    /\ node.step \in Patient \cup Hasty /\ Asks # Null
    /\ ~node.pmc_ds_requested /\ inbox = <<>>
    /\ Send(Asks)
    /\ node' = [node EXCEPT !.pmc_ds_requested = TRUE]
    /\ UNCHANGED rt

IsAnswer(m) ==
    /\ Asks # Null /\ m.id = Asks.id

PmcReceive ==
    /\ node.step \in Patient \cup Hasty
    /\ Receive
    /\ node' = IF IsAnswer(Head(inbox))
               THEN Returned([node EXCEPT !.pmc_ds_requested = FALSE], Head(inbox))
               ELSE Noticed(node, Head(inbox))
    /\ UNCHANGED rt

(* Mutant of Aged: the time since the last update is not looked at.        *)
AgedOn(n) == [n EXCEPT !.age = @ + 1]

Aged(n) == [n EXCEPT !.age = IF @ < UpdateInterval THEN @ + 1 ELSE @]

GivesUp(n) == TimedOut([n EXCEPT !.pmc_ds_requested = FALSE])

(* poll timed out, at once or after a second.                              *)
PmcTimeout ==
    /\ inbox = <<>>
    /\ node.pmc_ds_requested \/ Asks = Null
    /\ \/ node.step \in Hasty /\ node' = GivesUp(node) /\ UNCHANGED serverVars
       \/ node.step \in Patient /\ node' = GivesUp(Aged(node)) /\ TimePasses
    /\ UNCHANGED rt

(* Mutant of Woken: the interval is never over.                            *)
WokenLate(n) == [n EXCEPT !.step = IF n.age <= UpdateInterval THEN "events"
                                                              ELSE "subscribe"]

(* clock_nanosleep; psysPmcUpdate finds whether a minute has passed.       *)
Woken(n) == [n EXCEPT !.step = IF n.age < UpdateInterval THEN "events"
                                                         ELSE "subscribe"]

Wake ==
    /\ node.step = "sleep"
    /\ TimePasses
    /\ node' = Woken(Aged(node))
    /\ UNCHANGED rt

(* The clocks set in this round: one that is to be, and is not the source. *)
update_needed(c) ==
    /\ node.clocks[c] \in Destinations
    /\ c # node.master
    /\ (c # RT /\ node.master # RT) => PhcOf[c] # PhcOf[node.master]

Updated == IF node.master = Null THEN {}
           ELSE { c \in node.dst_clocks : update_needed(c) }

Sync ==
    /\ node.step = "sync"
    /\ node' = [node EXCEPT !.step = "sleep"]
    /\ UNCHANGED <<serverVars, rt>>

PhcStep == PmcSend \/ PmcReceive \/ PmcTimeout \/ Wake \/ Sync

Next ==
    \/ PhcStep
    \/ ServerStep /\ UNCHANGED <<rt, node>>

Spec == Init /\ [][Next]_vars

(* The program never waits for ever, ptp4l reads its requests, and notices *)
(* do not come so fast that there is always one to read before a request   *)
(* can be sent.                                                            *)
Fairness ==
    /\ WF_vars(PhcStep)
    /\ WF_vars(Serve /\ UNCHANGED <<rt, node>>)
    /\ SF_vars(PmcSend)

FairSpec == Spec /\ Fairness

----------------------------------------------------------------------------
(* Properties.                                                             *)

Following == node.step \in {"sleep", "sync"} /\ ~node.state_changed

(* While ptp4l runs on, a subscription once made does not end:             *)
(* "PMC_SUBSCRIBE_DURATION has to be longer than PMC_UPDATE_INTERVAL       *)
(* otherwise subscription will time out before it is renewed" (phc2sys.h), *)
(* though a renewal may be put off by an answer that is still unread.      *)
SubscriptionKept ==
    crashes = 0 /\ node.step \in {"ports", "first_offset", "sleep", "sync"} \cup Hasty
        => expiration # Null /\ (node.step = "sync" => expiration > 0)

(* Once all notices are read and acted upon, every port and clock is in    *)
(* the state ptp4l has it in, the stand-in for a source excepted, whose    *)
(* state waits in new_state.  A notice is read in the middle of something  *)
(* else as often as not.  Not so after ptp4l was started again, since      *)
(* nothing asks for states that changed unnoticed.                         *)
InStep(p) ==
    /\ node.ports[p] = psysNormalizeState(state[p])
    /\ \/ node.clocks[p] = node.ports[p]
       \/ node.master = p /\ node.new[p] = node.ports[p]

StatesFollow ==
    crashes = 0 /\ Following /\ inbox = <<>> => \A p \in Ports : InStep(p)

(* ptp4l and phc2sys do not set the same clock: one whose port follows a   *)
(* master, or is about to, is not set from another, and the system clock   *)
(* is the source only if no port does and -r -r allows it.  (A notice that *)
(* comes during the reconfiguration is acted upon in the next round.)      *)
FollowsMaster(p) == node.ports[p] \in {PS_UNCALIBRATED, PS_SLAVE}

NoTwoSteerers ==
    crashes = 0 /\ node.step = "sync" /\ ~node.state_changed =>
        /\ \A c \in Updated \ {RT} : ~FollowsMaster(c)
        /\ node.master = RT => rt = "source" /\ \A p \in Ports : ~FollowsMaster(p)

(* ptp4l loses its subscriber when it ends; phc2sys subscribes again       *)
(* within the minutes, unless it was still starting and has given up.      *)
SubscribesAgain ==
    up ~> (expiration # Null \/ ~up \/ node.step = "exit")

(* When the ports no longer change their states, every clock is in the     *)
(* state of its port in the end, unless ptp4l was restarted meanwhile.     *)
InStepInTheEnd ==
    <>[][state' = state]_vars =>
        <>[](~up \/ crashes > 0 \/ node.step = "exit" \/ \A p \in Ports : InStep(p))
=============================================================================
