---------------------------- MODULE Subscription ---------------------------
(***************************************************************************)
(* What ptp4l shows its clients on the UDS port: the state of its ports,   *)
(* on request and, to a subscriber, whenever it changes                    *)
(* (ptpClockSubscription.c, clock_send_notification, port_notify_event).   *)
(* There is one client.  Requests and answers travel over datagram sockets *)
(* of one machine: in order, and lost only when a program ends.            *)
(*                                                                         *)
(* The ports' states are what PtpClock makes them; here they change freely.*)
(***************************************************************************)
EXTENDS Integers, Sequences, FiniteSets

CONSTANTS
    NumberPorts,        \* ports of ptp4l
    PortStates,         \* port states that occur
    FirstStates,        \* states ptp4l may have its ports in at first
    Duration,           \* PMC_SUBSCRIBE_DURATION, in rounds of the client
    Null,
    MaxEvents           \* bound: how often a port changes its state, or
                        \* ptp4l ends and is started again

(* enum PORT_STATE: the larger one wins where ports share a clock.         *)
PS_FAULTY == 2
PS_DISABLED == 3
PS_LISTENING == 4
PS_PRE_MASTER == 5
PS_MASTER == 6
PS_PASSIVE == 7
PS_UNCALIBRATED == 8
PS_SLAVE == 9

ASSUME SubscriptionConfig ==
    /\ NumberPorts \in Nat \ {0}
    /\ PortStates \subseteq PS_FAULTY .. PS_SLAVE /\ PS_LISTENING \in PortStates
    /\ FirstStates \subseteq [1 .. NumberPorts -> PortStates]
    /\ {Duration, MaxEvents} \subseteq Nat /\ Duration > 0

Ports == 1 .. NumberPorts

(* What can be asked for, and the answers and notices.                     *)
DEFAULT == [id |-> "DEFAULT_DATA_SET"]
TIME == [id |-> "TIME_PROPERTIES"]
SUBSCRIBE == [id |-> "SUBSCRIBE_EVENTS"]
Properties(p) == [id |-> "PORT_PROPERTIES", port |-> p]

Requests == {DEFAULT, TIME, SUBSCRIBE} \cup { Properties(p) : p \in Ports }

(* No request, no time left: Null is neither.                              *)
ASSUME NullConfig == Null \notin Requests \cup Nat

StateOf(name, p, s) == [id |-> name, port |-> p, state |-> s]

Answers ==
    {DEFAULT, TIME, SUBSCRIBE} \cup
    { StateOf(name, p, s) : name \in {"PORT_PROPERTIES", "PORT_DATA_SET"},
                            p \in Ports, s \in PortStates }

VARIABLES
    up,         \* ptp4l runs
    state,      \* state[p]: the state of port p
    expiration, \* rounds until the subscription ends, Null without a subscriber
    requests,   \* requests ptp4l has not read yet
    inbox,      \* answers and notices the client has not read yet
    crashes,    \* how often ptp4l has ended
    changes     \* how often a port has changed its state

serverVars == <<up, state, expiration, requests, inbox, crashes, changes>>

ServerTypeOK ==
    /\ up \in BOOLEAN /\ crashes \in 0 .. MaxEvents /\ changes \in 0 .. MaxEvents
    /\ state \in [Ports -> PortStates]
    /\ expiration \in (0 .. Duration) \cup {Null}
    /\ requests \in Seq(Requests)
    /\ inbox \in Seq(Answers)

ServerInit ==
    /\ up \in BOOLEAN /\ crashes = 0 /\ changes = 0
    /\ state \in FirstStates
    /\ expiration = Null
    /\ requests = <<>> /\ inbox = <<>>

(* The end of a pass of clock_poll: a subscription that has expired is     *)
(* removed.  Nothing removes it before ptp4l has something else to do.     *)
clock_prune_subscriptions(e) == IF e = 0 THEN Null ELSE e

(* Mutant of NewExpiration: a renewal finds the entry and leaves it.       *)
NewExpirationKept(req, e) == IF req = SUBSCRIBE /\ e = Null THEN Duration ELSE e

(* clock_update_subscription: a new entry, or the old one renewed.         *)
NewExpiration(req, e) == IF req = SUBSCRIBE THEN Duration ELSE e

Answer(req) ==
    IF req \in {DEFAULT, TIME, SUBSCRIBE} THEN req
    ELSE StateOf("PORT_PROPERTIES", req.port, state[req.port])

(* ptp4l reads one request and answers it.                                 *)
Serve ==
    /\ up /\ requests # <<>>
    /\ requests' = Tail(requests)
    /\ inbox' = Append(inbox, Answer(Head(requests)))
    /\ expiration' = clock_prune_subscriptions(
                        NewExpiration(Head(requests), expiration))
    /\ UNCHANGED <<up, state, crashes, changes>>

(* Mutant of Notified: the notice is sent before the state is changed.     *)
NotifiedEarly(p, s) ==
    IF expiration = Null THEN inbox
    ELSE Append(inbox, StateOf("PORT_DATA_SET", p, state[p]))

(* port_notify_event: the port's data set goes to the subscriber.          *)
Notified(p, s) ==
    IF expiration = Null THEN inbox
    ELSE Append(inbox, StateOf("PORT_DATA_SET", p, s))

(* portStateUpdate changes the state of a port.                            *)
PortChanges(p, s) ==
    /\ up /\ s # state[p] /\ changes + crashes < MaxEvents
    /\ changes' = changes + 1
    /\ state' = [state EXCEPT ![p] = s]
    /\ inbox' = Notified(p, s)
    /\ expiration' = clock_prune_subscriptions(expiration)
    /\ UNCHANGED <<up, requests, crashes>>

(* ptp4l ends: its subscribers and what it has not read are gone.          *)
Crash ==
    /\ up /\ changes + crashes < MaxEvents
    /\ up' = FALSE /\ crashes' = crashes + 1
    /\ expiration' = Null /\ requests' = <<>>
    /\ UNCHANGED <<state, inbox, changes>>

(* It is started again; its ports listen.                                  *)
Start ==
    /\ ~up /\ up' = TRUE
    /\ state' = [p \in Ports |-> PS_LISTENING]
    /\ UNCHANGED <<expiration, requests, inbox, crashes, changes>>

ServerStep ==
    \/ Serve
    \/ \E p \in Ports, s \in PortStates : PortChanges(p, s)
    \/ Crash
    \/ Start

----------------------------------------------------------------------------
(* What the client does to these.                                          *)

(* A request to a program that does not run is lost.                       *)
Send(req) ==
    /\ requests' = IF up THEN Append(requests, req) ELSE requests
    /\ UNCHANGED <<up, state, expiration, inbox, crashes, changes>>

Receive ==
    /\ inbox # <<>>
    /\ inbox' = Tail(inbox)
    /\ UNCHANGED <<up, state, expiration, requests, crashes, changes>>

(* A round of the client's time passes.  ptp4l answers within one.         *)
TimePasses ==
    /\ requests = <<>>
    /\ expiration' = IF expiration \in 1 .. Duration THEN expiration - 1
                                                     ELSE expiration
    /\ UNCHANGED <<up, state, requests, inbox, crashes, changes>>
=============================================================================
