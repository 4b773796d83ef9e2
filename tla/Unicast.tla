------------------------------- MODULE Unicast ------------------------------
(***************************************************************************)
(* Unicast negotiation: a slave port with a table of unicast masters       *)
(* (unicast_client.c), the services of those masters (UnicastService), and *)
(* the signaling messages between them, which may be lost, repeated, or    *)
(* overtake each other, but do not take longer than a tick.                *)
(*                                                                         *)
(* Time is a number of ticks left (a second of the code); -1 stands for a  *)
(* renewal_tmo of zero.                                                    *)
(***************************************************************************)
EXTENDS UnicastService, FiniteSets

CONSTANTS
    Masters,        \* the entries of the client's master table
    Client,         \* the client's address, in Addrs
    DelayMechanism, \* "E2E" or "P2P"
    AnnouncePeriod, \* the transmission intervals the client asks for
    SyncPeriod,
    Duration,       \* unicast_req_duration
    Query,          \* logQueryInterval, in ticks
    Scenarios,      \* subset of {"CLIENT", "STRANGERS"}, see below
    MaxInFlight,    \* bound: the network loses what exceeds it
    NoMaster

ASSUME UnicastConfig ==
    /\ Client \in Addrs /\ {AnnouncePeriod, SyncPeriod} \subseteq Periods /\ NoMaster \notin Masters
    /\ DelayMechanism \in {"E2E", "P2P"}
    /\ {Duration, Query} \subseteq Nat \ {0} /\ MaxInFlight \in Nat
    /\ IsFiniteSet(Masters)

Types == {"ANNOUNCE", "SYNC", "DELAY_RESP"}
sydymsk == IF DelayMechanism = "P2P" THEN Served ELSE Types

VARIABLES
    scenario,   \* "CLIENT": the client negotiates; "STRANGERS": it has no table and
                \* other machines ask for whatever they like
    cli,        \* cli[m]: the client's entry of master m
    query,      \* ticks until FD_UNICAST_REQ_TIMER
    port,       \* the client's port: its state and the parent of the clock
    srv,        \* srv[m]: the unicast service of master m
    role,       \* role[m]: the state of the master's port, as far as it matters
    net         \* messages under way
vars == <<scenario, cli, query, port, srv, role, net>>

Init ==
    /\ scenario \in Scenarios
    /\ cli = [m \in Masters |-> [state |-> "WAIT", granted |-> {}, renewal |-> -1, known |-> FALSE]]
    /\ query = Query
    /\ port = [state |-> "LISTENING", parent |-> NoMaster]
    /\ srv = [m \in Masters |-> NoService]
    /\ role = [m \in Masters |-> "MASTER"]
    /\ net = {}

Send(n, messages) ==
    IF Cardinality(n \cup messages) <= MaxInFlight THEN n \cup messages ELSE n

---------------------------------------------------------------------------
(* The client.                                                             *)

unicast_fsm(s, e) ==
    CASE s = "WAIT" /\ e = "GRANT_ANN"      -> "HAVE_ANN"
      [] s = "HAVE_ANN" /\ e = "SELECTED"   -> "NEED_SYDY"
      [] s = "NEED_SYDY" /\ e = "GRANT_SYDY" -> "HAVE_SYDY"
      [] s \in {"NEED_SYDY", "HAVE_SYDY"} /\ e = "UNSELECTED" -> "HAVE_ANN"
      [] s # "WAIT" /\ e = "CANCEL"         -> "WAIT"
      [] OTHER -> s

Sydy == IF DelayMechanism = "P2P" THEN <<"SYNC">> ELSE <<"SYNC", "DELAY_RESP">>

(* The types the client asks for when its timer fires, in the order of the *)
(* TLVs; none while a renewal is not due.                                  *)
Wanted(u) ==
    CASE u.state = "WAIT"      -> <<"ANNOUNCE">>
      [] u.state = "NEED_SYDY" -> Sydy
      [] u.state = "HAVE_ANN" /\ u.renewal <= 0  -> <<"ANNOUNCE">>
      [] u.state = "HAVE_SYDY" /\ u.renewal <= 0 -> <<"ANNOUNCE">> \o Sydy
      [] OTHER -> <<>>

Request(m, u) == [to |-> m, kind |-> "REQUEST", types |-> Wanted(u)]

(* The renewal time is forgotten before the request is sent, so that it is *)
(* repeated until it is answered.                                          *)
Asked(u) ==
    IF u.state \in {"HAVE_ANN", "HAVE_SYDY"} /\ u.renewal <= 0
    THEN [u EXCEPT !.renewal = -1] ELSE u

(* unicast_client_timer.  A request that cannot be built or sent is one    *)
(* the network loses; that the port faults then is ClientFault.            *)
ClientTimer ==
    /\ scenario = "CLIENT"
    /\ port.state # "FAULTY"
    /\ query = 0
    /\ query' = Query
    /\ cli' = [m \in Masters |-> Asked(cli[m])]
    /\ net' = Send(net, {Request(m, cli[m]) : m \in {x \in Masters : Wanted(cli[x]) # <<>>}})
    /\ UNCHANGED <<scenario, port, srv, role>>

(* unicast_client_set_renewal: three quarters of the time granted, unless  *)
(* an earlier renewal is pending.                                          *)
Renewal(u, duration) ==
    LET tmo == (3 * duration) \div 4
    IN IF u.renewal = -1 \/ tmo < u.renewal THEN [u EXCEPT !.renewal = tmo] ELSE u

AnnounceGranted(u, duration) ==
    Renewal([u EXCEPT !.state = unicast_fsm(@, "GRANT_ANN"), !.known = TRUE], duration)

SydyGranted(u, duration) ==
    Renewal([u EXCEPT !.state = IF sydymsk \subseteq u.granted
                                THEN unicast_fsm(@, "GRANT_SYDY") ELSE @], duration)

WithGrant(u, type, duration) ==
    CASE u.state = "WAIT" /\ type = "ANNOUNCE"       -> AnnounceGranted(u, duration)
      [] u.state = "NEED_SYDY" /\ type # "ANNOUNCE" -> SydyGranted(u, duration)
      [] u.state = "HAVE_SYDY"                      -> Renewal(u, duration)
      [] OTHER -> u

(* unicast_client_grant; a grant for no time is a rejection.               *)
unicast_client_grant(u, type, duration) ==
    IF duration = 0 THEN [u EXCEPT !.state = "WAIT"]
    ELSE IF DelayMechanism = "P2P" /\ type = "DELAY_RESP" THEN u
    ELSE WithGrant([u EXCEPT !.granted = @ \cup {type}], type, duration)

(* The other kinds of master may cancel a grant, which ours never does;    *)
(* the acknowledgement says nothing to anybody here.                       *)
unicast_client_cancel(u, type) ==
    [u EXCEPT !.state = unicast_fsm(@, "CANCEL"), !.granted = @ \ {type}]

ClientCancelled(m, type) ==
    /\ scenario = "CLIENT"
    /\ port.state # "FAULTY"
    /\ cli' = [cli EXCEPT ![m] = unicast_client_cancel(@, type)]
    /\ UNCHANGED <<scenario, query, port, srv, role, net>>

(* unicast_client_state_changed, called when (and only when) the state of  *)
(* the port changed.                                                       *)
unicast_client_state_changed(parent) ==
    [m \in Masters |->
        [cli[m] EXCEPT !.state =
            unicast_fsm(@, IF cli[m].known /\ m = parent THEN "SELECTED" ELSE "UNSELECTED")]]

Moved(s, parent) ==
    /\ port' = [state |-> s, parent |-> parent]
    /\ cli' = IF s # port.state THEN unicast_client_state_changed(parent) ELSE cli

(* A state decision for master m, whose announces may be heard although    *)
(* the grant was lost or cancelled.  RS_SLAVE makes any port but a slave   *)
(* that keeps its master UNCALIBRATED, an uncalibrated one as well; the    *)
(* parent is updated first.                                                *)
DecideSlave(m) ==
    /\ scenario = "CLIENT"
    /\ port.state # "FAULTY"
    /\ Moved(IF port.state = "SLAVE" /\ port.parent = m THEN "SLAVE" ELSE "UNCALIBRATED", m)
    /\ UNCHANGED <<scenario, query, srv, role, net>>

(* MASTER_CLOCK_SELECTED: a Sync of the parent was used.                   *)
Calibrated ==
    /\ port.state = "UNCALIBRATED"
    /\ cli[port.parent].state = "HAVE_SYDY"
    /\ Moved("SLAVE", port.parent)
    /\ UNCHANGED <<scenario, query, srv, role, net>>

(* No announces any more: the port becomes master, and only the decision   *)
(* that follows makes the clock its own parent, which the client does not  *)
(* get to know.                                                            *)
AnnounceTimeout ==
    /\ port.state \in {"UNCALIBRATED", "SLAVE"}
    /\ port' = [state |-> "MASTER", parent |-> NoMaster]
    /\ cli' = unicast_client_state_changed(port.parent)
    /\ UNCHANGED <<scenario, query, srv, role, net>>

(* A fault closes the timers; port_initialize sets the request timer anew. *)
ClientFault ==
    /\ scenario = "CLIENT"
    /\ port.state # "FAULTY"
    /\ Moved("FAULTY", port.parent)
    /\ UNCHANGED <<scenario, query, srv, role, net>>

ClientRecovers ==
    /\ port.state = "FAULTY"
    /\ Moved("LISTENING", port.parent)
    /\ query' = Query
    /\ UNCHANGED <<scenario, srv, role, net>>

---------------------------------------------------------------------------
(* The masters.                                                            *)

(* A request is answered TLV by TLV, each with a message of its own.       *)
Grant(m, type, duration) ==
    [to |-> Client, from |-> m, kind |-> "GRANT", type |-> type, duration |-> duration]

PeriodOf(type) == IF type = "ANNOUNCE" THEN AnnouncePeriod ELSE SyncPeriod

Serve(s, type, memory) ==
    IF type \in Served
    THEN unicast_service_add(s, Client, type, PeriodOf(type), Duration, memory) ELSE s

Answer(m, s, type, memory) ==
    Grant(m, type, IF type \notin Served \/ Grants(s, Client, PeriodOf(type), memory) THEN Duration ELSE 0)

(* portMsgProSignaling for a request, at the master: what is left of the   *)
(* message is delivered again in a duplicate.                              *)
Delivered(n, keep) == {r \in net : r # n \/ keep}

ServiceReceives(n, keep, memory) ==
    LET m == n.to
        after[i \in 0 .. Len(n.types)] ==
            IF i = 0 THEN srv[m] ELSE Serve(after[i - 1], n.types[i], memory)
    IN /\ n.kind = "REQUEST"
       /\ srv' = [srv EXCEPT ![m] = after[Len(n.types)]]
       /\ net' = Send(Delivered(n, keep),
                      {Answer(m, after[i - 1], n.types[i], memory) : i \in 1 .. Len(n.types)})
       /\ UNCHANGED <<scenario, cli, query, port, role>>

ClientReceives(n, keep) ==
    /\ n.kind = "GRANT"
    /\ cli' = IF port.state = "FAULTY" THEN cli
              ELSE [cli EXCEPT ![n.from] = unicast_client_grant(@, n.type, n.duration)]
    /\ net' = Delivered(n, keep)
    /\ UNCHANGED <<scenario, query, port, srv, role>>

Lose(n) ==
    /\ net' = net \ {n}
    /\ UNCHANGED <<scenario, cli, query, port, srv, role>>

(* Requests and cancels of other machines, and of this one with another    *)
(* configuration.                                                          *)
StrangerAsks(m, a, type, period, duration, memory) ==
    /\ scenario = "STRANGERS"
    /\ role[m] # "DOWN"
    /\ srv' = [srv EXCEPT ![m] = unicast_service_add(@, a, type, period, duration, memory)]
    /\ UNCHANGED <<scenario, cli, query, port, role, net>>

StrangerCancels(m, a, type) ==
    /\ scenario = "STRANGERS"
    /\ role[m] # "DOWN"
    /\ srv' = [srv EXCEPT ![m] = unicast_service_remove(@, a, type)]
    /\ UNCHANGED <<scenario, cli, query, port, role, net>>

ServiceTimer(m) ==
    /\ role[m] # "DOWN"
    /\ TimerDue(srv[m])
    /\ srv' = [srv EXCEPT ![m] = unicast_service_timer(@, role[m] = "MASTER")]
    /\ UNCHANGED <<scenario, cli, query, port, role, net>>

(* The port of the master faults, recovers or changes its role.  For the   *)
(* client a master that is down is a network that loses everything.        *)
ServiceRole(m, r) ==
    /\ scenario = "STRANGERS"
    /\ r # role[m]
    /\ role' = [role EXCEPT ![m] = r]
    /\ srv' = IF r = "DOWN" THEN [srv EXCEPT ![m] = TimerClosed(@)] ELSE srv
    /\ UNCHANGED <<scenario, cli, query, port, net>>

(* Timers fire on time, and a message arrives within a tick or never.      *)
Tick ==
    /\ net = {}
    /\ query > 0 \/ port.state = "FAULTY" \/ scenario # "CLIENT"
    /\ \A m \in Masters : role[m] # "DOWN" => ~TimerDue(srv[m])
    /\ query' = IF scenario = "CLIENT" THEN Later(query, 0) ELSE query
    /\ cli' = [m \in Masters |-> [cli[m] EXCEPT !.renewal = IF @ > 0 THEN @ - 1 ELSE @]]
    /\ srv' = [m \in Masters |-> ServiceTick(srv[m])]
    /\ UNCHANGED <<scenario, port, role, net>>

Next ==
    \/ ClientTimer \/ Calibrated \/ AnnounceTimeout \/ ClientFault \/ ClientRecovers \/ Tick
    \/ \E m \in Masters :
          \/ DecideSlave(m) \/ ServiceTimer(m)
          \/ \E type \in Types : ClientCancelled(m, type)
          \/ \E r \in {"MASTER", "OTHER", "DOWN"} : ServiceRole(m, r)
          \/ \E a \in Addrs, type \in Served :
                \/ StrangerCancels(m, a, type)
                \/ \E period \in Periods, d \in {1, Duration}, memory \in BOOLEAN :
                      StrangerAsks(m, a, type, period, d, memory)
    \/ \E n \in net :
          \/ Lose(n)
          \/ \E keep \in BOOLEAN : ClientReceives(n, keep)
          \/ \E keep, memory \in BOOLEAN : ServiceReceives(n, keep, memory)

Spec == Init /\ [][Next]_vars

---------------------------------------------------------------------------
(* Properties.                                                             *)

(* Every variable has its type.                                            *)
TypeOK ==
    /\ \A m \in Masters :
          /\ cli[m].state \in {"WAIT", "HAVE_ANN", "NEED_SYDY", "HAVE_SYDY"}
          /\ cli[m].granted \subseteq Types /\ cli[m].renewal \in -1 .. Duration
          /\ \A r \in Records(srv[m]) :
                r.addr \in Addrs /\ r.period \in Periods /\ r.types \in (SUBSET Served) \ {{}}
                /\ r.left \in -1 .. Duration
    /\ query \in 0 .. Query
    /\ port.parent \in Masters \cup {NoMaster}
    /\ Cardinality(net) <= MaxInFlight

(* However requests for different intervals, cancels and expiry mix, an    *)
(* address has a message type in one interval at most, one record per      *)
(* interval, and there is one interval per period: nobody is sent the same *)
(* message at two rates (unicast_service_add).                             *)
UniqueContract ==
    \A m \in Masters :
        /\ \A r, q \in Records(srv[m]) :
              r.addr = q.addr /\ r # q => r.period # q.period /\ r.types \cap q.types = {}
        /\ \A i, j \in DOMAIN srv[m].intervals :
              srv[m].intervals[i].period = srv[m].intervals[j].period => i = j

(* The services together implement UnicastContracts: what was granted      *)
(* lasts until its time is over, it is replaced or cancelled.              *)
contracts == [m \in Masters |-> [a \in Addrs |-> [t \in Served |-> Contract(srv[m], a, t)]]]

Contracts == INSTANCE UnicastContracts WITH
    Grantors <- Masters, Types <- Served, Durations <- {1, Duration}, contract <- contracts
ContractsKept == Contracts!Spec

(* Whichever requests and grants were lost, repeated or late, and however  *)
(* the client's state moved in between: while it waits for a renewal the   *)
(* grantor still has a contract with it, which lasts longer than the wait. *)
LeaseHolds ==
    \A m \in Masters :
        cli[m].renewal > 0 =>
            \E type \in Served : Contract(srv[m], Client, type).left >= cli[m].renewal
=============================================================================
