--------------------------- MODULE UnicastService ---------------------------
(***************************************************************************)
(* The grantor of unicast negotiation, unicast_service.c: a function of    *)
(* the code is an operator on the record of one service,                   *)
(*   intervals  the list of transmission intervals, newest first; each has *)
(*              its period, its clients (newest first) and when it is due  *)
(*   armed      whether FD_UNICAST_SRV_TIMER runs.                         *)
(* Times are the ticks left until then: due <= 0 is a time that has come,  *)
(* a client whose left is below zero has expired.  Between two handlers    *)
(* the priority queue holds every interval of the list.                    *)
(***************************************************************************)
EXTENDS Integers, Sequences, FiniteSetsExt

CONSTANTS
    Addrs,          \* addresses that may ask for service
    Periods,        \* transmission intervals, in ticks
    MaxLate         \* bound: how long ago a time may have come

ASSUME ServiceConfig == Periods \subseteq Nat \ {0} /\ MaxLate \in Nat

Served == {"ANNOUNCE", "SYNC"}

NoService == [intervals |-> <<>>, armed |-> FALSE]

(* The first of the places of a list, 0 if there are none; what is left of *)
(* a list when only the elements at these places stay.                     *)
First(places) == IF places = {} THEN 0 ELSE Min(places)

Remaining(list, places) ==
    LET after[k \in 0 .. Len(list)] ==
          IF k = 0 THEN <<>>
          ELSE IF k \in places THEN Append(after[k - 1], list[k]) ELSE after[k - 1]
    IN  after[Len(list)]

ClientOf(a, clients) == First({j \in DOMAIN clients : clients[j].addr = a})
IntervalOf(s, period) ==
    First({k \in DOMAIN s.intervals : s.intervals[k].period = period})

(* A grant is extended, never shortened.  A record has one time for all    *)
(* the message types it grants.                                            *)
(* Mutants of unicast_service_extend: it adds the new time to the old one; *)
(* it leaves the old one.                                                  *)
ExtendAdds(c, duration) == [c EXCEPT !.left = @ + duration]
ExtendNot(c, duration) == c

unicast_service_extend(c, duration) ==
    [c EXCEPT !.left = IF duration > @ THEN duration ELSE @]

(* The type is taken from every record of the address; a record without    *)
(* types goes.                                                             *)
Less(c, a, type) == IF c.addr = a THEN [c EXCEPT !.types = @ \ {type}] ELSE c

Withdrawn(clients, a, type) ==
    LET less == [j \in DOMAIN clients |-> Less(clients[j], a, type)]
    IN  Remaining(less, {j \in DOMAIN less : less[j].types # {}})

(* Is the contract unchanged: the interval asked for (number i of the      *)
(* list, 0 for none) has it already?                                       *)
Unchanged(s, i, a, type) ==
    i # 0 /\ \E k \in DOMAIN s.intervals[i].clients :
                 /\ s.intervals[i].clients[k].addr = a
                 /\ type \in s.intervals[i].clients[k].types

(* Any stale contract is withdrawn from the other intervals; when the      *)
(* contract is unchanged the loop ends at its interval.                    *)
(* Mutant of WithoutStale: the old contract is kept.                       *)
WithStale(s, i, a, type) == s

WithoutStale(s, i, a, type) ==
    LET others == [k \in DOMAIN s.intervals |->
            IF k = i \/ (Unchanged(s, i, a, type) /\ k > i) THEN s.intervals[k]
            ELSE [s.intervals[k] EXCEPT !.clients = Withdrawn(@, a, type)]]
    IN  [s EXCEPT !.intervals = others]

(* The record of the address in interval i takes the type on.              *)
WithType(s, i, a, type, duration) ==
    LET clients == s.intervals[i].clients
        j == ClientOf(a, clients)
        c == unicast_service_extend([clients[j] EXCEPT !.types = @ \cup {type}], duration)
    IN  [s EXCEPT !.intervals[i].clients = [clients EXCEPT ![j] = c]]

WithClient(s, i, a, type, duration) ==
    [s EXCEPT !.intervals[i].clients =
        <<[addr |-> a, types |-> {type}, left |-> duration]>> \o @]

(* A new interval is due at once, and the timer is set.                    *)
WithInterval(s, period) ==
    [s EXCEPT !.intervals = <<[period |-> period, clients |-> <<>>, due |-> 0]>> \o @,
              !.armed = TRUE]

NewClient(s, a, type, period, duration) ==
    IF IntervalOf(s, period) # 0
    THEN WithClient(s, IntervalOf(s, period), a, type, duration)
    ELSE WithClient(WithInterval(s, period), 1, a, type, duration)

NeedsMemory(s, a, period) ==
    LET i == IntervalOf(s, period)
    IN i = 0 \/ ClientOf(a, s.intervals[i].clients) = 0

(* The service after a request.  Without memory for a new record or a new  *)
(* interval the request is denied, but what was stale is withdrawn.        *)
unicast_service_add(s, a, type, period, duration, memory) ==
    LET i == IntervalOf(s, period)
        t == WithoutStale(s, i, a, type)
    IN CASE ~NeedsMemory(s, a, period) -> WithType(t, i, a, type, duration)
         [] NeedsMemory(s, a, period) /\ memory -> NewClient(t, a, type, period, duration)
         [] OTHER -> t

Grants(s, a, period, memory) == memory \/ ~NeedsMemory(s, a, period)

(* A cancel of the address, of the first record that has the type.         *)
(* Mutant of unicast_service_remove: the whole record goes.                *)
RemoveRecord(s, a, type) ==
    [s EXCEPT !.intervals = [k \in DOMAIN @ |->
        [@[k] EXCEPT !.clients =
            Remaining(@, {j \in DOMAIN @ : ~(@[j].addr = a /\ type \in @[j].types)})]]]

unicast_service_remove(s, a, type) ==
    LET i == First({k \in DOMAIN s.intervals : Unchanged(s, k, a, type)})
    IN IF i = 0 THEN s
       ELSE [s EXCEPT !.intervals[i].clients = Withdrawn(@, a, type)]

(* unicast_service_timer: a due interval is served, as often as it fell    *)
(* due, and put off; while the port is not master nothing is sent and no   *)
(* client found expired.  One without clients is retired.                  *)
Kept(clients, master) ==
    IF master THEN Remaining(clients, {j \in DOMAIN clients : clients[j].left >= 0})
    ELSE clients

PutOff(due, period) ==
    LET misses == 1 + (-due) \div period IN due + misses * period

AfterServing(v, master) ==
    IF v.due > 0 THEN v
    ELSE [v EXCEPT !.clients = Kept(@, master), !.due = PutOff(@, v.period)]

Alive(v) == v.due > 0 \/ v.clients # <<>>

unicast_service_timer(s, master) ==
    LET served == [k \in DOMAIN s.intervals |->
                      [s.intervals[k] EXCEPT !.clients =
                          IF s.intervals[k].due > 0 THEN @ ELSE Kept(@, master)]]
        rest == Remaining(served, {k \in DOMAIN served : Alive(served[k])})
    IN [intervals |-> [k \in DOMAIN rest |-> AfterServing(rest[k], master)],
        armed |-> rest # <<>>]

TimerDue(s) == s.armed /\ \E k \in DOMAIN s.intervals : s.intervals[k].due <= 0

(* portOpDisable closes the timer, port_initialize makes a new one.        *)
TimerClosed(s) == [s EXCEPT !.armed = FALSE]

(* A tick of the clock.                                                    *)
Later(n, least) == IF n > least THEN n - 1 ELSE least
ClientTick(c) == [c EXCEPT !.left = Later(@, -1)]
IntervalTick(v) ==
    [v EXCEPT !.due = Later(@, -MaxLate), !.clients = [j \in DOMAIN @ |-> ClientTick(@[j])]]
ServiceTick(s) == [s EXCEPT !.intervals = [k \in DOMAIN @ |-> IntervalTick(@[k])]]

---------------------------------------------------------------------------
(* What the service owes.                                                  *)

Records(s) == UNION {{[period |-> s.intervals[k].period, types |-> s.intervals[k].clients[j].types,
                       addr |-> s.intervals[k].clients[j].addr, left |-> s.intervals[k].clients[j].left,
                       at |-> <<k, j>>] : j \in DOMAIN s.intervals[k].clients} : k \in DOMAIN s.intervals}

NoContract == [period |-> 0, left |-> -1]

Has(c, a, type) == c.addr = a /\ type \in c.types

Contract(s, a, type) ==
    LET at == {k \in DOMAIN s.intervals : Unchanged(s, k, a, type)}
    IN  IF at = {} THEN NoContract
        ELSE LET v == s.intervals[CHOOSE k \in at : TRUE]
                 c == v.clients[CHOOSE j \in DOMAIN v.clients : Has(v.clients[j], a, type)]
             IN  [period |-> v.period, left |-> c.left]
=============================================================================
