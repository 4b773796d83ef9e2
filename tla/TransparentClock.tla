-------------------------- MODULE TransparentClock --------------------------
(***************************************************************************)
(* A transparent clock: tc.c and the port handlers of ptpPortDevTransp.c.  *)
(* A Sync or Delay_Req that comes in on port q goes out of every port that *)
(* is not blocked; how long it stayed inside, per egress port, is kept in  *)
(* that port's list of remembered residence times until the matching       *)
(* Follow_Up or Delay_Resp carries it away in its correction field.        *)
(*                                                                         *)
(* The state is one record: the configuration, which never changes, the    *)
(* message pool (MsgPool), the state of each port, whether its delay timer *)
(* runs, its list tc_transmitted, and two fields that observe the program: *)
(* sent, the corrected messages the last event sent, and torn, the ports   *)
(* whose list lost an entry that no longer was in it; what happens after   *)
(* such an event is not modelled.                                          *)
(***************************************************************************)
EXTENDS PortFsm, MsgPool, SequencesExt, FiniteSets

CONSTANTS
    Configs,        \* the configurations considered, see below
    Sources,        \* source port identities
    SequenceIds,    \* sequence numbers
    Domains,        \* domain numbers; 0 is the clock's own
    Asap,           \* are unspecified faults cleared at once?
    RoleEvents,     \* the other events the ports are dispatched with
    MaxFails        \* bound on the ports one event has trouble with

(* What messages match by; in a Delay_Resp, the source is the requesting   *)
(* port.                                                                   *)
Keys == [source : Sources, sequenceId : SequenceIds]

(* A configuration: how many ports there are, which of them are configured *)
(* with tc_spanning_tree, whether they are E2E or P2P ports, and which     *)
(* messages there are around the clock.                                    *)
ASSUME TransparentClockConfig ==
    /\ \A conf \in Configs :
           /\ conf.ports \in Nat \ {0}
           /\ conf.spanning \subseteq 1 .. conf.ports
           /\ conf.mechanism \in {"E2E", "P2P"}
           /\ conf.keys \subseteq Keys /\ conf.domains \subseteq Domains
    /\ Asap \in BOOLEAN
    /\ RoleEvents \subseteq Events
    /\ MaxFails \in Nat

VARIABLE tc

Ports == 1 .. tc.conf.ports

---------------------------------------------------------------------------
(* Ports.                                                                  *)

IsOpen(g, p) == g.state[p] \notin {"FAULTY", "DISABLED"}

(* What a recycled message says stays in memory, and may be read, until it *)
(* is allocated again; between events nobody may look at it.               *)
Put(g, c) == [msg_put(g, c) EXCEPT !.body = g.body]
Settle(g) == [g EXCEPT !.body = [c \in Msgs |-> IF g.refcnt[c] = 0 THEN Null ELSE @[c]]]

(* The entries of a list are released oldest first.                        *)
Release(g, entries) ==
    LET after[i \in 0 .. Len(entries)] ==
            IF i = 0 THEN g ELSE Put(after[i - 1], entries[i].msg)
    IN after[Len(entries)]

tc_flush(g, p) == [Release(g, g.queue[p]) EXCEPT !.queue[p] = <<>>]

(* Its timers are closed with the port.                                    *)
(* Mutant of portOpDisable: the list survives the port.                    *)
OpDisableKeepsList(g, p) == [g EXCEPT !.timer[p] = FALSE]

portOpDisable(g, p) == [tc_flush(g, p) EXCEPT !.timer[p] = FALSE]

(* portStateUpdate followed by the rest of e2e_dispatch or p2p_dispatch.   *)
(* n is the state the machine wants, reopened what port_initialize answers.*)
Enter(g, p, n) ==
    CASE n = g.state[p] -> g
      [] n # g.state[p] /\ n \in {"FAULTY", "DISABLED"} ->
            portOpDisable([g EXCEPT !.state[p] = n], p)
      [] OTHER -> [g EXCEPT !.state[p] = n, !.timer[p] = @ \/ n = "LISTENING"]

(* Mutant of Transit: a restart is left in the INITIALIZING state.         *)
TransitHalfway(g, p, n, reopened) == Enter(g, p, n)

Transit(g, p, n, reopened) ==
    IF n = "INITIALIZING" \/ (n = "FAULTY" /\ Asap)
    THEN Enter(IF portIsEnabled(g.state[p]) THEN portOpDisable(g, p) ELSE g, p,
               IF reopened THEN "LISTENING" ELSE "FAULTY")
    ELSE Enter(g, p, n)

Dispatch(g, p, e, reopened) ==
    Transit(g, p, Fsm(FALSE, g.state[p], e, FALSE), reopened)

Fault(g, p) == Dispatch(g, p, "FAULT_DETECTED", TRUE)

---------------------------------------------------------------------------
(* Forwarding.                                                             *)

(* Without tc_spanning_tree a port forwards to all the others; with it,    *)
(* along the tree only, Delay_Req against the stream.  Messages of another *)
(* domain go everywhere.  (A port whose list is torn is left out of the    *)
(* rest of the event.)                                                     *)
OffTree(g, q, p, type) ==
    \/ g.state[q] \notin Mastering \cup Slaving
    \/ g.state[p] \notin Mastering \cup Slaving
    \/ type # "DELAY_REQ" /\ (g.state[q] \in Mastering \/ g.state[p] \in Slaving)
    \/ type = "DELAY_REQ" /\ g.state[p] \in Mastering

tc_blocked(g, q, p, c) ==
    \/ q = p
    \/ p \in g.torn
    \/ /\ q \in tc.conf.spanning
       /\ g.body[c].domain = 0
       /\ OffTree(g, q, p, g.body[c].type)

(* A residence time: from which port to which, and of which message it was *)
(* measured.  (For a Follow_Up that is kept nothing was: it has zero.)     *)
Residence(g, q, p, c) ==
    [in |-> q, out |-> p, type |-> g.body[c].type, key |-> g.body[c].key]

Remember(g, q, p, c) ==
    [msg_get(g, c) EXCEPT
        !.queue[p] = Append(@, [msg |-> c, ingress |-> q, residence |-> Residence(g, q, p, c)])]

(* Mutant of SameMessage: the source port identity is not compared.        *)
SameSequenceId(g, c, d) == g.body[c].key.sequenceId = g.body[d].key.sequenceId

(* Messages match by sequence number and source port identity, whatever    *)
(* their domain.                                                           *)
SameMessage(g, c, d) ==
    /\ g.body[c].key.sequenceId = g.body[d].key.sequenceId
    /\ g.body[c].key.source = g.body[d].key.source

tc_match_delay(g, ingress, c, t) ==
    /\ t.ingress = ingress
    /\ g.body[t.msg].type = "DELAY_REQ"
    /\ SameMessage(g, c, t.msg)

(* Mutant of tc_match_syfup: only the Follow_Up looks for its Sync.        *)
MatchSyncFirst(g, ingress, c, t) ==
    /\ t.ingress = ingress
    /\ g.body[t.msg].type = "SYNC" /\ g.body[c].type = "FOLLOW_UP"
    /\ SameMessage(g, c, t.msg)

tc_match_syfup(g, ingress, c, t) ==
    /\ t.ingress = ingress
    /\ {g.body[t.msg].type, g.body[c].type} = {"SYNC", "FOLLOW_UP"}
    /\ SameMessage(g, c, t.msg)

(* A message goes out with what is added to its correction; the field of   *)
(* the message itself is restored for the next egress port.                *)
SendCorrected(g, q, p, c, more) ==
    [g EXCEPT !.sent = @ \cup {[type |-> g.body[c].type, from |-> q, to |-> p,
                                key |-> g.body[c].key,
                                corr |-> g.body[c].corr \o more]}]

(* The entry goes and drops its reference.  If the list no longer has it   *)
(* (a fault dispatched a moment ago flushed it), it is unlinked and        *)
(* recycled all the same.                                                  *)
Unlink(g, p, t) ==
    LET h == Put(g, t.msg)
    IN IF SelectInSeq(g.queue[p], LAMBDA u : u = t) = 0 THEN [h EXCEPT !.torn = @ \cup {p}]
       ELSE [h EXCEPT !.queue[p] = RemoveFirst(@, t)]

tc_complete_request(g, q, p, c, out) ==
    IF out[p] = "NO_TXD" THEN Fault(g, p) ELSE Remember(g, q, p, c)

(* The response that came in on q answers a request that went out there.   *)
tc_complete_response(g, q, p, c, out) ==
    LET i == SelectInSeq(g.queue[q], LAMBDA t : tc_match_delay(g, p, c, t))
        t == g.queue[q][i]
        h == IF IsOpen(g, p) /\ out[p] # "NO_GENERAL"
             THEN SendCorrected(g, q, p, c, <<t.residence>>)
             ELSE Fault(g, p)
    IN IF i = 0 THEN g ELSE Unlink(h, q, t)

(* A Sync and its Follow_Up meet, whichever came first.  The delay of the  *)
(* ingress link is added as well.                                          *)
LinkDelay(q) == [link |-> q]

tc_complete_syfup(g, q, p, c, out) ==
    LET i == SelectInSeq(g.queue[p], LAMBDA t : tc_match_syfup(g, q, c, t))
        t == g.queue[p][i]
        sync == g.body[c].type = "SYNC"
        fup == IF sync THEN t.msg ELSE c
        residence == IF sync THEN Residence(g, q, p, c) ELSE t.residence
        h == IF IsOpen(g, p) /\ out[p] # "NO_GENERAL"
             THEN SendCorrected(g, q, p, fup, <<residence, LinkDelay(q)>>)
             ELSE Fault(g, p)
    IN IF i # 0 THEN Unlink(h, p, t)
       ELSE IF out[p] = "NO_TXD" THEN Fault(g, p)
       ELSE Remember(g, q, p, c)

tc_complete(g, q, p, c, out) ==
    CASE g.body[c].type = "DELAY_REQ"  -> tc_complete_request(g, q, p, c, out)
      [] g.body[c].type = "DELAY_RESP" -> tc_complete_response(g, q, p, c, out)
      [] OTHER -> tc_complete_syfup(g, q, p, c, out)

(* First the event message goes out of every port, then the time stamps    *)
(* are fetched: a port that could not send has none.                       *)
SendEvent(g, q, p, c, out) ==
    IF tc_blocked(g, q, p, c) \/ (IsOpen(g, p) /\ out[p] # "NO_SEND") THEN g
    ELSE Fault([g EXCEPT !.unsent = @ \cup {p}], p)

GatherStamp(g, q, p, c, out) ==
    IF tc_blocked(g, q, p, c) THEN g
    ELSE IF p \in g.unsent \/ ~IsOpen(g, p) \/ out[p] = "NO_STAMP" THEN Fault(g, p)
    ELSE tc_complete(g, q, p, c, out)

tc_fwd_event(g, q, c, out) ==
    LET after[p \in 0 .. tc.conf.ports] ==
            IF p = 0 THEN g ELSE SendEvent(after[p - 1], q, p, c, out)
        then[p \in 0 .. tc.conf.ports] ==
            IF p = 0 THEN after[tc.conf.ports] ELSE GatherStamp(then[p - 1], q, p, c, out)
    IN [then[tc.conf.ports] EXCEPT !.unsent = {}]

(* tc_fwd_folup and tc_fwd_response.                                       *)
tc_fwd_general(g, q, c, out) ==
    LET after[p \in 0 .. tc.conf.ports] ==
            IF p = 0 THEN g
            ELSE IF tc_blocked(after[p - 1], q, p, c) THEN after[p - 1]
            ELSE tc_complete(after[p - 1], q, p, c, out)
    IN after[tc.conf.ports]

(* A one-step Sync is split: its Follow_Up is made here, and the Sync goes *)
(* out as a two-step one.  Without a message for it the Sync is dropped    *)
(* and the ingress port faulted.                                           *)
(* Mutant of tc_fwd_sync: the Follow_Up it made is not released.           *)
SplitSyncLeaks(g, q, c, one_step, out) ==
    IF ~one_step THEN tc_fwd_event(g, q, c, out)
    ELSE IF ~CanAllocate(g) THEN [g EXCEPT !.failed = TRUE]
    ELSE tc_fwd_general(
             tc_fwd_event(msg_allocate(g, [g.body[c] EXCEPT !.type = "FOLLOW_UP"]), q, c, out),
             q, Allocated(g), out)

tc_fwd_sync(g, q, c, one_step, out) ==
    LET f == Allocated(g)
        a == msg_allocate(g, [g.body[c] EXCEPT !.type = "FOLLOW_UP"])
    IN IF ~one_step THEN tc_fwd_event(g, q, c, out)
       ELSE IF ~CanAllocate(g) THEN [g EXCEPT !.failed = TRUE]
       ELSE Put(tc_fwd_general(tc_fwd_event(a, q, c, out), q, f, out), f)

(* Announce, Signaling and Management messages are only passed on.         *)
tc_forward(g, q, c, out) ==
    LET after[p \in 0 .. tc.conf.ports] ==
            IF p = 0 THEN g
            ELSE IF tc_blocked(after[p - 1], q, p, c) THEN after[p - 1]
            ELSE IF IsOpen(after[p - 1], p) /\ out[p] # "NO_GENERAL" THEN after[p - 1]
            ELSE Fault(after[p - 1], p)
    IN after[tc.conf.ports]

---------------------------------------------------------------------------
(* Handlers of one port: e2e_event and p2p_event.                          *)

(* The messages a port handles, and those it only passes on.               *)
Types == {"SYNC", "FOLLOW_UP", "GENERAL"} \cup
         (IF tc.conf.mechanism = "E2E" THEN {"DELAY_REQ", "DELAY_RESP"} ELSE {})
Received == [type : Types, key : tc.conf.keys, domain : tc.conf.domains, corr : {<<>>}]

(* What can go wrong with an egress port while a message is forwarded: the *)
(* event is not sent, its time stamp is missing, the general message is    *)
(* not sent, there is no memory for a list entry.                          *)
Troubles(type) ==
    CASE type = "SYNC"      -> {"NO_SEND", "NO_STAMP", "NO_GENERAL", "NO_TXD"}
      [] type = "DELAY_REQ" -> {"NO_SEND", "NO_STAMP", "NO_TXD"}
      [] type = "FOLLOW_UP" -> {"NO_GENERAL", "NO_TXD"}
      [] OTHER              -> {"NO_GENERAL"}

OutcomeMaps(q, type) ==
    {[p \in Ports |-> IF p \in F THEN t ELSE "OK"] :
        F \in {G \in SUBSET {p \in Ports \ {q} : IsOpen(tc, p)} : Cardinality(G) <= MaxFails},
        t \in Troubles(type)}

Fresh(g) == [g EXCEPT !.sent = {}]

Forward(g, q, c, one_step, out) ==
    CASE g.body[c].type = "SYNC"      -> tc_fwd_sync(g, q, c, one_step, out)
      [] g.body[c].type = "DELAY_REQ" -> tc_fwd_event(g, q, c, out)
      [] g.body[c].type = "GENERAL"   -> tc_forward(g, q, c, out)
      [] OTHER -> tc_fwd_general(g, q, c, out)

(* The clock's own copy of the message is made before and released after   *)
(* it was forwarded; without memory for the copy nothing is forwarded.  A  *)
(* copy of another domain (tc_ignore) is released at once.  What the clock *)
(* itself does with it as a slave is PortMessages; here it shows as an     *)
(* event among RoleEvents.                                                 *)
ForwardOnce(a, q, c, one_step, out, dup) ==
    IF a.body[c].domain # 0
    THEN Put(Forward(Put(a, dup), q, c, one_step, out), c)
    ELSE Put(Put(Forward(a, q, c, one_step, out), c), dup)

(* The event the handler returns is dispatched.                            *)
Conclude(g, q) == IF g.failed THEN Fault([g EXCEPT !.failed = FALSE], q) ELSE g

Handle(a, q, m, one_step, out, c) ==
    IF CanAllocate(a)
    THEN Conclude(ForwardOnce(msg_allocate(a, m), q, c, one_step, out, Allocated(a)), q)
    ELSE Put(a, c)

Receive(q, m, one_step, out) ==
    /\ portIsEnabled(tc.state[q])
    /\ CanAllocate(tc)
    /\ tc' = Settle(Handle(msg_allocate(Fresh(tc), m), q, m, one_step, out, Allocated(tc)))

(* msg_allocate or transport_recv failed, the link went down, or the       *)
(* port's own Delay_Req could not be sent.                                 *)
PortFault(p) ==
    /\ IsOpen(tc, p)
    /\ tc' = Settle(Fault(Fresh(tc), p))

(* The fault timer, or the link coming up.                                 *)
ClearFault(p, reopened) ==
    /\ tc.state[p] = "FAULTY"
    /\ tc' = Settle(Dispatch(Fresh(tc), p, "FAULT_CLEARED", reopened))

(* State decisions and the timers of the state machine: without the        *)
(* spanning tree only whether a port is down matters here.                 *)
ChangeRole(p, e) ==
    /\ tc.conf.spanning # {}
    /\ portIsEnabled(tc.state[p])
    /\ tc' = Settle(Dispatch(Fresh(tc), p, e, TRUE))

(* tc_prune at the delay timer: the entries older than a second are the    *)
(* n oldest.                                                               *)
Prune(p, n) ==
    /\ tc.timer[p]
    /\ n \in 1 .. Len(tc.queue[p])
    /\ tc' = Settle([Release(Fresh(tc), SubSeq(tc.queue[p], 1, n)) EXCEPT
                         !.queue[p] = SubSeq(@, n + 1, Len(@))])

Init ==
    \E conf \in Configs :
        tc = [ conf |-> conf,
               pool |-> <<>>, total |-> 0, refcnt |-> NoRefs, body |-> NoBodies,
               state |-> [p \in 1 .. conf.ports |-> "LISTENING"],
               timer |-> [p \in 1 .. conf.ports |-> TRUE],
               queue |-> [p \in 1 .. conf.ports |-> <<>>],
               sent |-> {}, unsent |-> {}, failed |-> FALSE, torn |-> {} ]

PortStep(p) ==
    \/ \E m \in Received : \E one_step \in BOOLEAN, out \in OutcomeMaps(p, m.type) :
            (m.type = "SYNC" \/ ~one_step) /\ Receive(p, m, one_step, out)
    \/ PortFault(p)
    \/ \E reopened \in BOOLEAN : ClearFault(p, reopened)
    \/ \E e \in RoleEvents : ChangeRole(p, e)
    \/ \E n \in 1 .. MaxMsgs : Prune(p, n)

Next ==
    tc.torn = {} /\ \E p \in Ports : PortStep(p)

Spec == Init /\ [][Next]_tc

---------------------------------------------------------------------------
(* Properties.                                                             *)

Entries(p) == {tc.queue[p][i] : i \in 1 .. Len(tc.queue[p])}
References(c) == Cardinality({pi \in Ports \X (1 .. MaxMsgs) :
                     pi[2] <= Len(tc.queue[pi[1]]) /\ tc.queue[pi[1]][pi[2]].msg = c})

(* Every variable has its type: the port states are those of the state     *)
(* machine, without the transient INITIALIZING, the lists name messages.   *)
TypeOK ==
    /\ tc.total \in 0 .. MaxMsgs
    /\ tc.refcnt \in [Msgs -> Int]
    /\ tc.state \in [Ports -> States \ {"INITIALIZING"}]
    /\ tc.timer \in [Ports -> BOOLEAN]
    /\ \A p \in Ports, t \in UNION {Entries(r) : r \in Ports} :
            t.msg \in Msgs /\ t.ingress \in Ports
    /\ tc.torn \subseteq Ports /\ ~tc.failed /\ tc.unsent = {}

(* Between events (unless a list was torn) a message has exactly as many   *)
(* references as lists that remember it, and every other message is back   *)
(* in the pool, once: forwarding, flushing and pruning leak nothing and    *)
(* release nothing twice (tc_complete_syfup, tc_fwd_sync, tc_flush).       *)
Conserved ==
    tc.torn = {} =>
        /\ \A c \in 1 .. tc.total : tc.refcnt[c] = References(c)
        /\ IsInjective(tc.pool)
        /\ ToSet(tc.pool) = {c \in 1 .. tc.total : tc.refcnt[c] = 0}

(* "adds the unique, per egress port residence time into the correction    *)
(* field": whatever was received, lost, pruned or flushed before, a        *)
(* Follow_Up leaves port "to" with the time measured of its own Sync, the  *)
(* one with its source port identity and sequence number, between the same *)
(* two ports, and with the delay of the ingress link, each exactly once; a *)
(* Delay_Resp with the time its own request spent on the way back.  In     *)
(* particular it is not another message's time, nor the zero of a          *)
(* Follow_Up.  Domains are not compared, as in tc_match_syfup.             *)
OwnResidence ==
    \A s \in tc.sent :
        LET fup == s.type = "FOLLOW_UP"
        IN /\ s.corr[1] = [in |-> IF fup THEN s.from ELSE s.to,
                           out |-> IF fup THEN s.to ELSE s.from,
                           type |-> IF fup THEN "SYNC" ELSE "DELAY_REQ",
                           key |-> s.key]
           /\ Tail(s.corr) = IF fup THEN <<LinkDelay(s.from)>> ELSE <<>>

(* A Sync and its Follow_Up from the same port never wait for each other   *)
(* in one list, whichever came first: neither is held back once both are   *)
(* there (tc_complete_syfup).                                              *)
NoPairWaits ==
    tc.torn = {} => \A p \in Ports : \A t, u \in Entries(p) :
        ~ /\ t.ingress = u.ingress
          /\ tc.body[t.msg].key = tc.body[u.msg].key
          /\ tc.body[t.msg].type = "SYNC" /\ tc.body[u.msg].type = "FOLLOW_UP"

(* What a closed port remembers can only be Follow_Ups of messages that    *)
(* bypass the spanning tree: events cannot be sent there and so are not    *)
(* remembered, and what was remembered before was flushed.                 *)
DownHoldsBypassing ==
    tc.torn = {} => \A p \in Ports : ~IsOpen(tc, p) =>
        \A t \in Entries(p) :
            /\ tc.body[t.msg].type = "FOLLOW_UP"
            /\ t.ingress \notin tc.conf.spanning \/ tc.body[t.msg].domain # 0

(* "Release a reference to a message": no list remembers a message that    *)
(* was given back to the pool, where the next allocation would reuse it.   *)
EntriesAreLive == \A p \in Ports : \A t \in Entries(p) : tc.refcnt[t.msg] > 0
=============================================================================
