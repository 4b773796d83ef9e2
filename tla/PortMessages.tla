---------------------------- MODULE PortMessages ---------------------------
(***************************************************************************)
(* The messages a port of an ordinary or boundary clock keeps between two  *)
(* events: a Sync or Follow_Up waiting for its other half, the delay       *)
(* requests waiting for an answer, and the peer delay exchange             *)
(* (ptpPortMsgOrdinary.c, ptpPortMsgTransp.c, and the requests and flushes *)
(* of ptpPort.c), with the port events the handlers raise.                 *)
(*                                                                         *)
(* The handlers reach each other: the servo's verdict on a pair is         *)
(* dispatched while the pair is still being handled, and the transition    *)
(* it causes flushes what the handler goes on to release.                  *)
(*                                                                         *)
(* The network may lose, repeat and reorder: any message may arrive at any *)
(* time.  Time stamps, corrections, the 802.1AS capability, the NetSync    *)
(* Monitor and the slave-only clock are left out; the announces a port     *)
(* keeps are in PtpPort.                                                   *)
(***************************************************************************)
EXTENDS PortFsm, MsgPool, SequencesExt, FiniteSets

CONSTANTS
    Masters, Peers,     \* port identities of masters, and of answering peers
    SeqWrap,            \* sequence ids count modulo SeqWrap (2^16)
    Mechanism,          \* delay_mechanism as configured
    AsapFaults,         \* fault types whose reset interval is "ASAP"
    Jbod,               \* boundary_clock_jbod
    CheckFupSync        \* sk_check_fupsync: Follow_Ups may be too early

Mechanisms == {"E2E", "P2P", "AUTO"}
FaultTypes == {"UNSPECIFIED", "BAD_PEER_NETWORK", "SWITCH_PHC"}

ASSUME MessagesConfig ==
    /\ SeqWrap \in Nat \ {0}
    /\ Mechanism \in Mechanisms
    /\ AsapFaults \subseteq {"UNSPECIFIED", "BAD_PEER_NETWORK"}
    /\ {Jbod, CheckFupSync} \subseteq BOOLEAN

SeqIds == 0 .. SeqWrap - 1

(* What a message says: for a received one its sender, its sequence id and *)
(* whether it is one-step; for a request of this port its sequence id and  *)
(* whether the clock has jumped since it was time-stamped.                 *)
Received ==
    [kind : {"SYNC", "FOLLOW_UP", "DELAY_RESP", "PDELAY_RESP", "PDELAY_FUP"},
     seq : SeqIds, from : Masters \cup Peers, oneStep : BOOLEAN]

Request == [kind : {"REQUEST"}, seq : SeqIds, old : BOOLEAN]

Other == [kind |-> "OTHER"]

VARIABLES
    port,       \* the port and the pool
    parent      \* the parent port the clock has chosen

vars == <<port, parent>>

PortRec ==
    [ pool : Seq(Msgs),  total : 0 .. MaxMsgs,  refcnt : [Msgs -> Int],
      body : [Msgs -> Received \cup Request \cup {Other, Null}],
      state : States,
      lastFault : FaultTypes,
      mechanism : Mechanisms,
      syfu : {"EMPTY", "HAVE_SYNC", "HAVE_FUP"},
      last_syncfup : Msgs \cup {Null},
      delay_req : Seq(Msgs),                   \* the newest first
      peer_delay_req : Msgs \cup {Null},
      peer_delay_resp : Msgs \cup {Null},
      peer_delay_fup : Msgs \cup {Null},
      seqnum : SeqIds,                         \* seqnum.delayreq
      multiple_pdr_detected : BOOLEAN,
      multiple_seq_pdr_count : Nat ]

TypeOK == port \in PortRec /\ parent \in Masters

Init ==
    /\ port = [ pool |-> <<>>, total |-> 0, refcnt |-> NoRefs,
                body |-> NoBodies,
                state |-> "LISTENING", lastFault |-> "UNSPECIFIED",
                mechanism |-> Mechanism,
                syfu |-> "EMPTY", last_syncfup |-> Null, delay_req |-> <<>>,
                peer_delay_req |-> Null, peer_delay_resp |-> Null,
                peer_delay_fup |-> Null, seqnum |-> 0,
                multiple_pdr_detected |-> FALSE,
                multiple_seq_pdr_count |-> 0 ]
    /\ parent \in Masters

----------------------------------------------------------------------------
(* Flushes.                                                                *)

flush_last_sync(p) ==
    IF p.syfu = "EMPTY" THEN p
    ELSE [msg_put(p, p.last_syncfup) EXCEPT !.syfu = "EMPTY"]

(* A held message is released and its field cleared.                       *)
Release(p, field) ==
    IF p[field] = Null THEN p
    ELSE [msg_put(p, p[field]) EXCEPT ![field] = Null]

flush_delay_req(p) ==
    IF p.delay_req = <<>> THEN p
    ELSE [put_all(p, p.delay_req) EXCEPT !.delay_req = <<>>]

flush_peer_delay(p) ==
    Release(Release(Release(p, "peer_delay_req"), "peer_delay_resp"),
            "peer_delay_fup")

(* delay_req_prune keeps the k newest: which are older than five seconds   *)
(* is up to the clock.                                                     *)
delay_req_prune(p, k) ==
    IF k = Len(p.delay_req) THEN p
    ELSE [put_all(p, Reverse(SubSeq(p.delay_req, k + 1, Len(p.delay_req))))
            EXCEPT !.delay_req = SubSeq(p.delay_req, 1, k)]

(* Mutant of portOpDisable: the peer delay exchange is kept.               *)
OpDisableKeepsPeer(p) == flush_delay_req(flush_last_sync(p))

portOpDisable(p) == flush_peer_delay(flush_delay_req(flush_last_sync(p)))

----------------------------------------------------------------------------
(* Dispatch: PtpPort's, with what it does to the messages.                 *)

(* port_notify_event builds a message and releases it again.               *)
port_notify_event(p) ==
    IF CanAllocate(p) THEN msg_put(msg_allocate(p, Other), Allocated(p)) ELSE p

port_initialize(p) ==
    [p EXCEPT !.multiple_seq_pdr_count = 0, !.multiple_pdr_detected = FALSE,
              !.lastFault = "UNSPECIFIED"]

Changed(p, s) ==
    IF s = p.state THEN p ELSE port_notify_event([p EXCEPT !.state = s])

(* The state the machine goes to; an ASAP fault is cleared on the way.     *)
Cleared(p, s) ==
    IF s = "FAULTY" /\ p.lastFault \in AsapFaults
    THEN Fsm(FALSE, s, "FAULT_CLEARED", FALSE) ELSE s

Target(p, e, mdiff) == Cleared(p, Fsm(FALSE, p.state, e, mdiff))

(* portStateUpdate to state t; a port that initialises may fail to.        *)
portStateUpdate(p, t) ==
    IF t # "INITIALIZING" THEN {Changed(p, t)}
    ELSE { Changed(port_initialize(IF portIsEnabled(p.state)
                                   THEN portOpDisable(p) ELSE p),
                   Fsm(FALSE, t, e, FALSE)) :
             e \in {"INIT_COMPLETE", "FAULT_DETECTED"} }

Transition(p) ==
    CASE p.state \in {"FAULTY", "DISABLED"} -> portOpDisable(p)
      [] p.state = "UNCALIBRATED" /\ p.mechanism = "P2P"
            -> flush_peer_delay(flush_last_sync(p))
      [] p.state = "UNCALIBRATED" /\ p.mechanism # "P2P"
            -> flush_delay_req(flush_last_sync(p))
      [] OTHER -> p

DispatchOnce(p, t) ==
    { IF q.state = p.state THEN q ELSE Transition(q) : q \in portStateUpdate(p, t) }

SwitchFaults(p) == [p EXCEPT !.lastFault = "SWITCH_PHC"]

(* Every way bc_dispatch can end: initialisation may fail, and so may the  *)
(* PHC switch, which faults the port.                                      *)
Dispatched(p, e, mdiff) ==
    UNION { {q} \cup
            ( IF Jbod /\ q.state = "UNCALIBRATED" /\ p.state # q.state
              THEN DispatchOnce(SwitchFaults(q),
                                Target(SwitchFaults(q), "FAULT_DETECTED", FALSE))
              ELSE {} ) : q \in DispatchOnce(p, Target(p, e, mdiff)) }

----------------------------------------------------------------------------
(* Sync and Follow_Up.                                                     *)

(* The clock jumps: time stamps taken before are of another time.          *)
Jumped(p) ==
    [p EXCEPT !.body = [c \in Msgs |->
                           IF @[c] # Null /\ @[c].kind = "REQUEST"
                           THEN [@[c] EXCEPT !.old = TRUE] ELSE @[c]]]

(* Mutant of portSynchronize: a jump leaves the requests behind.           *)
SynchronizeJumpKeeps(p) ==
    Dispatched(p, "MASTER_CLOCK_SELECTED", FALSE) \cup
    Dispatched(p, "SYNCHRONIZATION_FAULT", FALSE) \cup
    Dispatched(Jumped(p), "SYNCHRONIZATION_FAULT", FALSE)

(* The servo is locked, unlocked, or makes the clock jump; then the        *)
(* requests still waiting are useless, whatever the dispatch flushed.  A   *)
(* Sync that cannot be used yields the servo's last state again, be it a   *)
(* jump.                                                                   *)
portSynchronize(p) ==
    Dispatched(p, "MASTER_CLOCK_SELECTED", FALSE) \cup
    Dispatched(p, "SYNCHRONIZATION_FAULT", FALSE) \cup
    { Release(flush_delay_req(q), "peer_delay_req") :
        q \in Dispatched(p, "SYNCHRONIZATION_FAULT", FALSE) \cup
              Dispatched(Jumped(p), "SYNCHRONIZATION_FAULT", FALSE) }

(* Message c takes the place of the half that is kept.                     *)
Keep(p, c, syfu) ==
    [msg_get(flush_last_sync(p), c) EXCEPT !.last_syncfup = c, !.syfu = syfu]

(* What is done once the pair is with the servo: the half that was kept is *)
(* released, even if the dispatch has flushed it.                          *)
Consumed(p) == [msg_put(p, p.last_syncfup) EXCEPT !.syfu = "EMPTY"]

Matches(p, c, syfu) ==
    p.syfu = syfu /\ p.body[p.last_syncfup].seq = p.body[c].seq

FromParent(p, c) == p.state \in Slaving /\ p.body[c].from = parent

portMsgProSync(p, c) ==
    IF ~FromParent(p, c) THEN {p}
    ELSE IF p.body[c].oneStep
         THEN { flush_last_sync(q) : q \in portSynchronize(p) }
    ELSE (IF Matches(p, c, "HAVE_FUP")
          THEN { Consumed(q) : q \in portSynchronize(p) } ELSE {})
         \cup
         (IF ~Matches(p, c, "HAVE_FUP") \/ CheckFupSync
          THEN {Keep(p, c, "HAVE_SYNC")} ELSE {})

portMsgProFollowUp(p, c) ==
    IF ~FromParent(p, c) THEN {p}
    ELSE IF Matches(p, c, "HAVE_SYNC")
         THEN { Consumed(q) : q \in portSynchronize(p) }
    ELSE {Keep(p, c, "HAVE_FUP")}

----------------------------------------------------------------------------
(* Delay requests and their answers.                                       *)

Fault(p) == [port |-> p, event |-> "FAULT_DETECTED"]
Quiet(p) == [port |-> p, event |-> "NONE"]

(* Mutant of Requested: the sequence id has more than 16 bits.             *)
RequestedWide(p) ==
    [msg_allocate(p, [kind |-> "REQUEST", seq |-> p.seqnum, old |-> FALSE])
        EXCEPT !.seqnum = @ + 1]

(* A request is built; it may fail to be sent or to be time-stamped, and   *)
(* is kept where the field or the queue of the mechanism says.             *)
Requested(p) ==
    [msg_allocate(p, [kind |-> "REQUEST", seq |-> p.seqnum, old |-> FALSE])
        EXCEPT !.seqnum = (@ + 1) % SeqWrap]

Stored(p, c) ==
    IF p.mechanism = "P2P"
    THEN [Release(p, "peer_delay_req") EXCEPT !.peer_delay_req = c]
    ELSE [p EXCEPT !.delay_req = <<c>> \o @]

NewRequest(p) ==
    IF ~CanAllocate(p) THEN {Fault(p)}
    ELSE LET c == Allocated(p)
         IN { Fault(msg_put(Requested(p), c)), Quiet(Stored(Requested(p), c)) }

port_pdelay_request(p) ==
    NewRequest([p EXCEPT !.multiple_seq_pdr_count =
                              IF p.multiple_pdr_detected THEN @ ELSE 0,
                         !.multiple_pdr_detected = FALSE])

port_delay_request(p) ==
    LET q == Release(Release(p, "peer_delay_resp"), "peer_delay_fup")
    IN IF p.mechanism = "P2P" THEN port_pdelay_request(q)
                              ELSE NewRequest(q)

(* The newest request with the sequence id of answer c, 0 if there is none. *)
Answered(p, c) ==
    SelectInSeq(p.delay_req, LAMBDA r : p.body[r].seq = p.body[c].seq)

(* Mutant of portMsgProDelayResp: the request answered stays in the queue. *)
DelayRespKeepsEntry(p, c) ==
    LET i == Answered(p, c)
    IN IF ~FromParent(p, c) \/ i = 0 THEN p
       ELSE msg_put(p, p.delay_req[i])

portMsgProDelayResp(p, c) ==
    LET i == Answered(p, c)
    IN IF ~FromParent(p, c) \/ i = 0 THEN p
       ELSE [msg_put(p, p.delay_req[i]) EXCEPT !.delay_req = RemoveAt(@, i)]

(* A message that is made, sent and released at once: the answer to a      *)
(* Delay_Req, an Announce.  And two of them: the answer to a Pdelay_Req, a *)
(* Sync, each with its Follow_Up.                                          *)
Answer(p) ==
    IF ~CanAllocate(p) THEN {Fault(p)}
    ELSE LET q == msg_put(msg_allocate(p, Other), Allocated(p))
         IN {Fault(q), Quiet(q)}

AnswerTwice(p) ==
    LET q == msg_allocate(p, Other)
        r == msg_put(msg_put(msg_allocate(q, Other), Allocated(p)), Allocated(q))
    IN IF ~CanAllocate(p) THEN {Fault(p)}
       ELSE IF ~CanAllocate(q) THEN {Fault(msg_put(q, Allocated(p)))}
       ELSE {Fault(r), Quiet(r)}

portMsgProDelayReq(p) ==
    IF p.state \in Mastering /\ p.mechanism # "P2P" THEN Answer(p)
    ELSE {Quiet(p)}

portMsgProPDelayReq(p) ==
    IF p.mechanism = "E2E" THEN {Quiet(p)}
    ELSE AnswerTwice([p EXCEPT !.mechanism = "P2P"])

----------------------------------------------------------------------------
(* The peer delay exchange.                                                *)

Follows(fup, rsp) == fup.seq = rsp.seq /\ fup.from = rsp.from

(* The request that is answered is released, unless tsproc_update_delay    *)
(* fails: a time stamp that the offset of the port makes zero counts as    *)
(* missing, and the request stays for the next answer.                     *)
port_peer_delay(p) ==
    LET req == p.body[p.peer_delay_req]
        rsp == p.body[p.peer_delay_resp]
        fup == p.body[p.peer_delay_fup]
    IN IF /\ p.peer_delay_resp # Null /\ rsp.seq = req.seq
          /\ rsp.oneStep \/ (p.peer_delay_fup # Null /\ Follows(fup, rsp))
       THEN {Release(p, "peer_delay_req"), p} ELSE {p}

(* A second peer answers: counted once per request.                        *)
SecondPeer(p, c) ==
    p.peer_delay_resp # Null /\ p.body[p.peer_delay_resp].from # p.body[c].from

Counted(p, c) ==
    IF SecondPeer(p, c) /\ ~p.multiple_pdr_detected
    THEN [p EXCEPT !.multiple_pdr_detected = TRUE,
                   !.multiple_seq_pdr_count = @ + 1]
    ELSE p

(* Message c takes the place of the one the field held.                    *)
Replaced(p, field, c) == [msg_get(Release(p, field), c) EXCEPT ![field] = c]

portMsgProPDelayResp(p, c) ==
    LET q == Counted(p, c)
    IN IF SecondPeer(p, c) /\ q.multiple_seq_pdr_count >= 3
       THEN {Fault([q EXCEPT !.lastFault = "BAD_PEER_NETWORK"])}
       ELSE IF q.peer_delay_req = Null THEN {Fault(q)}
       ELSE { Quiet(r) : r \in port_peer_delay(Replaced(q, "peer_delay_resp", c)) }

portMsgProPDelayRespFollowUp(p, c) ==
    IF p.peer_delay_req = Null THEN {p}
    ELSE port_peer_delay(Replaced(p, "peer_delay_fup", c))

----------------------------------------------------------------------------
(* Actions.                                                                *)

(* clock_poll dispatches what the handler returned.                        *)
Ends(outcomes) ==
    \E o \in outcomes : port' \in Dispatched(o.port, o.event, FALSE)

(* bc_event for a message m: it is delivered in a fresh message, which is  *)
(* released when the handler is done.                                      *)
Fresh == Allocated(port)

Delivered(m) == msg_allocate(port, m)

Receives(outcomes) ==
    /\ portIsEnabled(port.state)
    /\ Ends(IF ~CanAllocate(port) THEN {Fault(port)}
            ELSE { [o EXCEPT !.port = msg_put(@, Fresh)] : o \in outcomes })
    /\ UNCHANGED parent

Message(kind, seq, from, oneStep) ==
    Delivered([kind |-> kind, seq |-> seq, from |-> from, oneStep |-> oneStep])

Quietly(ports) == { Quiet(q) : q \in ports }

ReceiveSync(seq, from) ==
    \E os \in BOOLEAN : LET p == Message("SYNC", seq, from, os)
                        IN Receives(Quietly(portMsgProSync(p, Fresh)))

ReceiveFollowUp(seq, from) ==
    LET p == Message("FOLLOW_UP", seq, from, FALSE)
    IN Receives(Quietly(portMsgProFollowUp(p, Fresh)))

ReceiveDelayResp(seq, from) ==
    LET p == Message("DELAY_RESP", seq, from, FALSE)
    IN Receives({Quiet(portMsgProDelayResp(p, Fresh))})

ReceivePDelayResp(seq, from) ==
    \E os \in BOOLEAN : LET p == Message("PDELAY_RESP", seq, from, os)
                        IN Receives(portMsgProPDelayResp(p, Fresh))

ReceivePDelayRespFollowUp(seq, from) ==
    LET p == Message("PDELAY_FUP", seq, from, FALSE)
    IN Receives({ Quiet(r) : r \in portMsgProPDelayRespFollowUp(p, Fresh) })

ReceiveRequest ==
    \/ Receives(portMsgProDelayReq(Delivered(Other)))
    \/ Receives(portMsgProPDelayReq(Delivered(Other)))

(* A message that is ignored, or a reception that fails.                   *)
ReceiveOther == Receives({Quiet(Delivered(Other)), Fault(Delivered(Other))})

(* The two timers that touch the requests.  A stale report may come in any *)
(* enabled state.                                                          *)
DelayTimeout ==
    /\ portIsEnabled(port.state)
    /\ \E k \in 0 .. Len(port.delay_req) :
          Ends(port_delay_request(delay_req_prune(port, k)))
    /\ UNCHANGED parent

AnnounceTimeout ==
    /\ portIsEnabled(port.state)
    /\ \E k \in 0 .. Len(port.delay_req) :
          port' \in Dispatched(delay_req_prune(port, k),
                               "ANNOUNCE_RECEIPT_TIMEOUT_EXPIRES", FALSE)
    /\ UNCHANGED parent

(* The timers of a master: Announce and Sync.                              *)
TransmitTimeout ==
    /\ portIsEnabled(port.state)
    /\ Ends(Answer(port) \cup AnswerTwice(port))
    /\ UNCHANGED parent

(* What else reaches bc_dispatch: link changes, other failures, the fault  *)
(* timer, the state decision.  A decision for a slave names its parent.    *)
OtherEvents == { "FAULT_DETECTED", "FAULT_CLEARED", "RS_MASTER",
                 "RS_GRAND_MASTER", "RS_PASSIVE",
                 "QUALIFICATION_TIMEOUT_EXPIRES" }

OtherEvent(e) ==
    /\ port' \in Dispatched(port, e, FALSE)
    /\ UNCHANGED parent

DecideSlave(master, mdiff) ==
    /\ port' \in Dispatched(port, "RS_SLAVE", mdiff)
    /\ parent' = master

Next ==
    \/ \E seq \in SeqIds, master \in Masters :
          ReceiveSync(seq, master) \/ ReceiveFollowUp(seq, master)
    \/ \E seq \in SeqIds :
          \/ \E master \in Masters : ReceiveDelayResp(seq, master)
          \/ \E peer \in Peers :
                \/ ReceivePDelayResp(seq, peer)
                \/ ReceivePDelayRespFollowUp(seq, peer)
    \/ ReceiveRequest
    \/ ReceiveOther
    \/ DelayTimeout
    \/ AnnounceTimeout
    \/ TransmitTimeout
    \/ \E e \in OtherEvents : OtherEvent(e)
    \/ \E master \in Masters, mdiff \in BOOLEAN : DecideSlave(master, mdiff)

Spec == Init /\ [][Next]_vars

----------------------------------------------------------------------------
(* Properties, of the moments between two events.                          *)

Pooled(c) == { i \in DOMAIN port.pool : port.pool[i] = c }

Held == { f \in {"peer_delay_req", "peer_delay_resp", "peer_delay_fup"} :
            port[f] # Null }

(* How many of the port's pointers point to message c.                     *)
Holders(c) ==
    Cardinality({ i \in DOMAIN port.delay_req : port.delay_req[i] = c })
    + Cardinality({ f \in Held : port[f] = c })
    + (IF port.syfu # "EMPTY" /\ port.last_syncfup = c THEN 1 ELSE 0)

(* Every message is in the pool, once and with nothing pointing to it, or  *)
(* out of it with exactly the references its count says: nothing leaks,    *)
(* dangles, or can be handed out twice, though syfufsm puts a flushed      *)
(* message a second time.                                                  *)
Conserved ==
    \A c \in 1 .. port.total :
        IF Pooled(c) = {} THEN port.refcnt[c] = Holders(c) /\ Holders(c) > 0
        ELSE Cardinality(Pooled(c)) = 1 /\ Holders(c) = 0

(* A port that is down keeps no message: portOpDisable released them all,  *)
(* and the handler that was running when the fault came has kept none.     *)
DownHoldsNoMessage ==
    port.state \in Down =>
        port.syfu = "EMPTY" /\ port.delay_req = <<>> /\ Held = {}

(* No request time-stamped before the clock jumped waits for an answer:    *)
(* portSynchronize drops the requests of both mechanisms, so that a path   *)
(* delay is never the difference of two time scales.                       *)
NoRequestFromBeforeJump ==
    /\ \A i \in DOMAIN port.delay_req : ~port.body[port.delay_req[i]].old
    /\ port.peer_delay_req # Null => ~port.body[port.peer_delay_req].old
=============================================================================
