-------------------------- MODULE PtpClock_proofs --------------------------
(***************************************************************************)
(* What PtpClock's runs check on one or two ports holds for any number of  *)
(* them, any announces, and every setting of the constants.                *)
(*                                                                         *)
(* First one port: what a dispatch does to it whatever the configuration.  *)
(* It keeps the port well formed, a listening or transmitting port keeps   *)
(* its timers, a port that is down holds nothing, and a port becomes or    *)
(* stays a slave for one reason only.  Then the clock.                     *)
(***************************************************************************)
EXTENDS PtpClock, TLAPS

(* Nothing in the program raises the other events.                         *)
RaisedEvents == Events \ {"DESIGNATED_ENABLED", "DESIGNATED_DISABLED",
                          "POWERUP", "INIT_COMPLETE"}

(* The states a port can be in between two events.                         *)
Resting ==
    IF SlaveOnly THEN {"FAULTY", "LISTENING"} \cup Slaving
    ELSE States \ {"INITIALIZING", "DISABLED"}

(* The timers a state must have armed at all times.                        *)
Required(s) ==
    IF s \in Listeners THEN {"ANNOUNCE"}
    ELSE IF s = "PRE_MASTER" THEN {"QUALIFICATION"}
    ELSE IF s \in Mastering THEN {"MANNO", "SYNC_TX"}
    ELSE {}

Timed(q) == Required(q.state) \subseteq q.armed

HoldsNothing(q) ==
    /\ q.armed = {} /\ q.heard = <<>> /\ q.msgs = NoMsgs /\ q.best = Null

(* A foreign master has one record.                                        *)
Distinct(h) == \A i, j \in 1 .. Len(h) : h[i] = h[j] => i = j

PortInv(q) ==
    /\ q \in PortRec
    /\ Distinct(q.heard)
    /\ q.state \in Resting
    /\ Timed(q)
    /\ q.state = "FAULTY" => HoldsNothing(q)

(* No event that is raised leads out of the states a port rests in, but    *)
(* for the start of it.                                                    *)
LEMMA FsmResting ==
  ASSUME NEW s \in Resting, NEW e \in RaisedEvents, NEW mdiff \in BOOLEAN
  PROVE  Fsm(SlaveOnly, s, e, mdiff) \in Resting \cup {"INITIALIZING"}
  BY PortConfig, SMT
     DEF Fsm, DownFsm, EnabledFsm, RoleFsm, SlaveRoleFsm, Resting, States,
         Slaving, Down, RaisedEvents, Events, Listeners

(* What takes a slave port off its master outside a state decision.        *)
EndsSlaving == {"ANNOUNCE_RECEIPT_TIMEOUT_EXPIRES", "FAULT_DETECTED"}

(* A port follows a master because it did so before or is told to by a     *)
(* state decision, never on any other event of the decision, nor after the *)
(* master fell silent or a fault.                                          *)
LEMMA FsmSlaving ==
  ASSUME NEW s \in Resting, NEW e \in RaisedEvents, NEW mdiff \in BOOLEAN,
         Fsm(SlaveOnly, s, e, mdiff) \in Slaving
  PROVE  /\ s \in Slaving \/ e = "RS_SLAVE"
         /\ e \notin {"RS_MASTER", "RS_GRAND_MASTER", "RS_PASSIVE"}
         /\ e \notin EndsSlaving
         /\ s # "FAULTY"
  BY PortConfig, SMT
     DEF EndsSlaving, Fsm, DownFsm, EnabledFsm, RoleFsm, SlaveRoleFsm, Resting, States,
         Slaving, Down, RaisedEvents, Events, Listeners

(* The same for a passive port.                                            *)
LEMMA FsmPassive ==
  ASSUME NEW s \in Resting, NEW e \in RaisedEvents, NEW mdiff \in BOOLEAN,
         Fsm(SlaveOnly, s, e, mdiff) = "PASSIVE"
  PROVE  /\ s = "PASSIVE" \/ e = "RS_PASSIVE"
         /\ e \notin {"RS_MASTER", "RS_GRAND_MASTER", "RS_SLAVE"}
         /\ s # "FAULTY"
  BY PortConfig, SMT
     DEF Fsm, DownFsm, EnabledFsm, RoleFsm, SlaveRoleFsm, Resting, States,
         Slaving, Down, RaisedEvents, Events, Listeners

(* A faulty port only leaves its state to start again.                     *)
LEMMA FsmFaulty ==
  ASSUME NEW e \in RaisedEvents, NEW mdiff \in BOOLEAN
  PROVE  Fsm(SlaveOnly, "FAULTY", e, mdiff) \in {"FAULTY", "INITIALIZING"}
  BY SMT DEF Fsm, DownFsm, Down, RaisedEvents, Events

(* The two ways port_initialize ends, and the clearing of a fault.         *)
LEMMA FsmStart ==
  /\ Fsm(SlaveOnly, "INITIALIZING", "INIT_COMPLETE", FALSE) = "LISTENING"
  /\ Fsm(SlaveOnly, "INITIALIZING", "FAULT_DETECTED", FALSE) = "FAULTY"
  /\ Fsm(SlaveOnly, "FAULTY", "FAULT_CLEARED", FALSE) = "INITIALIZING"
  BY SMT DEF Fsm, DownFsm, Down

----------------------------------------------------------------------------
(* Types.                                                                  *)

(* A foreign master's port is a port identity, and not NULL.               *)
LEMMA SendersTyped ==
  /\ Senders \subseteq PortIdentity
  /\ Null \notin Senders
  /\ \A m \in Announces : m.sender \in Senders
  BY PortConfig, NullIsNothing DEF Senders, AnnounceMsg

(* portOpDisable releases everything and changes nothing else.             *)
LEMMA Disabled ==
  ASSUME NEW q \in PortRec
  PROVE  /\ portOpDisable(q) \in PortRec
         /\ HoldsNothing(portOpDisable(q))
         /\ portOpDisable(q).state = q.state
<1>1. NoMsgs \in [Senders -> Seq(Announces)] /\ <<>> \in Seq(Senders)
  BY DEF NoMsgs
<1>2. portOpDisable(q) \in PortRec
  BY <1>1 DEF portOpDisable, PortRec
<1>3. HoldsNothing(portOpDisable(q)) /\ portOpDisable(q).state = q.state
  BY DEF portOpDisable, PortRec, HoldsNothing
<1> QED BY <1>2, <1>3

(* port_initialize arms ANNOUNCE or nothing, and opens no foreign master.  *)
LEMMA Initialized ==
  ASSUME NEW q \in PortRec, NEW ok \in BOOLEAN
  PROVE  /\ port_initialize(q, ok) \in PortRec
         /\ port_initialize(q, ok).state = q.state
         /\ port_initialize(q, ok).heard = q.heard
         /\ port_initialize(q, ok).msgs = q.msgs
         /\ port_initialize(q, ok).best = q.best
         /\ port_initialize(q, ok).armed = IF ok THEN {"ANNOUNCE"} ELSE {}
  BY DEF port_initialize, PortRec, FaultTypes, Timers
----------------------------------------------------------------------------
(* Dispatching.                                                            *)

(* Why a port of state s that was q's is what it is, when event e made r.  *)
Reasons(q, e, r) ==
    /\ r.state \in Slaving =>
         /\ q.state \in Slaving \/ e = "RS_SLAVE"
         /\ e \notin {"RS_MASTER", "RS_GRAND_MASTER", "RS_PASSIVE"}
         /\ e \notin EndsSlaving
         /\ r.best = q.best
    /\ r.state = "PASSIVE" =>
         /\ q.state = "PASSIVE" \/ e = "RS_PASSIVE"
         /\ e \notin {"RS_MASTER", "RS_GRAND_MASTER", "RS_SLAVE"}
         /\ r.best = q.best

(* portStateUpdate either starts the port, which then has released all it  *)
(* held, or changes its state alone.                                       *)
LEMMA Updated ==
  ASSUME NEW q \in PortRec, PortInv(q), NEW e \in RaisedEvents,
         NEW mdiff \in BOOLEAN, NEW ok \in BOOLEAN
  PROVE  LET r == portStateUpdate(q, e, mdiff, ok)
         IN /\ r \in PortRec
            /\ \/ /\ r.state = "LISTENING" /\ r.armed = {"ANNOUNCE"}
                  /\ r.heard = <<>>
               \/ /\ r.state = "FAULTY"
                  /\ HoldsNothing(r)
               \/ /\ r = [q EXCEPT !.state = r.state]
                  /\ r.state \in Resting
                  /\ r.state = Fsm(SlaveOnly, q.state, e, mdiff)
<1> DEFINE s == NextState(q, e, mdiff)
           d == IF portIsEnabled(q.state) THEN portOpDisable(q) ELSE q
           i == port_initialize(d, ok)
           t == Fsm(SlaveOnly, s,
                    IF ok THEN "INIT_COMPLETE" ELSE "FAULT_DETECTED", FALSE)
           r == portStateUpdate(q, e, mdiff, ok)
<1>0. q.state \in Resting
  BY DEF PortInv
<1>1. \/ s = "INITIALIZING"
      \/ s \in Resting /\ s = Fsm(SlaveOnly, q.state, e, mdiff)
  BY <1>0, FsmResting, FsmStart DEF NextState
<1>2. d \in PortRec /\ HoldsNothing(d)
  <2>1. CASE portIsEnabled(q.state)
    BY <2>1, Disabled
  <2>2. CASE ~portIsEnabled(q.state)
    <3>1. q.state = "FAULTY"
      BY <2>2, <1>0 DEF portIsEnabled, Down, Resting, Slaving
    <3> QED BY <3>1, <2>2 DEF PortInv
  <2> QED BY <2>1, <2>2
<1>3. /\ i \in PortRec
      /\ i.heard = <<>> /\ i.msgs = NoMsgs /\ i.best = Null
      /\ i.armed = IF ok THEN {"ANNOUNCE"} ELSE {}
  BY <1>2, Initialized DEF HoldsNothing
<1>4. CASE s = "INITIALIZING"
  <2> DEFINE u == [i EXCEPT !.state = t]
  <2>1. r = u
    BY <1>4 DEF portStateUpdate
  <2>2. t = IF ok THEN "LISTENING" ELSE "FAULTY"
    BY <1>4, FsmStart
  <2> HIDE DEF i, t
  <2>3. u \in PortRec
    BY <1>3, <2>2 DEF PortRec, States
  <2>4. /\ u.state = t /\ u.heard = i.heard /\ u.msgs = i.msgs
        /\ u.best = i.best /\ u.armed = i.armed
    BY <1>3 DEF PortRec
  <2> HIDE DEF u
  <2> QED BY <1>3, <2>1, <2>2, <2>3, <2>4 DEF HoldsNothing
<1>5. CASE s # "INITIALIZING"
  <2>1. r = [q EXCEPT !.state = s]
    BY <1>5 DEF portStateUpdate
  <2>2. s \in States
    BY <1>1, <1>5 DEF Resting, States, Slaving
  <2> HIDE DEF s
  <2>3. [q EXCEPT !.state = s] \in PortRec /\ [q EXCEPT !.state = s].state = s
    BY <2>2 DEF PortRec
  <2> QED BY <1>1, <1>5, <2>1, <2>3
<1> QED BY <1>4, <1>5

(* A port with no foreign master knows none twice.                         *)
LEMMA EmptyDistinct == Distinct(<<>>)
  BY DEF Distinct

(* What a transition sets is what the state must have.                     *)
LEMMA Transitioned ==
  ASSUME NEW q \in PortRec, q.state \in Resting, Distinct(q.heard)
  PROVE  /\ PortInv(Transition(q))
         /\ Transition(q).state = q.state
         /\ q.state # "FAULTY" => Transition(q).best = q.best
<1>1. CASE q.state = "FAULTY"
  <2>1. Transition(q) = portOpDisable(q)
    BY <1>1 DEF Transition
  <2> QED BY <1>1, <2>1, Disabled, EmptyDistinct
          DEF HoldsNothing, PortInv, Timed, Required, Listeners, Slaving, Mastering
<1>2. CASE q.state # "FAULTY"
  <2> DEFINE a == LeftRunning(q) \cup TimersOf(q.state)
  <2>1. q.state # "DISABLED"
    BY DEF Resting, Slaving
  <2>2. Transition(q) = [q EXCEPT !.armed = a]
    BY <1>2, <2>1 DEF Transition
  <2>3. a \subseteq Timers
    BY PortConfig DEF LeftRunning, TimersOf, Timers
  <2>4. Required(q.state) \subseteq a
    BY DEF Required, TimersOf, Listeners, Slaving, Mastering
  <2> HIDE DEF a
  <2>5. /\ [q EXCEPT !.armed = a] \in PortRec
        /\ [q EXCEPT !.armed = a].armed = a
        /\ [q EXCEPT !.armed = a].state = q.state
        /\ [q EXCEPT !.armed = a].best = q.best
        /\ [q EXCEPT !.armed = a].heard = q.heard
    BY <2>3 DEF PortRec
  <2> QED BY <1>2, <2>2, <2>4, <2>5 DEF PortInv, Timed
<1> QED BY <1>1, <1>2

(* One dispatch keeps the port's invariant, for the stated reasons.        *)
LEMMA DispatchedOnce ==
  ASSUME NEW q \in PortRec, PortInv(q), NEW e \in RaisedEvents,
         NEW mdiff \in BOOLEAN, NEW ok \in BOOLEAN
  PROVE  LET r == DispatchOnce(q, e, mdiff, ok)
         IN PortInv(r) /\ Reasons(q, e, r)
<1> DEFINE u == portStateUpdate(q, e, mdiff, ok)
           r == DispatchOnce(q, e, mdiff, ok)
<1>0. /\ u \in PortRec
      /\ \/ u.state = "LISTENING" /\ u.armed = {"ANNOUNCE"} /\ u.heard = <<>>
         \/ u.state = "FAULTY" /\ HoldsNothing(u)
         \/ /\ u = [q EXCEPT !.state = u.state]
            /\ u.state \in Resting
            /\ u.state = Fsm(SlaveOnly, q.state, e, mdiff)
  BY Updated
<1>1. u.state \in Resting
  BY <1>0 DEF Resting, States
<1>2. q.state \in Resting /\ Timed(q) /\ Distinct(q.heard)
  BY DEF PortInv
<1>3. Distinct(u.heard)
  <2>1. CASE u = [q EXCEPT !.state = u.state]
    <3>1. u.heard = q.heard
      BY <2>1 DEF PortRec
    <3> QED BY <3>1, <1>2
  <2> QED BY <2>1, <1>0, EmptyDistinct DEF HoldsNothing
<1>4. r = IF u.state = q.state THEN u ELSE Transition(u)
  BY DEF DispatchOnce
<1> HIDE DEF u, r
<1>5. PortInv(r)
  <2>1. CASE u.state # q.state
    BY <2>1, <1>0, <1>1, <1>3, <1>4, Transitioned
  <2>2. CASE u.state = q.state
    <3>1. CASE u.state = "LISTENING" /\ u.armed = {"ANNOUNCE"}
      BY <3>1, <2>2, <1>0, <1>1, <1>3, <1>4
         DEF PortInv, Timed, Required, Listeners
    <3>2. CASE u.state = "FAULTY" /\ HoldsNothing(u)
      BY <3>2, <2>2, <1>0, <1>1, <1>3, <1>4
         DEF PortInv, Timed, Required, Listeners, Slaving, Mastering
    <3>3. CASE u = [q EXCEPT !.state = u.state]
      <4>1. u = q
        BY <3>3, <2>2 DEF PortRec
      <4> QED BY <4>1, <2>2, <1>4
    <3> QED BY <3>1, <3>2, <3>3, <1>0
  <2> QED BY <2>1, <2>2
<1>6. /\ r.state = u.state
      /\ r.state # "FAULTY" => r.best = u.best
  BY <1>0, <1>1, <1>3, <1>4, Transitioned
<1>7. ASSUME r.state \in Slaving \cup {"PASSIVE"}
      PROVE  Fsm(SlaveOnly, q.state, e, mdiff) = r.state /\ r.best = q.best
  <2>1. u.state \notin {"LISTENING", "FAULTY"} /\ r.best = u.best
    BY <1>7, <1>6 DEF Slaving
  <2>2. u = [q EXCEPT !.state = u.state]
        /\ u.state = Fsm(SlaveOnly, q.state, e, mdiff)
    BY <2>1, <1>0
  <2>3. u.best = q.best
    BY <2>2 DEF PortRec
  <2> QED BY <2>1, <2>2, <2>3, <1>6
<1>8. Reasons(q, e, r)
  <2>1. ASSUME r.state \in Slaving
        PROVE  /\ q.state \in Slaving \/ e = "RS_SLAVE"
               /\ e \notin {"RS_MASTER", "RS_GRAND_MASTER", "RS_PASSIVE"}
               /\ e \notin EndsSlaving
    BY <2>1, <1>2, <1>7, FsmSlaving
  <2>2. ASSUME r.state = "PASSIVE"
        PROVE  /\ q.state = "PASSIVE" \/ e = "RS_PASSIVE"
               /\ e \notin {"RS_MASTER", "RS_GRAND_MASTER", "RS_SLAVE"}
    BY <2>2, <1>2, <1>7, FsmPassive
  <2> QED BY <2>1, <2>2, <1>7 DEF Reasons
<1> QED BY <1>5, <1>8 DEF r

(* bc_dispatch, the PHC switch included.                                   *)
LEMMA DispatchedPort ==
  ASSUME NEW q \in PortRec, PortInv(q), NEW e \in RaisedEvents,
         NEW mdiff \in BOOLEAN, NEW ok \in BOOLEAN, NEW switched \in BOOLEAN
  PROVE  LET r == bc_dispatch(q, e, mdiff, ok, switched)
         IN PortInv(r) /\ Reasons(q, e, r)
<1> DEFINE u == DispatchOnce(q, e, mdiff, ok)
           v == [u EXCEPT !.lastFault = "SWITCH_PHC"]
           w == DispatchOnce(v, "FAULT_DETECTED", FALSE, ok)
           r == bc_dispatch(q, e, mdiff, ok, switched)
           fails == /\ Jbod /\ ~switched
                    /\ u.state = "UNCALIBRATED" /\ q.state # "UNCALIBRATED"
<1>1. PortInv(u) /\ Reasons(q, e, u)
  BY DispatchedOnce
<1>2. r = IF fails THEN w ELSE u
  BY DEF bc_dispatch
<1>3. CASE ~fails
  BY <1>1, <1>2, <1>3
<1>4. CASE fails
  <2> HIDE DEF u
  <2>1. v \in PortRec /\ v.state = u.state /\ v.best = u.best
        /\ v.armed = u.armed /\ v.heard = u.heard
    BY <1>1 DEF PortInv, PortRec, FaultTypes
  <2> HIDE DEF v
  <2>2. PortInv(v)
    BY <1>1, <1>4, <2>1 DEF PortInv, Timed
  <2>3. PortInv(w) /\ Reasons(v, "FAULT_DETECTED", w)
    BY <2>1, <2>2, DispatchedOnce DEF RaisedEvents, Events
  <2> HIDE DEF w
  <2>4. Reasons(q, e, w)
    BY <1>1, <1>4, <2>1, <2>3 DEF Reasons, Slaving
  <2> QED BY <1>2, <1>4, <2>3, <2>4
<1> QED BY <1>3, <1>4

(* A port that was just created goes through portStateUpdate into a        *)
(* transition to LISTENING, or to FAULTY.                                  *)
LEMMA CreatedStarts ==
  ASSUME NEW ok \in BOOLEAN, NEW switched \in BOOLEAN
  PROVE  \E u \in PortRec :
           /\ u.state = (IF ok THEN "LISTENING" ELSE "FAULTY")
           /\ u.heard = <<>>
           /\ bc_dispatch(Created, "INITIALIZE", FALSE, ok, switched)
                = Transition(u)
<1> DEFINE i == port_initialize(Created, ok)
           t == IF ok THEN "LISTENING" ELSE "FAULTY"
           u == [i EXCEPT !.state = t]
<1>1. Created \in PortRec /\ HoldsNothing(Created)
  <2>1. NoMsgs \in [Senders -> Seq(Announces)] /\ <<>> \in Seq(Senders)
    BY DEF NoMsgs
  <2> QED BY <2>1 DEF Created, PortRec, HoldsNothing, States, FaultTypes
<1>2. Created.state = "INITIALIZING"
  BY DEF Created
<1>3. Fsm(SlaveOnly, "INITIALIZING", "INITIALIZE", FALSE) = "INITIALIZING"
  BY DEF Fsm
<1>4. portStateUpdate(Created, "INITIALIZE", FALSE, ok) = u
  BY <1>2, <1>3, FsmStart DEF portStateUpdate, NextState, portIsEnabled, Down
<1>5. i \in PortRec /\ i.heard = <<>>
  BY <1>1, Initialized DEF HoldsNothing
<1> HIDE DEF i, t
<1>6. t \in {"LISTENING", "FAULTY"}
  BY DEF t
<1>7. u \in PortRec /\ u.state = t /\ u.heard = <<>>
  BY <1>5, <1>6 DEF PortRec, States
<1> HIDE DEF u
<1>8. DispatchOnce(Created, "INITIALIZE", FALSE, ok) = Transition(u)
  BY <1>2, <1>4, <1>6, <1>7 DEF DispatchOnce
<1>9. Transition(u).state = t
  BY <1>6, <1>7, EmptyDistinct, Transitioned DEF Resting, States
<1>10. bc_dispatch(Created, "INITIALIZE", FALSE, ok, switched) = Transition(u)
  BY <1>6, <1>8, <1>9 DEF bc_dispatch
<1> QED BY <1>7, <1>10 DEF t

(* So it starts, or is faulty, and follows nobody.                         *)
LEMMA CreatedPort ==
  ASSUME NEW ok \in BOOLEAN, NEW switched \in BOOLEAN
  PROVE  LET r == bc_dispatch(Created, "INITIALIZE", FALSE, ok, switched)
         IN PortInv(r) /\ r.state \in {"LISTENING", "FAULTY"}
<1>1. PICK u \in PortRec :
        /\ u.state = (IF ok THEN "LISTENING" ELSE "FAULTY") /\ u.heard = <<>>
        /\ bc_dispatch(Created, "INITIALIZE", FALSE, ok, switched) = Transition(u)
  BY CreatedStarts
<1>2. u.state \in Resting /\ Distinct(u.heard)
  BY <1>1, EmptyDistinct DEF Resting, States
<1> QED BY <1>1, <1>2, Transitioned

----------------------------------------------------------------------------
(* Handlers.                                                               *)

(* A handler that neither moves the port nor disarms a timer keeps its     *)
(* invariant, if it leaves a faulty port alone.                            *)
LEMMA Handled ==
  ASSUME NEW q \in PortRec, PortInv(q), NEW r \in PortRec,
         r.state = q.state, q.armed \subseteq r.armed, Distinct(r.heard),
         q.state = "FAULTY" => HoldsNothing(r)
  PROVE  PortInv(r)
  BY DEF PortInv, Timed

(* fc_prune shortens a list of announces.                                  *)
LEMMA Pruned ==
  ASSUME NEW s \in Seq(Announces), NEW k \in Prunings(s)
  PROVE  /\ k \in 0 .. 2 /\ k <= Len(s)
         /\ fc_prune(s, k) \in Seq(Announces)
         /\ Len(fc_prune(s, k)) = k
         /\ k > 0 => fc_prune(s, k)[1] = s[1]
<1>1. k \in 0 .. 2 /\ k <= Len(s)
  BY DEF Prunings, FOREIGN_MASTER_THRESHOLD
<1> QED BY <1>1 DEF fc_prune

(* The best of a port has an announce left.                                *)
Stocked(q) == q.best # Null => q.msgs[q.best] # <<>>

(* portMsgProAnnounce keeps the port typed, its state, its best and its    *)
(* timers, sets no timer but ANNOUNCE, and does nothing to a port that is  *)
(* down.                                                                   *)
LEMMA Announced ==
  ASSUME NEW q \in PortRec, NEW m \in Announces,
         NEW k \in Prunings(q.msgs[m.sender])
  PROVE  LET a == portMsgProAnnounce(q, m, k)
         IN /\ a.diff \in BOOLEAN
            /\ a.port \in PortRec
            /\ a.port.state = q.state /\ a.port.best = q.best
            /\ q.armed \subseteq a.port.armed
            /\ a.port.armed \subseteq q.armed \cup {"ANNOUNCE"}
            /\ a.port.linkUp = q.linkUp /\ a.port.faultTimer = q.faultTimer
            /\ Stocked(q) => Stocked(a.port)
            /\ Distinct(q.heard) => Distinct(a.port.heard)
            /\ q.state = "FAULTY" => a.port = q
<1> DEFINE s == m.sender
           f == q.msgs
           g == [f EXCEPT ![s] = <<m>> \o fc_prune(@, k)]
           K == [q EXCEPT !.msgs = g]
           h == <<s>> \o q.heard
           H == [q EXCEPT !.heard = h]
           a == portMsgProAnnounce(q, m, k)
<1>1. s \in Senders /\ f \in [Senders -> Seq(Announces)] /\ f[s] \in Seq(Announces)
  BY SendersTyped DEF PortRec
<1>2. fc_prune(f[s], k) \in Seq(Announces)
  BY <1>1, Pruned
<1>3. /\ g \in [Senders -> Seq(Announces)]
      /\ \A t \in Senders : g[t] = <<>> => f[t] = <<>>
  <2>1. <<m>> \o fc_prune(f[s], k) \in Seq(Announces)
    BY <1>2
  <2>2. <<m>> \o fc_prune(f[s], k) # <<>>
    BY <1>2
  <2> QED BY <1>1, <2>1, <2>2
<1>4. Kept(q, m, k) = K
  BY DEF Kept, PortRec
<1> HIDE DEF g
<1>5. K \in PortRec /\ K.state = q.state /\ K.best = q.best /\ K.armed = q.armed
      /\ K.heard = q.heard /\ K.msgs = g
      /\ K.linkUp = q.linkUp /\ K.faultTimer = q.faultTimer
  BY <1>3 DEF PortRec
<1>6. h \in Seq(Senders)
  <2>1. q.heard \in Seq(Senders) /\ <<s>> \in Seq(Senders)
    BY <1>1 DEF PortRec
  <2> QED BY <2>1
<1>7. H = NewForeignMaster(q, m)
  BY DEF NewForeignMaster
<1> HIDE DEF h
<1>8. H \in PortRec /\ H.state = q.state /\ H.best = q.best /\ H.armed = q.armed
      /\ H.heard = h /\ H.msgs = q.msgs
      /\ H.linkUp = q.linkUp /\ H.faultTimer = q.faultTimer
  BY <1>6 DEF PortRec
<1> HIDE DEF K, H
<1> DEFINE b == addForeignMaster(q, m, k)
           L == [K EXCEPT !.armed = @ \cup {"ANNOUNCE"}]
<1>9. /\ L \in PortRec /\ L.state = q.state /\ L.best = q.best
      /\ L.armed = q.armed \cup {"ANNOUNCE"} /\ L.heard = q.heard
      /\ L.msgs = g
      /\ L.linkUp = q.linkUp /\ L.faultTimer = q.faultTimer
  BY <1>5 DEF PortRec, Timers
<1> HIDE DEF L
<1>10. /\ b.diff \in BOOLEAN
      /\ \/ b.port = K
         \/ b.port = H /\ ~Known(q, s)
  BY <1>4, <1>7 DEF addForeignMaster, Differs
<1>11. /\ a.diff \in BOOLEAN
       /\ \/ a.port = q
          \/ /\ q.state # "FAULTY"
             /\ \/ a.port \in {K, L}
                \/ a.port = H /\ ~Known(q, s)
  BY <1>4, <1>10 DEF portMsgProAnnounce, updateCurrentMaster, Down, L, Differs
<1>12. ~Known(q, s) /\ Distinct(q.heard) => Distinct(H.heard)
  <2> SUFFICES ASSUME ~Known(q, s), Distinct(q.heard)
               PROVE  Distinct(h)
    BY <1>8
  <2> DEFINE l == q.heard
  <2>0. l \in Seq(Senders)
    BY DEF PortRec
  <2>1. \A i \in 1 .. Len(l) : l[i] # s
    BY DEF Known
  <2>2. Distinct(l)
    OBVIOUS
  <2> HIDE DEF l
  <2>3. /\ Len(<<s>> \o l) = Len(l) + 1
        /\ \A i \in 1 .. Len(l) + 1 :
             (<<s>> \o l)[i] = IF i = 1 THEN s ELSE l[i - 1]
    BY <1>1, <2>0
  <2>4. ASSUME NEW i \in 1 .. Len(l) + 1, NEW j \in 1 .. Len(l) + 1,
               (<<s>> \o l)[i] = (<<s>> \o l)[j]
        PROVE  i = j
    <3>1. Len(l) \in Nat
      BY <2>0
    <3>2. i # 1 => i - 1 \in 1 .. Len(l) /\ l[i - 1] = (<<s>> \o l)[i]
      BY <2>3, <3>1
    <3>3. j # 1 => j - 1 \in 1 .. Len(l) /\ l[j - 1] = (<<s>> \o l)[j]
      BY <2>3, <3>1
    <3>4. (i = 1 => (<<s>> \o l)[i] = s) /\ (j = 1 => (<<s>> \o l)[j] = s)
      BY <2>3, <3>1
    <3>5. i = 1 <=> j = 1
      BY <2>1, <2>4, <3>2, <3>3, <3>4
    <3>6. CASE i # 1
      <4>1. i - 1 = j - 1
        BY <2>2, <2>4, <3>2, <3>3, <3>5, <3>6 DEF Distinct
      <4> QED BY <3>1, <4>1
    <3> QED BY <3>5, <3>6
  <2>5. Distinct(<<s>> \o l)
    <3> DEFINE x == <<s>> \o l
    <3>1. Len(x) = Len(l) + 1 /\ \A i, j \in 1 .. Len(l) + 1 : x[i] = x[j] => i = j
      BY <2>3, <2>4
    <3> HIDE DEF x
    <3>2. Distinct(x)
      BY <3>1 DEF Distinct
    <3> QED BY <3>2 DEF x
  <2> QED BY <2>5 DEF h, l
<1>13. Stocked(q) => Stocked(K) /\ Stocked(L) /\ Stocked(H)
  <2>1. q.best \in Senders \cup {Null}
    BY DEF PortRec
  <2> QED BY <1>3, <1>5, <1>8, <1>9, <2>1 DEF Stocked
<1>14. \A r \in {q, K, L, H} :
         /\ r \in PortRec /\ r.state = q.state /\ r.best = q.best
         /\ q.armed \subseteq r.armed /\ r.armed \subseteq q.armed \cup {"ANNOUNCE"}
         /\ r.linkUp = q.linkUp /\ r.faultTimer = q.faultTimer
         /\ Stocked(q) => Stocked(r)
  BY <1>5, <1>8, <1>9, <1>13
<1>15. /\ Distinct(q.heard) => Distinct(a.port.heard)
       /\ q.state = "FAULTY" => a.port = q
       /\ a.port \in {q, K, L, H}
  BY <1>5, <1>9, <1>11, <1>12
<1> HIDE DEF a
<1>16. /\ a.diff \in BOOLEAN /\ a.port \in PortRec
       /\ a.port.state = q.state /\ a.port.best = q.best
       /\ q.armed \subseteq a.port.armed
       /\ a.port.armed \subseteq q.armed \cup {"ANNOUNCE"}
       /\ a.port.linkUp = q.linkUp /\ a.port.faultTimer = q.faultTimer
       /\ Stocked(q) => Stocked(a.port)
  BY <1>11, <1>14, <1>15
<1> QED BY <1>15, <1>16 DEF a

(* The best of a port is one of its first i foreign masters, and has an    *)
(* announce to make a dataset of.                                          *)
HasDataset(q, i) ==
    q.best # Null => /\ \E j \in 1 .. i : j <= Len(q.heard) /\ q.heard[j] = q.best
                     /\ q.msgs[q.best] # <<>>

(* A round of port_compute_best touches nothing but the best and its       *)
(* announces.                                                              *)
LEMMA BestStepKeeps ==
  ASSUME NEW q \in PortRec, NEW s, NEW k, NEW id, NEW p
  PROVE  LET r == computeBestStep(q, s, k, id, p)
         IN /\ r.state = q.state /\ r.armed = q.armed
            /\ r.linkUp = q.linkUp /\ r.faultTimer = q.faultTimer
<1> DEFINE r == computeBestStep(q, s, k, id, p)
<1>1. \E g, b : \/ r = [q EXCEPT !.msgs = g]
                 \/ r = [q EXCEPT !.msgs = g, !.best = b]
  <2> DEFINE g == [q.msgs EXCEPT ![s] = fc_prune(@, k)]
             K == [q EXCEPT !.msgs = g]
             c == [g EXCEPT ![s] = <<>>]
  <2>1. [q EXCEPT !.msgs[s] = fc_prune(@, k)] = K
    BY DEF PortRec
  <2>2. fc_clear(K, s) = [q EXCEPT !.msgs = c]
    <3> HIDE DEF g
    <3>1. K.msgs = g
      BY DEF PortRec
    <3>2. fc_clear(K, s) = [K EXCEPT !.msgs = [K.msgs EXCEPT ![s] = <<>>]]
      BY DEF fc_clear
    <3> QED BY <3>1, <3>2 DEF PortRec
  <2>3. [K EXCEPT !.best = s] = [q EXCEPT !.msgs = g, !.best = s]
    <3> HIDE DEF g
    <3> QED BY DEF PortRec
  <2>4. r \in {K, [K EXCEPT !.best = s], fc_clear(K, s)}
    BY <2>1 DEF computeBestStep
  <2> HIDE DEF g, c, r
  <2> QED BY <2>2, <2>3, <2>4
<1> HIDE DEF r
<1>2. r.state = q.state /\ r.armed = q.armed /\ r.linkUp = q.linkUp
      /\ r.faultTimer = q.faultTimer
  BY <1>1 DEF PortRec
<1> QED BY <1>2 DEF r

(* A round of port_compute_best keeps that for the next record.            *)
LEMMA BestStep ==
  ASSUME NEW q \in PortRec, PortInv(q), NEW i \in 1 .. Len(q.heard),
         HasDataset(q, i - 1), NEW s, s = q.heard[i],
         NEW k \in Prunings(q.msgs[s]), NEW id, NEW p,
         NEW r, r = computeBestStep(q, s, k, id, p)
  PROVE  PortInv(r) /\ HasDataset(r, i)
<1> DEFINE f == q.msgs
           g == [f EXCEPT ![s] = fc_prune(@, k)]
           c == [f EXCEPT ![s] = <<>>]
           K == [q EXCEPT !.msgs = g]
           B == [K EXCEPT !.best = s]
           C == [q EXCEPT !.msgs = c]
<1>1. /\ q.heard \in Seq(Senders) /\ f \in [Senders -> Seq(Announces)]
      /\ q.best \in Senders \cup {Null}
  BY DEF PortRec
<1>2. s \in Senders /\ f[s] \in Seq(Announces)
  BY <1>1
<1>3. s # Null
  BY <1>2, SendersTyped
<1>4. s # q.best
  BY <1>1, <1>3 DEF HasDataset, PortInv, Distinct
<1>5. q.state # "FAULTY"
  BY DEF PortInv, HoldsNothing
<1>6. /\ k \in 0 .. 2 /\ fc_prune(f[s], k) \in Seq(Announces)
      /\ Len(fc_prune(f[s], k)) = k
  BY <1>2, Pruned
<1>7. /\ g \in [Senders -> Seq(Announces)] /\ c \in [Senders -> Seq(Announces)]
      /\ g[s] = fc_prune(f[s], k)
      /\ \A t \in Senders : t # s => g[t] = f[t] /\ c[t] = f[t]
  <2>1. <<>> \in Seq(Announces)
    OBVIOUS
  <2> QED BY <1>1, <1>2, <1>6, <2>1
<1>8. r = IF k < 2 THEN K
          ELSE IF \/ q.best = Null
                  \/ Better(announce_to_dataset(f[s][1], id, p),
                            PORT_BEST_FOREIGN_DS(q, id, p))
               THEN B ELSE fc_clear(K, s)
  BY DEF computeBestStep, FOREIGN_MASTER_THRESHOLD
<1> HIDE DEF g, c
<1>9. /\ K \in PortRec /\ K.state = q.state /\ K.armed = q.armed
      /\ K.heard = q.heard /\ K.best = q.best /\ K.msgs = g
  BY <1>7 DEF PortRec
<1>10. /\ C \in PortRec /\ C.state = q.state /\ C.armed = q.armed
       /\ C.heard = q.heard /\ C.best = q.best /\ C.msgs = c
  BY <1>7 DEF PortRec
<1>11. fc_clear(K, s) = C
  <2>1. fc_clear(K, s) = [K EXCEPT !.msgs = [K.msgs EXCEPT ![s] = <<>>]]
    BY DEF fc_clear
  <2>2. [K.msgs EXCEPT ![s] = <<>>] = c
    BY <1>1, <1>2, <1>9 DEF c, g
  <2>3. [K EXCEPT !.msgs = c] = C
    BY <1>9 DEF PortRec
  <2> QED BY <2>1, <2>2, <2>3
<1> HIDE DEF K, C
<1>12. /\ B \in PortRec /\ B.state = q.state /\ B.armed = q.armed
       /\ B.heard = q.heard /\ B.best = s /\ B.msgs = g
  BY <1>2, <1>9 DEF PortRec
<1> HIDE DEF B
<1>13. \A u \in {K, B, C} : PortInv(u)
  BY <1>5, <1>9, <1>10, <1>12, Handled DEF PortInv
<1>14. HasDataset(K, i) /\ HasDataset(C, i)
  <2>1. ASSUME q.best # Null
        PROVE  /\ \E n \in 1 .. i : n <= Len(q.heard) /\ q.heard[n] = q.best
               /\ g[q.best] # <<>> /\ c[q.best] # <<>>
    <3>1. PICK n \in 1 .. i - 1 : n <= Len(q.heard) /\ q.heard[n] = q.best
      BY <2>1 DEF HasDataset
    <3>2. n \in 1 .. i /\ f[q.best] # <<>>
      BY <2>1, <3>1 DEF HasDataset
    <3> QED BY <1>1, <1>4, <1>7, <2>1, <3>1, <3>2
  <2>2. HasDataset(K, i)
    BY <1>9, <2>1 DEF HasDataset
  <2>3. HasDataset(C, i)
    BY <1>10, <2>1 DEF HasDataset
  <2> QED BY <2>2, <2>3
<1>15. k = 2 => HasDataset(B, i)
  <2> SUFFICES ASSUME k = 2 PROVE B.msgs[B.best] # <<>>
    BY <1>12 DEF HasDataset
  <2>0. k = 2
    OBVIOUS
  <2>1. B.msgs[B.best] = fc_prune(f[s], k)
    BY <1>7, <1>12
  <2>2. fc_prune(f[s], k) # <<>>
    <3>1. \A w : w = <<>> => Len(w) = 0
      OBVIOUS
    <3>2. Len(fc_prune(f[s], k)) # 0
      BY ONLY <1>6, <2>0
    <3> QED BY <3>1, <3>2, Zenon
  <2> QED BY <2>1, <2>2
<1>16. r = K \/ (r = B /\ k = 2) \/ r = C
  BY <1>6, <1>8, <1>11
<1> QED BY <1>9, <1>10, <1>12, <1>13, <1>14, <1>15, <1>16

----------------------------------------------------------------------------
(* The clock.                                                              *)

(* Every port keeps what a dispatch guarantees.                            *)
PortsInv == \A p \in Ports : PortInv(port[p])

(* What is left of the snapshot: nothing outside the serving of it, and of *)
(* a faulty port, or one whose netlink messages are being read, only the   *)
(* descriptors that a fault does not close.                                *)
LastFds == {FD_RTNL, FD_FAULT}

Served ==
    /\ phase \in {"poll", "compute", "decide"} => revents = {}
    /\ phase = "rtnl" =>
         \A x \in revents : x[1] = cur => x[2] \in LastFds
    /\ \A p \in Ports : port[p].state = "FAULTY" =>
         \A x \in revents : x[1] = p => x[2] \in LastFds

(* The best so far of the port that port_compute_best works on.            *)
Computed == phase = "compute" /\ idx >= 1 => HasDataset(port[cur], idx - 1)

ClockInv == TypeOK /\ PortsInv /\ Served /\ Computed

(* The events that are raised outside a state decision; what such a        *)
(* dispatch, or a handler, may make of a port: it does not become a slave, *)
(* nor passive, and while it is one its best stays.                        *)
QuietEvents == RaisedEvents \ {"RS_MASTER", "RS_GRAND_MASTER", "RS_SLAVE",
                                "RS_PASSIVE"}

Stays(q, r) ==
    /\ r.state \in Slaving => q.state \in Slaving /\ r.best = q.best
    /\ r.state = "PASSIVE" => q.state = "PASSIVE" /\ r.best = q.best

Steady == \A i \in Ports : Stays(port[i], port'[i])

Snapshot == (Ports \X Fds) \cup {Uds}

----------------------------------------------------------------------------
(* The number of ports is one, and the management port is none of them.    *)
LEMMA PortsAreNumbers ==
  /\ N \in Nat /\ 1 \in Ports /\ UdsPort \notin Ports
  /\ \A p \in Ports : p \in UInt16 /\ p \in Nat
<1>1. N \in UInt16 \ {0}
  BY ClockConfig
<1>2. N \in Nat /\ 1 <= N /\ N <= 65535
  BY <1>1, SMT DEF UInt16
<1>3. UdsPort \notin Ports /\ 1 \in Ports
  BY <1>2, SMT DEF Ports, UdsPort
<1>4. \A p \in Ports : p \in UInt16 /\ p \in Nat
  <2> SUFFICES ASSUME NEW p \in Ports PROVE p \in UInt16 /\ p \in Nat
    OBVIOUS
  <2>1. p \in Nat /\ p <= 65535
    BY <1>2, SMT DEF Ports
  <2> QED BY <2>1, SMT DEF UInt16
<1> QED BY <1>2, <1>3, <1>4

(* The kinds of descriptors have indexes of their own.                     *)
LEMMA FdsApart ==
  \A f \in Fds : /\ f \in Sockets => f \notin TimerFds /\ f \notin LastFds
                 /\ f \in TimerFds => f \notin Sockets /\ f \notin LastFds
                 /\ f \in Int
  BY DEF Fds, Sockets, TimerFds, LastFds, FD_EVENT, FD_GENERAL, FD_DELAY,
         FD_SYNC_TX, FD_RTNL, FD_FAULT

(* Every outcome of a dispatch is one of DispatchedPort.                   *)
LEMMA DispatchOutcome ==
  ASSUME NEW q \in PortRec, PortInv(q), NEW e \in RaisedEvents,
         NEW mdiff \in BOOLEAN, NEW r \in Dispatched(q, e, mdiff)
  PROVE  PortInv(r) /\ Reasons(q, e, r)
<1>1. PICK ok \in InitOutcomes, switched \in BOOLEAN :
         r = bc_dispatch(q, e, mdiff, ok, switched)
  BY DEF Dispatched
<1>2. ok \in BOOLEAN
  BY ClockConfig DEF InitOutcomes
<1> QED BY <1>1, <1>2, DispatchedPort

(* Every outcome of a port's first dispatch is one of CreatedPort.         *)
LEMMA CreatedOutcome ==
  ASSUME NEW r \in Dispatched(Created, "INITIALIZE", FALSE)
  PROVE  PortInv(r) /\ r.state \in {"LISTENING", "FAULTY"}
<1> DEFINE q == Created
           e == "INITIALIZE"
           m == FALSE
<1> HIDE DEF q, e, m
<1>1. r \in Dispatched(q, e, m)
  BY DEF q, e, m
<1>2. PICK ok \in InitOutcomes, switched \in BOOLEAN :
        r = bc_dispatch(q, e, m, ok, switched)
  BY <1>1 DEF Dispatched
<1>3. ok \in BOOLEAN
  BY ClockConfig DEF InitOutcomes
<1> QED BY <1>2, <1>3, CreatedPort DEF q, e, m

(* Setting the fault timer changes nothing else of a port.                 *)
LEMMA FaultTimed ==
  ASSUME NEW q \in PortRec, PortInv(q)
  PROVE  /\ PortInv(FaultTimeout(q))
         /\ FaultTimeout(q).state = q.state /\ FaultTimeout(q).best = q.best
         /\ FaultTimeout(q).armed = q.armed /\ FaultTimeout(q).msgs = q.msgs
         /\ FaultTimeout(q).linkUp = q.linkUp
         /\ q.state = "FAULTY" =>
              FaultTimeout(q).faultTimer = ~clear_fault_asap(q.lastFault)
<1> DEFINE b == ~clear_fault_asap(q.lastFault)
           r == [q EXCEPT !.faultTimer = b]
<1>1. b \in BOOLEAN
  BY DEF clear_fault_asap
<1> HIDE DEF b
<1>2. /\ r \in PortRec /\ r.state = q.state /\ r.best = q.best
      /\ r.armed = q.armed /\ r.heard = q.heard /\ r.msgs = q.msgs
      /\ r.linkUp = q.linkUp /\ r.faultTimer = b
  BY <1>1 DEF PortRec
<1>3. FaultTimeout(q) = IF q.state = "FAULTY" THEN r ELSE q
  BY DEF FaultTimeout, b
<1> HIDE DEF r
<1>4. PortInv(r)
  BY <1>2 DEF PortInv, Timed, HoldsNothing
<1> QED BY <1>2, <1>3, <1>4 DEF b

(* While a descriptor that a fault closes is served, the port is not down. *)
LEMMA ServedIsUp ==
  ASSUME ClockInv, NEW p \in Ports, NEW f \in Fds \ LastFds, Serving(p, f)
  PROVE  port[p].state # "FAULTY"
  BY DEF ClockInv, Served, Serving

(* The last of a round: the port keeps its invariant and the snapshot its  *)
(* form, whatever the handler raised.                                      *)
LEMMA AnswerStep ==
  ASSUME ClockInv, NEW p \in Ports, NEW f \in Fds \ {FD_FAULT},
         NEW q \in PortRec, PortInv(q), NEW e \in RaisedEvents,
         Answered(p, f, q, e)
  PROVE  /\ port' \in [Ports -> PortRec] /\ PortsInv'
         /\ revents' \in SUBSET Snapshot /\ phase' = "serve" /\ Served'
         /\ \A i \in Ports \ {p} : port'[i] = port[i]
         /\ \E r \in PortRec : /\ Reasons(q, e, r)
                               /\ port'[p].state = r.state
                               /\ port'[p].best = r.best
<1>1. PICK r \in Dispatched(q, e, FALSE) :
        /\ port' = [port EXCEPT ![p] = FaultTimeout(r)]
        /\ revents' = Left(p, f, r)
        /\ phase' = "serve"
  BY DEF Answered
<1>2. PortInv(r) /\ Reasons(q, e, r) /\ r \in PortRec
  BY DispatchOutcome DEF PortInv
<1> DEFINE t == FaultTimeout(r)
<1>3. PortInv(t) /\ t \in PortRec /\ t.state = r.state /\ t.best = r.best
  BY <1>2, FaultTimed DEF PortInv
<1> HIDE DEF t
<1>4. /\ port \in [Ports -> PortRec] /\ port' = [port EXCEPT ![p] = t]
      /\ revents \in SUBSET Snapshot
  BY <1>1 DEF ClockInv, TypeOK, Snapshot, t
<1>5. /\ port' \in [Ports -> PortRec] /\ port'[p] = t
      /\ \A i \in Ports \ {p} : port'[i] = port[i]
  BY <1>3, <1>4
<1>6. PortsInv'
  BY <1>3, <1>5 DEF ClockInv, PortsInv
<1>7. /\ revents' \subseteq revents
      /\ r.state = "FAULTY" => \A x \in revents' : x[1] = p => x[2] = FD_FAULT
  BY <1>1 DEF Left
<1>8. Served'
  <2>1. ASSUME NEW i \in Ports, port'[i].state = "FAULTY", NEW x \in revents',
               x[1] = i
        PROVE  x[2] \in LastFds
    <3>1. CASE i = p
      BY <2>1, <3>1, <1>3, <1>5, <1>7 DEF LastFds
    <3>2. CASE i # p
      BY <2>1, <3>2, <1>5, <1>7 DEF ClockInv, Served
    <3> QED BY <3>1, <3>2
  <2> QED BY <1>1, <2>1 DEF Served
<1> QED BY <1>1, <1>2, <1>3, <1>4, <1>5, <1>6, <1>7, <1>8

----------------------------------------------------------------------------
(* Each action keeps ClockInv.                                             *)

(* An event of QuietEvents gives no reason to follow or to turn passive.   *)
LEMMA QuietStays ==
  ASSUME NEW q, NEW r, NEW e \in QuietEvents, Reasons(q, e, r)
  PROVE  Stays(q, r)
  BY DEF QuietEvents, Reasons, Stays

(* Handlers end in the dispatch of what they return, and leave the loop's  *)
(* other variables typed.                                                  *)
LEMMA AnswerKeepsInv ==
  ASSUME ClockInv, NEW p \in Ports, NEW f \in Fds \ {FD_FAULT},
         NEW q \in PortRec, PortInv(q), Stays(port[p], q), NEW e \in QuietEvents,
         Answered(p, f, q, e), idx' \in Nat, sde' \in BOOLEAN
  PROVE  ClockInv' /\ Steady
<1>0. e \in RaisedEvents
  BY DEF QuietEvents
<1>1. /\ port' \in [Ports -> PortRec] /\ PortsInv'
      /\ revents' \in SUBSET Snapshot /\ phase' = "serve" /\ Served'
  BY <1>0, AnswerStep
<1>2. UNCHANGED <<cur, dds, newBest, best, bestId, fresh, parent>>
  BY DEF Answered, decision
<1>3. TypeOK'
  BY <1>1, <1>2 DEF ClockInv, TypeOK, Phases, Snapshot
<1>4. Computed'
  BY <1>1 DEF Computed
<1>5. Steady
  <2>1. PICK r \in PortRec : /\ Reasons(q, e, r)
                             /\ port'[p].state = r.state
                             /\ port'[p].best = r.best
    BY <1>0, AnswerStep
  <2>2. Stays(q, r)
    BY <2>1, QuietStays
  <2>3. Stays(port[p], port'[p])
    BY <2>1, <2>2 DEF Stays
  <2>4. \A i \in Ports \ {p} : port'[i] = port[i]
    BY <1>0, AnswerStep
  <2> QED BY <2>3, <2>4 DEF Steady, Stays
<1> QED BY <1>1, <1>3, <1>4, <1>5 DEF ClockInv

(* A port of the clock is a typed record that keeps the invariant.         *)
LEMMA PortTyped ==
  ASSUME ClockInv, NEW p \in Ports
  PROVE  port[p] \in PortRec /\ PortInv(port[p])
  BY DEF ClockInv, TypeOK, PortsInv

(* Setting a timer again on a port that is not faulty changes no duty.     *)
LEMMA Rearmed ==
  ASSUME NEW q \in PortRec, PortInv(q), q.state # "FAULTY", NEW t \in Timers
  PROVE  /\ [q EXCEPT !.armed = @ \cup {t}] \in PortRec
         /\ PortInv([q EXCEPT !.armed = @ \cup {t}])
         /\ [q EXCEPT !.armed = @ \cup {t}].state = q.state
         /\ [q EXCEPT !.armed = @ \cup {t}].best = q.best
<1> DEFINE r == [q EXCEPT !.armed = @ \cup {t}]
<1>1. /\ r \in PortRec /\ r.state = q.state /\ r.heard = q.heard
      /\ q.armed \subseteq r.armed /\ r.best = q.best
  BY DEF PortRec
<1> HIDE DEF r
<1>2. PortInv(r)
  BY <1>1, Handled DEF PortInv
<1> QED BY <1>1, <1>2 DEF r

(* Nor does clearing what is kept of a foreign master.                     *)
LEMMA Cleared ==
  ASSUME NEW q \in PortRec, PortInv(q), q.state # "FAULTY", NEW s \in Senders
  PROVE  /\ fc_clear(q, s) \in PortRec /\ PortInv(fc_clear(q, s))
         /\ fc_clear(q, s).state = q.state /\ fc_clear(q, s).best = q.best
<1> DEFINE g == [q.msgs EXCEPT ![s] = <<>>]
           r == [q EXCEPT !.msgs = g]
<1>1. g \in [Senders -> Seq(Announces)]
  <2>1. <<>> \in Seq(Announces) /\ q.msgs \in [Senders -> Seq(Announces)]
    BY DEF PortRec
  <2> QED BY <2>1
<1>2. fc_clear(q, s) = r
  BY DEF fc_clear
<1> HIDE DEF g
<1>3. /\ r \in PortRec /\ r.state = q.state /\ r.heard = q.heard
      /\ r.armed = q.armed /\ r.best = q.best
  BY <1>1 DEF PortRec
<1> HIDE DEF r
<1>4. PortInv(r)
  BY <1>3, Handled DEF PortInv
<1> QED BY <1>2, <1>3, <1>4

(* A fault type, or what a netlink message says, changes no duty.          *)
LEMMA Relabelled ==
  ASSUME NEW q \in PortRec, PortInv(q), NEW f \in FaultTypes,
         NEW up \in BOOLEAN, NEW flags \in SUBSET LinkFlags
  PROVE  LET r == [q EXCEPT !.linkUp = up, !.linkFlags = flags]
             s == [q EXCEPT !.lastFault = f]
         IN /\ r \in PortRec /\ PortInv(r) /\ r.state = q.state /\ r.best = q.best
            /\ s \in PortRec /\ PortInv(s) /\ s.state = q.state /\ s.best = q.best
<1> DEFINE r == [q EXCEPT !.linkUp = up, !.linkFlags = flags]
           s == [q EXCEPT !.lastFault = f]
<1>1. \A t \in {r, s} :
         /\ t \in PortRec /\ t.state = q.state /\ t.heard = q.heard
         /\ t.armed = q.armed /\ t.best = q.best /\ t.msgs = q.msgs
  BY DEF PortRec
<1> HIDE DEF r, s
<1>2. PortInv(r) /\ PortInv(s)
  BY <1>1 DEF PortInv, Timed, HoldsNothing
<1> QED BY <1>1, <1>2 DEF r, s

(* What poll(2) reports of a faulty port.                                  *)
LEMMA PollKeepsInv ==
  ASSUME ClockInv, Poll
  PROVE  ClockInv'
<1>1. PICK y \in [1 .. MaxReady -> Ready] :
        PollReturns({ y[i] : i \in 1 .. MaxReady })
  BY DEF Poll
<1>2. /\ phase = "poll" /\ phase' = "serve" /\ revents' \subseteq Ready
      /\ UNCHANGED <<port, cur, idx, sde, dds, newBest, best, bestId, fresh, parent>>
  BY <1>1 DEF PollReturns, decision
<1>3. revents' \in SUBSET Snapshot
  BY <1>2 DEF Ready, Snapshot
<1>4. TypeOK'
  BY <1>2, <1>3 DEF ClockInv, TypeOK, Phases, Snapshot
<1>5. ASSUME NEW p \in Ports, port[p].state = "FAULTY", NEW x \in revents',
             x[1] = p
      PROVE  x[2] \in LastFds
  <2>1. x \in Ports \X Fds /\ Readable(p, x[2])
    BY <1>2, <1>5, PortsAreNumbers DEF Ready, Uds
  <2>2. port[p].armed = {}
    BY <1>5 DEF ClockInv, PortsInv, PortInv, HoldsNothing
  <2>3. ~portIsEnabled(port[p].state)
    BY <1>5 DEF portIsEnabled, Down
  <2>4. ASSUME x[2] \in Sockets PROVE FALSE
    BY <2>1, <2>3, <2>4, FdsApart DEF Readable, LastFds
  <2>5. ASSUME x[2] \in TimerFds PROVE FALSE
    BY <2>1, <2>2, <2>5, FdsApart DEF Readable, LastFds
  <2> QED BY <2>1, <2>4, <2>5 DEF Fds, LastFds
<1>6. Served' /\ PortsInv' /\ Computed'
  BY <1>2, <1>5 DEF ClockInv, Served, PortsInv, Computed
<1> QED BY <1>4, <1>6 DEF ClockInv

(* The handlers of timers.                                                 *)
LEMMA TimersKeepInv ==
  ASSUME ClockInv, NEW p \in Ports, NEW f \in Fds,
         AnnounceTimeout(p, f) \/ TransmitTimeout(p, f) \/ QualificationTimeout(p)
  PROVE  ClockInv' /\ Steady
<1>1. port[p] \in PortRec /\ PortInv(port[p]) /\ idx \in Nat /\ sde \in BOOLEAN
  BY PortTyped DEF ClockInv, TypeOK
<1>2. CASE AnnounceTimeout(p, f)
  <2> DEFINE q == IF port[p].best = Null THEN port[p]
                  ELSE fc_clear(port[p], port[p].best)
             r == [q EXCEPT !.armed = @ \cup {"ANNOUNCE"}]
  <2>1. f \in Fds \ LastFds /\ f \in Fds \ {FD_FAULT} /\ Serving(p, f)
    BY <1>2 DEF AnnounceTimeout, LastFds, FD_ANNOUNCE, FD_SYNC_RX, FD_RTNL, FD_FAULT
  <2>2. port[p].state # "FAULTY"
    BY <2>1, ServedIsUp
  <2>3. /\ q \in PortRec /\ PortInv(q) /\ q.state # "FAULTY"
        /\ q.state = port[p].state /\ q.best = port[p].best
    <3>1. port[p].best \in Senders \cup {Null}
      BY <1>1 DEF PortRec
    <3> QED BY <1>1, <2>2, <3>1, Cleared
  <2> HIDE DEF q
  <2>4. r \in PortRec /\ PortInv(r) /\ Stays(port[p], r)
    BY <2>3, Rearmed DEF Timers, Stays
  <2> HIDE DEF r
  <2>5. /\ Answered(p, f, r, "ANNOUNCE_RECEIPT_TIMEOUT_EXPIRES")
           \/ Answered(p, f, r, "FAULT_DETECTED")
        /\ idx' = idx /\ sde' \in {TRUE, sde}
    BY <1>2 DEF AnnounceTimeout, q, r
  <2>6. {"ANNOUNCE_RECEIPT_TIMEOUT_EXPIRES", "FAULT_DETECTED"} \subseteq QuietEvents
    BY DEF QuietEvents, RaisedEvents, Events
  <2> QED BY <1>1, <2>1, <2>4, <2>5, <2>6, AnswerKeepsInv
<1>3. CASE TransmitTimeout(p, f)
  <2>1. f \in Fds \ LastFds /\ f \in Fds \ {FD_FAULT} /\ Serving(p, f)
        /\ TimerOf(f) \in Timers
    BY <1>3 DEF TransmitTimeout, LastFds, FD_DELAY, FD_MANNO, FD_SYNC_TX, FD_RTNL,
                FD_FAULT, FD_ANNOUNCE, FD_SYNC_RX, FD_QUALIFICATION, TimerOf, Timers
  <2>2. port[p].state # "FAULTY"
    BY <2>1, ServedIsUp
  <2> DEFINE r == [port[p] EXCEPT !.armed = @ \cup {TimerOf(f)}]
  <2>3. r \in PortRec /\ PortInv(r) /\ Stays(port[p], r)
    BY <1>1, <2>1, <2>2, Rearmed DEF Stays
  <2> HIDE DEF r
  <2>4. PICK e \in {"NONE", "FAULT_DETECTED"} : Answered(p, f, r, e)
    BY <1>3 DEF TransmitTimeout, r
  <2>5. e \in QuietEvents
    BY DEF QuietEvents, RaisedEvents, Events
  <2>6. idx' \in Nat /\ sde' \in BOOLEAN
    BY <1>1, <1>3 DEF TransmitTimeout
  <2> QED BY <2>1, <2>3, <2>4, <2>5, <2>6, AnswerKeepsInv
<1>4. CASE QualificationTimeout(p)
  <2>1. FD_QUALIFICATION \in Fds \ {FD_FAULT}
    BY DEF Fds, TimerFds, FD_QUALIFICATION, FD_FAULT, FD_DELAY, FD_SYNC_TX
  <2>2. /\ Answered(p, FD_QUALIFICATION, port[p], "QUALIFICATION_TIMEOUT_EXPIRES")
        /\ idx' \in Nat /\ sde' \in BOOLEAN
    BY <1>1, <1>4 DEF QualificationTimeout
  <2>3. "QUALIFICATION_TIMEOUT_EXPIRES" \in QuietEvents
    BY DEF QuietEvents, RaisedEvents, Events
  <2> QED BY <1>1, <2>1, <2>2, <2>3, AnswerKeepsInv DEF Stays
<1> QED BY <1>2, <1>3, <1>4

(* The handlers of messages.                                               *)
LEMMA MessagesKeepInv ==
  ASSUME ClockInv, NEW p \in Ports, NEW f \in Fds,
         ReceiveOther(p, f) \/ ReceiveAnnounce(p, f) \/ ReceiveSync(p, f)
  PROVE  ClockInv' /\ Steady
<1>1. port[p] \in PortRec /\ PortInv(port[p]) /\ idx \in Nat /\ sde \in BOOLEAN
  BY PortTyped DEF ClockInv, TypeOK
<1>2. Serving(p, f) /\ f \in Fds \ {FD_FAULT} /\ f \in Fds \ LastFds
  BY FdsApart DEF ReceiveOther, ReceiveAnnounce, ReceiveSync, LastFds
<1>3. port[p].state # "FAULTY"
  BY <1>2, ServedIsUp
<1>4. CASE ReceiveOther(p, f)
  <2> DEFINE b == [port[p] EXCEPT !.lastFault = "BAD_PEER_NETWORK"]
  <2>1. b \in PortRec /\ PortInv(b) /\ Stays(port[p], b)
    BY <1>1, Relabelled DEF FaultTypes, Stays
  <2> HIDE DEF b
  <2>2. \/ Answered(p, f, port[p], "NONE")
        \/ Answered(p, f, port[p], "FAULT_DETECTED")
        \/ Answered(p, f, b, "FAULT_DETECTED")
    BY <1>4 DEF ReceiveOther, b
  <2>3. {"NONE", "FAULT_DETECTED"} \subseteq QuietEvents
    BY DEF QuietEvents, RaisedEvents, Events
  <2>4. idx' \in Nat /\ sde' \in BOOLEAN
    BY <1>1, <1>4 DEF ReceiveOther
  <2>5. Stays(port[p], port[p])
    BY DEF Stays
  <2> QED BY <1>1, <1>2, <2>1, <2>2, <2>3, <2>4, <2>5, AnswerKeepsInv
<1>5. CASE ReceiveAnnounce(p, f)
  <2>0. PICK m \in Hears[p] :
          \E k \in Prunings(port[p].msgs[m.sender]) :
            LET a == portMsgProAnnounce(port[p], m, k)
            IN /\ Answered(p, f, a.port,
                           IF a.diff THEN "STATE_DECISION_EVENT" ELSE "NONE")
               /\ sde' = (sde \/ a.diff)
    BY <1>5 DEF ReceiveAnnounce
  <2>1. PICK k \in Prunings(port[p].msgs[m.sender]) :
          LET a == portMsgProAnnounce(port[p], m, k)
          IN /\ Answered(p, f, a.port,
                         IF a.diff THEN "STATE_DECISION_EVENT" ELSE "NONE")
             /\ sde' = (sde \/ a.diff)
    BY <2>0
  <2>2. m \in Announces
    <3>1. Hears \in [Ports -> SUBSET Announces]
      BY ClockConfig
    <3> QED BY <3>1
  <2> DEFINE a == portMsgProAnnounce(port[p], m, k)
             e == IF a.diff THEN "STATE_DECISION_EVENT" ELSE "NONE"
  <2>3. /\ a.diff \in BOOLEAN /\ a.port \in PortRec
        /\ a.port.state = port[p].state /\ a.port.best = port[p].best
        /\ port[p].armed \subseteq a.port.armed
        /\ Distinct(port[p].heard) => Distinct(a.port.heard)
    BY <1>1, <2>2, Announced
  <2>4. PortInv(a.port) /\ Stays(port[p], a.port)
    BY <1>1, <1>3, <2>3, Handled DEF PortInv, Stays
  <2>5. Answered(p, f, a.port, e) /\ sde' = (sde \/ a.diff) /\ idx' = idx
    BY <1>5, <2>1 DEF ReceiveAnnounce
  <2>6. e \in QuietEvents
    BY DEF QuietEvents, RaisedEvents, Events
  <2> HIDE DEF e, a
  <2>7. sde' \in BOOLEAN
    BY <1>1, <2>3, <2>5
  <2> QED BY <1>1, <1>2, <2>3, <2>4, <2>5, <2>6, <2>7, AnswerKeepsInv
<1>6. CASE ReceiveSync(p, f)
  <2> DEFINE q == IF SyncTimeout THEN [port[p] EXCEPT !.armed = @ \cup {"SYNC_RX"}]
                  ELSE port[p]
  <2>1. q \in PortRec /\ PortInv(q) /\ Stays(port[p], q)
    BY <1>1, <1>3, Rearmed DEF Timers, Stays
  <2> HIDE DEF q
  <2>0. PICK e \in {"SYNCHRONIZATION_FAULT", "MASTER_CLOCK_SELECTED"} :
          \E r \in Dispatched(q, e, FALSE) : Answered(p, f, r, "NONE")
    BY <1>6 DEF ReceiveSync, q
  <2>2. PICK r \in Dispatched(q, e, FALSE) : Answered(p, f, r, "NONE")
    BY <2>0
  <2>3. e \in RaisedEvents /\ e \in QuietEvents /\ "NONE" \in QuietEvents
    BY DEF QuietEvents, RaisedEvents, Events
  <2>4. PortInv(r) /\ r \in PortRec /\ Stays(port[p], r)
    <3>1. PortInv(r) /\ Reasons(q, e, r)
      BY <2>1, <2>3, DispatchOutcome
    <3> QED BY <2>1, <2>3, <3>1, QuietStays DEF PortInv, Stays
  <2>5. idx' \in Nat /\ sde' \in BOOLEAN
    BY <1>1, <1>6 DEF ReceiveSync
  <2> QED BY <1>2, <2>2, <2>3, <2>4, <2>5, AnswerKeepsInv
<1> QED BY <1>4, <1>5, <1>6

(* A dispatch on port p that touches nothing else of a settled clock.      *)
LEMMA PortMoves ==
  ASSUME ClockInv, NEW p \in Ports, NEW r \in PortRec, PortInv(r),
         port' = [port EXCEPT ![p] = r]
  PROVE  /\ port' \in [Ports -> PortRec] /\ PortsInv'
         /\ port'[p] = r /\ \A i \in Ports \ {p} : port'[i] = port[i]
<1>1. port \in [Ports -> PortRec]
  BY DEF ClockInv, TypeOK
<1> QED BY <1>1 DEF ClockInv, PortsInv

(* The fault timer, after which nothing of the port is left to be served.  *)
LEMMA FaultTimerKeepsInv ==
  ASSUME ClockInv, NEW p \in Ports, FaultTimerExpires(p)
  PROVE  ClockInv' /\ Steady
<1> DEFINE q == [port[p] EXCEPT !.faultTimer = FALSE]
<1>1. q \in PortRec /\ PortInv(q) /\ Stays(port[p], q)
  <2>1. port[p] \in PortRec /\ PortInv(port[p])
    BY PortTyped
  <2>2. /\ q \in PortRec /\ q.state = port[p].state /\ q.armed = port[p].armed
        /\ q.heard = port[p].heard /\ q.msgs = port[p].msgs
        /\ q.best = port[p].best
    BY <2>1 DEF PortRec
  <2> HIDE DEF q
  <2> QED BY <2>1, <2>2 DEF PortInv, Timed, HoldsNothing, Stays
<1> HIDE DEF q
<1>2. PICK r \in Dispatched(q, "FAULT_CLEARED", FALSE) \cup {q} :
        port' = [port EXCEPT ![p] = r]
  BY DEF FaultTimerExpires, q
<1>3. r \in PortRec /\ PortInv(r) /\ Stays(port[p], r)
  <2>1. "FAULT_CLEARED" \in RaisedEvents /\ "FAULT_CLEARED" \in QuietEvents
    BY DEF QuietEvents, RaisedEvents, Events
  <2>2. CASE r = q
    BY <1>1, <2>2
  <2>3. CASE r # q
    <3>1. PortInv(r) /\ Reasons(q, "FAULT_CLEARED", r)
      BY <1>1, <1>2, <2>1, <2>3, DispatchOutcome
    <3>2. Stays(q, r)
      BY <2>1, <3>1, QuietStays
    <3> QED BY <1>1, <3>1, <3>2 DEF PortInv, Stays
  <2> QED BY <2>2, <2>3
<1>4. /\ port' \in [Ports -> PortRec] /\ PortsInv' /\ port'[p] = r
      /\ \A i \in Ports \ {p} : port'[i] = port[i]
  BY <1>2, <1>3, PortMoves
<1>5. /\ revents' = revents \ {<< p, FD_FAULT >>} /\ Serving(p, FD_FAULT)
      /\ phase = "serve" /\ phase' = "serve"
      /\ UNCHANGED <<cur, idx, sde, dds, newBest, best, bestId, fresh, parent>>
  BY DEF FaultTimerExpires, Serving, decision
<1>6. TypeOK'
  BY <1>4, <1>5 DEF ClockInv, TypeOK, Phases
<1>7. \A x \in revents' : x[1] # p
  <2> SUFFICES ASSUME NEW x \in revents', x[1] = p PROVE FALSE
    OBVIOUS
  <2>1. x \in revents /\ x \in Ports \X Fds
    BY <1>5, PortsAreNumbers DEF ClockInv, TypeOK, Uds
  <2>2. x[2] \in Fds /\ x = << p, x[2] >>
    BY <2>1
  <2>3. FD_FAULT <= x[2]
    BY <1>5, <2>1, PortsAreNumbers DEF Serving
  <2>4. x[2] = FD_FAULT
    BY <2>2, <2>3 DEF Fds, Sockets, TimerFds, FD_EVENT, FD_GENERAL, FD_DELAY,
                      FD_SYNC_TX, FD_RTNL, FD_FAULT
  <2> QED BY <1>5, <2>2, <2>4
<1>8. Served'
  BY <1>4, <1>5, <1>7 DEF ClockInv, Served
<1>9. Computed'
  BY <1>5 DEF Computed
<1>10. Steady
  BY <1>3, <1>4 DEF Steady, Stays
<1> QED BY <1>4, <1>6, <1>8, <1>9, <1>10 DEF ClockInv

(* The netlink descriptor: opening the batch, its messages, its end.       *)
LEMMA RtnlKeepsInv ==
  ASSUME ClockInv, NEW p \in Ports,
         RtnlRead(p) \/ port_link_status(p) \/ RtnlDone(p)
  PROVE  ClockInv' /\ Steady
<1>1. port[p] \in PortRec /\ PortInv(port[p]) /\ idx \in Nat /\ sde \in BOOLEAN
  BY PortTyped DEF ClockInv, TypeOK
<1>2. CASE RtnlRead(p)
  <2>1. /\ phase = "serve" /\ phase' = "rtnl" /\ cur' = p /\ idx' = 0
        /\ Serving(p, FD_RTNL)
        /\ UNCHANGED <<port, revents, sde, dds, newBest, best, bestId, fresh, parent>>
    BY <1>2 DEF RtnlRead, Serving, decision
  <2>2. ASSUME NEW x \in revents, x[1] = p
        PROVE  x[2] \in LastFds
    <3>1. x \in Ports \X Fds
      BY <2>2, PortsAreNumbers DEF ClockInv, TypeOK, Uds
    <3>2. x[2] \in Fds /\ FD_RTNL <= x[2]
      BY <2>1, <2>2, <3>1, PortsAreNumbers DEF Serving
    <3> QED BY <3>2 DEF LastFds, Fds, Sockets, TimerFds, FD_EVENT, FD_GENERAL,
                        FD_DELAY, FD_SYNC_TX, FD_RTNL, FD_FAULT
  <2>3. TypeOK'
    BY <2>1 DEF ClockInv, TypeOK, Phases
  <2>4. Served' /\ PortsInv' /\ Computed'
    BY <2>1, <2>2 DEF ClockInv, Served, PortsInv, Computed
  <2>5. Steady
    BY <2>1 DEF Steady, Stays
  <2> QED BY <2>3, <2>4, <2>5 DEF ClockInv
<1>3. CASE port_link_status(p)
  <2>1. PICK up \in BOOLEAN, relabelled \in BOOLEAN :
          LET r == LinkMessage(port[p], up, relabelled)
          IN \E phc \in PhcOutcomes(r) :
               LET s == IF phc = "modes"
                        THEN [r EXCEPT !.linkUp = FALSE, !.linkFlags = {"CHANGED"}]
                        ELSE r
               IN \E t \in IF phc = "failed"
                            THEN Dispatched([s EXCEPT !.lastFault = "SWITCH_PHC"],
                                            "FAULT_DETECTED", FALSE)
                            ELSE {s} :
                    port' = [port EXCEPT ![p] = t]
    BY <1>3 DEF port_link_status
  <2> DEFINE flags == (IF port[p].linkUp = up THEN {} ELSE {"CHANGED"})
                      \cup (IF relabelled THEN {"TS_LABEL"} ELSE {})
             r == [port[p] EXCEPT !.linkUp = up, !.linkFlags = flags]
             u == [r EXCEPT !.linkUp = FALSE, !.linkFlags = {"CHANGED"}]
  <2>2. LinkMessage(port[p], up, relabelled) = r
    BY DEF LinkMessage
  <2>3. flags \in SUBSET LinkFlags /\ "SWITCH_PHC" \in FaultTypes
    BY DEF LinkFlags, FaultTypes
  <2> HIDE DEF flags
  <2>4. r \in PortRec /\ PortInv(r) /\ Stays(port[p], r)
    <3>1. r \in PortRec /\ PortInv(r)
      BY <1>1, <2>3, Relabelled
    <3>2. r.state = port[p].state /\ r.best = port[p].best
      BY <1>1 DEF PortRec
    <3> HIDE DEF r
    <3> QED BY <3>1, <3>2 DEF Stays
  <2> HIDE DEF r
  <2>5. u \in PortRec /\ PortInv(u) /\ Stays(port[p], u)
    BY <2>3, <2>4, Relabelled DEF LinkFlags, Stays
  <2> HIDE DEF u
  <2>6. PICK s \in {r, u} :
          \/ port' = [port EXCEPT ![p] = s]
          \/ \E t \in Dispatched([s EXCEPT !.lastFault = "SWITCH_PHC"],
                                 "FAULT_DETECTED", FALSE) :
               port' = [port EXCEPT ![p] = t]
    BY <2>1, <2>2 DEF u
  <2>7. PICK t \in PortRec : /\ PortInv(t) /\ Stays(port[p], t)
                             /\ port' = [port EXCEPT ![p] = t]
    <3> DEFINE w == [s EXCEPT !.lastFault = "SWITCH_PHC"]
    <3>1. s \in PortRec /\ PortInv(s) /\ Stays(port[p], s)
      BY <2>4, <2>5
    <3>2. w \in PortRec /\ PortInv(w) /\ Stays(port[p], w)
      BY <2>3, <3>1, Relabelled DEF Stays
    <3>3. "FAULT_DETECTED" \in RaisedEvents /\ "FAULT_DETECTED" \in QuietEvents
      BY DEF QuietEvents, RaisedEvents, Events
    <3> HIDE DEF w
    <3>4. \A t \in Dispatched(w, "FAULT_DETECTED", FALSE) :
             t \in PortRec /\ PortInv(t) /\ Stays(port[p], t)
      <4> SUFFICES ASSUME NEW t \in Dispatched(w, "FAULT_DETECTED", FALSE)
                   PROVE  t \in PortRec /\ PortInv(t) /\ Stays(port[p], t)
        OBVIOUS
      <4>1. PortInv(t) /\ Reasons(w, "FAULT_DETECTED", t)
        BY <3>2, <3>3, DispatchOutcome
      <4>2. Stays(w, t)
        BY <3>3, <4>1, QuietStays
      <4> QED BY <3>2, <4>1, <4>2 DEF PortInv, Stays
    <3> QED BY <2>6, <3>1, <3>4 DEF w
  <2>8. /\ port' \in [Ports -> PortRec] /\ PortsInv' /\ port'[p] = t
        /\ \A i \in Ports \ {p} : port'[i] = port[i]
    BY <2>7, PortMoves
  <2>9. /\ phase = "rtnl" /\ cur = p /\ idx' = idx + 1 /\ sde' \in BOOLEAN
        /\ UNCHANGED <<phase, revents, cur, dds, newBest, best, bestId, fresh, parent>>
    <3>1. /\ phase = "rtnl" /\ cur = p /\ idx' = idx + 1
          /\ UNCHANGED <<phase, revents, cur, dds, newBest, best, bestId, fresh, parent>>
      BY <1>3 DEF port_link_status, decision
    <3>2. \E b : sde' = (sde \/ b)
      BY <1>3 DEF port_link_status
    <3>3. sde' \in BOOLEAN
      BY <3>2
    <3> QED BY <3>1, <3>3
  <2>10. TypeOK'
    BY <1>1, <2>8, <2>9 DEF ClockInv, TypeOK
  <2>11. Served' /\ Computed'
    BY <2>8, <2>9 DEF ClockInv, Served, Computed
  <2>12. Steady
    BY <2>7, <2>8 DEF Steady, Stays
  <2> QED BY <2>8, <2>10, <2>11, <2>12 DEF ClockInv
<1>4. CASE RtnlDone(p)
  <2>1. /\ Answered(p, FD_RTNL, port[p], RtnlEvent(port[p]))
        /\ idx' \in Nat /\ sde' \in BOOLEAN
    BY <1>1, <1>4 DEF RtnlDone
  <2>2. RtnlEvent(port[p]) \in QuietEvents
    BY DEF RtnlEvent, QuietEvents, RaisedEvents, Events
  <2>3. FD_RTNL \in Fds \ {FD_FAULT}
    BY DEF Fds, FD_RTNL, FD_FAULT
  <2>4. Stays(port[p], port[p])
    BY DEF Stays
  <2> QED BY <1>1, <2>1, <2>2, <2>3, <2>4, AnswerKeepsInv
<1> QED BY <1>2, <1>3, <1>4

(* Management and the end of a pass.                                       *)
LEMMA PassKeepsInv ==
  ASSUME ClockInv, Manage \/ EndPass
  PROVE  ClockInv'
<1>1. CASE Manage
  <2>1. /\ phase = "serve" /\ revents' = {} /\ dds' \in DefaultDs /\ sde' \in BOOLEAN
        /\ UNCHANGED <<port, phase, cur, idx, newBest, best, bestId, fresh, parent>>
    BY <1>1 DEF Manage, decision, ClockInv, TypeOK
  <2>2. TypeOK'
    BY <2>1 DEF ClockInv, TypeOK
  <2>3. Served' /\ PortsInv' /\ Computed'
    BY <2>1 DEF ClockInv, Served, PortsInv, Computed
  <2> QED BY <2>2, <2>3 DEF ClockInv
<1>2. CASE EndPass
  <2>1. /\ revents = {} /\ phase' \in {"compute", "poll"} /\ cur' = 1 /\ idx' = 0
        /\ newBest' \in {Null, newBest}
        /\ UNCHANGED <<port, revents, sde, dds, best, bestId, fresh, parent>>
    BY <1>2 DEF EndPass
  <2>2. TypeOK'
    BY <2>1, PortsAreNumbers DEF ClockInv, TypeOK, Phases, ForeignBest
  <2>3. Served' /\ PortsInv' /\ Computed'
    BY <2>1 DEF ClockInv, Served, PortsInv, Computed
  <2> QED BY <2>2, <2>3 DEF ClockInv
<1> QED BY <1>1, <1>2

(* A port's best makes a dataset.                                          *)
LEMMA DatasetTyped ==
  ASSUME NEW q \in PortRec, NEW i \in Int, HasDataset(q, i), q.best # Null,
         NEW id \in Nat, NEW p \in UInt16
  PROVE  PORT_BEST_FOREIGN_DS(q, id, p) \in DataSet
<1>1. q.best \in Senders /\ q.msgs \in [Senders -> Seq(Announces)]
  BY DEF PortRec
<1>2. q.msgs[q.best] \in Seq(Announces) /\ q.msgs[q.best] # <<>>
  BY <1>1 DEF HasDataset
<1> DEFINE m == q.msgs[q.best][1]
<1>3. m \in Announces
  BY <1>2
<1> HIDE DEF m
<1>4. m \in AnnounceMsg
  BY <1>3, PortConfig
<1>5. PORT_BEST_FOREIGN_DS(q, id, p) = announce_to_dataset(m, id, p)
  BY DEF PORT_BEST_FOREIGN_DS, m
<1>6. [clockIdentity |-> id, portNumber |-> p] \in PortIdentity
  BY DEF PortIdentity
<1> QED BY <1>4, <1>5, <1>6 DEF announce_to_dataset, AnnounceMsg, DataSet

(* The clock's own identity is a number.                                   *)
LEMMA IdentityTyped ==
  ASSUME TypeOK
  PROVE  clockIdentity \in Nat /\ dds \in DataSet
<1>1. dds \in DataSet
  BY ClockConfig DEF TypeOK
<1> QED BY <1>1 DEF clockIdentity, DataSet

(* The rounds of handle_state_decision_event's first loop.                 *)
LEMMA ComputeKeepsInv ==
  ASSUME ClockInv, NEW p \in Ports,
         ComputeBest(p) \/ ComputeBestRound(p) \/ ComputeBestDone(p)
  PROVE  ClockInv'
<1>1. port[p] \in PortRec /\ PortInv(port[p]) /\ idx \in Nat /\ sde \in BOOLEAN
  BY PortTyped DEF ClockInv, TypeOK
<1>2. phase = "compute" /\ cur = p /\ revents = {}
  BY DEF ComputeBest, ComputeBestRound, ComputeBestDone, ClockInv, Served
<1>3. CASE ComputeBest(p)
  <2> DEFINE r == [port[p] EXCEPT !.best = Null]
  <2>1. /\ r \in PortRec /\ r.state = port[p].state /\ r.armed = port[p].armed
        /\ r.heard = port[p].heard /\ r.msgs = port[p].msgs /\ r.best = Null
    BY <1>1 DEF PortRec
  <2>2. port' = [port EXCEPT ![p] = r]
    BY <1>3 DEF ComputeBest
  <2> HIDE DEF r
  <2>3. PortInv(r)
    BY <1>1, <2>1 DEF PortInv, Timed, HoldsNothing
  <2>4. /\ port' \in [Ports -> PortRec] /\ PortsInv' /\ port'[p] = r
        /\ \A i \in Ports \ {p} : port'[i] = port[i]
    BY <2>1, <2>2, <2>3, PortMoves
  <2>5. /\ idx' \in Nat
        /\ UNCHANGED <<phase, revents, cur, sde, dds, newBest, best, bestId, fresh, parent>>
    <3>1. Len(port[p].heard) \in Nat
      BY <1>1 DEF PortRec
    <3> QED BY <1>3, <3>1 DEF ComputeBest, decision
  <2>6. TypeOK'
    BY <2>4, <2>5 DEF ClockInv, TypeOK
  <2>7. Served'
    BY <1>2, <2>4, <2>5 DEF Served
  <2>8. Computed'
    BY <1>2, <2>1, <2>4, <2>5 DEF Computed, HasDataset
  <2> QED BY <2>4, <2>6, <2>7, <2>8 DEF ClockInv
<1>4. CASE ComputeBestRound(p)
  <2>1. PICK k \in Prunings(port[p].msgs[port[p].heard[idx]]) :
          port' = [port EXCEPT ![p] =
            computeBestStep(@, port[p].heard[idx], k, clockIdentity, p)]
    BY <1>4 DEF ComputeBestRound
  <2>2. idx \in 1 .. Len(port[p].heard)
    BY <1>4 DEF ComputeBestRound
  <2>3. HasDataset(port[p], idx - 1)
    BY <1>2, <2>2 DEF ClockInv, Computed
  <2> DEFINE r == computeBestStep(port[p], port[p].heard[idx], k, clockIdentity, p)
  <2>4. PortInv(r) /\ HasDataset(r, idx)
    <3> DEFINE q == port[p]
               h == q.heard[idx]
               c == clockIdentity
    <3>1. /\ q \in PortRec /\ PortInv(q) /\ idx \in 1 .. Len(q.heard)
          /\ HasDataset(q, idx - 1) /\ h = q.heard[idx] /\ k \in Prunings(q.msgs[h])
          /\ r = computeBestStep(q, h, k, c, p)
      BY <1>1, <2>2, <2>3
    <3> HIDE DEF q, h, c, r
    <3>2. PortInv(r) /\ HasDataset(r, idx)
      BY <3>1, BestStep
    <3> QED BY <3>2
  <2> HIDE DEF r
  <2>5. port' = [port EXCEPT ![p] = r]
    BY <2>1 DEF r
  <2>6. /\ port' \in [Ports -> PortRec] /\ PortsInv' /\ port'[p] = r
        /\ \A i \in Ports \ {p} : port'[i] = port[i]
    BY <2>4, <2>5, PortMoves DEF PortInv
  <2>7. /\ idx' = idx + 1
        /\ UNCHANGED <<phase, revents, cur, sde, dds, newBest, best, bestId, fresh, parent>>
    BY <1>4 DEF ComputeBestRound, decision
  <2>8. TypeOK'
    BY <1>1, <2>6, <2>7 DEF ClockInv, TypeOK
  <2>9. Served'
    BY <1>2, <2>6, <2>7 DEF Served
  <2>10. Computed'
    <3>1. idx' - 1 = idx
      BY <1>1, <2>7
    <3> QED BY <1>2, <2>4, <2>6, <2>7, <3>1 DEF Computed
  <2> QED BY <2>6, <2>8, <2>9, <2>10 DEF ClockInv
<1>5. CASE ComputeBestDone(p)
  <2>1. /\ newBest' = Candidate(p) /\ idx' = 0
        /\ \/ /\ p < N /\ cur' = p + 1
              /\ UNCHANGED <<phase, best, bestId, fresh>>
           \/ /\ p = N /\ best' = newBest'
              /\ bestId' = (IF best' = Null THEN clockIdentity
                            ELSE best'.ds.identity)
              /\ fresh' = (bestId' # bestId)
              /\ cur' = 1 /\ phase' = "decide"
        /\ UNCHANGED <<port, revents, sde, dds, parent>>
        /\ idx > Len(port[p].heard)
    BY <1>5 DEF ComputeBestDone
  <2>2. newBest' \in ForeignBest
    <3>1. Len(port[p].heard) \in Nat /\ port[p].best \in Senders \cup {Null}
      BY <1>1 DEF PortRec
    <3>2. idx >= 1 /\ HasDataset(port[p], idx - 1)
      BY <1>1, <1>2, <2>1, <3>1 DEF ClockInv, Computed
    <3>3. port[p].best # Null => PortBestDs(p) \in DataSet
      BY <1>1, <3>2, DatasetTyped, IdentityTyped, PortsAreNumbers
         DEF PortBestDs, ClockInv
    <3>4. newBest \in ForeignBest
      BY DEF ClockInv, TypeOK
    <3> QED BY <2>1, <3>1, <3>3, <3>4 DEF Candidate, ForeignBest
  <2>3. /\ cur' \in Ports /\ phase' \in Phases /\ best' \in ForeignBest
        /\ bestId' \in Nat /\ fresh' \in BOOLEAN
    <3>1. CASE p < N
      <4>1. p + 1 \in Ports
        BY <3>1, PortsAreNumbers DEF Ports
      <4>2. p # N
        BY <3>1, PortsAreNumbers
      <4> QED BY <2>1, <4>1, <4>2 DEF ClockInv, TypeOK
    <3>2. CASE ~(p < N)
      <4>1. best' # Null => best'.ds \in DataSet
        BY <2>1, <2>2, <3>2 DEF ForeignBest
      <4>2. best' # Null => best'.ds.identity \in Nat
        BY <4>1 DEF DataSet
      <4>3. bestId' \in Nat
        BY <2>1, <3>2, <4>2, IdentityTyped DEF ClockInv
      <4> QED BY <2>1, <2>2, <3>2, <4>3, PortsAreNumbers DEF Phases
    <3> QED BY <3>1, <3>2
  <2>4. TypeOK'
    BY <2>1, <2>2, <2>3 DEF ClockInv, TypeOK
  <2>5. Served' /\ PortsInv' /\ Computed'
    BY <1>2, <2>1 DEF ClockInv, Served, PortsInv, Computed
  <2> QED BY <2>4, <2>5 DEF ClockInv
<1> QED BY <1>3, <1>4, <1>5

(* A recommendation names a role, and only the best port is to be a slave. *)
LEMMA RecommendedRole ==
  ASSUME NEW p \in Ports
  PROVE  /\ Recommended(p) \in Roles
         /\ EventOf(Recommended(p)) \in RaisedEvents
         /\ Recommended(p) = "SLAVE" => best # Null /\ best.port = p
<1>1. /\ Recommended(p) \in Roles
      /\ Recommended(p) = "SLAVE" => best # Null /\ best.port = p
  BY DEF Recommended, StateDecision, Roles
<1>2. \A role \in Roles : EventOf(role) \in RaisedEvents
  BY DEF Roles, EventOf, RaisedEvents, Events
<1> QED BY <1>1, <1>2

(* The parent is a port identity with a grandmaster.                       *)
LEMMA ParentTyped ==
  ASSUME TypeOK, NEW p \in Ports
  PROVE  /\ ParentSelf \in [id : PortIdentity, gm : Nat]
         /\ UpdatedParent(Recommended(p)) \in [id : PortIdentity, gm : Nat]
<1>1. ParentSelf \in [id : PortIdentity, gm : Nat]
  <2>1. 0 \in UInt16
    BY DEF UInt16
  <2>2. clockIdentity \in Nat
    BY IdentityTyped
  <2> HIDE DEF clockIdentity
  <2> QED BY <2>1, <2>2 DEF ParentSelf, PortIdentity
<1>2. CASE Recommended(p) = "SLAVE"
  <2>1. best \in [port : Ports, sender : Senders, ds : DataSet]
    BY <1>2, RecommendedRole DEF TypeOK, ForeignBest
  <2>2. best.sender \in PortIdentity /\ best.ds \in DataSet
    BY <2>1, SendersTyped
  <2>3. best.ds.identity \in Nat
    BY <2>2 DEF DataSet
  <2>4. UpdatedParent(Recommended(p)) = [id |-> best.sender, gm |-> best.ds.identity]
    BY <1>2 DEF UpdatedParent
  <2> QED BY <1>1, <2>2, <2>3, <2>4
<1>3. CASE Recommended(p) # "SLAVE"
  <2>1. UpdatedParent(Recommended(p)) \in {ParentSelf, parent}
    BY <1>3 DEF UpdatedParent
  <2> QED BY <1>1, <2>1 DEF TypeOK
<1> QED BY <1>1, <1>2, <1>3

(* The rounds of the second loop.                                          *)
LEMMA DecideKeepsInv ==
  ASSUME ClockInv, NEW p \in Ports, Decide(p)
  PROVE  ClockInv'
<1>1. PICK r \in Dispatched(port[p], EventOf(Recommended(p)), fresh) :
        port' = [port EXCEPT ![p] = r]
  BY DEF Decide
<1>2. PortInv(r) /\ r \in PortRec
  <2>1. fresh \in BOOLEAN
    BY DEF ClockInv, TypeOK
  <2> QED BY <1>1, <2>1, PortTyped, RecommendedRole, DispatchOutcome DEF PortInv
<1>3. /\ port' \in [Ports -> PortRec] /\ PortsInv' /\ port'[p] = r
      /\ \A i \in Ports \ {p} : port'[i] = port[i]
  BY <1>1, <1>2, PortMoves
<1>4. /\ phase = "decide" /\ cur = p /\ parent' = UpdatedParent(Recommended(p))
      /\ \/ p < N /\ cur' = p + 1 /\ UNCHANGED <<phase, sde>>
         \/ cur' = 1 /\ phase' = "poll" /\ sde' = FALSE
      /\ UNCHANGED <<revents, idx, dds, newBest, best, bestId, fresh>>
  BY DEF Decide
<1>5. cur' \in Ports /\ phase' \in {"decide", "poll"} /\ sde' \in BOOLEAN
  <2>1. p < N => p + 1 \in Ports
    BY PortsAreNumbers DEF Ports
  <2> QED BY <1>4, <2>1, PortsAreNumbers DEF ClockInv, TypeOK
<1>6. parent' \in [id : PortIdentity, gm : Nat]
  BY <1>4, ParentTyped DEF ClockInv
<1>7. TypeOK'
  BY <1>3, <1>4, <1>5, <1>6 DEF ClockInv, TypeOK, Phases
<1>8. Served' /\ Computed'
  BY <1>4, <1>5 DEF ClockInv, Served, Computed
<1> QED BY <1>3, <1>7, <1>8 DEF ClockInv

----------------------------------------------------------------------------
(* The invariant and what follows from it.                                 *)

(* Every port starts in LISTENING, or FAULTY with nothing held.            *)
LEMMA InitEstablishesInv == Init => ClockInv
<1> SUFFICES ASSUME Init PROVE ClockInv
  OBVIOUS
<1>1. \A p \in Ports : port[p] \in PortRec /\ PortInv(port[p])
  <2> SUFFICES ASSUME NEW p \in Ports
               PROVE  port[p] \in PortRec /\ PortInv(port[p])
    OBVIOUS
  <2>1. port[p] \in Dispatched(Created, "INITIALIZE", FALSE)
    BY DEF Init
  <2> QED BY <2>1, CreatedOutcome DEF PortInv
<1>2. port \in [Ports -> PortRec]
  <2>1. port \in [Ports -> Dispatched(Created, "INITIALIZE", FALSE)]
    BY DEF Init
  <2> QED BY <1>1, <2>1
<1>3. /\ phase = "poll" /\ revents = {} /\ cur = 1 /\ idx = 0
      /\ sde = FALSE /\ dds \in DefaultDs
      /\ newBest = Null /\ best = Null /\ bestId = 0 /\ fresh = FALSE
  BY DEF Init
<1>4. parent \in [id : PortIdentity, gm : Nat]
  <2>1. dds \in DataSet
    BY <1>3, ClockConfig
  <2>2. clockIdentity \in Nat
    BY <2>1 DEF clockIdentity, DataSet
  <2>3. 0 \in UInt16
    BY DEF UInt16
  <2> HIDE DEF clockIdentity
  <2>4. parent = ParentSelf
    BY DEF Init
  <2> QED BY <2>2, <2>3, <2>4 DEF ParentSelf, PortIdentity
<1>5. TypeOK
  BY <1>2, <1>3, <1>4, PortsAreNumbers DEF TypeOK, Phases, ForeignBest
<1>6. PortsInv /\ Served /\ Computed
  BY <1>1, <1>3 DEF PortsInv, Served, Computed
<1> QED BY <1>5, <1>6 DEF ClockInv

(* The step of the induction, action by action.                            *)
LEMMA NextKeepsInv == ClockInv /\ [Next]_vars => ClockInv'
<1> SUFFICES ASSUME ClockInv, [Next]_vars PROVE ClockInv'
  OBVIOUS
<1>1. CASE Poll
  BY <1>1, PollKeepsInv
<1>2. CASE Serve
  <2>1. PICK p \in Ports :
          \/ \E f \in Fds : \/ AnnounceTimeout(p, f) \/ TransmitTimeout(p, f)
                            \/ ReceiveOther(p, f) \/ ReceiveAnnounce(p, f)
                            \/ ReceiveSync(p, f)
          \/ QualificationTimeout(p) \/ FaultTimerExpires(p)
          \/ RtnlRead(p) \/ port_link_status(p) \/ RtnlDone(p)
    BY <1>2 DEF Serve
  <2>2. FD_DELAY \in Fds
    BY DEF Fds, TimerFds, FD_DELAY, FD_SYNC_TX
  <2> QED BY <2>1, <2>2, TimersKeepInv, MessagesKeepInv, FaultTimerKeepsInv,
             RtnlKeepsInv
<1>3. CASE Manage \/ EndPass
  BY <1>3, PassKeepsInv
<1>4. CASE StateDecisionEvent
  BY <1>4, ComputeKeepsInv, DecideKeepsInv DEF StateDecisionEvent
<1>5. CASE UNCHANGED vars
  <2>1. UNCHANGED <<port, phase, revents, cur, idx, sde, dds, newBest, best,
                    bestId, fresh, parent>>
    BY <1>5 DEF vars, loop, decision
  <2> QED BY <2>1 DEF ClockInv, TypeOK, PortsInv, Served, Computed
<1> QED BY <1>1, <1>2, <1>3, <1>4, <1>5 DEF Next

(* ClockInv is an invariant.                                               *)
LEMMA ClockInvariant == Spec => []ClockInv
  BY InitEstablishesInv, NextKeepsInv, PTL DEF Spec

(* The variables of clock_poll and handle_state_decision_event keep their  *)
(* types: in particular a dataset is only ever made of a message that is   *)
(* there (PORT_BEST_FOREIGN_DS).                                           *)
THEOREM ClockTypeCorrect == Spec => []TypeOK
<1>1. ClockInv => TypeOK
  BY DEF ClockInv
<1> QED BY <1>1, ClockInvariant, PTL

(* In every state it can be in, a port keeps the timer armed that ends its *)
(* wait, through stale descriptors, faults in any handler and restarts.    *)
THEOREM PortsNeverDeaf == Spec => []NeverDeaf
<1>1. ClockInv => NeverDeaf
  BY DEF ClockInv, PortsInv, PortInv, Timed, Required, NeverDeaf, Listeners,
         Slaving, Mastering
<1> QED BY <1>1, ClockInvariant, PTL

(* Nothing portOpDisable released comes back while a port is down: the     *)
(* break after a fault in clock_poll and the tests of the handlers do it.  *)
THEOREM DownPortsHoldNothing == Spec => []DownHoldsNothing
<1>1. ClockInv => DownHoldsNothing
  <2>1. ASSUME NEW p \in Ports, PortInv(port[p]), port[p].state \in Down
        PROVE  HoldsNothing(port[p])
    BY <2>1 DEF PortInv, Resting, Down, Slaving
  <2> QED BY <2>1 DEF ClockInv, PortsInv, DownHoldsNothing, HoldsNothing
<1> QED BY <1>1, ClockInvariant, PTL

----------------------------------------------------------------------------
(* Who is a slave of whom.                                                 *)

(* Port p is the port of the clock's best master, and the parent names it. *)
Follows(p) ==
    /\ best # Null /\ best.port = p /\ best.sender = port[p].best
    /\ parent = [id |-> best.sender, gm |-> best.ds.identity]

(* What a settled clock keeps of each port.                                *)
Following(p) ==
    /\ port[p].state \in Slaving => Follows(p)
    /\ port[p].state = "PASSIVE" => port[p].best # Null

(* The running best is the best of a port the loop has passed.             *)
Choosing == newBest # Null => /\ newBest.port \in Ports /\ newBest.port < cur
                              /\ newBest.sender = port[newBest.port].best

(* The second loop: the ports it has passed, and the best port before it   *)
(* is reached.  A slave passed by shows that no later port is recommended  *)
(* to be grandmaster, which would reset the parent.                        *)
Decided(p) ==
    /\ Following(p)
    /\ port[p].state \in Slaving =>
         dds.clockClass > 127 /\ ~Better(dds, best.ds)

Chosen == best # Null /\ best.port >= cur => best.sender = port[best.port].best

RoleInv ==
    /\ phase \in {"poll", "serve", "rtnl"} => \A p \in Ports : Following(p)
    /\ phase = "compute" => Choosing
    /\ phase = "decide" => Chosen /\ \A p \in Ports : p < cur => Decided(p)

SlaveInv == ClockInv /\ RoleInv

(* No handler makes a port follow another master.                          *)
LEMMA SteadyKeepsRoles ==
  ASSUME RoleInv, Steady, phase \in {"poll", "serve", "rtnl"},
         phase' \in {"poll", "serve", "rtnl"}, UNCHANGED <<best, parent>>
  PROVE  RoleInv'
<1>1. ASSUME NEW p \in Ports PROVE Following(p)'
  <2>1. Following(p) /\ Stays(port[p], port'[p])
    BY DEF RoleInv, Steady
  <2> QED BY <2>1 DEF Following, Follows, Stays
<1> QED BY <1>1 DEF RoleInv

(* The handlers and the beginning and end of a pass.                       *)
LEMMA PassKeepsRoles ==
  ASSUME SlaveInv, Poll \/ Serve \/ Manage \/ EndPass
  PROVE  RoleInv'
<1>1. CASE Poll
  <2>1. /\ phase = "poll" /\ phase' = "serve" /\ port' = port
        /\ UNCHANGED <<best, parent>>
    BY <1>1 DEF Poll, PollReturns, decision
  <2> QED BY <2>1, SteadyKeepsRoles DEF SlaveInv, Steady, Stays
<1>2. CASE Serve
  <2>1. PICK p \in Ports :
          \/ \E f \in Fds : \/ AnnounceTimeout(p, f) \/ TransmitTimeout(p, f)
                            \/ ReceiveOther(p, f) \/ ReceiveAnnounce(p, f)
                            \/ ReceiveSync(p, f)
          \/ QualificationTimeout(p) \/ FaultTimerExpires(p)
          \/ RtnlRead(p) \/ port_link_status(p) \/ RtnlDone(p)
    BY <1>2 DEF Serve
  <2>2. FD_DELAY \in Fds
    BY DEF Fds, TimerFds, FD_DELAY, FD_SYNC_TX
  <2>3. Steady
    BY <2>1, <2>2, TimersKeepInv, MessagesKeepInv, FaultTimerKeepsInv,
       RtnlKeepsInv DEF SlaveInv
  <2>4. /\ phase \in {"serve", "rtnl"} /\ phase' \in {"serve", "rtnl"}
        /\ UNCHANGED <<best, parent>>
    BY <2>1 DEF AnnounceTimeout, TransmitTimeout, ReceiveOther, ReceiveAnnounce,
                ReceiveSync, QualificationTimeout, FaultTimerExpires, RtnlRead,
                port_link_status, RtnlDone, Answered, Serving, decision
  <2> QED BY <2>3, <2>4, SteadyKeepsRoles DEF SlaveInv
<1>3. CASE Manage
  <2>1. /\ phase = "serve" /\ phase' = "serve" /\ port' = port
        /\ UNCHANGED <<best, parent>>
    BY <1>3 DEF Manage, decision
  <2> QED BY <2>1, SteadyKeepsRoles DEF SlaveInv, Steady, Stays
<1>4. CASE EndPass
  <2>1. /\ phase = "serve" /\ port' = port /\ UNCHANGED <<best, parent>>
        /\ \/ phase' = "poll"
           \/ phase' = "compute" /\ newBest' = Null
    BY <1>4 DEF EndPass
  <2>2. CASE phase' = "poll"
    BY <2>1, <2>2, SteadyKeepsRoles DEF SlaveInv, Steady, Stays
  <2>3. CASE phase' = "compute" /\ newBest' = Null
    BY <2>3 DEF RoleInv, Choosing
  <2> QED BY <2>1, <2>2, <2>3
<1> QED BY <1>1, <1>2, <1>3, <1>4

(* The first loop: the running best stays the best of its port, which the  *)
(* later rounds do not touch.                                              *)
LEMMA ComputeKeepsRoles ==
  ASSUME SlaveInv, NEW p \in Ports,
         ComputeBest(p) \/ ComputeBestRound(p) \/ ComputeBestDone(p)
  PROVE  RoleInv'
<1>1. phase = "compute" /\ cur = p /\ Choosing /\ p \in Nat
  BY PortsAreNumbers
     DEF ComputeBest, ComputeBestRound, ComputeBestDone, SlaveInv, RoleInv
<1>2. CASE ComputeBest(p) \/ ComputeBestRound(p)
  <2>1. /\ phase' = "compute" /\ cur' = p /\ newBest' = newBest
        /\ \A i \in Ports \ {p} : port'[i] = port[i]
    <3>1. port \in [Ports -> PortRec]
      BY DEF SlaveInv, ClockInv, TypeOK
    <3> QED BY <1>1, <1>2, <3>1 DEF ComputeBest, ComputeBestRound, decision
  <2>2. newBest # Null => newBest.port \in Ports \ {p}
    BY <1>1 DEF Choosing
  <2>3. Choosing'
    BY <1>1, <2>1, <2>2 DEF Choosing
  <2> QED BY <2>1, <2>3 DEF RoleInv
<1>3. CASE ComputeBestDone(p)
  <2>1. /\ newBest' = Candidate(p) /\ port' = port
        /\ \/ p < N /\ cur' = p + 1 /\ phase' = "compute"
           \/ p = N /\ best' = newBest' /\ cur' = 1 /\ phase' = "decide"
    BY <1>1, <1>3 DEF ComputeBestDone
  <2>2. newBest' # Null => /\ newBest'.port \in Ports /\ newBest'.port < p + 1
                           /\ newBest'.sender = port[newBest'.port].best
    <3>1. CASE newBest' = newBest
      <4>1. \A i \in Ports : i < p => i < p + 1
        BY <1>1, PortsAreNumbers
      <4>2. newBest # Null => /\ newBest.port \in Ports /\ newBest.port < p
                              /\ newBest.sender = port[newBest.port].best
        BY <1>1 DEF Choosing
      <4> QED BY <3>1, <4>1, <4>2
    <3>2. CASE newBest' # newBest
      <4>1. newBest' = [port |-> p, sender |-> port[p].best, ds |-> PortBestDs(p)]
        BY <2>1, <3>2 DEF Candidate
      <4> QED BY <1>1, <4>1
    <3> QED BY <3>1, <3>2
  <2>3. CASE phase' = "compute"
    <3>1. cur' = p + 1
      BY <2>1, <2>3
    <3>2. Choosing'
      BY <2>1, <2>2, <3>1 DEF Choosing
    <3> QED BY <2>3, <3>2 DEF RoleInv
  <2>4. CASE phase' = "decide"
    <3>1. best' = newBest' /\ cur' = 1
      BY <2>1, <2>4
    <3>2. Chosen'
      BY <2>1, <2>2, <3>1 DEF Chosen
    <3>3. \A i \in Ports : ~(i < cur')
      BY <3>1, PortsAreNumbers DEF Ports
    <3> QED BY <2>4, <3>2, <3>3 DEF RoleInv
  <2> QED BY <2>1, <2>3, <2>4
<1> QED BY <1>2, <1>3

(* A recommendation to be a slave or a grandmaster, in terms of the clock's *)
(* own dataset; and a port told to be passive has a best.                  *)
LEMMA RoleReasons ==
  ASSUME TypeOK, NEW p \in Ports
  PROVE  /\ Recommended(p) = "SLAVE" =>
              dds.clockClass > 127 /\ ~Better(dds, best.ds)
         /\ Recommended(p) = "GRAND_MASTER" /\ best # Null =>
              dds.clockClass <= 127 \/ Better(dds, best.ds)
         /\ Recommended(p) = "PASSIVE" => port[p].best # Null
         /\ Recommended(p) = "LISTENING" => port[p].state = "LISTENING"
<1> DEFINE cb == IF best = Null THEN Null ELSE best.ds
           ib == best # Null /\ best.port = p
           pb == PortBestDs(p)
           role == Recommended(p)
<1>1. role = StateDecision(port[p].state, dds, cb, ib, pb)
  BY DEF Recommended
<1>2. dds \in DataSet /\ dds.clockClass \in Nat /\ dds # Null
  <2>1. dds \in DataSet
    BY IdentityTyped
  <2> QED BY <2>1, NullIsNothing DEF DataSet
<1>3. port[p].best = Null => pb = Null
  BY DEF PortBestDs, PORT_BEST_FOREIGN_DS
<1> HIDE DEF cb, pb, role, ib
<1>4. Compare(dds, Null) = 1
  BY <1>2 DEF Compare, dscmp, telecom_dscmp, OrNull, A_BETTER
<1>5. Compare(cb, Null) \in {0, 1}
  BY DEF Compare, dscmp, telecom_dscmp, OrNull, A_BETTER
<1>6. role = "SLAVE" => dds.clockClass > 127 /\ ~Better(dds, cb) /\ ib
  BY <1>1, <1>2 DEF StateDecision
<1>7. role = "GRAND_MASTER" => dds.clockClass <= 127 \/ Better(dds, cb)
  BY <1>1, <1>2 DEF StateDecision
<1>8. role = "PASSIVE" => pb # Null
  <2>1. Better(dds, Null)
    BY <1>4 DEF Better
  <2>2. Compare(cb, Null) # A_BETTER_TOPO
    BY <1>5 DEF A_BETTER_TOPO
  <2> QED BY <1>1, <2>1, <2>2 DEF StateDecision
<1>9. role = "LISTENING" => port[p].state = "LISTENING"
  BY <1>1 DEF StateDecision
<1> QED BY <1>3, <1>6, <1>7, <1>8, <1>9 DEF cb, ib, role

(* The second loop: a port told to be a slave is the best port, and gets    *)
(* its master as parent; no port passed before or after it is a slave too,  *)
(* and none resets the parent.                                              *)
LEMMA DecideKeepsRoles ==
  ASSUME SlaveInv, NEW p \in Ports, Decide(p)
  PROVE  RoleInv'
<1> DEFINE role == Recommended(p)
           e == EventOf(role)
<1>1. PICK r \in Dispatched(port[p], e, fresh) : port' = [port EXCEPT ![p] = r]
  BY DEF Decide
<1>2. PortInv(r) /\ r \in PortRec /\ Reasons(port[p], e, r)
  <2>1. fresh \in BOOLEAN
    BY DEF SlaveInv, ClockInv, TypeOK
  <2> QED BY <1>1, <2>1, PortTyped, RecommendedRole, DispatchOutcome
          DEF PortInv, SlaveInv
<1>3. port'[p] = r /\ \A i \in Ports \ {p} : port'[i] = port[i]
  BY <1>1, <1>2, PortMoves DEF SlaveInv
<1>4. /\ phase = "decide" /\ cur = p /\ parent' = UpdatedParent(role)
      /\ \/ p < N /\ cur' = p + 1 /\ phase' = "decide"
         \/ p = N /\ phase' = "poll"
      /\ UNCHANGED <<dds, best>>
  <2>1. p \in 1 .. N /\ N \in Nat
    BY PortsAreNumbers DEF Ports
  <2> QED BY <2>1 DEF Decide
<1>5. Chosen /\ \A i \in Ports : i < p => Decided(i)
  BY <1>4 DEF SlaveInv, RoleInv
<1>6. /\ role = "SLAVE" => /\ best # Null /\ best.port = p
                           /\ dds.clockClass > 127 /\ ~Better(dds, best.ds)
      /\ role = "GRAND_MASTER" /\ best # Null =>
           dds.clockClass <= 127 \/ Better(dds, best.ds)
      /\ role = "PASSIVE" => port[p].best # Null
      /\ role = "LISTENING" => port[p].state = "LISTENING"
      /\ role \in Roles
  BY RoleReasons, RecommendedRole DEF SlaveInv, ClockInv
<1>7. dds.clockClass \in Nat /\ p \in Nat
  BY IdentityTyped, PortsAreNumbers DEF SlaveInv, ClockInv, DataSet
<1>8. /\ role = "SLAVE" => e = "RS_SLAVE"
      /\ role = "LISTENING" => e = "NONE"
      /\ role = "GRAND_MASTER" => e = "RS_GRAND_MASTER"
      /\ role = "MASTER" => e = "RS_MASTER"
      /\ role = "PASSIVE" => e = "RS_PASSIVE"
  BY DEF EventOf
<1> HIDE DEF e, role
<1>9. r.state \in Slaving => role = "SLAVE" /\ r.best = port[p].best
  BY <1>2, <1>6, <1>8 DEF Reasons, Roles, Slaving
<1>10. r.state = "PASSIVE" => port[p].best # Null /\ r.best = port[p].best
  BY <1>2, <1>6, <1>8 DEF Reasons, Roles, Slaving
<1>11. role = "SLAVE" =>
         /\ best.sender = port[p].best
         /\ parent' = [id |-> best.sender, gm |-> best.ds.identity]
  <2>1. ASSUME role = "SLAVE" PROVE best # Null /\ best.port >= cur
    BY <2>1, <1>4, <1>6, <1>7
  <2>2. parent' = UpdatedParent(role)
    BY <1>4
  <2> QED BY <2>1, <2>2, <1>5, <1>6 DEF Chosen, UpdatedParent
<1>12. Decided(p)'
  <2>1. port'[p].state \in Slaving => /\ Follows(p)'
                                      /\ dds'.clockClass > 127
                                      /\ ~Better(dds', best'.ds)
    BY <1>3, <1>4, <1>6, <1>9, <1>11 DEF Follows
  <2>2. port'[p].state = "PASSIVE" => port'[p].best # Null
    BY <1>3, <1>10
  <2> QED BY <2>1, <2>2 DEF Decided, Following
<1>13. ASSUME NEW i \in Ports, i < p PROVE Decided(i)'
  <2>1. port'[i] = port[i] /\ Decided(i) /\ i # p
    BY <1>3, <1>5, <1>7, <1>13, PortsAreNumbers
  <2>2. ASSUME port[i].state \in Slaving PROVE Follows(i)'
    <3>1. /\ Follows(i) /\ dds.clockClass > 127 /\ ~Better(dds, best.ds)
      BY <2>1, <2>2 DEF Decided, Following
    <3>2. role # "SLAVE"
      BY <3>1, <2>1, <1>6 DEF Follows
    <3>3. role # "GRAND_MASTER"
      BY <3>1, <1>6, <1>7 DEF Follows
    <3>4. parent' = parent
      <4>1. UpdatedParent(role) = parent
        BY <3>2, <3>3 DEF UpdatedParent
      <4> QED BY <4>1, <1>4
    <3> QED BY <3>1, <3>4, <2>1, <1>4 DEF Follows
  <2> QED BY <2>1, <2>2, <1>4 DEF Decided, Following
<1>14. CASE phase' = "decide"
  <2>1. cur' = p + 1
    BY <1>4, <1>14
  <2>2. \A i \in Ports : i < p + 1 => i < p \/ i = p
    BY <1>7, PortsAreNumbers
  <2>3. \A i \in Ports : i < cur' => Decided(i)'
    BY <2>1, <2>2, <1>12, <1>13
  <2>4. Chosen'
    <3>1. ASSUME best # Null, best.port >= p + 1
          PROVE  best.sender = port'[best.port].best
      <4>1. best.port \in Ports
        BY <3>1 DEF SlaveInv, ClockInv, TypeOK, ForeignBest
      <4>2. best.port >= cur /\ best.port # p
        <5>1. \A b \in Ports : b >= p + 1 => b >= p /\ b # p
          BY <1>7, PortsAreNumbers
        <5> QED BY <3>1, <4>1, <5>1, <1>4
      <4>3. best.sender = port[best.port].best
        BY <3>1, <4>2, <1>5 DEF Chosen
      <4> QED BY <4>1, <4>2, <4>3, <1>3
    <3> QED BY <3>1, <2>1, <1>4 DEF Chosen
  <2> QED BY <1>14, <2>3, <2>4 DEF RoleInv
<1>15. CASE phase' = "poll"
  <2>1. p = N
    BY <1>4, <1>15
  <2>2. \A i \in Ports : i < p \/ i = p
    BY <2>1, PortsAreNumbers DEF Ports
  <2>3. \A i \in Ports : Following(i)'
    BY <2>2, <1>12, <1>13 DEF Decided
  <2> QED BY <1>15, <2>3 DEF RoleInv
<1> QED BY <1>4, <1>14, <1>15

(* No port starts as a slave.                                              *)
LEMMA InitEstablishesRoles == Init => RoleInv
<1> SUFFICES ASSUME Init PROVE RoleInv
  OBVIOUS
<1>1. ASSUME NEW p \in Ports PROVE Following(p)
  <2>1. port[p] \in Dispatched(Created, "INITIALIZE", FALSE)
    BY DEF Init
  <2>2. port[p].state \in {"LISTENING", "FAULTY"}
    BY <2>1, CreatedOutcome
  <2> QED BY <2>2 DEF Following, Slaving
<1> QED BY <1>1 DEF Init, RoleInv

(* SlaveInv is an invariant.                                               *)
LEMMA SlaveInvariant == Spec => []SlaveInv
<1>1. Init => SlaveInv
  BY InitEstablishesInv, InitEstablishesRoles DEF SlaveInv
<1>2. SlaveInv /\ [Next]_vars => SlaveInv'
  <2> SUFFICES ASSUME SlaveInv, [Next]_vars PROVE SlaveInv'
    OBVIOUS
  <2>1. ClockInv'
    BY NextKeepsInv DEF SlaveInv
  <2>2. RoleInv'
    <3>1. CASE Poll \/ Serve \/ Manage \/ EndPass
      BY <3>1, PassKeepsRoles
    <3>2. CASE StateDecisionEvent
      BY <3>2, ComputeKeepsRoles, DecideKeepsRoles DEF StateDecisionEvent
    <3>3. CASE UNCHANGED vars
      <4>1. UNCHANGED <<port, phase, cur, dds, newBest, best, parent>>
        BY <3>3 DEF vars, loop, decision
      <4>2. \A i \in Ports : (Following(i)' <=> Following(i))
        BY <4>1 DEF Following, Follows
      <4>3. \A i \in Ports : (Decided(i)' <=> Decided(i))
        BY <4>1, <4>2 DEF Decided
      <4>4. (Choosing' <=> Choosing) /\ (Chosen' <=> Chosen)
        BY <4>1 DEF Choosing, Chosen
      <4> QED BY <4>1, <4>2, <4>3, <4>4 DEF SlaveInv, RoleInv
    <3> QED BY <3>1, <3>2, <3>3 DEF Next
  <2> QED BY <2>1, <2>2 DEF SlaveInv
<1> QED BY <1>1, <1>2, PTL DEF Spec

(* However many ports a clock has, and however faults, timeouts and servo   *)
(* verdicts fall between two decisions, the slave port is the port of the   *)
(* clock's best master and the parent dataset names that master.            *)
THEOREM SlavesFollowTheBest == Spec => []SlaveFollowsBest
<1>1. SlaveInv => SlaveFollowsBest
  BY DEF SlaveInv, RoleInv, Following, Follows, SlaveFollowsBest, Settled
<1> QED BY <1>1, SlaveInvariant, PTL

(* A clock never has two ports on their way to steer it.                   *)
THEOREM OneSlaveAtMost == Spec => []AtMostOneSlave
<1>1. SlaveInv => AtMostOneSlave
  BY DEF SlaveInv, RoleInv, Following, Follows, AtMostOneSlave, Settled
<1> QED BY <1>1, SlaveInvariant, PTL

(* A port that follows a master has one, so that _updateCurrentMaster finds *)
(* a p->best to read.                                                       *)
THEOREM FollowersHaveBest == Spec => []BestPresent
<1>1. SlaveInv => BestPresent
  <2> SUFFICES ASSUME SlaveInv, Settled, NEW p \in Ports,
                      port[p].state \in {"PASSIVE"} \cup Slaving
               PROVE  port[p].best # Null
    BY DEF BestPresent
  <2>1. Following(p)
    BY DEF SlaveInv, RoleInv, Settled
  <2>2. CASE port[p].state = "PASSIVE"
    BY <2>1, <2>2 DEF Following
  <2>3. CASE port[p].state \in Slaving
    <3>1. best # Null /\ best.sender = port[p].best
      BY <2>1, <2>3 DEF Following, Follows
    <3>2. best.sender \in Senders
      BY <3>1 DEF SlaveInv, ClockInv, TypeOK, ForeignBest
    <3>3. best.sender \in PortIdentity
      BY <3>2, SendersTyped
    <3> QED BY <3>1, <3>3, NullIsNothing
  <2> QED BY <2>2, <2>3
<1> QED BY <1>1, SlaveInvariant, PTL

(***************************************************************************)
(* Which timers a port has, and which of its descriptors a pass may still  *)
(* serve, in terms of the state it is in.  While no fault type resets ASAP *)
(* a fault shows: the state machine stays faulty, and clock_poll drops     *)
(* what is left of the port's snapshot.  (With ASAP the port is listening  *)
(* again before the loop looks, and stale timers are served.)  And what a  *)
(* port keeps when its master falls silent or a fault is detected.         *)
(***************************************************************************)

TransmitTimers == {"MANNO", "SYNC_TX"}

TransmitFds == {FD_DELAY, FD_MANNO, FD_SYNC_TX}

(* A port's timers fit its state.                                          *)
OnTime(q) ==
    /\ q.state \notin Mastering => q.armed \cap TransmitTimers = {}
    /\ P2P /\ portIsEnabled(q.state) => "DELAY" \in q.armed
    /\ ~P2P /\ q.state \notin Slaving => "DELAY" \notin q.armed

(* Descriptor f is one a port of state s may have to serve.                *)
Owned(f, s) ==
    /\ f \in {FD_MANNO, FD_SYNC_TX} => s \in Mastering
    /\ f = FD_DELAY /\ ~P2P => s \in Slaving

PortsOnTime == \A p \in Ports : OnTime(port[p])

SnapshotOwned == \A p \in Ports : \A x \in revents :
    x[1] = p => Owned(x[2], port[p].state)

TimerInv == ClockInv /\ PortsOnTime /\ SnapshotOwned

(* What is raised after the start; and by the handlers of a pass.          *)
LaterEvents == RaisedEvents \ {"INITIALIZE"}

HandlerEvents == QuietEvents \ {"INITIALIZE"}

(* A port stays in the state it serves its timers in, or is faulty.        *)
StaysIn(S, s, t) == s \in S \cup {"FAULTY"} => t \in S \cup {"FAULTY"}

Leaves(q, e, r) ==
    e \in HandlerEvents \ {"FAULT_CLEARED"} =>
        /\ StaysIn(Mastering, q.state, r.state)
        /\ \/ e = "ANNOUNCE_RECEIPT_TIMEOUT_EXPIRES"
           \/ StaysIn(Slaving, q.state, r.state)

----------------------------------------------------------------------------
(* One dispatch.                                                           *)

(* Which states the state machines lead to.                                *)
LEMMA FsmKeepsRole ==
  ASSUME NEW s \in Resting, NEW e \in LaterEvents, NEW mdiff \in BOOLEAN
  PROVE  LET t == Fsm(SlaveOnly, s, e, mdiff)
         IN /\ s # "FAULTY" => t \in Resting
            /\ s = "FAULTY" /\ e # "FAULT_CLEARED" => t = "FAULTY"
            /\ s # "FAULTY" /\ e # "FAULT_DETECTED" => t # "FAULTY"
            /\ e \in HandlerEvents /\ s \in Mastering
                 => t \in Mastering \cup {"FAULTY"}
            /\ e \in HandlerEvents /\ e # "ANNOUNCE_RECEIPT_TIMEOUT_EXPIRES"
               /\ s \in Slaving => t \in Slaving \cup {"FAULTY"}
<1> DEFINE t == Fsm(SlaveOnly, s, e, mdiff)
<1>1. /\ s # "FAULTY" => t \in Resting
      /\ s = "FAULTY" /\ e # "FAULT_CLEARED" => t = "FAULTY"
      /\ s # "FAULTY" /\ e # "FAULT_DETECTED" => t # "FAULTY"
  BY PortConfig, SMT
     DEF Fsm, DownFsm, EnabledFsm, RoleFsm, SlaveRoleFsm, Resting, States,
         Slaving, Down, LaterEvents, RaisedEvents, Events, Listeners
<1>2. e \in HandlerEvents /\ s \in Mastering => t \in Mastering \cup {"FAULTY"}
  BY PortConfig, SMT
     DEF Fsm, DownFsm, EnabledFsm, RoleFsm, SlaveRoleFsm, Resting, States,
         Slaving, Mastering, Down, HandlerEvents, QuietEvents, RaisedEvents,
         Events, Listeners
<1>3. e \in HandlerEvents /\ e # "ANNOUNCE_RECEIPT_TIMEOUT_EXPIRES" /\ s \in Slaving
        => t \in Slaving \cup {"FAULTY"}
  BY PortConfig, SMT
     DEF Fsm, DownFsm, EnabledFsm, RoleFsm, SlaveRoleFsm, Resting, States,
         Slaving, Down, HandlerEvents, QuietEvents, RaisedEvents, Events, Listeners
<1> QED BY <1>1, <1>2, <1>3

(* A transition sets the timers that fit; under P2P it finds DELAY running *)
(* unless the port starts.                                                 *)
LEMMA TransitionOnTime ==
  ASSUME NEW q \in PortRec, q.state \in Resting,
         P2P /\ q.state \notin {"LISTENING", "FAULTY"} => "DELAY" \in q.armed
  PROVE  OnTime(Transition(q))
<1>1. CASE q.state = "FAULTY"
  <2>1. Transition(q) = portOpDisable(q)
    BY <1>1 DEF Transition
  <2>2. portOpDisable(q).armed = {} /\ portOpDisable(q).state = "FAULTY"
    BY <1>1, Disabled DEF HoldsNothing
  <2> QED BY <2>1, <2>2 DEF OnTime, portIsEnabled, Down
<1>2. CASE q.state # "FAULTY"
  <2> DEFINE a == LeftRunning(q) \cup TimersOf(q.state)
             r == [q EXCEPT !.armed = a]
  <2>1. q.state # "DISABLED"
    BY DEF Resting, Slaving
  <2>2. Transition(q) = r
    BY <1>2, <2>1 DEF Transition
  <2>3. r.armed = a /\ r.state = q.state
    BY DEF PortRec
  <2>4. q.state \notin Mastering => a \cap TransmitTimers = {}
    BY DEF TimersOf, LeftRunning, TransmitTimers, Mastering, Slaving
  <2>5. P2P => "DELAY" \in a
    BY <1>2 DEF TimersOf, LeftRunning, Mastering, Slaving
  <2>6. ~P2P /\ q.state \notin Slaving => "DELAY" \notin a
    BY DEF TimersOf, LeftRunning, Mastering, Slaving
  <2> HIDE DEF a, r
  <2> QED BY <2>2, <2>3, <2>4, <2>5, <2>6 DEF OnTime
<1> QED BY <1>1, <1>2

(* portStateUpdate without ASAP: only a fault that was cleared starts the  *)
(* port.                                                                   *)
LEMMA UpdatedLater ==
  ASSUME AsapFaults = {}, NEW q \in PortRec, PortInv(q), NEW e \in LaterEvents,
         NEW mdiff \in BOOLEAN, NEW ok \in BOOLEAN
  PROVE  LET r == portStateUpdate(q, e, mdiff, ok)
             t == Fsm(SlaveOnly, q.state, e, mdiff)
         IN /\ r \in PortRec
            /\ \/ /\ q.state = "FAULTY" /\ e = "FAULT_CLEARED"
                  /\ r.state = (IF ok THEN "LISTENING" ELSE "FAULTY")
                  /\ r.state = "FAULTY" => HoldsNothing(r)
               \/ /\ r = [q EXCEPT !.state = t] /\ r.state = t /\ t \in Resting
                  /\ q.state = "FAULTY" => e # "FAULT_CLEARED"
<1> DEFINE t == Fsm(SlaveOnly, q.state, e, mdiff)
           r == portStateUpdate(q, e, mdiff, ok)
<1>0. q.state \in Resting /\ e \in RaisedEvents
  BY DEF PortInv, LaterEvents
<1>1. NextState(q, e, mdiff) = t
  BY DEF NextState, clear_fault_asap
<1>2. CASE q.state = "FAULTY" /\ e = "FAULT_CLEARED"
  <2>1. t = "INITIALIZING"
    BY <1>2 DEF Fsm, DownFsm, Down
  <2> DEFINE i == port_initialize(q, ok)
             u == IF ok THEN "LISTENING" ELSE "FAULTY"
  <2>2. ~portIsEnabled(q.state)
    BY <1>2 DEF portIsEnabled, Down
  <2>3. r = [i EXCEPT !.state = u]
    BY <1>1, <2>1, <2>2, FsmStart DEF portStateUpdate
  <2>4. HoldsNothing(q)
    BY <1>2 DEF PortInv
  <2>5. /\ i \in PortRec /\ i.heard = <<>> /\ i.msgs = NoMsgs /\ i.best = Null
        /\ i.armed = IF ok THEN {"ANNOUNCE"} ELSE {}
    BY <2>4, Initialized DEF HoldsNothing
  <2>6. u \in States
    BY DEF States
  <2> HIDE DEF i, r
  <2>7. r \in PortRec /\ r.state = u /\ (u = "FAULTY" => HoldsNothing(r))
    BY <2>3, <2>5, <2>6 DEF PortRec, HoldsNothing
  <2> QED BY <1>2, <2>7 DEF r
<1>3. CASE ~(q.state = "FAULTY" /\ e = "FAULT_CLEARED")
  <2>1. t \in Resting
    BY <1>0, <1>3, FsmKeepsRole
  <2>2. t # "INITIALIZING" /\ t \in States
    BY <2>1 DEF Resting, Slaving, States
  <2>3. r = [q EXCEPT !.state = t]
    BY <1>1, <2>2 DEF portStateUpdate
  <2> HIDE DEF t, r
  <2>4. r \in PortRec /\ r.state = t
    BY <2>2, <2>3 DEF PortRec
  <2> QED BY <1>3, <2>1, <2>3, <2>4 DEF t, r
<1> QED BY <1>2, <1>3

(* One dispatch keeps the timers fit, and a port in its role or faulty.    *)
LEMMA OnceOnTime ==
  ASSUME AsapFaults = {}, NEW q \in PortRec, PortInv(q), OnTime(q),
         NEW e \in LaterEvents, NEW mdiff \in BOOLEAN, NEW ok \in BOOLEAN
  PROVE  LET r == DispatchOnce(q, e, mdiff, ok)
         IN OnTime(r) /\ Leaves(q, e, r)
<1> DEFINE t == Fsm(SlaveOnly, q.state, e, mdiff)
           u == portStateUpdate(q, e, mdiff, ok)
           r == DispatchOnce(q, e, mdiff, ok)
<1>0. q.state \in Resting
  BY DEF PortInv
<1>1. /\ u \in PortRec
      /\ \/ /\ q.state = "FAULTY" /\ e = "FAULT_CLEARED"
            /\ u.state = (IF ok THEN "LISTENING" ELSE "FAULTY")
            /\ u.state = "FAULTY" => HoldsNothing(u)
         \/ /\ u = [q EXCEPT !.state = t] /\ u.state = t /\ t \in Resting
            /\ q.state = "FAULTY" => e # "FAULT_CLEARED"
  BY UpdatedLater
<1>2. r = IF u.state = q.state THEN u ELSE Transition(u)
  BY DEF DispatchOnce
<1>3. /\ u.state \in Resting
      /\ Transition(u).state = u.state
  <2>1. u.state \in Resting
    BY <1>1 DEF Resting, States
  <2>2. u \in PortRec
    BY <1>1
  <2> HIDE DEF u
  <2>3. portOpDisable(u).state = u.state
    BY <2>2, Disabled
  <2>4. \A a : [u EXCEPT !.armed = a].state = u.state
    BY <2>2 DEF PortRec
  <2>5. Transition(u).state = u.state
    BY <2>3, <2>4 DEF Transition
  <2> QED BY <2>1, <2>5
<1>4. r.state = u.state
  BY <1>2, <1>3
<1>5. /\ e # "FAULT_CLEARED" => u.state = t
      /\ q.state = "FAULTY" /\ e # "FAULT_CLEARED" => t = "FAULTY"
      /\ e \in HandlerEvents /\ q.state \in Mastering
           => t \in Mastering \cup {"FAULTY"}
      /\ e \in HandlerEvents /\ e # "ANNOUNCE_RECEIPT_TIMEOUT_EXPIRES"
         /\ q.state \in Slaving => t \in Slaving \cup {"FAULTY"}
      /\ q.state = "FAULTY" => t \in {"FAULTY", "INITIALIZING"}
  BY <1>0, <1>1, FsmKeepsRole, FsmFaulty DEF LaterEvents
<1> HIDE DEF t, u, r
<1>6. OnTime(r)
  <2>1. CASE u.state = q.state
    <3>1. CASE u.state = "FAULTY" /\ HoldsNothing(u)
      BY <1>2, <2>1, <3>1 DEF OnTime, HoldsNothing, portIsEnabled, Down
    <3>2. CASE u = [q EXCEPT !.state = t] /\ u.state = t
      <4>1. u = q
        BY <2>1, <3>2 DEF PortRec
      <4> QED BY <1>2, <2>1, <4>1
    <3> QED BY <1>1, <2>1, <3>1, <3>2
  <2>2. CASE u.state # q.state
    <3>1. ASSUME P2P, u.state \notin {"LISTENING", "FAULTY"}
          PROVE  "DELAY" \in u.armed
      <4>1. u = [q EXCEPT !.state = t] /\ t = u.state
        BY <1>1, <3>1
      <4>2. q.state # "FAULTY"
        BY <1>0, <1>3, <1>5, <3>1, <4>1 DEF Resting, Slaving
      <4>3. portIsEnabled(q.state)
        BY <1>0, <4>2 DEF portIsEnabled, Down, Resting, Slaving
      <4>4. "DELAY" \in q.armed
        BY <3>1, <4>3 DEF OnTime
      <4>5. u.armed = q.armed
        BY <4>1 DEF PortRec
      <4> QED BY <4>4, <4>5
    <3> QED BY <1>1, <1>2, <1>3, <2>2, <3>1, TransitionOnTime
  <2> QED BY <2>1, <2>2
<1>7. Leaves(q, e, r)
  BY <1>4, <1>5 DEF Leaves, StaysIn
<1> QED BY <1>6, <1>7 DEF r

(* bc_dispatch keeps them too; a PHC switch that fails leaves the port     *)
(* faulty.                                                                 *)
LEMMA DispatchedOnTime ==
  ASSUME AsapFaults = {}, NEW q \in PortRec, PortInv(q), OnTime(q),
         NEW e \in LaterEvents, NEW mdiff \in BOOLEAN,
         NEW r \in Dispatched(q, e, mdiff)
  PROVE  OnTime(r) /\ Leaves(q, e, r)
<1>1. PICK ok \in InitOutcomes, switched \in BOOLEAN :
         r = bc_dispatch(q, e, mdiff, ok, switched)
  BY DEF Dispatched
<1>2. ok \in BOOLEAN
  BY ClockConfig DEF InitOutcomes
<1> DEFINE u == DispatchOnce(q, e, mdiff, ok)
           v == [u EXCEPT !.lastFault = "SWITCH_PHC"]
           w == DispatchOnce(v, "FAULT_DETECTED", FALSE, ok)
           fails == /\ Jbod /\ ~switched
                    /\ u.state = "UNCALIBRATED" /\ q.state # "UNCALIBRATED"
<1>3. r = IF fails THEN w ELSE u
  BY <1>1 DEF bc_dispatch
<1>4. PortInv(u) /\ OnTime(u) /\ Leaves(q, e, u)
  BY <1>2, DispatchedOnce, OnceOnTime DEF LaterEvents
<1>5. CASE ~fails
  BY <1>3, <1>4, <1>5
<1>6. CASE fails
  <2> HIDE DEF u
  <2>1. v \in PortRec /\ v.state = u.state /\ v.best = u.best
        /\ v.armed = u.armed /\ v.heard = u.heard
    BY <1>4 DEF PortInv, PortRec, FaultTypes
  <2> HIDE DEF v
  <2>2. PortInv(v) /\ OnTime(v)
    BY <1>4, <1>6, <2>1 DEF PortInv, Timed, OnTime
  <2>3. OnTime(w) /\ Leaves(v, "FAULT_DETECTED", w)
    BY <1>2, <2>1, <2>2, OnceOnTime DEF LaterEvents, RaisedEvents, Events
  <2>4. w.state \in Slaving \cup {"FAULTY"}
    BY <1>6, <2>1, <2>3
       DEF Leaves, StaysIn, Slaving, HandlerEvents, QuietEvents, RaisedEvents, Events
  <2> HIDE DEF w
  <2>5. Leaves(q, e, w)
    BY <1>4, <1>6, <2>4 DEF Leaves, StaysIn, Slaving, Mastering
  <2> QED BY <1>3, <1>6, <2>3, <2>5
<1> QED BY <1>5, <1>6

(* A port starts with timers that fit.                                     *)
LEMMA CreatedOnTime ==
  ASSUME NEW r \in Dispatched(Created, "INITIALIZE", FALSE)
  PROVE  OnTime(r)
<1> DEFINE c == Created
           e == "INITIALIZE"
           m == FALSE
<1> HIDE DEF c, e, m
<1>1. r \in Dispatched(c, e, m)
  BY DEF c, e, m
<1>2. PICK ok \in InitOutcomes, switched \in BOOLEAN :
        r = bc_dispatch(c, e, m, ok, switched)
  BY <1>1 DEF Dispatched
<1>3. ok \in BOOLEAN
  BY ClockConfig DEF InitOutcomes
<1>4. PICK u \in PortRec :
         /\ u.state = (IF ok THEN "LISTENING" ELSE "FAULTY")
         /\ r = Transition(u)
  BY <1>2, <1>3, CreatedStarts DEF c, e, m
<1> QED BY <1>4, TransitionOnTime DEF Resting, States

----------------------------------------------------------------------------
(* The steps of the clock.                                                 *)

(* A port of the clock is typed, and its timers fit.                       *)
LEMMA PortOnTime ==
  ASSUME TimerInv, NEW p \in Ports
  PROVE  port[p] \in PortRec /\ PortInv(port[p]) /\ OnTime(port[p])
  BY PortTyped DEF TimerInv, PortsOnTime

(* The end of a round: a port that left the state it served its timers in  *)
(* is faulty, and then nothing of its snapshot is left to be served.       *)
LEMMA AnswerOnTime ==
  ASSUME AsapFaults = {}, TimerInv, NEW p \in Ports,
         NEW f \in Fds \ {FD_FAULT}, NEW q \in PortRec, PortInv(q), OnTime(q),
         StaysIn(Mastering, port[p].state, q.state),
         StaysIn(Slaving, port[p].state, q.state),
         NEW e \in HandlerEvents, Answered(p, f, q, e),
         \A x \in revents : x[1] = p =>
            /\ x[2] \in TransmitFds => e # "FAULT_CLEARED"
            /\ x[2] = FD_DELAY => e # "ANNOUNCE_RECEIPT_TIMEOUT_EXPIRES"
  PROVE  PortsOnTime' /\ SnapshotOwned'
<1>1. PICK r \in Dispatched(q, e, FALSE) :
        /\ port' = [port EXCEPT ![p] = FaultTimeout(r)]
        /\ revents' = Left(p, f, r)
  BY DEF Answered
<1>2. e \in LaterEvents /\ e \in RaisedEvents
  BY DEF HandlerEvents, QuietEvents, LaterEvents
<1>3. PortInv(r) /\ OnTime(r) /\ Leaves(q, e, r) /\ r \in PortRec
  <2>1. PortInv(r)
    BY <1>2, DispatchOutcome
  <2>2. OnTime(r) /\ Leaves(q, e, r)
    BY <1>2, DispatchedOnTime
  <2> QED BY <2>1, <2>2 DEF PortInv
<1> DEFINE t == FaultTimeout(r)
<1>4. t.state = r.state /\ t.armed = r.armed
  BY <1>3, FaultTimed
<1> HIDE DEF t
<1>5. OnTime(t)
  BY <1>3, <1>4 DEF OnTime
<1>6. port'[p] = t /\ \A i \in Ports \ {p} : port'[i] = port[i]
  <2>1. port \in [Ports -> PortRec]
    BY DEF TimerInv, ClockInv, TypeOK
  <2> QED BY <1>1, <2>1 DEF t
<1>7. PortsOnTime'
  <2>1. ASSUME NEW i \in Ports PROVE OnTime(port'[i])
    <3>1. OnTime(port[i])
      BY DEF TimerInv, PortsOnTime
    <3> QED BY <1>5, <1>6, <3>1
  <2>2. \A i \in Ports : OnTime(port'[i])
    BY <2>1
  <2> QED BY <2>2 DEF PortsOnTime
<1>8. ASSUME NEW x \in revents', x[1] = p
      PROVE  Owned(x[2], r.state)
  <2>1. CASE r.state = "FAULTY"
    <3>1. x[2] = FD_FAULT
      BY <1>1, <1>8, <2>1 DEF Left
    <3> QED BY <3>1 DEF Owned, FD_FAULT, FD_MANNO, FD_SYNC_TX, FD_DELAY
  <2>2. CASE r.state # "FAULTY"
    <3>1. x \in revents
      BY <1>1, <1>8 DEF Left
    <3>2. Owned(x[2], port[p].state)
      BY <1>8, <3>1 DEF TimerInv, SnapshotOwned
    <3>3. x[2] \in {FD_MANNO, FD_SYNC_TX} => r.state \in Mastering
      BY <1>3, <1>8, <2>2, <3>1, <3>2 DEF Owned, Leaves, StaysIn, TransmitFds
    <3>4. x[2] = FD_DELAY /\ ~P2P => r.state \in Slaving
      BY <1>3, <1>8, <2>2, <3>1, <3>2 DEF Owned, Leaves, StaysIn, TransmitFds
    <3> QED BY <3>3, <3>4 DEF Owned
  <2> QED BY <2>1, <2>2
<1>9. SnapshotOwned'
  <2>1. ASSUME NEW i \in Ports, NEW x \in revents', x[1] = i
        PROVE  Owned(x[2], port'[i].state)
    <3>1. CASE i = p
      BY <1>4, <1>6, <1>8, <2>1, <3>1
    <3>2. CASE i # p
      <4>1. x \in revents
        BY <1>1, <2>1 DEF Left
      <4> QED BY <1>6, <2>1, <3>2, <4>1 DEF TimerInv, SnapshotOwned
    <3> QED BY <3>1, <3>2
  <2> QED BY <2>1 DEF SnapshotOwned
<1> QED BY <1>7, <1>9

(* A port that keeps its state and gets a timer that fits.                 *)
LEMMA RearmedOnTime ==
  ASSUME NEW q \in PortRec, OnTime(q), NEW r \in PortRec, r.state = q.state,
         NEW S, r.armed = q.armed \cup S,
         q.state \notin Mastering => S \cap TransmitTimers = {},
         ~P2P /\ q.state \notin Slaving => "DELAY" \notin S
  PROVE  OnTime(r)
  BY DEF OnTime

(* What poll(2) reports is armed, so it fits the port's state.             *)
LEMMA PollOnTime ==
  ASSUME TimerInv, Poll
  PROVE  PortsOnTime' /\ SnapshotOwned'
<1>1. PICK y \in [1 .. MaxReady -> Ready] :
        PollReturns({ y[i] : i \in 1 .. MaxReady })
  BY DEF Poll
<1>2. revents' \subseteq Ready /\ port' = port
  BY <1>1 DEF PollReturns
<1>3. PortsOnTime'
  BY <1>2 DEF TimerInv, PortsOnTime
<1>4. ASSUME NEW p \in Ports, NEW x \in revents', x[1] = p
      PROVE  Owned(x[2], port[p].state)
  <2>1. x \in Ports \X Fds /\ Readable(p, x[2])
    BY <1>2, <1>4, PortsAreNumbers DEF Ready, Uds
  <2>2. OnTime(port[p])
    BY DEF TimerInv, PortsOnTime
  <2>3. TransmitFds \subseteq TimerFds
    BY DEF TransmitFds, TimerFds, FD_DELAY, FD_MANNO, FD_SYNC_TX
  <2>4. ASSUME x[2] \in TransmitFds PROVE TimerOf(x[2]) \in port[p].armed
    <3>1. x[2] \in Fds /\ x[2] \in TimerFds
      BY <2>1, <2>3, <2>4
    <3>2. x[2] \notin Sockets /\ x[2] # FD_RTNL /\ x[2] # FD_FAULT
      BY <3>1, FdsApart DEF LastFds
    <3> QED BY <2>1, <3>1, <3>2 DEF Readable
  <2>5. /\ TimerOf(FD_DELAY) = "DELAY" /\ TimerOf(FD_MANNO) = "MANNO"
        /\ TimerOf(FD_SYNC_TX) = "SYNC_TX"
    BY DEF TimerOf, FD_DELAY, FD_MANNO, FD_SYNC_TX, FD_ANNOUNCE, FD_SYNC_RX,
           FD_QUALIFICATION
  <2> QED BY <2>2, <2>4, <2>5 DEF Owned, OnTime, TransmitTimers, TransmitFds
<1>5. SnapshotOwned'
  BY <1>2, <1>4 DEF SnapshotOwned
<1> QED BY <1>3, <1>5

(* The timeouts.  ANNOUNCE and SYNC_RX are served after DELAY: a slave     *)
(* port that gives up has no delay request left to send.                   *)
LEMMA TimeoutsOnTime ==
  ASSUME AsapFaults = {}, TimerInv, NEW p \in Ports, NEW f \in Fds,
         AnnounceTimeout(p, f) \/ TransmitTimeout(p, f) \/ QualificationTimeout(p)
  PROVE  PortsOnTime' /\ SnapshotOwned'
<1>1. port[p] \in PortRec /\ PortInv(port[p]) /\ OnTime(port[p]) /\ ClockInv
  BY PortOnTime DEF TimerInv
<1>2. /\ "ANNOUNCE_RECEIPT_TIMEOUT_EXPIRES" \in HandlerEvents
      /\ "FAULT_DETECTED" \in HandlerEvents /\ "NONE" \in HandlerEvents
      /\ "QUALIFICATION_TIMEOUT_EXPIRES" \in HandlerEvents
  BY DEF HandlerEvents, QuietEvents, RaisedEvents, Events
<1>3. CASE AnnounceTimeout(p, f)
  <2> DEFINE q == IF port[p].best = Null THEN port[p]
                  ELSE fc_clear(port[p], port[p].best)
             r == [q EXCEPT !.armed = @ \cup {"ANNOUNCE"}]
  <2>1. f \in Fds \ LastFds /\ f \in Fds \ {FD_FAULT} /\ Serving(p, f) /\ f > FD_DELAY
    BY <1>3 DEF AnnounceTimeout, LastFds, FD_ANNOUNCE, FD_SYNC_RX, FD_RTNL,
                FD_FAULT, FD_DELAY
  <2>2. port[p].state # "FAULTY"
    BY <1>1, <2>1, ServedIsUp
  <2>3. /\ q \in PortRec /\ PortInv(q) /\ q.state = port[p].state
        /\ q.armed = port[p].armed
    <3>1. port[p].best \in Senders \cup {Null}
      BY <1>1 DEF PortRec
    <3>2. \A s \in Senders : fc_clear(port[p], s).armed = port[p].armed
      BY <1>1 DEF fc_clear, PortRec
    <3> QED BY <1>1, <2>2, <3>1, <3>2, Cleared
  <2> HIDE DEF q
  <2>4. r \in PortRec /\ PortInv(r) /\ r.state = port[p].state
    BY <2>2, <2>3, Rearmed DEF Timers
  <2>5. r.armed = port[p].armed \cup {"ANNOUNCE"}
    BY <2>3 DEF PortRec
  <2>6. Answered(p, f, r, "ANNOUNCE_RECEIPT_TIMEOUT_EXPIRES")
           \/ Answered(p, f, r, "FAULT_DETECTED")
    BY <1>3 DEF AnnounceTimeout, q
  <2> HIDE DEF r
  <2>7. OnTime(r)
    BY <1>1, <2>4, <2>5, RearmedOnTime DEF TransmitTimers
  <2>8. \A x \in revents : x[1] = p => x[2] # FD_DELAY
    <3> SUFFICES ASSUME NEW x \in revents, x[1] = p, x[2] = FD_DELAY PROVE FALSE
      OBVIOUS
    <3>1. f <= FD_DELAY
      BY <2>1, PortsAreNumbers DEF Serving
    <3>2. f \in Int
      BY <2>1, FdsApart
    <3> QED BY <2>1, <3>1, <3>2 DEF FD_DELAY
  <2> QED BY <1>2, <2>1, <2>4, <2>6, <2>7, <2>8, AnswerOnTime DEF StaysIn
<1>4. CASE TransmitTimeout(p, f)
  <2>1. f \in Fds \ LastFds /\ f \in Fds \ {FD_FAULT} /\ Serving(p, f)
        /\ TimerOf(f) \in Timers /\ f \in TransmitFds
        /\ TimerOf(f) = (IF f = FD_DELAY THEN "DELAY"
                         ELSE IF f = FD_MANNO THEN "MANNO" ELSE "SYNC_TX")
    BY <1>4 DEF TransmitTimeout, LastFds, FD_DELAY, FD_MANNO, FD_SYNC_TX, FD_RTNL,
                FD_FAULT, FD_ANNOUNCE, FD_SYNC_RX, FD_QUALIFICATION, TimerOf, Timers,
                TransmitFds
  <2>2. port[p].state # "FAULTY"
    BY <1>1, <2>1, ServedIsUp
  <2> DEFINE T == {TimerOf(f)}
             r == [port[p] EXCEPT !.armed = @ \cup T]
  <2>3. r \in PortRec /\ PortInv(r) /\ r.state = port[p].state
    BY <1>1, <2>1, <2>2, Rearmed
  <2>4. r.armed = port[p].armed \cup T
    BY <1>1 DEF PortRec
  <2>5. PICK e \in {"NONE", "FAULT_DETECTED"} : Answered(p, f, r, e)
    BY <1>4 DEF TransmitTimeout
  <2>6. Owned(f, port[p].state)
    BY <2>1 DEF TimerInv, SnapshotOwned, Serving
  <2>7. /\ port[p].state \notin Mastering => T \cap TransmitTimers = {}
        /\ ~P2P /\ port[p].state \notin Slaving => "DELAY" \notin T
    BY <2>1, <2>6 DEF Owned, TransmitTimers, TransmitFds
  <2> HIDE DEF r, T
  <2>8. OnTime(r)
    BY <1>1, <2>3, <2>4, <2>7, RearmedOnTime
  <2> QED BY <1>2, <2>1, <2>3, <2>5, <2>8, AnswerOnTime DEF StaysIn
<1>5. CASE QualificationTimeout(p)
  <2>1. FD_QUALIFICATION \in Fds \ {FD_FAULT} /\ FD_QUALIFICATION > FD_DELAY
    BY DEF Fds, TimerFds, FD_QUALIFICATION, FD_FAULT, FD_DELAY, FD_SYNC_TX
  <2>2. Answered(p, FD_QUALIFICATION, port[p], "QUALIFICATION_TIMEOUT_EXPIRES")
    BY <1>5 DEF QualificationTimeout
  <2> QED BY <1>1, <1>2, <2>1, <2>2, AnswerOnTime DEF StaysIn
<1> QED BY <1>3, <1>4, <1>5

(* The messages.  A servo that lost its time, or a PHC that cannot be      *)
(* switched, leaves the port a slave or faulty.                            *)
LEMMA MessagesOnTime ==
  ASSUME AsapFaults = {}, TimerInv, NEW p \in Ports, NEW f \in Fds,
         ReceiveOther(p, f) \/ ReceiveAnnounce(p, f) \/ ReceiveSync(p, f)
  PROVE  PortsOnTime' /\ SnapshotOwned'
<1>1. port[p] \in PortRec /\ PortInv(port[p]) /\ OnTime(port[p]) /\ ClockInv
  BY PortOnTime DEF TimerInv
<1>2. Serving(p, f) /\ f \in Fds \ {FD_FAULT} /\ f \in Fds \ LastFds
  BY FdsApart DEF ReceiveOther, ReceiveAnnounce, ReceiveSync, LastFds
<1>3. port[p].state # "FAULTY"
  BY <1>1, <1>2, ServedIsUp
<1>4. /\ {"NONE", "FAULT_DETECTED", "STATE_DECISION_EVENT", "SYNCHRONIZATION_FAULT",
          "MASTER_CLOCK_SELECTED"} \subseteq HandlerEvents
      /\ HandlerEvents \subseteq LaterEvents /\ HandlerEvents \subseteq RaisedEvents
  BY DEF HandlerEvents, LaterEvents, QuietEvents, RaisedEvents, Events
<1>5. CASE ReceiveOther(p, f)
  <2> DEFINE b == [port[p] EXCEPT !.lastFault = "BAD_PEER_NETWORK"]
  <2>1. b \in PortRec /\ PortInv(b) /\ b.state = port[p].state
    BY <1>1, Relabelled DEF FaultTypes
  <2>2. b.armed = port[p].armed
    BY <1>1 DEF PortRec
  <2>3. \/ Answered(p, f, port[p], "NONE")
        \/ Answered(p, f, port[p], "FAULT_DETECTED")
        \/ Answered(p, f, b, "FAULT_DETECTED")
    BY <1>5 DEF ReceiveOther
  <2> HIDE DEF b
  <2>4. OnTime(b)
    BY <1>1, <2>1, <2>2 DEF OnTime
  <2> QED BY <1>1, <1>2, <1>4, <2>1, <2>3, <2>4, AnswerOnTime DEF StaysIn
<1>6. CASE ReceiveAnnounce(p, f)
  <2>0. PICK m \in Hears[p] :
          \E k \in Prunings(port[p].msgs[m.sender]) :
            LET a == portMsgProAnnounce(port[p], m, k)
            IN Answered(p, f, a.port,
                        IF a.diff THEN "STATE_DECISION_EVENT" ELSE "NONE")
    BY <1>6 DEF ReceiveAnnounce
  <2>1. PICK k \in Prunings(port[p].msgs[m.sender]) :
          LET a == portMsgProAnnounce(port[p], m, k)
          IN Answered(p, f, a.port,
                      IF a.diff THEN "STATE_DECISION_EVENT" ELSE "NONE")
    BY <2>0
  <2>2. m \in Announces
    <3>1. Hears \in [Ports -> SUBSET Announces]
      BY ClockConfig
    <3> QED BY <3>1
  <2> DEFINE a == portMsgProAnnounce(port[p], m, k)
             e == IF a.diff THEN "STATE_DECISION_EVENT" ELSE "NONE"
             S == a.port.armed \ port[p].armed
  <2>3. /\ a.port \in PortRec
        /\ a.port.state = port[p].state
        /\ port[p].armed \subseteq a.port.armed
        /\ a.port.armed \subseteq port[p].armed \cup {"ANNOUNCE"}
        /\ Distinct(port[p].heard) => Distinct(a.port.heard)
    BY <1>1, <2>2, Announced
  <2>4. Answered(p, f, a.port, e)
    BY <2>1
  <2>5. e \in HandlerEvents /\ e \in {"STATE_DECISION_EVENT", "NONE"}
    BY <1>4
  <2> HIDE DEF e, a
  <2>6. PortInv(a.port)
    BY <1>1, <1>3, <2>3, Handled DEF PortInv
  <2>7. a.port.armed = port[p].armed \cup S /\ S \subseteq {"ANNOUNCE"}
    BY <2>3
  <2> HIDE DEF S
  <2>8. OnTime(a.port)
    BY <1>1, <2>3, <2>7, RearmedOnTime DEF TransmitTimers
  <2> QED BY <1>2, <2>3, <2>4, <2>5, <2>6, <2>8, AnswerOnTime DEF StaysIn
<1>7. CASE ReceiveSync(p, f)
  <2> DEFINE q == IF SyncTimeout THEN [port[p] EXCEPT !.armed = @ \cup {"SYNC_RX"}]
                  ELSE port[p]
             S == IF SyncTimeout THEN {"SYNC_RX"} ELSE {}
  <2>1. q \in PortRec /\ PortInv(q) /\ q.state = port[p].state
    BY <1>1, <1>3, Rearmed DEF Timers
  <2>2. q.armed = port[p].armed \cup S
    BY <1>1 DEF PortRec
  <2>3. PICK e \in {"SYNCHRONIZATION_FAULT", "MASTER_CLOCK_SELECTED"} :
          \E r \in Dispatched(q, e, FALSE) : Answered(p, f, r, "NONE")
    BY <1>7 DEF ReceiveSync
  <2> HIDE DEF q
  <2>4. OnTime(q)
    BY <1>1, <2>1, <2>2, RearmedOnTime DEF TransmitTimers
  <2>5. PICK r \in Dispatched(q, e, FALSE) : Answered(p, f, r, "NONE")
    BY <2>3
  <2>6. e \in LaterEvents /\ e \in HandlerEvents /\ e \in RaisedEvents
    BY <1>4
  <2>7. PortInv(r) /\ OnTime(r) /\ Leaves(q, e, r) /\ r \in PortRec
    <3>1. PortInv(r)
      BY <2>1, <2>6, DispatchOutcome
    <3>2. OnTime(r) /\ Leaves(q, e, r)
      BY <2>1, <2>4, <2>6, DispatchedOnTime
    <3> QED BY <3>1, <3>2 DEF PortInv
  <2>8. /\ StaysIn(Mastering, port[p].state, r.state)
        /\ StaysIn(Slaving, port[p].state, r.state)
    BY <2>1, <2>6, <2>7 DEF Leaves
  <2> QED BY <1>2, <1>4, <2>5, <2>7, <2>8, AnswerOnTime
<1> QED BY <1>5, <1>6, <1>7

(* A step that moves one port, and takes nothing into the snapshot that    *)
(* the port would not own.                                                 *)
LEMMA PortMovesOnTime ==
  ASSUME TimerInv, NEW p \in Ports, NEW r \in PortRec, PortInv(r), OnTime(r),
         port' = [port EXCEPT ![p] = r], revents' \subseteq revents,
         \A x \in revents' : x[1] = p => x[2] \in LastFds
  PROVE  PortsOnTime' /\ SnapshotOwned'
<1>1. port'[p] = r /\ \A i \in Ports \ {p} : port'[i] = port[i]
  BY PortMoves DEF TimerInv
<1>2. \A i \in Ports : OnTime(port'[i])
  BY <1>1 DEF TimerInv, PortsOnTime
<1>3. \A f \in LastFds : \A t : Owned(f, t)
  BY DEF LastFds, Owned, FD_RTNL, FD_FAULT, FD_MANNO, FD_SYNC_TX, FD_DELAY
<1>4. ASSUME NEW i \in Ports, NEW x \in revents', x[1] = i
      PROVE  Owned(x[2], port'[i].state)
  BY <1>1, <1>3, <1>4 DEF TimerInv, SnapshotOwned
<1> QED BY <1>2, <1>4 DEF PortsOnTime, SnapshotOwned

(* The fault timer is the last descriptor of its port.                     *)
LEMMA FaultTimerOnTime ==
  ASSUME AsapFaults = {}, TimerInv, NEW p \in Ports, FaultTimerExpires(p)
  PROVE  PortsOnTime' /\ SnapshotOwned'
<1> DEFINE q == [port[p] EXCEPT !.faultTimer = FALSE]
<1>1. port[p] \in PortRec /\ PortInv(port[p]) /\ OnTime(port[p]) /\ ClockInv
  BY PortOnTime DEF TimerInv
<1>2. /\ q \in PortRec /\ q.state = port[p].state /\ q.armed = port[p].armed
      /\ q.heard = port[p].heard /\ q.msgs = port[p].msgs
      /\ q.best = port[p].best
  BY <1>1 DEF PortRec
<1>3. PICK r \in Dispatched(q, "FAULT_CLEARED", FALSE) \cup {q} :
        port' = [port EXCEPT ![p] = r]
  BY DEF FaultTimerExpires
<1> HIDE DEF q
<1>4. PortInv(q) /\ OnTime(q)
  BY <1>1, <1>2 DEF PortInv, Timed, HoldsNothing, OnTime
<1>5. r \in PortRec /\ PortInv(r) /\ OnTime(r)
  <2>1. "FAULT_CLEARED" \in RaisedEvents /\ "FAULT_CLEARED" \in LaterEvents
    BY DEF LaterEvents, RaisedEvents, Events
  <2>2. CASE r = q
    BY <1>2, <1>4, <2>2
  <2>3. CASE r # q
    <3>1. PortInv(r)
      BY <1>2, <1>3, <1>4, <2>1, <2>3, DispatchOutcome
    <3>2. OnTime(r)
      BY <1>2, <1>3, <1>4, <2>1, <2>3, DispatchedOnTime
    <3> QED BY <3>1, <3>2 DEF PortInv
  <2> QED BY <2>2, <2>3
<1>6. revents' \subseteq revents /\ Serving(p, FD_FAULT)
  BY DEF FaultTimerExpires
<1>7. ASSUME NEW x \in revents', x[1] = p PROVE x[2] \in LastFds
  <2>1. x \in Ports \X Fds
    BY <1>1, <1>6, <1>7, PortsAreNumbers DEF ClockInv, TypeOK, Uds
  <2>2. x[2] \in Fds /\ FD_FAULT <= x[2]
    BY <1>6, <1>7, <2>1, PortsAreNumbers DEF Serving
  <2> QED BY <2>2 DEF LastFds, Fds, Sockets, TimerFds, FD_EVENT, FD_GENERAL,
                      FD_DELAY, FD_SYNC_TX, FD_RTNL, FD_FAULT
<1> QED BY <1>3, <1>5, <1>6, <1>7, PortMovesOnTime

(* The netlink descriptor, which is read after the port's timers.          *)
LEMMA RtnlOnTime ==
  ASSUME AsapFaults = {}, TimerInv, NEW p \in Ports,
         RtnlRead(p) \/ port_link_status(p) \/ RtnlDone(p)
  PROVE  PortsOnTime' /\ SnapshotOwned'
<1>1. port[p] \in PortRec /\ PortInv(port[p]) /\ OnTime(port[p]) /\ ClockInv
  BY PortOnTime DEF TimerInv
<1>2. CASE RtnlRead(p)
  BY <1>2 DEF RtnlRead, TimerInv, PortsOnTime, SnapshotOwned
<1>3. CASE port_link_status(p)
  <2>1. PICK up \in BOOLEAN, relabelled \in BOOLEAN :
          LET r == LinkMessage(port[p], up, relabelled)
          IN \E phc \in PhcOutcomes(r) :
               LET s == IF phc = "modes"
                        THEN [r EXCEPT !.linkUp = FALSE, !.linkFlags = {"CHANGED"}]
                        ELSE r
               IN \E t \in IF phc = "failed"
                            THEN Dispatched([s EXCEPT !.lastFault = "SWITCH_PHC"],
                                            "FAULT_DETECTED", FALSE)
                            ELSE {s} :
                    port' = [port EXCEPT ![p] = t]
    BY <1>3 DEF port_link_status
  <2> DEFINE flags == (IF port[p].linkUp = up THEN {} ELSE {"CHANGED"})
                      \cup (IF relabelled THEN {"TS_LABEL"} ELSE {})
             r == [port[p] EXCEPT !.linkUp = up, !.linkFlags = flags]
             u == [r EXCEPT !.linkUp = FALSE, !.linkFlags = {"CHANGED"}]
  <2>2. LinkMessage(port[p], up, relabelled) = r
    BY DEF LinkMessage
  <2>3. flags \in SUBSET LinkFlags /\ "SWITCH_PHC" \in FaultTypes
    BY DEF LinkFlags, FaultTypes
  <2> HIDE DEF flags
  <2>4. r \in PortRec /\ PortInv(r) /\ OnTime(r)
    <3>1. r \in PortRec /\ PortInv(r)
      BY <1>1, <2>3, Relabelled
    <3>2. r.state = port[p].state /\ r.armed = port[p].armed
      BY <1>1 DEF PortRec
    <3> HIDE DEF r
    <3> QED BY <1>1, <3>1, <3>2 DEF OnTime
  <2> HIDE DEF r
  <2>5. u \in PortRec /\ PortInv(u) /\ OnTime(u)
    <3>1. u \in PortRec /\ PortInv(u)
      BY <2>3, <2>4, Relabelled DEF LinkFlags
    <3>2. u.state = r.state /\ u.armed = r.armed
      BY <2>4 DEF PortRec
    <3> HIDE DEF u
    <3> QED BY <2>4, <3>1, <3>2 DEF OnTime
  <2> HIDE DEF u
  <2>6. PICK s \in {r, u} :
          \/ port' = [port EXCEPT ![p] = s]
          \/ \E t \in Dispatched([s EXCEPT !.lastFault = "SWITCH_PHC"],
                                 "FAULT_DETECTED", FALSE) :
               port' = [port EXCEPT ![p] = t]
    BY <2>1, <2>2 DEF u
  <2>7. PICK t \in PortRec : /\ PortInv(t) /\ OnTime(t)
                             /\ port' = [port EXCEPT ![p] = t]
    <3> DEFINE w == [s EXCEPT !.lastFault = "SWITCH_PHC"]
    <3>1. s \in PortRec /\ PortInv(s) /\ OnTime(s)
      BY <2>4, <2>5
    <3>2. w \in PortRec /\ PortInv(w) /\ w.state = s.state
      BY <2>3, <3>1, Relabelled
    <3>3. w.armed = s.armed
      BY <3>1 DEF PortRec
    <3>4. "FAULT_DETECTED" \in RaisedEvents /\ "FAULT_DETECTED" \in LaterEvents
      BY DEF LaterEvents, RaisedEvents, Events
    <3> HIDE DEF w
    <3>5. OnTime(w)
      BY <3>1, <3>2, <3>3 DEF OnTime
    <3>6. \A t \in Dispatched(w, "FAULT_DETECTED", FALSE) :
             t \in PortRec /\ PortInv(t) /\ OnTime(t)
      <4> SUFFICES ASSUME NEW t \in Dispatched(w, "FAULT_DETECTED", FALSE)
                   PROVE  t \in PortRec /\ PortInv(t) /\ OnTime(t)
        OBVIOUS
      <4>1. PortInv(t)
        BY <3>2, <3>4, DispatchOutcome
      <4>2. OnTime(t)
        BY <3>2, <3>4, <3>5, DispatchedOnTime
      <4> QED BY <4>1, <4>2 DEF PortInv
    <3> QED BY <2>6, <3>1, <3>6 DEF w
  <2>8. revents' = revents /\ phase = "rtnl" /\ cur = p
    BY <1>3 DEF port_link_status
  <2>9. \A x \in revents' : x[1] = p => x[2] \in LastFds
    BY <1>1, <2>8 DEF ClockInv, Served
  <2> QED BY <2>7, <2>8, <2>9, PortMovesOnTime
<1>4. CASE RtnlDone(p)
  <2>1. Answered(p, FD_RTNL, port[p], RtnlEvent(port[p])) /\ phase = "rtnl" /\ cur = p
    BY <1>4 DEF RtnlDone
  <2>2. RtnlEvent(port[p]) \in HandlerEvents
    BY DEF RtnlEvent, HandlerEvents, QuietEvents, RaisedEvents, Events
  <2>3. FD_RTNL \in Fds \ {FD_FAULT}
    BY DEF Fds, FD_RTNL, FD_FAULT
  <2>4. \A x \in revents : x[1] = p => x[2] \notin TransmitFds /\ x[2] # FD_DELAY
    BY <1>1, <2>1 DEF ClockInv, Served, LastFds, TransmitFds, FD_RTNL, FD_FAULT,
                      FD_DELAY, FD_MANNO, FD_SYNC_TX
  <2> QED BY <1>1, <2>1, <2>2, <2>3, <2>4, AnswerOnTime DEF StaysIn
<1> QED BY <1>2, <1>3, <1>4

(* The state decision, when nothing is left to be served.                  *)
LEMMA DecisionOnTime ==
  ASSUME AsapFaults = {}, TimerInv, StateDecisionEvent
  PROVE  PortsOnTime' /\ SnapshotOwned'
<1>1. PICK p \in Ports : \/ ComputeBest(p) \/ ComputeBestRound(p)
                         \/ ComputeBestDone(p) \/ Decide(p)
  BY DEF StateDecisionEvent
<1>2. port[p] \in PortRec /\ PortInv(port[p]) /\ OnTime(port[p]) /\ ClockInv
  BY PortOnTime DEF TimerInv
<1>3. revents = {} /\ revents' = {}
  BY <1>1, <1>2 DEF ComputeBest, ComputeBestRound, ComputeBestDone, Decide,
                    ClockInv, Served
<1>4. CASE ComputeBest(p)
  <2> DEFINE r == [port[p] EXCEPT !.best = Null]
  <2>1. /\ r \in PortRec /\ r.state = port[p].state /\ r.armed = port[p].armed
        /\ r.heard = port[p].heard /\ r.msgs = port[p].msgs /\ r.best = Null
    BY <1>2 DEF PortRec
  <2>2. port' = [port EXCEPT ![p] = r]
    BY <1>4 DEF ComputeBest
  <2> HIDE DEF r
  <2>3. PortInv(r) /\ OnTime(r)
    BY <1>2, <2>1 DEF PortInv, Timed, HoldsNothing, OnTime
  <2> QED BY <1>3, <2>1, <2>2, <2>3, PortMovesOnTime
<1>5. CASE ComputeBestRound(p)
  <2>1. PICK k \in Prunings(port[p].msgs[port[p].heard[idx]]) :
          port' = [port EXCEPT ![p] =
            computeBestStep(@, port[p].heard[idx], k, clockIdentity, p)]
    BY <1>5 DEF ComputeBestRound
  <2>2. /\ idx \in 1 .. Len(port[p].heard)
        /\ HasDataset(port[p], idx - 1)
    BY <1>2, <1>5 DEF ComputeBestRound, ClockInv, Computed
  <2> DEFINE r == computeBestStep(port[p], port[p].heard[idx], k, clockIdentity, p)
  <2>3. PortInv(r) /\ r.state = port[p].state /\ r.armed = port[p].armed
    <3> DEFINE q == port[p]
               h == q.heard[idx]
               c == clockIdentity
    <3>1. /\ q \in PortRec /\ PortInv(q) /\ idx \in 1 .. Len(q.heard)
          /\ HasDataset(q, idx - 1) /\ h = q.heard[idx] /\ k \in Prunings(q.msgs[h])
          /\ r = computeBestStep(q, h, k, c, p)
      BY <1>2, <2>2
    <3> HIDE DEF q, h, c, r
    <3>2. PortInv(r) /\ HasDataset(r, idx)
      BY <3>1, BestStep
    <3>3. r.state = q.state /\ r.armed = q.armed
      BY <3>1, BestStepKeeps
    <3> QED BY <3>2, <3>3 DEF q
  <2> HIDE DEF r
  <2>4. port' = [port EXCEPT ![p] = r]
    BY <2>1 DEF r
  <2>5. OnTime(r) /\ r \in PortRec
    BY <1>2, <2>3 DEF OnTime, PortInv
  <2> QED BY <1>3, <2>3, <2>4, <2>5, PortMovesOnTime
<1>6. CASE ComputeBestDone(p)
  BY <1>3, <1>6 DEF ComputeBestDone, TimerInv, PortsOnTime, SnapshotOwned
<1>7. CASE Decide(p)
  <2>1. PICK r \in Dispatched(port[p], EventOf(Recommended(p)), fresh) :
          port' = [port EXCEPT ![p] = r]
    BY <1>7 DEF Decide
  <2>2. fresh \in BOOLEAN
    BY <1>2 DEF ClockInv, TypeOK
  <2>3. EventOf(Recommended(p)) \in RaisedEvents /\ EventOf(Recommended(p)) \in LaterEvents
    <3>1. Recommended(p) \in Roles
      BY RecommendedRole
    <3>2. \A role \in Roles : EventOf(role) \in LaterEvents
      BY DEF Roles, EventOf, LaterEvents, RaisedEvents, Events
    <3> QED BY <3>1, <3>2 DEF LaterEvents
  <2>4. PortInv(r)
    BY <1>2, <2>1, <2>2, <2>3, DispatchOutcome
  <2>5. OnTime(r) /\ r \in PortRec
    BY <1>2, <2>1, <2>2, <2>3, <2>4, DispatchedOnTime DEF PortInv
  <2> QED BY <1>3, <2>1, <2>4, <2>5, PortMovesOnTime
<1> QED BY <1>1, <1>4, <1>5, <1>6, <1>7

----------------------------------------------------------------------------
(* The invariant and what follows from it.                                 *)

(* Ports start with timers that fit, and with nothing to be served.        *)
LEMMA InitOnTime == Init => TimerInv
<1> SUFFICES ASSUME Init PROVE TimerInv
  OBVIOUS
<1>1. ASSUME NEW p \in Ports PROVE OnTime(port[p])
  <2>1. port[p] \in Dispatched(Created, "INITIALIZE", FALSE)
    BY DEF Init
  <2> QED BY <2>1, CreatedOnTime
<1>2. PortsOnTime /\ SnapshotOwned
  BY <1>1 DEF PortsOnTime, SnapshotOwned, Init
<1> QED BY <1>2, InitEstablishesInv DEF TimerInv

(* The step of the induction.                                              *)
LEMMA NextOnTime ==
  ASSUME AsapFaults = {}
  PROVE  TimerInv /\ [Next]_vars => TimerInv'
<1> SUFFICES ASSUME TimerInv, [Next]_vars PROVE PortsOnTime' /\ SnapshotOwned'
  BY NextKeepsInv DEF TimerInv
<1>1. CASE Poll
  BY <1>1, PollOnTime
<1>2. CASE Serve
  <2>1. PICK p \in Ports :
          \/ \E f \in Fds : \/ AnnounceTimeout(p, f) \/ TransmitTimeout(p, f)
                            \/ ReceiveOther(p, f) \/ ReceiveAnnounce(p, f)
                            \/ ReceiveSync(p, f)
          \/ QualificationTimeout(p) \/ FaultTimerExpires(p)
          \/ RtnlRead(p) \/ port_link_status(p) \/ RtnlDone(p)
    BY <1>2 DEF Serve
  <2>2. FD_DELAY \in Fds
    BY DEF Fds, TimerFds, FD_DELAY, FD_SYNC_TX
  <2> QED BY <2>1, <2>2, TimeoutsOnTime, MessagesOnTime, FaultTimerOnTime, RtnlOnTime
<1>3. CASE Manage \/ EndPass
  BY <1>3 DEF Manage, EndPass, TimerInv, PortsOnTime, SnapshotOwned
<1>4. CASE StateDecisionEvent
  BY <1>4, DecisionOnTime
<1>5. CASE UNCHANGED vars
  BY <1>5 DEF vars, loop, TimerInv, PortsOnTime, SnapshotOwned
<1> QED BY <1>1, <1>2, <1>3, <1>4, <1>5 DEF Next

(* TimerInv is an invariant.                                               *)
LEMMA TimerInvariant ==
  ASSUME AsapFaults = {}
  PROVE  Spec => []TimerInv
  BY InitOnTime, NextOnTime, PTL DEF Spec

(* Unless a fault is reset ASAP, only a master transmits Announce and Sync: *)
(* whatever ended a port's mastership inside a pass also took its transmit *)
(* timers out of the snapshot (the break after a fault in clock_poll).     *)
THEOREM OnlyMastersEverTransmit ==
  ASSUME AsapFaults = {}
  PROVE  Spec => []OnlyMastersTransmit
<1>1. TimerInv => OnlyMastersTransmit
  <2> SUFFICES ASSUME TimerInv, NEW p \in Ports, port[p].state \notin Mastering
               PROVE  /\ port[p].armed \cap {"MANNO", "SYNC_TX"} = {}
                      /\ revents \cap {<< p, FD_MANNO >>, << p, FD_SYNC_TX >>} = {}
    BY DEF OnlyMastersTransmit
  <2>1. port[p].armed \cap {"MANNO", "SYNC_TX"} = {}
    BY DEF TimerInv, PortsOnTime, OnTime, TransmitTimers
  <2>2. \A x \in revents : x[1] = p => x[2] \notin {FD_MANNO, FD_SYNC_TX}
    BY DEF TimerInv, SnapshotOwned, Owned
  <2> QED BY <2>1, <2>2
<1> QED BY <1>1, TimerInvariant, PTL

(* A peer-delay port measures its link in every state _p2pTransition leads *)
(* it through.                                                             *)
THEOREM PeerDelayNeverStops ==
  ASSUME AsapFaults = {}
  PROVE  Spec => []PdelayKeepsRunning
<1>1. TimerInv => PdelayKeepsRunning
  BY DEF TimerInv, PortsOnTime, OnTime, PdelayKeepsRunning
<1> QED BY <1>1, TimerInvariant, PTL

----------------------------------------------------------------------------
(* What a port keeps when its master falls silent or a fault is detected:  *)
(* an announce of the master to send delay requests to, and a fault timer  *)
(* to wait for.                                                            *)

(* What no dispatch changes, and what it cannot lose.                      *)
Keeps(q, r) ==
    /\ r.linkUp = q.linkUp /\ r.faultTimer = q.faultTimer
    /\ Stocked(q) => Stocked(r)

(* A slave port has an announce of its best master.                        *)
Stock(q) == q.state \in Slaving => Stocked(q)

(* The second loop finds every port stocked; the first has looked at the   *)
(* ports before cur.                                                       *)
StockInv ==
    /\ Settled => \A p \in Ports : Stock(port[p])
    /\ phase = "compute" => \A p \in Ports : p < cur => Stocked(port[p])
    /\ phase = "decide" => \A p \in Ports : Stocked(port[p])

(* A faulty port with its link up has its fault timer running, but for the *)
(* one whose netlink messages are being read.                              *)
Awaited(q) == q.state = "FAULTY" /\ q.linkUp => q.faultTimer

FaultInv == \A p \in Ports : Awaited(port[p]) \/ (phase = "rtnl" /\ cur = p)

----------------------------------------------------------------------------
(* One dispatch.                                                           *)

(* portStateUpdate keeps the link, the fault timer and the stock.          *)
LEMMA UpdateKeeps ==
  ASSUME NEW q \in PortRec, NEW e, NEW mdiff, NEW ok \in BOOLEAN
  PROVE  Keeps(q, portStateUpdate(q, e, mdiff, ok))
<1> DEFINE d == IF portIsEnabled(q.state) THEN portOpDisable(q) ELSE q
           i == port_initialize(d, ok)
           r == portStateUpdate(q, e, mdiff, ok)
<1>1. d \in PortRec /\ Keeps(q, d)
  <2>1. /\ portOpDisable(q).best = Null
        /\ portOpDisable(q).linkUp = q.linkUp
        /\ portOpDisable(q).faultTimer = q.faultTimer
    BY DEF portOpDisable, PortRec
  <2>2. portOpDisable(q) \in PortRec
    BY Disabled
  <2> QED BY <2>1, <2>2 DEF Keeps, Stocked
<1> HIDE DEF d
<1>2. i \in PortRec /\ i.best = d.best /\ i.msgs = d.msgs
  BY <1>1, Initialized
<1>3. i.linkUp = d.linkUp /\ i.faultTimer = d.faultTimer
  BY <1>1 DEF port_initialize, PortRec
<1> HIDE DEF i
<1>4. \A s : \A v \in PortRec : Keeps(v, [v EXCEPT !.state = s])
  BY DEF Keeps, Stocked, PortRec
<1>5. \E s : r = [i EXCEPT !.state = s] \/ r = [q EXCEPT !.state = s]
  BY DEF portStateUpdate, i, d
<1> HIDE DEF r
<1>6. Keeps(i, r) \/ Keeps(q, r)
  BY <1>2, <1>4, <1>5
<1>7. Keeps(q, i)
  BY <1>1, <1>2, <1>3 DEF Keeps, Stocked
<1>8. Keeps(q, r)
  BY <1>6, <1>7 DEF Keeps
<1> QED BY <1>8 DEF r

(* So does a transition.                                                   *)
LEMMA TransitionKeeps ==
  ASSUME NEW q \in PortRec
  PROVE  Keeps(q, Transition(q))
<1>1. \A a : Keeps(q, [q EXCEPT !.armed = a])
  BY DEF Keeps, Stocked, PortRec
<1>2. Keeps(q, portOpDisable(q))
  BY DEF Keeps, Stocked, portOpDisable, PortRec
<1> QED BY <1>1, <1>2 DEF Transition

(* And a dispatch.                                                         *)
LEMMA OnceKeeps ==
  ASSUME NEW q \in PortRec, PortInv(q), NEW e \in RaisedEvents,
         NEW mdiff \in BOOLEAN, NEW ok \in BOOLEAN
  PROVE  Keeps(q, DispatchOnce(q, e, mdiff, ok))
<1> DEFINE u == portStateUpdate(q, e, mdiff, ok)
<1>1. u \in PortRec
  BY Updated
<1>2. Keeps(q, u)
  BY UpdateKeeps
<1> HIDE DEF u
<1>3. Keeps(u, Transition(u))
  BY <1>1, TransitionKeeps
<1>4. DispatchOnce(q, e, mdiff, ok) \in {u, Transition(u)}
  BY DEF DispatchOnce, u
<1> QED BY <1>2, <1>3, <1>4 DEF Keeps

(* bc_dispatch with any of the reasons a decision or a handler may give.   *)
LEMMA DispatchKeeps ==
  ASSUME NEW q \in PortRec, PortInv(q), NEW e \in RaisedEvents,
         NEW mdiff \in BOOLEAN, NEW r \in Dispatched(q, e, mdiff)
  PROVE  Keeps(q, r)
<1>1. PICK ok \in InitOutcomes, switched \in BOOLEAN :
         r = bc_dispatch(q, e, mdiff, ok, switched)
  BY DEF Dispatched
<1>2. ok \in BOOLEAN
  BY ClockConfig DEF InitOutcomes
<1> DEFINE u == DispatchOnce(q, e, mdiff, ok)
           v == [u EXCEPT !.lastFault = "SWITCH_PHC"]
           w == DispatchOnce(v, "FAULT_DETECTED", FALSE, ok)
<1>3. r = w \/ r = u
  BY <1>1 DEF bc_dispatch
<1>4. PortInv(u) /\ Keeps(q, u)
  BY <1>2, DispatchedOnce, OnceKeeps
<1> HIDE DEF u
<1>5. v \in PortRec /\ PortInv(v) /\ Keeps(u, v)
  <2>1. "SWITCH_PHC" \in FaultTypes /\ u \in PortRec
    BY <1>4 DEF FaultTypes, PortInv
  <2>2. v \in PortRec /\ PortInv(v)
    BY <1>4, <2>1, Relabelled
  <2>3. v.linkUp = u.linkUp /\ v.faultTimer = u.faultTimer /\ v.best = u.best
        /\ v.msgs = u.msgs
    BY <2>1 DEF PortRec
  <2> HIDE DEF v
  <2> QED BY <2>2, <2>3 DEF Keeps, Stocked
<1> HIDE DEF v
<1>6. Keeps(v, w)
  BY <1>2, <1>5, OnceKeeps DEF RaisedEvents, Events
<1> HIDE DEF w
<1> QED BY <1>3, <1>4, <1>5, <1>6 DEF Keeps

----------------------------------------------------------------------------
(* The announces of the master.                                            *)

(* A handler's dispatch keeps a slave port stocked; where it ends the      *)
(* slave role it does not matter what was kept.                            *)
LEMMA DispatchStock ==
  ASSUME NEW q \in PortRec, PortInv(q), NEW e \in QuietEvents,
         Stock(q) \/ e \in EndsSlaving, NEW r \in Dispatched(q, e, FALSE)
  PROVE  Stock(r)
<1>1. e \in RaisedEvents
  BY DEF QuietEvents
<1>2. Reasons(q, e, r) /\ Keeps(q, r)
  BY <1>1, DispatchOutcome, DispatchKeeps
<1>3. e # "RS_SLAVE"
  BY DEF QuietEvents
<1> QED BY <1>2, <1>3 DEF Reasons, Keeps, Stock

(* The end of a round in clock_poll: the dispatch and the fault timer.     *)
LEMMA AnswerStock ==
  ASSUME ClockInv, \A i \in Ports : Stock(port[i]), NEW p \in Ports, NEW f,
         NEW q \in PortRec, PortInv(q), NEW e \in QuietEvents,
         Stock(q) \/ e \in EndsSlaving, Answered(p, f, q, e)
  PROVE  \A i \in Ports : Stock(port'[i])
<1>1. PICK r \in Dispatched(q, e, FALSE) :
        port' = [port EXCEPT ![p] = FaultTimeout(r)]
  BY DEF Answered
<1>2. e \in RaisedEvents
  BY DEF QuietEvents
<1>3. PortInv(r) /\ Stock(r)
  BY <1>1, <1>2, DispatchOutcome, DispatchStock
<1> DEFINE t == FaultTimeout(r)
<1>4. t.state = r.state /\ t.best = r.best /\ t.msgs = r.msgs
  BY <1>3, FaultTimed DEF PortInv
<1> HIDE DEF t
<1>5. port'[p] = t /\ \A i \in Ports \ {p} : port'[i] = port[i]
  <2>1. port \in [Ports -> PortRec]
    BY DEF ClockInv, TypeOK
  <2> QED BY <1>1, <2>1 DEF t
<1> QED BY <1>3, <1>4, <1>5 DEF Stock, Stocked

(* Most handlers of a pass end in the dispatch of what they return, and    *)
(* keep a slave port stocked until then, or end the slave role.            *)
Ends(p) ==
    \E q \in PortRec, e \in QuietEvents : \E f :
        /\ PortInv(q) /\ Answered(p, f, q, e)
        /\ Stock(port[p]) => Stock(q) \/ e \in EndsSlaving

(* Every handler ends with a port that is stocked, or with an event that   *)
(* ends the slave role.                                                    *)
LEMMA HandlersEnd ==
  ASSUME ClockInv, NEW p \in Ports,
         \/ \E f \in Fds : \/ AnnounceTimeout(p, f) \/ TransmitTimeout(p, f)
                           \/ ReceiveOther(p, f) \/ ReceiveAnnounce(p, f)
                           \/ ReceiveSync(p, f)
         \/ QualificationTimeout(p) \/ RtnlDone(p)
  PROVE  Ends(p)
<1>1. port[p] \in PortRec /\ PortInv(port[p])
  BY PortTyped
<1>0. ASSUME NEW q \in PortRec, PortInv(q), NEW e \in QuietEvents, NEW f,
             Answered(p, f, q, e), Stock(port[p]) => Stock(q) \/ e \in EndsSlaving
      PROVE  Ends(p)
  BY <1>0 DEF Ends
<1>2. /\ {"NONE", "STATE_DECISION_EVENT", "SYNCHRONIZATION_FAULT",
          "MASTER_CLOCK_SELECTED", "FAULT_CLEARED", "QUALIFICATION_TIMEOUT_EXPIRES"}
           \subseteq QuietEvents
      /\ EndsSlaving \subseteq QuietEvents /\ QuietEvents \subseteq RaisedEvents
      /\ "FAULT_DETECTED" \in EndsSlaving
      /\ "ANNOUNCE_RECEIPT_TIMEOUT_EXPIRES" \in EndsSlaving
  BY DEF EndsSlaving, QuietEvents, RaisedEvents, Events
<1>3. ASSUME NEW f \in Fds, AnnounceTimeout(p, f)
      PROVE  Ends(p)
  <2> DEFINE q == IF port[p].best = Null THEN port[p]
                  ELSE fc_clear(port[p], port[p].best)
             r == [q EXCEPT !.armed = @ \cup {"ANNOUNCE"}]
  <2>1. f \in Fds \ LastFds /\ Serving(p, f)
    BY <1>3 DEF AnnounceTimeout, LastFds, FD_ANNOUNCE, FD_SYNC_RX, FD_RTNL, FD_FAULT
  <2>2. port[p].state # "FAULTY"
    BY <2>1, ServedIsUp
  <2>3. q \in PortRec /\ PortInv(q) /\ q.state # "FAULTY"
    <3>1. port[p].best \in Senders \cup {Null}
      BY <1>1 DEF PortRec
    <3> QED BY <1>1, <2>2, <3>1, Cleared
  <2> HIDE DEF q
  <2>4. r \in PortRec /\ PortInv(r)
    BY <2>3, Rearmed DEF Timers
  <2>5. \E e \in EndsSlaving : Answered(p, f, r, e)
    BY <1>2, <1>3 DEF AnnounceTimeout, q
  <2> HIDE DEF r
  <2> QED BY <1>0, <1>2, <2>4, <2>5
<1>4. ASSUME NEW f \in Fds, TransmitTimeout(p, f)
      PROVE  Ends(p)
  <2> DEFINE r == [port[p] EXCEPT !.armed = @ \cup {TimerOf(f)}]
  <2>1. f \in Fds \ LastFds /\ Serving(p, f) /\ TimerOf(f) \in Timers
    BY <1>4 DEF TransmitTimeout, LastFds, FD_DELAY, FD_MANNO, FD_SYNC_TX, FD_RTNL,
                FD_FAULT, FD_ANNOUNCE, FD_SYNC_RX, FD_QUALIFICATION, TimerOf, Timers
  <2>2. r \in PortRec /\ PortInv(r)
    BY <1>1, <2>1, ServedIsUp, Rearmed
  <2>3. Stock(port[p]) => Stock(r)
    BY <1>1 DEF Stock, Stocked, PortRec
  <2>4. PICK e \in {"NONE", "FAULT_DETECTED"} : Answered(p, f, r, e)
    BY <1>4 DEF TransmitTimeout
  <2> HIDE DEF r
  <2> QED BY <1>0, <1>2, <2>2, <2>3, <2>4
<1>5. ASSUME NEW f \in Fds, ReceiveOther(p, f)
      PROVE  Ends(p)
  <2> DEFINE b == [port[p] EXCEPT !.lastFault = "BAD_PEER_NETWORK"]
  <2>1. b \in PortRec /\ PortInv(b)
    BY <1>1, Relabelled DEF FaultTypes
  <2>2. \/ Answered(p, f, port[p], "NONE")
        \/ Answered(p, f, port[p], "FAULT_DETECTED")
        \/ Answered(p, f, b, "FAULT_DETECTED")
    BY <1>5 DEF ReceiveOther
  <2> HIDE DEF b
  <2>3. CASE Answered(p, f, port[p], "NONE")
    BY <1>0, <1>1, <1>2, <2>3
  <2>4. CASE Answered(p, f, port[p], "FAULT_DETECTED")
    BY <1>0, <1>1, <1>2, <2>4
  <2>5. CASE Answered(p, f, b, "FAULT_DETECTED")
    BY <1>0, <1>2, <2>1, <2>5
  <2> QED BY <2>2, <2>3, <2>4, <2>5
<1>6. ASSUME NEW f \in Fds, ReceiveAnnounce(p, f)
      PROVE  Ends(p)
  <2>0. PICK m \in Hears[p] :
          \E k \in Prunings(port[p].msgs[m.sender]) :
            LET a == portMsgProAnnounce(port[p], m, k)
            IN Answered(p, f, a.port,
                        IF a.diff THEN "STATE_DECISION_EVENT" ELSE "NONE")
    BY <1>6 DEF ReceiveAnnounce
  <2>1. PICK k \in Prunings(port[p].msgs[m.sender]) :
          LET a == portMsgProAnnounce(port[p], m, k)
          IN Answered(p, f, a.port,
                      IF a.diff THEN "STATE_DECISION_EVENT" ELSE "NONE")
    BY <2>0
  <2>2. m \in Announces
    <3>1. Hears \in [Ports -> SUBSET Announces]
      BY ClockConfig
    <3> QED BY <3>1
  <2> DEFINE a == portMsgProAnnounce(port[p], m, k)
             e == IF a.diff THEN "STATE_DECISION_EVENT" ELSE "NONE"
  <2>3. /\ a.port \in PortRec /\ a.port.state = port[p].state
        /\ port[p].armed \subseteq a.port.armed
        /\ Stocked(port[p]) => Stocked(a.port)
        /\ Distinct(port[p].heard) => Distinct(a.port.heard)
    BY <1>1, <2>2, Announced
  <2>4. port[p].state # "FAULTY"
    <3>1. f \in Fds \ LastFds /\ Serving(p, f)
      BY <1>6, FdsApart DEF ReceiveAnnounce
    <3> QED BY <3>1, ServedIsUp
  <2>5. PortInv(a.port) /\ (Stock(port[p]) => Stock(a.port))
    BY <1>1, <2>3, <2>4, Handled DEF PortInv, Stock
  <2>6. Answered(p, f, a.port, e) /\ e \in QuietEvents
    BY <1>2, <2>1
  <2> HIDE DEF a, e
  <2> QED BY <1>0, <2>3, <2>5, <2>6
<1>7. ASSUME NEW f \in Fds, ReceiveSync(p, f)
       PROVE  Ends(p)
  <2> DEFINE q == IF SyncTimeout THEN [port[p] EXCEPT !.armed = @ \cup {"SYNC_RX"}]
                  ELSE port[p]
  <2>1. port[p].state # "FAULTY"
    <3>1. f \in Fds \ LastFds /\ Serving(p, f)
      BY <1>7, FdsApart DEF ReceiveSync
    <3> QED BY <3>1, ServedIsUp
  <2>2. q \in PortRec /\ PortInv(q)
    BY <1>1, <2>1, Rearmed DEF Timers
  <2>3. Stock(port[p]) => Stock(q)
    <3>1. \A A : Stock(port[p]) => Stock([port[p] EXCEPT !.armed = A])
      BY <1>1 DEF Stock, Stocked, PortRec
    <3> QED BY <1>1, <3>1
  <2>4. PICK e \in {"SYNCHRONIZATION_FAULT", "MASTER_CLOCK_SELECTED"} :
          \E r \in Dispatched(q, e, FALSE) : Answered(p, f, r, "NONE")
    BY <1>7 DEF ReceiveSync
  <2> HIDE DEF q
  <2>5. PICK r \in Dispatched(q, e, FALSE) : Answered(p, f, r, "NONE")
    BY <2>4
  <2>6. PortInv(r) /\ (Stock(port[p]) => Stock(r)) /\ r \in PortRec
    BY <1>2, <2>2, <2>3, DispatchOutcome, DispatchStock DEF PortInv
  <2> QED BY <1>0, <1>2, <2>5, <2>6
<1>8. ASSUME QualificationTimeout(p)
       PROVE  Ends(p)
  BY <1>0, <1>1, <1>2, <1>8 DEF QualificationTimeout
<1>9. ASSUME RtnlDone(p)
       PROVE  Ends(p)
  <2>1. RtnlEvent(port[p]) \in QuietEvents
    BY <1>2 DEF RtnlEvent
  <2> QED BY <1>0, <1>1, <1>9, <2>1 DEF RtnlDone
<1> QED BY <1>3, <1>4, <1>5, <1>6, <1>7, <1>8, <1>9

(* The handlers of a pass.                                                 *)
LEMMA ServeKeepsStock ==
  ASSUME ClockInv, \A i \in Ports : Stock(port[i]), Serve
  PROVE  \A i \in Ports : Stock(port'[i])
<1>1. PICK p \in Ports : \/ Ends(p) \/ FaultTimerExpires(p) \/ RtnlRead(p)
                         \/ port_link_status(p)
  BY HandlersEnd DEF Serve
<1>2. port[p] \in PortRec /\ PortInv(port[p]) /\ Stock(port[p])
  BY PortTyped
<1>3. /\ {"FAULT_CLEARED", "FAULT_DETECTED"} \subseteq QuietEvents
      /\ QuietEvents \subseteq RaisedEvents /\ "FAULT_DETECTED" \in EndsSlaving
  BY DEF EndsSlaving, QuietEvents, RaisedEvents, Events
<1>4. ASSUME Ends(p)
      PROVE  \A i \in Ports : Stock(port'[i])
  BY <1>2, <1>4, AnswerStock DEF Ends
<1>5. ASSUME NEW r \in PortRec, port' = [port EXCEPT ![p] = r], Stock(r)
      PROVE  \A i \in Ports : Stock(port'[i])
  <2>1. port \in [Ports -> PortRec]
    BY DEF ClockInv, TypeOK
  <2> QED BY <1>5, <2>1
<1>6. ASSUME FaultTimerExpires(p)
       PROVE  \A i \in Ports : Stock(port'[i])
  <2> DEFINE q == [port[p] EXCEPT !.faultTimer = FALSE]
  <2>1. /\ q \in PortRec /\ q.state = port[p].state /\ q.armed = port[p].armed
        /\ q.heard = port[p].heard /\ q.msgs = port[p].msgs
        /\ q.best = port[p].best
    BY <1>2 DEF PortRec
  <2>2. PICK r \in Dispatched(q, "FAULT_CLEARED", FALSE) \cup {q} :
          port' = [port EXCEPT ![p] = r]
    BY <1>6 DEF FaultTimerExpires
  <2> HIDE DEF q
  <2>3. PortInv(q) /\ Stock(q)
    BY <1>2, <2>1 DEF PortInv, Timed, HoldsNothing, Stock, Stocked
  <2>4. r \in PortRec /\ Stock(r)
    BY <1>3, <2>1, <2>2, <2>3, DispatchOutcome, DispatchStock DEF PortInv
  <2> QED BY <1>5, <2>2, <2>4
<1>7. ASSUME RtnlRead(p)
       PROVE  \A i \in Ports : Stock(port'[i])
  BY <1>7 DEF RtnlRead
<1>8. ASSUME port_link_status(p)
       PROVE  \A i \in Ports : Stock(port'[i])
  <2>1. PICK up \in BOOLEAN, relabelled \in BOOLEAN :
          LET r == LinkMessage(port[p], up, relabelled)
          IN \E phc \in PhcOutcomes(r) :
               LET s == IF phc = "modes"
                        THEN [r EXCEPT !.linkUp = FALSE, !.linkFlags = {"CHANGED"}]
                        ELSE r
               IN \E t \in IF phc = "failed"
                            THEN Dispatched([s EXCEPT !.lastFault = "SWITCH_PHC"],
                                            "FAULT_DETECTED", FALSE)
                            ELSE {s} :
                    port' = [port EXCEPT ![p] = t]
    BY <1>8 DEF port_link_status
  <2> DEFINE flags == (IF port[p].linkUp = up THEN {} ELSE {"CHANGED"})
                      \cup (IF relabelled THEN {"TS_LABEL"} ELSE {})
             r == [port[p] EXCEPT !.linkUp = up, !.linkFlags = flags]
             u == [r EXCEPT !.linkUp = FALSE, !.linkFlags = {"CHANGED"}]
  <2>2. LinkMessage(port[p], up, relabelled) = r
    BY DEF LinkMessage
  <2>3. flags \in SUBSET LinkFlags /\ "SWITCH_PHC" \in FaultTypes
    BY DEF LinkFlags, FaultTypes
  <2> HIDE DEF flags
  <2>4. r \in PortRec /\ PortInv(r) /\ Stock(r)
    <3>1. r \in PortRec /\ PortInv(r)
      BY <1>2, <2>3, Relabelled
    <3>2. Stock(r)
      BY <1>2 DEF Stock, Stocked, PortRec
    <3> QED BY <3>1, <3>2
  <2> HIDE DEF r
  <2>5. u \in PortRec /\ PortInv(u) /\ Stock(u)
    <3>1. u \in PortRec /\ PortInv(u)
      BY <2>3, <2>4, Relabelled DEF LinkFlags
    <3>2. Stock(u)
      BY <2>4 DEF Stock, Stocked, PortRec
    <3> QED BY <3>1, <3>2
  <2> HIDE DEF u
  <2>6. PICK s \in {r, u} :
          \/ port' = [port EXCEPT ![p] = s]
          \/ \E t \in Dispatched([s EXCEPT !.lastFault = "SWITCH_PHC"],
                                 "FAULT_DETECTED", FALSE) :
               port' = [port EXCEPT ![p] = t]
    BY <2>1, <2>2 DEF u
  <2>7. CASE port' = [port EXCEPT ![p] = s]
    BY <1>5, <2>4, <2>5, <2>7
  <2>8. CASE port' # [port EXCEPT ![p] = s]
    <3> DEFINE w == [s EXCEPT !.lastFault = "SWITCH_PHC"]
    <3>1. w \in PortRec /\ PortInv(w)
      BY <2>3, <2>4, <2>5, Relabelled
    <3> HIDE DEF w
    <3>2. PICK t \in Dispatched(w, "FAULT_DETECTED", FALSE) :
            port' = [port EXCEPT ![p] = t]
      BY <2>6, <2>8 DEF w
    <3>3. t \in PortRec /\ Stock(t)
      BY <1>3, <3>1, <3>2, DispatchOutcome, DispatchStock DEF PortInv
    <3> QED BY <1>5, <3>2, <3>3
  <2> QED BY <2>7, <2>8
<1> QED BY <1>1, <1>4, <1>6, <1>7, <1>8

(* The loops of the decision: port_compute_best leaves a port stocked, and *)
(* the dispatch of a role does not take the announces away.                *)
LEMMA DecisionKeepsStock ==
  ASSUME ClockInv, StockInv, StateDecisionEvent
  PROVE  StockInv'
<1>1. PICK p \in Ports : \/ ComputeBest(p) \/ ComputeBestRound(p)
                         \/ ComputeBestDone(p) \/ Decide(p)
  BY DEF StateDecisionEvent
<1>2. port[p] \in PortRec /\ PortInv(port[p]) /\ p \in Nat /\ idx \in Nat
  BY PortTyped, PortsAreNumbers DEF ClockInv, TypeOK
<1>3. CASE ComputeBest(p) \/ ComputeBestRound(p)
  <2>1. /\ phase = "compute" /\ phase' = "compute" /\ cur = p /\ cur' = p
        /\ \A i \in Ports \ {p} : port'[i] = port[i]
    <3>1. port \in [Ports -> PortRec]
      BY DEF ClockInv, TypeOK
    <3> QED BY <1>3, <3>1 DEF ComputeBest, ComputeBestRound
  <2>2. \A i \in Ports : i < p => i # p /\ Stocked(port[i])
    <3>1. \A i \in Ports : i < p => i # p
      BY <1>2, PortsAreNumbers
    <3> QED BY <2>1, <3>1 DEF StockInv
  <2>3. \A i \in Ports : i < p => Stocked(port'[i])
    BY <2>1, <2>2
  <2> QED BY <2>1, <2>3 DEF StockInv, Settled
<1>4. CASE ComputeBestDone(p)
  <2>1. /\ phase = "compute" /\ cur = p /\ port' = port
        /\ idx > Len(port[p].heard)
        /\ \/ p < N /\ cur' = p + 1 /\ phase' = "compute"
           \/ p = N /\ phase' = "decide"
    BY <1>4 DEF ComputeBestDone
  <2>2. Stocked(port[p])
    <3>1. Len(port[p].heard) \in Nat
      BY <1>2 DEF PortRec
    <3>2. HasDataset(port[p], idx - 1)
      BY <1>2, <2>1, <3>1 DEF ClockInv, Computed
    <3> QED BY <3>2 DEF HasDataset, Stocked
  <2>3. \A i \in Ports : i < p \/ i = p => Stocked(port[i])
    BY <2>1, <2>2 DEF StockInv
  <2>4. CASE p < N /\ cur' = p + 1 /\ phase' = "compute"
    <3>1. \A i \in Ports : i < p + 1 => i < p \/ i = p
      BY <1>2, PortsAreNumbers
    <3>2. \A i \in Ports : i < cur' => Stocked(port'[i])
      BY <2>1, <2>3, <2>4, <3>1
    <3> QED BY <2>4, <3>2 DEF StockInv, Settled
  <2>5. CASE p = N /\ phase' = "decide"
    <3>1. \A i \in Ports : i < p \/ i = p
      BY <2>5, PortsAreNumbers DEF Ports
    <3>2. \A i \in Ports : Stocked(port'[i])
      BY <2>1, <2>3, <3>1
    <3> QED BY <2>5, <3>2 DEF StockInv, Settled
  <2> QED BY <2>1, <2>4, <2>5
<1>5. CASE Decide(p)
  <2>1. PICK r \in Dispatched(port[p], EventOf(Recommended(p)), fresh) :
          port' = [port EXCEPT ![p] = r]
    BY <1>5 DEF Decide
  <2>2. fresh \in BOOLEAN
    BY DEF ClockInv, TypeOK
  <2>3. PortInv(r) /\ r \in PortRec /\ Keeps(port[p], r)
    BY <1>2, <2>1, <2>2, RecommendedRole, DispatchOutcome, DispatchKeeps DEF PortInv
  <2>4. port'[p] = r /\ \A i \in Ports \ {p} : port'[i] = port[i]
    BY <2>1, <2>3, PortMoves
  <2>5. phase = "decide" /\ phase' \in {"decide", "poll"}
    BY <1>5 DEF Decide
  <2>6. \A i \in Ports : Stocked(port'[i])
    BY <2>3, <2>4, <2>5 DEF StockInv, Keeps
  <2> QED BY <2>5, <2>6 DEF StockInv, Settled, Stock
<1> QED BY <1>1, <1>3, <1>4, <1>5

(* StockInv is an invariant.                                               *)
LEMMA StockInvariant == Spec => []StockInv
<1>1. Init => StockInv
  <2> SUFFICES ASSUME Init PROVE StockInv
    OBVIOUS
  <2>1. ASSUME NEW p \in Ports PROVE Stock(port[p])
    <3>1. port[p] \in Dispatched(Created, "INITIALIZE", FALSE)
      BY DEF Init
    <3>2. port[p].state \in {"LISTENING", "FAULTY"}
      BY <3>1, CreatedOutcome
    <3> QED BY <3>2 DEF Stock, Slaving
  <2> QED BY <2>1 DEF StockInv, Init
<1>2. ClockInv /\ StockInv /\ [Next]_vars => StockInv'
  <2> SUFFICES ASSUME ClockInv, StockInv, [Next]_vars PROVE StockInv'
    OBVIOUS
  <2>1. CASE Poll
    BY <2>1 DEF Poll, PollReturns, StockInv, Settled
  <2>2. CASE Serve
    <3>0. PICK p \in Ports :
            \/ \E f \in Fds : \/ AnnounceTimeout(p, f) \/ TransmitTimeout(p, f)
                              \/ ReceiveOther(p, f) \/ ReceiveAnnounce(p, f)
                              \/ ReceiveSync(p, f)
            \/ QualificationTimeout(p) \/ FaultTimerExpires(p)
            \/ RtnlRead(p) \/ port_link_status(p) \/ RtnlDone(p)
      BY <2>2 DEF Serve
    <3>1. phase \in {"serve", "rtnl"} /\ phase' \in {"serve", "rtnl"}
      BY <3>0 DEF AnnounceTimeout, TransmitTimeout, ReceiveOther,
                  ReceiveAnnounce, ReceiveSync, QualificationTimeout,
                  FaultTimerExpires, RtnlRead, port_link_status, RtnlDone,
                  Answered, Serving
    <3>2. \A i \in Ports : Stock(port[i])
      BY <3>1 DEF StockInv, Settled
    <3>3. \A i \in Ports : Stock(port'[i])
      BY <2>2, <3>2, ServeKeepsStock
    <3> QED BY <3>1, <3>3 DEF StockInv
  <2>3. CASE Manage
    BY <2>3 DEF Manage, StockInv, Settled
  <2>4. CASE EndPass
    <3>1. /\ phase = "serve" /\ port' = port /\ cur' = 1
          /\ phase' \in {"compute", "poll"}
      BY <2>4 DEF EndPass
    <3>2. \A p \in Ports : ~(p < 1) /\ Stock(port[p])
      BY <3>1, PortsAreNumbers DEF StockInv, Settled, Ports
    <3> QED BY <3>1, <3>2 DEF StockInv, Settled
  <2>5. CASE StateDecisionEvent
    BY <2>5, DecisionKeepsStock
  <2>6. CASE UNCHANGED vars
    BY <2>6 DEF vars, loop, StockInv, Settled
  <2> QED BY <2>1, <2>2, <2>3, <2>4, <2>5, <2>6 DEF Next
<1> QED BY <1>1, <1>2, ClockInvariant, PTL DEF Spec

(* Unless a fault is reset ASAP, hybrid_e2e finds an announce of the best  *)
(* master whenever the delay timer of an E2E port is served: only a slave  *)
(* has that timer, no slave is without a best, and what empties its list   *)
(* ends the slave role.                                                    *)
THEOREM DelayRequestFindsMaster ==
  ASSUME AsapFaults = {}
  PROVE  Spec => []DelayRequestHasMaster
<1>1. TimerInv /\ StockInv /\ BestPresent => DelayRequestHasMaster
  <2> SUFFICES ASSUME TimerInv, StockInv, BestPresent, ~P2P,
                      NEW p \in Ports, Serving(p, FD_DELAY)
               PROVE  port[p].best # Null /\ port[p].msgs[port[p].best] # <<>>
    BY DEF DelayRequestHasMaster
  <2>1. phase = "serve" /\ << p, FD_DELAY >> \in revents
    BY DEF Serving
  <2>2. port[p].state \in Slaving
    BY <2>1 DEF TimerInv, SnapshotOwned, Owned
  <2>3. port[p].best # Null /\ Stocked(port[p])
    BY <2>1, <2>2 DEF BestPresent, StockInv, Settled, Stock
  <2> QED BY <2>3 DEF Stocked
<1> QED BY <1>1, TimerInvariant, StockInvariant, FollowersHaveBest, PTL

----------------------------------------------------------------------------
(* The fault timer.                                                        *)

(* With a transport that opens and one PHC for all ports, only a fault     *)
(* that is detected leads to FAULTY.                                       *)
LEMMA DispatchFaulty ==
  ASSUME AsapFaults = {}, ~InitCanFail, ~Jbod,
         NEW q \in PortRec, PortInv(q), NEW e \in LaterEvents \ {"FAULT_DETECTED"},
         NEW mdiff \in BOOLEAN, NEW r \in Dispatched(q, e, mdiff),
         r.state = "FAULTY"
  PROVE  q.state = "FAULTY" /\ e # "FAULT_CLEARED"
<1>1. PICK ok \in InitOutcomes, switched \in BOOLEAN :
         r = bc_dispatch(q, e, mdiff, ok, switched)
  BY DEF Dispatched
<1>2. ok = TRUE
  BY DEF InitOutcomes
<1> DEFINE u == portStateUpdate(q, e, mdiff, ok)
<1>3. r = IF u.state = q.state THEN u ELSE Transition(u)
  BY <1>1 DEF bc_dispatch, DispatchOnce
<1>4. /\ u \in PortRec
      /\ \/ /\ q.state = "FAULTY" /\ e = "FAULT_CLEARED"
            /\ u.state = "LISTENING"
         \/ /\ u.state = Fsm(SlaveOnly, q.state, e, mdiff)
            /\ q.state = "FAULTY" => e # "FAULT_CLEARED"
  BY <1>2, UpdatedLater
<1> HIDE DEF u
<1>5. r.state = u.state
  <2>1. portOpDisable(u).state = u.state
    BY <1>4, Disabled
  <2>2. \A a : [u EXCEPT !.armed = a].state = u.state
    BY <1>4 DEF PortRec
  <2> QED BY <1>3, <2>1, <2>2 DEF Transition
<1>6. q.state \in Resting /\ e \in LaterEvents
  BY DEF PortInv
<1>7. q.state # "FAULTY" => Fsm(SlaveOnly, q.state, e, mdiff) # "FAULTY"
  BY <1>6, FsmKeepsRole
<1> QED BY <1>4, <1>5, <1>7

(* clock_poll sets the fault timer of a port it finds faulty.              *)
LEMMA AnswerAwaited ==
  ASSUME AsapFaults = {}, ClockInv, NEW p \in Ports, NEW f,
         NEW q \in PortRec, PortInv(q), NEW e \in RaisedEvents,
         Answered(p, f, q, e), \A i \in Ports \ {p} : Awaited(port[i])
  PROVE  \A i \in Ports : Awaited(port'[i])
<1>1. PICK r \in Dispatched(q, e, FALSE) :
        port' = [port EXCEPT ![p] = FaultTimeout(r)]
  BY DEF Answered
<1>2. PortInv(r) /\ r \in PortRec
  BY <1>1, DispatchOutcome DEF PortInv
<1> DEFINE t == FaultTimeout(r)
<1>3. t.state = r.state /\ (r.state = "FAULTY" => t.faultTimer)
  BY <1>2, FaultTimed DEF clear_fault_asap
<1> HIDE DEF t
<1>4. port'[p] = t /\ \A i \in Ports \ {p} : port'[i] = port[i]
  <2>1. port \in [Ports -> PortRec]
    BY DEF ClockInv, TypeOK
  <2> QED BY <1>1, <2>1 DEF t
<1> QED BY <1>3, <1>4 DEF Awaited

(* The handlers all end there, but for the fault timer's own.              *)
LEMMA ServeKeepsAwaited ==
  ASSUME AsapFaults = {}, ~InitCanFail, ~Jbod, ClockInv, FaultInv, Serve
  PROVE  FaultInv'
<1>1. PICK p \in Ports : \/ Ends(p) /\ (phase = "rtnl" => cur = p)
                         \/ FaultTimerExpires(p) \/ RtnlRead(p)
                         \/ port_link_status(p)
  <2>1. PICK p \in Ports :
          \/ \E f \in Fds : \/ AnnounceTimeout(p, f) \/ TransmitTimeout(p, f)
                            \/ ReceiveOther(p, f) \/ ReceiveAnnounce(p, f)
                            \/ ReceiveSync(p, f)
          \/ QualificationTimeout(p) \/ FaultTimerExpires(p)
          \/ RtnlRead(p) \/ port_link_status(p) \/ RtnlDone(p)
    BY DEF Serve
  <2>2. \/ phase = "serve" \/ port_link_status(p) \/ RtnlDone(p)
    BY <2>1 DEF AnnounceTimeout, TransmitTimeout, ReceiveOther, ReceiveAnnounce,
                ReceiveSync, QualificationTimeout, FaultTimerExpires, RtnlRead, Serving
  <2>3. RtnlDone(p) => cur = p
    BY DEF RtnlDone
  <2> QED BY <2>1, <2>2, <2>3, HandlersEnd
<1>2. port[p] \in PortRec /\ PortInv(port[p]) /\ port \in [Ports -> PortRec]
  BY PortTyped DEF ClockInv, TypeOK
<1>3. CASE Ends(p) /\ (phase = "rtnl" => cur = p)
  <2>0. PICK q \in PortRec, e \in QuietEvents :
          PortInv(q) /\ \E f : Answered(p, f, q, e)
    BY <1>3 DEF Ends
  <2>1. PICK f : PortInv(q) /\ Answered(p, f, q, e)
    BY <2>0
  <2>2. e \in RaisedEvents
    BY DEF QuietEvents
  <2>3. \A i \in Ports \ {p} : Awaited(port[i])
    BY <1>3 DEF FaultInv
  <2>4. \A i \in Ports : Awaited(port'[i])
    BY <2>1, <2>2, <2>3, AnswerAwaited
  <2> QED BY <2>4 DEF FaultInv
<1>4. CASE FaultTimerExpires(p)
  <2> DEFINE q == [port[p] EXCEPT !.faultTimer = FALSE]
  <2>1. /\ q \in PortRec /\ q.state = port[p].state /\ q.armed = port[p].armed
        /\ q.heard = port[p].heard /\ q.msgs = port[p].msgs
        /\ q.best = port[p].best
    BY <1>2 DEF PortRec
  <2>2. PICK r \in IF q.linkUp THEN Dispatched(q, "FAULT_CLEARED", FALSE) ELSE {q} :
          port' = [port EXCEPT ![p] = r]
    BY <1>4 DEF FaultTimerExpires
  <2>3. phase = "serve"
    BY <1>4 DEF FaultTimerExpires, Serving
  <2> HIDE DEF q
  <2>4. PortInv(q)
    BY <1>2, <2>1 DEF PortInv, Timed, HoldsNothing
  <2>5. "FAULT_CLEARED" \in LaterEvents \ {"FAULT_DETECTED"}
    BY DEF LaterEvents, RaisedEvents, Events
  <2>6. Awaited(r)
    <3>1. CASE q.linkUp
      BY <2>1, <2>2, <2>4, <2>5, <3>1, DispatchFaulty DEF Awaited
    <3>2. CASE ~q.linkUp
      BY <2>2, <3>2 DEF Awaited
    <3> QED BY <3>1, <3>2
  <2>7. \A i \in Ports : Awaited(port'[i])
    <3>1. \A i \in Ports : port'[i] = IF i = p THEN r ELSE port[i]
      BY <1>2, <2>2
    <3>2. \A i \in Ports : Awaited(port[i])
      BY <2>3 DEF FaultInv
    <3> QED BY <2>6, <3>1, <3>2
  <2> QED BY <2>7 DEF FaultInv
<1>5. CASE RtnlRead(p)
  BY <1>5 DEF RtnlRead, Serving, FaultInv
<1>6. CASE port_link_status(p)
  <2>1. /\ phase = "rtnl" /\ cur = p /\ phase' = "rtnl" /\ cur' = p
        /\ \E t : port' = [port EXCEPT ![p] = t]
    BY <1>6 DEF port_link_status
  <2>2. \A i \in Ports \ {p} : port'[i] = port[i] /\ Awaited(port[i])
    BY <1>2, <2>1 DEF FaultInv
  <2>3. \A i \in Ports \ {p} : Awaited(port'[i])
    BY <2>2
  <2> QED BY <2>1, <2>3 DEF FaultInv
<1> QED BY <1>1, <1>3, <1>4, <1>5, <1>6

(* A state decision makes no port faulty and touches no fault timer.       *)
LEMMA DecisionKeepsAwaited ==
  ASSUME AsapFaults = {}, ~InitCanFail, ~Jbod, ClockInv, FaultInv,
         StateDecisionEvent
  PROVE  FaultInv'
<1>1. PICK p \in Ports : \/ ComputeBest(p) \/ ComputeBestRound(p)
                         \/ ComputeBestDone(p) \/ Decide(p)
  BY DEF StateDecisionEvent
<1>2. port[p] \in PortRec /\ PortInv(port[p]) /\ port \in [Ports -> PortRec]
  BY PortTyped DEF ClockInv, TypeOK
<1>3. phase # "rtnl"
  BY <1>1 DEF ComputeBest, ComputeBestRound, ComputeBestDone, Decide
<1>4. \A i \in Ports : Awaited(port[i])
  BY <1>3 DEF FaultInv
<1>5. ASSUME NEW r, port' = [port EXCEPT ![p] = r], Awaited(r)
      PROVE  FaultInv'
  <2>1. \A i \in Ports : port'[i] = IF i = p THEN r ELSE port[i]
    BY <1>2, <1>5
  <2>2. \A i \in Ports : Awaited(port'[i])
    BY <1>4, <1>5, <2>1
  <2> QED BY <2>2 DEF FaultInv
<1>6. CASE ComputeBest(p)
  <2> DEFINE r == [port[p] EXCEPT !.best = Null]
  <2>1. port' = [port EXCEPT ![p] = r]
    BY <1>6 DEF ComputeBest
  <2>2. /\ r.state = port[p].state /\ r.linkUp = port[p].linkUp
        /\ r.faultTimer = port[p].faultTimer
    BY <1>2 DEF PortRec
  <2> HIDE DEF r
  <2> QED BY <1>4, <1>5, <2>1, <2>2 DEF Awaited
<1>7. CASE ComputeBestRound(p)
  <2>1. PICK k : port' = [port EXCEPT ![p] =
            computeBestStep(port[p], port[p].heard[idx], k, clockIdentity, p)]
    BY <1>7 DEF ComputeBestRound
  <2> DEFINE r == computeBestStep(port[p], port[p].heard[idx], k, clockIdentity, p)
  <2>2. /\ r.state = port[p].state /\ r.linkUp = port[p].linkUp
        /\ r.faultTimer = port[p].faultTimer
    BY <1>2, BestStepKeeps
  <2> HIDE DEF r
  <2>3. port' = [port EXCEPT ![p] = r]
    BY <2>1 DEF r
  <2> QED BY <1>4, <1>5, <2>2, <2>3 DEF Awaited
<1>8. CASE ComputeBestDone(p)
  <2>1. port' = port
    BY <1>8 DEF ComputeBestDone
  <2> QED BY <1>4, <2>1 DEF FaultInv
<1>9. CASE Decide(p)
  <2> DEFINE e == EventOf(Recommended(p))
  <2>1. PICK r \in Dispatched(port[p], e, fresh) : port' = [port EXCEPT ![p] = r]
    BY <1>9 DEF Decide
  <2>2. fresh \in BOOLEAN
    BY DEF ClockInv, TypeOK
  <2>3. e \in RaisedEvents /\ e \in LaterEvents \ {"FAULT_DETECTED"}
    <3>1. Recommended(p) \in Roles
      BY RecommendedRole
    <3>2. \A role \in Roles : /\ EventOf(role) \in LaterEvents \ {"FAULT_DETECTED"}
                              /\ EventOf(role) \in RaisedEvents
      BY DEF Roles, EventOf, LaterEvents, RaisedEvents, Events
    <3> QED BY <3>1, <3>2
  <2> HIDE DEF e
  <2>4. Keeps(port[p], r) /\ (r.state = "FAULTY" => port[p].state = "FAULTY")
    <3>1. Keeps(port[p], r)
      BY <1>2, <2>1, <2>2, <2>3, DispatchKeeps
    <3>2. r.state = "FAULTY" => port[p].state = "FAULTY"
      BY <1>2, <2>1, <2>2, <2>3, DispatchFaulty
    <3> QED BY <3>1, <3>2
  <2>5. Awaited(r)
    BY <1>4, <2>4 DEF Awaited, Keeps
  <2> QED BY <1>5, <2>1, <2>5
<1> QED BY <1>1, <1>6, <1>7, <1>8, <1>9

(* Where the transport opens and no port has a clock of its own, a faulty  *)
(* port whose link is up always has its fault timer running when the clock *)
(* polls: every way into FAULTY ends at clock_fault_timeout.               *)
THEOREM FaultTimerAlwaysRuns ==
  ASSUME AsapFaults = {}, ~InitCanFail, ~Jbod
  PROVE  Spec => []FaultWillBeCleared
<1>1. Init => FaultInv
  <2> SUFFICES ASSUME Init, NEW p \in Ports PROVE Awaited(port[p])
    BY DEF FaultInv
  <2> DEFINE c == Created
             e == "INITIALIZE"
             m == FALSE
  <2>1. port[p] \in Dispatched(Created, "INITIALIZE", FALSE)
    BY DEF Init
  <2> HIDE DEF c, e, m
  <2>2. port[p] \in Dispatched(c, e, m)
    BY <2>1 DEF c, e, m
  <2>3. PICK ok \in InitOutcomes, switched \in BOOLEAN :
          port[p] = bc_dispatch(c, e, m, ok, switched)
    BY <2>2 DEF Dispatched
  <2>4. ok = TRUE
    BY DEF InitOutcomes
  <2>5. PICK u \in PortRec : /\ u.state = "LISTENING" /\ u.heard = <<>>
                             /\ port[p] = Transition(u)
    BY <2>3, <2>4, CreatedStarts DEF c, e, m
  <2>6. Transition(u).state = "LISTENING"
    BY <2>5, EmptyDistinct, Transitioned DEF Resting, States
  <2> QED BY <2>5, <2>6 DEF Awaited
<1>2. ClockInv /\ FaultInv /\ [Next]_vars => FaultInv'
  <2> SUFFICES ASSUME ClockInv, FaultInv, [Next]_vars PROVE FaultInv'
    OBVIOUS
  <2>1. CASE Poll
    BY <2>1 DEF Poll, PollReturns, FaultInv
  <2>2. CASE Serve
    BY <2>2, ServeKeepsAwaited
  <2>3. CASE Manage
    BY <2>3 DEF Manage, FaultInv
  <2>4. CASE EndPass
    BY <2>4 DEF EndPass, FaultInv
  <2>5. CASE StateDecisionEvent
    BY <2>5, DecisionKeepsAwaited
  <2>6. CASE UNCHANGED vars
    BY <2>6 DEF vars, loop, FaultInv
  <2> QED BY <2>1, <2>2, <2>3, <2>4, <2>5, <2>6 DEF Next
<1>3. FaultInv => FaultWillBeCleared
  BY DEF FaultInv, FaultWillBeCleared, Awaited
<1> QED BY <1>1, <1>2, <1>3, ClockInvariant, PTL DEF Spec

=============================================================================
