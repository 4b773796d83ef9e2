-------------------------- MODULE PtpdPort_proofs --------------------------
(***************************************************************************)
(* The timers of a ptpd port fit its state, a clock that may only be a     *)
(* slave is no master when a pass ends, its structure stays within bounds, *)
(* and a slave's best master is the record of its parent, for every set of *)
(* options and any number of foreign masters.                              *)
(***************************************************************************)
EXTENDS PtpdPort, WellFoundedInduction, TLAPS

(* The timers that say which role a port plays, and those of a state.      *)
Core == {"ANNOUNCE_RECEIPT", "SYNC_INTERVAL", "ANNOUNCE_INTERVAL"}

CoreOf(s) ==
    IF s = "MASTER" THEN {"SYNC_INTERVAL", "ANNOUNCE_INTERVAL"}
    ELSE IF s \in {"LISTENING", "PASSIVE", "SLAVE"} THEN {"ANNOUNCE_RECEIPT"}
    ELSE {}

(* The fields of the structure.                                            *)
Fields == { "state", "message_activity", "listenCount", "bestMaster",
            "syncWaiting", "announceTimeouts", "parent",
            "number_foreign_records", "foreign_record_i",
            "foreign_record_best", "foreign", "slaveOnly", "priority1",
            "disabled", "record_update", "initFailure",
            "initFailureTimeout", "restart" }

Shape(x) ==
    /\ DOMAIN x = {"clock", "running", "expired"}
    /\ x = [f \in DOMAIN x |-> x[f]]
    /\ DOMAIN x.clock = Fields
    /\ x.clock = [f \in Fields |-> x.clock[f]]

(* The states without a role.  A master whose Announce or Follow_Up could  *)
(* not be sent is FAULTY, and may still start its timers anew.             *)
Roleless == {"FAULTY", "INITIALIZING", "DISABLED"}

Fits(x) ==
    /\ Shape(x)
    /\ IF x.clock.state \in Roleless THEN "ANNOUNCE_RECEIPT" \notin x.running
       ELSE x.running \cap Core = CoreOf(x.clock.state)

(* No timer runs but those of its role.                                    *)
Within(x) ==
    /\ Shape(x)
    /\ IF x.clock.state \in Roleless THEN "ANNOUNCE_RECEIPT" \notin x.running
       ELSE x.running \cap Core \subseteq CoreOf(x.clock.state)

(* y is x with every timer of its role stopped.                            *)
Still(x, y) ==
    /\ Shape(y)
    /\ y.clock.slaveOnly = x.clock.slaveOnly
    /\ "ANNOUNCE_RECEIPT" \notin y.running
    /\ x.clock.state \notin Roleless => y.running \cap Core = {}

(* Leaving a state stops the timers of its role.                           *)
LEMMA Left ==
  ASSUME NEW x, Within(x), NEW s
  PROVE  /\ Still(x, leave(x, s)) /\ leave(x, s).clock.state = x.clock.state
         /\ leave(x, s).running \subseteq x.running
<1> DEFINE T == StoppedLeaving(x.clock.state)
           y == timerStop(x, T)
           z == [y EXCEPT !.clock.message_activity = TRUE]
           n == IF x.clock.state = "LISTENING" /\ s # "LISTENING" THEN 0
                ELSE y.clock.listenCount
           w == [z EXCEPT !.clock.listenCount = n]
<1>1. /\ Shape(y) /\ y.clock = x.clock /\ y.running = x.running \ T
  BY DEF Within, Shape, timerStop
<1> HIDE DEF y
<1>2. /\ Shape(z) /\ z.running = y.running /\ z.clock.state = x.clock.state
      /\ z.clock.slaveOnly = x.clock.slaveOnly
      /\ z.clock.listenCount = y.clock.listenCount
  BY <1>1 DEF Shape, Fields
<1>3. w = leave(x, s)
  BY <1>1 DEF leave, y, T, z, Shape
<1> HIDE DEF z
<1>4. /\ Shape(w) /\ w.running = z.running /\ w.clock.state = z.clock.state
      /\ w.clock.slaveOnly = z.clock.slaveOnly
  BY <1>2 DEF Shape, Fields
<1> HIDE DEF w
<1>5. /\ "ANNOUNCE_RECEIPT" \notin x.running \ T
      /\ x.clock.state \notin Roleless => (x.running \ T) \cap Core = {}
  BY DEF Within, CoreOf, Core, StoppedLeaving, Roleless
<1> HIDE DEF T
<1> QED BY <1>1, <1>2, <1>3, <1>4, <1>5 DEF Still

(* Starting timers changes nothing else.                                   *)
LEMMA Started ==
  ASSUME NEW x, Shape(x), NEW T
  PROVE  /\ Shape(timerStart(x, T)) /\ timerStart(x, T).clock = x.clock
         /\ timerStart(x, T).running = x.running \cup T
  BY DEF Shape, timerStart

(* A state that is gone to without timers of its own.                      *)
LEMMA Plain ==
  ASSUME NEW x, Within(x), NEW s
  PROVE  Still(x, plainState(x, s)) /\ plainState(x, s).clock.state = s
<1> DEFINE y == leave(x, s)
           z == [y EXCEPT !.clock.state = s]
<1>1. Still(x, y)
  BY Left
<1> HIDE DEF y
<1>2. Still(x, z) /\ z.clock.state = s
  BY <1>1 DEF Still, Shape, Fields
<1> QED BY <1>2 DEF plainState, y

(* y is in one of the states S with the timers of that state, and as       *)
(* slave-only as x.                                                        *)
Becomes(x, y, S) ==
    Fits(y) /\ y.clock.state \in S /\ y.clock.slaveOnly = x.clock.slaveOnly

(* A state without a role is entered with the receipt timer stopped.       *)
LEMMA PlainFits ==
  ASSUME NEW x, Within(x), NEW s \in Roleless
  PROVE  Becomes(x, plainState(x, s), {s})
  BY Plain DEF Becomes, Still, Fits, Roleless

(* toState, for the state DISABLED.                                        *)
LEMMA ToDisabled ==
  ASSUME NEW x, Within(x)
  PROVE  Becomes(x, toDisabled(x), {"DISABLED"})
<1> DEFINE y == plainState(x, "DISABLED")
           z == [y EXCEPT !.clock.bestMaster = Null]
<1>1. Still(x, y) /\ y.clock.state = "DISABLED"
  BY Plain
<1> HIDE DEF y
<1>2. Still(x, z) /\ z.clock.state = "DISABLED"
  BY <1>1 DEF Still, Shape, Fields
<1> QED BY <1>2 DEF toDisabled, y, Becomes, Still, Fits, Roleless

(* ... MASTER: the timers that send are started.                           *)
LEMMA ToMaster ==
  ASSUME NEW x, Within(x)
  PROVE  Becomes(x, toMaster(x), {"MASTER"})
<1> DEFINE y == plainState(x, "MASTER")
           z == [y EXCEPT !.clock.bestMaster = Null]
           T == { "SYNC_INTERVAL", "ANNOUNCE_INTERVAL", "PDELAYREQ_INTERVAL" }
                  \cup IF rtOpts.igmp THEN {"MASTER_NETREFRESH"} ELSE {}
<1>1. Still(x, y) /\ y.clock.state = "MASTER"
  BY Plain
<1> HIDE DEF y
<1>2. Still(x, z) /\ z.clock.state = "MASTER"
  BY <1>1 DEF Still, Shape, Fields
<1>3. toMaster(x) = timerStart(z, T)
  BY DEF toMaster, y
<1>4. (z.running \cup T) \cap Core = {"SYNC_INTERVAL", "ANNOUNCE_INTERVAL"}
  BY <1>2 DEF Still, Core
<1> HIDE DEF z, T
<1> QED BY <1>2, <1>3, <1>4, Started DEF Becomes, Still, Fits, CoreOf, Roleless

(* ... PASSIVE: the receipt timer is started.                              *)
LEMMA ToPassive ==
  ASSUME NEW x, Within(x), x.clock.state \notin Roleless
  PROVE  Becomes(x, toPassive(x), {"PASSIVE"})
<1> DEFINE y == plainState(x, "PASSIVE")
           T == {"PDELAYREQ_INTERVAL", "ANNOUNCE_RECEIPT"}
<1>1. Still(x, y) /\ y.clock.state = "PASSIVE"
  BY Plain
<1>2. (y.running \cup T) \cap Core = {"ANNOUNCE_RECEIPT"}
  BY <1>1 DEF Still, Core
<1>3. toPassive(x) = timerStart(y, T)
  BY DEF toPassive
<1> HIDE DEF y, T
<1> QED BY <1>1, <1>2, <1>3, Started DEF Becomes, Still, Fits, CoreOf, Roleless

(* ... SLAVE, likewise.                                                    *)
LEMMA ToSlave ==
  ASSUME NEW x, Within(x), x.clock.state \notin Roleless
  PROVE  Becomes(x, toSlave(x), {"SLAVE"})
<1> DEFINE y == plainState(x, "SLAVE")
           z == [y EXCEPT !.clock.syncWaiting = TRUE, !.clock.announceTimeouts = 0]
           T == {"ANNOUNCE_RECEIPT"} \cup
                  IF rtOpts.clockUpdateTimeout THEN {"CLOCK_UPDATE"} ELSE {}
<1>1. Still(x, y) /\ y.clock.state = "SLAVE"
  BY Plain
<1> HIDE DEF y
<1>2. Still(x, z) /\ z.clock.state = "SLAVE"
  BY <1>1 DEF Still, Shape, Fields
<1>3. (z.running \cup T) \cap Core = {"ANNOUNCE_RECEIPT"}
  BY <1>2 DEF Still, Core
<1>4. toSlave(x) = timerStart(z, T)
  BY DEF toSlave, y
<1> HIDE DEF z, T
<1> QED BY <1>2, <1>3, <1>4, Started DEF Becomes, Still, Fits, CoreOf, Roleless

(* The local clock as parent, and records forgotten: no timer is touched.  *)
LEMMA Relabelled ==
  ASSUME NEW x, Shape(x), NEW y \in {m1(x), forget(x), m1(forget(x))}
  PROVE  /\ Shape(y) /\ y.running = x.running
         /\ y.clock.state = x.clock.state /\ y.clock.slaveOnly = x.clock.slaveOnly
         /\ y.clock.disabled = x.clock.disabled
<1>1. ASSUME NEW u, Shape(u)
      PROVE  /\ Shape(m1(u)) /\ m1(u).running = u.running
             /\ m1(u).clock.state = u.clock.state
             /\ m1(u).clock.slaveOnly = u.clock.slaveOnly
             /\ m1(u).clock.disabled = u.clock.disabled
  BY <1>1 DEF m1, Shape, Fields
<1>2. /\ Shape(forget(x)) /\ forget(x).running = x.running
      /\ forget(x).clock.state = x.clock.state
      /\ forget(x).clock.slaveOnly = x.clock.slaveOnly
      /\ forget(x).clock.disabled = x.clock.disabled
  BY DEF forget, Shape, Fields
<1> QED BY <1>1, <1>2

(* Only a clock that ignores the others goes on to MASTER at once.         *)
Ignoring == rtOpts.clockClass <= 127 /\ rtOpts.disableBMCA

(* ... LISTENING: the port listens, is FAULTY or ignores the others.       *)
LEMMA ToListening ==
  ASSUME NEW x, Within(x), NEW ok
  PROVE  /\ Becomes(x, toListening(x, ok), {"LISTENING", "FAULTY", "MASTER"})
         /\ toListening(x, ok).clock.state = "MASTER" => Ignoring
<1> DEFINE T == { "SYNC_INTERVAL", "ANNOUNCE_INTERVAL", "CLOCK_UPDATE",
                  "PDELAYREQ_INTERVAL", "DELAYREQ_INTERVAL" }
           y == timerStop(leave(x, "LISTENING"), T)
           again == y.clock.state = "LISTENING"
           n == y.clock.listenCount + IF again THEN 1 ELSE 0
           z == [y EXCEPT !.clock.listenCount = n, !.clock.announceTimeouts = 0,
                          !.clock.bestMaster = Null, !.clock.state = "LISTENING"]
           r == toListening(x, ok)
<1>1. Shape(y) /\ y.clock.slaveOnly = x.clock.slaveOnly /\ y.running \cap Core = {}
  <2> DEFINE l == leave(x, "LISTENING")
  <2>1. Still(x, l)
    BY Left
  <2> HIDE DEF l
  <2>2. /\ Shape(timerStop(l, T)) /\ timerStop(l, T).clock = l.clock
        /\ timerStop(l, T).running = l.running \ T
    BY <2>1 DEF Still, Shape, timerStop
  <2>3. (l.running \ T) \cap Core = {}
    BY <2>1 DEF Still, Core
  <2> QED BY <2>1, <2>2, <2>3 DEF l, Still
<1>2. \/ r = toMaster(m1(forget(y))) /\ Ignoring
      \/ r = plainState(y, "FAULTY")
      \/ r = timerStart(z, {"ANNOUNCE_RECEIPT"})
  BY DEF toListening, Ignoring
<1> HIDE DEF y, r
<1>3. Within(y)
  BY <1>1 DEF Within, Core
<1>4. CASE r = toMaster(m1(forget(y))) /\ Ignoring
  <2> DEFINE u == m1(forget(y))
  <2>1. Within(u) /\ u.clock.slaveOnly = y.clock.slaveOnly
    BY <1>3, Relabelled DEF Within
  <2> HIDE DEF u
  <2>2. Becomes(u, toMaster(u), {"MASTER"})
    BY <2>1, ToMaster
  <2> QED BY <1>1, <1>4, <2>1, <2>2 DEF Becomes, Still, u, r
<1>5. CASE r = plainState(y, "FAULTY")
  <2>1. Becomes(y, plainState(y, "FAULTY"), {"FAULTY"})
    BY <1>3, PlainFits DEF Roleless
  <2> QED BY <1>1, <1>5, <2>1 DEF Becomes, Still, r
<1>6. CASE r = timerStart(z, {"ANNOUNCE_RECEIPT"})
  <2>1. Shape(z) /\ z.running = y.running /\ z.clock.state = "LISTENING"
        /\ z.clock.slaveOnly = y.clock.slaveOnly
    BY <1>1 DEF Shape, Fields
  <2>2. (z.running \cup {"ANNOUNCE_RECEIPT"}) \cap Core = {"ANNOUNCE_RECEIPT"}
    BY <1>1, <2>1 DEF Core
  <2> HIDE DEF z
  <2> QED BY <1>1, <1>6, <2>1, <2>2, Started DEF Becomes, Still, Fits, CoreOf, Roleless, r
<1> QED BY <1>2, <1>4, <1>5, <1>6 DEF r

(* toState.                                                                *)
Entered == {"LISTENING", "MASTER", "PASSIVE", "SLAVE", "FAULTY"}

(* A state the decision names is entered with the timers of a state.       *)
LEMMA ToState ==
  ASSUME NEW x, Within(x), x.clock.state \notin Roleless,
         NEW s \in Entered, NEW ok
  PROVE  /\ Becomes(x, toState(x, s, ok), Entered)
         /\ toState(x, s, ok).clock.state = "MASTER" => s = "MASTER" \/ Ignoring
<1>1. CASE s = "LISTENING"
  BY <1>1, ToListening DEF toState, Entered, Becomes
<1>2. CASE s = "MASTER"
  BY <1>2, ToMaster DEF toState, Entered, Becomes
<1>3. CASE s = "PASSIVE"
  BY <1>3, ToPassive DEF toState, Entered, Becomes
<1>4. CASE s = "SLAVE"
  BY <1>4, ToSlave DEF toState, Entered, Becomes
<1>5. CASE s = "FAULTY"
  BY <1>5, PlainFits DEF toState, Entered, Becomes, Roleless
<1> QED BY <1>1, <1>2, <1>3, <1>4, <1>5 DEF Entered

(* The decision moves no port: it only names the state to go to.           *)
LEMMA Decision ==
  ASSUME NEW x, Fits(x)
  PROVE  /\ bmc(x).state \in Entered
         /\ Becomes(x, bmc(x).x, {x.clock.state})
<1> DEFINE best == bestRecord(x.clock)
           y == [x EXCEPT !.clock.foreign_record_best = best,
                          !.clock.bestMaster = best]
           f == x.clock.foreign[best]
<1>1. Becomes(x, y, {x.clock.state})
  <2> HIDE DEF best
  <2> QED BY DEF Becomes, Fits, Shape, Fields
<1>2. bmc(x) \in {decided(m1(x), "MASTER"), bmcStateDecision(y, f)}
  BY DEF bmc
<1>3. bmcStateDecision(y, f) \in
         { decided(s1(y, f.ann), s) : s \in Entered }
           \cup { decided(m1(y), s) : s \in Entered } \cup { decided(y, s) : s \in Entered }
  BY DEF bmcStateDecision, Entered
<1> HIDE DEF y, f
<1>4. ASSUME NEW u, Fits(u)
      PROVE  Becomes(u, m1(u), {u.clock.state})
             /\ Becomes(u, s1(u, f.ann), {u.clock.state})
  BY <1>4 DEF m1, s1, Becomes, Fits, Shape, Fields
<1>5. /\ Becomes(x, m1(x), {x.clock.state}) /\ Becomes(x, m1(y), {x.clock.state})
      /\ Becomes(x, s1(y, f.ann), {x.clock.state})
  BY <1>1, <1>4 DEF Becomes
<1>6. \A u, s : decided(u, s).x = u /\ decided(u, s).state = s
  BY DEF decided
<1> HIDE DEF decided
<1>7. /\ bmc(x).x \in {m1(x), m1(y), y, s1(y, f.ann)}
      /\ bmc(x).state \in Entered
  BY <1>2, <1>3, <1>6 DEF Entered
<1> QED BY <1>1, <1>5, <1>7

----------------------------------------------------------------------------
(* What a message does to the timers.                                      *)

(* y is in the state of x, with its timers.                                *)
Lasts(x, y) == Becomes(x, y, {x.clock.state})

(* d is a structure in the state of c.                                     *)
Kin(c, d) ==
    /\ DOMAIN d = Fields /\ d = [f \in Fields |-> d[f]]
    /\ d.state = c.state /\ d.slaveOnly = c.slaveOnly

(* Nothing touches the state in the records.                               *)
LEMMA RecordsLast ==
  ASSUME NEW x, Fits(x), NEW ann
  PROVE  Lasts(x, addForeign(x, ann))
<1> DEFINE c == x.clock
<1>1. ASSUME NEW j PROVE Kin(c, updateForeign(c, ann, j))
  BY DEF updateForeign, Fits, Shape, Fields, Kin
<1>2. Kin(c, newForeign(c, ann))
  <2> DEFINE n == IF c.number_foreign_records < MaxForeign
                  THEN c.number_foreign_records + 1 ELSE MaxForeign
             j == IF c.foreign_record_i = c.foreign_record_best
                  THEN (c.foreign_record_i + 1) % n ELSE c.foreign_record_i
             k == (j + 1) % MaxForeign
             u == updateForeign(c, ann, j)
             d == [u EXCEPT !.number_foreign_records = n, !.foreign_record_i = k]
  <2>1. newForeign(c, ann) = d
    BY DEF newForeign
  <2>2. Kin(c, u)
    BY <1>1
  <2> HIDE DEF n, j, k, u
  <2>3. Kin(c, d)
    BY <2>2 DEF Kin, Fields
  <2> QED BY <2>1, <2>3
<1>3. ASSUME NEW d, Kin(c, d)
      PROVE  Lasts(x, [x EXCEPT !.clock = d])
  BY <1>3 DEF Lasts, Becomes, Fits, Shape, Kin
<1>4. \/ addForeign(x, ann) = [x EXCEPT !.clock = newForeign(c, ann)]
      \/ \E j : addForeign(x, ann) = [x EXCEPT !.clock = updateForeign(c, ann, j)]
  BY DEF addForeign
<1>5. CASE addForeign(x, ann) = [x EXCEPT !.clock = newForeign(c, ann)]
  <2> DEFINE d == newForeign(c, ann)
  <2> HIDE DEF d
  <2>1. Kin(c, d)
    BY <1>2 DEF d
  <2>2. Lasts(x, [x EXCEPT !.clock = d])
    BY <1>3, <2>1
  <2> QED BY <1>5, <2>2 DEF d
<1>6. CASE \E j : addForeign(x, ann) = [x EXCEPT !.clock = updateForeign(c, ann, j)]
  <2>1. PICK j : addForeign(x, ann) = [x EXCEPT !.clock = updateForeign(c, ann, j)]
    BY <1>6
  <2> DEFINE d == updateForeign(c, ann, j)
  <2> HIDE DEF d
  <2>2. Kin(c, d)
    BY <1>1 DEF d
  <2>3. Lasts(x, [x EXCEPT !.clock = d])
    BY <1>3, <2>2
  <2> QED BY <2>1, <2>3 DEF d
<1> QED BY <1>4, <1>5, <1>6

(* An Announce is received: what starts the receipt timer is a slave or    *)
(* passive.                                                                *)
LEMMA AnnouncedLasts ==
  ASSUME NEW x, Fits(x), NEW ann
  PROVE  Lasts(x, [announced(x, ann) EXCEPT !.clock.record_update = TRUE])
<1>1. Lasts(x, announced(x, ann))
  <2> DEFINE b == x.clock.bestMaster
             u == s1(x, ann)
  <2>1. Lasts(x, u)
    BY DEF s1, Lasts, Becomes, Fits, Shape, Fields
  <2>2. ASSUME NEW y, Lasts(x, y), x.clock.state \in {"SLAVE", "PASSIVE"}
        PROVE  Lasts(x, timerStart(y, {"ANNOUNCE_RECEIPT"}))
    <3>1. y.running \cap Core = {"ANNOUNCE_RECEIPT"} /\ Shape(y)
      BY <2>2 DEF Lasts, Becomes, Fits, CoreOf, Roleless
    <3>2. (y.running \cup {"ANNOUNCE_RECEIPT"}) \cap Core = {"ANNOUNCE_RECEIPT"}
      BY <3>1 DEF Core
    <3> QED BY <2>2, <3>1, <3>2, Started DEF Lasts, Becomes, Fits, CoreOf
  <2> HIDE DEF u
  <2>3. ASSUME NEW g, NEW n
        PROVE  Lasts(x, [u EXCEPT !.clock.foreign = g, !.clock.announceTimeouts = n])
    BY <2>1 DEF Lasts, Becomes, Fits, Shape, Fields
  <2>4. \E g, n : parentAnnounces(x, ann) =
            timerStart([u EXCEPT !.clock.foreign = g, !.clock.announceTimeouts = n],
                       {"ANNOUNCE_RECEIPT"})
    <3> DEFINE v == [u EXCEPT !.clock.foreign[b].ann = ann]
               g == [u.clock.foreign EXCEPT ![b].ann = ann]
               n == IF rtOpts.grace > 0 THEN 0 ELSE u.clock.announceTimeouts
    <3>1. parentAnnounces(x, ann) =
            timerStart([u EXCEPT !.clock.foreign = g, !.clock.announceTimeouts = n],
                       {"ANNOUNCE_RECEIPT"})
      BY <2>1 DEF parentAnnounces, u, Lasts, Becomes, Fits, Shape, Fields
    <3> QED BY <3>1
  <2> QED BY <2>1, <2>2, <2>3, <2>4, RecordsLast DEF announced, u
<1> DEFINE y == announced(x, ann)
<1> HIDE DEF y
<1>2. Lasts(x, y)
  BY <1>1 DEF y
<1>3. Lasts(x, [y EXCEPT !.clock.record_update = TRUE])
  BY <1>2 DEF Lasts, Becomes, Fits, Shape, Fields
<1> QED BY <1>3 DEF y

----------------------------------------------------------------------------
(* The invariant.                                                          *)

(* Where the timers of a master are looked at; where a master is on its    *)
(* way to Demote; and where no master can be.                              *)
Sending == {"announce", "pdelay", "refresh", "sync"}

BeforeDemote == Sending \cup {"handle_master", "general_master", "demote"}

NoMasters == {"handle", "general", "handle_disabled"}

(* Structure x may be reached with at this point of the pass.              *)
Placed(x, point) ==
    /\ point \in Sending => x.clock.state \in {"MASTER", "FAULTY"}
    /\ x.clock.state = "MASTER" =>
         /\ point \notin NoMasters
         /\ \/ point \in BeforeDemote
            \/ rtOpts.disableBMCA
            \/ ~x.clock.slaveOnly /\ rtOpts.clockClass # SlaveOnlyClass

PtpdInv == rtOpts \in Configurations /\ Fits(Now) /\ Placed(Now, pc)

(* A step of the pass that leaves the class and the algorithm alone.       *)
LEMMA Goes ==
  ASSUME NEW x, Fits(x), NEW next, Go(x, next), Placed(x, next),
         rtOpts' \in Configurations, rtOpts'.clockClass = rtOpts.clockClass,
         rtOpts'.disableBMCA = rtOpts.disableBMCA
  PROVE  PtpdInv'
<1>1. /\ Now' = [clock |-> x.clock, running |-> x.running, expired |-> x.expired]
      /\ pc' = next
  BY DEF Go, Now
<1> DEFINE n == [clock |-> x.clock, running |-> x.running, expired |-> x.expired]
<1>2. Fits(n) /\ n.clock = x.clock
  BY DEF Fits, Shape
<1> HIDE DEF n
<1>3. Fits(Now)' /\ Now'.clock = x.clock
  BY <1>1, <1>2 DEF n, Fits, Shape
<1>4. Placed(Now, pc)'
  BY <1>1, <1>3 DEF Placed
<1> QED BY <1>3, <1>4 DEF PtpdInv

(* ... and does not touch the options at all.                              *)
LEMMA GoesOn ==
  ASSUME PtpdInv, NEW x, Fits(x), NEW next, Go(x, next), Placed(x, next),
         UNCHANGED rtOpts
  PROVE  PtpdInv'
  BY Goes DEF PtpdInv

(* The structure as it is.                                                 *)
LEMMA NowFits ==
  ASSUME PtpdInv
  PROVE  /\ Fits(Now) /\ Within(Now) /\ Shape(Now) /\ Now.clock = ptpClock
         /\ Now.running = running
  BY DEF PtpdInv, Fits, Within, Now

(* Looking at a timer, and starting one that is not a role's.              *)
LEMMA ReadLasts ==
  ASSUME NEW x, Fits(x), NEW t
  PROVE  Lasts(x, read(x, t))
  BY DEF read, Lasts, Becomes, Fits, Shape

(* ... a timer of a role may be started if it runs.                        *)
LEMMA StartLasts ==
  ASSUME NEW x, Fits(x), NEW T,
         T \cap Core \subseteq x.running
           \/ (x.clock.state \in Roleless /\ "ANNOUNCE_RECEIPT" \notin T)
  PROVE  Lasts(x, timerStart(x, T))
<1>1. IF x.clock.state \in Roleless THEN "ANNOUNCE_RECEIPT" \notin x.running \cup T
      ELSE (x.running \cup T) \cap Core = x.running \cap Core
  BY DEF Fits, Core
<1> QED BY <1>1, Started DEF Lasts, Becomes, Fits

(* The point Placed asks least of.                                         *)
LEMMA PlacedRoleless ==
  ASSUME NEW x, x.clock.state \in Roleless, NEW next, next \notin Sending
  PROVE  Placed(x, next)
  BY DEF Placed, Roleless

----------------------------------------------------------------------------
(* The steps of a pass.                                                    *)

(* The second switch of doState goes where the state belongs.              *)
LEMMA ServedKeeps ==
  ASSUME PtpdInv, NEW x, Fits(x), Served(x), UNCHANGED rtOpts
  PROVE  PtpdInv'
<1>1. CASE x.clock.state = "FAULTY"
  <2> DEFINE y == plainState(x, "INITIALIZING")
  <2>1. Fits(y) /\ y.clock.state = "INITIALIZING"
    BY PlainFits DEF Fits, Within, Becomes, Roleless
  <2>2. Go(y, "bottom")
    BY <1>1 DEF Served
  <2> HIDE DEF y
  <2>3. Placed(y, "bottom")
    BY <2>1 DEF Placed, Sending
  <2> QED BY <2>1, <2>2, <2>3, GoesOn
<1>2. CASE x.clock.state # "FAULTY"
  <2>1. Placed(x, Case(x.clock.state))
    BY DEF Placed, Case, Sending, BeforeDemote, NoMasters
  <2>2. Go(x, Case(x.clock.state))
    BY <1>2 DEF Served
  <2> QED BY <2>1, <2>2, GoesOn
<1> QED BY <1>1, <1>2

(* The top of a pass.                                                      *)
LEMMA TopsKeep ==
  ASSUME PtpdInv, Tops
  PROVE  PtpdInv'
<1>1. CASE AwaitInit
  <2> DEFINE x == [Now EXCEPT !.clock.initFailureTimeout = @ - 1]
  <2>1. Fits(x) /\ x.clock.state = "INITIALIZING"
    BY <1>1, NowFits DEF AwaitInit, Fits, Shape, Fields
  <2>2. Go(x, "bottom") /\ UNCHANGED rtOpts
    BY <1>1 DEF AwaitInit
  <2> HIDE DEF x
  <2>3. Placed(x, "bottom")
    BY <2>1 DEF Placed, Sending
  <2> QED BY <2>1, <2>2, <2>3, GoesOn
<1>2. CASE doInit
  <2>1. PICK ok \in Refreshes :
           Go([toListening(m1(initData(Now)), ok) EXCEPT
                  !.clock.initFailure = FALSE, !.clock.initFailureTimeout = 0],
              "bottom")
    BY <1>2 DEF doInit
  <2> DEFINE i == initData(Now)
             j == m1(i)
             l == toListening(j, ok)
             x == [l EXCEPT !.clock.initFailure = FALSE,
                            !.clock.initFailureTimeout = 0]
  <2>2. Shape(i) /\ i.running = Now.running /\ i.clock.state = Now.clock.state
    <3> DEFINE n == Now
               a == rtOpts.priority1
               so == n.clock.slaveOnly \/ rtOpts.clockClass = SlaveOnlyClass
               dis == rtOpts.portDisabled
               y == [n EXCEPT !.clock.priority1 = a, !.clock.slaveOnly = so,
                              !.clock.disabled = dis, !.clock.bestMaster = Null,
                              !.clock.number_foreign_records = 0]
    <3>1. i = y
      BY DEF initData
    <3>2. Shape(n)
      BY NowFits
    <3> HIDE DEF n, a, so, dis, i
    <3>3. Shape(y) /\ y.running = n.running /\ y.clock.state = n.clock.state
      BY <3>2 DEF Shape, Fields
    <3> QED BY <3>1, <3>3 DEF n
  <2> HIDE DEF i
  <2>3. Within(j)
    BY <2>2, NowFits, Relabelled DEF Within
  <2> HIDE DEF j
  <2>4. /\ Fits(l) /\ l.clock.state \in {"LISTENING", "FAULTY", "MASTER"}
        /\ l.clock.state = "MASTER" => rtOpts.disableBMCA
    BY <2>3, ToListening DEF Becomes, Ignoring
  <2>5. Go(x, "bottom") /\ UNCHANGED rtOpts
    BY <1>2, <2>1 DEF doInit, i, j
  <2> HIDE DEF l
  <2>6. /\ Fits(x) /\ x.clock.state = l.clock.state
    BY <2>4 DEF Fits, Shape, Fields
  <2> HIDE DEF x
  <2>7. Placed(x, "bottom")
    BY <2>4, <2>6 DEF Placed, Sending, NoMasters
  <2> QED BY <2>5, <2>6, <2>7, GoesOn
<1>3. CASE doInitFails
  <2> DEFINE l == plainState(Now, "FAULTY")
             x == [l EXCEPT !.clock.initFailure = TRUE,
                            !.clock.initFailureTimeout = InitWait]
  <2>1. Fits(l) /\ l.clock.state = "FAULTY"
    BY NowFits, PlainFits DEF Becomes, Roleless
  <2>2. Go(x, "bottom") /\ UNCHANGED rtOpts
    BY <1>3 DEF doInitFails
  <2> HIDE DEF l
  <2>3. Fits(x) /\ x.clock.state = "FAULTY"
    BY <2>1 DEF Fits, Shape, Fields
  <2> HIDE DEF x
  <2>4. Placed(x, "bottom")
    BY <2>3 DEF Placed, Sending
  <2> QED BY <2>2, <2>3, <2>4, GoesOn
<1> DEFINE q == Quiet
<1>4. Lasts(Now, q)
  BY NowFits DEF Quiet, Lasts, Becomes, Fits, Shape, Fields
<1>5. CASE Decide
  <2> DEFINE x == [q EXCEPT !.clock.record_update = FALSE]
             d == bmc(x)
  <2>1. PICK ok \in Refreshes :
           Served(IF d.state = ptpClock.state THEN d.x ELSE toState(d.x, d.state, ok))
    BY <1>5 DEF Decide
  <2> HIDE DEF q
  <2>2. Lasts(Now, x)
    BY <1>4 DEF Lasts, Becomes, Fits, Shape, Fields
  <2> HIDE DEF x
  <2>3. /\ d.state \in Entered /\ Fits(d.x)
        /\ d.x.clock.state = ptpClock.state
    BY <2>2, Decision, NowFits DEF Lasts, Becomes
  <2> HIDE DEF d
  <2>4. ptpClock.state \notin Roleless
    BY <1>5 DEF Decide, Roleless
  <2>5. Fits(toState(d.x, d.state, ok))
    BY <2>3, <2>4, ToState DEF Becomes, Fits, Within
  <2>6. UNCHANGED rtOpts
    BY <1>5 DEF Decide
  <2> QED BY <2>1, <2>3, <2>5, <2>6, ServedKeeps
<1>6. CASE NothingToDecide
  <2>1. Served(q) /\ UNCHANGED rtOpts
    BY <1>6 DEF NothingToDecide
  <2> HIDE DEF q
  <2> QED BY <1>4, <2>1, ServedKeeps DEF Lasts, Becomes
<1> QED BY <1>1, <1>2, <1>3, <1>5, <1>6 DEF Tops

(* Where handle leads: a master goes on to Demote.                         *)
LEMMA AfterHandlePlaced ==
  ASSUME PtpdInv, pc \in Handling \cup General, NEW x,
         x.clock.state = "MASTER" => ptpClock.state = "MASTER"
  PROVE  Placed(x, AfterHandle)
<1>1. AfterHandle \notin Sending \cup NoMasters
  BY DEF AfterHandle, Handling, General, Sending, NoMasters
<1>2. x.clock.state = "MASTER" => pc \notin NoMasters
  BY NowFits DEF PtpdInv, Placed
<1>3. pc \notin NoMasters => AfterHandle \in BeforeDemote
  BY DEF AfterHandle, Handling, General, NoMasters, BeforeDemote
<1> QED BY <1>1, <1>2, <1>3 DEF Placed

(* The handler of a message keeps the state, or the port is FAULTY.        *)
LEMMA HandledKeeps ==
  ASSUME PtpdInv, pc \in Handling \cup General, NEW x, Fits(x),
         x.clock.state \in {ptpClock.state, "FAULTY"}, Go(x, AfterHandle),
         rtOpts' \in Configurations, rtOpts'.clockClass = rtOpts.clockClass,
         rtOpts'.disableBMCA = rtOpts.disableBMCA
  PROVE  PtpdInv'
<1>1. Placed(x, AfterHandle)
  BY AfterHandlePlaced
<1> QED BY <1>1, Goes

(* A message is on its way.                                                *)
LEMMA ReceivedFits ==
  ASSUME PtpdInv
  PROVE  Lasts(Now, Received)
  BY NowFits DEF Received, Lasts, Becomes, Fits, Shape, Fields

(* A management request is answered, or cannot be.                         *)
LEMMA AnsweredKeeps ==
  ASSUME PtpdInv, pc \in Handling \cup General, NEW c,
         DOMAIN c = Fields, c = [f \in Fields |-> c[f]], c.state = ptpClock.state,
         answered(c), rtOpts' \in Configurations,
         rtOpts'.clockClass = rtOpts.clockClass,
         rtOpts'.disableBMCA = rtOpts.disableBMCA
  PROVE  PtpdInv'
<1> DEFINE r == Received
           x == [r EXCEPT !.clock = c]
<1>1. PICK sent \in Answers :
         Go(IF sent THEN x ELSE plainState(x, "FAULTY"), AfterHandle)
  BY DEF answered
<1>2. Fits(r) /\ r.clock.state = ptpClock.state
  BY ReceivedFits, NowFits DEF Lasts, Becomes
<1> HIDE DEF r
<1>3. Fits(x) /\ x.clock.state = ptpClock.state
  BY <1>2 DEF Fits, Shape
<1> HIDE DEF x
<1> DEFINE y == plainState(x, "FAULTY")
<1>4. Fits(y) /\ y.clock.state = "FAULTY"
  BY <1>3, PlainFits DEF Fits, Within, Becomes, Roleless
<1> HIDE DEF y
<1>5. Go(x, AfterHandle) \/ Go(y, AfterHandle)
  BY <1>1 DEF y
<1> QED BY <1>3, <1>4, <1>5, HandledKeeps

(* Every message.                                                          *)
LEMMA MessagesKeep ==
  ASSUME PtpdInv, Messages \/ HandleNothing
  PROVE  PtpdInv'
<1>1. /\ Fits(Now) /\ Within(Now) /\ Now.clock = ptpClock /\ Shape(Now)
      /\ Now.running = running /\ rtOpts \in Configurations
  BY NowFits DEF PtpdInv
<1>2. Receives => pc \in Handling \cup General
  BY DEF Receives, Selected
<1>3. Fits(Received) /\ Received.clock.state = ptpClock.state
  BY <1>1, ReceivedFits DEF Lasts, Becomes
<1> DEFINE down == plainState(Now, "FAULTY")
<1>4. Fits(down) /\ down.clock.state = "FAULTY"
  BY <1>1, PlainFits DEF Becomes, Roleless
<1>5. CASE HandleNothing
  BY <1>1, <1>5, HandledKeeps DEF HandleNothing
<1>6. CASE HandleFails
  <2>1. pc \in Handling \cup General /\ Go(down, AfterHandle) /\ UNCHANGED rtOpts
    BY <1>2, <1>6 DEF HandleFails
  <2> HIDE DEF down
  <2> QED BY <1>1, <1>4, <2>1, HandledKeeps
<1>7. CASE AnswerFails
  <2>1. \E next \in {"general", "general_master"} : Go(down, next)
    BY <1>7 DEF AnswerFails
  <2> HIDE DEF down
  <2>2. \A next \in {"general", "general_master"} : Placed(down, next)
    BY <1>4, PlacedRoleless DEF Roleless, Sending
  <2>3. UNCHANGED rtOpts
    BY <1>7 DEF AnswerFails
  <2> QED BY <1>4, <2>1, <2>2, <2>3, GoesOn
<1>8. ASSUME NEW ann \in Announces, handleAnnounce(ann) PROVE PtpdInv'
  <2> DEFINE r == Received
             x == [announced(r, ann) EXCEPT !.clock.record_update = TRUE]
  <2>1. /\ Receives /\ UNCHANGED rtOpts
        /\ \/ ptpClock.state = "SLAVE" /\ Go(r, "crashed")
           \/ Go(x, AfterHandle)
    BY <1>8 DEF handleAnnounce
  <2>2. Fits(r) /\ r.clock.state = ptpClock.state
    BY <1>3
  <2> HIDE DEF r
  <2>3. Fits(x) /\ x.clock.state = ptpClock.state
    BY <2>2, AnnouncedLasts DEF Lasts, Becomes
  <2> HIDE DEF x
  <2>4. CASE ptpClock.state = "SLAVE" /\ Go(r, "crashed")
    <3>1. Placed(r, "crashed")
      BY <2>2, <2>4 DEF Placed, Sending
    <3> QED BY <2>1, <2>2, <2>4, <3>1, GoesOn
  <2>5. CASE Go(x, AfterHandle)
    BY <1>1, <1>2, <2>1, <2>3, <2>5, HandledKeeps
  <2> QED BY <2>1, <2>4, <2>5
<1>9. ASSUME NEW updated \in BOOLEAN, handleSync(updated) PROVE PtpdInv'
  <2> DEFINE r == Received
             x == [r EXCEPT !.clock.syncWaiting = FALSE]
             T == (IF ptpClock.syncWaiting THEN {DelayTimer} ELSE {})
                    \cup IF updated THEN {"CLOCK_UPDATE"} ELSE {}
             y == timerStart(x, T)
  <2>1. Fits(r) /\ r.clock.state = ptpClock.state
    BY <1>3
  <2>2. ptpClock.state = "SLAVE" /\ Go(y, "general") /\ UNCHANGED rtOpts
    BY <1>9 DEF handleSync
  <2> HIDE DEF r
  <2>3. Fits(x) /\ x.clock.state = "SLAVE"
    BY <2>1, <2>2 DEF Fits, Shape, Fields
  <2>4. T \cap Core = {}
    BY DEF Core, DelayTimer
  <2> HIDE DEF x, T
  <2>5. Fits(y) /\ y.clock.state = "SLAVE"
    BY <2>3, <2>4, StartLasts DEF Lasts, Becomes
  <2> HIDE DEF y
  <2>6. Placed(y, "general")
    BY <2>5 DEF Placed, Sending
  <2> QED BY <2>2, <2>5, <2>6, GoesOn
<1>10. CASE handleFollowUp
  <2> DEFINE r == Received
             T == {"CLOCK_UPDATE"}
             y == timerStart(r, T)
  <2>1. Receives /\ Go(y, AfterHandle) /\ UNCHANGED rtOpts
    BY <1>10 DEF handleFollowUp
  <2>2. Fits(r) /\ r.clock.state = ptpClock.state
    BY <1>3
  <2>3. T \cap Core = {}
    BY DEF Core
  <2> HIDE DEF r, T
  <2>4. Fits(y) /\ y.clock.state = ptpClock.state
    BY <2>2, <2>3, StartLasts DEF Lasts, Becomes
  <2> HIDE DEF y
  <2> QED BY <1>1, <1>2, <2>1, <2>4, HandledKeeps
<1> DEFINE c == ptpClock
<1>11. DOMAIN c = Fields /\ c = [f \in Fields |-> c[f]]
  BY <1>1 DEF Shape
<1>12. ASSUME NEW so \in BOOLEAN, handleMMSlaveOnly(so) PROVE PtpdInv'
  <2> DEFINE d == [c EXCEPT !.slaveOnly = so, !.record_update = TRUE]
  <2>1. Receives /\ answered(d) /\ UNCHANGED rtOpts
    BY <1>12 DEF handleMMSlaveOnly, Asks
  <2>2. DOMAIN d = Fields /\ d = [f \in Fields |-> d[f]] /\ d.state = ptpClock.state
    BY <1>11 DEF Fields
  <2> HIDE DEF d
  <2> QED BY <1>1, <1>2, <2>1, <2>2, AnsweredKeeps
<1>13. ASSUME NEW p \in Priorities, handleMMPriority1(p) PROVE PtpdInv'
  <2> DEFINE d == [c EXCEPT !.priority1 = p, !.record_update = TRUE]
  <2>1. Receives /\ answered(d) /\ rtOpts' = [rtOpts EXCEPT !.priority1 = p]
    BY <1>13 DEF handleMMPriority1, Asks
  <2>2. DOMAIN d = Fields /\ d = [f \in Fields |-> d[f]] /\ d.state = ptpClock.state
    BY <1>11 DEF Fields
  <2>3. /\ rtOpts' \in Configurations /\ rtOpts'.clockClass = rtOpts.clockClass
        /\ rtOpts'.disableBMCA = rtOpts.disableBMCA
    BY <1>1, <2>1, PtpdConfig DEF Configurations
  <2> HIDE DEF d
  <2> QED BY <1>1, <1>2, <2>1, <2>2, <2>3, AnsweredKeeps
<1>14. CASE handleMMDisablePort
  <2> DEFINE d == [c EXCEPT !.restart = TRUE]
  <2>1. Receives /\ answered(d) /\ rtOpts' = [rtOpts EXCEPT !.portDisabled = TRUE]
    BY <1>14 DEF handleMMDisablePort, Asks
  <2>2. DOMAIN d = Fields /\ d = [f \in Fields |-> d[f]] /\ d.state = ptpClock.state
    BY <1>11 DEF Fields
  <2>3. /\ rtOpts' \in Configurations /\ rtOpts'.clockClass = rtOpts.clockClass
        /\ rtOpts'.disableBMCA = rtOpts.disableBMCA
    BY <1>1, <2>1 DEF Configurations
  <2> HIDE DEF d
  <2> QED BY <1>1, <1>2, <2>1, <2>2, <2>3, AnsweredKeeps
<1>15. CASE handleMMEnablePort
  <2> DEFINE d == [c EXCEPT !.disabled = FALSE, !.restart = TRUE]
  <2>1. Receives /\ answered(d) /\ rtOpts' = [rtOpts EXCEPT !.portDisabled = FALSE]
    BY <1>15 DEF handleMMEnablePort, Asks
  <2>2. DOMAIN d = Fields /\ d = [f \in Fields |-> d[f]] /\ d.state = ptpClock.state
    BY <1>11 DEF Fields
  <2>3. /\ rtOpts' \in Configurations /\ rtOpts'.clockClass = rtOpts.clockClass
        /\ rtOpts'.disableBMCA = rtOpts.disableBMCA
    BY <1>1, <2>1 DEF Configurations
  <2> HIDE DEF d
  <2> QED BY <1>1, <1>2, <2>1, <2>2, <2>3, AnsweredKeeps
<1> QED
  BY <1>5, <1>6, <1>7, <1>8, <1>9, <1>10, <1>12, <1>13, <1>14, <1>15 DEF Messages

(* After handle: only a clock that may be master becomes one.              *)
LEMMA AfterwardsKeeps ==
  ASSUME PtpdInv, pc \in {"receipt", "clock", "delay"}, NEW x, Fits(x),
         x.clock.slaveOnly = ptpClock.slaveOnly,
         x.clock.state = "MASTER" =>
            ptpClock.state = "MASTER" \/ ~NeverMaster \/ rtOpts.disableBMCA,
         NEW next \in {"clock", "delay", "bottom", "crashed"}, Go(x, next),
         UNCHANGED rtOpts
  PROVE  PtpdInv'
<1>1. ptpClock.state = "MASTER" =>
         rtOpts.disableBMCA \/ (~ptpClock.slaveOnly /\ rtOpts.clockClass # SlaveOnlyClass)
  BY NowFits DEF PtpdInv, Placed, BeforeDemote, Sending
<1>2. Placed(x, next)
  BY <1>1 DEF Placed, Sending, NoMasters, NeverMaster
<1> QED BY <1>2, GoesOn

(* The timers looked at after handle.                                      *)
LEMMA SlaveKeeps ==
  ASSUME PtpdInv, Slave
  PROVE  PtpdInv'
<1>1. /\ Fits(Now) /\ Within(Now) /\ Now.clock = ptpClock /\ Shape(Now)
  BY NowFits
<1>2. AfterReceipt \in {"clock", "delay", "bottom", "crashed"}
  BY DEF AfterReceipt
<1> DEFINE t == Timed
<1>3. /\ Fits(t) /\ Within(t) /\ Shape(t) /\ t.clock.state = ptpClock.state
      /\ t.clock.slaveOnly = ptpClock.slaveOnly
  BY <1>1, ReadLasts DEF Timed, Lasts, Becomes, Fits, Within
<1>4. CASE NoReceiptTimeout \/ NoClockTimeout \/ NoDelayRequest
  <2>1. pc \in {"receipt", "clock", "delay"} /\ UNCHANGED rtOpts
    BY <1>4 DEF NoReceiptTimeout, NoClockTimeout, NoDelayRequest
  <2>2. \E next \in {"clock", "delay", "bottom", "crashed"} : Go(Now, next)
    BY <1>2, <1>4 DEF NoReceiptTimeout, NoClockTimeout, NoDelayRequest
  <2> QED BY <1>1, <2>1, <2>2, AfterwardsKeeps
<1>5. CASE TakeOver
  <2> DEFINE u == m1(forget(t))
             x == toMaster(u)
  <2>1. pc = "receipt" /\ ~NeverMaster /\ Go(x, AfterReceipt) /\ UNCHANGED rtOpts
    BY <1>5 DEF TakeOver, ReceiptTimeout
  <2> HIDE DEF t
  <2>2. Within(u) /\ u.clock.slaveOnly = ptpClock.slaveOnly
    BY <1>3, Relabelled DEF Within
  <2> HIDE DEF u
  <2>3. Fits(x) /\ x.clock.slaveOnly = ptpClock.slaveOnly
    BY <2>2, ToMaster DEF Becomes
  <2> HIDE DEF x
  <2> QED BY <1>2, <2>1, <2>3, AfterwardsKeeps
<1>6. CASE DisqualifyBest
  <2> DEFINE g == [t.clock.foreign EXCEPT ![ptpClock.bestMaster].disqualified = TRUE]
             x == [t EXCEPT !.clock.foreign = g]
             y == [x EXCEPT !.clock.announceTimeouts = @ + 1]
             z == plainState(x, "FAULTY")
  <2>1. pc = "receipt" /\ UNCHANGED rtOpts
    BY <1>6 DEF DisqualifyBest, Disqualifies, ReceiptTimeout
  <2>2. x = [t EXCEPT !.clock.foreign[ptpClock.bestMaster].disqualified = TRUE]
    BY <1>3 DEF Shape, Fields
  <2>3. Go(t, "crashed") \/ Go(y, AfterReceipt) \/ Go(z, "bottom")
    BY <1>6, <2>2 DEF DisqualifyBest
  <2> HIDE DEF t, g
  <2>4. Fits(x) /\ x.clock.state = ptpClock.state /\ Within(x)
        /\ x.clock.slaveOnly = ptpClock.slaveOnly
    BY <1>3 DEF Fits, Within, Shape, Fields
  <2> HIDE DEF x
  <2>5. Fits(y) /\ y.clock.state = ptpClock.state
        /\ y.clock.slaveOnly = ptpClock.slaveOnly
    BY <2>4 DEF Fits, Shape, Fields
  <2>6. Fits(z) /\ z.clock.state = "FAULTY"
        /\ z.clock.slaveOnly = ptpClock.slaveOnly
    BY <2>4, PlainFits DEF Becomes, Roleless
  <2> HIDE DEF y, z
  <2> QED BY <1>2, <1>3, <2>1, <2>3, <2>5, <2>6, AfterwardsKeeps
<1>7. CASE ResetPort
  <2> DEFINE u == forget(t)
             v == [u EXCEPT !.clock.bestMaster = Null]
             w == IF ptpClock.state = "LISTENING" THEN t ELSE v
  <2>1. PICK ok \in Refreshes : Go(startOver(w, ok), AfterReceipt)
    BY <1>7 DEF ResetPort
  <2>2. pc = "receipt" /\ UNCHANGED rtOpts
    BY <1>7 DEF ResetPort, ReceiptTimeout
  <2> HIDE DEF t
  <2>3. Within(u) /\ u.clock.slaveOnly = ptpClock.slaveOnly
    BY <1>3, Relabelled DEF Within
  <2> HIDE DEF u
  <2>4. Within(v) /\ v.clock.slaveOnly = ptpClock.slaveOnly
    BY <2>3 DEF Within, Shape, Fields
  <2> HIDE DEF v
  <2>5. Within(w) /\ w.clock.slaveOnly = ptpClock.slaveOnly
    BY <1>3, <2>4
  <2> HIDE DEF w
  <2> DEFINE x == startOver(w, ok)
  <2>6. /\ Fits(x) /\ x.clock.slaveOnly = ptpClock.slaveOnly
        /\ x.clock.state = "MASTER" => rtOpts.disableBMCA
    BY <2>5, PlainFits, ToListening DEF startOver, Becomes, Roleless, Ignoring
  <2> HIDE DEF x
  <2> QED BY <1>2, <2>1, <2>2, <2>6, AfterwardsKeeps DEF x
<1>8. CASE ResetSlave
  <2> DEFINE u == read(Now, "CLOCK_UPDATE")
  <2>1. PICK ok \in Refreshes : Go(toListening(u, ok), "delay")
    BY <1>8 DEF ResetSlave
  <2>2. pc = "clock" /\ UNCHANGED rtOpts
    BY <1>8 DEF ResetSlave
  <2>3. Within(u) /\ u.clock.slaveOnly = ptpClock.slaveOnly
    BY <1>1, ReadLasts DEF Lasts, Becomes, Fits, Within
  <2> HIDE DEF u
  <2> DEFINE x == toListening(u, ok)
  <2>4. /\ Fits(x) /\ x.clock.slaveOnly = ptpClock.slaveOnly
        /\ x.clock.state = "MASTER" => rtOpts.disableBMCA
    BY <2>3, ToListening DEF Becomes, Ignoring
  <2> HIDE DEF x
  <2> QED BY <2>1, <2>2, <2>4, AfterwardsKeeps DEF x
<1>9. CASE PostponeReset
  <2> DEFINE x == timerStart(Now, {"CLOCK_UPDATE"})
  <2>1. pc = "clock" /\ Go(x, "delay") /\ UNCHANGED rtOpts
    BY <1>9 DEF PostponeReset
  <2>2. {"CLOCK_UPDATE"} \cap Core = {}
    BY DEF Core
  <2>3. Fits(x) /\ x.clock.state = ptpClock.state
        /\ x.clock.slaveOnly = ptpClock.slaveOnly
    BY <1>1, <2>2, StartLasts DEF Lasts, Becomes
  <2> HIDE DEF x
  <2> QED BY <2>1, <2>3, AfterwardsKeeps
<1>10. CASE issueDelayReq
  <2> DEFINE x == read(Now, DelayTimer)
             y == timerStart(x, {"DELAYREQ_INTERVAL"})
             z == plainState(x, "FAULTY")
  <2>1. pc = "delay" /\ UNCHANGED rtOpts
        /\ (Go(z, "bottom") \/ Go(x, "bottom") \/ Go(y, "bottom"))
    BY <1>10 DEF issueDelayReq
  <2>2. Fits(x) /\ Within(x) /\ x.clock.state = ptpClock.state
        /\ x.clock.slaveOnly = ptpClock.slaveOnly
    BY <1>1, ReadLasts DEF Lasts, Becomes, Fits, Within
  <2> HIDE DEF x
  <2>3. {"DELAYREQ_INTERVAL"} \cap Core = {}
    BY DEF Core
  <2>4. Fits(y) /\ y.clock.state = ptpClock.state
        /\ y.clock.slaveOnly = ptpClock.slaveOnly
    BY <2>2, <2>3, StartLasts DEF Lasts, Becomes
  <2>5. Fits(z) /\ z.clock.state = "FAULTY"
        /\ z.clock.slaveOnly = ptpClock.slaveOnly
    BY <2>2, PlainFits DEF Becomes, Roleless
  <2> HIDE DEF y, z
  <2> QED BY <2>1, <2>2, <2>4, <2>5, AfterwardsKeeps
<1> QED
  BY <1>4, <1>5, <1>6, <1>7, <1>8, <1>9, <1>10 DEF Slave

(* A master goes on from timer to timer, or is FAULTY and goes on as well. *)
LEMMA SendingKeeps ==
  ASSUME PtpdInv, pc \in Sending, NEW x, Fits(x),
         x.clock.state \in {ptpClock.state, "FAULTY"},
         NEW next \in Sending \cup {"handle_master"}, Go(x, next), UNCHANGED rtOpts
  PROVE  PtpdInv'
<1>1. ptpClock.state \in {"MASTER", "FAULTY"}
  BY NowFits DEF PtpdInv, Placed
<1>2. Placed(x, next)
  BY <1>1 DEF Placed, Sending, BeforeDemote, NoMasters
<1> QED BY <1>2, GoesOn

(* What a master sends when its timer expires, and what Demote does.       *)
LEMMA MasterKeeps ==
  ASSUME PtpdInv, Master
  PROVE  PtpdInv'
<1>1. /\ Fits(Now) /\ Within(Now) /\ Now.clock = ptpClock /\ Shape(Now)
      /\ Now.running = running
  BY NowFits
<1>2. pc \in Sending => ptpClock.state \in {"MASTER", "FAULTY"}
  BY <1>1 DEF PtpdInv, Placed
<1>3. \A next \in {"pdelay", "refresh", "sync", "handle_master"} :
         next \in Sending \cup {"handle_master"}
  BY DEF Sending
<1>4. ASSUME NEW at \in Sending, NEW u, NEW next \in Sending \cup {"handle_master"},
             NotDue(at, u, next)
      PROVE  PtpdInv'
  BY <1>1, <1>4, SendingKeeps DEF NotDue
<1>5. ASSUME NEW u \in Timers
      PROVE  LET x == read(Now, u)
                 y == plainState(x, "FAULTY")
             IN /\ Fits(x) /\ x.clock.state = ptpClock.state
                /\ Fits(y) /\ y.clock.state = "FAULTY"
  <2> DEFINE x == read(Now, u)
             y == plainState(x, "FAULTY")
  <2>1. Fits(x) /\ Within(x) /\ x.clock.state = ptpClock.state
    BY <1>1, ReadLasts DEF Lasts, Becomes, Fits, Within
  <2> HIDE DEF x
  <2>2. Fits(y) /\ y.clock.state = "FAULTY"
    BY <2>1, PlainFits DEF Becomes, Roleless
  <2> QED BY <2>1, <2>2 DEF x
<1>6. ASSUME NEW at \in Sending, NEW u \in {"ANNOUNCE_INTERVAL", "SYNC_INTERVAL"},
             NEW next \in Sending \cup {"handle_master"}, Issue(at, u, next)
      PROVE  PtpdInv'
  <2> DEFINE x == read(Now, u)
             z == timerStart(Now, {u})
             w == plainState(z, "FAULTY")
  <2>1. pc \in Sending /\ UNCHANGED rtOpts
    BY <1>6 DEF Issue
  <2>2. \E y \in {x, plainState(x, "FAULTY"), z, w} : Go(y, next)
    BY <1>6 DEF Issue
  <2>3. /\ Fits(x) /\ x.clock.state = ptpClock.state
        /\ Fits(plainState(x, "FAULTY"))
        /\ plainState(x, "FAULTY").clock.state = "FAULTY"
    BY <1>5 DEF Timers
  <2>4. Fits(z) /\ Within(z) /\ z.clock.state = ptpClock.state
    <3>1. \/ {u} \cap Core \subseteq Now.running
          \/ Now.clock.state \in Roleless /\ "ANNOUNCE_RECEIPT" \notin {u}
      BY <1>1, <1>2, <2>1 DEF Fits, CoreOf, Core, Roleless
    <3> QED BY <1>1, <3>1, StartLasts DEF Lasts, Becomes, Fits, Within
  <2> HIDE DEF z
  <2>5. Fits(w) /\ w.clock.state = "FAULTY"
    BY <2>4, PlainFits DEF Becomes, Roleless
  <2> HIDE DEF x, w
  <2> QED BY <2>1, <2>2, <2>3, <2>4, <2>5, SendingKeeps
<1>7. CASE NotDue("announce", "ANNOUNCE_INTERVAL", "pdelay")
  BY <1>3, <1>4, <1>7 DEF Sending
<1>8. CASE NotDue("refresh", "MASTER_NETREFRESH", "sync")
  BY <1>3, <1>4, <1>8 DEF Sending
<1>9. CASE NotDue("sync", "SYNC_INTERVAL", "handle_master")
  BY <1>3, <1>4, <1>9 DEF Sending
<1>10. CASE NoPdelayReq
  BY <1>1, <1>3, <1>10, SendingKeeps DEF NoPdelayReq, Sending
<1>11. CASE issueAnnounce
  BY <1>3, <1>6, <1>11 DEF issueAnnounce, Sending
<1>12. CASE issueSync
  BY <1>3, <1>6, <1>12 DEF issueSync, Sending
<1>13. CASE issuePdelayReq
  <2> DEFINE x == read(Now, "PDELAYREQ_INTERVAL")
             y == plainState(x, "FAULTY")
  <2>1. pc = "pdelay" /\ UNCHANGED rtOpts /\ (Go(x, "refresh") \/ Go(y, "refresh"))
    BY <1>13 DEF issuePdelayReq
  <2>2. /\ Fits(x) /\ x.clock.state = ptpClock.state
        /\ Fits(y) /\ y.clock.state = "FAULTY"
    BY <1>5 DEF Timers
  <2> HIDE DEF x, y
  <2>3. pc \in Sending
    BY <2>1 DEF Sending
  <2> QED BY <1>3, <2>1, <2>2, <2>3, SendingKeeps
<1>14. CASE netRefreshIGMP
  <2> DEFINE x == read(Now, "MASTER_NETREFRESH")
             y == plainState(x, "FAULTY")
  <2>1. pc = "refresh" /\ UNCHANGED rtOpts /\ (Go(x, "sync") \/ Go(y, "bottom"))
    BY <1>14 DEF netRefreshIGMP
  <2>2. /\ Fits(x) /\ x.clock.state = ptpClock.state
        /\ Fits(y) /\ y.clock.state = "FAULTY"
    BY <1>5 DEF Timers
  <2> HIDE DEF x, y
  <2>3. pc \in Sending /\ "bottom" \notin Sending
    BY <2>1 DEF Sending
  <2>4. Placed(y, "bottom")
    BY <2>2, <2>3 DEF Placed
  <2> QED BY <1>3, <2>1, <2>2, <2>3, <2>4, SendingKeeps, GoesOn
<1>15. CASE Demote
  <2>1. UNCHANGED rtOpts
    BY <1>15 DEF Demote
  <2>2. CASE NeverMaster
    <3>1. PICK ok \in Refreshes : Go(toListening(Now, ok), "bottom")
      BY <1>15, <2>2 DEF Demote
    <3> DEFINE x == toListening(Now, ok)
    <3>2. Fits(x) /\ (x.clock.state = "MASTER" => rtOpts.disableBMCA)
      BY <1>1, ToListening DEF Becomes, Ignoring
    <3> HIDE DEF x
    <3>3. Placed(x, "bottom")
      BY <3>2 DEF Placed, Sending, NoMasters
    <3> QED BY <2>1, <3>1, <3>2, <3>3, GoesOn DEF x
  <2>3. CASE ~NeverMaster
    <3>1. Go(Now, "bottom")
      BY <1>15, <2>3 DEF Demote
    <3>2. Placed(Now, "bottom")
      BY <1>1, <2>3 DEF Placed, Sending, NoMasters, NeverMaster
    <3> QED BY <1>1, <2>1, <3>1, <3>2, GoesOn
  <2> QED BY <2>2, <2>3
<1> QED
  BY <1>7, <1>8, <1>9, <1>10, <1>11, <1>12, <1>13, <1>14, <1>15 DEF Master

(* A disabled port that is enabled again listens.                          *)
LEMMA EnableKeeps ==
  ASSUME PtpdInv, Enable
  PROVE  PtpdInv'
<1>1. pc = "enable" /\ UNCHANGED rtOpts
  BY DEF Enable
<1>2. CASE ptpClock.disabled
  <2>1. Go(Now, "bottom")
    BY <1>2 DEF Enable
  <2>2. Placed(Now, "bottom")
    BY <1>1 DEF PtpdInv, Placed, Sending, BeforeDemote, NoMasters
  <2> QED BY <1>1, <2>1, <2>2, NowFits, GoesOn
<1>3. CASE ~ptpClock.disabled
  <2>1. PICK ok \in Refreshes : Go(toListening(Now, ok), "bottom")
    BY <1>3 DEF Enable
  <2> DEFINE x == toListening(Now, ok)
  <2>2. Fits(x) /\ (x.clock.state = "MASTER" => rtOpts.disableBMCA)
    BY NowFits, ToListening DEF Becomes, Ignoring
  <2> HIDE DEF x
  <2>3. Placed(x, "bottom")
    BY <2>2 DEF Placed, Sending, NoMasters
  <2> QED BY <1>1, <2>1, <2>2, <2>3, GoesOn DEF x
<1> QED BY <1>2, <1>3

(* The bottom of a pass: a port that is disabled or restarted has no role. *)
LEMMA NextPassKeeps ==
  ASSUME PtpdInv, NextPass
  PROVE  PtpdInv'
<1> DEFINE e == enforced(Now)
           r == restartSubsystems(e)
<1>1. pc = "bottom" /\ Go(r, "top") /\ UNCHANGED rtOpts
  BY DEF NextPass
<1>2. Placed(Now, "top")
  BY <1>1 DEF PtpdInv, Placed, Sending, BeforeDemote, NoMasters
<1>3. Fits(e) /\ Placed(e, "top")
  <2>1. CASE e = Now
    BY <2>1, <1>2, NowFits
  <2>2. CASE e = toDisabled(Now)
    <3>1. Fits(e) /\ e.clock.state = "DISABLED"
      BY <2>2, NowFits, ToDisabled DEF Becomes
    <3> HIDE DEF e
    <3> QED BY <3>1, PlacedRoleless DEF Roleless, Sending
  <2> QED BY <2>1, <2>2 DEF enforced
<1> HIDE DEF e
<1>4. Fits(r) /\ Placed(r, "top")
  <2> DEFINE y == [e EXCEPT !.clock.slaveOnly = rtOpts.clockClass = SlaveOnlyClass,
                            !.clock.disabled = rtOpts.portDisabled,
                            !.clock.restart = FALSE]
  <2>1. r \in {e, toDisabled(y), plainState(y, "INITIALIZING")}
    BY DEF restartSubsystems
  <2>2. Within(y)
    <3> DEFINE so == rtOpts.clockClass = SlaveOnlyClass
               dis == rtOpts.portDisabled
               z == [e EXCEPT !.clock.slaveOnly = so, !.clock.disabled = dis,
                              !.clock.restart = FALSE]
    <3> HIDE DEF so, dis
    <3>1. Within(z)
      BY <1>3 DEF Fits, Within, Shape, Fields
    <3> QED BY <3>1 DEF so, dis
  <2> HIDE DEF y, r
  <2>3. /\ Fits(toDisabled(y)) /\ toDisabled(y).clock.state = "DISABLED"
        /\ Fits(plainState(y, "INITIALIZING"))
        /\ plainState(y, "INITIALIZING").clock.state = "INITIALIZING"
    BY <2>2, ToDisabled, PlainFits DEF Becomes, Roleless
  <2>4. r.clock.state \in Roleless /\ Fits(r) => Fits(r) /\ Placed(r, "top")
    BY PlacedRoleless DEF Sending
  <2> QED BY <1>3, <2>1, <2>3, <2>4 DEF Roleless
<1> HIDE DEF r
<1> QED BY <1>1, <1>4, GoesOn

(* A timer that expires changes no role.                                   *)
LEMMA ExpireKeeps ==
  ASSUME PtpdInv, NEW t, Expire(t)
  PROVE  PtpdInv'
<1> DEFINE x == [clock |-> ptpClock, running |-> running,
                 expired |-> expired \cup {t}]
<1>1. Fits(x) /\ x.clock = ptpClock
  BY NowFits DEF Now, Fits, Shape
<1>2. Now' = x /\ pc' = pc /\ rtOpts' = rtOpts
  BY DEF Expire, Now
<1> HIDE DEF x
<1>3. Placed(x, pc)
  BY <1>1, NowFits DEF PtpdInv, Placed
<1>4. Fits(Now)' /\ Placed(Now, pc)'
  BY <1>1, <1>2, <1>3 DEF Fits, Within, Shape, Placed
<1> QED BY <1>2, <1>4 DEF PtpdInv

(* The daemon starts without a role and without a timer.                   *)
LEMMA InitFits == Init => PtpdInv
<1> SUFFICES ASSUME Init PROVE PtpdInv
  OBVIOUS
<1>1. rtOpts \in Configurations
  BY PtpdConfig DEF Init
<1>2. /\ DOMAIN ptpClock = Fields /\ ptpClock = [f \in Fields |-> ptpClock[f]]
      /\ ptpClock.state \in {"INITIALIZING", "DISABLED"}
  BY DEF Init, Reset, Fields
<1>3. Fits(Now)
  BY <1>2 DEF Init, Now, Fits, Shape, Roleless
<1>4. Now.clock = ptpClock /\ pc = "top"
  BY DEF Now, Init
<1>5. Placed(Now, pc)
  BY <1>2, <1>4, PlacedRoleless DEF Roleless, Sending
<1> QED BY <1>1, <1>3, <1>5 DEF PtpdInv

(* The invariant holds in every reachable state.                           *)
LEMMA PtpdInvariant == Spec => []PtpdInv
<1>1. PtpdInv /\ [Next]_vars => PtpdInv'
  <2> SUFFICES ASSUME PtpdInv, [Next]_vars PROVE PtpdInv'
    OBVIOUS
  <2>1. CASE Pass
    BY <2>1, TopsKeep, MessagesKeep, SlaveKeeps, MasterKeeps, EnableKeeps,
       NextPassKeeps DEF Pass
  <2>2. ASSUME NEW t \in Timers, Expire(t) PROVE PtpdInv'
    BY <2>2, ExpireKeeps
  <2>3. CASE UNCHANGED vars
    BY <2>3 DEF vars, PtpdInv, Now, Fits, Shape, Placed
  <2> QED BY <2>1, <2>2, <2>3 DEF Next
<1> QED BY InitFits, <1>1, PTL DEF Spec

----------------------------------------------------------------------------
(* Whatever the path to a state, toState has left the timers of that state *)
(* running: a port that listens notices that its masters fall silent, and  *)
(* only a master sends.                                                    *)
THEOREM RoleTimersRun == Spec => []SpeaksOrListens
<1>1. PtpdInv => SpeaksOrListens
  BY NowFits DEF SpeaksOrListens, Fits, Core, CoreOf, Roleless
<1> QED BY <1>1, PtpdInvariant, PTL

(* A clock that may only be a slave is no master when a pass ends, unless  *)
(* the algorithm is disabled: Demote comes after everything that may have  *)
(* made it one, and after the requests that make it slave-only.            *)
THEOREM SlaveOnlyNeverStaysMaster == Spec => []SlaveOnlyStepsDown
<1>1. PtpdInv => SlaveOnlyStepsDown
  BY NowFits DEF PtpdInv, Placed, SlaveOnlyStepsDown, NeverMaster, BeforeDemote, Sending
<1> QED BY <1>1, PtpdInvariant, PTL
----------------------------------------------------------------------------
(* What the structure holds: its types, and that the best master of a      *)
(* slave is the record of its parent.                                      *)

Structures == [clock : PtpClocks, running : SUBSET Timers, expired : SUBSET Timers]

(* The best master is the record of the parent.                            *)
Follows(c) == c.bestMaster \in Slots /\ c.foreign[c.bestMaster].ann.source = c.parent

(* Of a slave, unless a decision is pending.                               *)
Settled(x) ==
    /\ x \in Structures
    /\ x.clock.state = "SLAVE" => /\ x.clock.bestMaster \in Slots
                                  /\ x.clock.record_update \/ Follows(x.clock)

(* y has the records, the best master and the parent of x.                 *)
Linked(x, y) ==
    /\ y \in Structures
    /\ y.clock.bestMaster = x.clock.bestMaster
    /\ y.clock.foreign = x.clock.foreign
    /\ y.clock.parent = x.clock.parent
    /\ y.clock.record_update = x.clock.record_update

(* y is no slave.                                                          *)
Loose(y) == Settled(y) /\ y.clock.state # "SLAVE"

(* Every state but that of a slave may be entered in any structure.        *)
LEMMA LinkedLoose ==
  ASSUME NEW y \in Structures, y.clock.state # "SLAVE"
  PROVE  Loose(y)
  BY DEF Loose, Settled

(* What is counted from 0.                                                 *)
LEMMA Counts ==
  ASSUME rtOpts \in Configurations
  PROVE  /\ 0 \in 0 .. rtOpts.maxListen - 1 /\ 0 \in 0 .. rtOpts.grace
         /\ 0 \in Slots /\ 0 \in 0 .. MaxForeign /\ {0, InitWait} \subseteq 0 .. InitWait
         /\ rtOpts.clockClass \in Int /\ rtOpts.grace \in Nat /\ rtOpts.maxListen \in Nat
         /\ {0, Self} \subseteq Numbers
  BY PtpdConfig DEF Configurations, Slots, Numbers

(* Timers started and stopped.                                             *)
LEMMA TimersLinked ==
  ASSUME NEW x \in Structures, NEW T \in SUBSET Timers
  PROVE  /\ timerStart(x, T) \in Structures /\ timerStart(x, T).clock = x.clock
         /\ timerStop(x, T) \in Structures /\ timerStop(x, T).clock = x.clock
  BY DEF timerStart, timerStop, Structures

(* A state is left.                                                        *)
LEMMA LeftLinked ==
  ASSUME rtOpts \in Configurations, NEW x \in Structures, NEW s
  PROVE  Linked(x, leave(x, s)) /\ leave(x, s).clock.state = x.clock.state
<1> DEFINE y == timerStop(x, StoppedLeaving(x.clock.state))
           n == IF x.clock.state = "LISTENING" /\ s # "LISTENING" THEN 0
                ELSE y.clock.listenCount
           w == [y EXCEPT !.clock.message_activity = TRUE, !.clock.listenCount = n]
<1>1. StoppedLeaving(x.clock.state) \in SUBSET Timers
  BY DEF StoppedLeaving, DelayTimer, Timers
<1>2. y \in Structures /\ y.clock = x.clock
  BY <1>1, TimersLinked
<1>3. leave(x, s) = w
  BY <1>2 DEF leave, Structures, PtpClocks
<1>4. n \in 0 .. rtOpts.maxListen - 1
  BY <1>2, Counts DEF Structures, PtpClocks
<1> HIDE DEF y, n
<1>5. w \in Structures
  BY <1>2, <1>4 DEF Structures, PtpClocks
<1>6. Linked(y, w) /\ w.clock.state = y.clock.state
  BY <1>2, <1>5 DEF Linked, Structures, PtpClocks
<1> QED BY <1>2, <1>3, <1>6 DEF Linked

(* ... for a state without timers of its own.                              *)
LEMMA PlainLinked ==
  ASSUME rtOpts \in Configurations, NEW x \in Structures, NEW s \in States
  PROVE  Linked(x, plainState(x, s)) /\ plainState(x, s).clock.state = s
<1> DEFINE y == leave(x, s)
           z == [y EXCEPT !.clock.state = s]
<1>1. Linked(x, y)
  BY LeftLinked
<1> HIDE DEF y
<1>2. z \in Structures
  BY <1>1 DEF Linked, Structures, PtpClocks
<1>3. Linked(y, z) /\ z.clock.state = s
  BY <1>1, <1>2 DEF Linked, Structures, PtpClocks
<1> QED BY <1>1, <1>3 DEF plainState, y, Linked

(* ... and no slave.                                                       *)
LEMMA PlainLoose ==
  ASSUME rtOpts \in Configurations, NEW x \in Structures, NEW s \in States \ {"SLAVE"}
  PROVE  Loose(plainState(x, s))
<1>1. Linked(x, plainState(x, s)) /\ plainState(x, s).clock.state = s
  BY PlainLinked
<1> QED BY <1>1, LinkedLoose DEF Linked

(* No best master; our own clock as parent; no records.                    *)
LEMMA ForgottenTyped ==
  ASSUME rtOpts \in Configurations, NEW x \in Structures
  PROVE  /\ m1(x) \in Structures /\ m1(x).clock.state = x.clock.state
         /\ forget(x) \in Structures /\ forget(x).clock.state = x.clock.state
         /\ [x EXCEPT !.clock.bestMaster = Null] \in Structures
         /\ [x EXCEPT !.clock.bestMaster = Null].clock.state = x.clock.state
<1>1. m1(x) \in Structures /\ m1(x).clock.state = x.clock.state
  BY Counts DEF m1, Structures, PtpClocks
<1>2. forget(x) \in Structures /\ forget(x).clock.state = x.clock.state
  BY Counts DEF forget, Structures, PtpClocks
<1>3. /\ [x EXCEPT !.clock.bestMaster = Null] \in Structures
      /\ [x EXCEPT !.clock.bestMaster = Null].clock.state = x.clock.state
  BY DEF Structures, PtpClocks
<1> QED BY <1>1, <1>2, <1>3

(* toState, for DISABLED and MASTER.                                       *)
LEMMA ToDisabledLoose ==
  ASSUME rtOpts \in Configurations, NEW x \in Structures
  PROVE  Loose(toDisabled(x))
<1> DEFINE y == plainState(x, "DISABLED")
<1>1. Linked(x, y) /\ y.clock.state = "DISABLED"
  BY PlainLinked DEF States
<1>2. toDisabled(x) = [y EXCEPT !.clock.bestMaster = Null]
  BY DEF toDisabled
<1> HIDE DEF y
<1> QED BY <1>1, <1>2, ForgottenTyped, LinkedLoose DEF Linked

LEMMA ToMasterLoose ==
  ASSUME rtOpts \in Configurations, NEW x \in Structures
  PROVE  Loose(toMaster(x))
<1> DEFINE y == plainState(x, "MASTER")
           z == [y EXCEPT !.clock.bestMaster = Null]
           T == { "SYNC_INTERVAL", "ANNOUNCE_INTERVAL", "PDELAYREQ_INTERVAL" }
                  \cup IF rtOpts.igmp THEN {"MASTER_NETREFRESH"} ELSE {}
<1>1. Linked(x, y) /\ y.clock.state = "MASTER"
  BY PlainLinked DEF States
<1>2. toMaster(x) = timerStart(z, T)
  BY DEF toMaster
<1>3. T \in SUBSET Timers
  BY DEF Timers
<1> HIDE DEF y, T
<1>4. z \in Structures /\ z.clock.state = "MASTER"
  BY <1>1, ForgottenTyped DEF Linked
<1> HIDE DEF z
<1>5. timerStart(z, T) \in Structures /\ timerStart(z, T).clock = z.clock
  BY <1>3, <1>4, TimersLinked
<1> QED BY <1>2, <1>4, <1>5, LinkedLoose

(* ... PASSIVE and LISTENING.                                              *)
LEMMA ToPassiveLoose ==
  ASSUME rtOpts \in Configurations, NEW x \in Structures
  PROVE  Loose(toPassive(x))
<1> DEFINE y == plainState(x, "PASSIVE")
           T == {"PDELAYREQ_INTERVAL", "ANNOUNCE_RECEIPT"}
<1>1. Linked(x, y) /\ y.clock.state = "PASSIVE"
  BY PlainLinked DEF States
<1>2. T \in SUBSET Timers /\ toPassive(x) = timerStart(y, T)
  BY DEF Timers, toPassive
<1> HIDE DEF y, T
<1>3. timerStart(y, T) \in Structures /\ timerStart(y, T).clock = y.clock
  BY <1>1, <1>2, TimersLinked DEF Linked
<1> QED BY <1>1, <1>2, <1>3, LinkedLoose

LEMMA ToListeningLoose ==
  ASSUME rtOpts \in Configurations, NEW x \in Structures, NEW ok
  PROVE  Loose(toListening(x, ok))
<1> DEFINE l == leave(x, "LISTENING")
           T == { "SYNC_INTERVAL", "ANNOUNCE_INTERVAL", "CLOCK_UPDATE",
                  "PDELAYREQ_INTERVAL", "DELAYREQ_INTERVAL" }
           y == timerStop(l, T)
           again == y.clock.state = "LISTENING"
           n == y.clock.listenCount + IF again THEN 1 ELSE 0
           z == [y EXCEPT !.clock.listenCount = n, !.clock.announceTimeouts = 0,
                          !.clock.bestMaster = Null, !.clock.state = "LISTENING"]
           r == toListening(x, ok)
<1>1. y \in Structures
  <2>1. l \in Structures
    BY LeftLinked DEF Linked
  <2>2. T \in SUBSET Timers
    BY DEF Timers
  <2> HIDE DEF l, T
  <2> QED BY <2>1, <2>2, TimersLinked
<1>2. \/ r = toMaster(m1(forget(y)))
      \/ r = plainState(y, "FAULTY")
      \/ r = timerStart(z, {"ANNOUNCE_RECEIPT"})
         /\ ~(again /\ y.clock.listenCount + 1 >= rtOpts.maxListen)
  BY DEF toListening
<1> HIDE DEF y, r
<1>3. CASE r = toMaster(m1(forget(y)))
  BY <1>1, <1>3, ForgottenTyped, ToMasterLoose DEF r
<1>4. CASE r = plainState(y, "FAULTY")
  <2>1. "FAULTY" \in States \ {"SLAVE"}
    BY DEF States
  <2> QED BY <1>1, <1>4, <2>1, PlainLoose DEF r
<1>5. CASE r = timerStart(z, {"ANNOUNCE_RECEIPT"})
             /\ ~(again /\ y.clock.listenCount + 1 >= rtOpts.maxListen)
  <2>1. n \in 0 .. rtOpts.maxListen - 1
    BY <1>1, <1>5, Counts DEF Structures, PtpClocks
  <2> HIDE DEF n
  <2>2. z \in Structures /\ z.clock.state = "LISTENING"
    BY <1>1, <2>1, Counts DEF Structures, PtpClocks, States
  <2> HIDE DEF z
  <2>3. {"ANNOUNCE_RECEIPT"} \in SUBSET Timers
    BY DEF Timers
  <2>4. r \in Structures /\ r.clock.state # "SLAVE"
    BY <1>5, <2>2, <2>3, TimersLinked
  <2> QED BY <2>4, LinkedLoose DEF r
<1> QED BY <1>2, <1>3, <1>4, <1>5

(* ... SLAVE: with the best master and the parent the decision has named.  *)
LEMMA ToSlaveSettled ==
  ASSUME rtOpts \in Configurations, NEW x \in Structures, Follows(x.clock)
  PROVE  Settled(toSlave(x))
<1> DEFINE y == plainState(x, "SLAVE")
           z == [y EXCEPT !.clock.syncWaiting = TRUE, !.clock.announceTimeouts = 0]
           T == {"ANNOUNCE_RECEIPT"} \cup
                  IF rtOpts.clockUpdateTimeout THEN {"CLOCK_UPDATE"} ELSE {}
<1>1. Linked(x, y)
  BY PlainLinked DEF States
<1>2. T \in SUBSET Timers /\ toSlave(x) = timerStart(z, T)
  BY DEF Timers, toSlave
<1> HIDE DEF y, T
<1>3. z \in Structures /\ Linked(y, z)
  BY <1>1, Counts DEF Linked, Structures, PtpClocks
<1> HIDE DEF z
<1>4. timerStart(z, T) \in Structures /\ timerStart(z, T).clock = z.clock
  BY <1>2, <1>3, TimersLinked
<1> QED BY <1>1, <1>2, <1>3, <1>4 DEF Linked, Settled, Follows

(* Every state the decision names, for the state it names.                 *)
LEMMA ToStateSettled ==
  ASSUME rtOpts \in Configurations, NEW x \in Structures, NEW s \in Entered,
         s = "SLAVE" => Follows(x.clock), NEW ok
  PROVE  Settled(toState(x, s, ok))
<1>1. CASE s = "LISTENING"
  BY <1>1, ToListeningLoose DEF toState, Loose
<1>2. CASE s = "MASTER"
  BY <1>2, ToMasterLoose DEF toState, Loose
<1>3. CASE s = "PASSIVE"
  BY <1>3, ToPassiveLoose DEF toState, Loose
<1>4. CASE s = "SLAVE"
  BY <1>4, ToSlaveSettled DEF toState
<1>5. CASE s = "FAULTY"
  <2>1. toState(x, s, ok) = plainState(x, s) /\ s \in States \ {"SLAVE"}
    BY <1>5 DEF toState, States
  <2> QED BY <2>1, PlainLoose DEF Loose
<1> QED BY <1>1, <1>2, <1>3, <1>4, <1>5 DEF Entered

----------------------------------------------------------------------------
(* A set of numbers has a least one.                                       *)
LEMMA LeastIn ==
  ASSUME NEW R, \A n, m \in Nat : <<n, m>> \in R <=> n < m, NEW T, T \subseteq Nat,
         \E m \in T : \A n \in T : ~(<<n, m>> \in R)
  PROVE  \E m \in T : \A n \in T : m <= n
<1>1. PICK m \in T : \A n \in T : ~(<<n, m>> \in R)
  OBVIOUS
<1>2. ASSUME NEW n \in T PROVE m <= n
  <2>1. n \in Nat /\ m \in Nat
    OBVIOUS
  <2>2. ~(n < m)
    BY <1>1, <2>1
  <2> QED BY <2>1, <2>2
<1> QED BY <1>2

(* The same, of any such set.                                              *)
LEMMA LeastRecord ==
  ASSUME NEW T \in SUBSET Nat, T # {}
  PROVE  \E m \in T : \A n \in T : m <= n
<1> DEFINE R == OpToRel(<, Nat)
<1>1. IsWellFoundedOn(R, Nat)
  BY NatLessThanWellFounded
<1>2. \A n, m \in Nat : <<n, m>> \in R <=> n < m
  BY DEF OpToRel
<1> HIDE DEF R
<1>3. \E m \in T : \A n \in T : ~(<<n, m>> \in R)
  BY <1>1, WFMin, Zenon
<1> QED BY <1>2, <1>3, LeastIn, Zenon

----------------------------------------------------------------------------
(* The scan over the records.                                              *)

(* What a record of the scan is chosen by, from the best one before it.    *)
BetterOf(c, i, b) ==
    IF i < c.number_foreign_records
       /\ bmcDataSetComparison(c.parent, c.foreign[i], c.foreign[b]) < 0
    THEN i ELSE b

(* The scan up to record n.                                                *)
ScanTo(f, c, n) ==
    f = [i \in 0 .. n |-> IF i = 0 THEN 0 ELSE BetterOf(c, i, f[i - 1])]

LEMMA ScanExists ==
  ASSUME NEW c, NEW n \in Nat
  PROVE  \E f : ScanTo(f, c, n)
<1> DEFINE T == {k \in Nat : ~\E f : ScanTo(f, c, k)}
<1>1. SUFFICES ASSUME T # {} PROVE FALSE
  OBVIOUS
<1>2. PICK m \in T : \A k \in T : m <= k
  <2>1. T \in SUBSET Nat
    OBVIOUS
  <2> HIDE DEF T
  <2> QED BY <2>1, <1>1, LeastRecord
<1>3. CASE m = 0
  <2> DEFINE f == [i \in 0 .. 0 |-> 0]
  <2>1. ScanTo(f, c, 0)
    BY DEF ScanTo
  <2> QED BY <2>1, <1>3
<1>4. CASE m # 0
  <2>1. m \in Nat /\ m - 1 \in Nat /\ m - 1 \notin T
    BY <1>2, <1>4
  <2>2. PICK e : ScanTo(e, c, m - 1)
    BY <2>1
  <2> DEFINE f == [i \in 0 .. m |-> IF i = m THEN BetterOf(c, m, e[m - 1]) ELSE e[i]]
  <2>3. ASSUME NEW i \in 0 .. m
        PROVE  f[i] = IF i = 0 THEN 0 ELSE BetterOf(c, i, f[i - 1])
    <3>1. CASE i = m
      <4>1. f[i] = BetterOf(c, m, e[m - 1]) /\ f[i - 1] = e[m - 1] /\ i # 0
        BY <3>1, <2>1, <1>4
      <4> QED BY <4>1, <3>1
    <3>2. CASE i # m
      <4>1. i \in 0 .. m - 1 /\ f[i] = e[i]
        BY <3>2, <2>1
      <4>2. e[i] = IF i = 0 THEN 0 ELSE BetterOf(c, i, e[i - 1])
        BY <4>1, <2>2 DEF ScanTo
      <4>3. i # 0 => f[i - 1] = e[i - 1]
        BY <4>1, <2>1
      <4> QED BY <4>1, <4>2, <4>3
    <3> QED BY <3>1, <3>2
  <2>4. ScanTo(f, c, m)
    <3>1. f = [i \in 0 .. m |-> f[i]]
      OBVIOUS
    <3> HIDE DEF f
    <3> QED BY <3>1, <2>3 DEF ScanTo
  <2> QED BY <2>4
<1> QED BY <1>3, <1>4

(* It names one of the slots.                                              *)
LEMMA ScanNamesSlot ==
  ASSUME NEW c, NEW f, NEW n \in Nat, ScanTo(f, c, n)
  PROVE  \A i \in 0 .. n : f[i] \in 0 .. n
<1> DEFINE T == {i \in 0 .. n : f[i] \notin 0 .. n}
<1>1. SUFFICES ASSUME T # {} PROVE FALSE
  OBVIOUS
<1>2. PICK m \in T : \A k \in T : m <= k
  <2>1. T \in SUBSET Nat
    OBVIOUS
  <2> HIDE DEF T
  <2> QED BY <2>1, <1>1, LeastRecord
<1>3. f[m] = IF m = 0 THEN 0 ELSE BetterOf(c, m, f[m - 1])
  BY DEF ScanTo
<1>4. m # 0 => m - 1 \in 0 .. n /\ m - 1 \notin T
  BY <1>2
<1>5. m # 0 => f[m - 1] \in 0 .. n
  BY <1>4
<1> QED BY <1>3, <1>5 DEF BetterOf

LEMMA BestIsSlot ==
  ASSUME NEW c
  PROVE  bestRecord(c) \in Slots
<1> DEFINE D(f) == f = [i \in Slots |->
                         IF i = 0 THEN 0
                         ELSE IF i < c.number_foreign_records
                              /\ bmcDataSetComparison(c.parent, c.foreign[i],
                                                      c.foreign[f[i - 1]]) < 0
                              THEN i ELSE f[i - 1]]
           b == CHOOSE f : D(f)
<1>1. MaxForeign - 1 \in Nat /\ Slots = 0 .. MaxForeign - 1
  BY PtpdConfig DEF Slots
<1>2. \A f : D(f) <=> ScanTo(f, c, MaxForeign - 1)
  BY <1>1, Zenon DEF ScanTo, BetterOf
<1>3. \E f : D(f)
  BY <1>1, <1>2, ScanExists
<1>4. D(b)
  BY <1>3
<1>5. bestRecord(c) = b[MaxForeign - 1]
  BY DEF bestRecord
<1> HIDE DEF b, D
<1>6. ScanTo(b, c, MaxForeign - 1)
  BY <1>2, <1>4
<1> QED BY <1>1, <1>5, <1>6, ScanNamesSlot

----------------------------------------------------------------------------
(* The decision, and what the messages do to the records.                  *)

(* The source of a record is a number the data sets may hold.              *)
LEMMA SourceIsNumber ==
  ASSUME NEW a \in Announces \cup {NoAnnounce}
  PROVE  a.source \in Numbers
  BY DEF Numbers, NoAnnounce

(* The decision names the parent whose record it took for the best, when   *)
(* it names SLAVE.                                                         *)
LEMMA DecisionFollows ==
  ASSUME rtOpts \in Configurations, NEW x \in Structures
  PROVE  /\ bmc(x).state \in Entered /\ bmc(x).x \in Structures
         /\ bmc(x).x.clock.state = x.clock.state
         /\ bmc(x).state = "SLAVE" => Follows(bmc(x).x.clock)
<1> DEFINE best == bestRecord(x.clock)
           y == [x EXCEPT !.clock.foreign_record_best = best,
                          !.clock.bestMaster = best]
           f == x.clock.foreign[best]
           z == s1(y, f.ann)
<1>1. best \in Slots
  BY BestIsSlot
<1>2. f \in Foreign
  BY <1>1 DEF Structures, PtpClocks
<1>3. f.ann.source \in Numbers
  BY <1>2, SourceIsNumber DEF Foreign
<1>4. bmc(x) \in {decided(m1(x), "MASTER"), bmcStateDecision(y, f)}
  BY DEF bmc
<1>5. y = [x EXCEPT !.clock.foreign_record_best = best, !.clock.bestMaster = best]
      /\ f = x.clock.foreign[best] /\ z = s1(y, f.ann)
  OBVIOUS
<1> HIDE DEF best, y, f, z
<1>6. /\ y \in Structures /\ y.clock.state = x.clock.state
      /\ y.clock.bestMaster = best /\ y.clock.foreign = x.clock.foreign
  BY <1>1, <1>5 DEF Structures, PtpClocks
<1>7. z \in Structures /\ z.clock.state = x.clock.state /\ Follows(z.clock)
  <2>1. z = [y EXCEPT !.clock.parent = f.ann.source]
    BY <1>5 DEF s1
  <2>2. z \in Structures /\ z.clock.state = y.clock.state
        /\ z.clock.bestMaster = y.clock.bestMaster /\ z.clock.foreign = y.clock.foreign
        /\ z.clock.parent = f.ann.source
    BY <1>3, <1>6, <2>1 DEF Structures, PtpClocks
  <2> QED BY <1>1, <1>5, <1>6, <2>2 DEF Follows
<1>8. bmcStateDecision(y, f) \in
         { decided(z, s) : s \in {"SLAVE", "PASSIVE"} }
           \cup { decided(m1(y), "MASTER"), decided(y, "LISTENING"), decided(y, "FAULTY") }
  BY <1>5 DEF bmcStateDecision
<1>9. \A u, s : decided(u, s).x = u /\ decided(u, s).state = s
  BY DEF decided
<1> HIDE DEF decided
<1>10. \/ bmc(x).x = z /\ bmc(x).state \in {"SLAVE", "PASSIVE"}
       \/ bmc(x).x \in {m1(x), m1(y), y}
          /\ bmc(x).state \in {"MASTER", "LISTENING", "FAULTY"}
  BY <1>4, <1>8, <1>9
<1>11. ASSUME NEW u \in {m1(x), m1(y), y}
       PROVE  u \in Structures /\ u.clock.state = x.clock.state
  BY <1>6, ForgottenTyped
<1> QED BY <1>7, <1>10, <1>11 DEF Entered

(* A record is written where the scan finds its sender, or in a new slot:  *)
(* no state and no best master changes.                                    *)
LEMMA AddForeignTyped ==
  ASSUME rtOpts \in Configurations, NEW x \in Structures, NEW ann \in Announces
  PROVE  /\ addForeign(x, ann) \in Structures
         /\ addForeign(x, ann).clock.state = x.clock.state
         /\ addForeign(x, ann).clock.bestMaster = x.clock.bestMaster
<1> DEFINE c == x.clock
           U(d) == d \in PtpClocks /\ d.state = c.state /\ d.bestMaster = c.bestMaster
<1>0. c \in PtpClocks /\ MaxForeign \in Nat \ {0} /\ Slots = 0 .. MaxForeign - 1
  BY PtpdConfig DEF Structures, Slots
<1>1. ASSUME NEW j \in Slots PROVE U(updateForeign(c, ann, j))
  <2> DEFINE r == [ann |-> ann, disqualified |-> FALSE]
             g == [c.foreign EXCEPT ![j] = r]
  <2>1. r \in Foreign
    BY DEF Foreign
  <2> HIDE DEF r
  <2>2. g \in [Slots -> Foreign]
    BY <1>0, <2>1 DEF PtpClocks
  <2>3. updateForeign(c, ann, j) = [c EXCEPT !.foreign = g]
    BY <1>0 DEF updateForeign, r, PtpClocks
  <2> HIDE DEF g
  <2> QED BY <1>0, <2>2, <2>3 DEF PtpClocks
<1>2. U(newForeign(c, ann))
  <2> DEFINE n == IF c.number_foreign_records < MaxForeign
                  THEN c.number_foreign_records + 1 ELSE MaxForeign
             j == IF c.foreign_record_i = c.foreign_record_best
                  THEN (c.foreign_record_i + 1) % n ELSE c.foreign_record_i
             k == (j + 1) % MaxForeign
             u == updateForeign(c, ann, j)
  <2>1. newForeign(c, ann) = [u EXCEPT !.number_foreign_records = n,
                                       !.foreign_record_i = k]
    BY DEF newForeign
  <2>2. n \in 1 .. MaxForeign
    BY <1>0 DEF PtpClocks
  <2> HIDE DEF n
  <2>3. (c.foreign_record_i + 1) % n \in 0 .. n - 1
    BY <1>0, <2>2 DEF PtpClocks
  <2>4. j \in Slots
    BY <1>0, <2>2, <2>3 DEF PtpClocks
  <2> HIDE DEF j
  <2>5. k \in Slots
    BY <1>0, <2>4
  <2>6. U(u)
    BY <1>1, <2>4
  <2> HIDE DEF k, u
  <2> DEFINE v == [u EXCEPT !.number_foreign_records = n]
             w == [v EXCEPT !.foreign_record_i = k]
  <2>7. n \in 0 .. MaxForeign
    BY <1>0, <2>2
  <2>8. U(v)
    BY <2>6, <2>7 DEF PtpClocks
  <2>9. newForeign(c, ann) = w
    BY <2>1
  <2> HIDE DEF v
  <2>10. U(w)
    BY <2>5, <2>8 DEF PtpClocks
  <2> QED BY <2>9, <2>10
<1>3. ASSUME NEW i \in knownAt(c, ann) PROVE visited(c, i) \in Slots
  <2>1. i \in 0 .. c.number_foreign_records - 1 /\ c.number_foreign_records \in 0 .. MaxForeign
        /\ c.foreign_record_best \in Slots
    BY <1>0 DEF knownAt, PtpClocks
  <2>2. CASE i = 0
    BY <2>1, <2>2 DEF visited
  <2>3. CASE i # 0
    <3> DEFINE m == c.number_foreign_records
               b == c.foreign_record_best
    <3>1. m \in 1 .. MaxForeign /\ b + i \in Nat
      BY <1>0, <2>1
    <3>2. visited(c, i) = (b + i) % m
      BY <2>3 DEF visited
    <3> HIDE DEF m, b
    <3>3. (b + i) % m \in 0 .. m - 1
      BY <3>1
    <3> QED BY <1>0, <3>1, <3>2, <3>3
  <2> QED BY <2>2, <2>3
<1>4. ASSUME NEW d, U(d)
      PROVE  /\ [x EXCEPT !.clock = d] \in Structures
             /\ [x EXCEPT !.clock = d].clock.state = c.state
             /\ [x EXCEPT !.clock = d].clock.bestMaster = c.bestMaster
  BY <1>4 DEF Structures
<1> DEFINE K == knownAt(c, ann)
           i == CHOOSE i \in K : \A k \in K : i <= k
<1>5. CASE K = {}
  <2>1. addForeign(x, ann) = [x EXCEPT !.clock = newForeign(c, ann)]
    BY <1>5 DEF addForeign
  <2> QED BY <1>2, <1>4, <2>1
<1>6. CASE K # {}
  <2>1. addForeign(x, ann) = [x EXCEPT !.clock = updateForeign(c, ann, visited(c, i))]
    BY <1>6 DEF addForeign
  <2>2. i \in K
    <3>1. K \in SUBSET Nat
      BY <1>0 DEF knownAt, PtpClocks
    <3> HIDE DEF K
    <3>2. \E m \in K : \A k \in K : m <= k
      BY <1>6, <3>1, LeastRecord
    <3> QED BY <3>2
  <2> HIDE DEF i
  <2>3. U(updateForeign(c, ann, visited(c, i)))
    BY <1>1, <1>3, <2>2
  <2> QED BY <1>4, <2>1, <2>3
<1> QED BY <1>5, <1>6

(* An Announce is received: a decision is pending.                         *)
LEMMA AnnouncedSettled ==
  ASSUME rtOpts \in Configurations, NEW x, Settled(x), NEW ann \in Announces
  PROVE  Settled([announced(x, ann) EXCEPT !.clock.record_update = TRUE])
<1> DEFINE y == announced(x, ann)
           b == x.clock.bestMaster
           H(u) == /\ u \in Structures /\ u.clock.state = x.clock.state
                   /\ u.clock.bestMaster = x.clock.bestMaster
<1>0. x \in Structures
  BY DEF Settled
<1>1. H(s1(x, ann))
  BY <1>0, SourceIsNumber DEF s1, Structures, PtpClocks
<1>2. ASSUME NEW u, H(u) PROVE H(timerStart(u, {"ANNOUNCE_RECEIPT"}))
  <2>1. {"ANNOUNCE_RECEIPT"} \in SUBSET Timers
    BY DEF Timers
  <2> QED BY <1>2, <2>1, TimersLinked
<1>3. ASSUME x.clock.state = "SLAVE" PROVE H(parentAnnounces(x, ann))
  <2> DEFINE u == s1(x, ann)
             g == [u.clock.foreign EXCEPT ![b].ann = ann]
             n == IF rtOpts.grace > 0 THEN 0 ELSE u.clock.announceTimeouts
             v == [u EXCEPT !.clock.foreign = g, !.clock.announceTimeouts = n]
  <2>1. b \in Slots
    BY <1>3 DEF Settled
  <2>2. u.clock.foreign \in [Slots -> Foreign] /\ n \in 0 .. rtOpts.grace
    BY <1>1, Counts DEF Structures, PtpClocks
  <2>3. parentAnnounces(x, ann) = timerStart(v, {"ANNOUNCE_RECEIPT"})
    BY <1>1 DEF parentAnnounces, Structures, PtpClocks
  <2> HIDE DEF u, n
  <2>4. g \in [Slots -> Foreign]
    <3> DEFINE w == u.clock.foreign
               r == [w[b] EXCEPT !.ann = ann]
    <3>1. r \in Foreign
      BY <2>1, <2>2 DEF Foreign
    <3>2. g = [w EXCEPT ![b] = r]
      OBVIOUS
    <3> HIDE DEF w, r
    <3> QED BY <2>1, <2>2, <3>1, <3>2 DEF w
  <2> HIDE DEF g
  <2>5. H(v)
    <3>1. H(u)
      BY <1>1 DEF u
    <3> QED BY <3>1, <2>2, <2>4 DEF Structures, PtpClocks
  <2> HIDE DEF v
  <2> QED BY <1>2, <2>3, <2>5
<1>4. H(addForeign(x, ann))
  BY <1>0, AddForeignTyped
<1>5. H(y)
  <2> HIDE DEF H
  <2> QED BY <1>1, <1>2, <1>3, <1>4 DEF announced
<1> HIDE DEF y
<1>6. /\ [y EXCEPT !.clock.record_update = TRUE] \in Structures
      /\ [y EXCEPT !.clock.record_update = TRUE].clock.state = x.clock.state
      /\ [y EXCEPT !.clock.record_update = TRUE].clock.bestMaster = b
      /\ [y EXCEPT !.clock.record_update = TRUE].clock.record_update = TRUE
  BY <1>5 DEF Structures, PtpClocks
<1> QED BY <1>6 DEF Settled, y

----------------------------------------------------------------------------
(* The steps.                                                              *)

TypedInv == rtOpts \in Configurations /\ Settled(Now) /\ pc \in Points

(* A step to a settled structure.                                          *)
LEMMA GoesSettled ==
  ASSUME NEW x, Settled(x), NEW next \in Points, Go(x, next),
         rtOpts \in Configurations, rtOpts' \in Configurations,
         rtOpts'.maxListen = rtOpts.maxListen, rtOpts'.grace = rtOpts.grace
  PROVE  TypedInv'
<1>1. x.clock \in PtpClocks /\ PtpClocks' = PtpClocks /\ Structures' = Structures
  BY DEF Settled, Structures, PtpClocks
<1>2. Now' = [clock |-> x.clock, running |-> x.running, expired |-> x.expired] /\ pc' = next
  BY DEF Go, Now
<1> DEFINE n == [clock |-> x.clock, running |-> x.running, expired |-> x.expired]
<1>3. n \in Structures /\ n.clock = x.clock
  BY DEF Settled, Structures
<1> HIDE DEF n
<1>4. Now' \in Structures' /\ Now'.clock = x.clock
  BY <1>1, <1>2, <1>3 DEF n
<1>5. Settled(Now)'
  BY <1>4 DEF Settled, Follows
<1> QED BY <1>2, <1>5 DEF TypedInv

(* ... that leaves the options alone.                                      *)
LEMMA GoesOnSettled ==
  ASSUME TypedInv, NEW x, Settled(x), NEW next \in Points, Go(x, next), UNCHANGED rtOpts
  PROVE  TypedInv'
  BY GoesSettled DEF TypedInv

(* ... to a port that is FAULTY, INITIALIZING or DISABLED.                 *)
LEMMA GoesPlain ==
  ASSUME TypedInv, NEW x \in Structures, NEW s \in States \ {"SLAVE"},
         NEW next \in Points, Go(plainState(x, s), next), UNCHANGED rtOpts
  PROVE  TypedInv'
<1>1. Settled(plainState(x, s))
  BY PlainLoose DEF TypedInv, Loose
<1> QED BY <1>1, GoesOnSettled

(* What changes neither the state nor what a slave follows.                *)
LEMMA StaysSettled ==
  ASSUME NEW x, Settled(x), NEW y, Linked(x, y), y.clock.state = x.clock.state
  PROVE  Settled(y)
  BY DEF Settled, Linked, Follows

(* The structure as it is, and the one a message is put into.              *)
LEMMA NowSettled ==
  ASSUME TypedInv
  PROVE  /\ rtOpts \in Configurations /\ Settled(Now) /\ Now \in Structures
         /\ Now.clock = ptpClock /\ Now.expired = expired
         /\ Settled(Received) /\ Received \in Structures
         /\ Received.clock.state = ptpClock.state
         /\ Settled(Quiet) /\ Quiet \in Structures /\ Quiet.clock.state = ptpClock.state
<1>1. Settled(Now) /\ Now \in Structures /\ Now.clock = ptpClock /\ Now.expired = expired
  BY DEF TypedInv, Settled, Now
<1>2. ASSUME NEW b \in BOOLEAN, NEW n, n = Now
      PROVE  LET y == [n EXCEPT !.clock.message_activity = b]
             IN  Linked(n, y) /\ y.clock.state = n.clock.state
  BY <1>1, <1>2 DEF Linked, Structures, PtpClocks
<1>3. /\ Linked(Now, Received) /\ Received.clock.state = Now.clock.state
      /\ Linked(Now, Quiet) /\ Quiet.clock.state = Now.clock.state
  BY <1>2 DEF Received, Quiet
<1> QED BY <1>1, <1>3, StaysSettled DEF TypedInv, Linked

(* Timers read and started.                                                *)
LEMMA TimersSettled ==
  ASSUME NEW x, Settled(x), NEW T \in SUBSET Timers, NEW t
  PROVE  /\ Settled(timerStart(x, T)) /\ timerStart(x, T) \in Structures
         /\ Settled(read(x, t)) /\ read(x, t) \in Structures
         /\ read(x, t).clock = x.clock
<1>1. x \in Structures
  BY DEF Settled
<1>2. read(x, t) \in Structures /\ read(x, t).clock = x.clock
  BY <1>1 DEF read, Structures
<1>3. timerStart(x, T) \in Structures /\ timerStart(x, T).clock = x.clock
  BY <1>1, TimersLinked
<1> QED BY <1>2, <1>3 DEF Settled, Follows

(* Where the second switch of doState goes.                                *)
LEMMA ServedSettled ==
  ASSUME TypedInv, NEW x, Settled(x), Served(x), UNCHANGED rtOpts
  PROVE  TypedInv'
<1>1. CASE x.clock.state = "FAULTY"
  <2>1. Go(plainState(x, "INITIALIZING"), "bottom")
    BY <1>1 DEF Served
  <2>2. x \in Structures /\ "INITIALIZING" \in States \ {"SLAVE"} /\ "bottom" \in Points
    BY DEF Settled, States, Points
  <2> QED BY <2>1, <2>2, GoesPlain
<1>2. CASE x.clock.state # "FAULTY"
  <2>1. Case(x.clock.state) \in Points /\ Go(x, Case(x.clock.state))
    BY <1>2 DEF Served, Case, Points
  <2> QED BY <2>1, GoesOnSettled
<1> QED BY <1>1, <1>2

(* The top of a pass.                                                      *)
LEMMA TopsSettle ==
  ASSUME TypedInv, Tops
  PROVE  TypedInv'
<1>0. /\ rtOpts \in Configurations /\ Settled(Now) /\ Now \in Structures
      /\ Now.clock = ptpClock /\ Settled(Quiet) /\ Quiet \in Structures
      /\ Quiet.clock.state = ptpClock.state /\ "bottom" \in Points
  BY NowSettled DEF Points
<1>1. CASE AwaitInit
  <2> DEFINE n == Now
             t == n.clock.initFailureTimeout - 1
             x == [n EXCEPT !.clock.initFailureTimeout = t]
  <2>1. Go(x, "bottom") /\ UNCHANGED rtOpts /\ n.clock.initFailureTimeout > 1
    BY <1>0, <1>1 DEF AwaitInit
  <2>2. t \in 0 .. InitWait
    BY <1>0, <2>1, PtpdConfig DEF Structures, PtpClocks
  <2> HIDE DEF n, t
  <2>3. n \in Structures
    BY <1>0 DEF n
  <2>4. Linked(n, x) /\ x.clock.state = n.clock.state
    <3>1. n.clock \in PtpClocks
      BY <2>3 DEF Structures
    <3> DEFINE d == [n.clock EXCEPT !.initFailureTimeout = t]
    <3>2. /\ d \in PtpClocks /\ d.state = n.clock.state
          /\ d.bestMaster = n.clock.bestMaster /\ d.foreign = n.clock.foreign
          /\ d.parent = n.clock.parent /\ d.record_update = n.clock.record_update
      BY <2>2, <3>1 DEF PtpClocks
    <3>3. x = [n EXCEPT !.clock = d]
      BY <2>3 DEF Structures
    <3> HIDE DEF d, x
    <3> QED BY <2>3, <3>2, <3>3 DEF Linked, Structures
  <2> HIDE DEF x
  <2>5. Settled(x)
    BY <1>0, <2>4, StaysSettled DEF n
  <2> QED BY <1>0, <2>1, <2>5, GoesOnSettled
<1>2. CASE doInit
  <2>1. PICK ok \in Refreshes :
           Go([toListening(m1(initData(Now)), ok) EXCEPT
                  !.clock.initFailure = FALSE, !.clock.initFailureTimeout = 0],
              "bottom")
    BY <1>2 DEF doInit
  <2> DEFINE i == initData(Now)
             l == toListening(m1(i), ok)
             x == [l EXCEPT !.clock.initFailure = FALSE,
                            !.clock.initFailureTimeout = 0]
  <2>2. i \in Structures
    <3> DEFINE n == Now
               a == rtOpts.priority1
               so == n.clock.slaveOnly \/ rtOpts.clockClass = SlaveOnlyClass
               dis == rtOpts.portDisabled
               y == [n EXCEPT !.clock.priority1 = a, !.clock.slaveOnly = so,
                              !.clock.disabled = dis, !.clock.bestMaster = Null,
                              !.clock.number_foreign_records = 0]
    <3>1. i = y
      BY DEF initData
    <3>2. n \in Structures /\ a \in Nat /\ dis \in BOOLEAN
      BY <1>0 DEF Configurations
    <3>3. so \in BOOLEAN
      OBVIOUS
    <3>4. 0 \in 0 .. MaxForeign
      BY <1>0, Counts
    <3> HIDE DEF n, a, so, dis, i
    <3>5. y \in Structures
      BY <3>2, <3>3, <3>4 DEF Structures, PtpClocks
    <3> QED BY <3>1, <3>5
  <2> HIDE DEF i
  <2>3. l \in Structures /\ l.clock.state # "SLAVE"
    BY <1>0, <2>2, ForgottenTyped, ToListeningLoose DEF Loose, Settled
  <2>4. Go(x, "bottom") /\ UNCHANGED rtOpts
    BY <1>2, <2>1 DEF doInit, i
  <2> HIDE DEF l
  <2>5. 0 \in 0 .. InitWait
    BY <1>0, Counts
  <2>6. x \in Structures /\ x.clock.state # "SLAVE"
    BY <2>3, <2>5 DEF Structures, PtpClocks
  <2> HIDE DEF x
  <2> QED BY <1>0, <2>4, <2>6, LinkedLoose, GoesOnSettled DEF Loose
<1>3. CASE doInitFails
  <2> DEFINE l == plainState(Now, "FAULTY")
             x == [l EXCEPT !.clock.initFailure = TRUE,
                            !.clock.initFailureTimeout = InitWait]
  <2>1. "FAULTY" \in States \ {"SLAVE"} /\ InitWait \in 0 .. InitWait
    BY <1>0, Counts DEF States
  <2>2. l \in Structures /\ l.clock.state # "SLAVE"
    BY <1>0, <2>1, PlainLoose DEF Loose, Settled
  <2>3. Go(x, "bottom") /\ UNCHANGED rtOpts
    BY <1>3 DEF doInitFails
  <2> HIDE DEF l
  <2>4. x \in Structures /\ x.clock.state # "SLAVE"
    BY <2>1, <2>2 DEF Structures, PtpClocks
  <2> HIDE DEF x
  <2> QED BY <1>0, <2>3, <2>4, LinkedLoose, GoesOnSettled DEF Loose
<1>4. CASE Decide
  <2> DEFINE q == Quiet
             x == [q EXCEPT !.clock.record_update = FALSE]
             d == bmc(x)
  <2>1. PICK ok \in Refreshes :
           Served(IF d.state = ptpClock.state THEN d.x ELSE toState(d.x, d.state, ok))
    BY <1>4 DEF Decide
  <2>2. q \in Structures /\ q.clock.state = ptpClock.state
    BY <1>0
  <2> HIDE DEF q
  <2>3. x \in Structures /\ x.clock.state = ptpClock.state
    BY <2>2 DEF Structures, PtpClocks
  <2> HIDE DEF x
  <2>4. /\ d.state \in Entered /\ d.x \in Structures
        /\ d.x.clock.state = ptpClock.state
        /\ d.state = "SLAVE" => Follows(d.x.clock)
    BY <1>0, <2>3, DecisionFollows
  <2> HIDE DEF d
  <2>5. Settled(toState(d.x, d.state, ok))
    BY <1>0, <2>4, ToStateSettled
  <2>6. d.state = ptpClock.state => Settled(d.x)
    BY <2>4 DEF Settled, Follows
  <2>7. UNCHANGED rtOpts
    BY <1>4 DEF Decide
  <2> QED BY <2>1, <2>5, <2>6, <2>7, ServedSettled
<1>5. CASE NothingToDecide
  <2>1. Served(Quiet) /\ UNCHANGED rtOpts
    BY <1>5 DEF NothingToDecide
  <2> QED BY <1>0, <2>1, ServedSettled
<1> QED BY <1>1, <1>2, <1>3, <1>4, <1>5 DEF Tops

(* The messages.                                                           *)
LEMMA MessagesSettle ==
  ASSUME TypedInv, Messages \/ HandleNothing
  PROVE  TypedInv'
<1>0. /\ rtOpts \in Configurations /\ Settled(Now) /\ Now \in Structures
      /\ Now.clock = ptpClock /\ Settled(Received) /\ Received \in Structures
      /\ Received.clock.state = ptpClock.state /\ ptpClock \in PtpClocks
  <2>1. Now.clock \in PtpClocks
    BY NowSettled DEF Structures
  <2> QED BY <2>1, NowSettled
<1>1. pc \in Handling \cup General => AfterHandle \in Points
  BY DEF AfterHandle, Handling, General, Points
<1>2. Receives => AfterHandle \in Points
  BY <1>1 DEF Receives, Selected
<1>3. "FAULTY" \in States \ {"SLAVE"}
  BY DEF States
<1>4. ASSUME NEW c \in PtpClocks, c.state = ptpClock.state,
             c.bestMaster = ptpClock.bestMaster, c.foreign = ptpClock.foreign,
             c.parent = ptpClock.parent,
             c.record_update \in {ptpClock.record_update, TRUE}, answered(c), Receives,
             rtOpts' \in Configurations, rtOpts'.maxListen = rtOpts.maxListen,
             rtOpts'.grace = rtOpts.grace
      PROVE  TypedInv'
  <2> DEFINE r == Received
             x == [r EXCEPT !.clock = c]
  <2>1. PICK sent \in Answers :
           Go(IF sent THEN x ELSE plainState(x, "FAULTY"), AfterHandle)
    BY <1>4 DEF answered
  <2>2. r \in Structures
    BY <1>0
  <2> HIDE DEF r
  <2>3. x \in Structures /\ x.clock = c
    BY <1>4, <2>2 DEF Structures
  <2> HIDE DEF x
  <2>4. Settled(x)
    BY <1>0, <1>4, <2>3 DEF Settled, Follows
  <2>5. Settled(plainState(x, "FAULTY"))
    BY <1>0, <1>3, <2>3, PlainLoose DEF Loose
  <2> QED BY <1>0, <1>2, <1>4, <2>1, <2>4, <2>5, GoesSettled
<1>5. CASE HandleNothing
  <2>1. AfterHandle \in Points
    BY <1>1, <1>5 DEF HandleNothing
  <2> QED BY <1>0, <1>5, <2>1, GoesOnSettled DEF HandleNothing
<1>6. CASE HandleFails
  <2>1. AfterHandle \in Points /\ Go(plainState(Now, "FAULTY"), AfterHandle)
        /\ UNCHANGED rtOpts
    BY <1>2, <1>6 DEF HandleFails
  <2> QED BY <1>0, <1>3, <2>1, GoesPlain
<1>7. CASE AnswerFails
  <2>1. PICK next \in {"general", "general_master"} : Go(plainState(Now, "FAULTY"), next)
    BY <1>7 DEF AnswerFails
  <2>2. UNCHANGED rtOpts /\ next \in Points
    BY <1>7, <2>1 DEF AnswerFails, Points
  <2> QED BY <1>0, <1>3, <2>1, <2>2, GoesPlain
<1>8. ASSUME NEW ann \in Announces, handleAnnounce(ann) PROVE TypedInv'
  <2> DEFINE y == [announced(Received, ann) EXCEPT !.clock.record_update = TRUE]
  <2>1. Settled(y)
    BY <1>0, AnnouncedSettled
  <2> HIDE DEF y
  <2>2. Go(Received, "crashed") \/ Go(y, AfterHandle)
    BY <1>8 DEF handleAnnounce, y
  <2>3. UNCHANGED rtOpts /\ AfterHandle \in Points /\ "crashed" \in Points
    BY <1>2, <1>8 DEF handleAnnounce, Points
  <2> QED BY <1>0, <2>1, <2>2, <2>3, GoesOnSettled
<1>9. ASSUME NEW updated \in BOOLEAN, handleSync(updated) PROVE TypedInv'
  <2> DEFINE r == Received
             x == [r EXCEPT !.clock.syncWaiting = FALSE]
             T == (IF ptpClock.syncWaiting THEN {DelayTimer} ELSE {})
                    \cup IF updated THEN {"CLOCK_UPDATE"} ELSE {}
  <2>1. Go(timerStart(x, T), "general") /\ UNCHANGED rtOpts
    BY <1>9 DEF handleSync
  <2>2. T \in SUBSET Timers /\ "general" \in Points
    BY DEF Timers, DelayTimer, Points
  <2>3. Linked(r, x) /\ x.clock.state = r.clock.state
    <3>1. r \in Structures
      BY <1>0
    <3> HIDE DEF r
    <3> QED BY <3>1 DEF Linked, Structures, PtpClocks
  <2> HIDE DEF x, T
  <2>4. Settled(x)
    BY <1>0, <2>3, StaysSettled
  <2>5. Settled(timerStart(x, T))
    BY <2>2, <2>4, TimersSettled
  <2> QED BY <2>1, <2>2, <2>5, GoesOnSettled
<1>10. CASE handleFollowUp
  <2>1. /\ Go(timerStart(Received, {"CLOCK_UPDATE"}), AfterHandle) /\ UNCHANGED rtOpts
        /\ AfterHandle \in Points
    BY <1>2, <1>10 DEF handleFollowUp
  <2>2. {"CLOCK_UPDATE"} \in SUBSET Timers
    BY DEF Timers
  <2>3. Settled(timerStart(Received, {"CLOCK_UPDATE"}))
    BY <1>0, <2>2, TimersSettled
  <2> QED BY <2>1, <2>3, GoesOnSettled
<1>11. ASSUME NEW so \in BOOLEAN, handleMMSlaveOnly(so) PROVE TypedInv'
  <2> DEFINE c == [ptpClock EXCEPT !.slaveOnly = so, !.record_update = TRUE]
  <2>1. answered(c) /\ Receives /\ UNCHANGED rtOpts
    BY <1>11 DEF handleMMSlaveOnly, Asks
  <2>2. /\ c \in PtpClocks /\ c.state = ptpClock.state
        /\ c.bestMaster = ptpClock.bestMaster /\ c.foreign = ptpClock.foreign
        /\ c.parent = ptpClock.parent /\ c.record_update = TRUE
    BY <1>0 DEF PtpClocks
  <2> HIDE DEF c
  <2> QED BY <1>0, <1>4, <2>1, <2>2
<1>12. ASSUME NEW p \in Priorities, handleMMPriority1(p) PROVE TypedInv'
  <2> DEFINE c == [ptpClock EXCEPT !.priority1 = p, !.record_update = TRUE]
  <2>1. answered(c) /\ Receives /\ rtOpts' = [rtOpts EXCEPT !.priority1 = p]
    BY <1>12 DEF handleMMPriority1, Asks
  <2>2. p \in Nat
    BY PtpdConfig
  <2>3. /\ c \in PtpClocks /\ c.state = ptpClock.state
        /\ c.bestMaster = ptpClock.bestMaster /\ c.foreign = ptpClock.foreign
        /\ c.parent = ptpClock.parent /\ c.record_update = TRUE
    BY <1>0, <2>2 DEF PtpClocks
  <2> HIDE DEF c
  <2>4. /\ rtOpts' \in Configurations /\ rtOpts'.maxListen = rtOpts.maxListen
        /\ rtOpts'.grace = rtOpts.grace
    BY <1>0, <2>1, <2>2 DEF Configurations
  <2> QED BY <1>4, <2>1, <2>3, <2>4
<1>13. ASSUME NEW b \in BOOLEAN, rtOpts' = [rtOpts EXCEPT !.portDisabled = b]
       PROVE  /\ rtOpts' \in Configurations /\ rtOpts'.maxListen = rtOpts.maxListen
              /\ rtOpts'.grace = rtOpts.grace
  BY <1>0, <1>13 DEF Configurations
<1>14. CASE handleMMDisablePort
  <2> DEFINE c == [ptpClock EXCEPT !.restart = TRUE]
  <2>1. answered(c) /\ Receives /\ rtOpts' = [rtOpts EXCEPT !.portDisabled = TRUE]
    BY <1>14 DEF handleMMDisablePort, Asks
  <2>2. /\ c \in PtpClocks /\ c.state = ptpClock.state
        /\ c.bestMaster = ptpClock.bestMaster /\ c.foreign = ptpClock.foreign
        /\ c.parent = ptpClock.parent /\ c.record_update = ptpClock.record_update
    BY <1>0 DEF PtpClocks
  <2> HIDE DEF c
  <2> QED BY <1>4, <1>13, <2>1, <2>2
<1>15. CASE handleMMEnablePort
  <2> DEFINE c == [ptpClock EXCEPT !.disabled = FALSE, !.restart = TRUE]
  <2>1. answered(c) /\ Receives /\ rtOpts' = [rtOpts EXCEPT !.portDisabled = FALSE]
    BY <1>15 DEF handleMMEnablePort, Asks
  <2>2. /\ c \in PtpClocks /\ c.state = ptpClock.state
        /\ c.bestMaster = ptpClock.bestMaster /\ c.foreign = ptpClock.foreign
        /\ c.parent = ptpClock.parent /\ c.record_update = ptpClock.record_update
    BY <1>0 DEF PtpClocks
  <2> HIDE DEF c
  <2> QED BY <1>4, <1>13, <2>1, <2>2
<1> QED BY <1>5, <1>6, <1>7, <1>8, <1>9, <1>10, <1>11, <1>12, <1>14, <1>15 DEF Messages

(* What a port does that is not master, once handle is done.               *)
LEMMA SlaveSettles ==
  ASSUME TypedInv, Slave
  PROVE  TypedInv'
<1>0. /\ rtOpts \in Configurations /\ Settled(Now) /\ Now \in Structures
      /\ Now.clock = ptpClock /\ ptpClock \in PtpClocks
  <2>1. Now.clock \in PtpClocks
    BY NowSettled DEF Structures
  <2> QED BY <2>1, NowSettled
<1>1. /\ AfterReceipt \in Points /\ {"bottom", "delay", "crashed", "clock"} \subseteq Points
      /\ {"FAULTY", "INITIALIZING"} \subseteq States \ {"SLAVE"}
  BY DEF AfterReceipt, Points, States
<1>2. /\ Settled(Timed) /\ Timed \in Structures /\ Timed.clock = ptpClock
  <2>1. Settled(read(Now, "ANNOUNCE_RECEIPT")) /\ read(Now, "ANNOUNCE_RECEIPT") \in Structures
        /\ read(Now, "ANNOUNCE_RECEIPT").clock = Now.clock
    BY <1>0, TimersSettled
  <2> QED BY <1>0, <2>1 DEF Timed
<1>3. CASE NoReceiptTimeout
  BY <1>0, <1>1, <1>3, GoesOnSettled DEF NoReceiptTimeout
<1>4. CASE TakeOver
  <2>1. Go(toMaster(m1(forget(Timed))), AfterReceipt) /\ UNCHANGED rtOpts
    BY <1>4 DEF TakeOver
  <2>2. m1(forget(Timed)) \in Structures
    BY <1>0, <1>2, ForgottenTyped
  <2>3. Settled(toMaster(m1(forget(Timed))))
    BY <1>0, <2>2, ToMasterLoose DEF Loose
  <2> QED BY <1>1, <2>1, <2>3, GoesOnSettled
<1>5. CASE DisqualifyBest
  <2> DEFINE b == ptpClock.bestMaster
             n == Timed
             x == [n EXCEPT !.clock.foreign[b].disqualified = TRUE]
             y == [x EXCEPT !.clock.announceTimeouts = @ + 1]
  <2>1. CASE b = Null
    <3>1. Go(Timed, "crashed") /\ UNCHANGED rtOpts
      BY <1>5, <2>1 DEF DisqualifyBest
    <3> QED BY <1>1, <1>2, <3>1, GoesOnSettled
  <2>2. CASE b # Null
    <3>0. UNCHANGED rtOpts /\ ptpClock.announceTimeouts < rtOpts.grace
      BY <1>5 DEF DisqualifyBest, Disqualifies
    <3>1. Go(y, AfterReceipt) \/ Go(plainState(x, "FAULTY"), "bottom")
      BY <1>5, <2>2 DEF DisqualifyBest
    <3>2. b \in Slots
      BY <1>0, <2>2 DEF PtpClocks
    <3> DEFINE c == n.clock
               r == [c.foreign[b] EXCEPT !.disqualified = TRUE]
               g == [c.foreign EXCEPT ![b] = r]
               d == [c EXCEPT !.foreign = g]
    <3>3. c = ptpClock /\ c \in PtpClocks /\ n \in Structures /\ Settled(n)
      BY <1>0, <1>2
    <3>4. x = [n EXCEPT !.clock = d]
      BY <3>2, <3>3 DEF Structures, PtpClocks
    <3> HIDE DEF c, n, x
    <3>5. r \in Foreign /\ r.ann = c.foreign[b].ann
      BY <3>2, <3>3 DEF PtpClocks, Foreign
    <3> HIDE DEF r
    <3>6. g \in [Slots -> Foreign] /\ \A i \in Slots : g[i].ann = c.foreign[i].ann
      BY <3>2, <3>3, <3>5 DEF PtpClocks
    <3> HIDE DEF g
    <3>7. /\ d \in PtpClocks /\ d.state = c.state /\ d.foreign = g
          /\ d.bestMaster = c.bestMaster /\ d.parent = c.parent
          /\ d.record_update = c.record_update
          /\ d.announceTimeouts = c.announceTimeouts
      BY <3>3, <3>6 DEF PtpClocks
    <3> HIDE DEF d
    <3>8. x \in Structures /\ x.clock = d
      BY <3>3, <3>4, <3>7 DEF Structures
    <3>9. Settled(x)
      BY <3>3, <3>6, <3>7, <3>8 DEF Settled, Follows, c
    <3>10. CASE Go(plainState(x, "FAULTY"), "bottom")
      BY <1>1, <3>0, <3>8, <3>10, GoesPlain
    <3>11. CASE Go(y, AfterReceipt)
      <4> DEFINE k == x.clock.announceTimeouts + 1
      <4>1. k \in 0 .. rtOpts.grace
        BY <1>0, <3>0, <3>3, <3>7, <3>8, Counts DEF PtpClocks
      <4>2. y = [x EXCEPT !.clock.announceTimeouts = k]
        BY <3>8 DEF Structures
      <4> HIDE DEF k, y
      <4>3. Linked(x, y) /\ y.clock.state = x.clock.state
        BY <3>8, <4>1, <4>2 DEF Linked, Structures, PtpClocks
      <4>4. Settled(y)
        BY <3>9, <4>3, StaysSettled
      <4> QED BY <1>1, <3>0, <3>11, <4>4, GoesOnSettled
    <3> QED BY <3>1, <3>10, <3>11
  <2> QED BY <2>1, <2>2
<1>6. ASSUME NEW x \in Structures, NEW ok PROVE Settled(startOver(x, ok))
  BY <1>0, <1>1, <1>6, PlainLoose, ToListeningLoose DEF startOver, Loose
<1>7. CASE ResetPort
  <2> DEFINE f == forget(Timed)
             x == [f EXCEPT !.clock.bestMaster = Null]
  <2>1. PICK ok \in Refreshes :
           Go(startOver(IF ptpClock.state = "LISTENING" THEN Timed ELSE x, ok), AfterReceipt)
    BY <1>7 DEF ResetPort
  <2>2. f \in Structures
    BY <1>0, <1>2, ForgottenTyped
  <2> HIDE DEF f
  <2>3. x \in Structures
    BY <1>0, <2>2, ForgottenTyped
  <2> HIDE DEF x
  <2>4. Settled(startOver(Timed, ok)) /\ Settled(startOver(x, ok))
    BY <1>2, <1>6, <2>3
  <2>5. UNCHANGED rtOpts
    BY <1>7 DEF ResetPort
  <2> QED BY <1>1, <2>1, <2>4, <2>5, GoesOnSettled
<1>8. CASE NoClockTimeout
  BY <1>0, <1>1, <1>8, GoesOnSettled DEF NoClockTimeout
<1>9. CASE ResetSlave
  <2>1. PICK ok \in Refreshes : Go(toListening(read(Now, "CLOCK_UPDATE"), ok), "delay")
    BY <1>9 DEF ResetSlave
  <2>2. read(Now, "CLOCK_UPDATE") \in Structures
    BY <1>0, TimersSettled
  <2>3. Settled(toListening(read(Now, "CLOCK_UPDATE"), ok))
    BY <1>0, <2>2, ToListeningLoose DEF Loose
  <2>4. UNCHANGED rtOpts
    BY <1>9 DEF ResetSlave
  <2> QED BY <1>1, <2>1, <2>3, <2>4, GoesOnSettled
<1>10. CASE PostponeReset
  <2>1. Go(timerStart(Now, {"CLOCK_UPDATE"}), "delay") /\ UNCHANGED rtOpts
    BY <1>10 DEF PostponeReset
  <2>2. {"CLOCK_UPDATE"} \in SUBSET Timers
    BY DEF Timers
  <2>3. Settled(timerStart(Now, {"CLOCK_UPDATE"}))
    BY <1>0, <2>2, TimersSettled
  <2> QED BY <1>1, <2>1, <2>3, GoesOnSettled
<1>11. CASE NoDelayRequest
  BY <1>0, <1>1, <1>11, GoesOnSettled DEF NoDelayRequest
<1>12. CASE issueDelayReq
  <2> DEFINE x == read(Now, DelayTimer)
             y == timerStart(x, {"DELAYREQ_INTERVAL"})
  <2>1. Settled(x) /\ x \in Structures
    BY <1>0, TimersSettled
  <2>2. Go(plainState(x, "FAULTY"), "bottom") \/ Go(x, "bottom") \/ Go(y, "bottom")
    BY <1>12 DEF issueDelayReq
  <2> HIDE DEF x
  <2>3. {"DELAYREQ_INTERVAL"} \in SUBSET Timers
    BY DEF Timers
  <2>4. Settled(y)
    BY <2>1, <2>3, TimersSettled
  <2>5. UNCHANGED rtOpts
    BY <1>12 DEF issueDelayReq
  <2> HIDE DEF y
  <2>6. CASE Go(plainState(x, "FAULTY"), "bottom")
    BY <1>1, <2>1, <2>5, <2>6, GoesPlain
  <2> QED BY <1>1, <2>1, <2>2, <2>4, <2>5, <2>6, GoesOnSettled
<1> QED BY <1>3, <1>4, <1>5, <1>7, <1>8, <1>9, <1>10, <1>11, <1>12 DEF Slave

(* What a master does.                                                     *)
LEMMA MasterSettles ==
  ASSUME TypedInv, Master \/ Enable
  PROVE  TypedInv'
<1>0. /\ rtOpts \in Configurations /\ Settled(Now) /\ Now \in Structures
  BY NowSettled
<1>1. /\ {"pdelay", "refresh", "sync", "handle_master", "bottom"} \subseteq Points
      /\ "FAULTY" \in States \ {"SLAVE"}
  BY DEF Points, States
<1>2. ASSUME NEW x, Settled(x), NEW next \in Points,
             Go(x, next) \/ Go(plainState(x, "FAULTY"), next), UNCHANGED rtOpts
      PROVE  TypedInv'
  <2>1. x \in Structures
    BY <1>2 DEF Settled
  <2>2. CASE Go(x, next)
    BY <1>2, <2>2, GoesOnSettled
  <2>3. CASE Go(plainState(x, "FAULTY"), next)
    BY <1>1, <1>2, <2>1, <2>3, GoesPlain
  <2> QED BY <1>2, <2>2, <2>3
<1>3. ASSUME NEW at, NEW t, NEW next \in Points, NotDue(at, t, next) PROVE TypedInv'
  BY <1>0, <1>3, GoesOnSettled DEF NotDue
<1>4. ASSUME NEW at, NEW t \in Timers, NEW next \in Points, Issue(at, t, next)
      PROVE  TypedInv'
  <2>1. PICK x \in {timerStart(Now, {t}), read(Now, t)} :
           (Go(x, next) \/ Go(plainState(x, "FAULTY"), next)) /\ UNCHANGED rtOpts
    BY <1>4 DEF Issue
  <2>2. Settled(x)
    BY <1>0, TimersSettled
  <2> QED BY <1>2, <2>1, <2>2
<1>5. CASE NotDue("announce", "ANNOUNCE_INTERVAL", "pdelay")
           \/ NotDue("refresh", "MASTER_NETREFRESH", "sync")
           \/ NotDue("sync", "SYNC_INTERVAL", "handle_master")
  BY <1>1, <1>3, <1>5
<1>6. CASE issueAnnounce \/ issueSync
  <2>1. {"ANNOUNCE_INTERVAL", "SYNC_INTERVAL"} \subseteq Timers
    BY DEF Timers
  <2> QED BY <1>1, <1>4, <1>6, <2>1 DEF issueAnnounce, issueSync
<1>7. CASE NoPdelayReq
  BY <1>0, <1>1, <1>7, GoesOnSettled DEF NoPdelayReq
<1>8. CASE issuePdelayReq
  <2> DEFINE x == read(Now, "PDELAYREQ_INTERVAL")
  <2>1. Settled(x)
    BY <1>0, TimersSettled
  <2>2. (Go(x, "refresh") \/ Go(plainState(x, "FAULTY"), "refresh")) /\ UNCHANGED rtOpts
    BY <1>8 DEF issuePdelayReq
  <2> HIDE DEF x
  <2> QED BY <1>1, <1>2, <2>1, <2>2
<1>9. CASE netRefreshIGMP
  <2> DEFINE x == read(Now, "MASTER_NETREFRESH")
  <2>1. Settled(x)
    BY <1>0, TimersSettled
  <2>2. (Go(x, "sync") \/ Go(plainState(x, "FAULTY"), "bottom")) /\ UNCHANGED rtOpts
    BY <1>9 DEF netRefreshIGMP
  <2> HIDE DEF x
  <2> QED BY <1>1, <1>2, <2>1, <2>2
<1>10. CASE Demote \/ Enable
  <2>1. /\ Go(Now, "bottom") \/ \E ok \in Refreshes : Go(toListening(Now, ok), "bottom")
        /\ UNCHANGED rtOpts
    BY <1>10 DEF Demote, Enable
  <2>2. \A ok : Settled(toListening(Now, ok))
    BY <1>0, ToListeningLoose DEF Loose
  <2> QED BY <1>0, <1>1, <2>1, <2>2, GoesOnSettled
<1> QED BY <1>5, <1>6, <1>7, <1>8, <1>9, <1>10 DEF Master

(* The bottom of a pass, and the timers that expire.                       *)
LEMMA BottomSettles ==
  ASSUME TypedInv, NextPass \/ \E t \in Timers : Expire(t)
  PROVE  TypedInv'
<1>0. /\ rtOpts \in Configurations /\ Settled(Now) /\ Now \in Structures
      /\ Now.clock = ptpClock
  BY NowSettled
<1>1. CASE NextPass
  <2> DEFINE e == enforced(Now)
             so == rtOpts.clockClass = SlaveOnlyClass
             y == [e EXCEPT !.clock.slaveOnly = so, !.clock.disabled = rtOpts.portDisabled,
                            !.clock.restart = FALSE]
             r == restartSubsystems(e)
  <2>1. Settled(e) /\ e \in Structures
    BY <1>0, ToDisabledLoose DEF enforced, Loose, Settled
  <2>2. r \in {e, toDisabled(y), plainState(y, "INITIALIZING")}
    BY DEF restartSubsystems
  <2>3. Go(r, "top") /\ UNCHANGED rtOpts
    BY <1>1 DEF NextPass
  <2>4. rtOpts.portDisabled \in BOOLEAN /\ so \in BOOLEAN
    BY <1>0 DEF Configurations
  <2> HIDE DEF e, so, r
  <2>5. y \in Structures
    BY <2>1, <2>4 DEF Structures, PtpClocks
  <2> HIDE DEF y
  <2>6. "INITIALIZING" \in States \ {"SLAVE"} /\ "top" \in Points
    BY DEF States, Points
  <2>7. Settled(toDisabled(y)) /\ Settled(plainState(y, "INITIALIZING"))
    BY <1>0, <2>5, <2>6, ToDisabledLoose, PlainLoose DEF Loose
  <2> QED BY <2>1, <2>2, <2>3, <2>6, <2>7, GoesOnSettled
<1>2. ASSUME NEW t \in Timers, Expire(t) PROVE TypedInv'
  <2> DEFINE x == [clock |-> ptpClock, running |-> running, expired |-> expired \cup {t}]
  <2>1. Settled(x)
    <3>1. [clock |-> ptpClock, running |-> running, expired |-> expired] \in Structures
      BY <1>0 DEF Now
    <3>2. x \in Structures /\ x.clock = ptpClock
      BY <3>1 DEF Structures
    <3> QED BY <1>0, <3>2 DEF Settled, Follows
  <2>2. Go(x, pc) /\ UNCHANGED rtOpts /\ pc \in Points
    BY <1>2 DEF Expire, Go, TypedInv
  <2> HIDE DEF x
  <2> QED BY <2>1, <2>2, GoesOnSettled
<1> QED BY <1>1, <1>2

LEMMA InitSettled == Init => TypedInv
<1> SUFFICES ASSUME Init PROVE TypedInv
  OBVIOUS
<1>1. rtOpts \in Configurations /\ pc \in Points
  BY PtpdConfig DEF Init, Points
<1>2. [i \in Slots |-> [ann |-> NoAnnounce, disqualified |-> FALSE]] \in [Slots -> Foreign]
  BY DEF Foreign
<1>3. Reset \in PtpClocks /\ Reset.state # "SLAVE"
  BY <1>1, <1>2, Counts DEF Reset, PtpClocks, States
<1>4. rtOpts.priority1 \in Nat
  BY <1>1 DEF Configurations
<1>5. ptpClock \in PtpClocks /\ ptpClock.state # "SLAVE"
  <2> DEFINE so == rtOpts.clockClass = SlaveOnlyClass
             p == rtOpts.priority1
             d == [Reset EXCEPT !.state = "DISABLED", !.disabled = TRUE,
                                !.priority1 = p, !.slaveOnly = so]
  <2>1. ptpClock \in {d, Reset}
    BY DEF Init
  <2>2. so \in BOOLEAN /\ p \in Nat
    BY <1>4
  <2> HIDE DEF so, p
  <2>3. d \in PtpClocks /\ d.state # "SLAVE"
    BY <1>3, <2>2 DEF PtpClocks, States
  <2> QED BY <1>3, <2>1, <2>3
<1>6. Now \in Structures /\ Now.clock = ptpClock
  BY <1>5 DEF Init, Now, Structures
<1> QED BY <1>1, <1>5, <1>6 DEF TypedInv, Settled

LEMMA TypedInvariant == Spec => []TypedInv
<1>1. Init => TypedInv
  BY InitSettled
<1>2. TypedInv /\ [Next]_vars => TypedInv'
  <2> SUFFICES ASSUME TypedInv, [Next]_vars PROVE TypedInv'
    OBVIOUS
  <2>1. CASE UNCHANGED vars
    <3>1. Go(Now, pc) /\ UNCHANGED rtOpts /\ pc \in Points
      BY <2>1 DEF vars, Go, Now, TypedInv
    <3> QED BY <3>1, NowSettled, GoesOnSettled
  <2>2. CASE Next
    BY <2>2, TopsSettle, MessagesSettle, SlaveSettles, MasterSettles, BottomSettles
       DEF Next, Pass
  <2> QED BY <2>1, <2>2
<1> QED BY <1>1, <1>2, PTL DEF Spec

(* The structure of a port, its timers and the point of its pass are what  *)
(* the code declares them to be: no record is looked up or written outside *)
(* the array (the visited slots of addForeign, the slot after the best one *)
(* and the scan of bmc are all inside it), and the two counters of         *)
(* unanswered timeouts stay below max_listen and the grace period.         *)
THEOREM TypeCorrect == Spec => []TypeOK
<1>1. TypedInv => TypeOK
  BY DEF TypedInv, Settled, Now, Structures, TypeOK
<1> QED BY <1>1, TypedInvariant, PTL

(* A slave's best master is the record of its parent, unless a decision is *)
(* pending: toState(SLAVE) is only called where the decision has set both  *)
(* (s1 in bmcStateDecision), and every later change of a record or of the  *)
(* parent (addForeign, the Announce of the parent) asks for a decision.    *)
THEOREM ParentStaysBest == Spec => []ParentIsBest
<1>1. TypedInv => ParentIsBest
  <2> SUFFICES ASSUME TypedInv PROVE ParentIsBest
    OBVIOUS
  <2>1. Now.clock = ptpClock
    BY DEF Now
  <2>2. Null \notin Slots
    BY PtpdConfig
  <2> QED BY <2>1, <2>2 DEF TypedInv, Settled, Follows, ParentIsBest
<1> QED BY <1>1, TypedInvariant, PTL
=============================================================================
