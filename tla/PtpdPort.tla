------------------------------ MODULE PtpdPort ------------------------------
(* The port of ptpd (src/ptpd/src): protocol.c's main loop and the engine   *)
(* doState, toState and handle, the best master clock algorithm of bmc.c,   *)
(* the foreign master records, the latched timers of the event timer layer  *)
(* and the management requests that change what the algorithm decides.      *)
(* One pass of the loop is cut at the points where the code looks at a      *)
(* timer or at the sockets, because the timers expire (SIGALRM) between     *)
(* them; `pc' says which point the pass has reached.                        *)
(* Unicast negotiation, leap seconds and the timers that only drive alarms  *)
(* and statistics are left out.                                             *)
EXTENDS Integers, FiniteSets

CONSTANTS
    Self,        \* our clock identity, a number (identities are compared)
    Announces,   \* Announce messages of the other clocks:
                 \* [source, gm, priority, steps]
    Options,     \* configurations the daemon may be started with
    Priorities,  \* priority1 values a management SET may ask for
    MaxForeign,  \* bound: max_foreign_records (5 .. 10 in the code)
    InitWait,    \* bound: passes between two attempts of doInit
    IoCanFail,   \* sockets and multicast refreshes may fail
    Null

VARIABLES
    rtOpts,      \* the configuration
    ptpClock,    \* the PtpClock structure: state, records, flags
    running,     \* timers that run
    expired,     \* timers whose expiry has not been read yet
    pc           \* where the pass of the main loop is

vars == <<rtOpts, ptpClock, running, expired, pc>>

States == { "INITIALIZING", "FAULTY", "DISABLED", "LISTENING",
            "MASTER", "PASSIVE", "SLAVE" }
Timers == { "ANNOUNCE_RECEIPT", "SYNC_INTERVAL", "ANNOUNCE_INTERVAL",
            "DELAYREQ_INTERVAL", "PDELAYREQ_INTERVAL", "CLOCK_UPDATE",
            "MASTER_NETREFRESH" }
Points == { "top", "announce", "pdelay", "refresh", "sync", "demote",
            "handle", "handle_master", "handle_disabled", "enable",
            "general", "general_master", "receipt", "clock", "delay", "bottom", "crashed" }

Slots == 0 .. MaxForeign - 1
NoAnnounce == [source |-> 0, gm |-> 0, priority |-> 0, steps |-> 0]
Foreign == [ann : Announces \cup {NoAnnounce}, disqualified : BOOLEAN]

SlaveOnlyClass == 255

(* The delay request timer that is read in the configured mechanism.        *)
DelayTimer == IF rtOpts.p2p THEN "PDELAYREQ_INTERVAL" ELSE "DELAYREQ_INTERVAL"

(***************************************************************************)
(* Timers: stopping one leaves its expiry latched, starting one clears it.  *)
(***************************************************************************)
Watched == { "ANNOUNCE_RECEIPT", "SYNC_INTERVAL", "ANNOUNCE_INTERVAL",
             "CLOCK_UPDATE", "MASTER_NETREFRESH", DelayTimer }

(* itimerUpdate runs when a timer is read, and then for all the timers.     *)
Reading == { "announce", "pdelay", "refresh", "sync", "receipt", "clock", "delay",
             "bottom" }

Expire(t) ==
    /\ pc \in Reading
    /\ t \in (running \cap Watched) \ expired
    /\ expired' = expired \cup {t}
    /\ UNCHANGED <<rtOpts, ptpClock, running, pc>>

(***************************************************************************)
(* toState works on the structure and the two timer sets together.          *)
(***************************************************************************)
Now == [clock |-> ptpClock, running |-> running, expired |-> expired]

timerStart(x, ts) == [x EXCEPT !.running = @ \cup ts, !.expired = @ \ ts]
timerStop(x, ts)  == [x EXCEPT !.running = @ \ ts]

(* Mutant of StoppedLeaving: a master that leaves keeps its own timers.     *)
LeavingStillSends(s) ==
    CASE s \in {"SLAVE", "PASSIVE"} -> {"ANNOUNCE_RECEIPT", "PDELAYREQ_INTERVAL", DelayTimer}
      [] s = "LISTENING" -> {"ANNOUNCE_RECEIPT"}
      [] OTHER -> {}

StoppedLeaving(s) ==
    CASE s = "MASTER"    -> { "SYNC_INTERVAL", "ANNOUNCE_INTERVAL",
                              "PDELAYREQ_INTERVAL", "MASTER_NETREFRESH" }
      [] s = "SLAVE"     -> { "ANNOUNCE_RECEIPT", "PDELAYREQ_INTERVAL",
                              DelayTimer }
      [] s = "PASSIVE"   -> { "ANNOUNCE_RECEIPT", "PDELAYREQ_INTERVAL" }
      [] s = "LISTENING" -> { "ANNOUNCE_RECEIPT" }
      [] OTHER           -> {}

leave(x, s) ==
    LET old == x.clock.state IN
    [timerStop(x, StoppedLeaving(old)) EXCEPT
        !.clock.message_activity = TRUE,
        !.clock.listenCount = IF old = "LISTENING" /\ s # "LISTENING" THEN 0 ELSE @]

plainState(x, s)  == [leave(x, s) EXCEPT !.clock.state = s]

toDisabled(x) == [plainState(x, "DISABLED") EXCEPT !.clock.bestMaster = Null]

toMaster(x) ==
    timerStart([plainState(x, "MASTER") EXCEPT !.clock.bestMaster = Null],
               { "SYNC_INTERVAL", "ANNOUNCE_INTERVAL", "PDELAYREQ_INTERVAL" }
                 \cup IF rtOpts.igmp THEN {"MASTER_NETREFRESH"} ELSE {})

toPassive(x) == timerStart(plainState(x, "PASSIVE"),
                           { "PDELAYREQ_INTERVAL", "ANNOUNCE_RECEIPT" })

toSlave(x) ==
    timerStart([plainState(x, "SLAVE") EXCEPT !.clock.syncWaiting = TRUE,
                                              !.clock.announceTimeouts = 0],
               {"ANNOUNCE_RECEIPT"} \cup
                 IF rtOpts.clockUpdateTimeout THEN {"CLOCK_UPDATE"} ELSE {})

(* The local clock becomes the parent.                                      *)
m1(x) == [x EXCEPT !.clock.parent = Self]

(* Records forgotten: the array itself is not cleared.                      *)
forget(x) == [x EXCEPT !.clock.number_foreign_records = 0,
                       !.clock.foreign_record_i = 0]

(* `refreshed': the multicast refresh did not fail.                         *)
toListening(x, refreshed) ==
    LET y == timerStop(leave(x, "LISTENING"),
                       { "SYNC_INTERVAL", "ANNOUNCE_INTERVAL", "CLOCK_UPDATE",
                         "PDELAYREQ_INTERVAL", "DELAYREQ_INTERVAL" })
        again == y.clock.state = "LISTENING"
    IN  IF rtOpts.clockClass <= 127 /\ rtOpts.disableBMCA
        THEN toMaster(m1(forget(y)))
        ELSE IF \/ again /\ y.clock.listenCount + 1 >= rtOpts.maxListen
                \/ ~refreshed
        THEN plainState(y, "FAULTY")
        ELSE timerStart([y EXCEPT !.clock.listenCount = @ + IF again THEN 1 ELSE 0,
                                  !.clock.announceTimeouts = 0,
                                  !.clock.bestMaster = Null,
                                  !.clock.state = "LISTENING"],
                        {"ANNOUNCE_RECEIPT"})

toState(x, s, refreshed) ==
    CASE s = "LISTENING" -> toListening(x, refreshed)
      [] s = "MASTER"    -> toMaster(x)
      [] s = "PASSIVE"   -> toPassive(x)
      [] s = "SLAVE"     -> toSlave(x)
      [] s = "DISABLED"  -> toDisabled(x)
      [] OTHER           -> plainState(x, s)

Refreshes == IF rtOpts.igmp /\ IoCanFail THEN BOOLEAN ELSE {TRUE}

(* The next point of the pass and the structure it is reached with.         *)
Go(x, next) ==
    /\ ptpClock' = x.clock
    /\ running' = x.running
    /\ expired' = x.expired
    /\ pc' = next

(* timerExpired reads the latch and clears it.                              *)
read(x, t) == [x EXCEPT !.expired = @ \ {t}]

(***************************************************************************)
(* bmc.c: the comparison, -1 when a is the better one, and the decision.    *)
(***************************************************************************)
Order(m, n) == IF m < n THEN -1 ELSE IF m > n THEN 1 ELSE 0

comparePath(parent, a, b) ==
    IF a.steps > b.steps + 1 THEN 1
    ELSE IF a.steps + 1 < b.steps THEN -1
    ELSE IF a.steps > b.steps THEN Order(a.source, parent)
    ELSE IF a.steps < b.steps THEN Order(b.source, parent)
    ELSE Order(a.source, b.source)

compareAnnounce(parent, a, b) ==
    IF a.gm = b.gm THEN comparePath(parent, a, b)
    ELSE IF a.priority # b.priority THEN Order(a.priority, b.priority)
    ELSE Order(a.gm, b.gm)

bmcDataSetComparison(parent, a, b) ==
    IF a.disqualified # b.disqualified
    THEN IF a.disqualified THEN -1 ELSE 1
    ELSE compareAnnounce(parent, a.ann, b.ann)

bestRecord(c) ==
    LET best[i \in Slots] ==
          IF i = 0 THEN 0
          ELSE IF i < c.number_foreign_records
                  /\ bmcDataSetComparison(c.parent, c.foreign[i], c.foreign[best[i - 1]]) < 0
               THEN i ELSE best[i - 1]
    IN  best[MaxForeign - 1]

ownRecord(c) == [ann |-> [source |-> Self, gm |-> Self, priority |-> c.priority1,
                          steps |-> 0],
                 disqualified |-> FALSE]

(* s1: the data sets now describe this master.                              *)
s1(x, ann) == [x EXCEPT !.clock.parent = ann.source]

decided(x, s) == [x |-> x, state |-> s]

(* Mutant of bmcStateDecision: the data sets keep the former master.        *)
DecideWithoutS1(x, f) ==
    LET c == x.clock
        comp == bmcDataSetComparison(c.parent, ownRecord(c), f)
    IN  IF c.slaveOnly THEN decided(x, "SLAVE")
        ELSE IF c.number_foreign_records = 0 /\ c.state = "LISTENING"
        THEN decided(x, "LISTENING")
        ELSE IF comp < 0 THEN decided(m1(x), "MASTER")
        ELSE IF comp = 0 THEN decided(x, "FAULTY")
        ELSE decided(x, IF rtOpts.clockClass < 128 THEN "PASSIVE" ELSE "SLAVE")

bmcStateDecision(x, f) ==
    LET c == x.clock
        comp == bmcDataSetComparison(c.parent, ownRecord(c), f)
    IN  IF c.slaveOnly THEN decided(s1(x, f.ann), "SLAVE")
        ELSE IF c.number_foreign_records = 0 /\ c.state = "LISTENING"
        THEN decided(x, "LISTENING")
        ELSE IF comp < 0 THEN decided(m1(x), "MASTER")
        ELSE IF comp = 0 THEN decided(x, "FAULTY")
        ELSE decided(s1(x, f.ann), IF rtOpts.clockClass < 128 THEN "PASSIVE" ELSE "SLAVE")

bmc(x) ==
    LET best == bestRecord(x.clock)
        y == [x EXCEPT !.clock.foreign_record_best = best, !.clock.bestMaster = best]
    IN  IF x.clock.number_foreign_records = 0 /\ x.clock.state = "MASTER"
        THEN decided(m1(x), "MASTER")
        ELSE bmcStateDecision(y, x.clock.foreign[best])

(***************************************************************************)
(* The foreign master records.                                              *)
(***************************************************************************)
visited(c, i) == IF i = 0 THEN c.foreign_record_best
                 ELSE (c.foreign_record_best + i) % c.number_foreign_records

knownAt(c, ann) == {i \in 0 .. c.number_foreign_records - 1 :
                      c.foreign[visited(c, i)].ann.source = ann.source}

updateForeign(c, ann, j) ==
    [c EXCEPT !.foreign[j] = [ann |-> ann, disqualified |-> FALSE]]

(* The best record is not overwritten: the next slot is taken instead.      *)
newForeign(c, ann) ==
    LET n == IF c.number_foreign_records < MaxForeign
             THEN c.number_foreign_records + 1 ELSE MaxForeign
        j == IF c.foreign_record_i = c.foreign_record_best
             THEN (c.foreign_record_i + 1) % n ELSE c.foreign_record_i
    IN  [updateForeign(c, ann, j) EXCEPT !.number_foreign_records = n,
                                         !.foreign_record_i = (j + 1) % MaxForeign]

addForeign(x, ann) ==
    LET known == knownAt(x.clock, ann) IN
    IF known = {} THEN [x EXCEPT !.clock = newForeign(x.clock, ann)]
    ELSE LET i == CHOOSE i \in known : \A k \in known : i <= k
         IN  [x EXCEPT !.clock = updateForeign(x.clock, ann, visited(x.clock, i))]

(***************************************************************************)
(* The top of a pass: protocol() and the state decision of doState.         *)
(***************************************************************************)
(* Waiting for the next attempt after doInit has failed.                    *)
AwaitInit ==
    /\ pc = "top" /\ ptpClock.state = "INITIALIZING"
    /\ ptpClock.initFailure /\ ptpClock.initFailureTimeout > 1
    /\ Go([Now EXCEPT !.clock.initFailureTimeout = @ - 1], "bottom")
    /\ UNCHANGED rtOpts

MayInit ==
    /\ pc = "top" /\ ptpClock.state = "INITIALIZING"
    /\ ptpClock.initFailure => ptpClock.initFailureTimeout <= 1

(* initData: the records are counted out, their array and its indexes stay. *)
initData(x) ==
    [x EXCEPT !.clock.priority1 = rtOpts.priority1,
              !.clock.slaveOnly = @ \/ rtOpts.clockClass = SlaveOnlyClass,
              !.clock.disabled = rtOpts.portDisabled,
              !.clock.bestMaster = Null,
              !.clock.number_foreign_records = 0]

doInit ==
    /\ MayInit
    /\ \E refreshed \in Refreshes :
         Go([toListening(m1(initData(Now)), refreshed) EXCEPT
               !.clock.initFailure = FALSE, !.clock.initFailureTimeout = 0],
            "bottom")
    /\ UNCHANGED rtOpts

doInitFails ==
    /\ MayInit
    /\ IoCanFail
    /\ Go([plainState(Now, "FAULTY") EXCEPT
              !.clock.initFailure = TRUE, !.clock.initFailureTimeout = InitWait],
          "bottom")
    /\ UNCHANGED rtOpts

(* Where the second switch of doState continues.                            *)
Case(s) == CASE s = "MASTER"   -> "announce"
             [] s = "DISABLED" -> "handle_disabled"
             [] OTHER          -> "handle"

(* A fault is cleared at once: the next pass initialises.                   *)
Served(x) ==
    IF x.clock.state = "FAULTY" THEN Go(plainState(x, "INITIALIZING"), "bottom")
    ELSE Go(x, Case(x.clock.state))

Quiet == [Now EXCEPT !.clock.message_activity = FALSE]

Decide ==
    /\ pc = "top"
    /\ ptpClock.state \in {"LISTENING", "PASSIVE", "SLAVE", "MASTER"}
    /\ ptpClock.record_update
    /\ LET d == bmc([Quiet EXCEPT !.clock.record_update = FALSE]) IN
       \E refreshed \in Refreshes :
         Served(IF d.state = ptpClock.state THEN d.x
                ELSE toState(d.x, d.state, refreshed))
    /\ UNCHANGED rtOpts

NothingToDecide ==
    /\ pc = "top"
    /\ \/ ptpClock.state \in {"FAULTY", "DISABLED"}
       \/ /\ ptpClock.state \in {"LISTENING", "PASSIVE", "SLAVE", "MASTER"}
          /\ ~ptpClock.record_update
    /\ Served(Quiet)
    /\ UNCHANGED rtOpts

(***************************************************************************)
(* handle: the event socket, then the general one, at most a message from   *)
(* each, and none in a pass that changed the state before. An event message *)
(* that changes nothing here is left out.                                   *)
(***************************************************************************)
Handling == {"handle", "handle_master", "handle_disabled"}
General  == {"general", "general_master"}

AfterHandle == CASE pc \in {"handle", "general"}               -> "receipt"
                 [] pc \in {"handle_master", "general_master"} -> "demote"
                 [] pc = "handle_disabled"                     -> "enable"

HandleNothing ==
    /\ pc \in Handling \cup General
    /\ Go(Now, AfterHandle)
    /\ UNCHANGED rtOpts

Selected == pc \in Handling /\ ~ptpClock.message_activity

Receives == Selected \/ pc \in General

Received == [Now EXCEPT !.clock.message_activity = TRUE]

(* The sockets cannot be polled or read.                                    *)
HandleFails ==
    /\ Receives
    /\ IoCanFail
    /\ Go(plainState(Now, "FAULTY"), AfterHandle)
    /\ UNCHANGED rtOpts

(* A Delay_Req or Pdelay_Req cannot be answered.                            *)
AnswerFails ==
    /\ Selected
    /\ IoCanFail
    /\ ptpClock.state \in (IF rtOpts.p2p THEN {"MASTER", "SLAVE", "PASSIVE"} ELSE {"MASTER"})
    /\ Go(plainState(Now, "FAULTY"),
          IF pc = "handle" THEN "general" ELSE "general_master")
    /\ UNCHANGED rtOpts

(* Announce of the current parent, in SLAVE: its record follows, but keeps  *)
(* its disqualification.                                                    *)
parentAnnounces(x, ann) ==
    timerStart([s1(x, ann) EXCEPT
                   !.clock.foreign[x.clock.bestMaster].ann = ann,
                   !.clock.announceTimeouts = IF rtOpts.grace > 0 THEN 0 ELSE @],
               {"ANNOUNCE_RECEIPT"})

(* Mutant of announced: any Announce puts the receipt timeout off.          *)
AnyoneIsHeard(x, ann) ==
    IF x.clock.state \notin {"SLAVE", "PASSIVE"} THEN addForeign(x, ann)
    ELSE IF ann.source # x.clock.parent
    THEN timerStart(addForeign(x, ann), {"ANNOUNCE_RECEIPT"})
    ELSE IF x.clock.state = "SLAVE" THEN parentAnnounces(x, ann)
    ELSE timerStart(s1(x, ann), {"ANNOUNCE_RECEIPT"})

announced(x, ann) ==
    IF ann.source # x.clock.parent \/ x.clock.state \notin {"SLAVE", "PASSIVE"}
    THEN addForeign(x, ann)
    ELSE IF x.clock.state = "SLAVE" THEN parentAnnounces(x, ann)
    ELSE timerStart(s1(x, ann), {"ANNOUNCE_RECEIPT"})

handleAnnounce(ann) ==
    /\ Receives
    /\ ~(rtOpts.clockClass <= 127 /\ rtOpts.disableBMCA)
    /\ ptpClock.state \in {"LISTENING", "MASTER", "PASSIVE", "SLAVE"}
    /\ IF /\ ptpClock.state = "SLAVE" /\ ann.source = ptpClock.parent
          /\ ptpClock.bestMaster = Null
       THEN Go(Received, "crashed")
       ELSE Go([announced(Received, ann) EXCEPT !.clock.record_update = TRUE],
               AfterHandle)
    /\ UNCHANGED rtOpts

(* Sync of the current parent: the first one starts the delay requests.     *)
(* `updated': the clock was adjusted, which restarts CLOCK_UPDATE.          *)
handleSync(updated) ==
    /\ Selected
    /\ ptpClock.state = "SLAVE"
    /\ ptpClock.syncWaiting \/ updated
    /\ updated => rtOpts.clockUpdateTimeout
    /\ Go(timerStart([Received EXCEPT !.clock.syncWaiting = FALSE],
                     (IF ptpClock.syncWaiting THEN {DelayTimer} ELSE {})
                       \cup IF updated THEN {"CLOCK_UPDATE"} ELSE {}),
          "general")
    /\ UNCHANGED rtOpts

(* The Follow_Up of the parent brings the clock its update.                 *)
handleFollowUp ==
    /\ Receives
    /\ ptpClock.state = "SLAVE"
    /\ rtOpts.clockUpdateTimeout
    /\ ~ptpClock.syncWaiting
    /\ Go(timerStart(Received, {"CLOCK_UPDATE"}), AfterHandle)
    /\ UNCHANGED rtOpts

(* Management requests, whose answer may fail to leave. The configuration is *)
(* parsed again: it keeps the class, and slaveOnly follows from the class.   *)
Answers == IF IoCanFail THEN BOOLEAN ELSE {TRUE}

(* `managed': the requests that come, none unless managementSetEnable.       *)
Requests == { "SLAVE_ONLY", "PRIORITY1", "PORT" }

Asks(request) == Receives /\ request \in rtOpts.managed

answered(clock) ==
    \E sent \in Answers :
      LET x == [Received EXCEPT !.clock = clock] IN
      Go(IF sent THEN x ELSE plainState(x, "FAULTY"), AfterHandle)

handleMMSlaveOnly(so) ==
    /\ Asks("SLAVE_ONLY")
    /\ answered([ptpClock EXCEPT !.slaveOnly = so, !.record_update = TRUE])
    /\ UNCHANGED rtOpts

handleMMPriority1(p) ==
    /\ Asks("PRIORITY1")
    /\ answered([ptpClock EXCEPT !.priority1 = p, !.record_update = TRUE])
    /\ rtOpts' = [rtOpts EXCEPT !.priority1 = p]

(* DISABLE_PORT only changes the configuration, ENABLE_PORT the flag too.   *)
handleMMDisablePort ==
    /\ Asks("PORT")
    /\ ~rtOpts.portDisabled
    /\ answered([ptpClock EXCEPT !.restart = TRUE])
    /\ rtOpts' = [rtOpts EXCEPT !.portDisabled = TRUE]

handleMMEnablePort ==
    /\ Asks("PORT")
    /\ rtOpts.portDisabled
    /\ answered([ptpClock EXCEPT !.disabled = FALSE, !.restart = TRUE])
    /\ rtOpts' = [rtOpts EXCEPT !.portDisabled = FALSE]

(***************************************************************************)
(* LISTENING, PASSIVE and SLAVE: the timers looked at after handle.         *)
(***************************************************************************)
AfterReceipt == IF rtOpts.clockUpdateTimeout THEN "clock" ELSE "delay"

NoReceiptTimeout ==
    /\ pc = "receipt"
    /\ "ANNOUNCE_RECEIPT" \notin expired
    /\ Go(Now, AfterReceipt)
    /\ UNCHANGED rtOpts

ReceiptTimeout == pc = "receipt" /\ "ANNOUNCE_RECEIPT" \in expired
Timed == read(Now, "ANNOUNCE_RECEIPT")

NeverMaster == ptpClock.slaveOnly \/ rtOpts.clockClass = SlaveOnlyClass

TakeOver ==
    /\ ReceiptTimeout /\ ~NeverMaster
    /\ Go(toMaster(m1(forget(Timed))), AfterReceipt)
    /\ UNCHANGED rtOpts

(* Mutant of Disqualifies: one attempt more than the grace period allows.   *)
DisqualifiesOnceMore ==
    /\ ReceiptTimeout /\ NeverMaster
    /\ ptpClock.state # "LISTENING"
    /\ ptpClock.announceTimeouts <= rtOpts.grace

Disqualifies ==
    /\ ReceiptTimeout /\ NeverMaster
    /\ ptpClock.state # "LISTENING"
    /\ ptpClock.announceTimeouts < rtOpts.grace

(* The current best master is disqualified; the code dereferences it.       *)
DisqualifyBest ==
    /\ Disqualifies
    /\ IF ptpClock.bestMaster = Null THEN Go(Timed, "crashed")
       ELSE \E refreshed \in Refreshes :
              LET x == [Timed EXCEPT
                          !.clock.foreign[ptpClock.bestMaster].disqualified = TRUE]
              IN  IF refreshed
                  THEN Go([x EXCEPT !.clock.announceTimeouts = @ + 1], AfterReceipt)
                  ELSE Go(plainState(x, "FAULTY"), "bottom")
    /\ UNCHANGED rtOpts

(* No active masters: the port starts over, on the other interface if there *)
(* is one.                                                                  *)
startOver(x, refreshed) ==
    IF rtOpts.backup THEN plainState(x, "INITIALIZING") ELSE toListening(x, refreshed)

ResetPort ==
    /\ ReceiptTimeout /\ NeverMaster
    /\ ~Disqualifies
    /\ \E refreshed \in Refreshes :
         Go(startOver(IF ptpClock.state = "LISTENING" THEN Timed
                      ELSE [forget(Timed) EXCEPT !.clock.bestMaster = Null],
                      refreshed),
            AfterReceipt)
    /\ UNCHANGED rtOpts

ClockTimeout == ptpClock.state = "SLAVE" /\ "CLOCK_UPDATE" \in expired

NoClockTimeout ==
    /\ pc = "clock" /\ ~ClockTimeout
    /\ Go(Now, "delay")
    /\ UNCHANGED rtOpts

(* No clock update for too long: the slave starts over.                     *)
ResetSlave ==
    /\ pc = "clock" /\ ClockTimeout
    /\ \E refreshed \in Refreshes :
         Go(toListening(read(Now, "CLOCK_UPDATE"), refreshed), "delay")
    /\ UNCHANGED rtOpts

(* ... unless it is in panic mode or does not adjust the clock.             *)
PostponeReset ==
    /\ pc = "clock" /\ ClockTimeout
    /\ Go(timerStart(Now, {"CLOCK_UPDATE"}), "delay")
    /\ UNCHANGED rtOpts

NoDelayRequest ==
    /\ pc = "delay" /\ DelayTimer \notin expired
    /\ Go(Now, "bottom")
    /\ UNCHANGED rtOpts

(* A delay request is sent, whatever the state has become since the switch. *)
issueDelayReq ==
    /\ pc = "delay" /\ DelayTimer \in expired
    /\ \E sent \in Answers :
         LET x == read(Now, DelayTimer) IN
         Go(IF ~sent THEN plainState(x, "FAULTY")
            ELSE IF rtOpts.p2p THEN x
            ELSE timerStart(x, {"DELAYREQ_INTERVAL"}),
            "bottom")
    /\ UNCHANGED rtOpts

(***************************************************************************)
(* MASTER: the timers are looked at first, handle comes last. A failed send  *)
(* makes the port FAULTY and the pass goes on.                               *)
(***************************************************************************)
NotDue(at, t, next) ==
    /\ pc = at
    /\ t \notin expired
    /\ Go(Now, next)
    /\ UNCHANGED rtOpts

(* `rearmed': the interval has been changed, which starts the timer again.  *)
Issue(at, t, next) ==
    /\ pc = at
    /\ t \in expired
    /\ \E sent \in Answers, rearmed \in BOOLEAN :
         LET x == IF rearmed THEN timerStart(Now, {t}) ELSE read(Now, t) IN
         Go(IF sent THEN x ELSE plainState(x, "FAULTY"), next)
    /\ UNCHANGED rtOpts

issueAnnounce == Issue("announce", "ANNOUNCE_INTERVAL", "pdelay")
issueSync == Issue("sync", "SYNC_INTERVAL", "handle_master")

issuePdelayReq ==
    /\ pc = "pdelay"
    /\ rtOpts.p2p /\ "PDELAYREQ_INTERVAL" \in expired
    /\ \E sent \in Answers :
         LET x == read(Now, "PDELAYREQ_INTERVAL") IN
         Go(IF sent THEN x ELSE plainState(x, "FAULTY"), "refresh")
    /\ UNCHANGED rtOpts

NoPdelayReq ==
    /\ pc = "pdelay"
    /\ rtOpts.p2p => "PDELAYREQ_INTERVAL" \notin expired
    /\ Go(Now, "refresh")
    /\ UNCHANGED rtOpts

netRefreshIGMP ==
    /\ pc = "refresh"
    /\ "MASTER_NETREFRESH" \in expired
    /\ \E refreshed \in Refreshes :
         LET x == read(Now, "MASTER_NETREFRESH") IN
         IF refreshed THEN Go(x, "sync") ELSE Go(plainState(x, "FAULTY"), "bottom")
    /\ UNCHANGED rtOpts

(* Mutant of Demote: the class is looked at, slaveOnly is not.              *)
DemoteByClass ==
    /\ pc = "demote"
    /\ IF rtOpts.clockClass = SlaveOnlyClass
       THEN \E refreshed \in Refreshes : Go(toListening(Now, refreshed), "bottom")
       ELSE Go(Now, "bottom")
    /\ UNCHANGED rtOpts

(* A master that has become slave-only steps down.                          *)
Demote ==
    /\ pc = "demote"
    /\ IF NeverMaster
       THEN \E refreshed \in Refreshes : Go(toListening(Now, refreshed), "bottom")
       ELSE Go(Now, "bottom")
    /\ UNCHANGED rtOpts

(* DISABLED: only management messages are handled.                          *)
Enable ==
    /\ pc = "enable"
    /\ IF ptpClock.disabled THEN Go(Now, "bottom")
       ELSE \E refreshed \in Refreshes : Go(toListening(Now, refreshed), "bottom")
    /\ UNCHANGED rtOpts

(***************************************************************************)
(* The bottom of a pass: a disabled port is DISABLED, and a configuration   *)
(* that asks for it restarts the protocol.                                  *)
(***************************************************************************)
enforced(x) == IF x.clock.disabled /\ x.clock.state # "DISABLED" THEN toDisabled(x)
               ELSE x

restartSubsystems(x) ==
    IF ~x.clock.restart THEN x
    ELSE LET y == [x EXCEPT !.clock.slaveOnly = rtOpts.clockClass = SlaveOnlyClass,
                            !.clock.disabled = rtOpts.portDisabled,
                            !.clock.restart = FALSE]
         IN  IF rtOpts.portDisabled THEN toDisabled(y)
             ELSE plainState(y, "INITIALIZING")

NextPass ==
    /\ pc = "bottom"
    /\ Go(restartSubsystems(enforced(Now)), "top")
    /\ UNCHANGED rtOpts

----------------------------------------------------------------------------
Configurations ==
    [p2p : BOOLEAN, igmp : BOOLEAN, disableBMCA : BOOLEAN,
     maxListen : Nat \ {0},
     grace : Nat, backup : BOOLEAN, clockUpdateTimeout : BOOLEAN,
     clockClass : 0 .. 255, priority1 : Nat, portDisabled : BOOLEAN,
     managed : SUBSET Requests]

ASSUME PtpdConfig ==
    /\ Options \subseteq Configurations /\ Priorities \subseteq Nat
    /\ MaxForeign \in Nat \ {0} /\ InitWait \in Nat /\ IoCanFail \in BOOLEAN
    /\ Null \notin Slots

Reset == [ state |-> "INITIALIZING", message_activity |-> TRUE, listenCount |-> 0,
           bestMaster |-> Null, syncWaiting |-> FALSE, announceTimeouts |-> 0,
           parent |-> 0, number_foreign_records |-> 0, foreign_record_i |-> 0,
           foreign_record_best |-> 0,
           foreign |-> [i \in Slots |-> [ann |-> NoAnnounce, disqualified |-> FALSE]],
           slaveOnly |-> FALSE, priority1 |-> 0, disabled |-> FALSE,
           record_update |-> FALSE, initFailure |-> FALSE, initFailureTimeout |-> 0,
           restart |-> FALSE ]

Init ==
    /\ rtOpts \in Options
    /\ ptpClock = IF rtOpts.portDisabled
                  THEN [Reset EXCEPT !.state = "DISABLED", !.disabled = TRUE,
                                     !.priority1 = rtOpts.priority1,
                                     !.slaveOnly = rtOpts.clockClass = SlaveOnlyClass]
                  ELSE Reset
    /\ running = {} /\ expired = {}
    /\ pc = "top"

Tops == \/ AwaitInit \/ doInit \/ doInitFails
        \/ Decide \/ NothingToDecide

Messages == \/ \E ann \in Announces : handleAnnounce(ann)
            \/ \E updated \in BOOLEAN : handleSync(updated)
            \/ handleFollowUp
            \/ \E so \in BOOLEAN : handleMMSlaveOnly(so)
            \/ \E p \in Priorities : handleMMPriority1(p)
            \/ handleMMDisablePort \/ handleMMEnablePort
            \/ HandleFails \/ AnswerFails

Slave == \/ NoReceiptTimeout \/ TakeOver \/ DisqualifyBest \/ ResetPort
         \/ NoClockTimeout \/ ResetSlave \/ PostponeReset
         \/ NoDelayRequest \/ issueDelayReq

Master == \/ NotDue("announce", "ANNOUNCE_INTERVAL", "pdelay") \/ issueAnnounce
          \/ NoPdelayReq \/ issuePdelayReq
          \/ NotDue("refresh", "MASTER_NETREFRESH", "sync") \/ netRefreshIGMP
          \/ NotDue("sync", "SYNC_INTERVAL", "handle_master") \/ issueSync
          \/ Demote

Pass == Tops \/ Messages \/ HandleNothing \/ Slave \/ Master \/ Enable \/ NextPass

Next == Pass \/ \E t \in Timers : Expire(t)

Spec == Init /\ [][Next]_vars

(* The daemon runs and its timers expire.                                   *)
FairSpec == Spec /\ WF_vars(Pass) /\ SF_vars(Expire("ANNOUNCE_RECEIPT"))

----------------------------------------------------------------------------
Numbers == {0, Self} \cup {a.source : a \in Announces}

PtpClocks ==
    [state : States, message_activity : BOOLEAN, listenCount : 0 .. rtOpts.maxListen - 1,
     bestMaster : Slots \cup {Null}, syncWaiting : BOOLEAN,
     announceTimeouts : 0 .. rtOpts.grace, parent : Numbers,
     number_foreign_records : 0 .. MaxForeign, foreign_record_i : Slots,
     foreign_record_best : Slots, foreign : [Slots -> Foreign], slaveOnly : BOOLEAN,
     priority1 : Nat, disabled : BOOLEAN, record_update : BOOLEAN,
     initFailure : BOOLEAN, initFailureTimeout : 0 .. InitWait, restart : BOOLEAN]

(* The types, and the bounds of the two counters of unanswered timeouts.    *)
TypeOK ==
    /\ rtOpts \in Configurations
    /\ ptpClock \in PtpClocks
    /\ running \subseteq Timers /\ expired \subseteq Timers
    /\ pc \in Points

(* A port that listens will notice that its masters fall silent: the receipt *)
(* timer runs in every such state. Only a master sends, and always does:     *)
(* whatever the path to a state, toState left the right timers running.      *)
SpeaksOrListens ==
    /\ ptpClock.state \in {"LISTENING", "PASSIVE", "SLAVE"} =>
         /\ "ANNOUNCE_RECEIPT" \in running
         /\ {"SYNC_INTERVAL", "ANNOUNCE_INTERVAL"} \cap running = {}
    /\ ptpClock.state = "MASTER" =>
         /\ {"SYNC_INTERVAL", "ANNOUNCE_INTERVAL"} \subseteq running
         /\ "ANNOUNCE_RECEIPT" \notin running

(* Unless a decision is pending, the record the slave calls its best master *)
(* is the one of its parent: neither addForeign nor a later Announce of the *)
(* parent separates them.                                                   *)
ParentIsBest ==
    ptpClock.state = "SLAVE" =>
        /\ ptpClock.bestMaster # Null
        /\ \/ ptpClock.record_update
           \/ ptpClock.foreign[ptpClock.bestMaster].ann.source = ptpClock.parent

(* A clock that may only be a slave never ends a pass as master, unless it  *)
(* ignores the other clocks.                                                *)
SlaveOnlyStepsDown ==
    pc = "top" /\ ptpClock.state = "MASTER" => ~NeverMaster \/ rtOpts.disableBMCA

(* ptp_datatypes.h says of a disqualified record that it always loses: a    *)
(* decision for one means that no other record was left.                    *)
DisqualifiedLoses ==
    [][Decide /\ ptpClock'.bestMaster # Null =>
         \/ ~ptpClock'.foreign[ptpClock'.bestMaster].disqualified
         \/ \A i \in 0 .. ptpClock'.number_foreign_records - 1 :
                ptpClock'.foreign[i].disqualified]_vars

(* A parent that falls silent is left: a port stays slave or passive for     *)
(* ever only while Announce messages of its parent keep arriving.           *)
ParentHeard == \E ann \in Announces : handleAnnounce(ann) /\ ann.source = ptpClock.parent
SilentParentLeft ==
    \/ []<>(ptpClock.state \notin {"SLAVE", "PASSIVE"})
    \/ []<><<ParentHeard>>_vars
=============================================================================
