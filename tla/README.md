# A verification model of the PTP daemons: `ptp4l`, `phc2sys` and `ptpd`

The repository is a collection of network testing tools. Its core logic is PTP:
`linuxptp/` (a refactored fork of linuxptp 2.0) with the daemon `ptp4l`, a
single-threaded clock with one state machine per network port, and with `phc2sys`,
which sets the other clocks of the machine by it; and `ptpd/`, a second, independent
daemon. These are modelled here. Paths below are relative to `src/linuxptp/src/`
unless they say otherwise.

## 1. Inventory

| Part | State it keeps | Operations | Talks to |
|---|---|---|---|
| Best master comparison (`bmc.c`) | none | `dscmp`, `dscmp2`, `telecom_dscmp`, `bmc_state_decision` | called by port (scan) and clock (decision) |
| Port state machines (`ptpPortInit.c`: `_ptpFsm`, `_ptpSlaveFsm`) | none, a function of state, event and "new master" | | called by `portStateUpdate` |
| Port (`ptpPort.c`, `ptpPortInit.c`, `ptpPortStates.c`, `ptpPortDevOrdinary.c`) | state; six timers; fault timer; last fault; foreign masters with the announces they keep; the best of them; link state and its flags | `port_initialize`, `portOpDisable`, `bc_event`, `bc_dispatch`, `port_compute_best`, `port_link_status`, foreign master add / prune / clear | events go up to `clock_poll`; the clock's decisions come down through `bc_dispatch` |
| Clock (`ptpClockPoll.c`, `ptpClockInit.c`, `ptpClock.c`) | default, current and parent datasets; best master; "a decision is due" (`sde`); the snapshot of ready descriptors | `clock_poll`, `handle_state_decision_event`, `clock_fault_timeout` | all ports; the kernel (poll, timerfd, netlink); management |
| Sync / Follow_Up pairing (`portMsgProSync`, `portMsgProFollowUp`, `port_syfufsm` in `ptpPortMsgOrdinary.c`) | `syfu`, `last_syncfup` | four events of the pairing machine | feeds the servo, which answers with a port event |
| Peer delay (`ptpPortMsgTransp.c`, `ptpTimestampProc.c`) | request, response, follow-up; counters of second peers | request, response, follow-up | may fault the port |
| Transparent clocks (`tc.c`, `ptpPortDevTransp.c`) | queue of forwarded messages per port | forward, match with time stamp, prune | other ports |
| Unicast (`unicast_client.c`, `unicast_service.c`) | the client's master table and state, the service's grants with their expiry | request, grant, cancel, timer | signalling messages |
| Management, subscriptions (`ptpClockMgmt.c`, `ptpPortMgmt.c`, `ptpClockSubscription.c`, ...) | subscriber list; the datasets it sets | GET/SET/COMMAND, notify, prune | sets `sde`; forwards between ports |
| Servo (`servo*.c`, `clockcheck.c`, `clockadj.c`, `ptpClock.c`) | filter and servo state | `servo_sample`, sanity check | returns locked / unlocked / jump |
| Messages and containers (`msg.c`, `ptpUtils.c`, `util.c`, `tlv.c`) | pool, reference counts; hash; priority queue | allocate, get, put, encode, decode | everywhere |
| Transports (`ptpTrans*.c`, `sk.c`, `ptpSysDeps.c`, `rtnl.c`) | sockets | open, close, send, receive | kernel |
| `phc2sys` (`../phc/`) | ports and clocks with their state and new state, the source, the clocks to set; whether a request is out, when the last update was | `_psysPmcRun`, `psysPmcUpdate`, `psysReconfigure`, main loop | ptp4l over the UDS port: requests, a subscription that expires, notices |
| Programs (`../programs/`) | | `ptp4l` calls `clock_poll` for ever | |
| `ptpd` (`src/ptpd/src/`: `protocol.c`, `bmc.c`, `management.c`, the event timers) | port state, foreign master records, best master and parent, latched timers, counters of unanswered timeouts, restart flags | `doState`, `toState`, `handle` and the handlers, `bmc`, `addForeign`, management | SIGALRM sets expiry flags at any time; sockets; management |
| `ethtool/` | vendored, not built | | |
| `mtools/`, `omtools/`, `ntools/`, `tests/` | stand-alone test tools | | |

What makes each correct:

* best master: the comparison ranks what a port heard, whichever order it was
  heard in; a port that scans its foreign masters ends with the best of them;
* port: in every state the timers it has set are those that lead on; it transmits
  as a master only when it is one; a port that is down keeps nothing; a fault is
  cleared after a while;
* clock: at most one port is slave, it follows the best master, and the parent
  dataset names that master;
* pairing, delay and peer delay: a message is kept exactly as long as something
  refers to it; a port that is down keeps none; no delay is computed across a jump
  of the clock;
* transparent clock: a message is forwarded with the residence time of its own
  event message, once per port;
* unicast: a grant that the client believes in has not expired at the service, nobody
  is sent the same message at two rates, and contracts last as long as agreed;
* phc2sys: the states it works with are those ptp4l has, even when they change while
  it waits for something else; it never sets a clock that ptp4l sets;
* ptpd: whatever the path to a state, the timers of that state run; the record it
  follows is its parent's; a parent that falls silent is left.

### The hard behaviours

There is one thread. What interleaves is the outside world: timers, messages,
netlink notices, management. `clock_poll` takes a **snapshot** of the readable
descriptors and serves it port by port, descriptor by descriptor; meanwhile the
handlers disable ports, reopen sockets and set timers anew, and a later entry of
the snapshot then stands for something that is no longer so. Nothing reads a
timerfd, so an expired timer stays readable until it is set again or cleared. At
the end of a pass, if `sde` is set, each port's best foreign master is computed
and the ports are moved **one by one**; each move may fail or fault. Faults nest:
an ASAP fault is cleared within the call that raised it, initialisation may fail
while a fault is being cleared, a PHC switch may fail in the middle of a decision.
The transparent clock sends one message through several ports with one buffer, and a
send that fails dispatches a fault in the middle of the loop over a list that the
fault flushes. Unicast grants and phc2sys' subscription are **leases**: both sides
count down on their own, requests and answers are lost or late, and renewals race the
expiry. phc2sys reads whatever comes while it waits for one answer, so a notice may
change the states in the middle of the loop that uses them, and an answer that comes
too late is taken for that of the next request. In ptpd a stopped timer keeps its
latched expiry, and a signal may latch one between two looks at it.

PROJECT.json lists these hazards by line with the properties that cover them.

## 2. Modules

```
 Bmc <----- BmcScan <----- MCBmcScan        PortFsm      MsgPool
  ^            ^                             ^   ^          ^
  |            +-- BmcScan_proofs            |   |          |
  +----------------- PtpPort ----------------+   +----------+
                      ^                          |
                      +-- PtpClock          PortMessages     TransparentClock
                           ^   ^                 ^                 ^   (PortFsm, MsgPool)
           PtpClock_proofs-+   +MCPtpClock       +MCPortMessages   +MCTransparentClock
                                   ^
                                   +MCOrdinary
 MsgPool_proofs (MsgPool) <-- PortMessages_proofs (PortMessages),
                              TransparentClock_proofs (TransparentClock)
 UnicastService <-- Unicast <-- MCUnicast, Unicast_proofs
                      : implements
                   UnicastContracts
 Subscription <-- Phc2sys <-- MCPhc2sys, Phc2sys_proofs
 PtpdPort <-- MCPtpd, PtpdPort_proofs
```

* **Bmc**: `bmc.c` as operators on dataset records. `dscmp` has a four-valued
  verdict; NULL arguments are treated as in the code. `LittleEndian` is the byte
  order of the machine: port identities are compared with `memcmp` over a struct
  that holds the port number in host order. `Telecom` selects `telecom_dscmp`.
* **BmcScan**: the loop of `port_compute_best` alone, over any set `Universe` of
  datasets in any order. `UniverseConsistent` is what the scan relies on: datasets
  with the same grandmaster identity carry the same grandmaster attributes, and
  every one was heard on the same port from another clock (`_portIgnore` drops the
  clock's own messages).
* **PortFsm**: the two state machines, as functions.
* **PtpPort**: the port as a record, and one operator per function of the code,
  from the port to the port it leaves. `heard` is the list of foreign master
  records, `msgs` the announces each keeps. Messages expire after four announce
  intervals; the model has no clock, so a prune may drop any number of the oldest.
* **PtpClock**: the state machine. One action per event handler; a loop over foreign
  masters, netlink messages or ports is one action per round. `phase` says where in
  `clock_poll` the thread is, `revents` is the rest of the snapshot.

| State | Code |
|---|---|
| `port[p].state`, `.best`, `.lastFault`, `.linkUp`, `.linkFlags` | `p->state`, `p->best`, `p->last_fault_type`, `p->link_status` |
| `port[p].armed` | timers set and not cleared, expired or not |
| `port[p].faultTimer` | `p->fault_fd` set |
| `revents`, `cur`, `idx` | `cur[i].revents` of `clock_poll`, the loop variables |
| `sde` | `c->sde` (and the local `sde` of `clock_poll`) |
| `best`, `bestId`, `newBest`, `fresh` | `c->best` with its port and dataset, `c->best_id`, the locals `best` and `fresh_best` |
| `parent` | parent port identity and grandmaster identity of `c->dad` |

| Action | Code |
|---|---|
| `Poll` | `__fillPollfd`, `_checkPollfd`, `poll` |
| `AnnounceTimeout`, `TransmitTimeout`, `QualificationTimeout`, `ReceiveAnnounce`, `ReceiveSync`, `ReceiveOther` | `bc_event` for that descriptor, then the rest of the round in `clock_poll` (dispatch, fault timer, break) |
| `RtnlRead`, `port_link_status`, `RtnlDone` | FD_RTNL: `rtnl_link_status` with its callback per message |
| `FaultTimerExpires` | the fault descriptor at the end of a port's round |
| `Manage` | the UDS port |
| `EndPass`, `ComputeBest`, `ComputeBestRound`, `ComputeBestDone`, `Decide` | `handle_state_decision_event` with `port_compute_best` |

* **MsgPool**: `msg_allocate`, `msg_get` and `msg_put` on a record that holds the
  pool (last in, first out), the reference counts and what each message says; `put_all`
  is the loop that releases the messages of a list.
* **PortMessages**: what a port does with every message but announces, and which
  ones it keeps between two events: the half of a Sync / Follow_Up pair, the queue
  of delay requests, the peer delay exchange. Each handler is an operator from the
  port to the set of ports it may leave, so that what it dispatches from within
  (`portSynchronize` calls `bc_dispatch`, whose transition flushes, faults or
  restarts the port) happens in the middle of it, as in the code. An action is one
  event: `Receives` is `bc_event` for a message, from `msg_allocate` to the last
  `msg_put`, with the dispatch that follows in `clock_poll`. Any message may come
  at any time, in any order and number.

* **TransparentClock**: `tc.c` with the dispatch of `ptpPortDevTransp.c`. The state is
  one record with the pool of MsgPool, the state of each port and its list of
  remembered messages; a handler is an operator from the record to the records it may
  leave, so that a failing send and the fault it dispatches happen inside the loop over
  the egress ports. Residence times are symbolic: a correction is the list of what was
  added, each named by the ports it was measured between and by the message it was
  measured of (its type, source port identity and sequence number).
* **UnicastService**: `unicast_service.c` as operators on one service: the intervals,
  their clients and the timer. **Unicast** joins it with the client
  (`unicast_client.c`: table entry, state machine, request timer) and a network that
  loses, repeats and reorders. Strangers ask the service for anything in a scenario of
  their own. **UnicastContracts** is the abstract specification: per grantor, address
  and type a contract with a period and a time left, that is granted or prolonged for no
  shorter and no longer than may be asked for, withdrawn by its own negotiation only, and
  ends when its time is over. `ContractsKept`
  is the refinement: `Contract(service, address, type)` reads the contract off the lists.
* **Subscription**: what ptp4l shows a client on the UDS port: states on request, a
  subscription that expires (`clock_update_subscription`, `clock_prune_subscriptions`),
  a notice whenever a port changes its state, the end of the program and its restart.
  **Phc2sys** is that client, `phc2sys -a`: each call of `_psysPmcRun` is a value of
  `node.step`, each round of its loop (`PmcSend`, `PmcReceive`, `PmcTimeout`) an action;
  what the caller does with the answer is `Returned`, with none `TimedOut`.
  `psysReconfigure` is cut where `_psysClockReinit` waits.
* **PtpdPort**: the engine of ptpd. `pc` is where in a pass of the main loop the daemon
  is; the pass is cut wherever a timer is looked at or a socket is read, since an expiry
  may be latched in between (`Expire`). Options and management are constants of a
  started daemon (`rtOpts`), so that one run covers several kinds of clock.

| State | Code |
|---|---|
| `tc.queue[p]` | `p->tc_transmitted` |
| `cli[m]`, `srv[m]` | `struct unicast_master_address`, `struct unicast_service` with its intervals and clients |
| `node.ports`, `.clocks`, `.new`, `.state_changed`, `.dst_clocks`, `.master` | `port->state`, `clock->state`, `clock->new_state`, and the fields of `struct PhcNode` |
| `expiration`, `requests`, `inbox` | `s->expiration` of the one subscriber, the two UDS sockets |
| `ptpClock`, `running`, `expired` | `PtpClock` of `datatypes.h`, timers started, latched expiries of `dep/eventtimer` |

In PtpClock, message contents are announces only (a small set `Announces`); the
sync / follow-up pair and the servo appear as the verdict they end in; delay
requests and their answers only as failures; local priority is the default 128;
`hybrid_e2e` is a reader of the model's state (`DelayRequestHasMaster`) rather
than a part of it. In a decision with several PHCs a port that faults frees the
foreign master `c->best` points to while the loop goes on; the model keeps its old
value, which is what the freed chunk holds until it is used again. Failures of
`timerfd_settime` after a transport has opened are not told apart from those
before it.

In both, a fault type's reset interval is "ASAP" or not (`AsapFaults`), nothing else
about it matters. `P2P` of PtpClock is the configured mechanism; `DM_AUTO`, which
becomes P2P with the first Pdelay_Req, is in PortMessages. PortMessages has one
port: the other ports appear as the decisions that reach it. It leaves out time
stamps and corrections, the 802.1AS capability (which makes a port ignore
messages), the NetSync Monitor and the slave-only clock; the age of a delay request
is a free choice, and a kept request only remembers whether the clock has jumped
since.

## 3. Runs

`ordinary`, `boundary`, `live` and `fault_timer_lost` are instances of MCPtpClock (the
first of MCOrdinary, which puts an ordinary and a slave-only clock side by side), where
clock 6 hears grandmaster 10 directly (`AnnA`), the same grandmaster with a worse
priority (`AnnA2`), and through clock 12 (`AnnB`). `Watched` bounds the descriptors that
`poll` reports, `MaxReady` how many in one pass, `RtnlBatch` the netlink messages in one
read. Two ready descriptors are what a stale snapshot needs; the message list of
a foreign master is bounded by the code (`FOREIGN_MASTER_THRESHOLD`).

| Run | Shows | Distinct states |
|---|---|---|
| `bmc_scan` | the scan ends with the dataset that beats all the others (`BestBeatsSeen`), and which one does not depend on the order (`BestRanksFirst`); the same for the telecom profile (`TelecomBeatsSeen`, `TelecomRanksFirst`) | 2,048 |
| `ordinary` | one E2E port, ordinary or slave-only, all descriptors, failing I/O and re-initialisation, bonding and hardware time stamps: `TypeOK`, `BestPresent`, `DelayRequestHasMaster`, `OnlyMastersTransmit`, `NeverDeaf`, `DownHoldsNothing` | 229,223 |
| `boundary` | two ports with a PHC each that hear the same grandmaster, management changes the clock's class, the PHC switch may fail in the decision: `AtMostOneSlave`, `SlaveFollowsBest` | 217,810 |
| `live` | P2P without ASAP faults: `PdelayKeepsRunning`, `FaultWillBeCleared`; under `FairSpec` `FaultRecovered`, `MasterLossNoticed` | 22,604 |
| `messages` | a DM_AUTO port with two masters and two peers: `TypeOK`, `Conserved`, `NoRequestFromBeforeJump`, `DownHoldsNoMessage` | 125,113 |
| `transparent` | two and three ports, E2E and P2P, inside and beside a spanning tree, several masters, rounds and domains: `TypeOK`, `Conserved`, `OwnResidence`, `NoPairWaits`, `DownHoldsBypassing` | 61,670 |
| `unicast` | the client, or strangers, and a service: `TypeOK`, `UniqueContract`, `LeaseHolds`, and the refinement `ContractsKept` | 124,498 |
| `phc2sys` | two ports with a PHC each, ptp4l restarted: `TypeOK`, `SubscriptionKept`, `StatesFollow`, `NoTwoSteerers`; under `FairSpec` `SubscribesAgain`, `InStepInTheEnd` | 786,263 |
| `ptpd` | seven kinds of clock: `TypeOK`, `SpeaksOrListens`, `ParentIsBest`, `SlaveOnlyStepsDown`; under `FairSpec` `SilentParentLeft` | 447,850 |

Bounds, and why they are enough:

* `messages`: `MaxMsgs` is the memory. With the message being received, 3 are enough for
  a request, its response and the Follow_Up, or for half a pair beside a queued request;
  the failure of the allocation that comes after is a case of its own. Sequence ids
  count modulo 2, which is what makes a late answer look like the right one. An answer to
  another port's request is dropped; a message with a sequence id no request has stands
  for it. Masters and peers are interchangeable, hence the symmetry.
* `transparent`: three ports are what it takes for two egress ports with residence times of
  their own, three messages for a pair and a third that is forwarded meanwhile; there, one
  exchange gives a Sync, its Follow_Up and duplicates of both. Two ports have three
  exchanges at once, the next round of a master and one of another master with the same
  sequence number: a residence time of the wrong one can be picked up by either number
  alone. Two ports with two domains show the matches across domains, which the code
  does not tell apart (hazard at `tc.c:349`) and `OwnResidence` allows. One port
  per event may fail (`MaxFails`). `CHECK_DEADLOCK FALSE`: after a torn list the model
  ends, since what the code does next is undefined.
* `unicast`: a contract of 3 ticks and a query every tick let a renewal be lost and sent
  again before the expiry. Periods 1 and 2 are two intervals, which is what a stale
  contract needs; two messages under way can overtake each other.
* `phc2sys`: a port state is followed, about to be, or neither; three state changes or
  restarts; a subscription of three rounds renewed every round, as 180 s and 60 s are.
  `CHECK_DEADLOCK FALSE`: the program ends when its start fails.
* `ptpd`: two foreign masters of one grandmaster and two records, so that the list is
  full; two passes between attempts to initialise. `CHECK_DEADLOCK FALSE`: the daemon may
  dereference a NULL best master (hazard at `protocol.c:866`), after which it is gone.

`OnlyMastersTransmit` and `DelayRequestHasMaster` hold only without ASAP faults: a
port that faults and restarts in one call is not FAULTY when `clock_poll` looks, the
loop does not break, and the rest of its snapshot is served to the restarted port.
What else fails in other configurations, without contradicting any text:

* `FaultWillBeCleared` with `boundary_clock_jbod`: a fault raised by `bc_dispatch` inside
  the state decision (a failed PHC switch) has no fault timer; only the descriptor loop
  sets one.
* `PdelayKeepsRunning` with ASAP faults: a LISTENING peer-delay port that faults is
  LISTENING again when `portStateUpdate` returns, so no transition is called, and the new
  `FD_DELAY_TIMER` is never set.
* a port that goes down for any reason but a link change does not make the clock decide
  again; `c->best` points to a freed foreign master until something else does.
* when the servo loses its lock, the transition that `port_syfufsm` caused releases the
  kept half of a pair and `port_syfufsm` releases it again; its count is -1 in the pool.
  `Conserved` shows why nothing comes of it: `msg_put` recycles at exactly zero and
  `msg_allocate` sets the count anew.
* `StatesFollow` after a restart of ptp4l: phc2sys subscribes again within the update
  interval, but states that changed meanwhile are asked for by nothing; and
  `_psysClockReinit` stores the state of its own answer in the port alone, so that the
  next notice with that state changes nothing and the clock keeps the old one.

### Disagreements between the code and what it says of itself

* `fault_timer_lost`: when the fault timer expires it is cleared and the port
  initialised again; if that fails, the port is FAULTY with no timer and stays so
  until a link change (`ptpClockPoll.c:290`). The manual page says a fault is reset
  after `fault_reset_interval`.
* `released_entry`: when a corrected Follow_Up cannot be sent, `tc_complete_syfup`
  dispatches a fault, whose `portOpDisable` flushes the list it is working on; the entry
  in hand is recycled twice and a message that another list holds is put once too often
  (`tc.c:237`).
* `ptpd_disqualified`: `bmcDataSetComparison` lets a disqualified record win every
  comparison (`ptpd/src/bmc.c:498`), where `ptp_datatypes.h` says it always loses: a
  silent master is chosen before every live one.

### Fairness

`FairSpec` has two parts. `ptp4l` calls `clock_poll` for ever and nothing in a pass
waits, so every pass goes on to its end (weak fairness of everything but `Poll`). A
timer that is set expires, and poll(2) reports every readable descriptor: a timer
that is armed again and again when the clock polls is reported at some time (strong
fairness of `TimerReported` for ANNOUNCE and FAULT). It is strong because the timer
may be cleared and set in between; for FAULT that assumes that link messages do not
set it anew for ever within its interval, and for ANNOUNCE that announces stop,
which is the premise of `MasterLossNoticed`. Each is quantified over ports; no
fairness is assumed of messages, management, or of anything succeeding. `live` has
no failing initialisation (with one, `FaultRecovered` is what `fault_timer_lost`
refutes).

`FairSpec` of Phc2sys: the program never waits for ever (weak fairness of `PhcStep`:
every poll has a timeout, the sleep ends), ptp4l reads its requests (weak fairness of
`Serve`), and notices do not come so fast that there is one to read each time a request
could be sent (strong fairness of `PmcSend`, which `_psysPmcRun` only does when the
socket is empty). Restarts and state changes are bounded and not fair: ptp4l may stay
down, which both properties allow for.

`FairSpec` of PtpdPort: the main loop goes on (weak fairness of `Pass`), and the receipt
timer expires if it runs again and again (strong fairness, since parents that announce
stop and start it; that they fall silent is the premise of `SilentParentLeft`).

## 4. Proofs

| Theorem | Says, for all constants that satisfy the ASSUMEs |
|---|---|
| `BetterTransitive` | `Better` is transitive on consistent datasets |
| `ScanFindsBest` | `BmcScan` keeps `BestBeatsSeen`, in either profile |
| `ScanRanksFirst` | `BmcScan` keeps `BestRanksFirst`, in either profile |
| `ClockTypeCorrect` | `TypeOK` of PtpClock |
| `PortsNeverDeaf` | `NeverDeaf` |
| `DownPortsHoldNothing` | `DownHoldsNothing` |
| `SlavesFollowTheBest`, `OneSlaveAtMost`, `FollowersHaveBest` | `SlaveFollowsBest`, `AtMostOneSlave`, `BestPresent` |
| `OnlyMastersEverTransmit`, `PeerDelayNeverStops` | `OnlyMastersTransmit`, `PdelayKeepsRunning`, if `AsapFaults = {}` |
| `DelayRequestFindsMaster` | `DelayRequestHasMaster`, if `AsapFaults = {}` |
| `FaultTimerAlwaysRuns` | `FaultWillBeCleared`, if `AsapFaults = {}`, `~InitCanFail` and `~Jbod` |
| `RoleTimersRun` | `SpeaksOrListens` of PtpdPort |
| `SlaveOnlyNeverStaysMaster` | `SlaveOnlyStepsDown` |
| `TypeCorrect` | `TypeOK` of PtpdPort |
| `ParentStaysBest` | `ParentIsBest` |
| `PutAllReleases` | the loop `put_all` releases each message of its list once |
| `TypeCorrect` | `TypeOK` of PortMessages |
| `MessagesConserved` | `Conserved` of PortMessages |
| `DownKeepsNothing` | `DownHoldsNoMessage` |
| `JumpDropsRequests` | `NoRequestFromBeforeJump` |
| `TypeCorrect` | `TypeOK` of TransparentClock |
| `MessagesConserved` | `Conserved` of TransparentClock |
| `OwnTimesSent` | `OwnResidence` |
| `NoPairEverWaits` | `NoPairWaits` |
| `DownPortsBypass` | `DownHoldsBypassing` |
| `TypeCorrect` | `TypeOK` of Unicast |
| `OneContract` | `UniqueContract` |
| `ContractsAreKept` | the refinement `ContractsKept`: the services implement UnicastContracts |
| `RenewalInTime` | `LeaseHolds`, if `DelayMechanism = "P2P"` |
| `TypeCorrect` | `TypeOK` of Phc2sys |
| `SubscriptionStays` | `SubscriptionKept` |
| `ClientFollows` | `StatesFollow` |
| `OneSteerer` | `NoTwoSteerers` |

* *Assumptions*: `PortConfig`, `ClockConfig`, `ScanConfig`-style ASSUMEs of the
  modules: the shapes of the inputs, at least one port, one identity for all of the
  clock's own datasets. Any number of ports, announces, ready descriptors. PtpdPort takes
  what its options are checked for (`maxListen` is at least 1, `RANGECHECK_MIN` in
  `daemonconfig.c:1387`; the array of records has a slot). Phc2sys takes a subscription
  that outlasts the interval of its renewals by two rounds at least
  (`Duration > UpdateInterval + 1`), because a renewal that finds an unread answer in the
  socket is put off by a round; `phc2sys.h:64` has 180 and 60 s and says the first has to
  be longer.
* *BmcScan*: `dscmp2` answers by steps removed and, within one, by whether the port
  received the message from itself; read as a verdict it is not a total order. The
  proof shows that on the universe it compares (steps removed, sender, receiver)
  lexicographically, and that the candidate beats every dataset seen follows by
  transitivity. `BestRanksFirst` goes by a rank instead, a tuple of ten numbers that says
  nothing of pairs: the proof shows that to come first in it is to be `Better`, and that
  two datasets with the same rank on the first places share their grandmaster. Both
  theorems leave `Telecom` open, so they say of G.8275 what `TelecomBeatsSeen` and
  `TelecomRanksFirst` check.
* *PtpClock_proofs* begins with one port: each function of PtpPort preserves its type,
  and the two port invariants: timers that fit the state, and nothing held while down.
  Then each action of PtpClock is a composition of those. `NeverDeaf` and `DownHoldsNothing` are inductive with types
  (`ClockInv`). `SlaveFollowsBest` is not: it holds only between decisions. The
  strengthening `SlaveInv` says what holds in each phase: while the ports'
  bests are computed, nothing of the old best is relied on; while the ports are
  decided, those before `cur` agree with the new best and those after it do not
  matter, because a port that is recommended SLAVE is the best's port and a
  recommendation of anything else takes it out of the slave states; between passes
  a slave port is the best's port, since no handler changes a slave port's `best`
  without taking it down, and only `Decide` makes one.

  `OnlyMastersTransmit` is about the rest of a snapshot as well
  as about timers, and needs both. `TimerInv` adds to `ClockInv` that a port's timers fit
  its state (`PortsOnTime`) and that no descriptor in the snapshot belongs to a role the
  port no longer has (`SnapshotOwned`). A handler that ends a role either faults the port,
  and then the break in `clock_poll` drops what is left of its snapshot, or is the
  announce timeout, which is served after the delay descriptor it would make stale. This is
  where "no ASAP faults" is needed: with ASAP the port is listening again when
  `clock_poll` looks, the loop does not break, and the stale descriptors are served.
  Its second half is about what a port keeps.
  `DelayRequestHasMaster` needs that a slave port has an announce of its best master left. `StockInv` says so for each phase: `port_compute_best` takes as
  best only a master that has an announce left, so ports before `cur` are stocked while
  the bests are computed and all are when the roles are dispatched. An announce that is
  received prunes its list but adds itself to it, and what clears lists elsewhere (a
  fault, a link that goes down, the receipt timeout) ends the slave role in the same
  round. `FaultInv` says that a faulty port with
  its link up has its fault timer running, but for the one port whose netlink messages are
  being read: there the link may be up and the timer not yet set.

* *PtpdPort_proofs*: one invariant, `PtpdInv`, for the timers and the role. `Fits` says that of the
  timers that make a role (receipt, Announce, Sync) exactly those of the state run. It
  is stronger than `SpeaksOrListens` where that says nothing, and weaker than one would
  expect there: a master whose send fails becomes FAULTY in the middle of the pass, goes
  on, and may start its timers anew, so a state without a role only promises that the
  receipt timer is stopped. `Placed` says which states can be met at which point of the
  pass: a slave-only clock may be MASTER only where a master serves its timers and
  its messages, which ends in `Demote`: a decision (class 255, `slaveOnly` cleared by
  management) or a management request has made it so in the same pass. Each function of the code is shown to lead
  from timers that fit to timers that fit, then each action goes from point to point.
  The options may be any set of `Configurations` (`PtpdConfig`).
  A second one, `TypedInv`, is for the structure: everywhere in a pass it is typed and
  `Settled`: a slave has a best master, and that record is the parent's unless a
  decision is pending. A slave is made in `toSlave` only, where the decision has just
  taken the parent from the best record, and what comes after either leaves best master,
  records and parent alone (`Linked`), or ends the slave state, or is `addForeign`
  and the parent's Announce, which ask for a decision. Which
  record the decision takes is a scan written as a recursive function: that it
  names a slot of the array is an induction with `Least` over its rounds
  (`ScanExists`, `ScanNamesSlot`), for any number of records; that it is the best one
  is not needed.

* *MsgPool_proofs*: `Counts(p, own)` relates the pool to what its users own: a message in
  the pool has no owner and a count of at most zero (below zero when it was released once
  more than it should), one outside has a count equal to its references. `msg_get`,
  `msg_put` and `msg_allocate` keep it with one reference more or less, and so does the
  second release of a message that is in the pool already (`PutStale`). For the loop
  `put_all` that is an induction over a list: it is done with `Least` (a set of natural
  numbers that is not empty has a least element, from the well-foundedness of `<`),
  applied to the set of rounds that went wrong.
* *PortMessages_proofs*: in the middle of a handler the handler owns messages too, so the
  invariant carries a counter `w` of the handler's own references: `Good(p, w)` says that
  the pool counts the port's pointers plus `w`, and that no message has two pointers.
  `Fine` adds `Clean` (no request from before a jump waits) and `DownEmpty`. Between two
  events `w` is zero: that is `IInv`, which TLC has checked on the instance of `messages`
  too. Every flush and every
  dispatch only *sheds* pointers (`Sheds`), whatever it is called from; `LastHalf` follows
  the kept half of a pair through them: it is kept still or is in the pool, which makes
  the second release by the pairing machine harmless. Each handler is then shown to lead
  from `Handling(p, c)` (it owns the message `c` that came in and nothing else) to
  `Fine`, and `NextIInv` puts the last release and the dispatch behind it. The theorems
  hold for every number of messages, masters, peers and sequence ids, every delay
  mechanism and fault option.

* *TransparentClock_proofs*: an event is one step of the model and many of the code, so the
  invariant is one of the middle of an event. `Event(g, b, held)` says of any record `g` the
  handler passes from function to function that the pool counts the lists that remember a
  message plus `held`, the handler's own references; that no list has a message twice, a
  pair that waits, or, on a closed port, anything that was sent; and that each entry has the
  residence time of its own message and way (that `tc_match_syfup` and `tc_match_delay`
  compare source and sequence number is what carries it over to the Follow_Up). Once a list was torn (an entry unlinked that a fault had
  flushed) only the types and the times are kept, which is why `OwnResidence` needs no
  premise about `torn` and the others do. Three relations carry it through the calls: what
  dispatches does not remember anything new (`Settles`), what completes a message at port
  `p` remembers at most that message there (`Advances`), and `Forwarding(.., c, K, .., k)`
  says that ports up to `k` are done with message `c` and no list has a message of `K`,
  which a split Sync needs: its Follow_Up is made before the Sync is forwarded and must still
  be unknown to every port when its own turn comes. The loops over the ports and over
  a list are recursive functions; that they exist and what they reach is an induction with
  `Least` done once (`LoopKeeps`, `LoopReaches`). `MessagesConserved` ends with a count: the
  entries for a message are as many as the lists that have it, because none has it twice
  and none is longer than the pool is large (`ListFits`, by the pigeonhole principle). TLC
  has checked `TcInv` on the instance of `transparent`. The theorems hold for every number
  of ports, messages, keys and domains, either mechanism and every spanning tree.

* *Unicast_proofs*: the lists of `unicast_service.c` are sequences, and what they are for
  is `Promises(s, a, t, p, l)`: address `a` has type `t` with period `p` for `l` more
  ticks. `Sound` is the invariant of one service (one interval per period, one record per
  address and interval, one interval per address and type), and each function of the code
  is shown to keep it and to do one thing to the promises: `Given` or `Denied` for
  `unicast_service_add`, withdrawn for the remove, `ContractsEnd` for the timer,
  `TimePassed` for a tick. What `Remaining` (a loop that takes elements out) leaves is an
  induction with `Least`, as above. Of a sound service the `CHOOSE` of `Contract` has one
  outcome, so these facts carry over to contracts and each action maps to `Negotiated`,
  `Ended`, `Tick` or a stutter. A request of the client carries several TLVs and is one
  negotiation: that needs `Agreed` (while the client negotiates, its contracts are in the
  intervals it asks for), so a denial takes nothing from it. `LeaseHolds` is
  not inductive: a grant under way sets a renewal when it arrives. `GrantsHold` says that
  a grant under way is covered by a contract that lasts as long, which no step that
  leaves a message under way can shorten (`Lasts`); TLC has checked `IInv`, with either
  delay mechanism. The theorem assumes the peer delay mechanism because with "E2E" the property is
  false: `unicast_service_add` grants DELAY_RESP without a record (it answers every
  request anyway), so an announce contract that is nearly over and a SYNC that is denied
  leave the client with a renewal that no contract covers. It then asks later than its
  announces end, which no document excludes.

* *Phc2sys_proofs*: the properties speak of what phc2sys holds, the reason they hold is
  under way between two programs. `PhcInv` is the types and, until ptp4l ends once,
  `Steady`, in which each part is one account of the two sockets:
  `Alive` (whatever the client waits for is under way, as request or as answer, so it
  never gives up), `Lease` (how old the subscription can be in each step of the client:
  with no renewal under way it has lost no more rounds than the client has counted, plus
  one for the renewal that finds an unread answer; no renewal is behind another one or
  behind an answer that would put it off again), `Single` (an answer about a port
  is asked for once and by the step that waits for it, so no late one is taken for another
  port's), and `Informed`. That one is the heart of `StatesFollow`: `Told(inbox, p, v, w)`
  says of a reader who believes `v` of port `p` and reads the inbox to its end that he
  ends with the state `w` the port has now, and that an answer on the way never tells him
  other than what he then believes. It is kept by a notice appended at one end, a message
  taken at the other, and by an answer, since ptp4l writes both in the order in which the
  state changed. `Local` needs nothing of ptp4l: which ports are known (`Knows`), that a
  clock's state, with the change in store for it, is its port's (`Aims`), that changes in
  store are only left over while `state_changed` calls for another reconfiguration or on
  the stand-in for a source (`Calm`), and that the system clock is the source for want of
  a slave port (`Last`). `ReconfigureIs`, `NoticedIs` and `ReturnedIs` show once what these
  functions do to a node, for any number of ports that have PHCs of any index; each
  action then is one lemma (`SendSteady`, `NoticeSteady`, `AnswerSteady`, ...).
  TLC has checked every part of `PhcInv` on the instance of `phc2sys`. After a restart
  of ptp4l the three safety properties claim nothing (see section 3); what then holds is
  `SubscribesAgain`, a liveness property.

Checked with TLC only: the liveness properties `FaultRecovered`, `MasterLossNoticed`,
`SubscribesAgain`, `InStepInTheEnd` and `SilentParentLeft` (liveness under fairness is out
of the prover's reach), and the three runs that expect a violation. `TelecomBeatsSeen` and
`TelecomRanksFirst` are `BestBeatsSeen` and `BestRanksFirst` of a second instance of
BmcScan that runs beside the first with `Telecom = TRUE`; the theorems `ScanFindsBest` and
`ScanRanksFirst` leave `Telecom` open and so say the same of it. Every other invariant of
a passing run has its theorem, under the conditions in the table.

## 5. Not modelled, and the plan

Not modelled, and why:

* transport I/O and time-stamping calls (`ptpTrans*.c`, `sk.c`): their failures are
  choices of the models, the rest is the kernel's;
* TLV encoding and the conversions of `msg.c`, configuration parsing (`config.c`, ptpd's
  `daemonconfig.c`), logging and statistics, SNMP: data without control;
* the arithmetic of the servos and of `clockcheck.c` (floating point): a verdict that
  locks, jumps or loses lock is a free choice;
* the hash table and priority queue of `ptpUtils.c`: containers, used as sets and lists;
* the measurements of ptpd (Sync, delay and peer delay values), its unicast negotiation,
  leap seconds and NTP control; of phc2sys the manual and PPS modes, leap seconds and
  the move of an interface to another PHC;
* the tools (`mtools/`, `omtools/`, `ntools/`, `ethtool/`, `programs/`): command lines
  that send, read or print and keep no state.

What could come next, most important first:

1. **PtpNetwork**: several PtpClocks' decisions over a network; abstract
   specification "one grandmaster, a tree of parents".
2. Several ports of PortMessages on one clock: a jump that one port sees.
3. Ports of phc2sys that share a PHC, and a clock taken by default beside one that is
   UNCALIBRATED.
4. An abstract port life cycle (which state follows which) with PtpClock shown to
   implement it.
