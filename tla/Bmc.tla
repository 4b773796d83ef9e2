-------------------------------- MODULE Bmc --------------------------------
(***************************************************************************)
(* The dataset comparison and the state decision of the best master clock  *)
(* algorithm, linuxptp/src/bmc.c.  Pure operators: the clock that calls    *)
(* them is PtpClock, the scan over a list of datasets is BmcScan.          *)
(*                                                                         *)
(* Every number a comparison reads is a natural number; a clock identity,  *)
(* eight octets that memcmp orders, is the number they spell.              *)
(***************************************************************************)
EXTENDS Integers

CONSTANTS
    LittleEndian,   \* byte order of the host: memcmp sees host-order integers
    Telecom,        \* dataset_comparison is G.8275.x instead of IEEE 1588
    Null            \* the NULL pointer of a port or clock with no best master

ASSUME BmcConfig == LittleEndian \in BOOLEAN /\ Telecom \in BOOLEAN

UInt16 == 0 .. 65535

PortIdentity == [clockIdentity : Nat, portNumber : UInt16]

DataSet ==
    [ identity : Nat,  priority1 : Nat,  clockClass : Nat,
      clockAccuracy : Nat,  offsetScaledLogVariance : Nat,
      priority2 : Nat,  localPriority : Nat,  stepsRemoved : UInt16,
      sender : PortIdentity,  receiver : PortIdentity ]

ASSUME NullIsNothing == Null \notin DataSet /\ Null \notin PortIdentity

A_BETTER_TOPO == 2
A_BETTER      == 1
B_BETTER      == -1
B_BETTER_TOPO == -2
Verdicts == {A_BETTER_TOPO, A_BETTER, 0, B_BETTER, B_BETTER_TOPO}

----------------------------------------------------------------------------
(* Comparisons are chained with Else: the first that tells a from b counts. *)

Smaller(x, y) == IF x < y THEN A_BETTER ELSE IF y < x THEN B_BETTER ELSE 0

Else(verdict, next) == IF verdict # 0 THEN verdict ELSE next

(* What memcmp makes of the two octets of a port number held in host order. *)
Octets(n) == IF LittleEndian THEN (n % 256) * 256 + (n \div 256) ELSE n

(* Sign of memcmp(p, q) turned round: A_BETTER when p sorts before q.      *)
PidCompare(p, q) ==
    Else(Smaller(p.clockIdentity, q.clockIdentity),
         Smaller(Octets(p.portNumber), Octets(q.portNumber)))

(* The nearer dataset, one step away, against the farther one.  The far    *)
(* side was heard by far.receiver from far.sender; 0 is "error-1".         *)
OneStepNearer(far) ==
    LET c == PidCompare(far.receiver, far.sender)
    IN IF c = A_BETTER THEN A_BETTER
       ELSE IF c = B_BETTER THEN A_BETTER_TOPO
       ELSE 0

(* Mutant of dscmp2: the verdict for the far side a is not turned round.   *)
Dscmp2NotTurned(a, b) ==
    IF a.stepsRemoved + 1 < b.stepsRemoved THEN A_BETTER
    ELSE IF b.stepsRemoved + 1 < a.stepsRemoved THEN B_BETTER
    ELSE IF a.stepsRemoved < b.stepsRemoved THEN OneStepNearer(b)
    ELSE IF b.stepsRemoved < a.stepsRemoved THEN OneStepNearer(a)
    ELSE 2 * Else(PidCompare(a.sender, b.sender),
                  Smaller(a.receiver.portNumber, b.receiver.portNumber))

dscmp2(a, b) ==
    IF a.stepsRemoved + 1 < b.stepsRemoved THEN A_BETTER
    ELSE IF b.stepsRemoved + 1 < a.stepsRemoved THEN B_BETTER
    ELSE IF a.stepsRemoved < b.stepsRemoved THEN OneStepNearer(b)
    ELSE IF b.stepsRemoved < a.stepsRemoved THEN -OneStepNearer(a)
    ELSE 2 * Else(PidCompare(a.sender, b.sender),
                  Smaller(a.receiver.portNumber, b.receiver.portNumber))

ByQuality(a, b) ==
    Else(Smaller(a.clockClass, b.clockClass),
    Else(Smaller(a.clockAccuracy, b.clockAccuracy),
         Smaller(a.offsetScaledLogVariance, b.offsetScaledLogVariance)))

ByIdentity(a, b) == Smaller(a.identity, b.identity)

(* Either side NULL: something beats nothing, and NULL equals NULL.        *)
OrNull(a, b, verdict) ==
    IF a = b THEN 0
    ELSE IF b = Null THEN A_BETTER
    ELSE IF a = Null THEN B_BETTER
    ELSE verdict

dscmp(a, b) ==
    OrNull(a, b,
        IF a.identity = b.identity THEN dscmp2(a, b)
        ELSE Else(Smaller(a.priority1, b.priority1),
             Else(ByQuality(a, b),
             Else(Smaller(a.priority2, b.priority2), ByIdentity(a, b)))))

(* Mutant of telecom_dscmp: localPriority is not looked at.                *)
TelecomNoLocal(a, b) ==
    OrNull(a, b,
        Else(ByQuality(a, b),
        Else(Smaller(a.priority2, b.priority2),
             IF a.clockClass <= 127 \/ a.identity = b.identity
             THEN dscmp2(a, b)
             ELSE ByIdentity(a, b))))

telecom_dscmp(a, b) ==
    OrNull(a, b,
        Else(ByQuality(a, b),
        Else(Smaller(a.priority2, b.priority2),
        Else(Smaller(a.localPriority, b.localPriority),
             IF a.clockClass <= 127 \/ a.identity = b.identity
             THEN dscmp2(a, b)
             ELSE ByIdentity(a, b)))))

Compare(a, b) == IF Telecom THEN telecom_dscmp(a, b) ELSE dscmp(a, b)

Better(a, b) == Compare(a, b) > 0

----------------------------------------------------------------------------
(* The role recommended to a port in the given state whose best foreign    *)
(* dataset is portBest, in a clock whose own dataset is clockDs and whose  *)
(* best foreign dataset, clockBest, was heard by this port iff isBestPort. *)

StateDecision(state, clockDs, clockBest, isBestPort, portBest) ==
    IF portBest = Null /\ state = "LISTENING" THEN "LISTENING"
    ELSE IF clockDs.clockClass <= 127
         THEN IF Better(clockDs, portBest) THEN "GRAND_MASTER"    \* M1
                                           ELSE "PASSIVE"         \* P1
    ELSE IF Better(clockDs, clockBest) THEN "GRAND_MASTER"        \* M2
    ELSE IF isBestPort THEN "SLAVE"                               \* S1
    ELSE IF Compare(clockBest, portBest) = A_BETTER_TOPO
         THEN "PASSIVE"                                           \* P2
    ELSE "MASTER"                                                 \* M3

(* The role a recommendation can name.                                     *)
Roles == {"LISTENING", "GRAND_MASTER", "MASTER", "PASSIVE", "SLAVE"}
=============================================================================
