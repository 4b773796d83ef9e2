------------------------------ MODULE BmcScan ------------------------------
(***************************************************************************)
(* The scan both best-master loops make: port_compute_best over a port's   *)
(* foreign masters, handle_state_decision_event over the ports' bests.     *)
(* Each keeps a running best and replaces it when the next dataset         *)
(* compares greater.  The datasets come in an order nobody controls (that  *)
(* of the announce messages), so the step may take any of them.            *)
(***************************************************************************)
EXTENDS Bmc, Sequences

CONSTANT Universe       \* the datasets foreign masters may announce

(* What is common to every dataset of one grandmaster.                     *)
Attributes(d) == << d.priority1, d.clockClass, d.clockAccuracy,
                    d.offsetScaledLogVariance, d.priority2 >>

(* The announcements of one grandmaster agree on its attributes.           *)
Consistent(U) ==
    \A d, e \in U : d.identity = e.identity => Attributes(d) = Attributes(e)

(* _portIgnore drops a message the clock sent itself.                      *)
HeardFromOthers(U) ==
    \A d \in U : d.sender.clockIdentity # d.receiver.clockIdentity

ASSUME UniverseIsDataSets == Universe \subseteq DataSet
ASSUME UniverseConsistent == Consistent(Universe)
ASSUME UniverseForeign == HeardFromOthers(Universe)

VARIABLES
    seen,       \* the datasets scanned so far
    best        \* the running best, Null before the first

vars == <<seen, best>>

TypeOK == seen \in SUBSET Universe /\ best \in Universe \cup {Null}

Init == seen = {} /\ best = Null

Scan(d) ==
    /\ seen' = seen \cup {d}
    /\ best' = IF best = Null \/ Better(d, best) THEN d ELSE best

Next == \E d \in Universe : Scan(d)

Spec == Init /\ [][Next]_vars

----------------------------------------------------------------------------
(* Reference: the ranking the two comparisons are meant to implement, a    *)
(* lexicographic order on tuples, the lower the better.                    *)

Topology(d) == << d.stepsRemoved, d.sender.clockIdentity,
                  Octets(d.sender.portNumber), d.receiver.portNumber >>

Rank(d) ==
    IF Telecom
    THEN << d.clockClass, d.clockAccuracy, d.offsetScaledLogVariance,
            d.priority2, d.localPriority,
            IF d.clockClass <= 127 THEN 0 ELSE d.identity >> \o Topology(d)
    ELSE Attributes(d) \o << d.identity >> \o Topology(d)

Before(s, t) ==
    \E i \in DOMAIN s : s[i] < t[i] /\ \A j \in 1 .. i - 1 : s[j] = t[j]

(* The scan's result never loses to a dataset it has passed over, whatever *)
(* the order the datasets came in (port_compute_best compares a newcomer   *)
(* with the running best only, so this needs the comparison transitive).   *)
BestBeatsSeen == \A d \in seen : best # Null /\ ~Better(d, best)

(* The result depends on the set of datasets alone, not on their order: it *)
(* is the one that ranks first (dscmp and telecom_dscmp against Rank).     *)
BestRanksFirst ==
    seen # {} => /\ best \in seen
                 /\ \A d \in seen : ~Before(Rank(d), Rank(best))
=============================================================================
