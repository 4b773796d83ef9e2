-------------------------- MODULE UnicastContracts --------------------------
(***************************************************************************)
(* What unicast negotiation promises: per grantor, address and message     *)
(* type there is at most one contract, with one period, and once granted   *)
(* it lasts its time unless it is replaced or cancelled.  Times are the    *)
(* ticks left.                                                             *)
(***************************************************************************)
EXTENDS Integers

CONSTANTS Grantors, Addrs, Types, Periods, Durations

VARIABLE contract       \* contract[g][a][t]

None == [period |-> 0, left |-> -1]

Init == contract = [g \in Grantors |-> [a \in Addrs |-> [t \in Types |-> None]]]

(* A signaling message of address a.  A contract that is granted lasts no  *)
(* shorter than the shortest time that may be asked for, and no longer     *)
(* than the longest: grants do not add up.  (What the message asked for is *)
(* not part of the state here.)  The contract for one type, the one it is  *)
(* about, may be withdrawn: it was cancelled, or lost to a request that is *)
(* then denied.  All others last as long as before, or longer, if they     *)
(* share the time of the one that was granted.                             *)
Granted(n) == n.period \in Periods /\ \E d, e \in Durations : n.left \in d .. e

Prolonged(c, n) ==
    /\ n.period = c.period /\ n.left >= c.left
    /\ n.left = c.left \/ \E e \in Durations : n.left <= e
    /\ c = None => n = None

Negotiated(g, a) ==
    LET old == contract[g][a]
        new == contract'[g][a]
    IN  /\ \E about \in Types : \A t \in Types :
              \/ Prolonged(old[t], new[t])
              \/ Granted(new[t])
              \/ t = about /\ new[t] = None
        /\ contract' = [contract EXCEPT ![g][a] = new]

(* Contracts end only when their time is over.                             *)
Ended(g) ==
    LET old == contract[g]
        new == contract'[g]
    IN  /\ \A a \in Addrs, t \in Types :
              new[a][t] = old[a][t] \/ (old[a][t].left < 0 /\ new[a][t] = None)
        /\ contract' = [contract EXCEPT ![g] = new]

Passed(c) == [c EXCEPT !.left = IF @ >= 0 THEN @ - 1 ELSE -1]
Tick == contract' = [g \in Grantors |-> [a \in Addrs |-> [t \in Types |->
                        Passed(contract[g][a][t])]]]

Next ==
    \/ \E g \in Grantors : Ended(g)
    \/ \E g \in Grantors, a \in Addrs : Negotiated(g, a)
    \/ Tick

Spec == Init /\ [][Next]_contract
=============================================================================
