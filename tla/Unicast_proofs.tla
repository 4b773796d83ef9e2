--------------------------- MODULE Unicast_proofs ---------------------------
(***************************************************************************)
(* Unicast negotiation, for every number of masters and addresses, every   *)
(* set of transmission intervals and every duration: the types of Unicast, *)
(* that an address has a message type in one interval only, that what is   *)
(* promised is kept (UnicastContracts), and that the client's renewal is   *)
(* never waited for longer than the contract lasts.                        *)
(***************************************************************************)
EXTENDS Unicast, FiniteSetTheorems, WellFoundedInduction, TLAPS

----------------------------------------------------------------------------
(* Lists.                                                                  *)

(* A set of natural numbers that is not empty has a least element, which   *)
(* is what First finds, and the form of induction used below.           *)
LEMMA LeastOf ==
  ASSUME NEW R, \A n, m \in Nat : <<n, m>> \in R <=> n < m, NEW T, T \subseteq Nat,
         \E m \in T : \A n \in T : ~(<<n, m>> \in R)
  PROVE  \E m \in T : \A n \in T : m <= n
<1>1. PICK m \in T : \A n \in T : ~(<<n, m>> \in R)
  OBVIOUS
<1>2. ASSUME NEW n \in T PROVE m <= n
  <2>1. n \in Nat /\ m \in Nat /\ ~(n < m)
    BY <1>1
  <2> QED BY <2>1
<1> QED BY <1>2

(* The same, of any such set.                                              *)
LEMMA Least ==
  ASSUME NEW T \in SUBSET Nat, T # {}
  PROVE  \E m \in T : \A n \in T : m <= n
<1> DEFINE R == OpToRel(<, Nat)
<1>1. IsWellFoundedOn(R, Nat)
  BY NatLessThanWellFounded
<1>2. \A n, m \in Nat : <<n, m>> \in R <=> n < m
  BY DEF OpToRel
<1> HIDE DEF R
<1>3. \E m \in T : \A n \in T : ~(<<n, m>> \in R)
  BY <1>1, WFMin, Zenon
<1> QED BY <1>2, <1>3, LeastOf, Zenon

(* First finds one of the places, the one before the others.               *)
LEMMA FirstIs ==
  ASSUME NEW T \in SUBSET (Nat \ {0})
  PROVE  /\ T = {} => First(T) = 0
         /\ T # {} => First(T) \in T /\ \A n \in T : First(T) <= n
<1>1. CASE T = {}
  BY <1>1 DEF First
<1>2. CASE T # {}
  <2>1. \E m \in T : \A n \in T : m <= n
    BY <1>2, Least
  <2>2. Min(T) \in T /\ \A n \in T : Min(T) <= n
    BY <2>1 DEF Min
  <2>3. First(T) = Min(T)
    BY <1>2 DEF First
  <2> QED BY <1>2, <2>2, <2>3
<1> QED BY <1>1, <1>2

(* The lists that Remaining makes in its first n rounds.                   *)
Rounds(f, list, places, n) ==
    f = [k \in 0 .. n |->
          IF k = 0 THEN <<>>
          ELSE IF k \in places THEN Append(f[k - 1], list[k]) ELSE f[k - 1]]

(* Its rounds exist.                                                       *)
LEMMA RoundsExist ==
  ASSUME NEW list, NEW places, NEW len \in Nat
  PROVE  \E f : Rounds(f, list, places, len)
<1> DEFINE T == {n \in Nat : ~\E f : Rounds(f, list, places, n)}
           Step(k, l) == IF k = 0 THEN <<>>
                         ELSE IF k \in places THEN Append(l, list[k]) ELSE l
<1>1. SUFFICES ASSUME T # {} PROVE FALSE
  OBVIOUS
<1>2. PICK m \in T : \A n \in T : m <= n
  <2>1. T \in SUBSET Nat
    OBVIOUS
  <2> HIDE DEF T
  <2> QED BY <2>1, <1>1, Least
<1>3. CASE m = 0
  <2> DEFINE f == [k \in 0 .. 0 |-> <<>>]
  <2>1. Rounds(f, list, places, 0)
    BY DEF Rounds
  <2> QED BY <2>1, <1>3
<1>4. CASE m # 0
  <2>1. m \in Nat /\ m - 1 \in Nat /\ m - 1 \notin T
    BY <1>2, <1>4
  <2>2. PICK g : Rounds(g, list, places, m - 1)
    BY <2>1
  <2> DEFINE f == [k \in 0 .. m |-> IF k = m THEN Step(m, g[m - 1]) ELSE g[k]]
  <2>3. ASSUME NEW k \in 0 .. m PROVE f[k] = Step(k, f[k - 1])
    <3>1. CASE k = m
      <4>1. f[k] = Step(m, g[m - 1]) /\ f[k - 1] = g[m - 1]
        BY <3>1, <2>1, <1>4
      <4> HIDE DEF f, Step
      <4> QED BY <4>1, <3>1
    <3>2. CASE k # m
      <4>1. k \in 0 .. m - 1 /\ f[k] = g[k]
        BY <3>2, <2>1
      <4>2. g[k] = Step(k, g[k - 1])
        BY <4>1, <2>2 DEF Rounds
      <4>3. k # 0 => f[k - 1] = g[k - 1]
        BY <4>1, <2>1
      <4>4. k = 0 => Step(k, f[k - 1]) = Step(k, g[k - 1])
        OBVIOUS
      <4> HIDE DEF f, Step
      <4> QED BY <4>1, <4>2, <4>3, <4>4
    <3> QED BY <3>1, <3>2
  <2>4. Rounds(f, list, places, m)
    <3>1. f = [k \in 0 .. m |-> f[k]]
      OBVIOUS
    <3> HIDE DEF f
    <3>2. f = [k \in 0 .. m |-> Step(k, f[k - 1])]
      BY <3>1, <2>3
    <3> QED BY <3>2, Zenon DEF Rounds
  <2> QED BY <2>4
<1> QED BY <1>3, <1>4

(* And the last of them is what Remaining returns.                         *)
LEMMA RemainingRounds ==
  ASSUME NEW list, NEW places, Len(list) \in Nat
  PROVE  \E f : Rounds(f, list, places, Len(list)) /\ Remaining(list, places) = f[Len(list)]
<1> DEFINE F == CHOOSE f : f = [k \in 0 .. Len(list) |->
                    IF k = 0 THEN <<>>
                    ELSE IF k \in places THEN Append(f[k - 1], list[k]) ELSE f[k - 1]]
<1>1. Remaining(list, places) = F[Len(list)]
  BY DEF Remaining
<1>2. \E f : Rounds(f, list, places, Len(list))
  BY RoundsExist
<1>3. F = [k \in 0 .. Len(list) |->
                    IF k = 0 THEN <<>>
                    ELSE IF k \in places THEN Append(F[k - 1], list[k]) ELSE F[k - 1]]
  BY <1>2, Zenon DEF Rounds
<1> QED BY <1>1, <1>3, Zenon DEF Rounds

(* List r has the elements of the first n places of the list, those at     *)
(* other places left out, in their order: from[j] is where element j was.  *)
Chosen(list, places, n, r) ==
    \E from \in [1 .. Len(r) -> {k \in 1 .. n : k \in places}] :
        /\ \A j \in 1 .. Len(r) : r[j] = list[from[j]]
        /\ \A i, j \in 1 .. Len(r) : i < j => from[i] < from[j]
        /\ \A k \in 1 .. n : k \in places => \E j \in 1 .. Len(r) : from[j] = k

(* A round that takes the next element.                                    *)
LEMMA ChosenNext ==
  ASSUME NEW S, NEW list \in Seq(S), NEW places, NEW m \in 1 .. Len(list), NEW r \in Seq(S),
         Chosen(list, places, m - 1, r), m \in places
  PROVE  Chosen(list, places, m, Append(r, list[m]))
<1> DEFINE q == Append(r, list[m])
<1>1. /\ Len(r) \in Nat /\ m \in Nat /\ Len(q) = Len(r) + 1 /\ q[Len(r) + 1] = list[m]
      /\ \A j \in 1 .. Len(r) : q[j] = r[j]
  OBVIOUS
<1> HIDE DEF q
<1>2. PICK e \in [1 .. Len(r) -> {k \in 1 .. m - 1 : k \in places}] :
        /\ \A j \in 1 .. Len(r) : r[j] = list[e[j]]
        /\ \A i, j \in 1 .. Len(r) : i < j => e[i] < e[j]
        /\ \A k \in 1 .. m - 1 : k \in places => \E j \in 1 .. Len(r) : e[j] = k
  BY DEF Chosen
<1> DEFINE from == [j \in 1 .. Len(q) |-> IF j = Len(r) + 1 THEN m ELSE e[j]]
<1>3. \A j \in 1 .. Len(r) : from[j] = e[j] /\ from[j] \in 1 .. m - 1 /\ from[j] \in places
  BY <1>1, <1>2
<1>4. from[Len(r) + 1] = m
  BY <1>1
<1>5. \A j \in 1 .. Len(q) : j \in 1 .. Len(r) \/ j = Len(r) + 1
  BY <1>1
<1>6. from \in [1 .. Len(q) -> {k \in 1 .. m : k \in places}]
  BY <1>1, <1>3, <1>4, <1>5
<1> HIDE DEF from
<1>7. \A j \in 1 .. Len(q) : q[j] = list[from[j]]
  BY <1>1, <1>2, <1>3, <1>4, <1>5
<1>8. ASSUME NEW i \in 1 .. Len(q), NEW j \in 1 .. Len(q), i < j PROVE from[i] < from[j]
  <2>1. i \in 1 .. Len(r)
    BY <1>1, <1>8
  <2>2. CASE j \in 1 .. Len(r)
    BY <2>1, <2>2, <1>2, <1>3, <1>8
  <2>3. CASE j = Len(r) + 1
    BY <2>1, <2>3, <1>3, <1>4
  <2> QED BY <1>5, <2>2, <2>3
<1>9. ASSUME NEW k \in 1 .. m, k \in places PROVE \E j \in 1 .. Len(q) : from[j] = k
  <2>1. CASE k = m
    BY <2>1, <1>1, <1>4
  <2>2. CASE k # m
    <3>1. k \in 1 .. m - 1
      BY <2>2, <1>1
    <3>2. PICK j \in 1 .. Len(r) : e[j] = k
      BY <3>1, <1>2, <1>9
    <3> QED BY <3>2, <1>1, <1>3
  <2> QED BY <2>1, <2>2
<1>10. Chosen(list, places, m, q)
  BY <1>6, <1>7, <1>8, <1>9 DEF Chosen
<1> QED BY <1>10 DEF q

(* A round that leaves it out.                                             *)
LEMMA ChosenSame ==
  ASSUME NEW list, NEW places, NEW m \in Nat \ {0}, NEW r,
         Chosen(list, places, m - 1, r), m \notin places
  PROVE  Chosen(list, places, m, r)
<1>1. {k \in 1 .. m - 1 : k \in places} = {k \in 1 .. m : k \in places}
  OBVIOUS
<1>2. \A k \in 1 .. m : k \in places => k \in 1 .. m - 1
  OBVIOUS
<1> QED BY <1>1, <1>2 DEF Chosen

(* Remaining keeps the elements at the places, in their order.             *)
LEMMA RemainingIs ==
  ASSUME NEW S, NEW list \in Seq(S), NEW places
  PROVE  /\ Remaining(list, places) \in Seq(S)
         /\ Chosen(list, places, Len(list), Remaining(list, places))
<1>1. Len(list) \in Nat
  OBVIOUS
<1>2. PICK f : Rounds(f, list, places, Len(list)) /\ Remaining(list, places) = f[Len(list)]
  BY <1>1, RemainingRounds
<1> DEFINE Good(n) == f[n] \in Seq(S) /\ Chosen(list, places, n, f[n])
           T == {n \in Nat : n <= Len(list) /\ ~Good(n)}
<1>3. SUFFICES ASSUME T # {} PROVE FALSE
  BY <1>1, <1>2
<1>4. PICK m \in T : \A n \in T : m <= n
  <2>1. T \in SUBSET Nat
    OBVIOUS
  <2> HIDE DEF T
  <2> QED BY <2>1, <1>3, Least
<1>5. CASE m = 0
  <2>1. f[0] = <<>>
    BY <1>1, <1>2 DEF Rounds
  <2>2. <<>> \in Seq(S) /\ Len(<<>>) = 0
    OBVIOUS
  <2>3. Chosen(list, places, 0, <<>>)
    <3> DEFINE e == [j \in 1 .. 0 |-> 0]
    <3>1. e \in [1 .. Len(<<>>) -> {k \in 1 .. 0 : k \in places}]
      OBVIOUS
    <3>2. \A j \in 1 .. Len(<<>>) : FALSE
      OBVIOUS
    <3>3. \A k \in 1 .. 0 : FALSE
      OBVIOUS
    <3> HIDE DEF e
    <3> QED BY <3>1, <3>2, <3>3, Zenon DEF Chosen
  <2> QED BY <1>5, <2>1, <2>2, <2>3
<1>6. CASE m # 0
  <2>1. m \in 1 .. Len(list) /\ m \in Nat \ {0} /\ m - 1 \in Nat /\ m - 1 <= Len(list) /\ m - 1 \notin T
    BY <1>1, <1>4, <1>6
  <2>2. Good(m - 1)
    BY <2>1
  <2>3. f[m] = IF m \in places THEN Append(f[m - 1], list[m]) ELSE f[m - 1]
    <3>1. m \in 0 .. Len(list) /\ m > 0
      BY <1>1, <2>1
    <3>2. f[m] = IF m = 0 THEN <<>>
               ELSE IF m \in places THEN Append(f[m - 1], list[m]) ELSE f[m - 1]
      BY <3>1, <1>2 DEF Rounds
    <3> QED BY <3>1, <3>2
  <2>4. CASE m \in places
    <3>1. list[m] \in S
      BY <2>1
    <3>2. f[m] \in Seq(S)
      BY <2>2, <2>3, <2>4, <3>1
    <3> QED BY <2>1, <2>2, <2>3, <2>4, <3>2, ChosenNext
  <2>5. CASE m \notin places
    BY <2>1, <2>2, <2>3, <2>5, ChosenSame
  <2> QED BY <2>4, <2>5
<1> QED BY <1>5, <1>6

(* Remaining, without the places: what is there was there and is to stay,  *)
(* what is to stay is there, and nothing is there twice.                   *)
LEMMA RemainingHas ==
  ASSUME NEW S, NEW list \in Seq(S), NEW places
  PROVE  LET r == Remaining(list, places)
         IN  /\ r \in Seq(S)
             /\ \A j \in DOMAIN r : \E i \in DOMAIN list : i \in places /\ r[j] = list[i]
             /\ \A i \in DOMAIN list : i \in places => \E j \in DOMAIN r : r[j] = list[i]
             /\ \A h, j \in DOMAIN r : h # j =>
                   \E g, i \in DOMAIN list : g # i /\ r[h] = list[g] /\ r[j] = list[i]
<1> DEFINE r == Remaining(list, places)
<1>1. r \in Seq(S) /\ Chosen(list, places, Len(list), r)
  BY RemainingIs
<1> HIDE DEF r
<1>2. DOMAIN r = 1 .. Len(r) /\ DOMAIN list = 1 .. Len(list) /\ Len(r) \in Nat /\ Len(list) \in Nat
  BY <1>1
<1>3. PICK from \in [1 .. Len(r) -> {k \in 1 .. Len(list) : k \in places}] :
        /\ \A j \in 1 .. Len(r) : r[j] = list[from[j]]
        /\ \A i, j \in 1 .. Len(r) : i < j => from[i] < from[j]
        /\ \A k \in 1 .. Len(list) : k \in places => \E j \in 1 .. Len(r) : from[j] = k
  BY <1>1 DEF Chosen
<1>4. \A j \in DOMAIN r : \E i \in DOMAIN list : i \in places /\ r[j] = list[i]
  BY <1>2, <1>3
<1>5. \A i \in DOMAIN list : i \in places => \E j \in DOMAIN r : r[j] = list[i]
  BY <1>2, <1>3
<1>6. ASSUME NEW h \in DOMAIN r, NEW j \in DOMAIN r, h # j
      PROVE  \E g, i \in DOMAIN list : g # i /\ r[h] = list[g] /\ r[j] = list[i]
  <2>1. from[h] \in DOMAIN list /\ from[j] \in DOMAIN list /\ from[h] \in Nat /\ from[j] \in Nat
    BY <1>2, <1>3
  <2>2. h < j \/ j < h
    BY <1>2, <1>6
  <2>3. from[h] # from[j]
    BY <1>2, <1>3, <2>1, <2>2
  <2> QED BY <1>2, <1>3, <2>1, <2>3
<1>7. QED
  BY <1>1, <1>4, <1>5, <1>6 DEF r

----------------------------------------------------------------------------
(* A list of clients.                                                      *)

ClientRecs == [addr : Addrs, types : (SUBSET Served) \ {{}}, left : -1 .. Duration]

OneEach(clients) == \A i, j \in DOMAIN clients : clients[i].addr = clients[j].addr => i = j

IsList(clients) == clients \in Seq(ClientRecs) /\ OneEach(clients)

(* The address has the type there, for l more ticks.                       *)
Holds(clients, a, t, l) ==
    \E j \in DOMAIN clients : Has(clients[j], a, t) /\ clients[j].left = l

(* A type taken from a record leaves its address and its time.             *)
LEMMA LessIs ==
  ASSUME NEW c \in ClientRecs, NEW a, NEW type
  PROVE  LET d == Less(c, a, type)
         IN  /\ d \in [addr : Addrs, types : SUBSET Served, left : -1 .. Duration]
             /\ d.addr = c.addr /\ d.left = c.left
             /\ \A b, t : Has(d, b, t) <=> Has(c, b, t) /\ ~(b = a /\ t = type)
             /\ d.types = {} <=> \A b, t : ~Has(d, b, t)
<1>1. /\ c = [addr |-> c.addr, types |-> c.types, left |-> c.left]
      /\ c.addr \in Addrs /\ c.types \in SUBSET Served /\ c.left \in -1 .. Duration
  BY DEF ClientRecs
<1>2. CASE c.addr = a
  <2> DEFINE d == [c EXCEPT !.types = @ \ {type}]
  <2>1. d = [addr |-> c.addr, types |-> c.types \ {type}, left |-> c.left]
    BY <1>1
  <2>2. Less(c, a, type) = d
    BY <1>2 DEF Less
  <2> HIDE DEF d
  <2> QED BY <1>1, <1>2, <2>1, <2>2 DEF Has
<1>3. CASE c.addr # a
  <2>1. Less(c, a, type) = c
    BY <1>3 DEF Less
  <2> QED BY <1>1, <1>3, <2>1 DEF Has
<1> QED BY <1>2, <1>3

(* Withdrawn takes the type from the address, and nothing else.            *)
LEMMA WithdrawnIs ==
  ASSUME NEW clients, IsList(clients), NEW a, NEW type
  PROVE  LET w == Withdrawn(clients, a, type)
         IN  /\ IsList(w)
             /\ \A b, t, l : Holds(w, b, t, l) <=> Holds(clients, b, t, l) /\ ~(b = a /\ t = type)
<1> DEFINE Raw == [addr : Addrs, types : SUBSET Served, left : -1 .. Duration]
           less == [j \in DOMAIN clients |-> Less(clients[j], a, type)]
           places == {j \in DOMAIN less : less[j].types # {}}
           w == Remaining(less, places)
<1>1. /\ clients \in Seq(ClientRecs) /\ DOMAIN clients = 1 .. Len(clients) /\ Len(clients) \in Nat
      /\ \A j \in DOMAIN clients : clients[j] \in ClientRecs
      /\ OneEach(clients)
  BY DEF IsList
<1>2. DOMAIN less = DOMAIN clients
  OBVIOUS
<1>3. ASSUME NEW j \in DOMAIN clients
      PROVE  /\ less[j] \in Raw
             /\ less[j].addr = clients[j].addr /\ less[j].left = clients[j].left
             /\ \A b, t : Has(less[j], b, t) <=> Has(clients[j], b, t) /\ ~(b = a /\ t = type)
             /\ less[j].types = {} <=> \A b, t : ~Has(less[j], b, t)
  <2>1. less[j] = Less(clients[j], a, type) /\ clients[j] \in ClientRecs
    BY <1>1
  <2> HIDE DEF less
  <2> QED BY <2>1, LessIs
<1>4. less \in Seq(Raw)
  <2>1. less \in [1 .. Len(clients) -> Raw]
    BY <1>1, <1>3
  <2> HIDE DEF less, Raw
  <2> QED BY <1>1, <2>1
<1>5. \A j \in DOMAIN less : j \in places <=> less[j].types # {}
  OBVIOUS
<1>6. w = Withdrawn(clients, a, type)
  BY DEF Withdrawn
<1> HIDE DEF less, places
<1>7. /\ w \in Seq(Raw)
      /\ \A j \in DOMAIN w : \E i \in DOMAIN less : i \in places /\ w[j] = less[i]
      /\ \A i \in DOMAIN less : i \in places => \E j \in DOMAIN w : w[j] = less[i]
      /\ \A h, j \in DOMAIN w : h # j =>
            \E g, i \in DOMAIN less : g # i /\ w[h] = less[g] /\ w[j] = less[i]
  BY <1>4, RemainingHas
<1> HIDE DEF w
<1>8. w \in Seq(ClientRecs)
  <2>1. DOMAIN w = 1 .. Len(w) /\ Len(w) \in Nat
    BY <1>7
  <2>2. ASSUME NEW j \in DOMAIN w PROVE w[j] \in ClientRecs
    <3>1. PICK i \in DOMAIN less : i \in places /\ w[j] = less[i]
      BY <1>7
    <3>2. less[i] \in Raw /\ less[i].types # {}
      BY <1>2, <1>3, <1>5, <3>1
    <3> QED BY <3>1, <3>2 DEF ClientRecs
  <2>3. w = [j \in 1 .. Len(w) |-> w[j]]
    BY <1>7
  <2>4. w \in [1 .. Len(w) -> ClientRecs]
    BY <2>1, <2>2, <2>3
  <2> QED BY <2>1, <2>4
<1>9. OneEach(w)
  <2>1. SUFFICES ASSUME NEW h \in DOMAIN w, NEW j \in DOMAIN w, w[h].addr = w[j].addr, h # j
                 PROVE  FALSE
    BY DEF OneEach
  <2>2. PICK g, i \in DOMAIN less : g # i /\ w[h] = less[g] /\ w[j] = less[i]
    BY <1>7, <2>1
  <2> QED BY <1>1, <1>2, <1>3, <2>1, <2>2 DEF OneEach
<1>10. ASSUME NEW b, NEW t, NEW l
       PROVE  Holds(w, b, t, l) <=> Holds(clients, b, t, l) /\ ~(b = a /\ t = type)
  <2>1. ASSUME NEW j \in DOMAIN w, Has(w[j], b, t), w[j].left = l
        PROVE  Holds(clients, b, t, l) /\ ~(b = a /\ t = type)
    <3>1. PICK i \in DOMAIN less : w[j] = less[i]
      BY <1>7
    <3> QED BY <1>2, <1>3, <2>1, <3>1 DEF Holds
  <2>2. ASSUME NEW i \in DOMAIN clients, Has(clients[i], b, t), clients[i].left = l, ~(b = a /\ t = type)
        PROVE  Holds(w, b, t, l)
    <3>1. Has(less[i], b, t) /\ less[i].left = l /\ less[i].types # {}
      BY <1>3, <2>2
    <3>2. PICK j \in DOMAIN w : w[j] = less[i]
      BY <1>2, <1>5, <1>7, <3>1
    <3> QED BY <3>1, <3>2 DEF Holds
  <2> QED BY <2>1, <2>2 DEF Holds
<1> QED BY <1>6, <1>8, <1>9, <1>10 DEF IsList

(* The timer drops expired clients only.                                   *)
LEMMA KeptIs ==
  ASSUME NEW clients, IsList(clients), NEW master
  PROVE  LET w == Kept(clients, master)
         IN  /\ IsList(w)
             /\ \A b, t, l : Holds(w, b, t, l) => Holds(clients, b, t, l)
             /\ \A b, t, l : Holds(clients, b, t, l) /\ l >= 0 => Holds(w, b, t, l)
<1> DEFINE places == {j \in DOMAIN clients : clients[j].left >= 0}
           w == Remaining(clients, places)
<1>1. clients \in Seq(ClientRecs) /\ OneEach(clients)
  BY DEF IsList
<1>2. \A j \in DOMAIN clients : j \in places <=> clients[j].left >= 0
  OBVIOUS
<1> HIDE DEF places
<1>3. /\ w \in Seq(ClientRecs)
      /\ \A j \in DOMAIN w : \E i \in DOMAIN clients : i \in places /\ w[j] = clients[i]
      /\ \A i \in DOMAIN clients : i \in places => \E j \in DOMAIN w : w[j] = clients[i]
      /\ \A h, j \in DOMAIN w : h # j =>
            \E g, i \in DOMAIN clients : g # i /\ w[h] = clients[g] /\ w[j] = clients[i]
  BY <1>1, RemainingHas
<1> HIDE DEF w
<1>4. OneEach(w)
  <2>1. SUFFICES ASSUME NEW h \in DOMAIN w, NEW j \in DOMAIN w, w[h].addr = w[j].addr, h # j
                 PROVE  FALSE
    BY DEF OneEach
  <2>2. PICK g, i \in DOMAIN clients : g # i /\ w[h] = clients[g] /\ w[j] = clients[i]
    BY <1>3, <2>1
  <2> QED BY <1>1, <2>1, <2>2 DEF OneEach
<1>5. \A b, t, l : Holds(w, b, t, l) => Holds(clients, b, t, l)
  BY <1>3 DEF Holds
<1>6. \A b, t, l : Holds(clients, b, t, l) /\ l >= 0 => Holds(w, b, t, l)
  BY <1>2, <1>3 DEF Holds
<1>7. Kept(clients, master) = IF master THEN w ELSE clients
  BY DEF Kept, places, w
<1> QED BY <1>3, <1>4, <1>5, <1>6, <1>7 DEF IsList

----------------------------------------------------------------------------
(* A service.                                                              *)

Intervals == [period : Periods, clients : Seq(ClientRecs), due : Int]

Services == [intervals : Seq(Intervals), armed : BOOLEAN]

Offers(v, a, t) == \E j \in DOMAIN v.clients : Has(v.clients[j], a, t)

(* One interval per period, one record per address and interval, one       *)
(* interval per address and type.                                          *)
Sound(s) ==
    /\ s \in Services
    /\ \A k \in DOMAIN s.intervals : OneEach(s.intervals[k].clients)
    /\ \A k, h \in DOMAIN s.intervals :
          s.intervals[k].period = s.intervals[h].period => k = h
    /\ \A a, t : \A k, h \in DOMAIN s.intervals :
          Offers(s.intervals[k], a, t) /\ Offers(s.intervals[h], a, t) => k = h

(* The address has the type with this period for l more ticks.             *)
Promises(s, a, t, p, l) ==
    \E k \in DOMAIN s.intervals :
        s.intervals[k].period = p /\ Holds(s.intervals[k].clients, a, t, l)

(* What a service consists of.                                             *)
LEMMA Parts ==
  ASSUME NEW s \in Services
  PROVE  /\ s = [intervals |-> s.intervals, armed |-> s.armed]
         /\ s.intervals \in Seq(Intervals) /\ s.armed \in BOOLEAN
         /\ DOMAIN s.intervals = 1 .. Len(s.intervals) /\ Len(s.intervals) \in Nat
         /\ \A k \in DOMAIN s.intervals :
               LET v == s.intervals[k]
               IN  /\ k \in Nat \ {0}
                   /\ v = [period |-> v.period, clients |-> v.clients, due |-> v.due]
                   /\ v.period \in Nat \ {0} /\ v.period \in Periods /\ v.due \in Int
                   /\ v.clients \in Seq(ClientRecs)
                   /\ DOMAIN v.clients = 1 .. Len(v.clients) /\ Len(v.clients) \in Nat
                   /\ \A j \in DOMAIN v.clients :
                         LET c == v.clients[j]
                         IN  /\ c = [addr |-> c.addr, types |-> c.types, left |-> c.left]
                             /\ c.addr \in Addrs /\ c.types \in (SUBSET Served) \ {{}}
                             /\ c.left \in -1 .. Duration /\ c.left \in Int
<1>1. /\ s = [intervals |-> s.intervals, armed |-> s.armed]
      /\ s.intervals \in Seq(Intervals) /\ s.armed \in BOOLEAN
  BY DEF Services
<1>2. DOMAIN s.intervals = 1 .. Len(s.intervals) /\ Len(s.intervals) \in Nat
  BY <1>1
<1>3. ASSUME NEW k \in DOMAIN s.intervals
      PROVE  LET v == s.intervals[k]
             IN  /\ k \in Nat \ {0}
                 /\ v = [period |-> v.period, clients |-> v.clients, due |-> v.due]
                 /\ v.period \in Nat \ {0} /\ v.period \in Periods /\ v.due \in Int
                 /\ v.clients \in Seq(ClientRecs)
  <2>1. s.intervals[k] \in Intervals
    BY <1>1, <1>2
  <2>2. k \in Nat \ {0}
    BY <1>2
  <2> DEFINE v == s.intervals[k]
  <2>3. v \in Intervals
    BY <2>1
  <2> HIDE DEF v
  <2>4. /\ v = [period |-> v.period, clients |-> v.clients, due |-> v.due]
        /\ v.period \in Periods /\ v.due \in Int /\ v.clients \in Seq(ClientRecs)
    BY <2>3 DEF Intervals
  <2>5. v.period \in Nat \ {0}
    BY <2>4, ServiceConfig
  <2> QED BY <2>2, <2>4, <2>5 DEF v
<1>4. ASSUME NEW k \in DOMAIN s.intervals
      PROVE  LET v == s.intervals[k]
             IN  /\ DOMAIN v.clients = 1 .. Len(v.clients) /\ Len(v.clients) \in Nat
                 /\ \A j \in DOMAIN v.clients :
                       LET c == v.clients[j]
                       IN  /\ c = [addr |-> c.addr, types |-> c.types, left |-> c.left]
                           /\ c.addr \in Addrs /\ c.types \in (SUBSET Served) \ {{}}
                           /\ c.left \in -1 .. Duration /\ c.left \in Int
  <2> DEFINE l == s.intervals[k].clients
  <2>1. l \in Seq(ClientRecs)
    BY <1>3
  <2> HIDE DEF l
  <2>2. DOMAIN l = 1 .. Len(l) /\ Len(l) \in Nat
    BY <2>1
  <2>3. ASSUME NEW j \in DOMAIN l
        PROVE  LET c == l[j]
               IN  /\ c = [addr |-> c.addr, types |-> c.types, left |-> c.left]
                   /\ c.addr \in Addrs /\ c.types \in (SUBSET Served) \ {{}}
                   /\ c.left \in -1 .. Duration /\ c.left \in Int
    <3>1. l[j] \in ClientRecs
      BY <2>1, <2>2
    <3>2. l[j].left \in -1 .. Duration
      BY <3>1 DEF ClientRecs
    <3>3. Duration \in Nat
      BY UnicastConfig
    <3>4. l[j].left \in Int
      BY <3>2, <3>3
    <3> QED BY <3>1, <3>4 DEF ClientRecs
  <2>4. QED
    BY <2>2, <2>3 DEF l
<1> QED BY <1>1, <1>2, <1>3, <1>4

(* An interval offers what its clients have.                               *)
LEMMA OffersIs ==
  ASSUME NEW v, NEW a, NEW t
  PROVE  Offers(v, a, t) <=> \E l : Holds(v.clients, a, t, l)
BY DEF Offers, Holds

(* A record has a type once: two of its times are the same.                *)
LEMMA HoldsOnce ==
  ASSUME NEW clients, OneEach(clients), NEW a, NEW t, NEW l, NEW m,
         Holds(clients, a, t, l), Holds(clients, a, t, m)
  PROVE  l = m
<1>1. PICK i \in DOMAIN clients : Has(clients[i], a, t) /\ clients[i].left = l
  BY DEF Holds
<1>2. PICK j \in DOMAIN clients : Has(clients[j], a, t) /\ clients[j].left = m
  BY DEF Holds
<1>3. i = j
  BY <1>1, <1>2 DEF OneEach, Has
<1> QED BY <1>1, <1>2, <1>3

(* The contract of a sound service is what it promises.                    *)
LEMMA ContractIs ==
  ASSUME NEW s, Sound(s), NEW a, NEW t, NEW p, NEW l, Promises(s, a, t, p, l)
  PROVE  Contract(s, a, t) = [period |-> p, left |-> l]
<1>1. PICK k \in DOMAIN s.intervals :
         s.intervals[k].period = p /\ Holds(s.intervals[k].clients, a, t, l)
  BY DEF Promises
<1>2. PICK j \in DOMAIN s.intervals[k].clients :
         Has(s.intervals[k].clients[j], a, t) /\ s.intervals[k].clients[j].left = l
  BY <1>1 DEF Holds
<1> DEFINE at == {h \in DOMAIN s.intervals : Unchanged(s, h, a, t)}
           here == {i \in DOMAIN s.intervals[k].clients : Has(s.intervals[k].clients[i], a, t)}
<1>3. \A h \in DOMAIN s.intervals : Unchanged(s, h, a, t) <=> Offers(s.intervals[h], a, t)
  BY Parts DEF Unchanged, Offers, Has, Sound
<1>4. at = {k}
  <2>1. Offers(s.intervals[k], a, t)
    BY <1>2 DEF Offers
  <2>2. \A h \in DOMAIN s.intervals : Offers(s.intervals[h], a, t) => h = k
    BY <2>1 DEF Sound
  <2> QED BY <1>3, <2>1, <2>2
<1>5. (CHOOSE h \in at : TRUE) = k
  BY <1>4
<1>6. (CHOOSE i \in DOMAIN s.intervals[k].clients : Has(s.intervals[k].clients[i], a, t)) = j
  <2>1. OneEach(s.intervals[k].clients)
    BY DEF Sound
  <2>2. \A i \in DOMAIN s.intervals[k].clients : Has(s.intervals[k].clients[i], a, t) => i = j
    BY <1>2, <2>1 DEF OneEach, Has
  <2> QED BY <1>2, <2>2
<1>7. at # {}
  BY <1>4
<1>8. Contract(s, a, t) =
        LET v == s.intervals[k]
            c == v.clients[CHOOSE i \in DOMAIN v.clients : Has(v.clients[i], a, t)]
        IN  [period |-> v.period, left |-> c.left]
  <2>1. Contract(s, a, t) =
          IF at = {} THEN NoContract
          ELSE LET v == s.intervals[CHOOSE h \in at : TRUE]
                   c == v.clients[CHOOSE i \in DOMAIN v.clients : Has(v.clients[i], a, t)]
               IN  [period |-> v.period, left |-> c.left]
    BY DEF Contract
  <2> HIDE DEF at
  <2> QED BY <2>1, <1>5, <1>7
<1> QED BY <1>1, <1>2, <1>6, <1>8

(* And nothing where it promises nothing.                                  *)
LEMMA NoContractIs ==
  ASSUME NEW s, Sound(s), NEW a, NEW t, \A p, l : ~Promises(s, a, t, p, l)
  PROVE  Contract(s, a, t) = NoContract
<1> DEFINE at == {h \in DOMAIN s.intervals : Unchanged(s, h, a, t)}
<1>1. ASSUME NEW h \in DOMAIN s.intervals PROVE ~Unchanged(s, h, a, t)
  <2>1. SUFFICES ASSUME Unchanged(s, h, a, t) PROVE FALSE
    OBVIOUS
  <2>2. PICK j \in DOMAIN s.intervals[h].clients : Has(s.intervals[h].clients[j], a, t)
    BY <2>1 DEF Unchanged, Has
  <2>3. Promises(s, a, t, s.intervals[h].period, s.intervals[h].clients[j].left)
    BY <2>2 DEF Promises, Holds
  <2> QED BY <2>3
<1>2. at = {}
  BY <1>1
<1> QED BY <1>2 DEF Contract

(* One or the other.                                                       *)
LEMMA ContractCases ==
  ASSUME NEW s, Sound(s), NEW a, NEW t
  PROVE  LET c == Contract(s, a, t)
         IN  \/ c = NoContract /\ \A p, l : ~Promises(s, a, t, p, l)
             \/ /\ Promises(s, a, t, c.period, c.left)
                /\ c = [period |-> c.period, left |-> c.left]
                /\ c.period \in Periods /\ c.period \in Nat \ {0} /\ c.left \in -1 .. Duration
                /\ c # NoContract
<1>1. CASE \A p, l : ~Promises(s, a, t, p, l)
  BY <1>1, NoContractIs
<1>2. CASE \E p, l : Promises(s, a, t, p, l)
  <2>1. PICK p, l : Promises(s, a, t, p, l)
    BY <1>2
  <2>2. Contract(s, a, t) = [period |-> p, left |-> l]
    BY <2>1, ContractIs
  <2>3. PICK k \in DOMAIN s.intervals :
           s.intervals[k].period = p /\ Holds(s.intervals[k].clients, a, t, l)
    BY <2>1 DEF Promises
  <2>4. PICK j \in DOMAIN s.intervals[k].clients : s.intervals[k].clients[j].left = l
    BY <2>3 DEF Holds
  <2>5. p \in Periods /\ p \in Nat \ {0} /\ l \in -1 .. Duration
    BY <2>3, <2>4, Parts DEF Sound
  <2>6. Contract(s, a, t) # NoContract
    BY <2>2, <2>5 DEF NoContract
  <2> QED BY <2>1, <2>2, <2>5, <2>6
<1> QED BY <1>1, <1>2

(* Where two services promise the same, the contract is the same.          *)
LEMMA SameContract ==
  ASSUME NEW s, Sound(s), NEW r, Sound(r), NEW a, NEW t,
         \A p, l : Promises(s, a, t, p, l) <=> Promises(r, a, t, p, l)
  PROVE  Contract(r, a, t) = Contract(s, a, t)
<1>1. CASE \A p, l : ~Promises(s, a, t, p, l)
  <2>1. \A p, l : ~Promises(r, a, t, p, l)
    BY <1>1
  <2> QED BY <1>1, <2>1, NoContractIs
<1>2. CASE \E p, l : Promises(s, a, t, p, l)
  <2>1. PICK p, l : Promises(s, a, t, p, l)
    BY <1>2
  <2>2. Promises(r, a, t, p, l)
    BY <2>1
  <2> QED BY <2>1, <2>2, ContractIs
<1> QED BY <1>1, <1>2

----------------------------------------------------------------------------
(* Requests and cancels.                                                   *)

(* A service with another list of intervals.                               *)
LEMMA WithIntervals ==
  ASSUME NEW s \in Services, NEW l \in Seq(Intervals)
  PROVE  LET r == [s EXCEPT !.intervals = l]
         IN  r \in Services /\ r.intervals = l /\ r.armed = s.armed
BY Parts DEF Services

(* An interval with another list of clients.                               *)
LEMMA WithClients ==
  ASSUME NEW v \in Intervals, NEW l \in Seq(ClientRecs)
  PROVE  LET w == [v EXCEPT !.clients = l]
         IN  w \in Intervals /\ w.clients = l /\ w.period = v.period /\ w.due = v.due
BY DEF Intervals

(* A service remains sound when clients are left out of its intervals.     *)
LEMMA SoundWithLess ==
  ASSUME NEW s, Sound(s), NEW r \in Services, DOMAIN r.intervals = DOMAIN s.intervals,
         \A k \in DOMAIN s.intervals :
            /\ r.intervals[k].period = s.intervals[k].period
            /\ OneEach(r.intervals[k].clients)
            /\ \A a, t, l : Holds(r.intervals[k].clients, a, t, l)
                                => Holds(s.intervals[k].clients, a, t, l)
  PROVE  Sound(r)
<1>1. \A k \in DOMAIN s.intervals : \A a, t :
         Offers(r.intervals[k], a, t) => Offers(s.intervals[k], a, t)
  BY OffersIs
<1>2. \A k, h \in DOMAIN r.intervals :
         r.intervals[k].period = r.intervals[h].period => k = h
  BY DEF Sound
<1>3. \A a, t : \A k, h \in DOMAIN r.intervals :
         Offers(r.intervals[k], a, t) /\ Offers(r.intervals[h], a, t) => k = h
  BY <1>1 DEF Sound
<1> QED BY <1>2, <1>3 DEF Sound

(* The type is taken from the address in all intervals but i.              *)
StaleGone(s, t, i, a, type) ==
    /\ Sound(t)
    /\ DOMAIN t.intervals = DOMAIN s.intervals
    /\ i # 0 => t.intervals[i] = s.intervals[i]
    /\ \A k \in DOMAIN s.intervals :
          /\ t.intervals[k].period = s.intervals[k].period
          /\ \A b, u, l : Holds(t.intervals[k].clients, b, u, l) <=>
                Holds(s.intervals[k].clients, b, u, l) /\ (k = i \/ ~(b = a /\ u = type))

(* WithoutStale does this.                                                 *)
LEMMA StaleIs ==
  ASSUME NEW s, Sound(s), NEW i, i = 0 \/ i \in DOMAIN s.intervals, NEW a, NEW type
  PROVE  StaleGone(s, WithoutStale(s, i, a, type), i, a, type)
<1> DEFINE old == s.intervals
           new == [k \in DOMAIN old |->
                     IF k = i \/ (Unchanged(s, i, a, type) /\ k > i) THEN old[k]
                     ELSE [old[k] EXCEPT !.clients = Withdrawn(old[k].clients, a, type)]]
           t == WithoutStale(s, i, a, type)
<1>1. /\ s \in Services /\ old \in Seq(Intervals)
      /\ DOMAIN old = 1 .. Len(old) /\ Len(old) \in Nat
      /\ \A k \in DOMAIN old : old[k] \in Intervals /\ IsList(old[k].clients) /\ k \in Nat \ {0}
  <2>1. s \in Services
    BY DEF Sound
  <2>2. old \in Seq(Intervals) /\ DOMAIN old = 1 .. Len(old) /\ Len(old) \in Nat
    BY <2>1, Parts
  <2>3. \A k \in DOMAIN old : old[k] \in Intervals /\ old[k].clients \in Seq(ClientRecs) /\ k \in Nat \ {0}
    <3> TAKE k \in DOMAIN old
    <3>1. old[k] \in Intervals /\ k \in Nat \ {0}
      BY <2>2
    <3> QED BY <3>1 DEF Intervals
  <2> QED BY <2>1, <2>2, <2>3 DEF Sound, IsList
<1>2. t = [s EXCEPT !.intervals = new]
  BY DEF WithoutStale
<1>3. ASSUME NEW k \in DOMAIN old
      PROVE  /\ new[k] \in Intervals
             /\ new[k].period = old[k].period
             /\ OneEach(new[k].clients)
             /\ \A b, u, l : Holds(new[k].clients, b, u, l) <=>
                      Holds(old[k].clients, b, u, l) /\ (k = i \/ ~(b = a /\ u = type))
             /\ k = i => new[k] = old[k]
  <2>1. CASE k = i
    BY <2>1, <1>1 DEF IsList
  <2>2. CASE k # i /\ Unchanged(s, i, a, type) /\ k > i
    <3>1. new[k] = old[k]
      BY <2>2
    <3>2. i \in DOMAIN s.intervals /\ Offers(s.intervals[i], a, type)
      BY <2>2 DEF Unchanged, Offers, Has
    <3>3. ~Offers(s.intervals[k], a, type)
      BY <2>2, <3>2 DEF Sound
    <3>4. \A l : ~Holds(old[k].clients, a, type, l)
      BY <3>3, OffersIs
    <3> HIDE DEF new
    <3> QED BY <2>2, <3>1, <3>4, <1>1 DEF IsList
  <2>3. CASE k # i /\ ~(Unchanged(s, i, a, type) /\ k > i)
    <3> DEFINE w == Withdrawn(old[k].clients, a, type)
    <3>1. new[k] = [old[k] EXCEPT !.clients = w]
      BY <2>3
    <3>2. /\ IsList(w)
          /\ \A b, u, l : Holds(w, b, u, l) <=>
                   Holds(old[k].clients, b, u, l) /\ ~(b = a /\ u = type)
      BY <1>1, WithdrawnIs
    <3>3. w \in Seq(ClientRecs) /\ OneEach(w)
      BY <3>2 DEF IsList
    <3>4. new[k] \in Intervals /\ new[k].clients = w /\ new[k].period = old[k].period
      <4>1. old[k] \in Intervals
        BY <1>1
      <4> HIDE DEF new, w, old
      <4> QED BY <4>1, <3>1, <3>3, WithClients
    <3> HIDE DEF new, w
    <3> QED BY <2>3, <3>2, <3>3, <3>4
  <2> QED BY <2>1, <2>2, <2>3
<1>4. new \in Seq(Intervals) /\ DOMAIN new = DOMAIN old
  <2>1. new \in [1 .. Len(old) -> Intervals]
    BY <1>1, <1>3
  <2> QED BY <1>1, <2>1
<1> HIDE DEF new
<1>5. t \in Services /\ t.intervals = new
  BY <1>1, <1>2, <1>4, WithIntervals
<1> HIDE DEF t
<1>6. Sound(t)
  BY <1>3, <1>4, <1>5, SoundWithLess
<1>7. i # 0 => t.intervals[i] = s.intervals[i]
  BY <1>3, <1>5
<1>8. StaleGone(s, t, i, a, type)
  BY <1>3, <1>4, <1>5, <1>6, <1>7 DEF StaleGone
<1> QED BY <1>8 DEF t

(* One interval of a service is replaced by another with the same period,  *)
(* which offers nothing that others offer.                                 *)
LEMMA ReplaceInterval ==
  ASSUME NEW s, Sound(s), NEW i \in DOMAIN s.intervals, NEW v \in Intervals,
         v.period = s.intervals[i].period, OneEach(v.clients),
         \A a, t : Offers(v, a, t) =>
            Offers(s.intervals[i], a, t)
            \/ \A k \in DOMAIN s.intervals : k # i => ~Offers(s.intervals[k], a, t)
  PROVE  LET r == [s EXCEPT !.intervals = [@ EXCEPT ![i] = v]]
         IN  /\ Sound(r)
             /\ \A a, t, p, l : Promises(r, a, t, p, l) <=>
                   \/ p = v.period /\ Holds(v.clients, a, t, l)
                   \/ p # v.period /\ Promises(s, a, t, p, l)
<1> DEFINE new == [s.intervals EXCEPT ![i] = v]
           r == [s EXCEPT !.intervals = new]
<1>1. /\ s \in Services /\ s.intervals \in Seq(Intervals)
      /\ DOMAIN s.intervals = 1 .. Len(s.intervals) /\ Len(s.intervals) \in Nat
  BY Parts DEF Sound
<1>2. /\ new \in Seq(Intervals) /\ DOMAIN new = DOMAIN s.intervals /\ new[i] = v
      /\ \A k \in DOMAIN s.intervals : k # i => new[k] = s.intervals[k]
  BY <1>1
<1> HIDE DEF new
<1>3. r \in Services /\ r.intervals = new
  BY <1>1, <1>2, WithIntervals
<1> HIDE DEF r
<1>4. \A k \in DOMAIN new : OneEach(new[k].clients)
  BY <1>2 DEF Sound
<1>5. \A k, h \in DOMAIN new : new[k].period = new[h].period => k = h
  BY <1>2 DEF Sound
<1>6. ASSUME NEW a, NEW t, NEW k \in DOMAIN new, NEW h \in DOMAIN new,
             Offers(new[k], a, t), Offers(new[h], a, t)
      PROVE  k = h
  <2>1. \A g \in DOMAIN s.intervals : Offers(s.intervals[i], a, t) /\ Offers(s.intervals[g], a, t) => g = i
    BY DEF Sound
  <2>2. Offers(v, a, t) => \A g \in DOMAIN s.intervals : g # i => ~Offers(s.intervals[g], a, t)
    BY <2>1
  <2>3. CASE k = i \/ h = i
    BY <2>2, <2>3, <1>2, <1>6
  <2>4. CASE k # i /\ h # i
    BY <2>4, <1>2, <1>6 DEF Sound
  <2> QED BY <2>3, <2>4
<1>7. Sound(r)
  BY <1>3, <1>4, <1>5, <1>6 DEF Sound
<1>8. ASSUME NEW a, NEW t, NEW p, NEW l
      PROVE  Promises(r, a, t, p, l) <=>
                   \/ p = v.period /\ Holds(v.clients, a, t, l)
                   \/ p # v.period /\ Promises(s, a, t, p, l)
  <2>1. \A k \in DOMAIN s.intervals : s.intervals[k].period = v.period => k = i
    BY DEF Sound
  <2> QED BY <2>1, <1>2, <1>3 DEF Promises
<1>9. r = [s EXCEPT !.intervals = [@ EXCEPT ![i] = v]]
  BY DEF r, new
<1> HIDE DEF r
<1> QED BY <1>7, <1>8, <1>9

(* A record that takes a type on for some time.                            *)
TakesOn(c, type, duration) ==
    unicast_service_extend([c EXCEPT !.types = @ \cup {type}], duration)

(* The record of an address takes a type on, and its time is extended.     *)
LEMMA ExtendedIs ==
  ASSUME NEW clients, IsList(clients), NEW j \in DOMAIN clients, NEW type \in Served,
         NEW duration \in 0 .. Duration
  PROVE  LET n == TakesOn(clients[j], type, duration)
             w == [clients EXCEPT ![j] = n]
         IN  /\ IsList(w)
             /\ n.left \in Int /\ n.left >= clients[j].left /\ n.left >= duration
             /\ Has(n, clients[j].addr, type)
             /\ \A b, u, l : Holds(w, b, u, l) <=>
                   \/ Has(n, b, u) /\ l = n.left
                   \/ Holds(clients, b, u, l) /\ b # clients[j].addr
             /\ \A b, u : Has(n, b, u) <=>
                   b = clients[j].addr /\ (u = type \/ Has(clients[j], b, u))
<1> DEFINE c == clients[j]
           n == TakesOn(c, type, duration)
           w == [clients EXCEPT ![j] = n]
           left == IF duration > c.left THEN duration ELSE c.left
<1>1. /\ clients \in Seq(ClientRecs) /\ DOMAIN clients = 1 .. Len(clients) /\ Len(clients) \in Nat
      /\ OneEach(clients) /\ c \in ClientRecs
  BY DEF IsList
<1>2. /\ c = [addr |-> c.addr, types |-> c.types, left |-> c.left]
      /\ c.addr \in Addrs /\ c.types \in SUBSET Served /\ c.left \in -1 .. Duration
  BY <1>1 DEF ClientRecs
<1>3. Duration \in Nat /\ duration \in Int /\ c.left \in Int
  BY <1>2, UnicastConfig
<1>4. n = [addr |-> c.addr, types |-> c.types \cup {type}, left |-> left]
  <2> DEFINE d == [c EXCEPT !.types = @ \cup {type}]
  <2>1. d = [addr |-> c.addr, types |-> c.types \cup {type}, left |-> c.left]
    BY <1>2
  <2>2. n = [d EXCEPT !.left = IF duration > d.left THEN duration ELSE d.left]
    BY DEF TakesOn, unicast_service_extend
  <2> HIDE DEF d, c, n
  <2> QED BY <2>1, <2>2
<1> HIDE DEF n
<1>5. left \in -1 .. Duration /\ left >= c.left /\ left >= duration /\ left \in Int
  BY <1>2, <1>3
<1> HIDE DEF left
<1>6. n \in ClientRecs
  BY <1>2, <1>4, <1>5 DEF ClientRecs
<1>7. \A b, u : Has(n, b, u) <=> b = c.addr /\ (u = type \/ Has(c, b, u))
  BY <1>4 DEF Has
<1>8. /\ w \in Seq(ClientRecs) /\ DOMAIN w = DOMAIN clients /\ w[j] = n
      /\ \A i \in DOMAIN clients : i # j => w[i] = clients[i]
  BY <1>1, <1>6
<1> HIDE DEF w
<1>9. OneEach(w)
  <2>1. n.addr = c.addr
    BY <1>4
  <2>2. \A i \in DOMAIN clients : w[i].addr = clients[i].addr
    BY <1>8, <2>1
  <2> QED BY <1>1, <1>8, <2>2 DEF OneEach
<1>10. ASSUME NEW b, NEW u, NEW l
       PROVE  Holds(w, b, u, l) <=>
                   \/ Has(n, b, u) /\ l = n.left
                   \/ Holds(clients, b, u, l) /\ b # c.addr
  <2>1. \A i \in DOMAIN clients : Has(clients[i], c.addr, u) => i = j
    BY <1>1 DEF OneEach, Has
  <2>2. ASSUME NEW i \in DOMAIN w, Has(w[i], b, u), w[i].left = l
        PROVE  \/ Has(n, b, u) /\ l = n.left
               \/ Holds(clients, b, u, l) /\ b # c.addr
    BY <1>8, <2>1, <2>2 DEF Holds
  <2>3. ASSUME Has(n, b, u), l = n.left PROVE Holds(w, b, u, l)
    BY <1>8, <2>3 DEF Holds
  <2>4. ASSUME NEW i \in DOMAIN clients, Has(clients[i], b, u), clients[i].left = l, b # c.addr
        PROVE  Holds(w, b, u, l)
    <3>1. i # j
      BY <2>4 DEF Has
    <3> QED BY <1>8, <2>4, <3>1 DEF Holds
  <2> QED BY <2>2, <2>3, <2>4 DEF Holds
<1>11. n.left = left
  BY <1>4
<1>12. IsList(w)
  BY <1>8, <1>9 DEF IsList
<1>13. n.left \in Int /\ n.left >= c.left /\ n.left >= duration
  BY <1>5, <1>11
<1>14. Has(n, c.addr, type)
  BY <1>7
<1>15. QED
  BY <1>7, <1>10, <1>12, <1>13, <1>14 DEF w, n

(* A new record at the head of a list without the address.                 *)
LEMMA PrependedIs ==
  ASSUME NEW clients, IsList(clients), NEW n \in ClientRecs,
         \A j \in DOMAIN clients : clients[j].addr # n.addr
  PROVE  LET w == <<n>> \o clients
         IN  /\ IsList(w)
             /\ \A b, u, l : Holds(w, b, u, l) <=>
                   (Has(n, b, u) /\ l = n.left) \/ Holds(clients, b, u, l)
<1> DEFINE w == <<n>> \o clients
<1>1. /\ clients \in Seq(ClientRecs) /\ DOMAIN clients = 1 .. Len(clients) /\ Len(clients) \in Nat
      /\ OneEach(clients)
  BY DEF IsList
<1>2. /\ w \in Seq(ClientRecs) /\ Len(w) = Len(clients) + 1 /\ DOMAIN w = 1 .. Len(w)
      /\ w[1] = n
      /\ \A j \in DOMAIN clients : w[j + 1] = clients[j]
  BY <1>1
<1> HIDE DEF w
<1>3. \A i \in DOMAIN w : i = 1 \/ (i - 1 \in DOMAIN clients /\ w[i] = clients[i - 1])
  <2> TAKE i \in DOMAIN w
  <2>1. i = 1 \/ i - 1 \in DOMAIN clients
    BY <1>1, <1>2
  <2>2. i \in Int
    BY <1>1, <1>2
  <2>3. i - 1 \in DOMAIN clients => w[(i - 1) + 1] = clients[i - 1]
    BY <1>2
  <2> QED BY <2>1, <2>2, <2>3
<1>4. 1 \in DOMAIN w /\ \A j \in DOMAIN clients : j + 1 \in DOMAIN w
  BY <1>1, <1>2
<1>5. OneEach(w)
  <2>1. SUFFICES ASSUME NEW h \in DOMAIN w, NEW i \in DOMAIN w, w[h].addr = w[i].addr
                 PROVE  h = i
    BY DEF OneEach
  <2>2. h \in Int /\ i \in Int
    BY <1>1, <1>2
  <2>3. CASE h = 1 /\ i # 1
    BY <2>1, <2>3, <1>2, <1>3
  <2>4. CASE h # 1 /\ i = 1
    BY <2>1, <2>4, <1>2, <1>3
  <2>5. CASE h # 1 /\ i # 1
    <3>1. h - 1 \in DOMAIN clients /\ i - 1 \in DOMAIN clients /\ clients[h - 1].addr = clients[i - 1].addr
      BY <2>1, <2>5, <1>3
    <3>2. h - 1 = i - 1
      BY <3>1, <1>1 DEF OneEach
    <3> QED BY <3>2, <2>2
  <2> QED BY <2>3, <2>4, <2>5
<1>6. ASSUME NEW b, NEW u, NEW l
      PROVE  Holds(w, b, u, l) <=> (Has(n, b, u) /\ l = n.left) \/ Holds(clients, b, u, l)
  BY <1>2, <1>3, <1>4 DEF Holds
<1> QED BY <1>2, <1>5, <1>6 DEF IsList, w

(* A request of the address for the type, granted for some time: others    *)
(* lose nothing, and nothing is promised that was not asked for.           *)
Given(s, r, a, type, period, duration) ==
    /\ Sound(r)
    /\ \A b, u, p, l : b # a => (Promises(r, b, u, p, l) <=> Promises(s, b, u, p, l))
    /\ \A u, p, l : u # type /\ Promises(s, a, u, p, l) =>
          \E m \in Int : m >= l /\ Promises(r, a, u, p, m)
    /\ \A u, p, m : u # type /\ Promises(r, a, u, p, m) => \E l : Promises(s, a, u, p, l)
    /\ \E m \in Int : m >= duration /\ Promises(r, a, type, period, m)

(* The times promised are numbers.                                         *)
LEMMA PromisedTimes ==
  ASSUME NEW s \in Services, NEW a, NEW t, NEW p, NEW l, Promises(s, a, t, p, l)
  PROVE  l \in Int /\ l \in -1 .. Duration /\ p \in Periods
<1>1. PICK k \in DOMAIN s.intervals :
         s.intervals[k].period = p /\ Holds(s.intervals[k].clients, a, t, l)
  BY DEF Promises
<1>2. PICK j \in DOMAIN s.intervals[k].clients : s.intervals[k].clients[j].left = l
  BY <1>1 DEF Holds
<1> QED BY <1>1, <1>2, Parts

(* The address has a record in interval i.                                 *)
LEMMA WithTypeIs ==
  ASSUME NEW s, Sound(s), NEW i \in DOMAIN s.intervals, NEW a, NEW type \in Served,
         NEW duration \in 0 .. Duration, ClientOf(a, s.intervals[i].clients) # 0,
         \A k \in DOMAIN s.intervals : k # i => ~Offers(s.intervals[k], a, type)
  PROVE  Given(s, WithType(s, i, a, type, duration), a, type, s.intervals[i].period, duration)
<1> DEFINE v == s.intervals[i]
           j == ClientOf(a, v.clients)
           c == v.clients[j]
           n == TakesOn(c, type, duration)
           w == [v.clients EXCEPT ![j] = n]
           x == [v EXCEPT !.clients = w]
           r == [s EXCEPT !.intervals = [@ EXCEPT ![i] = x]]
<1>1. s \in Services /\ v \in Intervals /\ IsList(v.clients) /\ DOMAIN v.clients \subseteq Nat \ {0}
  <2>1. s \in Services /\ s.intervals \in Seq(Intervals) /\ v.clients \in Seq(ClientRecs)
    BY Parts DEF Sound
  <2> QED BY <2>1 DEF Sound, IsList
<1>2. j \in DOMAIN v.clients /\ c.addr = a
  <2> DEFINE places == {h \in DOMAIN v.clients : v.clients[h].addr = a}
  <2>1. places \in SUBSET (Nat \ {0}) /\ j = First(places)
    BY <1>1 DEF ClientOf
  <2>2. places # {}
    BY <2>1, FirstIs
  <2>3. j \in places
    BY <2>1, <2>2, FirstIs
  <2> QED BY <2>3
<1>3. WithType(s, i, a, type, duration) = r
  BY DEF WithType, TakesOn
<1> HIDE DEF j, n, w, x, r
<1>4. /\ IsList(w)
      /\ n.left \in Int /\ n.left >= c.left /\ n.left >= duration
      /\ Has(n, a, type)
      /\ \A b, u, l : Holds(w, b, u, l) <=>
            (Has(n, b, u) /\ l = n.left) \/ (Holds(v.clients, b, u, l) /\ b # a)
      /\ \A b, u : Has(n, b, u) <=> b = a /\ (u = type \/ Has(c, b, u))
  <2>1. n = TakesOn(c, type, duration)
    BY DEF n
  <2>2. w = [v.clients EXCEPT ![j] = n]
    BY DEF w
  <2>3. IsList(v.clients) /\ j \in DOMAIN v.clients /\ v.clients[j].addr = a
    BY <1>1, <1>2
  <2>4. n = TakesOn(v.clients[j], type, duration)
    BY <2>1
  <2>6. c = v.clients[j]
    OBVIOUS
  <2> HIDE DEF v, c
  <2>5. /\ IsList([v.clients EXCEPT ![j] = n])
        /\ n.left \in Int /\ n.left >= v.clients[j].left /\ n.left >= duration
        /\ Has(n, v.clients[j].addr, type)
        /\ \A b, u, l : Holds([v.clients EXCEPT ![j] = n], b, u, l) <=>
              \/ Has(n, b, u) /\ l = n.left
              \/ Holds(v.clients, b, u, l) /\ b # v.clients[j].addr
        /\ \A b, u : Has(n, b, u) <=>
              b = v.clients[j].addr /\ (u = type \/ Has(v.clients[j], b, u))
    BY <2>3, <2>4, ExtendedIs
  <2> QED BY <2>2, <2>3, <2>5, <2>6
<1>5. x \in Intervals /\ x.clients = w /\ x.period = v.period
  <2>1. w \in Seq(ClientRecs)
    BY <1>4 DEF IsList
  <2> HIDE DEF v
  <2> QED BY <1>1, <2>1, WithClients DEF x
<1>6. \A l : Holds(v.clients, a, type, l) => Offers(v, a, type)
  BY OffersIs
<1>7. ASSUME NEW b, NEW u, Offers(x, b, u)
      PROVE  \/ Offers(v, b, u)
             \/ \A k \in DOMAIN s.intervals : k # i => ~Offers(s.intervals[k], b, u)
  <2>1. PICK l : Holds(w, b, u, l)
    BY <1>5, <1>7, OffersIs
  <2>2. CASE Has(n, b, u) /\ u = type
    BY <2>2, <1>4
  <2>3. CASE Has(n, b, u) /\ u # type
    <3>1. Has(c, b, u)
      BY <2>3, <1>4
    <3> QED BY <3>1, <1>2 DEF Offers
  <2>4. CASE Holds(v.clients, b, u, l)
    BY <2>4, OffersIs
  <2> QED BY <2>1, <2>2, <2>3, <2>4, <1>4
<1>8. /\ Sound(r)
      /\ \A b, u, p, l : Promises(r, b, u, p, l) <=>
            \/ p = v.period /\ Holds(w, b, u, l)
            \/ p # v.period /\ Promises(s, b, u, p, l)
  <2>1. x.period = s.intervals[i].period /\ OneEach(x.clients)
    BY <1>4, <1>5 DEF IsList
  <2>2. \A b, u : Offers(x, b, u) =>
            Offers(s.intervals[i], b, u)
            \/ \A k \in DOMAIN s.intervals : k # i => ~Offers(s.intervals[k], b, u)
    BY <1>7
  <2> QED BY <1>5, <2>1, <2>2, ReplaceInterval DEF r
<1>9. \A b, u, l : Promises(s, b, u, v.period, l) <=> Holds(v.clients, b, u, l)
  BY DEF Promises, Sound
<1>10. ASSUME NEW b, NEW u, NEW p, NEW l, b # a
       PROVE  Promises(r, b, u, p, l) <=> Promises(s, b, u, p, l)
  <2>1. Holds(w, b, u, l) <=> Holds(v.clients, b, u, l)
    BY <1>4, <1>10
  <2> QED BY <2>1, <1>8, <1>9
<1>11. ASSUME NEW u, NEW p, NEW l, u # type, Promises(s, a, u, p, l)
       PROVE  \E m \in Int : m >= l /\ Promises(r, a, u, p, m)
  <2>1. l \in Int
    BY <1>1, <1>11, PromisedTimes
  <2>2. CASE p = v.period
    <3>1. Holds(v.clients, a, u, l)
      BY <2>2, <1>9, <1>11
    <3>2. PICK h \in DOMAIN v.clients : Has(v.clients[h], a, u) /\ v.clients[h].left = l
      BY <3>1 DEF Holds
    <3>3. h = j
      BY <1>1, <1>2, <3>2 DEF IsList, OneEach, Has
    <3>4. Has(n, a, u) /\ n.left >= l
      BY <1>4, <3>2, <3>3
    <3>5. Holds(w, a, u, n.left)
      BY <1>4, <3>4
    <3>6. Promises(r, a, u, p, n.left)
      BY <1>8, <2>2, <3>5
    <3> QED BY <1>4, <3>4, <3>6
  <2>3. CASE p # v.period
    BY <2>1, <2>3, <1>8, <1>11
  <2> QED BY <2>2, <2>3
<1>12. ASSUME NEW u, NEW p, NEW m, u # type, Promises(r, a, u, p, m)
       PROVE  \E l : Promises(s, a, u, p, l)
  <2>1. CASE p = v.period
    <3>1. Has(c, a, u)
      BY <2>1, <1>4, <1>8, <1>12
    <3>2. Holds(v.clients, a, u, c.left)
      BY <3>1, <1>2 DEF Holds
    <3> QED BY <3>2, <1>9, <2>1
  <2>2. CASE p # v.period
    BY <2>2, <1>8, <1>12
  <2> QED BY <2>1, <2>2
<1>13. \E m \in Int : m >= duration /\ Promises(r, a, type, v.period, m)
  <2>1. Holds(w, a, type, n.left)
    BY <1>4
  <2>2. Promises(r, a, type, v.period, n.left)
    BY <1>8, <2>1
  <2> QED BY <1>4, <2>2
<1> QED BY <1>3, <1>8, <1>10, <1>11, <1>12, <1>13 DEF Given

(* The address has no record in interval i yet.                            *)
LEMMA WithClientIs ==
  ASSUME NEW s, Sound(s), NEW i \in DOMAIN s.intervals, NEW a \in Addrs, NEW type \in Served,
         NEW duration \in 0 .. Duration,
         \A j \in DOMAIN s.intervals[i].clients : s.intervals[i].clients[j].addr # a,
         \A k \in DOMAIN s.intervals : k # i => ~Offers(s.intervals[k], a, type)
  PROVE  Given(s, WithClient(s, i, a, type, duration), a, type, s.intervals[i].period, duration)
<1> DEFINE v == s.intervals[i]
           n == [addr |-> a, types |-> {type}, left |-> duration]
           w == <<n>> \o v.clients
           x == [v EXCEPT !.clients = w]
           r == [s EXCEPT !.intervals = [@ EXCEPT ![i] = x]]
<1>1. s \in Services /\ v \in Intervals /\ IsList(v.clients)
  <2>1. s \in Services /\ s.intervals \in Seq(Intervals) /\ v.clients \in Seq(ClientRecs)
    BY Parts DEF Sound
  <2> QED BY <2>1 DEF Sound, IsList
<1>2. n \in ClientRecs /\ n.addr = a /\ n.left = duration /\ duration \in Int
  BY UnicastConfig DEF ClientRecs
<1>3. \A b, u : Has(n, b, u) <=> b = a /\ u = type
  BY DEF Has
<1>4. \A j \in DOMAIN v.clients : v.clients[j].addr # n.addr
  BY <1>2
<1>5. WithClient(s, i, a, type, duration) = r
  BY DEF WithClient
<1> HIDE DEF n, w, x, r
<1>6. /\ IsList(w)
      /\ \A b, u, l : Holds(w, b, u, l) <=>
            (b = a /\ u = type /\ l = duration) \/ Holds(v.clients, b, u, l)
  <2>1. /\ IsList(<<n>> \o v.clients)
        /\ \A b, u, l : Holds(<<n>> \o v.clients, b, u, l) <=>
              (Has(n, b, u) /\ l = n.left) \/ Holds(v.clients, b, u, l)
    <3> HIDE DEF v
    <3> QED BY <1>1, <1>2, <1>4, PrependedIs
  <2> HIDE DEF v
  <2> QED BY <1>2, <1>3, <2>1 DEF w
<1>7. x \in Intervals /\ x.clients = w /\ x.period = v.period
  <2>1. w \in Seq(ClientRecs)
    BY <1>6 DEF IsList
  <2> HIDE DEF v
  <2> QED BY <1>1, <2>1, WithClients DEF x
<1>8. ASSUME NEW b, NEW u, Offers(x, b, u)
      PROVE  \/ Offers(v, b, u)
             \/ \A k \in DOMAIN s.intervals : k # i => ~Offers(s.intervals[k], b, u)
  <2>1. PICK l : Holds(w, b, u, l)
    BY <1>7, <1>8, OffersIs
  <2>2. CASE Holds(v.clients, b, u, l)
    BY <2>2, OffersIs
  <2>3. CASE b = a /\ u = type
    BY <2>3
  <2> QED BY <2>1, <2>2, <2>3, <1>6
<1>9. /\ Sound(r)
      /\ \A b, u, p, l : Promises(r, b, u, p, l) <=>
            \/ p = v.period /\ Holds(w, b, u, l)
            \/ p # v.period /\ Promises(s, b, u, p, l)
  <2>1. x.period = s.intervals[i].period /\ OneEach(x.clients)
    BY <1>6, <1>7 DEF IsList
  <2>2. \A b, u : Offers(x, b, u) =>
            Offers(s.intervals[i], b, u)
            \/ \A k \in DOMAIN s.intervals : k # i => ~Offers(s.intervals[k], b, u)
    BY <1>8
  <2> QED BY <1>7, <2>1, <2>2, ReplaceInterval DEF r
<1>10. \A b, u, l : Promises(s, b, u, v.period, l) <=> Holds(v.clients, b, u, l)
  BY DEF Promises, Sound
<1>11. ASSUME NEW b, NEW u, NEW p, NEW l, ~(b = a /\ u = type)
       PROVE  Promises(r, b, u, p, l) <=> Promises(s, b, u, p, l)
  <2>1. Holds(w, b, u, l) <=> Holds(v.clients, b, u, l)
    BY <1>6, <1>11
  <2> QED BY <2>1, <1>9, <1>10
<1>12. \E m \in Int : m >= duration /\ Promises(r, a, type, v.period, m)
  <2>1. Promises(r, a, type, v.period, duration)
    BY <1>6, <1>9
  <2> QED BY <2>1, <1>2
<1>13. \A u, p, l : u # type /\ Promises(s, a, u, p, l) =>
          \E m \in Int : m >= l /\ Promises(r, a, u, p, m)
  <2> TAKE u, p, l
  <2> HAVE u # type /\ Promises(s, a, u, p, l)
  <2>1. l \in Int /\ l >= l
    BY <1>1, PromisedTimes
  <2> QED BY <1>11, <2>1
<1> QED BY <1>5, <1>9, <1>11, <1>12, <1>13 DEF Given

(* A new interval promises nothing yet.                                    *)
LEMMA WithIntervalIs ==
  ASSUME NEW s, Sound(s), NEW period \in Periods,
         \A k \in DOMAIN s.intervals : s.intervals[k].period # period
  PROVE  LET r == WithInterval(s, period)
         IN  /\ Sound(r)
             /\ 1 \in DOMAIN r.intervals /\ r.intervals[1].period = period
             /\ DOMAIN r.intervals[1].clients = {}
             /\ \A a, t : (\A k \in DOMAIN s.intervals : ~Offers(s.intervals[k], a, t))
                             => \A k \in DOMAIN r.intervals : ~Offers(r.intervals[k], a, t)
             /\ \A a, t, p, l : Promises(r, a, t, p, l) <=> Promises(s, a, t, p, l)
<1> DEFINE v == [period |-> period, clients |-> <<>>, due |-> 0]
           new == <<v>> \o s.intervals
           r == [s EXCEPT !.intervals = new, !.armed = TRUE]
<1>1. /\ s \in Services /\ s.intervals \in Seq(Intervals)
      /\ DOMAIN s.intervals = 1 .. Len(s.intervals) /\ Len(s.intervals) \in Nat
  BY Parts DEF Sound
<1>2. v \in Intervals /\ v.period = period /\ v.clients = <<>>
  BY DEF Intervals
<1>3. WithInterval(s, period) = r
  BY DEF WithInterval
<1>4. \A a, t : ~Offers(v, a, t) /\ \A l : ~Holds(v.clients, a, t, l)
  BY DEF Offers, Holds
<1>5. OneEach(v.clients) /\ DOMAIN v.clients = {}
  BY DEF OneEach
<1> HIDE DEF v
<1>6. /\ new \in Seq(Intervals) /\ Len(new) = Len(s.intervals) + 1 /\ DOMAIN new = 1 .. Len(new)
      /\ new[1] = v
      /\ \A k \in DOMAIN s.intervals : new[k + 1] = s.intervals[k]
  BY <1>1, <1>2
<1> HIDE DEF new
<1>7. r \in Services /\ r.intervals = new
  BY <1>1, <1>6 DEF Services
<1> HIDE DEF r
<1>8. \A k \in DOMAIN new : k = 1 \/ (k - 1 \in DOMAIN s.intervals /\ new[k] = s.intervals[k - 1])
  <2> TAKE k \in DOMAIN new
  <2>1. k \in Int /\ (k = 1 \/ k - 1 \in DOMAIN s.intervals)
    BY <1>1, <1>6
  <2>2. k - 1 \in DOMAIN s.intervals => new[(k - 1) + 1] = s.intervals[k - 1]
    BY <1>6
  <2> QED BY <2>1, <2>2
<1>9. 1 \in DOMAIN new /\ \A k \in DOMAIN s.intervals : k + 1 \in DOMAIN new
  BY <1>1, <1>6
<1>10. \A k \in DOMAIN new : k \in Int
  BY <1>1, <1>6
<1>11. \A k \in DOMAIN new : OneEach(new[k].clients)
  BY <1>5, <1>6, <1>8 DEF Sound
<1>12. ASSUME NEW k \in DOMAIN new, NEW h \in DOMAIN new,
             \/ new[k].period = new[h].period
             \/ \E a, t : Offers(new[k], a, t) /\ Offers(new[h], a, t)
       PROVE  k = h
  <2>1. CASE k = 1 /\ h # 1
    BY <2>1, <1>2, <1>4, <1>6, <1>8, <1>12
  <2>2. CASE k # 1 /\ h = 1
    BY <2>2, <1>2, <1>4, <1>6, <1>8, <1>12
  <2>3. CASE k # 1 /\ h # 1
    <3>1. k - 1 = h - 1
      BY <2>3, <1>8, <1>12 DEF Sound
    <3> QED BY <3>1, <1>10
  <2> QED BY <2>1, <2>2, <2>3
<1>13. Sound(r)
  BY <1>7, <1>11, <1>12 DEF Sound
<1>14. \A a, t : (\A k \in DOMAIN s.intervals : ~Offers(s.intervals[k], a, t))
                   => \A k \in DOMAIN new : ~Offers(new[k], a, t)
  BY <1>4, <1>6, <1>8
<1>15. ASSUME NEW a, NEW t, NEW p, NEW l
       PROVE  Promises(r, a, t, p, l) <=> Promises(s, a, t, p, l)
  <2>1. ASSUME NEW k \in DOMAIN new, new[k].period = p, Holds(new[k].clients, a, t, l)
        PROVE  Promises(s, a, t, p, l)
    BY <2>1, <1>4, <1>6, <1>8 DEF Promises
  <2>2. ASSUME NEW k \in DOMAIN s.intervals, s.intervals[k].period = p,
               Holds(s.intervals[k].clients, a, t, l)
        PROVE  Promises(r, a, t, p, l)
    <3>1. k + 1 \in DOMAIN new /\ new[k + 1] = s.intervals[k]
      BY <1>6, <1>9
    <3> QED BY <2>2, <3>1, <1>7 DEF Promises
  <2> QED BY <2>1, <2>2, <1>7 DEF Promises
<1> QED BY <1>2, <1>3, <1>5, <1>6, <1>7, <1>9, <1>13, <1>14, <1>15

(* Which interval the request finds.                                       *)
LEMMA IntervalOfIs ==
  ASSUME NEW s, Sound(s), NEW period
  PROVE  LET i == IntervalOf(s, period)
         IN  /\ i \in Nat
             /\ i # 0 => i \in DOMAIN s.intervals /\ s.intervals[i].period = period
             /\ i = 0 => \A k \in DOMAIN s.intervals : s.intervals[k].period # period
<1> DEFINE places == {k \in DOMAIN s.intervals : s.intervals[k].period = period}
<1>1. DOMAIN s.intervals \subseteq Nat \ {0}
  BY Parts DEF Sound
<1>2. places \in SUBSET (Nat \ {0}) /\ IntervalOf(s, period) = First(places)
  BY <1>1 DEF IntervalOf
<1>3. \A k \in DOMAIN s.intervals : k \in places <=> s.intervals[k].period = period
  OBVIOUS
<1>4. places \subseteq DOMAIN s.intervals
  OBVIOUS
<1> HIDE DEF places
<1>5. CASE places = {}
  BY <1>2, <1>3, <1>5, FirstIs
<1>6. CASE places # {}
  <2>1. First(places) \in places
    BY <1>2, <1>6, FirstIs
  <2> QED BY <2>1, <1>1, <1>2, <1>3, <1>4
<1> QED BY <1>5, <1>6

(* And which client.                                                       *)
LEMMA ClientOfIs ==
  ASSUME NEW clients, IsList(clients), NEW a
  PROVE  ClientOf(a, clients) = 0 => \A j \in DOMAIN clients : clients[j].addr # a
<1> DEFINE places == {h \in DOMAIN clients : clients[h].addr = a}
<1>1. DOMAIN clients \subseteq Nat \ {0}
  BY DEF IsList
<1>2. places \in SUBSET (Nat \ {0}) /\ ClientOf(a, clients) = First(places)
  BY <1>1 DEF ClientOf
<1>3. places # {} => First(places) \in places
  BY <1>2, FirstIs
<1> QED BY <1>2, <1>3, <1>1

(* A request that is denied takes what was stale from the address; it had  *)
(* nothing of the kind in the interval it asked for.                       *)
Denied(s, r, a, type, period) ==
    /\ Sound(r)
    /\ \A b, u, p, l : ~(b = a /\ u = type) => (Promises(r, b, u, p, l) <=> Promises(s, b, u, p, l))
    /\ \A p, l : ~Promises(r, a, type, p, l)
    /\ \A l : ~Promises(s, a, type, period, l)

(* What is granted after the stale contracts are withdrawn is granted.     *)
LEMMA GivenAfter ==
  ASSUME NEW s, NEW t, NEW r, NEW a, NEW type, NEW period, NEW duration,
         Given(t, r, a, type, period, duration),
         \A b, u, p, l : ~(b = a /\ u = type) => (Promises(t, b, u, p, l) <=> Promises(s, b, u, p, l))
  PROVE  Given(s, r, a, type, period, duration)
<1>1. \A b, u, p, l : b # a => (Promises(r, b, u, p, l) <=> Promises(s, b, u, p, l))
  BY DEF Given
<1>2. \A u, p, l : u # type /\ Promises(s, a, u, p, l) =>
          \E m \in Int : m >= l /\ Promises(r, a, u, p, m)
  BY DEF Given
<1>3. \A u, p, m : u # type /\ Promises(r, a, u, p, m) => \E l : Promises(s, a, u, p, l)
  BY DEF Given
<1> QED BY <1>1, <1>2, <1>3 DEF Given

(* unicast_service_add grants or denies.                                   *)
LEMMA AddIs ==
  ASSUME NEW s, Sound(s), NEW a \in Addrs, NEW type \in Served, NEW period \in Periods,
         NEW duration \in 0 .. Duration, NEW memory \in BOOLEAN
  PROVE  LET r == unicast_service_add(s, a, type, period, duration, memory)
         IN  IF Grants(s, a, period, memory) THEN Given(s, r, a, type, period, duration)
                                             ELSE Denied(s, r, a, type, period)
<1> DEFINE i == IntervalOf(s, period)
           t == WithoutStale(s, i, a, type)
           r == unicast_service_add(s, a, type, period, duration, memory)
<1>1. /\ i \in Nat
      /\ i # 0 => i \in DOMAIN s.intervals /\ s.intervals[i].period = period
      /\ i = 0 => \A k \in DOMAIN s.intervals : s.intervals[k].period # period
  BY IntervalOfIs
<1>2. r = CASE ~NeedsMemory(s, a, period) -> WithType(t, i, a, type, duration)
            [] NeedsMemory(s, a, period) /\ memory -> NewClient(t, a, type, period, duration)
            [] OTHER -> t
  BY DEF unicast_service_add
<1>3. NeedsMemory(s, a, period) <=> i = 0 \/ ClientOf(a, s.intervals[i].clients) = 0
  BY DEF NeedsMemory
<1> HIDE DEF r
<1>4. /\ Sound(t)
      /\ DOMAIN t.intervals = DOMAIN s.intervals
      /\ i # 0 => t.intervals[i] = s.intervals[i]
      /\ \A k \in DOMAIN s.intervals :
            /\ t.intervals[k].period = s.intervals[k].period
            /\ \A b, u, l : Holds(t.intervals[k].clients, b, u, l) <=>
                  Holds(s.intervals[k].clients, b, u, l) /\ (k = i \/ ~(b = a /\ u = type))
  <2>1. i = 0 \/ i \in DOMAIN s.intervals
    BY <1>1
  <2>2. StaleGone(s, t, i, a, type)
    BY <2>1, StaleIs
  <2> HIDE DEF t, i
  <2> QED BY <2>2 DEF StaleGone
<1> HIDE DEF i, t
<1>5. \A k \in DOMAIN t.intervals : k # i => ~Offers(t.intervals[k], a, type)
  BY <1>4, OffersIs
<1>6. \A b, u, p, l : ~(b = a /\ u = type) => (Promises(t, b, u, p, l) <=> Promises(s, b, u, p, l))
  BY <1>4 DEF Promises
<1>7. CASE ~NeedsMemory(s, a, period)
  <2>1. i \in DOMAIN t.intervals /\ t.intervals[i].period = period
        /\ ClientOf(a, t.intervals[i].clients) # 0
    BY <1>1, <1>3, <1>4, <1>7
  <2>2. r = WithType(t, i, a, type, duration)
    BY <1>2, <1>7
  <2>3. Given(t, WithType(t, i, a, type, duration), a, type, t.intervals[i].period, duration)
    BY <1>4, <1>5, <2>1, WithTypeIs
  <2>4. Given(s, r, a, type, period, duration)
    BY <1>6, <2>1, <2>2, <2>3, GivenAfter
  <2> QED BY <1>7, <2>4 DEF Grants, r
<1>8. CASE NeedsMemory(s, a, period) /\ memory
  <2>1. r = NewClient(t, a, type, period, duration)
    BY <1>2, <1>8
  <2>2. CASE i # 0
    <3>1. IntervalOf(t, period) = i
      <4> DEFINE h == IntervalOf(t, period)
      <4>1. /\ h # 0 => h \in DOMAIN t.intervals /\ t.intervals[h].period = period
            /\ h = 0 => \A k \in DOMAIN t.intervals : t.intervals[k].period # period
        BY <1>4, IntervalOfIs
      <4> HIDE DEF h
      <4>2. i \in DOMAIN t.intervals /\ t.intervals[i].period = period
        BY <2>2, <1>1, <1>4
      <4>3. h # 0 /\ h = i
        BY <4>1, <4>2, <1>4 DEF Sound
      <4> QED BY <4>3 DEF h
    <3>2. r = WithClient(t, i, a, type, duration)
      BY <2>1, <2>2, <3>1 DEF NewClient
    <3>3. i \in DOMAIN t.intervals /\ t.intervals[i].period = period
      BY <2>2, <1>1, <1>4
    <3>4. IsList(s.intervals[i].clients)
      BY <2>2, <1>1, Parts DEF Sound, IsList
    <3>5. \A j \in DOMAIN t.intervals[i].clients : t.intervals[i].clients[j].addr # a
      BY <2>2, <1>3, <1>4, <1>8, <3>4, ClientOfIs
    <3>6. Given(t, WithClient(t, i, a, type, duration), a, type, t.intervals[i].period, duration)
      BY <1>4, <1>5, <3>3, <3>5, WithClientIs
    <3>7. Given(s, r, a, type, period, duration)
      BY <1>6, <3>2, <3>3, <3>6, GivenAfter
    <3> QED BY <1>8, <3>7 DEF Grants, r
  <2>3. CASE i = 0
    <3> DEFINE q == WithInterval(t, period)
    <3>1. \A k \in DOMAIN t.intervals : t.intervals[k].period # period
      BY <2>3, <1>1, <1>4
    <3>2. IntervalOf(t, period) = 0
      <4> DEFINE h == IntervalOf(t, period)
      <4>1. h # 0 => h \in DOMAIN t.intervals /\ t.intervals[h].period = period
        BY <1>4, IntervalOfIs
      <4> HIDE DEF h
      <4>2. h = 0
        BY <4>1, <3>1
      <4> QED BY <4>2 DEF h
    <3>3. r = WithClient(q, 1, a, type, duration)
      BY <2>1, <3>2 DEF NewClient
    <3>4. /\ Sound(q)
          /\ 1 \in DOMAIN q.intervals /\ q.intervals[1].period = period
          /\ DOMAIN q.intervals[1].clients = {}
          /\ \A b, u : (\A k \in DOMAIN t.intervals : ~Offers(t.intervals[k], b, u))
                          => \A k \in DOMAIN q.intervals : ~Offers(q.intervals[k], b, u)
          /\ \A b, u, p, l : Promises(q, b, u, p, l) <=> Promises(t, b, u, p, l)
      BY <1>4, <3>1, WithIntervalIs
    <3> HIDE DEF q
    <3>5. \A k \in DOMAIN t.intervals : ~Offers(t.intervals[k], a, type)
      <4>1. 0 \notin DOMAIN t.intervals
        BY <1>4, Parts DEF Sound
      <4> QED BY <4>1, <1>5, <2>3
    <3>6. \A k \in DOMAIN q.intervals : k # 1 => ~Offers(q.intervals[k], a, type)
      BY <3>4, <3>5
    <3>7. \A j \in DOMAIN q.intervals[1].clients : q.intervals[1].clients[j].addr # a
      BY <3>4
    <3>8. Given(q, WithClient(q, 1, a, type, duration), a, type, q.intervals[1].period, duration)
      BY <3>4, <3>6, <3>7, WithClientIs
    <3>9. Given(q, r, a, type, period, duration)
      BY <3>3, <3>4, <3>8
    <3>10. \A b, u, p, l : ~(b = a /\ u = type) => (Promises(q, b, u, p, l) <=> Promises(s, b, u, p, l))
      BY <1>6, <3>4
    <3>11. Given(s, r, a, type, period, duration)
      BY <3>9, <3>10, GivenAfter
    <3> QED BY <1>8, <3>11 DEF Grants, r
  <2> QED BY <2>2, <2>3
<1>9. CASE NeedsMemory(s, a, period) /\ ~memory
  <2>1. r = t
    BY <1>2, <1>9
  <2>2. \A l : i # 0 => ~Holds(s.intervals[i].clients, a, type, l)
    <3> TAKE l
    <3> HAVE i # 0
    <3>1. IsList(s.intervals[i].clients)
      BY <1>1, Parts DEF Sound, IsList
    <3>2. \A j \in DOMAIN s.intervals[i].clients : s.intervals[i].clients[j].addr # a
      BY <3>1, <1>3, <1>9, ClientOfIs
    <3> QED BY <3>2 DEF Holds, Has
  <2>3. \A k \in DOMAIN t.intervals : \A l : ~Holds(t.intervals[k].clients, a, type, l)
    <3>1. 0 \notin DOMAIN s.intervals
      BY Parts DEF Sound
    <3> QED BY <3>1, <2>2, <1>4
  <2>4. \A p, l : ~Promises(t, a, type, p, l)
    BY <2>3 DEF Promises
  <2>5. \A l : ~Promises(s, a, type, period, l)
    <3>1. \A k \in DOMAIN s.intervals : s.intervals[k].period = period => i # 0 /\ k = i
      BY <1>1 DEF Sound
    <3> QED BY <3>1, <2>2 DEF Promises
  <2>6. Denied(s, r, a, type, period)
    BY <1>4, <1>6, <2>1, <2>4, <2>5 DEF Denied
  <2> QED BY <1>9, <2>6 DEF Grants, r
<1> QED BY <1>7, <1>8, <1>9

(* unicast_service_remove: the address has the type no more.               *)
LEMMA RemoveIs ==
  ASSUME NEW s, Sound(s), NEW a, NEW type
  PROVE  LET r == unicast_service_remove(s, a, type)
         IN  /\ Sound(r)
             /\ \A b, u, p, l : Promises(r, b, u, p, l) <=>
                   Promises(s, b, u, p, l) /\ ~(b = a /\ u = type)
<1> DEFINE places == {k \in DOMAIN s.intervals : Unchanged(s, k, a, type)}
           i == First(places)
           r == unicast_service_remove(s, a, type)
<1>1. s \in Services /\ s.intervals \in Seq(Intervals) /\ DOMAIN s.intervals \subseteq Nat \ {0}
  BY Parts DEF Sound
<1>2. /\ places \in SUBSET (Nat \ {0})
      /\ \A k \in DOMAIN s.intervals : k \in places <=> Offers(s.intervals[k], a, type)
      /\ places \subseteq DOMAIN s.intervals
  BY <1>1 DEF Unchanged, Offers, Has
<1>3. r = IF i = 0 THEN s ELSE [s EXCEPT !.intervals[i].clients = Withdrawn(@, a, type)]
  BY DEF unicast_service_remove
<1> HIDE DEF places, r
<1>4. CASE places = {}
  <2>1. r = s
    BY <1>2, <1>3, <1>4, FirstIs
  <2>2. \A p, l : ~Promises(s, a, type, p, l)
    BY <1>2, <1>4, OffersIs DEF Promises
  <2> QED BY <2>1, <2>2 DEF r
<1>5. CASE places # {}
  <2>1. i \in places /\ i \in DOMAIN s.intervals /\ Offers(s.intervals[i], a, type) /\ i # 0
    BY <1>1, <1>2, <1>5, FirstIs
  <2> HIDE DEF i
  <2> DEFINE v == s.intervals[i]
             w == Withdrawn(v.clients, a, type)
             x == [v EXCEPT !.clients = w]
  <2>2. v \in Intervals /\ IsList(v.clients)
    <3>1. v.clients \in Seq(ClientRecs)
      BY <1>1, <2>1, Parts
    <3> QED BY <1>1, <2>1, <3>1 DEF Sound, IsList
  <2>3. r = [s EXCEPT !.intervals = [@ EXCEPT ![i] = x]]
    BY <1>3, <2>1
  <2>4. /\ IsList(w)
        /\ \A b, u, l : Holds(w, b, u, l) <=> Holds(v.clients, b, u, l) /\ ~(b = a /\ u = type)
    BY <2>2, WithdrawnIs
  <2>5. x \in Intervals /\ x.clients = w /\ x.period = v.period
    <3>1. w \in Seq(ClientRecs)
      BY <2>4 DEF IsList
    <3> HIDE DEF v, w
    <3> QED BY <2>2, <3>1, WithClients
  <2> HIDE DEF w, x
  <2>6. \A b, u : Offers(x, b, u) => Offers(v, b, u)
    BY <2>4, <2>5, OffersIs
  <2>7. /\ Sound(r)
        /\ \A b, u, p, l : Promises(r, b, u, p, l) <=>
              \/ p = v.period /\ Holds(w, b, u, l)
              \/ p # v.period /\ Promises(s, b, u, p, l)
    <3>1. x.period = s.intervals[i].period /\ OneEach(x.clients)
      BY <2>4, <2>5 DEF IsList
    <3> QED BY <2>1, <2>3, <2>5, <2>6, <3>1, ReplaceInterval
  <2>8. \A b, u, l : Promises(s, b, u, v.period, l) <=> Holds(v.clients, b, u, l)
    BY <2>1 DEF Promises, Sound
  <2>9. \A p, l : Promises(s, a, type, p, l) => p = v.period
    <3>1. \A k \in DOMAIN s.intervals : Offers(s.intervals[k], a, type) => k = i
      BY <2>1 DEF Sound
    <3> QED BY <3>1, OffersIs DEF Promises
  <2>10. ASSUME NEW b, NEW u, NEW p, NEW l
         PROVE  Promises(r, b, u, p, l) <=> Promises(s, b, u, p, l) /\ ~(b = a /\ u = type)
    BY <2>4, <2>7, <2>8, <2>9
  <2> QED BY <2>7, <2>10 DEF r
<1> QED BY <1>4, <1>5

----------------------------------------------------------------------------
(* The timer and time.                                                     *)

(* v has become w: some clients whose time is over may be gone.            *)
Expired(v, w) ==
    /\ w \in Intervals /\ w.period = v.period /\ OneEach(w.clients)
    /\ \A a, t, l : Holds(w.clients, a, t, l) => Holds(v.clients, a, t, l)
    /\ \A a, t, l : Holds(v.clients, a, t, l) /\ l >= 0 => Holds(w.clients, a, t, l)

(* An interval is put off to some time.                                    *)
LEMMA PutOffIs ==
  ASSUME NEW due \in Int, NEW period \in Nat \ {0}
  PROVE  PutOff(due, period) \in Int
<1> DEFINE misses == 1 + (-due) \div period
<1>1. misses \in Int
  OBVIOUS
<1>2. PutOff(due, period) = due + misses * period
  BY DEF PutOff
<1> HIDE DEF misses
<1> QED BY <1>1, <1>2

(* The first look at an interval.                                          *)
LEMMA ServedOnce ==
  ASSUME NEW v \in Intervals, OneEach(v.clients), NEW master
  PROVE  Expired(v, [v EXCEPT !.clients = IF v.due > 0 THEN @ ELSE Kept(@, master)])
<1> DEFINE w == IF v.due > 0 THEN v.clients ELSE Kept(v.clients, master)
<1>1. IsList(v.clients)
  BY DEF Intervals, IsList
<1>2. /\ IsList(w)
      /\ \A b, t, l : Holds(w, b, t, l) => Holds(v.clients, b, t, l)
      /\ \A b, t, l : Holds(v.clients, b, t, l) /\ l >= 0 => Holds(w, b, t, l)
  <2>1. CASE v.due > 0
    BY <2>1, <1>1
  <2>2. CASE ~(v.due > 0)
    <3>1. w = Kept(v.clients, master)
      BY <2>2
    <3> HIDE DEF w
    <3> QED BY <3>1, <1>1, KeptIs
  <2> QED BY <2>1, <2>2
<1> HIDE DEF w
<1> DEFINE x == [v EXCEPT !.clients = w]
<1>3. x \in Intervals /\ x.clients = w /\ x.period = v.period
  BY <1>2, WithClients DEF IsList
<1>4. x = [v EXCEPT !.clients = IF v.due > 0 THEN @ ELSE Kept(@, master)]
  BY DEF w
<1> HIDE DEF x
<1>5. Expired(v, x)
  BY <1>2, <1>3 DEF Expired, IsList
<1> QED BY <1>4, <1>5

(* And the second.                                                         *)
LEMMA ServedAgain ==
  ASSUME NEW v \in Intervals, OneEach(v.clients), NEW master
  PROVE  Expired(v, AfterServing(v, master))
<1>1. CASE v.due > 0
  BY <1>1 DEF AfterServing, Expired
<1>2. CASE ~(v.due > 0)
  <2> DEFINE w == Kept(v.clients, master)
             d == PutOff(v.due, v.period)
             x == [period |-> v.period, clients |-> w, due |-> d]
  <2>1. /\ v = [period |-> v.period, clients |-> v.clients, due |-> v.due]
        /\ v.period \in Periods /\ v.due \in Int /\ IsList(v.clients)
    BY DEF Intervals, IsList
  <2>2. /\ IsList(w)
        /\ \A b, t, l : Holds(w, b, t, l) => Holds(v.clients, b, t, l)
        /\ \A b, t, l : Holds(v.clients, b, t, l) /\ l >= 0 => Holds(w, b, t, l)
    BY <2>1, KeptIs
  <2>3. d \in Int
    BY <2>1, ServiceConfig, PutOffIs
  <2>4. AfterServing(v, master) = x
    <3>1. AfterServing(v, master) =
             [v EXCEPT !.clients = Kept(v.clients, master), !.due = PutOff(v.due, v.period)]
      BY <1>2 DEF AfterServing
    <3> QED BY <2>1, <3>1
  <2> HIDE DEF w, d
  <2>5. x \in Intervals /\ x.clients = w /\ x.period = v.period
    BY <2>1, <2>2, <2>3 DEF Intervals, IsList
  <2> HIDE DEF x
  <2>6. Expired(v, x)
    BY <2>2, <2>5 DEF Expired, IsList
  <2> QED BY <2>4, <2>6
<1> QED BY <1>1, <1>2

(* Both.                                                                   *)
LEMMA ExpiredTwice ==
  ASSUME NEW u, NEW v, NEW w, Expired(u, v), Expired(v, w)
  PROVE  Expired(u, w)
BY DEF Expired

(* The service after its timer: contracts whose time is over may be gone.  *)
ContractsEnd(s, r) ==
    /\ Sound(r)
    /\ \A a, t, p, l : Promises(r, a, t, p, l) => Promises(s, a, t, p, l)
    /\ \A a, t, p, l : Promises(s, a, t, p, l) /\ l >= 0 => Promises(r, a, t, p, l)

(* unicast_service_timer drops clients whose time is over, and intervals   *)
(* without clients.                                                        *)
LEMMA TimerIs ==
  ASSUME NEW s, Sound(s), NEW master
  PROVE  ContractsEnd(s, unicast_service_timer(s, master))
<1> DEFINE old == s.intervals
           served == [k \in DOMAIN old |->
                        [old[k] EXCEPT !.clients = IF old[k].due > 0 THEN @ ELSE Kept(@, master)]]
           places == {k \in DOMAIN served : Alive(served[k])}
           rest == Remaining(served, places)
           new == [k \in DOMAIN rest |-> AfterServing(rest[k], master)]
           r == [intervals |-> new, armed |-> rest # <<>>]
<1>1. /\ s \in Services /\ old \in Seq(Intervals)
      /\ DOMAIN old = 1 .. Len(old) /\ Len(old) \in Nat
      /\ \A k \in DOMAIN old : old[k] \in Intervals /\ OneEach(old[k].clients)
  <2>1. s \in Services
    BY DEF Sound
  <2>2. old \in Seq(Intervals) /\ DOMAIN old = 1 .. Len(old) /\ Len(old) \in Nat
    BY <2>1, Parts
  <2> QED BY <2>1, <2>2 DEF Sound
<1>2. r = unicast_service_timer(s, master)
  BY DEF unicast_service_timer
<1>3. DOMAIN served = DOMAIN old
  OBVIOUS
<1>4. ASSUME NEW k \in DOMAIN old
      PROVE  Expired(old[k], served[k]) /\ served[k] \in Intervals /\ OneEach(served[k].clients)
  <2> DEFINE v == old[k]
  <2>1. v \in Intervals /\ OneEach(v.clients)
    BY <1>1
  <2>2. served[k] = [v EXCEPT !.clients = IF v.due > 0 THEN @ ELSE Kept(@, master)]
    OBVIOUS
  <2> HIDE DEF v, served
  <2>3. Expired(v, served[k])
    BY <2>1, <2>2, ServedOnce
  <2>4. served[k] \in Intervals /\ OneEach(served[k].clients)
    BY <2>3 DEF Expired
  <2> QED BY <2>3, <2>4 DEF v
<1>5. served \in Seq(Intervals)
  <2>1. served \in [1 .. Len(old) -> Intervals]
    <3>1. served = [k \in 1 .. Len(old) |-> served[k]]
      BY <1>1
    <3> HIDE DEF served
    <3> QED BY <3>1, <1>1, <1>4
  <2> HIDE DEF served
  <2> QED BY <1>1, <2>1
<1>6. \A k \in DOMAIN served : k \in places <=> Alive(served[k])
  OBVIOUS
<1> HIDE DEF served, places
<1>7. /\ rest \in Seq(Intervals)
      /\ \A j \in DOMAIN rest : \E i \in DOMAIN served : i \in places /\ rest[j] = served[i]
      /\ \A i \in DOMAIN served : i \in places => \E j \in DOMAIN rest : rest[j] = served[i]
      /\ \A h, j \in DOMAIN rest : h # j =>
            \E g, i \in DOMAIN served : g # i /\ rest[h] = served[g] /\ rest[j] = served[i]
  BY <1>5, RemainingHas
<1> HIDE DEF rest
<1>8. DOMAIN rest = 1 .. Len(rest) /\ Len(rest) \in Nat /\ DOMAIN new = DOMAIN rest
  BY <1>7
<1>9. ASSUME NEW j \in DOMAIN rest, NEW i \in DOMAIN old, rest[j] = served[i]
      PROVE  Expired(old[i], new[j])
  <2>1. Expired(old[i], served[i]) /\ served[i] \in Intervals /\ OneEach(served[i].clients)
    BY <1>4
  <2>2. new[j] = AfterServing(served[i], master)
    BY <1>9
  <2> HIDE DEF new
  <2>3. Expired(served[i], new[j])
    BY <2>1, <2>2, ServedAgain
  <2> QED BY <2>1, <2>3, ExpiredTwice
<1> HIDE DEF new
<1>10. \A j \in DOMAIN new : \E i \in DOMAIN old : Expired(old[i], new[j])
  <2> TAKE j \in DOMAIN new
  <2>1. PICK i \in DOMAIN served : rest[j] = served[i]
    BY <1>7, <1>8
  <2> QED BY <2>1, <1>3, <1>8, <1>9
<1>11. \A h, j \in DOMAIN new : h # j =>
          \E g, i \in DOMAIN old : g # i /\ Expired(old[g], new[h]) /\ Expired(old[i], new[j])
  <2> TAKE h, j \in DOMAIN new
  <2> HAVE h # j
  <2>1. PICK g, i \in DOMAIN served : g # i /\ rest[h] = served[g] /\ rest[j] = served[i]
    BY <1>7, <1>8
  <2> QED BY <2>1, <1>3, <1>8, <1>9
<1>12. \A j \in DOMAIN new : new[j] \in Intervals /\ OneEach(new[j].clients)
  BY <1>10 DEF Expired
<1>13. r \in Services /\ r.intervals = new
  <2>1. new = [j \in 1 .. Len(rest) |-> new[j]]
    BY <1>8 DEF new
  <2>2. new \in [1 .. Len(rest) -> Intervals]
    BY <2>1, <1>8, <1>12
  <2>3. new \in Seq(Intervals)
    BY <1>8, <2>2
  <2> QED BY <2>3 DEF Services
<1> HIDE DEF r
<1>14. ASSUME NEW h \in DOMAIN new, NEW j \in DOMAIN new,
              \/ new[h].period = new[j].period
              \/ \E a, t : Offers(new[h], a, t) /\ Offers(new[j], a, t)
       PROVE  h = j
  <2>1. SUFFICES ASSUME h # j PROVE FALSE
    OBVIOUS
  <2>2. PICK g, i \in DOMAIN old : g # i /\ Expired(old[g], new[h]) /\ Expired(old[i], new[j])
    BY <1>11, <2>1
  <2>3. CASE new[h].period = new[j].period
    BY <2>2, <2>3 DEF Expired, Sound
  <2>4. CASE \E a, t : Offers(new[h], a, t) /\ Offers(new[j], a, t)
    <3>1. PICK a, t : Offers(new[h], a, t) /\ Offers(new[j], a, t)
      BY <2>4
    <3>2. Offers(old[g], a, t) /\ Offers(old[i], a, t)
      BY <2>2, <3>1, OffersIs DEF Expired
    <3> QED BY <2>2, <3>2 DEF Sound
  <2> QED BY <1>14, <2>3, <2>4
<1>15. Sound(r)
  BY <1>12, <1>13, <1>14 DEF Sound
<1>16. ASSUME NEW a, NEW t, NEW p, NEW l, Promises(r, a, t, p, l)
       PROVE  Promises(s, a, t, p, l)
  <2>1. PICK j \in DOMAIN new : new[j].period = p /\ Holds(new[j].clients, a, t, l)
    BY <1>13, <1>16 DEF Promises
  <2>2. PICK i \in DOMAIN old : Expired(old[i], new[j])
    BY <1>10
  <2> QED BY <2>1, <2>2 DEF Expired, Promises
<1>17. ASSUME NEW a, NEW t, NEW p, NEW l, Promises(s, a, t, p, l), l >= 0
       PROVE  Promises(r, a, t, p, l)
  <2>1. PICK i \in DOMAIN old : old[i].period = p /\ Holds(old[i].clients, a, t, l)
    BY <1>17 DEF Promises
  <2>2. Holds(served[i].clients, a, t, l)
    BY <1>4, <1>17, <2>1 DEF Expired
  <2>3. Alive(served[i])
    <3>1. served[i].clients # <<>>
      BY <2>2 DEF Holds
    <3> QED BY <3>1 DEF Alive
  <2>4. PICK j \in DOMAIN rest : rest[j] = served[i]
    BY <1>3, <1>6, <1>7, <2>3
  <2>5. j \in DOMAIN new /\ Expired(old[i], new[j])
    BY <1>8, <1>9, <2>4
  <2> QED BY <1>13, <1>17, <2>1, <2>5 DEF Expired, Promises
<1>18. ContractsEnd(s, r)
  BY <1>15, <1>16, <1>17 DEF ContractsEnd
<1> QED BY <1>2, <1>18

(* A tick shortens the time of a client.                                   *)
LEMMA ClientTickIs ==
  ASSUME NEW c \in ClientRecs
  PROVE  LET d == ClientTick(c)
         IN  /\ d \in ClientRecs /\ d.addr = c.addr
             /\ d.left = Later(c.left, -1)
             /\ \A a, t : Has(d, a, t) <=> Has(c, a, t)
<1>1. c = [addr |-> c.addr, types |-> c.types, left |-> c.left]
  BY DEF ClientRecs
<1>2. Later(c.left, -1) \in -1 .. Duration
  BY UnicastConfig DEF ClientRecs, Later
<1>3. ClientTick(c) = [addr |-> c.addr, types |-> c.types, left |-> Later(c.left, -1)]
  BY <1>1 DEF ClientTick
<1> QED BY <1>2, <1>3 DEF ClientRecs, Has

(* An interval a tick later.                                               *)
Ticked(v, w) ==
    /\ w \in Intervals /\ w.period = v.period /\ OneEach(w.clients)
    /\ \A a, t, m : Holds(w.clients, a, t, m) <=>
          \E l : Holds(v.clients, a, t, l) /\ m = Later(l, -1)

(* The same, of all clients of an interval.                                *)
LEMMA IntervalTickIs ==
  ASSUME NEW v \in Intervals, OneEach(v.clients)
  PROVE  Ticked(v, IntervalTick(v))
<1> DEFINE old == v.clients
           new == [j \in DOMAIN old |-> ClientTick(old[j])]
           d == Later(v.due, -MaxLate)
           w == [period |-> v.period, clients |-> new, due |-> d]
<1>1. /\ v = [period |-> v.period, clients |-> v.clients, due |-> v.due]
      /\ v.period \in Periods /\ v.due \in Int /\ old \in Seq(ClientRecs)
      /\ DOMAIN old = 1 .. Len(old) /\ Len(old) \in Nat
  BY DEF Intervals
<1>2. IntervalTick(v) = w
  <2>1. IntervalTick(v) = [v EXCEPT !.due = d, !.clients = new]
    BY DEF IntervalTick
  <2> QED BY <1>1, <2>1
<1>3. d \in Int
  BY <1>1, ServiceConfig DEF Later
<1>4. ASSUME NEW j \in DOMAIN old
      PROVE  /\ new[j] \in ClientRecs /\ new[j].addr = old[j].addr
             /\ new[j].left = Later(old[j].left, -1)
             /\ \A a, t : Has(new[j], a, t) <=> Has(old[j], a, t)
  <2>1. old[j] \in ClientRecs /\ new[j] = ClientTick(old[j])
    BY <1>1
  <2> HIDE DEF old, new
  <2> QED BY <2>1, ClientTickIs
<1>5. DOMAIN new = DOMAIN old
  OBVIOUS
<1>6. new \in Seq(ClientRecs)
  <2>1. new \in [1 .. Len(old) -> ClientRecs]
    BY <1>1, <1>4
  <2> HIDE DEF new
  <2> QED BY <1>1, <2>1
<1> HIDE DEF new, d
<1>7. w \in Intervals /\ w.clients = new /\ w.period = v.period
  BY <1>1, <1>3, <1>6 DEF Intervals
<1> HIDE DEF w
<1>8. OneEach(new)
  BY <1>4, <1>5 DEF OneEach
<1>9. \A a, t, m : Holds(new, a, t, m) <=> \E l : Holds(old, a, t, l) /\ m = Later(l, -1)
  BY <1>4, <1>5 DEF Holds
<1> QED BY <1>2, <1>7, <1>8, <1>9 DEF Ticked

(* The service a tick later.                                               *)
TimePassed(s, r) ==
    /\ Sound(r)
    /\ \A a, t, p, m : Promises(r, a, t, p, m) <=>
          \E l : Promises(s, a, t, p, l) /\ m = Later(l, -1)

(* A tick of the clock at a service.                                       *)
LEMMA TickIs ==
  ASSUME NEW s, Sound(s)
  PROVE  TimePassed(s, ServiceTick(s))
<1> DEFINE old == s.intervals
           new == [k \in DOMAIN old |-> IntervalTick(old[k])]
           r == [s EXCEPT !.intervals = new]
<1>1. /\ s \in Services /\ old \in Seq(Intervals)
      /\ DOMAIN old = 1 .. Len(old) /\ Len(old) \in Nat
      /\ \A k \in DOMAIN old : old[k] \in Intervals /\ OneEach(old[k].clients)
  <2>1. s \in Services
    BY DEF Sound
  <2>2. old \in Seq(Intervals) /\ DOMAIN old = 1 .. Len(old) /\ Len(old) \in Nat
    BY <2>1, Parts
  <2> QED BY <2>1, <2>2 DEF Sound
<1>2. r = ServiceTick(s)
  BY DEF ServiceTick
<1>3. ASSUME NEW k \in DOMAIN old
      PROVE  /\ new[k] \in Intervals /\ new[k].period = old[k].period /\ OneEach(new[k].clients)
             /\ \A a, t, m : Holds(new[k].clients, a, t, m) <=>
                   \E l : Holds(old[k].clients, a, t, l) /\ m = Later(l, -1)
  <2>1. old[k] \in Intervals /\ OneEach(old[k].clients) /\ new[k] = IntervalTick(old[k])
    BY <1>1
  <2> HIDE DEF old, new
  <2>2. Ticked(old[k], new[k])
    BY <2>1, IntervalTickIs
  <2> QED BY <2>2 DEF Ticked
<1>4. DOMAIN new = DOMAIN old
  OBVIOUS
<1>5. new \in Seq(Intervals)
  <2>1. new \in [1 .. Len(old) -> Intervals]
    BY <1>1, <1>3
  <2> HIDE DEF new
  <2> QED BY <1>1, <2>1
<1> HIDE DEF new
<1>6. r \in Services /\ r.intervals = new
  BY <1>1, <1>5, WithIntervals
<1> HIDE DEF r
<1>7. \A k \in DOMAIN old : \A a, t : Offers(new[k], a, t) => Offers(old[k], a, t)
  BY <1>3, OffersIs
<1>8. \A k, h \in DOMAIN new : new[k].period = new[h].period => k = h
  BY <1>3, <1>4 DEF Sound
<1>9. \A a, t : \A k, h \in DOMAIN new : Offers(new[k], a, t) /\ Offers(new[h], a, t) => k = h
  BY <1>4, <1>7 DEF Sound
<1>10. Sound(r)
  BY <1>3, <1>4, <1>6, <1>8, <1>9 DEF Sound
<1>11. ASSUME NEW a, NEW t, NEW p, NEW m
       PROVE  Promises(r, a, t, p, m) <=> \E l : Promises(s, a, t, p, l) /\ m = Later(l, -1)
  <2>1. ASSUME NEW k \in DOMAIN new, new[k].period = p, Holds(new[k].clients, a, t, m)
        PROVE  \E l : Promises(s, a, t, p, l) /\ m = Later(l, -1)
    <3>1. PICK l : Holds(old[k].clients, a, t, l) /\ m = Later(l, -1)
      BY <1>3, <1>4, <2>1
    <3>2. Promises(s, a, t, p, l)
      BY <1>3, <1>4, <2>1, <3>1 DEF Promises
    <3> QED BY <3>1, <3>2
  <2>2. ASSUME NEW l, Promises(s, a, t, p, l), m = Later(l, -1)
        PROVE  Promises(r, a, t, p, m)
    <3>1. PICK k \in DOMAIN old : old[k].period = p /\ Holds(old[k].clients, a, t, l)
      BY <2>2 DEF Promises
    <3>2. new[k].period = p /\ Holds(new[k].clients, a, t, m)
      BY <1>3, <2>2, <3>1
    <3> QED BY <1>4, <1>6, <3>2 DEF Promises
  <2> QED BY <2>1, <2>2, <1>6 DEF Promises
<1> QED BY <1>2, <1>10, <1>11 DEF TimePassed

----------------------------------------------------------------------------
(* The same of contracts.                                                  *)

(* What a contract consists of.                                            *)
LEMMA ContractTyped ==
  ASSUME NEW s, Sound(s), NEW a, NEW t
  PROVE  /\ Contract(s, a, t) = [period |-> Contract(s, a, t).period, left |-> Contract(s, a, t).left]
         /\ Contract(s, a, t).left \in Int /\ Contract(s, a, t).left \in -1 .. Duration
         /\ Contract(s, a, t).period \in Nat
<1>1. -1 \in -1 .. Duration
  BY UnicastConfig
<1>2. CASE Contract(s, a, t) = NoContract
  BY <1>1, <1>2 DEF NoContract
<1>3. CASE Contract(s, a, t) # NoContract
  BY <1>3, ContractCases, UnicastConfig
<1> QED BY <1>2, <1>3

(* Another's contract, and one for another type, after a request.          *)
LEMMA GivenContracts ==
  ASSUME NEW s, Sound(s), NEW r, NEW a, NEW type, NEW period, NEW duration,
         Given(s, r, a, type, period, duration)
  PROVE  /\ \A b, u : b # a => Contract(r, b, u) = Contract(s, b, u)
         /\ \A u : u # type => Contracts!Prolonged(Contract(s, a, u), Contract(r, a, u))
         /\ Contract(r, a, type).period = period
         /\ Contract(r, a, type).left >= duration
<1>1. Sound(r)
  BY DEF Given
<1>2. ASSUME NEW b, NEW u, b # a PROVE Contract(r, b, u) = Contract(s, b, u)
  <2>1. \A p, l : Promises(s, b, u, p, l) <=> Promises(r, b, u, p, l)
    BY <1>2 DEF Given
  <2> QED BY <1>1, <2>1, SameContract
<1>3. ASSUME NEW u, u # type
      PROVE  Contracts!Prolonged(Contract(s, a, u), Contract(r, a, u))
  <2> DEFINE c == Contract(s, a, u)
             d == Contract(r, a, u)
  <2>1. CASE \A p, l : ~Promises(s, a, u, p, l)
    <3>1. \A p, l : ~Promises(r, a, u, p, l)
      BY <1>3, <2>1 DEF Given
    <3>2. c = NoContract /\ d = NoContract
      BY <1>1, <2>1, <3>1, NoContractIs
    <3> QED BY <3>2 DEF Contracts!Prolonged, NoContract
  <2>2. CASE \E p, l : Promises(s, a, u, p, l)
    <3>1. /\ Promises(s, a, u, c.period, c.left) /\ c # NoContract
      BY <2>2, ContractCases
    <3>2. PICK m \in Int : m >= c.left /\ Promises(r, a, u, c.period, m)
      BY <1>3, <3>1 DEF Given
    <3>3. d = [period |-> c.period, left |-> m]
      BY <1>1, <3>2, ContractIs
    <3>5. m <= Duration
      BY <1>1, <3>2, <3>3, ContractTyped, UnicastConfig
    <3> HIDE DEF c, d
    <3>4. Contracts!Prolonged(c, d)
      BY <3>1, <3>2, <3>3, <3>5 DEF Contracts!Prolonged, Contracts!None, NoContract
    <3> QED BY <3>4 DEF c, d
  <2> QED BY <2>1, <2>2
<1>4. PICK m \in Int : m >= duration /\ Promises(r, a, type, period, m)
  BY DEF Given
<1>5. Contract(r, a, type) = [period |-> period, left |-> m]
  BY <1>1, <1>4, ContractIs
<1> QED BY <1>2, <1>3, <1>4, <1>5

(* What a denied request leaves.                                           *)
LEMMA DeniedContracts ==
  ASSUME NEW s, Sound(s), NEW r, NEW a, NEW type, NEW period \in Periods,
         Denied(s, r, a, type, period)
  PROVE  /\ \A b, u : ~(b = a /\ u = type) => Contract(r, b, u) = Contract(s, b, u)
         /\ Contract(r, a, type) = NoContract
         /\ Contract(s, a, type).period # period
<1>1. Sound(r)
  BY DEF Denied
<1>2. ASSUME NEW b, NEW u, ~(b = a /\ u = type) PROVE Contract(r, b, u) = Contract(s, b, u)
  <2>1. \A p, l : Promises(s, b, u, p, l) <=> Promises(r, b, u, p, l)
    BY <1>2 DEF Denied
  <2> QED BY <1>1, <2>1, SameContract
<1>3. Contract(r, a, type) = NoContract
  BY <1>1, NoContractIs DEF Denied
<1>4. Contract(s, a, type).period # period
  <2> DEFINE c == Contract(s, a, type)
  <2>1. c = NoContract \/ Promises(s, a, type, c.period, c.left)
    BY ContractCases
  <2>2. \A l : ~Promises(s, a, type, period, l)
    BY DEF Denied
  <2>3. NoContract.period # period
    BY ServiceConfig DEF NoContract
  <2> HIDE DEF c
  <2>4. c.period # period
    BY <2>1, <2>2, <2>3
  <2> QED BY <2>4 DEF c
<1> QED BY <1>2, <1>3, <1>4

(* What the timer leaves.                                                  *)
LEMMA EndedContracts ==
  ASSUME NEW s, Sound(s), NEW r, ContractsEnd(s, r), NEW a, NEW t
  PROVE  \/ Contract(r, a, t) = Contract(s, a, t)
         \/ Contract(s, a, t).left < 0 /\ Contract(r, a, t) = NoContract
<1> DEFINE c == Contract(s, a, t)
<1>1. Sound(r)
  BY DEF ContractsEnd
<1>2. CASE \A p, l : ~Promises(r, a, t, p, l)
  <2>1. Contract(r, a, t) = NoContract
    BY <1>1, <1>2, NoContractIs
  <2>2. c = NoContract \/ (c.left \in Int /\ Promises(s, a, t, c.period, c.left))
    BY ContractCases, UnicastConfig
  <2>3. c = NoContract \/ c.left < 0
    BY <2>2, <1>2 DEF ContractsEnd
  <2> QED BY <2>1, <2>3
<1>3. CASE \E p, l : Promises(r, a, t, p, l)
  <2>1. PICK p, l : Promises(r, a, t, p, l)
    BY <1>3
  <2>2. Promises(s, a, t, p, l)
    BY <2>1 DEF ContractsEnd
  <2> QED BY <1>1, <2>1, <2>2, ContractIs
<1> QED BY <1>2, <1>3

(* What a tick leaves.                                                     *)
LEMMA PassedContracts ==
  ASSUME NEW s, Sound(s), NEW r, TimePassed(s, r), NEW a, NEW t
  PROVE  Contract(r, a, t) = Contracts!Passed(Contract(s, a, t))
<1> DEFINE c == Contract(s, a, t)
<1>1. Sound(r)
  BY DEF TimePassed
<1>2. CASE \A p, l : ~Promises(s, a, t, p, l)
  <2>1. \A p, l : ~Promises(r, a, t, p, l)
    BY <1>2 DEF TimePassed
  <2>2. c = NoContract /\ Contract(r, a, t) = NoContract
    BY <1>1, <1>2, <2>1, NoContractIs
  <2> QED BY <2>2 DEF Contracts!Passed, NoContract
<1>3. CASE \E p, l : Promises(s, a, t, p, l)
  <2>1. /\ Promises(s, a, t, c.period, c.left) /\ c = [period |-> c.period, left |-> c.left]
        /\ c.left \in -1 .. Duration
    BY <1>3, ContractCases
  <2>2. Promises(r, a, t, c.period, Later(c.left, -1))
    BY <2>1 DEF TimePassed
  <2>3. Contract(r, a, t) = [period |-> c.period, left |-> Later(c.left, -1)]
    BY <1>1, <2>2, ContractIs
  <2> HIDE DEF c
  <2>4. Later(c.left, -1) = IF c.left >= 0 THEN c.left - 1 ELSE -1
    BY <2>1, UnicastConfig DEF Later
  <2>5. Contracts!Passed(c) = [period |-> c.period, left |-> Later(c.left, -1)]
    BY <2>1, <2>4 DEF Contracts!Passed
  <2> QED BY <2>3, <2>5 DEF c
<1> QED BY <1>2, <1>3


----------------------------------------------------------------------------
(* A request of the client at a service.                                   *)

(* The client has its contracts in the intervals it asks for.              *)
Agreed(s) ==
    \A t \in Served :
        Contract(s, Client, t) # NoContract => Contract(s, Client, t).period = PeriodOf(t)

(* A contract lasts as long as before, or is granted anew.                 *)
Better(c, n) ==
    \/ n.period = c.period /\ n.left >= c.left /\ (c = NoContract => n = NoContract)
    \/ n.period \in Periods /\ n.left >= Duration

(* So do all contracts of the client, and others keep theirs.              *)
AllBetter(s, r) ==
    /\ Sound(r) /\ Agreed(r)
    /\ \A b, u : b # Client => Contract(r, b, u) = Contract(s, b, u)
    /\ \A u \in Served : Better(Contract(s, Client, u), Contract(r, Client, u))

(* Better is a preorder on contracts.                                      *)
LEMMA BetterTwice ==
  ASSUME NEW c, NEW n, NEW o, c.left \in Int, n.left \in Int, o.left \in Int,
         Better(c, n), Better(n, o)
  PROVE  Better(c, o)
BY UnicastConfig DEF Better

(* The same of services.                                                   *)
LEMMA AllBetterTwice ==
  ASSUME NEW s, Sound(s), NEW r, NEW q, AllBetter(s, r), AllBetter(r, q)
  PROVE  AllBetter(s, q)
<1>1. Sound(r) /\ Sound(q) /\ Agreed(q)
  BY DEF AllBetter
<1>2. \A b, u : b # Client => Contract(q, b, u) = Contract(s, b, u)
  BY DEF AllBetter
<1>3. ASSUME NEW u \in Served PROVE Better(Contract(s, Client, u), Contract(q, Client, u))
  <2>1. Better(Contract(s, Client, u), Contract(r, Client, u)) /\ Better(Contract(r, Client, u), Contract(q, Client, u))
    BY DEF AllBetter
  <2>2. /\ Contract(s, Client, u).left \in Int /\ Contract(r, Client, u).left \in Int
        /\ Contract(q, Client, u).left \in Int
    BY <1>1, ContractTyped
  <2> QED BY <2>1, <2>2, BetterTwice
<1> QED BY <1>1, <1>2, <1>3 DEF AllBetter

(* A service is as good as itself.                                         *)
LEMMA AllBetterSame ==
  ASSUME NEW s, Sound(s), Agreed(s)
  PROVE  AllBetter(s, s)
<1>1. \A u : Contract(s, Client, u).left \in Int
  BY ContractTyped
<1> QED BY <1>1 DEF AllBetter, Better

(* A TLV of a request: a denial leaves the client what it has, for it has  *)
(* the type in the interval it asks for or not at all.                     *)
LEMMA ServeIs ==
  ASSUME NEW s, Sound(s), Agreed(s), NEW type \in Types, NEW memory \in BOOLEAN
  PROVE  /\ AllBetter(s, Serve(s, type, memory))
         /\ type \in Served /\ Grants(s, Client, PeriodOf(type), memory) =>
               Contract(Serve(s, type, memory), Client, type).left >= Duration
<1> DEFINE r == Serve(s, type, memory)
           p == PeriodOf(type)
           c(u) == Contract(s, Client, u)
           d(u) == Contract(r, Client, u)
<1>1. CASE type \notin Served
  <2>1. r = s
    BY <1>1 DEF Serve
  <2> QED BY <1>1, <2>1, AllBetterSame
<1>2. CASE type \in Served
  <2>1. /\ r = unicast_service_add(s, Client, type, p, Duration, memory)
        /\ p \in Periods /\ Client \in Addrs /\ Duration \in 0 .. Duration /\ Duration \in Nat
    BY <1>2, UnicastConfig DEF Serve, PeriodOf
  <2>2. IF Grants(s, Client, p, memory) THEN Given(s, r, Client, type, p, Duration)
                                        ELSE Denied(s, r, Client, type, p)
    <3> HIDE DEF p, r
    <3> QED BY <1>2, <2>1, AddIs
  <2>3. CASE Grants(s, Client, p, memory)
    <3>1. Given(s, r, Client, type, p, Duration)
      BY <2>2, <2>3
    <3>2. Sound(r)
      BY <3>1 DEF Given
    <3> HIDE DEF r, p
    <3>3. /\ \A b, u : b # Client => Contract(r, b, u) = Contract(s, b, u)
          /\ \A u : u # type => Contracts!Prolonged(c(u), d(u))
          /\ d(type).period = p
          /\ d(type).left >= Duration
      BY <3>1, GivenContracts
    <3>4. ASSUME NEW u \in Served PROVE Better(c(u), d(u))
      <4>1. CASE u = type
        BY <4>1, <3>3, <2>1 DEF Better
      <4>2. CASE u # type
        BY <4>2, <3>3 DEF Better, Contracts!Prolonged, Contracts!None, NoContract
      <4> QED BY <4>1, <4>2
    <3>5. ASSUME NEW u \in Served, d(u) # NoContract PROVE d(u).period = PeriodOf(u)
      <4>1. CASE u = type
        BY <4>1, <3>3 DEF p
      <4>2. CASE u # type
        <5>1. d(u).period = c(u).period /\ c(u) # NoContract
          BY <4>2, <3>3, <3>5 DEF Contracts!Prolonged, Contracts!None, NoContract
        <5> QED BY <5>1 DEF Agreed
      <4> QED BY <4>1, <4>2
    <3>6. AllBetter(s, r)
      BY <3>2, <3>3, <3>4, <3>5 DEF AllBetter, Agreed
    <3> QED BY <3>3, <3>6 DEF r
  <2>4. CASE ~Grants(s, Client, p, memory)
    <3>1. Denied(s, r, Client, type, p)
      BY <2>2, <2>4
    <3>2. Sound(r)
      BY <3>1 DEF Denied
    <3> HIDE DEF r
    <3>3. /\ \A b, u : ~(b = Client /\ u = type) => Contract(r, b, u) = Contract(s, b, u)
          /\ d(type) = NoContract
          /\ c(type).period # p
      <4> HIDE DEF p
      <4> QED BY <3>1, <2>1, DeniedContracts
    <3>4. c(type) = NoContract
      BY <1>2, <3>3 DEF Agreed
    <3>5. \A b, u : Contract(r, b, u) = Contract(s, b, u)
      BY <3>3, <3>4
    <3>6. \A u : c(u).left \in Int
      BY ContractTyped
    <3>7. AllBetter(s, r)
      BY <3>2, <3>5, <3>6 DEF AllBetter, Better, Agreed
    <3> QED BY <2>4, <3>7 DEF r
  <2> QED BY <2>3, <2>4
<1> QED BY <1>1, <1>2

(* The services after the first n TLVs of a request.                       *)
Serving(f, s, types, memory, n) ==
    f = [i \in 0 .. n |-> IF i = 0 THEN s ELSE Serve(f[i - 1], types[i], memory)]

(* They exist.                                                             *)
LEMMA ServingExists ==
  ASSUME NEW s, NEW types, NEW memory, NEW len \in Nat
  PROVE  \E f : Serving(f, s, types, memory, len)
<1> DEFINE T == {n \in Nat : ~\E f : Serving(f, s, types, memory, n)}
           Step(k, l) == IF k = 0 THEN s ELSE Serve(l, types[k], memory)
<1>1. SUFFICES ASSUME T # {} PROVE FALSE
  OBVIOUS
<1>2. PICK m \in T : \A n \in T : m <= n
  <2>1. T \in SUBSET Nat
    OBVIOUS
  <2> HIDE DEF T
  <2> QED BY <2>1, <1>1, Least
<1>3. CASE m = 0
  <2> DEFINE f == [k \in 0 .. 0 |-> s]
  <2>1. Serving(f, s, types, memory, 0)
    BY DEF Serving
  <2> QED BY <2>1, <1>3
<1>4. CASE m # 0
  <2>1. m \in Nat /\ m - 1 \in Nat /\ m - 1 \notin T
    BY <1>2, <1>4
  <2>2. PICK g : Serving(g, s, types, memory, m - 1)
    BY <2>1
  <2> DEFINE f == [k \in 0 .. m |-> IF k = m THEN Step(m, g[m - 1]) ELSE g[k]]
  <2>3. ASSUME NEW k \in 0 .. m PROVE f[k] = Step(k, f[k - 1])
    <3>1. CASE k = m
      <4>1. f[k] = Step(m, g[m - 1]) /\ f[k - 1] = g[m - 1]
        BY <3>1, <2>1, <1>4
      <4> HIDE DEF f, Step
      <4> QED BY <4>1, <3>1
    <3>2. CASE k # m
      <4>1. k \in 0 .. m - 1 /\ f[k] = g[k]
        BY <3>2, <2>1
      <4>2. g[k] = Step(k, g[k - 1])
        BY <4>1, <2>2 DEF Serving
      <4>3. k # 0 => f[k - 1] = g[k - 1]
        BY <4>1, <2>1
      <4>4. k = 0 => Step(k, f[k - 1]) = Step(k, g[k - 1])
        OBVIOUS
      <4> HIDE DEF f, Step
      <4> QED BY <4>1, <4>2, <4>3, <4>4
    <3> QED BY <3>1, <3>2
  <2>4. Serving(f, s, types, memory, m)
    <3>1. f = [k \in 0 .. m |-> f[k]]
      OBVIOUS
    <3> HIDE DEF f
    <3>2. f = [k \in 0 .. m |-> Step(k, f[k - 1])]
      BY <3>1, <2>3
    <3> QED BY <3>2, Zenon DEF Serving
  <2> QED BY <2>4
<1> QED BY <1>3, <1>4

(* All that a request does for the client is for the better.               *)
LEMMA ServingIs ==
  ASSUME NEW s, Sound(s), Agreed(s), NEW types \in Seq(Types), NEW memory \in BOOLEAN,
         NEW f, Serving(f, s, types, memory, Len(types))
  PROVE  /\ f[0] = s
         /\ \A i \in 0 .. Len(types) : \A j \in 0 .. i : AllBetter(f[j], f[i])
<1> DEFINE Good(i) == \A j \in 0 .. i : AllBetter(f[j], f[i])
           T == {i \in Nat : i <= Len(types) /\ ~Good(i)}
<1>1. Len(types) \in Nat /\ \A i \in 1 .. Len(types) : types[i] \in Types
  OBVIOUS
<1>2. f[0] = s
  BY <1>1 DEF Serving
<1>3. SUFFICES ASSUME T # {} PROVE FALSE
  BY <1>1, <1>2
<1>4. PICK m \in T : \A n \in T : m <= n
  <2>1. T \in SUBSET Nat
    OBVIOUS
  <2> HIDE DEF T
  <2> QED BY <2>1, <1>3, Least
<1>5. m # 0
  BY <1>2, <1>4, AllBetterSame
<1>6. m - 1 \in Nat /\ m - 1 <= Len(types) /\ m \in 1 .. Len(types) /\ Good(m - 1)
  BY <1>1, <1>4, <1>5
<1>7. f[m] = Serve(f[m - 1], types[m], memory)
  BY <1>1, <1>6 DEF Serving
<1>8. AllBetter(f[m - 1], f[m - 1])
  BY <1>6
<1>9. Sound(f[m - 1]) /\ Agreed(f[m - 1])
  BY <1>8 DEF AllBetter
<1>10. AllBetter(f[m - 1], f[m])
  BY <1>1, <1>6, <1>7, <1>9, ServeIs
<1>11. ASSUME NEW j \in 0 .. m PROVE AllBetter(f[j], f[m])
  <2>1. CASE j = m
    <3>1. Sound(f[m]) /\ Agreed(f[m])
      BY <1>10 DEF AllBetter
    <3> QED BY <2>1, <3>1, AllBetterSame
  <2>2. CASE j # m
    <3>1. j \in 0 .. m - 1
      BY <2>2, <1>6
    <3>2. AllBetter(f[j], f[m - 1]) /\ AllBetter(f[0], f[m - 1])
      BY <1>6, <3>1
    <3>3. Sound(f[j])
      <4>1. CASE j = 0
        BY <4>1, <1>2
      <4>2. CASE j # 0
        <5>1. j \in Nat /\ j < m /\ j \notin T
          BY <3>1, <1>4
        <5>2. Good(j)
          BY <5>1, <1>6
        <5>3. AllBetter(f[j], f[j])
          BY <5>1, <5>2
        <5> QED BY <5>3 DEF AllBetter
      <4> QED BY <4>1, <4>2
    <3> QED BY <1>10, <3>2, <3>3, AllBetterTwice
  <2> QED BY <2>1, <2>2
<1> QED BY <1>4, <1>11

(* And what was granted lasts to the end of the request.                   *)
LEMMA ServingGrants ==
  ASSUME NEW s, Sound(s), Agreed(s), NEW types \in Seq(Types), NEW memory \in BOOLEAN,
         NEW f, Serving(f, s, types, memory, Len(types)), NEW i \in 1 .. Len(types),
         types[i] \in Served, Grants(f[i - 1], Client, PeriodOf(types[i]), memory)
  PROVE  Contract(f[Len(types)], Client, types[i]).left >= Duration
<1>1. /\ Len(types) \in Nat /\ types[i] \in Types /\ i - 1 \in 0 .. Len(types)
      /\ i \in 0 .. Len(types) /\ Len(types) \in 0 .. Len(types)
  OBVIOUS
<1>2. AllBetter(f[i - 1], f[i - 1]) /\ AllBetter(f[i], f[i]) /\ AllBetter(f[i], f[Len(types)])
  BY <1>1, ServingIs
<1>3. Sound(f[i - 1]) /\ Agreed(f[i - 1]) /\ Sound(f[i]) /\ Sound(f[Len(types)])
  BY <1>2 DEF AllBetter
<1>4. f[i] = Serve(f[i - 1], types[i], memory)
  BY <1>1 DEF Serving
<1>5. Contract(f[i], Client, types[i]).left >= Duration
  BY <1>1, <1>3, <1>4, ServeIs
<1>6. /\ Contract(f[i], Client, types[i]).left \in Int
      /\ Contract(f[Len(types)], Client, types[i]).left \in Int
  BY <1>3, ContractTyped
<1>7. Better(Contract(f[i], Client, types[i]), Contract(f[Len(types)], Client, types[i]))
  BY <1>2 DEF AllBetter
<1> QED BY <1>5, <1>6, <1>7, UnicastConfig DEF Better

(* What the rounds f of a request do.                                      *)
Received(f, n, keep, memory) ==
    /\ Serving(f, srv[n.to], n.types, memory, Len(n.types))
    /\ srv' = [srv EXCEPT ![n.to] = f[Len(n.types)]]
    /\ net' = Send(Delivered(n, keep),
                   {Answer(n.to, f[i - 1], n.types[i], memory) : i \in 1 .. Len(n.types)})

(* The rounds of ServiceReceives.                                          *)
LEMMA ReceivesRounds ==
  ASSUME NEW n, NEW keep, NEW memory, ServiceReceives(n, keep, memory), Len(n.types) \in Nat
  PROVE  \E f : Received(f, n, keep, memory)
<1> DEFINE F == CHOOSE f : f = [i \in 0 .. Len(n.types) |->
                    IF i = 0 THEN srv[n.to] ELSE Serve(f[i - 1], n.types[i], memory)]
<1>1. /\ srv' = [srv EXCEPT ![n.to] = F[Len(n.types)]]
      /\ net' = Send(Delivered(n, keep),
             {Answer(n.to, F[i - 1], n.types[i], memory) : i \in 1 .. Len(n.types)})
  BY DEF ServiceReceives
<1>2. \E f : Serving(f, srv[n.to], n.types, memory, Len(n.types))
  BY ServingExists
<1>3. F = [i \in 0 .. Len(n.types) |->
                    IF i = 0 THEN srv[n.to] ELSE Serve(F[i - 1], n.types[i], memory)]
  BY <1>2, Zenon DEF Serving
<1> HIDE DEF F
<1>4. Serving(F, srv[n.to], n.types, memory, Len(n.types))
  BY <1>3, Zenon DEF Serving
<1>5. Received(F, n, keep, memory)
  BY <1>1, <1>4 DEF Received
<1> QED BY <1>5

----------------------------------------------------------------------------
(* The client and the network.                                             *)

States == {"WAIT", "HAVE_ANN", "NEED_SYDY", "HAVE_SYDY"}

Entries == [state : States, granted : SUBSET Types, renewal : -1 .. Duration, known : BOOLEAN]

Requests == [to : Masters, kind : {"REQUEST"}, types : Seq(Types)]

Answers == [to : {Client}, from : Masters, kind : {"GRANT"}, type : Types, duration : {0, Duration}]

(* The machine has states only.                                            *)
LEMMA FsmTyped ==
  ASSUME NEW s \in States, NEW e
  PROVE  unicast_fsm(s, e) \in States
BY Zenon DEF unicast_fsm, States

(* An entry of the table in another state, or with another time.           *)
LEMMA EntryWith ==
  ASSUME NEW u \in Entries
  PROVE  /\ u.state \in States /\ u.granted \in SUBSET Types /\ u.known \in BOOLEAN
         /\ u.renewal \in -1 .. Duration
         /\ u = [state |-> u.state, granted |-> u.granted, renewal |-> u.renewal, known |-> u.known]
         /\ \A s \in States : [u EXCEPT !.state = s] \in Entries
                              /\ [u EXCEPT !.state = s].renewal = u.renewal
         /\ \A n \in -1 .. Duration : [u EXCEPT !.renewal = n] \in Entries
                                      /\ [u EXCEPT !.renewal = n].renewal = n
BY DEF Entries

(* Asked forgets the time or nothing.                                      *)
LEMMA AskedIs ==
  ASSUME NEW u \in Entries
  PROVE  Asked(u) \in Entries /\ Asked(u).renewal \in {-1, u.renewal}
<1>1. -1 \in -1 .. Duration
  BY UnicastConfig
<1> QED BY <1>1, EntryWith DEF Asked

(* What it asks for has types.                                             *)
LEMMA WantedIs ==
  ASSUME NEW u
  PROVE  Wanted(u) \in Seq(Types)
<1>1. <<"ANNOUNCE">> \in Seq(Types) /\ <<>> \in Seq(Types)
  BY DEF Types
<1>2. Sydy \in Seq(Types)
  <2>1. <<"SYNC">> \in Seq(Types) /\ <<"SYNC", "DELAY_RESP">> \in Seq(Types)
    BY DEF Types
  <2> QED BY <2>1 DEF Sydy
<1>3. <<"ANNOUNCE">> \o Sydy \in Seq(Types)
  BY <1>1, <1>2
<1> HIDE DEF Sydy, Types
<1>4. Wanted(u) \in {<<"ANNOUNCE">>, <<>>, Sydy, <<"ANNOUNCE">> \o Sydy}
  BY Zenon DEF Wanted
<1> QED BY <1>1, <1>2, <1>3, <1>4

(* A time granted is renewed within this time.                             *)
RenewedWithin(u, w, duration) ==
    w \in Entries /\ (w.renewal = u.renewal \/ w.renewal <= duration)

(* unicast_client_set_renewal.                                             *)
LEMMA RenewalIs ==
  ASSUME NEW u \in Entries
  PROVE  RenewedWithin(u, Renewal(u, Duration), Duration)
<1> DEFINE tmo == (3 * Duration) \div 4
<1>1. tmo \in -1 .. Duration /\ tmo <= Duration
  BY UnicastConfig
<1> HIDE DEF tmo
<1>2. [u EXCEPT !.renewal = tmo] \in Entries /\ [u EXCEPT !.renewal = tmo].renewal = tmo
  BY <1>1, EntryWith
<1>3. Renewal(u, Duration) = [u EXCEPT !.renewal = tmo] \/ Renewal(u, Duration) = u
  BY DEF Renewal, tmo
<1> QED BY <1>1, <1>2, <1>3 DEF RenewedWithin

(* unicast_client_grant.                                                   *)
LEMMA ClientGrantIs ==
  ASSUME NEW u \in Entries, NEW type \in Types, NEW duration \in {0, Duration}
  PROVE  LET w == unicast_client_grant(u, type, duration)
         IN  /\ w \in Entries
             /\ w.renewal = u.renewal \/
                   /\ duration = Duration /\ w.renewal <= Duration
                   /\ DelayMechanism = "P2P" => type \in Served
<1> DEFINE w == unicast_client_grant(u, type, duration)
           g == [u EXCEPT !.granted = @ \cup {type}]
           h == [g EXCEPT !.state = unicast_fsm(@, "GRANT_ANN"), !.known = TRUE]
           i == [g EXCEPT !.state = IF sydymsk \subseteq g.granted
                                    THEN unicast_fsm(@, "GRANT_SYDY") ELSE @]
<1>1. CASE duration = 0
  <2>1. w = [u EXCEPT !.state = "WAIT"]
    BY <1>1 DEF unicast_client_grant
  <2>2. "WAIT" \in States
    BY DEF States
  <2> HIDE DEF w
  <2>3. w \in Entries /\ w.renewal = u.renewal
    BY <2>1, <2>2, EntryWith
  <2> QED BY <2>3 DEF w
<1>2. CASE duration # 0 /\ DelayMechanism = "P2P" /\ type = "DELAY_RESP"
  BY <1>2 DEF unicast_client_grant
<1>3. CASE duration # 0 /\ ~(DelayMechanism = "P2P" /\ type = "DELAY_RESP")
  <2>1. duration = Duration /\ (DelayMechanism = "P2P" => type \in Served)
    BY <1>3 DEF Types, Served
  <2>2. /\ u.state \in States /\ u.granted \in SUBSET Types /\ u.known \in BOOLEAN
        /\ u.renewal \in -1 .. Duration
        /\ u = [state |-> u.state, granted |-> u.granted, renewal |-> u.renewal, known |-> u.known]
    BY EntryWith
  <2>3. g \in Entries /\ g.renewal = u.renewal /\ g.state = u.state
    BY <2>2 DEF Entries
  <2>4. h \in Entries /\ h.renewal = u.renewal
    <3>1. unicast_fsm(g.state, "GRANT_ANN") \in States
      BY <2>2, <2>3, FsmTyped
    <3> HIDE DEF g
    <3> QED BY <2>3, <3>1 DEF Entries
  <2>5. i \in Entries /\ i.renewal = u.renewal
    <3>1. unicast_fsm(g.state, "GRANT_SYDY") \in States /\ g.state \in States
      BY <2>2, <2>3, FsmTyped
    <3> HIDE DEF g
    <3> QED BY <2>3, <3>1 DEF Entries
  <2>6. w = WithGrant(g, type, Duration)
    BY <1>3, <2>1 DEF unicast_client_grant
  <2> HIDE DEF g, w
  <2>7. w \in {Renewal(h, Duration), Renewal(i, Duration), Renewal(g, Duration), g}
    <3>1. AnnounceGranted(g, Duration) = Renewal(h, Duration)
      BY DEF AnnounceGranted
    <3>2. SydyGranted(g, Duration) = Renewal(i, Duration)
      BY DEF SydyGranted
    <3> HIDE DEF h, i
    <3>3. w = AnnounceGranted(g, Duration) \/ w = SydyGranted(g, Duration)
          \/ w = Renewal(g, Duration) \/ w = g
      BY <2>6, Zenon DEF WithGrant
    <3> QED BY <3>1, <3>2, <3>3
  <2> HIDE DEF h, i
  <2>8. RenewedWithin(h, Renewal(h, Duration), Duration)
    BY <2>4, RenewalIs
  <2>9. RenewedWithin(i, Renewal(i, Duration), Duration)
    BY <2>5, RenewalIs
  <2>10. RenewedWithin(g, Renewal(g, Duration), Duration)
    BY <2>3, RenewalIs
  <2>11. w \in Entries /\ (w.renewal = u.renewal \/ w.renewal <= Duration)
    BY <2>3, <2>4, <2>5, <2>7, <2>8, <2>9, <2>10 DEF RenewedWithin
  <2> QED BY <2>1, <2>11 DEF w
<1> QED BY <1>1, <1>2, <1>3

(* The entries keep their times.                                           *)
SameTimes(new) ==
    new \in [Masters -> Entries] /\ \A m \in Masters : new[m].renewal = cli[m].renewal

(* unicast_client_state_changed, and a port that moves.                    *)
LEMMA StateChangedIs ==
  ASSUME cli \in [Masters -> Entries], NEW parent
  PROVE  SameTimes(unicast_client_state_changed(parent))
<1> DEFINE e(m) == IF cli[m].known /\ m = parent THEN "SELECTED" ELSE "UNSELECTED"
           s(m) == unicast_fsm(cli[m].state, e(m))
           new == [m \in Masters |-> [cli[m] EXCEPT !.state = s(m)]]
<1>1. unicast_client_state_changed(parent) = new
  BY DEF unicast_client_state_changed
<1>2. ASSUME NEW m \in Masters PROVE s(m) \in States
  <2>1. cli[m].state \in States
    BY EntryWith
  <2> HIDE DEF e
  <2> QED BY <2>1, FsmTyped
<1> HIDE DEF s
<1>3. ASSUME NEW m \in Masters
      PROVE  [cli[m] EXCEPT !.state = s(m)] \in Entries
             /\ [cli[m] EXCEPT !.state = s(m)].renewal = cli[m].renewal
  BY <1>2, EntryWith
<1> QED BY <1>1, <1>3 DEF SameTimes

(* The same.                                                               *)
LEMMA MovedIs ==
  ASSUME cli \in [Masters -> Entries], NEW s, NEW parent, Moved(s, parent)
  PROVE  SameTimes(cli') /\ port'.parent = parent
<1>1. SameTimes(cli)
  BY DEF SameTimes
<1>2. cli' \in {cli, unicast_client_state_changed(parent)}
  BY DEF Moved
<1> QED BY <1>1, <1>2, StateChangedIs DEF Moved

(* What the network can hold.                                              *)
Network(n) == n \subseteq Requests \cup Answers /\ IsFiniteSet(n) /\ Cardinality(n) <= MaxInFlight

(* It loses what it cannot.                                                *)
LEMMA SendIs ==
  ASSUME NEW n, Network(n), NEW messages, messages \subseteq Requests \cup Answers,
         IsFiniteSet(messages)
  PROVE  Network(Send(n, messages)) /\ Send(n, messages) \subseteq n \cup messages
<1>1. IsFiniteSet(n \cup messages)
  BY FS_Union DEF Network
<1> QED BY <1>1 DEF Network, Send

(* And what is taken from it.                                              *)
LEMMA FewerIs ==
  ASSUME NEW n, Network(n), NEW k, k \subseteq n
  PROVE  Network(k)
<1>1. IsFiniteSet(k) /\ Cardinality(k) <= Cardinality(n)
  BY FS_Subset DEF Network
<1>2. Cardinality(k) \in Nat /\ Cardinality(n) \in Nat
  BY <1>1, FS_CardinalityType DEF Network
<1> QED BY <1>1, <1>2, UnicastConfig DEF Network

----------------------------------------------------------------------------
(* The inductive invariant.                                                *)

Tables ==
    /\ cli \in [Masters -> Entries]
    /\ query \in 0 .. Query
    /\ port.parent \in Masters \cup {NoMaster}

(* While the client negotiates nobody else asks for other intervals.       *)
SoundServices ==
    /\ srv \in [Masters -> Services]
    /\ \A m \in Masters : Sound(srv[m]) /\ (scenario = "CLIENT" => Agreed(srv[m]))

(* Otherwise it has nothing to wait for.                                   *)
Idle == scenario # "CLIENT" => net = {} /\ \A m \in Masters : cli[m].renewal = -1

(* A grant under way is one the service keeps.                             *)
GrantsHold ==
    \A n \in net :
        n.kind = "GRANT" /\ n.duration > 0 /\ n.type \in Served =>
            Contract(srv[n.from], Client, n.type).left >= n.duration

IInv == Tables /\ SoundServices /\ Network(net) /\ Idle /\ GrantsHold

(* A service does not forget what the client has.                          *)
Lasts(s, r) ==
    \A t \in Served : \A l \in 1 .. Duration :
        Contract(s, Client, t).left >= l => Contract(r, Client, t).left >= l

(* An answer under way.                                                    *)
LEMMA AnswerParts ==
  ASSUME Network(net), NEW n \in net
  PROVE  /\ n.kind = "GRANT" => /\ n \in Answers /\ n.from \in Masters /\ n.type \in Types
                                /\ n.duration \in {0, Duration}
                                /\ n.duration > 0 => n.duration \in 1 .. Duration
         /\ n.kind = "REQUEST" => n \in Requests /\ n.to \in Masters /\ n.types \in Seq(Types)
<1>1. n \in Requests \/ n \in Answers
  BY DEF Network
<1>2. CASE n \in Requests
  BY <1>2 DEF Requests
<1>3. CASE n \in Answers
  <2>1. n.kind = "GRANT" /\ n.from \in Masters /\ n.type \in Types /\ n.duration \in {0, Duration}
    BY <1>3 DEF Answers
  <2>2. n.duration > 0 => n.duration \in 1 .. Duration
    BY <2>1, UnicastConfig
  <2> QED BY <1>3, <2>1, <2>2
<1> QED BY <1>1, <1>2, <1>3

(* A step of the client alone that leaves the times.                       *)
LEMMA ClientStep ==
  ASSUME IInv, SameTimes(cli'), query' \in 0 .. Query, port'.parent \in Masters \cup {NoMaster},
         UNCHANGED <<scenario, srv, net>>
  PROVE  IInv'
<1>1. Tables'
  BY DEF SameTimes, Tables
<1>2. SoundServices' /\ Network(net)'
  BY DEF IInv, SoundServices
<1>3. Idle'
  BY DEF IInv, Idle, SameTimes
<1>4. GrantsHold'
  BY DEF IInv, GrantsHold
<1> QED BY <1>1, <1>2, <1>3, <1>4 DEF IInv

(* A step of a service alone.                                              *)
LEMMA ServiceStep ==
  ASSUME IInv, NEW m \in Masters, NEW r, Sound(r), srv' = [srv EXCEPT ![m] = r],
         scenario = "CLIENT" => Agreed(r) /\ Lasts(srv[m], r),
         UNCHANGED <<scenario, cli, query, port, net>>
  PROVE  IInv'
<1>1. Tables'
  BY DEF IInv, Tables
<1>2. /\ \A k \in Masters : srv'[k] = IF k = m THEN r ELSE srv[k]
      /\ srv' \in [Masters -> Services] /\ srv[m] \in Services
  BY DEF IInv, SoundServices, Sound
<1>3. SoundServices'
  BY <1>2 DEF IInv, SoundServices
<1>4. Network(net)' /\ Idle'
  BY DEF IInv, Idle
<1>5. ASSUME NEW n \in net', n.kind = "GRANT", n.duration > 0, n.type \in Served
      PROVE  Contract(srv'[n.from], Client, n.type).left >= n.duration
  <2>1. n \in net /\ n.from \in Masters /\ n.duration \in 1 .. Duration
    BY <1>5, AnswerParts DEF IInv
  <2>2. Contract(srv[n.from], Client, n.type).left >= n.duration
    BY <1>5, <2>1 DEF IInv, GrantsHold
  <2>3. scenario = "CLIENT"
    BY <2>1 DEF IInv, Idle
  <2> QED BY <1>2, <1>5, <2>1, <2>2, <2>3 DEF Lasts
<1>6. GrantsHold'
  BY <1>5 DEF GrantsHold
<1> QED BY <1>1, <1>3, <1>4, <1>6 DEF IInv

(* What is better lasts.                                                   *)
LEMMA BetterLasts ==
  ASSUME NEW s, Sound(s), NEW r, AllBetter(s, r)
  PROVE  Lasts(s, r)
<1> SUFFICES ASSUME NEW t \in Served, NEW l \in 1 .. Duration, Contract(s, Client, t).left >= l
             PROVE  Contract(r, Client, t).left >= l
  BY DEF Lasts
<1>1. Sound(r) /\ Better(Contract(s, Client, t), Contract(r, Client, t))
  BY DEF AllBetter
<1>2. Contract(s, Client, t).left \in Int /\ Contract(r, Client, t).left \in Int
  BY <1>1, ContractTyped
<1> QED BY <1>1, <1>2, UnicastConfig DEF Better

(* The timer of a service takes nothing that lasts.                        *)
LEMMA TimerLasts ==
  ASSUME NEW s, Sound(s), NEW master
  PROVE  LET r == unicast_service_timer(s, master)
         IN  Sound(r) /\ Lasts(s, r) /\ (Agreed(s) => Agreed(r))
<1> DEFINE r == unicast_service_timer(s, master)
<1>1. ContractsEnd(s, r)
  BY TimerIs
<1> HIDE DEF r
<1>2. Sound(r)
  BY <1>1 DEF ContractsEnd
<1>3. \A t : \/ Contract(r, Client, t) = Contract(s, Client, t)
             \/ Contract(s, Client, t).left < 0 /\ Contract(r, Client, t) = NoContract
  BY <1>1, EndedContracts
<1>4. \A t : Contract(s, Client, t).left \in Int
  BY ContractTyped
<1>5. Lasts(s, r)
  BY <1>3, <1>4, UnicastConfig DEF Lasts
<1>6. Agreed(s) => Agreed(r)
  BY <1>3 DEF Agreed
<1>7. Sound(r) /\ Lasts(s, r) /\ (Agreed(s) => Agreed(r))
  BY <1>2, <1>5, <1>6
<1> QED BY <1>7 DEF r

(* A tick leaves the client its contracts, a tick shorter.                 *)
LEMMA TickLasts ==
  ASSUME NEW s, Sound(s)
  PROVE  LET r == ServiceTick(s)
         IN  /\ Sound(r) /\ (Agreed(s) => Agreed(r))
             /\ \A a, t : Contract(r, a, t) = Contracts!Passed(Contract(s, a, t))
<1> DEFINE r == ServiceTick(s)
<1>1. TimePassed(s, r)
  BY TickIs
<1> HIDE DEF r
<1>2. Sound(r)
  BY <1>1 DEF TimePassed
<1>3. \A a, t : Contract(r, a, t) = Contracts!Passed(Contract(s, a, t))
  BY <1>1, PassedContracts
<1>4. ASSUME Agreed(s), NEW t \in Served, Contract(r, Client, t) # NoContract
      PROVE  Contract(r, Client, t).period = PeriodOf(t)
  <2> DEFINE c == Contract(s, Client, t)
  <2>1. /\ c = [period |-> c.period, left |-> c.left] /\ c.left \in Int
        /\ c # NoContract => c.period = PeriodOf(t)
    BY <1>4, ContractTyped DEF Agreed
  <2>2. Contract(r, Client, t) = Contracts!Passed(c)
    BY <1>3
  <2> HIDE DEF c
  <2>3. Contract(r, Client, t).period = c.period
    BY <2>1, <2>2 DEF Contracts!Passed
  <2>4. c # NoContract
    BY <1>4, <2>2 DEF Contracts!Passed, NoContract
  <2> QED BY <2>1, <2>3, <2>4
<1>5. Sound(r) /\ (Agreed(s) => Agreed(r)) /\ \A a, t : Contract(r, a, t) = Contracts!Passed(Contract(s, a, t))
  BY <1>2, <1>3, <1>4 DEF Agreed
<1> QED BY <1>5 DEF r

(* The values of a function on a finite set are finite.                    *)
LEMMA FiniteValues ==
  ASSUME NEW S, IsFiniteSet(S), NEW g, g = [x \in S |-> g[x]]
  PROVE  IsFiniteSet({g[x] : x \in S})
<1> DEFINE T == {g[x] : x \in S}
<1>1. g \in [S -> T]
  OBVIOUS
<1>2. g \in Surjection(S, T)
  BY <1>1, Zenon DEF Surjection
<1> HIDE DEF T
<1>3. IsFiniteSet(T)
  BY <1>2, FS_Surjection
<1> QED BY <1>3 DEF T

(* The invariant holds at the start.                                       *)
LEMMA Start ==
  ASSUME Init
  PROVE  IInv /\ \A m \in Masters : srv[m] = NoService
<1>1. -1 \in -1 .. Duration /\ Query \in 0 .. Query
  BY UnicastConfig
<1>2. Tables
  BY <1>1, Zenon DEF Init, Tables, Entries, States
<1>3. NoService \in Services /\ Sound(NoService)
  <2>1. NoService.intervals = <<>> /\ NoService \in Services
    BY DEF NoService, Services
  <2>2. DOMAIN NoService.intervals = {}
    BY <2>1
  <2> QED BY <2>1, <2>2 DEF Sound
<1>4. Agreed(NoService)
  <2>1. ASSUME NEW t PROVE Contract(NoService, Client, t) = NoContract
    <3>1. \A p, l : ~Promises(NoService, Client, t, p, l)
      BY DEF Promises, NoService
    <3> QED BY <1>3, <3>1, NoContractIs
  <2> QED BY <2>1 DEF Agreed
<1>5. /\ srv \in [Masters -> Services] /\ \A m \in Masters : srv[m] = NoService
  BY <1>3 DEF Init
<1>6. SoundServices
  BY <1>3, <1>4, <1>5 DEF SoundServices
<1>7. Network(net) /\ net = {}
  BY FS_EmptySet, UnicastConfig DEF Init, Network
<1>8. Idle /\ GrantsHold
  BY <1>7 DEF Init, Idle, GrantsHold
<1> QED BY <1>2, <1>5, <1>6, <1>7, <1>8 DEF IInv

(* The client asks.                                                        *)
LEMMA ClientTimerStep ==
  ASSUME IInv, ClientTimer
  PROVE  IInv'
<1>1. cli \in [Masters -> Entries] /\ scenario = "CLIENT" /\ UNCHANGED <<scenario, port, srv, role>>
  BY DEF IInv, Tables, ClientTimer
<1>2. cli' \in [Masters -> Entries]
  BY <1>1, AskedIs DEF ClientTimer
<1>3. Tables'
  BY <1>1, <1>2, UnicastConfig DEF IInv, Tables, ClientTimer
<1>4. SoundServices' /\ Idle'
  BY <1>1 DEF IInv, SoundServices, Idle
<1> DEFINE asked == {x \in Masters : Wanted(cli[x]) # <<>>}
           g == [m \in asked |-> Request(m, cli[m])]
           requests == {Request(m, cli[m]) : m \in asked}
<1>5. requests \subseteq Requests
  BY WantedIs DEF Request, Requests
<1>6. IsFiniteSet(requests)
  <2>1. IsFiniteSet(asked)
    BY FS_Subset, UnicastConfig
  <2>2. g = [m \in asked |-> g[m]] /\ requests = {g[m] : m \in asked}
    OBVIOUS
  <2> HIDE DEF g, requests, asked
  <2> QED BY <2>1, <2>2, FiniteValues
<1>7. net' = Send(net, requests)
  BY DEF ClientTimer
<1>8. \A n \in requests : n.kind = "REQUEST"
  BY DEF Request
<1> HIDE DEF requests
<1>9. Network(net') /\ net' \subseteq net \cup requests
  BY <1>5, <1>6, <1>7, SendIs DEF IInv
<1>10. GrantsHold'
  BY <1>1, <1>8, <1>9 DEF IInv, GrantsHold
<1> QED BY <1>3, <1>4, <1>9, <1>10 DEF IInv

(* A service has received a request: what it did and what it answers.      *)
RequestServed(n, keep, r) ==
    /\ Sound(r) /\ Agreed(r) /\ AllBetter(srv[n.to], r)
    /\ srv' = [srv EXCEPT ![n.to] = r]
    /\ \E answers :
          /\ net' = Send(Delivered(n, keep), answers)
          /\ IsFiniteSet(answers) /\ answers \subseteq Answers
          /\ \A x \in answers :
                /\ x.kind = "GRANT" /\ x.from = n.to
                /\ x.duration > 0 /\ x.type \in Served => Contract(r, Client, x.type).left >= x.duration

(* It did what the client asked for.                                       *)
LEMMA RequestIs ==
  ASSUME IInv, NEW n \in net, NEW keep \in BOOLEAN, NEW memory \in BOOLEAN,
         ServiceReceives(n, keep, memory)
  PROVE  /\ scenario = "CLIENT" /\ n.to \in Masters
         /\ UNCHANGED <<scenario, cli, query, port, role>>
         /\ \E r : RequestServed(n, keep, r)
<1>1. n.kind = "REQUEST" /\ UNCHANGED <<scenario, cli, query, port, role>>
  BY DEF ServiceReceives
<1>2. n.to \in Masters /\ n.types \in Seq(Types) /\ scenario = "CLIENT"
  BY <1>1, AnswerParts DEF IInv, Idle
<1>3. Sound(srv[n.to]) /\ Agreed(srv[n.to])
  BY <1>2 DEF IInv, SoundServices
<1> DEFINE m == n.to
           types == n.types
           len == Len(n.types)
<1>4. len \in Nat /\ \A i \in 1 .. len : types[i] \in Types
  BY <1>2
<1>15. PICK f : Received(f, n, keep, memory)
  BY <1>4, ReceivesRounds
<1>5. /\ Serving(f, srv[m], types, memory, len)
      /\ srv' = [srv EXCEPT ![m] = f[len]]
      /\ net' = Send(Delivered(n, keep),
             {Answer(m, f[i - 1], types[i], memory) : i \in 1 .. len})
  BY <1>15 DEF Received
<1> DEFINE r == f[len]
           given(i) == IF types[i] \notin Served \/ Grants(f[i - 1], Client, PeriodOf(types[i]), memory)
                       THEN Duration ELSE 0
           g == [i \in 1 .. len |-> Answer(m, f[i - 1], types[i], memory)]
           answers == {Answer(m, f[i - 1], types[i], memory) : i \in 1 .. len}
<1>6. AllBetter(srv[m], r)
  <2>1. f[0] = srv[m] /\ AllBetter(f[0], f[len])
    BY <1>2, <1>3, <1>4, <1>5, ServingIs
  <2> QED BY <2>1
<1>7. Sound(r) /\ Agreed(r)
  BY <1>6 DEF AllBetter
<1>8. IsFiniteSet(answers)
  <2>1. IsFiniteSet(1 .. len)
    BY <1>4, FS_Interval
  <2>2. g = [i \in 1 .. len |-> g[i]] /\ answers = {g[i] : i \in 1 .. len}
    OBVIOUS
  <2> HIDE DEF g, answers, len
  <2> QED BY <2>1, <2>2, FiniteValues
<1>9. ASSUME NEW i \in 1 .. len
      PROVE  LET x == Answer(m, f[i - 1], types[i], memory)
             IN  /\ x \in Answers /\ x.kind = "GRANT" /\ x.from = m /\ x.type = types[i]
                 /\ x.duration = given(i)
  BY <1>2, <1>4 DEF Answer, Grant, Answers
<1>10. ASSUME NEW i \in 1 .. len, given(i) > 0, types[i] \in Served
       PROVE  Contract(r, Client, types[i]).left >= given(i)
  <2>1. Grants(f[i - 1], Client, PeriodOf(types[i]), memory) /\ given(i) = Duration
    BY <1>10
  <2>2. Contract(f[len], Client, types[i]).left >= Duration
    BY <1>2, <1>3, <1>5, <1>10, <2>1, ServingGrants
  <2> QED BY <2>1, <2>2
<1>11. ASSUME NEW x \in answers
       PROVE  /\ x \in Answers /\ x.kind = "GRANT" /\ x.from = m
              /\ x.duration > 0 /\ x.type \in Served => Contract(r, Client, x.type).left >= x.duration
  <2>1. PICK i \in 1 .. len : x = Answer(m, f[i - 1], types[i], memory)
    OBVIOUS
  <2> HIDE DEF answers, given, r, len, types, m
  <2> QED BY <2>1, <1>9, <1>10
<1>12. answers \subseteq Answers
  BY <1>11
<1>13. net' = Send(Delivered(n, keep), answers) /\ srv' = [srv EXCEPT ![m] = r]
  BY <1>5
<1> HIDE DEF answers, r
<1>14. RequestServed(n, keep, r)
  BY <1>6, <1>7, <1>8, <1>11, <1>12, <1>13 DEF RequestServed
<1> QED BY <1>1, <1>2, <1>14

(* A request keeps the invariant.                                          *)
LEMMA RequestStep ==
  ASSUME IInv, NEW n \in net, NEW keep \in BOOLEAN, NEW memory \in BOOLEAN,
         ServiceReceives(n, keep, memory)
  PROVE  IInv'
<1>1. /\ scenario = "CLIENT" /\ n.to \in Masters
      /\ UNCHANGED <<scenario, cli, query, port, role>>
  BY RequestIs
<1>2. PICK r : RequestServed(n, keep, r)
  BY RequestIs
<1>3. PICK answers :
          /\ net' = Send(Delivered(n, keep), answers)
          /\ IsFiniteSet(answers) /\ answers \subseteq Answers
          /\ \A x \in answers :
                /\ x.kind = "GRANT" /\ x.from = n.to
                /\ x.duration > 0 /\ x.type \in Served => Contract(r, Client, x.type).left >= x.duration
  BY <1>2 DEF RequestServed
<1>4. /\ Sound(r) /\ Agreed(r) /\ AllBetter(srv[n.to], r) /\ srv' = [srv EXCEPT ![n.to] = r]
      /\ srv \in [Masters -> Services] /\ Sound(srv[n.to])
  BY <1>1, <1>2 DEF RequestServed, IInv, SoundServices
<1>5. \A k \in Masters : srv'[k] = IF k = n.to THEN r ELSE srv[k]
  BY <1>4
<1>6. Lasts(srv[n.to], r)
  BY <1>4, BetterLasts
<1>7. Tables' /\ Idle'
  BY <1>1 DEF IInv, Tables, Idle
<1>8. SoundServices'
  <2>1. r \in Services
    BY <1>4 DEF Sound
  <2> QED BY <1>1, <1>4, <1>5, <2>1 DEF IInv, SoundServices
<1>9. Network(net') /\ net' \subseteq net \cup answers
  <2>1. Delivered(n, keep) \subseteq net
    BY DEF Delivered
  <2>2. Network(Delivered(n, keep))
    BY <2>1, FewerIs DEF IInv
  <2> QED BY <1>3, <2>1, <2>2, SendIs
<1>10. ASSUME NEW x \in net', x.kind = "GRANT", x.duration > 0, x.type \in Served
       PROVE  Contract(srv'[x.from], Client, x.type).left >= x.duration
  <2>1. CASE x \in answers
    BY <1>1, <1>3, <1>5, <1>10, <2>1
  <2>2. CASE x \in net
    <3>1. x.from \in Masters /\ x.duration \in 1 .. Duration
      BY <1>10, <2>2, AnswerParts DEF IInv
    <3>2. Contract(srv[x.from], Client, x.type).left >= x.duration
      BY <1>10, <2>2 DEF IInv, GrantsHold
    <3> QED BY <1>5, <1>6, <1>10, <3>1, <3>2 DEF Lasts
  <2> QED BY <1>9, <1>10, <2>1, <2>2
<1>11. GrantsHold'
  BY <1>10 DEF GrantsHold
<1> QED BY <1>7, <1>8, <1>9, <1>11 DEF IInv

(* An answer at the client; nothing but its entry of the grantor changes.  *)
LEMMA AnswerIs ==
  ASSUME IInv, NEW n \in net, NEW keep \in BOOLEAN, ClientReceives(n, keep)
  PROVE  /\ scenario = "CLIENT" /\ n.from \in Masters /\ n.kind = "GRANT"
         /\ UNCHANGED <<scenario, query, port, srv, role>>
         /\ net' \subseteq net
         /\ cli' \in [Masters -> Entries]
         /\ \A m \in Masters : cli'[m].renewal = cli[m].renewal \/
               /\ m = n.from /\ n.duration = Duration /\ cli'[m].renewal <= Duration
               /\ DelayMechanism = "P2P" => n.type \in Served
<1>1. n.kind = "GRANT" /\ UNCHANGED <<scenario, query, port, srv, role>> /\ net' \subseteq net
  BY DEF ClientReceives, Delivered
<1>2. /\ n.from \in Masters /\ n.type \in Types /\ n.duration \in {0, Duration}
      /\ scenario = "CLIENT"
  BY <1>1, AnswerParts DEF IInv, Idle
<1>3. cli \in [Masters -> Entries]
  BY DEF IInv, Tables
<1>4. CASE port.state = "FAULTY"
  <2>1. cli' = cli
    BY <1>4 DEF ClientReceives
  <2> QED BY <1>1, <1>2, <1>3, <2>1
<1>5. CASE port.state # "FAULTY"
  <2> DEFINE w == unicast_client_grant(cli[n.from], n.type, n.duration)
  <2>1. cli' = [cli EXCEPT ![n.from] = w]
    BY <1>5 DEF ClientReceives
  <2>2. /\ w \in Entries
        /\ w.renewal = cli[n.from].renewal \/
              /\ n.duration = Duration /\ w.renewal <= Duration
              /\ DelayMechanism = "P2P" => n.type \in Served
    BY <1>2, <1>3, ClientGrantIs
  <2> HIDE DEF w
  <2> QED BY <1>1, <1>2, <1>3, <2>1, <2>2
<1> QED BY <1>4, <1>5

(* It keeps the invariant.                                                 *)
LEMMA AnswerStep ==
  ASSUME IInv, NEW n \in net, NEW keep \in BOOLEAN, ClientReceives(n, keep)
  PROVE  IInv'
<1>1. /\ scenario = "CLIENT" /\ UNCHANGED <<scenario, query, port, srv, role>>
      /\ net' \subseteq net /\ cli' \in [Masters -> Entries]
  BY AnswerIs
<1>2. Tables' /\ SoundServices' /\ Idle' /\ GrantsHold'
  BY <1>1 DEF IInv, Tables, SoundServices, Idle, GrantsHold
<1>3. Network(net')
  BY <1>1, FewerIs DEF IInv
<1> QED BY <1>2, <1>3 DEF IInv

(* So does a message lost.                                                 *)
LEMMA LoseStep ==
  ASSUME IInv, NEW n \in net, Lose(n)
  PROVE  IInv'
<1>1. net' \subseteq net /\ UNCHANGED <<scenario, cli, query, port, srv, role>>
  BY DEF Lose
<1>2. Tables' /\ SoundServices' /\ Idle' /\ GrantsHold'
  BY <1>1 DEF IInv, Tables, SoundServices, Idle, GrantsHold
<1>3. Network(net')
  BY <1>1, FewerIs DEF IInv
<1> QED BY <1>2, <1>3 DEF IInv

(* Time at the client.                                                     *)
LEMMA ClientTicks ==
  ASSUME IInv, Tick
  PROVE  /\ cli' \in [Masters -> Entries]
         /\ \A m \in Masters : cli'[m].renewal = IF cli[m].renewal > 0 THEN cli[m].renewal - 1
                                                                    ELSE cli[m].renewal
<1> DEFINE less(m) == IF cli[m].renewal > 0 THEN cli[m].renewal - 1 ELSE cli[m].renewal
<1>1. cli' = [m \in Masters |-> [cli[m] EXCEPT !.renewal = less(m)]]
  BY DEF Tick
<1>2. ASSUME NEW m \in Masters PROVE less(m) \in -1 .. Duration /\ cli[m] \in Entries
  <2>1. cli[m] \in Entries /\ cli[m].renewal \in -1 .. Duration
    BY EntryWith DEF IInv, Tables
  <2> QED BY <2>1, UnicastConfig
<1> HIDE DEF less
<1>3. \A m \in Masters : [cli[m] EXCEPT !.renewal = less(m)] \in Entries
                         /\ [cli[m] EXCEPT !.renewal = less(m)].renewal = less(m)
  BY <1>2, EntryWith
<1>4. cli' \in [Masters -> Entries] /\ \A m \in Masters : cli'[m].renewal = less(m)
  BY <1>1, <1>3
<1> QED BY <1>4 DEF less

(* A tick keeps the invariant.                                             *)
LEMMA TickStep ==
  ASSUME IInv, Tick
  PROVE  IInv'
<1>1. /\ net = {} /\ UNCHANGED <<scenario, port, role, net>>
      /\ query' = IF scenario = "CLIENT" THEN Later(query, 0) ELSE query
      /\ srv' = [m \in Masters |-> ServiceTick(srv[m])]
  BY DEF Tick
<1>2. /\ cli' \in [Masters -> Entries]
      /\ \A m \in Masters : cli'[m].renewal = IF cli[m].renewal > 0 THEN cli[m].renewal - 1
                                                                 ELSE cli[m].renewal
  BY ClientTicks
<1>3. query' \in 0 .. Query
  BY <1>1, UnicastConfig DEF Later, IInv, Tables
<1>4. Tables'
  BY <1>1, <1>2, <1>3 DEF Tables, IInv
<1>5. ASSUME NEW m \in Masters
      PROVE  /\ Sound(ServiceTick(srv[m])) /\ ServiceTick(srv[m]) \in Services
             /\ scenario = "CLIENT" => Agreed(ServiceTick(srv[m]))
  <2>1. Sound(srv[m]) /\ (scenario = "CLIENT" => Agreed(srv[m]))
    BY DEF IInv, SoundServices
  <2>2. Sound(ServiceTick(srv[m])) /\ (Agreed(srv[m]) => Agreed(ServiceTick(srv[m])))
    BY <2>1, TickLasts
  <2> QED BY <2>1, <2>2 DEF Sound
<1>6. SoundServices'
  BY <1>1, <1>5 DEF SoundServices
<1>7. Network(net)' /\ GrantsHold'
  BY <1>1 DEF IInv, GrantsHold
<1>8. Idle'
  BY <1>1, <1>2 DEF IInv, Idle
<1> QED BY <1>4, <1>6, <1>7, <1>8 DEF IInv

(* The steps that move the client's port, or cancel.                       *)
LEMMA CancelIs ==
  ASSUME NEW u \in Entries, NEW type
  PROVE  unicast_client_cancel(u, type) \in Entries
         /\ unicast_client_cancel(u, type).renewal = u.renewal
<1>1. /\ u.state \in States /\ u.granted \in SUBSET Types /\ u.known \in BOOLEAN
      /\ u.renewal \in -1 .. Duration
      /\ u = [state |-> u.state, granted |-> u.granted, renewal |-> u.renewal, known |-> u.known]
  BY EntryWith
<1>2. unicast_fsm(u.state, "CANCEL") \in States
  BY <1>1, FsmTyped
<1> QED BY <1>1, <1>2 DEF unicast_client_cancel, Entries

(* The steps of the client and its port that leave the network alone.      *)
Alone ==
    \/ Calibrated \/ AnnounceTimeout \/ ClientFault \/ ClientRecovers
    \/ \E m \in Masters : DecideSlave(m) \/ \E type \in Types : ClientCancelled(m, type)

(* They leave the times.                                                   *)
LEMMA AloneIs ==
  ASSUME IInv, Alone
  PROVE  /\ SameTimes(cli') /\ query' \in 0 .. Query
         /\ port'.parent \in Masters \cup {NoMaster}
         /\ UNCHANGED <<scenario, srv, role, net>>
<1>1. cli \in [Masters -> Entries] /\ query \in 0 .. Query /\ Query \in 0 .. Query
      /\ port.parent \in Masters \cup {NoMaster}
  BY UnicastConfig DEF IInv, Tables
<1>2. CASE Calibrated
  BY <1>1, <1>2, MovedIs DEF Calibrated
<1>3. CASE AnnounceTimeout
  <2>1. port'.parent = NoMaster /\ cli' = unicast_client_state_changed(port.parent)
        /\ UNCHANGED <<scenario, query, srv, role, net>>
    BY <1>3 DEF AnnounceTimeout
  <2> QED BY <1>1, <2>1, StateChangedIs
<1>4. CASE ClientFault
  BY <1>1, <1>4, MovedIs DEF ClientFault
<1>5. CASE ClientRecovers
  BY <1>1, <1>5, MovedIs DEF ClientRecovers
<1>6. ASSUME NEW m \in Masters, DecideSlave(m)
      PROVE  /\ SameTimes(cli') /\ query' \in 0 .. Query
             /\ port'.parent \in Masters \cup {NoMaster}
             /\ UNCHANGED <<scenario, srv, role, net>>
  <2>1. PICK s : Moved(s, m)
    BY <1>6 DEF DecideSlave
  <2>2. UNCHANGED <<scenario, query, srv, role, net>>
    BY <1>6 DEF DecideSlave
  <2> QED BY <1>1, <2>1, <2>2, MovedIs
<1>7. ASSUME NEW m \in Masters, NEW type \in Types, ClientCancelled(m, type)
      PROVE  /\ SameTimes(cli') /\ query' \in 0 .. Query
             /\ port'.parent \in Masters \cup {NoMaster}
             /\ UNCHANGED <<scenario, srv, role, net>>
  <2> DEFINE w == unicast_client_cancel(cli[m], type)
  <2>1. w \in Entries /\ w.renewal = cli[m].renewal
    BY <1>1, CancelIs
  <2>2. cli' = [cli EXCEPT ![m] = w] /\ UNCHANGED <<scenario, query, port, srv, role, net>>
    BY <1>7 DEF ClientCancelled
  <2> HIDE DEF w
  <2>3. SameTimes(cli')
    BY <1>1, <2>1, <2>2 DEF SameTimes
  <2> QED BY <1>1, <2>2, <2>3
<1> QED BY <1>2, <1>3, <1>4, <1>5, <1>6, <1>7 DEF Alone

(* The steps of others at a service, or of its own.                        *)
Elsewhere(m) ==
    \/ ServiceTimer(m)
    \/ \E r \in {"MASTER", "OTHER", "DOWN"} : ServiceRole(m, r)
    \/ \E a \in Addrs, type \in Served :
          \/ StrangerCancels(m, a, type)
          \/ \E period \in Periods, d \in {1, Duration}, memory \in BOOLEAN :
                StrangerAsks(m, a, type, period, d, memory)

(* What they do to its contracts: one address asks for a type, or cancels  *)
(* it, or contracts end.                                                   *)
Changes(m, r) ==
    \/ /\ scenario # "CLIENT"
       /\ \E a \in Addrs, type \in Served :
             /\ \A b, u : b # a => Contract(r, b, u) = Contract(srv[m], b, u)
             /\ \A u : u # type => Contracts!Prolonged(Contract(srv[m], a, u), Contract(r, a, u))
             /\ Contract(r, a, type) = NoContract \/ Contracts!Granted(Contract(r, a, type))
    \/ \A a, u : \/ Contract(r, a, u) = Contract(srv[m], a, u)
                 \/ Contract(srv[m], a, u).left < 0 /\ Contract(r, a, u) = NoContract

(* A contract that is the same is as long.                                 *)
LEMMA SameProlonged ==
  ASSUME NEW s, Sound(s), NEW r, NEW a, NEW u, Contract(r, a, u) = Contract(s, a, u)
  PROVE  Contracts!Prolonged(Contract(s, a, u), Contract(r, a, u))
<1>1. Contract(s, a, u).left \in Int
  BY ContractTyped
<1> QED BY <1>1 DEF Contracts!Prolonged

(* A stranger's request.                                                   *)
LEMMA StrangerAsksIs ==
  ASSUME IInv, NEW m \in Masters, NEW a \in Addrs, NEW type \in Served, NEW period \in Periods,
         NEW d \in {1, Duration}, NEW memory \in BOOLEAN, scenario # "CLIENT"
  PROVE  LET r == unicast_service_add(srv[m], a, type, period, d, memory)
         IN  Sound(r) /\ Changes(m, r)
<1> DEFINE s == srv[m]
           r == unicast_service_add(s, a, type, period, d, memory)
<1>1. Sound(s) /\ d \in 0 .. Duration
  BY UnicastConfig DEF IInv, SoundServices
<1>2. IF Grants(s, a, period, memory) THEN Given(s, r, a, type, period, d)
                                      ELSE Denied(s, r, a, type, period)
  BY <1>1, AddIs
<1> HIDE DEF r
<1>3. CASE Given(s, r, a, type, period, d)
  <2>1. Sound(r)
    BY <1>3 DEF Given
  <2>2. /\ \A b, u : b # a => Contract(r, b, u) = Contract(s, b, u)
        /\ \A u : u # type => Contracts!Prolonged(Contract(s, a, u), Contract(r, a, u))
        /\ Contract(r, a, type).period = period
        /\ Contract(r, a, type).left >= d
    BY <1>1, <1>3, GivenContracts
  <2>5. Contract(r, a, type).left \in Int /\ Contract(r, a, type).left <= Duration
    BY <2>1, ContractTyped, UnicastConfig
  <2>3. Contracts!Granted(Contract(r, a, type))
    BY <2>2, <2>5, UnicastConfig DEF Contracts!Granted
  <2>4. Changes(m, r)
    BY <2>2, <2>3 DEF Changes
  <2> QED BY <2>1, <2>4 DEF r
<1>4. CASE Denied(s, r, a, type, period)
  <2>1. Sound(r)
    BY <1>4 DEF Denied
  <2>2. /\ \A b, u : ~(b = a /\ u = type) => Contract(r, b, u) = Contract(s, b, u)
        /\ Contract(r, a, type) = NoContract
    BY <1>1, <1>4, DeniedContracts
  <2>3. \A u : u # type => Contracts!Prolonged(Contract(s, a, u), Contract(r, a, u))
    BY <1>1, <2>2, SameProlonged
  <2>4. \A b, u : b # a => Contract(r, b, u) = Contract(s, b, u)
    BY <2>2
  <2>5. Changes(m, r)
    BY <2>2, <2>3, <2>4 DEF Changes
  <2> QED BY <2>1, <2>5 DEF r
<1> QED BY <1>2, <1>3, <1>4

(* A stranger's cancel.                                                    *)
LEMMA StrangerCancelsIs ==
  ASSUME IInv, NEW m \in Masters, NEW a \in Addrs, NEW type \in Served, scenario # "CLIENT"
  PROVE  LET r == unicast_service_remove(srv[m], a, type)
         IN  Sound(r) /\ Changes(m, r)
<1> DEFINE s == srv[m]
           r == unicast_service_remove(s, a, type)
<1>1. Sound(s)
  BY DEF IInv, SoundServices
<1>2. /\ Sound(r)
      /\ \A b, u, p, l : Promises(r, b, u, p, l) <=>
            Promises(s, b, u, p, l) /\ ~(b = a /\ u = type)
  BY <1>1, RemoveIs
<1> HIDE DEF r
<1>3. ASSUME NEW b, NEW u, ~(b = a /\ u = type) PROVE Contract(r, b, u) = Contract(s, b, u)
  <2>1. \A p, l : Promises(s, b, u, p, l) <=> Promises(r, b, u, p, l)
    BY <1>2, <1>3
  <2> QED BY <1>1, <1>2, <2>1, SameContract
<1>4. Contract(r, a, type) = NoContract
  BY <1>2, NoContractIs
<1>5. \A u : u # type => Contracts!Prolonged(Contract(s, a, u), Contract(r, a, u))
  BY <1>1, <1>3, SameProlonged
<1>6. \A b, u : b # a => Contract(r, b, u) = Contract(s, b, u)
  BY <1>3
<1>7. Changes(m, r)
  BY <1>4, <1>5, <1>6 DEF Changes
<1> QED BY <1>2, <1>7 DEF r

(* A closed timer changes no contract.                                     *)
LEMMA ClosedIs ==
  ASSUME NEW s, Sound(s)
  PROVE  LET r == TimerClosed(s)
         IN  Sound(r) /\ \A a, t : Contract(r, a, t) = Contract(s, a, t)
<1> DEFINE r == TimerClosed(s)
<1>1. s = [intervals |-> s.intervals, armed |-> s.armed] /\ s.intervals \in Seq(Intervals)
  BY Parts DEF Sound
<1>2. r \in Services /\ r.intervals = s.intervals
  BY <1>1 DEF TimerClosed, Services
<1> HIDE DEF r
<1>3. Sound(r)
  BY <1>2 DEF Sound
<1>4. \A a, t : Contract(r, a, t) = Contract(s, a, t)
  <2>1. ASSUME NEW a, NEW t PROVE \A p, l : Promises(s, a, t, p, l) <=> Promises(r, a, t, p, l)
    BY <1>2 DEF Promises
  <2> QED BY <1>3, <2>1, SameContract
<1> QED BY <1>3, <1>4 DEF r

(* A service has become r, and nothing else has changed.                   *)
ServiceOnly(m, r) ==
    /\ Sound(r) /\ srv' = [srv EXCEPT ![m] = r] /\ Changes(m, r)
    /\ scenario = "CLIENT" => Agreed(r) /\ Lasts(srv[m], r)
    /\ UNCHANGED <<scenario, cli, query, port, net>>

(* This is what these steps do.                                            *)
LEMMA ElsewhereIs ==
  ASSUME IInv, NEW m \in Masters, Elsewhere(m)
  PROVE  \E r : ServiceOnly(m, r)
<1>1. /\ Sound(srv[m]) /\ (scenario = "CLIENT" => Agreed(srv[m]))
      /\ srv \in [Masters -> Services]
  BY DEF IInv, SoundServices
<1>2. CASE ServiceTimer(m)
  <2> DEFINE r == unicast_service_timer(srv[m], role[m] = "MASTER")
  <2>1. srv' = [srv EXCEPT ![m] = r] /\ UNCHANGED <<scenario, cli, query, port, net>>
    BY <1>2 DEF ServiceTimer
  <2>2. Sound(r) /\ Lasts(srv[m], r) /\ (Agreed(srv[m]) => Agreed(r)) /\ ContractsEnd(srv[m], r)
    BY <1>1, TimerLasts, TimerIs
  <2> HIDE DEF r
  <2>3. Changes(m, r)
    BY <1>1, <2>2, EndedContracts DEF Changes
  <2>4. ServiceOnly(m, r)
    BY <1>1, <2>1, <2>2, <2>3 DEF ServiceOnly
  <2> QED BY <2>4
<1>3. ASSUME NEW q \in {"MASTER", "OTHER", "DOWN"}, ServiceRole(m, q)
      PROVE  \E r : ServiceOnly(m, r)
  <2>1. scenario # "CLIENT" /\ UNCHANGED <<scenario, cli, query, port, net>>
    BY <1>3 DEF ServiceRole
  <2> DEFINE r == TimerClosed(srv[m])
  <2>2. CASE q = "DOWN"
    <3>1. srv' = [srv EXCEPT ![m] = r]
      BY <1>3, <2>2 DEF ServiceRole
    <3>2. Sound(r) /\ \A a, t : Contract(r, a, t) = Contract(srv[m], a, t)
      BY <1>1, ClosedIs
    <3> HIDE DEF r
    <3>3. Changes(m, r)
      BY <3>2 DEF Changes
    <3>4. ServiceOnly(m, r)
      BY <2>1, <3>1, <3>2, <3>3 DEF ServiceOnly
    <3> QED BY <3>4
  <2>3. CASE q # "DOWN"
    <3>1. srv' = [srv EXCEPT ![m] = srv[m]]
      BY <1>1, <1>3, <2>3 DEF ServiceRole
    <3>2. Changes(m, srv[m])
      BY DEF Changes
    <3>3. ServiceOnly(m, srv[m])
      BY <1>1, <2>1, <3>1, <3>2 DEF ServiceOnly
    <3> QED BY <3>3
  <2> QED BY <2>2, <2>3
<1>4. ASSUME NEW a \in Addrs, NEW type \in Served, StrangerCancels(m, a, type)
      PROVE  \E r : ServiceOnly(m, r)
  <2> DEFINE r == unicast_service_remove(srv[m], a, type)
  <2>1. scenario # "CLIENT" /\ UNCHANGED <<scenario, cli, query, port, net>>
        /\ srv' = [srv EXCEPT ![m] = r]
    BY <1>4 DEF StrangerCancels
  <2>2. Sound(r) /\ Changes(m, r)
    BY <2>1, StrangerCancelsIs
  <2> HIDE DEF r
  <2>3. ServiceOnly(m, r)
    BY <2>1, <2>2 DEF ServiceOnly
  <2> QED BY <2>3
<1>5. ASSUME NEW a \in Addrs, NEW type \in Served, NEW period \in Periods, NEW d \in {1, Duration},
             NEW memory \in BOOLEAN, StrangerAsks(m, a, type, period, d, memory)
      PROVE  \E r : ServiceOnly(m, r)
  <2> DEFINE r == unicast_service_add(srv[m], a, type, period, d, memory)
  <2>1. scenario # "CLIENT" /\ UNCHANGED <<scenario, cli, query, port, net>>
        /\ srv' = [srv EXCEPT ![m] = r]
    BY <1>5 DEF StrangerAsks
  <2>2. Sound(r) /\ Changes(m, r)
    BY <2>1, StrangerAsksIs
  <2> HIDE DEF r
  <2>3. ServiceOnly(m, r)
    BY <2>1, <2>2 DEF ServiceOnly
  <2> QED BY <2>3
<1> QED BY <1>2, <1>3, <1>4, <1>5 DEF Elsewhere

(* The steps of Next.                                                      *)
LEMMA NextIs ==
  ASSUME Next
  PROVE  \/ ClientTimer \/ Tick \/ Alone \/ \E m \in Masters : Elsewhere(m)
         \/ \E n \in net :
               \/ Lose(n)
               \/ \E keep \in BOOLEAN : ClientReceives(n, keep)
               \/ \E keep, memory \in BOOLEAN : ServiceReceives(n, keep, memory)
BY Zenon DEF Next, Alone, Elsewhere

(* Every step keeps the invariant.                                         *)
LEMMA Step ==
  ASSUME IInv, [Next]_vars
  PROVE  IInv'
<1>1. CASE UNCHANGED vars
  BY <1>1 DEF vars, IInv, Tables, SoundServices, Idle, GrantsHold
<1>2. CASE Alone
  BY <1>2, AloneIs, ClientStep
<1>3. ASSUME NEW m \in Masters, Elsewhere(m) PROVE IInv'
  <2>1. PICK r : ServiceOnly(m, r)
    BY <1>3, ElsewhereIs
  <2>2. /\ Sound(r) /\ srv' = [srv EXCEPT ![m] = r]
        /\ scenario = "CLIENT" => Agreed(r) /\ Lasts(srv[m], r)
        /\ UNCHANGED <<scenario, cli, query, port, net>>
    BY <2>1 DEF ServiceOnly
  <2> QED BY <2>2, ServiceStep
<1> QED BY <1>1, <1>2, <1>3, NextIs, ClientTimerStep, TickStep, LoseStep, AnswerStep, RequestStep

(* So it always holds.                                                     *)
LEMMA Invariant == Spec => []IInv
<1>1. Init => IInv
  BY Start
<1>2. IInv /\ [Next]_vars => IInv'
  BY Step
<1> QED BY <1>1, <1>2, PTL DEF Spec

----------------------------------------------------------------------------
(* The theorems.                                                           *)

(* What the records of a service come from.                                *)
RecordAt(s, k, j) ==
    [period |-> s.intervals[k].period, types |-> s.intervals[k].clients[j].types,
     addr |-> s.intervals[k].clients[j].addr, left |-> s.intervals[k].clients[j].left,
     at |-> <<k, j>>]

(* They are the records of its clients.                                    *)
LEMMA RecordsAre ==
  ASSUME NEW s, Sound(s), NEW r \in Records(s)
  PROVE  \E k \in DOMAIN s.intervals : \E j \in DOMAIN s.intervals[k].clients : r = RecordAt(s, k, j)
BY Zenon DEF Records, RecordAt

(* And typed.                                                              *)
LEMMA RecordTyped ==
  ASSUME NEW s, Sound(s), NEW r \in Records(s)
  PROVE  /\ r.addr \in Addrs /\ r.period \in Periods /\ r.types \in (SUBSET Served) \ {{}}
         /\ r.left \in -1 .. Duration
<1>1. PICK k \in DOMAIN s.intervals : \E j \in DOMAIN s.intervals[k].clients : r = RecordAt(s, k, j)
  BY RecordsAre
<1>2. PICK j \in DOMAIN s.intervals[k].clients : r = RecordAt(s, k, j)
  BY <1>1
<1> DEFINE v == s.intervals[k]
           c == v.clients[j]
<1>3. /\ r.addr = c.addr /\ r.period = v.period /\ r.types = c.types /\ r.left = c.left
  BY <1>2 DEF RecordAt
<1>4. v.period \in Periods /\ c \in ClientRecs
  <2>1. s \in Services
    BY DEF Sound
  <2>2. v.period \in Periods /\ v.clients \in Seq(ClientRecs)
    BY <2>1, Parts
  <2> QED BY <2>2
<1> HIDE DEF v, c
<1>5. /\ c.addr \in Addrs /\ c.types \in (SUBSET Served) \ {{}} /\ c.left \in -1 .. Duration
  BY <1>4 DEF ClientRecs
<1> QED BY <1>3, <1>4, <1>5

(* Every variable has its type: however requests, grants, cancels, faults  *)
(* and time mix, the tables of unicast_client.c and the records of         *)
(* unicast_service.c are what their types say, no address has a record     *)
(* without a message type, and nothing lasts longer than asked for.        *)
THEOREM TypeCorrect == Spec => []TypeOK
<1>1. ASSUME IInv PROVE TypeOK
  <2>1. ASSUME NEW m \in Masters
        PROVE  /\ cli[m].state \in {"WAIT", "HAVE_ANN", "NEED_SYDY", "HAVE_SYDY"}
               /\ cli[m].granted \subseteq Types /\ cli[m].renewal \in -1 .. Duration
    <3>1. cli[m] \in Entries
      BY <1>1 DEF IInv, Tables
    <3> QED BY <3>1, EntryWith DEF States
  <2>2. ASSUME NEW m \in Masters, NEW r \in Records(srv[m])
        PROVE  /\ r.addr \in Addrs /\ r.period \in Periods /\ r.types \in (SUBSET Served) \ {{}}
               /\ r.left \in -1 .. Duration
    <3>1. Sound(srv[m])
      BY <1>1 DEF IInv, SoundServices
    <3> QED BY <2>2, <3>1, RecordTyped
  <2>3. /\ query \in 0 .. Query /\ port.parent \in Masters \cup {NoMaster}
        /\ Cardinality(net) <= MaxInFlight
    BY <1>1 DEF IInv, Tables, Network
  <2> QED BY <2>1, <2>2, <2>3 DEF TypeOK
<1> QED BY <1>1, Invariant, PTL

(* An address has a message type in one interval at most, one record per   *)
(* interval, and there is one interval per period: unicast_service_add     *)
(* withdraws what is stale before it grants.                               *)
THEOREM OneContract == Spec => []UniqueContract
<1>1. ASSUME IInv PROVE UniqueContract
  <2> SUFFICES ASSUME NEW m \in Masters
               PROVE  /\ \A r, q \in Records(srv[m]) :
                            r.addr = q.addr /\ r # q => r.period # q.period /\ r.types \cap q.types = {}
                      /\ \A i, j \in DOMAIN srv[m].intervals :
                            srv[m].intervals[i].period = srv[m].intervals[j].period => i = j
    BY DEF UniqueContract
  <2> DEFINE s == srv[m]
  <2>1. /\ Sound(s)
        /\ \A k \in DOMAIN s.intervals : OneEach(s.intervals[k].clients)
        /\ \A k, h \in DOMAIN s.intervals :
              s.intervals[k].period = s.intervals[h].period => k = h
        /\ \A a, t : \A k, h \in DOMAIN s.intervals :
              Offers(s.intervals[k], a, t) /\ Offers(s.intervals[h], a, t) => k = h
    BY <1>1 DEF IInv, SoundServices, Sound
  <2>2. ASSUME NEW r \in Records(s), NEW q \in Records(s), r.addr = q.addr, r # q
        PROVE  r.period # q.period /\ r.types \cap q.types = {}
    <3> HIDE DEF s
    <3>1. /\ \E k \in DOMAIN s.intervals : \E j \in DOMAIN s.intervals[k].clients : r = RecordAt(s, k, j)
          /\ \E h \in DOMAIN s.intervals : \E i \in DOMAIN s.intervals[h].clients : q = RecordAt(s, h, i)
      BY <2>1, <2>2, RecordsAre
    <3>2. PICK k \in DOMAIN s.intervals : \E j \in DOMAIN s.intervals[k].clients : r = RecordAt(s, k, j)
      BY <3>1
    <3>3. PICK j \in DOMAIN s.intervals[k].clients : r = RecordAt(s, k, j)
      BY <3>2
    <3>4. PICK h \in DOMAIN s.intervals : \E i \in DOMAIN s.intervals[h].clients : q = RecordAt(s, h, i)
      BY <3>1
    <3>5. PICK i \in DOMAIN s.intervals[h].clients : q = RecordAt(s, h, i)
      BY <3>4
    <3> DEFINE c == s.intervals[k].clients[j]
               d == s.intervals[h].clients[i]
    <3>6. /\ r.period = s.intervals[k].period /\ q.period = s.intervals[h].period
          /\ r.addr = c.addr /\ q.addr = d.addr /\ r.types = c.types /\ q.types = d.types
      BY <3>3, <3>5 DEF RecordAt
    <3>7. k # h
      <4>1. SUFFICES ASSUME k = h PROVE FALSE
        OBVIOUS
      <4>2. i = j
        BY <2>1, <2>2, <3>6, <4>1 DEF OneEach
      <4> QED BY <2>2, <3>3, <3>5, <4>1, <4>2
    <3>8. \A t : ~(t \in c.types /\ t \in d.types)
      <4>1. SUFFICES ASSUME NEW t, t \in c.types, t \in d.types PROVE FALSE
        OBVIOUS
      <4>2. Offers(s.intervals[k], r.addr, t) /\ Offers(s.intervals[h], r.addr, t)
        BY <2>2, <3>6, <4>1 DEF Offers, Has
      <4> QED BY <2>1, <3>7, <4>2
    <3> HIDE DEF c, d
    <3> QED BY <2>1, <3>6, <3>7, <3>8
  <2> QED BY <2>1, <2>2
<1> QED BY <1>1, Invariant, PTL

(* While the client waits for a renewal, its grantor has a contract with   *)
(* it that lasts longer than the wait, whatever the network lost, repeated *)
(* or delayed: unicast_client_grant sets the renewal from a grant, and     *)
(* unicast_service_add never shortens a time.  With the end to end         *)
(* mechanism it may fail: DELAY_RESP is granted without a record.          *)
THEOREM RenewalInTime ==
  ASSUME DelayMechanism = "P2P"
  PROVE  Spec => []LeaseHolds
<1>1. Init => LeaseHolds
  BY DEF Init, LeaseHolds
<1>2. ASSUME IInv, LeaseHolds, [Next]_vars PROVE LeaseHolds'
  <2>1. \A m \in Masters : cli[m].renewal \in -1 .. Duration /\ Sound(srv[m])
    BY <1>2, EntryWith DEF IInv, Tables, SoundServices
  <2>2. SUFFICES ASSUME NEW m \in Masters, cli'[m].renewal > 0
                 PROVE  \E t \in Served : Contract(srv'[m], Client, t).left >= cli'[m].renewal
    BY DEF LeaseHolds
  <2>3. ASSUME cli'[m].renewal = cli[m].renewal PROVE
            /\ cli[m].renewal \in 1 .. Duration
            /\ \E t \in Served : Contract(srv[m], Client, t).left >= cli[m].renewal
    BY <1>2, <2>1, <2>2, <2>3, UnicastConfig DEF LeaseHolds
  <2>4. ASSUME cli'[m].renewal = cli[m].renewal, srv'[m] = srv[m] \/ Lasts(srv[m], srv'[m])
        PROVE  \E t \in Served : Contract(srv'[m], Client, t).left >= cli'[m].renewal
    BY <2>3, <2>4 DEF Lasts
  <2>5. CASE UNCHANGED vars
    BY <2>4, <2>5 DEF vars
  <2>6. CASE ClientTimer
    <3>1. cli[m] \in Entries /\ cli'[m] = Asked(cli[m]) /\ srv' = srv
      BY <1>2, <2>6 DEF IInv, Tables, ClientTimer
    <3>2. cli'[m].renewal = cli[m].renewal
      BY <2>2, <3>1, AskedIs
    <3> QED BY <2>4, <3>1, <3>2
  <2>7. CASE Tick
    <3>1. cli'[m].renewal = IF cli[m].renewal > 0 THEN cli[m].renewal - 1 ELSE cli[m].renewal
      BY <1>2, <2>7, ClientTicks
    <3>2. cli[m].renewal > 0 /\ cli'[m].renewal = cli[m].renewal - 1
      BY <2>1, <2>2, <3>1
    <3>3. PICK t \in Served : Contract(srv[m], Client, t).left >= cli[m].renewal
      BY <1>2, <3>2 DEF LeaseHolds
    <3>4. srv'[m] = ServiceTick(srv[m])
      BY <2>7 DEF Tick
    <3>5. Contract(srv'[m], Client, t) = Contracts!Passed(Contract(srv[m], Client, t))
      BY <2>1, <3>4, TickLasts
    <3> DEFINE c == Contract(srv[m], Client, t)
    <3>6. c = [period |-> c.period, left |-> c.left] /\ c.left \in Int
      BY <2>1, ContractTyped
    <3> HIDE DEF c
    <3>7. Contracts!Passed(c).left >= cli'[m].renewal
      <4>1. c.left >= 0 /\ c.left - 1 >= cli'[m].renewal
        BY <2>1, <3>2, <3>3, <3>6, UnicastConfig DEF c
      <4>2. Contracts!Passed(c).left = c.left - 1
        BY <3>6, <4>1 DEF Contracts!Passed
      <4> QED BY <4>1, <4>2
    <3> QED BY <3>5, <3>7 DEF c
  <2>8. CASE Alone
    <3>1. SameTimes(cli') /\ srv' = srv
      BY <1>2, <2>8, AloneIs
    <3> QED BY <2>4, <3>1 DEF SameTimes
  <2>9. ASSUME NEW k \in Masters, Elsewhere(k)
        PROVE  \E t \in Served : Contract(srv'[m], Client, t).left >= cli'[m].renewal
    <3>1. PICK r : ServiceOnly(k, r)
      BY <1>2, <2>9, ElsewhereIs
    <3>2. /\ srv' = [srv EXCEPT ![k] = r] /\ cli' = cli /\ srv \in [Masters -> Services]
          /\ scenario = "CLIENT" => Lasts(srv[k], r)
      BY <1>2, <3>1 DEF ServiceOnly, IInv, SoundServices
    <3>3. scenario = "CLIENT"
      BY <1>2, <2>2, <3>2 DEF IInv, Idle
    <3>4. srv'[m] = IF m = k THEN r ELSE srv[m]
      BY <3>2
    <3> QED BY <2>4, <3>2, <3>3, <3>4
  <2>10. ASSUME NEW n \in net, Lose(n)
         PROVE  \E t \in Served : Contract(srv'[m], Client, t).left >= cli'[m].renewal
    BY <2>4, <2>10 DEF Lose
  <2>11. ASSUME NEW n \in net, NEW keep \in BOOLEAN, ClientReceives(n, keep)
         PROVE  \E t \in Served : Contract(srv'[m], Client, t).left >= cli'[m].renewal
    <3>1. /\ n.kind = "GRANT" /\ srv' = srv
          /\ cli'[m].renewal = cli[m].renewal \/
               /\ m = n.from /\ n.duration = Duration /\ cli'[m].renewal <= Duration
               /\ n.type \in Served
          /\ cli' \in [Masters -> Entries]
      BY <1>2, <2>11, AnswerIs
    <3>2. CASE cli'[m].renewal = cli[m].renewal
      BY <2>4, <3>1, <3>2
    <3>3. CASE m = n.from /\ n.duration = Duration /\ cli'[m].renewal <= Duration /\ n.type \in Served
      <4>1. Contract(srv[m], Client, n.type).left >= Duration
        BY <1>2, <2>11, <3>1, <3>3, UnicastConfig DEF IInv, GrantsHold
      <4>2. Contract(srv[m], Client, n.type).left \in Int /\ cli'[m].renewal \in -1 .. Duration
        BY <2>1, <3>1, ContractTyped DEF Entries
      <4>3. Contract(srv[m], Client, n.type).left >= cli'[m].renewal
        BY <3>3, <4>1, <4>2, UnicastConfig
      <4> QED BY <3>1, <3>3, <4>3
    <3> QED BY <3>1, <3>2, <3>3
  <2>12. ASSUME NEW n \in net, NEW keep \in BOOLEAN, NEW memory \in BOOLEAN,
                ServiceReceives(n, keep, memory)
         PROVE  \E t \in Served : Contract(srv'[m], Client, t).left >= cli'[m].renewal
    <3>1. n.to \in Masters /\ cli' = cli
      BY <1>2, <2>12, RequestIs
    <3>2. PICK r : RequestServed(n, keep, r)
      BY <1>2, <2>12, RequestIs
    <3>3. AllBetter(srv[n.to], r) /\ srv' = [srv EXCEPT ![n.to] = r] /\ srv \in [Masters -> Services]
      BY <1>2, <3>2 DEF RequestServed, IInv, SoundServices
    <3>4. Lasts(srv[n.to], r)
      BY <2>1, <3>1, <3>3, BetterLasts
    <3>5. srv'[m] = IF m = n.to THEN r ELSE srv[m]
      BY <3>3
    <3> QED BY <2>4, <3>1, <3>4, <3>5
  <2> QED BY <1>2, <2>5, <2>6, <2>7, <2>8, <2>9, <2>10, <2>11, <2>12, NextIs
<1> QED BY <1>1, <1>2, Invariant, PTL DEF Spec

(* The contracts of all services.                                          *)
LEMMA ContractsAre ==
  /\ contracts = [m \in Masters |-> contracts[m]]
  /\ \A m \in Masters : contracts[m] = [a \in Addrs |-> [t \in Served |-> contracts[m][a][t]]]
  /\ \A m \in Masters, a \in Addrs, t \in Served : contracts[m][a][t] = Contract(srv[m], a, t)
BY DEF contracts

(* And after a step.                                                       *)
LEMMA ContractsThen ==
  /\ contracts' = [m \in Masters |-> contracts'[m]]
  /\ \A m \in Masters : contracts'[m] = [a \in Addrs |-> [t \in Served |-> contracts'[m][a][t]]]
  /\ \A m \in Masters, a \in Addrs, t \in Served : contracts'[m][a][t] = Contract(srv'[m], a, t)
BY DEF contracts

(* One service has become r: the others promise what they did.             *)
LEMMA OneService ==
  ASSUME srv \in [Masters -> Services], NEW m \in Masters, NEW r, srv' = [srv EXCEPT ![m] = r]
  PROVE  /\ contracts' = [contracts EXCEPT ![m] = contracts'[m]]
         /\ \A a \in Addrs, t \in Served : contracts'[m][a][t] = Contract(r, a, t)
<1>1. \A k \in Masters : srv'[k] = IF k = m THEN r ELSE srv[k]
  OBVIOUS
<1>2. ASSUME NEW k \in Masters, k # m PROVE contracts'[k] = contracts[k]
  <2>1. srv'[k] = srv[k]
    BY <1>1, <1>2
  <2>2. \A a \in Addrs, t \in Served : contracts'[k][a][t] = contracts[k][a][t]
    BY <2>1, ContractsAre, ContractsThen
  <2>3. /\ contracts[k] = [a \in Addrs |-> [t \in Served |-> contracts[k][a][t]]]
        /\ contracts'[k] = [a \in Addrs |-> [t \in Served |-> contracts'[k][a][t]]]
    BY ContractsAre, ContractsThen
  <2> QED BY <2>2, <2>3
<1>3. \A a \in Addrs, t \in Served : contracts'[m][a][t] = Contract(r, a, t)
  BY <1>1, ContractsThen
<1>4. contracts = [k \in Masters |-> contracts[k]] /\ contracts' = [k \in Masters |-> contracts'[k]]
  BY ContractsAre, ContractsThen
<1>5. contracts' = [contracts EXCEPT ![m] = contracts'[m]]
  BY <1>2, <1>4
<1> QED BY <1>3, <1>5

(* Contracts of one address of one service have changed.                   *)
OnlyOf(m, a) == contracts' = [contracts EXCEPT ![m][a] = contracts'[m][a]]

(* That is all that changes when the service keeps those of others.        *)
LEMMA OneAddress ==
  ASSUME srv \in [Masters -> Services], NEW m \in Masters, NEW r, srv' = [srv EXCEPT ![m] = r],
         NEW a \in Addrs, \A b, u : b # a => Contract(r, b, u) = Contract(srv[m], b, u)
  PROVE  OnlyOf(m, a)
<1>1. /\ contracts' = [contracts EXCEPT ![m] = contracts'[m]]
      /\ \A b \in Addrs, t \in Served : contracts'[m][b][t] = Contract(r, b, t)
  BY OneService
<1>2. ASSUME NEW b \in Addrs, b # a PROVE contracts'[m][b] = contracts[m][b]
  <2>1. \A t \in Served : contracts'[m][b][t] = contracts[m][b][t]
    BY <1>1, <1>2, ContractsAre
  <2>2. contracts[m] = [d \in Addrs |-> [t \in Served |-> contracts[m][d][t]]]
    BY ContractsAre
  <2>3. contracts'[m] = [d \in Addrs |-> [t \in Served |-> contracts'[m][d][t]]]
    BY ContractsThen
  <2>4. contracts[m][b] = [t \in Served |-> contracts[m][b][t]]
    BY <2>2
  <2>5. contracts'[m][b] = [t \in Served |-> contracts'[m][b][t]]
    BY <2>3
  <2> QED BY <2>1, <2>4, <2>5
<1> DEFINE old == contracts[m]
           new == contracts'[m]
<1>3. old = [b \in Addrs |-> old[b]] /\ new = [b \in Addrs |-> new[b]]
  <2>1. old = [d \in Addrs |-> [t \in Served |-> old[d][t]]]
    BY ContractsAre
  <2>2. new = [d \in Addrs |-> [t \in Served |-> new[d][t]]]
    BY ContractsThen
  <2> HIDE DEF old, new
  <2> QED BY <2>1, <2>2
<1>4. contracts = [k \in Masters |-> contracts[k]]
  BY ContractsAre
<1>5. new = [old EXCEPT ![a] = new[a]]
  <2>1. \A b \in Addrs : b # a => new[b] = old[b]
    BY <1>2
  <2> HIDE DEF old, new
  <2> QED BY <1>3, <2>1
<1>6. contracts' = [contracts EXCEPT ![m] = [contracts[m] EXCEPT ![a] = contracts'[m][a]]]
  BY <1>1, <1>5
<1> QED BY <1>4, <1>6 DEF OnlyOf

(* Nothing is promised at the start.                                       *)
LEMMA NothingPromised ==
  ASSUME Init
  PROVE  Contracts!Init
<1>1. Sound(NoService) /\ \A m \in Masters : srv[m] = NoService
  <2>1. IInv /\ \A m \in Masters : srv[m] = NoService
    BY Start
  <2>2. NoService.intervals = <<>> /\ NoService \in Services
    BY DEF NoService, Services
  <2>3. DOMAIN NoService.intervals = {}
    BY <2>2
  <2> QED BY <2>1, <2>2, <2>3 DEF Sound
<1>2. ASSUME NEW a, NEW t PROVE Contract(NoService, a, t) = NoContract
  <2>1. \A p, l : ~Promises(NoService, a, t, p, l)
    BY DEF Promises, NoService
  <2> QED BY <1>1, <2>1, NoContractIs
<1>3. Contracts!None = NoContract
  BY DEF Contracts!None, NoContract
<1>4. ASSUME NEW m \in Masters
      PROVE  [a \in Addrs |-> [t \in Served |-> Contract(srv[m], a, t)]]
             = [a \in Addrs |-> [t \in Served |-> NoContract]]
  BY <1>1, <1>2
<1>5. contracts = [m \in Masters |-> [a \in Addrs |-> [t \in Served |-> NoContract]]]
  BY <1>4 DEF contracts
<1> QED BY <1>3, <1>5 DEF Contracts!Init

(* What others do at a service is a negotiation, or contracts end.         *)
LEMMA ChangesNegotiated ==
  ASSUME IInv, NEW m \in Masters, NEW r, ServiceOnly(m, r)
  PROVE  Contracts!Next
<1>1. srv \in [Masters -> Services] /\ srv' = [srv EXCEPT ![m] = r] /\ Changes(m, r)
  BY DEF IInv, SoundServices, ServiceOnly
<1>2. /\ contracts' = [contracts EXCEPT ![m] = contracts'[m]]
      /\ \A b \in Addrs, t \in Served : contracts'[m][b][t] = Contract(r, b, t)
      /\ \A b \in Addrs, t \in Served : contracts[m][b][t] = Contract(srv[m], b, t)
  BY <1>1, OneService, ContractsAre
<1>3. Contracts!None = NoContract
  BY DEF Contracts!None, NoContract
<1>4. ASSUME NEW a \in Addrs, NEW type \in Served,
             \A b, u : b # a => Contract(r, b, u) = Contract(srv[m], b, u),
             \A u : u # type => Contracts!Prolonged(Contract(srv[m], a, u), Contract(r, a, u)),
             Contract(r, a, type) = NoContract \/ Contracts!Granted(Contract(r, a, type))
      PROVE  Contracts!Negotiated(m, a)
  <2>1. OnlyOf(m, a)
    BY <1>1, <1>4, OneAddress
  <2>2. \A t \in Served :
              \/ Contracts!Prolonged(contracts[m][a][t], contracts'[m][a][t])
              \/ Contracts!Granted(contracts'[m][a][t])
              \/ t = type /\ contracts'[m][a][t] = NoContract
    BY <1>2, <1>4
  <2> QED BY <1>3, <2>1, <2>2 DEF Contracts!Negotiated, OnlyOf
<1>5. ASSUME \A a, u : \/ Contract(r, a, u) = Contract(srv[m], a, u)
                       \/ Contract(srv[m], a, u).left < 0 /\ Contract(r, a, u) = NoContract
      PROVE  Contracts!Ended(m)
  <2>1. \A a \in Addrs, t \in Served :
            \/ contracts'[m][a][t] = contracts[m][a][t]
            \/ contracts[m][a][t].left < 0 /\ contracts'[m][a][t] = NoContract
    BY <1>2, <1>5
  <2> QED BY <1>2, <1>3, <2>1 DEF Contracts!Ended
<1> QED BY <1>1, <1>4, <1>5 DEF Changes, Contracts!Next

(* What the client asks for is a negotiation.                              *)
LEMMA RequestNegotiated ==
  ASSUME IInv, NEW m \in Masters, NEW r, srv' = [srv EXCEPT ![m] = r], AllBetter(srv[m], r)
  PROVE  Contracts!Negotiated(m, Client)
<1>1. srv \in [Masters -> Services] /\ Client \in Addrs
  BY UnicastConfig DEF IInv, SoundServices
<1>5. \A b, u : b # Client => Contract(r, b, u) = Contract(srv[m], b, u)
  BY DEF AllBetter
<1>2. OnlyOf(m, Client)
  BY <1>1, <1>5, OneAddress
<1>3. ASSUME NEW t \in Served
      PROVE  \/ Contracts!Prolonged(contracts[m][Client][t], contracts'[m][Client][t])
             \/ Contracts!Granted(contracts'[m][Client][t])
  <2>1. /\ contracts[m][Client][t] = Contract(srv[m], Client, t)
        /\ contracts'[m][Client][t] = Contract(r, Client, t)
    <3>1. \A b \in Addrs, u \in Served : contracts'[m][b][u] = Contract(r, b, u)
      BY <1>1, OneService
    <3>2. \A b \in Addrs, u \in Served : contracts[m][b][u] = Contract(srv[m], b, u)
      BY ContractsAre
    <3> QED BY <1>1, <3>1, <3>2
  <2>2. Better(contracts[m][Client][t], contracts'[m][Client][t])
    BY <2>1 DEF AllBetter
  <2> DEFINE n == contracts'[m][Client][t]
  <2>3. n.left \in Int /\ n.left <= Duration
    <3>1. Sound(r)
      BY DEF AllBetter
    <3> QED BY <2>1, <3>1, ContractTyped, UnicastConfig
  <2> HIDE DEF n
  <2> QED BY <2>2, <2>3, UnicastConfig
          DEF n, Better, Contracts!Prolonged, Contracts!Granted, Contracts!None, NoContract
<1>4. "SYNC" \in Served
  BY DEF Served
<1> QED BY <1>2, <1>3, <1>4 DEF Contracts!Negotiated, OnlyOf

(* Time passes for all contracts.                                          *)
LEMMA TimePasses ==
  ASSUME IInv, Tick
  PROVE  Contracts!Tick
<1>1. ASSUME NEW m \in Masters, NEW a \in Addrs, NEW t \in Served
      PROVE  contracts'[m][a][t] = Contracts!Passed(contracts[m][a][t])
  <2>1. Sound(srv[m]) /\ srv'[m] = ServiceTick(srv[m])
    BY DEF IInv, SoundServices, Tick
  <2>5. \A b, u : Contract(ServiceTick(srv[m]), b, u) = Contracts!Passed(Contract(srv[m], b, u))
    BY <2>1, TickLasts
  <2>2. Contract(srv'[m], a, t) = Contracts!Passed(Contract(srv[m], a, t))
    BY <2>1, <2>5
  <2>3. contracts[m][a][t] = Contract(srv[m], a, t)
    BY ContractsAre
  <2>4. contracts'[m][a][t] = Contract(srv'[m], a, t)
    BY ContractsThen
  <2> QED BY <2>2, <2>3, <2>4
<1>2. ASSUME NEW m \in Masters
      PROVE  contracts'[m] = [a \in Addrs |-> [t \in Served |-> Contracts!Passed(contracts[m][a][t])]]
  <2> DEFINE passed(a, t) == Contracts!Passed(contracts[m][a][t])
             new == contracts'[m]
  <2>1. new = [a \in Addrs |-> [t \in Served |-> new[a][t]]]
    BY ContractsThen
  <2>2. \A a \in Addrs, t \in Served : new[a][t] = passed(a, t)
    BY <1>1
  <2> HIDE DEF passed, new
  <2>3. new = [a \in Addrs |-> [t \in Served |-> passed(a, t)]]
    BY <2>1, <2>2
  <2> QED BY <2>3 DEF passed, new
<1>3. contracts' = [m \in Masters |-> contracts'[m]]
  BY ContractsThen
<1>4. contracts' = [m \in Masters |-> [a \in Addrs |-> [t \in Served |->
                        Contracts!Passed(contracts[m][a][t])]]]
  BY <1>2, <1>3
<1> QED BY <1>4 DEF Contracts!Tick

(* The services together implement UnicastContracts: a contract lasts as   *)
(* long as was granted unless it is replaced or cancelled, and a request   *)
(* for one message type takes nothing from another type or address         *)
(* (unicast_service_add, unicast_service_remove, unicast_service_timer).   *)
THEOREM ContractsAreKept == Spec => ContractsKept
<1>1. Init => Contracts!Init
  BY NothingPromised
<1>2. ASSUME IInv, [Next]_vars PROVE [Contracts!Next]_contracts
  <2>1. CASE srv' = srv
    <3>1. contracts' = contracts
      BY <2>1 DEF contracts
    <3> QED BY <3>1
  <2>2. CASE Tick
    BY <1>2, <2>2, TimePasses DEF Contracts!Next
  <2>3. ASSUME NEW m \in Masters, Elsewhere(m) PROVE Contracts!Next
    BY <1>2, <2>3, ElsewhereIs, ChangesNegotiated
  <2>4. ASSUME NEW n \in net, NEW keep \in BOOLEAN, NEW memory \in BOOLEAN,
               ServiceReceives(n, keep, memory)
        PROVE  Contracts!Next
    <3>1. PICK r : RequestServed(n, keep, r)
      BY <1>2, <2>4, RequestIs
    <3>2. n.to \in Masters /\ AllBetter(srv[n.to], r) /\ srv' = [srv EXCEPT ![n.to] = r]
      BY <1>2, <2>4, <3>1, RequestIs DEF RequestServed
    <3>3. Contracts!Negotiated(n.to, Client) /\ Client \in Addrs
      BY <1>2, <3>2, RequestNegotiated, UnicastConfig
    <3> QED BY <3>2, <3>3 DEF Contracts!Next
  <2>5. CASE UNCHANGED vars
    BY <2>1, <2>5 DEF vars
  <2>6. CASE ClientTimer
    BY <2>1, <2>6 DEF ClientTimer
  <2>7. CASE Alone
    BY <1>2, <2>1, <2>7, AloneIs
  <2>8. ASSUME NEW n \in net, Lose(n) PROVE srv' = srv
    BY <2>8 DEF Lose
  <2>9. ASSUME NEW n \in net, NEW keep \in BOOLEAN, ClientReceives(n, keep) PROVE srv' = srv
    BY <2>9 DEF ClientReceives
  <2> QED BY <1>2, <2>1, <2>2, <2>3, <2>4, <2>5, <2>6, <2>7, <2>8, <2>9, NextIs
<1>3. Spec => Contracts!Spec
  BY <1>1, <1>2, Invariant, PTL DEF Spec, Contracts!Spec
<1> QED BY <1>3 DEF ContractsKept
=============================================================================
