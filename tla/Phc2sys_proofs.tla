-------------------------- MODULE Phc2sys_proofs ---------------------------
(***************************************************************************)
(* As long as ptp4l has not ended, phc2sys keeps its subscription, knows   *)
(* the state of every port in the end, and sets no clock ptp4l sets: for   *)
(* any number of ports, any states they go through, and any interleaving   *)
(* of the requests, the answers and the notices.                           *)
(***************************************************************************)
EXTENDS Phc2sys, WellFoundedInduction, TLAPS

(***************************************************************************)
(* What is under way between the two programs.                             *)
(***************************************************************************)
Has(s, id) == \E i \in 1 .. Len(s) : s[i].id = id

Before(s, a, b) == \E i, j \in 1 .. Len(s) : i < j /\ s[i].id = a /\ s[j].id = b

(* A request, or its answer, is under way; one is ahead of another.        *)
UnderWay(i, r, a) == Has(i, a) \/ Has(r, a)
Leads(i, r, a, b) == Before(i, a, b) \/ Before(r, a, b) \/ (Has(i, a) /\ Has(r, b))

Pending(a) == UnderWay(inbox, requests, a)
Ahead(a, b) == Leads(inbox, requests, a, b)

(* Message m tells the state of port p.                                    *)
About(m, p) == m.id \in {"PORT_PROPERTIES", "PORT_DATA_SET"} /\ m.port = p

(* What a reader of s, who holds that p is in state v, takes for its state *)
(* after k messages, if the k-th (or v itself) is the last about p so far. *)
Heard(s, p, k) == k = 0 \/ About(s[k], p)
Value(s, v, k) == IF k = 0 THEN v ELSE psysNormalizeState(s[k].state)
Agree(x, y) == x = Null \/ x = y

(* The reader ends with the state w, and no answer surprises him: an       *)
(* answer only tells a known port's state again.                           *)
Told(s, p, v, w) ==
    /\ \A k \in 0 .. Len(s) :
         Heard(s, p, k) /\ (\A j \in k + 1 .. Len(s) : ~About(s[j], p))
           => Agree(Value(s, v, k), w)
    /\ \A i \in 1 .. Len(s) : \A k \in 0 .. i - 1 :
         About(s[i], p) /\ s[i].id = "PORT_PROPERTIES"
           /\ Heard(s, p, k) /\ (\A j \in k + 1 .. i - 1 : ~About(s[j], p))
           => Agree(Value(s, v, k), psysNormalizeState(s[i].state))

(***************************************************************************)
(* The invariant, as long as ptp4l has not ended.                          *)
(***************************************************************************)
Early == {"identity", "number", "subscribed"}
Loop  == {"sleep", "sync", "subscribe", "update", "events", "offset", "reinit"}

(* What the client asks for in step x.                                     *)
Topic(x) ==
    IF x \in {"identity", "number"} THEN "DEFAULT_DATA_SET"
    ELSE IF x \in {"subscribed", "subscribe"} THEN "SUBSCRIBE_EVENTS"
    ELSE IF x \in {"ports", "reinit"} THEN "PORT_PROPERTIES"
    ELSE "TIME_PROPERTIES"

(* What is asked for is under way, once ptp4l has been found to run.       *)
Alive(n) ==
    /\ ~up => inbox = <<>> /\ requests = <<>> /\ expiration = Null
              /\ n.step = "identity"
    /\ n.step # "exit"
    /\ n.step \in Patient \cup {"subscribe"} /\ n.step # "identity" /\ n.pmc_ds_requested
         => Pending(Topic(n.step))
    /\ n.step \in {"sleep", "sync"} => ~n.pmc_ds_requested

(* How long the subscription will last.                                    *)
Lease(n) ==
    /\ n.step \in {"identity", "number"} =>
         expiration = Null /\ ~Pending("SUBSCRIBE_EVENTS")
    /\ n.step = "subscribed" =>
         /\ expiration = IF Has(inbox, "SUBSCRIBE_EVENTS") THEN Duration ELSE Null
         /\ Pending("SUBSCRIBE_EVENTS") => n.pmc_ds_requested
         /\ ~Ahead("SUBSCRIBE_EVENTS", "SUBSCRIBE_EVENTS")
    /\ n.step \in {"ports", "first_offset"} =>
         expiration = Duration /\ ~Pending("SUBSCRIBE_EVENTS")
    /\ n.step \notin Loop \/ n.step \in {"subscribe", "update"} => n.age = UpdateInterval
    /\ n.step \in Loop =>
         /\ expiration \in Duration - 1 - UpdateInterval .. Duration
         /\ Pending("SUBSCRIBE_EVENTS") =>
              /\ n.age = UpdateInterval
              /\ ~Ahead("SUBSCRIBE_EVENTS", "SUBSCRIBE_EVENTS")
              /\ ~Ahead("TIME_PROPERTIES", "SUBSCRIBE_EVENTS")
         /\ Has(inbox, "SUBSCRIBE_EVENTS") =>
              expiration = Duration \/ (expiration = Duration - 1 /\ n.step = "subscribe")
         /\ n.step = "subscribe" /\ ~n.pmc_ds_requested => requests = <<>>
         /\ n.step # "subscribe" /\ ~Pending("SUBSCRIBE_EVENTS") =>
              /\ expiration >= Duration - 1 - n.age
              /\ n.age = UpdateInterval => expiration >= Duration - 1

(* Only the port that is asked about is answered for, and once.            *)
OfPort(s, p) == \A i \in 1 .. Len(s) : s[i].id = "PORT_PROPERTIES" => s[i].port = p

Single(n) ==
    /\ Pending("PORT_PROPERTIES") =>
         n.step \in {"ports", "reinit"} /\ n.pmc_ds_requested
    /\ ~Ahead("PORT_PROPERTIES", "PORT_PROPERTIES")
    /\ OfPort(inbox, n.idx) /\ OfPort(requests, n.idx)

(* The client is told of every change, in order, once it has subscribed.   *)
Informed(n) ==
    /\ Has(inbox, "PORT_DATA_SET") => expiration # Null
    /\ \A p \in Ports : Told(inbox, p, n.ports[p], psysNormalizeState(state[p]))

(* The ports it knows.                                                     *)
Knows(n) ==
    /\ n.step \in Early => n.idx = 1
    /\ \A p \in Ports : n.ports[p] = Null
                         <=> n.step \in Early \/ (n.step = "ports" /\ p >= n.idx)

(* What every clock is to be.                                              *)
Aims(n) ==
    n.step \in Loop \cup {"first_offset"} =>
        \A p \in Ports : n.ports[p] = IF n.new[p] = Null THEN n.clocks[p] ELSE n.new[p]

(* What is left to do, unless a notice has come since the loop over the    *)
(* clocks began; only the stand-in for a source waits for the next time.   *)
Calm(n) ==
    /\ n.step = "first_offset" => n.state_changed
    /\ n.step = "reinit" => n.new[n.idx] # Null
    /\ n.step \in Loop /\ ~n.state_changed =>
         \A p \in Ports : n.new[p] # Null =>
             IF n.step = "reinit" THEN p <= n.idx ELSE n.master = p

(* The system clock is the source only for want of a port.                 *)
Last(n) ==
    n.master = RT /\ n.step # "reinit" =>
        rt = "source" /\ \A p \in Ports : n.clocks[p] \notin {PS_UNCALIBRATED, PS_SLAVE}

(* What concerns the client only.                                          *)
Local(n) == Knows(n) /\ Aims(n) /\ Calm(n) /\ Last(n)

Steady(n) == Alive(n) /\ Lease(n) /\ Single(n) /\ Informed(n) /\ Local(n)

PhcInv == TypeOK /\ (crashes = 0 => Steady(node))
----------------------------------------------------------------------------
(***************************************************************************)
(* Sequences of requests and answers.                                      *)
(***************************************************************************)
Messages == Requests \cup Answers

LEMMA TailIs ==
  ASSUME NEW S, NEW s \in Seq(S), s # << >>
  PROVE  /\ Len(s) \in Nat \ {0} /\ s[1] = Head(s) /\ Head(s) \in S
         /\ Tail(s) \in Seq(S) /\ Len(Tail(s)) = Len(s) - 1
         /\ \A i \in 1 .. Len(s) - 1 : Tail(s)[i] = s[i + 1]
OBVIOUS

LEMMA AppendIs ==
  ASSUME NEW S, NEW s \in Seq(S), NEW m \in S
  PROVE  /\ Append(s, m) \in Seq(S) /\ Len(s) \in Nat
         /\ Len(Append(s, m)) = Len(s) + 1 /\ Append(s, m)[Len(s) + 1] = m
         /\ \A i \in 1 .. Len(s) : Append(s, m)[i] = s[i]
OBVIOUS

(* What is in a sequence, and in which order, when one is added at its end *)
LEMMA HasAppend ==
  ASSUME NEW S, NEW s \in Seq(S), NEW m \in S, NEW a
  PROVE  Has(Append(s, m), a) <=> Has(s, a) \/ m.id = a
<1> DEFINE t == Append(s, m)
<1>1. /\ Len(s) \in Nat /\ Len(t) = Len(s) + 1 /\ t[Len(s) + 1] = m
      /\ \A i \in 1 .. Len(s) : t[i] = s[i]
  BY AppendIs
<1> HIDE DEF t
<1>2. Has(t, a) <=> Has(s, a) \/ m.id = a
  BY <1>1 DEF Has
<1> QED BY <1>2 DEF t

LEMMA BeforeAppend ==
  ASSUME NEW S, NEW s \in Seq(S), NEW m \in S, NEW a, NEW b
  PROVE  Before(Append(s, m), a, b) <=> Before(s, a, b) \/ (Has(s, a) /\ m.id = b)
<1> DEFINE t == Append(s, m)
<1>1. /\ Len(s) \in Nat /\ Len(t) = Len(s) + 1 /\ t[Len(s) + 1] = m
      /\ \A i \in 1 .. Len(s) : t[i] = s[i]
  BY AppendIs
<1> HIDE DEF t
<1>2. ASSUME Before(t, a, b) PROVE Before(s, a, b) \/ (Has(s, a) /\ m.id = b)
  <2>1. PICK i, j \in 1 .. Len(t) : i < j /\ t[i].id = a /\ t[j].id = b
    BY <1>2 DEF Before
  <2>2. i \in 1 .. Len(s) /\ s[i].id = a
    BY <1>1, <2>1
  <2>3. CASE j \in 1 .. Len(s)
    BY <1>1, <2>1, <2>2, <2>3 DEF Before
  <2>4. CASE j = Len(s) + 1
    BY <1>1, <2>1, <2>2, <2>4 DEF Has
  <2> QED BY <1>1, <2>1, <2>3, <2>4
<1>3. ASSUME Before(s, a, b) PROVE Before(t, a, b)
  BY <1>1, <1>3 DEF Before
<1>4. ASSUME Has(s, a), m.id = b PROVE Before(t, a, b)
  <2>1. PICK i \in 1 .. Len(s) : s[i].id = a
    BY <1>4 DEF Has
  <2>2. i \in 1 .. Len(t) /\ Len(s) + 1 \in 1 .. Len(t) /\ i < Len(s) + 1 /\ t[i].id = a
    BY <1>1, <2>1
  <2> QED BY <1>1, <1>4, <2>2 DEF Before
<1> QED BY <1>2, <1>3, <1>4 DEF t

(* and when the first is taken out.                                        *)
LEMMA HasTail ==
  ASSUME NEW S, NEW s \in Seq(S), s # << >>, NEW a
  PROVE  Has(s, a) <=> Head(s).id = a \/ Has(Tail(s), a)
<1> DEFINE t == Tail(s)
           h == Head(s)
<1>1. /\ Len(s) \in Nat \ {0} /\ Len(t) = Len(s) - 1 /\ s[1] = h
      /\ \A i \in 1 .. Len(s) - 1 : t[i] = s[i + 1]
  BY TailIs
<1> HIDE DEF t, h
<1>2. ASSUME Has(s, a) PROVE h.id = a \/ Has(t, a)
  <2>1. PICK i \in 1 .. Len(s) : s[i].id = a
    BY <1>2 DEF Has
  <2>2. CASE i # 1
    <3>1. i - 1 \in 1 .. Len(t) /\ t[i - 1].id = a
      BY <1>1, <2>1, <2>2
    <3> QED BY <3>1 DEF Has
  <2> QED BY <1>1, <2>1, <2>2
<1>3. ASSUME Has(t, a) PROVE Has(s, a)
  <2>1. PICK i \in 1 .. Len(t) : t[i].id = a
    BY <1>3 DEF Has
  <2>2. i + 1 \in 1 .. Len(s) /\ s[i + 1].id = a
    BY <1>1, <2>1
  <2> QED BY <2>2 DEF Has
<1>4. ASSUME h.id = a PROVE Has(s, a)
  BY <1>1, <1>4 DEF Has
<1> QED BY <1>2, <1>3, <1>4 DEF t, h

LEMMA BeforeTail ==
  ASSUME NEW S, NEW s \in Seq(S), s # << >>, NEW a, NEW b
  PROVE  Before(s, a, b) <=> (Head(s).id = a /\ Has(Tail(s), b)) \/ Before(Tail(s), a, b)
<1> DEFINE t == Tail(s)
           h == Head(s)
<1>1. /\ Len(s) \in Nat \ {0} /\ Len(t) = Len(s) - 1 /\ s[1] = h
      /\ \A i \in 1 .. Len(s) - 1 : t[i] = s[i + 1]
  BY TailIs
<1> HIDE DEF t, h
<1>2. ASSUME Before(s, a, b) PROVE (h.id = a /\ Has(t, b)) \/ Before(t, a, b)
  <2>1. PICK i, j \in 1 .. Len(s) : i < j /\ s[i].id = a /\ s[j].id = b
    BY <1>2 DEF Before
  <2>2. j - 1 \in 1 .. Len(t) /\ t[j - 1].id = b
    BY <1>1, <2>1
  <2>3. CASE i = 1
    BY <1>1, <2>1, <2>2, <2>3 DEF Has
  <2>4. CASE i # 1
    <3>1. i - 1 \in 1 .. Len(t) /\ t[i - 1].id = a /\ i - 1 < j - 1
      BY <1>1, <2>1, <2>4
    <3> QED BY <2>2, <3>1 DEF Before
  <2> QED BY <2>3, <2>4
<1>3. ASSUME h.id = a, Has(t, b) PROVE Before(s, a, b)
  <2>1. PICK i \in 1 .. Len(t) : t[i].id = b
    BY <1>3 DEF Has
  <2>2. i + 1 \in 1 .. Len(s) /\ 1 \in 1 .. Len(s) /\ 1 < i + 1 /\ s[i + 1].id = b
    BY <1>1, <2>1
  <2> QED BY <1>1, <1>3, <2>2 DEF Before
<1>4. ASSUME Before(t, a, b) PROVE Before(s, a, b)
  <2>1. PICK i, j \in 1 .. Len(t) : i < j /\ t[i].id = a /\ t[j].id = b
    BY <1>4 DEF Before
  <2>2. /\ i + 1 \in 1 .. Len(s) /\ s[i + 1].id = a
        /\ j + 1 \in 1 .. Len(s) /\ s[j + 1].id = b /\ i + 1 < j + 1
    BY <1>1, <2>1
  <2> QED BY <2>2 DEF Before
<1> QED BY <1>2, <1>3, <1>4 DEF t, h

LEMMA NothingIn ==
  \A a, b : ~Has(<< >>, a) /\ ~Before(<< >>, a, b)
BY DEF Has, Before

LEMMA BeforeHas ==
  ASSUME NEW s, NEW a, NEW b
  PROVE  Before(s, a, b) => Has(s, a) /\ Has(s, b)
BY DEF Before, Has

LEMMA OfPortAppend ==
  ASSUME NEW S, NEW s \in Seq(S), NEW m \in S, NEW p
  PROVE  OfPort(Append(s, m), p)
           <=> OfPort(s, p) /\ (m.id = "PORT_PROPERTIES" => m.port = p)
<1> DEFINE t == Append(s, m)
<1>1. /\ Len(s) \in Nat /\ Len(t) = Len(s) + 1 /\ t[Len(s) + 1] = m
      /\ \A i \in 1 .. Len(s) : t[i] = s[i]
  BY AppendIs
<1> HIDE DEF t
<1>2. OfPort(t, p) <=> OfPort(s, p) /\ (m.id = "PORT_PROPERTIES" => m.port = p)
  BY <1>1 DEF OfPort
<1> QED BY <1>2 DEF t

LEMMA OfPortTail ==
  ASSUME NEW S, NEW s \in Seq(S), s # << >>, NEW p, OfPort(s, p)
  PROVE  /\ Head(s).id = "PORT_PROPERTIES" => Head(s).port = p
         /\ OfPort(Tail(s), p)
<1> DEFINE t == Tail(s)
           h == Head(s)
<1>1. /\ Len(s) \in Nat \ {0} /\ Len(t) = Len(s) - 1 /\ s[1] = h
      /\ \A i \in 1 .. Len(s) - 1 : t[i] = s[i + 1]
  BY TailIs
<1> HIDE DEF t, h
<1>2. h.id = "PORT_PROPERTIES" => h.port = p
  BY <1>1 DEF OfPort
<1>3. OfPort(t, p)
  BY <1>1 DEF OfPort
<1> QED BY <1>2, <1>3 DEF t, h

LEMMA OfPortNone ==
  ASSUME NEW s, ~Has(s, "PORT_PROPERTIES"), NEW p
  PROVE  OfPort(s, p)
BY DEF OfPort, Has

(***************************************************************************)
(* What the reader is told.                                                *)
(***************************************************************************)

(* Added at the end: something else, an answer with the state w, a notice. *)
LEMMA ToldOther ==
  ASSUME NEW S, NEW s \in Seq(S), NEW m \in S, NEW p, NEW v, NEW w,
         Told(s, p, v, w), ~About(m, p)
  PROVE  Told(Append(s, m), p, v, w)
<1> DEFINE t == Append(s, m)
<1>1. /\ Len(s) \in Nat /\ Len(t) = Len(s) + 1 /\ t[Len(s) + 1] = m
      /\ \A i \in 1 .. Len(s) : t[i] = s[i]
  BY AppendIs
<1> HIDE DEF t
<1>2. \A k \in 0 .. Len(s) : (Heard(t, p, k) <=> Heard(s, p, k)) /\ Value(t, v, k) = Value(s, v, k)
  BY <1>1 DEF Heard, Value
<1>3. ASSUME NEW k \in 0 .. Len(t), Heard(t, p, k), \A j \in k + 1 .. Len(t) : ~About(t[j], p)
      PROVE  Agree(Value(t, v, k), w)
  <2>1. k # Len(s) + 1
    BY <1>1, <1>3 DEF Heard
  <2>2. k \in 0 .. Len(s) /\ \A j \in k + 1 .. Len(s) : ~About(s[j], p)
    BY <1>1, <1>3, <2>1
  <2> QED BY <1>2, <1>3, <2>2 DEF Told
<1>4. ASSUME NEW i \in 1 .. Len(t), NEW k \in 0 .. i - 1, About(t[i], p),
             t[i].id = "PORT_PROPERTIES", Heard(t, p, k),
             \A j \in k + 1 .. i - 1 : ~About(t[j], p)
      PROVE  Agree(Value(t, v, k), psysNormalizeState(t[i].state))
  <2>1. i # Len(s) + 1
    BY <1>1, <1>4
  <2>2. i \in 1 .. Len(s) /\ k \in 0 .. Len(s) /\ t[i] = s[i]
    BY <1>1, <1>4, <2>1
  <2>3. \A j \in k + 1 .. i - 1 : ~About(s[j], p)
    BY <1>1, <1>4, <2>2
  <2> QED BY <1>2, <1>4, <2>2, <2>3 DEF Told
<1>5. Told(t, p, v, w)
  BY <1>3, <1>4 DEF Told
<1> QED BY <1>5 DEF t

LEMMA ToldAbout ==
  ASSUME NEW S, NEW s \in Seq(S), NEW m \in S, NEW p, NEW v, NEW w,
         Told(s, p, v, w), About(m, p),
         m.id = "PORT_PROPERTIES" => psysNormalizeState(m.state) = w
  PROVE  Told(Append(s, m), p, v, psysNormalizeState(m.state))
<1> DEFINE t == Append(s, m)
           x == psysNormalizeState(m.state)
<1>1. /\ Len(s) \in Nat /\ Len(t) = Len(s) + 1 /\ t[Len(s) + 1] = m
      /\ \A i \in 1 .. Len(s) : t[i] = s[i]
  BY AppendIs
<1> HIDE DEF t
<1>2. \A k \in 0 .. Len(s) : (Heard(t, p, k) <=> Heard(s, p, k)) /\ Value(t, v, k) = Value(s, v, k)
  BY <1>1 DEF Heard, Value
<1>3. ASSUME NEW k \in 0 .. Len(t), Heard(t, p, k), \A j \in k + 1 .. Len(t) : ~About(t[j], p)
      PROVE  Agree(Value(t, v, k), x)
  <2>1. k = Len(s) + 1
    BY <1>1, <1>3
  <2> QED BY <1>1, <2>1 DEF Value, Agree
<1>4. ASSUME NEW i \in 1 .. Len(t), NEW k \in 0 .. i - 1, About(t[i], p),
             t[i].id = "PORT_PROPERTIES", Heard(t, p, k),
             \A j \in k + 1 .. i - 1 : ~About(t[j], p)
      PROVE  Agree(Value(t, v, k), psysNormalizeState(t[i].state))
  <2>1. k \in 0 .. Len(s) /\ \A j \in k + 1 .. i - 1 : ~About(s[j], p)
    BY <1>1, <1>4
  <2>2. CASE i = Len(s) + 1
    <3>1. Agree(Value(s, v, k), w)
      <4>1. Heard(s, p, k)
        BY <1>2, <1>4, <2>1
      <4>2. \A j \in k + 1 .. Len(s) : ~About(s[j], p)
        BY <1>1, <2>1, <2>2
      <4> QED BY <2>1, <4>1, <4>2 DEF Told
    <3>2. psysNormalizeState(t[i].state) = w
      BY <1>1, <1>4, <2>2
    <3> QED BY <1>2, <2>1, <3>1, <3>2
  <2>3. CASE i \in 1 .. Len(s)
    <3>1. t[i] = s[i] /\ Heard(s, p, k)
      BY <1>1, <1>2, <1>4, <2>1, <2>3
    <3> QED BY <1>2, <1>4, <2>1, <2>3, <3>1 DEF Told
  <2> QED BY <1>1, <1>4, <2>2, <2>3
<1>5. Told(t, p, v, x)
  BY <1>3, <1>4 DEF Told
<1> QED BY <1>5 DEF t

(* Read: something else, or something about port p.                        *)
LEMMA ToldTail ==
  ASSUME NEW S, NEW s \in Seq(S), s # << >>, NEW p, NEW v, NEW w, Told(s, p, v, w), NEW x,
         IF About(Head(s), p) THEN x \in {Null, psysNormalizeState(Head(s).state)} ELSE x = v
  PROVE  Told(Tail(s), p, x, w)
<1> DEFINE t == Tail(s)
           h == Head(s)
<1>1. /\ Len(s) \in Nat \ {0} /\ Len(t) = Len(s) - 1 /\ s[1] = h
      /\ \A i \in 1 .. Len(s) - 1 : t[i] = s[i + 1]
  BY TailIs
<1> HIDE DEF t
<1>2. \A k \in 1 .. Len(t) :
        (Heard(t, p, k) <=> Heard(s, p, k + 1)) /\ Value(t, x, k) = Value(s, v, k + 1)
  BY <1>1 DEF Heard, Value
<1>3. \/ x = Null
      \/ About(h, p) /\ Heard(s, p, 1) /\ x = Value(s, v, 1)
      \/ ~About(h, p) /\ Heard(s, p, 0) /\ x = Value(s, v, 0)
  BY <1>1 DEF Heard, Value
<1>4. ASSUME NEW k \in 0 .. Len(t), Heard(t, p, k), \A j \in k + 1 .. Len(t) : ~About(t[j], p)
      PROVE  Agree(Value(t, x, k), w)
  <2>1. \A j \in k + 2 .. Len(s) : ~About(s[j], p)
    <3> SUFFICES ASSUME NEW j \in k + 2 .. Len(s) PROVE ~About(s[j], p)
      OBVIOUS
    <3>1. j - 1 \in k + 1 .. Len(t) /\ t[j - 1] = s[j]
      BY <1>1
    <3> QED BY <1>4, <3>1
  <2>2. CASE k # 0
    <3>1. k + 1 \in 0 .. Len(s) /\ \A j \in (k + 1) + 1 .. Len(s) : ~About(s[j], p)
      BY <1>1, <2>1, <2>2
    <3>2. Heard(s, p, k + 1) /\ Value(t, x, k) = Value(s, v, k + 1)
      BY <1>2, <1>4, <2>2
    <3> QED BY <3>1, <3>2 DEF Told
  <2>3. CASE k = 0 /\ x = Null
    BY <2>3 DEF Value, Agree
  <2>4. CASE k = 0 /\ About(h, p) /\ Heard(s, p, 1) /\ x = Value(s, v, 1)
    <3>1. 1 \in 0 .. Len(s) /\ \A j \in 1 + 1 .. Len(s) : ~About(s[j], p)
      BY <1>1, <2>1, <2>4
    <3>2. Agree(Value(s, v, 1), w)
      BY <2>4, <3>1 DEF Told
    <3> QED BY <2>4, <3>2 DEF Value
  <2>5. CASE k = 0 /\ ~About(h, p) /\ Heard(s, p, 0) /\ x = Value(s, v, 0)
    <3>1. 0 \in 0 .. Len(s) /\ \A j \in 0 + 1 .. Len(s) : ~About(s[j], p)
      BY <1>1, <2>1, <2>5
    <3>2. Agree(Value(s, v, 0), w)
      BY <2>5, <3>1 DEF Told
    <3> QED BY <2>5, <3>2 DEF Value
  <2> QED BY <1>3, <2>2, <2>3, <2>4, <2>5
<1>5. ASSUME NEW i \in 1 .. Len(t), NEW k \in 0 .. i - 1, About(t[i], p),
             t[i].id = "PORT_PROPERTIES", Heard(t, p, k),
             \A j \in k + 1 .. i - 1 : ~About(t[j], p)
      PROVE  Agree(Value(t, x, k), psysNormalizeState(t[i].state))
  <2>1. i + 1 \in 1 .. Len(s) /\ t[i] = s[i + 1]
    BY <1>1
  <2>2. \A j \in k + 2 .. i : ~About(s[j], p)
    <3> SUFFICES ASSUME NEW j \in k + 2 .. i PROVE ~About(s[j], p)
      OBVIOUS
    <3>1. j - 1 \in k + 1 .. i - 1 /\ t[j - 1] = s[j]
      BY <1>1
    <3> QED BY <1>5, <3>1
  <2>3. \A l \in 0 .. i : Heard(s, p, l) /\ (\A j \in l + 1 .. i : ~About(s[j], p))
                            => Agree(Value(s, v, l), psysNormalizeState(t[i].state))
    <3> SUFFICES ASSUME NEW l \in 0 .. i, Heard(s, p, l), \A j \in l + 1 .. i : ~About(s[j], p)
                 PROVE  Agree(Value(s, v, l), psysNormalizeState(t[i].state))
      OBVIOUS
    <3>1. l \in 0 .. (i + 1) - 1 /\ \A j \in l + 1 .. (i + 1) - 1 : ~About(s[j], p)
      BY <1>1
    <3>2. About(s[i + 1], p) /\ s[i + 1].id = "PORT_PROPERTIES"
      BY <1>5, <2>1
    <3>3. Agree(Value(s, v, l), psysNormalizeState(s[i + 1].state))
      BY <2>1, <3>1, <3>2 DEF Told
    <3> QED BY <2>1, <3>3
  <2>4. CASE k # 0
    <3>1. k + 1 \in 0 .. i /\ \A j \in (k + 1) + 1 .. i : ~About(s[j], p)
      BY <1>1, <2>2, <2>4
    <3>2. k \in 1 .. Len(t)
      BY <1>1, <2>4
    <3>3. Heard(s, p, k + 1) /\ Value(t, x, k) = Value(s, v, k + 1)
      BY <1>2, <1>5, <3>2
    <3> QED BY <2>3, <3>1, <3>3
  <2>5. CASE k = 0 /\ x = Null
    BY <2>5 DEF Value, Agree
  <2>6. CASE k = 0 /\ About(h, p) /\ Heard(s, p, 1) /\ x = Value(s, v, 1)
    <3>1. 1 \in 0 .. i /\ \A j \in 1 + 1 .. i : ~About(s[j], p)
      BY <1>1, <2>2, <2>6
    <3>2. Value(t, x, k) = Value(s, v, 1)
      BY <2>6 DEF Value
    <3> QED BY <2>3, <2>6, <3>1, <3>2
  <2>7. CASE k = 0 /\ ~About(h, p) /\ Heard(s, p, 0) /\ x = Value(s, v, 0)
    <3>1. 0 \in 0 .. i /\ \A j \in 0 + 1 .. i : ~About(s[j], p)
      BY <1>1, <2>2, <2>7
    <3>2. Value(t, x, k) = Value(s, v, 0)
      BY <2>7 DEF Value
    <3> QED BY <2>3, <2>7, <3>1, <3>2
  <2> QED BY <1>3, <2>4, <2>5, <2>6, <2>7
<1>6. Told(t, p, x, w)
  BY <1>4, <1>5 DEF Told
<1> QED BY <1>6 DEF t

(* An answer that is read tells a known port's state again.                *)
LEMMA ToldAgain ==
  ASSUME NEW S, NEW s \in Seq(S), s # << >>, NEW p, NEW v, NEW w, Told(s, p, v, w),
         Head(s).id = "PORT_PROPERTIES", Head(s).port = p
  PROVE  Agree(v, psysNormalizeState(Head(s).state))
<1>1. Len(s) \in Nat \ {0} /\ s[1] = Head(s)
  BY TailIs
<1>2. 1 \in 1 .. Len(s) /\ 0 \in 0 .. 1 - 1 /\ About(s[1], p) /\ s[1].id = "PORT_PROPERTIES"
      /\ Heard(s, p, 0) /\ \A j \in 0 + 1 .. 1 - 1 : ~About(s[j], p)
  BY <1>1 DEF About, Heard
<1>3. Agree(Value(s, v, 0), psysNormalizeState(s[1].state))
  BY <1>2 DEF Told
<1> QED BY <1>1, <1>3 DEF Value

LEMMA ToldNothing ==
  ASSUME NEW S, NEW s \in Seq(S), NEW p, NEW v, NEW w, Agree(v, w),
         ~Has(s, "PORT_PROPERTIES"), ~Has(s, "PORT_DATA_SET")
  PROVE  Told(s, p, v, w)
<1>1. \A i \in 1 .. Len(s) : ~About(s[i], p)
  BY DEF Has, About
<1>2. ASSUME NEW k \in 0 .. Len(s), Heard(s, p, k) PROVE Value(s, v, k) = v
  BY <1>1, <1>2 DEF Heard, Value
<1> QED BY <1>1, <1>2 DEF Told

LEMMA ToldAll ==
  ASSUME NEW p, NEW v, NEW w, Told(<< >>, p, v, w)
  PROVE  Agree(v, w)
<1>1. 0 \in 0 .. Len(<< >>) /\ Heard(<< >>, p, 0) /\ \A j \in 0 + 1 .. Len(<< >>) : ~About(<< >>[j], p)
  BY DEF Heard
<1>2. Agree(Value(<< >>, v, 0), w)
  BY <1>1 DEF Told
<1> QED BY <1>2 DEF Value

----------------------------------------------------------------------------
(***************************************************************************)
(* Types.                                                                  *)
(***************************************************************************)
LEMMA Constants ==
  /\ NumberPorts \in Nat \ {0} /\ 1 \in Ports /\ NumberPorts \in Ports
  /\ Duration \in Nat /\ UpdateInterval \in Nat \ {0} /\ Duration > UpdateInterval + 1
  /\ MaxEvents \in Nat /\ PS_LISTENING \in PortStates /\ Realtime \subseteq {"none", "dest_only", "source"}
BY SubscriptionConfig, Phc2sysConfig DEF Ports

LEMMA NullApart ==
  /\ Null \notin Nat /\ Null \notin Norm /\ Null \notin Clocks /\ Null \notin Requests
  /\ Norm \subseteq Nat
<1>1. Null \notin Nat /\ Null \notin Requests
  BY NullConfig
<1>2. Norm \subseteq Nat
  BY DEF Norm, PS_DISABLED, PS_PRE_MASTER, PS_MASTER, PS_UNCALIBRATED, PS_SLAVE
<1>3. Clocks \subseteq Nat
  BY DEF Clocks, Ports, RT
<1> QED BY <1>1, <1>2, <1>3

LEMMA NormOf ==
  \A s : psysNormalizeState(s) \in Norm
BY DEF psysNormalizeState, Norm

LEMMA StateOfClock ==
  ASSUME NEW f, NEW c, f[c] \in Norm \cup {Null}
  PROVE  /\ clock_compute_state(f, c) \in Norm
         /\ f[c] # Null => clock_compute_state(f, c) = f[c]
<1>1. CASE f[c] = Null
  BY <1>1 DEF clock_compute_state, Norm
<1>2. CASE f[c] \in Norm
  BY <1>2, NullApart DEF clock_compute_state, Norm, PS_DISABLED, PS_PRE_MASTER, PS_MASTER,
     PS_UNCALIBRATED, PS_SLAVE
<1> QED BY <1>1, <1>2

(* The greatest of a set.                                                  *)
LEMMA LeastIn ==
  ASSUME NEW R, \A n, m \in Nat : <<n, m>> \in R <=> n < m, NEW T, T \subseteq Nat,
         \E m \in T : \A n \in T : ~(<<n, m>> \in R)
  PROVE  \E m \in T : \A n \in T : m <= n
<1>1. PICK m \in T : \A n \in T : ~(<<n, m>> \in R)
  OBVIOUS
<1>2. ASSUME NEW n \in T PROVE m <= n
  <2>1. n \in Nat /\ m \in Nat
    OBVIOUS
  <2>2. ~(n < m)
    BY <1>1, <2>1
  <2> QED BY <2>1, <2>2
<1> QED BY <1>2

LEMMA GreatestPort ==
  ASSUME NEW c \in Nat, NEW T \in SUBSET (1 .. c), T # {}
  PROVE  Max(T) \in T /\ \A d \in T : d <= Max(T)
<1> DEFINE R == OpToRel(<, Nat)
           U == {k \in Nat : c - k \in T}
<1>1. IsWellFoundedOn(R, Nat)
  BY NatLessThanWellFounded
<1>2. \A n, m \in Nat : <<n, m>> \in R <=> n < m
  BY DEF OpToRel
<1>3. U \in SUBSET Nat /\ U # {}
  <2>1. PICK d \in T : TRUE
    OBVIOUS
  <2>2. c - d \in U
    BY <2>1
  <2> QED BY <2>2
<1> HIDE DEF R
<1>4. \E m \in U : \A n \in U : ~(<<n, m>> \in R)
  <2> HIDE DEF U
  <2> QED BY <1>1, <1>3, WFMin, Zenon
<1>5. \E m \in U : \A n \in U : m <= n
  <2> HIDE DEF U
  <2> QED BY <1>2, <1>3, <1>4, LeastIn, Zenon
<1>6. PICK m \in U : \A n \in U : m <= n
  BY <1>5
<1>7. c - m \in T /\ \A d \in T : c - m >= d
  <2>1. ASSUME NEW d \in T PROVE c - m >= d
    <3>1. c - d \in U /\ d \in Nat /\ m \in Nat
      OBVIOUS
    <3>2. m <= c - d
      BY <1>6, <3>1
    <3> QED BY <3>1, <3>2
  <2> QED BY <2>1
<1>8. \E x \in T : \A y \in T : x >= y
  BY <1>7
<1>9. Max(T) \in T /\ \A y \in T : Max(T) >= y
  BY <1>8, Zenon DEF Max
<1> QED BY <1>9

(* A node whose fields change.                                             *)
LEMMA NodeMoves ==
  ASSUME NEW n \in Nodes, NEW p \in Ports, NEW s \in Norm
  PROVE  /\ [n EXCEPT !.ports[p] = s] \in Nodes
         /\ ClockMoves(n, p, s) \in Nodes
<1>1. [n EXCEPT !.ports[p] = s] \in Nodes
  <2> DEFINE f == [n.ports EXCEPT ![p] = s]
  <2>1. f \in [Ports -> Norm \cup {Null}]
    BY DEF Nodes
  <2>2. [n EXCEPT !.ports = f] \in Nodes
    <3> HIDE DEF f
    <3> QED BY <2>1 DEF Nodes
  <2> QED BY <2>2
<1>2. ASSUME TRUE PROVE [n EXCEPT !.new[p] = s, !.state_changed = TRUE] \in Nodes
  <2> DEFINE f == [n.new EXCEPT ![p] = s]
  <2>1. f \in [Ports -> Norm \cup {Null}]
    BY DEF Nodes
  <2>2. [n EXCEPT !.new = f, !.state_changed = TRUE] \in Nodes
    <3> HIDE DEF f
    <3> QED BY <2>1 DEF Nodes
  <2> QED BY <2>2
<1> QED BY <1>1, <1>2 DEF ClockMoves

LEMMA MovesType ==
  ASSUME NEW n \in Nodes, NEW p \in Ports, NEW s \in Norm
  PROVE  PortMoves(n, p, s) \in Nodes
<1> DEFINE g == [n EXCEPT !.ports[p] = s]
           f == [n.ports EXCEPT ![p] = s]
           t == clock_compute_state(f, p)
<1>1. g \in Nodes
  BY NodeMoves
<1>2. t \in Norm
  <2>1. f[p] = s
    BY DEF Nodes
  <2> HIDE DEF f
  <2> QED BY <2>1, StateOfClock
<1>3. ClockMoves(g, p, t) \in Nodes
  <2> HIDE DEF g, t
  <2> QED BY <1>1, <1>2, NodeMoves
<1> QED BY <1>3, Zenon DEF PortMoves

(* Answers.                                                                *)
LEMMA AnswerFields ==
  ASSUME NEW m \in Answers
  PROVE  /\ m.id \in {"DEFAULT_DATA_SET", "TIME_PROPERTIES", "SUBSCRIBE_EVENTS",
                      "PORT_PROPERTIES", "PORT_DATA_SET"}
         /\ m.id \in {"PORT_PROPERTIES", "PORT_DATA_SET"} => m.port \in Ports
BY DEF Answers, DEFAULT, TIME, SUBSCRIBE, StateOf

LEMMA RequestFields ==
  ASSUME NEW m \in Requests
  PROVE  /\ m.id \in {"DEFAULT_DATA_SET", "TIME_PROPERTIES", "SUBSCRIBE_EVENTS", "PORT_PROPERTIES"}
         /\ m.id = "DEFAULT_DATA_SET" <=> m = DEFAULT
         /\ m.id = "TIME_PROPERTIES" <=> m = TIME
         /\ m.id = "SUBSCRIBE_EVENTS" <=> m = SUBSCRIBE
         /\ m.id = "PORT_PROPERTIES" => m.port \in Ports
BY DEF Requests, DEFAULT, TIME, SUBSCRIBE, Properties

LEMMA NoticedType ==
  ASSUME NEW n \in Nodes, NEW m \in Answers
  PROVE  Noticed(n, m) \in Nodes
BY AnswerFields, NormOf, MovesType DEF Noticed

----------------------------------------------------------------------------
(***************************************************************************)
(* The reconfiguration.                                                    *)
(***************************************************************************)

(* It leaves alone what the client has asked for, and what it has learnt.  *)
Keeps(n, r) ==
    /\ r \in Nodes
    /\ r.age = n.age /\ r.pmc_ds_requested = n.pmc_ds_requested
    /\ r.ports = n.ports /\ r.state_changed = n.state_changed

SameClocks(n, r) == \A p \in Ports : r.new[p] = n.new[p] /\ r.clocks[p] = n.clocks[p]

StandsIn(n, r) ==
    /\ r.master = 1 /\ r.new[1] = n.clocks[1]
    /\ \A p \in Ports \ {1} : r.new[p] = n.new[p] /\ r.clocks[p] = n.clocks[p]

Unsteered(n) == \A p \in Ports : n.clocks[p] \notin {PS_UNCALIBRATED, PS_SLAVE}

Picks(n, r) ==
    /\ Keeps(n, r) /\ r.step = n.step /\ r.idx = n.idx
    /\ \/ StandsIn(n, r)
       \/ SameClocks(n, r) /\ (r.master = RT => rt = "source" /\ Unsteered(n))

LEMMA SelectedType ==
  ASSUME NEW n \in Nodes
  PROVE  Selected(n) \in SUBSET Clocks /\ Selected(n) \cup {RT} \in SUBSET Clocks
BY DEF Selected, In, Clocks

LEMMA RtApart ==
  RT \notin Ports /\ RT \in Clocks /\ Ports \subseteq Clocks /\ RT # Null /\ 1 # RT
BY NullApart DEF RT, Ports, Clocks

LEMMA NoMasterPicks ==
  ASSUME NEW n \in Nodes
  PROVE  Picks(n, NoMaster(n))
<1> DEFINE D == Selected(n)
           r == [n EXCEPT !.dst_clocks = D, !.master = Null]
<1>1. D \in SUBSET Clocks
  BY SelectedType
<1> HIDE DEF D
<1>2. /\ r \in Nodes /\ r.age = n.age /\ r.pmc_ds_requested = n.pmc_ds_requested
      /\ r.ports = n.ports /\ r.state_changed = n.state_changed /\ r.step = n.step /\ r.idx = n.idx
      /\ r.new = n.new /\ r.clocks = n.clocks /\ r.master = Null
  BY <1>1 DEF Nodes
<1> HIDE DEF r
<1>3. Picks(n, r)
  BY <1>2, RtApart DEF Picks, Keeps, SameClocks
<1> QED BY <1>3 DEF r, D, NoMaster

LEMMA FromRealtimePicks ==
  ASSUME NEW n \in Nodes, rt = "source", Sources(n) = {}
  PROVE  Picks(n, FromRealtime(n))
<1> DEFINE D == Selected(n)
           f == [n.clocks EXCEPT ![RT] = PS_SLAVE]
           r == [n EXCEPT !.dst_clocks = D, !.master = RT, !.clocks = f]
<1>1. D \in SUBSET Clocks
  BY SelectedType
<1>2. f \in [Clocks -> Norm \cup {Null}] /\ \A p \in Ports : f[p] = n.clocks[p]
  BY RtApart DEF Nodes, Norm
<1>3. r = FromRealtime(n)
  BY DEF FromRealtime
<1>4. Unsteered(n)
  BY DEF Unsteered, Sources, In
<1> HIDE DEF D, f
<1>5. /\ r \in Nodes /\ r.age = n.age /\ r.pmc_ds_requested = n.pmc_ds_requested
      /\ r.ports = n.ports /\ r.state_changed = n.state_changed /\ r.step = n.step /\ r.idx = n.idx
      /\ r.new = n.new /\ r.clocks = f
  BY <1>1, <1>2, RtApart DEF Nodes
<1> HIDE DEF r
<1>6. Picks(n, r)
  BY <1>2, <1>4, <1>5 DEF Picks, Keeps, SameClocks
<1> QED BY <1>3, <1>6

LEMMA FromPortPicks ==
  ASSUME NEW n \in Nodes, In(n, {PS_SLAVE}) # {}
  PROVE  Picks(n, FromPort(n))
<1> DEFINE D == Selected(n) \cup (IF rt = "none" THEN {} ELSE {RT})
           m == CHOOSE c \in In(n, {PS_SLAVE}) : TRUE
           f == [n.clocks EXCEPT ![RT] = IF rt = "none" THEN @ ELSE PS_MASTER]
           r == [n EXCEPT !.dst_clocks = D, !.master = m, !.clocks = f]
<1>1. D \in SUBSET Clocks
  BY SelectedType
<1>2. f \in [Clocks -> Norm \cup {Null}] /\ \A p \in Ports : f[p] = n.clocks[p]
  BY RtApart DEF Nodes, Norm
<1>3. r = FromPort(n)
  BY DEF FromPort
<1>4. m \in Ports
  <2>1. m \in In(n, {PS_SLAVE})
    OBVIOUS
  <2> HIDE DEF m
  <2> QED BY <2>1 DEF In
<1> HIDE DEF D, f, m
<1>5. /\ r \in Nodes /\ r.age = n.age /\ r.pmc_ds_requested = n.pmc_ds_requested
      /\ r.ports = n.ports /\ r.state_changed = n.state_changed /\ r.step = n.step /\ r.idx = n.idx
      /\ r.new = n.new /\ r.clocks = f /\ r.master = m
  BY <1>1, <1>2, <1>4, RtApart DEF Nodes
<1> HIDE DEF r
<1>6. Picks(n, r)
  BY <1>2, <1>4, <1>5, RtApart DEF Picks, Keeps, SameClocks
<1> QED BY <1>3, <1>6

LEMMA DefaultClockPicks ==
  ASSUME NEW n \in Nodes
  PROVE  Picks(n, DefaultClock(n))
<1> DEFINE D == Selected(n)
           g == [n.new EXCEPT ![1] = n.clocks[1]]
           x == IF rt = "none" THEN n.clocks[RT] ELSE PS_SLAVE
           f == [n.clocks EXCEPT ![1] = PS_SLAVE, ![RT] = x]
           r == [n EXCEPT !.dst_clocks = D, !.master = 1, !.new = g, !.clocks = f]
<1>1. D \in SUBSET Clocks
  BY SelectedType
<1>2. f \in [Clocks -> Norm \cup {Null}]
  <2>1. x \in Norm \cup {Null}
    BY RtApart DEF Nodes, Norm
  <2> HIDE DEF x
  <2> QED BY <2>1, RtApart DEF Nodes, Norm
<1>3. \A p \in Ports \ {1} : f[p] = n.clocks[p]
  BY RtApart DEF Nodes
<1>4. /\ g \in [Ports -> Norm \cup {Null}] /\ g[1] = n.clocks[1]
      /\ \A p \in Ports \ {1} : g[p] = n.new[p]
  BY RtApart, Constants DEF Nodes
<1>5. r = DefaultClock(n)
  BY DEF DefaultClock
<1> HIDE DEF D, f, g
<1>6. /\ r \in Nodes /\ r.age = n.age /\ r.pmc_ds_requested = n.pmc_ds_requested
      /\ r.ports = n.ports /\ r.state_changed = n.state_changed /\ r.step = n.step /\ r.idx = n.idx
      /\ r.new = g /\ r.clocks = f /\ r.master = 1
  BY <1>1, <1>2, <1>4, RtApart, Constants DEF Nodes
<1> HIDE DEF r
<1>7. Picks(n, r)
  BY <1>3, <1>4, <1>6 DEF Picks, Keeps, StandsIn
<1> QED BY <1>5, <1>7

LEMMA ChosenPicks ==
  ASSUME NEW n \in Nodes
  PROVE  Picks(n, Chosen(n))
<1> DEFINE A == Cardinality(Selected(n)) > 1 /\ In(n, {PS_SLAVE}) = {} /\ rt # "source"
<1>1. CASE A
  <2>1. Chosen(n) = DefaultClock(n)
    BY <1>1, Zenon DEF Chosen
  <2> QED BY <2>1, DefaultClockPicks
<1>2. CASE ~A /\ Waiting(n)
  <2>1. Chosen(n) = NoMaster(n)
    BY <1>2, Zenon DEF Chosen
  <2> QED BY <2>1, NoMasterPicks
<1>3. CASE ~A /\ ~Waiting(n) /\ Sources(n) = {}
  <2>1. Chosen(n) = FromRealtime(n)
    BY <1>3, Zenon DEF Chosen
  <2>2. rt = "source"
    BY <1>3, Zenon DEF Waiting
  <2> QED BY <1>3, <2>1, <2>2, FromRealtimePicks
<1>4. CASE ~A /\ ~Waiting(n) /\ Sources(n) # {}
  <2>1. Chosen(n) = FromPort(n)
    BY <1>4, Zenon DEF Chosen
  <2>2. In(n, {PS_SLAVE}) # {}
    BY <1>4, Zenon DEF Waiting
  <2> QED BY <2>1, <2>2, FromPortPicks
<1> HIDE DEF A
<1> QED BY <1>1, <1>2, <1>3, <1>4

(* The loop over the clocks.                                               *)
AllKnown(n) == \A p \in Ports : n.ports[p] # Null

Aimed(n) == \A p \in Ports : n.ports[p] = IF n.new[p] = Null THEN n.clocks[p] ELSE n.new[p]

LEMMA ContinuedIs ==
  ASSUME NEW n \in Nodes, NEW c \in 0 .. NumberPorts
  PROVE  /\ Keeps(n, Continued(n, c)) /\ Continued(n, c).step \in {"sync", "reinit"}
         /\ /\ AllKnown(n) /\ Aimed(n) /\ (c = 0 => n.new[1] = Null)
            /\ ~n.state_changed => \A p \in Ports : p > c => n.new[p] = Null
            => Local(Continued(n, c))
<1> DEFINE T == Changing(n, c)
           H == /\ AllKnown(n) /\ Aimed(n) /\ (c = 0 => n.new[1] = Null)
                /\ ~n.state_changed => \A p \in Ports : p > c => n.new[p] = Null
<1>1. CASE T = {}
  <2> DEFINE r == Chosen(n)
             q == [r EXCEPT !.step = "sync"]
  <2>1. Continued(n, c) = q
    BY <1>1, Zenon DEF Continued
  <2>2. Picks(n, r)
    BY ChosenPicks
  <2>3. \A p \in Ports : p <= c => n.new[p] = Null
    BY <1>1, Constants DEF Changing, Ports
  <2> HIDE DEF r
  <2>4. r \in Nodes
    BY <2>2 DEF Picks, Keeps
  <2>5. /\ q \in Nodes /\ q.step = "sync" /\ q.age = r.age /\ q.ports = r.ports
        /\ q.pmc_ds_requested = r.pmc_ds_requested /\ q.state_changed = r.state_changed
        /\ q.new = r.new /\ q.clocks = r.clocks /\ q.master = r.master
    BY <2>4 DEF Nodes, Steps
  <2> HIDE DEF q
  <2>6. Keeps(n, q)
    BY <2>2, <2>5 DEF Picks, Keeps
  <2>7. ASSUME H PROVE Local(q)
    <3>1. n.new[1] = Null /\ n.ports[1] # Null /\ n.clocks[1] = n.ports[1]
      BY <2>3, <2>7, Constants DEF AllKnown, Aimed
    <3>2. Knows(q)
      BY <2>5, <2>6, <2>7 DEF Knows, AllKnown, Keeps, Early
    <3>3. Aims(q)
      <4>1. CASE SameClocks(n, r)
        BY <2>5, <2>6, <2>7, <4>1 DEF SameClocks, Aims, Aimed, Keeps
      <4>2. CASE StandsIn(n, r)
        BY <2>5, <2>6, <2>7, <3>1, <4>2, Constants DEF StandsIn, Aims, Aimed, Keeps
      <4> QED BY <2>2, <4>1, <4>2 DEF Picks
    <3>4. Calm(q)
      <4>1. ~n.state_changed => \A p \in Ports : n.new[p] = Null
        BY <2>3, <2>7, Constants DEF Ports
      <4>2. CASE SameClocks(n, r)
        BY <2>5, <2>6, <4>1, <4>2 DEF SameClocks, Calm, Keeps
      <4>3. CASE StandsIn(n, r)
        BY <2>5, <2>6, <4>1, <4>3 DEF StandsIn, Calm, Keeps
      <4> QED BY <2>2, <4>2, <4>3 DEF Picks
    <3>5. Last(q)
      <4>1. CASE SameClocks(n, r) /\ (r.master = RT => rt = "source" /\ Unsteered(n))
        BY <2>5, <4>1 DEF SameClocks, Last, Unsteered
      <4>2. CASE StandsIn(n, r)
        BY <2>5, <4>2, RtApart DEF StandsIn, Last
      <4> QED BY <2>2, <4>1, <4>2 DEF Picks
    <3> QED BY <3>2, <3>3, <3>4, <3>5 DEF Local
  <2> QED BY <2>1, <2>5, <2>6, <2>7
<1>2. CASE T # {}
  <2> DEFINE m == Max(T)
             q == [n EXCEPT !.step = "reinit", !.idx = m]
  <2>1. Continued(n, c) = q
    BY <1>2, Zenon DEF Continued
  <2>2. m \in 1 .. c /\ n.new[m] # Null /\ \A d \in 1 .. c : n.new[d] # Null => d <= m
    <3>1. T \in SUBSET (1 .. c) /\ c \in Nat
      BY DEF Changing
    <3>2. m \in T /\ \A d \in T : d <= m
      <4> HIDE DEF T
      <4> QED BY <1>2, <3>1, GreatestPort
    <3> HIDE DEF m
    <3> QED BY <3>2 DEF Changing
  <2>3. m \in Ports
    BY <2>2, Constants DEF Ports
  <2> HIDE DEF m
  <2>4. /\ q \in Nodes /\ q.step = "reinit" /\ q.idx = m /\ q.age = n.age /\ q.ports = n.ports
        /\ q.pmc_ds_requested = n.pmc_ds_requested /\ q.state_changed = n.state_changed
        /\ q.new = n.new /\ q.clocks = n.clocks /\ q.master = n.master
    BY <2>3 DEF Nodes, Steps, Patient
  <2> HIDE DEF q
  <2>5. Keeps(n, q)
    BY <2>4 DEF Keeps
  <2>6. ASSUME H PROVE Local(q)
    <3>1. Knows(q)
      BY <2>4, <2>6 DEF Knows, AllKnown, Early
    <3>2. Aims(q)
      BY <2>4, <2>6 DEF Aims, Aimed
    <3>3. Calm(q)
      <4>1. ASSUME ~n.state_changed, NEW p \in Ports, n.new[p] # Null PROVE p <= m
        <5>1. p \in 1 .. c
          BY <2>6, <4>1, Constants DEF Ports
        <5> QED BY <2>2, <4>1, <5>1
      <4> QED BY <2>2, <2>4, <4>1 DEF Calm
    <3>4. Last(q)
      BY <2>4 DEF Last
    <3> QED BY <3>1, <3>2, <3>3, <3>4 DEF Local
  <2> QED BY <2>1, <2>4, <2>5, <2>6
<1> HIDE DEF T
<1> QED BY <1>1, <1>2

LEMMA ReconfigureIs ==
  ASSUME NEW n \in Nodes
  PROVE  LET r == psysReconfigure(n)
         IN  /\ r \in Nodes /\ r.step \in {"sync", "reinit"} /\ r.ports = n.ports
             /\ r.age = n.age /\ r.pmc_ds_requested = n.pmc_ds_requested
             /\ AllKnown(n) /\ Aimed(n) => Local(r)
<1> DEFINE g == [n EXCEPT !.state_changed = FALSE]
           r == Continued(g, NumberPorts)
<1>1. psysReconfigure(n) = r
  BY Zenon DEF psysReconfigure
<1>2. /\ g \in Nodes /\ g.ports = n.ports /\ g.new = n.new /\ g.clocks = n.clocks
      /\ g.age = n.age /\ g.pmc_ds_requested = n.pmc_ds_requested
  BY DEF Nodes
<1>3. NumberPorts \in 0 .. NumberPorts /\ NumberPorts # 0 /\ \A p \in Ports : ~(p > NumberPorts)
  BY Constants DEF Ports
<1> HIDE DEF g
<1>4. Keeps(g, r) /\ r.step \in {"sync", "reinit"}
  BY <1>2, <1>3, ContinuedIs
<1>5. AllKnown(n) /\ Aimed(n) => AllKnown(g) /\ Aimed(g)
  BY <1>2 DEF AllKnown, Aimed
<1>6. AllKnown(g) /\ Aimed(g) => Local(r)
  BY <1>2, <1>3, ContinuedIs
<1> HIDE DEF r
<1> QED BY <1>1, <1>2, <1>4, <1>5, <1>6 DEF Keeps

LEMMA ReinitialisedIs ==
  ASSUME NEW n \in Nodes, NEW c \in Ports
  PROVE  LET r == Reinitialised(n, c)
         IN  /\ r \in Nodes /\ r.step \in {"sync", "reinit"} /\ r.ports = n.ports
             /\ r.age = n.age /\ r.pmc_ds_requested = n.pmc_ds_requested
             /\ /\ AllKnown(n) /\ Aimed(n) /\ n.new[c] # Null
                /\ ~n.state_changed => \A p \in Ports : p > c => n.new[p] = Null
                => Local(r)
<1> DEFINE f == [n.clocks EXCEPT ![c] = n.new[c]]
           h == [n.new EXCEPT ![c] = Null]
           g == [n EXCEPT !.clocks = f, !.new = h]
           r == Continued(g, c - 1)
<1>1. Reinitialised(n, c) = r
  BY DEF Reinitialised
<1>2. /\ f \in [Clocks -> Norm \cup {Null}] /\ f[c] = n.new[c]
      /\ \A p \in Ports \ {c} : f[p] = n.clocks[p]
  BY RtApart DEF Nodes
<1>3. /\ h \in [Ports -> Norm \cup {Null}] /\ h[c] = Null
      /\ \A p \in Ports \ {c} : h[p] = n.new[p]
  BY DEF Nodes
<1> HIDE DEF f, h
<1>4. /\ g \in Nodes /\ g.ports = n.ports /\ g.new = h /\ g.clocks = f
      /\ g.age = n.age /\ g.pmc_ds_requested = n.pmc_ds_requested
      /\ g.state_changed = n.state_changed
  BY <1>2, <1>3 DEF Nodes
<1>5. c - 1 \in 0 .. NumberPorts /\ (c - 1 = 0 => c = 1)
  BY Constants DEF Ports
<1> HIDE DEF g
<1>6. Keeps(g, r) /\ r.step \in {"sync", "reinit"}
  BY <1>4, <1>5, ContinuedIs
<1>7. ASSUME AllKnown(n), Aimed(n), n.new[c] # Null,
             ~n.state_changed => \A p \in Ports : p > c => n.new[p] = Null
      PROVE  Local(r)
  <2>1. AllKnown(g)
    BY <1>4, <1>7 DEF AllKnown
  <2>2. Aimed(g)
    BY <1>2, <1>3, <1>4, <1>7 DEF Aimed
  <2>3. c - 1 = 0 => g.new[1] = Null
    BY <1>3, <1>4, <1>5
  <2>4. ~g.state_changed => \A p \in Ports : p > c - 1 => g.new[p] = Null
    <3> SUFFICES ASSUME ~g.state_changed, NEW p \in Ports, p > c - 1 PROVE g.new[p] = Null
      OBVIOUS
    <3>1. CASE p = c
      BY <1>3, <1>4, <3>1
    <3>2. CASE p # c
      <4>1. p > c
        BY <3>2 DEF Ports
      <4> QED BY <1>3, <1>4, <1>7, <3>2, <4>1
    <3> QED BY <3>1, <3>2
  <2> QED BY <1>4, <1>5, <2>1, <2>2, <2>3, <2>4, ContinuedIs
<1> HIDE DEF r
<1> QED BY <1>1, <1>4, <1>6, <1>7 DEF Keeps

----------------------------------------------------------------------------
(***************************************************************************)
(* What the client does with what it reads.                                *)
(***************************************************************************)

(* Only the step, the request or the time since the update differ.         *)
SameData(n, r) ==
    /\ r.idx = n.idx /\ r.ports = n.ports /\ r.new = n.new /\ r.clocks = n.clocks
    /\ r.state_changed = n.state_changed /\ r.master = n.master

SameStep(n, r) == r.step = n.step /\ r.age = n.age /\ r.idx = n.idx
                  /\ r.pmc_ds_requested = n.pmc_ds_requested

LEMMA StepIs ==
  ASSUME NEW n \in Nodes, NEW x \in Steps
  PROVE  LET r == [n EXCEPT !.step = x]
         IN  /\ r \in Nodes /\ SameData(n, r) /\ r.step = x /\ r.age = n.age
             /\ r.pmc_ds_requested = n.pmc_ds_requested
BY DEF Nodes, SameData

LEMMA RequestIs ==
  ASSUME NEW n \in Nodes, NEW x \in BOOLEAN
  PROVE  LET r == [n EXCEPT !.pmc_ds_requested = x]
         IN  /\ r \in Nodes /\ SameData(n, r) /\ r.step = n.step /\ r.age = n.age
             /\ r.pmc_ds_requested = x
BY DEF Nodes, SameData

LEMMA AgeIs ==
  ASSUME NEW n \in Nodes
  PROVE  LET r == Aged(n)
         IN  /\ r \in Nodes /\ SameData(n, r) /\ r.step = n.step
             /\ r.pmc_ds_requested = n.pmc_ds_requested
             /\ r.age = IF n.age < UpdateInterval THEN n.age + 1 ELSE n.age
<1> DEFINE x == IF n.age < UpdateInterval THEN n.age + 1 ELSE n.age
           r == [n EXCEPT !.age = x]
<1>1. x \in 0 .. UpdateInterval
  BY Constants DEF Nodes
<1>2. Aged(n) = r
  BY DEF Aged
<1> HIDE DEF x
<1>3. /\ r \in Nodes /\ SameData(n, r) /\ r.step = n.step
      /\ r.pmc_ds_requested = n.pmc_ds_requested /\ r.age = x
  BY <1>1 DEF Nodes, SameData
<1> HIDE DEF r
<1> QED BY <1>2, <1>3 DEF x

LEMMA AgeLocal ==
  ASSUME NEW n \in Nodes, NEW r, SameData(n, r), r.step = n.step, Local(n)
  PROVE  Local(r)
BY DEF SameData, Local, Knows, Aims, Calm, Last

(* A port's state is learnt: nothing else changes yet.                     *)
LEMMA PortIs ==
  ASSUME NEW n \in Nodes, NEW p \in Ports, NEW s \in Norm
  PROVE  LET g == [n EXCEPT !.ports[p] = s]
         IN  /\ g \in Nodes /\ SameStep(n, g) /\ g.new = n.new /\ g.clocks = n.clocks
             /\ g.state_changed = n.state_changed /\ g.master = n.master
             /\ \A q \in Ports : g.ports[q] = IF q = p THEN s ELSE n.ports[q]
<1> DEFINE f == [n.ports EXCEPT ![p] = s]
           g == [n EXCEPT !.ports = f]
<1>1. f \in [Ports -> Norm \cup {Null}] /\ \A q \in Ports : f[q] = IF q = p THEN s ELSE n.ports[q]
  BY DEF Nodes
<1> HIDE DEF f
<1>2. /\ g \in Nodes /\ SameStep(n, g) /\ g.new = n.new /\ g.clocks = n.clocks
      /\ g.state_changed = n.state_changed /\ g.master = n.master /\ g.ports = f
  BY <1>1 DEF Nodes, SameStep
<1> HIDE DEF g
<1>3. g = [n EXCEPT !.ports[p] = s]
  BY DEF g, f
<1> QED BY <1>1, <1>2, <1>3

(* A notice of port p that is known.                                       *)
LEMMA ClockMovesIs ==
  ASSUME NEW n \in Nodes, NEW p \in Ports, NEW s \in Norm
  PROVE  LET r == ClockMoves(n, p, s)
         IN  /\ r \in Nodes /\ SameStep(n, r) /\ r.ports = n.ports /\ r.clocks = n.clocks
             /\ r.master = n.master
             /\ \/ r.new = n.new /\ n.new[p] = Null /\ n.clocks[p] = s
                                 /\ r.state_changed = n.state_changed
                \/ /\ r.state_changed /\ r.new[p] = s
                   /\ \A q \in Ports \ {p} : r.new[q] = n.new[q]
<1>1. CASE ~(n.clocks[p] # s \/ n.new[p] # Null)
  <2>1. ClockMoves(n, p, s) = n
    BY <1>1, Zenon DEF ClockMoves
  <2> QED BY <1>1, <2>1 DEF SameStep
<1>2. CASE n.clocks[p] # s \/ n.new[p] # Null
  <2> DEFINE f == [n.new EXCEPT ![p] = s]
             r == [n EXCEPT !.new = f, !.state_changed = TRUE]
  <2>1. f \in [Ports -> Norm \cup {Null}] /\ f[p] = s /\ \A q \in Ports \ {p} : f[q] = n.new[q]
    BY DEF Nodes
  <2>2. ClockMoves(n, p, s) = r
    BY <1>2 DEF ClockMoves
  <2> HIDE DEF f
  <2>3. /\ r \in Nodes /\ SameStep(n, r) /\ r.ports = n.ports /\ r.clocks = n.clocks
        /\ r.master = n.master /\ r.new = f /\ r.state_changed
    BY <2>1 DEF Nodes, SameStep
  <2> HIDE DEF r
  <2> QED BY <2>1, <2>2, <2>3
<1> QED BY <1>1, <1>2

LEMMA PortMovesIs ==
  ASSUME NEW n \in Nodes, NEW p \in Ports, NEW s \in Norm
  PROVE  LET r == PortMoves(n, p, s)
         IN  /\ r \in Nodes /\ SameStep(n, r)
             /\ \A q \in Ports : r.ports[q] = IF q = p /\ n.ports[p] # Null THEN s ELSE n.ports[q]
             /\ Local(n) => Local(r)
<1>1. CASE n.ports[p] \in {Null, s}
  <2>1. PortMoves(n, p, s) = n
    BY <1>1, Zenon DEF PortMoves
  <2> QED BY <1>1, <2>1 DEF SameStep
<1>2. CASE n.ports[p] \notin {Null, s}
  <2> DEFINE g == [n EXCEPT !.ports[p] = s]
             f == [n.ports EXCEPT ![p] = s]
             t == clock_compute_state(f, p)
             r == ClockMoves(g, p, t)
  <2>1. PortMoves(n, p, s) = r
    BY <1>2, Zenon DEF PortMoves
  <2>2. t = s
    <3>1. f[p] = s
      BY DEF Nodes
    <3> HIDE DEF f
    <3> QED BY <3>1, StateOfClock, NullApart
  <2> HIDE DEF t
  <2>3. /\ g \in Nodes /\ SameStep(n, g) /\ g.new = n.new /\ g.clocks = n.clocks
        /\ g.state_changed = n.state_changed /\ g.master = n.master
        /\ \A q \in Ports : g.ports[q] = IF q = p THEN s ELSE n.ports[q]
    BY PortIs
  <2> HIDE DEF g
  <2>4. /\ r \in Nodes /\ SameStep(g, r) /\ r.ports = g.ports /\ r.clocks = g.clocks
        /\ r.master = g.master
        /\ \/ r.new = g.new /\ g.new[p] = Null /\ g.clocks[p] = s
                            /\ r.state_changed = g.state_changed
           \/ /\ r.state_changed /\ r.new[p] = s
              /\ \A q \in Ports \ {p} : r.new[q] = g.new[q]
    BY <2>2, <2>3, ClockMovesIs
  <2> HIDE DEF r
  <2>5. SameStep(n, r)
    BY <2>3, <2>4 DEF SameStep
  <2>6. \A q \in Ports : r.ports[q] = IF q = p THEN s ELSE n.ports[q]
    BY <2>3, <2>4
  <2>7. ASSUME Local(n) PROVE Local(r)
    <3>1. Knows(r)
      BY <1>2, <2>5, <2>6, <2>7, NullApart DEF Local, Knows, SameStep
    <3>2. Aims(r)
      BY <2>3, <2>4, <2>5, <2>6, <2>7, NullApart DEF Local, Aims, SameStep
    <3>3. Calm(r)
      <4>1. n.step = "reinit" => n.new[n.idx] # Null
        BY <2>7 DEF Local, Calm
      <4>2. n.idx \in Ports
        BY DEF Nodes
      <4>3. r.step = "reinit" => r.new[r.idx] # Null
        BY <2>3, <2>4, <2>5, <4>1, <4>2, NullApart DEF SameStep
      <4> QED BY <2>3, <2>4, <2>5, <2>7, <4>3 DEF Local, Calm, SameStep
    <3>4. Last(r)
      BY <2>3, <2>4, <2>5, <2>7 DEF Local, Last, SameStep
    <3> QED BY <3>1, <3>2, <3>3, <3>4 DEF Local
  <2> QED BY <1>2, <2>1, <2>4, <2>5, <2>6, <2>7
<1> QED BY <1>1, <1>2

(* What is held about the ports after m has been read as a notice, or not. *)
LEMMA NoticedIs ==
  ASSUME NEW n \in Nodes, NEW m \in Answers
  PROVE  LET r == Noticed(n, m)
         IN  /\ r \in Nodes /\ SameStep(n, r) /\ (Local(n) => Local(r))
             /\ \A q \in Ports : r.ports[q] =
                  IF m.id = "PORT_DATA_SET" /\ m.port = q /\ n.ports[q] # Null
                  THEN psysNormalizeState(m.state) ELSE n.ports[q]
<1>1. CASE m.id # "PORT_DATA_SET"
  <2>1. Noticed(n, m) = n
    BY <1>1, Zenon DEF Noticed
  <2> QED BY <1>1, <2>1 DEF SameStep
<1>2. CASE m.id = "PORT_DATA_SET"
  <2> DEFINE s == psysNormalizeState(m.state)
             r == PortMoves(n, m.port, s)
  <2>1. Noticed(n, m) = r
    BY <1>2, Zenon DEF Noticed
  <2>2. m.port \in Ports /\ s \in Norm
    BY <1>2, AnswerFields, NormOf
  <2> HIDE DEF s
  <2>3. /\ r \in Nodes /\ SameStep(n, r) /\ (Local(n) => Local(r))
        /\ \A q \in Ports : r.ports[q] = IF q = m.port /\ n.ports[m.port] # Null
                                         THEN s ELSE n.ports[q]
    BY <2>2, PortMovesIs
  <2> HIDE DEF r
  <2>4. \A q \in Ports : r.ports[q] = IF m.id = "PORT_DATA_SET" /\ m.port = q /\ n.ports[q] # Null
                                      THEN s ELSE n.ports[q]
    BY <1>2, <2>3
  <2> QED BY <2>1, <2>3, <2>4 DEF s
<1> QED BY <1>1, <1>2

(* Where an answer leads.                                                  *)
After(x) ==
    CASE x = "identity"     -> {"number"}
      [] x = "number"       -> {"subscribed"}
      [] x = "subscribed"   -> {"ports"}
      [] x = "first_offset" -> {"sleep"}
      [] x = "subscribe"    -> {"update"}
      [] x = "update"       -> {"events"}
      [] x = "offset"       -> {"sync", "reinit"}
      [] x = "ports"        -> {"ports", "first_offset"}
      [] x = "reinit"       -> {"sync", "reinit"}

AsksPort(n) == n.step \in {"ports", "reinit"}

(* r is n once m has been read as the answer.                              *)
Answered(n, m, r) ==
    /\ r \in Nodes /\ r.pmc_ds_requested = n.pmc_ds_requested
    /\ r.step \in After(n.step)
    /\ r.age = IF n.step = "update" THEN 0 ELSE n.age
    /\ \A q \in Ports : r.ports[q] =
         IF AsksPort(n) /\ q = m.port /\ q = n.idx THEN psysNormalizeState(m.state) ELSE n.ports[q]
    /\ /\ Local(n)
       /\ AsksPort(n) => m.port = n.idx
       /\ n.step = "reinit" => psysNormalizeState(m.state) = n.ports[n.idx]
       => Local(r)

LEMMA SimplyAnswered ==
  ASSUME NEW n \in Nodes, NEW m, NEW r \in Nodes, SameData(n, r),
         r.pmc_ds_requested = n.pmc_ds_requested, r.step \in After(n.step),
         r.age = IF n.step = "update" THEN 0 ELSE n.age,
         n.step \in {"identity", "number", "subscribed", "first_offset", "subscribe", "update"}
  PROVE  Answered(n, m, r)
<1>1. /\ n.step = "identity" => r.step = "number"
      /\ n.step = "number" => r.step = "subscribed"
      /\ n.step = "subscribed" => r.step = "ports"
      /\ n.step = "first_offset" => r.step = "sleep"
      /\ n.step = "subscribe" => r.step = "update"
      /\ n.step = "update" => r.step = "events"
  BY DEF After
<1>2. ~AsksPort(n) /\ \A q \in Ports : r.ports[q] = n.ports[q]
  BY DEF AsksPort, SameData
<1>3. ASSUME Local(n) PROVE Local(r)
  <2>1. Knows(r)
    <3>1. CASE n.step = "subscribed"
      <4>1. r.step = "ports" /\ r.idx = 1 /\ \A p \in Ports : p >= 1 /\ r.ports[p] = Null
        BY <1>1, <1>2, <1>3, <3>1 DEF Local, Knows, Early, SameData, Ports
      <4> QED BY <4>1 DEF Knows, Early
    <3>2. CASE n.step # "subscribed"
      <4>1. r.step \in Early <=> n.step \in Early
        BY <1>1, <3>2 DEF Early
      <4>2. r.step # "ports" /\ n.step # "ports"
        BY <1>1, <3>2
      <4> QED BY <1>3, <4>1, <4>2 DEF Local, Knows, SameData
    <3> QED BY <3>1, <3>2
  <2>2. Aims(r)
    BY <1>1, <1>3 DEF Local, Aims, SameData, Loop
  <2>3. Calm(r)
    BY <1>1, <1>3 DEF Local, Calm, SameData, Loop
  <2>4. Last(r)
    BY <1>1, <1>3 DEF Local, Last, SameData
  <2> QED BY <2>1, <2>2, <2>3, <2>4 DEF Local
<1> QED BY <1>2, <1>3 DEF Answered

LEMMA PortKnownIs ==
  ASSUME NEW n \in Nodes, NEW p \in Ports, p = n.idx, n.step = "ports"
  PROVE  LET r == PortKnown(n, p)
         IN  /\ r \in Nodes /\ r.pmc_ds_requested = n.pmc_ds_requested
             /\ r.step \in {"ports", "first_offset"} /\ r.age = n.age /\ r.ports = n.ports
             /\ Last(n) /\ (\A q \in Ports : n.ports[q] = Null <=> q > p) => Local(r)
<1>1. CASE p < NumberPorts
  <2> DEFINE r == [n EXCEPT !.idx = p + 1]
  <2>1. PortKnown(n, p) = r
    BY <1>1, Zenon DEF PortKnown
  <2>2. p + 1 \in Ports
    BY <1>1, Constants DEF Ports
  <2>3. /\ r \in Nodes /\ r.pmc_ds_requested = n.pmc_ds_requested /\ r.step = "ports"
        /\ r.age = n.age /\ r.ports = n.ports /\ r.idx = p + 1 /\ r.clocks = n.clocks
        /\ r.master = n.master
    BY <2>2 DEF Nodes
  <2> HIDE DEF r
  <2>4. ASSUME Last(n), \A q \in Ports : n.ports[q] = Null <=> q > p PROVE Local(r)
    <3>1. \A q \in Ports : q > p <=> q >= p + 1
      BY DEF Ports
    <3>2. Knows(r)
      BY <2>3, <2>4, <3>1 DEF Knows, Early
    <3>3. Aims(r) /\ Calm(r)
      BY <2>3 DEF Aims, Calm, Loop
    <3>4. Last(r)
      BY <2>3, <2>4 DEF Last
    <3> QED BY <3>2, <3>3, <3>4 DEF Local
  <2> QED BY <2>1, <2>3, <2>4
<1>2. CASE ~(p < NumberPorts)
  <2> DEFINE f == [c \in Ports |-> clock_compute_state(n.ports, c)]
             r == [n EXCEPT !.step = "first_offset", !.state_changed = TRUE, !.new = f]
  <2>1. PortKnown(n, p) = r
    BY <1>2, Zenon DEF PortKnown
  <2>2. /\ f \in [Ports -> Norm \cup {Null}]
        /\ \A c \in Ports : f[c] \in Norm /\ (n.ports[c] # Null => f[c] = n.ports[c])
    <3>1. \A c \in Ports : n.ports[c] \in Norm \cup {Null}
      BY DEF Nodes
    <3>2. \A c \in Ports : /\ clock_compute_state(n.ports, c) \in Norm
                           /\ n.ports[c] # Null => clock_compute_state(n.ports, c) = n.ports[c]
      BY <3>1, StateOfClock
    <3> QED BY <3>2
  <2> HIDE DEF f
  <2>3. /\ r \in Nodes /\ r.pmc_ds_requested = n.pmc_ds_requested /\ r.step = "first_offset"
        /\ r.age = n.age /\ r.ports = n.ports /\ r.clocks = n.clocks /\ r.new = f
        /\ r.master = n.master /\ r.state_changed
    BY <2>2 DEF Nodes, Steps, Patient
  <2> HIDE DEF r
  <2>4. ASSUME Last(n), \A q \in Ports : n.ports[q] = Null <=> q > p PROVE Local(r)
    <3>1. \A q \in Ports : ~(q > p)
      BY <1>2, Constants DEF Ports
    <3>2. Knows(r)
      BY <2>3, <2>4, <3>1 DEF Knows, Early
    <3>3. Aims(r)
      BY <2>2, <2>3, <2>4, <3>1, NullApart DEF Aims
    <3>4. Calm(r)
      BY <2>3 DEF Calm, Loop
    <3>5. Last(r)
      BY <2>3, <2>4 DEF Last
    <3> QED BY <3>2, <3>3, <3>4, <3>5 DEF Local
  <2> QED BY <2>1, <2>3, <2>4
<1> QED BY <1>1, <1>2

LEMMA PortAnsweredIs ==
  ASSUME NEW n \in Nodes, NEW m \in Answers, m.id = "PORT_PROPERTIES", AsksPort(n)
  PROVE  Answered(n, m, PortAnswered(n, m.port, psysNormalizeState(m.state)))
<1> DEFINE s == psysNormalizeState(m.state)
           p == m.port
           g == [n EXCEPT !.ports[p] = s]
<1>1. p \in Ports /\ s \in Norm
  BY AnswerFields, NormOf
<1>2. n.step = "ports" \/ n.step = "reinit"
  BY DEF AsksPort
<1>3. n.step \in After(n.step)
  BY <1>2 DEF After
<1>4. CASE p # n.idx
  <2>1. PortAnswered(n, p, s) = n
    BY <1>4, Zenon DEF PortAnswered
  <2>2. Answered(n, m, n)
    BY <1>2, <1>3, <1>4 DEF Answered
  <2> QED BY <2>1, <2>2
<1> HIDE DEF s
<1>5. /\ g \in Nodes /\ SameStep(n, g) /\ g.new = n.new /\ g.clocks = n.clocks
      /\ g.state_changed = n.state_changed /\ g.master = n.master
      /\ \A q \in Ports : g.ports[q] = IF q = p THEN s ELSE n.ports[q]
  <2> HIDE DEF p
  <2> QED BY <1>1, PortIs
<1>6. CASE p = n.idx /\ n.step = "ports"
  <2> DEFINE r == PortKnown(g, p)
  <2>1. PortAnswered(n, p, s) = r
    BY <1>6, Zenon DEF PortAnswered
  <2> HIDE DEF g
  <2>2. p = g.idx /\ g.step = "ports"
    BY <1>5, <1>6 DEF SameStep
  <2>3. /\ r \in Nodes /\ r.pmc_ds_requested = g.pmc_ds_requested
        /\ r.step \in {"ports", "first_offset"} /\ r.age = g.age /\ r.ports = g.ports
        /\ Last(g) /\ (\A q \in Ports : g.ports[q] = Null <=> q > p) => Local(r)
    BY <1>1, <1>5, <2>2, PortKnownIs
  <2> HIDE DEF r
  <2>4. ASSUME Local(n) PROVE Local(r)
    <3>1. Last(g)
      BY <1>5, <2>4 DEF Local, Last, SameStep
    <3>2. \A q \in Ports : n.ports[q] = Null <=> q >= p
      BY <1>6, <2>4 DEF Local, Knows, Early
    <3>3. \A q \in Ports : g.ports[q] = Null <=> q > p
      <4> SUFFICES ASSUME NEW q \in Ports PROVE g.ports[q] = Null <=> q > p
        OBVIOUS
      <4>1. CASE q = p
        BY <1>1, <1>5, <4>1, NullApart DEF Ports
      <4>2. CASE q # p
        <5>1. q >= p <=> q > p
          BY <1>1, <4>2 DEF Ports
        <5> QED BY <1>5, <3>2, <4>2, <5>1
      <4> QED BY <4>1, <4>2
    <3> QED BY <2>3, <3>1, <3>3
  <2>5. Answered(n, m, r)
    <3>1. r.step \in After(n.step)
      BY <1>6, <2>3 DEF After
    <3>2. \A q \in Ports : r.ports[q] = IF AsksPort(n) /\ q = m.port /\ q = n.idx
                                        THEN psysNormalizeState(m.state) ELSE n.ports[q]
      BY <1>5, <1>6, <2>3 DEF s, AsksPort
    <3>3. r.age = IF n.step = "update" THEN 0 ELSE n.age
      BY <1>5, <1>6, <2>3 DEF SameStep
    <3>4. r \in Nodes /\ r.pmc_ds_requested = n.pmc_ds_requested
      BY <1>5, <2>3 DEF SameStep
    <3> QED BY <2>4, <3>1, <3>2, <3>3, <3>4 DEF Answered
  <2> QED BY <2>1, <2>5 DEF s
<1>7. CASE p = n.idx /\ n.step = "reinit"
  <2> DEFINE r == Reinitialised(g, p)
  <2>1. PortAnswered(n, p, s) = r
    BY <1>7, Zenon DEF PortAnswered
  <2> HIDE DEF g
  <2>2. /\ r \in Nodes /\ r.step \in {"sync", "reinit"} /\ r.ports = g.ports
        /\ r.age = g.age /\ r.pmc_ds_requested = g.pmc_ds_requested
        /\ /\ AllKnown(g) /\ Aimed(g) /\ g.new[p] # Null
           /\ ~g.state_changed => \A q \in Ports : q > p => g.new[q] = Null
           => Local(r)
    BY <1>1, <1>5, ReinitialisedIs
  <2> HIDE DEF r
  <2>3. ASSUME Local(n), s = n.ports[p] PROVE Local(r)
    <3>1. \A q \in Ports : g.ports[q] = n.ports[q]
      BY <1>5, <2>3
    <3>2. AllKnown(g)
      BY <1>7, <2>3, <3>1 DEF Local, Knows, AllKnown, Early
    <3>3. Aimed(g)
      BY <1>5, <1>7, <2>3, <3>1 DEF Local, Aims, Aimed, Loop
    <3>4. g.new[p] # Null
      BY <1>5, <1>7, <2>3 DEF Local, Calm
    <3>5. ~g.state_changed => \A q \in Ports : q > p => g.new[q] = Null
      <4>1. ~g.state_changed => \A q \in Ports : n.new[q] # Null => q <= p
        BY <1>5, <1>7, <2>3 DEF Local, Calm, Loop
      <4>2. \A q \in Ports : q > p => ~(q <= p)
        BY <1>1 DEF Ports
      <4> QED BY <1>5, <4>1, <4>2
    <3> QED BY <2>2, <3>2, <3>3, <3>4, <3>5
  <2>4. Answered(n, m, r)
    <3>1. r.step \in After(n.step)
      BY <1>7, <2>2 DEF After
    <3>2. \A q \in Ports : r.ports[q] = IF AsksPort(n) /\ q = m.port /\ q = n.idx
                                        THEN psysNormalizeState(m.state) ELSE n.ports[q]
      BY <1>5, <1>7, <2>2 DEF s, AsksPort
    <3>3. r.age = IF n.step = "update" THEN 0 ELSE n.age
      BY <1>5, <1>7, <2>2 DEF SameStep
    <3>4. r \in Nodes /\ r.pmc_ds_requested = n.pmc_ds_requested
      BY <1>5, <2>2 DEF SameStep
    <3>5. psysNormalizeState(m.state) = n.ports[n.idx] => s = n.ports[p]
      BY <1>7 DEF s
    <3> QED BY <1>7, <2>3, <3>1, <3>2, <3>3, <3>4, <3>5 DEF Answered
  <2> QED BY <2>1, <2>4 DEF s
<1> QED BY <1>2, <1>4, <1>6, <1>7 DEF s

Asking == (Patient \cup Hasty) \ {"events"}

LEMMA ReturnedIs ==
  ASSUME NEW n \in Nodes, NEW m \in Answers, n.step \in Asking,
         AsksPort(n) => m.id = "PORT_PROPERTIES"
  PROVE  Answered(n, m, Returned(n, m))
<1> USE DEF Steps, Patient, Hasty
<1>1. CASE n.step = "identity"
  <2> DEFINE r == [n EXCEPT !.step = "number"]
  <2>1. Returned(n, m) = r
    BY <1>1, Zenon DEF Returned
  <2>2. "number" \in After(n.step)
    BY <1>1 DEF After
  <2>3. /\ r \in Nodes /\ SameData(n, r) /\ r.pmc_ds_requested = n.pmc_ds_requested
        /\ r.step = "number" /\ r.age = n.age
    BY StepIs
  <2> HIDE DEF r
  <2> QED BY <1>1, <2>1, <2>2, <2>3, SimplyAnswered
<1>2. CASE n.step = "number"
  <2> DEFINE r == [n EXCEPT !.step = "subscribed"]
  <2>1. Returned(n, m) = r
    BY <1>2 DEF Returned
  <2>2. "subscribed" \in After(n.step)
    BY <1>2 DEF After
  <2>3. /\ r \in Nodes /\ SameData(n, r) /\ r.pmc_ds_requested = n.pmc_ds_requested
        /\ r.step = "subscribed" /\ r.age = n.age
    BY StepIs
  <2> HIDE DEF r
  <2> QED BY <1>2, <2>1, <2>2, <2>3, SimplyAnswered
<1>3. CASE n.step = "subscribed"
  <2> DEFINE r == [n EXCEPT !.step = "ports"]
  <2>1. Returned(n, m) = r
    BY <1>3 DEF Returned
  <2>2. "ports" \in After(n.step)
    BY <1>3 DEF After
  <2>3. /\ r \in Nodes /\ SameData(n, r) /\ r.pmc_ds_requested = n.pmc_ds_requested
        /\ r.step = "ports" /\ r.age = n.age
    BY StepIs
  <2> HIDE DEF r
  <2> QED BY <1>3, <2>1, <2>2, <2>3, SimplyAnswered
<1>4. CASE n.step = "first_offset"
  <2> DEFINE r == [n EXCEPT !.step = "sleep"]
  <2>1. Returned(n, m) = r
    BY <1>4 DEF Returned
  <2>2. "sleep" \in After(n.step)
    BY <1>4 DEF After
  <2>3. /\ r \in Nodes /\ SameData(n, r) /\ r.pmc_ds_requested = n.pmc_ds_requested
        /\ r.step = "sleep" /\ r.age = n.age
    BY StepIs
  <2> HIDE DEF r
  <2> QED BY <1>4, <2>1, <2>2, <2>3, SimplyAnswered
<1>5. CASE n.step = "subscribe"
  <2> DEFINE r == [n EXCEPT !.step = "update"]
  <2>1. Returned(n, m) = r
    BY <1>5 DEF Returned
  <2>2. "update" \in After(n.step)
    BY <1>5 DEF After
  <2>3. /\ r \in Nodes /\ SameData(n, r) /\ r.pmc_ds_requested = n.pmc_ds_requested
        /\ r.step = "update" /\ r.age = n.age
    BY StepIs
  <2> HIDE DEF r
  <2> QED BY <1>5, <2>1, <2>2, <2>3, SimplyAnswered
<1>6. CASE n.step = "update"
  <2> DEFINE r == [n EXCEPT !.step = "events", !.age = 0]
  <2>1. Returned(n, m) = r
    BY <1>6 DEF Returned
  <2>2. "events" \in After(n.step)
    BY <1>6 DEF After
  <2>3. 0 \in 0 .. UpdateInterval
    BY Constants
  <2>4. /\ r \in Nodes /\ SameData(n, r) /\ r.pmc_ds_requested = n.pmc_ds_requested
        /\ r.step = "events" /\ r.age = 0
    BY <2>3 DEF Nodes, SameData
  <2> HIDE DEF r
  <2> QED BY <1>6, <2>1, <2>2, <2>4, SimplyAnswered
<1>7. CASE n.step = "offset"
  <2> DEFINE r == psysReconfigure(n)
  <2>1. Returned(n, m) = r
    BY <1>7 DEF Returned
  <2>2. /\ r \in Nodes /\ r.step \in {"sync", "reinit"} /\ r.ports = n.ports
        /\ r.age = n.age /\ r.pmc_ds_requested = n.pmc_ds_requested
        /\ AllKnown(n) /\ Aimed(n) => Local(r)
    BY ReconfigureIs
  <2> HIDE DEF r
  <2>3. Local(n) => AllKnown(n) /\ Aimed(n)
    BY <1>7 DEF Local, Knows, Aims, AllKnown, Aimed, Early, Loop
  <2>4. After(n.step) = {"sync", "reinit"} /\ ~AsksPort(n)
    BY <1>7 DEF After, AsksPort
  <2> QED BY <1>7, <2>1, <2>2, <2>3, <2>4 DEF Answered
<1>8. CASE AsksPort(n)
  <2>1. Returned(n, m) = PortAnswered(n, m.port, psysNormalizeState(m.state))
    BY <1>8 DEF Returned, AsksPort
  <2> QED BY <1>8, <2>1, PortAnsweredIs
<1>9. n.step \in {"identity", "number", "subscribed", "first_offset", "subscribe", "update",
                  "offset", "ports", "reinit"}
  BY DEF Asking
<1> QED BY <1>1, <1>2, <1>3, <1>4, <1>5, <1>6, <1>7, <1>8, <1>9 DEF AsksPort

(* Where a timeout leads; with ptp4l running on, only in a hurry or before *)
(* it has been found.                                                      *)
Late(n, r) ==
    /\ r \in Nodes /\ r.pmc_ds_requested = n.pmc_ds_requested /\ r.age = n.age
    /\ n.step \in Hasty \cup {"identity"} =>
         /\ SameData(n, r) /\ (Local(n) => Local(r))
         /\ n.step = "identity" => r.step = "identity"
         /\ n.step = "subscribe" => r.step = "update"
         /\ n.step = "update" => r.step = "events"
         /\ n.step = "events" => r.step \in {"offset", "sync"}

LEMMA TimedOutIs ==
  ASSUME NEW n \in Nodes, n.step \in Patient \cup Hasty
  PROVE  Late(n, TimedOut(n))
<1> USE DEF Steps, Patient, Hasty
<1>1. CASE n.step = "identity"
  <2>1. TimedOut(n) = n
    BY <1>1 DEF TimedOut
  <2> QED BY <1>1, <2>1 DEF Late, SameData
<1>2. CASE n.step \in {"number", "subscribed", "ports", "first_offset"}
  <2> DEFINE r == [n EXCEPT !.step = "exit"]
  <2>1. TimedOut(n) = r
    BY <1>2 DEF TimedOut
  <2>2. r \in Nodes /\ r.pmc_ds_requested = n.pmc_ds_requested /\ r.age = n.age
    BY StepIs
  <2> HIDE DEF r
  <2>3. Late(n, r)
    BY <1>2, <2>2 DEF Late
  <2> QED BY <2>1, <2>3
<1>3. CASE n.step = "offset"
  <2> DEFINE r == [n EXCEPT !.step = "sleep"]
  <2>1. TimedOut(n) = r
    BY <1>3 DEF TimedOut
  <2>2. r \in Nodes /\ r.pmc_ds_requested = n.pmc_ds_requested /\ r.age = n.age
    BY StepIs
  <2> HIDE DEF r
  <2>3. Late(n, r)
    BY <1>3, <2>2 DEF Late
  <2> QED BY <2>1, <2>3
<1>4. CASE n.step = "reinit"
  <2> DEFINE r == Reinitialised(n, n.idx)
  <2>1. TimedOut(n) = r
    BY <1>4 DEF TimedOut
  <2>2. n.idx \in Ports
    BY DEF Nodes
  <2>3. r \in Nodes /\ r.pmc_ds_requested = n.pmc_ds_requested /\ r.age = n.age
    BY <2>2, ReinitialisedIs
  <2> HIDE DEF r
  <2>4. Late(n, r)
    BY <1>4, <2>3 DEF Late
  <2> QED BY <2>1, <2>4
<1>5. CASE n.step \in Hasty
  <2> DEFINE x == IF n.step = "subscribe" THEN "update"
                  ELSE IF n.step = "update" THEN "events"
                  ELSE IF n.state_changed THEN "offset" ELSE "sync"
             r == [n EXCEPT !.step = x]
  <2>1. TimedOut(n) = r
    BY <1>5 DEF TimedOut
  <2>2. x \in Steps
    OBVIOUS
  <2>3. /\ n.step = "subscribe" => x = "update"
        /\ n.step = "update" => x = "events"
        /\ n.step = "events" => x \in {"offset", "sync"} /\ (n.state_changed <=> x = "offset")
    <3>1. n.state_changed \in BOOLEAN
      BY DEF Nodes
    <3> QED BY <3>1
  <2> HIDE DEF x
  <2>4. /\ r \in Nodes /\ SameData(n, r) /\ r.step = x /\ r.age = n.age
        /\ r.pmc_ds_requested = n.pmc_ds_requested
    BY <2>2, StepIs
  <2> HIDE DEF r
  <2>5. ASSUME Local(n) PROVE Local(r)
    <3>1. n.step \notin Early /\ n.step # "ports" /\ r.step \notin Early /\ r.step # "ports"
      BY <1>5, <2>3, <2>4 DEF Early
    <3>2. /\ n.step \in Loop /\ n.step # "reinit" /\ n.step # "first_offset"
          /\ r.step \in Loop /\ r.step # "reinit" /\ r.step # "first_offset"
      BY <1>5, <2>3, <2>4 DEF Loop
    <3>3. Knows(r)
      BY <2>4, <2>5, <3>1 DEF Local, Knows, SameData
    <3>4. Aims(r)
      BY <2>4, <2>5, <3>2 DEF Local, Aims, SameData
    <3>5. Calm(r)
      BY <2>4, <2>5, <3>2 DEF Local, Calm, SameData
    <3>6. Last(r)
      BY <2>4, <2>5, <3>2 DEF Local, Last, SameData
    <3> QED BY <3>3, <3>4, <3>5, <3>6 DEF Local
  <2>6. Late(n, r)
    BY <1>5, <2>3, <2>4, <2>5 DEF Late
  <2> QED BY <2>1, <2>6
<1> QED BY <1>1, <1>2, <1>3, <1>4, <1>5

(* What is asked for.                                                      *)
LEMMA AsksIs ==
  ASSUME node \in Nodes
  PROVE  /\ node.step \in Asking <=> Asks # Null
         /\ Asks # Null => Asks \in Requests
         /\ node.step \in {"identity", "number"} => Asks.id = "DEFAULT_DATA_SET"
         /\ node.step \in {"subscribed", "subscribe"} => Asks.id = "SUBSCRIBE_EVENTS"
         /\ node.step \in {"first_offset", "update", "offset"} => Asks.id = "TIME_PROPERTIES"
         /\ AsksPort(node) => Asks.id = "PORT_PROPERTIES" /\ Asks.port = node.idx
         /\ node.step \in Asking => Asks.id = Topic(node.step)
<1>1. node.idx \in Ports /\ node.step \in Steps
  BY DEF Nodes
<1>2. CASE node.step \in {"identity", "number"}
  <2>1. Asks = DEFAULT
    BY <1>2 DEF Asks
  <2>2. DEFAULT \in Requests
    BY DEF Requests
  <2> QED BY <1>2, <2>1, <2>2, NullApart DEF Asking, Patient, Hasty, AsksPort, DEFAULT, Topic
<1>3. CASE node.step \in {"subscribed", "subscribe"}
  <2>1. Asks = SUBSCRIBE
    BY <1>3 DEF Asks
  <2>2. SUBSCRIBE \in Requests
    BY DEF Requests
  <2> QED BY <1>3, <2>1, <2>2, NullApart DEF Asking, Patient, Hasty, AsksPort, SUBSCRIBE, Topic
<1>4. CASE node.step \in {"first_offset", "update", "offset"}
  <2>1. Asks = TIME
    BY <1>4 DEF Asks
  <2>2. TIME \in Requests
    BY DEF Requests
  <2> QED BY <1>4, <2>1, <2>2, NullApart DEF Asking, Patient, Hasty, AsksPort, TIME, Topic
<1>5. CASE node.step \in {"ports", "reinit"}
  <2>1. Asks = Properties(node.idx)
    BY <1>5 DEF Asks
  <2>2. Properties(node.idx) \in Requests
    BY <1>1 DEF Requests
  <2>3. Properties(node.idx).id = "PORT_PROPERTIES" /\ Properties(node.idx).port = node.idx
    BY DEF Properties
  <2> QED BY <1>5, <2>1, <2>2, <2>3, NullApart DEF Asking, Patient, Hasty, AsksPort, Topic
<1>6. CASE node.step \in {"events", "sleep", "sync", "exit"}
  <2>1. Asks = Null
    BY <1>6 DEF Asks
  <2> QED BY <1>6, <2>1 DEF Asking, Patient, Hasty, AsksPort
<1> QED BY <1>1, <1>2, <1>3, <1>4, <1>5, <1>6 DEF Steps, Patient, Hasty

LEMMA AnswerIs ==
  ASSUME ServerTypeOK, NEW q \in Requests
  PROVE  /\ Answer(q) \in Answers /\ Answer(q).id = q.id
         /\ q.id = "PORT_PROPERTIES" =>
              Answer(q).port = q.port /\ Answer(q).state = state[q.port]
<1>1. CASE q \in {DEFAULT, TIME, SUBSCRIBE}
  <2>1. Answer(q) = q
    BY <1>1, Zenon DEF Answer
  <2>2. q \in Answers /\ q.id # "PORT_PROPERTIES"
    BY <1>1 DEF Answers, DEFAULT, TIME, SUBSCRIBE
  <2> QED BY <2>1, <2>2
<1>2. CASE q \notin {DEFAULT, TIME, SUBSCRIBE}
  <2>1. PICK p \in Ports : q = Properties(p)
    BY <1>2 DEF Requests
  <2>2. q.id = "PORT_PROPERTIES" /\ q.port = p
    BY <2>1 DEF Properties
  <2>3. Answer(q) = StateOf("PORT_PROPERTIES", q.port, state[q.port])
    BY <1>2, Zenon DEF Answer
  <2>4. state[p] \in PortStates
    BY DEF ServerTypeOK
  <2>5. StateOf("PORT_PROPERTIES", p, state[p]) \in Answers
    BY <2>4 DEF Answers
  <2>6. /\ StateOf("PORT_PROPERTIES", p, state[p]).id = "PORT_PROPERTIES"
        /\ StateOf("PORT_PROPERTIES", p, state[p]).port = p
        /\ StateOf("PORT_PROPERTIES", p, state[p]).state = state[p]
    BY DEF StateOf
  <2> QED BY <2>2, <2>3, <2>5, <2>6
<1> QED BY <1>1, <1>2

LEMMA NoticeIs ==
  ASSUME NEW p \in Ports, NEW s \in PortStates
  PROVE  LET m == StateOf("PORT_DATA_SET", p, s)
         IN  m \in Answers /\ m.id = "PORT_DATA_SET" /\ m.port = p /\ m.state = s
BY DEF StateOf, Answers

(* The node after a message was read, a timeout, a night's sleep.          *)
LEMMA ReceiveIs ==
  ASSUME TypeOK, PmcReceive
  PROVE  /\ Head(inbox) \in Answers /\ node.step \in Patient \cup Hasty
         /\ IsAnswer(Head(inbox)) =>
              LET n == [node EXCEPT !.pmc_ds_requested = FALSE]
              IN  /\ n \in Nodes /\ SameData(node, n) /\ n.step = node.step /\ n.age = node.age
                  /\ ~n.pmc_ds_requested /\ Answered(n, Head(inbox), node')
                  /\ node.step \in Asking /\ Head(inbox).id = Asks.id
         /\ ~IsAnswer(Head(inbox)) =>
              /\ node' = Noticed(node, Head(inbox))
              /\ node.step \in Asking => Head(inbox).id # Asks.id
<1> DEFINE m == Head(inbox)
           n == [node EXCEPT !.pmc_ds_requested = FALSE]
<1>1. /\ inbox \in Seq(Answers) /\ inbox # << >> /\ node \in Nodes /\ node.step \in Patient \cup Hasty
      /\ node' = IF IsAnswer(m) THEN Returned(n, m) ELSE Noticed(node, m)
  BY DEF TypeOK, ServerTypeOK, PmcReceive, Receive
<1>2. m \in Answers
  BY <1>1
<1> HIDE DEF m
<1>3. n \in Nodes /\ SameData(node, n) /\ n.step = node.step /\ n.age = node.age
      /\ ~n.pmc_ds_requested
  BY <1>1, RequestIs
<1> HIDE DEF n
<1>4. ASSUME IsAnswer(m)
      PROVE  Answered(n, m, node') /\ node.step \in Asking /\ m.id = Asks.id
  <2>1. Asks # Null /\ m.id = Asks.id
    BY <1>4 DEF IsAnswer
  <2>2. node.step \in Asking
    BY <1>1, <2>1, AsksIs
  <2>3. AsksPort(n) => m.id = "PORT_PROPERTIES"
    BY <1>1, <1>3, <2>1, AsksIs DEF AsksPort
  <2>4. Answered(n, m, Returned(n, m))
    BY <1>2, <1>3, <2>2, <2>3, ReturnedIs
  <2>5. node' = Returned(n, m)
    BY <1>1, <1>4, Zenon
  <2> QED BY <2>1, <2>2, <2>4, <2>5
<1>5. ASSUME ~IsAnswer(m)
      PROVE  node' = Noticed(node, m) /\ (node.step \in Asking => m.id # Asks.id)
  BY <1>1, <1>5, AsksIs DEF IsAnswer
<1> QED BY <1>1, <1>2, <1>3, <1>4, <1>5 DEF m, n

LEMMA GivesUpIs ==
  ASSUME NEW k \in Nodes, k.step \in Patient \cup Hasty
  PROVE  LET r == GivesUp(k)
         IN  /\ r \in Nodes /\ ~r.pmc_ds_requested /\ r.age = k.age
             /\ k.step \in Hasty \cup {"identity"} =>
                  /\ SameData(k, r) /\ (Local(k) => Local(r))
                  /\ k.step = "identity" => r.step = "identity"
                  /\ k.step = "subscribe" => r.step = "update"
                  /\ k.step = "update" => r.step = "events"
                  /\ k.step = "events" => r.step \in {"offset", "sync"}
<1> DEFINE n == [k EXCEPT !.pmc_ds_requested = FALSE]
           r == TimedOut(n)
<1>1. GivesUp(k) = r
  BY Zenon DEF GivesUp
<1>2. n \in Nodes /\ SameData(k, n) /\ n.step = k.step /\ n.age = k.age /\ ~n.pmc_ds_requested
  BY RequestIs
<1> HIDE DEF n
<1>3. Late(n, r)
  BY <1>2, TimedOutIs
<1>4. Local(k) => Local(n)
  BY <1>2, AgeLocal
<1> HIDE DEF r
<1>5. k.step \in Hasty \cup {"identity"} => SameData(k, r)
  BY <1>2, <1>3 DEF Late, SameData
<1> QED BY <1>1, <1>2, <1>3, <1>4, <1>5 DEF Late

LEMMA WokenIs ==
  ASSUME NEW k \in Nodes
  PROVE  LET r == Woken(Aged(k))
         IN  /\ r \in Nodes /\ SameData(k, r) /\ r.pmc_ds_requested = k.pmc_ds_requested
             /\ r.age = IF k.age < UpdateInterval THEN k.age + 1 ELSE k.age
             /\ r.step = IF r.age < UpdateInterval THEN "events" ELSE "subscribe"
<1> DEFINE n == Aged(k)
           x == IF n.age < UpdateInterval THEN "events" ELSE "subscribe"
           r == [n EXCEPT !.step = x]
<1>1. /\ n \in Nodes /\ SameData(k, n) /\ n.step = k.step
      /\ n.pmc_ds_requested = k.pmc_ds_requested
      /\ n.age = IF k.age < UpdateInterval THEN k.age + 1 ELSE k.age
  BY AgeIs
<1> HIDE DEF n
<1>2. Woken(n) = r
  BY DEF Woken
<1>3. x \in Steps
  BY DEF Steps, Hasty
<1>4. /\ r \in Nodes /\ SameData(n, r) /\ r.step = x /\ r.age = n.age
      /\ r.pmc_ds_requested = n.pmc_ds_requested
  <2> HIDE DEF x
  <2> QED BY <1>1, <1>3, StepIs
<1>5. SameData(k, r)
  <2> HIDE DEF r
  <2> QED BY <1>1, <1>4 DEF SameData
<1> QED BY <1>1, <1>2, <1>4, <1>5 DEF n

----------------------------------------------------------------------------
LEMMA InitType ==
  Init => TypeOK
<1> SUFFICES ASSUME Init PROVE TypeOK
  OBVIOUS
<1>1. ServerTypeOK
  <2>1. requests = << >> /\ inbox = << >> /\ requests \in Seq(Requests) /\ inbox \in Seq(Answers)
    BY DEF Init, ServerInit
  <2>2. state \in [Ports -> PortStates]
    BY SubscriptionConfig DEF Init, ServerInit, Ports
  <2>3. up \in BOOLEAN /\ crashes \in 0 .. MaxEvents /\ changes \in 0 .. MaxEvents /\ expiration = Null
    BY Constants DEF Init, ServerInit
  <2> QED BY <2>1, <2>2, <2>3 DEF ServerTypeOK
<1>2. node \in Nodes
  <2>1. /\ "identity" \in Steps /\ UpdateInterval \in 0 .. UpdateInterval
        /\ [p \in Ports |-> Null] \in [Ports -> Norm \cup {Null}]
        /\ [c \in Clocks |-> Null] \in [Clocks -> Norm \cup {Null}]
    BY Constants DEF Steps, Patient
  <2> QED BY <2>1, Constants DEF Init, Nodes
<1>3. rt \in {"none", "dest_only", "source"}
  BY Constants DEF Init
<1> QED BY <1>1, <1>2, <1>3 DEF TypeOK

LEMMA ServeType ==
  ASSUME TypeOK, Serve, UNCHANGED <<rt, node>>
  PROVE  TypeOK'
<1> DEFINE q == Head(requests)
           a == Answer(q)
           e == NewExpiration(q, expiration)
<1>1. /\ requests \in Seq(Requests) /\ requests # << >> /\ inbox \in Seq(Answers)
      /\ expiration \in (0 .. Duration) \cup {Null} /\ ServerTypeOK
  BY DEF TypeOK, ServerTypeOK, Serve
<1>2. q \in Requests /\ requests' \in Seq(Requests)
  BY <1>1 DEF Serve
<1> HIDE DEF q
<1>3. a \in Answers
  BY <1>1, <1>2, AnswerIs
<1>4. inbox' \in Seq(Answers)
  <2>1. inbox' = Append(inbox, a)
    BY DEF Serve, q
  <2> HIDE DEF a
  <2> QED BY <1>1, <1>3, <2>1
<1>5. expiration' \in (0 .. Duration) \cup {Null}
  <2>1. e \in (0 .. Duration) \cup {Null}
    BY <1>1, Constants DEF NewExpiration
  <2>2. expiration' = clock_prune_subscriptions(e)
    BY DEF Serve, q
  <2> HIDE DEF e
  <2> QED BY <2>1, <2>2 DEF clock_prune_subscriptions
<1> QED BY <1>2, <1>4, <1>5 DEF Serve, TypeOK, ServerTypeOK

LEMMA PortChangesType ==
  ASSUME TypeOK, NEW p \in Ports, NEW s \in PortStates, PortChanges(p, s), UNCHANGED <<rt, node>>
  PROVE  TypeOK'
<1>1. /\ inbox \in Seq(Answers) /\ expiration \in (0 .. Duration) \cup {Null}
      /\ state \in [Ports -> PortStates] /\ changes \in 0 .. MaxEvents /\ crashes \in 0 .. MaxEvents
  BY DEF TypeOK, ServerTypeOK
<1>2. inbox' \in Seq(Answers)
  <2> DEFINE m == StateOf("PORT_DATA_SET", p, s)
  <2>1. m \in Answers
    BY NoticeIs
  <2>2. inbox' = inbox \/ inbox' = Append(inbox, m)
    BY Zenon DEF PortChanges, Notified
  <2> HIDE DEF m
  <2> QED BY <1>1, <2>1, <2>2
<1>3. expiration' \in (0 .. Duration) \cup {Null}
  BY <1>1 DEF PortChanges, clock_prune_subscriptions
<1>4. state' \in [Ports -> PortStates]
  BY <1>1 DEF PortChanges
<1>5. changes' \in 0 .. MaxEvents
  BY <1>1, Constants DEF PortChanges
<1> QED BY <1>2, <1>3, <1>4, <1>5 DEF PortChanges, TypeOK, ServerTypeOK

LEMMA TimePassesType ==
  ASSUME ServerTypeOK, TimePasses
  PROVE  ServerTypeOK'
<1>1. expiration' \in (0 .. Duration) \cup {Null}
  BY Constants DEF ServerTypeOK, TimePasses
<1> QED BY <1>1 DEF TimePasses, ServerTypeOK

LEMMA SendIs ==
  ASSUME TypeOK, PmcSend
  PROVE  /\ TypeOK' /\ node.step \in Asking /\ Asks \in Requests
         /\ ~node.pmc_ds_requested /\ inbox = << >>
         /\ SameData(node, node') /\ node'.step = node.step /\ node'.age = node.age
         /\ node'.pmc_ds_requested
         /\ requests' = IF up THEN Append(requests, Asks) ELSE requests
         /\ UNCHANGED <<up, state, expiration, inbox, crashes, changes, rt>>
<1>1. node \in Nodes /\ requests \in Seq(Requests) /\ Asks # Null
  BY DEF TypeOK, ServerTypeOK, PmcSend
<1>2. Asks \in Requests /\ node.step \in Asking
  BY <1>1, AsksIs
<1>3. node' = [node EXCEPT !.pmc_ds_requested = TRUE]
  BY DEF PmcSend
<1>4. /\ node' \in Nodes /\ SameData(node, node') /\ node'.step = node.step /\ node'.age = node.age
      /\ node'.pmc_ds_requested
  BY <1>1, <1>3, RequestIs
<1>5. /\ requests' = IF up THEN Append(requests, Asks) ELSE requests
      /\ UNCHANGED <<up, state, expiration, inbox, crashes, changes, rt>>
  BY DEF PmcSend, Send
<1>6. requests' \in Seq(Requests)
  <2> DEFINE a == Asks
  <2>1. requests' = requests \/ requests' = Append(requests, a)
    BY <1>5
  <2>2. a \in Requests
    BY <1>2
  <2> HIDE DEF a
  <2> QED BY <1>1, <2>1, <2>2
<1>7. TypeOK'
  BY <1>4, <1>5, <1>6 DEF TypeOK, ServerTypeOK
<1> QED BY <1>2, <1>4, <1>5, <1>7 DEF PmcSend

LEMMA ReceiveType ==
  ASSUME TypeOK, PmcReceive
  PROVE  TypeOK'
<1>1. node \in Nodes /\ inbox \in Seq(Answers) /\ inbox # << >>
  BY DEF TypeOK, ServerTypeOK, PmcReceive, Receive
<1>2. inbox' \in Seq(Answers)
  BY <1>1 DEF PmcReceive, Receive
<1>3. node' \in Nodes
  <2>1. CASE IsAnswer(Head(inbox))
    BY <2>1, ReceiveIs DEF Answered
  <2>2. CASE ~IsAnswer(Head(inbox))
    BY <1>1, <2>2, ReceiveIs, NoticedIs
  <2> QED BY <2>1, <2>2
<1>4. UNCHANGED <<up, state, expiration, requests, crashes, changes, rt>>
  BY DEF PmcReceive, Receive
<1> QED BY <1>2, <1>3, <1>4 DEF TypeOK, ServerTypeOK

LEMMA TimeoutIs ==
  ASSUME TypeOK, PmcTimeout
  PROVE  /\ inbox = << >> /\ (node.pmc_ds_requested \/ Asks = Null) /\ UNCHANGED rt
         /\ \/ node.step \in Hasty /\ node' = GivesUp(node) /\ UNCHANGED serverVars
            \/ node.step \in Patient /\ node' = GivesUp(Aged(node)) /\ TimePasses
BY Zenon DEF PmcTimeout

LEMMA TimeoutType ==
  ASSUME TypeOK, PmcTimeout
  PROVE  TypeOK'
<1>1. node \in Nodes /\ ServerTypeOK /\ rt' = rt
  BY TimeoutIs DEF TypeOK
<1>2. CASE node.step \in Hasty /\ node' = GivesUp(node) /\ UNCHANGED serverVars
  <2>1. node' \in Nodes
    BY <1>1, <1>2, GivesUpIs
  <2> QED BY <1>1, <1>2, <2>1 DEF TypeOK, ServerTypeOK, serverVars
<1>3. CASE node.step \in Patient /\ node' = GivesUp(Aged(node)) /\ TimePasses
  <2>1. Aged(node) \in Nodes /\ Aged(node).step = node.step
    BY <1>1, AgeIs
  <2>2. node' \in Nodes
    BY <1>3, <2>1, GivesUpIs
  <2> QED BY <1>1, <1>3, <2>2, TimePassesType DEF TypeOK
<1> QED BY <1>2, <1>3, TimeoutIs

LEMMA WakeIs ==
  ASSUME TypeOK, Wake
  PROVE  /\ node.step = "sleep" /\ TimePasses /\ rt' = rt
         /\ node' \in Nodes /\ SameData(node, node')
         /\ node'.pmc_ds_requested = node.pmc_ds_requested
         /\ node'.age = IF node.age < UpdateInterval THEN node.age + 1 ELSE node.age
         /\ node'.step = IF node'.age < UpdateInterval THEN "events" ELSE "subscribe"
<1>1. node \in Nodes /\ node' = Woken(Aged(node)) /\ node.step = "sleep" /\ TimePasses /\ rt' = rt
  BY DEF TypeOK, Wake
<1> QED BY <1>1, WokenIs

LEMMA SyncIs ==
  ASSUME TypeOK, Sync
  PROVE  /\ node.step = "sync" /\ UNCHANGED <<serverVars, rt>>
         /\ node' \in Nodes /\ SameData(node, node') /\ node'.step = "sleep" /\ node'.age = node.age
         /\ node'.pmc_ds_requested = node.pmc_ds_requested
<1>1. node \in Nodes /\ node' = [node EXCEPT !.step = "sleep"]
  BY DEF TypeOK, Sync
<1>2. "sleep" \in Steps
  BY DEF Steps
<1> QED BY <1>1, <1>2, StepIs DEF Sync

LEMMA NextType ==
  TypeOK /\ [Next]_vars => TypeOK'
<1> SUFFICES ASSUME TypeOK, [Next]_vars PROVE TypeOK'
  OBVIOUS
<1>1. CASE PmcSend
  BY <1>1, SendIs
<1>2. CASE PmcReceive
  BY <1>2, ReceiveType
<1>3. CASE PmcTimeout
  BY <1>3, TimeoutType
<1>4. CASE Wake
  BY <1>4, WakeIs, TimePassesType DEF TypeOK
<1>5. CASE Sync
  BY <1>5, SyncIs DEF TypeOK, ServerTypeOK, serverVars
<1>6. CASE Serve /\ UNCHANGED <<rt, node>>
  BY <1>6, ServeType
<1>7. CASE (\E p \in Ports, s \in PortStates : PortChanges(p, s)) /\ UNCHANGED <<rt, node>>
  BY <1>7, PortChangesType
<1>8. CASE Crash /\ UNCHANGED <<rt, node>>
  <2>1. crashes' \in 0 .. MaxEvents
    BY <1>8, Constants DEF Crash, TypeOK, ServerTypeOK
  <2>2. requests' = << >> /\ expiration' = Null /\ up' = FALSE
    BY <1>8 DEF Crash
  <2>3. requests' \in Seq(Requests)
    BY <2>2
  <2> QED BY <1>8, <2>1, <2>2, <2>3 DEF Crash, TypeOK, ServerTypeOK
<1>9. CASE Start /\ UNCHANGED <<rt, node>>
  <2>1. state' \in [Ports -> PortStates] /\ up' \in BOOLEAN
    BY <1>9, Constants DEF Start
  <2> QED BY <1>9, <2>1 DEF Start, TypeOK, ServerTypeOK
<1>10. CASE UNCHANGED vars
  BY <1>10 DEF vars, serverVars, TypeOK, ServerTypeOK
<1> QED BY <1>1, <1>2, <1>3, <1>4, <1>5, <1>6, <1>7, <1>8, <1>9, <1>10 DEF Next, PhcStep, ServerStep

(* Whatever both programs do, their states stay within their bounds; the   *)
(* lease is never more than PMC_SUBSCRIBE_DURATION, the age never more     *)
(* than PMC_UPDATE_INTERVAL, and the master clock is one that exists.      *)
THEOREM TypeCorrect == Spec => []TypeOK
<1>1. Init => TypeOK
  BY InitType
<1>2. TypeOK /\ [Next]_vars => TypeOK'
  BY NextType
<1> QED BY <1>1, <1>2, PTL DEF Spec

----------------------------------------------------------------------------
(***************************************************************************)
(* What is under way, after a message was handled, sent or read.           *)
(***************************************************************************)
LEMMA ServeFlow ==
  ASSUME TypeOK, Serve
  PROVE  LET q == Head(requests)
         IN  /\ q \in Requests /\ requests # << >> /\ Has(requests, q.id)
             /\ inbox' = Append(inbox, Answer(q))
             /\ \A a : UnderWay(inbox', requests', a) <=> UnderWay(inbox, requests, a)
             /\ \A a, b : Leads(inbox', requests', a, b) <=> Leads(inbox, requests, a, b)
             /\ \A a : Has(inbox', a) <=> Has(inbox, a) \/ q.id = a
             /\ \A p : OfPort(requests, p) => OfPort(requests', p)
             /\ \A p : OfPort(requests, p) /\ OfPort(inbox, p) => OfPort(inbox', p)
<1> DEFINE q == Head(requests)
           r == Tail(requests)
           m == Answer(q)
           i == Append(inbox, m)
<1>1. requests \in Seq(Requests) /\ requests # << >> /\ inbox \in Seq(Answers) /\ ServerTypeOK
  BY DEF TypeOK, ServerTypeOK, Serve
<1>2. q \in Requests
  BY <1>1
<1>3. requests' = r /\ inbox' = i
  BY DEF Serve
<1>4. m \in Answers /\ m.id = q.id /\ (q.id = "PORT_PROPERTIES" => m.port = q.port)
  <2> HIDE DEF q
  <2> QED BY <1>1, <1>2, AnswerIs
<1>5. \A a : Has(requests, a) <=> q.id = a \/ Has(r, a)
  BY <1>1, HasTail
<1>6. \A a, b : Before(requests, a, b) <=> (q.id = a /\ Has(r, b)) \/ Before(r, a, b)
  BY <1>1, BeforeTail
<1>7. \A p : OfPort(requests, p) => OfPort(r, p) /\ (q.id = "PORT_PROPERTIES" => q.port = p)
  BY <1>1, OfPortTail
<1> HIDE DEF m
<1>8. \A a : Has(i, a) <=> Has(inbox, a) \/ q.id = a
  BY <1>1, <1>4, HasAppend
<1>9. \A a, b : Before(i, a, b) <=> Before(inbox, a, b) \/ (Has(inbox, a) /\ q.id = b)
  BY <1>1, <1>4, BeforeAppend
<1>10. \A p : OfPort(i, p) <=> OfPort(inbox, p) /\ (q.id = "PORT_PROPERTIES" => q.port = p)
  BY <1>1, <1>4, OfPortAppend
<1> HIDE DEF r, i, q
<1>11. \A a : UnderWay(i, r, a) <=> UnderWay(inbox, requests, a)
  BY <1>5, <1>8 DEF UnderWay
<1>12. \A a, b : Leads(i, r, a, b) <=> Leads(inbox, requests, a, b)
  BY <1>5, <1>6, <1>8, <1>9 DEF Leads
<1>13. inbox' = Append(inbox, Answer(q))
  BY <1>3 DEF i, m
<1> QED BY <1>1, <1>2, <1>3, <1>5, <1>7, <1>8, <1>10, <1>11, <1>12, <1>13 DEF q

(* Nothing but a notice is added.                                          *)
LEMMA NoticeFlow ==
  ASSUME TypeOK, NEW m \in Answers, m.id = "PORT_DATA_SET",
         NEW i, i = inbox \/ i = Append(inbox, m)
  PROVE  /\ \A a : a # "PORT_DATA_SET" => (Has(i, a) <=> Has(inbox, a))
         /\ \A a, b : b # "PORT_DATA_SET" => (Before(i, a, b) <=> Before(inbox, a, b))
         /\ \A p : OfPort(i, p) <=> OfPort(inbox, p)
<1>1. inbox \in Seq(Answers)
  BY DEF TypeOK, ServerTypeOK
<1>2. CASE i = inbox
  BY <1>2
<1>3. CASE i = Append(inbox, m)
  <2>1. \A a : Has(i, a) <=> Has(inbox, a) \/ m.id = a
    BY <1>1, <1>3, HasAppend
  <2>2. \A a, b : Before(i, a, b) <=> Before(inbox, a, b) \/ (Has(inbox, a) /\ m.id = b)
    BY <1>1, <1>3, BeforeAppend
  <2>3. \A p : OfPort(i, p) <=> OfPort(inbox, p) /\ (m.id = "PORT_PROPERTIES" => m.port = p)
    BY <1>1, <1>3, OfPortAppend
  <2> QED BY <2>1, <2>2, <2>3
<1> QED BY <1>2, <1>3

LEMMA SendFlow ==
  ASSUME TypeOK, NEW q \in Requests, NEW r, r = Append(requests, q)
  PROVE  /\ \A a : UnderWay(inbox, r, a) <=> UnderWay(inbox, requests, a) \/ q.id = a
         /\ \A a, b : Leads(inbox, r, a, b)
                        <=> Leads(inbox, requests, a, b)
                            \/ (UnderWay(inbox, requests, a) /\ q.id = b)
         /\ \A p : OfPort(r, p) <=> OfPort(requests, p) /\ (q.id = "PORT_PROPERTIES" => q.port = p)
<1>1. requests \in Seq(Requests)
  BY DEF TypeOK, ServerTypeOK
<1>2. \A a : Has(r, a) <=> Has(requests, a) \/ q.id = a
  BY <1>1, HasAppend
<1>3. \A a, b : Before(r, a, b) <=> Before(requests, a, b) \/ (Has(requests, a) /\ q.id = b)
  BY <1>1, BeforeAppend
<1>4. \A p : OfPort(r, p) <=> OfPort(requests, p) /\ (q.id = "PORT_PROPERTIES" => q.port = p)
  BY <1>1, OfPortAppend
<1>5. \A a : UnderWay(inbox, r, a) <=> UnderWay(inbox, requests, a) \/ q.id = a
  BY <1>2 DEF UnderWay
<1>6. \A a, b : Leads(inbox, r, a, b)
                  <=> Leads(inbox, requests, a, b) \/ (UnderWay(inbox, requests, a) /\ q.id = b)
  BY <1>2, <1>3 DEF UnderWay, Leads
<1> QED BY <1>4, <1>5, <1>6

LEMMA ReceiveFlow ==
  ASSUME TypeOK, Receive
  PROVE  LET m == Head(inbox)
         IN  /\ m \in Answers /\ inbox # << >>
             /\ \A a : UnderWay(inbox, requests, a) <=> UnderWay(inbox', requests', a) \/ m.id = a
             /\ \A a, b : Leads(inbox, requests, a, b)
                            <=> Leads(inbox', requests', a, b)
                                \/ (m.id = a /\ UnderWay(inbox', requests', b))
             /\ \A a : Has(inbox, a) <=> Has(inbox', a) \/ m.id = a
             /\ \A p : OfPort(inbox, p) =>
                         OfPort(inbox', p) /\ (m.id = "PORT_PROPERTIES" => m.port = p)
<1> DEFINE m == Head(inbox)
           i == Tail(inbox)
<1>1. inbox \in Seq(Answers) /\ inbox # << >>
  BY DEF TypeOK, ServerTypeOK, Receive
<1>2. m \in Answers
  BY <1>1
<1>3. requests' = requests /\ inbox' = i
  BY DEF Receive
<1>4. \A a : Has(inbox, a) <=> m.id = a \/ Has(i, a)
  BY <1>1, HasTail
<1>5. \A a, b : Before(inbox, a, b) <=> (m.id = a /\ Has(i, b)) \/ Before(i, a, b)
  BY <1>1, BeforeTail
<1>6. \A p : OfPort(inbox, p) => OfPort(i, p) /\ (m.id = "PORT_PROPERTIES" => m.port = p)
  BY <1>1, OfPortTail
<1> HIDE DEF i, m
<1>7. \A a : UnderWay(inbox, requests, a) <=> UnderWay(i, requests, a) \/ m.id = a
  BY <1>4 DEF UnderWay
<1>8. \A a, b : Leads(inbox, requests, a, b)
                  <=> Leads(i, requests, a, b) \/ (m.id = a /\ UnderWay(i, requests, b))
  BY <1>4, <1>5 DEF UnderWay, Leads
<1> QED BY <1>1, <1>2, <1>3, <1>4, <1>6, <1>7, <1>8 DEF m

LEMMA NothingUnderWay ==
  ASSUME inbox = << >>, requests = << >>
  PROVE  \A a, b : ~UnderWay(inbox, requests, a) /\ ~Leads(inbox, requests, a, b)
BY NothingIn DEF UnderWay, Leads

----------------------------------------------------------------------------
(***************************************************************************)
(* The invariant is kept: ptp4l's steps.                                   *)
(***************************************************************************)

(* The lease runs on, and is not at its end.                               *)
LEMMA LeaseRuns ==
  ASSUME TypeOK, Steady(node)
  PROVE  /\ expiration = Null => node.step \in Early
         /\ expiration # Null => expiration \in 1 .. Duration
         /\ node.step \notin Early => expiration # Null
<1>1. node.step \in Steps /\ node.step # "exit" /\ expiration \in (0 .. Duration) \cup {Null}
  BY DEF TypeOK, ServerTypeOK, Nodes, Steady, Alive
<1>2. CASE node.step \in Early
  <2>1. expiration = Null \/ expiration = Duration
    BY <1>2 DEF Steady, Lease, Early
  <2> QED BY <1>2, <2>1, Constants
<1>3. CASE node.step \in {"ports", "first_offset"}
  <2>1. expiration = Duration
    BY <1>3 DEF Steady, Lease
  <2> QED BY <2>1, Constants, NullApart
<1>4. CASE node.step \in Loop
  <2>1. expiration \in Duration - 1 - UpdateInterval .. Duration
    BY <1>4 DEF Steady, Lease
  <2>2. expiration \in 1 .. Duration
    BY <2>1, Constants
  <2> QED BY <2>2, NullApart
<1> QED BY <1>1, <1>2, <1>3, <1>4 DEF Steps, Early, Loop, Patient, Hasty

LEMMA LeaseInLoop ==
  ASSUME Lease(node), node.step \in Loop
  PROVE  /\ expiration \in Duration - 1 - UpdateInterval .. Duration
         /\ UnderWay(inbox, requests, "SUBSCRIBE_EVENTS") =>
              /\ node.age = UpdateInterval
              /\ ~Leads(inbox, requests, "SUBSCRIBE_EVENTS", "SUBSCRIBE_EVENTS")
              /\ ~Leads(inbox, requests, "TIME_PROPERTIES", "SUBSCRIBE_EVENTS")
         /\ Has(inbox, "SUBSCRIBE_EVENTS") =>
              expiration = Duration \/ (expiration = Duration - 1 /\ node.step = "subscribe")
         /\ node.step = "subscribe" /\ ~node.pmc_ds_requested => requests = << >>
         /\ node.step # "subscribe" /\ ~UnderWay(inbox, requests, "SUBSCRIBE_EVENTS") =>
              /\ expiration >= Duration - 1 - node.age
              /\ node.age = UpdateInterval => expiration >= Duration - 1
         /\ node.step \in {"subscribe", "update"} => node.age = UpdateInterval
BY DEF Lease, Pending, Ahead

LEMMA ServeSteady ==
  ASSUME TypeOK, Steady(node), Serve, UNCHANGED <<rt, node>>
  PROVE  Steady(node)'
<1> DEFINE q == Head(requests)
<1>1. /\ q \in Requests /\ requests # << >> /\ Has(requests, q.id)
      /\ inbox' = Append(inbox, Answer(q))
      /\ \A a : UnderWay(inbox', requests', a) <=> UnderWay(inbox, requests, a)
      /\ \A a, b : Leads(inbox', requests', a, b) <=> Leads(inbox, requests, a, b)
      /\ \A a : Has(inbox', a) <=> Has(inbox, a) \/ q.id = a
      /\ \A p : OfPort(requests, p) => OfPort(requests', p)
      /\ \A p : OfPort(requests, p) /\ OfPort(inbox, p) => OfPort(inbox', p)
  BY ServeFlow
<1>2. UnderWay(inbox, requests, q.id)
  BY <1>1 DEF UnderWay
<1>3. expiration' = IF q.id = "SUBSCRIBE_EVENTS" THEN Duration ELSE expiration
  <2>1. expiration # 0
    BY LeaseRuns, NullApart
  <2>2. q.id = "SUBSCRIBE_EVENTS" <=> q = SUBSCRIBE
    BY <1>1, RequestFields
  <2>3. expiration' = clock_prune_subscriptions(NewExpiration(q, expiration))
    BY DEF Serve
  <2> QED BY <2>1, <2>2, <2>3, Constants DEF NewExpiration, clock_prune_subscriptions
<1>4. up /\ up' = up /\ state' = state /\ node' = node /\ rt' = rt
  BY DEF Serve
<1>5. \A p \in Ports : Told(inbox, p, node.ports[p], psysNormalizeState(state[p]))
                       => Told(inbox', p, node.ports[p], psysNormalizeState(state[p]))
  <2> DEFINE m == Answer(q)
  <2> SUFFICES ASSUME NEW p \in Ports, Told(inbox, p, node.ports[p], psysNormalizeState(state[p]))
               PROVE  Told(Append(inbox, m), p, node.ports[p], psysNormalizeState(state[p]))
    BY <1>1
  <2>1. /\ m \in Answers /\ m.id = q.id
        /\ q.id = "PORT_PROPERTIES" => m.port = q.port /\ m.state = state[q.port]
    <3> HIDE DEF q
    <3> QED BY <1>1, AnswerIs DEF TypeOK
  <2>2. inbox \in Seq(Answers) /\ m.id # "PORT_DATA_SET"
    BY <1>1, <2>1, RequestFields DEF TypeOK, ServerTypeOK
  <2> HIDE DEF m
  <2>3. CASE About(m, p)
    <3>1. m.id = "PORT_PROPERTIES" /\ m.state = state[p]
      BY <2>1, <2>2, <2>3 DEF About
    <3>2. Told(Append(inbox, m), p, node.ports[p], psysNormalizeState(m.state))
      BY <2>1, <2>2, <2>3, <3>1, ToldAbout
    <3> QED BY <3>1, <3>2
  <2>4. CASE ~About(m, p)
    BY <2>1, <2>2, <2>4, ToldOther
  <2> QED BY <2>3, <2>4
<1> HIDE DEF q
<1>6. Alive(node)'
  BY <1>1, <1>4 DEF Steady, Alive, Pending
<1>7. Lease(node)'
  <2>1. node.step \in {"identity", "number"} =>
          expiration' = Null /\ ~UnderWay(inbox', requests', "SUBSCRIBE_EVENTS")
    BY <1>1, <1>2, <1>3 DEF Steady, Lease, Pending
  <2>2. node.step = "subscribed" =>
         /\ expiration' = IF Has(inbox', "SUBSCRIBE_EVENTS") THEN Duration ELSE Null
         /\ UnderWay(inbox', requests', "SUBSCRIBE_EVENTS") => node.pmc_ds_requested
         /\ ~Leads(inbox', requests', "SUBSCRIBE_EVENTS", "SUBSCRIBE_EVENTS")
    BY <1>1, <1>2, <1>3 DEF Steady, Lease, Pending, Ahead
  <2>3. node.step \in {"ports", "first_offset"} =>
          expiration' = Duration /\ ~UnderWay(inbox', requests', "SUBSCRIBE_EVENTS")
    BY <1>1, <1>2, <1>3 DEF Steady, Lease, Pending
  <2>4. node.step \in Loop =>
         /\ expiration' \in Duration - 1 - UpdateInterval .. Duration
         /\ UnderWay(inbox', requests', "SUBSCRIBE_EVENTS") =>
              /\ node.age = UpdateInterval
              /\ ~Leads(inbox', requests', "SUBSCRIBE_EVENTS", "SUBSCRIBE_EVENTS")
              /\ ~Leads(inbox', requests', "TIME_PROPERTIES", "SUBSCRIBE_EVENTS")
         /\ Has(inbox', "SUBSCRIBE_EVENTS") =>
              expiration' = Duration \/ (expiration' = Duration - 1 /\ node.step = "subscribe")
         /\ ~(node.step = "subscribe" /\ ~node.pmc_ds_requested)
         /\ node.step # "subscribe" /\ ~UnderWay(inbox', requests', "SUBSCRIBE_EVENTS") =>
              /\ expiration' >= Duration - 1 - node.age
              /\ node.age = UpdateInterval => expiration' >= Duration - 1
    <3> SUFFICES ASSUME node.step \in Loop
                 PROVE
         /\ expiration' \in Duration - 1 - UpdateInterval .. Duration
         /\ UnderWay(inbox', requests', "SUBSCRIBE_EVENTS") =>
              /\ node.age = UpdateInterval
              /\ ~Leads(inbox', requests', "SUBSCRIBE_EVENTS", "SUBSCRIBE_EVENTS")
              /\ ~Leads(inbox', requests', "TIME_PROPERTIES", "SUBSCRIBE_EVENTS")
         /\ Has(inbox', "SUBSCRIBE_EVENTS") =>
              expiration' = Duration \/ (expiration' = Duration - 1 /\ node.step = "subscribe")
         /\ ~(node.step = "subscribe" /\ ~node.pmc_ds_requested)
         /\ node.step # "subscribe" /\ ~UnderWay(inbox', requests', "SUBSCRIBE_EVENTS") =>
              /\ expiration' >= Duration - 1 - node.age
              /\ node.age = UpdateInterval => expiration' >= Duration - 1
      OBVIOUS
    <3>0. Lease(node)
      BY DEF Steady
    <3>1. expiration' \in Duration - 1 - UpdateInterval .. Duration
      <4>1. Duration \in Duration - 1 - UpdateInterval .. Duration
        BY Constants
      <4> QED BY <1>3, <3>0, <4>1, LeaseInLoop
    <3>2. UnderWay(inbox', requests', "SUBSCRIBE_EVENTS") =>
              /\ node.age = UpdateInterval
              /\ ~Leads(inbox', requests', "SUBSCRIBE_EVENTS", "SUBSCRIBE_EVENTS")
              /\ ~Leads(inbox', requests', "TIME_PROPERTIES", "SUBSCRIBE_EVENTS")
      BY <1>1, <3>0, LeaseInLoop
    <3>3. Has(inbox', "SUBSCRIBE_EVENTS") =>
              expiration' = Duration \/ (expiration' = Duration - 1 /\ node.step = "subscribe")
      BY <1>1, <1>3, <3>0, LeaseInLoop
    <3>4. ~(node.step = "subscribe" /\ ~node.pmc_ds_requested)
      BY <1>1, <3>0, LeaseInLoop
    <3>5. node.step # "subscribe" /\ ~UnderWay(inbox', requests', "SUBSCRIBE_EVENTS") =>
              /\ expiration' >= Duration - 1 - node.age
              /\ node.age = UpdateInterval => expiration' >= Duration - 1
      BY <1>1, <1>2, <1>3, <3>0, LeaseInLoop
    <3> QED BY <3>1, <3>2, <3>3, <3>4, <3>5
  <2>5. node.step \notin Loop \/ node.step \in {"subscribe", "update"} => node.age = UpdateInterval
    BY DEF Steady, Lease
  <2>6. node' = node
    BY <1>4
  <2> QED BY <2>1, <2>2, <2>3, <2>4, <2>5, <2>6 DEF Lease, Pending, Ahead
<1>8. Single(node)'
  BY <1>1, <1>4 DEF Steady, Single, Pending, Ahead
<1>9. Informed(node)'
  <2>1. q.id # "PORT_DATA_SET"
    BY <1>1, RequestFields
  <2>2. expiration # Null => expiration' # Null
    BY <1>3, Constants, NullApart
  <2> QED BY <1>1, <1>4, <1>5, <2>1, <2>2 DEF Steady, Informed
<1>10. Local(node)'
  BY <1>4 DEF Steady, Local, Knows, Aims, Calm, Last
<1> QED BY <1>6, <1>7, <1>8, <1>9, <1>10 DEF Steady

LEMMA PortChangesSteady ==
  ASSUME TypeOK, Steady(node), NEW c \in Ports, NEW s \in PortStates, PortChanges(c, s),
         UNCHANGED <<rt, node>>
  PROVE  Steady(node)'
<1> DEFINE m == StateOf("PORT_DATA_SET", c, s)
<1>1. m \in Answers /\ m.id = "PORT_DATA_SET" /\ m.port = c /\ m.state = s
  BY NoticeIs
<1>2. inbox' = IF expiration = Null THEN inbox ELSE Append(inbox, m)
  BY Zenon DEF PortChanges, Notified
<1> HIDE DEF m
<1>3. /\ \A a : a # "PORT_DATA_SET" => (Has(inbox', a) <=> Has(inbox, a))
      /\ \A a, b : b # "PORT_DATA_SET" => (Before(inbox', a, b) <=> Before(inbox, a, b))
      /\ \A p : OfPort(inbox', p) <=> OfPort(inbox, p)
  BY <1>1, <1>2, NoticeFlow
<1>4. /\ up /\ up' = up /\ requests' = requests /\ node' = node /\ rt' = rt
      /\ state \in [Ports -> PortStates] /\ state' = [state EXCEPT ![c] = s]
      /\ inbox \in Seq(Answers)
  BY DEF PortChanges, TypeOK, ServerTypeOK
<1>5. expiration' = expiration
  BY LeaseRuns, NullApart, Constants DEF PortChanges, clock_prune_subscriptions
<1>6. /\ \A a : a # "PORT_DATA_SET" =>
             (UnderWay(inbox', requests', a) <=> UnderWay(inbox, requests, a))
      /\ \A a, b : a # "PORT_DATA_SET" /\ b # "PORT_DATA_SET" =>
             (Leads(inbox', requests', a, b) <=> Leads(inbox, requests, a, b))
  BY <1>3, <1>4 DEF UnderWay, Leads
<1>7. Alive(node)'
  <2>1. Topic(node.step) # "PORT_DATA_SET"
    BY DEF Topic
  <2> QED BY <1>4, <1>6, <2>1 DEF Steady, Alive, Pending
<1>8. Lease(node)'
  BY <1>3, <1>4, <1>5, <1>6 DEF Steady, Lease, Pending, Ahead
<1>9. Single(node)'
  BY <1>3, <1>4, <1>6 DEF Steady, Single, Pending, Ahead
<1>10. Informed(node)'
  <2>1. CASE expiration = Null
    <3>1. inbox' = inbox /\ ~Has(inbox, "PORT_DATA_SET")
      BY <1>2, <2>1 DEF Steady, Informed
    <3>2. node.step \in Early
      BY <2>1, LeaseRuns
    <3>3. ~Has(inbox, "PORT_PROPERTIES") /\ \A p \in Ports : node.ports[p] = Null
      BY <3>2 DEF Steady, Single, Pending, UnderWay, Local, Knows, Early
    <3>4. \A p \in Ports : Told(inbox, p, node.ports[p], psysNormalizeState(state'[p]))
      BY <1>4, <3>1, <3>3, ToldNothing DEF Agree
    <3> QED BY <1>4, <3>1, <3>4 DEF Informed
  <2>2. CASE expiration # Null
    <3>1. inbox' = Append(inbox, m) /\ expiration' # Null
      BY <1>2, <1>5, <2>2
    <3>2. ASSUME NEW p \in Ports
          PROVE  Told(inbox', p, node.ports[p], psysNormalizeState(state'[p]))
      <4>1. Told(inbox, p, node.ports[p], psysNormalizeState(state[p]))
        BY DEF Steady, Informed
      <4>2. CASE p = c
        <5>1. About(m, p) /\ state'[p] = m.state
          BY <1>1, <1>4, <4>2 DEF About
        <5>2. Told(Append(inbox, m), p, node.ports[p], psysNormalizeState(m.state))
          BY <1>1, <1>4, <4>1, <5>1, ToldAbout
        <5> QED BY <3>1, <5>1, <5>2
      <4>3. CASE p # c
        <5>1. ~About(m, p) /\ state'[p] = state[p]
          BY <1>1, <1>4, <4>3 DEF About
        <5>2. Told(Append(inbox, m), p, node.ports[p], psysNormalizeState(state[p]))
          BY <1>1, <1>4, <4>1, <5>1, ToldOther
        <5> QED BY <3>1, <5>1, <5>2
      <4> QED BY <4>2, <4>3
    <3> QED BY <1>4, <3>1, <3>2 DEF Informed
  <2> QED BY <2>1, <2>2
<1>11. Local(node)'
  BY <1>4 DEF Steady, Local, Knows, Aims, Calm, Last
<1> QED BY <1>7, <1>8, <1>9, <1>10, <1>11 DEF Steady

LEMMA StartSteady ==
  ASSUME TypeOK, Steady(node), Start, UNCHANGED <<rt, node>>
  PROVE  Steady(node)'
<1>1. /\ ~up /\ up' /\ UNCHANGED <<expiration, requests, inbox, rt, node>>
      /\ inbox = << >> /\ requests = << >> /\ expiration = Null /\ node.step = "identity"
  BY DEF Start, Steady, Alive
<1>2. Alive(node)'
  BY <1>1 DEF Steady, Alive
<1>3. Lease(node)'
  BY <1>1 DEF Steady, Lease, Pending, Ahead
<1>4. Single(node)'
  BY <1>1 DEF Steady, Single, Pending, Ahead
<1>5. Informed(node)'
  <2>1. \A p \in Ports : node.ports[p] = Null
    BY <1>1 DEF Steady, Local, Knows, Early
  <2>2. ~Has(inbox, "PORT_PROPERTIES") /\ ~Has(inbox, "PORT_DATA_SET") /\ inbox \in Seq(Answers)
    BY <1>1, NothingIn DEF TypeOK, ServerTypeOK
  <2>3. \A p \in Ports : Told(inbox, p, node.ports[p], psysNormalizeState(state'[p]))
    BY <2>1, <2>2, ToldNothing DEF Agree
  <2> QED BY <1>1, <2>2, <2>3 DEF Informed
<1>6. Local(node)'
  BY <1>1 DEF Steady, Local, Knows, Aims, Calm, Last
<1> QED BY <1>2, <1>3, <1>4, <1>5, <1>6 DEF Steady

----------------------------------------------------------------------------
(***************************************************************************)
(* The invariant is kept: phc2sys's steps.                                 *)
(***************************************************************************)
LEMMA SendSteady ==
  ASSUME TypeOK, Steady(node), PmcSend
  PROVE  Steady(node)'
<1> DEFINE S == "SUBSCRIBE_EVENTS"
<1>1. /\ node.step \in Asking /\ ~node.pmc_ds_requested /\ inbox = << >>
      /\ SameData(node, node') /\ node'.step = node.step /\ node'.age = node.age
      /\ node'.pmc_ds_requested
      /\ requests' = IF up THEN Append(requests, Asks) ELSE requests
      /\ up' = up /\ state' = state /\ expiration' = expiration /\ inbox' = inbox /\ rt' = rt
      /\ Asks \in Requests
  BY SendIs
<1>2. node \in Nodes
  BY DEF TypeOK
<1>3. Asks.id = Topic(node.step) /\ (Asks.id = "PORT_PROPERTIES" => Asks.port = node.idx)
  <2>1. Asks.id = Topic(node.step)
    BY <1>1, <1>2, AsksIs
  <2>2. Topic(node.step) = "PORT_PROPERTIES" => AsksPort(node)
    BY DEF Topic, AsksPort
  <2> QED BY <1>2, <2>1, <2>2, AsksIs
<1>4. up => /\ \A a : UnderWay(inbox, requests', a)
                        <=> UnderWay(inbox, requests, a) \/ Topic(node.step) = a
            /\ \A a, b : Leads(inbox, requests', a, b)
                           <=> Leads(inbox, requests, a, b)
                               \/ (UnderWay(inbox, requests, a) /\ Topic(node.step) = b)
            /\ \A p : OfPort(requests', p)
                        <=> OfPort(requests, p) /\ (Asks.id = "PORT_PROPERTIES" => Asks.port = p)
  <2> DEFINE q == Asks
  <2>1. q \in Requests /\ q.id = Topic(node.step)
    BY <1>1, <1>3
  <2>2. up => requests' = Append(requests, q)
    BY <1>1
  <2> HIDE DEF q
  <2>3. ASSUME up
        PROVE  /\ \A a : UnderWay(inbox, requests', a)
                           <=> UnderWay(inbox, requests, a) \/ q.id = a
               /\ \A a, b : Leads(inbox, requests', a, b)
                              <=> Leads(inbox, requests, a, b)
                                  \/ (UnderWay(inbox, requests, a) /\ q.id = b)
               /\ \A p : OfPort(requests', p)
                           <=> OfPort(requests, p) /\ (q.id = "PORT_PROPERTIES" => q.port = p)
    BY <2>3, <2>1, <2>2, SendFlow
  <2> QED BY <2>1, <2>3 DEF q
<1>5. Local(node)'
  <2>1. Local(node')
    BY <1>1, <1>2, AgeLocal DEF Steady
  <2> QED BY <1>1, <2>1 DEF Local, Knows, Aims, Calm, Last
<1>6. CASE ~up
  <2>1. /\ node.step = "identity" /\ requests' = requests /\ requests = << >>
        /\ expiration = Null
    BY <1>1, <1>6 DEF Steady, Alive
  <2>2. \A a, b : ~UnderWay(inbox, requests, a) /\ ~Leads(inbox, requests, a, b)
    BY <1>1, <2>1, NothingUnderWay
  <2>3. Alive(node)'
    BY <1>1, <2>1 DEF Steady, Alive
  <2>4. Lease(node)'
    BY <1>1, <2>1, <2>2 DEF Steady, Lease, Pending, Ahead, Loop
  <2>5. Single(node)'
    BY <1>1, <2>1, <2>2 DEF Steady, Single, Pending, Ahead, SameData
  <2>6. Informed(node)'
    BY <1>1 DEF Steady, Informed, SameData
  <2> QED BY <1>5, <2>3, <2>4, <2>5, <2>6 DEF Steady
<1>7. CASE up
  <2>1. Alive(node)'
    BY <1>1, <1>4, <1>7 DEF Steady, Alive, Pending, Asking, Patient, Hasty
  <2>2. Lease(node)'
    <3>1. Lease(node)
      BY DEF Steady
    <3>2. Topic(node.step) = S <=> node.step \in {"subscribed", "subscribe"}
      BY DEF Topic
    <3>3. node.step \in {"identity", "number"} =>
            expiration = Null /\ ~UnderWay(inbox, requests', S)
      BY <1>4, <1>7, <3>1, <3>2 DEF Lease, Pending
    <3>4. node.step = "subscribed" =>
           /\ expiration = IF Has(inbox, S) THEN Duration ELSE Null
           /\ ~Leads(inbox, requests', S, S)
      BY <1>1, <1>4, <1>7, <3>1, <3>2 DEF Lease, Pending, Ahead
    <3>5. node.step \in {"ports", "first_offset"} =>
            expiration = Duration /\ ~UnderWay(inbox, requests', S)
      BY <1>4, <1>7, <3>1, <3>2 DEF Lease, Pending
    <3>6. node.step \in Loop =>
           /\ expiration \in Duration - 1 - UpdateInterval .. Duration
           /\ UnderWay(inbox, requests', S) =>
                /\ node.age = UpdateInterval
                /\ ~Leads(inbox, requests', S, S)
                /\ ~Leads(inbox, requests', "TIME_PROPERTIES", S)
           /\ Has(inbox, S) => expiration = Duration \/ (expiration = Duration - 1 /\ node.step = "subscribe")
           /\ node.step # "subscribe" /\ ~UnderWay(inbox, requests', S) =>
                /\ expiration >= Duration - 1 - node.age
                /\ node.age = UpdateInterval => expiration >= Duration - 1
      <4> SUFFICES ASSUME node.step \in Loop
          PROVE
           /\ expiration \in Duration - 1 - UpdateInterval .. Duration
           /\ UnderWay(inbox, requests', S) =>
                /\ node.age = UpdateInterval
                /\ ~Leads(inbox, requests', S, S)
                /\ ~Leads(inbox, requests', "TIME_PROPERTIES", S)
           /\ Has(inbox, S) => expiration = Duration \/ (expiration = Duration - 1 /\ node.step = "subscribe")
           /\ node.step # "subscribe" /\ ~UnderWay(inbox, requests', S) =>
                /\ expiration >= Duration - 1 - node.age
                /\ node.age = UpdateInterval => expiration >= Duration - 1
        OBVIOUS
      <4>1. CASE node.step = "subscribe"
        <5>1. requests = << >> /\ node.age = UpdateInterval
          BY <1>1, <3>1, <4>1, LeaseInLoop
        <5>2. \A a, b : ~UnderWay(inbox, requests, a) /\ ~Leads(inbox, requests, a, b)
          BY <1>1, <5>1, NothingUnderWay
        <5>3. ~Leads(inbox, requests', S, S) /\ ~Leads(inbox, requests', "TIME_PROPERTIES", S)
          BY <1>4, <1>7, <5>2
        <5> QED BY <3>1, <4>1, <5>1, <5>3, LeaseInLoop
      <4>2. CASE node.step # "subscribe"
        <5>1. Topic(node.step) # S
          BY <3>2, <4>2 DEF Loop
        <5>2. /\ UnderWay(inbox, requests', S) <=> UnderWay(inbox, requests, S)
              /\ \A a : Leads(inbox, requests', a, S) <=> Leads(inbox, requests, a, S)
          BY <1>4, <1>7, <5>1
        <5> QED BY <3>1, <5>2, LeaseInLoop
      <4> QED BY <4>1, <4>2
    <3>7. node.step \notin Loop \/ node.step \in {"subscribe", "update"} => node.age = UpdateInterval
      BY <3>1 DEF Lease
    <3> QED BY <1>1, <3>3, <3>4, <3>5, <3>6, <3>7 DEF Lease, Pending, Ahead
  <2>3. Single(node)'
    <3>1. Topic(node.step) = "PORT_PROPERTIES" <=> node.step \in {"ports", "reinit"}
      BY DEF Topic
    <3>2. UnderWay(inbox, requests', "PORT_PROPERTIES") => node.step \in {"ports", "reinit"}
      BY <1>1, <1>4, <1>7, <3>1 DEF Steady, Single, Pending
    <3>3. ~Leads(inbox, requests', "PORT_PROPERTIES", "PORT_PROPERTIES")
      BY <1>1, <1>4, <1>7 DEF Steady, Single, Pending, Ahead
    <3>4. OfPort(requests', node.idx) /\ OfPort(inbox, node.idx)
      BY <1>3, <1>4, <1>7 DEF Steady, Single
    <3> QED BY <1>1, <3>2, <3>3, <3>4 DEF Single, Pending, Ahead, SameData
  <2>4. Informed(node)'
    BY <1>1 DEF Steady, Informed, SameData
  <2> QED BY <1>5, <2>1, <2>2, <2>3, <2>4 DEF Steady
<1> QED BY <1>6, <1>7

LEMMA SyncSteady ==
  ASSUME TypeOK, Steady(node), Sync
  PROVE  Steady(node)'
<1>1. /\ node.step = "sync" /\ SameData(node, node') /\ node'.step = "sleep"
      /\ node'.age = node.age /\ node'.pmc_ds_requested = node.pmc_ds_requested
      /\ UNCHANGED <<up, state, expiration, requests, inbox, rt>>
  BY SyncIs DEF serverVars
<1>2. Alive(node)'
  BY <1>1 DEF Steady, Alive, Patient
<1>3. Lease(node)'
  <2>1. node.step \in Loop /\ Lease(node)
    BY <1>1 DEF Steady, Loop
  <2>2. /\ expiration \in Duration - 1 - UpdateInterval .. Duration
        /\ UnderWay(inbox, requests, "SUBSCRIBE_EVENTS") =>
              /\ node.age = UpdateInterval
              /\ ~Leads(inbox, requests, "SUBSCRIBE_EVENTS", "SUBSCRIBE_EVENTS")
              /\ ~Leads(inbox, requests, "TIME_PROPERTIES", "SUBSCRIBE_EVENTS")
        /\ Has(inbox, "SUBSCRIBE_EVENTS") => expiration = Duration
        /\ ~UnderWay(inbox, requests, "SUBSCRIBE_EVENTS") =>
              /\ expiration >= Duration - 1 - node.age
              /\ node.age = UpdateInterval => expiration >= Duration - 1
    BY <1>1, <2>1, LeaseInLoop
  <2>3. node'.step = "sleep" /\ node'.step \in Loop
    BY <1>1 DEF Loop
  <2> QED BY <1>1, <2>2, <2>3 DEF Lease, Pending, Ahead
<1>4. Single(node)'
  BY <1>1 DEF Steady, Single, Pending, Ahead, SameData
<1>5. Informed(node)'
  BY <1>1 DEF Steady, Informed, SameData
<1>6. Local(node)'
  BY <1>1 DEF Steady, Local, Knows, Aims, Calm, Last, SameData, Early, Loop
<1> QED BY <1>2, <1>3, <1>4, <1>5, <1>6 DEF Steady

LEMMA WakeSteady ==
  ASSUME TypeOK, Steady(node), Wake
  PROVE  Steady(node)'
<1> DEFINE S == "SUBSCRIBE_EVENTS"
<1>1. /\ node.step = "sleep" /\ rt' = rt /\ SameData(node, node')
      /\ node'.pmc_ds_requested = node.pmc_ds_requested
      /\ node'.age = IF node.age < UpdateInterval THEN node.age + 1 ELSE node.age
      /\ node'.step = IF node'.age < UpdateInterval THEN "events" ELSE "subscribe"
      /\ requests = << >> /\ UNCHANGED <<up, state, requests, inbox>>
      /\ expiration' = IF expiration \in 1 .. Duration THEN expiration - 1 ELSE expiration
  BY WakeIs DEF TimePasses
<1>2. expiration \in 1 .. Duration /\ expiration' = expiration - 1
  BY <1>1, LeaseRuns DEF Early
<1>3. node.age \in 0 .. UpdateInterval /\ node.pmc_ds_requested \in BOOLEAN
  BY DEF TypeOK, Nodes
<1>4. node'.age \in 0 .. UpdateInterval /\ node'.step \in {"events", "subscribe"}
  BY <1>1, <1>3, Constants
<1>5. Alive(node)'
  BY <1>1, <1>4 DEF Steady, Alive, Patient
<1>6. Lease(node)'
  <2>1. node.step \in Loop /\ node'.step \in Loop /\ Lease(node)
    BY <1>1, <1>4 DEF Steady, Loop
  <2>2. node'.step = "subscribe" <=> node'.age = UpdateInterval
    BY <1>1, <1>4, Constants
  <2>3. CASE UnderWay(inbox, requests, S)
    <3>1. Has(inbox, S)
      BY <1>1, <2>3, NothingIn DEF UnderWay
    <3>2. expiration = Duration /\ node.age = UpdateInterval
      BY <1>1, <2>1, <2>3, <3>1, LeaseInLoop
    <3>3. /\ expiration' = Duration - 1 /\ node'.age = UpdateInterval /\ node'.step = "subscribe"
          /\ expiration' \in Duration - 1 - UpdateInterval .. Duration
      BY <1>1, <1>2, <2>2, <3>2, Constants
    <3> QED BY <1>1, <2>1, <2>3, <3>3, LeaseInLoop DEF Lease, Pending, Ahead
  <2>4. CASE ~UnderWay(inbox, requests, S)
    <3>1. /\ expiration >= Duration - 1 - node.age
          /\ node.age = UpdateInterval => expiration >= Duration - 1
      BY <1>1, <2>1, <2>4, LeaseInLoop
    <3>2. /\ expiration' \in Duration - 1 - UpdateInterval .. Duration
          /\ node'.age # UpdateInterval => expiration' >= Duration - 1 - node'.age
      BY <1>1, <1>2, <1>3, <3>1, Constants
    <3>3. ~Has(inbox, S)
      BY <2>4 DEF UnderWay
    <3> QED BY <1>1, <2>1, <2>2, <2>4, <3>2, <3>3 DEF Lease, Pending, Ahead, Loop
  <2> QED BY <2>3, <2>4
<1>7. Single(node)'
  BY <1>1 DEF Steady, Single, Pending, Ahead, SameData
<1>8. Informed(node)'
  <2>1. expiration' # Null
    BY <1>2, NullApart
  <2> QED BY <1>1, <2>1 DEF Steady, Informed, SameData
<1>9. Local(node)'
  BY <1>1, <1>4 DEF Steady, Local, Knows, Aims, Calm, Last, SameData, Early, Loop
<1> QED BY <1>5, <1>6, <1>7, <1>8, <1>9 DEF Steady

(* Nothing to read: in a hurry the next thing is done; it is waited for    *)
(* nothing but a ptp4l that does not run yet.                              *)
LEMMA TimeoutSteady ==
  ASSUME TypeOK, Steady(node), PmcTimeout
  PROVE  Steady(node)'
<1> DEFINE S == "SUBSCRIBE_EVENTS"
<1>1. inbox = << >> /\ (node.pmc_ds_requested \/ Asks = Null) /\ rt' = rt /\ node \in Nodes
  BY TimeoutIs DEF TypeOK
<1>2. CASE node.step \in Hasty /\ node' = GivesUp(node) /\ UNCHANGED serverVars
  <2>1. /\ node' \in Nodes /\ ~node'.pmc_ds_requested /\ node'.age = node.age
        /\ SameData(node, node') /\ Local(node')
        /\ node.step = "subscribe" => node'.step = "update"
        /\ node.step = "update" => node'.step = "events"
        /\ node.step = "events" => node'.step \in {"offset", "sync"}
    BY <1>1, <1>2, GivesUpIs DEF Steady
  <2>2. /\ UNCHANGED <<up, state, expiration, requests, inbox>>
        /\ node.step \in Loop /\ node'.step \in {"update", "events", "offset", "sync"}
    BY <1>2, <2>1 DEF serverVars, Hasty, Loop
  <2>3. Alive(node)'
    BY <2>1, <2>2 DEF Steady, Alive, Loop
  <2>4. Lease(node)'
    <3>1. Lease(node)
      BY DEF Steady
    <3>2. node.step = "subscribe" => UnderWay(inbox, requests, S)
      <4>1. node.step = "subscribe" => node.pmc_ds_requested
        BY <1>1, AsksIs DEF Asking, Hasty, Patient
      <4> QED BY <4>1 DEF Steady, Alive, Pending, Topic
    <3>3. ~Has(inbox, S)
      BY <1>1, NothingIn
    <3>4. /\ expiration \in Duration - 1 - UpdateInterval .. Duration
          /\ UnderWay(inbox, requests, S) =>
                /\ node.age = UpdateInterval
                /\ ~Leads(inbox, requests, S, S)
                /\ ~Leads(inbox, requests, "TIME_PROPERTIES", S)
          /\ ~UnderWay(inbox, requests, S) =>
                /\ expiration >= Duration - 1 - node.age
                /\ node.age = UpdateInterval => expiration >= Duration - 1
          /\ node.step = "subscribe" => node.age = UpdateInterval
      BY <2>2, <3>1, <3>2, LeaseInLoop
    <3>5. /\ node'.step \in Loop /\ node'.step # "subscribe"
          /\ node'.step = "update" => node.step = "subscribe"
      BY <1>2, <2>1, <2>2 DEF Loop, Hasty
    <3> QED BY <2>1, <2>2, <3>3, <3>4, <3>5 DEF Lease, Pending, Ahead
  <2>5. Single(node)'
    <3>1. ~UnderWay(inbox, requests, "PORT_PROPERTIES")
      BY <1>2 DEF Steady, Single, Pending, Hasty
    <3> QED BY <2>1, <2>2, <3>1 DEF Steady, Single, Pending, Ahead, SameData
  <2>6. Informed(node)'
    BY <2>1, <2>2 DEF Steady, Informed, SameData
  <2>7. Local(node)'
    BY <1>1, <2>1 DEF Local, Knows, Aims, Calm, Last
  <2> QED BY <2>3, <2>4, <2>5, <2>6, <2>7 DEF Steady
<1>3. CASE node.step \in Patient /\ node' = GivesUp(Aged(node)) /\ TimePasses
  <2> DEFINE n == Aged(node)
  <2>1. requests = << >> /\ UNCHANGED <<up, state, requests, inbox>>
    BY <1>3 DEF TimePasses
  <2>2. \A a, b : ~UnderWay(inbox, requests, a) /\ ~Leads(inbox, requests, a, b)
    BY <1>1, <2>1, NothingUnderWay
  <2>3. node.step = "identity"
    <3>1. node.pmc_ds_requested
      BY <1>1, <1>3, AsksIs DEF Asking, Patient
    <3> QED BY <1>3, <2>2, <3>1 DEF Steady, Alive, Pending
  <2>4. expiration = Null /\ expiration' = Null /\ node.age = UpdateInterval
    <3>1. expiration = Null /\ node.age = UpdateInterval
      BY <2>3 DEF Steady, Lease, Loop
    <3> QED BY <1>3, <3>1, NullApart DEF TimePasses
  <2>5. /\ n \in Nodes /\ SameData(node, n) /\ n.step = node.step /\ n.age = UpdateInterval
    BY <1>1, <2>4, AgeIs, Constants
  <2>6. Local(n)
    BY <1>1, <2>5, AgeLocal DEF Steady
  <2> HIDE DEF n
  <2>7. /\ node' \in Nodes /\ ~node'.pmc_ds_requested /\ node'.age = UpdateInterval
        /\ SameData(n, node') /\ Local(node') /\ node'.step = "identity"
    BY <1>3, <2>3, <2>5, <2>6, GivesUpIs DEF n
  <2>8. Alive(node)'
    BY <2>1, <2>3, <2>4, <2>7 DEF Steady, Alive
  <2>9. Lease(node)'
    BY <1>1, <2>1, <2>2, <2>4, <2>7 DEF Lease, Pending, Ahead, Loop
  <2>10. Single(node)'
    BY <2>1, <2>2, <2>5, <2>7 DEF Steady, Single, Pending, Ahead, SameData
  <2>11. Informed(node)'
    <3>1. ~Has(inbox, "PORT_DATA_SET")
      BY <1>1, NothingIn
    <3> QED BY <2>1, <2>5, <2>7, <3>1 DEF Steady, Informed, SameData
  <2>12. Local(node)'
    BY <1>1, <2>7 DEF Local, Knows, Aims, Calm, Last
  <2> QED BY <2>8, <2>9, <2>10, <2>11, <2>12 DEF Steady
<1> QED BY <1>2, <1>3, TimeoutIs

LEMMA NoticeSteady ==
  ASSUME TypeOK, Steady(node), PmcReceive, ~IsAnswer(Head(inbox))
  PROVE  Steady(node)'
<1> DEFINE S == "SUBSCRIBE_EVENTS"
           m == Head(inbox)
<1>1. /\ m \in Answers /\ inbox # << >> /\ inbox \in Seq(Answers) /\ node \in Nodes
      /\ node' = Noticed(node, m) /\ node.step \in Patient \cup Hasty
      /\ node.step \in Asking => m.id # Topic(node.step)
  BY ReceiveIs, AsksIs DEF PmcReceive, Receive, TypeOK, ServerTypeOK
<1>2. /\ UNCHANGED <<up, state, expiration, requests, rt>> /\ up /\ inbox' = Tail(inbox)
  BY <1>1 DEF PmcReceive, Receive, Steady, Alive
<1>3. /\ \A a : UnderWay(inbox, requests, a) <=> UnderWay(inbox', requests', a) \/ m.id = a
      /\ \A a, b : Leads(inbox, requests, a, b)
                     <=> Leads(inbox', requests', a, b)
                         \/ (m.id = a /\ UnderWay(inbox', requests', b))
      /\ \A a : Has(inbox, a) <=> Has(inbox', a) \/ m.id = a
      /\ \A p : OfPort(inbox, p) => OfPort(inbox', p)
  BY ReceiveFlow DEF PmcReceive
<1>4. m.id \in {"DEFAULT_DATA_SET", "TIME_PROPERTIES", "SUBSCRIBE_EVENTS",
                "PORT_PROPERTIES", "PORT_DATA_SET"}
  BY <1>1, AnswerFields
<1>5. m.id # "PORT_PROPERTIES"
  <2>1. m.id = "PORT_PROPERTIES" => node.step \in {"ports", "reinit"}
    BY <1>3 DEF Steady, Single, Pending
  <2> QED BY <1>1, <2>1 DEF Asking, Patient, Hasty, Topic
<1> HIDE DEF m
<1>6. /\ node' \in Nodes /\ SameStep(node, node') /\ Local(node')
      /\ \A q \in Ports : node'.ports[q] =
           IF m.id = "PORT_DATA_SET" /\ m.port = q /\ node.ports[q] # Null
           THEN psysNormalizeState(m.state) ELSE node.ports[q]
  BY <1>1, NoticedIs DEF Steady
<1>7. Alive(node)'
  <2>1. node.step \in Patient \cup {"subscribe"} /\ node.step # "identity" /\ node.pmc_ds_requested
          => UnderWay(inbox', requests', Topic(node.step))
    BY <1>1, <1>3 DEF Steady, Alive, Pending, Asking, Patient, Hasty
  <2> QED BY <1>2, <1>6, <2>1 DEF Steady, Alive, Pending, SameStep
<1>8. Lease(node)'
  <2>1. Lease(node)
    BY DEF Steady
  <2>2. m.id = S => node.step \notin {"subscribed", "subscribe"}
    BY <1>1 DEF Asking, Patient, Hasty, Topic
  <2>3. node.step \in {"identity", "number"} =>
          expiration = Null /\ ~UnderWay(inbox', requests', S)
    BY <1>3, <2>1 DEF Lease, Pending
  <2>4. node.step = "subscribed" =>
         /\ expiration = IF Has(inbox', S) THEN Duration ELSE Null
         /\ UnderWay(inbox', requests', S) => node.pmc_ds_requested
         /\ ~Leads(inbox', requests', S, S)
    BY <1>3, <2>1, <2>2 DEF Lease, Pending, Ahead
  <2>5. node.step \in {"ports", "first_offset"} =>
          expiration = Duration /\ ~UnderWay(inbox', requests', S)
    BY <1>3, <2>1 DEF Lease, Pending
  <2>6. ASSUME node.step \in Loop
        PROVE  /\ expiration \in Duration - 1 - UpdateInterval .. Duration
               /\ UnderWay(inbox', requests', S) =>
                    /\ node.age = UpdateInterval
                    /\ ~Leads(inbox', requests', S, S)
                    /\ ~Leads(inbox', requests', "TIME_PROPERTIES", S)
               /\ Has(inbox', S) =>
                    expiration = Duration \/ (expiration = Duration - 1 /\ node.step = "subscribe")
               /\ node.step = "subscribe" /\ ~node.pmc_ds_requested => requests = << >>
               /\ node.step # "subscribe" /\ ~UnderWay(inbox', requests', S) =>
                    /\ expiration >= Duration - 1 - node.age
                    /\ node.age = UpdateInterval => expiration >= Duration - 1
    <3>1. CASE m.id # S
      <4>1. UnderWay(inbox', requests', S) <=> UnderWay(inbox, requests, S)
        BY <1>3, <3>1
      <4>2. \A a : Leads(inbox', requests', a, S) => Leads(inbox, requests, a, S)
        BY <1>3
      <4>3. Has(inbox', S) <=> Has(inbox, S)
        BY <1>3, <3>1
      <4> QED BY <2>1, <2>6, <4>1, <4>2, <4>3, LeaseInLoop
    <3>2. CASE m.id = S
      <4>1. Has(inbox, S) /\ UnderWay(inbox, requests, S)
        BY <1>3, <3>2
      <4>2. node.step # "subscribe" /\ ~Leads(inbox, requests, S, S)
        BY <2>1, <2>2, <2>6, <3>2, <4>1, LeaseInLoop
      <4>3. ~UnderWay(inbox', requests', S)
        BY <1>3, <3>2, <4>2
      <4>4. ~Has(inbox', S)
        BY <4>3 DEF UnderWay
      <4>5. expiration = Duration /\ expiration \in Duration - 1 - UpdateInterval .. Duration
        BY <2>1, <2>6, <4>1, <4>2, LeaseInLoop
      <4>6. node.age \in Nat
        BY <1>1 DEF Nodes
      <4>7. expiration >= Duration - 1 - node.age /\ expiration >= Duration - 1
        BY <4>5, <4>6, Constants
      <4> QED BY <4>2, <4>3, <4>4, <4>5, <4>7
    <3> QED BY <3>1, <3>2
  <2>7. node.step \notin Loop \/ node.step \in {"subscribe", "update"} => node.age = UpdateInterval
    BY <2>1 DEF Lease
  <2> QED BY <1>2, <1>6, <2>3, <2>4, <2>5, <2>6, <2>7 DEF Lease, Pending, Ahead, SameStep
<1>9. Single(node)'
  BY <1>2, <1>3, <1>6 DEF Steady, Single, Pending, Ahead, SameStep
<1>10. Informed(node)'
  <2>1. ASSUME NEW p \in Ports
        PROVE  Told(inbox', p, node'.ports[p], psysNormalizeState(state[p]))
    <3>1. Told(inbox, p, node.ports[p], psysNormalizeState(state[p]))
      BY DEF Steady, Informed
    <3>2. IF About(m, p) THEN node'.ports[p] \in {Null, psysNormalizeState(m.state)}
          ELSE node'.ports[p] = node.ports[p]
      BY <1>5, <1>6 DEF About
    <3> QED BY <1>1, <1>2, <3>1, <3>2, ToldTail DEF m
  <2> QED BY <1>2, <1>3, <2>1 DEF Steady, Informed
<1>11. Local(node)'
  BY <1>2, <1>6 DEF Local, Knows, Aims, Calm, Last
<1> QED BY <1>7, <1>8, <1>9, <1>10, <1>11 DEF Steady

LEMMA AnswerSteady ==
  ASSUME TypeOK, Steady(node), PmcReceive, IsAnswer(Head(inbox))
  PROVE  Steady(node)'
<1> DEFINE S == "SUBSCRIBE_EVENTS"
           m == Head(inbox)
           n == [node EXCEPT !.pmc_ds_requested = FALSE]
<1>1. /\ m \in Answers /\ inbox # << >> /\ inbox \in Seq(Answers) /\ node \in Nodes
      /\ n \in Nodes /\ SameData(node, n) /\ n.step = node.step /\ n.age = node.age
      /\ ~n.pmc_ds_requested /\ Answered(n, m, node')
      /\ node.step \in Asking /\ m.id = Topic(node.step)
  <2>1. node \in Nodes /\ inbox # << >> /\ inbox \in Seq(Answers)
    BY DEF PmcReceive, Receive, TypeOK, ServerTypeOK
  <2>2. /\ m \in Answers
        /\ n \in Nodes /\ SameData(node, n) /\ n.step = node.step /\ n.age = node.age
        /\ ~n.pmc_ds_requested /\ Answered(n, m, node')
        /\ node.step \in Asking /\ m.id = Asks.id
    BY ReceiveIs
  <2>3. Asks.id = Topic(node.step)
    BY <2>1, <2>2, AsksIs
  <2> QED BY <2>1, <2>2, <2>3
<1>2. /\ UNCHANGED <<up, state, expiration, requests, rt>> /\ up /\ inbox' = Tail(inbox)
  BY <1>1 DEF PmcReceive, Receive, Steady, Alive
<1>3. /\ \A a : UnderWay(inbox, requests, a) <=> UnderWay(inbox', requests', a) \/ m.id = a
      /\ \A a, b : Leads(inbox, requests, a, b)
                     <=> Leads(inbox', requests', a, b)
                         \/ (m.id = a /\ UnderWay(inbox', requests', b))
      /\ \A a : Has(inbox, a) <=> Has(inbox', a) \/ m.id = a
      /\ \A p : OfPort(inbox, p) =>
                  OfPort(inbox', p) /\ (m.id = "PORT_PROPERTIES" => m.port = p)
  BY ReceiveFlow DEF PmcReceive
<1>4. m.id = "PORT_PROPERTIES" <=> AsksPort(node)
  BY <1>1 DEF Topic, AsksPort
<1>5. AsksPort(n) <=> AsksPort(node)
  BY <1>1 DEF AsksPort
<1>6. AsksPort(node) => m.port = node.idx
  BY <1>3, <1>4 DEF Steady, Single
<1>7. node.step = "reinit" => psysNormalizeState(m.state) = node.ports[node.idx]
  <2> SUFFICES ASSUME node.step = "reinit" PROVE psysNormalizeState(m.state) = node.ports[node.idx]
    OBVIOUS
  <2>1. node.idx \in Ports
    BY <1>1 DEF Nodes
  <2>2. Told(inbox, node.idx, node.ports[node.idx], psysNormalizeState(state[node.idx]))
    BY <2>1 DEF Steady, Informed
  <2>3. m.id = "PORT_PROPERTIES" /\ m.port = node.idx
    BY <1>4, <1>6 DEF AsksPort
  <2>4. Agree(node.ports[node.idx], psysNormalizeState(m.state))
    BY <1>1, <2>2, <2>3, ToldAgain
  <2>5. node.ports[node.idx] # Null
    BY <2>1 DEF Steady, Local, Knows, Early
  <2> QED BY <2>4, <2>5 DEF Agree
<1>8. Local(n)
  BY <1>1, AgeLocal DEF Steady
<1> HIDE DEF m, n
<1>9. /\ node' \in Nodes /\ ~node'.pmc_ds_requested /\ node'.step \in After(node.step)
      /\ node'.age = IF node.step = "update" THEN 0 ELSE node.age
      /\ \A q \in Ports : node'.ports[q] =
           IF AsksPort(node) /\ q = m.port /\ q = node.idx THEN psysNormalizeState(m.state)
           ELSE node.ports[q]
      /\ Local(node')
  BY <1>1, <1>5, <1>6, <1>7, <1>8 DEF Answered, SameData
<1>10. /\ node.step = "identity" => node'.step = "number"
       /\ node.step = "number" => node'.step = "subscribed"
       /\ node.step = "subscribed" => node'.step = "ports"
       /\ node.step = "ports" => node'.step \in {"ports", "first_offset"}
       /\ node.step = "first_offset" => node'.step = "sleep"
       /\ node.step = "subscribe" => node'.step = "update"
       /\ node.step = "update" => node'.step = "events"
       /\ node.step = "offset" => node'.step \in {"sync", "reinit"}
       /\ node.step = "reinit" => node'.step \in {"sync", "reinit"}
  BY <1>9 DEF After
<1>11. node.step \in {"identity", "number", "subscribed", "ports", "first_offset", "subscribe",
                      "update", "offset", "reinit"}
  BY <1>1 DEF Asking, Patient, Hasty
<1>12. Alive(node)'
  <2>1. node'.step # "exit"
    BY <1>10, <1>11
  <2> QED BY <1>2, <1>9, <2>1 DEF Alive
<1>13. Lease(node)'
  <2>1. Lease(node)
    BY DEF Steady
  <2>2. node.step \notin Loop \/ node.step \in {"subscribe", "update"} => node.age = UpdateInterval
    BY <2>1 DEF Lease
  <2>3. CASE node.step = "identity"
    <3>1. node'.step = "number" /\ node'.age = UpdateInterval
      BY <1>9, <1>10, <2>2, <2>3 DEF Loop
    <3>2. expiration = Null /\ ~UnderWay(inbox', requests', S)
      BY <1>3, <2>1, <2>3 DEF Lease, Pending
    <3> QED BY <1>2, <3>1, <3>2 DEF Lease, Pending, Ahead, Loop
  <2>4. CASE node.step = "number"
    <3>1. node'.step = "subscribed" /\ node'.age = UpdateInterval
      BY <1>9, <1>10, <2>2, <2>4 DEF Loop
    <3>2. expiration = Null /\ ~UnderWay(inbox', requests', S)
      BY <1>3, <2>1, <2>4 DEF Lease, Pending
    <3>3. ~Has(inbox', S) /\ ~Leads(inbox', requests', S, S)
      BY <3>2, BeforeHas DEF UnderWay, Leads
    <3> QED BY <1>2, <3>1, <3>2, <3>3 DEF Lease, Pending, Ahead, Loop
  <2>5. CASE node.step = "subscribed"
    <3>1. node'.step = "ports" /\ node'.age = UpdateInterval
      BY <1>9, <1>10, <2>2, <2>5 DEF Loop
    <3>2. m.id = S
      BY <1>1, <2>5 DEF Topic
    <3>3. expiration = Duration /\ ~UnderWay(inbox', requests', S)
      BY <1>3, <2>1, <2>5, <3>2 DEF Lease, Ahead
    <3> QED BY <1>2, <3>1, <3>3 DEF Lease, Pending, Ahead, Loop
  <2>6. CASE node.step \in {"ports", "first_offset"}
    <3>1. /\ node'.step \in {"ports", "first_offset", "sleep"} /\ node'.age = UpdateInterval
      BY <1>9, <1>10, <2>2, <2>6 DEF Loop
    <3>2. expiration = Duration /\ ~UnderWay(inbox', requests', S)
      BY <1>3, <2>1, <2>6 DEF Lease, Pending
    <3>3. ~Has(inbox', S)
      BY <3>2 DEF UnderWay
    <3>4. /\ expiration \in Duration - 1 - UpdateInterval .. Duration
          /\ expiration >= Duration - 1 - UpdateInterval /\ expiration >= Duration - 1
      BY <3>2, Constants
    <3> QED BY <1>2, <3>1, <3>2, <3>3, <3>4 DEF Lease, Pending, Ahead, Loop
  <2>7. CASE node.step = "subscribe"
    <3>1. node'.step = "update" /\ node'.age = UpdateInterval
      BY <1>9, <1>10, <2>2, <2>7
    <3>2. m.id = S
      BY <1>1, <2>7 DEF Topic
    <3>3. Has(inbox, S) /\ UnderWay(inbox, requests, S) /\ node.step \in Loop
      BY <1>3, <2>7, <3>2 DEF Loop
    <3>4. ~UnderWay(inbox', requests', S)
      BY <1>3, <2>1, <3>2, <3>3, LeaseInLoop
    <3>5. expiration = Duration \/ expiration = Duration - 1
      BY <2>1, <3>3, LeaseInLoop
    <3>6. /\ expiration \in Duration - 1 - UpdateInterval .. Duration
          /\ expiration >= Duration - 1 - UpdateInterval /\ expiration >= Duration - 1
      BY <3>5, Constants
    <3>7. ~Has(inbox', S)
      BY <3>4 DEF UnderWay
    <3> QED BY <1>2, <3>1, <3>4, <3>6, <3>7 DEF Lease, Pending, Ahead, Loop
  <2>8. CASE node.step = "update"
    <3>1. node'.step = "events" /\ node'.age = 0
      BY <1>9, <1>10, <2>8
    <3>2. m.id = "TIME_PROPERTIES" /\ node.step \in Loop /\ node.age = UpdateInterval
      BY <1>1, <2>2, <2>8 DEF Topic, Loop
    <3>3. ~UnderWay(inbox', requests', S)
      BY <1>3, <2>1, <3>2, LeaseInLoop
    <3>4. ~UnderWay(inbox, requests, S)
      BY <1>3, <3>2, <3>3
    <3>5. expiration >= Duration - 1 /\ expiration \in Duration - 1 - UpdateInterval .. Duration
      BY <2>1, <2>8, <3>2, <3>4, LeaseInLoop
    <3>6. expiration >= Duration - 1 - 0 /\ 0 # UpdateInterval
      BY <3>5, Constants
    <3>7. ~Has(inbox', S)
      BY <3>3 DEF UnderWay
    <3> QED BY <1>2, <3>1, <3>3, <3>5, <3>6, <3>7 DEF Lease, Pending, Ahead, Loop
  <2>9. CASE node.step \in {"offset", "reinit"}
    <3>1. node'.step \in {"sync", "reinit"} /\ node'.age = node.age
      BY <1>9, <1>10, <2>9
    <3>2. m.id # S /\ node.step \in Loop /\ node.step # "subscribe"
      BY <1>1, <2>9 DEF Topic, Loop
    <3>3. UnderWay(inbox', requests', S) <=> UnderWay(inbox, requests, S)
      BY <1>3, <3>2
    <3>4. Has(inbox', S) <=> Has(inbox, S)
      BY <1>3, <3>2
    <3>5. \A a : Leads(inbox', requests', a, S) => Leads(inbox, requests, a, S)
      BY <1>3
    <3>6. /\ expiration \in Duration - 1 - UpdateInterval .. Duration
          /\ UnderWay(inbox', requests', S) =>
               /\ node.age = UpdateInterval
               /\ ~Leads(inbox', requests', S, S)
               /\ ~Leads(inbox', requests', "TIME_PROPERTIES", S)
          /\ Has(inbox', S) => expiration = Duration
          /\ ~UnderWay(inbox', requests', S) =>
               /\ expiration >= Duration - 1 - node.age
               /\ node.age = UpdateInterval => expiration >= Duration - 1
      BY <2>1, <3>2, <3>3, <3>4, <3>5, LeaseInLoop
    <3> QED BY <1>2, <3>1, <3>6 DEF Lease, Pending, Ahead, Loop
  <2> QED BY <1>11, <2>3, <2>4, <2>5, <2>6, <2>7, <2>8, <2>9
<1>14. Single(node)'
  <2>1. ~UnderWay(inbox', requests', "PORT_PROPERTIES")
    <3>1. CASE AsksPort(node)
      BY <1>3, <1>4, <3>1 DEF Steady, Single, Ahead
    <3>2. CASE ~AsksPort(node)
      BY <1>3, <3>2 DEF Steady, Single, Pending, AsksPort
    <3> QED BY <3>1, <3>2
  <2>2. ~Has(inbox', "PORT_PROPERTIES") /\ ~Has(requests', "PORT_PROPERTIES")
    BY <2>1 DEF UnderWay
  <2>3. OfPort(inbox', node'.idx) /\ OfPort(requests', node'.idx)
    BY <2>2, OfPortNone
  <2>4. ~Leads(inbox', requests', "PORT_PROPERTIES", "PORT_PROPERTIES")
    BY <2>2, BeforeHas DEF Leads
  <2> QED BY <2>1, <2>3, <2>4 DEF Single, Pending, Ahead
<1>15. Informed(node)'
  <2>1. ASSUME NEW p \in Ports
        PROVE  Told(inbox', p, node'.ports[p], psysNormalizeState(state[p]))
    <3>1. Told(inbox, p, node.ports[p], psysNormalizeState(state[p]))
      BY DEF Steady, Informed
    <3>2. m.id # "PORT_DATA_SET"
      BY <1>1 DEF Topic
    <3>3. About(m, p) <=> AsksPort(node) /\ p = m.port
      BY <1>4, <3>2 DEF About
    <3>4. IF About(m, p) THEN node'.ports[p] \in {Null, psysNormalizeState(m.state)}
          ELSE node'.ports[p] = node.ports[p]
      BY <1>6, <1>9, <3>3
    <3> QED BY <1>1, <1>2, <3>1, <3>4, ToldTail DEF m
  <2> QED BY <1>2, <1>3, <2>1 DEF Steady, Informed
<1>16. Local(node)'
  BY <1>2, <1>9 DEF Local, Knows, Aims, Calm, Last
<1> QED BY <1>12, <1>13, <1>14, <1>15, <1>16 DEF Steady

----------------------------------------------------------------------------
LEMMA InitSteady ==
  ASSUME Init
  PROVE  Steady(node)
<1>1. TypeOK
  BY InitType
<1>2. /\ expiration = Null /\ requests = << >> /\ inbox = << >>
      /\ node.step = "identity" /\ node.idx = 1 /\ ~node.pmc_ds_requested
      /\ node.age = UpdateInterval /\ node.master = Null
      /\ \A p \in Ports : node.ports[p] = Null
  BY DEF Init, ServerInit
<1>3. \A a, b : ~UnderWay(inbox, requests, a) /\ ~Leads(inbox, requests, a, b)
  BY <1>2, NothingUnderWay
<1>4. Alive(node)
  BY <1>2 DEF Alive
<1>5. Lease(node)
  BY <1>2, <1>3 DEF Lease, Pending, Ahead, Loop
<1>6. ~Has(inbox, "PORT_PROPERTIES") /\ ~Has(requests, "PORT_PROPERTIES")
      /\ ~Has(inbox, "PORT_DATA_SET")
  BY <1>2, NothingIn
<1>7. Single(node)
  BY <1>3, <1>6, OfPortNone DEF Single, Pending, Ahead
<1>8. Informed(node)
  <2>1. inbox \in Seq(Answers)
    BY <1>1 DEF TypeOK, ServerTypeOK
  <2>2. \A p \in Ports : Told(inbox, p, node.ports[p], psysNormalizeState(state[p]))
    BY <1>2, <1>6, <2>1, ToldNothing DEF Agree
  <2> QED BY <1>6, <2>2 DEF Informed
<1>9. Local(node)
  <2>1. RT # Null
    BY RtApart
  <2> QED BY <1>2, <2>1 DEF Local, Knows, Aims, Calm, Last, Early, Loop
<1> QED BY <1>4, <1>5, <1>7, <1>8, <1>9 DEF Steady

LEMMA NextSteady ==
  PhcInv /\ [Next]_vars => PhcInv'
<1> SUFFICES ASSUME PhcInv, [Next]_vars PROVE PhcInv'
  OBVIOUS
<1>1. TypeOK /\ TypeOK'
  BY NextType DEF PhcInv
<1>2. ASSUME crashes' = 0 PROVE Steady(node)'
  <2>1. crashes \in Nat
    BY <1>1 DEF TypeOK, ServerTypeOK
  <2>2. CASE Crash /\ UNCHANGED <<rt, node>>
    BY <1>2, <2>1, <2>2 DEF Crash
  <2>3. CASE PmcSend
    BY <1>1, <1>2, <2>3, SendIs, SendSteady DEF PhcInv
  <2>4. CASE PmcReceive
    <3>1. Steady(node)
      BY <1>2, <2>4 DEF PhcInv, PmcReceive, Receive
    <3> QED BY <1>1, <2>4, <3>1, NoticeSteady, AnswerSteady
  <2>5. CASE PmcTimeout
    <3>1. Steady(node)
      BY <1>1, <1>2, <2>5, TimeoutIs DEF PhcInv, TimePasses, serverVars
    <3> QED BY <1>1, <2>5, <3>1, TimeoutSteady
  <2>6. CASE Wake
    <3>1. Steady(node)
      BY <1>2, <2>6 DEF PhcInv, Wake, TimePasses
    <3> QED BY <1>1, <2>6, <3>1, WakeSteady
  <2>7. CASE Sync
    <3>1. Steady(node)
      BY <1>2, <2>7 DEF PhcInv, Sync, serverVars
    <3> QED BY <1>1, <2>7, <3>1, SyncSteady
  <2>8. CASE Serve /\ UNCHANGED <<rt, node>>
    <3>1. Steady(node)
      BY <1>2, <2>8 DEF PhcInv, Serve
    <3> QED BY <1>1, <2>8, <3>1, ServeSteady
  <2>9. CASE (\E p \in Ports, s \in PortStates : PortChanges(p, s)) /\ UNCHANGED <<rt, node>>
    <3>1. Steady(node)
      BY <1>2, <2>9 DEF PhcInv, PortChanges
    <3> QED BY <1>1, <2>9, <3>1, PortChangesSteady
  <2>10. CASE Start /\ UNCHANGED <<rt, node>>
    <3>1. Steady(node)
      BY <1>2, <2>10 DEF PhcInv, Start
    <3> QED BY <1>1, <2>10, <3>1, StartSteady
  <2>11. CASE UNCHANGED vars
    <3>1. Steady(node)
      BY <1>2, <2>11 DEF PhcInv, vars, serverVars
    <3> QED BY <2>11, <3>1 DEF vars, serverVars, Steady, Alive, Lease, Single, Informed, Pending,
                               Ahead, Local, Knows, Aims, Calm, Last
  <2> QED BY <2>2, <2>3, <2>4, <2>5, <2>6, <2>7, <2>8, <2>9, <2>10, <2>11
          DEF Next, PhcStep, ServerStep
<1> QED BY <1>1, <1>2 DEF PhcInv

LEMMA PhcInvHolds == Spec => []PhcInv
<1>1. Init => PhcInv
  BY InitType, InitSteady DEF PhcInv
<1>2. PhcInv /\ [Next]_vars => PhcInv'
  BY NextSteady
<1> QED BY <1>1, <1>2, PTL DEF Spec

----------------------------------------------------------------------------
(* As long as ptp4l runs on, the subscription once made does not run out:  *)
(* however a renewal is delayed by answers still unread, however the       *)
(* client is held up by reconfigurations, and for every PMC_UPDATE_INTERVAL*)
(* that leaves two rounds of PMC_SUBSCRIBE_DURATION (psysPmcUpdate,        *)
(* clock_prune_subscriptions).                                             *)
THEOREM SubscriptionStays == Spec => []SubscriptionKept
<1>1. PhcInv => SubscriptionKept
  <2> SUFFICES ASSUME PhcInv, crashes = 0,
                      node.step \in {"ports", "first_offset", "sleep", "sync"} \cup Hasty
               PROVE  expiration # Null /\ (node.step = "sync" => expiration > 0)
    BY DEF SubscriptionKept
  <2>1. expiration # Null /\ expiration \in 1 .. Duration
    BY LeaseRuns DEF PhcInv, Early, Hasty
  <2> QED BY <2>1, Constants
<1> QED BY <1>1, PhcInvHolds, PTL

(* As long as ptp4l runs on: when all notices are read and acted upon,     *)
(* every port and its clock are in the state ptp4l has the port in,        *)
(* whatever the states went through and whichever notice came in the       *)
(* middle of what (__pmcRecvSubscribed, psysReconfigure, _psysClockReinit).*)
THEOREM ClientFollows == Spec => []StatesFollow
<1>1. PhcInv => StatesFollow
  <2> SUFFICES ASSUME PhcInv, crashes = 0, Following, inbox = << >>, NEW p \in Ports
               PROVE  InStep(p)
    BY DEF StatesFollow
  <2>1. node.step \in {"sleep", "sync"} /\ ~node.state_changed /\ Steady(node)
    BY DEF Following, PhcInv
  <2>2. node.ports[p] # Null
    BY <2>1 DEF Steady, Local, Knows, Early
  <2>3. node.ports[p] = psysNormalizeState(state[p])
    <3>1. Told(<< >>, p, node.ports[p], psysNormalizeState(state[p]))
      BY <2>1 DEF Steady, Informed
    <3>2. Agree(node.ports[p], psysNormalizeState(state[p]))
      BY <3>1, ToldAll
    <3> QED BY <2>2, <3>2 DEF Agree
  <2>4. node.ports[p] = IF node.new[p] = Null THEN node.clocks[p] ELSE node.new[p]
    BY <2>1 DEF Steady, Local, Aims, Loop
  <2>5. node.new[p] # Null => node.master = p
    BY <2>1 DEF Steady, Local, Calm, Loop
  <2> QED BY <2>3, <2>4, <2>5 DEF InStep
<1> QED BY <1>1, PhcInvHolds, PTL

(* As long as ptp4l runs on: no clock whose port follows a master, or is   *)
(* about to, is set from another, and the system clock is the source only  *)
(* when no port follows one and -r -r was given (psysReconfigure, the      *)
(* update of the destinations in _psysMainLoop).                           *)
THEOREM OneSteerer == Spec => []NoTwoSteerers
<1>1. PhcInv => NoTwoSteerers
  <2> SUFFICES ASSUME PhcInv, crashes = 0, node.step = "sync", ~node.state_changed
               PROVE  /\ \A c \in Updated \ {RT} : ~FollowsMaster(c)
                      /\ node.master = RT => rt = "source" /\ \A p \in Ports : ~FollowsMaster(p)
    BY DEF NoTwoSteerers
  <2>1. Steady(node) /\ node \in Nodes
    BY DEF PhcInv, TypeOK
  <2>2. \A p \in Ports : p # node.master => node.ports[p] = node.clocks[p]
    BY <2>1 DEF Steady, Local, Aims, Calm, Loop
  <2>3. ASSUME NEW c \in Updated \ {RT} PROVE ~FollowsMaster(c)
    <3>1. c \in node.dst_clocks /\ node.clocks[c] \in Destinations /\ c # node.master
      BY <2>3 DEF Updated, update_needed
    <3>2. c \in Ports
      BY <2>1, <2>3, <3>1 DEF Nodes, Clocks
    <3>3. node.ports[c] \notin {PS_UNCALIBRATED, PS_SLAVE}
      BY <2>2, <3>1, <3>2 DEF Destinations
    <3> QED BY <3>3 DEF FollowsMaster
  <2>4. ASSUME node.master = RT PROVE rt = "source" /\ \A p \in Ports : ~FollowsMaster(p)
    <3>1. rt = "source" /\ \A p \in Ports : node.clocks[p] \notin {PS_UNCALIBRATED, PS_SLAVE}
      BY <2>1, <2>4 DEF Steady, Local, Last
    <3>2. \A p \in Ports : node.ports[p] = node.clocks[p]
      BY <2>2, <2>4, RtApart
    <3> QED BY <3>1, <3>2 DEF FollowsMaster
  <2> QED BY <2>3, <2>4
<1> QED BY <1>1, PhcInvHolds, PTL
=============================================================================
