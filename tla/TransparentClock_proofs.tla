---------------------- MODULE TransparentClock_proofs ----------------------
(***************************************************************************)
(* A transparent clock forwards without losing or confusing messages, for  *)
(* every number of ports, messages and keys and every set of               *)
(* configurations: the lists and the pool agree on every message, each     *)
(* correction has the residence time of its own message, a Sync and its    *)
(* Follow_Up never wait for each other, and a closed port remembers        *)
(* nothing that was sent.                                                  *)
(*                                                                         *)
(* In the middle of an event its handler owns messages itself: held[c] are *)
(* its references to message c, and b is what the messages say.            *)
(***************************************************************************)
EXTENDS TransparentClock, MsgPool_proofs, FiniteSetTheorems, SequenceTheorems

PortsOf(g) == 1 .. g.conf.ports

Kinds == {"SYNC", "FOLLOW_UP", "DELAY_REQ", "DELAY_RESP", "GENERAL"}
Message == [type : Kinds, key : Keys, domain : Domains, corr : {<<>>}]

Times(n) == [in : 1 .. n, out : 1 .. n, type : Kinds, key : Keys]
Entry(n) == [msg : Msgs, ingress : 1 .. n, residence : Times(n)]

(* A message that was sent with its own residence time.                    *)
OwnTime(s) ==
    LET fup == s.type = "FOLLOW_UP"
    IN /\ s.corr[1] = [in |-> IF fup THEN s.from ELSE s.to,
                       out |-> IF fup THEN s.to ELSE s.from,
                       type |-> IF fup THEN "SYNC" ELSE "DELAY_REQ",
                       key |-> s.key]
       /\ Tail(s.corr) = IF fup THEN <<LinkDelay(s.from)>> ELSE <<>>

Corrected(n) ==
    [type : Kinds, from : 1 .. n, to : 1 .. n, key : Keys,
     corr : Seq(Times(n) \cup [link : 1 .. n])]

Sent(n) == {s \in Corrected(n) : OwnTime(s)}

TcRec(conf) ==
    [ conf : {conf},
      pool : Seq(Msgs), total : 0 .. MaxMsgs,
      refcnt : [Msgs -> Int], body : [Msgs -> Message \cup {Null}],
      state : [1 .. conf.ports -> States \ {"INITIALIZING"}],
      timer : [1 .. conf.ports -> BOOLEAN],
      queue : [1 .. conf.ports -> Seq(Entry(conf.ports))],
      sent : SUBSET Sent(conf.ports),
      unsent : SUBSET (1 .. conf.ports), failed : BOOLEAN,
      torn : SUBSET (1 .. conf.ports) ]

(* The list of p has an entry for c.                                       *)
Remembers(g, p, c) == \E i \in 1 .. Len(g.queue[p]) : g.queue[p][i].msg = c

Holders(g, c) == {p \in PortsOf(g) : Remembers(g, p, c)}

OneEach(list) == \A i, j \in 1 .. Len(list) : list[i].msg = list[j].msg => i = j

(* The time in an entry is that of its own way through the clock.          *)
OwnWay(g) ==
    \A p \in PortsOf(g) : \A i \in 1 .. Len(g.queue[p]) :
        /\ g.queue[p][i].residence.in = g.queue[p][i].ingress
        /\ g.queue[p][i].residence.out = p

Typed(g) == g.conf \in Configs /\ g \in TcRec(g.conf) /\ OwnWay(g)

(* The time in an entry was measured of the message that is remembered.    *)
Measured(b, t) ==
    /\ b[t.msg] \in Message
    /\ t.residence.type = b[t.msg].type /\ t.residence.key = b[t.msg].key

(* What is remembered says something.                                      *)
Said(g) ==
    \A p \in PortsOf(g) : \A i \in 1 .. Len(g.queue[p]) :
        Measured(g.body, g.queue[p][i])

(* A Sync and its Follow_Up.                                               *)
Pair(b, t, u) ==
    /\ t.ingress = u.ingress
    /\ b[t.msg].key = b[u.msg].key
    /\ b[t.msg].type = "SYNC" /\ b[u.msg].type = "FOLLOW_UP"

NoPair(g) ==
    \A p \in PortsOf(g) : \A i, j \in 1 .. Len(g.queue[p]) :
        ~Pair(g.body, g.queue[p][i], g.queue[p][j])

IsDown(s) == s \in {"FAULTY", "DISABLED"}

(* What a closed port may remember.                                        *)
Bypasses(g, t) ==
    /\ g.body[t.msg].type = "FOLLOW_UP"
    /\ t.ingress \notin g.conf.spanning \/ g.body[t.msg].domain # 0

DownBypassing(g) ==
    \A p \in PortsOf(g) : IsDown(g.state[p]) =>
        \A i \in 1 .. Len(g.queue[p]) : Bypasses(g, g.queue[p][i])

Counted(g, held) ==
    \A c \in Msgs : g.refcnt[c] = held[c] + Cardinality(Holders(g, c))

Sound(g, held) ==
    /\ Counts(g, g.refcnt)
    /\ Counted(g, held)
    /\ \A p \in PortsOf(g) : OneEach(g.queue[p])
    /\ NoPair(g)
    /\ DownBypassing(g)

(* In the middle of an event.                                              *)
Event(g, b, held) ==
    /\ Typed(g) /\ Said(g) /\ g.body = b
    /\ g.torn = {} => Sound(g, held)

(* Between two events.                                                     *)
Between(g) ==
    /\ Typed(g) /\ ~g.failed /\ g.unsent = {}
    /\ g.torn = {} => Said(g) /\ Sound(g, NoRefs)

TcInv == Between(tc)

----------------------------------------------------------------------------
(* Loops.                                                                  *)

(* The rounds of a loop of n steps from g: f[k] is what the first k left.  *)
LoopOf(f, g, F, n) ==
    f = [k \in 0 .. n |-> IF k = 0 THEN g ELSE F[<<f[k - 1], k>>]]

(* A loop computes something.                                              *)
LEMMA LoopExists ==
  ASSUME NEW g, NEW F, NEW len \in Nat
  PROVE  \E f : LoopOf(f, g, F, len)
<1> DEFINE T == {n \in Nat : ~\E f : LoopOf(f, g, F, n)}
<1>1. SUFFICES T = {}
  OBVIOUS
<1>2. SUFFICES ASSUME T # {} PROVE FALSE
  OBVIOUS
<1>3. PICK m \in T : \A n \in T : m <= n
  <2>1. T \in SUBSET Nat
    OBVIOUS
  <2> HIDE DEF T
  <2> QED BY <2>1, <1>2, Least
<1>4. CASE m = 0
  <2> DEFINE f == [k \in 0 .. 0 |-> g]
  <2>1. LoopOf(f, g, F, 0)
    BY DEF LoopOf
  <2> QED BY <2>1, <1>4
<1>5. CASE m # 0
  <2>1. m \in Nat /\ m - 1 \in Nat /\ m - 1 \notin T
    BY <1>3, <1>5
  <2>2. PICK e : LoopOf(e, g, F, m - 1)
    BY <2>1
  <2> DEFINE f == [k \in 0 .. m |-> IF k = m THEN F[<<e[m - 1], m>>] ELSE e[k]]
  <2>3. ASSUME NEW k \in 0 .. m
        PROVE  f[k] = IF k = 0 THEN g ELSE F[<<f[k - 1], k>>]
    <3>1. CASE k = m
      <4>1. f[k] = F[<<e[m - 1], m>>] /\ f[k - 1] = e[m - 1] /\ k # 0
        BY <3>1, <2>1, <1>5
      <4> QED BY <4>1, <3>1
    <3>2. CASE k # m
      <4>1. k \in 0 .. m - 1 /\ f[k] = e[k]
        BY <3>2, <2>1
      <4>2. e[k] = IF k = 0 THEN g ELSE F[<<e[k - 1], k>>]
        BY <4>1, <2>2 DEF LoopOf
      <4>3. k # 0 => f[k - 1] = e[k - 1]
        BY <4>1, <2>1
      <4> QED BY <4>1, <4>2, <4>3
    <3> QED BY <3>1, <3>2
  <2>4. LoopOf(f, g, F, m)
    <3>1. f = [k \in 0 .. m |-> f[k]]
      OBVIOUS
    <3> HIDE DEF f
    <3> QED BY <3>1, <2>3 DEF LoopOf
  <2> QED BY <2>4
<1> QED BY <1>4, <1>5

(* After k steps it is in S[k], if each step leads from one to the next.   *)
LEMMA LoopReaches ==
  ASSUME NEW n \in Nat, NEW S, NEW f, f[0] \in S[0],
         \A k \in 1 .. n : f[k - 1] \in S[k - 1] => f[k] \in S[k]
  PROVE  \A k \in 0 .. n : f[k] \in S[k]
<1> DEFINE T == {k \in 0 .. n : f[k] \notin S[k]}
<1>1. SUFFICES ASSUME T # {} PROVE FALSE
  OBVIOUS
<1>2. PICK m \in T : \A k \in T : m <= k
  <2>1. T \in SUBSET Nat
    OBVIOUS
  <2> HIDE DEF T
  <2> QED BY <2>1, <1>1, Least
<1>3. m # 0 /\ m \in 1 .. n /\ m - 1 \in 0 .. n
  OBVIOUS
<1>4. m - 1 \notin T
  BY <1>2, <1>3
<1>5. f[m - 1] \in S[m - 1]
  BY <1>3, <1>4
<1> QED BY <1>3, <1>5

(* Both for a loop whose steps F agree with what f does in S.              *)
LEMMA LoopKeeps ==
  ASSUME NEW n \in Nat, NEW S, NEW F, NEW g \in S[0],
         \A k \in 1 .. n : \A h \in S[k - 1] : F[<<h, k>>] \in S[k]
  PROVE  \E f : LoopOf(f, g, F, n) /\ \A k \in 0 .. n : f[k] \in S[k]
<1>1. PICK f : LoopOf(f, g, F, n)
  BY LoopExists
<1>2. f[0] = g /\ \A k \in 1 .. n : f[k] = F[<<f[k - 1], k>>]
  BY <1>1 DEF LoopOf
<1>3. \A k \in 1 .. n : f[k - 1] \in S[k - 1] => f[k] \in S[k]
  BY <1>2
<1>4. \A k \in 0 .. n : f[k] \in S[k]
  BY <1>2, <1>3, LoopReaches
<1> QED BY <1>1, <1>4

----------------------------------------------------------------------------
(* Releasing.                                                              *)

(* The state of the clock is a record with a pool.                         *)
LEMMA TcIsPool ==
  ASSUME NEW conf, NEW g \in TcRec(conf)
  PROVE  IsPool(g)
  BY DEF TcRec, IsPool, IsBody

Repooled(g, l, r) == [g EXCEPT !.pool = l, !.refcnt = r]

(* A change of the pool and the counts alone.                              *)
LEMMA RepooledFields ==
  ASSUME NEW conf, NEW g \in TcRec(conf), NEW l \in Seq(Msgs), NEW r \in [Msgs -> Int]
  PROVE  LET h == Repooled(g, l, r)
         IN  /\ h \in TcRec(conf) /\ h.pool = l /\ h.refcnt = r
             /\ h.conf = g.conf /\ h.total = g.total /\ h.body = g.body /\ h.state = g.state
             /\ h.timer = g.timer /\ h.queue = g.queue /\ h.sent = g.sent
             /\ h.unsent = g.unsent /\ h.failed = g.failed /\ h.torn = g.torn
  BY DEF TcRec, Repooled

(* Only the pool and the counts have changed.                              *)
Repools(g, h) ==
    h = Repooled(g, h.pool, h.refcnt) /\ h.pool \in Seq(Msgs) /\ h.refcnt \in [Msgs -> Int]

(* Each message of D was released once.                                    *)
Took(g, h, D) ==
    /\ Counts(h, h.refcnt)
    /\ \A c \in Msgs : h.refcnt[c] = g.refcnt[c] - (IF c \in D THEN 1 ELSE 0)

(* What Repools says of the fields.                                        *)
SameButPool(g, h) ==
    /\ h.conf = g.conf /\ h.total = g.total /\ h.body = g.body /\ h.state = g.state
    /\ h.timer = g.timer /\ h.queue = g.queue /\ h.sent = g.sent
    /\ h.unsent = g.unsent /\ h.failed = g.failed /\ h.torn = g.torn

LEMMA RepoolsFields ==
  ASSUME NEW conf, NEW g \in TcRec(conf), NEW h, Repools(g, h)
  PROVE  h \in TcRec(conf) /\ SameButPool(g, h)
<1> DEFINE l == h.pool
           r == h.refcnt
           k == Repooled(g, l, r)
<1>1. h = k /\ l \in Seq(Msgs) /\ r \in [Msgs -> Int]
  BY DEF Repools
<1> HIDE DEF l, r
<1>2. /\ k \in TcRec(conf)
      /\ k.conf = g.conf /\ k.total = g.total /\ k.body = g.body /\ k.state = g.state
      /\ k.timer = g.timer /\ k.queue = g.queue /\ k.sent = g.sent
      /\ k.unsent = g.unsent /\ k.failed = g.failed /\ k.torn = g.torn
  BY <1>1, RepooledFields
<1> HIDE DEF k
<1> QED BY <1>1, <1>2 DEF SameButPool

(* One change after the other, and none.                                   *)
LEMMA RepoolsTwice ==
  ASSUME NEW conf, NEW g \in TcRec(conf), NEW h, NEW k, Repools(g, h), Repools(h, k)
  PROVE  Repools(g, k)
  BY DEF Repools, Repooled, TcRec

LEMMA RepoolsNothing ==
  ASSUME NEW conf, NEW g \in TcRec(conf)
  PROVE  Repools(g, g)
  BY DEF Repools, Repooled, TcRec

(* Put by cases.                                                           *)
LEMMA PutRepools ==
  ASSUME NEW conf, NEW g \in TcRec(conf), NEW c \in Msgs
  PROVE  /\ Repools(g, Put(g, c))
         /\ \A d \in Msgs : Put(g, c).refcnt[d] = g.refcnt[d] - (IF d = c THEN 1 ELSE 0)
<1> DEFINE r == [g.refcnt EXCEPT ![c] = @ - 1]
           l == IF g.refcnt[c] # 1 THEN g.pool ELSE <<c>> \o g.pool
           b == IF g.refcnt[c] # 1 THEN g.body ELSE [g.body EXCEPT ![c] = Null]
           p == WithPool(g, l, g.total, r, b)
           k == Repooled(g, l, r)
<1>1. IsPool(g) /\ r = [g.refcnt EXCEPT ![c] = @ - 1]
  BY TcIsPool
<1>2. r \in [Msgs -> Int] /\ \A d \in Msgs : r[d] = g.refcnt[d] - (IF d = c THEN 1 ELSE 0)
  BY DEF TcRec
<1>3. l \in Seq(Msgs)
  BY DEF TcRec
<1> HIDE DEF r
<1>4. msg_put(g, c) = p
  BY <1>1, PutIs
<1> HIDE DEF l, b
<1>5. [p EXCEPT !.body = g.body] = k
  BY DEF WithPool, Repooled, TcRec
<1>6. Put(g, c) = k
  BY <1>4, <1>5, Zenon DEF Put
<1>7. k.pool = l /\ k.refcnt = r
  BY <1>2, <1>3, RepooledFields
<1>8. Repools(g, k)
  BY <1>2, <1>3, <1>7, Zenon DEF Repools
<1> QED BY <1>2, <1>6, <1>7, <1>8

(* The release of a message that has a reference keeps the counts.         *)
LEMMA PutTakes ==
  ASSUME NEW conf, NEW g \in TcRec(conf), NEW c \in Msgs,
         Counts(g, g.refcnt), g.refcnt[c] > 0
  PROVE  Took(g, Put(g, c), {c})
<1> DEFINE h == Put(g, c)
           q == msg_put(g, c)
           own == g.refcnt
           mine == [own EXCEPT ![c] = @ - 1]
<1>1. Repools(g, h) /\ \A d \in Msgs : h.refcnt[d] = g.refcnt[d] - (IF d = c THEN 1 ELSE 0)
  BY PutRepools
<1>2. IsPool(g) /\ Counts(g, own) /\ own[c] > 0
  BY TcIsPool
<1>3. Counts(q, mine) /\ IsPool(q)
  <2> HIDE DEF own, q
  <2> QED BY <1>2, PutOwned DEF q
<1>4. h = [q EXCEPT !.body = g.body]
  BY DEF Put
<1>5. h.pool = q.pool /\ h.total = q.total /\ h.refcnt = q.refcnt
  <2> HIDE DEF q
  <2>1. \A x : "body" \in DOMAIN q => [q EXCEPT !.body = x].pool = q.pool
          /\ [q EXCEPT !.body = x].total = q.total /\ [q EXCEPT !.body = x].refcnt = q.refcnt
    BY <1>3 DEF IsPool
  <2>2. "body" \in DOMAIN q
    BY <1>3 DEF IsPool
  <2> QED BY <1>4, <2>1, <2>2
<1>6. h.refcnt = mine
  <2>1. h.refcnt \in [Msgs -> Int] /\ g.refcnt \in [Msgs -> Int]
    BY <1>1 DEF Repools, TcRec
  <2>2. \A d \in Msgs : mine[d] = g.refcnt[d] - (IF d = c THEN 1 ELSE 0)
    BY <2>1
  <2>3. mine \in [Msgs -> Int]
    BY <2>1
  <2> HIDE DEF mine, h
  <2> QED BY <1>1, <2>1, <2>2, <2>3
<1>7. Counts(h, mine)
  <2> HIDE DEF mine, h, q
  <2> QED BY <1>3, <1>5, SamePool
<1> QED BY <1>1, <1>6, <1>7 DEF Took

(* The messages of a list, and of its first i entries.                     *)
FirstOf(list, i) == {list[j].msg : j \in 1 .. i}
MsgsOf(list) == FirstOf(list, Len(list))

(* The release of a list releases each of its messages.                    *)
LEMMA ReleaseIsLoop ==
  ASSUME NEW g, NEW list, NEW F, NEW e, LoopOf(e, g, F, Len(list)), Len(list) \in Nat,
         \A k \in 1 .. Len(list) : F[<<e[k - 1], k>>] = Put(e[k - 1], list[k].msg)
  PROVE  \E f : /\ Release(g, list) = f[Len(list)]
                /\ f[0] = g
                /\ \A k \in 1 .. Len(list) : f[k] = Put(f[k - 1], list[k].msg)
<1> DEFINE n == Len(list)
           Is(f) == f = [k \in 0 .. n |-> IF k = 0 THEN g ELSE Put(f[k - 1], list[k].msg)]
           a == CHOOSE f : Is(f)
<1>1. Release(g, list) = a[n]
  BY DEF Release
<1>2. Is(e)
  <2>1. \A k \in 0 .. n : (IF k = 0 THEN g ELSE F[<<e[k - 1], k>>])
                           = (IF k = 0 THEN g ELSE Put(e[k - 1], list[k].msg))
    OBVIOUS
  <2> QED BY <2>1 DEF LoopOf
<1>3. Is(a)
  <2>1. \E f : Is(f)
    BY <1>2, Zenon
  <2> HIDE DEF Is
  <2> QED BY <2>1, Zenon
<1>4. a[0] = g /\ \A k \in 1 .. n : a[k] = Put(a[k - 1], list[k].msg)
  <2> HIDE DEF a
  <2> QED BY <1>3
<1> QED BY <1>1, <1>4

Ready(g, list) ==
    /\ OneEach(list) /\ Counts(g, g.refcnt)
    /\ \A i \in 1 .. Len(list) : g.refcnt[list[i].msg] > 0

LEMMA Releases ==
  ASSUME NEW conf, NEW g \in TcRec(conf), NEW list, Len(list) \in Nat,
         \A i \in 1 .. Len(list) : list[i].msg \in Msgs
  PROVE  /\ Repools(g, Release(g, list))
         /\ Ready(g, list) => Took(g, Release(g, list), MsgsOf(list))
<1> DEFINE n == Len(list)
           R == TcRec(conf)
           F == [x \in R \X (1 .. n) |-> Put(x[1], list[x[2]].msg)]
           Reached(h, k) == /\ Repools(g, h)
                            /\ Ready(g, list) => Took(g, h, FirstOf(list, k))
           S == [k \in 0 .. n |-> {h \in R : Reached(h, k)}]
<1>1. g \in S[0]
  <2>1. Repools(g, g)
    BY RepoolsNothing
  <2>2. FirstOf(list, 0) = {}
    BY DEF FirstOf
  <2>3. \A c \in Msgs : g.refcnt[c] \in Int
    BY DEF TcRec
  <2>4. Ready(g, list) => Took(g, g, FirstOf(list, 0))
    BY <2>2, <2>3 DEF Took, Ready
  <2> QED BY <2>1, <2>4
<1>2. ASSUME NEW k \in 1 .. n, NEW h \in S[k - 1]
      PROVE  Put(h, list[k].msg) \in S[k] /\ F[<<h, k>>] = Put(h, list[k].msg)
  <2> DEFINE c == list[k].msg
             q == Put(h, c)
  <2>1. k - 1 \in 0 .. n /\ k \in 0 .. n /\ h \in R /\ Reached(h, k - 1) /\ c \in Msgs
    BY <1>2
  <2>2. Repools(h, q) /\ \A d \in Msgs : q.refcnt[d] = h.refcnt[d] - (IF d = c THEN 1 ELSE 0)
    BY <2>1, PutRepools
  <2>3. Repools(g, q) /\ q \in R
    BY <2>1, <2>2, RepoolsTwice, RepoolsFields
  <2>4. ASSUME Ready(g, list) PROVE Took(g, q, FirstOf(list, k))
    <3>1. Took(g, h, FirstOf(list, k - 1))
      BY <2>1, <2>4
    <3>2. c \notin FirstOf(list, k - 1)
      <4>1. \A j \in 1 .. k - 1 : j \in 1 .. n /\ j # k
        BY <2>1
      <4> QED BY <4>1, <2>4 DEF Ready, OneEach, FirstOf
    <3>3. h.refcnt[c] = g.refcnt[c] /\ g.refcnt[c] > 0
      <4>1. g.refcnt[c] \in Int
        BY <2>1 DEF TcRec
      <4> QED BY <4>1, <3>1, <3>2, <2>1, <2>4 DEF Took, Ready
    <3>4. Took(h, q, {c})
      <4>1. Counts(h, h.refcnt) /\ h.refcnt[c] > 0
        BY <3>1, <3>3 DEF Took
      <4> QED BY <4>1, <2>1, PutTakes
    <3>5. FirstOf(list, k) = FirstOf(list, k - 1) \cup {c}
      <4>1. 1 .. k = (1 .. k - 1) \cup {k}
        BY <2>1
      <4> QED BY <4>1 DEF FirstOf
    <3>6. \A d \in Msgs : q.refcnt[d] = g.refcnt[d] - (IF d \in FirstOf(list, k) THEN 1 ELSE 0)
      <4> TAKE d \in Msgs
      <4>1. g.refcnt[d] \in Int
        BY DEF TcRec
      <4>2. h.refcnt[d] = g.refcnt[d] - (IF d \in FirstOf(list, k - 1) THEN 1 ELSE 0)
        BY <3>1 DEF Took
      <4>3. q.refcnt[d] = h.refcnt[d] - (IF d = c THEN 1 ELSE 0)
        BY <2>2
      <4> QED BY <4>1, <4>2, <4>3, <3>2, <3>5
    <3> QED BY <3>4, <3>6 DEF Took
  <2>5. q \in S[k]
    BY <2>1, <2>3, <2>4
  <2>6. F[<<h, k>>] = q
    <3>1. <<h, k>> \in R \X (1 .. n)
      BY <2>1
    <3> QED BY <3>1
  <2> QED BY <2>5, <2>6
<1> HIDE DEF F, S
<1>3. PICK e : LoopOf(e, g, F, n) /\ \A k \in 0 .. n : e[k] \in S[k]
  BY <1>1, <1>2, LoopKeeps
<1>4. \A k \in 1 .. n : F[<<e[k - 1], k>>] = Put(e[k - 1], list[k].msg)
  BY <1>2, <1>3
<1>5. PICK f : /\ Release(g, list) = f[n] /\ f[0] = g
               /\ \A k \in 1 .. n : f[k] = Put(f[k - 1], list[k].msg)
  BY <1>3, <1>4, ReleaseIsLoop
<1>6. \A k \in 0 .. n : f[k] \in S[k]
  BY <1>1, <1>2, <1>5, LoopReaches
<1>7. Release(g, list) \in S[n] /\ n \in 0 .. n
  BY <1>5, <1>6
<1>8. Reached(Release(g, list), n)
  BY <1>7 DEF S
<1> QED BY <1>8 DEF MsgsOf

(* There are finitely many ports.                                          *)
LEMMA PortNumbers ==
  ASSUME NEW g, Typed(g)
  PROVE  g.conf.ports \in Nat /\ IsFiniteSet(PortsOf(g))
<1>1. g.conf.ports \in Nat
  BY TransparentClockConfig DEF Typed
<1>2. IsFiniteSet(PortsOf(g))
  BY <1>1, FS_Interval DEF PortsOf
<1> QED BY <1>1, <1>2

LEMMA HoldersCount ==
  ASSUME NEW g, Typed(g), NEW c
  PROVE  IsFiniteSet(Holders(g, c)) /\ Cardinality(Holders(g, c)) \in Nat
<1>1. Holders(g, c) \in SUBSET PortsOf(g)
  BY DEF Holders
<1>2. IsFiniteSet(Holders(g, c))
  BY <1>1, PortNumbers, FS_Subset
<1> QED BY <1>2, FS_CardinalityType

(* The list of p and the state of p may differ, no other list or state.    *)
ElsewhereSame(g, k, p) ==
    \A r \in PortsOf(g) \ {p} : k.queue[r] = g.queue[r] /\ k.state[r] = g.state[r]

(* The entries of p are entries it had before.                             *)
OnlyOld(g, k, p) ==
    \A i \in 1 .. Len(k.queue[p]) : \E j \in 1 .. Len(g.queue[p]) :
        k.queue[p][i] = g.queue[p][j]

(* The entries for the messages of D are gone from the list of p, and      *)
(* their references with them.                                             *)
Gone(g, k, p, D) ==
    /\ Took(g, k, D)
    /\ OneEach(k.queue[p])
    /\ \A c \in Msgs : Remembers(k, p, c) <=> Remembers(g, p, c) /\ c \notin D
    /\ \A c \in D : Remembers(g, p, c)

(* Who holds a message then.                                               *)
LEMMA PulledHolders ==
  ASSUME NEW g, Typed(g), NEW p \in PortsOf(g), NEW k, k.conf = g.conf,
         ElsewhereSame(g, k, p), NEW D, Gone(g, k, p, D), NEW c \in Msgs
  PROVE  Cardinality(Holders(k, c)) = Cardinality(Holders(g, c)) - (IF c \in D THEN 1 ELSE 0)
<1>1. IsFiniteSet(Holders(g, c)) /\ Cardinality(Holders(g, c)) \in Nat
  BY HoldersCount
<1>2. \A r \in PortsOf(g) \ {p} : Remembers(k, r, c) <=> Remembers(g, r, c)
  BY DEF ElsewhereSame, Remembers
<1>3. PortsOf(k) = PortsOf(g)
  BY DEF PortsOf
<1>4. CASE c \in D
  <2>1. Holders(k, c) = Holders(g, c) \ {p} /\ p \in Holders(g, c)
    BY <1>2, <1>3, <1>4 DEF Gone, Holders
  <2>2. Cardinality(Holders(g, c) \ {p}) = Cardinality(Holders(g, c)) - 1
    BY <1>1, <2>1, FS_RemoveElement
  <2> QED BY <1>4, <2>1, <2>2
<1>5. CASE c \notin D
  <2>1. Holders(k, c) = Holders(g, c)
    BY <1>2, <1>3, <1>5 DEF Gone, Holders
  <2> QED BY <1>1, <1>5, <2>1
<1> QED BY <1>4, <1>5

(* Entries go, and maybe the port is closed or opened.                     *)
LEMMA Pulled ==
  ASSUME NEW b, NEW held \in [Msgs -> Nat], NEW g, Event(g, b, held), NEW p \in PortsOf(g),
         NEW k \in TcRec(g.conf), k.body = g.body, g.torn \subseteq k.torn,
         ElsewhereSame(g, k, p), OnlyOld(g, k, p),
         NEW D, k.torn = {} => Gone(g, k, p, D),
         k.state[p] = g.state[p] \/ ~IsDown(k.state[p]) \/ k.queue[p] = <<>>
  PROVE  Event(k, b, held)
<1>0. Typed(g) /\ k.conf = g.conf /\ PortsOf(k) = PortsOf(g) /\ k.body = b /\ g.body = b /\ Said(g)
  BY DEF Event, Typed, TcRec, PortsOf
<1>1. ASSUME NEW r \in PortsOf(g), NEW i \in 1 .. Len(k.queue[r])
      PROVE  \E j \in 1 .. Len(g.queue[r]) : k.queue[r][i] = g.queue[r][j]
  BY DEF ElsewhereSame, OnlyOld
<1>2. Typed(k)
  <2>1. OwnWay(k)
    <3> SUFFICES ASSUME NEW r \in PortsOf(g), NEW i \in 1 .. Len(k.queue[r])
                 PROVE  /\ k.queue[r][i].residence.in = k.queue[r][i].ingress
                        /\ k.queue[r][i].residence.out = r
      BY <1>0 DEF OwnWay
    <3>1. PICK j \in 1 .. Len(g.queue[r]) : k.queue[r][i] = g.queue[r][j]
      BY <1>1
    <3> QED BY <3>1, <1>0 DEF Typed, OwnWay
  <2> QED BY <2>1, <1>0 DEF Typed
<1>3. Said(k)
  <2> SUFFICES ASSUME NEW r \in PortsOf(g), NEW i \in 1 .. Len(k.queue[r])
               PROVE  Measured(k.body, k.queue[r][i])
    BY <1>0 DEF Said
  <2>1. PICK j \in 1 .. Len(g.queue[r]) : k.queue[r][i] = g.queue[r][j]
    BY <1>1
  <2> QED BY <2>1, <1>0 DEF Said
<1>4. ASSUME k.torn = {} PROVE Sound(k, held)
  <2>1. Sound(g, held) /\ Gone(g, k, p, D)
    BY <1>4 DEF Event
  <2>2. Counted(k, held)
    <3> SUFFICES ASSUME NEW c \in Msgs
                 PROVE  k.refcnt[c] = held[c] + Cardinality(Holders(k, c))
      BY DEF Counted
    <3>1. Cardinality(Holders(k, c)) = Cardinality(Holders(g, c)) - (IF c \in D THEN 1 ELSE 0)
      BY <1>0, <2>1, PulledHolders
    <3>2. g.refcnt[c] = held[c] + Cardinality(Holders(g, c))
      BY <2>1 DEF Sound, Counted
    <3>3. k.refcnt[c] = g.refcnt[c] - (IF c \in D THEN 1 ELSE 0)
      BY <2>1 DEF Gone, Took
    <3>4. Cardinality(Holders(g, c)) \in Nat /\ held[c] \in Nat
      BY <1>0, HoldersCount
    <3> QED BY <3>1, <3>2, <3>3, <3>4
  <2>3. \A r \in PortsOf(k) : OneEach(k.queue[r])
    BY <1>0, <2>1 DEF Sound, Gone, ElsewhereSame
  <2>4. NoPair(k)
    BY <1>0, <1>1, <2>1 DEF Sound, NoPair
  <2>5. DownBypassing(k)
    <3> SUFFICES ASSUME NEW r \in PortsOf(g), IsDown(k.state[r]),
                        NEW i \in 1 .. Len(k.queue[r])
                 PROVE  Bypasses(k, k.queue[r][i])
      BY <1>0 DEF DownBypassing
    <3>1. IsDown(g.state[r])
      <4>1. CASE r = p
        <5>1. ASSUME k.queue[p] = <<>> PROVE FALSE
          <6>1. Len(k.queue[r]) = 0
            BY <4>1, <5>1
          <6> QED BY <6>1
        <5>2. k.state[p] = g.state[p] \/ ~IsDown(k.state[p])
          BY <5>1
        <5> QED BY <5>2, <4>1
      <4>2. CASE r # p
        BY <4>2 DEF ElsewhereSame
      <4> QED BY <4>1, <4>2
    <3>2. PICK j \in 1 .. Len(g.queue[r]) : k.queue[r][i] = g.queue[r][j]
      BY <1>1
    <3>3. Bypasses(g, g.queue[r][j])
      BY <2>1, <3>1 DEF Sound, DownBypassing
    <3> QED BY <1>0, <3>2, <3>3 DEF Bypasses
  <2> QED BY <2>1, <2>2, <2>3, <2>4, <2>5 DEF Sound, Gone, Took
<1> QED BY <1>0, <1>2, <1>3, <1>4 DEF Event

----------------------------------------------------------------------------
(* A port changes its state.                                               *)

(* Nothing is sent, nothing new is remembered.                             *)
Shrinks(g, h) ==
    /\ h.conf = g.conf /\ h.sent = g.sent /\ h.unsent = g.unsent
    /\ h.failed = g.failed /\ h.torn = g.torn
    /\ \A r \in PortsOf(g), d \in Msgs : Remembers(h, r, d) => Remembers(g, r, d)

LEMMA ShrinksTwice ==
  ASSUME NEW g, NEW h, NEW k, Shrinks(g, h), Shrinks(h, k)
  PROVE  Shrinks(g, k)
  BY DEF Shrinks, PortsOf

(* What is remembered has a reference.                                     *)
LEMMA RememberedLives ==
  ASSUME NEW held \in [Msgs -> Nat], NEW g, Typed(g), Sound(g, held),
         NEW p \in PortsOf(g), NEW c \in Msgs, Remembers(g, p, c)
  PROVE  g.refcnt[c] > held[c]
<1>1. Holders(g, c) # {}
  BY DEF Holders
<1>2. IsFiniteSet(Holders(g, c)) /\ Cardinality(Holders(g, c)) \in Nat
  BY HoldersCount
<1>3. Cardinality(Holders(g, c)) # 0
  BY <1>1, <1>2, FS_EmptySet
<1>4. g.refcnt[c] = held[c] + Cardinality(Holders(g, c))
  BY DEF Sound, Counted
<1> QED BY <1>2, <1>3, <1>4

(* The entries of a list are entries.                                      *)
LEMMA EntriesTyped ==
  ASSUME NEW g, Typed(g), NEW p \in PortsOf(g)
  PROVE  /\ Len(g.queue[p]) \in Nat
         /\ g.queue[p] \in Seq(Entry(g.conf.ports))
         /\ \A i \in 1 .. Len(g.queue[p]) :
               /\ g.queue[p][i] \in Entry(g.conf.ports)
               /\ g.queue[p][i].msg \in Msgs
               /\ g.queue[p][i].ingress \in PortsOf(g)
<1>1. g.queue[p] \in Seq(Entry(g.conf.ports))
  BY DEF Typed, TcRec, PortsOf
<1>2. /\ Len(g.queue[p]) \in Nat
      /\ \A i \in 1 .. Len(g.queue[p]) : g.queue[p][i] \in Entry(g.conf.ports)
  BY <1>1
<1> QED BY <1>1, <1>2 DEF Entry, PortsOf

(* The list of p is as ready for its release as when the port closed.      *)
LEMMA ListReady ==
  ASSUME NEW held \in [Msgs -> Nat], NEW g, Typed(g), Sound(g, held), NEW p \in PortsOf(g)
  PROVE  Ready(g, g.queue[p])
<1>1. \A i \in 1 .. Len(g.queue[p]) : g.queue[p][i].msg \in Msgs
  BY EntriesTyped
<1>2. ASSUME NEW i \in 1 .. Len(g.queue[p]) PROVE g.refcnt[g.queue[p][i].msg] > 0
  <2> DEFINE c == g.queue[p][i].msg
  <2>1. c \in Msgs /\ Remembers(g, p, c)
    BY <1>1 DEF Remembers
  <2>2. g.refcnt[c] > held[c] /\ held[c] \in Nat
    BY <2>1, RememberedLives
  <2>3. g.refcnt[c] \in Int
    BY <2>1 DEF Typed, TcRec
  <2> QED BY <2>2, <2>3
<1> QED BY <1>2 DEF Ready, Sound

Shuts(g, k, b, held, p, n) ==
    /\ Event(k, b, held) /\ Shrinks(g, k)
    /\ k.state = [g.state EXCEPT ![p] = n]
    /\ k.queue[p] = <<>>

(* portOpDisable, when the port is in state n.                             *)
LEMMA DisableShuts ==
  ASSUME NEW b, NEW held \in [Msgs -> Nat], NEW g, Event(g, b, held), NEW p \in PortsOf(g),
         NEW n \in States \ {"INITIALIZING"}
  PROVE  Shuts(g, portOpDisable([g EXCEPT !.state[p] = n], p), b, held, p, n)
<1> DEFINE a == [g EXCEPT !.state[p] = n]
           list == g.queue[p]
           h == Release(a, list)
           k == [[h EXCEPT !.queue[p] = <<>>] EXCEPT !.timer[p] = FALSE]
           D == MsgsOf(list)
<1>0. Typed(g) /\ g \in TcRec(g.conf)
  BY DEF Event, Typed
<1>1. /\ a \in TcRec(g.conf) /\ a.queue = g.queue /\ a.refcnt = g.refcnt /\ a.pool = g.pool
      /\ a.total = g.total /\ a.conf = g.conf /\ a.state = [g.state EXCEPT ![p] = n]
      /\ a.body = g.body /\ a.timer = g.timer /\ a.sent = g.sent /\ a.unsent = g.unsent
      /\ a.failed = g.failed /\ a.torn = g.torn
  BY <1>0 DEF TcRec
<1>2. portOpDisable(a, p) = k
  BY <1>1, Zenon DEF portOpDisable, tc_flush
<1> HIDE DEF a
<1>3. Len(list) \in Nat /\ \A i \in 1 .. Len(list) : list[i].msg \in Msgs
  BY <1>0, EntriesTyped
<1>4. /\ Repools(a, h)
      /\ Ready(a, list) => Took(a, h, D)
  <2> HIDE DEF list
  <2> QED BY <1>1, <1>3, Releases
<1> HIDE DEF h
<1>5. h \in TcRec(g.conf) /\ SameButPool(a, h)
  BY <1>1, <1>4, RepoolsFields
<1>6. /\ k \in TcRec(g.conf) /\ k.body = g.body /\ k.torn = g.torn /\ k.conf = g.conf
      /\ k.state = [g.state EXCEPT ![p] = n] /\ k.queue = [g.queue EXCEPT ![p] = <<>>]
      /\ k.pool = h.pool /\ k.refcnt = h.refcnt /\ k.total = h.total
      /\ k.sent = g.sent /\ k.unsent = g.unsent /\ k.failed = g.failed
  <2>1. /\ h.body = g.body /\ h.torn = g.torn /\ h.conf = g.conf /\ h.queue = g.queue
        /\ h.state = [g.state EXCEPT ![p] = n] /\ h.timer = g.timer
        /\ h.sent = g.sent /\ h.unsent = g.unsent /\ h.failed = g.failed
    BY <1>1, <1>5 DEF SameButPool
  <2> DEFINE l == [h.queue EXCEPT ![p] = <<>>]
             w == [h.timer EXCEPT ![p] = FALSE]
  <2>2. l \in [1 .. g.conf.ports -> Seq(Entry(g.conf.ports))] /\ w \in [1 .. g.conf.ports -> BOOLEAN]
    <3>1. /\ h.queue \in [1 .. g.conf.ports -> Seq(Entry(g.conf.ports))]
          /\ h.timer \in [1 .. g.conf.ports -> BOOLEAN]
      BY <1>5 DEF TcRec
    <3>2. <<>> \in Seq(Entry(g.conf.ports))
      OBVIOUS
    <3>3. l \in [1 .. g.conf.ports -> Seq(Entry(g.conf.ports))]
      BY <3>1, <3>2, Zenon
    <3>4. w \in [1 .. g.conf.ports -> BOOLEAN]
      BY <3>1, Zenon
    <3> QED BY <3>3, <3>4
  <2>3. k = [h EXCEPT !.queue = l, !.timer = w]
    BY <1>5 DEF TcRec
  <2>4. l = [g.queue EXCEPT ![p] = <<>>]
    BY <2>1
  <2> HIDE DEF l, w, k
  <2>5. /\ k \in TcRec(g.conf) /\ k.body = h.body /\ k.torn = h.torn /\ k.conf = h.conf
        /\ k.state = h.state /\ k.queue = l
        /\ k.pool = h.pool /\ k.refcnt = h.refcnt /\ k.total = h.total
        /\ k.sent = h.sent /\ k.unsent = h.unsent /\ k.failed = h.failed
    BY <1>5, <2>2, <2>3 DEF TcRec
  <2> QED BY <2>1, <2>4, <2>5
<1> HIDE DEF k
<1>7. k.queue[p] = <<>> /\ ElsewhereSame(g, k, p)
  BY <1>0, <1>6 DEF TcRec, ElsewhereSame, PortsOf
<1>8. Len(k.queue[p]) = 0
  BY <1>7
<1>9. OnlyOld(g, k, p)
  BY <1>8 DEF OnlyOld
<1>10. ASSUME k.torn = {} PROVE Gone(g, k, p, D)
  <2>1. Sound(g, held)
    BY <1>6, <1>10 DEF Event
  <2>2. Ready(g, list)
    BY <1>0, <2>1, ListReady
  <2>3. Counts(a, a.refcnt)
    <3>1. Counts(g, g.refcnt)
      BY <2>1 DEF Sound
    <3> DEFINE own == g.refcnt
    <3>2. Counts(g, own) /\ a.refcnt = own
      BY <3>1, <1>1
    <3> HIDE DEF own
    <3>3. Counts(a, own)
      BY <1>1, <3>2, SamePool DEF own
    <3> QED BY <3>2, <3>3
  <2>4. Ready(a, list)
    BY <1>1, <2>2, <2>3 DEF Ready
  <2>5. Took(a, h, D)
    BY <1>4, <2>4
  <2>6. Took(g, k, D)
    <3>1. Counts(k, k.refcnt)
      <4> DEFINE own == h.refcnt
      <4>1. Counts(h, own) /\ k.refcnt = own
        BY <1>6, <2>5 DEF Took
      <4> HIDE DEF own
      <4>2. Counts(k, own)
        BY <1>6, <4>1, SamePool DEF own
      <4> QED BY <4>1, <4>2
    <3> QED BY <3>1, <2>5, <1>1, <1>6 DEF Took
  <2>7. OneEach(k.queue[p]) /\ \A c \in Msgs : ~Remembers(k, p, c)
    BY <1>8 DEF OneEach, Remembers
  <2>8. \A c \in Msgs : Remembers(g, p, c) <=> c \in D
    BY DEF Remembers, MsgsOf, FirstOf
  <2>9. D \subseteq Msgs
    BY <1>3 DEF MsgsOf, FirstOf
  <2> QED BY <2>6, <2>7, <2>8, <2>9 DEF Gone
<1>11. Event(k, b, held)
  <2>1. g.torn \subseteq k.torn
    BY <1>6
  <2> HIDE DEF D
  <2> QED BY <2>1, <1>6, <1>7, <1>9, <1>10, Pulled
<1>12. Shrinks(g, k)
  <2>1. \A r \in PortsOf(g), d \in Msgs : Remembers(k, r, d) => Remembers(g, r, d)
    BY <1>7, <1>8 DEF Remembers, ElsewhereSame
  <2> QED BY <2>1, <1>6 DEF Shrinks
<1> QED BY <1>2, <1>6, <1>7, <1>11, <1>12 DEF Shuts, a

Settles(g, k, b, held) == Event(k, b, held) /\ Shrinks(g, k)

LEMMA SettlesTwice ==
  ASSUME NEW b, NEW held, NEW g, NEW h, NEW k, Settles(g, h, b, held), Settles(h, k, b, held)
  PROVE  Settles(g, k, b, held)
  BY ShrinksTwice DEF Settles

LEMMA SettlesNow ==
  ASSUME NEW b, NEW held, NEW g, Event(g, b, held)
  PROVE  Settles(g, g, b, held)
  BY DEF Settles, Shrinks

(* A port opens, or changes between two open states.                       *)
LEMMA OpenSettles ==
  ASSUME NEW b, NEW held \in [Msgs -> Nat], NEW g, Event(g, b, held), NEW p \in PortsOf(g),
         NEW n \in States \ {"INITIALIZING"}, ~IsDown(n), NEW x \in BOOLEAN
  PROVE  Settles(g, [g EXCEPT !.state[p] = n, !.timer[p] = x], b, held)
<1> DEFINE s == [g.state EXCEPT ![p] = n]
           w == [g.timer EXCEPT ![p] = x]
           k == [g EXCEPT !.state = s, !.timer = w]
<1>0. Typed(g) /\ g \in TcRec(g.conf)
  BY DEF Event, Typed
<1>1. s \in [1 .. g.conf.ports -> States \ {"INITIALIZING"}] /\ w \in [1 .. g.conf.ports -> BOOLEAN]
  <2>1. /\ g.state \in [1 .. g.conf.ports -> States \ {"INITIALIZING"}]
        /\ g.timer \in [1 .. g.conf.ports -> BOOLEAN]
    BY <1>0 DEF TcRec
  <2> QED BY <2>1, Zenon
<1>2. [g EXCEPT !.state[p] = n, !.timer[p] = x] = k
  BY <1>0 DEF TcRec
<1>3. s[p] = n /\ \A r \in PortsOf(g) \ {p} : s[r] = g.state[r]
  BY <1>0 DEF TcRec, PortsOf
<1> HIDE DEF s, w
<1>4. /\ k \in TcRec(g.conf) /\ k.body = g.body /\ k.torn = g.torn /\ k.conf = g.conf
      /\ k.state = s /\ k.queue = g.queue
      /\ k.pool = g.pool /\ k.refcnt = g.refcnt /\ k.total = g.total
      /\ k.sent = g.sent /\ k.unsent = g.unsent /\ k.failed = g.failed
  BY <1>0, <1>1 DEF TcRec
<1> HIDE DEF k
<1>5. ElsewhereSame(g, k, p) /\ OnlyOld(g, k, p) /\ ~IsDown(k.state[p])
  BY <1>3, <1>4 DEF ElsewhereSame, OnlyOld
<1>6. ASSUME k.torn = {} PROVE Gone(g, k, p, {})
  <2>1. Sound(g, held)
    BY <1>4, <1>6 DEF Event
  <2>2. Counts(k, k.refcnt)
    <3> DEFINE own == g.refcnt
    <3>1. Counts(g, own) /\ k.refcnt = own
      BY <1>4, <2>1 DEF Sound
    <3> HIDE DEF own
    <3>2. Counts(k, own)
      BY <1>4, <3>1, SamePool DEF own
    <3> QED BY <3>1, <3>2
  <2>3. \A c \in Msgs : g.refcnt[c] \in Int
    BY <1>0 DEF TcRec
  <2>4. Took(g, k, {})
    BY <1>4, <2>2, <2>3 DEF Took
  <2> QED BY <1>4, <2>1, <2>4 DEF Gone, Sound, Remembers
<1>7. Event(k, b, held)
  <2>1. g.torn \subseteq k.torn /\ k.body = g.body /\ k \in TcRec(g.conf)
    BY <1>4
  <2> QED BY <2>1, <1>5, <1>6, Pulled
<1>8. Shrinks(g, k)
  BY <1>4 DEF Shrinks, Remembers
<1> QED BY <1>2, <1>7, <1>8 DEF Settles

LEMMA EnterSettles ==
  ASSUME NEW b, NEW held \in [Msgs -> Nat], NEW g, Event(g, b, held), NEW p \in PortsOf(g),
         NEW n \in States \ {"INITIALIZING"}
  PROVE  Settles(g, Enter(g, p, n), b, held)
<1>1. CASE n = g.state[p]
  BY <1>1, SettlesNow DEF Enter
<1>2. CASE n # g.state[p] /\ IsDown(n)
  <2>1. Enter(g, p, n) = portOpDisable([g EXCEPT !.state[p] = n], p)
    BY <1>2 DEF Enter, IsDown
  <2>2. Shuts(g, portOpDisable([g EXCEPT !.state[p] = n], p), b, held, p, n)
    BY DisableShuts
  <2> QED BY <2>1, <2>2 DEF Shuts, Settles
<1>3. CASE n # g.state[p] /\ ~IsDown(n)
  <2> DEFINE x == g.timer[p] \/ n = "LISTENING"
  <2>1. Enter(g, p, n) = [g EXCEPT !.state[p] = n, !.timer[p] = x]
    BY <1>3, Zenon DEF Enter, IsDown
  <2>2. x \in BOOLEAN
    OBVIOUS
  <2> HIDE DEF x
  <2>3. Settles(g, [g EXCEPT !.state[p] = n, !.timer[p] = x], b, held)
    BY <1>3, <2>2, OpenSettles
  <2> QED BY <2>1, <2>3
<1> QED BY <1>1, <1>2, <1>3

(* The state machine ends in one of its states.                            *)
LEMMA FsmTyped ==
  ASSUME NEW s \in States, NEW e \in Events
  PROVE  Fsm(FALSE, s, e, FALSE) \in States
  BY DEF Fsm, DownFsm, EnabledFsm, RoleFsm, States, Down

(* A dispatched event leaves everything in order.                          *)
LEMMA DispatchSettles ==
  ASSUME NEW b, NEW held \in [Msgs -> Nat], NEW g, Event(g, b, held), NEW p \in PortsOf(g),
         NEW e \in Events, NEW reopened
  PROVE  Settles(g, Dispatch(g, p, e, reopened), b, held)
<1> DEFINE n == Fsm(FALSE, g.state[p], e, FALSE)
<1>0. g.state[p] \in States \ {"INITIALIZING"} /\ g \in TcRec(g.conf)
  BY DEF Event, Typed, TcRec, PortsOf
<1>1. n \in States
  BY <1>0, FsmTyped
<1> HIDE DEF n
<1>2. CASE n = "INITIALIZING" \/ (n = "FAULTY" /\ Asap)
  <2> DEFINE a == IF portIsEnabled(g.state[p]) THEN portOpDisable(g, p) ELSE g
             m == IF reopened THEN "LISTENING" ELSE "FAULTY"
  <2>1. Dispatch(g, p, e, reopened) = Enter(a, p, m)
    BY <1>2, Zenon DEF Dispatch, Transit, n
  <2>2. Settles(g, a, b, held)
    <3>1. CASE portIsEnabled(g.state[p])
      <4> DEFINE s == g.state[p]
      <4>1. g = [g EXCEPT !.state[p] = s]
        BY <1>0 DEF TcRec
      <4>2. s \in States \ {"INITIALIZING"}
        BY <1>0
      <4> HIDE DEF s
      <4>3. Shuts(g, portOpDisable([g EXCEPT !.state[p] = s], p), b, held, p, s)
        BY <4>2, DisableShuts
      <4>4. Shuts(g, portOpDisable(g, p), b, held, p, s)
        BY <4>1, <4>3, Zenon
      <4> QED BY <3>1, <4>4 DEF Shuts, Settles
    <3>2. CASE ~portIsEnabled(g.state[p])
      BY <3>2, SettlesNow
    <3> QED BY <3>1, <3>2
  <2>3. m \in States \ {"INITIALIZING"}
    BY DEF States
  <2> HIDE DEF a, m
  <2>4. Event(a, b, held) /\ p \in PortsOf(a)
    BY <2>2 DEF Settles, Shrinks, PortsOf
  <2>5. Settles(a, Enter(a, p, m), b, held)
    BY <2>3, <2>4, EnterSettles
  <2>6. Settles(g, Enter(a, p, m), b, held)
    BY <2>2, <2>5, SettlesTwice
  <2> QED BY <2>1, <2>6
<1>3. CASE ~(n = "INITIALIZING" \/ (n = "FAULTY" /\ Asap))
  <2>1. Dispatch(g, p, e, reopened) = Enter(g, p, n)
    BY <1>3, Zenon DEF Dispatch, Transit, n
  <2>2. Settles(g, Enter(g, p, n), b, held)
    BY <1>1, <1>3, EnterSettles
  <2> QED BY <2>1, <2>2
<1> QED BY <1>2, <1>3

LEMMA FaultSettles ==
  ASSUME NEW b, NEW held \in [Msgs -> Nat], NEW g, Event(g, b, held), NEW p \in PortsOf(g)
  PROVE  Settles(g, Fault(g, p), b, held)
<1>1. "FAULT_DETECTED" \in Events
  BY DEF Events
<1> QED BY <1>1, DispatchSettles DEF Fault

----------------------------------------------------------------------------
(* An egress port completes or remembers a message.                        *)

(* At port p, for message c.                                               *)
Moves(g, h, c, p) ==
    /\ h.conf = g.conf /\ h.unsent = g.unsent /\ h.failed = g.failed
    /\ g.torn \subseteq h.torn
    /\ \A r \in PortsOf(g), d \in Msgs :
          Remembers(h, r, d) => Remembers(g, r, d) \/ (r = p /\ d = c)

Advances(g, h, b, held, c, p) == Event(h, b, held) /\ Moves(g, h, c, p)

LEMMA SettledAdvances ==
  ASSUME NEW b, NEW held, NEW c, NEW p, NEW g, NEW h, Settles(g, h, b, held)
  PROVE  Advances(g, h, b, held, c, p)
  BY DEF Settles, Shrinks, Advances, Moves

LEMMA AdvancesTwice ==
  ASSUME NEW b, NEW held, NEW c, NEW p, NEW g, NEW h, NEW k,
         Advances(g, h, b, held, c, p), Advances(h, k, b, held, c, p)
  PROVE  Advances(g, k, b, held, c, p)
  BY DEF Advances, Moves, PortsOf

NewEntry(g, q, p, c) == [msg |-> c, ingress |-> q, residence |-> Residence(g, q, p, c)]

(* The list of p may take the entry.                                       *)
Fits(g, p, e) ==
    /\ ~Remembers(g, p, e.msg)
    /\ \A i \in 1 .. Len(g.queue[p]) :
          ~Pair(g.body, g.queue[p][i], e) /\ ~Pair(g.body, e, g.queue[p][i])
    /\ IsDown(g.state[p]) => Bypasses(g, e)

(* Who holds a message then.                                               *)
LEMMA RememberedHolders ==
  ASSUME NEW g, Typed(g), NEW p \in PortsOf(g), NEW c, ~Remembers(g, p, c),
         NEW k, k.conf = g.conf, NEW d,
         \A r \in PortsOf(g) : Remembers(k, r, d) <=> Remembers(g, r, d) \/ (r = p /\ d = c)
  PROVE  Cardinality(Holders(k, d)) = Cardinality(Holders(g, d)) + (IF d = c THEN 1 ELSE 0)
<1>1. IsFiniteSet(Holders(g, d)) /\ Cardinality(Holders(g, d)) \in Nat
  BY HoldersCount
<1>2. PortsOf(k) = PortsOf(g)
  BY DEF PortsOf
<1>3. CASE d = c
  <2>1. Holders(k, d) = Holders(g, d) \cup {p} /\ p \notin Holders(g, d)
    BY <1>2, <1>3 DEF Holders
  <2>2. Cardinality(Holders(g, d) \cup {p}) = Cardinality(Holders(g, d)) + 1
    BY <1>1, <2>1, FS_AddElement
  <2> QED BY <1>3, <2>1, <2>2
<1>4. CASE d # c
  <2>1. Holders(k, d) = Holders(g, d)
    BY <1>2, <1>4 DEF Holders
  <2> QED BY <1>1, <1>4, <2>1
<1> QED BY <1>3, <1>4

LEMMA RememberAdvances ==
  ASSUME NEW b, NEW held \in [Msgs -> Nat], NEW g, Event(g, b, held),
         NEW q \in PortsOf(g), NEW p \in PortsOf(g), NEW c \in Msgs, held[c] > 0, b[c] \in Message,
         g.torn = {} => Fits(g, p, NewEntry(g, q, p, c))
  PROVE  Advances(g, Remember(g, q, p, c), b, held, c, p)
<1> DEFINE e == NewEntry(g, q, p, c)
           old == g.queue[p]
           list == Append(old, e)
           Q == [g.queue EXCEPT ![p] = list]
           R == [g.refcnt EXCEPT ![c] = @ + 1]
           k == [g EXCEPT !.refcnt = R, !.queue = Q]
<1>0. Typed(g) /\ g \in TcRec(g.conf) /\ g.body = b /\ Said(g)
  BY DEF Event, Typed
<1>1. /\ e \in Entry(g.conf.ports) /\ e.msg = c /\ e.ingress = q
      /\ e.residence.in = q /\ e.residence.out = p
      /\ Measured(b, e)
  <2>1. b[c].type \in Kinds /\ b[c].key \in Keys
    BY DEF Message
  <2> QED BY <1>0, <2>1 DEF NewEntry, Residence, Entry, Times, PortsOf, Measured
<1> HIDE DEF e
<1>2. Len(old) \in Nat /\ old \in Seq(Entry(g.conf.ports))
  BY <1>0, EntriesTyped
<1>3. /\ list \in Seq(Entry(g.conf.ports)) /\ Len(list) = Len(old) + 1
      /\ list[Len(old) + 1] = e /\ \A i \in 1 .. Len(old) : list[i] = old[i]
  BY <1>1, <1>2
<1>4. R \in [Msgs -> Int] /\ \A d \in Msgs : R[d] = g.refcnt[d] + (IF d = c THEN 1 ELSE 0)
  BY <1>0 DEF TcRec
<1>5. Remember(g, q, p, c) = k
  <2>1. msg_get(g, c) = [g EXCEPT !.refcnt = R]
    BY DEF msg_get
  <2>2. msg_get(g, c).queue = g.queue
    BY <2>1, <1>0 DEF TcRec
  <2>3. [msg_get(g, c) EXCEPT !.queue[p] = Append(@, e)] = [msg_get(g, c) EXCEPT !.queue = Q]
    BY <2>2
  <2>4. [[g EXCEPT !.refcnt = R] EXCEPT !.queue = Q] = k
    OBVIOUS
  <2>5. Remember(g, q, p, c) = [msg_get(g, c) EXCEPT !.queue[p] = Append(@, e)]
    BY DEF Remember, e, NewEntry
  <2> QED BY <2>1, <2>3, <2>4, <2>5, Zenon
<1> HIDE DEF list, R
<1>6. Q \in [1 .. g.conf.ports -> Seq(Entry(g.conf.ports))] /\ Q[p] = list
      /\ \A r \in PortsOf(g) \ {p} : Q[r] = g.queue[r]
  <2>1. g.queue \in [1 .. g.conf.ports -> Seq(Entry(g.conf.ports))]
    BY <1>0 DEF TcRec
  <2> QED BY <2>1, <1>3, Zenon DEF PortsOf
<1> HIDE DEF Q
<1>7. /\ k \in TcRec(g.conf) /\ k.body = g.body /\ k.torn = g.torn /\ k.conf = g.conf
      /\ k.state = g.state /\ k.queue = Q /\ k.refcnt = R
      /\ k.pool = g.pool /\ k.total = g.total
      /\ k.sent = g.sent /\ k.unsent = g.unsent /\ k.failed = g.failed
  BY <1>0, <1>4, <1>6 DEF TcRec
<1> HIDE DEF k
<1>8. PortsOf(k) = PortsOf(g)
  BY <1>7 DEF PortsOf
<1>9. ASSUME NEW r \in PortsOf(g), NEW i \in 1 .. Len(k.queue[r])
      PROVE  (i \in 1 .. Len(g.queue[r]) /\ k.queue[r][i] = g.queue[r][i])
             \/ (r = p /\ i = Len(old) + 1 /\ k.queue[r][i] = e)
  <2>1. CASE r = p
    BY <2>1, <1>2, <1>3, <1>6, <1>7
  <2>2. CASE r # p
    BY <2>2, <1>6, <1>7
  <2> QED BY <2>1, <2>2
<1>10. Typed(k)
  <2> SUFFICES ASSUME NEW r \in PortsOf(g), NEW i \in 1 .. Len(k.queue[r])
               PROVE  /\ k.queue[r][i].residence.in = k.queue[r][i].ingress
                      /\ k.queue[r][i].residence.out = r
    BY <1>0, <1>7, <1>8 DEF Typed, OwnWay
  <2>1. CASE i \in 1 .. Len(g.queue[r]) /\ k.queue[r][i] = g.queue[r][i]
    BY <2>1, <1>0 DEF Typed, OwnWay
  <2>2. CASE r = p /\ k.queue[r][i] = e
    BY <2>2, <1>1
  <2> QED BY <2>1, <2>2, <1>9
<1>11. Said(k)
  <2> SUFFICES ASSUME NEW r \in PortsOf(g), NEW i \in 1 .. Len(k.queue[r])
               PROVE  Measured(k.body, k.queue[r][i])
    BY <1>8 DEF Said
  <2> QED BY <1>0, <1>1, <1>7, <1>9 DEF Said
<1>12. \A r \in PortsOf(g), d \in Msgs :
          Remembers(k, r, d) <=> Remembers(g, r, d) \/ (r = p /\ d = c)
  <2> TAKE r \in PortsOf(g), d \in Msgs
  <2>1. ASSUME Remembers(k, r, d) PROVE Remembers(g, r, d) \/ (r = p /\ d = c)
    BY <2>1, <1>1, <1>9 DEF Remembers
  <2>2. ASSUME r = p, d = c PROVE Remembers(k, r, d)
    <3>1. Len(old) + 1 \in 1 .. Len(k.queue[p]) /\ k.queue[p][Len(old) + 1] = e
      BY <1>2, <1>3, <1>6, <1>7
    <3> QED BY <2>2, <3>1, <1>1 DEF Remembers
  <2>3. ASSUME Remembers(g, r, d) PROVE Remembers(k, r, d)
    <3>1. PICK i \in 1 .. Len(g.queue[r]) : g.queue[r][i].msg = d
      BY <2>3 DEF Remembers
    <3>2. i \in 1 .. Len(k.queue[r]) /\ k.queue[r][i] = g.queue[r][i]
      <4>1. CASE r = p
        <5>1. k.queue[r] = list /\ g.queue[r] = old
          BY <4>1, <1>6, <1>7
        <5>2. i \in 1 .. Len(old)
          BY <5>1
        <5> HIDE DEF old
        <5>3. i \in 1 .. Len(list) /\ list[i] = old[i]
          BY <5>2, <1>2, <1>3
        <5> QED BY <5>1, <5>3
      <4>2. CASE r # p
        BY <4>2, <1>6, <1>7
      <4> QED BY <4>1, <4>2
    <3> QED BY <3>1, <3>2 DEF Remembers
  <2> QED BY <2>1, <2>2, <2>3
<1>13. ASSUME k.torn = {} PROVE Sound(k, held)
  <2>1. Sound(g, held) /\ Fits(g, p, e)
    BY <1>7, <1>13 DEF Event, e
  <2>2. ~Remembers(g, p, c)
    BY <1>1, <2>1 DEF Fits
  <2>3. Counted(k, held)
    <3> SUFFICES ASSUME NEW d \in Msgs
                 PROVE  k.refcnt[d] = held[d] + Cardinality(Holders(k, d))
      BY DEF Counted
    <3>1. Cardinality(Holders(k, d)) = Cardinality(Holders(g, d)) + (IF d = c THEN 1 ELSE 0)
      BY <1>0, <1>7, <1>12, <2>2, RememberedHolders
    <3>2. g.refcnt[d] = held[d] + Cardinality(Holders(g, d))
      BY <2>1 DEF Sound, Counted
    <3>3. Cardinality(Holders(g, d)) \in Nat /\ held[d] \in Nat
      BY <1>0, HoldersCount
    <3> QED BY <3>1, <3>2, <3>3, <1>4, <1>7
  <2>4. Counts(k, k.refcnt)
    <3> DEFINE own == g.refcnt
               more == [own EXCEPT ![c] = @ + 1]
               h == msg_get(g, c)
    <3>1. IsPool(g) /\ Counts(g, own)
      BY <1>0, <2>1, TcIsPool DEF Sound
    <3>2. own[c] > 0
      <4>1. own[c] = held[c] + Cardinality(Holders(g, c))
        BY <2>1 DEF Sound, Counted
      <4>2. Cardinality(Holders(g, c)) \in Nat
        BY <1>0, HoldersCount
      <4> QED BY <4>1, <4>2
    <3>3. more = R
      BY DEF R
    <3>4. h = [g EXCEPT !.refcnt = R]
      BY DEF msg_get, R
    <3>5. h.pool = g.pool /\ h.total = g.total /\ h.refcnt = R
      BY <3>4, <1>0 DEF TcRec
    <3> HIDE DEF own, h
    <3>6. Counts(h, more)
      BY <3>1, <3>2, GetOwned DEF h
    <3> HIDE DEF more
    <3>7. Counts(h, R)
      BY <3>3, <3>6
    <3>8. Counts(k, R)
      BY <3>5, <3>7, <1>7, SamePool
    <3> QED BY <3>8, <1>7
  <2>5. \A r \in PortsOf(k) : OneEach(k.queue[r])
    <3> SUFFICES ASSUME NEW r \in PortsOf(g), NEW i \in 1 .. Len(k.queue[r]),
                        NEW j \in 1 .. Len(k.queue[r]), k.queue[r][i].msg = k.queue[r][j].msg
                 PROVE  i = j
      BY <1>8 DEF OneEach
    <3>1. OneEach(g.queue[r])
      BY <2>1 DEF Sound
    <3>2. \A m \in 1 .. Len(g.queue[p]) : g.queue[p][m].msg # c
      BY <2>2 DEF Remembers
    <3> DEFINE Old(m) == m \in 1 .. Len(g.queue[r]) /\ k.queue[r][m] = g.queue[r][m]
               New(m) == r = p /\ m = Len(old) + 1 /\ k.queue[r][m] = e
    <3>3. (Old(i) \/ New(i)) /\ (Old(j) \/ New(j))
      BY <1>9
    <3>4. CASE Old(i) /\ Old(j)
      BY <3>1, <3>4 DEF OneEach
    <3>5. CASE Old(i) /\ New(j)
      BY <3>2, <3>5, <1>1
    <3>6. CASE New(i) /\ Old(j)
      BY <3>2, <3>6, <1>1
    <3>7. CASE New(i) /\ New(j)
      BY <3>7
    <3> HIDE DEF Old, New
    <3> QED BY <3>3, <3>4, <3>5, <3>6, <3>7
  <2>6. NoPair(k)
    <3> SUFFICES ASSUME NEW r \in PortsOf(g), NEW i \in 1 .. Len(k.queue[r]),
                        NEW j \in 1 .. Len(k.queue[r])
                 PROVE  ~Pair(k.body, k.queue[r][i], k.queue[r][j])
      BY <1>8 DEF NoPair
    <3>1. \A m, n \in 1 .. Len(g.queue[r]) : ~Pair(g.body, g.queue[r][m], g.queue[r][n])
      BY <2>1 DEF Sound, NoPair
    <3>2. \A m \in 1 .. Len(g.queue[p]) :
             ~Pair(g.body, g.queue[p][m], e) /\ ~Pair(g.body, e, g.queue[p][m])
      BY <2>1 DEF Fits
    <3>3. ~Pair(g.body, e, e)
      BY DEF Pair
    <3>4. k.body = g.body
      BY <1>7
    <3> QED BY <3>1, <3>2, <3>3, <3>4, <1>9
  <2>7. DownBypassing(k)
    <3> SUFFICES ASSUME NEW r \in PortsOf(g), IsDown(k.state[r]),
                        NEW i \in 1 .. Len(k.queue[r])
                 PROVE  Bypasses(k, k.queue[r][i])
      BY <1>8 DEF DownBypassing
    <3>1. IsDown(g.state[r])
      BY <1>7
    <3>2. Bypasses(g, k.queue[r][i])
      BY <3>1, <1>9, <2>1 DEF Sound, DownBypassing, Fits
    <3> QED BY <1>7, <3>2 DEF Bypasses
  <2> QED BY <2>3, <2>4, <2>5, <2>6, <2>7 DEF Sound
<1>14. Event(k, b, held)
  BY <1>0, <1>7, <1>10, <1>11, <1>13 DEF Event
<1>15. Moves(g, k, c, p)
  BY <1>7, <1>12 DEF Moves
<1> QED BY <1>5, <1>14, <1>15 DEF Advances

(* The messages of D are released, and rest remains of the list of p.      *)
Remains(g, h, p, rest, D) ==
    /\ Took(g, h, D)
    /\ OneEach(rest)
    /\ \A c \in Msgs : (\E i \in 1 .. Len(rest) : rest[i].msg = c) <=> Remembers(g, p, c) /\ c \notin D
    /\ \A c \in D : Remembers(g, p, c)

LEMMA TakenOut ==
  ASSUME NEW b, NEW held \in [Msgs -> Nat], NEW g, Event(g, b, held), NEW p \in PortsOf(g),
         NEW h, Repools(g, h), NEW rest \in Seq(Entry(g.conf.ports)),
         \A i \in 1 .. Len(rest) : \E j \in 1 .. Len(g.queue[p]) : rest[i] = g.queue[p][j],
         NEW D, g.torn = {} => Remains(g, h, p, rest, D)
  PROVE  Settles(g, [h EXCEPT !.queue[p] = rest], b, held)
<1> DEFINE Q == [g.queue EXCEPT ![p] = rest]
           k == [h EXCEPT !.queue = Q]
<1>0. Typed(g) /\ g \in TcRec(g.conf)
  BY DEF Event, Typed
<1>1. h \in TcRec(g.conf) /\ SameButPool(g, h)
  BY <1>0, RepoolsFields
<1>2. [h EXCEPT !.queue[p] = rest] = k
  BY <1>1 DEF SameButPool
<1>3. Q \in [1 .. g.conf.ports -> Seq(Entry(g.conf.ports))] /\ Q[p] = rest
      /\ \A r \in PortsOf(g) \ {p} : Q[r] = g.queue[r]
  <2>1. g.queue \in [1 .. g.conf.ports -> Seq(Entry(g.conf.ports))]
    BY <1>0 DEF TcRec
  <2> QED BY <2>1, Zenon DEF PortsOf
<1> HIDE DEF Q
<1>4. /\ k \in TcRec(g.conf) /\ k.body = h.body /\ k.torn = h.torn /\ k.conf = h.conf
      /\ k.state = h.state /\ k.queue = Q
      /\ k.pool = h.pool /\ k.refcnt = h.refcnt /\ k.total = h.total
      /\ k.sent = h.sent /\ k.unsent = h.unsent /\ k.failed = h.failed
  BY <1>1, <1>3 DEF TcRec
<1> HIDE DEF k
<1>5. /\ k.body = g.body /\ k.torn = g.torn /\ k.conf = g.conf /\ k.state = g.state
      /\ k.sent = g.sent /\ k.unsent = g.unsent /\ k.failed = g.failed
  BY <1>1, <1>4 DEF SameButPool
<1>6. ElsewhereSame(g, k, p) /\ OnlyOld(g, k, p)
  BY <1>3, <1>4, <1>5 DEF ElsewhereSame, OnlyOld
<1>7. ASSUME k.torn = {} PROVE Gone(g, k, p, D)
  <2>1. Remains(g, h, p, rest, D)
    BY <1>5, <1>7
  <2>2. Took(g, k, D)
    <3>1. Counts(k, k.refcnt)
      <4> DEFINE own == h.refcnt
      <4>1. Counts(h, own) /\ k.refcnt = own
        BY <1>4, <2>1 DEF Remains, Took
      <4> HIDE DEF own
      <4>2. Counts(k, own)
        BY <1>4, <4>1, SamePool DEF own
      <4> QED BY <4>1, <4>2
    <3> QED BY <3>1, <2>1, <1>4 DEF Remains, Took
  <2>3. k.queue[p] = rest
    BY <1>3, <1>4
  <2> QED BY <2>1, <2>2, <2>3 DEF Gone, Remains, Remembers
<1>8. Event(k, b, held)
  <2>1. k \in TcRec(g.conf) /\ k.body = g.body /\ g.torn \subseteq k.torn /\ k.state[p] = g.state[p]
    BY <1>4, <1>5
  <2> QED BY <2>1, <1>6, <1>7, Pulled
<1>9. Shrinks(g, k)
  <2> SUFFICES ASSUME NEW r \in PortsOf(g), NEW d \in Msgs, Remembers(k, r, d)
               PROVE  Remembers(g, r, d)
    BY <1>5 DEF Shrinks
  <2>1. CASE r = p
    <3>1. PICK i \in 1 .. Len(rest) : rest[i].msg = d
      BY <2>1, <1>3, <1>4 DEF Remembers
    <3>2. PICK j \in 1 .. Len(g.queue[p]) : rest[i] = g.queue[p][j]
      BY <3>1
    <3> QED BY <2>1, <3>1, <3>2 DEF Remembers
  <2>2. CASE r # p
    BY <2>2, <1>3, <1>4 DEF Remembers
  <2> QED BY <2>1, <2>2
<1> QED BY <1>2, <1>8, <1>9 DEF Settles

(* The place of an entry in a list, or 0.                                  *)
LEMMA FirstPlace ==
  ASSUME NEW n \in Nat, NEW I \in SUBSET (1 .. n)
  PROVE  LET i == IF I # {} THEN Min(I) ELSE 0
         IN  IF I = {} THEN i = 0 ELSE i \in I
<1>1. CASE I = {}
  BY <1>1
<1>2. CASE I # {}
  <2>1. I \in SUBSET Nat
    OBVIOUS
  <2>2. \E m \in I : \A k \in I : m <= k
    BY <1>2, <2>1, Least
  <2>3. Min(I) \in I
    BY <2>2 DEF Min
  <2> QED BY <1>2, <2>3
<1> QED BY <1>1, <1>2

(* A list without its entry i.                                             *)
LEMMA Without ==
  ASSUME NEW X, NEW s \in Seq(X), NEW i \in 1 .. Len(s)
  PROVE  LET r == RemoveAt(s, i)
         IN  /\ r \in Seq(X) /\ Len(r) = Len(s) - 1
             /\ \A j \in 1 .. Len(r) : r[j] = IF j < i THEN s[j] ELSE s[j + 1]
<1> DEFINE x == SubSeq(s, 1, i - 1)
           y == SubSeq(s, i + 1, Len(s))
<1>0. Len(s) \in Nat /\ i \in Nat /\ i >= 1 /\ i <= Len(s) /\ \A j \in 1 .. Len(s) : s[j] \in X
  OBVIOUS
<1>1. /\ x \in Seq(X) /\ Len(x) = i - 1 /\ \A j \in 1 .. i - 1 : x[j] = s[j]
  <2>1. \A j \in 1 .. i - 1 : s[j] \in X
    BY <1>0
  <2>2. 1 \in Int /\ i - 1 \in Int
    BY <1>0
  <2> HIDE DEF x
  <2>3. /\ x \in Seq(X) /\ Len(x) = (IF 1 <= i - 1 THEN (i - 1) - 1 + 1 ELSE 0)
        /\ \A j \in 1 .. (i - 1) - 1 + 1 : x[j] = s[1 + j - 1]
    BY <2>1, <2>2, SubSeqProperties DEF x
  <2>4. \A j \in 1 .. i - 1 : j \in 1 .. (i - 1) - 1 + 1 /\ 1 + j - 1 = j
    BY <1>0
  <2>5. Len(x) = i - 1
    BY <2>3, <1>0
  <2> QED BY <2>3, <2>4, <2>5
<1>2. /\ y \in Seq(X) /\ Len(y) = Len(s) - i /\ \A j \in 1 .. Len(s) - i : y[j] = s[i + j]
  <2>1. \A j \in i + 1 .. Len(s) : s[j] \in X
    BY <1>0
  <2>2. i + 1 \in Int /\ Len(s) \in Int
    BY <1>0
  <2> HIDE DEF y
  <2>3. /\ y \in Seq(X) /\ Len(y) = (IF i + 1 <= Len(s) THEN Len(s) - (i + 1) + 1 ELSE 0)
        /\ \A j \in 1 .. Len(s) - (i + 1) + 1 : y[j] = s[i + 1 + j - 1]
    BY <2>1, <2>2, SubSeqProperties DEF y
  <2>4. \A j \in 1 .. Len(s) - i : j \in 1 .. Len(s) - (i + 1) + 1 /\ i + 1 + j - 1 = i + j
    BY <1>0
  <2>5. Len(y) = Len(s) - i
    BY <2>3, <1>0
  <2> QED BY <2>3, <2>4, <2>5
<1> HIDE DEF x, y
<1> DEFINE r == x \o y
<1>3. r \in Seq(X) /\ Len(r) = Len(x) + Len(y)
      /\ \A j \in 1 .. Len(x) + Len(y) : r[j] = IF j <= Len(x) THEN x[j] ELSE y[j - Len(x)]
  BY <1>1, <1>2, ConcatProperties
<1> HIDE DEF r
<1>4. Len(r) = Len(s) - 1
  BY <1>0, <1>1, <1>2, <1>3
<1>5. ASSUME NEW j \in 1 .. Len(r) PROVE r[j] = IF j < i THEN s[j] ELSE s[j + 1]
  <2>1. r[j] = IF j <= i - 1 THEN x[j] ELSE y[j - (i - 1)]
    BY <1>1, <1>2, <1>3
  <2>2. CASE j < i
    BY <2>1, <2>2, <1>0, <1>1
  <2>3. CASE ~(j < i)
    <3>1. j - (i - 1) \in 1 .. Len(s) - i /\ i + (j - (i - 1)) = j + 1
      BY <2>3, <1>0, <1>4
    <3> QED BY <2>1, <2>3, <3>1, <1>0, <1>2
  <2> QED BY <2>2, <2>3
<1>6. RemoveAt(s, i) = r
  BY DEF RemoveAt, r, x, y
<1> QED BY <1>3, <1>4, <1>5, <1>6

(* Where an entry is in a list.                                            *)
Place(s, t) == SelectInSeq(s, LAMBDA u : u = t)

(* A list without its first entry t.                                       *)
LEMMA FirstRemoved ==
  ASSUME NEW X, NEW s \in Seq(X), NEW t
  PROVE  LET i == Place(s, t)
         IN  IF i = 0 THEN \A j \in 1 .. Len(s) : s[j] # t
             ELSE i \in 1 .. Len(s) /\ s[i] = t /\ RemoveFirst(s, t) = RemoveAt(s, i)
<1> DEFINE I == {j \in 1 .. Len(s) : s[j] = t}
           i == IF I # {} THEN Min(I) ELSE 0
<1>1. Len(s) \in Nat /\ I \in SUBSET (1 .. Len(s))
  OBVIOUS
<1>2. Place(s, t) = i
  BY DEF Place, SelectInSeq
<1>3. IF I = {} THEN i = 0 ELSE i \in I
  <2> HIDE DEF I
  <2> QED BY <1>1, FirstPlace
<1>4. CASE I = {}
  BY <1>2, <1>3, <1>4
<1>5. CASE I # {}
  <2>1. i \in 1 .. Len(s) /\ s[i] = t
    BY <1>3, <1>5
  <2>2. RemoveFirst(s, t) = RemoveAt(s, Place(s, t))
    BY <1>5 DEF RemoveFirst, Place
  <2>3. i # 0
    BY <2>1
  <2> QED BY <1>2, <2>1, <2>2, <2>3
<1> QED BY <1>4, <1>5

(* An entry of the list of p goes, or tears the list.                      *)
LEMMA UnlinkAdvances ==
  ASSUME NEW b, NEW held \in [Msgs -> Nat], NEW g, Event(g, b, held), NEW p \in PortsOf(g),
         NEW t, t.msg \in Msgs, NEW c, NEW r
  PROVE  Advances(g, Unlink(g, p, t), b, held, c, r)
<1> DEFINE s == g.queue[p]
           h == Put(g, t.msg)
           i == Place(s, t)
<1>0. Typed(g) /\ g \in TcRec(g.conf)
  BY DEF Event, Typed
<1>1. Repools(g, h) /\ h \in TcRec(g.conf) /\ SameButPool(g, h)
  <2> HIDE DEF h
  <2>1. Repools(g, h)
    BY <1>0, PutRepools DEF h
  <2> QED BY <1>0, <2>1, RepoolsFields
<1>2. s \in Seq(Entry(g.conf.ports)) /\ Len(s) \in Nat
  BY <1>0, EntriesTyped
<1>3. IF i = 0 THEN \A j \in 1 .. Len(s) : s[j] # t
      ELSE i \in 1 .. Len(s) /\ s[i] = t /\ RemoveFirst(s, t) = RemoveAt(s, i)
  <2> HIDE DEF s
  <2> QED BY <1>2, FirstRemoved
<1>4. Unlink(g, p, t) = IF i = 0 THEN [h EXCEPT !.torn = @ \cup {p}]
                        ELSE [h EXCEPT !.queue[p] = RemoveFirst(@, t)]
  BY Zenon DEF Unlink, Place
<1> HIDE DEF i
<1>5. CASE i = 0
  <2> DEFINE torn == g.torn \cup {p}
             k == [h EXCEPT !.torn = torn]
  <2>1. Unlink(g, p, t) = k
    BY <1>1, <1>4, <1>5 DEF SameButPool
  <2>2. torn \in SUBSET (1 .. g.conf.ports) /\ torn # {}
    BY <1>0 DEF TcRec, PortsOf
  <2> HIDE DEF torn, h
  <2>3. /\ k \in TcRec(g.conf) /\ k.body = h.body /\ k.torn = torn /\ k.conf = h.conf
        /\ k.state = h.state /\ k.queue = h.queue
        /\ k.sent = h.sent /\ k.unsent = h.unsent /\ k.failed = h.failed
    BY <1>1, <2>2 DEF TcRec
  <2> HIDE DEF k
  <2>4. /\ k.body = g.body /\ k.conf = g.conf /\ k.state = g.state /\ k.queue = g.queue
        /\ k.unsent = g.unsent /\ k.failed = g.failed
    BY <1>1, <2>3 DEF SameButPool
  <2>5. ElsewhereSame(g, k, p) /\ OnlyOld(g, k, p) /\ g.torn \subseteq k.torn
    BY <2>3, <2>4 DEF ElsewhereSame, OnlyOld, torn
  <2>6. Event(k, b, held)
    <3>1. k.torn = {} => Gone(g, k, p, {})
      BY <2>2, <2>3
    <3>2. k \in TcRec(g.conf) /\ k.body = g.body /\ k.state[p] = g.state[p]
      BY <2>3, <2>4
    <3> QED BY <3>1, <3>2, <2>5, Pulled
  <2>7. Moves(g, k, c, r)
    BY <2>4, <2>5 DEF Moves, Remembers
  <2> QED BY <2>1, <2>6, <2>7 DEF Advances
<1>6. CASE i # 0
  <2> DEFINE rest == RemoveAt(s, i)
             k == [h EXCEPT !.queue[p] = rest]
  <2>1. i \in 1 .. Len(s) /\ s[i] = t /\ RemoveFirst(s, t) = rest
    BY <1>3, <1>6
  <2>2. Unlink(g, p, t) = k
    <3>1. h.queue[p] = s
      BY <1>1 DEF SameButPool
    <3> HIDE DEF h, s, rest
    <3>2. [h EXCEPT !.queue[p] = RemoveFirst(@, t)] = [h EXCEPT !.queue[p] = RemoveFirst(s, t)]
      BY <3>1, Zenon
    <3> QED BY <1>4, <1>6, <2>1, <3>2, Zenon
  <2>3. /\ rest \in Seq(Entry(g.conf.ports)) /\ Len(rest) = Len(s) - 1
        /\ \A j \in 1 .. Len(rest) : rest[j] = IF j < i THEN s[j] ELSE s[j + 1]
    <3> HIDE DEF s
    <3> QED BY <1>2, <2>1, Without
  <2> HIDE DEF rest, h
  <2>4. ASSUME NEW j \in 1 .. Len(rest)
        PROVE  \E m \in 1 .. Len(s) : rest[j] = s[m] /\ m # i
    <3>1. CASE j < i
      BY <3>1, <1>2, <2>1, <2>3
    <3>2. CASE ~(j < i)
      <4>1. j + 1 \in 1 .. Len(s) /\ j + 1 # i /\ rest[j] = s[j + 1]
        BY <3>2, <1>2, <2>1, <2>3
      <4> QED BY <4>1
    <3> QED BY <3>1, <3>2
  <2>5. ASSUME NEW m \in 1 .. Len(s), m # i
        PROVE  \E j \in 1 .. Len(rest) : rest[j] = s[m]
    <3>1. CASE m < i
      <4>1. m \in 1 .. Len(rest) /\ rest[m] = s[m]
        BY <3>1, <1>2, <2>1, <2>3
      <4> QED BY <4>1
    <3>2. CASE ~(m < i)
      <4>1. m - 1 \in 1 .. Len(rest) /\ ~(m - 1 < i) /\ (m - 1) + 1 = m
        BY <3>2, <2>5, <1>2, <2>1, <2>3
      <4> QED BY <4>1, <2>3
    <3> QED BY <3>1, <3>2
  <2>6. ASSUME g.torn = {} PROVE Remains(g, h, p, rest, {t.msg})
    <3>1. Sound(g, held)
      BY <2>6 DEF Event
    <3>2. OneEach(s)
      BY <3>1 DEF Sound
    <3>3. Remembers(g, p, t.msg)
      BY <2>1 DEF Remembers
    <3>4. g.refcnt[t.msg] > 0
      <4>1. g.refcnt[t.msg] > held[t.msg] /\ held[t.msg] \in Nat /\ g.refcnt[t.msg] \in Int
        BY <1>0, <3>1, <3>3, RememberedLives DEF TcRec
      <4> QED BY <4>1
    <3>5. Took(g, h, {t.msg})
      BY <1>0, <3>1, <3>4, PutTakes DEF Sound, h
    <3>6. ASSUME NEW j \in 1 .. Len(rest), NEW m \in 1 .. Len(rest), rest[j].msg = rest[m].msg
          PROVE  j = m
      <4> DEFINE x == IF j < i THEN j ELSE j + 1
                 y == IF m < i THEN m ELSE m + 1
      <4>1. x \in 1 .. Len(s) /\ y \in 1 .. Len(s) /\ rest[j] = s[x] /\ rest[m] = s[y]
        BY <1>2, <2>1, <2>3
      <4>2. x = y
        BY <3>2, <3>6, <4>1 DEF OneEach
      <4> QED BY <4>2, <1>2, <2>1, <2>3
    <3>7. ASSUME NEW d \in Msgs
          PROVE  (\E j \in 1 .. Len(rest) : rest[j].msg = d) <=> Remembers(g, p, d) /\ d \notin {t.msg}
      <4>1. ASSUME NEW j \in 1 .. Len(rest), rest[j].msg = d
            PROVE  Remembers(g, p, d) /\ d # t.msg
        <5>1. PICK m \in 1 .. Len(s) : rest[j] = s[m] /\ m # i
          BY <2>4
        <5> QED BY <5>1, <4>1, <2>1, <3>2 DEF OneEach, Remembers
      <4>2. ASSUME Remembers(g, p, d), d # t.msg
            PROVE  \E j \in 1 .. Len(rest) : rest[j].msg = d
        <5>1. PICK m \in 1 .. Len(s) : s[m].msg = d
          BY <4>2 DEF Remembers
        <5>2. m # i
          BY <5>1, <4>2, <2>1
        <5> QED BY <5>1, <5>2, <2>5
      <4> QED BY <4>1, <4>2
    <3>8. OneEach(rest)
      BY <3>6 DEF OneEach
    <3> QED BY <3>3, <3>5, <3>7, <3>8 DEF Remains
  <2>7. \A j \in 1 .. Len(rest) : \E m \in 1 .. Len(g.queue[p]) : rest[j] = g.queue[p][m]
    BY <2>4
  <2> HIDE DEF s
  <2>8. Settles(g, k, b, held)
    BY <1>1, <2>3, <2>6, <2>7, TakenOut
  <2> QED BY <2>2, <2>8, SettledAdvances
<1> QED BY <1>5, <1>6

(* A message is sent with its own residence time.                          *)
LEMMA SendAdvances ==
  ASSUME NEW b, NEW held \in [Msgs -> Nat], NEW g, Event(g, b, held),
         NEW q \in PortsOf(g), NEW p \in PortsOf(g), NEW c \in Msgs, b[c] \in Message,
         NEW more \in Seq(Times(g.conf.ports) \cup [link : PortsOf(g)]),
         OwnTime([type |-> b[c].type, from |-> q, to |-> p, key |-> b[c].key, corr |-> more]),
         NEW d, NEW r
  PROVE  Advances(g, SendCorrected(g, q, p, c, more), b, held, d, r)
<1> DEFINE n == g.conf.ports
           m == [type |-> b[c].type, from |-> q, to |-> p, key |-> b[c].key, corr |-> more]
           sent == g.sent \cup {m}
           k == [g EXCEPT !.sent = sent]
<1>1. Typed(g) /\ g \in TcRec(g.conf) /\ g.body = b
  BY DEF Event, Typed
<1>2. b[c].corr \o more = more
  <2> DEFINE X == Times(g.conf.ports) \cup [link : PortsOf(g)]
  <2>1. b[c].corr = <<>> /\ more \in Seq(X)
    BY DEF Message
  <2> HIDE DEF X
  <2>2. <<>> \o more = more
    BY <2>1, ConcatEmptySeq
  <2> QED BY <2>1, <2>2
<1>3. SendCorrected(g, q, p, c, more) = k
  BY <1>1, <1>2, Zenon DEF SendCorrected
<1>4. m \in Sent(n)
  <2>1. b[c].type \in Kinds /\ b[c].key \in Keys
    BY DEF Message
  <2>2. m \in Corrected(n)
    BY <2>1 DEF Corrected, PortsOf
  <2> QED BY <2>2 DEF Sent
<1> HIDE DEF m
<1>5. sent \in SUBSET Sent(n)
  <2>1. g.sent \in SUBSET Sent(n)
    BY <1>1 DEF TcRec
  <2> QED BY <1>4, <2>1
<1> HIDE DEF sent
<1>6. /\ k \in TcRec(g.conf) /\ k.body = g.body /\ k.torn = g.torn /\ k.conf = g.conf
      /\ k.state = g.state /\ k.queue = g.queue /\ k.refcnt = g.refcnt
      /\ k.pool = g.pool /\ k.total = g.total /\ k.unsent = g.unsent /\ k.failed = g.failed
  BY <1>1, <1>5 DEF TcRec
<1> HIDE DEF k
<1>7. ElsewhereSame(g, k, p) /\ OnlyOld(g, k, p) /\ k.state[p] = g.state[p]
  BY <1>6 DEF ElsewhereSame, OnlyOld
<1>8. ASSUME k.torn = {} PROVE Gone(g, k, p, {})
  <2>1. Sound(g, held)
    BY <1>6, <1>8 DEF Event
  <2>2. Counts(k, k.refcnt)
    <3> DEFINE own == g.refcnt
    <3>1. Counts(g, own) /\ k.refcnt = own
      BY <1>6, <2>1 DEF Sound
    <3> HIDE DEF own
    <3>2. Counts(k, own)
      BY <1>6, <3>1, SamePool DEF own
    <3> QED BY <3>1, <3>2
  <2>3. \A e \in Msgs : g.refcnt[e] \in Int
    BY <1>1 DEF TcRec
  <2>4. Took(g, k, {})
    BY <1>6, <2>2, <2>3 DEF Took
  <2> QED BY <1>6, <2>1, <2>4 DEF Gone, Sound, Remembers
<1>9. Event(k, b, held)
  <2>1. g.torn \subseteq k.torn
    BY <1>6
  <2> QED BY <2>1, <1>6, <1>7, <1>8, Pulled
<1>10. Moves(g, k, d, r)
  BY <1>6 DEF Moves, Remembers
<1> QED BY <1>3, <1>9, <1>10 DEF Advances

(* Where the match of a message is in a list.                              *)
MatchDelay(g, p, c, s) == SelectInSeq(s, LAMBDA t : tc_match_delay(g, p, c, t))
MatchSyfup(g, q, c, s) == SelectInSeq(s, LAMBDA t : tc_match_syfup(g, q, c, t))

LEMMA DelayMatched ==
  ASSUME NEW g, NEW p, NEW c, NEW s, Len(s) \in Nat
  PROVE  LET i == MatchDelay(g, p, c, s)
         IN  IF i = 0 THEN \A j \in 1 .. Len(s) : ~tc_match_delay(g, p, c, s[j])
             ELSE i \in 1 .. Len(s) /\ tc_match_delay(g, p, c, s[i])
<1> DEFINE I == {j \in 1 .. Len(s) : tc_match_delay(g, p, c, s[j])}
           i == IF I # {} THEN Min(I) ELSE 0
<1>1. I \in SUBSET (1 .. Len(s))
  OBVIOUS
<1>2. MatchDelay(g, p, c, s) = i
  BY DEF MatchDelay, SelectInSeq
<1>3. IF I = {} THEN i = 0 ELSE i \in I
  <2> HIDE DEF I
  <2> QED BY <1>1, FirstPlace
<1>4. I # {} => i # 0
  BY <1>3
<1> QED BY <1>2, <1>3, <1>4

LEMMA SyfupMatched ==
  ASSUME NEW g, NEW q, NEW c, NEW s, Len(s) \in Nat
  PROVE  LET i == MatchSyfup(g, q, c, s)
         IN  IF i = 0 THEN \A j \in 1 .. Len(s) : ~tc_match_syfup(g, q, c, s[j])
             ELSE i \in 1 .. Len(s) /\ tc_match_syfup(g, q, c, s[i])
<1> DEFINE I == {j \in 1 .. Len(s) : tc_match_syfup(g, q, c, s[j])}
           i == IF I # {} THEN Min(I) ELSE 0
<1>1. I \in SUBSET (1 .. Len(s))
  OBVIOUS
<1>2. MatchSyfup(g, q, c, s) = i
  BY DEF MatchSyfup, SelectInSeq
<1>3. IF I = {} THEN i = 0 ELSE i \in I
  <2> HIDE DEF I
  <2> QED BY <1>1, FirstPlace
<1>4. I # {} => i # 0
  BY <1>3
<1> QED BY <1>2, <1>3, <1>4

(* What is true of every event that forwards message c, which came in on   *)
(* q, at port p.                                                           *)
Going(g, b, held, q, p, c) ==
    /\ held \in [Msgs -> Nat] /\ Event(g, b, held) /\ g.conf = tc.conf
    /\ q \in PortsOf(g) /\ p \in PortsOf(g)
    /\ c \in Msgs /\ held[c] > 0 /\ b[c] \in Message

LEMMA FaultAdvances ==
  ASSUME NEW b, NEW held, NEW g, NEW q, NEW p, NEW c, Going(g, b, held, q, p, c)
  PROVE  Advances(g, Fault(g, p), b, held, c, p)
<1>1. Settles(g, Fault(g, p), b, held)
  BY FaultSettles DEF Going
<1> QED BY <1>1, SettledAdvances

(* A request is remembered where it went out.                              *)
LEMMA RequestAdvances ==
  ASSUME NEW b, NEW held, NEW g, NEW q, NEW p, NEW c, Going(g, b, held, q, p, c),
         b[c].type = "DELAY_REQ", IsOpen(g, p), ~Remembers(g, p, c), NEW out
  PROVE  Advances(g, tc_complete_request(g, q, p, c, out), b, held, c, p)
<1> DEFINE e == NewEntry(g, q, p, c)
<1>1. e.msg = c /\ g.body = b
  BY DEF NewEntry, Going, Event
<1> HIDE DEF e
<1>2. Fits(g, p, e)
  BY <1>1 DEF Fits, Pair, IsDown, IsOpen
<1>3. Advances(g, Remember(g, q, p, c), b, held, c, p)
  BY <1>2, RememberAdvances DEF Going, e
<1>4. Advances(g, Fault(g, p), b, held, c, p)
  BY FaultAdvances
<1> QED BY <1>3, <1>4 DEF tc_complete_request

(* Messages that match have the same key.                                  *)
LEMMA SameKey ==
  ASSUME NEW g, NEW c, NEW d, g.body[c] \in Message, g.body[d] \in Message, SameMessage(g, c, d)
  PROVE  g.body[c].key = g.body[d].key
<1> DEFINE x == g.body[c].key
           y == g.body[d].key
<1>1. x \in Keys /\ y \in Keys
  BY DEF Message
<1>2. x.sequenceId = y.sequenceId /\ x.source = y.source
  BY DEF SameMessage
<1> HIDE DEF x, y
<1>3. x = y
  BY <1>1, <1>2 DEF Keys
<1> QED BY <1>3 DEF x, y

(* A response takes the residence time of its request.                     *)
LEMMA ResponseAdvances ==
  ASSUME NEW b, NEW held, NEW g, NEW q, NEW p, NEW c, Going(g, b, held, q, p, c),
         b[c].type = "DELAY_RESP", NEW out
  PROVE  Advances(g, tc_complete_response(g, q, p, c, out), b, held, c, p)
<1> DEFINE s == g.queue[q]
           i == MatchDelay(g, p, c, s)
           t == s[i]
           h == IF IsOpen(g, p) /\ out[p] # "NO_GENERAL"
                THEN SendCorrected(g, q, p, c, <<t.residence>>)
                ELSE Fault(g, p)
<1>0. Typed(g) /\ Event(g, b, held) /\ q \in PortsOf(g) /\ p \in PortsOf(g)
      /\ held \in [Msgs -> Nat] /\ c \in Msgs /\ b[c] \in Message
      /\ g.body = b /\ Said(g)
  BY DEF Going, Event
<1>1. tc_complete_response(g, q, p, c, out) = IF i = 0 THEN g ELSE Unlink(h, q, t)
  BY Zenon DEF tc_complete_response, MatchDelay
<1>2. Len(s) \in Nat /\ \A j \in 1 .. Len(s) : s[j] \in Entry(g.conf.ports)
  BY <1>0, EntriesTyped
<1>3. IF i = 0 THEN \A j \in 1 .. Len(s) : ~tc_match_delay(g, p, c, s[j])
      ELSE i \in 1 .. Len(s) /\ tc_match_delay(g, p, c, s[i])
  <2> HIDE DEF s
  <2> QED BY <1>2, DelayMatched
<1> HIDE DEF i
<1>4. CASE i = 0
  <2>1. Advances(g, g, b, held, c, p)
    BY <1>0, SettlesNow, SettledAdvances
  <2> QED BY <2>1, <1>1, <1>4
<1>5. CASE i # 0
  <2>1. /\ i \in 1 .. Len(s) /\ t.ingress = p
        /\ b[t.msg].type = "DELAY_REQ" /\ SameMessage(g, c, t.msg)
    BY <1>0, <1>3, <1>5 DEF tc_match_delay
  <2>2. t \in Entry(g.conf.ports) /\ t.residence.in = p /\ t.residence.out = q
    BY <1>0, <1>2, <2>1 DEF Typed, OwnWay
  <2>10. Measured(b, t)
    BY <1>0, <2>1 DEF Said
  <2> HIDE DEF t
  <2>3. t.msg \in Msgs /\ t.residence \in Times(g.conf.ports)
    BY <2>2 DEF Entry
  <2>11. t.residence.type = "DELAY_REQ" /\ t.residence.key = b[c].key
    BY <1>0, <2>1, <2>10, SameKey DEF Measured
  <2>4. Advances(g, SendCorrected(g, q, p, c, <<t.residence>>), b, held, c, p)
    <3> DEFINE more == <<t.residence>>
               m == [type |-> b[c].type, from |-> q, to |-> p, key |-> b[c].key, corr |-> more]
    <3>1. more \in Seq(Times(g.conf.ports) \cup [link : PortsOf(g)])
      BY <2>3
    <3>2. m.type = "DELAY_RESP" /\ m.from = q /\ m.to = p /\ m.corr = more /\ m.key = b[c].key
          /\ more[1] = t.residence /\ Tail(more) = <<>>
      OBVIOUS
    <3>3. OwnTime(m)
      <4>1. t.residence = [in |-> p, out |-> q, type |-> "DELAY_REQ", key |-> b[c].key]
        BY <2>2, <2>3, <2>11 DEF Times
      <4> HIDE DEF m, more
      <4> QED BY <3>2, <4>1 DEF OwnTime
    <3> HIDE DEF more
    <3>4. Advances(g, SendCorrected(g, q, p, c, more), b, held, c, p)
      BY <1>0, <3>1, <3>3, SendAdvances
    <3> QED BY <3>4 DEF more
  <2>5. Advances(g, Fault(g, p), b, held, c, p)
    BY FaultAdvances
  <2>6. Advances(g, h, b, held, c, p)
    BY <2>4, <2>5
  <2> HIDE DEF h
  <2>7. Event(h, b, held) /\ q \in PortsOf(h)
    BY <1>0, <2>6 DEF Advances, Moves, PortsOf
  <2>8. Advances(h, Unlink(h, q, t), b, held, c, p)
    BY <1>0, <2>3, <2>7, UnlinkAdvances
  <2>9. Advances(g, Unlink(h, q, t), b, held, c, p)
    BY <2>6, <2>8, AdvancesTwice
  <2> QED BY <2>9, <1>1, <1>5
<1> QED BY <1>4, <1>5

(* What an event that is not held back by the tree does at a closed port.  *)
LEMMA Passes ==
  ASSUME NEW b, NEW held, NEW g, NEW q, NEW p, NEW c, Going(g, b, held, q, p, c),
         ~tc_blocked(g, q, p, c), IsDown(g.state[p]), b[c].type = "FOLLOW_UP",
         NEW e, e.msg = c, e.ingress = q
  PROVE  Bypasses(g, e)
<1>1. g.body = b /\ g.conf = tc.conf
  BY DEF Going, Event
<1>2. OffTree(g, q, p, g.body[c].type)
  BY DEF OffTree, IsDown, Mastering, Slaving
<1>3. q \notin g.conf.spanning \/ g.body[c].domain # 0
  BY <1>1, <1>2 DEF tc_blocked
<1> QED BY <1>1, <1>3 DEF Bypasses

(* A Sync and its Follow_Up meet, or the first one waits.                  *)
LEMMA SyfupAdvances ==
  ASSUME NEW b, NEW held, NEW g, NEW q, NEW p, NEW c, Going(g, b, held, q, p, c),
         b[c].type \in {"SYNC", "FOLLOW_UP"}, b[c].type = "SYNC" => IsOpen(g, p),
         ~tc_blocked(g, q, p, c), ~Remembers(g, p, c), NEW out
  PROVE  Advances(g, tc_complete_syfup(g, q, p, c, out), b, held, c, p)
<1> DEFINE s == g.queue[p]
           i == MatchSyfup(g, q, c, s)
           t == s[i]
           fup == IF b[c].type = "SYNC" THEN t.msg ELSE c
           residence == IF b[c].type = "SYNC" THEN Residence(g, q, p, c) ELSE t.residence
           more == <<residence, LinkDelay(q)>>
           h == IF IsOpen(g, p) /\ out[p] # "NO_GENERAL"
                THEN SendCorrected(g, q, p, fup, more)
                ELSE Fault(g, p)
           e == NewEntry(g, q, p, c)
<1>0. /\ Typed(g) /\ Event(g, b, held) /\ q \in PortsOf(g) /\ p \in PortsOf(g)
      /\ held \in [Msgs -> Nat] /\ c \in Msgs /\ b[c] \in Message /\ g.body = b /\ Said(g)
  BY DEF Going, Event
<1>1. tc_complete_syfup(g, q, p, c, out) =
        IF i # 0 THEN Unlink(h, p, t)
        ELSE IF out[p] = "NO_TXD" THEN Fault(g, p) ELSE Remember(g, q, p, c)
  BY <1>0, Zenon DEF tc_complete_syfup, MatchSyfup
<1>2. Len(s) \in Nat /\ \A j \in 1 .. Len(s) : s[j] \in Entry(g.conf.ports)
  BY <1>0, EntriesTyped
<1>3. IF i = 0 THEN \A j \in 1 .. Len(s) : ~tc_match_syfup(g, q, c, s[j])
      ELSE i \in 1 .. Len(s) /\ tc_match_syfup(g, q, c, s[i])
  <2> HIDE DEF s
  <2> QED BY <1>2, SyfupMatched
<1> HIDE DEF i
<1>4. Advances(g, Fault(g, p), b, held, c, p)
  BY FaultAdvances
<1>5. CASE i = 0
  <2>1. e.msg = c /\ e.ingress = q
    BY DEF NewEntry
  <2> HIDE DEF e
  <2>2. ASSUME NEW j \in 1 .. Len(s), Pair(g.body, s[j], e) \/ Pair(g.body, e, s[j])
        PROVE  FALSE
    <3>1. ~tc_match_syfup(g, q, c, s[j])
      BY <1>3, <1>5
    <3>2. s[j].ingress = q /\ SameMessage(g, c, s[j].msg)
      BY <2>1, <2>2 DEF Pair, SameMessage
    <3>3. {g.body[s[j].msg].type, g.body[c].type} = {"SYNC", "FOLLOW_UP"}
      BY <2>1, <2>2 DEF Pair
    <3> QED BY <3>1, <3>2, <3>3 DEF tc_match_syfup
  <2>3. IsDown(g.state[p]) => Bypasses(g, e)
    <3>1. ASSUME IsDown(g.state[p]) PROVE b[c].type = "FOLLOW_UP"
      BY <3>1 DEF IsDown, IsOpen
    <3> QED BY <3>1, <2>1, Passes
  <2>4. Fits(g, p, e)
    BY <2>1, <2>2, <2>3 DEF Fits
  <2>5. Advances(g, Remember(g, q, p, c), b, held, c, p)
    BY <2>4, RememberAdvances DEF Going, e
  <2> QED BY <2>5, <1>1, <1>4, <1>5
<1>6. CASE i # 0
  <2>1. /\ i \in 1 .. Len(s) /\ t.ingress = q
        /\ {b[t.msg].type, b[c].type} = {"SYNC", "FOLLOW_UP"} /\ SameMessage(g, c, t.msg)
    BY <1>0, <1>3, <1>6 DEF tc_match_syfup
  <2>2. t \in Entry(g.conf.ports) /\ t.residence.in = q /\ t.residence.out = p
    BY <1>0, <1>2, <2>1 DEF Typed, OwnWay
  <2>3. Measured(b, t) /\ b[t.msg] \in Message
    BY <1>0, <2>1 DEF Said, Measured
  <2> HIDE DEF t
  <2>4. t.msg \in Msgs /\ t.residence \in Times(g.conf.ports)
    BY <2>2 DEF Entry
  <2>5. fup \in Msgs /\ b[fup] \in Message /\ b[fup].type = "FOLLOW_UP"
    BY <1>0, <2>1, <2>3, <2>4
  <2>12. b[t.msg].key = b[c].key
    BY <1>0, <2>1, <2>3, SameKey
  <2>6. /\ residence \in Times(g.conf.ports)
        /\ residence = [in |-> q, out |-> p, type |-> "SYNC", key |-> b[fup].key]
    <3>1. b[c].type \in Kinds /\ b[c].key \in Keys
      BY <1>0 DEF Message
    <3>2. Residence(g, q, p, c) = [in |-> q, out |-> p, type |-> b[c].type, key |-> b[c].key]
      BY <1>0 DEF Residence
    <3>3. CASE b[c].type = "SYNC"
      <4>1. residence = Residence(g, q, p, c) /\ fup = t.msg
        BY <3>3
      <4>2. Residence(g, q, p, c) \in Times(g.conf.ports)
        BY <1>0, <3>1, <3>2 DEF Times, PortsOf
      <4> QED BY <2>12, <3>2, <3>3, <4>1, <4>2
    <3>4. CASE b[c].type # "SYNC"
      <4>1. residence = t.residence /\ fup = c
        BY <3>4
      <4>2. b[t.msg].type = "SYNC"
        BY <2>1, <3>4
      <4>3. t.residence.type = "SYNC" /\ t.residence.key = b[c].key
        BY <2>3, <2>12, <4>2 DEF Measured
      <4>4. t.residence = [in |-> q, out |-> p, type |-> "SYNC", key |-> b[c].key]
        BY <2>2, <2>4, <4>3 DEF Times
      <4> QED BY <2>4, <4>1, <4>4
    <3> QED BY <3>3, <3>4
  <2> HIDE DEF fup, residence
  <2>7. Advances(g, SendCorrected(g, q, p, fup, more), b, held, c, p)
    <3> DEFINE m == [type |-> b[fup].type, from |-> q, to |-> p,
                     key |-> b[fup].key, corr |-> more]
    <3>1. more \in Seq(Times(g.conf.ports) \cup [link : PortsOf(g)])
      <4>1. LinkDelay(q) \in [link : PortsOf(g)]
        BY <1>0 DEF LinkDelay
      <4> QED BY <2>6, <4>1
    <3>2. m.type = "FOLLOW_UP" /\ m.from = q /\ m.to = p /\ m.corr = more /\ m.key = b[fup].key
          /\ more[1] = residence /\ Tail(more) = <<LinkDelay(q)>>
      BY <2>5
    <3>3. OwnTime(m)
      <4> HIDE DEF m, more
      <4> QED BY <2>6, <3>2 DEF OwnTime
    <3> HIDE DEF more
    <3> QED BY <1>0, <2>5, <3>1, <3>3, SendAdvances
  <2> HIDE DEF more
  <2>8. Advances(g, h, b, held, c, p)
    BY <2>7, <1>4
  <2> HIDE DEF h
  <2>9. Event(h, b, held) /\ p \in PortsOf(h)
    BY <1>0, <2>8 DEF Advances, Moves, PortsOf
  <2>10. Advances(h, Unlink(h, p, t), b, held, c, p)
    BY <1>0, <2>4, <2>9, UnlinkAdvances
  <2>11. Advances(g, Unlink(h, p, t), b, held, c, p)
    BY <2>8, <2>10, AdvancesTwice
  <2> QED BY <2>11, <1>1, <1>6
<1> QED BY <1>5, <1>6

(* One port completes the forwarding.                                      *)
LEMMA CompleteAdvances ==
  ASSUME NEW b, NEW held, NEW g, NEW q, NEW p, NEW c, Going(g, b, held, q, p, c),
         b[c].type \in Kinds \ {"GENERAL"}, b[c].type \in {"SYNC", "DELAY_REQ"} => IsOpen(g, p),
         ~tc_blocked(g, q, p, c), ~Remembers(g, p, c), NEW out
  PROVE  Advances(g, tc_complete(g, q, p, c, out), b, held, c, p)
<1>0. g.body = b
  BY DEF Going, Event
<1>1. CASE b[c].type = "DELAY_REQ"
  <2>1. tc_complete(g, q, p, c, out) = tc_complete_request(g, q, p, c, out)
    BY <1>0, <1>1, Zenon DEF tc_complete
  <2> QED BY <1>1, <2>1, RequestAdvances
<1>2. CASE b[c].type = "DELAY_RESP"
  <2>1. tc_complete(g, q, p, c, out) = tc_complete_response(g, q, p, c, out)
    BY <1>0, <1>2 DEF tc_complete
  <2> QED BY <1>2, <2>1, ResponseAdvances
<1>3. CASE b[c].type \in {"SYNC", "FOLLOW_UP"}
  <2>1. tc_complete(g, q, p, c, out) = tc_complete_syfup(g, q, p, c, out)
    BY <1>0, <1>3 DEF tc_complete
  <2> QED BY <1>3, <2>1, SyfupAdvances
<1> QED BY <1>1, <1>2, <1>3 DEF Kinds

----------------------------------------------------------------------------
(* Forwarding out of one port after the other.                             *)

(* Ports 1 .. k are done with message c, and nobody remembers a message of *)
(* K, which are to be forwarded later.                                     *)
Forwarding(g, b, held, c, K, U, k) ==
    /\ g \in TcRec(tc.conf) /\ Event(g, b, held) /\ g.unsent \in U /\ ~g.failed
    /\ \A r \in Ports : \A d \in K : ~Remembers(g, r, d)
    /\ \A r \in Ports : r > k => ~Remembers(g, r, c)

(* Message c came in on q, and the handler has references to it.           *)
Incoming(b, held, q, c, K) ==
    /\ held \in [Msgs -> Nat] /\ q \in Ports /\ c \in Msgs
    /\ held[c] > 0 /\ b[c] \in Message
    /\ K \subseteq Msgs /\ c \notin K

AnyUnsent == SUBSET Ports
NoneUnsent == {{}}

LEMMA ForwardingPorts ==
  ASSUME NEW b, NEW held, NEW c, NEW K, NEW U, NEW k, NEW g, Forwarding(g, b, held, c, K, U, k)
  PROVE  g.conf = tc.conf /\ PortsOf(g) = Ports /\ Typed(g) /\ tc.conf.ports \in Nat /\ g.body = b
<1>1. g.conf = tc.conf /\ Typed(g) /\ g.body = b
  BY DEF Forwarding, TcRec, Event
<1> QED BY <1>1, PortNumbers DEF PortsOf, Ports

(* The next port is done.                                                  *)
LEMMA ForwardingAdvances ==
  ASSUME NEW b, NEW held, NEW q, NEW c, NEW K, Incoming(b, held, q, c, K), NEW U,
         NEW k \in Ports, NEW g, Forwarding(g, b, held, c, K, U, k - 1),
         NEW h, Advances(g, h, b, held, c, k)
  PROVE  Forwarding(h, b, held, c, K, U, k)
<1>0. g.conf = tc.conf /\ PortsOf(g) = Ports /\ tc.conf.ports \in Nat
  BY ForwardingPorts
<1>1. Event(h, b, held) /\ h.conf = g.conf /\ h.unsent = g.unsent /\ h.failed = g.failed
  BY DEF Advances, Moves
<1>2. h \in TcRec(tc.conf)
  BY <1>0, <1>1 DEF Event, Typed
<1>3. \A r \in Ports, d \in Msgs : Remembers(h, r, d) => Remembers(g, r, d) \/ (r = k /\ d = c)
  BY <1>0 DEF Advances, Moves
<1>4. \A r \in Ports : \A d \in K : ~Remembers(h, r, d)
  BY <1>3 DEF Forwarding, Incoming
<1>5. \A r \in Ports : r > k => r > k - 1 /\ r # k
  BY <1>0 DEF Ports
<1>6. \A r \in Ports : r > k => ~Remembers(h, r, c)
  BY <1>3, <1>5 DEF Forwarding, Incoming
<1> QED BY <1>1, <1>2, <1>4, <1>6 DEF Forwarding

(* Nothing happens at the next port.                                       *)
LEMMA ForwardingSkips ==
  ASSUME NEW b, NEW held, NEW c, NEW K, NEW U, NEW k \in Ports, NEW g,
         Forwarding(g, b, held, c, K, U, k - 1)
  PROVE  Forwarding(g, b, held, c, K, U, k)
<1>0. tc.conf.ports \in Nat
  BY ForwardingPorts
<1>1. \A r \in Ports : r > k => r > k - 1
  BY <1>0 DEF Ports
<1> QED BY <1>1 DEF Forwarding

(* Another set of ports could not send the event message.                  *)
LEMMA UnsentChanges ==
  ASSUME NEW b, NEW held, NEW c, NEW K, NEW U, NEW k, NEW g, Forwarding(g, b, held, c, K, U, k),
         NEW x \in SUBSET Ports, NEW V, x \in V
  PROVE  Forwarding([g EXCEPT !.unsent = x], b, held, c, K, V, k)
<1> DEFINE h == [g EXCEPT !.unsent = x]
<1>0. /\ g.conf = tc.conf /\ PortsOf(g) = Ports /\ Typed(g) /\ g \in TcRec(tc.conf)
      /\ Event(g, b, held) /\ tc.conf.ports \in Nat
  <2>1. g \in TcRec(tc.conf) /\ Event(g, b, held)
    BY DEF Forwarding
  <2>2. g.conf = tc.conf /\ PortsOf(g) = Ports /\ Typed(g) /\ tc.conf.ports \in Nat
    BY ForwardingPorts
  <2> QED BY <2>1, <2>2
<1>1. /\ h \in TcRec(tc.conf) /\ h.body = g.body /\ h.torn = g.torn /\ h.conf = g.conf
      /\ h.state = g.state /\ h.queue = g.queue /\ h.refcnt = g.refcnt
      /\ h.pool = g.pool /\ h.total = g.total /\ h.unsent = x /\ h.failed = g.failed
  <2>1. x \in SUBSET (1 .. tc.conf.ports)
    BY DEF Ports
  <2> QED BY <1>0, <2>1 DEF TcRec
<1> HIDE DEF h
<1>2. Typed(h) /\ Said(h)
  BY <1>0, <1>1 DEF Typed, OwnWay, PortsOf, Said, Event
<1>3. ASSUME h.torn = {} PROVE Sound(h, held)
  <2>1. Sound(g, held)
    BY <1>0, <1>1, <1>3 DEF Event
  <2>2. Counts(h, h.refcnt)
    <3> DEFINE own == g.refcnt
    <3>1. Counts(g, own) /\ h.refcnt = own
      BY <1>1, <2>1 DEF Sound
    <3> HIDE DEF own
    <3>2. Counts(h, own)
      BY <1>1, <3>1, SamePool DEF own
    <3> QED BY <3>1, <3>2
  <2>3. \A d \in Msgs : Holders(h, d) = Holders(g, d)
    BY <1>1 DEF Holders, PortsOf, Remembers
  <2>4. Counted(h, held)
    BY <1>1, <2>1, <2>3 DEF Sound, Counted
  <2>5. (\A p \in PortsOf(h) : OneEach(h.queue[p])) /\ NoPair(h)
    BY <1>1, <2>1 DEF Sound, PortsOf, NoPair
  <2>6. DownBypassing(h)
    BY <1>1, <2>1 DEF Sound, PortsOf, DownBypassing, Bypasses
  <2> QED BY <2>2, <2>4, <2>5, <2>6 DEF Sound
<1>4. Event(h, b, held)
  BY <1>0, <1>1, <1>2, <1>3 DEF Event
<1>5. \A r \in Ports : \A d : Remembers(h, r, d) <=> Remembers(g, r, d)
  BY <1>1 DEF Remembers
<1> QED BY <1>1, <1>4, <1>5 DEF Forwarding, h

(* A port that is faulted, or left alone, sends nothing.                   *)
LEMMA ForwardingFaults ==
  ASSUME NEW b, NEW held, NEW q, NEW c, NEW K, Incoming(b, held, q, c, K), NEW U,
         NEW k, NEW g, Forwarding(g, b, held, c, K, U, k), NEW p \in Ports
  PROVE  Forwarding(Fault(g, p), b, held, c, K, U, k)
<1> DEFINE h == Fault(g, p)
<1>0. g.conf = tc.conf /\ PortsOf(g) = Ports
  BY ForwardingPorts
<1>1. Settles(g, h, b, held)
  BY <1>0, FaultSettles DEF Forwarding, Incoming
<1> HIDE DEF h
<1>2. Event(h, b, held) /\ h.conf = g.conf /\ h.unsent = g.unsent /\ h.failed = g.failed
  BY <1>1 DEF Settles, Shrinks
<1>3. h \in TcRec(tc.conf)
  BY <1>0, <1>2 DEF Event, Typed
<1>4. \A r \in Ports, d \in Msgs : Remembers(h, r, d) => Remembers(g, r, d)
  BY <1>0, <1>1 DEF Settles, Shrinks
<1>5. Forwarding(h, b, held, c, K, U, k)
  BY <1>2, <1>3, <1>4 DEF Forwarding, Incoming
<1> QED BY <1>5 DEF h

(* The event message goes out, or the port is faulted.                     *)
LEMMA SendEventStep ==
  ASSUME NEW b, NEW held, NEW q, NEW c, NEW K, Incoming(b, held, q, c, K),
         NEW g, Forwarding(g, b, held, c, K, AnyUnsent, 0), NEW p \in Ports, NEW out
  PROVE  Forwarding(SendEvent(g, q, p, c, out), b, held, c, K, AnyUnsent, 0)
<1> DEFINE h == [g EXCEPT !.unsent = @ \cup {p}]
<1>1. g.unsent \cup {p} \in SUBSET Ports
  BY DEF Forwarding, AnyUnsent
<1>2. Forwarding(h, b, held, c, K, AnyUnsent, 0)
  <2> DEFINE x == g.unsent \cup {p}
  <2>1. x \in SUBSET Ports /\ x \in AnyUnsent
    BY <1>1 DEF AnyUnsent
  <2>2. h = [g EXCEPT !.unsent = x]
    OBVIOUS
  <2> HIDE DEF x, h
  <2>3. Forwarding([g EXCEPT !.unsent = x], b, held, c, K, AnyUnsent, 0)
    BY <2>1, UnsentChanges
  <2> QED BY <2>2, <2>3
<1> HIDE DEF h
<1>3. Forwarding(Fault(h, p), b, held, c, K, AnyUnsent, 0)
  BY <1>2, ForwardingFaults
<1> QED BY <1>3 DEF SendEvent, h

(* The time stamp is fetched and the message completed.                    *)
LEMMA GatherStep ==
  ASSUME NEW b, NEW held, NEW q, NEW c, NEW K, Incoming(b, held, q, c, K),
         b[c].type \in {"SYNC", "DELAY_REQ"}, NEW p \in Ports,
         NEW g, Forwarding(g, b, held, c, K, AnyUnsent, p - 1), NEW out
  PROVE  Forwarding(GatherStamp(g, q, p, c, out), b, held, c, K, AnyUnsent, p)
<1>0. g.conf = tc.conf /\ PortsOf(g) = Ports /\ tc.conf.ports \in Nat
  BY ForwardingPorts
<1>1. Going(g, b, held, q, p, c)
  BY <1>0 DEF Going, Incoming, Forwarding
<1>2. CASE tc_blocked(g, q, p, c)
  BY <1>2, ForwardingSkips DEF GatherStamp
<1>3. CASE ~tc_blocked(g, q, p, c) /\ (p \in g.unsent \/ ~IsOpen(g, p) \/ out[p] = "NO_STAMP")
  <2>1. GatherStamp(g, q, p, c, out) = Fault(g, p)
    BY <1>3 DEF GatherStamp
  <2>2. Advances(g, Fault(g, p), b, held, c, p)
    BY <1>1, FaultAdvances
  <2> QED BY <2>1, <2>2, ForwardingAdvances
<1>4. CASE ~tc_blocked(g, q, p, c) /\ ~(p \in g.unsent \/ ~IsOpen(g, p) \/ out[p] = "NO_STAMP")
  <2>1. GatherStamp(g, q, p, c, out) = tc_complete(g, q, p, c, out)
    BY <1>4 DEF GatherStamp
  <2>2. ~Remembers(g, p, c)
    <3>1. p > p - 1
      BY <1>0 DEF Ports
    <3> QED BY <3>1 DEF Forwarding
  <2>3. Advances(g, tc_complete(g, q, p, c, out), b, held, c, p)
    BY <1>1, <1>4, <2>2, CompleteAdvances DEF Kinds
  <2> QED BY <2>1, <2>3, ForwardingAdvances
<1> QED BY <1>2, <1>3, <1>4

(* A general message is completed.                                         *)
GeneralStep(g, q, p, c, out) ==
    IF tc_blocked(g, q, p, c) THEN g ELSE tc_complete(g, q, p, c, out)

LEMMA GeneralStepForwards ==
  ASSUME NEW b, NEW held, NEW q, NEW c, NEW K, Incoming(b, held, q, c, K),
         b[c].type \in {"FOLLOW_UP", "DELAY_RESP"}, NEW p \in Ports,
         NEW g, Forwarding(g, b, held, c, K, NoneUnsent, p - 1), NEW out
  PROVE  Forwarding(GeneralStep(g, q, p, c, out), b, held, c, K, NoneUnsent, p)
<1>0. g.conf = tc.conf /\ PortsOf(g) = Ports /\ tc.conf.ports \in Nat
  BY ForwardingPorts
<1>1. Going(g, b, held, q, p, c)
  BY <1>0 DEF Going, Incoming, Forwarding
<1>2. CASE tc_blocked(g, q, p, c)
  BY <1>2, ForwardingSkips DEF GeneralStep
<1>3. CASE ~tc_blocked(g, q, p, c)
  <2>1. GeneralStep(g, q, p, c, out) = tc_complete(g, q, p, c, out)
    BY <1>3 DEF GeneralStep
  <2>2. ~Remembers(g, p, c)
    <3>1. p > p - 1
      BY <1>0 DEF Ports
    <3> QED BY <3>1 DEF Forwarding
  <2>3. Advances(g, tc_complete(g, q, p, c, out), b, held, c, p)
    BY <1>1, <1>3, <2>2, CompleteAdvances DEF Kinds
  <2> QED BY <2>1, <2>3, ForwardingAdvances
<1> QED BY <1>2, <1>3

(* Any other message is passed on.                                         *)
PassStep(g, q, p, c, out) ==
    IF tc_blocked(g, q, p, c) THEN g
    ELSE IF IsOpen(g, p) /\ out[p] # "NO_GENERAL" THEN g ELSE Fault(g, p)

LEMMA PassStepForwards ==
  ASSUME NEW b, NEW held, NEW q, NEW c, NEW K, Incoming(b, held, q, c, K), NEW p \in Ports,
         NEW g, Forwarding(g, b, held, c, K, NoneUnsent, p - 1), NEW out
  PROVE  Forwarding(PassStep(g, q, p, c, out), b, held, c, K, NoneUnsent, p)
<1>1. Forwarding(g, b, held, c, K, NoneUnsent, p)
  BY ForwardingSkips
<1>2. Forwarding(Fault(g, p), b, held, c, K, NoneUnsent, p)
  BY <1>1, ForwardingFaults
<1> QED BY <1>1, <1>2 DEF PassStep

(* The event message goes out of one port after the other.                 *)
SendRounds(g, q, c, out) ==
    CHOOSE f : f = [p \in 0 .. tc.conf.ports |->
                       IF p = 0 THEN g ELSE SendEvent(f[p - 1], q, p, c, out)]

LEMMA SendForwards ==
  ASSUME NEW b, NEW held, NEW q, NEW c, NEW K, Incoming(b, held, q, c, K),
         NEW g, Forwarding(g, b, held, c, K, AnyUnsent, 0), NEW out
  PROVE  Forwarding(SendRounds(g, q, c, out)[tc.conf.ports], b, held, c, K, AnyUnsent,
                    0)
<1> DEFINE n == tc.conf.ports
           R == TcRec(tc.conf)
           S == [k \in 0 .. n |-> {h \in R : Forwarding(h, b, held, c, K, AnyUnsent, 0)}]
           F == [x \in R \X (1 .. n) |-> SendEvent(x[1], q, x[2], c, out)]
           Is(f) == f = [p \in 0 .. n |-> IF p = 0 THEN g ELSE SendEvent(f[p - 1], q, p, c, out)]
           a == SendRounds(g, q, c, out)
<1>0. n \in Nat /\ Ports = 1 .. n
  BY ForwardingPorts DEF Ports
<1>1. g \in S[0]
  BY <1>0 DEF Forwarding
<1>2. ASSUME NEW k \in 1 .. n, NEW h \in S[k - 1]
      PROVE  SendEvent(h, q, k, c, out) \in S[k] /\ F[<<h, k>>] = SendEvent(h, q, k, c, out)
  <2>1. k \in Ports /\ k - 1 \in 0 .. n /\ k \in 0 .. n
    BY <1>0
  <2>2. h \in R /\ Forwarding(h, b, held, c, K, AnyUnsent, 0)
    BY <2>1
  <2>3. Forwarding(SendEvent(h, q, k, c, out), b, held, c, K, AnyUnsent, 0)
    BY <2>1, <2>2, SendEventStep
  <2>4. SendEvent(h, q, k, c, out) \in R
    BY <2>3 DEF Forwarding
  <2>5. <<h, k>> \in R \X (1 .. n)
    BY <2>2
  <2> QED BY <2>1, <2>3, <2>4, <2>5
<1>3. \A k \in 1 .. n : \A h \in S[k - 1] : F[<<h, k>>] \in S[k]
  BY <1>2
<1>4. \A k \in 1 .. n : \A h \in S[k - 1] : F[<<h, k>>] = SendEvent(h, q, k, c, out)
  BY <1>2
<1>5. \A k \in 1 .. n : \A h \in S[k - 1] : SendEvent(h, q, k, c, out) \in S[k]
  BY <1>2
<1>6. \A h \in S[n] : Forwarding(h, b, held, c, K, AnyUnsent, 0)
  BY <1>0
<1> HIDE DEF n, S, F
<1>7. PICK e : LoopOf(e, g, F, n) /\ \A k \in 0 .. n : e[k] \in S[k]
  BY <1>0, <1>1, <1>3, LoopKeeps
<1>8. \A k \in 1 .. n : F[<<e[k - 1], k>>] = SendEvent(e[k - 1], q, k, c, out)
  <2>1. \A k \in 1 .. n : k - 1 \in 0 .. n
    BY <1>0
  <2> QED BY <2>1, <1>4, <1>7
<1>9. a[0] = g /\ \A k \in 1 .. n : a[k] = SendEvent(a[k - 1], q, k, c, out)
  <2>1. \A k \in 0 .. n : (IF k = 0 THEN g ELSE F[<<e[k - 1], k>>])
                           = (IF k = 0 THEN g ELSE SendEvent(e[k - 1], q, k, c, out))
    BY <1>0, <1>8
  <2>2. Is(e)
    BY <2>1, <1>7 DEF LoopOf
  <2>3. Is(a)
    <3>1. \E f : Is(f)
      BY <2>2, Zenon
    <3>2. a = CHOOSE f : Is(f)
      BY Zenon DEF n, SendRounds
    <3> HIDE DEF Is
    <3> QED BY <3>1, <3>2, Zenon
  <2> HIDE DEF a
  <2> QED BY <2>3, <1>0
<1> HIDE DEF a
<1>10. a[0] \in S[0]
  BY <1>1, <1>9
<1>11. \A k \in 1 .. n : a[k - 1] \in S[k - 1] => a[k] \in S[k]
  BY <1>5, <1>9
<1>12. \A k \in 0 .. n : a[k] \in S[k]
  BY <1>0, <1>10, <1>11, LoopReaches
<1>13. a[n] \in S[n]
  BY <1>0, <1>12
<1>14. Forwarding(a[n], b, held, c, K, AnyUnsent, 0)
  BY <1>6, <1>13
<1> QED BY <1>14 DEF a, n

(* Its time stamps are fetched.                                            *)
GatherRounds(g, q, c, out) ==
    CHOOSE f : f = [p \in 0 .. tc.conf.ports |->
                       IF p = 0 THEN g ELSE GatherStamp(f[p - 1], q, p, c, out)]

LEMMA GatherForwards ==
  ASSUME NEW b, NEW held, NEW q, NEW c, NEW K, Incoming(b, held, q, c, K),
         b[c].type \in {"SYNC", "DELAY_REQ"},
         NEW g, Forwarding(g, b, held, c, K, AnyUnsent, 0), NEW out
  PROVE  Forwarding(GatherRounds(g, q, c, out)[tc.conf.ports], b, held, c, K, AnyUnsent,
                    tc.conf.ports)
<1> DEFINE n == tc.conf.ports
           R == TcRec(tc.conf)
           S == [k \in 0 .. n |-> {h \in R : Forwarding(h, b, held, c, K, AnyUnsent, k)}]
           F == [x \in R \X (1 .. n) |-> GatherStamp(x[1], q, x[2], c, out)]
           Is(f) == f = [p \in 0 .. n |-> IF p = 0 THEN g ELSE GatherStamp(f[p - 1], q, p, c, out)]
           a == GatherRounds(g, q, c, out)
<1>0. n \in Nat /\ Ports = 1 .. n
  BY ForwardingPorts DEF Ports
<1>1. g \in S[0]
  BY <1>0 DEF Forwarding
<1>2. ASSUME NEW k \in 1 .. n, NEW h \in S[k - 1]
      PROVE  GatherStamp(h, q, k, c, out) \in S[k] /\ F[<<h, k>>] = GatherStamp(h, q, k, c, out)
  <2>1. k \in Ports /\ k - 1 \in 0 .. n /\ k \in 0 .. n
    BY <1>0
  <2>2. h \in R /\ Forwarding(h, b, held, c, K, AnyUnsent, k - 1)
    BY <2>1
  <2>3. Forwarding(GatherStamp(h, q, k, c, out), b, held, c, K, AnyUnsent, k)
    BY <2>1, <2>2, GatherStep
  <2>4. GatherStamp(h, q, k, c, out) \in R
    BY <2>3 DEF Forwarding
  <2>5. <<h, k>> \in R \X (1 .. n)
    BY <2>2
  <2> QED BY <2>1, <2>3, <2>4, <2>5
<1>3. \A k \in 1 .. n : \A h \in S[k - 1] : F[<<h, k>>] \in S[k]
  BY <1>2
<1>4. \A k \in 1 .. n : \A h \in S[k - 1] : F[<<h, k>>] = GatherStamp(h, q, k, c, out)
  BY <1>2
<1>5. \A k \in 1 .. n : \A h \in S[k - 1] : GatherStamp(h, q, k, c, out) \in S[k]
  BY <1>2
<1>6. \A h \in S[n] : Forwarding(h, b, held, c, K, AnyUnsent, n)
  BY <1>0
<1> HIDE DEF n, S, F
<1>7. PICK e : LoopOf(e, g, F, n) /\ \A k \in 0 .. n : e[k] \in S[k]
  BY <1>0, <1>1, <1>3, LoopKeeps
<1>8. \A k \in 1 .. n : F[<<e[k - 1], k>>] = GatherStamp(e[k - 1], q, k, c, out)
  <2>1. \A k \in 1 .. n : k - 1 \in 0 .. n
    BY <1>0
  <2> QED BY <2>1, <1>4, <1>7
<1>9. a[0] = g /\ \A k \in 1 .. n : a[k] = GatherStamp(a[k - 1], q, k, c, out)
  <2>1. \A k \in 0 .. n : (IF k = 0 THEN g ELSE F[<<e[k - 1], k>>])
                           = (IF k = 0 THEN g ELSE GatherStamp(e[k - 1], q, k, c, out))
    BY <1>0, <1>8
  <2>2. Is(e)
    BY <2>1, <1>7 DEF LoopOf
  <2>3. Is(a)
    <3>1. \E f : Is(f)
      BY <2>2, Zenon
    <3>2. a = CHOOSE f : Is(f)
      BY Zenon DEF n, GatherRounds
    <3> HIDE DEF Is
    <3> QED BY <3>1, <3>2, Zenon
  <2> HIDE DEF a
  <2> QED BY <2>3, <1>0
<1> HIDE DEF a
<1>10. a[0] \in S[0]
  BY <1>1, <1>9
<1>11. \A k \in 1 .. n : a[k - 1] \in S[k - 1] => a[k] \in S[k]
  BY <1>5, <1>9
<1>12. \A k \in 0 .. n : a[k] \in S[k]
  BY <1>0, <1>10, <1>11, LoopReaches
<1>13. a[n] \in S[n]
  BY <1>0, <1>12
<1>14. Forwarding(a[n], b, held, c, K, AnyUnsent, n)
  BY <1>6, <1>13
<1> QED BY <1>14 DEF a, n

(* A general message.                                                      *)
GeneralRounds(g, q, c, out) ==
    CHOOSE f : f = [p \in 0 .. tc.conf.ports |->
                       IF p = 0 THEN g ELSE GeneralStep(f[p - 1], q, p, c, out)]

LEMMA GeneralForwards ==
  ASSUME NEW b, NEW held, NEW q, NEW c, NEW K, Incoming(b, held, q, c, K),
         b[c].type \in {"FOLLOW_UP", "DELAY_RESP"},
         NEW g, Forwarding(g, b, held, c, K, NoneUnsent, 0), NEW out
  PROVE  Forwarding(GeneralRounds(g, q, c, out)[tc.conf.ports], b, held, c, K, NoneUnsent,
                    tc.conf.ports)
<1> DEFINE n == tc.conf.ports
           R == TcRec(tc.conf)
           S == [k \in 0 .. n |-> {h \in R : Forwarding(h, b, held, c, K, NoneUnsent, k)}]
           F == [x \in R \X (1 .. n) |-> GeneralStep(x[1], q, x[2], c, out)]
           Is(f) == f = [p \in 0 .. n |-> IF p = 0 THEN g ELSE GeneralStep(f[p - 1], q, p, c, out)]
           a == GeneralRounds(g, q, c, out)
<1>0. n \in Nat /\ Ports = 1 .. n
  BY ForwardingPorts DEF Ports
<1>1. g \in S[0]
  BY <1>0 DEF Forwarding
<1>2. ASSUME NEW k \in 1 .. n, NEW h \in S[k - 1]
      PROVE  GeneralStep(h, q, k, c, out) \in S[k] /\ F[<<h, k>>] = GeneralStep(h, q, k, c, out)
  <2>1. k \in Ports /\ k - 1 \in 0 .. n /\ k \in 0 .. n
    BY <1>0
  <2>2. h \in R /\ Forwarding(h, b, held, c, K, NoneUnsent, k - 1)
    BY <2>1
  <2>3. Forwarding(GeneralStep(h, q, k, c, out), b, held, c, K, NoneUnsent, k)
    BY <2>1, <2>2, GeneralStepForwards
  <2>4. GeneralStep(h, q, k, c, out) \in R
    BY <2>3 DEF Forwarding
  <2>5. <<h, k>> \in R \X (1 .. n)
    BY <2>2
  <2> QED BY <2>1, <2>3, <2>4, <2>5
<1>3. \A k \in 1 .. n : \A h \in S[k - 1] : F[<<h, k>>] \in S[k]
  BY <1>2
<1>4. \A k \in 1 .. n : \A h \in S[k - 1] : F[<<h, k>>] = GeneralStep(h, q, k, c, out)
  BY <1>2
<1>5. \A k \in 1 .. n : \A h \in S[k - 1] : GeneralStep(h, q, k, c, out) \in S[k]
  BY <1>2
<1>6. \A h \in S[n] : Forwarding(h, b, held, c, K, NoneUnsent, n)
  BY <1>0
<1> HIDE DEF n, S, F
<1>7. PICK e : LoopOf(e, g, F, n) /\ \A k \in 0 .. n : e[k] \in S[k]
  BY <1>0, <1>1, <1>3, LoopKeeps
<1>8. \A k \in 1 .. n : F[<<e[k - 1], k>>] = GeneralStep(e[k - 1], q, k, c, out)
  <2>1. \A k \in 1 .. n : k - 1 \in 0 .. n
    BY <1>0
  <2> QED BY <2>1, <1>4, <1>7
<1>9. a[0] = g /\ \A k \in 1 .. n : a[k] = GeneralStep(a[k - 1], q, k, c, out)
  <2>1. \A k \in 0 .. n : (IF k = 0 THEN g ELSE F[<<e[k - 1], k>>])
                           = (IF k = 0 THEN g ELSE GeneralStep(e[k - 1], q, k, c, out))
    BY <1>0, <1>8
  <2>2. Is(e)
    BY <2>1, <1>7 DEF LoopOf
  <2>3. Is(a)
    <3>1. \E f : Is(f)
      BY <2>2, Zenon
    <3>2. a = CHOOSE f : Is(f)
      BY Zenon DEF n, GeneralRounds
    <3> HIDE DEF Is
    <3> QED BY <3>1, <3>2, Zenon
  <2> HIDE DEF a
  <2> QED BY <2>3, <1>0
<1> HIDE DEF a
<1>10. a[0] \in S[0]
  BY <1>1, <1>9
<1>11. \A k \in 1 .. n : a[k - 1] \in S[k - 1] => a[k] \in S[k]
  BY <1>5, <1>9
<1>12. \A k \in 0 .. n : a[k] \in S[k]
  BY <1>0, <1>10, <1>11, LoopReaches
<1>13. a[n] \in S[n]
  BY <1>0, <1>12
<1>14. Forwarding(a[n], b, held, c, K, NoneUnsent, n)
  BY <1>6, <1>13
<1> QED BY <1>14 DEF a, n

(* Any other message.                                                      *)
PassRounds(g, q, c, out) ==
    CHOOSE f : f = [p \in 0 .. tc.conf.ports |->
                       IF p = 0 THEN g ELSE PassStep(f[p - 1], q, p, c, out)]

LEMMA PassForwards ==
  ASSUME NEW b, NEW held, NEW q, NEW c, NEW K, Incoming(b, held, q, c, K),
         NEW g, Forwarding(g, b, held, c, K, NoneUnsent, 0), NEW out
  PROVE  Forwarding(PassRounds(g, q, c, out)[tc.conf.ports], b, held, c, K, NoneUnsent,
                    tc.conf.ports)
<1> DEFINE n == tc.conf.ports
           R == TcRec(tc.conf)
           S == [k \in 0 .. n |-> {h \in R : Forwarding(h, b, held, c, K, NoneUnsent, k)}]
           F == [x \in R \X (1 .. n) |-> PassStep(x[1], q, x[2], c, out)]
           Is(f) == f = [p \in 0 .. n |-> IF p = 0 THEN g ELSE PassStep(f[p - 1], q, p, c, out)]
           a == PassRounds(g, q, c, out)
<1>0. n \in Nat /\ Ports = 1 .. n
  BY ForwardingPorts DEF Ports
<1>1. g \in S[0]
  BY <1>0 DEF Forwarding
<1>2. ASSUME NEW k \in 1 .. n, NEW h \in S[k - 1]
      PROVE  PassStep(h, q, k, c, out) \in S[k] /\ F[<<h, k>>] = PassStep(h, q, k, c, out)
  <2>1. k \in Ports /\ k - 1 \in 0 .. n /\ k \in 0 .. n
    BY <1>0
  <2>2. h \in R /\ Forwarding(h, b, held, c, K, NoneUnsent, k - 1)
    BY <2>1
  <2>3. Forwarding(PassStep(h, q, k, c, out), b, held, c, K, NoneUnsent, k)
    BY <2>1, <2>2, PassStepForwards
  <2>4. PassStep(h, q, k, c, out) \in R
    BY <2>3 DEF Forwarding
  <2>5. <<h, k>> \in R \X (1 .. n)
    BY <2>2
  <2> QED BY <2>1, <2>3, <2>4, <2>5
<1>3. \A k \in 1 .. n : \A h \in S[k - 1] : F[<<h, k>>] \in S[k]
  BY <1>2
<1>4. \A k \in 1 .. n : \A h \in S[k - 1] : F[<<h, k>>] = PassStep(h, q, k, c, out)
  BY <1>2
<1>5. \A k \in 1 .. n : \A h \in S[k - 1] : PassStep(h, q, k, c, out) \in S[k]
  BY <1>2
<1>6. \A h \in S[n] : Forwarding(h, b, held, c, K, NoneUnsent, n)
  BY <1>0
<1> HIDE DEF n, S, F
<1>7. PICK e : LoopOf(e, g, F, n) /\ \A k \in 0 .. n : e[k] \in S[k]
  BY <1>0, <1>1, <1>3, LoopKeeps
<1>8. \A k \in 1 .. n : F[<<e[k - 1], k>>] = PassStep(e[k - 1], q, k, c, out)
  <2>1. \A k \in 1 .. n : k - 1 \in 0 .. n
    BY <1>0
  <2> QED BY <2>1, <1>4, <1>7
<1>9. a[0] = g /\ \A k \in 1 .. n : a[k] = PassStep(a[k - 1], q, k, c, out)
  <2>1. \A k \in 0 .. n : (IF k = 0 THEN g ELSE F[<<e[k - 1], k>>])
                           = (IF k = 0 THEN g ELSE PassStep(e[k - 1], q, k, c, out))
    BY <1>0, <1>8
  <2>2. Is(e)
    BY <2>1, <1>7 DEF LoopOf
  <2>3. Is(a)
    <3>1. \E f : Is(f)
      BY <2>2, Zenon
    <3>2. a = CHOOSE f : Is(f)
      BY Zenon DEF n, PassRounds
    <3> HIDE DEF Is
    <3> QED BY <3>1, <3>2, Zenon
  <2> HIDE DEF a
  <2> QED BY <2>3, <1>0
<1> HIDE DEF a
<1>10. a[0] \in S[0]
  BY <1>1, <1>9
<1>11. \A k \in 1 .. n : a[k - 1] \in S[k - 1] => a[k] \in S[k]
  BY <1>5, <1>9
<1>12. \A k \in 0 .. n : a[k] \in S[k]
  BY <1>0, <1>10, <1>11, LoopReaches
<1>13. a[n] \in S[n]
  BY <1>0, <1>12
<1>14. Forwarding(a[n], b, held, c, K, NoneUnsent, n)
  BY <1>6, <1>13
<1> QED BY <1>14 DEF a, n

(* An event message is forwarded.                                          *)
LEMMA EventForwards ==
  ASSUME NEW b, NEW held, NEW q, NEW c, NEW K, Incoming(b, held, q, c, K),
         b[c].type \in {"SYNC", "DELAY_REQ"},
         NEW g, Forwarding(g, b, held, c, K, NoneUnsent, 0), NEW out
  PROVE  Forwarding(tc_fwd_event(g, q, c, out), b, held, c, K, NoneUnsent, tc.conf.ports)
<1> DEFINE n == tc.conf.ports
           a == SendRounds(g, q, c, out)[n]
           z == GatherRounds(a, q, c, out)[n]
<1>1. tc_fwd_event(g, q, c, out) = [z EXCEPT !.unsent = {}]
  BY Zenon DEF tc_fwd_event, SendRounds, GatherRounds
<1>2. Forwarding(g, b, held, c, K, AnyUnsent, 0)
  BY DEF Forwarding, NoneUnsent, AnyUnsent
<1>3. Forwarding(a, b, held, c, K, AnyUnsent, 0)
  BY <1>2, SendForwards
<1> HIDE DEF a
<1>4. Forwarding(z, b, held, c, K, AnyUnsent, n)
  BY <1>3, GatherForwards
<1>5. {} \in SUBSET Ports /\ {} \in NoneUnsent
  BY DEF NoneUnsent
<1> HIDE DEF z
<1>6. Forwarding([z EXCEPT !.unsent = {}], b, held, c, K, NoneUnsent, n)
  BY <1>4, <1>5, UnsentChanges
<1> QED BY <1>1, <1>6

(* A Follow_Up or a Delay_Resp.                                            *)
LEMMA GeneralMessageForwards ==
  ASSUME NEW b, NEW held, NEW q, NEW c, NEW K, Incoming(b, held, q, c, K),
         b[c].type \in {"FOLLOW_UP", "DELAY_RESP"},
         NEW g, Forwarding(g, b, held, c, K, NoneUnsent, 0), NEW out
  PROVE  Forwarding(tc_fwd_general(g, q, c, out), b, held, c, K, NoneUnsent, tc.conf.ports)
<1>1. tc_fwd_general(g, q, c, out) = GeneralRounds(g, q, c, out)[tc.conf.ports]
  BY Zenon DEF tc_fwd_general, GeneralRounds, GeneralStep
<1>2. Forwarding(GeneralRounds(g, q, c, out)[tc.conf.ports], b, held, c, K, NoneUnsent,
                 tc.conf.ports)
  BY GeneralForwards
<1> QED BY <1>1, <1>2

(* Any other message.                                                      *)
LEMMA OtherMessageForwards ==
  ASSUME NEW b, NEW held, NEW q, NEW c, NEW K, Incoming(b, held, q, c, K),
         NEW g, Forwarding(g, b, held, c, K, NoneUnsent, 0), NEW out
  PROVE  Forwarding(tc_forward(g, q, c, out), b, held, c, K, NoneUnsent, tc.conf.ports)
<1>1. tc_forward(g, q, c, out) = PassRounds(g, q, c, out)[tc.conf.ports]
  BY Zenon DEF tc_forward, PassRounds, PassStep
<1>2. Forwarding(PassRounds(g, q, c, out)[tc.conf.ports], b, held, c, K, NoneUnsent,
                 tc.conf.ports)
  BY PassForwards
<1> QED BY <1>1, <1>2

----------------------------------------------------------------------------
(* The handler's own messages.                                             *)

(* What is remembered and where has not changed, nor what it says.         *)
Alike(g, h) ==
    /\ h \in TcRec(g.conf) /\ h.state = g.state /\ h.queue = g.queue /\ h.torn = g.torn
    /\ \A p \in PortsOf(g) : \A i \in 1 .. Len(g.queue[p]) :
            h.body[g.queue[p][i].msg] = g.body[g.queue[p][i].msg]

LEMMA AlikeTyped ==
  ASSUME NEW g, Typed(g), NEW h \in TcRec(g.conf), h.queue = g.queue
  PROVE  Typed(h) /\ h.conf = g.conf /\ PortsOf(h) = PortsOf(g)
<1>1. h.conf = g.conf
  BY DEF TcRec
<1> QED BY <1>1 DEF Typed, OwnWay, PortsOf

LEMMA AlikeEvent ==
  ASSUME NEW b, NEW held, NEW g, Event(g, b, held), NEW h, Alike(g, h),
         NEW own, g.torn = {} => Counts(h, h.refcnt) /\ Counted(h, own)
  PROVE  Event(h, h.body, own)
<1>0. Typed(g) /\ Said(g) /\ h.queue = g.queue /\ h.state = g.state /\ h.torn = g.torn
  BY DEF Event, Alike
<1>1. Typed(h) /\ h.conf = g.conf /\ PortsOf(h) = PortsOf(g)
  BY <1>0, AlikeTyped DEF Alike
<1>2. Said(h)
  BY <1>0, <1>1 DEF Said, Alike, Measured
<1>3. ASSUME h.torn = {} PROVE Sound(h, own)
  <2>1. Sound(g, held) /\ Counts(h, h.refcnt) /\ Counted(h, own)
    BY <1>0, <1>3 DEF Event
  <2>2. \A p \in PortsOf(h) : OneEach(h.queue[p])
    BY <1>0, <1>1, <2>1 DEF Sound
  <2>3. NoPair(h)
    <3> SUFFICES ASSUME NEW p \in PortsOf(g), NEW i \in 1 .. Len(g.queue[p]),
                        NEW j \in 1 .. Len(g.queue[p])
                 PROVE  ~Pair(h.body, g.queue[p][i], g.queue[p][j])
      BY <1>0, <1>1 DEF NoPair
    <3>1. ~Pair(g.body, g.queue[p][i], g.queue[p][j])
      BY <2>1 DEF Sound, NoPair
    <3>2. /\ h.body[g.queue[p][i].msg] = g.body[g.queue[p][i].msg]
          /\ h.body[g.queue[p][j].msg] = g.body[g.queue[p][j].msg]
      BY DEF Alike
    <3> QED BY <3>1, <3>2 DEF Pair
  <2>4. DownBypassing(h)
    <3> SUFFICES ASSUME NEW p \in PortsOf(g), IsDown(g.state[p]), NEW i \in 1 .. Len(g.queue[p])
                 PROVE  Bypasses(h, g.queue[p][i])
      BY <1>0, <1>1 DEF DownBypassing
    <3>1. Bypasses(g, g.queue[p][i])
      BY <2>1 DEF Sound, DownBypassing
    <3>2. h.body[g.queue[p][i].msg] = g.body[g.queue[p][i].msg]
      BY DEF Alike
    <3> QED BY <1>1, <3>1, <3>2 DEF Bypasses
  <2> QED BY <2>1, <2>2, <2>3, <2>4 DEF Sound
<1> QED BY <1>1, <1>2, <1>3 DEF Event

(* One reference less, the first one, a message that says m.               *)
Less(held, c) == [held EXCEPT ![c] = @ - 1]
First(held, c) == [held EXCEPT ![c] = 1]
Saying(b, c, m) == [b EXCEPT ![c] = m]

(* A message of its own is released.                                       *)
LEMMA PutEvent ==
  ASSUME NEW b, NEW held \in [Msgs -> Nat], NEW g, Event(g, b, held),
         NEW c \in Msgs, held[c] > 0
  PROVE  Event(Put(g, c), b, Less(held, c)) /\ SameButPool(g, Put(g, c))
<1> DEFINE h == Put(g, c)
           own == [held EXCEPT ![c] = @ - 1]
<1>0. Typed(g) /\ g \in TcRec(g.conf) /\ g.body = b
  BY DEF Event, Typed
<1>1. Repools(g, h)
  BY <1>0, PutRepools
<1>2. h \in TcRec(g.conf) /\ SameButPool(g, h)
  BY <1>0, <1>1, RepoolsFields
<1>3. ASSUME g.torn = {} PROVE Counts(h, h.refcnt) /\ Counted(h, own)
  <2>1. Sound(g, held)
    BY <1>3 DEF Event
  <2>2. Counts(g, g.refcnt) /\ g.refcnt[c] > 0
    <3>1. g.refcnt[c] = held[c] + Cardinality(Holders(g, c)) /\ Counts(g, g.refcnt)
      BY <2>1 DEF Sound, Counted
    <3>2. Cardinality(Holders(g, c)) \in Nat /\ held[c] \in Nat
      BY <1>0, HoldersCount
    <3> QED BY <3>1, <3>2
  <2>3. Took(g, h, {c})
    BY <1>0, <2>2, PutTakes
  <2> HIDE DEF h
  <2>4. ASSUME NEW d \in Msgs PROVE h.refcnt[d] = own[d] + Cardinality(Holders(h, d))
    <3>1. Holders(h, d) = Holders(g, d)
      BY <1>2 DEF SameButPool, Holders, PortsOf, Remembers
    <3>2. g.refcnt[d] = held[d] + Cardinality(Holders(g, d))
      BY <2>1 DEF Sound, Counted
    <3>3. h.refcnt[d] = g.refcnt[d] - (IF d = c THEN 1 ELSE 0)
      BY <2>3 DEF Took
    <3>4. Cardinality(Holders(g, d)) \in Nat /\ held[d] \in Nat
      BY <1>0, HoldersCount
    <3>5. own[d] = held[d] - (IF d = c THEN 1 ELSE 0)
      BY <3>4
    <3> QED BY <3>1, <3>2, <3>3, <3>4, <3>5
  <2> QED BY <2>3, <2>4 DEF Took, Counted
<1>4. Alike(g, h)
  <2> HIDE DEF h
  <2> QED BY <1>2 DEF Alike, SameButPool
<1> HIDE DEF h, own
<1>5. Event(h, h.body, own)
  BY <1>3, <1>4, AlikeEvent
<1>6. h.body = b
  BY <1>0, <1>2 DEF SameButPool
<1> QED BY <1>2, <1>5, <1>6 DEF h, own, Less

(* A message is allocated: nobody remembers it yet.                        *)
LEMMA AllocateEvent ==
  ASSUME NEW b, NEW held \in [Msgs -> Nat], NEW g, Event(g, b, held), g.torn = {},
         CanAllocate(g), NEW m \in Message
  PROVE  LET h == msg_allocate(g, m)
             c == Allocated(g)
         IN  /\ c \in Msgs /\ held[c] = 0 /\ \A p \in PortsOf(g) : ~Remembers(g, p, c)
             /\ Event(h, Saying(b, c, m), First(held, c))
             /\ h.conf = g.conf /\ h.torn = {} /\ h.queue = g.queue
             /\ h.unsent = g.unsent /\ h.failed = g.failed
<1> DEFINE h == msg_allocate(g, m)
           c == Allocated(g)
           own == g.refcnt
           new == [held EXCEPT ![c] = 1]
<1>0. Typed(g) /\ g \in TcRec(g.conf) /\ g.body = b /\ IsPool(g) /\ Sound(g, held)
  <2>1. Typed(g) /\ g \in TcRec(g.conf) /\ g.body = b /\ Sound(g, held)
    BY DEF Event, Typed
  <2> QED BY <2>1, TcIsPool
<1>1. Counts(g, own) /\ own \in [Msgs -> Int]
  BY <1>0 DEF Sound, TcRec
<1>2. c \in Msgs /\ own[c] = 0 /\ IsPool(h) /\ Counts(h, [own EXCEPT ![c] = 1])
  <2> HIDE DEF own
  <2> QED BY <1>0, <1>1, AllocateOwns
<1>3. /\ h.refcnt = [own EXCEPT ![c] = 1] /\ h.body = [b EXCEPT ![c] = m]
      /\ h.conf = g.conf /\ h.state = g.state /\ h.timer = g.timer /\ h.queue = g.queue
      /\ h.sent = g.sent /\ h.unsent = g.unsent /\ h.failed = g.failed /\ h.torn = g.torn
  <2> HIDE DEF c
  <2>1. CASE g.pool = <<>>
    BY <1>0, <2>1 DEF msg_allocate, TcRec, c
  <2>2. CASE g.pool # <<>>
    BY <1>0, <2>2 DEF msg_allocate, TcRec, c
  <2> QED BY <2>1, <2>2
<1>4. h \in TcRec(g.conf)
  <2>1. h.pool \in Seq(Msgs) /\ h.total \in 0 .. MaxMsgs /\ h.refcnt \in [Msgs -> Int]
    BY <1>2 DEF IsPool
  <2>2. h.body \in [Msgs -> Message \cup {Null}]
    <3>1. b \in [Msgs -> Message \cup {Null}]
      BY <1>0 DEF TcRec
    <3> HIDE DEF h
    <3> QED BY <1>3, <3>1, Zenon
  <2>3. OnlyPool(g, h)
    <3> HIDE DEF own
    <3> QED BY <1>0, <1>1, AllocateOwns
  <2> HIDE DEF h
  <2>4. h = [g EXCEPT !.pool = h.pool, !.total = h.total, !.refcnt = h.refcnt, !.body = h.body]
    BY <2>3 DEF OnlyPool, WithPool
  <2>5. \A l \in Seq(Msgs), t \in 0 .. MaxMsgs, r \in [Msgs -> Int],
           x \in [Msgs -> Message \cup {Null}] :
              [g EXCEPT !.pool = l, !.total = t, !.refcnt = r, !.body = x] \in TcRec(g.conf)
    BY <1>0 DEF TcRec
  <2> DEFINE l == h.pool
             t == h.total
             r == h.refcnt
             x == h.body
             k == [g EXCEPT !.pool = l, !.total = t, !.refcnt = r, !.body = x]
  <2>6. l \in Seq(Msgs) /\ t \in 0 .. MaxMsgs /\ r \in [Msgs -> Int] /\ h = k
        /\ x \in [Msgs -> Message \cup {Null}]
    BY <2>1, <2>2, <2>4
  <2> HIDE DEF l, t, r, x
  <2>7. k \in TcRec(g.conf)
    BY <2>5, <2>6
  <2> HIDE DEF k
  <2> QED BY <2>6, <2>7
<1>5. held[c] = 0 /\ \A p \in PortsOf(g) : ~Remembers(g, p, c)
  <2>1. g.refcnt[c] = held[c] + Cardinality(Holders(g, c)) /\ g.refcnt[c] = 0
    BY <1>0, <1>2 DEF Sound, Counted
  <2>2. Cardinality(Holders(g, c)) \in Nat /\ held[c] \in Nat
    BY <1>0, <1>2, HoldersCount
  <2>3. held[c] = 0
    BY <2>1, <2>2
  <2> HIDE DEF c
  <2>4. ASSUME NEW p \in PortsOf(g), Remembers(g, p, c) PROVE FALSE
    <3>1. g.refcnt[c] > held[c]
      BY <1>0, <1>2, <2>4, RememberedLives
    <3> QED BY <2>1, <2>3, <3>1
  <2> QED BY <2>3, <2>4
<1>6. Alike(g, h)
  <2> HIDE DEF h, c
  <2> SUFFICES ASSUME NEW p \in PortsOf(g), NEW i \in 1 .. Len(g.queue[p])
               PROVE  h.body[g.queue[p][i].msg] = g.body[g.queue[p][i].msg]
    BY <1>3, <1>4 DEF Alike
  <2> DEFINE d == g.queue[p][i].msg
  <2>1. d \in Msgs /\ Remembers(g, p, d)
    BY <1>0, EntriesTyped DEF Remembers
  <2>2. d # c
    BY <1>5, <2>1
  <2>3. b \in [Msgs -> Message \cup {Null}]
    BY <1>0 DEF TcRec
  <2> HIDE DEF d
  <2>4. h.body[d] = g.body[d]
    BY <1>0, <1>3, <2>1, <2>2, <2>3
  <2> QED BY <2>4 DEF d
<1>7. Counts(h, h.refcnt) /\ Counted(h, new)
  <2> HIDE DEF h, c
  <2>1. ASSUME NEW d \in Msgs PROVE h.refcnt[d] = new[d] + Cardinality(Holders(h, d))
    <3>1. Holders(h, d) = Holders(g, d)
      BY <1>3 DEF Holders, PortsOf, Remembers
    <3>2. g.refcnt[d] = held[d] + Cardinality(Holders(g, d))
      BY <1>0 DEF Sound, Counted
    <3>3. Cardinality(Holders(g, d)) \in Nat /\ held[d] \in Nat
      BY <1>0, HoldersCount
    <3>4. CASE d = c
      <4>1. Cardinality(Holders(g, d)) = 0
        BY <1>2, <1>5, <3>2, <3>3, <3>4
      <4>2. h.refcnt[d] = 1 /\ new[d] = 1
        BY <1>1, <1>2, <1>3, <3>4
      <4> QED BY <3>1, <4>1, <4>2
    <3>5. CASE d # c
      <4>1. h.refcnt[d] = g.refcnt[d] /\ new[d] = held[d]
        BY <1>1, <1>2, <1>3, <3>5
      <4> QED BY <3>1, <3>2, <4>1
    <3> QED BY <3>4, <3>5
  <2>2. Counted(h, new)
    BY <2>1 DEF Counted
  <2>3. Counts(h, h.refcnt)
    BY <1>2, <1>3
  <2> QED BY <2>2, <2>3
<1> HIDE DEF h, new
<1>8. Event(h, h.body, new)
  BY <1>6, <1>7, AlikeEvent
<1>9. h.body = Saying(b, c, m) /\ new = First(held, c)
  BY <1>3 DEF Saying, First, new
<1>10. Event(h, Saying(b, c, m), First(held, c))
  BY <1>8, <1>9
<1> HIDE DEF c
<1> QED BY <1>2, <1>3, <1>5, <1>10 DEF h, c

----------------------------------------------------------------------------
(* A message is handled.                                                   *)

(* Every reference but those of held is a list's.                          *)
Handled(g, held) ==
    /\ g.conf = tc.conf /\ Event(g, g.body, held) /\ g.unsent = {}

(* A message has come in: no list has it yet.                              *)
Arrived(g, held, q, c) ==
    /\ g.conf = tc.conf /\ Event(g, g.body, held) /\ g.torn = {}
    /\ g.unsent = {} /\ ~g.failed
    /\ Incoming(g.body, held, q, c, {})
    /\ \A r \in Ports : ~Remembers(g, r, c)

LEMMA ArrivedForwarding ==
  ASSUME NEW held, NEW q, NEW c, NEW g, Arrived(g, held, q, c)
  PROVE  Forwarding(g, g.body, held, c, {}, NoneUnsent, 0)
  BY DEF Arrived, Event, Typed, Forwarding, NoneUnsent

LEMMA ForwardedHandled ==
  ASSUME NEW b, NEW held, NEW c, NEW K, NEW k, NEW g, Forwarding(g, b, held, c, K, NoneUnsent, k)
  PROVE  Handled(g, held)
<1>1. g.conf = tc.conf /\ g.body = b
  BY ForwardingPorts
<1> QED BY <1>1 DEF Forwarding, NoneUnsent, Handled

(* A one-step Sync goes out as a two-step one, and the Follow_Up after it. *)
LEMMA SplitSyncHandled ==
  ASSUME NEW held, NEW q, NEW c, NEW g, Arrived(g, held, q, c), g.body[c].type = "SYNC",
         CanAllocate(g), NEW out
  PROVE  LET f == Allocated(g)
             a == msg_allocate(g, [g.body[c] EXCEPT !.type = "FOLLOW_UP"])
         IN  Handled(Put(tc_fwd_general(tc_fwd_event(a, q, c, out), q, f, out), f), held)
<1> DEFINE b == g.body
           m == [g.body[c] EXCEPT !.type = "FOLLOW_UP"]
           f == Allocated(g)
           a == msg_allocate(g, m)
           b1 == Saying(b, f, m)
           held1 == First(held, f)
           n == tc.conf.ports
           e == tc_fwd_event(a, q, c, out)
           h == tc_fwd_general(e, q, f, out)
<1>0. /\ Incoming(b, held, q, c, {}) /\ Event(g, b, held) /\ g.torn = {}
      /\ g.conf = tc.conf /\ PortsOf(g) = Ports /\ g \in TcRec(tc.conf)
      /\ g.unsent = {} /\ ~g.failed /\ tc.conf.ports \in Nat
  <2>1. Forwarding(g, b, held, c, {}, NoneUnsent, 0)
    BY ArrivedForwarding
  <2>2. PortsOf(g) = Ports /\ tc.conf.ports \in Nat
    BY <2>1, ForwardingPorts
  <2> QED BY <2>1, <2>2 DEF Arrived, Forwarding
<1>1. held \in [Msgs -> Nat] /\ c \in Msgs /\ b[c] \in Message
  BY <1>0 DEF Incoming
<1>2. m \in Message /\ m.type = "FOLLOW_UP"
  BY <1>1 DEF Message, Kinds
<1> HIDE DEF m
<1>3. /\ f \in Msgs /\ held[f] = 0 /\ \A p \in PortsOf(g) : ~Remembers(g, p, f)
      /\ Event(a, b1, held1) /\ a.conf = g.conf /\ a.torn = {} /\ a.queue = g.queue
      /\ a.unsent = g.unsent /\ a.failed = g.failed
  <2>1. held \in [Msgs -> Nat] /\ Event(g, b, held) /\ g.torn = {} /\ CanAllocate(g)
        /\ m \in Message
    BY <1>0, <1>1, <1>2
  <2> HIDE DEF b
  <2> QED BY ONLY <2>1, AllocateEvent
<1> HIDE DEF f, a
<1>4. /\ f # c /\ held1 \in [Msgs -> Nat] /\ held1[c] > 0 /\ held1[f] = 1
      /\ \A d \in Msgs : d # f => held1[d] = held[d]
  BY <1>0, <1>1, <1>3 DEF Incoming, First
<1>5. b1[c] = b[c] /\ b1[f] = m
  <2>1. b \in [Msgs -> Message \cup {Null}]
    BY <1>0 DEF TcRec
  <2> HIDE DEF b
  <2> QED BY <2>1, <1>1, <1>3, <1>4 DEF Saying
<1> HIDE DEF b1, held1, b
<1>6. Incoming(b1, held1, q, c, {f}) /\ Incoming(b1, held1, q, f, {})
  BY <1>0, <1>1, <1>2, <1>3, <1>4, <1>5 DEF Incoming
<1>7. Forwarding(a, b1, held1, c, {f}, NoneUnsent, 0)
  <2>1. a \in TcRec(tc.conf)
    BY <1>0, <1>3 DEF Event, Typed
  <2>2. \A r \in Ports : ~Remembers(a, r, f) /\ ~Remembers(a, r, c)
    BY <1>0, <1>3 DEF Arrived, Remembers
  <2> QED BY <1>0, <1>3, <2>1, <2>2 DEF Forwarding, NoneUnsent
<1>8. b1[c].type \in {"SYNC", "DELAY_REQ"} /\ b1[f].type \in {"FOLLOW_UP", "DELAY_RESP"}
  BY <1>2, <1>5 DEF b
<1>9. Forwarding(e, b1, held1, c, {f}, NoneUnsent, n)
  BY <1>6, <1>7, <1>8, EventForwards
<1> HIDE DEF e
<1>10. Forwarding(e, b1, held1, f, {}, NoneUnsent, 0)
  BY <1>9 DEF Forwarding
<1>11. Forwarding(h, b1, held1, f, {}, NoneUnsent, n)
  BY <1>6, <1>8, <1>10, GeneralMessageForwards
<1> HIDE DEF h
<1>12. Event(h, b1, held1) /\ h.unsent = {} /\ h.conf = tc.conf /\ h.body = b1
  <2>1. h.conf = tc.conf /\ h.body = b1
    BY <1>11, ForwardingPorts
  <2> QED BY <1>11, <2>1 DEF Forwarding, NoneUnsent
<1>13. Event(Put(h, f), b1, Less(held1, f)) /\ SameButPool(h, Put(h, f))
  <2>1. held1[f] > 0
    BY <1>4
  <2>2. held1 \in [Msgs -> Nat] /\ f \in Msgs /\ Event(h, b1, held1)
    BY <1>3, <1>4, <1>12
  <2> QED BY ONLY <2>1, <2>2, PutEvent
<1>14. Less(held1, f) = held
  <2> DEFINE r == Less(held1, f)
  <2>1. \A d \in Msgs : r[d] = held[d]
    BY <1>3, <1>4 DEF Less
  <2>2. r \in [Msgs -> Int]
    <3>1. held1 \in [Msgs -> Int] /\ held1[f] - 1 \in Int
      BY <1>3, <1>4
    <3> QED BY <3>1, Zenon DEF Less
  <2> HIDE DEF r
  <2>3. r = held
    BY <2>1, <2>2, <1>1
  <2> QED BY <2>3 DEF r
<1>15. Handled(Put(h, f), held)
  BY <1>12, <1>13, <1>14 DEF Handled, SameButPool
<1> QED BY <1>15 DEF h, e, a, f, m

(* Without a message for the Follow_Up the port is to be faulted.          *)
LEMMA FailsAlike ==
  ASSUME NEW held, NEW g, Handled(g, held), NEW x \in BOOLEAN
  PROVE  Handled([g EXCEPT !.failed = x], held)
<1> DEFINE h == [g EXCEPT !.failed = x]
<1>0. Typed(g) /\ g \in TcRec(g.conf) /\ g.conf = tc.conf
  BY DEF Handled, Event, Typed
<1>1. /\ h \in TcRec(g.conf) /\ h.state = g.state /\ h.queue = g.queue /\ h.torn = g.torn
      /\ h.body = g.body /\ h.refcnt = g.refcnt /\ h.pool = g.pool /\ h.total = g.total
      /\ h.conf = g.conf /\ h.unsent = g.unsent
  BY <1>0 DEF TcRec
<1> HIDE DEF h
<1>2. Alike(g, h)
  BY <1>1 DEF Alike
<1>3. ASSUME g.torn = {} PROVE Counts(h, h.refcnt) /\ Counted(h, held)
  <2> DEFINE own == g.refcnt
  <2>1. Counts(g, own) /\ Counted(g, held)
    BY <1>3 DEF Handled, Event, Sound
  <2> HIDE DEF own
  <2>2. Counts(h, own)
    BY <1>1, <2>1, SamePool DEF own
  <2>3. \A d \in Msgs : Holders(h, d) = Holders(g, d)
    BY <1>1 DEF Holders, PortsOf, Remembers
  <2>4. Counted(h, held)
    BY <1>1, <2>1, <2>3 DEF Counted
  <2> QED BY <1>1, <2>2, <2>4 DEF own
<1>4. Event(h, h.body, held)
  BY <1>2, <1>3, AlikeEvent DEF Handled
<1> QED BY <1>1, <1>4 DEF Handled, h

(* Any message.                                                            *)
LEMMA ForwardHandled ==
  ASSUME NEW held, NEW q, NEW c, NEW g, Arrived(g, held, q, c), NEW one_step, NEW out
  PROVE  Handled(Forward(g, q, c, one_step, out), held)
<1> DEFINE b == g.body
           n == tc.conf.ports
<1>1. Forwarding(g, b, held, c, {}, NoneUnsent, 0) /\ Incoming(b, held, q, c, {})
  BY ArrivedForwarding DEF Arrived
<1>2. b[c].type \in Kinds
  BY <1>1 DEF Incoming, Message
<1> HIDE DEF b
<1>3. CASE b[c].type = "SYNC"
  <2>1. Handled(tc_fwd_event(g, q, c, out), held)
    <3>1. Forwarding(tc_fwd_event(g, q, c, out), b, held, c, {}, NoneUnsent, n)
      BY <1>1, <1>3, EventForwards
    <3> QED BY <3>1, ForwardedHandled
  <2>2. Handled([g EXCEPT !.failed = TRUE], held)
    <3>1. Handled(g, held)
      BY DEF Arrived, Handled
    <3> QED BY <3>1, FailsAlike
  <2>3. CanAllocate(g) => Handled(Put(tc_fwd_general(tc_fwd_event(
              msg_allocate(g, [g.body[c] EXCEPT !.type = "FOLLOW_UP"]), q, c, out),
              q, Allocated(g), out), Allocated(g)), held)
    BY <1>3, SplitSyncHandled DEF b
  <2>4. Handled(tc_fwd_sync(g, q, c, one_step, out), held)
    BY <2>1, <2>2, <2>3, Zenon DEF tc_fwd_sync
  <2>5. Forward(g, q, c, one_step, out) = tc_fwd_sync(g, q, c, one_step, out)
    BY <1>3, Zenon DEF Forward, b
  <2> QED BY <2>4, <2>5
<1>4. CASE b[c].type = "DELAY_REQ"
  <2>1. Forwarding(tc_fwd_event(g, q, c, out), b, held, c, {}, NoneUnsent, n)
    BY <1>1, <1>4, EventForwards
  <2>2. Forward(g, q, c, one_step, out) = tc_fwd_event(g, q, c, out)
    BY <1>4 DEF Forward, b
  <2> QED BY <2>1, <2>2, ForwardedHandled
<1>5. CASE b[c].type = "GENERAL"
  <2>1. Forwarding(tc_forward(g, q, c, out), b, held, c, {}, NoneUnsent, n)
    BY <1>1, OtherMessageForwards
  <2>2. Forward(g, q, c, one_step, out) = tc_forward(g, q, c, out)
    BY <1>5 DEF Forward, b
  <2> QED BY <2>1, <2>2, ForwardedHandled
<1>6. CASE b[c].type \in {"FOLLOW_UP", "DELAY_RESP"}
  <2>1. Forwarding(tc_fwd_general(g, q, c, out), b, held, c, {}, NoneUnsent, n)
    BY <1>1, <1>6, GeneralMessageForwards
  <2>2. Forward(g, q, c, one_step, out) = tc_fwd_general(g, q, c, out)
    BY <1>6 DEF Forward, b
  <2> QED BY <2>1, <2>2, ForwardedHandled
<1> QED BY <1>2, <1>3, <1>4, <1>5, <1>6 DEF Kinds

(* The copy is released, and the message.                                  *)
LEMMA HandledPut ==
  ASSUME NEW held \in [Msgs -> Nat], NEW g, Handled(g, held), NEW c \in Msgs, held[c] > 0
  PROVE  Handled(Put(g, c), Less(held, c))
<1> DEFINE h == Put(g, c)
           b == g.body
<1>1. Event(g, b, held)
  BY DEF Handled
<1> HIDE DEF b
<1>2. Event(Put(g, c), b, Less(held, c)) /\ SameButPool(g, Put(g, c))
  BY <1>1, PutEvent
<1> QED BY <1>2 DEF Handled, SameButPool, b

LEMMA FirstTyped ==
  ASSUME NEW held \in [Msgs -> Nat], NEW c \in Msgs
  PROVE  /\ First(held, c) \in [Msgs -> Nat] /\ First(held, c)[c] = 1
         /\ \A d \in Msgs : d # c => First(held, c)[d] = held[d]
  BY DEF First

LEMMA FirstLess ==
  ASSUME NEW held \in [Msgs -> Nat], NEW c \in Msgs, held[c] = 0
  PROVE  Less(First(held, c), c) = held
<1> DEFINE r == First(held, c)
           l == Less(r, c)
<1>1. r \in [Msgs -> Nat] /\ r[c] = 1 /\ \A d \in Msgs : d # c => r[d] = held[d]
  BY FirstTyped
<1> HIDE DEF r
<1>2. l \in [Msgs -> Int]
  <2>1. r \in [Msgs -> Int] /\ r[c] - 1 \in Int
    BY <1>1
  <2> QED BY <2>1, Zenon DEF Less
<1>3. \A d \in Msgs : l[d] = held[d]
  BY <1>1 DEF Less
<1> HIDE DEF l
<1>4. l = held
  BY <1>2, <1>3
<1> QED BY <1>4 DEF l, r

(* The order of two releases does not matter to the counts.                *)
LEMMA LessEither ==
  ASSUME NEW held \in [Msgs -> Nat], NEW c \in Msgs, NEW d \in Msgs, held[c] = 0, c # d
  PROVE  Less(First(First(held, c), d), c) = First(held, d)
<1> DEFINE r == First(held, c)
           s == First(r, d)
           l == Less(s, c)
           k == First(held, d)
<1>1. r \in [Msgs -> Nat] /\ r[c] = 1 /\ \A x \in Msgs : x # c => r[x] = held[x]
  BY FirstTyped
<1> HIDE DEF r
<1>2. s \in [Msgs -> Nat] /\ s[d] = 1 /\ \A x \in Msgs : x # d => s[x] = r[x]
  BY <1>1, FirstTyped
<1>3. k \in [Msgs -> Nat] /\ k[d] = 1 /\ \A x \in Msgs : x # d => k[x] = held[x]
  BY FirstTyped
<1> HIDE DEF s, k
<1>4. l \in [Msgs -> Int]
  <2>1. s \in [Msgs -> Int] /\ s[c] - 1 \in Int
    BY <1>2
  <2> QED BY <2>1, Zenon DEF Less
<1>5. \A x \in Msgs : l[x] = k[x]
  BY <1>1, <1>2, <1>3 DEF Less
<1> HIDE DEF l
<1>6. l = k
  BY <1>3, <1>4, <1>5
<1> QED BY <1>6 DEF l, k, s, r

(* The message c and its copy dup.                                         *)
WithCopy(a, q, c, dup) ==
    /\ c \in Msgs /\ dup \in Msgs /\ c # dup
    /\ Arrived(a, First(First(NoRefs, c), dup), q, c)

LEMMA ForwardOnceHandled ==
  ASSUME NEW q, NEW c, NEW dup, NEW a, WithCopy(a, q, c, dup), NEW one_step, NEW out
  PROVE  Handled(ForwardOnce(a, q, c, one_step, out, dup), NoRefs)
<1> DEFINE one == First(NoRefs, c)
           two == First(one, dup)
           other == First(NoRefs, dup)
<1>0. c \in Msgs /\ dup \in Msgs /\ c # dup /\ Arrived(a, two, q, c)
  BY DEF WithCopy
<1>1. NoRefs \in [Msgs -> Nat] /\ NoRefs[c] = 0 /\ NoRefs[dup] = 0
  BY <1>0 DEF NoRefs
<1>2. one \in [Msgs -> Nat] /\ one[c] = 1 /\ one[dup] = 0
  BY <1>0, <1>1, FirstTyped
<1>3. other \in [Msgs -> Nat] /\ other[dup] = 1
  BY <1>0, <1>1, FirstTyped
<1>4. Less(one, c) = NoRefs /\ Less(other, dup) = NoRefs
  BY <1>0, <1>1, FirstLess
<1>5. Less(two, c) = other
  BY <1>0, <1>1, LessEither
<1> HIDE DEF one, other
<1>6. two \in [Msgs -> Nat] /\ two[dup] = 1 /\ two[c] = 1
  BY <1>0, <1>2, FirstTyped
<1>7. Less(two, dup) = one
  BY <1>0, <1>2, FirstLess
<1> HIDE DEF two
<1>8. CASE a.body[c].domain # 0
  <2> DEFINE h == Put(a, dup)
             k == Forward(h, q, c, one_step, out)
  <2>1. Event(h, a.body, one) /\ SameButPool(a, h)
    <3> DEFINE b == a.body
    <3>1. Event(a, b, two) /\ two[dup] > 0
      BY <1>0, <1>6 DEF Arrived
    <3> HIDE DEF b
    <3>2. Event(Put(a, dup), b, Less(two, dup)) /\ SameButPool(a, Put(a, dup))
      BY <1>0, <1>6, <3>1, PutEvent
    <3> QED BY <1>7, <3>2 DEF b
  <2> HIDE DEF h
  <2>2. Arrived(h, one, q, c)
    BY <1>0, <1>2, <2>1 DEF Arrived, SameButPool, Incoming, Remembers
  <2>3. Handled(k, one)
    BY <2>2, ForwardHandled
  <2> HIDE DEF k
  <2>4. Handled(Put(k, c), Less(one, c))
    <3>1. one[c] > 0
      BY <1>2
    <3> QED BY <1>0, <1>2, <2>3, <3>1, HandledPut
  <2>5. ForwardOnce(a, q, c, one_step, out, dup) = Put(k, c)
    BY <1>8, Zenon DEF ForwardOnce, k, h
  <2> QED BY <1>4, <2>4, <2>5
<1>9. CASE ~(a.body[c].domain # 0)
  <2> DEFINE k == Forward(a, q, c, one_step, out)
             l == Put(k, c)
  <2>1. Handled(k, two)
    BY <1>0, ForwardHandled
  <2> HIDE DEF k
  <2>2. Handled(l, Less(two, c))
    <3>1. two[c] > 0
      BY <1>6
    <3> QED BY <1>0, <1>6, <2>1, <3>1, HandledPut
  <2> HIDE DEF l
  <2>3. Handled(l, other) /\ other[dup] > 0
    BY <1>3, <1>5, <2>2
  <2>4. Handled(Put(l, dup), Less(other, dup))
    BY <1>0, <1>3, <2>3, HandledPut
  <2>5. ForwardOnce(a, q, c, one_step, out, dup) = Put(l, dup)
    BY <1>9, Zenon DEF ForwardOnce, l, k
  <2> QED BY <1>4, <2>4, <2>5
<1> QED BY <1>8, <1>9

(* The event is over.                                                      *)
Done(g) == Handled(g, NoRefs) /\ ~g.failed

LEMMA ConcludeDone ==
  ASSUME NEW g, Handled(g, NoRefs), NEW q \in Ports
  PROVE  Done(Conclude(g, q))
<1>0. g \in TcRec(tc.conf) /\ g.failed \in BOOLEAN
  <2>1. g \in TcRec(g.conf) /\ g.conf = tc.conf
    BY DEF Handled, Event, Typed
  <2> QED BY <2>1 DEF TcRec
<1>1. CASE g.failed
  <2> DEFINE h == [g EXCEPT !.failed = FALSE]
             b == h.body
             k == Fault(h, q)
  <2>1. Handled(h, NoRefs)
    BY FailsAlike
  <2>2. h.failed = FALSE
    BY <1>0 DEF TcRec
  <2> HIDE DEF h
  <2>3. Event(h, b, NoRefs) /\ h.conf = tc.conf /\ h.unsent = {} /\ q \in PortsOf(h)
    BY <2>1 DEF Handled, PortsOf, Ports
  <2> HIDE DEF b
  <2>4. Settles(h, k, b, NoRefs)
    <3>1. NoRefs \in [Msgs -> Nat]
      BY DEF NoRefs
    <3> QED BY <2>3, <3>1, FaultSettles
  <2> HIDE DEF k
  <2>5. Event(k, k.body, NoRefs) /\ k.conf = tc.conf /\ k.unsent = {} /\ ~k.failed
    <3>1. Event(k, b, NoRefs) /\ Shrinks(h, k)
      BY <2>4 DEF Settles
    <3>2. k.body = b
      BY <3>1 DEF Event
    <3> QED BY <3>1, <3>2, <2>2, <2>3 DEF Shrinks
  <2>6. Done(k)
    BY <2>5 DEF Done, Handled
  <2>7. Conclude(g, q) = k
    BY <1>1, Zenon DEF Conclude, k, h
  <2> QED BY <2>6, <2>7
<1>2. CASE ~g.failed
  <2>1. Conclude(g, q) = g
    BY <1>2 DEF Conclude
  <2> QED BY <1>2, <2>1 DEF Done
<1> QED BY <1>1, <1>2

(* The clock's own copy is made, or the message is dropped.                *)
LEMMA HandleDone ==
  ASSUME NEW a, NEW q \in Ports, NEW c, Arrived(a, First(NoRefs, c), q, c), NEW m \in Message,
         NEW one_step, NEW out
  PROVE  Done(Handle(a, q, m, one_step, out, c))
<1> DEFINE one == First(NoRefs, c)
           b == a.body
<1>0. /\ Event(a, b, one) /\ a.conf = tc.conf /\ a.torn = {} /\ a.unsent = {} /\ ~a.failed
      /\ Incoming(b, one, q, c, {}) /\ c \in Msgs /\ \A r \in Ports : ~Remembers(a, r, c)
  BY DEF Arrived, Incoming
<1>1. NoRefs \in [Msgs -> Nat] /\ NoRefs[c] = 0
  BY <1>0 DEF NoRefs
<1>2. one \in [Msgs -> Nat] /\ one[c] = 1
  BY <1>0, <1>1, FirstTyped
<1>3. CASE CanAllocate(a)
  <2> DEFINE x == msg_allocate(a, m)
             dup == Allocated(a)
             two == First(one, dup)
             b1 == Saying(b, dup, m)
             k == ForwardOnce(x, q, c, one_step, out, dup)
  <2> HIDE DEF one, b
  <2>1. /\ dup \in Msgs /\ one[dup] = 0
        /\ Event(x, b1, two)
        /\ x.conf = a.conf /\ x.torn = {} /\ x.queue = a.queue
        /\ x.unsent = a.unsent /\ x.failed = a.failed
    <3>1. one \in [Msgs -> Nat] /\ Event(a, b, one) /\ a.torn = {} /\ CanAllocate(a)
      BY <1>0, <1>2, <1>3
    <3> QED BY ONLY <3>1, m \in Message, AllocateEvent
  <2> HIDE DEF x, dup
  <2>2. dup # c
    BY <1>2, <2>1
  <2>3. two \in [Msgs -> Nat] /\ two[c] = 1
    BY <1>0, <1>2, <2>1, <2>2, FirstTyped
  <2>4. b1[c] = b[c]
    <3>1. b \in [Msgs -> Message \cup {Null}]
      BY <1>0 DEF Event, Typed, TcRec
    <3> QED BY <3>1, <1>0, <2>1, <2>2 DEF Saying
  <2> HIDE DEF two, b1
  <2>5. x.body = b1
    BY <2>1 DEF Event
  <2>6. Incoming(x.body, two, q, c, {})
    BY <1>0, <2>3, <2>4, <2>5 DEF Incoming
  <2>7. \A r \in Ports : ~Remembers(x, r, c)
    BY <1>0, <2>1 DEF Remembers
  <2>8. Arrived(x, two, q, c)
    BY <1>0, <2>1, <2>5, <2>6, <2>7 DEF Arrived
  <2>9. WithCopy(x, q, c, dup)
    BY <1>0, <2>1, <2>2, <2>8 DEF WithCopy, two, one
  <2>10. Handled(k, NoRefs)
    BY <2>9, ForwardOnceHandled
  <2> HIDE DEF k
  <2>11. Done(Conclude(k, q))
    BY <2>10, ConcludeDone
  <2>12. Handle(a, q, m, one_step, out, c) = Conclude(k, q)
    BY <1>3, Zenon DEF Handle, k, x, dup
  <2> QED BY <2>11, <2>12
<1>4. CASE ~CanAllocate(a)
  <2>1. Less(one, c) = NoRefs
    BY <1>0, <1>1, FirstLess
  <2> HIDE DEF one, b
  <2>2. Event(Put(a, c), b, Less(one, c)) /\ SameButPool(a, Put(a, c))
    <3>1. one[c] > 0
      BY <1>2
    <3> QED BY <1>0, <1>2, <3>1, PutEvent
  <2> DEFINE h == Put(a, c)
  <2>3. Handle(a, q, m, one_step, out, c) = h
    BY <1>4, Zenon DEF Handle
  <2>4. Event(h, b, NoRefs) /\ SameButPool(a, h)
    BY <2>1, <2>2
  <2> HIDE DEF h
  <2>5. Done(h)
    <3>1. h.body = b
      BY <2>4 DEF Event
    <3> QED BY <1>0, <2>4, <3>1 DEF Done, Handled, SameButPool
  <2> QED BY <2>3, <2>5
<1> QED BY <1>3, <1>4

(* What recycled messages said is forgotten.                               *)
LEMMA SettleBetween ==
  ASSUME NEW g, Done(g)
  PROVE  Between(Settle(g))
<1> DEFINE w == [c \in Msgs |-> IF g.refcnt[c] = 0 THEN Null ELSE g.body[c]]
           h == [g EXCEPT !.body = w]
<1>0. /\ Event(g, g.body, NoRefs) /\ Typed(g) /\ g \in TcRec(g.conf) /\ ~g.failed
      /\ g.unsent = {} /\ NoRefs \in [Msgs -> Nat]
  BY DEF Done, Handled, Event, Typed, NoRefs
<1>1. Settle(g) = h
  BY DEF Settle
<1>2. w \in [Msgs -> Message \cup {Null}]
  BY <1>0 DEF TcRec
<1>3. \A c \in Msgs : g.refcnt[c] # 0 => w[c] = g.body[c]
  OBVIOUS
<1> HIDE DEF w
<1>4. /\ h \in TcRec(g.conf) /\ h.state = g.state /\ h.queue = g.queue /\ h.torn = g.torn
      /\ h.body = w /\ h.refcnt = g.refcnt /\ h.pool = g.pool /\ h.total = g.total
      /\ h.conf = g.conf /\ h.unsent = {} /\ ~h.failed
  BY <1>0, <1>2 DEF TcRec
<1> HIDE DEF h
<1>5. Typed(h)
  BY <1>0, <1>4, AlikeTyped
<1>6. ASSUME g.torn = {} PROVE Event(h, h.body, NoRefs)
  <2>1. Sound(g, NoRefs)
    BY <1>0, <1>6 DEF Event
  <2>2. Alike(g, h)
    <3> SUFFICES ASSUME NEW p \in PortsOf(g), NEW i \in 1 .. Len(g.queue[p])
                 PROVE  w[g.queue[p][i].msg] = g.body[g.queue[p][i].msg]
      BY <1>4 DEF Alike
    <3> DEFINE d == g.queue[p][i].msg
    <3>1. d \in Msgs /\ Remembers(g, p, d)
      BY <1>0, EntriesTyped DEF Remembers
    <3> HIDE DEF d
    <3>2. g.refcnt[d] > NoRefs[d]
      BY <1>0, <2>1, <3>1, RememberedLives
    <3>3. g.refcnt[d] # 0
      BY <3>1, <3>2 DEF NoRefs
    <3>4. w[d] = g.body[d]
      BY <1>3, <3>1, <3>3
    <3> QED BY <3>4 DEF d
  <2>3. Counts(h, h.refcnt) /\ Counted(h, NoRefs)
    <3> DEFINE own == g.refcnt
    <3>1. Counts(g, own) /\ Counted(g, NoRefs)
      BY <2>1 DEF Sound
    <3> HIDE DEF own
    <3>2. Counts(h, own)
      BY <1>4, <3>1, SamePool DEF own
    <3>3. \A d \in Msgs : Holders(h, d) = Holders(g, d)
      BY <1>4 DEF Holders, PortsOf, Remembers
    <3>4. Counted(h, NoRefs)
      BY <1>4, <3>1, <3>3 DEF Counted
    <3> QED BY <1>4, <3>2, <3>4 DEF own
  <2> QED BY <1>0, <2>2, <2>3, AlikeEvent
<1>7. Between(h)
  BY <1>4, <1>5, <1>6 DEF Between, Event
<1> QED BY <1>1, <1>7

----------------------------------------------------------------------------
(* Steps.                                                                  *)

(* An event begins.                                                        *)
LEMMA FreshDone ==
  ASSUME TcInv, tc.torn = {}
  PROVE  Done(Fresh(tc)) /\ Fresh(tc).torn = {}
<1> DEFINE h == Fresh(tc)
           b == tc.body
<1>0. /\ Typed(tc) /\ tc \in TcRec(tc.conf) /\ Sound(tc, NoRefs) /\ Said(tc)
      /\ ~tc.failed /\ tc.unsent = {} /\ Event(tc, b, NoRefs)
  BY DEF TcInv, Between, Typed, Event
<1>1. /\ h \in TcRec(tc.conf) /\ h.state = tc.state /\ h.queue = tc.queue /\ h.torn = tc.torn
      /\ h.body = tc.body /\ h.refcnt = tc.refcnt /\ h.pool = tc.pool /\ h.total = tc.total
      /\ h.conf = tc.conf /\ h.unsent = tc.unsent /\ h.failed = tc.failed
  BY <1>0 DEF TcRec, Fresh
<1> HIDE DEF h, b
<1>2. Alike(tc, h)
  BY <1>1 DEF Alike
<1>3. Counts(h, h.refcnt) /\ Counted(h, NoRefs)
  <2> DEFINE own == tc.refcnt
  <2>1. Counts(tc, own) /\ Counted(tc, NoRefs)
    BY <1>0 DEF Sound
  <2> HIDE DEF own
  <2>2. Counts(h, own)
    BY <1>1, <2>1, SamePool DEF own
  <2>3. \A d \in Msgs : Holders(h, d) = Holders(tc, d)
    BY <1>1 DEF Holders, PortsOf, Remembers
  <2>4. Counted(h, NoRefs)
    BY <1>1, <2>1, <2>3 DEF Counted
  <2> QED BY <1>1, <2>2, <2>4 DEF own
<1>4. Event(h, h.body, NoRefs)
  BY <1>0, <1>2, <1>3, AlikeEvent
<1> QED BY <1>0, <1>1, <1>4 DEF Done, Handled, h

(* An event that only settled the ports is over.                           *)
LEMMA SettledDone ==
  ASSUME NEW g, Done(g), NEW h, Settles(g, h, g.body, NoRefs)
  PROVE  Done(h)
<1> DEFINE b == g.body
<1>1. Event(h, b, NoRefs) /\ Shrinks(g, h)
  BY DEF Settles
<1>2. h.body = b
  BY <1>1 DEF Event
<1> QED BY <1>1, <1>2 DEF Done, Handled, Shrinks

(* A dispatched event.                                                     *)
LEMMA DispatchDone ==
  ASSUME NEW g, Done(g), NEW p \in Ports, NEW e \in Events, NEW reopened
  PROVE  Done(Dispatch(g, p, e, reopened))
<1> DEFINE b == g.body
<1>1. Event(g, b, NoRefs) /\ p \in PortsOf(g) /\ NoRefs \in [Msgs -> Nat]
  BY DEF Done, Handled, PortsOf, Ports, NoRefs
<1> HIDE DEF b
<1>2. Settles(g, Dispatch(g, p, e, reopened), b, NoRefs)
  BY <1>1, DispatchSettles
<1> QED BY <1>2, SettledDone DEF b

(* The oldest entries are pruned.                                          *)
LEMMA PruneSettles ==
  ASSUME NEW b, NEW held \in [Msgs -> Nat], NEW g, Event(g, b, held), NEW p \in PortsOf(g),
         NEW n \in 1 .. Len(g.queue[p])
  PROVE  LET list == SubSeq(g.queue[p], 1, n)
             rest == SubSeq(g.queue[p], n + 1, Len(g.queue[p]))
         IN  /\ Settles(g, [Release(g, list) EXCEPT !.queue[p] = rest], b, held)
             /\ Release(g, list).queue = g.queue
<1> DEFINE old == g.queue[p]
           list == SubSeq(old, 1, n)
           rest == SubSeq(old, n + 1, Len(old))
           h == Release(g, list)
           D == MsgsOf(list)
<1>0. Typed(g) /\ g \in TcRec(g.conf)
  BY DEF Event, Typed
<1>1. /\ Len(old) \in Nat /\ old \in Seq(Entry(g.conf.ports))
      /\ \A i \in 1 .. Len(old) : old[i] \in Entry(g.conf.ports) /\ old[i].msg \in Msgs
  BY <1>0, EntriesTyped
<1> DEFINE E == Entry(g.conf.ports)
<1> HIDE DEF E
<1>2. old \in Seq(E)
  BY <1>1 DEF E
<1>3. n \in Nat /\ n >= 1 /\ n <= Len(old)
  BY <1>1
<1> HIDE DEF old
<1>4. list \in Seq(E) /\ Len(list) = n /\ \A i \in 1 .. n : list[i] = old[i]
  BY <1>1, <1>2, <1>3
<1>5. rest \in Seq(E) /\ Len(rest) = Len(old) - n /\ \A i \in 1 .. Len(old) - n : rest[i] = old[n + i]
  BY <1>1, <1>2, <1>3
<1> HIDE DEF list, rest
<1>6. \A i \in 1 .. Len(list) : list[i].msg \in Msgs
  BY <1>1, <1>3, <1>4
<1>7. Repools(g, h) /\ (Ready(g, list) => Took(g, h, D))
  BY <1>0, <1>3, <1>4, <1>6, Releases
<1> HIDE DEF h
<1>8. h.queue = g.queue
  BY <1>0, <1>7, RepoolsFields DEF SameButPool
<1>9. D = {old[j].msg : j \in 1 .. n}
  BY <1>4 DEF MsgsOf, FirstOf
<1> HIDE DEF D
<1>10. ASSUME g.torn = {} PROVE Remains(g, h, p, rest, D)
  <2>1. Sound(g, held)
    BY <1>10 DEF Event
  <2>2. Ready(g, old)
    BY <1>0, <2>1, ListReady DEF old
  <2>3. OneEach(old)
    BY <2>2 DEF Ready
  <2>4. Ready(g, list)
    <3>1. OneEach(list)
      BY <1>3, <1>4, <2>3 DEF OneEach
    <3>2. \A i \in 1 .. Len(list) : g.refcnt[list[i].msg] > 0
      <4>1. \A i \in 1 .. n : i \in 1 .. Len(old)
        BY <1>1, <1>3
      <4> QED BY <1>4, <2>2, <4>1 DEF Ready
    <3> QED BY <2>2, <3>1, <3>2 DEF Ready
  <2>5. Took(g, h, D)
    BY <1>7, <2>4
  <2>6. OneEach(rest)
    <3> SUFFICES ASSUME NEW i \in 1 .. Len(rest), NEW j \in 1 .. Len(rest),
                        rest[i].msg = rest[j].msg
                 PROVE  i = j
      BY DEF OneEach
    <3>1. n + i \in 1 .. Len(old) /\ n + j \in 1 .. Len(old)
      BY <1>1, <1>3, <1>5
    <3>2. old[n + i].msg = old[n + j].msg
      BY <1>5
    <3>3. n + i = n + j
      BY <2>3, <3>1, <3>2 DEF OneEach
    <3> QED BY <1>1, <1>3, <1>5, <3>3
  <2>7. ASSUME NEW c \in Msgs
        PROVE  (\E i \in 1 .. Len(rest) : rest[i].msg = c) <=> Remembers(g, p, c) /\ c \notin D
    <3>1. ASSUME NEW i \in 1 .. Len(rest), rest[i].msg = c PROVE Remembers(g, p, c) /\ c \notin D
      <4>1. n + i \in 1 .. Len(old) /\ old[n + i].msg = c
        BY <1>1, <1>3, <1>5, <3>1
      <4>2. ASSUME NEW j \in 1 .. n, old[j].msg = c PROVE FALSE
        <5>1. j \in 1 .. Len(old) /\ n + i # j
          BY <1>1, <1>3, <1>5
        <5> QED BY <2>3, <4>1, <4>2, <5>1 DEF OneEach
      <4> QED BY <1>9, <4>1, <4>2 DEF Remembers, old
    <3>2. ASSUME Remembers(g, p, c), c \notin D PROVE \E i \in 1 .. Len(rest) : rest[i].msg = c
      <4>1. PICK j \in 1 .. Len(old) : old[j].msg = c
        BY <3>2 DEF Remembers, old
      <4>2. j \notin 1 .. n
        BY <1>9, <3>2, <4>1
      <4>3. j - n \in 1 .. Len(rest) /\ n + (j - n) = j
        BY <1>1, <1>3, <1>5, <4>2
      <4>4. rest[j - n] = old[j]
        BY <1>5, <4>3
      <4> QED BY <4>1, <4>3, <4>4
    <3> QED BY <3>1, <3>2
  <2>8. \A c \in D : Remembers(g, p, c)
    BY <1>1, <1>3, <1>9 DEF Remembers, old
  <2> QED BY <2>5, <2>6, <2>7, <2>8 DEF Remains
<1>11. \A i \in 1 .. Len(rest) : \E j \in 1 .. Len(g.queue[p]) : rest[i] = g.queue[p][j]
  <2> TAKE i \in 1 .. Len(rest)
  <2>1. n + i \in 1 .. Len(old) /\ rest[i] = old[n + i]
    BY <1>1, <1>3, <1>5
  <2> QED BY <2>1 DEF old
<1>12. rest \in Seq(Entry(g.conf.ports))
  BY <1>5 DEF E
<1>13. Settles(g, [h EXCEPT !.queue[p] = rest], b, held)
  BY <1>7, <1>10, <1>11, <1>12, TakenOut
<1> QED BY <1>8, <1>13 DEF h, list, rest, old

(* A message comes in.                                                     *)
LEMMA ReceiveBetween ==
  ASSUME TcInv, tc.torn = {}, CanAllocate(tc), NEW q \in Ports, NEW m \in Message,
         NEW one_step, NEW out
  PROVE  Between(Settle(Handle(msg_allocate(Fresh(tc), m), q, m, one_step, out, Allocated(tc))))
<1> DEFINE g == Fresh(tc)
           b == g.body
           c == Allocated(g)
           a == msg_allocate(g, m)
           one == First(NoRefs, c)
           h == Handle(a, q, m, one_step, out, c)
<1>1. g.pool = tc.pool /\ g.total = tc.total
  BY DEF TcInv, Between, Typed, TcRec, Fresh
<1>2. CanAllocate(g) /\ Allocated(tc) = c
  BY <1>1 DEF CanAllocate, Allocated
<1>3. Done(g) /\ g.torn = {}
  BY FreshDone
<1> HIDE DEF g
<1>4. /\ Event(g, b, NoRefs) /\ NoRefs \in [Msgs -> Nat] /\ g.conf = tc.conf
      /\ g.unsent = {} /\ ~g.failed
  BY <1>3 DEF Done, Handled, NoRefs
<1> HIDE DEF b
<1>5. /\ c \in Msgs /\ \A p \in PortsOf(g) : ~Remembers(g, p, c)
      /\ Event(a, Saying(b, c, m), First(NoRefs, c))
      /\ a.conf = g.conf /\ a.torn = {} /\ a.queue = g.queue
      /\ a.unsent = g.unsent /\ a.failed = g.failed
  <2>1. NoRefs \in [Msgs -> Nat] /\ Event(g, b, NoRefs) /\ g.torn = {} /\ CanAllocate(g)
    BY <1>2, <1>3, <1>4
  <2> QED BY ONLY <2>1, m \in Message, AllocateEvent
<1> HIDE DEF a, c
<1>6. a.body = Saying(b, c, m)
  BY <1>5 DEF Event
<1>7. a.body[c] = m
  <2>1. b \in [Msgs -> Message \cup {Null}]
    BY <1>4 DEF Event, Typed, TcRec
  <2> QED BY <1>5, <1>6, <2>1 DEF Saying
<1>8. one \in [Msgs -> Nat] /\ one[c] = 1
  BY <1>4, <1>5, FirstTyped
<1> HIDE DEF one
<1>9. Incoming(a.body, one, q, c, {})
  BY <1>5, <1>7, <1>8 DEF Incoming
<1>10. \A r \in Ports : ~Remembers(a, r, c)
  BY <1>4, <1>5 DEF Remembers, PortsOf, Ports
<1>11. Arrived(a, one, q, c)
  BY <1>4, <1>5, <1>6, <1>9, <1>10 DEF Arrived, one
<1>12. Done(h)
  BY <1>11, HandleDone DEF one
<1>13. Between(Settle(h))
  <2> HIDE DEF h
  <2> QED BY <1>12, SettleBetween
<1> QED BY <1>2, <1>13 DEF h, a, g

LEMMA PruneBetween ==
  ASSUME TcInv, tc.torn = {}, NEW p \in Ports, NEW n \in 1 .. Len(tc.queue[p])
  PROVE  Between(Settle([Release(Fresh(tc), SubSeq(tc.queue[p], 1, n)) EXCEPT
                         !.queue[p] = SubSeq(@, n + 1, Len(@))]))
<1> DEFINE g == Fresh(tc)
           b == g.body
           list == SubSeq(g.queue[p], 1, n)
           rest == SubSeq(g.queue[p], n + 1, Len(g.queue[p]))
           h == Release(g, list)
           k == [h EXCEPT !.queue[p] = rest]
<1>1. g.queue = tc.queue
  BY DEF TcInv, Between, Typed, TcRec, Fresh
<1>2. Done(g)
  BY FreshDone
<1> HIDE DEF g
<1>3. Event(g, b, NoRefs) /\ NoRefs \in [Msgs -> Nat] /\ p \in PortsOf(g)
  BY <1>2 DEF Done, Handled, NoRefs, PortsOf, Ports
<1> HIDE DEF b
<1>4. n \in 1 .. Len(g.queue[p])
  BY <1>1
<1>5. Settles(g, k, b, NoRefs) /\ h.queue = g.queue
  BY <1>3, <1>4, PruneSettles
<1> HIDE DEF h
<1>6. [h EXCEPT !.queue[p] = SubSeq(@, n + 1, Len(@))] = k
  BY <1>5
<1> HIDE DEF k
<1>7. Done(k)
  BY <1>2, <1>5, SettledDone DEF b
<1>8. Between(Settle(k))
  BY <1>7, SettleBetween
<1>9. Release(Fresh(tc), SubSeq(tc.queue[p], 1, n)) = h
  BY <1>1 DEF h, g
<1> QED BY <1>6, <1>8, <1>9

LEMMA TcInitInv ==
  ASSUME Init
  PROVE  TcInv
<1>1. PICK conf \in Configs :
        tc = [ conf |-> conf,
               pool |-> <<>>, total |-> 0, refcnt |-> NoRefs, body |-> NoBodies,
               state |-> [p \in 1 .. conf.ports |-> "LISTENING"],
               timer |-> [p \in 1 .. conf.ports |-> TRUE],
               queue |-> [p \in 1 .. conf.ports |-> <<>>],
               sent |-> {}, unsent |-> {}, failed |-> FALSE, torn |-> {} ]
  BY DEF Init
<1>2. /\ tc.conf = conf /\ tc.pool = <<>> /\ tc.total = 0 /\ tc.refcnt = NoRefs
      /\ tc.body = NoBodies /\ ~tc.failed /\ tc.unsent = {}
      /\ tc.state = [p \in 1 .. conf.ports |-> "LISTENING"]
      /\ tc.queue = [p \in 1 .. conf.ports |-> <<>>]
  BY <1>1
<1>3. NoRefs \in [Msgs -> Nat] /\ NoBodies \in [Msgs -> Message \cup {Null}]
  BY DEF NoRefs, NoBodies
<1>4. tc \in TcRec(conf)
  <2>1. 0 \in 0 .. MaxMsgs /\ NoRefs \in [Msgs -> Int] /\ <<>> \in Seq(Msgs)
    BY <1>3, PoolConfig
  <2>2. [p \in 1 .. conf.ports |-> "LISTENING"] \in [1 .. conf.ports -> States \ {"INITIALIZING"}]
    BY DEF States
  <2>3. [p \in 1 .. conf.ports |-> <<>>] \in [1 .. conf.ports -> Seq(Entry(conf.ports))]
    <3>1. <<>> \in Seq(Entry(conf.ports))
      OBVIOUS
    <3> QED BY <3>1, Zenon
  <2>4. [p \in 1 .. conf.ports |-> TRUE] \in [1 .. conf.ports -> BOOLEAN]
    OBVIOUS
  <2> QED BY <1>1, <1>3, <2>1, <2>2, <2>3, <2>4 DEF TcRec
<1>5. \A p \in PortsOf(tc) : Len(tc.queue[p]) = 0 /\ tc.state[p] = "LISTENING"
  BY <1>2 DEF PortsOf
<1>6. Typed(tc) /\ Said(tc)
  <2>1. \A p \in PortsOf(tc) : ~\E i \in 1 .. Len(tc.queue[p]) : TRUE
    BY <1>5
  <2>2. OwnWay(tc) /\ Said(tc)
    BY <2>1 DEF OwnWay, Said
  <2>3. tc.conf \in Configs /\ tc \in TcRec(tc.conf)
    BY <1>2, <1>4
  <2> QED BY <2>2, <2>3 DEF Typed
<1>7. Counts(tc, tc.refcnt)
  <2>1. ~\E i \in 1 .. Len(tc.pool) : TRUE
    BY <1>2
  <2>2. \A c \in Msgs : tc.refcnt[c] = 0
    BY <1>2 DEF NoRefs
  <2>3. ~\E c \in 1 .. tc.total : TRUE
    BY <1>2
  <2> QED BY <1>2, <1>3, <2>1, <2>2, <2>3 DEF Counts, InPool
<1>8. Counted(tc, NoRefs)
  <2>1. \A c \in Msgs : Holders(tc, c) = {}
    BY <1>5 DEF Holders, Remembers
  <2>2. Cardinality({}) = 0
    BY FS_EmptySet
  <2> SUFFICES ASSUME NEW c \in Msgs PROVE tc.refcnt[c] = NoRefs[c] + Cardinality(Holders(tc, c))
    BY DEF Counted
  <2>3. Holders(tc, c) = {}
    BY <2>1
  <2>4. Cardinality(Holders(tc, c)) = 0
    BY <2>2, <2>3
  <2>5. NoRefs[c] = 0
    BY DEF NoRefs
  <2> QED BY <1>2, <2>4, <2>5
<1>9. NoPair(tc) /\ DownBypassing(tc) /\ \A p \in PortsOf(tc) : OneEach(tc.queue[p])
  BY <1>5 DEF NoPair, DownBypassing, IsDown, OneEach
<1> QED BY <1>2, <1>6, <1>7, <1>8, <1>9 DEF TcInv, Between, Sound

LEMMA TcNextInv ==
  ASSUME TcInv, [Next]_tc
  PROVE  TcInv'
<1>1. CASE UNCHANGED tc
  BY <1>1 DEF TcInv
<1>2. CASE Next
  <2>1. PICK p \in Ports : PortStep(p)
    BY <1>2 DEF Next
  <2>2. tc.torn = {}
    BY <1>2 DEF Next
  <2>3. Done(Fresh(tc))
    BY <2>2, FreshDone
  <2>4. ASSUME NEW m \in Received, NEW one_step \in BOOLEAN, NEW out \in OutcomeMaps(p, m.type),
               Receive(p, m, one_step, out)
        PROVE  TcInv'
    <3> DEFINE h == Settle(Handle(msg_allocate(Fresh(tc), m), p, m, one_step, out, Allocated(tc)))
    <3>1. m \in Message
      <4> DEFINE keys == tc.conf.keys
                 domains == tc.conf.domains
      <4>1. keys \subseteq Keys /\ domains \subseteq Domains
        BY TransparentClockConfig DEF TcInv, Between, Typed
      <4>2. m \in [type : Types, key : keys, domain : domains, corr : {<<>>}]
        BY DEF Received
      <4> HIDE DEF keys, domains
      <4> QED BY <4>1, <4>2 DEF Types, Message, Kinds
    <3>2. CanAllocate(tc) /\ tc' = h
      BY <2>4 DEF Receive
    <3>3. Between(h)
      BY <2>2, <3>1, <3>2, ReceiveBetween
    <3> HIDE DEF h
    <3> QED BY <3>2, <3>3 DEF TcInv
  <2>5. ASSUME NEW e \in Events, NEW reopened, tc' = Settle(Dispatch(Fresh(tc), p, e, reopened))
        PROVE  TcInv'
    <3> DEFINE h == Settle(Dispatch(Fresh(tc), p, e, reopened))
    <3>1. Between(h)
      <4> DEFINE k == Dispatch(Fresh(tc), p, e, reopened)
      <4>1. Done(k)
        BY <2>3, DispatchDone
      <4> HIDE DEF k
      <4>2. Between(Settle(k))
        BY <4>1, SettleBetween
      <4> QED BY <4>2 DEF k
    <3>2. tc' = h
      BY <2>5
    <3> HIDE DEF h
    <3> QED BY <3>1, <3>2 DEF TcInv
  <2>6. CASE PortFault(p)
    <3>1. tc' = Settle(Dispatch(Fresh(tc), p, "FAULT_DETECTED", TRUE))
      BY <2>6 DEF PortFault, Fault
    <3> QED BY <2>5, <3>1 DEF Events
  <2>7. ASSUME NEW reopened \in BOOLEAN, ClearFault(p, reopened)
        PROVE  TcInv'
    <3>1. tc' = Settle(Dispatch(Fresh(tc), p, "FAULT_CLEARED", reopened))
      BY <2>7 DEF ClearFault
    <3> QED BY <2>5, <3>1 DEF Events
  <2>8. ASSUME NEW e \in RoleEvents, ChangeRole(p, e)
        PROVE  TcInv'
    <3>1. tc' = Settle(Dispatch(Fresh(tc), p, e, TRUE)) /\ e \in Events
      BY <2>8, TransparentClockConfig DEF ChangeRole
    <3> QED BY <2>5, <3>1
  <2>9. ASSUME NEW n \in 1 .. MaxMsgs, Prune(p, n)
        PROVE  TcInv'
    <3> DEFINE h == Settle([Release(Fresh(tc), SubSeq(tc.queue[p], 1, n)) EXCEPT
                         !.queue[p] = SubSeq(@, n + 1, Len(@))])
    <3>1. n \in 1 .. Len(tc.queue[p]) /\ tc' = h
      BY <2>9 DEF Prune
    <3>2. Between(h)
      BY <2>2, <3>1, PruneBetween
    <3> HIDE DEF h
    <3> QED BY <3>1, <3>2 DEF TcInv
  <2> QED BY <2>1, <2>4, <2>6, <2>7, <2>8, <2>9 DEF PortStep
<1> QED BY <1>1, <1>2

(* The lists and the pool agree between any two events.                    *)
THEOREM Invariant == Spec => []TcInv
<1>1. Init => TcInv
  BY TcInitInv
<1>2. TcInv /\ [Next]_tc => TcInv'
  BY TcNextInv
<1> QED BY <1>1, <1>2, PTL DEF Spec

----------------------------------------------------------------------------
(* What the runs check.                                                    *)

(* TypeOK, for any number of ports: whatever is received, lost or pruned,  *)
(* a port is left in a state of its machine (never INITIALIZING), and its  *)
(* list names messages and ports there are (e2e_dispatch, tc_complete).    *)
THEOREM TypeCorrect == Spec => []TypeOK
<1>1. TcInv => TypeOK
  <2> SUFFICES ASSUME TcInv PROVE TypeOK
    OBVIOUS
  <2>1. Typed(tc) /\ tc \in TcRec(tc.conf) /\ PortsOf(tc) = Ports
    BY DEF TcInv, Between, Typed, PortsOf, Ports
  <2>2. ASSUME NEW p \in Ports, NEW t \in UNION {Entries(r) : r \in Ports}
        PROVE  t.msg \in Msgs /\ t.ingress \in Ports
    <3>1. PICK r \in Ports : t \in Entries(r)
      OBVIOUS
    <3>2. PICK i \in 1 .. Len(tc.queue[r]) : t = tc.queue[r][i]
      BY <3>1 DEF Entries
    <3> QED BY <2>1, <3>2, EntriesTyped
  <2> QED BY <2>1, <2>2 DEF TypeOK, TcInv, Between, TcRec, Ports
<1> QED BY <1>1, Invariant, PTL

(* A list has no more entries than there are messages.                     *)
LEMMA ListFits ==
  ASSUME NEW list, Len(list) \in Nat, OneEach(list), \A i \in 1 .. Len(list) : list[i].msg \in Msgs
  PROVE  Len(list) <= MaxMsgs
<1> DEFINE n == Len(list)
           f == [i \in 1 .. n |-> list[i].msg]
<1>1. SUFFICES ASSUME n > MaxMsgs PROVE FALSE
  BY PoolConfig
<1>2. IsFiniteSet(1 .. n) /\ Cardinality(1 .. n) = n
  <2>1. 1 \in Int /\ n \in Int
    OBVIOUS
  <2>2. IsFiniteSet(1 .. n) /\ Cardinality(1 .. n) = IF 1 > n THEN 0 ELSE n - 1 + 1
    BY <2>1, FS_Interval
  <2> QED BY <2>2
<1>3. IsFiniteSet(Msgs) /\ Cardinality(Msgs) = MaxMsgs
  <2>1. 1 \in Int /\ MaxMsgs \in Int
    BY PoolConfig
  <2>2. IsFiniteSet(1 .. MaxMsgs) /\ Cardinality(1 .. MaxMsgs) = IF 1 > MaxMsgs THEN 0 ELSE MaxMsgs - 1 + 1
    BY <2>1, FS_Interval
  <2> QED BY <2>2, PoolConfig DEF Msgs
<1>4. f \in [1 .. n -> Msgs]
  OBVIOUS
<1>5. Cardinality(Msgs) < Cardinality(1 .. n)
  BY <1>1, <1>2, <1>3, PoolConfig
<1> HIDE DEF f
<1>6. \E x, y \in 1 .. n : x # y /\ f[x] = f[y]
  BY <1>2, <1>3, <1>4, <1>5, FS_PigeonHole
<1> QED BY <1>6 DEF f, OneEach

(* The entries for a message are as many as the lists that remember it.    *)
LEMMA ReferencesCount ==
  ASSUME Typed(tc), \A p \in Ports : OneEach(tc.queue[p]), NEW c \in Msgs
  PROVE  References(c) = Cardinality(Holders(tc, c))
<1> DEFINE P == {pi \in Ports \X (1 .. MaxMsgs) :
                     pi[2] <= Len(tc.queue[pi[1]]) /\ tc.queue[pi[1]][pi[2]].msg = c}
           H == Holders(tc, c)
           f == [pi \in P |-> pi[1]]
<1>0. PortsOf(tc) = Ports
  BY DEF PortsOf, Ports
<1>1. \A p \in Ports : /\ Len(tc.queue[p]) \in Nat /\ Len(tc.queue[p]) <= MaxMsgs
                       /\ \A i \in 1 .. Len(tc.queue[p]) : i \in 1 .. MaxMsgs
  <2> TAKE p \in Ports
  <2> DEFINE list == tc.queue[p]
  <2>1. Len(list) \in Nat /\ \A i \in 1 .. Len(list) : list[i].msg \in Msgs
    BY <1>0, EntriesTyped
  <2>2. OneEach(list)
    OBVIOUS
  <2> HIDE DEF list
  <2>3. Len(list) <= MaxMsgs
    BY <2>1, <2>2, ListFits
  <2>4. \A i \in 1 .. Len(list) : i \in 1 .. MaxMsgs
    BY <2>1, <2>3, PoolConfig
  <2> QED BY <2>1, <2>3, <2>4 DEF list
<1>2. ASSUME NEW x \in P
      PROVE  /\ x[1] \in Ports /\ x[2] \in 1 .. Len(tc.queue[x[1]])
             /\ x = <<x[1], x[2]>> /\ tc.queue[x[1]][x[2]].msg = c
  BY <1>1, PoolConfig
<1>3. \A x \in P : x[1] \in H
  BY <1>0, <1>2 DEF Holders, Remembers
<1>4. \A p \in H : \E x \in P : x[1] = p
  <2> TAKE p \in H
  <2>1. p \in Ports /\ Remembers(tc, p, c)
    BY <1>0 DEF Holders
  <2>2. PICK i \in 1 .. Len(tc.queue[p]) : tc.queue[p][i].msg = c
    BY <2>1 DEF Remembers
  <2>3. i \in 1 .. MaxMsgs /\ i <= Len(tc.queue[p])
    BY <1>1, <2>1
  <2>4. <<p, i>> \in P
    BY <2>1, <2>2, <2>3
  <2> HIDE DEF P, H
  <2>5. <<p, i>>[1] = p
    OBVIOUS
  <2> QED BY <2>4, <2>5
<1>5. ASSUME NEW x \in P, NEW y \in P, x[1] = y[1] PROVE x = y
  <2>1. tc.queue[x[1]][x[2]].msg = tc.queue[x[1]][y[2]].msg
        /\ x[2] \in 1 .. Len(tc.queue[x[1]]) /\ y[2] \in 1 .. Len(tc.queue[x[1]])
        /\ x[1] \in Ports /\ x = <<x[1], x[2]>> /\ y = <<y[1], y[2]>>
    BY <1>2, <1>5
  <2>2. x[2] = y[2]
    BY <2>1 DEF OneEach
  <2> QED BY <1>5, <2>1, <2>2
<1>6. IsFiniteSet(H)
  BY HoldersCount
<1> HIDE DEF P, H
<1>7. f \in [P -> H] /\ \A x \in P : f[x] = x[1]
  BY <1>3
<1> HIDE DEF f
<1>8. f \in Injection(P, H)
  BY <1>5, <1>7 DEF Injection, IsInjective
<1>9. f \in Surjection(P, H)
  BY <1>4, <1>7 DEF Surjection
<1>10. Cardinality(P) = Cardinality(H)
  <2>1. Cardinality(P) = Cardinality(H) <=> f \in Surjection(P, H)
    BY <1>6, <1>8, FS_Injection
  <2> QED BY <1>9, <2>1
<1> QED BY <1>10 DEF References, P, H

(* Conserved: forwarding, flushing, pruning and the failures in between    *)
(* leak no message and release none twice: its count is the number of the  *)
(* lists that remember it, and the other messages are in the pool, once    *)
(* (msg_put in tc_complete, tc_flush, tc_prune and the port's handler).    *)
THEOREM MessagesConserved == Spec => []Conserved
<1>1. TcInv => Conserved
  <2> SUFFICES ASSUME TcInv, tc.torn = {}
               PROVE  /\ \A c \in 1 .. tc.total : tc.refcnt[c] = References(c)
                      /\ IsInjective(tc.pool)
                      /\ ToSet(tc.pool) = {c \in 1 .. tc.total : tc.refcnt[c] = 0}
    BY DEF Conserved
  <2>1. /\ Typed(tc) /\ tc \in TcRec(tc.conf) /\ Sound(tc, NoRefs) /\ PortsOf(tc) = Ports
        /\ tc.total \in 0 .. MaxMsgs /\ tc.pool \in Seq(Msgs) /\ tc.refcnt \in [Msgs -> Int]
    BY DEF TcInv, Between, Typed, TcRec, PortsOf, Ports
  <2>2. \A c \in 1 .. tc.total : c \in Msgs
    BY <2>1, PoolConfig DEF Msgs
  <2>3. ASSUME NEW c \in 1 .. tc.total PROVE tc.refcnt[c] = References(c)
    <3>1. c \in Msgs
      BY <2>2
    <3>2. References(c) = Cardinality(Holders(tc, c))
      BY <2>1, <3>1, ReferencesCount DEF Sound
    <3>3. tc.refcnt[c] = NoRefs[c] + Cardinality(Holders(tc, c)) /\ NoRefs[c] = 0
      BY <2>1, <3>1 DEF Sound, Counted, NoRefs
    <3>4. Cardinality(Holders(tc, c)) \in Nat
      BY <2>1, HoldersCount
    <3> QED BY <3>2, <3>3, <3>4
  <2> DEFINE own == tc.refcnt
  <2>4. Counts(tc, own)
    BY <2>1 DEF Sound
  <2>5. DOMAIN tc.pool = 1 .. Len(tc.pool) /\ \A i \in 1 .. Len(tc.pool) : tc.pool[i] \in Msgs
    BY <2>1
  <2> HIDE DEF own
  <2>6. IsInjective(tc.pool)
    BY <2>4, <2>5 DEF Counts, IsInjective
  <2>7. \A c \in Msgs : InPool(tc, c) <=> c \in ToSet(tc.pool)
    BY <2>5 DEF InPool, ToSet
  <2>8. \A c \in 1 .. tc.total : c \in ToSet(tc.pool) <=> own[c] = 0
    BY <2>2, <2>4, <2>7 DEF Counts
  <2>9. \A c \in ToSet(tc.pool) : c \in 1 .. tc.total
    <3> TAKE c \in ToSet(tc.pool)
    <3>1. c \in Msgs
      BY <2>5 DEF ToSet
    <3>2. c <= tc.total
      BY <2>4, <2>7, <3>1 DEF Counts
    <3> QED BY <2>1, <3>1, <3>2, PoolConfig DEF Msgs
  <2> QED BY <2>3, <2>6, <2>8, <2>9 DEF own
<1> QED BY <1>1, Invariant, PTL

(* OwnResidence: a Follow_Up and a Delay_Resp leave with the residence     *)
(* time that was measured of the Sync or Delay_Req with their own source   *)
(* port identity and sequence number, between the same two ports, and with *)
(* the delay of their own ingress link, once (tc_match_syfup,              *)
(* tc_match_delay, tc_complete_syfup, tc_complete_response).               *)
THEOREM OwnTimesSent == Spec => []OwnResidence
<1>1. TcInv => OwnResidence
  <2> SUFFICES ASSUME TcInv PROVE OwnResidence
    OBVIOUS
  <2>1. \A s \in tc.sent : OwnTime(s)
    BY DEF TcInv, Between, Typed, TcRec, Sent
  <2> QED BY <2>1 DEF OwnResidence, OwnTime
<1> QED BY <1>1, Invariant, PTL

(* NoPairWaits: a Sync and its Follow_Up are never both remembered in one  *)
(* list: the second to arrive completes the first (tc_match_syfup).        *)
THEOREM NoPairEverWaits == Spec => []NoPairWaits
<1>1. TcInv => NoPairWaits
  <2> SUFFICES ASSUME TcInv, tc.torn = {}, NEW p \in Ports,
                      NEW t \in Entries(p), NEW u \in Entries(p)
               PROVE  ~Pair(tc.body, t, u)
    BY DEF NoPairWaits, Pair
  <2>1. NoPair(tc) /\ p \in PortsOf(tc)
    BY DEF TcInv, Between, Sound, PortsOf, Ports
  <2> QED BY <2>1 DEF NoPair, Entries
<1> QED BY <1>1, Invariant, PTL

(* DownHoldsBypassing: a closed port remembers no event message, for no    *)
(* event can be sent there and its list was flushed when it was closed     *)
(* (portOpDisable, tc_flush, tc_fwd_event).                                *)
THEOREM DownPortsBypass == Spec => []DownHoldsBypassing
<1>1. TcInv => DownHoldsBypassing
  <2> SUFFICES ASSUME TcInv, tc.torn = {}, NEW p \in Ports, ~IsOpen(tc, p), NEW t \in Entries(p)
               PROVE  Bypasses(tc, t)
    BY DEF DownHoldsBypassing, Bypasses
  <2>1. DownBypassing(tc) /\ p \in PortsOf(tc) /\ IsDown(tc.state[p])
    BY DEF TcInv, Between, Sound, PortsOf, Ports, IsOpen, IsDown
  <2> QED BY <2>1 DEF DownBypassing, Entries
<1> QED BY <1>1, Invariant, PTL

=============================================================================
