------------------------ MODULE PortMessages_proofs ------------------------
(***************************************************************************)
(* Who holds which message of a port, for every number of messages,        *)
(* masters and peers: between two events each message is in the pool or    *)
(* has one pointer to it, a port that is down has none, and no request     *)
(* from before a jump of the clock waits for its answer.                   *)
(*                                                                         *)
(* In the middle of a handler the handler itself owns messages: w[c]       *)
(* counts its references to message c.                                     *)
(***************************************************************************)
EXTENDS PortMessages, MsgPool_proofs, FiniteSetTheorems

Waits(p, c) == \E i \in 1 .. Len(p.delay_req) : p.delay_req[i] = c
HalfKept(p, c) == p.syfu # "EMPTY" /\ p.last_syncfup = c

(* How many pointers of the port lead to message c.                        *)
Pointers(p, c) ==
    (IF p.peer_delay_req = c THEN 1 ELSE 0)
    + (IF p.peer_delay_resp = c THEN 1 ELSE 0)
    + (IF p.peer_delay_fup = c THEN 1 ELSE 0)
    + (IF HalfKept(p, c) THEN 1 ELSE 0)
    + (IF Waits(p, c) THEN 1 ELSE 0)

Owned(p, w) == [c \in Msgs |-> Pointers(p, c) + w[c]]

Distinct(list) == \A i, j \in 1 .. Len(list) : list[i] = list[j] => i = j

(* All is in order, but for the references of the handler.                 *)
Good(p, w) ==
    /\ p \in PortRec
    /\ w \in [Msgs -> Nat]
    /\ Counts(p, Owned(p, w))
    /\ \A c \in Msgs : Pointers(p, c) <= 1
    /\ Distinct(p.delay_req)
    /\ p.syfu # "EMPTY" => p.last_syncfup \in Msgs

(* The half of a pair is kept, or was flushed.                             *)
LastHalf(p, c) == p.last_syncfup = c /\ (p.syfu # "EMPTY" \/ InPool(p, c))

(* No request that waits is from before a jump.                            *)
Clean(p) ==
    /\ \A i \in 1 .. Len(p.delay_req) : p.body[p.delay_req[i]].old = FALSE
    /\ p.peer_delay_req # Null => p.body[p.peer_delay_req].old = FALSE

HoldsNothing(p) == \A c \in Msgs : Pointers(p, c) = 0

DownEmpty(p) == p.state \in Down => HoldsNothing(p)

(* Pointers go, none comes.                                                *)
Fewer(p, q) ==
    /\ q.peer_delay_req \in {p.peer_delay_req, Null}
    /\ q.peer_delay_resp \in {p.peer_delay_resp, Null}
    /\ q.peer_delay_fup \in {p.peer_delay_fup, Null}
    /\ q.syfu \in {p.syfu, "EMPTY"} /\ q.last_syncfup = p.last_syncfup
    /\ \A c \in Msgs : Waits(q, c) => Waits(p, c)
    /\ Distinct(q.delay_req)

(* From p to q the port has at most let go of messages.                    *)
Drops(p, q, w) ==
    /\ Good(q, w)
    /\ Fewer(p, q)
    /\ \A c \in Msgs : w[c] = 0 /\ LastHalf(p, c) => LastHalf(q, c)

(* And what it or the handler still has says what it said.                 *)
Sheds(p, q, w) ==
    /\ Drops(p, q, w)
    /\ Clean(p) => Clean(q)
    /\ \A c \in Msgs : w[c] > 0 => q.body[c] = p.body[c]

(* And its state has not changed.                                          *)
LetsGo(p, q, w) == Sheds(p, q, w) /\ q.state = p.state

(* Fewer pointers lead to each message.                                    *)
LEMMA FewerPointers ==
  ASSUME NEW p, NEW q, Fewer(p, q), NEW c \in Msgs
  PROVE  Pointers(q, c) <= Pointers(p, c) /\ Pointers(q, c) \in Nat /\ Pointers(p, c) \in Nat
<1>0. Null \notin Msgs
  BY PoolConfig DEF Msgs
<1>1. /\ q.peer_delay_req = c => p.peer_delay_req = c
      /\ q.peer_delay_resp = c => p.peer_delay_resp = c
      /\ q.peer_delay_fup = c => p.peer_delay_fup = c
      /\ HalfKept(q, c) => HalfKept(p, c)
      /\ Waits(q, c) => Waits(p, c)
  BY <1>0 DEF Fewer, HalfKept
<1>2. /\ (IF q.peer_delay_req = c THEN 1 ELSE 0) <= (IF p.peer_delay_req = c THEN 1 ELSE 0)
      /\ (IF q.peer_delay_resp = c THEN 1 ELSE 0) <= (IF p.peer_delay_resp = c THEN 1 ELSE 0)
      /\ (IF q.peer_delay_fup = c THEN 1 ELSE 0) <= (IF p.peer_delay_fup = c THEN 1 ELSE 0)
      /\ (IF HalfKept(q, c) THEN 1 ELSE 0) <= (IF HalfKept(p, c) THEN 1 ELSE 0)
      /\ (IF Waits(q, c) THEN 1 ELSE 0) <= (IF Waits(p, c) THEN 1 ELSE 0)
  BY <1>1
<1>3. Pointers(q, c) \in Nat /\ Pointers(p, c) \in Nat
  BY DEF Pointers
<1>4. Pointers(q, c) <= Pointers(p, c)
  BY <1>2 DEF Pointers
<1> QED BY <1>3, <1>4

(* One after the other.                                                    *)
LEMMA DropsTwice ==
  ASSUME NEW w, NEW p, NEW q, NEW r, Drops(p, q, w), Drops(q, r, w)
  PROVE  Drops(p, r, w)
<1>1. Fewer(p, r)
  BY DEF Drops, Fewer
<1> QED BY <1>1 DEF Drops

(* The same with what the messages say.                                    *)
LEMMA ShedsTwice ==
  ASSUME NEW w, NEW p, NEW q, NEW r, Sheds(p, q, w), Sheds(q, r, w)
  PROVE  Sheds(p, r, w)
  BY DropsTwice DEF Sheds

(* The same in one state.                                                  *)
LEMMA LetsGoTwice ==
  ASSUME NEW w, NEW p, NEW q, NEW r, LetsGo(p, q, w), LetsGo(q, r, w)
  PROVE  LetsGo(p, r, w)
  BY ShedsTwice DEF LetsGo

(* A port that lets go holds nothing if it held nothing before.            *)
LEMMA LetsGoDown ==
  ASSUME NEW w, NEW p, NEW q, LetsGo(p, q, w)
  PROVE  /\ HoldsNothing(p) => HoldsNothing(q)
         /\ DownEmpty(p) => DownEmpty(q)
<1>1. \A c \in Msgs : Pointers(q, c) <= Pointers(p, c) /\ Pointers(q, c) \in Nat /\ Pointers(p, c) \in Nat
  BY FewerPointers DEF LetsGo, Sheds, Drops
<1> QED BY <1>1 DEF DownEmpty, HoldsNothing, LetsGo

(* Nothing is let go of, and the pool is not touched.                      *)
LEMMA ShedsNothing ==
  ASSUME NEW w, NEW p, NEW q, Good(p, w), q \in PortRec,
         q.pool = p.pool, q.total = p.total, q.refcnt = p.refcnt, q.body = p.body,
         q.syfu = p.syfu, q.last_syncfup = p.last_syncfup, q.delay_req = p.delay_req,
         q.peer_delay_req = p.peer_delay_req, q.peer_delay_resp = p.peer_delay_resp,
         q.peer_delay_fup = p.peer_delay_fup
  PROVE  Sheds(p, q, w)
<1>1. \A c \in Msgs : Pointers(q, c) = Pointers(p, c)
  BY DEF Pointers, Waits, HalfKept
<1>2. Owned(q, w) = Owned(p, w)
  BY <1>1 DEF Owned
<1>3. \A c \in Msgs : InPool(q, c) <=> InPool(p, c)
  BY DEF InPool
<1>4. Counts(q, Owned(q, w))
  <2> DEFINE own == Owned(p, w)
  <2>1. Counts(p, own) /\ Owned(q, w) = own
    BY <1>2 DEF Good
  <2> HIDE DEF own
  <2>2. Counts(q, own)
    BY <2>1, SamePool
  <2> QED BY <2>1, <2>2
<1>5. Good(q, w)
  BY <1>1, <1>4 DEF Good, Distinct
<1>6. \A c \in Msgs : LastHalf(p, c) => LastHalf(q, c)
  BY <1>3 DEF LastHalf
<1>7. Clean(p) => Clean(q)
  BY DEF Clean
<1>8. Fewer(p, q)
  BY <1>5 DEF Fewer, Waits, Good
<1> QED BY <1>5, <1>6, <1>7, <1>8 DEF Sheds, Drops

----------------------------------------------------------------------------
(* Releasing.                                                              *)

(* A port is a record with a pool.                                         *)
LEMMA PortIsPool ==
  ASSUME NEW p \in PortRec
  PROVE  IsPool(p)
  BY DEF PortRec, IsPool, IsBody

(* The fields that are not the pool's, and what messages may say.          *)
SameRest(p, q) ==
    /\ q.state = p.state /\ q.lastFault = p.lastFault /\ q.mechanism = p.mechanism
    /\ q.syfu = p.syfu /\ q.last_syncfup = p.last_syncfup /\ q.delay_req = p.delay_req
    /\ q.peer_delay_req = p.peer_delay_req /\ q.peer_delay_resp = p.peer_delay_resp
    /\ q.peer_delay_fup = p.peer_delay_fup /\ q.seqnum = p.seqnum
    /\ q.multiple_pdr_detected = p.multiple_pdr_detected
    /\ q.multiple_seq_pdr_count = p.multiple_seq_pdr_count

Bodies == Received \cup Request \cup {Other, Null}

(* A change of the pool alone leaves a port a port.                        *)
LEMMA PortWithPool ==
  ASSUME NEW p \in PortRec, NEW q, OnlyPool(p, q), IsPool(q),
         \A c \in Msgs : q.body[c] \in Bodies
  PROVE  q \in PortRec /\ SameRest(p, q)
<1>1. q.pool \in Seq(Msgs) /\ q.total \in 0 .. MaxMsgs /\ q.refcnt \in [Msgs -> Int]
  BY DEF IsPool
<1>2. q.body \in [Msgs -> Bodies]
  BY DEF IsPool, IsBody
<1> DEFINE l == q.pool
           t == q.total
           r == q.refcnt
           b == q.body
<1>3. q = [p EXCEPT !.pool = l, !.total = t, !.refcnt = r, !.body = b]
  BY DEF OnlyPool, WithPool
<1>4. l \in Seq(Msgs) /\ t \in 0 .. MaxMsgs /\ r \in [Msgs -> Int] /\ b \in [Msgs -> Bodies]
  BY <1>1, <1>2
<1> HIDE DEF l, t, r, b
<1> QED BY <1>3, <1>4 DEF PortRec, SameRest, Bodies

(* What a pool has released, the pointers of q have let go of.             *)
LEMMA ShedsPointers ==
  ASSUME NEW w, NEW p, Good(p, w), NEW q \in PortRec, Fewer(p, q),
         NEW r, After(p, r, Owned(p, w), Owned(q, w)),
         q.pool = r.pool, q.total = r.total, q.refcnt = r.refcnt, q.body = r.body
  PROVE  Sheds(p, q, w)
<1>0. Null \notin Msgs
  BY PoolConfig DEF Msgs
<1>1. \A c \in Msgs : Pointers(q, c) <= Pointers(p, c)
                      /\ Pointers(q, c) \in Nat /\ Pointers(p, c) \in Nat
  BY FewerPointers
<1>2. \A c \in Msgs : InPool(q, c) <=> InPool(r, c)
  BY DEF InPool
<1>3. Counts(q, Owned(q, w))
  <2>1. Counts(r, Owned(q, w))
    BY DEF After
  <2> HIDE DEF Owned
  <2> QED BY <2>1, SamePool
<1>4. Good(q, w)
  BY <1>1, <1>3 DEF Good, Fewer
<1>5. ASSUME NEW c \in Msgs, w[c] = 0, LastHalf(p, c)
      PROVE  LastHalf(q, c)
  <2>1. CASE InPool(p, c)
    BY <2>1, <1>2, <1>5 DEF After, LastHalf, Fewer
  <2>2. CASE p.syfu # "EMPTY" /\ q.syfu # "EMPTY"
    BY <2>2, <1>5 DEF LastHalf, Fewer
  <2>3. CASE p.syfu # "EMPTY" /\ q.syfu = "EMPTY"
    <3>1. HalfKept(p, c) /\ ~HalfKept(q, c)
      BY <2>3, <1>5 DEF HalfKept, LastHalf
    <3>2. Pointers(p, c) <= 1
      BY DEF Good
    <3>3. Pointers(p, c) = 1 /\ Pointers(q, c) = 0
      BY <3>1, <3>2, <1>0 DEF Pointers, Fewer
    <3>4. Owned(p, w)[c] = 1 /\ Owned(q, w)[c] = 0
      BY <3>3, <1>5 DEF Owned
    <3> QED BY <3>4, <1>2, <1>5 DEF After, LastHalf, Fewer
  <2> QED BY <2>1, <2>2, <2>3, <1>5 DEF LastHalf
<1>6. \A c \in Msgs : Pointers(q, c) > 0 => q.body[c] = p.body[c]
  <2> TAKE c \in Msgs
  <2>1. w[c] \in Nat
    BY DEF Good
  <2>2. Pointers(q, c) > 0 => Owned(q, w)[c] > 0
    BY <2>1, <1>1 DEF Owned
  <2> QED BY <2>2 DEF After
<1>7. ASSUME Clean(p) PROVE Clean(q)
  <2>1. q.delay_req \in Seq(Msgs) /\ q.peer_delay_req \in Msgs \cup {Null}
        /\ p.delay_req \in Seq(Msgs)
    BY DEF PortRec, Good
  <2>2. ASSUME NEW i \in 1 .. Len(q.delay_req) PROVE q.body[q.delay_req[i]].old = FALSE
    <3>1. q.delay_req[i] \in Msgs /\ Waits(q, q.delay_req[i])
      BY <2>1 DEF Waits
    <3>2. Pointers(q, q.delay_req[i]) > 0
      BY <3>1 DEF Pointers
    <3>3. Waits(p, q.delay_req[i])
      BY <3>1 DEF Fewer
    <3> QED BY <1>6, <1>7, <3>1, <3>2, <3>3 DEF Waits, Clean
  <2>3. ASSUME q.peer_delay_req # Null PROVE q.body[q.peer_delay_req].old = FALSE
    <3>1. q.peer_delay_req \in Msgs /\ q.peer_delay_req = p.peer_delay_req
      BY <2>1, <2>3 DEF Fewer
    <3>2. Pointers(q, q.peer_delay_req) > 0
      BY DEF Pointers
    <3> QED BY <1>6, <1>7, <3>1, <3>2, <2>3 DEF Clean
  <2> QED BY <2>2, <2>3 DEF Clean
<1>8. \A c \in Msgs : w[c] > 0 => q.body[c] = p.body[c]
  <2> TAKE c \in Msgs
  <2>1. w[c] > 0 => Owned(q, w)[c] > 0
    BY <1>1 DEF Owned, Good
  <2> QED BY <2>1 DEF After
<1> QED BY <1>4, <1>5, <1>7, <1>8 DEF Sheds, Drops

(* What is in the pool after releases is a port as it was otherwise.       *)
LEMMA AfterIsPort ==
  ASSUME NEW p \in PortRec, NEW own, NEW left, NEW r, After(p, r, own, left)
  PROVE  r \in PortRec /\ SameRest(p, r)
<1>1. \A c \in Msgs : p.body[c] \in Bodies /\ Null \in Bodies
  BY DEF PortRec, Bodies
<1>2. \A c \in Msgs : r.body[c] \in Bodies
  BY <1>1 DEF After
<1>3. OnlyPool(p, r) /\ IsPool(r)
  BY DEF After
<1> QED BY <1>2, <1>3, PortWithPool

(* Message c has one pointer less, and the others as many as before.       *)
OneLess(p, q, c) ==
    /\ Pointers(q, c) = Pointers(p, c) - 1
    /\ \A d \in Msgs \ {c} : Pointers(q, d) = Pointers(p, d)

(* A pointer is cleared when its message is released.                      *)
LEMMA ShedsOne ==
  ASSUME NEW w, NEW p, Good(p, w), NEW c \in Msgs, Pointers(p, c) > 0,
         NEW q \in PortRec, Fewer(p, q), OneLess(p, q, c), NEW r, r = msg_put(p, c),
         q.pool = r.pool, q.total = r.total, q.refcnt = r.refcnt, q.body = r.body
  PROVE  Sheds(p, q, w)
<1> DEFINE own == Owned(p, w)
<1>1. IsPool(p) /\ Counts(p, own) /\ own \in [Msgs -> Nat]
  BY PortIsPool DEF Good, Counts
<1>2. \A d \in Msgs : own[d] = Pointers(p, d) + w[d] /\ w[d] \in Nat /\ Pointers(p, d) \in Nat
  BY DEF Good, Owned, Pointers
<1>3. own[c] > 0
  BY <1>2
<1>4. Owned(q, w) = [own EXCEPT ![c] = @ - 1]
  <2>1. \A d \in Msgs : Owned(q, w)[d] = Pointers(q, d) + w[d]
    BY DEF Owned
  <2>2. Owned(q, w) = [d \in Msgs |-> Owned(q, w)[d]]
    BY DEF Owned
  <2> HIDE DEF own
  <2>3. \A d \in Msgs : Owned(q, w)[d] = IF d = c THEN own[d] - 1 ELSE own[d]
    BY <1>2, <2>1 DEF OneLess
  <2> QED BY <1>1, <2>2, <2>3
<1>5. After(p, r, own, [own EXCEPT ![c] = @ - 1])
  <2> HIDE DEF own
  <2> QED BY <1>1, <1>3, PutAfter
<1>6. After(p, r, Owned(p, w), Owned(q, w))
  BY <1>4, <1>5
<1> QED BY <1>6, ShedsPointers

(* flush_last_sync releases the half of a pair that is kept.               *)
LEMMA FlushLastSyncSheds ==
  ASSUME NEW w, NEW p, Good(p, w)
  PROVE  LetsGo(p, flush_last_sync(p), w) /\ flush_last_sync(p).syfu = "EMPTY"
<1>1. CASE p.syfu = "EMPTY"
  BY <1>1, ShedsNothing DEF flush_last_sync, Good, LetsGo
<1>2. CASE p.syfu # "EMPTY"
  <2> DEFINE c == p.last_syncfup
             r == msg_put(p, c)
             q == [r EXCEPT !.syfu = "EMPTY"]
  <2>1. c \in Msgs /\ Pointers(p, c) > 0 /\ p \in PortRec
    BY <1>2 DEF Good, Pointers, HalfKept
  <2>2. r \in PortRec /\ SameRest(p, r)
    <3>1. Counts(p, Owned(p, w)) /\ IsPool(p)
      BY PortIsPool DEF Good
    <3>2. Owned(p, w)[c] > 0
      BY <2>1 DEF Owned, Good, Pointers
    <3> QED BY <2>1, <3>1, <3>2, PutAfter, AfterIsPort
  <2> HIDE DEF r, c
  <2>3. /\ q \in PortRec /\ q.pool = r.pool /\ q.total = r.total /\ q.refcnt = r.refcnt
        /\ q.body = r.body /\ q.syfu = "EMPTY" /\ q.last_syncfup = p.last_syncfup
        /\ q.delay_req = p.delay_req /\ q.peer_delay_req = p.peer_delay_req
        /\ q.peer_delay_resp = p.peer_delay_resp /\ q.peer_delay_fup = p.peer_delay_fup
        /\ q.state = p.state
    BY <2>2 DEF PortRec, SameRest
  <2> HIDE DEF q
  <2>4. Fewer(p, q)
    BY <2>3 DEF Fewer, Waits, Good
  <2>5. OneLess(p, q, c)
    <3>1. \A d \in Msgs : Waits(q, d) <=> Waits(p, d)
      BY <2>3 DEF Waits
    <3>2. \A d \in Msgs : ~HalfKept(q, d) /\ (HalfKept(p, d) <=> d = c)
      BY <1>2, <2>3 DEF HalfKept, c
    <3> QED BY <2>1, <2>3, <3>1, <3>2 DEF OneLess, Pointers
  <2>6. Sheds(p, q, w)
    BY <2>1, <2>3, <2>4, <2>5, ShedsOne DEF r
  <2> QED BY <1>2, <2>3, <2>6 DEF flush_last_sync, LetsGo, q, r, c
<1> QED BY <1>1, <1>2

(* The message in peer_delay_req is released.                              *)
LEMMA ReleaseReqSheds ==
  ASSUME NEW w, NEW p, Good(p, w)
  PROVE  LetsGo(p, Release(p, "peer_delay_req"), w) /\ Release(p, "peer_delay_req").peer_delay_req = Null
<1>0. Null \notin Msgs
  BY PoolConfig DEF Msgs
<1>1. CASE p.peer_delay_req = Null
  BY <1>1, ShedsNothing DEF Release, Good, LetsGo
<1>2. CASE p.peer_delay_req # Null
  <2> DEFINE c == p.peer_delay_req
             r == msg_put(p, c)
             q == [r EXCEPT !.peer_delay_req = Null]
  <2>1. c \in Msgs /\ Pointers(p, c) > 0 /\ p \in PortRec
    BY <1>2 DEF Good, Pointers, PortRec
  <2>2. r \in PortRec /\ SameRest(p, r)
    <3>1. Counts(p, Owned(p, w)) /\ IsPool(p)
      BY PortIsPool DEF Good
    <3>2. Owned(p, w)[c] > 0
      BY <2>1 DEF Owned, Good, Pointers
    <3> QED BY <2>1, <3>1, <3>2, PutAfter, AfterIsPort
  <2> HIDE DEF r, c
  <2>3. /\ q \in PortRec /\ q.pool = r.pool /\ q.total = r.total /\ q.refcnt = r.refcnt
        /\ q.body = r.body /\ q.syfu = p.syfu /\ q.last_syncfup = p.last_syncfup
        /\ q.delay_req = p.delay_req /\ q.state = p.state
        /\ q.peer_delay_req = Null
        /\ q.peer_delay_resp = p.peer_delay_resp
        /\ q.peer_delay_fup = p.peer_delay_fup
    BY <2>2 DEF PortRec, SameRest
  <2> HIDE DEF q
  <2>4. Fewer(p, q)
    BY <2>3 DEF Fewer, Waits, Good
  <2>5. OneLess(p, q, c)
    <3>1. \A d \in Msgs : (Waits(q, d) <=> Waits(p, d)) /\ (HalfKept(q, d) <=> HalfKept(p, d))
      BY <2>3 DEF Waits, HalfKept
    <3> QED BY <1>0, <2>1, <2>3, <3>1 DEF OneLess, Pointers, c
  <2>6. Sheds(p, q, w)
    BY <2>1, <2>3, <2>4, <2>5, ShedsOne DEF r
  <2> QED BY <1>2, <2>3, <2>6 DEF Release, LetsGo, q, r, c
<1> QED BY <1>1, <1>2

(* The message in peer_delay_resp is released.                              *)
LEMMA ReleaseRespSheds ==
  ASSUME NEW w, NEW p, Good(p, w)
  PROVE  LetsGo(p, Release(p, "peer_delay_resp"), w) /\ Release(p, "peer_delay_resp").peer_delay_resp = Null
<1>0. Null \notin Msgs
  BY PoolConfig DEF Msgs
<1>1. CASE p.peer_delay_resp = Null
  BY <1>1, ShedsNothing DEF Release, Good, LetsGo
<1>2. CASE p.peer_delay_resp # Null
  <2> DEFINE c == p.peer_delay_resp
             r == msg_put(p, c)
             q == [r EXCEPT !.peer_delay_resp = Null]
  <2>1. c \in Msgs /\ Pointers(p, c) > 0 /\ p \in PortRec
    BY <1>2 DEF Good, Pointers, PortRec
  <2>2. r \in PortRec /\ SameRest(p, r)
    <3>1. Counts(p, Owned(p, w)) /\ IsPool(p)
      BY PortIsPool DEF Good
    <3>2. Owned(p, w)[c] > 0
      BY <2>1 DEF Owned, Good, Pointers
    <3> QED BY <2>1, <3>1, <3>2, PutAfter, AfterIsPort
  <2> HIDE DEF r, c
  <2>3. /\ q \in PortRec /\ q.pool = r.pool /\ q.total = r.total /\ q.refcnt = r.refcnt
        /\ q.body = r.body /\ q.syfu = p.syfu /\ q.last_syncfup = p.last_syncfup
        /\ q.delay_req = p.delay_req /\ q.state = p.state
        /\ q.peer_delay_req = p.peer_delay_req
        /\ q.peer_delay_resp = Null
        /\ q.peer_delay_fup = p.peer_delay_fup
    BY <2>2 DEF PortRec, SameRest
  <2> HIDE DEF q
  <2>4. Fewer(p, q)
    BY <2>3 DEF Fewer, Waits, Good
  <2>5. OneLess(p, q, c)
    <3>1. \A d \in Msgs : (Waits(q, d) <=> Waits(p, d)) /\ (HalfKept(q, d) <=> HalfKept(p, d))
      BY <2>3 DEF Waits, HalfKept
    <3> QED BY <1>0, <2>1, <2>3, <3>1 DEF OneLess, Pointers, c
  <2>6. Sheds(p, q, w)
    BY <2>1, <2>3, <2>4, <2>5, ShedsOne DEF r
  <2> QED BY <1>2, <2>3, <2>6 DEF Release, LetsGo, q, r, c
<1> QED BY <1>1, <1>2

(* The message in peer_delay_fup is released.                              *)
LEMMA ReleaseFupSheds ==
  ASSUME NEW w, NEW p, Good(p, w)
  PROVE  LetsGo(p, Release(p, "peer_delay_fup"), w) /\ Release(p, "peer_delay_fup").peer_delay_fup = Null
<1>0. Null \notin Msgs
  BY PoolConfig DEF Msgs
<1>1. CASE p.peer_delay_fup = Null
  BY <1>1, ShedsNothing DEF Release, Good, LetsGo
<1>2. CASE p.peer_delay_fup # Null
  <2> DEFINE c == p.peer_delay_fup
             r == msg_put(p, c)
             q == [r EXCEPT !.peer_delay_fup = Null]
  <2>1. c \in Msgs /\ Pointers(p, c) > 0 /\ p \in PortRec
    BY <1>2 DEF Good, Pointers, PortRec
  <2>2. r \in PortRec /\ SameRest(p, r)
    <3>1. Counts(p, Owned(p, w)) /\ IsPool(p)
      BY PortIsPool DEF Good
    <3>2. Owned(p, w)[c] > 0
      BY <2>1 DEF Owned, Good, Pointers
    <3> QED BY <2>1, <3>1, <3>2, PutAfter, AfterIsPort
  <2> HIDE DEF r, c
  <2>3. /\ q \in PortRec /\ q.pool = r.pool /\ q.total = r.total /\ q.refcnt = r.refcnt
        /\ q.body = r.body /\ q.syfu = p.syfu /\ q.last_syncfup = p.last_syncfup
        /\ q.delay_req = p.delay_req /\ q.state = p.state
        /\ q.peer_delay_req = p.peer_delay_req
        /\ q.peer_delay_resp = p.peer_delay_resp
        /\ q.peer_delay_fup = Null
    BY <2>2 DEF PortRec, SameRest
  <2> HIDE DEF q
  <2>4. Fewer(p, q)
    BY <2>3 DEF Fewer, Waits, Good
  <2>5. OneLess(p, q, c)
    <3>1. \A d \in Msgs : (Waits(q, d) <=> Waits(p, d)) /\ (HalfKept(q, d) <=> HalfKept(p, d))
      BY <2>3 DEF Waits, HalfKept
    <3> QED BY <1>0, <2>1, <2>3, <3>1 DEF OneLess, Pointers, c
  <2>6. Sheds(p, q, w)
    BY <2>1, <2>3, <2>4, <2>5, ShedsOne DEF r
  <2> QED BY <1>2, <2>3, <2>6 DEF Release, LetsGo, q, r, c
<1> QED BY <1>1, <1>2

In(list, c) == \E i \in 1 .. Len(list) : list[i] = c

(* Requests leave the queue and are released.                              *)
LEMMA ShedsQueue ==
  ASSUME NEW w, NEW p, Good(p, w), NEW gone \in Seq(Msgs), Distinct(gone),
         \A c \in Msgs : In(gone, c) => Waits(p, c),
         NEW kept \in Seq(Msgs), Distinct(kept),
         \A c \in Msgs : In(kept, c) <=> Waits(p, c) /\ ~In(gone, c)
  PROVE  LetsGo(p, [put_all(p, gone) EXCEPT !.delay_req = kept], w)
<1> DEFINE own == Owned(p, w)
           r == put_all(p, gone)
           q == [r EXCEPT !.delay_req = kept]
<1>1. p \in PortRec /\ IsPool(p) /\ Counts(p, own) /\ own \in [Msgs -> Nat]
  BY PortIsPool DEF Good, Counts
<1>2. \A d \in Msgs : own[d] = Pointers(p, d) + w[d] /\ w[d] \in Nat /\ Pointers(p, d) \in Nat
  BY DEF Good, Owned, Pointers
<1>3. \A i \in 1 .. Len(gone) : own[gone[i]] > 0
  <2> TAKE i \in 1 .. Len(gone)
  <2>1. gone[i] \in Msgs /\ Waits(p, gone[i])
    BY DEF In
  <2>2. Pointers(p, gone[i]) > 0
    BY <2>1 DEF Pointers
  <2> HIDE DEF own
  <2> QED BY <2>1, <2>2, <1>2
<1>4. After(p, r, own, Released(own, gone, Len(gone)))
  <2>1. \A i, j \in 1 .. Len(gone) : gone[i] = gone[j] => i = j
    BY DEF Distinct
  <2> HIDE DEF own
  <2> QED BY <2>1, <1>1, <1>3, PutAllReleases
<1>5. r \in PortRec /\ SameRest(p, r)
  BY <1>1, <1>4, AfterIsPort
<1> HIDE DEF r
<1>6. /\ q \in PortRec /\ q.pool = r.pool /\ q.total = r.total /\ q.refcnt = r.refcnt
      /\ q.body = r.body /\ q.syfu = p.syfu /\ q.last_syncfup = p.last_syncfup
      /\ q.delay_req = kept /\ q.state = p.state
      /\ q.peer_delay_req = p.peer_delay_req
      /\ q.peer_delay_resp = p.peer_delay_resp
      /\ q.peer_delay_fup = p.peer_delay_fup
  BY <1>5 DEF PortRec, SameRest
<1> HIDE DEF q
<1>7. Fewer(p, q)
  BY <1>6 DEF Fewer, Waits, In
<1>8. Owned(q, w) = Released(own, gone, Len(gone))
  <2>1. ASSUME NEW d \in Msgs
        PROVE  Pointers(q, d) = IF In(gone, d) THEN Pointers(p, d) - 1 ELSE Pointers(p, d)
    <3>1. Waits(q, d) <=> Waits(p, d) /\ ~In(gone, d)
      BY <1>6 DEF Waits, In
    <3>2. HalfKept(q, d) <=> HalfKept(p, d)
      BY <1>6 DEF HalfKept
    <3> QED BY <3>1, <3>2, <1>6 DEF Pointers
  <2>2. \A d \in Msgs : Owned(q, w)[d] = Pointers(q, d) + w[d]
    BY DEF Owned
  <2>3. Owned(q, w) = [d \in Msgs |-> Owned(q, w)[d]]
    BY DEF Owned
  <2>4. \A d \in Msgs : Released(own, gone, Len(gone))[d] = IF In(gone, d) THEN own[d] - 1 ELSE own[d]
    BY DEF Released, In
  <2>5. Released(own, gone, Len(gone)) = [d \in Msgs |-> Released(own, gone, Len(gone))[d]]
    BY DEF Released
  <2> HIDE DEF own
  <2>6. \A d \in Msgs : Owned(q, w)[d] = Released(own, gone, Len(gone))[d]
    BY <1>2, <2>1, <2>2, <2>4
  <2> QED BY <2>3, <2>5, <2>6
<1>9. After(p, r, Owned(p, w), Owned(q, w))
  BY <1>4, <1>8
<1> QED BY <1>6, <1>7, <1>9, ShedsPointers DEF LetsGo, q, r

(* flush_delay_req releases all the requests that wait.                    *)
LEMMA FlushDelayReqSheds ==
  ASSUME NEW w, NEW p, Good(p, w)
  PROVE  LetsGo(p, flush_delay_req(p), w) /\ flush_delay_req(p).delay_req = <<>>
<1>1. CASE p.delay_req = <<>>
  BY <1>1, ShedsNothing DEF flush_delay_req, Good, LetsGo
<1>2. CASE p.delay_req # <<>>
  <2>1. p.delay_req \in Seq(Msgs) /\ Distinct(p.delay_req)
    BY DEF Good, PortRec
  <2> DEFINE none == <<>>
  <2>2. none \in Seq(Msgs) /\ Distinct(none) /\ \A c \in Msgs : ~In(none, c)
    BY DEF Distinct, In
  <2>3. \A c \in Msgs : In(p.delay_req, c) <=> Waits(p, c)
    BY DEF In, Waits
  <2>4. LetsGo(p, [put_all(p, p.delay_req) EXCEPT !.delay_req = none], w)
    <3> HIDE DEF none
    <3> QED BY <2>1, <2>2, <2>3, ShedsQueue
  <2>5. flush_delay_req(p) = [put_all(p, p.delay_req) EXCEPT !.delay_req = none]
    BY <1>2 DEF flush_delay_req
  <2>6. flush_delay_req(p).delay_req = <<>>
    <3> DEFINE r == put_all(p, p.delay_req)
    <3>1. LetsGo(p, [r EXCEPT !.delay_req = none], w)
      BY <2>4
    <3>2. [r EXCEPT !.delay_req = none] \in PortRec
      BY <3>1 DEF LetsGo, Sheds, Drops, Good
    <3> HIDE DEF r
    <3>3. "delay_req" \in DOMAIN [r EXCEPT !.delay_req = none]
      BY <3>2 DEF PortRec
    <3>4. [r EXCEPT !.delay_req = none].delay_req = none
      BY <3>3
    <3> QED BY <2>5, <3>4 DEF r
  <2> QED BY <2>4, <2>5, <2>6
<1> QED BY <1>1, <1>2

(* delay_req_prune keeps the newest requests and releases the others.      *)
LEMMA PruneSheds ==
  ASSUME NEW w, NEW p, Good(p, w), NEW k \in 0 .. Len(p.delay_req)
  PROVE  LetsGo(p, delay_req_prune(p, k), w)
<1> DEFINE list == p.delay_req
           len == Len(list)
           old == SubSeq(list, k + 1, len)
           gone == Reverse(old)
           kept == SubSeq(list, 1, k)
<1>1. list \in Seq(Msgs) /\ Distinct(list) /\ len \in Nat /\ k \in 0 .. len
  BY DEF Good, PortRec
<1>2. CASE k = len
  BY <1>2, ShedsNothing DEF delay_req_prune, Good, LetsGo
<1>3. CASE k # len
  <2> HIDE DEF list
  <2>1. /\ kept \in Seq(Msgs) /\ Len(kept) = k /\ \A i \in 1 .. k : kept[i] = list[i]
    BY <1>1
  <2>2. old \in Seq(Msgs) /\ Len(old) = len - k /\ \A i \in 1 .. len - k : old[i] = list[k + i]
    BY <1>1, <1>3
  <2> HIDE DEF old
  <2>3. /\ gone \in Seq(Msgs) /\ Len(gone) = len - k
        /\ \A i \in 1 .. len - k : gone[i] = list[len - i + 1]
    <3>1. gone = [i \in 1 .. Len(old) |-> old[(Len(old) - i) + 1]]
      BY DEF Reverse
    <3>2. \A i \in 1 .. len - k : /\ (len - k - i) + 1 \in 1 .. len - k
                                   /\ k + ((len - k - i) + 1) = len - i + 1
      BY <1>1
    <3>3. \A i \in 1 .. len - k : gone[i] = old[(len - k - i) + 1]
      BY <3>1, <2>2
    <3>4. \A i \in 1 .. len - k : gone[i] = list[len - i + 1]
      BY <3>2, <3>3, <2>2
    <3>5. len - k \in Nat
      BY <1>1
    <3>6. \A i \in 1 .. len - k : list[len - i + 1] \in Msgs
      BY <1>1
    <3> QED BY <3>1, <3>4, <3>5, <3>6, <2>2
  <2> HIDE DEF gone, kept, len
  <2>4. len = Len(list)
    BY DEF len
  <2>5. Distinct(gone)
    <3> SUFFICES ASSUME NEW i \in 1 .. len - k, NEW j \in 1 .. len - k, gone[i] = gone[j]
                 PROVE  i = j
      BY <2>3 DEF Distinct
    <3>1. len - i + 1 \in 1 .. len /\ len - j + 1 \in 1 .. len
      BY <1>1
    <3>2. len - i + 1 = len - j + 1
      BY <3>1, <2>3, <2>4, <1>1 DEF Distinct
    <3> QED BY <3>2, <1>1
  <2>6. Distinct(kept)
    BY <1>1, <2>1, <2>4 DEF Distinct
  <2>7. \A c \in Msgs : In(gone, c) <=> \E i \in k + 1 .. len : list[i] = c
    <3> TAKE c \in Msgs
    <3>1. ASSUME NEW i \in 1 .. len - k, gone[i] = c PROVE \E j \in k + 1 .. len : list[j] = c
      <4>1. len - i + 1 \in k + 1 .. len
        BY <1>1
      <4> QED BY <4>1, <3>1, <2>3
    <3>2. ASSUME NEW j \in k + 1 .. len, list[j] = c PROVE \E i \in 1 .. len - k : gone[i] = c
      <4>1. len - j + 1 \in 1 .. len - k /\ len - (len - j + 1) + 1 = j
        BY <1>1
      <4> QED BY <4>1, <3>2, <2>3
    <3> QED BY <3>1, <3>2, <2>3 DEF In
  <2>8. \A c \in Msgs : In(kept, c) <=> \E i \in 1 .. k : list[i] = c
    BY <2>1 DEF In
  <2>9. \A c \in Msgs : Waits(p, c) <=> \E i \in 1 .. len : list[i] = c
    BY <2>4 DEF Waits, list
  <2>10. \A c \in Msgs : In(gone, c) => Waits(p, c)
    <3> TAKE c \in Msgs
    <3>1. \A i \in k + 1 .. len : i \in 1 .. len
      BY <1>1
    <3> QED BY <3>1, <2>7, <2>9
  <2>11. \A c \in Msgs : In(kept, c) <=> Waits(p, c) /\ ~In(gone, c)
    <3> TAKE c \in Msgs
    <3>1. ASSUME NEW i \in 1 .. k, list[i] = c PROVE Waits(p, c) /\ ~In(gone, c)
      <4>1. i \in 1 .. len
        BY <1>1
      <4>2. \A j \in k + 1 .. len : j \in 1 .. len /\ i # j
        BY <1>1
      <4>3. \A j \in k + 1 .. len : list[j] # c
        BY <4>1, <4>2, <3>1, <1>1, <2>4 DEF Distinct
      <4> QED BY <4>1, <4>3, <3>1, <2>7, <2>9
    <3>2. ASSUME NEW i \in 1 .. len, list[i] = c, ~In(gone, c) PROVE \E j \in 1 .. k : list[j] = c
      <4>1. i \notin k + 1 .. len
        BY <3>2, <2>7
      <4>2. i \in 1 .. k
        BY <4>1, <1>1
      <4> QED BY <4>2, <3>2
    <3> QED BY <3>1, <3>2, <2>8, <2>9
  <2>12. LetsGo(p, [put_all(p, gone) EXCEPT !.delay_req = kept], w)
    BY <2>1, <2>3, <2>5, <2>6, <2>10, <2>11, ShedsQueue
  <2> QED BY <1>3, <2>12 DEF delay_req_prune, gone, old, kept, list, len
<1> QED BY <1>2, <1>3

----------------------------------------------------------------------------
(* What the handler owns itself.                                           *)

(* The handler gains or loses references; the port's pointers stay.        *)
Turns(p, q, v) ==
    /\ Good(q, v)
    /\ SameRest(p, q)
    /\ Clean(p) => Clean(q)

(* The pointers are those fields.                                          *)
LEMMA SamePointers ==
  ASSUME NEW p, NEW q, SameRest(p, q)
  PROVE  /\ \A c : Pointers(q, c) = Pointers(p, c)
         /\ DownEmpty(p) <=> DownEmpty(q)
<1>1. \A c : Pointers(q, c) = Pointers(p, c)
  BY DEF SameRest, Pointers, Waits, HalfKept
<1> QED BY <1>1 DEF DownEmpty, HoldsNothing, SameRest

(* What is needed for that.                                                *)
LEMMA TurnsBy ==
  ASSUME NEW w, NEW p, Good(p, w), NEW q \in PortRec, SameRest(p, q),
         NEW v \in [Msgs -> Nat], NEW left, Counts(q, left),
         \A c \in Msgs : left[c] = Pointers(p, c) + v[c],
         \A c \in Msgs : Pointers(p, c) > 0 => q.body[c] = p.body[c]
  PROVE  Turns(p, q, v)
<1>1. \A c \in Msgs : Pointers(q, c) = Pointers(p, c)
  BY SamePointers
<1>2. left = Owned(q, v)
  <2>1. left = [c \in Msgs |-> left[c]]
    BY DEF Counts
  <2>2. \A c \in Msgs : left[c] = Pointers(q, c) + v[c]
    BY <1>1
  <2> QED BY <2>1, <2>2 DEF Owned
<1>3. Counts(q, Owned(q, v))
  BY <1>2
<1>4. Good(q, v)
  BY <1>1, <1>3 DEF Good, SameRest, Distinct
<1>5. ASSUME Clean(p) PROVE Clean(q)
  <2>1. p.delay_req \in Seq(Msgs) /\ p.peer_delay_req \in Msgs \cup {Null}
    BY DEF Good, PortRec
  <2>2. ASSUME NEW i \in 1 .. Len(p.delay_req) PROVE q.body[p.delay_req[i]].old = FALSE
    <3>1. p.delay_req[i] \in Msgs /\ Waits(p, p.delay_req[i])
      BY <2>1 DEF Waits
    <3>2. Pointers(p, p.delay_req[i]) > 0
      BY <3>1 DEF Pointers
    <3> QED BY <3>1, <3>2, <1>5 DEF Clean
  <2>3. ASSUME p.peer_delay_req # Null PROVE q.body[p.peer_delay_req].old = FALSE
    <3>1. p.peer_delay_req \in Msgs /\ Pointers(p, p.peer_delay_req) > 0
      BY <2>1, <2>3 DEF Pointers
    <3> QED BY <3>1, <2>3, <1>5 DEF Clean
  <2> QED BY <2>2, <2>3 DEF Clean, SameRest
<1> QED BY <1>4, <1>5 DEF Turns

(* The handler releases a message.                                         *)
LEMMA PutTurns ==
  ASSUME NEW w, NEW p, Good(p, w), NEW c \in Msgs, w[c] > 0
  PROVE  /\ Turns(p, msg_put(p, c), [w EXCEPT ![c] = @ - 1])
         /\ \A d \in Msgs : InPool(p, d) => InPool(msg_put(p, c), d)
         /\ w[c] = 1 /\ Pointers(p, c) = 0 => InPool(msg_put(p, c), c)
         /\ \A d \in Msgs : d # c => msg_put(p, c).body[d] = p.body[d]
<1> DEFINE own == Owned(p, w)
           left == [own EXCEPT ![c] = @ - 1]
           v == [w EXCEPT ![c] = @ - 1]
           q == msg_put(p, c)
<1>1. p \in PortRec /\ IsPool(p) /\ Counts(p, own) /\ own \in [Msgs -> Nat] /\ w \in [Msgs -> Nat]
  BY PortIsPool DEF Good, Counts
<1>2. \A d \in Msgs : own[d] = Pointers(p, d) + w[d] /\ w[d] \in Nat /\ Pointers(p, d) \in Nat
  BY DEF Good, Owned, Pointers
<1> HIDE DEF own
<1>3. own[c] > 0
  BY <1>2
<1>4. After(p, q, own, left)
  BY <1>1, <1>3, PutAfter
<1>5. q \in PortRec /\ SameRest(p, q) /\ Counts(q, left)
  BY <1>1, <1>4, AfterIsPort DEF After
<1>6. v \in [Msgs -> Nat] /\ \A d \in Msgs : left[d] = Pointers(p, d) + v[d]
  BY <1>1, <1>2
<1> HIDE DEF v, left, q
<1>7. \A d \in Msgs : Pointers(p, d) > 0 => q.body[d] = p.body[d]
  <2> TAKE d \in Msgs
  <2>1. v[d] \in Nat
    BY <1>6
  <2> QED BY <2>1, <1>2, <1>4, <1>6 DEF After
<1>8. Turns(p, q, v)
  BY <1>5, <1>6, <1>7, TurnsBy
<1>9. w[c] = 1 /\ Pointers(p, c) = 0 => InPool(q, c)
  BY <1>2, <1>3, <1>4, <1>6 DEF After, v
<1>10. \A d \in Msgs : d # c => q.body[d] = p.body[d]
  <2> TAKE d \in Msgs
  <2>1. d # c => left[d] = own[d]
    BY <1>1 DEF left
  <2> QED BY <2>1, <1>4 DEF After
<1> QED BY <1>4, <1>8, <1>9, <1>10 DEF After, q, v

(* The handler releases a message that has been flushed in the meantime.   *)
LEMMA StaleTurns ==
  ASSUME NEW w, NEW p, Good(p, w), NEW c \in Msgs, InPool(p, c)
  PROVE  Turns(p, msg_put(p, c), w)
<1> DEFINE own == Owned(p, w)
           q == msg_put(p, c)
<1>1. p \in PortRec /\ IsPool(p) /\ Counts(p, own) /\ w \in [Msgs -> Nat]
  BY PortIsPool DEF Good, Counts
<1>2. \A d \in Msgs : own[d] = Pointers(p, d) + w[d]
  BY DEF Owned
<1> HIDE DEF own
<1>3. IsPool(q) /\ OnlyPool(p, q) /\ Counts(q, own) /\ q.body = p.body
  BY <1>1, PutStale
<1>4. \A d \in Msgs : q.body[d] \in Bodies
  BY <1>1, <1>3 DEF PortRec, Bodies
<1> HIDE DEF q
<1>5. q \in PortRec /\ SameRest(p, q)
  BY <1>1, <1>3, <1>4, PortWithPool
<1>6. \A d \in Msgs : Pointers(p, d) > 0 => q.body[d] = p.body[d]
  BY <1>3
<1>7. Turns(p, q, w)
  BY <1>1, <1>2, <1>3, <1>5, <1>6, TurnsBy
<1> QED BY <1>7 DEF q

(* The handler makes a message that nobody else knows.                     *)
LEMMA AllocateTurns ==
  ASSUME NEW w, NEW p, Good(p, w), CanAllocate(p), NEW m \in Bodies
  PROVE  LET c == Allocated(p)
             q == msg_allocate(p, m)
         IN  /\ c \in Msgs /\ w[c] = 0 /\ Pointers(p, c) = 0
             /\ Turns(p, q, [w EXCEPT ![c] = 1])
             /\ \A d \in Msgs : d # c => (InPool(q, d) <=> InPool(p, d))
             /\ q.body[c] = m
             /\ \A d \in Msgs : d # c => q.body[d] = p.body[d]
<1> DEFINE own == Owned(p, w)
           c == Allocated(p)
           q == msg_allocate(p, m)
           left == [own EXCEPT ![c] = 1]
           v == [w EXCEPT ![c] = 1]
<1>1. p \in PortRec /\ IsPool(p) /\ Counts(p, own) /\ own \in [Msgs -> Nat] /\ w \in [Msgs -> Nat]
  BY PortIsPool DEF Good, Counts
<1>2. \A d \in Msgs : own[d] = Pointers(p, d) + w[d] /\ w[d] \in Nat /\ Pointers(p, d) \in Nat
  BY DEF Good, Owned, Pointers
<1> HIDE DEF own
<1>3. /\ c \in Msgs /\ own[c] = 0
      /\ IsPool(q) /\ OnlyPool(p, q) /\ Counts(q, left)
      /\ \A d \in Msgs : d # c => (InPool(q, d) <=> InPool(p, d))
      /\ q.body[c] = m
      /\ \A d \in Msgs : d # c => q.body[d] = p.body[d]
  BY <1>1, AllocateOwns
<1> HIDE DEF c, q
<1>4. w[c] = 0 /\ Pointers(p, c) = 0
  BY <1>2, <1>3
<1>5. \A d \in Msgs : q.body[d] \in Bodies
  <2>1. \A d \in Msgs : p.body[d] \in Bodies
    BY <1>1 DEF PortRec, Bodies
  <2> QED BY <2>1, <1>3
<1>6. q \in PortRec /\ SameRest(p, q)
  BY <1>1, <1>3, <1>5, PortWithPool
<1>7. v \in [Msgs -> Nat] /\ \A d \in Msgs : left[d] = Pointers(p, d) + v[d]
  BY <1>1, <1>2, <1>3, <1>4
<1>8. \A d \in Msgs : Pointers(p, d) > 0 => q.body[d] = p.body[d]
  BY <1>3, <1>4
<1> HIDE DEF v, left
<1>9. Turns(p, q, v)
  BY <1>3, <1>6, <1>7, <1>8, TurnsBy
<1> QED BY <1>3, <1>4, <1>9 DEF c, q, v

(* One reference more and one less is none.                                *)
LEMMA MoreAndLess ==
  ASSUME NEW w \in [Msgs -> Nat], NEW c \in Msgs, w[c] = 0, NEW v, v = [w EXCEPT ![c] = 1]
  PROVE  [v EXCEPT ![c] = @ - 1] = w /\ v \in [Msgs -> Nat] /\ v[c] = 1
<1>1. v \in [Msgs -> Nat] /\ v[c] = 1 /\ \A d \in Msgs \ {c} : v[d] = w[d]
  OBVIOUS
<1> DEFINE u == [v EXCEPT ![c] = @ - 1]
<1>2. u = [d \in Msgs |-> u[d]] /\ u[c] = 0 /\ \A d \in Msgs \ {c} : u[d] = v[d]
  BY <1>1
<1>3. w = [d \in Msgs |-> w[d]]
  OBVIOUS
<1> HIDE DEF u
<1>4. \A d \in Msgs : u[d] = w[d]
  BY <1>1, <1>2
<1>5. u = w
  BY <1>2, <1>3, <1>4
<1> QED BY <1>1, <1>5 DEF u

(* A message is made and released again.                                   *)
LEMMA MadeAndReleased ==
  ASSUME NEW w, NEW p, Good(p, w), CanAllocate(p), NEW m \in Bodies
  PROVE  LET q == msg_put(msg_allocate(p, m), Allocated(p))
         IN  LetsGo(p, q, w) /\ SameRest(p, q)
<1> DEFINE c == Allocated(p)
           a == msg_allocate(p, m)
           v == [w EXCEPT ![c] = 1]
           q == msg_put(a, c)
<1>1. /\ c \in Msgs /\ w[c] = 0 /\ Pointers(p, c) = 0
      /\ Turns(p, a, v)
      /\ \A d \in Msgs : d # c => (InPool(a, d) <=> InPool(p, d))
      /\ \A d \in Msgs : d # c => a.body[d] = p.body[d]
  BY AllocateTurns
<1>2. Good(a, v) /\ v[c] = 1 /\ Pointers(a, c) = 0 /\ w \in [Msgs -> Nat]
  BY <1>1, SamePointers DEF Turns, Good
<1>a. v = [w EXCEPT ![c] = 1]
  OBVIOUS
<1> HIDE DEF a, c, v
<1>3. [v EXCEPT ![c] = @ - 1] = w
  BY <1>1, <1>2, <1>a, MoreAndLess
<1>4. /\ Turns(a, q, [v EXCEPT ![c] = @ - 1])
      /\ \A d \in Msgs : InPool(a, d) => InPool(q, d)
      /\ InPool(q, c)
      /\ \A d \in Msgs : d # c => q.body[d] = a.body[d]
  BY <1>1, <1>2, PutTurns
<1> HIDE DEF q
<1>5. Good(q, w) /\ SameRest(p, q) /\ (Clean(p) => Clean(q))
  BY <1>1, <1>3, <1>4 DEF Turns, SameRest
<1>6. \A d \in Msgs : LastHalf(p, d) => LastHalf(q, d)
  BY <1>1, <1>4, <1>5 DEF LastHalf, SameRest
<1>7. Fewer(p, q)
  BY <1>5 DEF SameRest, Fewer, Waits, Good
<1>8. \A d \in Msgs : w[d] > 0 => q.body[d] = p.body[d]
  BY <1>1, <1>4
<1>9. LetsGo(p, q, w)
  BY <1>5, <1>6, <1>7, <1>8 DEF Sheds, Drops, LetsGo, SameRest
<1> QED BY <1>5, <1>9 DEF q, a, c

(* port_notify_event.                                                      *)
LEMMA NotifySheds ==
  ASSUME NEW w, NEW p, Good(p, w)
  PROVE  LetsGo(p, port_notify_event(p), w) /\ SameRest(p, port_notify_event(p))
<1>1. CASE CanAllocate(p)
  <2>1. Other \in Bodies
    BY DEF Bodies
  <2> QED BY <1>1, <2>1, MadeAndReleased DEF port_notify_event
<1>2. CASE ~CanAllocate(p)
  BY <1>2, ShedsNothing DEF port_notify_event, Good, SameRest, LetsGo
<1> QED BY <1>1, <1>2

----------------------------------------------------------------------------
(* Dispatching.                                                            *)

(* A port that sheds holds nothing if it held nothing before.              *)
LEMMA ShedsHoldsNothing ==
  ASSUME NEW p, NEW q, Fewer(p, q), HoldsNothing(p)
  PROVE  HoldsNothing(q)
<1>1. \A c \in Msgs : Pointers(q, c) <= Pointers(p, c) /\ Pointers(q, c) \in Nat /\ Pointers(p, c) \in Nat
  BY FewerPointers
<1> QED BY <1>1 DEF HoldsNothing

(* flush_peer_delay releases the messages of the peer delay exchange.      *)
LEMMA FlushPeerDelaySheds ==
  ASSUME NEW w, NEW p, Good(p, w)
  PROVE  LET q == flush_peer_delay(p)
         IN  /\ LetsGo(p, q, w)
             /\ q.peer_delay_req = Null /\ q.peer_delay_resp = Null /\ q.peer_delay_fup = Null
<1> DEFINE a == Release(p, "peer_delay_req")
           b == Release(a, "peer_delay_resp")
           q == Release(b, "peer_delay_fup")
<1>1. LetsGo(p, a, w) /\ a.peer_delay_req = Null
  BY ReleaseReqSheds
<1>2. Good(a, w)
  BY <1>1 DEF LetsGo, Sheds, Drops
<1> HIDE DEF a
<1>3. LetsGo(a, b, w) /\ b.peer_delay_resp = Null
  BY <1>2, ReleaseRespSheds
<1>4. Good(b, w)
  BY <1>3 DEF LetsGo, Sheds, Drops
<1> HIDE DEF b
<1>5. LetsGo(b, q, w) /\ q.peer_delay_fup = Null
  BY <1>4, ReleaseFupSheds
<1> HIDE DEF q
<1>6. LetsGo(p, b, w)
  BY <1>1, <1>3, LetsGoTwice
<1>7. LetsGo(p, q, w)
  BY <1>5, <1>6, LetsGoTwice
<1>8. b.peer_delay_req = Null
  BY <1>1, <1>3 DEF LetsGo, Sheds, Drops, Fewer
<1>9. q.peer_delay_req = Null /\ q.peer_delay_resp = Null
  BY <1>3, <1>5, <1>8 DEF LetsGo, Sheds, Drops, Fewer
<1> QED BY <1>5, <1>7, <1>9 DEF flush_peer_delay, q, b, a

(* portOpDisable releases everything.                                      *)
LEMMA OpDisableSheds ==
  ASSUME NEW w, NEW p, Good(p, w)
  PROVE  LetsGo(p, portOpDisable(p), w) /\ HoldsNothing(portOpDisable(p))
<1> DEFINE a == flush_last_sync(p)
           b == flush_delay_req(a)
           q == flush_peer_delay(b)
<1>1. LetsGo(p, a, w) /\ a.syfu = "EMPTY"
  BY FlushLastSyncSheds
<1>2. Good(a, w)
  BY <1>1 DEF LetsGo, Sheds, Drops
<1> HIDE DEF a
<1>3. LetsGo(a, b, w) /\ b.delay_req = <<>>
  BY <1>2, FlushDelayReqSheds
<1>4. Good(b, w)
  BY <1>3 DEF LetsGo, Sheds, Drops
<1> HIDE DEF b
<1>5. /\ LetsGo(b, q, w)
      /\ q.peer_delay_req = Null /\ q.peer_delay_resp = Null /\ q.peer_delay_fup = Null
  BY <1>4, FlushPeerDelaySheds
<1> HIDE DEF q
<1>6. LetsGo(p, b, w)
  BY <1>1, <1>3, LetsGoTwice
<1>7. LetsGo(p, q, w)
  BY <1>5, <1>6, LetsGoTwice
<1>8. b.syfu = "EMPTY"
  BY <1>1, <1>3 DEF LetsGo, Sheds, Drops, Fewer
<1>9. q.syfu = "EMPTY"
  BY <1>5, <1>8 DEF LetsGo, Sheds, Drops, Fewer
<1>10. \A c \in Msgs : ~Waits(b, c)
  <2>1. Len(b.delay_req) = 0
    BY <1>3
  <2> QED BY <2>1 DEF Waits
<1>11. \A c \in Msgs : ~Waits(q, c)
  BY <1>5, <1>10 DEF LetsGo, Sheds, Drops, Fewer
<1>12. HoldsNothing(q)
  <2>1. Null \notin Msgs
    BY PoolConfig DEF Msgs
  <2>2. \A c \in Msgs : ~HalfKept(q, c) /\ q.peer_delay_req # c
                        /\ q.peer_delay_resp # c /\ q.peer_delay_fup # c
    BY <2>1, <1>5, <1>9 DEF HalfKept
  <2> QED BY <2>2, <1>11 DEF HoldsNothing, Pointers
<1> QED BY <1>7, <1>12 DEF portOpDisable, q, b, a

(* The state machine knows its states, and leaves the start for one of     *)
(* two.                                                                    *)
LEMMA FsmStates ==
  /\ \A s \in States : \A e, mdiff : Fsm(FALSE, s, e, mdiff) \in States
  /\ Fsm(FALSE, "INITIALIZING", "INIT_COMPLETE", FALSE) = "LISTENING"
  /\ Fsm(FALSE, "INITIALIZING", "FAULT_DETECTED", FALSE) = "FAULTY"
<1>1. ASSUME NEW s \in States, NEW e, NEW mdiff PROVE Fsm(FALSE, s, e, mdiff) \in States
  <2>1. DownFsm(s, e) \in States
    BY DEF DownFsm, States
  <2>2. EnabledFsm(FALSE, s, e, mdiff) \in States
    BY DEF EnabledFsm, RoleFsm, States
  <2> QED BY <2>1, <2>2 DEF Fsm, States
<1>2. /\ Fsm(FALSE, "INITIALIZING", "INIT_COMPLETE", FALSE) = "LISTENING"
      /\ Fsm(FALSE, "INITIALIZING", "FAULT_DETECTED", FALSE) = "FAULTY"
  BY DEF Fsm, DownFsm, Down
<1> QED BY <1>1, <1>2

(* A change of the state, with the notification of the subscribers.        *)
LEMMA ChangedSheds ==
  ASSUME NEW w, NEW p, Good(p, w), NEW s \in States
  PROVE  Sheds(p, Changed(p, s), w) /\ Changed(p, s).state = s
<1>0. p \in PortRec
  BY DEF Good
<1>1. CASE s = p.state
  BY <1>0, <1>1, ShedsNothing DEF Changed
<1>2. CASE s # p.state
  <2> DEFINE a == [p EXCEPT !.state = s]
             q == port_notify_event(a)
  <2>1. /\ a \in PortRec /\ a.pool = p.pool /\ a.total = p.total /\ a.refcnt = p.refcnt
        /\ a.body = p.body /\ a.syfu = p.syfu /\ a.last_syncfup = p.last_syncfup
        /\ a.delay_req = p.delay_req /\ a.peer_delay_req = p.peer_delay_req
        /\ a.peer_delay_resp = p.peer_delay_resp /\ a.peer_delay_fup = p.peer_delay_fup
        /\ a.state = s
    BY <1>0 DEF PortRec
  <2> HIDE DEF a
  <2>2. Sheds(p, a, w)
    BY <2>1, ShedsNothing
  <2>3. LetsGo(a, q, w)
    <3>1. Good(a, w)
      BY <2>2 DEF Sheds, Drops
    <3> QED BY <3>1, NotifySheds
  <2> HIDE DEF q
  <2>4. Sheds(p, q, w) /\ q.state = s
    BY <2>1, <2>2, <2>3, ShedsTwice DEF LetsGo
  <2> QED BY <1>2, <2>4 DEF Changed, q, a
<1> QED BY <1>1, <1>2

(* What the transition to a state flushes.                                 *)
LEMMA TransitionSheds ==
  ASSUME NEW w, NEW p, Good(p, w), p.state # "INITIALIZING"
  PROVE  LetsGo(p, Transition(p), w) /\ DownEmpty(Transition(p))
<1>1. CASE p.state \in {"FAULTY", "DISABLED"}
  <2>1. Transition(p) = portOpDisable(p)
    BY <1>1 DEF Transition
  <2> QED BY <2>1, OpDisableSheds DEF DownEmpty
<1>2. CASE p.state \notin {"FAULTY", "DISABLED"}
  <2>0. p.state \notin Down
    BY <1>2 DEF Down
  <2>1. LetsGo(p, Transition(p), w)
    <3>1. CASE p.state = "UNCALIBRATED" /\ p.mechanism = "P2P"
      <4>1. Transition(p) = flush_peer_delay(flush_last_sync(p))
        BY <3>1 DEF Transition
      <4>2. LetsGo(p, flush_last_sync(p), w) /\ Good(flush_last_sync(p), w)
        BY FlushLastSyncSheds DEF LetsGo, Sheds, Drops
      <4>3. LetsGo(flush_last_sync(p), flush_peer_delay(flush_last_sync(p)), w)
        BY <4>2, FlushPeerDelaySheds
      <4> QED BY <4>1, <4>2, <4>3, LetsGoTwice
    <3>2. CASE p.state = "UNCALIBRATED" /\ p.mechanism # "P2P"
      <4>1. Transition(p) = flush_delay_req(flush_last_sync(p))
        BY <3>2 DEF Transition
      <4>2. LetsGo(p, flush_last_sync(p), w) /\ Good(flush_last_sync(p), w)
        BY FlushLastSyncSheds DEF LetsGo, Sheds, Drops
      <4>3. LetsGo(flush_last_sync(p), flush_delay_req(flush_last_sync(p)), w)
        BY <4>2, FlushDelayReqSheds
      <4> QED BY <4>1, <4>2, <4>3, LetsGoTwice
    <3>3. CASE p.state # "UNCALIBRATED"
      <4>1. Transition(p) = p
        BY <1>2, <3>3 DEF Transition
      <4> QED BY <4>1, ShedsNothing DEF LetsGo, Good
    <3> QED BY <3>1, <3>2, <3>3
  <2> QED BY <2>0, <2>1 DEF DownEmpty, LetsGo
<1> QED BY <1>1, <1>2

(* portStateUpdate either changes the state alone, to one that is no start, *)
(* or starts the port, which then holds nothing.                           *)
LEMMA UpdateSheds ==
  ASSUME NEW w, NEW p, Good(p, w), DownEmpty(p), NEW t \in States, NEW q \in portStateUpdate(p, t)
  PROVE  /\ Sheds(p, q, w)
         /\ \/ HoldsNothing(q) /\ q.state \in {"LISTENING", "FAULTY"}
            \/ q = p
            \/ q.state = t /\ t # "INITIALIZING" /\ t # p.state
<1>0. p \in PortRec
  BY DEF Good
<1>1. CASE t # "INITIALIZING"
  <2>1. q = Changed(p, t)
    BY <1>1 DEF portStateUpdate
  <2>2. t = p.state => q = p
    BY <2>1 DEF Changed
  <2> QED BY <1>1, <2>1, <2>2, ChangedSheds
<1>2. CASE t = "INITIALIZING"
  <2> DEFINE a == IF portIsEnabled(p.state) THEN portOpDisable(p) ELSE p
             b == port_initialize(a)
  <2>1. Sheds(p, a, w) /\ HoldsNothing(a)
    <3>1. CASE portIsEnabled(p.state)
      BY <3>1, OpDisableSheds DEF LetsGo
    <3>2. CASE ~portIsEnabled(p.state)
      BY <3>2, <1>0, ShedsNothing DEF DownEmpty, portIsEnabled
    <3> QED BY <3>1, <3>2
  <2>2. Good(a, w) /\ a \in PortRec
    BY <2>1 DEF Sheds, Drops, Good
  <2> HIDE DEF a
  <2>3. /\ b \in PortRec /\ b.pool = a.pool /\ b.total = a.total /\ b.refcnt = a.refcnt
        /\ b.body = a.body /\ b.syfu = a.syfu /\ b.last_syncfup = a.last_syncfup
        /\ b.delay_req = a.delay_req /\ b.peer_delay_req = a.peer_delay_req
        /\ b.peer_delay_resp = a.peer_delay_resp /\ b.peer_delay_fup = a.peer_delay_fup
    BY <2>2 DEF port_initialize, PortRec, FaultTypes
  <2> HIDE DEF b
  <2>4. Sheds(a, b, w)
    BY <2>2, <2>3, ShedsNothing
  <2>5. PICK e \in {"INIT_COMPLETE", "FAULT_DETECTED"} : q = Changed(b, Fsm(FALSE, t, e, FALSE))
    BY <1>2 DEF portStateUpdate, b, a
  <2>6. Fsm(FALSE, t, e, FALSE) \in {"LISTENING", "FAULTY"}
    BY <1>2, FsmStates
  <2>7. Sheds(b, q, w) /\ q.state \in {"LISTENING", "FAULTY"}
    <3>1. Good(b, w)
      BY <2>4 DEF Sheds, Drops
    <3>2. Fsm(FALSE, t, e, FALSE) \in States
      BY <2>6 DEF States
    <3> QED BY <3>1, <3>2, <2>5, <2>6, ChangedSheds
  <2>8. Sheds(p, q, w)
    BY <2>1, <2>4, <2>7, ShedsTwice
  <2>9. Sheds(a, q, w)
    BY <2>4, <2>7, ShedsTwice
  <2>10. HoldsNothing(q)
    BY <2>1, <2>9, ShedsHoldsNothing DEF Sheds, Drops
  <2> QED BY <2>7, <2>8, <2>10
<1> QED BY <1>1, <1>2

(* One round of bc_dispatch.                                               *)
LEMMA DispatchOnceSheds ==
  ASSUME NEW w, NEW p, Good(p, w), DownEmpty(p), NEW t \in States, NEW q \in DispatchOnce(p, t)
  PROVE  Sheds(p, q, w) /\ DownEmpty(q)
<1>1. PICK u \in portStateUpdate(p, t) : q = IF u.state = p.state THEN u ELSE Transition(u)
  BY DEF DispatchOnce
<1>2. Sheds(p, u, w) /\ Good(u, w)
  BY UpdateSheds DEF Sheds, Drops
<1>3. \/ HoldsNothing(u) /\ u.state \in {"LISTENING", "FAULTY"}
      \/ u = p
      \/ u.state = t /\ t # "INITIALIZING" /\ t # p.state
  BY UpdateSheds
<1>4. CASE u.state = p.state
  BY <1>1, <1>2, <1>3, <1>4 DEF DownEmpty
<1>5. CASE u.state # p.state
  <2>1. u.state # "INITIALIZING"
    BY <1>3, <1>5
  <2>2. LetsGo(u, Transition(u), w) /\ DownEmpty(Transition(u))
    BY <2>1, <1>2, TransitionSheds
  <2> QED BY <1>1, <1>2, <1>5, <2>2, ShedsTwice DEF LetsGo
<1> QED BY <1>4, <1>5

(* bc_dispatch, with the second round when the PHC cannot be switched.     *)
LEMMA DispatchedSheds ==
  ASSUME NEW w, NEW p, Good(p, w), DownEmpty(p), NEW e, NEW mdiff, NEW q \in Dispatched(p, e, mdiff)
  PROVE  Sheds(p, q, w) /\ DownEmpty(q)
<1>0. \A s \in States, x \in PortRec : Cleared(x, s) \in States
  BY FsmStates DEF Cleared
<1>1. \A x \in PortRec : \A f, m : Target(x, f, m) \in States
  BY <1>0, FsmStates DEF Target, PortRec
<1>2. PICK u \in DispatchOnce(p, Target(p, e, mdiff)) :
        q = u \/ q \in DispatchOnce(SwitchFaults(u), Target(SwitchFaults(u), "FAULT_DETECTED", FALSE))
  BY DEF Dispatched
<1>3. Sheds(p, u, w) /\ DownEmpty(u) /\ Good(u, w)
  <2>1. Target(p, e, mdiff) \in States
    BY <1>1 DEF Good
  <2> QED BY <2>1, DispatchOnceSheds DEF Sheds, Drops
<1>4. CASE q = u
  BY <1>3, <1>4
<1>5. CASE q \in DispatchOnce(SwitchFaults(u), Target(SwitchFaults(u), "FAULT_DETECTED", FALSE))
  <2> DEFINE v == SwitchFaults(u)
  <2>1. u \in PortRec
    BY <1>3 DEF Good
  <2>2. /\ v \in PortRec /\ v.pool = u.pool /\ v.total = u.total /\ v.refcnt = u.refcnt
        /\ v.body = u.body /\ v.syfu = u.syfu /\ v.last_syncfup = u.last_syncfup
        /\ v.delay_req = u.delay_req /\ v.peer_delay_req = u.peer_delay_req
        /\ v.peer_delay_resp = u.peer_delay_resp /\ v.peer_delay_fup = u.peer_delay_fup
        /\ v.state = u.state
    BY <2>1 DEF SwitchFaults, PortRec, FaultTypes
  <2>3. q \in DispatchOnce(v, Target(v, "FAULT_DETECTED", FALSE))
    BY <1>5
  <2> HIDE DEF v
  <2>4. Sheds(u, v, w)
    BY <1>3, <2>2, ShedsNothing
  <2>5. Good(v, w) /\ DownEmpty(v)
    BY <1>3, <2>2, <2>4, ShedsHoldsNothing DEF Sheds, Drops, DownEmpty
  <2>6. Target(v, "FAULT_DETECTED", FALSE) \in States
    BY <1>1, <2>2
  <2>7. Sheds(v, q, w) /\ DownEmpty(q)
    BY <2>3, <2>5, <2>6, DispatchOnceSheds
  <2> QED BY <1>3, <2>4, <2>7, ShedsTwice
<1> QED BY <1>2, <1>4, <1>5
----------------------------------------------------------------------------
(* Synchronizing.                                                          *)

(* What a handler finds and leaves behind.                                 *)
Fine(p, w) == Good(p, w) /\ Clean(p) /\ DownEmpty(p)

(* Letting go keeps it so.                                                 *)
LEMMA LetsGoFine ==
  ASSUME NEW w, NEW p, NEW q, LetsGo(p, q, w), Fine(p, w)
  PROVE  Fine(q, w)
  BY LetsGoDown DEF Fine, LetsGo, Sheds, Drops

(* So does dispatching.                                                    *)
LEMMA DispatchedFine ==
  ASSUME NEW w, NEW p, Fine(p, w), NEW e, NEW mdiff, NEW q \in Dispatched(p, e, mdiff)
  PROVE  Fine(q, w)
  BY DispatchedSheds DEF Fine, Sheds, Drops

(* A jump changes what the requests say and nothing else.                  *)
LEMMA JumpedDrops ==
  ASSUME NEW w, NEW p, Good(p, w), DownEmpty(p)
  PROVE  Drops(p, Jumped(p), w) /\ DownEmpty(Jumped(p))
<1> DEFINE q == Jumped(p)
           Later(b) == IF b # Null /\ b.kind = "REQUEST" THEN [b EXCEPT !.old = TRUE] ELSE b
<1>1. p \in PortRec
  BY DEF Good
<1>2. ASSUME NEW b \in Bodies PROVE Later(b) \in Bodies
  <2>1. CASE b \in Received \cup {Other}
    BY <2>1 DEF Received, Other, Bodies
  <2>2. CASE b \in Request
    <3>1. [b EXCEPT !.old = TRUE] \in Request
      BY <2>2 DEF Request
    <3> QED BY <3>1, <1>2 DEF Bodies
  <2>3. CASE b = Null
    BY <2>3 DEF Bodies
  <2> QED BY <1>2, <2>1, <2>2, <2>3 DEF Bodies
<1>3. \A c \in Msgs : Later(p.body[c]) \in Bodies
  <2>1. \A c \in Msgs : p.body[c] \in Bodies
    BY <1>1 DEF PortRec, Bodies
  <2> HIDE DEF Later
  <2> QED BY <2>1, <1>2
<1>4. q = [p EXCEPT !.body = [c \in Msgs |-> Later(p.body[c])]]
  BY <1>1 DEF Jumped, PortRec
<1> HIDE DEF Later, q
<1>5. /\ q \in PortRec /\ q.pool = p.pool /\ q.total = p.total /\ q.refcnt = p.refcnt
      /\ SameRest(p, q)
  BY <1>1, <1>3, <1>4 DEF PortRec, SameRest, Bodies
<1>6. \A c \in Msgs : Pointers(q, c) = Pointers(p, c)
  BY <1>5, SamePointers
<1>7. Owned(q, w) = Owned(p, w)
  BY <1>6 DEF Owned
<1>8. Counts(q, Owned(q, w))
  <2> DEFINE own == Owned(p, w)
  <2>1. Counts(p, own) /\ Owned(q, w) = own
    BY <1>7 DEF Good
  <2> HIDE DEF own
  <2> QED BY <2>1, <1>5, SamePool
<1>9. Good(q, w)
  BY <1>5, <1>6, <1>8 DEF Good, Distinct, SameRest
<1>10. \A c \in Msgs : LastHalf(p, c) => LastHalf(q, c)
  BY <1>5 DEF LastHalf, InPool, SameRest
<1>11. Fewer(p, q)
  BY <1>5, <1>9 DEF Fewer, Waits, Good, SameRest
<1>12. DownEmpty(q)
  BY <1>5, SamePointers
<1> QED BY <1>9, <1>10, <1>11, <1>12 DEF Drops, q

(* portSynchronize may flush anything, and the requests when the clock     *)
(* jumps: none that waits afterwards is from before the jump.              *)
LEMMA SynchronizeDrops ==
  ASSUME NEW w, NEW p, Fine(p, w), NEW q \in portSynchronize(p)
  PROVE  Drops(p, q, w) /\ Fine(q, w)
<1>1. CASE \E e : q \in Dispatched(p, e, FALSE)
  BY <1>1, DispatchedSheds DEF Fine, Sheds, Drops
<1>2. ASSUME NEW x \in Dispatched(p, "SYNCHRONIZATION_FAULT", FALSE) \cup
                       Dispatched(Jumped(p), "SYNCHRONIZATION_FAULT", FALSE),
             q = Release(flush_delay_req(x), "peer_delay_req")
      PROVE  Drops(p, q, w) /\ Fine(q, w)
  <2>1. Drops(p, x, w) /\ DownEmpty(x)
    <3>1. CASE x \in Dispatched(p, "SYNCHRONIZATION_FAULT", FALSE)
      BY <3>1, DispatchedSheds DEF Fine, Sheds
    <3>2. CASE x \in Dispatched(Jumped(p), "SYNCHRONIZATION_FAULT", FALSE)
      <4> DEFINE j == Jumped(p)
      <4>1. Drops(p, j, w) /\ DownEmpty(j) /\ Good(j, w)
        BY JumpedDrops DEF Fine, Drops
      <4>2. x \in Dispatched(j, "SYNCHRONIZATION_FAULT", FALSE)
        BY <3>2
      <4> HIDE DEF j
      <4>3. Drops(j, x, w) /\ DownEmpty(x)
        BY <4>1, <4>2, DispatchedSheds DEF Sheds
      <4> QED BY <4>1, <4>3, DropsTwice
    <3> QED BY <1>2, <3>1, <3>2
  <2> DEFINE y == flush_delay_req(x)
  <2>2. LetsGo(x, y, w) /\ y.delay_req = <<>> /\ Good(y, w)
    BY <2>1, FlushDelayReqSheds DEF LetsGo, Sheds, Drops
  <2>3. q = Release(y, "peer_delay_req")
    BY <1>2
  <2> HIDE DEF y
  <2>4. LetsGo(y, q, w) /\ q.peer_delay_req = Null
    BY <2>2, <2>3, ReleaseReqSheds
  <2>5. Drops(p, q, w)
    BY <2>1, <2>2, <2>4, DropsTwice DEF LetsGo, Sheds
  <2>6. DownEmpty(q)
    BY <2>1, <2>2, <2>4, LetsGoDown
  <2>7. \A c \in Msgs : ~Waits(q, c)
    <3>1. Len(y.delay_req) = 0
      BY <2>2
    <3> QED BY <3>1, <2>4 DEF LetsGo, Sheds, Drops, Fewer, Waits
  <2>8. q.delay_req \in Seq(Msgs)
    BY <2>5 DEF Drops, Good, PortRec
  <2>9. \A i \in 1 .. Len(q.delay_req) : FALSE
    BY <2>7, <2>8 DEF Waits
  <2> QED BY <2>4, <2>5, <2>6, <2>9 DEF Fine, Clean, Drops
<1> QED BY <1>1, <1>2 DEF portSynchronize

(* One more reference to a message that is known.                          *)
LEMMA GetTurns ==
  ASSUME NEW w, NEW p, Good(p, w), NEW c \in Msgs, w[c] > 0
  PROVE  Turns(p, msg_get(p, c), [w EXCEPT ![c] = @ + 1]) /\ msg_get(p, c).body = p.body
<1> DEFINE own == Owned(p, w)
           q == msg_get(p, c)
           v == [w EXCEPT ![c] = @ + 1]
           more == [own EXCEPT ![c] = @ + 1]
<1>1. p \in PortRec /\ IsPool(p) /\ Counts(p, own) /\ own \in [Msgs -> Nat] /\ w \in [Msgs -> Nat]
  BY PortIsPool DEF Good, Counts
<1>2. \A d \in Msgs : own[d] = Pointers(p, d) + w[d] /\ w[d] \in Nat /\ Pointers(p, d) \in Nat
  BY DEF Good, Owned, Pointers
<1> HIDE DEF own
<1>a. own[c] > 0
  BY <1>2
<1>3. IsPool(q) /\ OnlyPool(p, q) /\ Counts(q, more) /\ q.body = p.body
  BY <1>1, <1>a, GetOwned
<1>4. \A d \in Msgs : q.body[d] \in Bodies
  BY <1>1, <1>3 DEF PortRec, Bodies
<1> HIDE DEF q
<1>5. q \in PortRec /\ SameRest(p, q)
  BY <1>1, <1>3, <1>4, PortWithPool
<1>6. v \in [Msgs -> Nat] /\ \A d \in Msgs : more[d] = Pointers(p, d) + v[d]
  BY <1>1, <1>2
<1> HIDE DEF v, more
<1>7. Turns(p, q, v)
  BY <1>3, <1>5, <1>6, TurnsBy
<1> QED BY <1>3, <1>7 DEF q, v

(* A reference of the handler becomes a pointer of the port.               *)
LEMMA Takes ==
  ASSUME NEW v, NEW p, Good(p, v), NEW c \in Msgs, v[c] > 0, NEW w, w = [v EXCEPT ![c] = @ - 1],
         NEW q \in PortRec, q.pool = p.pool, q.total = p.total, q.refcnt = p.refcnt,
         Pointers(p, c) = 0, Pointers(q, c) = 1,
         \A d \in Msgs \ {c} : Pointers(q, d) = Pointers(p, d),
         Distinct(q.delay_req), q.syfu # "EMPTY" => q.last_syncfup \in Msgs
  PROVE  Good(q, w)
<1>1. v \in [Msgs -> Nat] /\ w \in [Msgs -> Nat]
  BY DEF Good
<1>2. \A d \in Msgs : Pointers(q, d) + w[d] = Pointers(p, d) + v[d]
  BY <1>1
<1>3. Owned(q, w) = Owned(p, v)
  BY <1>2 DEF Owned
<1>4. Counts(q, Owned(q, w))
  <2> DEFINE own == Owned(p, v)
  <2>1. Counts(p, own) /\ Owned(q, w) = own
    BY <1>3 DEF Good
  <2> HIDE DEF own
  <2> QED BY <2>1, SamePool
<1>5. \A d \in Msgs : Pointers(q, d) <= 1
  BY DEF Good
<1> QED BY <1>1, <1>4, <1>5 DEF Good

----------------------------------------------------------------------------
(* The handlers.  Message c is the one that has come in.                   *)

One(c) == [d \in Msgs |-> IF d = c THEN 1 ELSE 0]

(* What a handler starts from: the port is up and nobody else knows c.     *)
Handling(p, c) ==
    /\ c \in Msgs /\ Fine(p, One(c)) /\ Pointers(p, c) = 0
    /\ p.state \notin Down

(* Flushing leaves c to the handler.                                       *)
LEMMA LetsGoHandling ==
  ASSUME NEW p, NEW q, NEW c, Handling(p, c), LetsGo(p, q, One(c))
  PROVE  Handling(q, c)
<1>1. Fine(q, One(c)) /\ q.state = p.state
  BY LetsGoFine DEF Handling, LetsGo
<1>2. Pointers(q, c) = 0
  BY FewerPointers DEF Handling, LetsGo, Sheds, Drops
<1> QED BY <1>1, <1>2 DEF Handling

(* The counter of the handler, one up and one down.                        *)
LEMMA OneMore ==
  ASSUME NEW c \in Msgs
  PROVE  LET v == [One(c) EXCEPT ![c] = @ + 1]
         IN  v[c] = 2 /\ One(c) = [v EXCEPT ![c] = @ - 1]
<1> DEFINE w == One(c)
           v == [w EXCEPT ![c] = @ + 1]
           u == [v EXCEPT ![c] = @ - 1]
<1>1. w \in [Msgs -> Nat] /\ w[c] = 1
  BY DEF One
<1> HIDE DEF w
<1>2. v \in [Msgs -> Nat] /\ v[c] = 2 /\ \A d \in Msgs \ {c} : v[d] = w[d]
  BY <1>1
<1> HIDE DEF v
<1>3. u \in [Msgs -> Nat] /\ u[c] = 1 /\ \A d \in Msgs \ {c} : u[d] = v[d]
  BY <1>2
<1>4. u = w
  BY <1>1, <1>2, <1>3
<1> QED BY <1>2, <1>4 DEF v, w

(* Keep: the half of a pair that came in takes the place of the kept one.  *)
LEMMA KeepFine ==
  ASSUME NEW p, NEW c, Handling(p, c), NEW s \in {"HAVE_SYNC", "HAVE_FUP"}
  PROVE  Fine(Keep(p, c, s), One(c))
<1> DEFINE w == One(c)
           a == flush_last_sync(p)
           b == msg_get(a, c)
           v == [w EXCEPT ![c] = @ + 1]
           q == [b EXCEPT !.last_syncfup = c, !.syfu = s]
<1>0. c \in Msgs /\ w[c] = 1 /\ Good(p, w)
  BY DEF Handling, One, Fine
<1>1. Handling(a, c) /\ a.syfu = "EMPTY"
  BY <1>0, FlushLastSyncSheds, LetsGoHandling
<1> HIDE DEF a
<1>2. Turns(a, b, v)
  BY <1>0, <1>1, GetTurns DEF Handling, Fine
<1>3. v[c] = 2 /\ w = [v EXCEPT ![c] = @ - 1]
  BY <1>0, OneMore
<1> HIDE DEF b, v, w
<1>4. Good(b, v) /\ SameRest(a, b) /\ Clean(b) /\ b \in PortRec
  BY <1>1, <1>2 DEF Turns, Handling, Fine, Good
<1>5. /\ q \in PortRec /\ q.pool = b.pool /\ q.total = b.total /\ q.refcnt = b.refcnt
      /\ q.body = b.body /\ q.syfu = s /\ q.last_syncfup = c
      /\ q.delay_req = b.delay_req /\ q.peer_delay_req = b.peer_delay_req
      /\ q.peer_delay_resp = b.peer_delay_resp /\ q.peer_delay_fup = b.peer_delay_fup
      /\ q.state = b.state
  BY <1>0, <1>4 DEF PortRec
<1> HIDE DEF q
<1>6. \A d \in Msgs : ~HalfKept(b, d) /\ (HalfKept(q, d) <=> d = c)
  BY <1>1, <1>4, <1>5 DEF HalfKept, SameRest
<1>7. \A d \in Msgs : Waits(q, d) <=> Waits(b, d)
  BY <1>5 DEF Waits
<1>8. Pointers(b, c) = 0
  BY <1>1, <1>4, SamePointers DEF Handling
<1>9. Pointers(q, c) = 1 /\ \A d \in Msgs \ {c} : Pointers(q, d) = Pointers(b, d)
  BY <1>0, <1>5, <1>6, <1>7, <1>8 DEF Pointers
<1>10. Good(q, w)
  <2>1. q.syfu # "EMPTY" => q.last_syncfup \in Msgs
    BY <1>0, <1>5
  <2>2. Distinct(q.delay_req)
    BY <1>4, <1>5 DEF Good
  <2>3. v[c] > 0
    BY <1>3
  <2> QED BY <1>0, <1>3, <1>4, <1>5, <1>8, <1>9, <2>1, <2>2, <2>3, Takes
<1>11. Clean(q)
  BY <1>4, <1>5 DEF Clean
<1>12. DownEmpty(q)
  BY <1>1, <1>4, <1>5 DEF DownEmpty, Handling, SameRest
<1> QED BY <1>10, <1>11, <1>12 DEF Fine, Keep, q, b, a, w

(* Consumed: the half that was kept is released, or was flushed by the     *)
(* dispatch and is in the pool, where releasing it once more does no harm. *)
LEMMA ConsumedFine ==
  ASSUME NEW w, NEW p, Fine(p, w), NEW c \in Msgs, LastHalf(p, c)
  PROVE  Fine(Consumed(p), w)
<1>1. CASE p.syfu # "EMPTY"
  <2>1. Consumed(p) = flush_last_sync(p)
    BY <1>1 DEF Consumed, flush_last_sync
  <2> QED BY <2>1, FlushLastSyncSheds, LetsGoFine DEF Fine
<1>2. CASE p.syfu = "EMPTY"
  <2> DEFINE r == msg_put(p, c)
             q == [r EXCEPT !.syfu = "EMPTY"]
  <2>1. InPool(p, c) /\ p.last_syncfup = c
    BY <1>2 DEF LastHalf
  <2>2. Turns(p, r, w)
    BY <2>1, StaleTurns DEF Fine
  <2> HIDE DEF r
  <2>3. Fine(r, w) /\ r \in PortRec /\ r.syfu = "EMPTY" /\ r.state = p.state
    BY <1>2, <2>2, SamePointers DEF Turns, Fine, Good, SameRest
  <2>4. /\ q \in PortRec /\ q.pool = r.pool /\ q.total = r.total /\ q.refcnt = r.refcnt
        /\ q.body = r.body /\ q.syfu = r.syfu /\ q.last_syncfup = r.last_syncfup
        /\ q.delay_req = r.delay_req /\ q.peer_delay_req = r.peer_delay_req
        /\ q.peer_delay_resp = r.peer_delay_resp /\ q.peer_delay_fup = r.peer_delay_fup
        /\ q.state = r.state
    BY <2>3 DEF PortRec
  <2> HIDE DEF q
  <2>5. LetsGo(r, q, w)
    BY <2>3, <2>4, ShedsNothing DEF LetsGo, Fine
  <2>6. Fine(q, w)
    BY <2>3, <2>5, LetsGoFine
  <2> QED BY <2>1, <2>6 DEF Consumed, q, r
<1> QED BY <1>1, <1>2

(* A pair is complete and goes to the servo.                               *)
LEMMA PairFine ==
  ASSUME NEW p, NEW c, Handling(p, c), p.syfu # "EMPTY", NEW q \in portSynchronize(p)
  PROVE  Fine(Consumed(q), One(c))
<1> DEFINE w == One(c)
           l == p.last_syncfup
<1>1. l \in Msgs /\ LastHalf(p, l) /\ HalfKept(p, l)
  BY DEF LastHalf, HalfKept, Handling, Fine, Good
<1>2. Pointers(p, l) > 0
  BY <1>1 DEF Pointers
<1>3. w[l] = 0
  BY <1>1, <1>2 DEF One, Handling
<1>4. Drops(p, q, w) /\ Fine(q, w)
  BY SynchronizeDrops DEF Handling
<1>5. LastHalf(q, l)
  BY <1>1, <1>3, <1>4 DEF Drops
<1> QED BY <1>1, <1>4, <1>5, ConsumedFine

(* portMsgProSync.                                                         *)
LEMMA ProSyncFine ==
  ASSUME NEW p, NEW c, Handling(p, c), NEW q \in portMsgProSync(p, c)
  PROVE  Fine(q, One(c))
<1>1. CASE q = p
  BY <1>1 DEF Handling
<1>2. ASSUME NEW x \in portSynchronize(p), q = flush_last_sync(x)
      PROVE  Fine(q, One(c))
  <2>1. Fine(x, One(c))
    BY SynchronizeDrops DEF Handling
  <2> QED BY <1>2, <2>1, FlushLastSyncSheds, LetsGoFine DEF Fine
<1>3. ASSUME NEW x \in portSynchronize(p), q = Consumed(x), Matches(p, c, "HAVE_FUP")
      PROVE  Fine(q, One(c))
  BY <1>3, PairFine DEF Matches
<1>4. CASE q = Keep(p, c, "HAVE_SYNC")
  BY <1>4, KeepFine
<1> QED BY <1>1, <1>2, <1>3, <1>4 DEF portMsgProSync

(* portMsgProFollowUp.                                                     *)
LEMMA ProFollowUpFine ==
  ASSUME NEW p, NEW c, Handling(p, c), NEW q \in portMsgProFollowUp(p, c)
  PROVE  Fine(q, One(c))
<1>1. CASE q = p
  BY <1>1 DEF Handling
<1>2. ASSUME NEW x \in portSynchronize(p), q = Consumed(x), Matches(p, c, "HAVE_SYNC")
      PROVE  Fine(q, One(c))
  BY <1>2, PairFine DEF Matches
<1>3. CASE q = Keep(p, c, "HAVE_FUP")
  BY <1>3, KeepFine
<1> QED BY <1>1, <1>2, <1>3 DEF portMsgProFollowUp

----------------------------------------------------------------------------
(* Requests.  The handler owns w when it starts, which may be nothing.     *)

(* Making and releasing keeps all in order.                                *)
LEMMA TurnsFine ==
  ASSUME NEW w, NEW v, NEW p, NEW q, Fine(p, w), Turns(p, q, v)
  PROVE  Fine(q, v) /\ q.state = p.state /\ \A c : Pointers(q, c) = Pointers(p, c)
  BY SamePointers DEF Fine, Turns, SameRest

(* Requested: the handler owns a request of now.                           *)
LEMMA RequestedFine ==
  ASSUME NEW w, NEW p, Fine(p, w), CanAllocate(p)
  PROVE  LET c == Allocated(p)
             q == Requested(p)
         IN  /\ c \in Msgs /\ w[c] = 0 /\ Pointers(q, c) = 0
             /\ Fine(q, [w EXCEPT ![c] = 1])
             /\ q.state = p.state /\ q.body[c].old = FALSE
<1> DEFINE c == Allocated(p)
           m == [kind |-> "REQUEST", seq |-> p.seqnum, old |-> FALSE]
           a == msg_allocate(p, m)
           v == [w EXCEPT ![c] = 1]
           q == [a EXCEPT !.seqnum = (@ + 1) % SeqWrap]
<1>1. m \in Bodies /\ m.old = FALSE
  BY DEF Fine, Good, PortRec, Bodies, Request
<1> HIDE DEF m
<1>2. c \in Msgs /\ w[c] = 0 /\ Pointers(p, c) = 0 /\ Turns(p, a, v) /\ a.body[c] = m
  BY <1>1, AllocateTurns DEF Fine
<1> HIDE DEF a, c, v
<1>3. Fine(a, v) /\ a.state = p.state /\ Pointers(a, c) = 0
  BY <1>2, TurnsFine
<1>4. a \in PortRec
  BY <1>3 DEF Fine, Good
<1>5. (a.seqnum + 1) % SeqWrap \in SeqIds
  BY <1>4, MessagesConfig DEF PortRec, SeqIds
<1>6. /\ q \in PortRec /\ q.pool = a.pool /\ q.total = a.total /\ q.refcnt = a.refcnt
      /\ q.body = a.body /\ q.syfu = a.syfu /\ q.last_syncfup = a.last_syncfup
      /\ q.delay_req = a.delay_req /\ q.peer_delay_req = a.peer_delay_req
      /\ q.peer_delay_resp = a.peer_delay_resp /\ q.peer_delay_fup = a.peer_delay_fup
      /\ q.state = a.state
  BY <1>4, <1>5 DEF PortRec
<1> HIDE DEF q
<1>7. LetsGo(a, q, v)
  BY <1>3, <1>6, ShedsNothing DEF LetsGo, Fine
<1>8. Fine(q, v)
  BY <1>3, <1>7, LetsGoFine
<1>9. Pointers(q, c) = 0
  BY <1>2, <1>3, <1>7, FewerPointers DEF LetsGo, Sheds, Drops
<1> QED BY <1>1, <1>2, <1>3, <1>6, <1>8, <1>9 DEF Requested, q, a, c, v, m

(* Stored: the request goes to the queue or to the field.                  *)
LEMMA StoredFine ==
  ASSUME NEW v, NEW p, Fine(p, v), NEW c \in Msgs, v[c] > 0, Pointers(p, c) = 0,
         p.state \notin Down, p.body[c].old = FALSE, NEW w, w = [v EXCEPT ![c] = @ - 1]
  PROVE  Fine(Stored(p, c), w)
<1>0. Null \notin Msgs
  BY PoolConfig DEF Msgs
<1>1. CASE p.mechanism = "P2P"
  <2> DEFINE a == Release(p, "peer_delay_req")
             q == [a EXCEPT !.peer_delay_req = c]
  <2>1. LetsGo(p, a, v) /\ a.peer_delay_req = Null
    BY ReleaseReqSheds DEF Fine
  <2> HIDE DEF a
  <2>2. Fine(a, v) /\ a.state = p.state /\ a.body[c] = p.body[c]
    BY <2>1, LetsGoFine DEF LetsGo, Sheds
  <2>3. Pointers(a, c) = 0
    BY <2>1, FewerPointers DEF LetsGo, Sheds, Drops
  <2>4. a \in PortRec
    BY <2>2 DEF Fine, Good
  <2>5. /\ q \in PortRec /\ q.pool = a.pool /\ q.total = a.total /\ q.refcnt = a.refcnt
        /\ q.body = a.body /\ q.syfu = a.syfu /\ q.last_syncfup = a.last_syncfup
        /\ q.delay_req = a.delay_req /\ q.peer_delay_req = c
        /\ q.peer_delay_resp = a.peer_delay_resp /\ q.peer_delay_fup = a.peer_delay_fup
        /\ q.state = a.state
    BY <2>4 DEF PortRec
  <2> HIDE DEF q
  <2>6. \A d \in Msgs : (HalfKept(q, d) <=> HalfKept(a, d)) /\ (Waits(q, d) <=> Waits(a, d))
    BY <2>5 DEF HalfKept, Waits
  <2>7. Pointers(q, c) = 1 /\ \A d \in Msgs \ {c} : Pointers(q, d) = Pointers(a, d)
    BY <1>0, <2>1, <2>3, <2>5, <2>6 DEF Pointers
  <2>8. Distinct(q.delay_req) /\ (q.syfu # "EMPTY" => q.last_syncfup \in Msgs) /\ Good(a, v)
    BY <2>2, <2>5 DEF Fine, Good
  <2>9. Good(q, w)
    <3>1. q \in PortRec /\ q.pool = a.pool /\ q.total = a.total /\ q.refcnt = a.refcnt
      BY <2>5
    <3> QED BY <3>1, <2>3, <2>7, <2>8, Takes
  <2>10. Clean(q)
    BY <2>2, <2>5 DEF Clean, Fine
  <2>11. DownEmpty(q)
    BY <2>2, <2>5 DEF DownEmpty
  <2> QED BY <1>1, <2>9, <2>10, <2>11 DEF Fine, Stored, q, a
<1>2. CASE p.mechanism # "P2P"
  <2> DEFINE list == <<c>> \o p.delay_req
             q == [p EXCEPT !.delay_req = list]
  <2>1. p \in PortRec /\ Good(p, v)
    BY DEF Fine, Good
  <2>2. p.delay_req \in Seq(Msgs) /\ Distinct(p.delay_req) /\ ~Waits(p, c)
    <3>1. Waits(p, c) => Pointers(p, c) > 0
      BY DEF Pointers
    <3> QED BY <2>1, <3>1 DEF PortRec, Good
  <2>3. /\ list \in Seq(Msgs) /\ Len(list) = Len(p.delay_req) + 1 /\ list[1] = c
        /\ \A i \in 1 .. Len(p.delay_req) : list[i + 1] = p.delay_req[i]
        /\ \A i \in 2 .. Len(list) : i - 1 \in 1 .. Len(p.delay_req) /\ list[i] = p.delay_req[i - 1]
    BY <2>2
  <2> HIDE DEF list
  <2>4. /\ q \in PortRec /\ q.pool = p.pool /\ q.total = p.total /\ q.refcnt = p.refcnt
        /\ q.body = p.body /\ q.syfu = p.syfu /\ q.last_syncfup = p.last_syncfup
        /\ q.delay_req = list /\ q.peer_delay_req = p.peer_delay_req
        /\ q.peer_delay_resp = p.peer_delay_resp /\ q.peer_delay_fup = p.peer_delay_fup
        /\ q.state = p.state
    BY <2>1, <2>3 DEF PortRec
  <2> HIDE DEF q
  <2>5. Distinct(list)
    <3> SUFFICES ASSUME NEW i \in 1 .. Len(list), NEW j \in 1 .. Len(list), list[i] = list[j]
                 PROVE  i = j
      BY DEF Distinct
    <3>1. CASE i = 1 /\ j = 1
      BY <3>1
    <3>2. CASE i = 1 /\ j # 1
      <4>1. j \in 2 .. Len(list)
        BY <2>3, <2>2, <3>2
      <4> QED BY <4>1, <3>2, <2>2, <2>3 DEF Waits
    <3>3. CASE i # 1 /\ j = 1
      <4>1. i \in 2 .. Len(list)
        BY <2>3, <2>2, <3>3
      <4> QED BY <4>1, <3>3, <2>2, <2>3 DEF Waits
    <3>4. CASE i # 1 /\ j # 1
      <4>1. i \in 2 .. Len(list) /\ j \in 2 .. Len(list)
        BY <2>3, <2>2, <3>4
      <4>2. p.delay_req[i - 1] = p.delay_req[j - 1]
        BY <4>1, <2>3
      <4>3. i - 1 \in 1 .. Len(p.delay_req) /\ j - 1 \in 1 .. Len(p.delay_req)
        BY <4>1, <2>3
      <4>4. i - 1 = j - 1
        BY <4>2, <4>3, <2>2 DEF Distinct
      <4>5. Len(list) \in Nat
        BY <2>2, <2>3
      <4> QED BY <4>1, <4>4, <4>5
    <3> QED BY <3>1, <3>2, <3>3, <3>4
  <2>6. \A d \in Msgs : Waits(q, d) <=> d = c \/ Waits(p, d)
    <3> TAKE d \in Msgs
    <3>1. Waits(q, d) => d = c \/ Waits(p, d)
      <4> SUFFICES ASSUME NEW i \in 1 .. Len(list), list[i] = d PROVE d = c \/ Waits(p, d)
        BY <2>4 DEF Waits
      <4>1. i = 1 \/ i \in 2 .. Len(list)
        BY <2>2, <2>3
      <4> QED BY <4>1, <2>3 DEF Waits
    <3>2. d = c => Waits(q, d)
      <4>1. 1 \in 1 .. Len(list)
        BY <2>2, <2>3
      <4> QED BY <4>1, <2>3, <2>4 DEF Waits
    <3>3. ASSUME NEW i \in 1 .. Len(p.delay_req), p.delay_req[i] = d PROVE Waits(q, d)
      <4>1. i + 1 \in 1 .. Len(list)
        BY <2>2, <2>3
      <4> QED BY <4>1, <3>3, <2>3, <2>4 DEF Waits
    <3> QED BY <3>1, <3>2, <3>3 DEF Waits
  <2>7. \A d \in Msgs : HalfKept(q, d) <=> HalfKept(p, d)
    BY <2>4 DEF HalfKept
  <2>8. Pointers(q, c) = 1 /\ \A d \in Msgs \ {c} : Pointers(q, d) = Pointers(p, d)
    BY <2>2, <2>4, <2>6, <2>7 DEF Pointers
  <2>9. Distinct(q.delay_req) /\ (q.syfu # "EMPTY" => q.last_syncfup \in Msgs)
    BY <2>1, <2>4, <2>5 DEF Good
  <2>10. Good(q, w)
    <3>1. Pointers(p, c) = 0 /\ v[c] > 0
      OBVIOUS
    <3> QED BY <3>1, <2>1, <2>4, <2>8, <2>9, Takes
  <2>11. Clean(q)
    <3>1. Clean(p)
      BY DEF Fine
    <3>2. ASSUME NEW i \in 1 .. Len(list) PROVE p.body[list[i]].old = FALSE
      <4>1. i = 1 \/ i \in 2 .. Len(list)
        BY <2>2, <2>3
      <4> QED BY <4>1, <3>1, <2>3 DEF Clean
    <3> QED BY <3>1, <3>2, <2>4 DEF Clean
  <2>12. DownEmpty(q)
    BY <2>4 DEF DownEmpty
  <2> QED BY <1>2, <2>10, <2>11, <2>12 DEF Fine, Stored, q, list
<1> QED BY <1>1, <1>2

(* The handler's last reference is released.                               *)
LEMMA PutFine ==
  ASSUME NEW v, NEW p, Fine(p, v), NEW c \in Msgs, v[c] > 0, NEW w, w = [v EXCEPT ![c] = @ - 1]
  PROVE  Fine(msg_put(p, c), w)
<1>1. Good(p, v)
  BY DEF Fine
<1>2. Turns(p, msg_put(p, c), [v EXCEPT ![c] = @ - 1])
  BY <1>1, PutTurns
<1>3. Turns(p, msg_put(p, c), w)
  BY <1>2
<1> QED BY <1>3, TurnsFine

(* A request is kept or released again.                                    *)
LEMMA NewRequestFine ==
  ASSUME NEW w, NEW p, Fine(p, w), p.state \notin Down, NEW o \in NewRequest(p)
  PROVE  Fine(o.port, w)
<1>1. CASE ~CanAllocate(p)
  BY <1>1 DEF NewRequest, Fault
<1>2. CASE CanAllocate(p)
  <2> DEFINE c == Allocated(p)
             q == Requested(p)
             v == [w EXCEPT ![c] = 1]
  <2>1. /\ c \in Msgs /\ w[c] = 0 /\ Pointers(q, c) = 0 /\ Fine(q, v)
        /\ q.state = p.state /\ q.body[c].old = FALSE
    BY <1>2, RequestedFine
  <2>2. v = [w EXCEPT ![c] = 1] /\ w \in [Msgs -> Nat]
    BY DEF Fine, Good
  <2>3. o \in {Fault(msg_put(q, c)), Quiet(Stored(q, c))}
    BY <1>2 DEF NewRequest
  <2> HIDE DEF c, q, v
  <2>a. w = [v EXCEPT ![c] = @ - 1] /\ v[c] = 1
    BY <2>1, <2>2, MoreAndLess
  <2>4. w = [v EXCEPT ![c] = @ - 1] /\ v[c] > 0
    BY <2>a
  <2>5. Fine(msg_put(q, c), w)
    BY <2>1, <2>4, PutFine
  <2>6. Fine(Stored(q, c), w)
    <3>1. q.state \notin Down
      BY <2>1
    <3>2. c \in Msgs /\ Fine(q, v) /\ Pointers(q, c) = 0 /\ q.body[c].old = FALSE
      BY <2>1
    <3>3. v[c] > 0
      BY <2>4
    <3>4. w = [v EXCEPT ![c] = @ - 1]
      BY <2>4
    <3> QED BY <3>1, <3>2, <3>3, <3>4, StoredFine
  <2> QED BY <2>3, <2>5, <2>6 DEF Fault, Quiet
<1> QED BY <1>1, <1>2

(* port_delay_request.                                                     *)
LEMMA DelayRequestFine ==
  ASSUME NEW w, NEW p, Fine(p, w), p.state \notin Down, NEW o \in port_delay_request(p)
  PROVE  Fine(o.port, w)
<1> DEFINE a == Release(p, "peer_delay_resp")
           q == Release(a, "peer_delay_fup")
           r == [q EXCEPT !.multiple_seq_pdr_count = IF q.multiple_pdr_detected THEN @ ELSE 0,
                          !.multiple_pdr_detected = FALSE]
<1>1. LetsGo(p, a, w) /\ Fine(a, w)
  BY ReleaseRespSheds, LetsGoFine DEF Fine
<1> HIDE DEF a
<1>2. LetsGo(a, q, w) /\ Fine(q, w)
  BY <1>1, ReleaseFupSheds, LetsGoFine DEF Fine
<1>3. q.state \notin Down
  BY <1>1, <1>2 DEF LetsGo
<1>4. o \in NewRequest(r) \/ o \in NewRequest(q)
  BY DEF port_delay_request, port_pdelay_request, a
<1> HIDE DEF q
<1>5. q \in PortRec
  BY <1>2 DEF Fine, Good
<1>6. /\ r \in PortRec /\ r.pool = q.pool /\ r.total = q.total /\ r.refcnt = q.refcnt
      /\ r.body = q.body /\ r.syfu = q.syfu /\ r.last_syncfup = q.last_syncfup
      /\ r.delay_req = q.delay_req /\ r.peer_delay_req = q.peer_delay_req
      /\ r.peer_delay_resp = q.peer_delay_resp /\ r.peer_delay_fup = q.peer_delay_fup
      /\ r.state = q.state
  BY <1>5 DEF PortRec
<1> HIDE DEF r
<1>7. Fine(r, w)
  <2>1. LetsGo(q, r, w)
    BY <1>2, <1>6, ShedsNothing DEF LetsGo, Fine
  <2> QED BY <2>1, <1>2, LetsGoFine
<1> QED BY <1>2, <1>3, <1>4, <1>6, <1>7, NewRequestFine

----------------------------------------------------------------------------
(* Answers to requests.                                                    *)

(* The first position a test holds at, if there is one.                    *)
LEMMA AnsweredIs ==
  ASSUME NEW p \in PortRec, NEW c, Answered(p, c) # 0
  PROVE  Answered(p, c) \in 1 .. Len(p.delay_req)
<1> DEFINE S == {i \in 1 .. Len(p.delay_req) : p.body[p.delay_req[i]].seq = p.body[c].seq}
<1>1. Answered(p, c) = IF S # {} THEN CHOOSE x \in S : \A y \in S : x <= y ELSE 0
  BY Zenon DEF Answered, SelectInSeq, Min
<1>2. S # {}
  BY <1>1
<1>3. S \in SUBSET Nat
  BY DEF PortRec
<1> HIDE DEF S
<1>4. \E x \in S : \A y \in S : x <= y
  BY <1>2, <1>3, Least
<1>5. Answered(p, c) \in S
  BY <1>1, <1>2, <1>4
<1> QED BY <1>5 DEF S

(* A list without one of its entries.                                      *)
LEMMA RemovedFromList ==
  ASSUME NEW list \in Seq(Msgs), Distinct(list), NEW i \in 1 .. Len(list)
  PROVE  LET rest == RemoveAt(list, i)
         IN  /\ rest \in Seq(Msgs) /\ Distinct(rest)
             /\ \A c \in Msgs : In(rest, c) <=> In(list, c) /\ c # list[i]
<1> DEFINE a == SubSeq(list, 1, i - 1)
           b == SubSeq(list, i + 1, Len(list))
           rest == a \o b
           n == Len(list)
<1>1. n \in Nat /\ i \in 1 .. n /\ i - 1 \in 0 .. n
  OBVIOUS
<1>2. a \in Seq(Msgs) /\ Len(a) = i - 1 /\ \A j \in 1 .. i - 1 : a[j] = list[j]
  BY <1>1
<1>3. b \in Seq(Msgs) /\ Len(b) = n - i /\ \A j \in 1 .. n - i : b[j] = list[i + j]
  <2>1. CASE i = n
    BY <1>1, <2>1
  <2>2. CASE i # n
    BY <1>1, <2>2
  <2> QED BY <2>1, <2>2
<1> HIDE DEF a, b
<1>4. /\ rest \in Seq(Msgs) /\ Len(rest) = n - 1
      /\ \A j \in 1 .. n - 1 : rest[j] = IF j < i THEN list[j] ELSE list[j + 1]
  <2>1. rest \in Seq(Msgs) /\ Len(rest) = n - 1
    <3>a. a \in Seq(Msgs) /\ b \in Seq(Msgs)
      BY <1>2, <1>3
    <3>1. rest \in Seq(Msgs) /\ Len(rest) = Len(a) + Len(b)
      BY <3>a
    <3>2. (i - 1) + (n - i) = n - 1
      BY <1>1
    <3> QED BY <3>1, <3>2, <1>2, <1>3
  <2>2. ASSUME NEW j \in 1 .. n - 1, j < i PROVE rest[j] = list[j]
    <3>1. j \in 1 .. i - 1
      BY <1>1, <2>2
    <3> QED BY <3>1, <1>1, <1>2, <1>3
  <2>3. ASSUME NEW j \in 1 .. n - 1, ~(j < i) PROVE rest[j] = list[j + 1]
    <3>1. j - (i - 1) \in 1 .. n - i /\ i + (j - (i - 1)) = j + 1
      BY <1>1, <2>3
    <3>2. rest[j] = b[j - (i - 1)]
      BY <3>1, <1>1, <1>2, <1>3, <2>3
    <3> QED BY <3>1, <3>2, <1>3
  <2> QED BY <2>1, <2>2, <2>3
<1> HIDE DEF rest, n
<1>5. n = Len(list)
  BY DEF n
<1>6. ASSUME NEW j \in 1 .. n - 1
      PROVE  LET k == IF j < i THEN j ELSE j + 1
             IN  k \in 1 .. n /\ k # i /\ rest[j] = list[k]
  <2>1. CASE j < i
    BY <2>1, <1>1, <1>4
  <2>2. CASE ~(j < i)
    <3>1. j + 1 \in 1 .. n /\ j + 1 # i
      BY <2>2, <1>1
    <3>2. rest[j] = list[j + 1]
      BY <2>2, <1>4
    <3> QED BY <3>1, <3>2, <2>2
  <2> QED BY <2>1, <2>2
<1>7. Distinct(rest)
  <2> SUFFICES ASSUME NEW j \in 1 .. n - 1, NEW k \in 1 .. n - 1, rest[j] = rest[k]
               PROVE  j = k
    BY <1>4 DEF Distinct
  <2> DEFINE jj == IF j < i THEN j ELSE j + 1
             kk == IF k < i THEN k ELSE k + 1
  <2>1. jj \in 1 .. n /\ kk \in 1 .. n /\ list[jj] = list[kk]
    BY <1>6
  <2>2. jj = kk
    <3> HIDE DEF jj, kk
    <3> QED BY <2>1, <1>5 DEF Distinct
  <2> QED BY <2>2, <1>1
<1>8. ASSUME NEW c \in Msgs PROVE In(rest, c) <=> In(list, c) /\ c # list[i]
  <2>1. ASSUME NEW j \in 1 .. n - 1, rest[j] = c PROVE In(list, c) /\ c # list[i]
    <3> DEFINE k == IF j < i THEN j ELSE j + 1
    <3>1. k \in 1 .. n /\ k # i /\ list[k] = c
      BY <1>6, <2>1
    <3> HIDE DEF k
    <3> QED BY <3>1, <1>1, <1>5 DEF In, Distinct
  <2>2. ASSUME NEW k \in 1 .. n, list[k] = c, c # list[i] PROVE \E j \in 1 .. n - 1 : rest[j] = c
    <3>1. CASE k < i
      <4>1. k \in 1 .. n - 1
        BY <3>1, <1>1
      <4> QED BY <4>1, <3>1, <2>2, <1>4
    <3>2. CASE ~(k < i)
      <4>1. k - 1 \in 1 .. n - 1 /\ ~(k - 1 < i) /\ (k - 1) + 1 = k
        BY <3>2, <2>2, <1>1
      <4> QED BY <4>1, <2>2, <1>4
    <3> QED BY <3>1, <3>2
  <2> QED BY <2>1, <2>2, <1>4, <1>5 DEF In
<1> QED BY <1>4, <1>7, <1>8 DEF RemoveAt, rest, a, b, n

(* portMsgProDelayResp releases the request that is answered.              *)
LEMMA ProDelayRespFine ==
  ASSUME NEW p, NEW c, Handling(p, c)
  PROVE  Fine(portMsgProDelayResp(p, c), One(c))
<1> DEFINE w == One(c)
           i == Answered(p, c)
           d == p.delay_req[i]
           r == msg_put(p, d)
           rest == RemoveAt(p.delay_req, i)
           q == [r EXCEPT !.delay_req = rest]
<1>0. Good(p, w) /\ p \in PortRec
  BY DEF Handling, Fine, Good
<1>1. CASE ~FromParent(p, c) \/ i = 0
  BY <1>1 DEF portMsgProDelayResp, Handling
<1>2. CASE FromParent(p, c) /\ i # 0
  <2>1. i \in 1 .. Len(p.delay_req)
    BY <1>0, <1>2, AnsweredIs
  <2> HIDE DEF i
  <2>2. p.delay_req \in Seq(Msgs) /\ Distinct(p.delay_req)
    BY <1>0 DEF Good, PortRec
  <2>3. d \in Msgs /\ Waits(p, d)
    BY <2>1, <2>2 DEF Waits
  <2>4. rest \in Seq(Msgs) /\ Distinct(rest)
        /\ \A e \in Msgs : In(rest, e) <=> In(p.delay_req, e) /\ e # d
    BY <2>1, <2>2, RemovedFromList
  <2>5. Pointers(p, d) > 0
    BY <2>3 DEF Pointers
  <2> HIDE DEF rest, d, w
  <2>6. r \in PortRec /\ SameRest(p, r)
    <3>1. Counts(p, Owned(p, w)) /\ IsPool(p)
      BY <1>0, PortIsPool DEF Good
    <3>2. Owned(p, w)[d] > 0
      BY <1>0, <2>3, <2>5 DEF Owned, Good, Pointers
    <3> QED BY <1>0, <2>3, <3>1, <3>2, PutAfter, AfterIsPort
  <2> HIDE DEF r
  <2>7. /\ q \in PortRec /\ q.pool = r.pool /\ q.total = r.total /\ q.refcnt = r.refcnt
        /\ q.body = r.body /\ q.syfu = p.syfu /\ q.last_syncfup = p.last_syncfup
        /\ q.delay_req = rest /\ q.peer_delay_req = p.peer_delay_req
        /\ q.peer_delay_resp = p.peer_delay_resp /\ q.peer_delay_fup = p.peer_delay_fup
        /\ q.state = p.state
    BY <2>4, <2>6 DEF PortRec, SameRest
  <2> HIDE DEF q
  <2>8. \A e \in Msgs : (Waits(q, e) <=> Waits(p, e) /\ e # d) /\ (HalfKept(q, e) <=> HalfKept(p, e))
    BY <2>4, <2>7 DEF Waits, In, HalfKept
  <2>9. Fewer(p, q)
    BY <2>4, <2>7, <2>8 DEF Fewer
  <2>10. OneLess(p, q, d)
    <3>1. Pointers(q, d) = Pointers(p, d) - 1
      BY <2>3, <2>7, <2>8 DEF Pointers
    <3>2. \A e \in Msgs \ {d} : Pointers(q, e) = Pointers(p, e)
      BY <2>7, <2>8 DEF Pointers
    <3> QED BY <3>1, <3>2 DEF OneLess
  <2>11. r = msg_put(p, d)
    BY DEF r
  <2>12. LetsGo(p, q, w)
    BY <1>0, <2>3, <2>5, <2>7, <2>9, <2>10, <2>11, ShedsOne DEF LetsGo
  <2>13. Fine(q, w)
    BY <2>12, LetsGoFine DEF Handling, w
  <2>14. portMsgProDelayResp(p, c) = [r EXCEPT !.delay_req = RemoveAt(@, i)]
    BY <1>2 DEF portMsgProDelayResp, r, d, i
  <2>15. [r EXCEPT !.delay_req = RemoveAt(@, i)] = q
    BY <2>6 DEF q, rest, SameRest
  <2> QED BY <2>13, <2>14, <2>15 DEF w
<1> QED BY <1>1, <1>2

(* What a handler may end with: the port, and that it failed or not.       *)
Outcome(o, w) == \E q : Fine(q, w) /\ o \in {Fault(q), Quiet(q)}

(* The handler makes a message.                                            *)
LEMMA MakeFine ==
  ASSUME NEW w, NEW p, Fine(p, w), CanAllocate(p), NEW m \in Bodies
  PROVE  LET c == Allocated(p)
             q == msg_allocate(p, m)
         IN  /\ c \in Msgs /\ w[c] = 0 /\ Pointers(q, c) = 0
             /\ Fine(q, [w EXCEPT ![c] = 1]) /\ q.state = p.state
<1> DEFINE c == Allocated(p)
           q == msg_allocate(p, m)
           v == [w EXCEPT ![c] = 1]
<1>1. c \in Msgs /\ w[c] = 0 /\ Pointers(p, c) = 0 /\ Turns(p, q, v)
  BY AllocateTurns DEF Fine
<1> HIDE DEF c, q, v
<1>2. Fine(q, v) /\ q.state = p.state /\ Pointers(q, c) = 0
  BY <1>1, TurnsFine
<1> QED BY <1>1, <1>2 DEF c, q, v

(* An answer, an Announce.                                                 *)
LEMMA AnswerFine ==
  ASSUME NEW w, NEW p, Fine(p, w), NEW o \in Answer(p)
  PROVE  Outcome(o, w)
<1>1. CASE ~CanAllocate(p)
  BY <1>1 DEF Answer, Outcome
<1>2. CASE CanAllocate(p)
  <2> DEFINE q == msg_put(msg_allocate(p, Other), Allocated(p))
  <2>1. o \in {Fault(q), Quiet(q)}
    BY <1>2 DEF Answer
  <2>2. Other \in Bodies
    BY DEF Bodies
  <2>3. LetsGo(p, q, w)
    BY <1>2, <2>2, MadeAndReleased DEF Fine
  <2> HIDE DEF q
  <2>4. Fine(q, w)
    BY <2>3, LetsGoFine
  <2> QED BY <2>1, <2>4 DEF Outcome
<1> QED BY <1>1, <1>2

(* Two more and two less is none.                                          *)
LEMMA TwoMoreAndLess ==
  ASSUME NEW w \in [Msgs -> Nat], NEW c \in Msgs, NEW d \in Msgs, w[c] = 0, w[d] = 0, c # d,
         NEW v, v = [w EXCEPT ![c] = 1], NEW u, u = [v EXCEPT ![d] = 1],
         NEW x, x = [u EXCEPT ![c] = @ - 1], NEW y, y = [x EXCEPT ![d] = @ - 1]
  PROVE  u[c] = 1 /\ x[d] = 1 /\ y = w
<1>0. v \in [Msgs -> Nat] /\ v[c] = 1 /\ \A e \in Msgs \ {c} : v[e] = w[e]
  OBVIOUS
<1>1. u \in [Msgs -> Nat] /\ u[d] = 1 /\ \A e \in Msgs \ {d} : u[e] = v[e]
  BY <1>0
<1>2. x \in [Msgs -> Nat] /\ x[c] = 0 /\ \A e \in Msgs \ {c} : x[e] = u[e]
  BY <1>0, <1>1
<1>3. y \in [Msgs -> Nat] /\ y[d] = 0 /\ \A e \in Msgs \ {d} : y[e] = x[e]
  BY <1>1, <1>2
<1>4. ASSUME NEW e \in Msgs PROVE y[e] = w[e]
  <2>1. CASE e = d
    BY <2>1, <1>3
  <2>2. CASE e = c
    BY <2>2, <1>2, <1>3
  <2>3. CASE e # c /\ e # d
    BY <2>3, <1>0, <1>1, <1>2, <1>3
  <2> QED BY <2>1, <2>2, <2>3
<1>5. y = [e \in Msgs |-> y[e]] /\ w = [e \in Msgs |-> w[e]]
  BY <1>3
<1>6. y = w
  BY <1>4, <1>5
<1> QED BY <1>0, <1>1, <1>2, <1>6

(* An answer with its Follow_Up, a Sync with its.                          *)
LEMMA AnswerTwiceFine ==
  ASSUME NEW w, NEW p, Fine(p, w), NEW o \in AnswerTwice(p)
  PROVE  Outcome(o, w)
<1> DEFINE q == msg_allocate(p, Other)
           c == Allocated(p)
           d == Allocated(q)
           s == msg_allocate(q, Other)
           t == msg_put(s, c)
           r == msg_put(t, d)
           v == [w EXCEPT ![c] = 1]
           u == [v EXCEPT ![d] = 1]
<1>0. Other \in Bodies /\ w \in [Msgs -> Nat]
  BY DEF Bodies, Fine, Good
<1>1. CASE ~CanAllocate(p)
  BY <1>1 DEF AnswerTwice, Outcome
<1>2. CASE CanAllocate(p)
  <2>1. c \in Msgs /\ w[c] = 0 /\ Fine(q, v)
    BY <1>0, <1>2, MakeFine
  <2>2. v = [w EXCEPT ![c] = 1]
    OBVIOUS
  <2>3. o \in IF CanAllocate(q) THEN {Fault(r), Quiet(r)} ELSE {Fault(msg_put(q, c))}
    BY <1>2 DEF AnswerTwice
  <2> HIDE DEF q, c
  <2>4. CASE ~CanAllocate(q)
    <3> HIDE DEF v
    <3>1. w = [v EXCEPT ![c] = @ - 1] /\ v[c] = 1
      BY <1>0, <2>1, <2>2, MoreAndLess
    <3>2. v[c] > 0
      BY <3>1
    <3>3. Fine(msg_put(q, c), w)
      BY <2>1, <3>1, <3>2, PutFine
    <3> QED BY <2>3, <2>4, <3>3 DEF Outcome
  <2>5. CASE CanAllocate(q)
    <3>a. u = [v EXCEPT ![d] = 1]
      OBVIOUS
    <3> HIDE DEF v
    <3>1. d \in Msgs /\ v[d] = 0 /\ Fine(s, u)
      BY <1>0, <2>1, <2>5, MakeFine
    <3> HIDE DEF s, d, u
    <3>2. c # d /\ w[d] = 0
      BY <1>0, <2>1, <2>2, <3>1
    <3> DEFINE x == [u EXCEPT ![c] = @ - 1]
               y == [x EXCEPT ![d] = @ - 1]
    <3>5. x = [u EXCEPT ![c] = @ - 1] /\ y = [x EXCEPT ![d] = @ - 1]
      OBVIOUS
    <3> HIDE DEF x, y
    <3>3. u[c] = 1 /\ x[d] = 1 /\ y = w
      BY <1>0, <2>1, <2>2, <3>a, <3>1, <3>2, <3>5, TwoMoreAndLess
    <3>4. u[c] > 0 /\ x[d] > 0
      BY <3>3
    <3>6. Fine(t, x)
      BY <2>1, <3>1, <3>4, <3>5, PutFine
    <3> HIDE DEF t
    <3>7. Fine(r, y)
      BY <3>1, <3>4, <3>5, <3>6, PutFine
    <3> QED BY <2>3, <2>5, <3>3, <3>7 DEF Outcome
  <2> QED BY <2>4, <2>5
<1> QED BY <1>1, <1>2

(* portMsgProDelayReq and portMsgProPDelayReq.                             *)
LEMMA ProRequestFine ==
  ASSUME NEW w, NEW p, Fine(p, w), NEW o \in portMsgProDelayReq(p) \cup portMsgProPDelayReq(p)
  PROVE  Outcome(o, w)
<1> DEFINE q == [p EXCEPT !.mechanism = "P2P"]
<1>1. p \in PortRec
  BY DEF Fine, Good
<1>2. /\ q \in PortRec /\ q.pool = p.pool /\ q.total = p.total /\ q.refcnt = p.refcnt
      /\ q.body = p.body /\ q.syfu = p.syfu /\ q.last_syncfup = p.last_syncfup
      /\ q.delay_req = p.delay_req /\ q.peer_delay_req = p.peer_delay_req
      /\ q.peer_delay_resp = p.peer_delay_resp /\ q.peer_delay_fup = p.peer_delay_fup
      /\ q.state = p.state
  BY <1>1 DEF PortRec, Mechanisms
<1>3. o \in Answer(p) \/ o = Quiet(p) \/ o \in AnswerTwice(q)
  BY DEF portMsgProDelayReq, portMsgProPDelayReq
<1> HIDE DEF q
<1>4. Fine(q, w)
  <2>1. LetsGo(p, q, w)
    BY <1>2, ShedsNothing DEF LetsGo, Fine
  <2> QED BY <2>1, LetsGoFine
<1>5. CASE o = Quiet(p)
  BY <1>5 DEF Outcome
<1> QED BY <1>3, <1>4, <1>5, AnswerFine, AnswerTwiceFine

----------------------------------------------------------------------------
(* The peer delay exchange.                                                *)

(* port_peer_delay releases the request that is answered, if at all.       *)
LEMMA PeerDelayFine ==
  ASSUME NEW w, NEW p, Fine(p, w)
  PROVE  \A r \in port_peer_delay(p) : Fine(r, w)
<1>1. port_peer_delay(p) \subseteq {p, Release(p, "peer_delay_req")}
  BY DEF port_peer_delay
<1>2. Fine(Release(p, "peer_delay_req"), w)
  BY ReleaseReqSheds, LetsGoFine DEF Fine
<1> QED BY <1>1, <1>2

(* Replaced, for peer_delay_resp.                                          *)
LEMMA ReplacedRespFine ==
  ASSUME NEW p, NEW c, Handling(p, c)
  PROVE  Fine(Replaced(p, "peer_delay_resp", c), One(c))
<1> DEFINE w == One(c)
           a == Release(p, "peer_delay_resp")
           b == msg_get(a, c)
           v == [w EXCEPT ![c] = @ + 1]
           q == [b EXCEPT !.peer_delay_resp = c]
<1>0. c \in Msgs /\ w[c] = 1 /\ Good(p, w) /\ Null \notin Msgs
  BY PoolConfig DEF Handling, One, Fine, Msgs
<1>1. Handling(a, c) /\ a.peer_delay_resp = Null
  BY <1>0, ReleaseRespSheds, LetsGoHandling
<1> HIDE DEF a
<1>2. Turns(a, b, v)
  BY <1>0, <1>1, GetTurns DEF Handling, Fine
<1>3. v[c] = 2 /\ w = [v EXCEPT ![c] = @ - 1]
  BY <1>0, OneMore
<1> HIDE DEF b, v, w
<1>4. Good(b, v) /\ SameRest(a, b) /\ Clean(b) /\ b \in PortRec
  BY <1>1, <1>2 DEF Turns, Handling, Fine, Good
<1>5. /\ q \in PortRec /\ q.pool = b.pool /\ q.total = b.total /\ q.refcnt = b.refcnt
      /\ q.body = b.body /\ q.syfu = b.syfu /\ q.last_syncfup = b.last_syncfup
      /\ q.delay_req = b.delay_req /\ q.peer_delay_req = b.peer_delay_req
      /\ q.peer_delay_resp = c /\ q.peer_delay_fup = b.peer_delay_fup /\ q.state = b.state
  BY <1>0, <1>4 DEF PortRec
<1> HIDE DEF q
<1>6. \A d \in Msgs : (HalfKept(q, d) <=> HalfKept(b, d)) /\ (Waits(q, d) <=> Waits(b, d))
  BY <1>5 DEF HalfKept, Waits
<1>7. b.peer_delay_resp = Null
  BY <1>1, <1>4 DEF SameRest
<1>8. Pointers(b, c) = 0
  BY <1>1, <1>4, SamePointers DEF Handling
<1>9. Pointers(q, c) = 1 /\ \A d \in Msgs \ {c} : Pointers(q, d) = Pointers(b, d)
  BY <1>0, <1>5, <1>6, <1>7, <1>8 DEF Pointers
<1>10. Good(q, w)
  <2>1. q.syfu # "EMPTY" => q.last_syncfup \in Msgs
    BY <1>4, <1>5 DEF Good
  <2>2. Distinct(q.delay_req)
    BY <1>4, <1>5 DEF Good
  <2>3. v[c] > 0
    BY <1>3
  <2> QED BY <1>0, <1>3, <1>4, <1>5, <1>8, <1>9, <2>1, <2>2, <2>3, Takes
<1>11. Clean(q)
  BY <1>4, <1>5 DEF Clean
<1>12. DownEmpty(q)
  BY <1>1, <1>4, <1>5 DEF DownEmpty, Handling, SameRest
<1> QED BY <1>10, <1>11, <1>12 DEF Fine, Replaced, q, b, a, w

(* Replaced, for peer_delay_fup.                                           *)
LEMMA ReplacedFupFine ==
  ASSUME NEW p, NEW c, Handling(p, c)
  PROVE  Fine(Replaced(p, "peer_delay_fup", c), One(c))
<1> DEFINE w == One(c)
           a == Release(p, "peer_delay_fup")
           b == msg_get(a, c)
           v == [w EXCEPT ![c] = @ + 1]
           q == [b EXCEPT !.peer_delay_fup = c]
<1>0. c \in Msgs /\ w[c] = 1 /\ Good(p, w) /\ Null \notin Msgs
  BY PoolConfig DEF Handling, One, Fine, Msgs
<1>1. Handling(a, c) /\ a.peer_delay_fup = Null
  BY <1>0, ReleaseFupSheds, LetsGoHandling
<1> HIDE DEF a
<1>2. Turns(a, b, v)
  BY <1>0, <1>1, GetTurns DEF Handling, Fine
<1>3. v[c] = 2 /\ w = [v EXCEPT ![c] = @ - 1]
  BY <1>0, OneMore
<1> HIDE DEF b, v, w
<1>4. Good(b, v) /\ SameRest(a, b) /\ Clean(b) /\ b \in PortRec
  BY <1>1, <1>2 DEF Turns, Handling, Fine, Good
<1>5. /\ q \in PortRec /\ q.pool = b.pool /\ q.total = b.total /\ q.refcnt = b.refcnt
      /\ q.body = b.body /\ q.syfu = b.syfu /\ q.last_syncfup = b.last_syncfup
      /\ q.delay_req = b.delay_req /\ q.peer_delay_req = b.peer_delay_req
      /\ q.peer_delay_fup = c /\ q.peer_delay_resp = b.peer_delay_resp /\ q.state = b.state
  BY <1>0, <1>4 DEF PortRec
<1> HIDE DEF q
<1>6. \A d \in Msgs : (HalfKept(q, d) <=> HalfKept(b, d)) /\ (Waits(q, d) <=> Waits(b, d))
  BY <1>5 DEF HalfKept, Waits
<1>7. b.peer_delay_fup = Null
  BY <1>1, <1>4 DEF SameRest
<1>8. Pointers(b, c) = 0
  BY <1>1, <1>4, SamePointers DEF Handling
<1>9. Pointers(q, c) = 1 /\ \A d \in Msgs \ {c} : Pointers(q, d) = Pointers(b, d)
  BY <1>0, <1>5, <1>6, <1>7, <1>8 DEF Pointers
<1>10. Good(q, w)
  <2>1. q.syfu # "EMPTY" => q.last_syncfup \in Msgs
    BY <1>4, <1>5 DEF Good
  <2>2. Distinct(q.delay_req)
    BY <1>4, <1>5 DEF Good
  <2>3. v[c] > 0
    BY <1>3
  <2> QED BY <1>0, <1>3, <1>4, <1>5, <1>8, <1>9, <2>1, <2>2, <2>3, Takes
<1>11. Clean(q)
  BY <1>4, <1>5 DEF Clean
<1>12. DownEmpty(q)
  BY <1>1, <1>4, <1>5 DEF DownEmpty, Handling, SameRest
<1> QED BY <1>10, <1>11, <1>12 DEF Fine, Replaced, q, b, a, w

(* portMsgProPDelayResp.                                                   *)
LEMMA ProPDelayRespFine ==
  ASSUME NEW p, NEW c, Handling(p, c)
  PROVE  \A o \in portMsgProPDelayResp(p, c) : Outcome(o, One(c))
<1> DEFINE w == One(c)
           q == Counted(p, c)
           r == [q EXCEPT !.lastFault = "BAD_PEER_NETWORK"]
<1>1. p \in PortRec /\ Good(p, w)
  BY DEF Handling, Fine, Good
<1>2. /\ q \in PortRec /\ q.pool = p.pool /\ q.total = p.total /\ q.refcnt = p.refcnt
      /\ q.body = p.body /\ q.syfu = p.syfu /\ q.last_syncfup = p.last_syncfup
      /\ q.delay_req = p.delay_req /\ q.peer_delay_req = p.peer_delay_req
      /\ q.peer_delay_resp = p.peer_delay_resp /\ q.peer_delay_fup = p.peer_delay_fup
      /\ q.state = p.state
  <2>1. CASE SecondPeer(p, c) /\ ~p.multiple_pdr_detected
    <3>1. p.multiple_seq_pdr_count + 1 \in Nat
      BY <1>1 DEF PortRec
    <3>2. q = [p EXCEPT !.multiple_pdr_detected = TRUE,
                        !.multiple_seq_pdr_count = p.multiple_seq_pdr_count + 1]
      BY <1>1, <2>1 DEF Counted, PortRec
    <3> QED BY <1>1, <3>1, <3>2 DEF PortRec
  <2>2. CASE ~(SecondPeer(p, c) /\ ~p.multiple_pdr_detected)
    BY <1>1, <2>2 DEF Counted
  <2> QED BY <2>1, <2>2
<1> HIDE DEF q, w
<1>3. /\ r \in PortRec /\ r.pool = q.pool /\ r.total = q.total /\ r.refcnt = q.refcnt
      /\ r.body = q.body /\ r.syfu = q.syfu /\ r.last_syncfup = q.last_syncfup
      /\ r.delay_req = q.delay_req /\ r.peer_delay_req = q.peer_delay_req
      /\ r.peer_delay_resp = q.peer_delay_resp /\ r.peer_delay_fup = q.peer_delay_fup
      /\ r.state = q.state
  BY <1>2 DEF PortRec, FaultTypes
<1> HIDE DEF r
<1>4. LetsGo(p, q, w)
  BY <1>1, <1>2, ShedsNothing DEF LetsGo
<1>5. Handling(q, c)
  BY <1>4, LetsGoHandling DEF w
<1>6. Fine(q, w) /\ Good(q, w)
  BY <1>5 DEF Handling, Fine, w
<1>7. Fine(r, w)
  <2>1. LetsGo(q, r, w)
    BY <1>3, <1>6, ShedsNothing DEF LetsGo
  <2> QED BY <2>1, <1>6, LetsGoFine
<1>8. \A s \in port_peer_delay(Replaced(q, "peer_delay_resp", c)) : Fine(s, w)
  BY <1>5, ReplacedRespFine, PeerDelayFine DEF w
<1>9. portMsgProPDelayResp(p, c) \in
        { {Fault(r)}, {Fault(q)},
          { Quiet(s) : s \in port_peer_delay(Replaced(q, "peer_delay_resp", c)) } }
  BY DEF portMsgProPDelayResp, q, r
<1> QED BY <1>6, <1>7, <1>8, <1>9 DEF Outcome, w

(* portMsgProPDelayRespFollowUp.                                           *)
LEMMA ProPDelayFupFine ==
  ASSUME NEW p, NEW c, Handling(p, c)
  PROVE  \A r \in portMsgProPDelayRespFollowUp(p, c) : Fine(r, One(c))
<1>1. \A r \in port_peer_delay(Replaced(p, "peer_delay_fup", c)) : Fine(r, One(c))
  BY ReplacedFupFine, PeerDelayFine
<1>2. Fine(p, One(c))
  BY DEF Handling
<1> QED BY <1>1, <1>2 DEF portMsgProPDelayRespFollowUp

----------------------------------------------------------------------------
(* Between two events.                                                     *)

None == [c \in Msgs |-> 0]

(* The inductive invariant: nobody but the port owns messages.             *)
IInv == Fine(port, None) /\ parent \in Masters

(* One message more than none is one.                                      *)
LEMMA NoneAndOne ==
  ASSUME NEW c \in Msgs
  PROVE  [None EXCEPT ![c] = 1] = One(c) /\ None = [One(c) EXCEPT ![c] = @ - 1] /\ One(c)[c] > 0
<1> DEFINE x == [None EXCEPT ![c] = 1]
           y == [One(c) EXCEPT ![c] = @ - 1]
<1>1. None \in [Msgs -> Nat] /\ \A d \in Msgs : None[d] = 0
  BY DEF None
<1>2. One(c) \in [Msgs -> Nat] /\ One(c)[c] = 1 /\ \A d \in Msgs \ {c} : One(c)[d] = 0
  BY DEF One
<1>3. x \in [Msgs -> Nat] /\ x[c] = 1 /\ \A d \in Msgs \ {c} : x[d] = 0
  BY <1>1
<1>4. y \in [Msgs -> Nat] /\ y[c] = 0 /\ \A d \in Msgs \ {c} : y[d] = 0
  BY <1>2
<1> HIDE DEF x, y
<1>5. x = [d \in Msgs |-> x[d]] /\ y = [d \in Msgs |-> y[d]]
      /\ None = [d \in Msgs |-> None[d]] /\ One(c) = [d \in Msgs |-> One(c)[d]]
  BY <1>1, <1>2, <1>3, <1>4
<1>6. \A d \in Msgs : x[d] = One(c)[d] /\ y[d] = None[d]
  BY <1>1, <1>2, <1>3, <1>4
<1>7. x = One(c) /\ y = None
  BY <1>5, <1>6
<1> QED BY <1>2, <1>7 DEF x, y

(* The message that comes in is the handler's.                             *)
LEMMA DeliveredHandling ==
  ASSUME IInv, portIsEnabled(port.state), CanAllocate(port), NEW m \in Bodies
  PROVE  Handling(Delivered(m), Fresh)
<1> DEFINE c == Allocated(port)
           q == msg_allocate(port, m)
<1>1. c \in Msgs /\ Pointers(q, c) = 0 /\ Fine(q, [None EXCEPT ![c] = 1]) /\ q.state = port.state
  BY MakeFine DEF IInv
<1> HIDE DEF q, c
<1>2. Fine(q, One(c))
  BY <1>1, NoneAndOne
<1> QED BY <1>1, <1>2 DEF Handling, Delivered, Fresh, portIsEnabled, q, c

(* Where a message's handler ends.                                         *)
LEMMA ReceivesFine ==
  ASSUME IInv, NEW outcomes, Receives(outcomes),
         CanAllocate(port) => \A o \in outcomes : Outcome(o, One(Fresh))
  PROVE  IInv'
<1>1. CASE ~CanAllocate(port)
  <2>a. Ends({Fault(port)})
    BY <1>1 DEF Receives
  <2>b. Fault(port).port = port
    BY DEF Fault
  <2>1. \E e : port' \in Dispatched(port, e, FALSE)
    BY <2>a, <2>b DEF Ends
  <2>2. Fine(port', None)
    BY <2>1, DispatchedFine DEF IInv
  <2> QED BY <2>2 DEF IInv, Receives, None, Msgs
<1>2. CASE CanAllocate(port)
  <2>1. PICK o \in outcomes :
          LET r == [o EXCEPT !.port = msg_put(@, Fresh)]
          IN  port' \in Dispatched(r.port, r.event, FALSE)
    BY <1>2 DEF Receives, Ends
  <2>2. PICK q : Fine(q, One(Fresh)) /\ o \in {Fault(q), Quiet(q)}
    BY <1>2 DEF Outcome
  <2>3. [o EXCEPT !.port = msg_put(@, Fresh)].port = msg_put(q, Fresh)
    BY <2>2 DEF Fault, Quiet
  <2>4. Fresh \in Msgs
    <3>1. Other \in Bodies
      BY DEF Bodies
    <3> QED BY <1>2, <3>1, MakeFine DEF IInv, Fresh
  <2>a. None = [One(Fresh) EXCEPT ![Fresh] = @ - 1] /\ One(Fresh)[Fresh] > 0
    BY <2>4, NoneAndOne
  <2>5. Fine(msg_put(q, Fresh), None)
    BY <2>2, <2>4, <2>a, PutFine
  <2>6. Fine(port', None)
    BY <2>1, <2>3, <2>5, DispatchedFine
  <2> QED BY <2>6 DEF IInv, Receives, None, Msgs
<1> QED BY <1>1, <1>2

(* A message of the network says what one may say.                         *)
LEMMA NetworkMessage ==
  ASSUME NEW kind \in {"SYNC", "FOLLOW_UP", "DELAY_RESP", "PDELAY_RESP", "PDELAY_FUP"},
         NEW seq \in SeqIds, NEW from \in Masters \cup Peers, NEW os \in BOOLEAN,
         IInv, portIsEnabled(port.state), CanAllocate(port)
  PROVE  Handling(Message(kind, seq, from, os), Fresh)
<1>1. [kind |-> kind, seq |-> seq, from |-> from, oneStep |-> os] \in Bodies
  BY DEF Bodies, Received
<1> QED BY <1>1, DeliveredHandling DEF Message

(* Initially the port has no message.                                      *)
LEMMA InitIInv == Init => IInv
<1> SUFFICES ASSUME Init PROVE IInv
  OBVIOUS
<1>1. port \in PortRec
  BY PoolConfig, MessagesConfig
     DEF Init, PortRec, NoRefs, NoBodies, States, FaultTypes, SeqIds
<1>2. Null \notin Msgs
  BY PoolConfig DEF Msgs
<1>3. \A c \in Msgs : Pointers(port, c) = 0
  BY <1>2 DEF Init, Pointers, Waits, HalfKept
<1>4. None \in [Msgs -> Nat] /\ Owned(port, None) \in [Msgs -> Nat]
      /\ \A c \in Msgs : Owned(port, None)[c] = 0
  BY <1>3 DEF None, Owned
<1>5. Counts(port, Owned(port, None))
  <2>1. Len(port.pool) = 0 /\ port.total = 0
    BY DEF Init
  <2> HIDE DEF Owned
  <2> QED BY <1>4, <2>1 DEF Counts, InPool
<1>6. Len(port.delay_req) = 0 /\ port.peer_delay_req = Null /\ port.syfu = "EMPTY"
  BY DEF Init
<1>7. Good(port, None)
  BY <1>1, <1>3, <1>4, <1>5, <1>6 DEF Good, Distinct
<1>8. \A i \in 1 .. Len(port.delay_req) : FALSE
  BY <1>6
<1>9. Clean(port)
  BY <1>6, <1>8 DEF Clean
<1>10. DownEmpty(port)
  BY <1>3 DEF DownEmpty, HoldsNothing
<1> QED BY <1>7, <1>9, <1>10 DEF IInv, Fine, Init

(* Every event keeps the invariant.                                        *)
LEMMA NextIInv ==
  ASSUME IInv, [Next]_vars
  PROVE  IInv'
<1>1. ASSUME NEW seq \in SeqIds, NEW from \in Masters, ReceiveSync(seq, from)
      PROVE  IInv'
  <2>1. PICK os \in BOOLEAN : Receives(Quietly(portMsgProSync(Message("SYNC", seq, from, os), Fresh)))
    BY <1>1 DEF ReceiveSync
  <2> DEFINE p == Message("SYNC", seq, from, os)
             outcomes == Quietly(portMsgProSync(p, Fresh))
  <2>2. ASSUME CanAllocate(port), NEW o \in outcomes PROVE Outcome(o, One(Fresh))
    <3>1. Handling(p, Fresh)
      BY <2>1, <2>2, NetworkMessage DEF Receives
    <3>2. PICK q \in portMsgProSync(p, Fresh) : o = Quiet(q)
      BY <2>2 DEF Quietly
    <3> HIDE DEF p
    <3> QED BY <3>1, <3>2, ProSyncFine DEF Outcome
  <2>3. Receives(outcomes)
    BY <2>1
  <2> HIDE DEF outcomes
  <2> QED BY <2>2, <2>3, ReceivesFine
<1>2. ASSUME NEW seq \in SeqIds, NEW from \in Masters, ReceiveFollowUp(seq, from)
      PROVE  IInv'
  <2> DEFINE p == Message("FOLLOW_UP", seq, from, FALSE)
             outcomes == Quietly(portMsgProFollowUp(p, Fresh))
  <2>1. Receives(outcomes)
    BY <1>2 DEF ReceiveFollowUp
  <2>2. ASSUME CanAllocate(port), NEW o \in outcomes PROVE Outcome(o, One(Fresh))
    <3>1. Handling(p, Fresh)
      BY <2>1, <2>2, NetworkMessage DEF Receives
    <3>2. PICK q \in portMsgProFollowUp(p, Fresh) : o = Quiet(q)
      BY <2>2 DEF Quietly
    <3> HIDE DEF p
    <3> QED BY <3>1, <3>2, ProFollowUpFine DEF Outcome
  <2> HIDE DEF outcomes
  <2> QED BY <2>1, <2>2, ReceivesFine
<1>3. ASSUME NEW seq \in SeqIds, NEW from \in Masters, ReceiveDelayResp(seq, from)
      PROVE  IInv'
  <2> DEFINE p == Message("DELAY_RESP", seq, from, FALSE)
             outcomes == {Quiet(portMsgProDelayResp(p, Fresh))}
  <2>1. Receives(outcomes)
    BY <1>3 DEF ReceiveDelayResp
  <2>2. ASSUME CanAllocate(port), NEW o \in outcomes PROVE Outcome(o, One(Fresh))
    <3>1. Handling(p, Fresh)
      BY <2>1, <2>2, NetworkMessage DEF Receives
    <3>2. o = Quiet(portMsgProDelayResp(p, Fresh))
      BY <2>2
    <3> HIDE DEF p
    <3> QED BY <3>1, <3>2, ProDelayRespFine DEF Outcome
  <2> HIDE DEF outcomes
  <2> QED BY <2>1, <2>2, ReceivesFine
<1>4. ASSUME NEW seq \in SeqIds, NEW from \in Peers, ReceivePDelayResp(seq, from)
      PROVE  IInv'
  <2>1. PICK os \in BOOLEAN : Receives(portMsgProPDelayResp(Message("PDELAY_RESP", seq, from, os), Fresh))
    BY <1>4 DEF ReceivePDelayResp
  <2> DEFINE p == Message("PDELAY_RESP", seq, from, os)
             outcomes == portMsgProPDelayResp(p, Fresh)
  <2>2. ASSUME CanAllocate(port), NEW o \in outcomes PROVE Outcome(o, One(Fresh))
    <3>1. Handling(p, Fresh)
      BY <2>1, <2>2, NetworkMessage DEF Receives
    <3>2. o \in portMsgProPDelayResp(p, Fresh)
      BY <2>2
    <3> HIDE DEF p
    <3> QED BY <3>1, <3>2, ProPDelayRespFine
  <2>3. Receives(outcomes)
    BY <2>1
  <2> HIDE DEF outcomes
  <2> QED BY <2>2, <2>3, ReceivesFine
<1>5. ASSUME NEW seq \in SeqIds, NEW from \in Peers, ReceivePDelayRespFollowUp(seq, from)
      PROVE  IInv'
  <2> DEFINE p == Message("PDELAY_FUP", seq, from, FALSE)
             outcomes == { Quiet(r) : r \in portMsgProPDelayRespFollowUp(p, Fresh) }
  <2>1. Receives(outcomes)
    BY <1>5 DEF ReceivePDelayRespFollowUp
  <2>2. ASSUME CanAllocate(port), NEW o \in outcomes PROVE Outcome(o, One(Fresh))
    <3>1. Handling(p, Fresh)
      BY <2>1, <2>2, NetworkMessage DEF Receives
    <3>2. PICK r \in portMsgProPDelayRespFollowUp(p, Fresh) : o = Quiet(r)
      BY <2>2
    <3> HIDE DEF p
    <3> QED BY <3>1, <3>2, ProPDelayFupFine DEF Outcome
  <2> HIDE DEF outcomes
  <2> QED BY <2>1, <2>2, ReceivesFine
<1>6. ASSUME NEW outcomes, Receives(outcomes),
             outcomes \in {portMsgProDelayReq(Delivered(Other)), portMsgProPDelayReq(Delivered(Other)),
                           {Quiet(Delivered(Other)), Fault(Delivered(Other))}}
      PROVE  IInv'
  <2>1. ASSUME CanAllocate(port), NEW o \in outcomes PROVE Outcome(o, One(Fresh))
    <3>1. Other \in Bodies
      BY DEF Bodies
    <3>2. Fine(Delivered(Other), One(Fresh))
      BY <1>6, <2>1, <3>1, DeliveredHandling DEF Receives, Handling
    <3>3. CASE o \in {Quiet(Delivered(Other)), Fault(Delivered(Other))}
      BY <3>2, <3>3 DEF Outcome
    <3>4. CASE o \in portMsgProDelayReq(Delivered(Other)) \cup portMsgProPDelayReq(Delivered(Other))
      BY <3>2, <3>4, ProRequestFine
    <3> QED BY <1>6, <2>1, <3>3, <3>4
  <2> QED BY <1>6, <2>1, ReceivesFine
<1>7. ASSUME NEW k \in 0 .. Len(port.delay_req)
      PROVE  Fine(delay_req_prune(port, k), None) /\ delay_req_prune(port, k).state = port.state
  <2>1. LetsGo(port, delay_req_prune(port, k), None)
    BY PruneSheds DEF IInv, Fine
  <2> QED BY <2>1, LetsGoFine DEF IInv, LetsGo
<1>8. ASSUME Fine(port', None), parent' \in Masters
      PROVE  IInv'
  BY <1>8 DEF IInv, None, Msgs
<1>9. CASE DelayTimeout
  <2>1. PICK k \in 0 .. Len(port.delay_req) : Ends(port_delay_request(delay_req_prune(port, k)))
    BY <1>9 DEF DelayTimeout
  <2>2. PICK o \in port_delay_request(delay_req_prune(port, k)) :
          port' \in Dispatched(o.port, o.event, FALSE)
    BY <2>1 DEF Ends
  <2> DEFINE p == delay_req_prune(port, k)
  <2>3. Fine(p, None) /\ p.state \notin Down
    BY <1>7, <1>9 DEF DelayTimeout, portIsEnabled
  <2>4. o \in port_delay_request(p)
    BY <2>2
  <2> HIDE DEF p
  <2>5. Fine(o.port, None)
    BY <2>3, <2>4, DelayRequestFine
  <2>6. Fine(port', None)
    BY <2>2, <2>5, DispatchedFine
  <2> QED BY <1>8, <1>9, <2>6 DEF DelayTimeout, IInv
<1>10. CASE AnnounceTimeout
  <2>1. PICK k \in 0 .. Len(port.delay_req) :
          port' \in Dispatched(delay_req_prune(port, k), "ANNOUNCE_RECEIPT_TIMEOUT_EXPIRES", FALSE)
    BY <1>10 DEF AnnounceTimeout
  <2>2. Fine(port', None)
    BY <1>7, <2>1, DispatchedFine
  <2> QED BY <1>8, <1>10, <2>2 DEF AnnounceTimeout, IInv
<1>11. CASE TransmitTimeout
  <2>1. PICK o \in Answer(port) \cup AnswerTwice(port) : port' \in Dispatched(o.port, o.event, FALSE)
    BY <1>11 DEF TransmitTimeout, Ends
  <2>2. Outcome(o, None)
    BY <2>1, AnswerFine, AnswerTwiceFine DEF IInv
  <2>3. Fine(o.port, None)
    BY <2>2 DEF Outcome, Fault, Quiet
  <2>4. Fine(port', None)
    BY <2>1, <2>3, DispatchedFine
  <2> QED BY <1>8, <1>11, <2>4 DEF TransmitTimeout, IInv
<1>12. ASSUME NEW e \in OtherEvents, OtherEvent(e) PROVE IInv'
  <2>1. Fine(port', None)
    BY <1>12, DispatchedFine DEF OtherEvent, IInv
  <2> QED BY <1>8, <1>12, <2>1 DEF OtherEvent, IInv
<1>13. ASSUME NEW master \in Masters, NEW mdiff \in BOOLEAN, DecideSlave(master, mdiff) PROVE IInv'
  <2>1. Fine(port', None)
    BY <1>13, DispatchedFine DEF DecideSlave, IInv
  <2> QED BY <1>8, <1>13, <2>1 DEF DecideSlave
<1>14. CASE UNCHANGED vars
  BY <1>8, <1>14 DEF vars, IInv
<1>15. CASE ReceiveRequest
  BY <1>6, <1>15 DEF ReceiveRequest
<1>16. CASE ReceiveOther
  BY <1>6, <1>16 DEF ReceiveOther
<1> QED BY <1>1, <1>2, <1>3, <1>4, <1>5, <1>9, <1>10, <1>11, <1>12, <1>13, <1>14, <1>15, <1>16 DEF Next

(* The invariant holds of every event of every run.                        *)
LEMMA SpecIInv == Spec => []IInv
<1>1. IInv /\ [Next]_vars => IInv'
  BY NextIInv
<1> QED BY InitIInv, <1>1, PTL DEF Spec

----------------------------------------------------------------------------
(* The properties.                                                         *)

(* The port and its pool are what their types say: a count is an integer,  *)
(* a pointer leads to a message or nowhere, the sequence id keeps to its   *)
(* width.                                                                  *)
THEOREM TypeCorrect == Spec => []TypeOK
<1>1. IInv => TypeOK
  BY DEF IInv, Fine, Good, TypeOK
<1> QED BY <1>1, SpecIInv, PTL

(* A port that is down keeps no message: portOpDisable released them all   *)
(* when the fault was dispatched, and the handler that was running has     *)
(* kept none.                                                              *)
THEOREM DownKeepsNothing == Spec => []DownHoldsNoMessage
<1>1. IInv => DownHoldsNoMessage
  <2> SUFFICES ASSUME IInv, port.state \in Down
               PROVE  port.syfu = "EMPTY" /\ port.delay_req = <<>> /\ Held = {}
    BY DEF DownHoldsNoMessage
  <2>1. port \in PortRec /\ Good(port, None) /\ \A c \in Msgs : Pointers(port, c) = 0
    BY DEF IInv, Fine, Good, DownEmpty, HoldsNothing
  <2>2. \A c \in Msgs : /\ port.peer_delay_req # c /\ port.peer_delay_resp # c
                        /\ port.peer_delay_fup # c /\ ~HalfKept(port, c) /\ ~Waits(port, c)
    BY <2>1 DEF Pointers
  <2>3. port.syfu = "EMPTY"
    BY <2>1, <2>2 DEF HalfKept, Good
  <2>4. port.delay_req = <<>>
    <3>1. port.delay_req \in Seq(Msgs)
      BY <2>1 DEF PortRec
    <3>2. ASSUME port.delay_req # <<>> PROVE FALSE
      <4>1. 1 \in 1 .. Len(port.delay_req) /\ port.delay_req[1] \in Msgs
        BY <3>1, <3>2
      <4> QED BY <4>1, <2>2 DEF Waits
    <3> QED BY <3>2
  <2>5. Held = {}
    BY <2>1, <2>2 DEF Held, PortRec
  <2> QED BY <2>3, <2>4, <2>5
<1> QED BY <1>1, SpecIInv, PTL

(* No request that was time-stamped before the clock jumped waits for an   *)
(* answer: portSynchronize drops those of both mechanisms, also the ones   *)
(* the dispatch of SYNCHRONIZATION_FAULT has not flushed.                  *)
THEOREM JumpDropsRequests == Spec => []NoRequestFromBeforeJump
<1>1. IInv => NoRequestFromBeforeJump
  <2> SUFFICES ASSUME IInv PROVE NoRequestFromBeforeJump
    OBVIOUS
  <2>1. Clean(port) /\ port.delay_req \in Seq(Msgs)
    BY DEF IInv, Fine, Good, PortRec
  <2>2. DOMAIN port.delay_req = 1 .. Len(port.delay_req)
    BY <2>1
  <2> QED BY <2>1, <2>2 DEF NoRequestFromBeforeJump, Clean
<1> QED BY <1>1, SpecIInv, PTL

(* The places of a list without repetition that hold a message.            *)
LEMMA PlacesOf ==
  ASSUME NEW list \in Seq(Msgs), Distinct(list), NEW c
  PROVE  Cardinality({i \in DOMAIN list : list[i] = c})
           = IF \E i \in 1 .. Len(list) : list[i] = c THEN 1 ELSE 0
<1> DEFINE S == {i \in DOMAIN list : list[i] = c}
<1>1. DOMAIN list = 1 .. Len(list)
  OBVIOUS
<1>2. CASE \E i \in 1 .. Len(list) : list[i] = c
  <2>1. PICK i \in 1 .. Len(list) : list[i] = c
    BY <1>2
  <2>2. S = {i}
    BY <1>1, <2>1 DEF Distinct
  <2> QED BY <1>2, <2>2, FS_Singleton
<1>3. CASE ~\E i \in 1 .. Len(list) : list[i] = c
  <2>1. S = {}
    BY <1>1, <1>3
  <2> QED BY <1>3, <2>1, FS_EmptySet
<1> QED BY <1>2, <1>3

(* The property's count of the pointers is the proof's.                    *)
LEMMA HoldersArePointers ==
  ASSUME port \in PortRec, Distinct(port.delay_req), NEW c \in Msgs, Pointers(port, c) <= 1
  PROVE  Holders(c) = Pointers(port, c)
<1> DEFINE req == port.peer_delay_req = c
           resp == port.peer_delay_resp = c
           fup == port.peer_delay_fup = c
           F == {f \in Held : port[f] = c}
<1>0. c # Null
  BY PoolConfig DEF Msgs
<1>1. F = {f \in {"peer_delay_req", "peer_delay_resp", "peer_delay_fup"} : port[f] = c}
  BY <1>0 DEF Held
<1>2. ~(req /\ resp) /\ ~(req /\ fup) /\ ~(resp /\ fup)
  BY DEF Pointers
<1>3. Cardinality(F) = (IF req THEN 1 ELSE 0) + (IF resp THEN 1 ELSE 0) + (IF fup THEN 1 ELSE 0)
  <2>1. CASE req
    <3>1. F = {"peer_delay_req"}
      BY <1>1, <1>2, <2>1
    <3> QED BY <1>2, <2>1, <3>1, FS_Singleton
  <2>2. CASE resp
    <3>1. F = {"peer_delay_resp"}
      BY <1>1, <1>2, <2>2
    <3> QED BY <1>2, <2>2, <3>1, FS_Singleton
  <2>3. CASE fup
    <3>1. F = {"peer_delay_fup"}
      BY <1>1, <1>2, <2>3
    <3> QED BY <1>2, <2>3, <3>1, FS_Singleton
  <2>4. CASE ~req /\ ~resp /\ ~fup
    <3>1. F = {}
      BY <1>1, <2>4
    <3> QED BY <2>4, <3>1, FS_EmptySet
  <2> QED BY <2>1, <2>2, <2>3, <2>4
<1>4. Cardinality({i \in DOMAIN port.delay_req : port.delay_req[i] = c})
        = IF Waits(port, c) THEN 1 ELSE 0
  BY PlacesOf DEF PortRec, Waits
<1> QED BY <1>3, <1>4 DEF Holders, Pointers, HalfKept

(* Every message is in the pool once with nothing pointing to it, or out   *)
(* of it with exactly one pointer and a count that says so: no message     *)
(* leaks, dangles or is handed out twice, however the handlers, the        *)
(* dispatch inside them and the flushes follow each other.                 *)
THEOREM MessagesConserved == Spec => []Conserved
<1>1. IInv => Conserved
  <2> SUFFICES ASSUME IInv, NEW c \in 1 .. port.total
               PROVE  IF Pooled(c) = {} THEN port.refcnt[c] = Holders(c) /\ Holders(c) > 0
                      ELSE Cardinality(Pooled(c)) = 1 /\ Holders(c) = 0
    BY DEF Conserved
  <2> DEFINE own == Owned(port, None)
  <2>1. /\ port \in PortRec /\ Counts(port, own) /\ Distinct(port.delay_req)
        /\ \A d \in Msgs : Pointers(port, d) <= 1
    BY DEF IInv, Fine, Good
  <2>2. c \in Msgs
    BY <2>1, PoolConfig DEF PortRec, Msgs
  <2>3. own[c] = Pointers(port, c)
    BY <2>2 DEF Owned, None, Pointers
  <2> HIDE DEF own
  <2>4. Holders(c) = own[c]
    BY <2>1, <2>2, <2>3, HoldersArePointers
  <2>5. port.pool \in Seq(Msgs) /\ Distinct(port.pool)
    BY <2>1 DEF PortRec, Counts, Distinct
  <2>6. DOMAIN port.pool = 1 .. Len(port.pool)
    BY <2>5
  <2>7. Pooled(c) = {} <=> ~InPool(port, c)
    BY <2>6 DEF Pooled, InPool
  <2>8. InPool(port, c) => Cardinality(Pooled(c)) = 1
    BY <2>5, PlacesOf DEF Pooled, InPool
  <2>9. IF InPool(port, c) THEN own[c] = 0 ELSE own[c] = port.refcnt[c] /\ own[c] > 0
    BY <2>1 DEF Counts
  <2> QED BY <2>4, <2>7, <2>8, <2>9
<1> QED BY <1>1, SpecIInv, PTL
=============================================================================
