--------------------------- MODULE MsgPool_proofs ---------------------------
(***************************************************************************)
(* What the operations of the message pool do to who owns which message,   *)
(* for every number of messages and every record that contains a pool:     *)
(* as long as nobody releases what he does not own, a message is in the    *)
(* pool once, or out of it with the count of its owners.                   *)
(***************************************************************************)
EXTENDS MsgPool, WellFoundedInduction, TLAPS

InPool(p, c) == \E i \in 1 .. Len(p.pool) : p.pool[i] = c

(* What the messages say.                                                  *)
IsBody(b) == b = [c \in Msgs |-> b[c]]

(* A record with the fields of the pool, and others.                       *)
IsPool(p) ==
    /\ p = [f \in DOMAIN p |-> p[f]]
    /\ {"pool", "total", "refcnt", "body"} \subseteq DOMAIN p
    /\ p.pool \in Seq(Msgs)
    /\ p.total \in 0 .. MaxMsgs
    /\ p.refcnt \in [Msgs -> Int]
    /\ IsBody(p.body)

(* own[c] references to message c are about.  A count below zero is that   *)
(* of a message released once more when it was in the pool already.        *)
Counts(p, own) ==
    /\ own \in [Msgs -> Nat]
    /\ \A i, j \in 1 .. Len(p.pool) : p.pool[i] = p.pool[j] => i = j
    /\ \A c \in Msgs : InPool(p, c) => c <= p.total
    /\ \A c \in Msgs : own[c] > 0 => c <= p.total
    /\ \A c \in 1 .. p.total :
          IF InPool(p, c) THEN own[c] = 0 /\ p.refcnt[c] <= 0
                          ELSE own[c] = p.refcnt[c] /\ own[c] > 0

(* p with other contents of the pool.                                      *)
WithPool(p, l, t, r, b) == [p EXCEPT !.pool = l, !.total = t, !.refcnt = r, !.body = b]

(* The pool and nothing else has changed.                                  *)
OnlyPool(p, q) == q = WithPool(p, q.pool, q.total, q.refcnt, q.body)

----------------------------------------------------------------------------
(* One operation.                                                          *)

(* Only the pool counts.                                                   *)
LEMMA SamePool ==
  ASSUME NEW p, NEW q, NEW own, Counts(p, own),
         q.pool = p.pool, q.total = p.total, q.refcnt = p.refcnt
  PROVE  Counts(q, own)
<1>1. \A c : InPool(q, c) <=> InPool(p, c)
  BY DEF InPool
<1> QED BY <1>1 DEF Counts

(* MaxMsgs is a natural number, so that a message is a number.             *)
LEMMA MsgsAreNaturals == \A c \in Msgs : c \in Nat /\ c >= 1 /\ c <= MaxMsgs
  BY PoolConfig, SMT DEF Msgs

(* What a change of the pool's fields is.                                  *)
LEMMA OnlyPoolBy ==
  ASSUME NEW p, IsPool(p), NEW l \in Seq(Msgs), NEW t \in 0 .. MaxMsgs,
         NEW r \in [Msgs -> Int], NEW b, IsBody(b)
  PROVE  LET q == WithPool(p, l, t, r, b)
         IN  /\ IsPool(q) /\ OnlyPool(p, q) /\ DOMAIN q = DOMAIN p
             /\ q.pool = l /\ q.total = t /\ q.refcnt = r /\ q.body = b
<1> DEFINE q == WithPool(p, l, t, r, b)
<1>1. q.pool = l /\ q.total = t /\ q.refcnt = r /\ q.body = b
  BY DEF IsPool, WithPool
<1>2. q = [f \in DOMAIN q |-> q[f]] /\ DOMAIN q = DOMAIN p
  BY DEF IsPool, WithPool
<1> QED BY <1>1, <1>2 DEF IsPool, OnlyPool

(* msg_put by cases.                                                       *)
LEMMA PutIs ==
  ASSUME NEW p, IsPool(p), NEW c \in Msgs, NEW r, r = [p.refcnt EXCEPT ![c] = @ - 1]
  PROVE  msg_put(p, c) =
           IF p.refcnt[c] # 1
           THEN WithPool(p, p.pool, p.total, r, p.body)
           ELSE WithPool(p, <<c>> \o p.pool, p.total, r, [p.body EXCEPT ![c] = Null])
<1> DEFINE q == [p EXCEPT !.refcnt = r]
<1>1. [p EXCEPT !.refcnt[c] = @ - 1] = q
  OBVIOUS
<1>2. msg_put(p, c) = IF q.refcnt[c] # 0 THEN q
                      ELSE [q EXCEPT !.pool = <<c>> \o @, !.body[c] = Null]
  BY <1>1, Zenon DEF msg_put
<1>3. q.refcnt = r /\ q.pool = p.pool /\ q.body = p.body
  BY DEF IsPool
<1>4. r[c] = p.refcnt[c] - 1 /\ p.refcnt[c] \in Int
  BY DEF IsPool
<1>5. q.refcnt[c] # 0 <=> p.refcnt[c] # 1
  BY <1>3, <1>4
<1>6. q = WithPool(p, p.pool, p.total, r, p.body)
  BY DEF IsPool, WithPool
<1>7. [q EXCEPT !.pool = <<c>> \o @, !.body[c] = Null]
        = [q EXCEPT !.pool = <<c>> \o p.pool, !.body = [p.body EXCEPT ![c] = Null]]
  BY <1>3, Zenon
<1>8. \A l, b : [q EXCEPT !.pool = l, !.body = b]
        = WithPool(p, l, p.total, r, b)
  BY DEF IsPool, WithPool
<1> HIDE DEF q
<1>9. CASE p.refcnt[c] # 1
  BY <1>9, <1>2, <1>5, <1>6, Zenon
<1>10. CASE p.refcnt[c] = 1
  BY <1>10, <1>2, <1>5, <1>7, <1>8, Zenon
<1> QED BY <1>9, <1>10

(* One who owns a reference releases it.                                   *)
LEMMA PutOwned ==
  ASSUME NEW p, IsPool(p), NEW own, Counts(p, own), NEW c \in Msgs, own[c] > 0
  PROVE  LET q == msg_put(p, c)
         IN  /\ IsPool(q) /\ OnlyPool(p, q) /\ DOMAIN q = DOMAIN p
             /\ Counts(q, [own EXCEPT ![c] = @ - 1])
             /\ q.total = p.total
             /\ \A d \in Msgs : InPool(p, d) => InPool(q, d)
             /\ own[c] = 1 => InPool(q, c)
             /\ \A d \in Msgs : d # c \/ own[c] > 1 => q.body[d] = p.body[d]
             /\ q.body[c] \in {p.body[c], Null}
<1> DEFINE q == msg_put(p, c)
           mine == [own EXCEPT ![c] = @ - 1]
           r == [p.refcnt EXCEPT ![c] = @ - 1]
<1>1. c <= p.total /\ c \in 1 .. p.total /\ ~InPool(p, c) /\ p.refcnt[c] = own[c]
  BY MsgsAreNaturals DEF Counts, IsPool
<1>2. r \in [Msgs -> Int] /\ r[c] = own[c] - 1 /\ \A d \in Msgs \ {c} : r[d] = p.refcnt[d]
  BY <1>1 DEF IsPool
<1>3. mine \in [Msgs -> Nat] /\ mine[c] = own[c] - 1 /\ \A d \in Msgs \ {c} : mine[d] = own[d]
  BY DEF Counts
<1>4. CASE own[c] # 1
  <2>2. q = WithPool(p, p.pool, p.total, r, p.body)
    <3>1. p.refcnt[c] # 1
      BY <1>1, <1>4
    <3>2. r = [p.refcnt EXCEPT ![c] = @ - 1]
      OBVIOUS
    <3> HIDE DEF r
    <3> QED BY <3>1, <3>2, PutIs, Zenon
  <2>3. /\ IsPool(q) /\ OnlyPool(p, q) /\ DOMAIN q = DOMAIN p
        /\ q.pool = p.pool /\ q.total = p.total /\ q.refcnt = r /\ q.body = p.body
    <3>1. p.pool \in Seq(Msgs) /\ p.total \in 0 .. MaxMsgs /\ IsBody(p.body)
      BY Zenon DEF IsPool
    <3> DEFINE w == WithPool(p, p.pool, p.total, r, p.body)
    <3> HIDE DEF q, r
    <3>2. /\ IsPool(w) /\ OnlyPool(p, w) /\ DOMAIN w = DOMAIN p
          /\ w.pool = p.pool /\ w.total = p.total /\ w.refcnt = r /\ w.body = p.body
      BY <3>1, <1>2, OnlyPoolBy
    <3>3. q = w
      BY <2>2
    <3> HIDE DEF w
    <3> QED BY <3>2, <3>3, Zenon
  <2>4. \A d \in Msgs : InPool(q, d) <=> InPool(p, d)
    BY <2>3 DEF InPool
  <2>5. Counts(q, mine)
    <3> HIDE DEF q, r, mine
    <3>1. \A d \in Msgs : mine[d] > 0 => d <= q.total
      BY <1>1, <1>3, <2>3 DEF Counts
    <3>2. \A d \in 1 .. q.total : d \in Msgs
      BY <2>3, PoolConfig DEF IsPool, Msgs
    <3>3. ASSUME NEW d \in 1 .. q.total
          PROVE IF InPool(q, d) THEN mine[d] = 0 /\ q.refcnt[d] <= 0
                          ELSE mine[d] = q.refcnt[d] /\ mine[d] > 0
      <4>1. CASE d = c
        BY <4>1, <1>1, <1>2, <1>3, <1>4, <2>3, <2>4 DEF Counts
      <4>2. CASE d # c
        BY <4>2, <3>2, <1>2, <1>3, <2>3, <2>4 DEF Counts
      <4> QED BY <4>1, <4>2
    <3>4. /\ \A i, j \in 1 .. Len(q.pool) : q.pool[i] = q.pool[j] => i = j
          /\ \A d \in Msgs : InPool(q, d) => d <= q.total
      BY <2>3, <2>4 DEF Counts
    <3> QED BY <1>3, <3>1, <3>3, <3>4 DEF Counts
  <2> QED BY <1>4, <2>3, <2>4, <2>5
<1>5. CASE own[c] = 1
  <2> DEFINE l == <<c>> \o p.pool
             b == [p.body EXCEPT ![c] = Null]
  <2>0. l \in Seq(Msgs) /\ Len(l) = Len(p.pool) + 1 /\ l[1] = c
        /\ \A i \in 1 .. Len(p.pool) : l[i + 1] = p.pool[i]
    BY DEF IsPool
  <2>1. q = WithPool(p, l, p.total, r, b)
    <3>1. p.refcnt[c] = 1
      BY <1>1, <1>5
    <3>2. r = [p.refcnt EXCEPT ![c] = @ - 1]
      OBVIOUS
    <3> HIDE DEF r
    <3> QED BY <3>1, <3>2, PutIs, Zenon DEF l, b
  <2>2. IsBody(b) /\ b[c] = Null /\ \A d \in Msgs \ {c} : b[d] = p.body[d]
    BY DEF IsPool, IsBody
  <2> HIDE DEF l, b
  <2>3. /\ IsPool(q) /\ OnlyPool(p, q) /\ DOMAIN q = DOMAIN p
        /\ q.pool = l /\ q.total = p.total /\ q.refcnt = r /\ q.body = b
    <3>1. p.total \in 0 .. MaxMsgs
      BY Zenon DEF IsPool
    <3> DEFINE w == WithPool(p, l, p.total, r, b)
    <3> HIDE DEF q, r
    <3>2. /\ IsPool(w) /\ OnlyPool(p, w) /\ DOMAIN w = DOMAIN p
          /\ w.pool = l /\ w.total = p.total /\ w.refcnt = r /\ w.body = b
      BY <3>1, <2>0, <2>2, <1>2, OnlyPoolBy
    <3>3. q = w
      BY <2>1
    <3> HIDE DEF w
    <3> QED BY <3>2, <3>3, Zenon
  <2> HIDE DEF q, r, mine
  <2>4. \A d \in Msgs : InPool(q, d) <=> d = c \/ InPool(p, d)
    <3>1. ASSUME NEW d \in Msgs, InPool(q, d) PROVE d = c \/ InPool(p, d)
      <4>1. PICK i \in 1 .. Len(l) : l[i] = d
        BY <3>1, <2>3 DEF InPool
      <4>2. CASE i = 1
        BY <4>1, <4>2, <2>0
      <4>3. CASE i # 1
        <5>1. Len(p.pool) \in Nat /\ i - 1 \in 1 .. Len(p.pool) /\ (i - 1) + 1 = i
          BY <4>3, <2>0 DEF IsPool
        <5> QED BY <5>1, <4>1, <2>0 DEF InPool
      <4> QED BY <4>2, <4>3
    <3>2. InPool(q, c)
      <4>1. Len(p.pool) \in Nat
        BY DEF IsPool
      <4>2. 1 \in 1 .. Len(l)
        BY <4>1, <2>0
      <4> QED BY <4>2, <2>0, <2>3 DEF InPool
    <3>3. ASSUME NEW d \in Msgs, InPool(p, d) PROVE InPool(q, d)
      <4>1. PICK i \in 1 .. Len(p.pool) : p.pool[i] = d
        BY <3>3 DEF InPool
      <4>2. i + 1 \in 1 .. Len(l) /\ l[i + 1] = d
        BY <4>1, <2>0 DEF IsPool
      <4> QED BY <4>2, <2>3 DEF InPool
    <3> QED BY <3>1, <3>2, <3>3
  <2>5. Counts(q, mine)
    <3>1. \A d \in Msgs : mine[d] > 0 => d <= q.total
      BY <1>1, <1>3, <2>3 DEF Counts
    <3>2. \A d \in 1 .. q.total : d \in Msgs
      BY <2>3, PoolConfig DEF IsPool, Msgs
    <3>3. ASSUME NEW d \in 1 .. q.total
          PROVE IF InPool(q, d) THEN mine[d] = 0 /\ q.refcnt[d] <= 0
                          ELSE mine[d] = q.refcnt[d] /\ mine[d] > 0
      <4>1. CASE d = c
        BY <4>1, <1>2, <1>3, <1>5, <2>3, <2>4
      <4>2. CASE d # c
        BY <4>2, <3>2, <1>2, <1>3, <2>3, <2>4 DEF Counts
      <4> QED BY <4>1, <4>2
    <3>4. \A d \in Msgs : InPool(q, d) => d <= q.total
      BY <1>1, <2>3, <2>4 DEF Counts
    <3>5. ASSUME NEW i \in 1 .. Len(l), NEW j \in 1 .. Len(l), l[i] = l[j], i < j
          PROVE FALSE
      <4>1. Len(p.pool) \in Nat /\ j - 1 \in 1 .. Len(p.pool) /\ l[j] = p.pool[j - 1]
        <5>1. Len(p.pool) \in Nat /\ j - 1 \in 1 .. Len(p.pool) /\ (j - 1) + 1 = j
          BY <3>5, <2>0 DEF IsPool
        <5> QED BY <5>1, <2>0
      <4>2. CASE i = 1
        BY <4>1, <4>2, <3>5, <2>0, <1>1 DEF InPool
      <4>3. CASE i # 1
        <5>1. i - 1 \in 1 .. Len(p.pool) /\ (i - 1) + 1 = i
          BY <4>1, <4>3, <2>0
        <5>2. l[i] = p.pool[i - 1]
          BY <5>1, <2>0
        <5>3. i - 1 = j - 1
          BY <5>1, <5>2, <4>1, <3>5 DEF Counts
        <5> QED BY <5>3, <3>5, <2>0
      <4> QED BY <4>2, <4>3
    <3>6. \A i, j \in 1 .. Len(q.pool) : q.pool[i] = q.pool[j] => i = j
      <4>1. Len(l) \in Nat
        BY <2>0 DEF IsPool
      <4> QED BY <3>5, <2>3, <4>1
    <3> QED BY <1>3, <3>1, <3>3, <3>4, <3>6 DEF Counts
  <2> QED BY <1>5, <2>2, <2>3, <2>4, <2>5 DEF q, mine
<1> QED BY <1>4, <1>5

(* A release too many of a message in the pool, which a handler may do     *)
(* after a flush, changes nothing but its count.                           *)
LEMMA PutStale ==
  ASSUME NEW p, IsPool(p), NEW own, Counts(p, own), NEW c \in Msgs, InPool(p, c)
  PROVE  LET q == msg_put(p, c)
         IN  /\ IsPool(q) /\ OnlyPool(p, q) /\ DOMAIN q = DOMAIN p
             /\ Counts(q, own)
             /\ q.total = p.total /\ q.body = p.body
             /\ \A d \in Msgs : InPool(q, d) <=> InPool(p, d)
<1> DEFINE q == msg_put(p, c)
           r == [p.refcnt EXCEPT ![c] = @ - 1]
           w == WithPool(p, p.pool, p.total, r, p.body)
<1>1. c \in 1 .. p.total /\ own[c] = 0 /\ p.refcnt[c] <= 0
  BY MsgsAreNaturals DEF Counts, IsPool
<1>2. r = [p.refcnt EXCEPT ![c] = @ - 1]
  OBVIOUS
<1>3. r \in [Msgs -> Int] /\ r[c] = p.refcnt[c] - 1 /\ \A d \in Msgs \ {c} : r[d] = p.refcnt[d]
  BY DEF IsPool
<1>4. p.pool \in Seq(Msgs) /\ p.total \in 0 .. MaxMsgs /\ IsBody(p.body)
  BY Zenon DEF IsPool
<1>5. p.refcnt[c] # 1
  BY <1>1
<1> HIDE DEF r
<1>6. q = w
  BY <1>2, <1>5, PutIs, Zenon
<1>7. /\ IsPool(w) /\ OnlyPool(p, w) /\ DOMAIN w = DOMAIN p
      /\ w.pool = p.pool /\ w.total = p.total /\ w.refcnt = r /\ w.body = p.body
  BY <1>3, <1>4, OnlyPoolBy
<1> HIDE DEF w
<1>8. \A d \in Msgs : InPool(w, d) <=> InPool(p, d)
  BY <1>7 DEF InPool
<1>9. Counts(w, own)
  <2>1. \A d \in 1 .. w.total : d \in Msgs
    BY <1>7, PoolConfig DEF IsPool, Msgs
  <2>2. ASSUME NEW d \in 1 .. w.total
        PROVE IF InPool(w, d) THEN own[d] = 0 /\ w.refcnt[d] <= 0
                        ELSE own[d] = w.refcnt[d] /\ own[d] > 0
    <3>1. CASE d = c
      BY <3>1, <1>1, <1>3, <1>7, <1>8 DEF IsPool
    <3>2. CASE d # c
      BY <3>2, <2>1, <1>3, <1>7, <1>8 DEF Counts
    <3> QED BY <3>1, <3>2
  <2> QED BY <2>2, <1>7, <1>8 DEF Counts
<1> QED BY <1>6, <1>7, <1>8, <1>9, Zenon DEF q

(* One who may use a message takes another reference.                      *)
LEMMA GetOwned ==
  ASSUME NEW p, IsPool(p), NEW own, Counts(p, own), NEW c \in Msgs, own[c] > 0
  PROVE  LET q == msg_get(p, c)
         IN  /\ IsPool(q) /\ OnlyPool(p, q) /\ DOMAIN q = DOMAIN p
             /\ Counts(q, [own EXCEPT ![c] = @ + 1])
             /\ q.total = p.total /\ q.body = p.body
             /\ \A d \in Msgs : InPool(q, d) <=> InPool(p, d)
<1> DEFINE q == msg_get(p, c)
           r == [p.refcnt EXCEPT ![c] = @ + 1]
           w == WithPool(p, p.pool, p.total, r, p.body)
           more == [own EXCEPT ![c] = @ + 1]
<1>1. c \in 1 .. p.total /\ ~InPool(p, c) /\ own[c] = p.refcnt[c]
  BY MsgsAreNaturals DEF Counts, IsPool
<1>2. more \in [Msgs -> Nat] /\ more[c] = own[c] + 1 /\ \A d \in Msgs \ {c} : more[d] = own[d]
  BY DEF Counts
<1>3. r \in [Msgs -> Int] /\ r[c] = p.refcnt[c] + 1 /\ \A d \in Msgs \ {c} : r[d] = p.refcnt[d]
  BY DEF IsPool
<1>4. p.pool \in Seq(Msgs) /\ p.total \in 0 .. MaxMsgs /\ IsBody(p.body)
  BY Zenon DEF IsPool
<1>6. q = w
  BY DEF msg_get, WithPool, IsPool
<1> HIDE DEF r, more
<1>7. /\ IsPool(w) /\ OnlyPool(p, w) /\ DOMAIN w = DOMAIN p
      /\ w.pool = p.pool /\ w.total = p.total /\ w.refcnt = r /\ w.body = p.body
  BY <1>3, <1>4, OnlyPoolBy
<1> HIDE DEF w
<1>8. \A d \in Msgs : InPool(w, d) <=> InPool(p, d)
  BY <1>7 DEF InPool
<1>9. Counts(w, more)
  <2>1. \A d \in 1 .. w.total : d \in Msgs
    BY <1>7, PoolConfig DEF IsPool, Msgs
  <2>2. ASSUME NEW d \in 1 .. w.total
        PROVE IF InPool(w, d) THEN more[d] = 0 /\ w.refcnt[d] <= 0
                        ELSE more[d] = w.refcnt[d] /\ more[d] > 0
    <3>1. CASE d = c
      BY <3>1, <1>1, <1>2, <1>3, <1>7, <1>8 DEF Counts
    <3>2. CASE d # c
      BY <3>2, <2>1, <1>2, <1>3, <1>7, <1>8 DEF Counts
    <3> QED BY <3>1, <3>2
  <2>3. \A d \in Msgs : more[d] > 0 => d <= w.total
    BY <1>1, <1>2, <1>7 DEF Counts
  <2> QED BY <2>2, <2>3, <1>2, <1>7, <1>8 DEF Counts
<1> QED BY <1>6, <1>7, <1>8, <1>9, Zenon DEF q, more

(* A new message belongs to whom it was allocated for, and nobody else     *)
(* points to it.                                                           *)
LEMMA AllocateOwns ==
  ASSUME NEW p, IsPool(p), NEW own, Counts(p, own), CanAllocate(p), NEW m
  PROVE  LET q == msg_allocate(p, m)
             c == Allocated(p)
         IN  /\ c \in Msgs /\ own[c] = 0
             /\ IsPool(q) /\ OnlyPool(p, q) /\ DOMAIN q = DOMAIN p
             /\ Counts(q, [own EXCEPT ![c] = 1])
             /\ \A d \in Msgs : d # c => (InPool(q, d) <=> InPool(p, d))
             /\ q.body[c] = m
             /\ \A d \in Msgs : d # c => q.body[d] = p.body[d]
<1> DEFINE q == msg_allocate(p, m)
           c == Allocated(p)
           r == [p.refcnt EXCEPT ![c] = 1]
           b == [p.body EXCEPT ![c] = m]
           l == IF p.pool = <<>> THEN p.pool ELSE Tail(p.pool)
           t == IF p.pool = <<>> THEN p.total + 1 ELSE p.total
           w == WithPool(p, l, t, r, b)
           more == [own EXCEPT ![c] = 1]
<1>1. /\ c \in Msgs /\ own[c] = 0 /\ c <= t /\ t \in 0 .. MaxMsgs /\ p.total <= t
      /\ \A d \in 1 .. t : d = c \/ d \in 1 .. p.total
  <2>1. CASE p.pool = <<>>
    <3>1. c = p.total + 1 /\ t = p.total + 1 /\ p.total < MaxMsgs /\ p.total \in Nat
      BY <2>1 DEF Allocated, CanAllocate, IsPool
    <3>2. c \in Msgs /\ ~(c <= p.total)
      BY <3>1, PoolConfig DEF Msgs
    <3>3. own[c] = 0
      BY <3>2 DEF Counts
    <3> QED BY <3>1, <3>2, <3>3, PoolConfig
  <2>2. CASE p.pool # <<>>
    <3>1. c = p.pool[1] /\ 1 \in 1 .. Len(p.pool) /\ t = p.total
      BY <2>2 DEF Allocated, IsPool
    <3>2. c \in Msgs /\ InPool(p, c) /\ p.total \in 0 .. MaxMsgs
      BY <3>1 DEF IsPool, InPool
    <3>3. c <= p.total /\ c \in 1 .. p.total
      BY <3>2, MsgsAreNaturals DEF Counts
    <3>4. own[c] = 0
      BY <3>2, <3>3 DEF Counts
    <3> QED BY <3>1, <3>2, <3>3, <3>4, PoolConfig
  <2> QED BY <2>1, <2>2
<1>2. more \in [Msgs -> Nat] /\ more[c] = 1 /\ \A d \in Msgs \ {c} : more[d] = own[d]
  BY <1>1 DEF Counts
<1>3. r \in [Msgs -> Int] /\ r[c] = 1 /\ \A d \in Msgs \ {c} : r[d] = p.refcnt[d]
  BY <1>1 DEF IsPool
<1>4. IsBody(b) /\ b[c] = m /\ \A d \in Msgs \ {c} : b[d] = p.body[d]
  BY <1>1 DEF IsPool, IsBody
<1>5. l \in Seq(Msgs)
  BY DEF IsPool
<1>6. q = w
  <2>1. CASE p.pool = <<>>
    <3>1. t = c /\ l = p.pool
      BY <2>1 DEF Allocated
    <3> QED BY <2>1, <3>1 DEF msg_allocate, WithPool, IsPool
  <2>2. CASE p.pool # <<>>
    BY <2>2 DEF msg_allocate, WithPool, IsPool
  <2> QED BY <2>1, <2>2
<1>7. \A d \in Msgs : (\E i \in 1 .. Len(l) : l[i] = d) <=> d # c /\ InPool(p, d)
  <2>1. CASE p.pool = <<>>
    <3>1. Len(l) = 0 /\ Len(p.pool) = 0
      BY <2>1
    <3> QED BY <3>1 DEF InPool
  <2>2. CASE p.pool # <<>>
    <3>1. /\ Len(p.pool) \in Nat /\ Len(l) = Len(p.pool) - 1 /\ Len(p.pool) >= 1 /\ c = p.pool[1]
          /\ \A i \in 1 .. Len(l) : l[i] = p.pool[i + 1]
      BY <2>2 DEF IsPool, Allocated
    <3>2. ASSUME NEW d \in Msgs, NEW i \in 1 .. Len(l), l[i] = d
          PROVE  d # c /\ InPool(p, d)
      <4>1. i + 1 \in 1 .. Len(p.pool) /\ 1 \in 1 .. Len(p.pool) /\ i + 1 # 1
        BY <3>1
      <4> QED BY <4>1, <3>1, <3>2 DEF InPool, Counts
    <3>3. ASSUME NEW d \in Msgs, d # c, InPool(p, d)
          PROVE  \E i \in 1 .. Len(l) : l[i] = d
      <4>1. PICK i \in 1 .. Len(p.pool) : p.pool[i] = d
        BY <3>3 DEF InPool
      <4>2. i # 1
        BY <4>1, <3>3, <3>1
      <4>3. i - 1 \in 1 .. Len(l) /\ (i - 1) + 1 = i
        BY <4>2, <3>1
      <4> QED BY <4>1, <4>3, <3>1
    <3> QED BY <3>2, <3>3
  <2> QED BY <2>1, <2>2
<1>8. \A i, j \in 1 .. Len(l) : l[i] = l[j] => i = j
  <2>1. CASE p.pool = <<>>
    BY <2>1 DEF Counts
  <2>2. CASE p.pool # <<>>
    <3>1. /\ Len(p.pool) \in Nat /\ Len(l) = Len(p.pool) - 1
          /\ \A i \in 1 .. Len(l) : l[i] = p.pool[i + 1]
      BY <2>2 DEF IsPool
    <3>2. ASSUME NEW i \in 1 .. Len(l), NEW j \in 1 .. Len(l), l[i] = l[j]
          PROVE  i = j
      <4>1. i + 1 \in 1 .. Len(p.pool) /\ j + 1 \in 1 .. Len(p.pool)
        BY <3>1
      <4>2. i + 1 = j + 1
        BY <4>1, <3>1, <3>2 DEF Counts
      <4> QED BY <4>2, <3>1
    <3> QED BY <3>2
  <2> QED BY <2>1, <2>2
<1> HIDE DEF r, more, b, l, t
<1>9. /\ IsPool(w) /\ OnlyPool(p, w) /\ DOMAIN w = DOMAIN p
      /\ w.pool = l /\ w.total = t /\ w.refcnt = r /\ w.body = b
  BY <1>1, <1>3, <1>4, <1>5, OnlyPoolBy
<1> HIDE DEF w, c
<1>10. \A d \in Msgs : InPool(w, d) <=> d # c /\ InPool(p, d)
  BY <1>7, <1>9 DEF InPool
<1>11. Counts(w, more)
  <2>1. \A d \in 1 .. w.total : d \in Msgs
    BY <1>9, PoolConfig DEF IsPool, Msgs
  <2>2. ASSUME NEW d \in 1 .. w.total
        PROVE IF InPool(w, d) THEN more[d] = 0 /\ w.refcnt[d] <= 0
                        ELSE more[d] = w.refcnt[d] /\ more[d] > 0
    <3>1. CASE d = c
      BY <3>1, <1>1, <1>2, <1>3, <1>9, <1>10
    <3>2. CASE d # c
      BY <3>2, <2>1, <1>1, <1>2, <1>3, <1>9, <1>10 DEF Counts
    <3> QED BY <3>1, <3>2
  <2>3. p.total \in Int /\ t \in Int /\ \A d \in Msgs : d \in Int
    BY <1>1, MsgsAreNaturals DEF IsPool
  <2>4. \A d \in Msgs : more[d] > 0 => d <= w.total
    BY <2>3, <1>1, <1>2, <1>9 DEF Counts
  <2>5. \A d \in Msgs : InPool(w, d) => d <= w.total
    BY <2>3, <1>1, <1>9, <1>10 DEF Counts
  <2> QED BY <2>2, <2>4, <2>5, <1>2, <1>8, <1>9 DEF Counts
<1> QED BY <1>1, <1>4, <1>6, <1>9, <1>10, <1>11, Zenon DEF q, more, c

(* One change of the pool after the other.                                 *)
LEMMA OnlyPoolTwice ==
  ASSUME NEW p, NEW q, NEW r, IsPool(p), OnlyPool(p, q), OnlyPool(q, r)
  PROVE  OnlyPool(p, r)
  BY DEF OnlyPool, WithPool, IsPool

----------------------------------------------------------------------------
(* The loop.                                                               *)

(* A set of natural numbers that is not empty has a least element: the     *)
(* form of induction used for what a loop computes.                        *)
LEMMA LeastOf ==
  ASSUME NEW R, \A n, m \in Nat : <<n, m>> \in R <=> n < m, NEW T, T \subseteq Nat,
         \E m \in T : \A n \in T : ~(<<n, m>> \in R)
  PROVE  \E m \in T : \A n \in T : m <= n
<1>1. PICK m \in T : \A n \in T : ~(<<n, m>> \in R)
  OBVIOUS
<1>2. ASSUME NEW n \in T PROVE m <= n
  <2>1. n \in Nat /\ m \in Nat
    OBVIOUS
  <2>2. ~(n < m)
    BY <1>1, <2>1
  <2> QED BY <2>1, <2>2
<1> QED BY <1>2

(* The same, of any such set.                                              *)
LEMMA Least ==
  ASSUME NEW T \in SUBSET Nat, T # {}
  PROVE  \E m \in T : \A n \in T : m <= n
<1> DEFINE R == OpToRel(<, Nat)
<1>1. IsWellFoundedOn(R, Nat)
  BY NatLessThanWellFounded
<1>2. \A n, m \in Nat : <<n, m>> \in R <=> n < m
  BY DEF OpToRel
<1> HIDE DEF R
<1>3. \E m \in T : \A n \in T : ~(<<n, m>> \in R)
  BY <1>1, WFMin, Zenon
<1> QED BY <1>2, <1>3, LeastOf, Zenon

(* The states of the pool in the first n rounds of put_all.                *)
Rounds(f, p, list, n) ==
    f = [k \in 0 .. n |-> IF k = 0 THEN p ELSE msg_put(f[k - 1], list[k])]

(* The loop computes something: its rounds exist.                          *)
LEMMA RoundsExist ==
  ASSUME NEW p, NEW list, NEW len \in Nat
  PROVE  \E f : Rounds(f, p, list, len)
<1> DEFINE T == {n \in Nat : ~\E f : Rounds(f, p, list, n)}
<1>1. SUFFICES T = {}
  OBVIOUS
<1>2. SUFFICES ASSUME T # {} PROVE FALSE
  OBVIOUS
<1>3. PICK m \in T : \A n \in T : m <= n
  <2>1. T \in SUBSET Nat
    OBVIOUS
  <2> HIDE DEF T
  <2> QED BY <2>1, <1>2, Least
<1>4. CASE m = 0
  <2> DEFINE f == [k \in 0 .. 0 |-> p]
  <2>1. Rounds(f, p, list, 0)
    BY DEF Rounds
  <2> QED BY <2>1, <1>4
<1>5. CASE m # 0
  <2>1. m \in Nat /\ m - 1 \in Nat /\ m - 1 \notin T
    BY <1>3, <1>5
  <2>2. PICK g : Rounds(g, p, list, m - 1)
    BY <2>1
  <2> DEFINE f == [k \in 0 .. m |-> IF k = m THEN msg_put(g[m - 1], list[m]) ELSE g[k]]
  <2>3. ASSUME NEW k \in 0 .. m
        PROVE  f[k] = IF k = 0 THEN p ELSE msg_put(f[k - 1], list[k])
    <3>1. CASE k = m
      <4>1. f[k] = msg_put(g[m - 1], list[m]) /\ f[k - 1] = g[m - 1] /\ k # 0
        BY <3>1, <2>1, <1>5
      <4> QED BY <4>1, <3>1
    <3>2. CASE k # m
      <4>1. k \in 0 .. m - 1 /\ f[k] = g[k]
        BY <3>2, <2>1
      <4>2. g[k] = IF k = 0 THEN p ELSE msg_put(g[k - 1], list[k])
        BY <4>1, <2>2 DEF Rounds
      <4>3. k # 0 => f[k - 1] = g[k - 1]
        BY <4>1, <2>1
      <4> QED BY <4>1, <4>2, <4>3
    <3> QED BY <3>1, <3>2
  <2>4. Rounds(f, p, list, m)
    <3>1. f = [k \in 0 .. m |-> f[k]]
      OBVIOUS
    <3> HIDE DEF f
    <3> QED BY <3>1, <2>3 DEF Rounds
  <2> QED BY <2>4
<1> QED BY <1>4, <1>5

(* And that is what put_all returns the last of.                           *)
LEMMA PutAllRounds ==
  ASSUME NEW p, NEW list, Len(list) \in Nat
  PROVE  \E f : Rounds(f, p, list, Len(list)) /\ put_all(p, list) = f[Len(list)]
<1> DEFINE F == CHOOSE f : f = [k \in 0 .. Len(list) |->
                                   IF k = 0 THEN p ELSE msg_put(f[k - 1], list[k])]
<1>1. put_all(p, list) = F[Len(list)]
  BY DEF put_all
<1>2. \E f : Rounds(f, p, list, Len(list))
  BY RoundsExist
<1>3. F = [k \in 0 .. Len(list) |-> IF k = 0 THEN p ELSE msg_put(F[k - 1], list[k])]
  BY <1>2, Zenon DEF Rounds
<1> QED BY <1>1, <1>3, Zenon DEF Rounds

(* What is owned after n messages of the list are released.                *)
Released(own, list, n) ==
    [c \in Msgs |-> IF \E i \in 1 .. n : list[i] = c THEN own[c] - 1 ELSE own[c]]

(* Where the pool is after the owner of some messages released them.       *)
After(p, q, own, left) ==
    /\ IsPool(q) /\ OnlyPool(p, q) /\ DOMAIN q = DOMAIN p
    /\ Counts(q, left)
    /\ \A d \in Msgs : InPool(p, d) => InPool(q, d)
    /\ \A d \in Msgs : own[d] > 0 /\ left[d] = 0 => InPool(q, d)
    /\ \A d \in Msgs : left[d] > 0 \/ left[d] = own[d] => q.body[d] = p.body[d]
    /\ \A d \in Msgs : q.body[d] \in {p.body[d], Null}

(* msg_put, in these terms.                                                *)
LEMMA PutAfter ==
  ASSUME NEW p, IsPool(p), NEW own, Counts(p, own), NEW c \in Msgs, own[c] > 0
  PROVE  After(p, msg_put(p, c), own, [own EXCEPT ![c] = @ - 1])
<1> DEFINE q == msg_put(p, c)
           left == [own EXCEPT ![c] = @ - 1]
<1>1. /\ IsPool(q) /\ OnlyPool(p, q) /\ DOMAIN q = DOMAIN p
      /\ Counts(q, left)
      /\ \A d \in Msgs : InPool(p, d) => InPool(q, d)
      /\ own[c] = 1 => InPool(q, c)
      /\ \A d \in Msgs : d # c \/ own[c] > 1 => q.body[d] = p.body[d]
      /\ q.body[c] \in {p.body[c], Null}
  BY PutOwned
<1>2. own \in [Msgs -> Nat] /\ left[c] = own[c] - 1 /\ \A d \in Msgs \ {c} : left[d] = own[d]
  BY DEF Counts
<1> HIDE DEF q, left
<1>3. \A d \in Msgs : own[d] > 0 /\ left[d] = 0 => InPool(q, d)
  BY <1>1, <1>2
<1>4. \A d \in Msgs : left[d] > 0 \/ left[d] = own[d] => q.body[d] = p.body[d]
  BY <1>1, <1>2
<1>5. \A d \in Msgs : q.body[d] \in {p.body[d], Null}
  BY <1>1
<1>6. After(p, q, own, left)
  BY <1>1, <1>3, <1>4, <1>5 DEF After
<1> QED BY <1>6 DEF q, left

(* One release after the other.                                            *)
LEMMA AfterTwice ==
  ASSUME NEW p, IsPool(p), NEW own, Counts(p, own), NEW q, NEW left, After(p, q, own, left),
         NEW r, NEW rest, After(q, r, left, rest), \A d \in Msgs : rest[d] <= left[d] /\ left[d] <= own[d]
  PROVE  After(p, r, own, rest)
<1>1. own \in [Msgs -> Nat] /\ left \in [Msgs -> Nat] /\ rest \in [Msgs -> Nat]
  BY DEF After, Counts
<1>2. OnlyPool(p, r)
  BY OnlyPoolTwice DEF After
<1>3. \A d \in Msgs : own[d] > 0 /\ rest[d] = 0 => InPool(r, d)
  <2> TAKE d \in Msgs
  <2>1. own[d] > 0 => left[d] > 0 \/ InPool(q, d)
    BY <1>1 DEF After
  <2> QED BY <2>1, <1>1 DEF After
<1>4. \A d \in Msgs : rest[d] > 0 \/ rest[d] = own[d] => r.body[d] = p.body[d]
  <2> TAKE d \in Msgs
  <2>1. HAVE rest[d] > 0 \/ rest[d] = own[d]
  <2>2. left[d] > 0 \/ left[d] = own[d]
    BY <1>1, <2>1
  <2>3. rest[d] > 0 \/ rest[d] = left[d]
    BY <1>1, <2>1
  <2> QED BY <2>2, <2>3 DEF After
<1>5. \A d \in Msgs : r.body[d] \in {p.body[d], Null}
  BY DEF After
<1> QED BY <1>2, <1>3, <1>4, <1>5 DEF After

(* The loop releases each message of its list once.                        *)
THEOREM PutAllReleases ==
  ASSUME NEW p, IsPool(p), NEW own, Counts(p, own), NEW list \in Seq(Msgs),
         \A i, j \in 1 .. Len(list) : list[i] = list[j] => i = j,
         \A i \in 1 .. Len(list) : own[list[i]] > 0
  PROVE  After(p, put_all(p, list), own, Released(own, list, Len(list)))
<1>1. Len(list) \in Nat
  OBVIOUS
<1>2. PICK f : Rounds(f, p, list, Len(list)) /\ put_all(p, list) = f[Len(list)]
  BY <1>1, PutAllRounds
<1>3. own \in [Msgs -> Nat]
  BY DEF Counts
<1> DEFINE Good(n) == After(p, f[n], own, Released(own, list, n))
           T == {n \in Nat : n <= Len(list) /\ ~Good(n)}
<1>4. SUFFICES T = {}
  BY <1>1, <1>2
<1>5. SUFFICES ASSUME T # {} PROVE FALSE
  OBVIOUS
<1>6. PICK m \in T : \A n \in T : m <= n
  <2>1. T \in SUBSET Nat
    OBVIOUS
  <2> HIDE DEF T
  <2> QED BY <2>1, <1>5, Least
<1>7. CASE m = 0
  <2>1. f[0] = p
    BY <1>1, <1>2 DEF Rounds
  <2>2. Released(own, list, 0) = own
    BY <1>3 DEF Released
  <2>3. OnlyPool(p, p)
    BY DEF OnlyPool, WithPool, IsPool
  <2>4. After(p, p, own, own)
    BY <2>3, <1>3 DEF After
  <2> QED BY <1>7, <2>1, <2>2, <2>4
<1>8. CASE m # 0
  <2>1. m \in Nat /\ m <= Len(list) /\ m - 1 \in Nat /\ m - 1 <= Len(list) /\ m - 1 \notin T
    BY <1>1, <1>6, <1>8
  <2>2. Good(m - 1)
    BY <2>1
  <2>3. m \in 0 .. Len(list) /\ m \in 1 .. Len(list) /\ list[m] \in Msgs
    BY <1>1, <2>1, <1>8
  <2>4. f[m] = msg_put(f[m - 1], list[m])
    BY <2>3, <1>8, <1>2 DEF Rounds
  <2> DEFINE c == list[m]
             had == Released(own, list, m - 1)
             has == Released(own, list, m)
  <2>5. had[c] = own[c] /\ own[c] > 0 /\ c \in Msgs
    <3>1. ~\E i \in 1 .. m - 1 : list[i] = c
      BY <2>3, <2>1, <1>1
    <3> QED BY <3>1, <2>3 DEF Released
  <2>6. has = [had EXCEPT ![c] = @ - 1]
    <3>1. has[c] = own[c] - 1
      BY <2>3, <2>1 DEF Released
    <3>2. \A d \in Msgs \ {c} : has[d] = had[d]
      <4> TAKE d \in Msgs \ {c}
      <4>1. (\E i \in 1 .. m : list[i] = d) <=> (\E i \in 1 .. m - 1 : list[i] = d)
        BY <2>1
      <4> QED BY <4>1 DEF Released
    <3>3. has = [d \in Msgs |-> has[d]] /\ had = [d \in Msgs |-> had[d]]
      BY DEF Released
    <3> HIDE DEF has, had, c
    <3> QED BY <3>1, <3>2, <3>3, <2>5
  <2>7. After(f[m - 1], f[m], had, has)
    <3>1. IsPool(f[m - 1]) /\ Counts(f[m - 1], had)
      BY <2>2 DEF After
    <3>2. had[c] > 0
      BY <2>5
    <3>3. f[m] = msg_put(f[m - 1], c)
      BY <2>4
    <3> HIDE DEF had, has, c
    <3>4. After(f[m - 1], msg_put(f[m - 1], c), had, [had EXCEPT ![c] = @ - 1])
      BY <3>1, <3>2, <2>5, PutAfter
    <3> QED BY <3>3, <3>4, <2>6
  <2>8. \A d \in Msgs : has[d] <= had[d] /\ had[d] <= own[d]
    <3> TAKE d \in Msgs
    <3>1. own[d] \in Nat
      BY <1>3
    <3>2. (\E i \in 1 .. m - 1 : list[i] = d) => (\E i \in 1 .. m : list[i] = d)
      BY <2>1
    <3> QED BY <3>1, <3>2 DEF Released
  <2>9. Good(m)
    <3> HIDE DEF had, has
    <3> QED BY <2>2, <2>7, <2>8, AfterTwice DEF had, has
  <2> QED BY <2>9
<1> QED BY <1>7, <1>8
=============================================================================
