------------------------------ MODULE MsgPool ------------------------------
(***************************************************************************)
(* The message pool of msg.c.  Messages are reference counted; one whose   *)
(* count drops to zero goes to the head of the pool, where the next        *)
(* allocation finds it.  A function of the code is an operator on a record *)
(* that has (at least) the fields                                          *)
(*   pool    the messages in the pool, head first                          *)
(*   total   how many messages were ever malloc'ed                         *)
(*   refcnt  refcnt[c]: the count of message c                             *)
(*   body    body[c]: what message c says, Null in the pool                *)
(***************************************************************************)
EXTENDS Integers, Sequences

CONSTANTS
    MaxMsgs,            \* memory: how many messages malloc can provide
    Null

ASSUME PoolConfig == MaxMsgs \in Nat /\ Null \notin 1 .. MaxMsgs

Msgs == 1 .. MaxMsgs

NoRefs == [c \in Msgs |-> 0]
NoBodies == [c \in Msgs |-> Null]

CanAllocate(p) == p.pool # <<>> \/ p.total < MaxMsgs

(* The message msg_allocate returns, and what it leaves behind once the    *)
(* caller has written b into it.                                           *)
Allocated(p) == IF p.pool = <<>> THEN p.total + 1 ELSE Head(p.pool)

msg_allocate(p, b) ==
    LET c == Allocated(p)
        q == IF p.pool = <<>> THEN [p EXCEPT !.total = c]
                              ELSE [p EXCEPT !.pool = Tail(@)]
    IN [q EXCEPT !.refcnt[c] = 1, !.body[c] = b]

msg_get(p, c) == [p EXCEPT !.refcnt[c] = @ + 1]

(* Only a count of exactly zero recycles the message.                      *)
msg_put(p, c) ==
    LET q == [p EXCEPT !.refcnt[c] = @ - 1]
    IN IF q.refcnt[c] # 0 THEN q
       ELSE [q EXCEPT !.pool = <<c>> \o @, !.body[c] = Null]

(* The loop that puts the messages of a list one after the other.          *)
put_all(p, list) ==
    LET after[k \in 0 .. Len(list)] ==
          IF k = 0 THEN p ELSE msg_put(after[k - 1], list[k])
    IN  after[Len(list)]
=============================================================================
