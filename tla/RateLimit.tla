------------------------------ MODULE RateLimit -------------------------------
(***************************************************************************)
(* The rate limiter (middleware/ratelimit.py): one fixed window of a       *)
(* minute per route and caller, idle buckets pruned now and then.          *)
(*                                                                         *)
(* _check does not await, so a request is one action.  Time is             *)
(* time.monotonic() in steps of 0.1 ms; between requests it advances by    *)
(* one of Delay.                                                           *)
(***************************************************************************)
EXTENDS Integers, Sequences

CONSTANTS
  Caller,      \* clients
  UserOf,      \* the "sub" claim of a client's token
  AddressOf,   \* a client's IP address
  Route,       \* "chat", "login", "default"
  Limit,       \* requests per minute on each route
  Delay,       \* by how much time may advance between requests
  MaxDelays,   \* how often it does
  None

Second == 10000
Millisecond == 10
Window == 60 * Second
IdleTTL == 600 * Second
PruneInterval == 60 * Second

ASSUME RateLimitAssumption ==
  /\ Limit \in [Route -> Int]
  /\ Delay \subseteq Nat
  /\ MaxDelays \in Nat
  /\ None \notin Nat \cup [start : Nat, count : Nat, seen : Nat]

VARIABLES
  now, delays,
  valid,       \* callers whose token decodes
  bucket,      \* _buckets
  lastPrune,
  rejected,    \* Retry-After of the last answer, None if it was let through
  admitted,    \* history: when requests of a key were let through
  comeBack     \* history: when a rejected caller was told to come back

vars == <<now, delays, valid, bucket, lastPrune, rejected, admitted, comeBack>>

Identity == {<<"user", UserOf[c]>> : c \in Caller} \cup {<<"ip", AddressOf[c]>> : c \in Caller}
Key == Route \X Identity

Bucket(limit) == [start : Nat, count : 1..(IF limit > 0 THEN limit ELSE 1), seen : Nat]

TypeOK ==
  /\ now \in Nat /\ delays \in 0..MaxDelays
  /\ valid \subseteq Caller
  /\ \A k \in Key : bucket[k] \in Bucket(Limit[k[1]]) \cup {None}
  /\ lastPrune \in Nat
  /\ rejected \in Nat \cup {None}
  /\ admitted \in [Key -> Seq(Nat)]
  /\ comeBack \in [Key -> Nat \cup {None}]

\* The host has been up for longer than the longest interval.
Init ==
  /\ now = IdleTTL
  /\ delays = 0
  /\ valid = Caller
  /\ bucket = [k \in Key |-> None]
  /\ lastPrune = 0
  /\ rejected = None
  /\ admitted = [k \in Key |-> <<>>]
  /\ comeBack = [k \in Key |-> None]

\* _bucket_identity: the user if the token decodes, else the address.
IdentityOf(c) == IF c \in valid THEN <<"user", UserOf[c]>> ELSE <<"ip", AddressOf[c]>>

\* Unused for so long that it can be dropped.
Idle(b) == now - b.seen > IdleTTL

\* Mistake: pruning is never due.
PruneDue_Never == FALSE

PruneDue == now - lastPrune >= PruneInterval

\* _prune: the buckets it leaves, and its new last_prune.
Pruned == IF PruneDue
          THEN [k \in Key |-> IF bucket[k] # None /\ Idle(bucket[k]) THEN None ELSE bucket[k]]
          ELSE bucket

\* Mistake: the remaining time is truncated.
RetryAfter_Truncated(left) == IF left \div Second > 1 THEN left \div Second ELSE 1

\* max(1, int(left + 0.999)) seconds.
RetryAfter(left) ==
  LET s == (left + 9990) \div Second IN IF s > 1 THEN s ELSE 1

Admit(k, b) ==
  /\ bucket' = [Pruned EXCEPT ![k] = b]
  /\ rejected' = None
  /\ admitted' = [admitted EXCEPT ![k] = Append(@, now)]
  /\ comeBack' = [comeBack EXCEPT ![k] = None]

Reject(k, b, retry) ==
  /\ bucket' = [Pruned EXCEPT ![k] = b]
  /\ rejected' = retry
  /\ comeBack' = [comeBack EXCEPT ![k] = now + retry * Second]
  /\ UNCHANGED admitted

Full(b, limit) == b.count >= limit

\* Mistake: windows of twenty seconds.
Over_Early(b) == IF b = None THEN TRUE ELSE now - b.start >= Window \div 3

\* There is no current window.
Over(b) == IF b = None THEN TRUE ELSE now - b.start >= Window

\* _check, for a key with its route's limit.
Check(k, limit) ==
  LET b == Pruned[k]
      fresh == [start |-> now, count |-> 1, seen |-> now] IN
  /\ lastPrune' = IF PruneDue THEN now ELSE lastPrune
  /\ \/ /\ Over(b)
        /\ IF limit > 0 THEN Admit(k, fresh) ELSE Reject(k, fresh, 0)
     \/ /\ ~Over(b)
        /\ IF Full(b, limit)
           THEN Reject(k, [b EXCEPT !.seen = now], RetryAfter(b.start + Window - now))
           ELSE Admit(k, [b EXCEPT !.seen = now, !.count = @ + 1])

\* A request that is not exempt.
Request(c, r) ==
  /\ Check(<<r, IdentityOf(c)>>, Limit[r])
  /\ UNCHANGED <<now, delays, valid>>

Pass ==
  /\ delays < MaxDelays
  /\ delays' = delays + 1
  /\ \E d \in Delay : now' = now + d
  /\ UNCHANGED <<valid, bucket, lastPrune, rejected, admitted, comeBack>>

\* A token expires, or its owner logs in again.
TokenChanges(c) ==
  /\ valid' = IF c \in valid THEN valid \ {c} ELSE valid \cup {c}
  /\ UNCHANGED <<now, delays, bucket, lastPrune, rejected, admitted, comeBack>>

Next ==
  \/ \E c \in Caller, r \in Route : Request(c, r)
  \/ \E c \in Caller : TokenChanges(c)
  \/ Pass

Spec == Init /\ [][Next]_vars

-----------------------------------------------------------------------------
(* A caller gets at most twice the limit in any minute, wherever its       *)
(* windows begin and whatever is pruned: of any 2 * limit + 1 consecutive  *)
(* requests that pass, the last is at least a window after the first       *)
(* (_check, _prune).                                                       *)
RateBound ==
  \A k \in Key : Limit[k[1]] > 0 =>
    \A i \in DOMAIN admitted[k] :
      LET j == i + 2 * Limit[k[1]] IN
      j \in DOMAIN admitted[k] => admitted[k][j] - admitted[k][i] >= Window

(* The Retry-After of a rejected request is honest: a caller that waits so *)
(* long and a millisecond finds its window over, and it is not made to     *)
(* wait a second longer than necessary (_check).                           *)
RetryHonest ==
  \A k \in Key : Limit[k[1]] > 0 /\ bucket[k] # None /\ comeBack[k] # None =>
    LET over == bucket[k].start + Window IN
    comeBack[k] + Millisecond > over /\ comeBack[k] < over + Second

(* Buckets do not pile up: after a request, none is left that has been     *)
(* idle for longer than the idle time and one prune interval (_prune).     *)
NoOldBuckets ==
  [][\A c \in Caller, r \in Route : Request(c, r) =>
       \A k \in Key : bucket'[k] # None =>
         now - bucket'[k].seen <= IdleTTL + PruneInterval]_vars
=============================================================================
