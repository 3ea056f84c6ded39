----------------------------- MODULE AccessProofs -----------------------------
(* Proofs about who may do what: RateLimit, for any callers, limits and    *)
(* waits; Subtree, for tables of any length over any codes; SubtreeCache,  *)
(* for any number of concurrent calls and codes and any TTL; Auth, for any *)
(* users, tokens and requests; Scope, for any tables, catalog, queries and *)
(* users.                                                                  *)
EXTENDS RateLimit, Subtree, SubtreeCache, Auth, Scope, Recursion, TLAPS

-----------------------------------------------------------------------------
(* RateLimit.                                                              *)

LEMMA Times ==
  /\ Second \in Nat /\ Millisecond \in Nat
  /\ Window \in Nat /\ IdleTTL \in Nat /\ PruneInterval \in Nat
  /\ Window >= 1 /\ IdleTTL >= Window /\ PruneInterval >= 1
  BY SMT DEF Second, Millisecond, Window, IdleTTL, PruneInterval

\* int(x + 0.999) is the next full second, up to a millisecond.
LEMMA RetryAfterBounds ==
  ASSUME NEW left \in 1..Window
  PROVE  /\ RetryAfter(left) \in Nat
         /\ RetryAfter(left) * Second + Millisecond > left
         /\ RetryAfter(left) * Second < left + Second
<1> DEFINE q == (left + 9990) \div 10000
<1>1. left \in Nat /\ left >= 1
  BY SMT, Times
<1>2. q \in Nat /\ q * 10000 <= left + 9990 /\ left + 9990 < q * 10000 + 10000
  BY SMT, <1>1
<1>3. RetryAfter(left) = IF q > 1 THEN q ELSE 1
  BY SMT DEF RetryAfter, Second
<1> HIDE DEF q
<1>4. CASE q > 1
  BY SMT, <1>1, <1>2, <1>3, <1>4 DEF Second, Millisecond
<1>5. CASE ~(q > 1)
  BY SMT, <1>1, <1>2, <1>3, <1>5 DEF Second, Millisecond
<1>6. QED
  BY <1>4, <1>5

-----------------------------------------------------------------------------
(* The inductive invariant, for one key at time t: its bucket b, when its  *)
(* requests were let through (a) and when it was told to come back (cb).   *)

\* Windows that are over are at least a window apart: a request is followed,
\* limit requests later, by one of a later window.
Spaced(b, a, limit, t) ==
  /\ b = None => \A i \in 1..Len(a) : a[i] + Window <= t
  /\ b # None =>
       /\ b.count <= Len(a)
       /\ \A i \in 1..Len(a) : i <= Len(a) - b.count => a[i] <= b.start
       /\ \A i \in 1..Len(a) : i + limit <= Len(a) - b.count => a[i] + Window <= b.start

Bounded(a, limit) ==
  \A i, j \in 1..Len(a) : j = i + 2 * limit => a[j] - a[i] >= Window

Honest(b, cb) ==
  b # None /\ cb # None =>
    cb + Millisecond > b.start + Window /\ cb < b.start + Window + Second

Sane(b, a, cb, limit, t) ==
  /\ b \in Bucket(limit) \cup {None}
  /\ a \in Seq(Nat)
  /\ cb \in Nat \cup {None}
  /\ \A i \in 1..Len(a) : a[i] <= t
  /\ b # None => /\ b.start <= b.seen /\ b.seen <= t
                 /\ \A i \in 1..Len(a) : a[i] <= b.seen

KeyOK(b, a, cb, limit, t) ==
  /\ Sane(b, a, cb, limit, t)
  /\ limit > 0 => Spaced(b, a, limit, t) /\ Bounded(a, limit) /\ Honest(b, cb)

Inv ==
  /\ now \in Nat /\ delays \in 0..MaxDelays /\ valid \subseteq Caller
  /\ lastPrune \in Nat /\ lastPrune <= now
  /\ rejected \in Nat \cup {None}
  /\ DOMAIN bucket = Key /\ bucket = [k \in Key |-> bucket[k]]
  /\ admitted \in [Key -> Seq(Nat)]
  /\ comeBack \in [Key -> Nat \cup {None}]
  /\ \A k \in Key :
       /\ KeyOK(bucket[k], admitted[k], comeBack[k], Limit[k[1]], now)
       /\ bucket[k] # None => lastPrune - bucket[k].seen <= IdleTTL

LEMMA NoneIsNot ==
  ASSUME NEW limit \in Int
  PROVE  None \notin Nat \cup Bucket(limit)
<1>1. Bucket(limit) \subseteq [start : Nat, count : Nat, seen : Nat]
  BY DEF Bucket
<1>2. QED
  BY <1>1, RateLimitAssumption

LEMMA AcceptedLast ==
  ASSUME NEW a \in Seq(Nat), NEW t \in Nat
  PROVE  /\ Append(a, t) \in Seq(Nat) /\ Len(a) \in Nat
         /\ Len(Append(a, t)) = Len(a) + 1 /\ Append(a, t)[Len(a) + 1] = t
         /\ \A i \in 1..Len(a) : Append(a, t)[i] = a[i] /\ a[i] \in Nat
  OBVIOUS

-----------------------------------------------------------------------------
(* What a request does to its key.                                         *)

\* A request that opens a window.
LEMMA AdmitFresh ==
  ASSUME NEW limit \in Int, limit > 0, NEW t \in Nat,
         NEW b, NEW a, NEW cb, KeyOK(b, a, cb, limit, t),
         b # None => t - b.start >= Window
  PROVE  KeyOK([start |-> t, count |-> 1, seen |-> t], Append(a, t), None, limit, t)
<1> DEFINE f == [start |-> t, count |-> 1, seen |-> t]
           n == Append(a, t)
           l == Len(a)
<1>1. /\ f \in Bucket(limit) /\ f # None
      /\ f.start = t /\ f.count = 1 /\ f.seen = t
  BY NoneIsNot DEF Bucket
<1>2. a \in Seq(Nat)
  BY DEF KeyOK, Sane
<1>3. /\ n \in Seq(Nat) /\ l \in Nat /\ Len(n) = l + 1 /\ n[l + 1] = t
      /\ \A i \in 1..l : n[i] = a[i] /\ a[i] \in Nat
  BY <1>2, AcceptedLast
<1>4. b # None => b.count \in Int /\ b.count <= limit /\ b.start \in Nat
  BY DEF KeyOK, Sane, Bucket
<1>5. \A i \in 1..l : a[i] <= t
  BY DEF KeyOK, Sane
\* limit requests back, the window before the new one was at most being opened.
<1>6. ASSUME NEW i \in 1..l, i + limit <= l PROVE a[i] + Window <= t
  <2>1. CASE b = None
    BY <2>1 DEF KeyOK, Spaced
  <2>2. CASE b # None
    <3>1. /\ b.count \in Int /\ b.count <= limit /\ b.start \in Nat
          /\ t - b.start >= Window /\ i \in Int /\ a[i] \in Nat /\ Window \in Nat
      BY <2>2, <1>3, <1>4, Times
    <3>2. i <= l - b.count
      <4> HIDE DEF l
      <4> QED
        BY <3>1, <1>3, <1>6
    <3>3. a[i] <= b.start
      BY <2>2, <3>2 DEF KeyOK, Spaced
    <3>4. QED
      BY <3>1, <3>3
  <2>3. QED
    BY <2>1, <2>2
<1>7. Bounded(a, limit)
  BY DEF KeyOK
<1> HIDE DEF f, n, l
<1>8. Sane(f, n, None, limit, t)
  <2>1. \A i \in 1..Len(n) : n[i] <= t
    BY <1>3, <1>5
  <2>2. QED
    BY <2>1, <1>1, <1>3 DEF Sane
<1>9. Spaced(f, n, limit, t)
  <2>1. ASSUME NEW i \in 1..Len(n), i <= Len(n) - 1 PROVE i \in 1..l /\ n[i] = a[i]
    BY <2>1, <1>3
  <2>2. ASSUME NEW i \in 1..Len(n), i <= Len(n) - 1 PROVE n[i] <= t
    BY <2>1, <2>2, <1>5
  <2>3. ASSUME NEW i \in 1..Len(n), i + limit <= Len(n) - 1 PROVE n[i] + Window <= t
    <3>1. i <= Len(n) - 1 /\ i + limit <= l
      BY <2>3, <1>3
    <3>2. QED
      BY <3>1, <2>1, <1>6
  <2>4. f.count <= Len(n)
    BY <1>1, <1>3
  <2>5. QED
    BY <2>2, <2>3, <2>4, <1>1 DEF Spaced
<1>10. Bounded(n, limit)
  <2> SUFFICES ASSUME NEW i \in 1..Len(n), NEW j \in 1..Len(n), j = i + 2 * limit
               PROVE  n[j] - n[i] >= Window
    BY DEF Bounded
  <2>1. CASE j = l + 1
    <3>1. i \in 1..l /\ i + limit <= l
      BY <2>1, <1>3
    <3>2. a[i] + Window <= t /\ n[i] = a[i] /\ a[i] \in Nat /\ n[j] = t
      BY <3>1, <2>1, <1>3, <1>6
    <3>3. QED
      BY <3>2, Times
  <2>2. CASE j # l + 1
    <3>1. i \in 1..l /\ j \in 1..l
      BY <2>2, <1>3
    <3>2. n[i] = a[i] /\ n[j] = a[j]
      BY <3>1, <1>3
    <3>3. a[j] - a[i] >= Window
      BY <3>1, <1>7 DEF Bounded, l
    <3>4. QED
      BY <3>2, <3>3
  <2>3. QED
    BY <2>1, <2>2
<1>11. Honest(f, None)
  BY DEF Honest
<1>12. QED
  BY <1>8, <1>9, <1>10, <1>11 DEF KeyOK, f, n

\* A request let through in the current window.
LEMMA AdmitMore ==
  ASSUME NEW limit \in Int, limit > 0, NEW t \in Nat,
         NEW b, NEW a, NEW cb, KeyOK(b, a, cb, limit, t),
         b # None, b.count < limit
  PROVE  KeyOK([b EXCEPT !.seen = t, !.count = @ + 1], Append(a, t), None, limit, t)
<1> DEFINE f == [b EXCEPT !.seen = t, !.count = @ + 1]
           n == Append(a, t)
           l == Len(a)
<1>1. /\ b \in Bucket(limit)
      /\ b.count \in Int /\ 1 <= b.count /\ b.count <= limit
      /\ b.start \in Nat /\ b.seen \in Nat /\ b.start <= t
  BY DEF KeyOK, Sane, Bucket
<1>2. /\ f \in Bucket(limit) /\ f # None
      /\ f.start = b.start /\ f.count = b.count + 1 /\ f.seen = t
  <2>1. b.count + 1 \in 1..limit
    BY <1>1
  <2>2. QED
    BY <1>1, <2>1, NoneIsNot DEF Bucket
<1>3. a \in Seq(Nat)
  BY DEF KeyOK, Sane
<1>4. /\ n \in Seq(Nat) /\ l \in Nat /\ Len(n) = l + 1 /\ n[l + 1] = t
      /\ \A i \in 1..l : n[i] = a[i] /\ a[i] \in Nat
  BY <1>3, AcceptedLast
<1>5. /\ b.count <= l
      /\ \A i \in 1..l : a[i] <= t
      /\ \A i \in 1..l : i <= l - b.count => a[i] <= b.start
      /\ \A i \in 1..l : i + limit <= l - b.count => a[i] + Window <= b.start
      /\ Bounded(a, limit)
  BY DEF KeyOK, Sane, Spaced
<1> HIDE DEF f, n, l
<1>6. Sane(f, n, None, limit, t)
  <2>1. \A i \in 1..Len(n) : n[i] <= t
    BY <1>4, <1>5
  <2>2. QED
    BY <2>1, <1>1, <1>2, <1>4 DEF Sane
<1>7. Spaced(f, n, limit, t)
  <2>1. ASSUME NEW i \in 1..Len(n), i <= Len(n) - (b.count + 1)
        PROVE  i \in 1..l /\ i <= l - b.count /\ n[i] = a[i]
    <3>1. i \in 1..l /\ i <= l - b.count
      BY <2>1, <1>1, <1>4
    <3>2. QED
      BY <3>1, <1>4
  <2>2. ASSUME NEW i \in 1..Len(n), i <= Len(n) - f.count PROVE n[i] <= f.start
    BY <2>1, <2>2, <1>2, <1>5
  <2>3. ASSUME NEW i \in 1..Len(n), i + limit <= Len(n) - f.count
        PROVE  n[i] + Window <= f.start
    <3>1. i <= Len(n) - (b.count + 1) /\ i + limit <= l - b.count
      BY <2>3, <1>1, <1>2, <1>4
    <3>2. QED
      BY <3>1, <2>1, <1>2, <1>5
  <2>4. f.count <= Len(n)
    BY <1>1, <1>2, <1>4, <1>5
  <2>5. QED
    BY <2>2, <2>3, <2>4, <1>2 DEF Spaced
<1>8. Bounded(n, limit)
  <2> SUFFICES ASSUME NEW i \in 1..Len(n), NEW j \in 1..Len(n), j = i + 2 * limit
               PROVE  n[j] - n[i] >= Window
    BY DEF Bounded
  <2>1. CASE j = l + 1
    <3>1. i \in 1..l /\ i + limit <= l - b.count
      BY <2>1, <1>1, <1>4
    <3>2. a[i] + Window <= b.start /\ n[i] = a[i] /\ a[i] \in Nat /\ n[j] = t
      BY <3>1, <2>1, <1>4, <1>5
    <3>3. QED
      BY <3>2, <1>1, Times
  <2>2. CASE j # l + 1
    <3>1. i \in 1..l /\ j \in 1..l
      BY <2>2, <1>4
    <3>2. n[i] = a[i] /\ n[j] = a[j]
      BY <3>1, <1>4
    <3>3. a[j] - a[i] >= Window
      BY <3>1, <1>5 DEF Bounded, l
    <3>4. QED
      BY <3>2, <3>3
  <2>3. QED
    BY <2>1, <2>2
<1>9. Honest(f, None)
  BY DEF Honest
<1>10. QED
  BY <1>6, <1>7, <1>8, <1>9 DEF KeyOK, f, n

\* A request rejected in the current window.
LEMMA RejectFull ==
  ASSUME NEW limit \in Int, NEW t \in Nat,
         NEW b, NEW a, NEW cb, KeyOK(b, a, cb, limit, t),
         b # None, t - b.start < Window
  PROVE  /\ RetryAfter(b.start + Window - t) \in Nat
         /\ KeyOK([b EXCEPT !.seen = t], a,
                  t + RetryAfter(b.start + Window - t) * Second, limit, t)
<1> DEFINE f == [b EXCEPT !.seen = t]
           r == RetryAfter(b.start + Window - t)
<1>1. /\ b \in Bucket(limit) /\ b.count \in Nat /\ b.start \in Nat /\ b.seen \in Nat
      /\ b.start <= t
  BY DEF KeyOK, Sane, Bucket
<1>2. b.start + Window - t \in 1..Window
  BY <1>1, Times
<1>3. r \in Nat /\ r * Second + Millisecond > b.start + Window - t
      /\ r * Second < b.start + Window - t + Second
  BY <1>2, RetryAfterBounds
<1>4. /\ f \in Bucket(limit) /\ f # None
      /\ f.start = b.start /\ f.count = b.count /\ f.seen = t
  BY <1>1, NoneIsNot DEF Bucket
<1> HIDE DEF f, r
<1>5. r * Second \in Nat /\ t + r * Second # None
  BY <1>3, Times, RateLimitAssumption
<1>6. Sane(f, a, t + r * Second, limit, t)
  BY <1>1, <1>4, <1>5 DEF KeyOK, Sane
<1>7. Honest(f, t + r * Second)
  BY <1>1, <1>3, <1>4, <1>5, Times DEF Honest
<1>8. limit > 0 => Spaced(f, a, limit, t) /\ Bounded(a, limit)
  BY <1>4 DEF KeyOK, Spaced
<1>9. QED
  BY <1>3, <1>6, <1>7, <1>8 DEF KeyOK, f, r

\* A request rejected because its route is closed.
LEMMA RejectFresh ==
  ASSUME NEW limit \in Int, ~(limit > 0), NEW t \in Nat,
         NEW b, NEW a, NEW cb, KeyOK(b, a, cb, limit, t)
  PROVE  KeyOK([start |-> t, count |-> 1, seen |-> t], a, t + 0 * Second, limit, t)
<1> DEFINE f == [start |-> t, count |-> 1, seen |-> t]
<1>1. f \in Bucket(limit) /\ f.start = t /\ f.seen = t
  BY DEF Bucket
<1>2. t + 0 * Second \in Nat
  BY Times
<1> HIDE DEF f
<1>3. Sane(f, a, t + 0 * Second, limit, t)
  BY <1>1, <1>2 DEF KeyOK, Sane
<1>4. QED
  BY <1>3 DEF KeyOK, f

\* Time passes.
LEMMA Later ==
  ASSUME NEW limit \in Int, NEW t \in Nat, NEW u \in Nat, t <= u,
         NEW b, NEW a, NEW cb, KeyOK(b, a, cb, limit, t)
  PROVE  KeyOK(b, a, cb, limit, u)
<1>1. \A i \in 1..Len(a) : a[i] \in Nat
  BY DEF KeyOK, Sane
<1>2. b # None => b.seen \in Nat
  BY DEF KeyOK, Sane, Bucket
<1>3. Sane(b, a, cb, limit, u)
  <2>1. Sane(b, a, cb, limit, t)
    BY DEF KeyOK
  <2>2. \A i \in 1..Len(a) : a[i] <= t => a[i] <= u
    BY <1>1
  <2>3. b # None /\ b.seen <= t => b.seen <= u
    BY <1>2
  <2>4. QED
    BY <2>1, <2>2, <2>3 DEF Sane
<1>4. limit > 0 => Spaced(b, a, limit, u)
  BY <1>1, Times DEF KeyOK, Spaced
<1>5. QED
  BY <1>3, <1>4 DEF KeyOK

\* An idle bucket is dropped.
LEMMA Drop ==
  ASSUME NEW limit \in Int, NEW t \in Nat,
         NEW b, NEW a, NEW cb, KeyOK(b, a, cb, limit, t),
         b # None, t - b.seen > IdleTTL
  PROVE  KeyOK(None, a, cb, limit, t)
<1>1. /\ \A i \in 1..Len(a) : a[i] \in Nat /\ a[i] <= b.seen
      /\ b.seen \in Nat
  BY DEF KeyOK, Sane, Bucket
<1>2. Sane(None, a, cb, limit, t)
  BY DEF KeyOK, Sane
<1>3. Spaced(None, a, limit, t)
  BY <1>1, Times DEF Spaced
<1>4. QED
  BY <1>2, <1>3 DEF KeyOK, Honest

-----------------------------------------------------------------------------
(* The steps.                                                              *)

LEMMA KeyHasLimit == ASSUME NEW k \in Key PROVE Limit[k[1]] \in Int
  BY RateLimitAssumption DEF Key

\* Whether it prunes or not, a request leaves nothing too old.
LEMMA PrunedOK ==
  ASSUME Inv
  PROVE  /\ Pruned = [k \in Key |-> Pruned[k]]
         /\ \A k \in Key :
              /\ KeyOK(Pruned[k], admitted[k], comeBack[k], Limit[k[1]], now)
              /\ Pruned[k] # None =>
                   /\ (IF PruneDue THEN now ELSE lastPrune) - Pruned[k].seen <= IdleTTL
                   /\ now - Pruned[k].seen <= IdleTTL + PruneInterval
<1>1. Pruned = [k \in Key |-> Pruned[k]]
  BY DEF Inv, Pruned
<1>2. ASSUME NEW k \in Key
      PROVE  /\ KeyOK(Pruned[k], admitted[k], comeBack[k], Limit[k[1]], now)
             /\ Pruned[k] # None =>
                  /\ (IF PruneDue THEN now ELSE lastPrune) - Pruned[k].seen <= IdleTTL
                  /\ now - Pruned[k].seen <= IdleTTL + PruneInterval
  <2>1. KeyOK(bucket[k], admitted[k], comeBack[k], Limit[k[1]], now)
    BY DEF Inv
  <2>2. bucket[k] # None => bucket[k].seen \in Nat /\ lastPrune - bucket[k].seen <= IdleTTL
    BY <2>1 DEF Inv, KeyOK, Sane, Bucket
  <2>3. now \in Nat /\ lastPrune \in Nat
    BY DEF Inv
  <2>4. CASE PruneDue /\ bucket[k] # None /\ now - bucket[k].seen > IdleTTL
    <3>1. Pruned[k] = None
      BY <2>4 DEF Pruned, Idle
    <3>2. KeyOK(None, admitted[k], comeBack[k], Limit[k[1]], now)
      BY <2>1, <2>3, <2>4, KeyHasLimit, Drop
    <3>3. QED
      BY <3>1, <3>2
  <2>5. CASE PruneDue /\ ~(bucket[k] # None /\ now - bucket[k].seen > IdleTTL)
    <3>1. Pruned[k] = bucket[k]
      BY <2>5 DEF Pruned, Idle
    <3>2. QED
      BY <3>1, <2>1, <2>2, <2>3, <2>5, Times
  <2>6. CASE ~PruneDue
    <3>1. Pruned[k] = bucket[k]
      BY <2>6 DEF Pruned
    <3>2. now - lastPrune < PruneInterval
      BY <2>3, <2>6, Times DEF PruneDue
    <3>3. QED
      BY <3>1, <3>2, <2>1, <2>2, <2>3, <2>6, Times
  <2>7. QED
    BY <2>4, <2>5, <2>6
<1>3. QED
  BY <1>1, <1>2

\* One key changes: its bucket, its history and what it was told.
LEMMA OneKey ==
  ASSUME Inv, NEW k \in Key, NEW f, NEW a, NEW cb, NEW answer,
         KeyOK(f, a, cb, Limit[k[1]], now), f # None, f.seen = now,
         answer \in Nat \cup {None},
         bucket' = [Pruned EXCEPT ![k] = f],
         admitted' = [admitted EXCEPT ![k] = a],
         comeBack' = [comeBack EXCEPT ![k] = cb],
         rejected' = answer,
         lastPrune' = IF PruneDue THEN now ELSE lastPrune,
         UNCHANGED <<now, delays, valid>>
  PROVE  /\ Inv'
         /\ \A x \in Key : bucket'[x] # None => now - bucket'[x].seen <= IdleTTL + PruneInterval
<1>1. now \in Nat /\ lastPrune \in Nat /\ lastPrune <= now
  BY DEF Inv
<1>2. lastPrune' \in Nat /\ lastPrune' <= now
  BY <1>1
<1>3. bucket' = [x \in Key |-> bucket'[x]] /\ DOMAIN bucket' = Key
  BY PrunedOK
<1>4. bucket'[k] = f /\ admitted'[k] = a /\ comeBack'[k] = cb
  BY PrunedOK DEF Inv
<1>5. \A x \in Key : x # k =>
        bucket'[x] = Pruned[x] /\ admitted'[x] = admitted[x] /\ comeBack'[x] = comeBack[x]
  BY PrunedOK DEF Inv
<1>6. a \in Seq(Nat) /\ cb \in Nat \cup {None}
  BY DEF KeyOK, Sane
<1>7. admitted' \in [Key -> Seq(Nat)] /\ comeBack' \in [Key -> Nat \cup {None}]
  BY <1>6 DEF Inv
<1>8. ASSUME NEW x \in Key
      PROVE  /\ KeyOK(bucket'[x], admitted'[x], comeBack'[x], Limit[x[1]], now)
             /\ bucket'[x] # None => lastPrune' - bucket'[x].seen <= IdleTTL
             /\ bucket'[x] # None => now - bucket'[x].seen <= IdleTTL + PruneInterval
  <2>1. CASE x = k
    BY <2>1, <1>1, <1>2, <1>4, Times
  <2>2. CASE x # k
    BY <2>2, <1>5, PrunedOK
  <2>3. QED
    BY <2>1, <2>2
<1>9. QED
  BY <1>2, <1>3, <1>7, <1>8 DEF Inv

LEMMA RequestOK ==
  ASSUME Inv, NEW c \in Caller, NEW r \in Route, Request(c, r)
  PROVE  /\ Inv'
         /\ \A x \in Key : bucket'[x] # None => now - bucket'[x].seen <= IdleTTL + PruneInterval
<1> DEFINE k == <<r, IdentityOf(c)>>
           b == Pruned[k]
           limit == Limit[r]
           fresh == [start |-> now, count |-> 1, seen |-> now]
<1>1. k \in Key /\ Limit[k[1]] = limit /\ limit \in Int
  BY RateLimitAssumption DEF Key, Identity, IdentityOf
<1>2. /\ now \in Nat
      /\ KeyOK(b, admitted[k], comeBack[k], limit, now)
      /\ UNCHANGED <<now, delays, valid>>
      /\ lastPrune' = IF PruneDue THEN now ELSE lastPrune
  BY <1>1, PrunedOK DEF Inv, Request, Check
<1>5. fresh # None /\ fresh.seen = now
  <2>1. fresh \in [start : Nat, count : Nat, seen : Nat]
    BY <1>2
  <2>2. QED
    BY <2>1, RateLimitAssumption
<1>6. b # None => /\ b \in Bucket(limit) /\ b.count \in Nat /\ b.start \in Nat
                  /\ [b EXCEPT !.seen = now] # None
                  /\ [b EXCEPT !.seen = now, !.count = @ + 1] # None
                  /\ [b EXCEPT !.seen = now].seen = now
                  /\ [b EXCEPT !.seen = now, !.count = @ + 1].seen = now
  <2>1. b # None => b \in [start : Nat, count : Nat, seen : Nat] /\ b \in Bucket(limit)
    BY <1>2 DEF KeyOK, Sane, Bucket
  <2>2. b # None => /\ [b EXCEPT !.seen = now] \in [start : Nat, count : Nat, seen : Nat]
                    /\ [b EXCEPT !.seen = now, !.count = @ + 1] \in [start : Nat, count : Nat, seen : Nat]
    <3> SUFFICES ASSUME b # None
                 PROVE  /\ [b EXCEPT !.seen = now] \in [start : Nat, count : Nat, seen : Nat]
                        /\ [b EXCEPT !.seen = now, !.count = @ + 1] \in [start : Nat, count : Nat, seen : Nat]
      OBVIOUS
    <3>1. b \in [start : Nat, count : Nat, seen : Nat] /\ now \in Nat /\ b.count + 1 \in Nat
      BY <2>1, <1>2
    <3> HIDE DEF b
    <3>2. QED
      BY <3>1
  <2>3. QED
    BY <2>1, <2>2, RateLimitAssumption
<1>7. CASE Over(b) /\ limit > 0
  <2>1. b # None => now - b.start >= Window
    BY <1>7 DEF Over
  <2>2. KeyOK(fresh, Append(admitted[k], now), None, limit, now)
    BY <1>1, <1>2, <1>7, <2>1, AdmitFresh
  <2>3. Admit(k, fresh)
    BY <1>7 DEF Request, Check
  <2> HIDE DEF k, b, limit, fresh
  <2>4. QED
    BY <2>2, <2>3, <1>1, <1>2, <1>5, OneKey DEF Admit
<1>8. CASE Over(b) /\ ~(limit > 0)
  <2>1. KeyOK(fresh, admitted[k], now + 0 * Second, limit, now)
    BY <1>1, <1>2, <1>8, RejectFresh
  <2>2. Reject(k, fresh, 0)
    BY <1>8 DEF Request, Check
  <2>3. admitted' = [admitted EXCEPT ![k] = admitted[k]]
    BY <2>2 DEF Reject, Inv
  <2> HIDE DEF k, b, limit, fresh
  <2>4. QED
    BY <2>1, <2>2, <2>3, <1>1, <1>2, <1>5, OneKey DEF Reject
<1>9. CASE ~Over(b) /\ Full(b, limit)
  <2> DEFINE retry == RetryAfter(b.start + Window - now)
  <2>1. b # None /\ now - b.start < Window
    BY <1>2, <1>6, <1>9, Times DEF Over
  <2>2. /\ retry \in Nat
        /\ KeyOK([b EXCEPT !.seen = now], admitted[k], now + retry * Second, limit, now)
    BY <1>1, <1>2, <2>1, RejectFull
  <2>3. Reject(k, [b EXCEPT !.seen = now], retry)
    BY <1>9 DEF Request, Check
  <2>4. admitted' = [admitted EXCEPT ![k] = admitted[k]]
    BY <2>3 DEF Reject, Inv
  <2> HIDE DEF k, b, limit, fresh, retry
  <2>5. QED
    BY <2>1, <2>2, <2>3, <2>4, <1>1, <1>2, <1>6, OneKey DEF Reject
<1>10. CASE ~Over(b) /\ ~Full(b, limit)
  <2>1. b # None /\ b.count < limit /\ limit > 0
    <3>1. b # None
      BY <1>10 DEF Over
    <3>2. b.count \in 1..(IF limit > 0 THEN limit ELSE 1) /\ ~(b.count >= limit)
      BY <3>1, <1>6, <1>10 DEF Full, Bucket
    <3>3. QED
      BY <3>1, <3>2, <1>1
  <2>2. KeyOK([b EXCEPT !.seen = now, !.count = @ + 1], Append(admitted[k], now), None, limit, now)
    BY <1>1, <1>2, <2>1, AdmitMore
  <2>3. Admit(k, [b EXCEPT !.seen = now, !.count = @ + 1])
    BY <1>10 DEF Request, Check
  <2> HIDE DEF k, b, limit, fresh
  <2>4. QED
    BY <2>1, <2>2, <2>3, <1>1, <1>2, <1>6, OneKey DEF Admit
<1>11. QED
  BY <1>7, <1>8, <1>9, <1>10

LEMMA NextInv ==
  ASSUME Inv, [Next]_vars
  PROVE  Inv'
<1>1. ASSUME NEW c \in Caller, NEW r \in Route, Request(c, r) PROVE Inv'
  BY <1>1, RequestOK
<1>2. ASSUME NEW c \in Caller, TokenChanges(c) PROVE Inv'
  <2>1. valid' \subseteq Caller
    BY <1>2 DEF TokenChanges, Inv
  <2>2. QED
    BY <1>2, <2>1 DEF TokenChanges, Inv
<1>3. CASE Pass
  <2>1. PICK d \in Delay : now' = now + d
    BY <1>3 DEF Pass
  <2>2. now \in Nat /\ now' \in Nat /\ now <= now' /\ lastPrune \in Nat /\ lastPrune <= now
    BY <2>1, RateLimitAssumption DEF Inv
  <2>3. delays' \in 0..MaxDelays
    BY <1>3, RateLimitAssumption DEF Pass, Inv
  <2>4. \A k \in Key : KeyOK(bucket[k], admitted[k], comeBack[k], Limit[k[1]], now')
    <3> TAKE k \in Key
    <3>1. KeyOK(bucket[k], admitted[k], comeBack[k], Limit[k[1]], now)
      BY DEF Inv
    <3>2. QED
      BY <3>1, <2>2, KeyHasLimit, Later
  <2>5. lastPrune <= now'
    BY <2>2
  <2>6. QED
    BY <1>3, <2>2, <2>3, <2>4, <2>5 DEF Pass, Inv
<1>4. CASE UNCHANGED vars
  BY <1>4 DEF vars, Inv
<1>5. QED
  BY <1>1, <1>2, <1>3, <1>4 DEF Next

LEMMA InitInv == Init => Inv
<1> SUFFICES ASSUME Init PROVE Inv
  OBVIOUS
<1>1. /\ now \in Nat /\ delays \in 0..MaxDelays /\ valid \subseteq Caller
      /\ lastPrune \in Nat /\ lastPrune <= now /\ rejected = None
  BY Times, RateLimitAssumption DEF Init
<1>2. ASSUME NEW k \in Key
      PROVE  bucket[k] = None /\ KeyOK(bucket[k], admitted[k], comeBack[k], Limit[k[1]], now)
  <2>1. bucket[k] = None /\ admitted[k] = <<>> /\ comeBack[k] = None
    BY DEF Init
  <2>2. 1..Len(<<>>) = {} /\ <<>> \in Seq(Nat)
    OBVIOUS
  <2>3. QED
    BY <2>1, <2>2 DEF KeyOK, Sane, Spaced, Bounded, Honest
<1>3. /\ DOMAIN bucket = Key /\ bucket = [k \in Key |-> bucket[k]]
      /\ admitted \in [Key -> Seq(Nat)] /\ comeBack \in [Key -> Nat \cup {None}]
  BY DEF Init
<1>4. QED
  BY <1>1, <1>2, <1>3 DEF Inv

LEMMA Invariant == Spec => []Inv
  BY InitInv, NextInv, PTL DEF Spec

-----------------------------------------------------------------------------
(* The state is well formed, and no bucket counts more requests than its   *)
(* route allows (_check).                                                  *)
THEOREM TypeCorrect == Spec => []TypeOK
<1>1. Inv => TypeOK
  BY DEF Inv, KeyOK, Sane, TypeOK
<1>2. QED
  BY <1>1, Invariant, PTL

(* In any minute, a caller gets at most twice its limit (_check).          *)
THEOREM RateIsBounded == Spec => []RateBound
<1>1. Inv => RateBound
  <2> SUFFICES ASSUME Inv, NEW k \in Key, Limit[k[1]] > 0, NEW i \in DOMAIN admitted[k],
                      i + 2 * Limit[k[1]] \in DOMAIN admitted[k]
               PROVE  admitted[k][i + 2 * Limit[k[1]]] - admitted[k][i] >= Window
    BY DEF RateBound
  <2>1. Bounded(admitted[k], Limit[k[1]]) /\ admitted[k] \in Seq(Nat)
    BY DEF Inv, KeyOK
  <2>2. DOMAIN admitted[k] = 1..Len(admitted[k])
    BY <2>1
  <2>3. QED
    BY <2>1, <2>2 DEF Bounded
<1>2. QED
  BY <1>1, Invariant, PTL

(* A rejected caller is told to come back when its window is over, give or *)
(* take a second (_check).                                                 *)
THEOREM RetryIsHonest == Spec => []RetryHonest
<1>1. Inv => RetryHonest
  BY DEF Inv, KeyOK, Honest, RetryHonest
<1>2. QED
  BY <1>1, Invariant, PTL

(* A request leaves no bucket behind that has been idle for longer than    *)
(* the idle time and a prune interval (_prune).                            *)
THEOREM OldBucketsGo == Spec => NoOldBuckets
<1>1. Inv /\ [Next]_vars =>
        [\A c \in Caller, r \in Route : Request(c, r) =>
           \A k \in Key : bucket'[k] # None =>
             now - bucket'[k].seen <= IdleTTL + PruneInterval]_vars
  BY RequestOK
<1>2. QED
  BY <1>1, Invariant, PTL DEF Spec, NoOldBuckets

-----------------------------------------------------------------------------
(* Subtree and SubtreeCache.                                               *)

LEMMA Tailed ==
  ASSUME NEW s \in Seq(Code), s # <<>>
  PROVE  /\ Len(s) \in Nat /\ Len(s) >= 1 /\ Head(s) = s[1] /\ s[1] \in Code
         /\ Tail(s) \in Seq(Code) /\ Len(Tail(s)) = Len(s) - 1
         /\ \A i \in 1..Len(Tail(s)) : Tail(s)[i] = s[i + 1]
  OBVIOUS

LEMMA Appended ==
  ASSUME NEW s \in Seq(Code), NEW x \in Code
  PROVE  /\ Append(s, x) \in Seq(Code) /\ Len(s) \in Nat
         /\ Len(Append(s, x)) = Len(s) + 1 /\ Append(s, x)[Len(s) + 1] = x
         /\ \A i \in 1..Len(s) : Append(s, x)[i] = s[i]
  OBVIOUS

LEMMA RowFields ==
  ASSUME rows \in RowLists, NEW i \in DOMAIN rows
  PROVE  rows[i].code \in Code \cup {NoCode} /\ rows[i].level \in Level \cup {NoLevel}
<1>1. rows \in Seq(Row)
  BY SubtreeAssumption
<1>2. rows[i] \in Row
  BY <1>1
<1>3. QED
  BY <1>2 DEF Row

-----------------------------------------------------------------------------
(* The inductive invariant.                                                *)

\* What has been seen is in the queue or has been expanded.
Bookkeeping ==
  /\ root \in seen /\ expanded \subseteq seen
  /\ \A i \in 1..Len(queue) : queue[i] \in seen
  /\ \A x \in seen : x \in expanded \/ \E i \in 1..Len(queue) : queue[i] = x

\* The children of an expanded code have been seen, or are being looked at.
Frontier ==
  /\ \A i \in todo : rows[i].parent \in expanded
  /\ \A i \in DOMAIN rows :
       rows[i].parent \in expanded /\ rows[i].code # NoCode => rows[i].code \in seen \/ i \in todo

\* Nothing is seen without need.
Needed == \A S \in SUBSET Code : root \in S /\ Closed(S) => seen \subseteq S

ListedSeen ==
  /\ \A l \in Level : result[l] \subseteq seen \ {root}
  /\ \A x \in seen \ {root} : AlwaysLevelled(x) => \E l \in Level : x \in result[l]

SearchInv == ResolveTypeOK /\ Bookkeeping /\ ExpandedOnce /\ Frontier /\ Needed /\ ListedSeen /\ OneLevel

LEMMA SearchInitInv == ResolveInit => SearchInv
<1> SUFFICES ASSUME ResolveInit PROVE SearchInv
  OBVIOUS
<1>1. queue = <<root>> /\ root \in Code /\ Len(<<root>>) = 1 /\ <<root>>[1] = root
  BY DEF ResolveInit
<1>2. ResolveTypeOK
  BY <1>1 DEF ResolveInit, ResolveTypeOK
<1>3. Bookkeeping /\ ExpandedOnce
  BY <1>1 DEF ResolveInit, Bookkeeping, ExpandedOnce
<1>4. Frontier /\ Needed
  BY DEF ResolveInit, Frontier, Needed
<1>5. ListedSeen /\ OneLevel
  BY DEF ResolveInit, ListedSeen, OneLevel, ListedAt
<1>6. QED
  BY <1>2, <1>3, <1>4, <1>5 DEF SearchInv

LEMMA ExpandInv == ASSUME SearchInv, Expand PROVE SearchInv'
<1> DEFINE x == Head(queue)
<1>1. /\ queue \in Seq(Code) /\ queue # <<>> /\ rows \in RowLists
      /\ queue' = Tail(queue) /\ todo = {} /\ todo' = Children(x)
      /\ expanded' = expanded \cup {x}
      /\ rows' = rows /\ root' = root /\ seen' = seen /\ result' = result
  BY DEF SearchInv, ResolveTypeOK, Expand
<1>2. /\ Len(queue) \in Nat /\ Len(queue) >= 1 /\ x = queue[1] /\ x \in Code
      /\ queue' \in Seq(Code) /\ Len(queue') = Len(queue) - 1
      /\ \A i \in 1..Len(queue') : queue'[i] = queue[i + 1]
  BY <1>1, Tailed
<1>3. 1 \in 1..Len(queue) /\ \A i \in 1..Len(queue') : i + 1 \in 1..Len(queue) /\ i + 1 # 1
  BY <1>2
<1>4. x \in seen
  BY <1>2, <1>3 DEF SearchInv, Bookkeeping
<1> HIDE DEF x
<1>5. ResolveTypeOK'
  BY <1>1, <1>2 DEF SearchInv, ResolveTypeOK, Children
<1>6. Bookkeeping'
  <2>1. \A i \in 1..Len(queue') : queue'[i] \in seen
    BY <1>2, <1>3 DEF SearchInv, Bookkeeping
  <2>2. ASSUME NEW y \in seen, y \notin expanded, y # x
        PROVE  \E i \in 1..Len(queue') : queue'[i] = y
    <3>1. PICK j \in 1..Len(queue) : queue[j] = y
      BY <2>2 DEF SearchInv, Bookkeeping
    <3>2. j # 1
      BY <2>2, <3>1, <1>2
    <3>3. j - 1 \in 1..Len(queue') /\ (j - 1) + 1 = j
      BY <3>2, <1>2
    <3>4. queue'[j - 1] = y
      BY <3>1, <3>3, <1>2
    <3>5. QED
      BY <3>3, <3>4
  <2>3. QED
    BY <2>1, <2>2, <1>1, <1>4 DEF SearchInv, Bookkeeping
<1>7. ExpandedOnce'
  <2>1. ASSUME NEW i \in 1..Len(queue'), NEW j \in 1..Len(queue'), queue'[i] = queue'[j] PROVE i = j
    <3>1. i + 1 = j + 1
      BY <2>1, <1>2, <1>3 DEF SearchInv, ExpandedOnce
    <3>2. QED
      BY <3>1
  <2>2. ASSUME NEW i \in 1..Len(queue') PROVE queue'[i] \notin expanded \cup {x}
    BY <2>2, <1>2, <1>3 DEF SearchInv, ExpandedOnce
  <2>3. QED
    BY <2>1, <2>2, <1>1 DEF ExpandedOnce
<1>8. Frontier'
  BY <1>1 DEF SearchInv, Frontier, Children
<1>9. Needed' /\ ListedSeen' /\ OneLevel'
  BY <1>1 DEF SearchInv, Needed, Closed, ListedSeen, AlwaysLevelled, OneLevel, ListedAt
<1>10. QED
  BY <1>5, <1>6, <1>7, <1>8, <1>9 DEF SearchInv

LEMMA LookInv == ASSUME SearchInv, NEW i \in todo, Look(i) PROVE SearchInv'
<1> DEFINE r == rows[i]
<1>1. /\ rows \in RowLists /\ i \in DOMAIN rows /\ todo' = todo \ {i}
      /\ rows' = rows /\ root' = root /\ expanded' = expanded
  BY DEF SearchInv, ResolveTypeOK, Look
<1>2. r.code \in Code \cup {NoCode} /\ r.level \in Level \cup {NoLevel} /\ r.parent \in expanded
  BY <1>1, RowFields DEF SearchInv, Frontier
<1>3. CASE Skipped(r)
  <2>1. queue' = queue /\ seen' = seen /\ result' = result
    BY <1>3 DEF Look
  <2>2. ResolveTypeOK' /\ Bookkeeping' /\ ExpandedOnce'
    BY <2>1, <1>1 DEF SearchInv, ResolveTypeOK, Bookkeeping, ExpandedOnce
  <2>3. Frontier'
    BY <2>1, <1>1, <1>3 DEF SearchInv, Frontier, Skipped
  <2>4. Needed' /\ ListedSeen' /\ OneLevel'
    BY <2>1, <1>1 DEF SearchInv, Needed, Closed, ListedSeen, AlwaysLevelled, OneLevel, ListedAt
  <2>5. QED
    BY <2>2, <2>3, <2>4 DEF SearchInv
<1>4. CASE ~Skipped(r)
  <2> DEFINE x == r.code
  <2>1. /\ x \in Code /\ x \notin seen /\ x # NoCode
        /\ seen' = seen \cup {x}
        /\ queue' = Append(queue, x)
        /\ result' = [l \in Level |-> IF l = r.level THEN result[l] \cup {x} ELSE result[l]]
    BY <1>2, <1>4 DEF Look, Skipped, Mark, Queued, Listed
  <2>2. /\ queue \in Seq(Code) /\ queue' \in Seq(Code) /\ Len(queue) \in Nat
        /\ Len(queue') = Len(queue) + 1 /\ queue'[Len(queue) + 1] = x
        /\ \A k \in 1..Len(queue) : queue'[k] = queue[k]
    BY <2>1, Appended DEF SearchInv, ResolveTypeOK
  <2>3. /\ Len(queue) + 1 \in 1..Len(queue')
        /\ 1..Len(queue) \subseteq 1..Len(queue')
        /\ \A k \in 1..Len(queue') : k = Len(queue) + 1 \/ k \in 1..Len(queue)
    BY <2>2
  <2>4. x # root /\ \A l \in Level : x \notin result[l]
    BY <2>1 DEF SearchInv, Bookkeeping, ListedSeen
  <2> HIDE DEF x
  <2>5. ResolveTypeOK'
    <3>1. result' \in [Level -> SUBSET Code]
      BY <2>1 DEF SearchInv, ResolveTypeOK
    <3>2. QED
      BY <3>1, <1>1, <2>1, <2>2 DEF SearchInv, ResolveTypeOK
  <2>6. Bookkeeping'
    <3>1. \A k \in 1..Len(queue') : queue'[k] \in seen'
      BY <2>1, <2>2, <2>3 DEF SearchInv, Bookkeeping
    <3>2. \A y \in seen' : y \in expanded \/ \E k \in 1..Len(queue') : queue'[k] = y
      BY <2>1, <2>2, <2>3 DEF SearchInv, Bookkeeping
    <3>3. QED
      BY <3>1, <3>2, <1>1, <2>1 DEF SearchInv, Bookkeeping
  <2>7. ExpandedOnce'
    <3>1. \A k \in 1..Len(queue) : queue[k] # x
      BY <2>1 DEF SearchInv, Bookkeeping
    <3>2. ASSUME NEW k \in 1..Len(queue'), NEW m \in 1..Len(queue'), queue'[k] = queue'[m] PROVE k = m
      BY <3>1, <3>2, <2>2, <2>3 DEF SearchInv, ExpandedOnce
    <3>3. x \notin expanded
      BY <2>1 DEF SearchInv, Bookkeeping
    <3>4. \A k \in 1..Len(queue') : queue'[k] \notin expanded
      BY <3>3, <2>2, <2>3 DEF SearchInv, ExpandedOnce
    <3>5. QED
      BY <3>2, <3>4, <1>1 DEF ExpandedOnce
  <2>8. Frontier'
    BY <1>1, <2>1 DEF SearchInv, Frontier, x
  <2>9. Needed'
    <3>1. ASSUME NEW S \in SUBSET Code, root \in S, Closed(S) PROVE seen' \subseteq S
      <4>1. seen \subseteq S
        BY <3>1 DEF SearchInv, Needed
      <4>2. r.parent \in S
        BY <4>1, <1>2 DEF SearchInv, Bookkeeping
      <4>3. x \in S
        BY <4>2, <3>1, <1>1, <2>1 DEF Closed, x
      <4>4. QED
        BY <4>1, <4>3, <2>1
    <3>2. QED
      BY <3>1, <1>1 DEF Needed, Closed
  <2>10. ListedSeen'
    <3>1. \A l \in Level : result'[l] \subseteq seen' \ {root}
      BY <2>1, <2>4 DEF SearchInv, ListedSeen
    <3>2. ASSUME NEW y \in seen' \ {root}, AlwaysLevelled(y) PROVE \E l \in Level : y \in result'[l]
      <4>1. CASE y = x
        <5>1. r.level \in Level
          BY <4>1, <3>2, <1>1, <1>2 DEF AlwaysLevelled, x
        <5>2. x \in result'[r.level]
          BY <5>1, <2>1
        <5>3. QED
          BY <4>1, <5>1, <5>2
      <4>2. CASE y # x
        BY <4>2, <3>2, <2>1 DEF SearchInv, ListedSeen
      <4>3. QED
        BY <4>1, <4>2
    <3>3. QED
      BY <3>1, <3>2, <1>1 DEF ListedSeen, AlwaysLevelled
  <2>11. OneLevel'
    <3> SUFFICES ASSUME NEW y \in Code, NEW l \in Level, NEW m \in Level,
                        y \in result'[l], y \in result'[m]
                 PROVE  l = m /\ \E k \in DOMAIN rows : rows[k].code = y /\ rows[k].level = l
      BY <1>1 DEF OneLevel, ListedAt
    <3>1. CASE y = x
      BY <3>1, <1>1, <2>1, <2>4 DEF x
    <3>2. CASE y # x
      <4>1. y \in result[l] /\ y \in result[m]
        BY <3>2, <2>1
      <4>2. QED
        BY <4>1 DEF SearchInv, OneLevel, ListedAt
    <3>3. QED
      BY <3>1, <3>2
  <2>12. QED
    BY <2>5, <2>6, <2>7, <2>8, <2>9, <2>10, <2>11 DEF SearchInv
<1>5. QED
  BY <1>3, <1>4

LEMMA SearchInvariant == ResolveSpec => []SearchInv
<1>1. SearchInv /\ [ResolveNext]_resolving => SearchInv'
  <2> SUFFICES ASSUME SearchInv, [ResolveNext]_resolving PROVE SearchInv'
    OBVIOUS
  <2>1. CASE UNCHANGED resolving
    BY <2>1 DEF resolving, SearchInv, ResolveTypeOK, Bookkeeping, ExpandedOnce, Frontier, Needed, Closed,
                ListedSeen, AlwaysLevelled, OneLevel, ListedAt
  <2>2. QED
    BY <2>1, ExpandInv, LookInv DEF ResolveNext
<1>2. QED
  BY <1>1, SearchInitInv, PTL DEF ResolveSpec

-----------------------------------------------------------------------------
(* The state of the search is well formed (resolve_subtree).               *)
THEOREM SearchTypeCorrect == ResolveSpec => []ResolveTypeOK
  BY SearchInvariant, PTL DEF SearchInv

(* Exactly the codes below the root are listed when the search returns,    *)
(* none other before, each at one level, and none is expanded twice        *)
(* (resolve_subtree).                                                      *)
THEOREM Exact == ResolveSpec => []ExactSubtree
<1>1. SearchInv => OnlyBelow
  BY DEF SearchInv, ListedSeen, Needed, OnlyBelow, ListedAt, Under
<1>2. SearchInv => AllBelow
  <2> SUFFICES ASSUME SearchInv, Returned, NEW x \in Code \ {root}, Under(x), AlwaysLevelled(x)
               PROVE  ListedAt(x) # {}
    BY DEF AllBelow
  <2>1. seen = expanded
    BY DEF SearchInv, Returned, Bookkeeping
  <2>2. root \in seen /\ Closed(seen) /\ seen \in SUBSET Code
    BY <2>1 DEF SearchInv, ResolveTypeOK, Returned, Bookkeeping, Frontier, Closed
  <2>3. x \in seen
    BY <2>2 DEF Under
  <2>4. QED
    BY <2>3 DEF SearchInv, ListedSeen, ListedAt
<1>3. SearchInv => ExactSubtree
  BY <1>1, <1>2 DEF SearchInv, ExactSubtree
<1>4. QED
  BY <1>3, SearchInvariant, PTL

-----------------------------------------------------------------------------
(* The cache.                                                              *)


\* The current version is not superseded, and nothing is in the future.
Clock ==
  /\ superseded[version] = Nothing
  /\ \A v \in Version : v > version => superseded[v] = Nothing
  /\ \A r \in Coroutine : call[r].asked <= clock
  /\ \A k \in Root : cache[k] # Nothing => cache[k].expiry <= clock + TTL

\* The rows a call has read were current when it asked, or later.
RowsAreRecent ==
  \A r \in Coroutine : call[r].pc = "resolve" =>
    \/ superseded[call[r].rows] = Nothing
    \/ superseded[call[r].rows] >= call[r].asked

CacheInv == CacheTypeOK /\ Clock /\ RowsAreRecent /\ AtMostTTLOld /\ EntriesKeepTheirPromise

LEMMA CacheInitInv == CacheInit => CacheInv
<1> SUFFICES ASSUME CacheInit PROVE CacheInv
  OBVIOUS
<1>1. clock = 0 /\ version = 0 /\ version \in Version
  BY SubtreeCacheAssumption DEF CacheInit, Version
<1>2. \A r \in Coroutine : \E k \in Root :
        call[r] = [pc |-> "idle", root |-> k, asked |-> 0, rows |-> 0, subtree |-> Nothing]
  BY DEF CacheInit
<1>3. call \in [Coroutine -> CallState]
  BY <1>1, SubtreeCacheAssumption DEF CacheInit, CallState, Version
<1>4. QED
  BY <1>1, <1>2, <1>3, SubtreeCacheAssumption
     DEF CacheInit, CacheInv, CacheTypeOK, Clock, RowsAreRecent, AtMostTTLOld, EntriesKeepTheirPromise

LEMMA Numbers ==
  ASSUME CacheInv
  PROVE  /\ clock \in Nat /\ TTL \in Nat /\ TTL > 0 /\ Nothing \notin Nat
         /\ version \in Nat /\ version \in Version
         /\ \A v \in Version : superseded[v] \in Nat \cup {Nothing}
         /\ \A r \in Coroutine : /\ call[r] \in CallState /\ call[r].asked \in Nat /\ call[r].rows \in Version
                               /\ call[r].subtree \in Version \cup {Nothing} /\ call[r].root \in Root
         /\ \A k \in Root : cache[k] # Nothing =>
              cache[k] \in Entry /\ cache[k].expiry \in Nat /\ cache[k].subtree \in Version
         /\ Nothing \notin Version /\ Nothing \notin Entry
<1>1. Version \subseteq Nat
  BY DEF Version
<1>2. Entry \subseteq [expiry : Nat, subtree : Nat]
  BY <1>1 DEF Entry
<1>3. Nothing \notin Version /\ Nothing \notin Entry
  BY <1>1, <1>2, SubtreeCacheAssumption
<1>4. \A r \in Coroutine : /\ call[r] \in CallState /\ call[r].asked \in Nat /\ call[r].rows \in Version
                           /\ call[r].subtree \in Version \cup {Nothing} /\ call[r].root \in Root
  BY DEF CacheInv, CacheTypeOK, CallState
<1>5. \A k \in Root : cache[k] # Nothing =>
        cache[k] \in Entry /\ cache[k].expiry \in Nat /\ cache[k].subtree \in Version
  BY DEF CacheInv, CacheTypeOK, Entry
<1>6. QED
  BY <1>1, <1>3, <1>4, <1>5, SubtreeCacheAssumption DEF CacheInv, CacheTypeOK

LEMMA AskInv == ASSUME CacheInv, NEW r \in Coroutine, NEW k \in Root, Ask(r, k) PROVE CacheInv'
<1>1. UNCHANGED <<clock, version, superseded, cache>>
  BY DEF Ask
<1>2. \A q \in Coroutine : q # r => call'[q] = call[q]
  BY DEF Ask, CacheInv, CacheTypeOK
<1>3. CASE Valid(k)
  <2> DEFINE c == [call[r] EXCEPT !.root = k, !.asked = clock, !.subtree = cache[k].subtree]
  <2>1. cache[k] # Nothing /\ cache[k].expiry > clock
    BY <1>3 DEF Valid
  <2>2. call' = [call EXCEPT ![r] = c] /\ call[r].pc = "idle"
    BY <1>3 DEF Ask
  <2>3. /\ c \in CallState /\ c.pc = "idle" /\ c.asked = clock
        /\ c.subtree = cache[k].subtree /\ c.subtree \in Version
    BY <2>1, <2>2, Numbers DEF CallState
  <2> HIDE DEF c
  <2>4. call' \in [Coroutine -> CallState] /\ call'[r] = c
    BY <2>2, <2>3 DEF CacheInv, CacheTypeOK
  <2>5. superseded[c.subtree] = Nothing \/ superseded[c.subtree] + TTL > clock
    BY <2>1, <2>3, Numbers DEF CacheInv, EntriesKeepTheirPromise
  <2>6. CacheTypeOK' /\ Clock' /\ RowsAreRecent'
    BY <1>1, <1>2, <2>3, <2>4, Numbers DEF CacheInv, CacheTypeOK, Clock, RowsAreRecent
  <2>7. AtMostTTLOld' /\ EntriesKeepTheirPromise'
    BY <1>1, <1>2, <2>3, <2>4, <2>5 DEF CacheInv, AtMostTTLOld, EntriesKeepTheirPromise
  <2>8. QED
    BY <2>6, <2>7 DEF CacheInv
<1>4. CASE ~Valid(k)
  <2> DEFINE c == [call[r] EXCEPT !.root = k, !.asked = clock, !.subtree = Nothing, !.pc = "fetch"]
  <2>1. call' = [call EXCEPT ![r] = c]
    BY <1>4 DEF Ask
  <2>2. c \in CallState /\ c.pc = "fetch" /\ c.asked = clock /\ c.subtree = Nothing
    BY Numbers DEF CallState
  <2> HIDE DEF c
  <2>3. call' \in [Coroutine -> CallState] /\ call'[r] = c
    BY <2>1, <2>2 DEF CacheInv, CacheTypeOK
  <2>4. CacheTypeOK' /\ Clock' /\ RowsAreRecent'
    BY <1>1, <1>2, <2>2, <2>3, Numbers DEF CacheInv, CacheTypeOK, Clock, RowsAreRecent
  <2>5. AtMostTTLOld' /\ EntriesKeepTheirPromise'
    BY <1>1, <1>2, <2>2, <2>3 DEF CacheInv, AtMostTTLOld, EntriesKeepTheirPromise
  <2>6. QED
    BY <2>4, <2>5 DEF CacheInv
<1>5. QED
  BY <1>3, <1>4

LEMMA ReadInv == ASSUME CacheInv, NEW r \in Coroutine, Read(r) PROVE CacheInv'
<1> DEFINE c == [call[r] EXCEPT !.pc = "resolve", !.rows = version]
<1>1. UNCHANGED <<clock, version, superseded, cache>> /\ call' = [call EXCEPT ![r] = c]
  BY DEF Read
<1>2. \A q \in Coroutine : q # r => call'[q] = call[q]
  BY <1>1 DEF CacheInv, CacheTypeOK
<1>3. /\ c \in CallState /\ c.rows = version /\ c.asked = call[r].asked /\ c.subtree = call[r].subtree
  BY Numbers DEF CallState
<1> HIDE DEF c
<1>4. call' \in [Coroutine -> CallState] /\ call'[r] = c
  BY <1>1, <1>3 DEF CacheInv, CacheTypeOK
<1>5. CacheTypeOK' /\ Clock' /\ RowsAreRecent'
  BY <1>1, <1>2, <1>3, <1>4 DEF CacheInv, CacheTypeOK, Clock, RowsAreRecent
<1>6. AtMostTTLOld' /\ EntriesKeepTheirPromise'
  BY <1>1, <1>2, <1>3, <1>4 DEF CacheInv, AtMostTTLOld, EntriesKeepTheirPromise
<1>7. QED
  BY <1>5, <1>6 DEF CacheInv

LEMMA StoreInv == ASSUME CacheInv, NEW r \in Coroutine, Store(r) PROVE CacheInv'
<1> DEFINE c == [call[r] EXCEPT !.pc = "idle", !.subtree = call[r].rows]
           e == [expiry |-> call[r].asked + TTL, subtree |-> call[r].rows]
           k == call[r].root
<1>1. /\ UNCHANGED <<clock, version, superseded>> /\ call' = [call EXCEPT ![r] = c]
      /\ cache' = [cache EXCEPT ![k] = e] /\ call[r].pc = "resolve"
  BY DEF Store, EntryOf, ExpiryOf
<1>2. \A q \in Coroutine : q # r => call'[q] = call[q]
  BY <1>1 DEF CacheInv, CacheTypeOK
<1>3. /\ c \in CallState /\ c.pc = "idle" /\ c.asked = call[r].asked /\ c.subtree = call[r].rows
      /\ k \in Root
      /\ e \in Entry /\ e # Nothing /\ e.expiry = call[r].asked + TTL /\ e.subtree = call[r].rows
  <2>1. c \in CallState /\ c.pc = "idle" /\ c.asked = call[r].asked /\ c.subtree = call[r].rows
    BY Numbers DEF CallState
  <2>2. call[r].asked + TTL \in Nat /\ call[r].rows \in Version /\ k \in Root
    BY Numbers
  <2>3. e \in Entry /\ e.expiry = call[r].asked + TTL /\ e.subtree = call[r].rows
    BY <2>2 DEF Entry
  <2>4. QED
    BY <2>1, <2>2, <2>3, Numbers
<1>4. superseded[call[r].rows] = Nothing \/ superseded[call[r].rows] >= call[r].asked
  BY <1>1 DEF CacheInv, RowsAreRecent
<1>5. call[r].asked <= clock /\ call[r].asked \in Nat /\ superseded[call[r].rows] \in Nat \cup {Nothing}
  BY Numbers DEF CacheInv, Clock
<1> HIDE DEF c, e, k
<1>6. call' \in [Coroutine -> CallState] /\ call'[r] = c
  BY <1>1, <1>3 DEF CacheInv, CacheTypeOK
<1>7. /\ cache' \in [Root -> Entry \cup {Nothing}] /\ cache'[k] = e
      /\ \A x \in Root : x # k => cache'[x] = cache[x]
  BY <1>1, <1>3 DEF CacheInv, CacheTypeOK
<1>8. CacheTypeOK' /\ Clock' /\ RowsAreRecent'
  BY <1>1, <1>2, <1>3, <1>5, <1>6, <1>7, Numbers DEF CacheInv, CacheTypeOK, Clock, RowsAreRecent
<1>9. AtMostTTLOld'
  BY <1>1, <1>2, <1>3, <1>4, <1>5, <1>6, Numbers DEF CacheInv, AtMostTTLOld
<1>10. EntriesKeepTheirPromise'
  BY <1>1, <1>3, <1>4, <1>5, <1>7, Numbers DEF CacheInv, EntriesKeepTheirPromise
<1>11. QED
  BY <1>8, <1>9, <1>10 DEF CacheInv

LEMMA FailInv == ASSUME CacheInv, NEW r \in Coroutine, Fail(r) PROVE CacheInv'
<1> DEFINE c == [call[r] EXCEPT !.pc = "idle"]
<1>1. UNCHANGED <<clock, version, superseded, cache>> /\ call' = [call EXCEPT ![r] = c]
  BY DEF Fail
<1>2. \A q \in Coroutine : q # r => call'[q] = call[q]
  BY <1>1 DEF CacheInv, CacheTypeOK
<1>3. /\ c \in CallState /\ c.pc = "idle" /\ c.asked = call[r].asked /\ c.subtree = call[r].subtree
  BY Numbers DEF CallState
<1> HIDE DEF c
<1>4. call' \in [Coroutine -> CallState] /\ call'[r] = c
  BY <1>1, <1>3 DEF CacheInv, CacheTypeOK
<1>5. CacheTypeOK' /\ Clock' /\ RowsAreRecent'
  BY <1>1, <1>2, <1>3, <1>4 DEF CacheInv, CacheTypeOK, Clock, RowsAreRecent
<1>6. AtMostTTLOld' /\ EntriesKeepTheirPromise'
  BY <1>1, <1>2, <1>3, <1>4 DEF CacheInv, AtMostTTLOld, EntriesKeepTheirPromise
<1>7. QED
  BY <1>5, <1>6 DEF CacheInv

LEMMA ReorganiseInv == ASSUME CacheInv, Reorganise PROVE CacheInv'
<1>1. /\ UNCHANGED <<clock, cache, call>> /\ version' = version + 1 /\ version' \in Version
      /\ superseded' = [superseded EXCEPT ![version] = clock]
  BY SubtreeCacheAssumption DEF Reorganise, CacheInv, CacheTypeOK, Version
<1>2. /\ superseded' \in [Version -> Nat \cup {Nothing}] /\ superseded'[version] = clock
      /\ \A v \in Version : v # version => superseded'[v] = superseded[v]
  BY <1>1, Numbers DEF CacheInv, CacheTypeOK
<1>3. \A v \in Version : v \in Nat
  BY DEF Version
<1>4. Clock'
  BY <1>1, <1>2, <1>3, Numbers DEF CacheInv, Clock
<1>5. CacheTypeOK'
  BY <1>1, <1>2 DEF CacheInv, CacheTypeOK
<1>6. RowsAreRecent'
  BY <1>1, <1>2, Numbers DEF CacheInv, Clock, RowsAreRecent
<1>7. AtMostTTLOld'
  <2> SUFFICES ASSUME NEW r \in Coroutine, call[r].subtree # Nothing
               PROVE  \/ superseded'[call[r].subtree] = Nothing
                      \/ superseded'[call[r].subtree] + TTL > call[r].asked
    BY <1>1 DEF AtMostTTLOld
  <2>1. call[r].asked <= clock
    BY DEF CacheInv, Clock
  <2>2. QED
    BY <2>1, <1>2, Numbers DEF CacheInv, AtMostTTLOld
<1>8. EntriesKeepTheirPromise'
  BY <1>1, <1>2, Numbers DEF CacheInv, Clock, EntriesKeepTheirPromise
<1>9. QED
  BY <1>4, <1>5, <1>6, <1>7, <1>8 DEF CacheInv

LEMMA TickInv == ASSUME CacheInv, Tick PROVE CacheInv'
<1>1. UNCHANGED <<version, superseded, cache, call>> /\ clock' = clock + 1
  BY DEF Tick
<1>2. Clock'
  BY <1>1, Numbers DEF CacheInv, Clock
<1>3. QED
  BY <1>1, <1>2, Numbers DEF CacheInv, CacheTypeOK, RowsAreRecent, AtMostTTLOld, EntriesKeepTheirPromise

LEMMA CacheInvariant == CacheSpec => []CacheInv
<1>1. CacheInv /\ [CacheNext]_cacheVars => CacheInv'
  <2> SUFFICES ASSUME CacheInv, [CacheNext]_cacheVars PROVE CacheInv'
    OBVIOUS
  <2>1. CASE UNCHANGED cacheVars
    BY <2>1 DEF cacheVars, CacheInv, CacheTypeOK, Clock, RowsAreRecent, AtMostTTLOld, EntriesKeepTheirPromise
  <2>2. QED
    BY <2>1, AskInv, ReadInv, StoreInv, FailInv, ReorganiseInv, TickInv DEF CacheNext
<1>2. QED
  BY <1>1, CacheInitInv, PTL DEF CacheSpec

-----------------------------------------------------------------------------
(* The cache, the calls and the clock are well formed (get_subtree_for).   *)
THEOREM CacheTypeCorrect == CacheSpec => []CacheTypeOK
  BY CacheInvariant, PTL DEF CacheInv

(* Whatever the number of calls, the order in which their fetches end and  *)
(* how often the hierarchy changes, no call returns a subtree that was out *)
(* of date for TTL when the call was made (get_subtree_for).               *)
THEOREM SubtreesAreFresh == CacheSpec => []AtMostTTLOld
  BY CacheInvariant, PTL DEF CacheInv

(* No entry outlives its rows by more than TTL (get_subtree_for).          *)
THEOREM EntriesAreFresh == CacheSpec => []EntriesKeepTheirPromise
  BY CacheInvariant, PTL DEF CacheInv

-----------------------------------------------------------------------------
(* Auth: access.                                                           *)

\* A token that was issued carries the time of the login, in its expiry.
TokenVouched(token) ==
  \E t \in 0..minute : <<token.sub, t>> \in vouched /\ token.exp = t + Lifetime

VisitSound(v) ==
  /\ visit[v].pc = "verified" => visit[v].user \in Id /\ visit[v].row \in Account
  /\ visit[v].pc \in {"decoded", "acting"} =>
       /\ visit[v].token \in issued /\ visit[v].decoded < visit[v].token.exp
       /\ Rows(users) \subseteq visit[v].held
  /\ visit[v].pc = "acting" =>
       /\ visit[v].user = visit[v].token.sub
       /\ <<visit[v].user, visit[v].row>> \in visit[v].held
       /\ visit[v].row.is_active

AuthInv ==
  /\ AuthTypeOK
  /\ \A token \in issued : TokenVouched(token)
  /\ \A v \in Visitor : VisitSound(v)

LEMMA OutIsAVisit == Out \in Visit /\ Out.pc = "out"
  BY DEF Out, Visit

LEMMA AuthInitInv == AuthInit => AuthInv
<1> SUFFICES ASSUME AuthInit PROVE AuthInv
  OBVIOUS
<1>1. AuthTypeOK
  BY OutIsAVisit, AuthAssumption DEF AuthInit, AuthTypeOK
<1>2. \A v \in Visitor : VisitSound(v)
  BY OutIsAVisit DEF AuthInit, VisitSound
<1>3. QED
  BY <1>1, <1>2 DEF AuthInit, AuthInv

\* A step of one visit that leaves the table, and forgets no token and no login.
LEMMA VisitStep ==
  ASSUME AuthInv, NEW v \in Visitor, NEW r \in Visit, Become(v, r),
         UNCHANGED <<minute, users, edits>>,
         issued \subseteq issued', issued' \subseteq Token,
         vouched \subseteq vouched', vouched' \subseteq Id \X Nat,
         \A token \in issued' : TokenVouched(token)',
         r.pc = "verified" => r.user \in Id /\ r.row \in Account,
         r.pc \in {"decoded", "acting"} =>
           /\ r.token \in issued /\ r.decoded < r.token.exp /\ Rows(users) \subseteq r.held,
         r.pc = "acting" =>
           r.user = r.token.sub /\ <<r.user, r.row>> \in r.held /\ r.row.is_active
  PROVE  AuthInv'
<1>1. visit' = [visit EXCEPT ![v] = r] /\ visit'[v] = r
  BY DEF Become, AuthInv, AuthTypeOK
<1>2. AuthTypeOK'
  BY <1>1 DEF AuthInv, AuthTypeOK
<1>3. ASSUME NEW w \in Visitor PROVE VisitSound(w)'
  <2>1. Rows(users') = Rows(users)
    BY DEF Rows
  <2>2. CASE w = v
    BY <1>1, <2>1, <2>2 DEF VisitSound, Rows
  <2>3. CASE w # v
    <3>1. visit'[w] = visit[w] /\ VisitSound(w)
      BY <1>1, <2>3 DEF AuthInv, AuthTypeOK
    <3>2. QED
      BY <3>1, <2>1 DEF VisitSound, Rows
  <2>4. QED
    BY <2>2, <2>3
<1>4. QED
  BY <1>2, <1>3 DEF AuthInv

LEMMA TokensKept ==
  ASSUME AuthInv, minute' \in Nat, minute <= minute', issued' = issued, vouched' = vouched
  PROVE  \A token \in issued' : TokenVouched(token)'
<1> SUFFICES ASSUME NEW token \in issued' PROVE TokenVouched(token)'
  OBVIOUS
<1>1. PICK t \in 0..minute : <<token.sub, t>> \in vouched /\ token.exp = t + Lifetime
  BY DEF AuthInv, TokenVouched
<1>2. t \in 0..minute'
  BY <1>1 DEF AuthInv, AuthTypeOK
<1>3. QED
  BY <1>1, <1>2 DEF TokenVouched

LEMMA ReplaceKeepsInv ==
  ASSUME AuthInv, NEW table \in [Id -> Account \cup {Nobody}], Replace(table)
  PROVE  AuthInv'
<1> DEFINE Updated(w) ==
      IF visit[w].pc \in {"decoded", "acting"}
      THEN [visit[w] EXCEPT !.held = @ \cup Rows(table)] ELSE visit[w]
<1>1. users' = table /\ UNCHANGED <<minute, issued, vouched>> /\ edits' = edits + 1
  BY DEF Replace
<1>2. visit' = [w \in Visitor |-> Updated(w)]
  BY DEF Replace
<1>3. Rows(table) \subseteq Id \X Account /\ Rows(users') = Rows(table)
  BY <1>1 DEF Rows
<1>4. ASSUME NEW w \in Visitor
      PROVE  Updated(w) \in Visit /\ VisitSound(w)'
  <2>1. visit[w] \in Visit /\ VisitSound(w) /\ visit'[w] = Updated(w)
    BY <1>2 DEF AuthInv, AuthTypeOK
  <2>2. CASE visit[w].pc \in {"decoded", "acting"}
    <3>1. visit'[w] = [visit[w] EXCEPT !.held = @ \cup Rows(table)]
      BY <2>1, <2>2
    <3>2. visit'[w] \in Visit /\ visit'[w].held = visit[w].held \cup Rows(table)
      BY <2>1, <3>1, <1>3 DEF Visit
    <3>3. /\ visit'[w].pc = visit[w].pc /\ visit'[w].user = visit[w].user
          /\ visit'[w].row = visit[w].row /\ visit'[w].token = visit[w].token
          /\ visit'[w].decoded = visit[w].decoded
      BY <2>1, <3>1 DEF Visit
    <3>4. QED
      BY <1>1, <1>3, <2>1, <2>2, <3>2, <3>3 DEF VisitSound
  <2>3. CASE visit[w].pc \notin {"decoded", "acting"}
    BY <2>1, <2>3 DEF VisitSound
  <2>4. QED
    BY <2>2, <2>3
<1> HIDE DEF Updated
<1>5. AuthTypeOK'
  <2>1. visit' \in [Visitor -> Visit]
    BY <1>2, <1>4
  <2>2. edits' \in Nat
    BY <1>1 DEF AuthInv, AuthTypeOK
  <2>3. QED
    BY <1>1, <2>1, <2>2 DEF AuthInv, AuthTypeOK
<1>6. \A token \in issued' : TokenVouched(token)'
  BY <1>1, TokensKept DEF AuthInv, AuthTypeOK
<1>7. QED
  BY <1>4, <1>5, <1>6 DEF AuthInv

LEMMA AuthStep == AuthInv /\ [AuthNext]_authVars => AuthInv'
<1> SUFFICES ASSUME AuthInv, [AuthNext]_authVars PROVE AuthInv'
  OBVIOUS
<1> USE DEF AuthInv, AuthTypeOK
<1>0. /\ \A v \in Visitor : visit[v] \in Visit
      /\ UNCHANGED <<minute, issued, vouched>> => \A token \in issued' : TokenVouched(token)'
  BY TokensKept
<1>1. ASSUME NEW v \in Visitor, NEW name \in Username, NEW password \in Password,
             Verify(v, name, password)
      PROVE  AuthInv'
  <2>1. PICK i \in Named(users, name) :
          Become(v, [Out EXCEPT !.pc = "verified", !.user = i, !.row = users[i]])
    BY <1>1 DEF Verify
  <2> DEFINE r == [Out EXCEPT !.pc = "verified", !.user = i, !.row = users[i]]
  <2>2. i \in Id /\ users[i] \in Account
    BY DEF Named
  <2>3. r \in Visit /\ r.pc = "verified" /\ r.user = i /\ r.row = users[i]
    BY <2>2 DEF Out, Visit
  <2>4. UNCHANGED <<minute, users, issued, edits, vouched>>
    BY <1>1 DEF Verify
  <2> HIDE DEF r
  <2>5. QED
    BY <1>0, <2>1, <2>2, <2>3, <2>4, VisitStep DEF r
<1>2. ASSUME NEW v \in Visitor, Issue(v) PROVE AuthInv'
  <2>1. visit[v].user \in Id /\ visit[v].row \in Account
    BY <1>2 DEF Issue, VisitSound
  <2>2. /\ TokenOf(v) \in Token /\ TokenOf(v).sub = visit[v].user
        /\ TokenOf(v).exp = minute + Lifetime
    BY <2>1, AuthAssumption DEF TokenOf, Token, Account
  <2>3. /\ issued' = issued \cup {TokenOf(v)} /\ vouched' = vouched \cup {<<visit[v].user, minute>>}
        /\ Become(v, Out) /\ UNCHANGED <<minute, users, edits>>
    BY <1>2 DEF Issue
  <2>4. ASSUME NEW token \in issued' PROVE TokenVouched(token)'
    <3>1. CASE token \in issued
      BY <2>3, <3>1 DEF TokenVouched
    <3>2. CASE token = TokenOf(v)
      <4>1. minute \in 0..minute'
        BY <2>3
      <4>2. <<token.sub, minute>> \in vouched' /\ token.exp = minute + Lifetime
        BY <2>2, <2>3, <3>2
      <4>3. QED
        BY <4>1, <4>2 DEF TokenVouched
    <3>3. QED
      BY <2>3, <3>1, <3>2
  <2>5. issued' \subseteq Token /\ vouched' \subseteq Id \X Nat
    BY <2>1, <2>2, <2>3
  <2>6. QED
    BY <2>3, <2>4, <2>5, OutIsAVisit, VisitStep
<1>3. ASSUME NEW v \in Visitor, NEW token \in issued, Decode(v, token) PROVE AuthInv'
  <2> DEFINE r == [Out EXCEPT !.pc = "decoded", !.token = token, !.decoded = minute,
                              !.held = Rows(users)]
  <2>1. /\ Become(v, r) /\ ~Expired(token)
        /\ UNCHANGED <<minute, users, issued, edits, vouched>>
    BY <1>3 DEF Decode
  <2>2. Rows(users) \subseteq Id \X Account /\ token \in Token
    BY DEF Rows
  <2>3. /\ r \in Visit /\ r.pc = "decoded" /\ r.token = token /\ r.decoded = minute
        /\ r.held = Rows(users)
    BY <2>2 DEF Out, Visit
  <2>4. minute < token.exp
    BY <2>1, <2>2 DEF Expired, Token
  <2> HIDE DEF r
  <2>5. QED
    BY <1>0, <2>1, <2>3, <2>4, VisitStep
<1>4. ASSUME NEW v \in Visitor, Resolve(v) PROVE AuthInv'
  <2>1. PICK i \in Subject(visit[v].token) :
          /\ users[i].is_active
          /\ Become(v, [visit[v] EXCEPT !.pc = "acting", !.user = i, !.row = users[i]])
    BY <1>4 DEF Resolve
  <2> DEFINE r == [visit[v] EXCEPT !.pc = "acting", !.user = i, !.row = users[i]]
  <2>2. visit[v].pc = "decoded" /\ UNCHANGED <<minute, users, issued, edits, vouched>>
    BY <1>4 DEF Resolve
  <2>3. /\ visit[v].token \in issued /\ visit[v].decoded < visit[v].token.exp
        /\ Rows(users) \subseteq visit[v].held
    BY <2>2 DEF VisitSound
  <2>4. i = visit[v].token.sub /\ i \in Id /\ users[i] \in Account
    BY <2>3 DEF Subject, Token
  <2>5. /\ r \in Visit /\ r.pc = "acting" /\ r.user = i /\ r.row = users[i]
        /\ r.token = visit[v].token /\ r.decoded = visit[v].decoded /\ r.held = visit[v].held
    BY <1>0, <2>4 DEF Visit
  <2>6. <<i, users[i]>> \in Rows(users)
    BY <2>4 DEF Rows
  <2> HIDE DEF r
  <2>7. Become(v, r)
    BY <2>1 DEF r
  <2>8. QED
    BY <1>0, <2>1, <2>2, <2>3, <2>4, <2>5, <2>6, <2>7, VisitStep
<1>5. ASSUME NEW v \in Visitor, EndVisit(v) PROVE AuthInv'
  BY <1>0, <1>5, OutIsAVisit, VisitStep DEF EndVisit
<1>6. CASE Seed
  <2>1. PICK table \in [Id -> Account \cup {Nobody}] : Replace(table)
    BY <1>6 DEF Seed
  <2>2. QED
    BY <2>1, ReplaceKeepsInv
<1>7. CASE Administer
  <2>1. PICK i \in Id, row \in Account \cup {Nobody} : Replace([users EXCEPT ![i] = row])
    BY <1>7 DEF Administer
  <2>2. [users EXCEPT ![i] = row] \in [Id -> Account \cup {Nobody}]
    OBVIOUS
  <2>3. QED
    BY <2>1, <2>2, ReplaceKeepsInv
<1>8. CASE MinutePasses
  <2>1. \A token \in issued' : TokenVouched(token)'
    BY <1>8, TokensKept DEF MinutePasses
  <2>2. QED
    BY <1>8, <2>1 DEF MinutePasses, VisitSound, Rows
<1>9. CASE UNCHANGED authVars
  BY <1>0, <1>9 DEF authVars, VisitSound, Rows
<1>10. QED
  BY <1>1, <1>2, <1>3, <1>4, <1>5, <1>6, <1>7, <1>8, <1>9 DEF AuthNext

LEMMA AuthInvariant == AuthSpec => []AuthInv
<1>1. QED
  BY AuthInitInv, AuthStep, PTL DEF AuthSpec

(* The table, the tokens and the requests of Auth have the types stated.   *)
THEOREM AuthTypeCorrect == AuthSpec => []AuthTypeOK
<1>1. AuthInv => AuthTypeOK
  BY DEF AuthInv
<1>2. QED
  BY <1>1, AuthInvariant, PTL

(* A request acts as a user who gave the password, while the token lasts,  *)
(* with a row the user has, whatever becomes of the table: deps.py         *)
(* get_current_user, for any number of users, requests and changes.        *)
THEOREM RequestsAreVouched == AuthSpec => []AccessIsVouched
<1>1. ASSUME AuthInv PROVE AccessIsVouched
  <2> SUFFICES ASSUME NEW v \in Visitor, visit[v].pc = "acting"
               PROVE  /\ \E t \in 0..minute :
                           <<visit[v].user, t>> \in vouched /\ visit[v].decoded < t + Lifetime
                      /\ <<visit[v].user, visit[v].row>> \in visit[v].held
                      /\ visit[v].row.is_active
    BY DEF AccessIsVouched
  <2>1. VisitSound(v) /\ visit[v].token \in issued /\ TokenVouched(visit[v].token)
    BY <1>1 DEF AuthInv, VisitSound
  <2>2. QED
    BY <2>1 DEF VisitSound, TokenVouched
<1>2. QED
  BY <1>1, AuthInvariant, PTL

-----------------------------------------------------------------------------
(* Scope: every table filtered, or the query refused.                      *)

Guarded ==
  \A i \in DOMAIN query :
    /\ query[i].kind # "forbidden"
    /\ \A s \in DOMAIN query[i].from : Allowed(query[i].from[s])

Filters ==
  [i \in DOMAIN query |-> [s \in DOMAIN query[i].from |->
     IF s \in Scoped(i) THEN TablePredicate(query[i].from[s]) ELSE {}]]

Enforced ==
  \/ Unrestricted /\ filter = NoFilter
  \/ /\ ~Unrestricted /\ filter = Filters
     /\ \A i \in DOMAIN query : \A s \in Scoped(i) : ~Unenforceable(query[i].from[s])

ScopeInv ==
  /\ query \in Queries /\ cte_names \in CTENames /\ profile \in Profiles /\ subtree \in Subtrees
  /\ verdict \in {"written", "safe", "blocked", "refused", "run"}
  /\ verdict \in {"written", "safe"} => filter = NoFilter
  /\ verdict \in {"safe", "run"} => Guarded
  /\ verdict = "run" => Enforced

LEMMA ScopeStart == ScopeInit => ScopeInv
  BY DEF ScopeInit, ScopeInv

LEMMA ScopeStep == ScopeInv /\ [ScopeNext]_scoping => ScopeInv'
<1> SUFFICES ASSUME ScopeInv, [ScopeNext]_scoping PROVE ScopeInv'
  OBVIOUS
<1>1. UNCHANGED <<query, cte_names, profile, subtree>>
  BY DEF ScopeNext, AssertSafe, ApplyScope, scoping
<1>2. /\ NoFilter' = NoFilter /\ Guarded' = Guarded /\ Unrestricted' = Unrestricted
      /\ Filters' = Filters
      /\ \A t : Unenforceable(t)' = Unenforceable(t)
      /\ \A i : Scoped(i)' = Scoped(i)
      /\ \A source : Allowed(source)' = Allowed(source)
  BY <1>1 DEF NoFilter, Guarded, Allowed, Unrestricted, Filters, Unenforceable, Scoped, DirectTables,
     HasGeo, HasHier, HierMap, GeoPredicate, HierPredicate, TablePredicate
<1>3. CASE AssertSafe
  BY <1>1, <1>2, <1>3 DEF ScopeInv, AssertSafe, Guarded
<1>4. CASE ApplyScope
  BY <1>1, <1>2, <1>4 DEF ScopeInv, ApplyScope, Enforced, Filters
<1>5. CASE UNCHANGED scoping
  BY <1>1, <1>2, <1>5 DEF ScopeInv, scoping, Enforced
<1>6. QED
  BY <1>3, <1>4, <1>5 DEF ScopeNext

\* What the predicates of a table let through.
LEMMA PassesInScope ==
  ASSUME ScopeInv, NEW t \in Whitelist \ Reference, ~Unenforceable(t), NEW row \in Data[t]
  PROVE  Passes(row, TablePredicate(t)) <=> InScope(t, row)
<1>1. Passes(row, TablePredicate(t)) <=>
        /\ GeoPredicate(t) # {} => \E p \in GeoPredicate(t) : row[p.column] \in p.values
        /\ HierPredicate(t) # {} => \E p \in HierPredicate(t) : row[p.column] \in p.values
  BY DEF Passes, TablePredicate
<1>2. (GeoPredicate(t) # {} => \E p \in GeoPredicate(t) : row[p.column] \in p.values)
        <=> (HasGeo => row[profile.geoCol] \in profile.geoVals)
  <2>1. CASE HasGeo
    BY <2>1 DEF GeoPredicate, Unenforceable
  <2>2. CASE ~HasGeo
    BY <2>2 DEF GeoPredicate
  <2>3. QED
    BY <2>1, <2>2
<1> DEFINE Carries(l) == /\ l \in DOMAIN LevelColumn /\ HierMap(l) # {}
                         /\ Supports(t, LevelColumn[l]) /\ row[LevelColumn[l]] \in HierMap(l)
           Theirs == {profile.code} \cup UNION {subtree[l] : l \in SfLevel}
<1>3. (\E p \in HierPredicate(t) : row[p.column] \in p.values) <=> \E l : Carries(l)
  <2>1. ASSUME NEW p \in HierPredicate(t), row[p.column] \in p.values PROVE \E l : Carries(l)
    <3>1. PICK l \in DOMAIN LevelColumn :
            /\ HierMap(l) # {} /\ Supports(t, LevelColumn[l])
            /\ p = [column |-> LevelColumn[l], values |-> HierMap(l)]
      BY DEF HierPredicate
    <3>2. p.column = LevelColumn[l] /\ p.values = HierMap(l)
      BY <3>1
    <3>3. QED
      BY <2>1, <3>1, <3>2
  <2>2. ASSUME NEW l, Carries(l) PROVE \E p \in HierPredicate(t) : row[p.column] \in p.values
    <3> DEFINE p == [column |-> LevelColumn[l], values |-> HierMap(l)]
    <3>1. p \in HierPredicate(t)
      BY <2>2 DEF HierPredicate
    <3>2. row[p.column] \in p.values
      BY <2>2
    <3>3. QED
      BY <3>1, <3>2
  <2>3. QED
    BY <2>1, <2>2
<1>4. HierPredicate(t) # {} <=> HasHier
  <2>1. HasHier => HierPredicate(t) # {}
    BY DEF Unenforceable
  <2>2. HierPredicate(t) # {} => HasHier
    BY ScopeAssumption DEF HierPredicate, HasHier
  <2>3. QED
    BY <2>1, <2>2
<1>5. ASSUME NEW l, Carries(l) PROVE \E c \in DOMAIN row : row[c] \in Theirs
  <2>1. LevelColumn[l] \in DOMAIN row
    BY <1>5, WarehouseAssumption
  <2>2. l \in SfLevel /\ HierMap(l) \subseteq Theirs
    BY <1>5, ScopeAssumption DEF HierMap
  <2>3. QED
    BY <1>5, <2>1, <2>2
<1>6. ASSUME NEW c \in DOMAIN row, row[c] \in Theirs PROVE \E l : Carries(l)
  <2>1. profile.code \in SfCode \cup {Unset} /\ profile \in Profiles
    BY ScopeAssumption DEF ScopeInv, Profile
  <2>2. subtree \in [SfLevel -> SUBSET SfCode] /\ subtree \in Subtrees
    BY ScopeAssumption DEF ScopeInv
  <2>3. row[c] # Unset
    BY WarehouseAssumption
  <2>4. row[c] \in SfCode
    BY <1>6, <2>1, <2>2, <2>3
  <2>5. PICK l \in DOMAIN LevelColumn :
          /\ c = LevelColumn[l] /\ Supports(t, c)
          /\ \A tree \in Subtrees, k \in SfLevel : row[c] \in tree[k] => k = l
          /\ \A p \in Profiles : p.code = row[c] => p.level = l
    BY <2>4, WarehouseAssumption
  <2>6. row[c] \in HierMap(l)
    <3>1. CASE row[c] = profile.code
      BY <2>1, <2>3, <2>5, <3>1 DEF HierMap
    <3>2. CASE row[c] # profile.code
      <4>1. PICK k \in SfLevel : row[c] \in subtree[k]
        BY <1>6, <3>2
      <4>2. k = l
        BY <2>2, <2>5, <4>1
      <4>3. QED
        BY <4>1, <4>2 DEF HierMap
    <3>3. QED
      BY <3>1, <3>2
  <2>7. Carries(l)
    BY <2>5, <2>6
  <2>8. QED
    BY <2>7
<1>7. (HierPredicate(t) # {} => \E p \in HierPredicate(t) : row[p.column] \in p.values)
        <=> (HasHier => \E c \in DOMAIN row : row[c] \in Theirs)
  BY <1>3, <1>4, <1>5, <1>6
<1>8. QED
  BY <1>1, <1>2, <1>7 DEF InScope

-----------------------------------------------------------------------------
\* What a query returns: the rows of each node from those of later nodes.
Part(added, f, i) ==
  [s \in DOMAIN query[i].from |->
     IF query[i].from[s] \in Table
     THEN {{<<query[i].from[s], row, query[i].kind = "select">>} :
             row \in {r \in Data[query[i].from[s]] : Passes(r, added[i][s])}}
     ELSE f[query[i].from[s]]]

Body(added, f, i) ==
  IF query[i].kind = "union" THEN UNION {Part(added, f, i)[s] : s \in DOMAIN Part(added, f, i)}
  ELSE Joined(Part(added, f, i))

Computes(f, added) == f = [i \in DOMAIN query |-> Body(added, f, i)]

LEMMA QueryFacts ==
  ASSUME ScopeInv
  PROVE  /\ Len(query) \in Nat \ {0} /\ DOMAIN query = 1..Len(query)
         /\ \A i \in DOMAIN query : \A s \in DOMAIN query[i].from :
              query[i].from[s] \in Table \/ query[i].from[s] \in (i + 1)..Len(query)
<1>1. query \in Queries
  BY DEF ScopeInv
<1>2. query \in Seq(Node) /\ query # <<>>
  BY <1>1, ScopeAssumption
<1>3. Len(query) \in Nat \ {0} /\ DOMAIN query = 1..Len(query)
  BY <1>2
<1>4. ASSUME NEW i \in DOMAIN query, NEW s \in DOMAIN query[i].from
      PROVE  query[i].from[s] \in Table \/ query[i].from[s] \in (i + 1)..Len(query)
  <2>1. query[i].from \in Seq(Table \cup (i + 1)..Len(query))
    BY <1>1, ScopeAssumption
  <2>2. query[i].from[s] \in Table \cup (i + 1)..Len(query)
    BY <2>1
  <2>3. QED
    BY <2>2
<1>5. QED
  BY <1>3, <1>4

\* A node needs only what comes later.
LEMMA BodyLooksLater ==
  ASSUME ScopeInv, NEW added, NEW f, NEW g, NEW i \in DOMAIN query,
         \A j \in (i + 1)..Len(query) : f[j] = g[j]
  PROVE  Body(added, f, i) = Body(added, g, i)
<1>1. Part(added, f, i) = Part(added, g, i)
  BY QueryFacts DEF Part
<1>2. QED
  BY <1>1 DEF Body

\* The recursion has a solution.
LEMMA ResultComputed ==
  ASSUME ScopeInv, NEW added
  PROVE  \E f : Computes(f, added)
<1> DEFINE n == Len(query)
           Solves(f, k) == /\ f = [i \in DOMAIN query |-> f[i]]
                           /\ \A i \in DOMAIN query : i > n - k => f[i] = Body(added, f, i)
           T == {k \in 0..n : \E f : Solves(f, k)}
<1>1. n \in Nat \ {0} /\ DOMAIN query = 1..n
  BY QueryFacts
<1>2. 0 \in T
  <2> DEFINE f == [i \in DOMAIN query |-> {}]
  <2>1. f = [i \in DOMAIN query |-> f[i]] /\ \A i \in DOMAIN query : ~(i > n - 0)
    BY <1>1
  <2> HIDE DEF f
  <2>2. Solves(f, 0)
    BY <2>1
  <2> HIDE DEF Solves
  <2>3. QED
    BY <1>1, <2>2
<1>3. ASSUME NEW k \in 1..n, k - 1 \in T PROVE k \in T
  <2> DEFINE new == n - k + 1
  <2>1. PICK f : Solves(f, k - 1)
    BY <1>3
  <2> DEFINE g == [i \in DOMAIN query |-> IF i = new THEN Body(added, f, i) ELSE f[i]]
  <2>2. /\ \A i \in DOMAIN query : i # new => g[i] = f[i]
        /\ new \in DOMAIN query => g[new] = Body(added, f, new)
        /\ g = [i \in DOMAIN query |-> g[i]]
    OBVIOUS
  <2> HIDE DEF g
  <2>3. ASSUME NEW i \in DOMAIN query, i > n - k PROVE g[i] = Body(added, g, i)
    <3>1. \A j \in (i + 1)..n : j \in DOMAIN query /\ j # new
      BY <1>1, <2>3
    <3>2. \A j \in (i + 1)..n : f[j] = g[j]
      BY <2>2, <3>1
    <3>3. Body(added, f, i) = Body(added, g, i)
      BY <3>2, BodyLooksLater
    <3>4. CASE i = new
      BY <2>2, <3>3, <3>4
    <3>5. CASE i # new
      <4>1. i > n - (k - 1)
        BY <1>1, <2>3, <3>5
      <4>2. f[i] = Body(added, f, i)
        BY <2>1, <4>1
      <4>3. QED
        BY <2>2, <3>3, <3>5, <4>2
    <3>6. QED
      BY <3>4, <3>5
  <2>4. Solves(g, k)
    BY <2>2, <2>3
  <2>5. k \in 0..n
    BY <1>1
  <2> HIDE DEF Solves
  <2>6. QED
    BY <2>4, <2>5
<1> HIDE DEF T
<1>4. 0..n \subseteq T
  BY <1>1, <1>2, <1>3, InductionUpTo
<1>5. n \in T
  BY <1>1, <1>4
<1>6. PICK f : Solves(f, n)
  BY <1>5 DEF T
<1>7. \A i \in DOMAIN query : i > n - n
  BY <1>1
<1>8. \A i \in DOMAIN query : f[i] = Body(added, f, i)
  BY <1>6, <1>7
<1>9. f = [i \in DOMAIN query |-> Body(added, f, i)]
  BY <1>6, <1>8
<1>10. QED
  BY <1>9 DEF Computes

LEMMA ResultIsFirst ==
  ASSUME ScopeInv, NEW added
  PROVE  \E f : Computes(f, added) /\ Result(added) = f[1]
<1> DEFINE h == CHOOSE f : Computes(f, added)
<1>1. Computes(h, added)
  BY ResultComputed
<1>2. Result(added) = h[1]
  BY DEF Result, Computes, Body, Part
<1>3. QED
  BY <1>1, <1>2

-----------------------------------------------------------------------------
\* What the user may see of a set of origins.
Fine(x) ==
  /\ x[1] \in Whitelist \cup cte_names
  /\ x[3] /\ x[1] \in Whitelist \ Reference => Unrestricted \/ InScope(x[1], x[2])

Kept(R) == {o \in R : \A x \in o : Fine(x)}

LEMMA KeptUnion ==
  ASSUME NEW p, NEW q, DOMAIN p = DOMAIN q, \A s \in DOMAIN q : p[s] = Kept(q[s])
  PROVE  UNION {p[s] : s \in DOMAIN p} = Kept(UNION {q[s] : s \in DOMAIN q})
BY DEF Kept

LEMMA KeptJoined ==
  ASSUME NEW p, NEW q, DOMAIN p = DOMAIN q, \A s \in DOMAIN q : p[s] = Kept(q[s])
  PROVE  Joined(p) = Kept(Joined(q))
<1> DEFINE D == DOMAIN q
           Choices(r) == {g \in [D -> UNION {r[s] : s \in D}] : \A s \in D : g[s] \in r[s]}
           All(g) == UNION {g[s] : s \in D}
<1>1. Joined(p) = {All(g) : g \in Choices(p)} /\ Joined(q) = {All(g) : g \in Choices(q)}
  BY DEF Joined
<1>2. ASSUME NEW g \in Choices(p) PROVE g \in Choices(q) /\ \A x \in All(g) : Fine(x)
  <2>1. \A s \in D : g[s] \in q[s] /\ \A x \in g[s] : Fine(x)
    BY DEF Kept
  <2>2. g \in [D -> UNION {q[s] : s \in D}]
    BY <2>1
  <2>3. QED
    BY <2>1, <2>2
<1>3. ASSUME NEW g \in Choices(q), \A x \in All(g) : Fine(x) PROVE g \in Choices(p)
  <2>1. \A s \in D : g[s] \in p[s]
    BY <1>3 DEF Kept
  <2>2. g \in [D -> UNION {p[s] : s \in D}]
    BY <2>1
  <2>3. QED
    BY <2>1, <2>2
<1> HIDE DEF Choices, All
<1>4. QED
  BY <1>1, <1>2, <1>3 DEF Kept

\* A table read through the filter is what the user may see of it.
LEMMA TableKept ==
  ASSUME ScopeInv, verdict = "run", NEW i \in DOMAIN query, NEW s \in DOMAIN query[i].from,
         query[i].from[s] \in Table
  PROVE  LET t == query[i].from[s]
             itself == query[i].kind = "select"
             Origins(predicate) ==
               {{<<t, row, itself>>} : row \in {r \in Data[t] : Passes(r, predicate)}}
         IN  Origins(filter[i][s]) = Kept(Origins(NoFilter[i][s]))
<1> DEFINE t == query[i].from[s]
           itself == query[i].kind = "select"
<1>1. t \in Whitelist \cup cte_names /\ Enforced
  BY DEF ScopeInv, Guarded, Allowed
<1>2. NoFilter[i][s] = {} /\ \A row : Passes(row, {})
  BY DEF NoFilter, Passes
<1>3. ASSUME NEW row \in Data[t] PROVE Passes(row, filter[i][s]) <=> Fine(<<t, row, itself>>)
  <2>1. Fine(<<t, row, itself>>)
          <=> (itself /\ t \in Whitelist \ Reference => Unrestricted \/ InScope(t, row))
    BY <1>1 DEF Fine
  <2>2. CASE Unrestricted
    <3>1. filter = NoFilter
      BY <1>1, <2>2 DEF Enforced
    <3>2. QED
      BY <1>2, <2>1, <2>2, <3>1
  <2>3. CASE ~Unrestricted
    <3>1. filter[i][s] = IF s \in Scoped(i) THEN TablePredicate(t) ELSE {}
      BY <1>1, <2>3 DEF Enforced, Filters
    <3>2. s \in Scoped(i) <=> itself /\ t \in Whitelist \ Reference
      BY DEF Scoped, DirectTables
    <3>3. CASE s \notin Scoped(i)
      BY <1>2, <2>1, <3>1, <3>2, <3>3
    <3>4. CASE s \in Scoped(i)
      <4>1. ~Unenforceable(t) /\ t \in Whitelist \ Reference
        BY <1>1, <2>3, <3>2, <3>4 DEF Enforced
      <4>2. Passes(row, TablePredicate(t)) <=> InScope(t, row)
        BY <4>1, PassesInScope
      <4>3. QED
        BY <2>1, <2>3, <3>1, <3>2, <3>4, <4>2
    <3>5. QED
      BY <3>3, <3>4
  <2>4. QED
    BY <2>2, <2>3
<1> HIDE DEF t, itself
<1> DEFINE Origins(predicate) ==
             {{<<t, row, itself>>} : row \in {r \in Data[t] : Passes(r, predicate)}}
<1>4. Origins(filter[i][s]) = Kept(Origins(NoFilter[i][s]))
  <2>1. Origins(NoFilter[i][s]) = {{<<t, row, itself>>} : row \in Data[t]}
    BY <1>2
  <2>2. Kept({{<<t, row, itself>>} : row \in Data[t]})
          = {{<<t, row, itself>>} : row \in {r \in Data[t] : Fine(<<t, r, itself>>)}}
    BY DEF Kept
  <2>3. Origins(filter[i][s])
          = {{<<t, row, itself>>} : row \in {r \in Data[t] : Fine(<<t, r, itself>>)}}
    BY <1>3
  <2>4. QED
    BY <2>1, <2>2, <2>3
<1>5. QED
  BY <1>4 DEF t, itself

\* Node by node, the filtered query returns what the user may see of the other.
LEMMA NodesKept ==
  ASSUME ScopeInv, verdict = "run", NEW f, Computes(f, filter), NEW g, Computes(g, NoFilter)
  PROVE  f[1] = Kept(g[1])
<1> DEFINE n == Len(query)
           T == {k \in 0..n : \A i \in DOMAIN query : i > n - k => f[i] = Kept(g[i])}
<1>1. n \in Nat \ {0} /\ DOMAIN query = 1..n
  BY QueryFacts
<1>2. 0 \in T
  BY <1>1
<1>3. ASSUME NEW k \in 1..n, k - 1 \in T PROVE k \in T
  <2>1. ASSUME NEW i \in DOMAIN query, i > n - k PROVE f[i] = Kept(g[i])
    <3> DEFINE p == Part(filter, f, i)
               q == Part(NoFilter, g, i)
    <3>1. DOMAIN p = DOMAIN q /\ DOMAIN q = DOMAIN query[i].from
      BY DEF Part
    <3>2. ASSUME NEW s \in DOMAIN q PROVE p[s] = Kept(q[s])
      <4>1. s \in DOMAIN query[i].from
        BY <3>1
      <4>2. CASE query[i].from[s] \in Table
        BY <4>1, <4>2, TableKept DEF Part
      <4>3. CASE query[i].from[s] \notin Table
        <5> DEFINE j == query[i].from[s]
        <5>1. j \in (i + 1)..n
          BY <4>1, <4>3, QueryFacts
        <5>2. j \in DOMAIN query /\ j > n - (k - 1)
          BY <1>1, <2>1, <5>1
        <5>3. f[j] = Kept(g[j])
          BY <1>3, <5>2
        <5>4. p[s] = f[j] /\ q[s] = g[j]
          BY <4>1, <4>3 DEF Part
        <5>5. QED
          BY <5>3, <5>4
      <4>4. QED
        BY <4>2, <4>3
    <3>3. f[i] = Body(filter, f, i) /\ g[i] = Body(NoFilter, g, i)
      BY DEF Computes
    <3> HIDE DEF p, q
    <3>4. UNION {p[s] : s \in DOMAIN p} = Kept(UNION {q[s] : s \in DOMAIN q})
      BY <3>1, <3>2, KeptUnion
    <3>5. Joined(p) = Kept(Joined(q))
      BY <3>1, <3>2, KeptJoined
    <3>6. QED
      BY <3>3, <3>4, <3>5 DEF Body, p, q
  <2>2. k \in 0..n
    BY <1>1
  <2>3. QED
    BY <2>1, <2>2
<1> HIDE DEF T
<1>4. 0..n \subseteq T
  BY <1>1, <1>2, <1>3, InductionUpTo
<1>5. n \in T
  BY <1>1, <1>4
<1>6. 1 \in DOMAIN query /\ 1 > n - n
  BY <1>1
<1>7. QED
  BY <1>5, <1>6 DEF T

\* A query that runs reads tables of the whitelist or with the name of one of its
\* CTEs, and returns what its user may see of those that its SELECTs read without
\* parentheses, no more and no less, for any tables, catalog, users and queries and
\* any data that agree with the hierarchy (guard.assert_safe, injector.apply_scope).
THEOREM QueriesStayInScope == ScopeSpec => []RunsInScope
<1>1. ScopeInv => RunsInScope
  <2> SUFFICES ASSUME ScopeInv, verdict = "run" PROVE RunsInScope
    BY DEF RunsInScope
  <2>1. \A i \in DOMAIN query : query[i].kind # "forbidden"
    BY DEF ScopeInv, Guarded
  <2>2. PICK f : Computes(f, filter) /\ Result(filter) = f[1]
    BY ResultIsFirst
  <2>3. PICK g : Computes(g, NoFilter) /\ Result(NoFilter) = g[1]
    BY ResultIsFirst
  <2>4. Result(filter) = Kept(Result(NoFilter))
    BY <2>2, <2>3, NodesKept
  <2>5. QED
    BY <2>1, <2>4 DEF RunsInScope, Kept, Fine
<1>2. QED
  BY <1>1, ScopeStart, ScopeStep, PTL DEF ScopeSpec
===============================================================================
