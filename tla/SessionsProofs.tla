--------------------------- MODULE SessionsProofs ---------------------------
(* Proofs about Sessions, for any clients, rows and values.                *)
EXTENDS Sessions, FiniteSetTheorems, TLAPS

SessionInv == TypeOK /\ WritesAreLocked /\ FailedHoldsNothing

\* Initially nothing is written, locked or failed.
LEMMA SessionInit == Init => SessionInv
  BY SessionAssumption
  DEF Init, SessionInv, TypeOK, WritesAreLocked, FailedHoldsNothing, NoWrites

\* What ends a transaction (an error, a rollback, a commit) returns the
\* client's locks and write set and leaves every other client alone.
LEMMA ReleaseKeepsInv ==
  ASSUME SessionInv, NEW c \in Client,
         pending' = [pending EXCEPT ![c] = NoWrites],
         lock' = Unlocked(c),
         tx' \in [Client -> {"live", "failed"}],
         \A d \in Client \ {c} : tx'[d] = tx[d],
         stale' \in [Client -> BOOLEAN],
         table' \in [Row -> Value \cup {Absent}]
  PROVE  SessionInv'
<1> USE DEF SessionInv
<1>1. TypeOK'
  BY DEF TypeOK, NoWrites, Unlocked
<1>2. \A r \in Row : pending'[c][r] = Keep /\ lock'[r] # c
  BY SessionAssumption DEF TypeOK, NoWrites, Unlocked
<1>3. \A d \in Client \ {c} : pending'[d] = pending[d]
  BY DEF TypeOK
<1>4. \A d \in Client \ {c}, r \in Row : lock'[r] = d <=> lock[r] = d
  BY SessionAssumption DEF TypeOK, Unlocked
<1>5. WritesAreLocked'
  BY <1>2, <1>3, <1>4 DEF WritesAreLocked
<1>6. FailedHoldsNothing'
  <2> SUFFICES ASSUME NEW d \in Client, tx'[d] = "failed"
               PROVE  pending'[d] = NoWrites /\ \A r \in Row : lock'[r] # d
    BY DEF FailedHoldsNothing
  <2>1. CASE d = c
    BY <2>1, <1>2 DEF TypeOK
  <2>2. CASE d # c
    BY <2>2, <1>3, <1>4 DEF FailedHoldsNothing
  <2>3. QED
    BY <2>1, <2>2
<1>7. QED
  BY <1>1, <1>5, <1>6

\* A write is made under the row's lock, by a live transaction.
LEMMA WriteKeepsInv ==
  ASSUME SessionInv, NEW c \in Client, NEW r \in Row,
         NEW v \in Value \cup {Absent}, Write(c, r, v)
  PROVE  SessionInv'
<1> USE DEF SessionInv, Write
<1>1. TypeOK'
  BY DEF TypeOK
<1>2. \A d \in Client, x \in Row :
        pending'[d][x] # Keep => (d = c /\ x = r) \/ pending[d][x] # Keep
  BY DEF TypeOK
<1>3. WritesAreLocked'
  <2> SUFFICES ASSUME NEW d \in Client, NEW x \in Row, pending'[d][x] # Keep
               PROVE  lock'[x] = d
    BY DEF WritesAreLocked
  <2>1. CASE x = r
    BY <2>1, <1>2, SessionAssumption DEF TypeOK, WritesAreLocked, Available
  <2>2. CASE x # r
    BY <2>2, <1>2 DEF TypeOK, WritesAreLocked
  <2>3. QED
    BY <2>1, <2>2
<1>4. FailedHoldsNothing'
  <2> SUFFICES ASSUME NEW d \in Client, tx'[d] = "failed"
               PROVE  pending'[d] = NoWrites /\ \A x \in Row : lock'[x] # d
    BY DEF FailedHoldsNothing
  <2>1. d # c
    OBVIOUS
  <2>2. QED
    BY <2>1 DEF FailedHoldsNothing, TypeOK
<1>5. QED
  BY <1>1, <1>3, <1>4

LEMMA SessionNext == SessionInv /\ [Next]_vars => SessionInv'
<1> SUFFICES ASSUME SessionInv, [Next]_vars PROVE SessionInv'
  OBVIOUS
<1>1. CASE UNCHANGED vars
  BY <1>1 DEF vars, SessionInv, TypeOK, WritesAreLocked, FailedHoldsNothing
<1>2. ASSUME NEW c \in Client, NEW r \in Row, NEW v \in Value \cup {Absent},
             Write(c, r, v)
      PROVE  SessionInv'
  BY <1>2, WriteKeepsInv
<1>3. ASSUME NEW c \in Client, Fail(c)
      PROVE  SessionInv'
  BY <1>3, ReleaseKeepsInv DEF Fail, SessionInv, TypeOK
<1>4. ASSUME NEW c \in Client, Rollback(c)
      PROVE  SessionInv'
  BY <1>4, ReleaseKeepsInv DEF Rollback, SessionInv, TypeOK
<1>5. ASSUME NEW c \in Client, Commit(c)
      PROVE  SessionInv'
  <2>1. table' \in [Row -> Value \cup {Absent}]
    BY <1>5, SessionAssumption DEF Commit, Seen, SessionInv, TypeOK
  <2>2. QED
    BY <1>5, <2>1, ReleaseKeepsInv DEF Commit, SessionInv, TypeOK
<1>6. QED
  BY <1>1, <1>2, <1>3, <1>4, <1>5 DEF Next

\* Whatever statements the sessions issue, a row with uncommitted changes is
\* locked by the session that made them, and an aborted session holds
\* nothing (deps.get_session, SQLAlchemy, Postgres).
THEOREM SessionSafety ==
  Spec => [](TypeOK /\ WritesAreLocked /\ FailedHoldsNothing)
<1>1. QED
  BY SessionInit, SessionNext, PTL DEF Spec, SessionInv

\* A lock is held for an uncommitted write, never for nothing: whoever ends a
\* transaction keeps none.
LocksAreForWrites ==
  \A c \in Client, r \in Row : lock[r] = c => pending[c][r] # Keep

LEMMA LocksNext ==
  ASSUME TypeOK, LocksAreForWrites, [Next]_vars
  PROVE  LocksAreForWrites'
<1>1. CASE UNCHANGED vars
  BY <1>1 DEF vars, LocksAreForWrites
<1>2. ASSUME NEW c \in Client, NEW r \in Row, NEW v \in Value \cup {Absent}, Write(c, r, v)
      PROVE  LocksAreForWrites'
  BY <1>2, SessionAssumption DEF Write, TypeOK, LocksAreForWrites
<1>3. ASSUME NEW c \in Client, Fail(c) \/ Rollback(c) \/ Commit(c)
      PROVE  LocksAreForWrites'
  <2>1. /\ lock' = Unlocked(c) /\ pending' = [pending EXCEPT ![c] = NoWrites]
    BY <1>3 DEF Fail, Rollback, Commit
  <2>2. QED
    BY <2>1, SessionAssumption DEF Unlocked, TypeOK, LocksAreForWrites
<1>4. QED
  BY <1>1, <1>2, <1>3 DEF Next

\* Every lock that somebody may wait for belongs to an open transaction.
THEOREM NoLockIsLeftBehind == Spec => []LocksAreForWrites
<1>1. Init => LocksAreForWrites
  BY SessionAssumption DEF Init, LocksAreForWrites
<1>2. SessionInv => TypeOK
  BY DEF SessionInv
<1>3. QED
  BY <1>1, <1>2, SessionInit, SessionNext, LocksNext, PTL DEF Spec
=============================================================================
