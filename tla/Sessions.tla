------------------------------ MODULE Sessions ------------------------------
(***************************************************************************)
(* What the chat backend relies on when several requests use Postgres at   *)
(* once: every client has one AsyncSession (app/deps.py get_session, or    *)
(* the sweeper's own), which is one READ COMMITTED transaction at a time.  *)
(* The database and SQLAlchemy are external; the module says what the code *)
(* under src/ depends on:                                                  *)
(*   - a statement sees the committed rows and the client's own writes;    *)
(*   - a write locks its row until the transaction ends, also when the     *)
(*     row does not exist yet (a unique key with an uncommitted insert),   *)
(*     and every other writer of that row waits;                           *)
(*   - a failed statement aborts the transaction: its writes and locks are *)
(*     gone, and every later statement fails until the session rolls back; *)
(*   - Session.rollback() expires every loaded ORM object: the next        *)
(*     attribute read needs a SELECT, which outside an awaited session     *)
(*     call raises MissingGreenlet.  commit() does not (expire_on_commit   *)
(*     is False).                                                          *)
(* Specified here for clients that issue any statements in any order; the  *)
(* modules that compose it give each client its program.                   *)
(***************************************************************************)
EXTENDS Naturals, FiniteSets

CONSTANTS
  Client,   \* the sessions: one per chat request, one for the sweeper
  Row,      \* primary or unique keys of the shared tables
  Value,    \* what a row can hold
  Absent,   \* the row does not exist
  Keep,     \* the transaction has not written the row
  Free      \* nobody holds the row lock

ASSUME SessionAssumption ==
  /\ Absent \notin Value
  /\ Keep \notin Value \cup {Absent}
  /\ Free \notin Client

VARIABLES
  table,    \* committed rows
  pending,  \* uncommitted writes of each client
  lock,     \* holder of each row lock
  tx,       \* "live", or "failed" after a statement error
  stale     \* the client's ORM objects were expired by a rollback

vars == <<table, pending, lock, tx, stale>>

NoWrites == [r \in Row |-> Keep]

TypeOK ==
  /\ table \in [Row -> Value \cup {Absent}]
  /\ pending \in [Client -> [Row -> Value \cup {Absent, Keep}]]
  /\ lock \in [Row -> Client \cup {Free}]
  /\ tx \in [Client -> {"live", "failed"}]
  /\ stale \in [Client -> BOOLEAN]

Init ==
  /\ table = [r \in Row |-> Absent]
  /\ pending = [c \in Client |-> NoWrites]
  /\ lock = [r \in Row |-> Free]
  /\ tx = [c \in Client |-> "live"]
  /\ stale = [c \in Client |-> FALSE]

-----------------------------------------------------------------------------
\* What a SELECT of client c returns for row r.
Seen(c, r) == IF pending[c][r] = Keep THEN table[r] ELSE pending[c][r]

\* Client c need not wait to write row r.
Available(c, r) == lock[r] \in {Free, c}

\* The locks that remain when client c's transaction ends.
Unlocked(c) == [r \in Row |-> IF lock[r] = c THEN Free ELSE lock[r]]

\* A statement of c writes value v (or Absent, a DELETE) to row r.
Write(c, r, v) ==
  /\ tx[c] = "live"
  /\ Available(c, r)
  /\ pending' = [pending EXCEPT ![c][r] = v]
  /\ lock' = [lock EXCEPT ![r] = c]
  /\ UNCHANGED <<table, tx, stale>>

\* A statement of c fails; the transaction is aborted.
Fail(c) ==
  /\ pending' = [pending EXCEPT ![c] = NoWrites]
  /\ lock' = Unlocked(c)
  /\ tx' = [tx EXCEPT ![c] = "failed"]
  /\ UNCHANGED <<table, stale>>

\* session.rollback(): usable again, but every loaded object is expired.
Rollback(c) ==
  /\ pending' = [pending EXCEPT ![c] = NoWrites]
  /\ lock' = Unlocked(c)
  /\ tx' = [tx EXCEPT ![c] = "live"]
  /\ stale' = [stale EXCEPT ![c] = TRUE]
  /\ UNCHANGED table

\* session.commit(): the writes become visible to everybody at once.
Commit(c) ==
  /\ tx[c] = "live"
  /\ table' = [r \in Row |-> Seen(c, r)]
  /\ pending' = [pending EXCEPT ![c] = NoWrites]
  /\ lock' = Unlocked(c)
  /\ UNCHANGED <<tx, stale>>

Next ==
  \E c \in Client :
    \/ \E r \in Row, v \in Value \cup {Absent} : Write(c, r, v)
    \/ Fail(c)
    \/ Rollback(c)
    \/ Commit(c)

Spec == Init /\ [][Next]_vars

-----------------------------------------------------------------------------
\* Postgres' deadlock check, for clients that wait for the rows in wants:
\* c is on a cycle of clients each waiting for a lock the next one holds.
Deadlocked(c, wants) ==
  \E S \in SUBSET Client :
    /\ c \in S
    /\ \A x \in S : wants[x] \in Row /\ lock[wants[x]] \in S \ {x}
    /\ {lock[wants[x]] : x \in S} = S

-----------------------------------------------------------------------------
\* A row with uncommitted changes is locked by the transaction that made
\* them: the write sets of two open requests never overlap.  What a request has
\* read may still be old when it writes.
WritesAreLocked ==
  \A c \in Client, r \in Row : pending[c][r] # Keep => lock[r] = c

\* An aborted transaction has nothing left to publish, so the commit that
\* deps.get_session attempts at the end of the response cannot write half of
\* what the request did.
FailedHoldsNothing ==
  \A c \in Client :
    tx[c] = "failed" => /\ pending[c] = NoWrites
                        /\ \A r \in Row : lock[r] # c
=============================================================================
