--------------------------- MODULE PipelineProofs ---------------------------
(* Proofs about ChatPipeline, for any turns, questions, users and faults.  *)
EXTENDS ChatPipeline, Recursion

-----------------------------------------------------------------------------
(* The inductive invariant.  The caches' invariants are not inductive as   *)
(* they stand: they also have to hold of every uncommitted write and of    *)
(* the entries and rows the turns carry in their local variables.          *)

\* Template, embedding and intent of an entry are those of one question.
Coherent(e) == e.embedding = e.origin /\ e.intent = Intent[e.origin]

\* What the query cache may hold, given the proven templates.
Taught(ok) == {e \in QueryEntry : e.tmpl \in ok \ Unsafe /\ Coherent(e)}

\* What the result cache may hold for template x under scope s.
Shareable(x, s) ==
  {e \in ResultEntry : /\ e.tmpl = x /\ e.scope = s
                       /\ x \notin Unsafe /\ <<x, s>> \notin Denied}

QueryOK ==
  \A k \in Key :
    /\ table[QRow(k)] \in Taught(proven) \cup {Absent}
    /\ \A c \in Client : pending[c][QRow(k)] \in Taught(proven) \cup {Keep}

ResultOK ==
  \A x \in Template, s \in Scope :
    /\ table[KRow(x, s)] \in Shareable(x, s) \cup {Absent}
    /\ \A c \in Client : pending[c][KRow(x, s)] \in Shareable(x, s) \cup {Absent, Keep}

Asking == {"exact", "semantic", "generate"}
Scoped == {"rget", "rdel", "execute", "putsel", "putins", "putupd", "store",
           "answer"}

\* What a turn carries: r are the local variables of turn t.
CarriedOK(t, r, ok) ==
  /\ r.pc \in Asking \cup Scoped \cup {"alias", "resolve"} => r.q \in Question
  /\ r.pc \in Asking \cup {"new", "alias", "resolve"} => r.got = None
  /\ r.pc \in Scoped \cup {"alias", "resolve"} =>
       /\ r.entry \in QueryEntry
       /\ Coherent(r.entry)
       /\ r.level \in {"L0", "L1", "llm"}
       /\ r.level # "llm" => r.entry.tmpl \in ok \ Unsafe
  /\ r.pc \in Asking \cup {"new"} => r.level = "none"
  /\ r.pc = "alias" => r.level = "L1"
  /\ r.dirty # None => r.entry \in QueryEntry
  /\ r.level = "L1" => /\ Intent[r.entry.origin] = Intent[r.q]
                       /\ Distance[r.q][r.entry.origin] <= Threshold
  /\ r.pc \in Scoped =>
       r.entry.tmpl \notin Unsafe /\ <<r.entry.tmpl, ScopeOf[t]>> \notin Denied
  /\ r.got # None => /\ r.entry \in QueryEntry
                     /\ r.got.tmpl = r.entry.tmpl
                     /\ r.got.scope = ScopeOf[t]
  /\ r.pc \in {"putsel", "putins", "putupd", "store"} =>
       r.got # None /\ (r.got.full => r.entry.tmpl \in ok)
  /\ r.pc = "store" => r.got.full
  /\ r.pc \in {"audit", "suggest", "topup"} => r.outcome # "none"

\* The audit rows of turn t: only t writes them, only the first one, after the
\* outcome is settled; the row is lost only with the session's transaction.
Late == {"suggest", "topup", "commit"}

AuditOK(t) ==
  /\ table[ARow(t, 2)] = Absent
  /\ \A c \in Client : pending[c][ARow(t, 2)] = Keep
  /\ \A c \in Client \ {t} : pending[c][ARow(t, 1)] = Keep
  /\ pending[t][ARow(t, 1)] # Keep =>
       /\ pending[t][ARow(t, 1)] \in AuditEntry
       /\ pending[t][ARow(t, 1)].status = Status(run[t].outcome)
       /\ run[t].pc \in Late
  /\ table[ARow(t, 1)] # Absent =>
       /\ table[ARow(t, 1)] \in AuditEntry
       /\ table[ARow(t, 1)].status = Status(run[t].outcome)
       /\ run[t].pc = "closed"
  /\ run[t].pc \in Late /\ ~run[t].gone /\ ~stale[t] => pending[t][ARow(t, 1)] # Keep
  /\ run[t].pc = "closed" /\ ~run[t].gone /\ ~stale[t] => table[ARow(t, 1)] # Absent
  /\ run[t].pc = "topup" => pending[t][ARow(t, 1)] # Keep

Inv ==
  /\ TypeOK
  /\ QueryOK
  /\ ResultOK
  /\ \A t \in Turn : CarriedOK(t, run[t], proven)
  /\ \A t \in Turn : AuditOK(t)

-----------------------------------------------------------------------------
(* Rows.                                                                   *)

\* The keys of the three tables are distinct, and a row has one key.
LEMMA RowsDiffer ==
  /\ \A k \in Key : QRow(k) \in Row
  /\ \A x \in Template, s \in Scope : KRow(x, s) \in Row
  /\ \A t \in Turn, n \in 1..2 : ARow(t, n) \in Row
  /\ \A q, p : QRow(q) = QRow(p) => q = p
  /\ \A x, s, y, u : KRow(x, s) = KRow(y, u) => x = y /\ s = u
  /\ \A t, n, u, m : ARow(t, n) = ARow(u, m) => t = u /\ n = m
  /\ \A q, x, s, t, n :
       QRow(q) # KRow(x, s) /\ QRow(q) # ARow(t, n) /\ KRow(x, s) # ARow(t, n)
  BY DEF Row, ResultRow, QRow, KRow, ARow

\* What a client sees of a row obeys the tables' invariants.
LEMMA SeenOK ==
  ASSUME QueryOK, ResultOK, NEW c \in Client
  PROVE  /\ \A k \in Key : DB!Seen(c, QRow(k)) \in Taught(proven) \cup {Absent}
         /\ \A x \in Template, s \in Scope :
              DB!Seen(c, KRow(x, s)) \in Shareable(x, s) \cup {Absent}
  BY DEF QueryOK, ResultOK, DB!Seen

\* The session steps the pipeline's actions make.
Transaction(c) ==
  \/ UNCHANGED session
  \/ DB!Fail(c) \/ DB!Rollback(c) \/ DB!Commit(c)

CacheWrite(c) ==
  \/ \E k \in Key : \E v \in Taught(proven') : DB!Write(c, QRow(k), v)
  \/ \E x \in Template, s \in Scope : \E v \in Shareable(x, s) \cup {Absent} :
       DB!Write(c, KRow(x, s), v)

AuditWrite(c) ==
  c \in Turn /\ \E v \in AuditEntry : DB!Write(c, ARow(c, 1), v)

Permitted(c) == CacheWrite(c) \/ AuditWrite(c)

\* An entry with another count teaches the same.
LEMMA Recounted ==
  ASSUME NEW ok, NEW e \in Taught(ok), NEW h \in 0..MaxHits
  PROVE  [e EXCEPT !.hits = h] \in Taught(ok)
  BY DEF Taught, QueryEntry, Coherent

LEMMA TaughtGrows ==
  ASSUME NEW a, NEW b, a \subseteq b
  PROVE  Taught(a) \subseteq Taught(b)
  BY DEF Taught

\* Ending or failing a transaction keeps both caches' contents.
LEMMA TransactionKeepsRows ==
  ASSUME DB!TypeOK, QueryOK, ResultOK, NEW c \in Client, Transaction(c),
         proven \subseteq proven'
  PROVE  DB!TypeOK' /\ QueryOK' /\ ResultOK'
<1> USE DEF Transaction
<1>1. CASE UNCHANGED session
  BY <1>1, TaughtGrows DEF session, DB!TypeOK, QueryOK, ResultOK
<1>2. CASE DB!Fail(c)
  BY <1>2, TaughtGrows, RowsDiffer
  DEF DB!Fail, DB!NoWrites, DB!Unlocked, DB!TypeOK, QueryOK, ResultOK
<1>3. CASE DB!Rollback(c)
  BY <1>3, TaughtGrows, RowsDiffer
  DEF DB!Rollback, DB!NoWrites, DB!Unlocked, DB!TypeOK, QueryOK, ResultOK
<1>4. CASE DB!Commit(c)
  <2>1. DB!TypeOK'
    BY <1>4, MarkersDiffer
    DEF DB!Commit, DB!NoWrites, DB!Unlocked, DB!TypeOK, DB!Seen
  <2>2. QueryOK'
    BY <1>4, SeenOK, TaughtGrows, RowsDiffer
    DEF DB!Commit, DB!NoWrites, DB!TypeOK, QueryOK
  <2>3. ResultOK'
    BY <1>4, SeenOK, RowsDiffer DEF DB!Commit, DB!NoWrites, DB!TypeOK, ResultOK
  <2>4. QED
    BY <2>1, <2>2, <2>3
<1>5. QED
  BY <1>1, <1>2, <1>3, <1>4

\* A write changes one row, in the write set of the client that makes it.
LEMMA WriteOneRow ==
  ASSUME DB!TypeOK, NEW c \in Client, NEW r \in Row, NEW v \in Value \cup {Absent},
         DB!Write(c, r, v)
  PROVE  /\ table' = table
         /\ \A d \in Client : \A x \in Row :
              x # r => pending'[d][x] = pending[d][x]
         /\ \A d \in Client : pending'[d][r] \in {v, pending[d][r]}
         /\ DB!TypeOK'
  BY DEF DB!Write, DB!TypeOK

\* So does a permitted write.
LEMMA WriteKeepsRows ==
  ASSUME DB!TypeOK, QueryOK, ResultOK, NEW c \in Client, Permitted(c),
         proven \subseteq proven'
  PROVE  DB!TypeOK' /\ QueryOK' /\ ResultOK'
<1>1. ASSUME NEW k \in Key, NEW v \in Taught(proven'), DB!Write(c, QRow(k), v)
      PROVE  DB!TypeOK' /\ QueryOK' /\ ResultOK'
  <2>1. v \in Value \cup {Absent}
    BY DEF Taught, Value
  <2>2. DB!TypeOK'
    BY <1>1, <2>1, RowsDiffer, WriteOneRow
  <2>3. QueryOK'
    BY <1>1, <2>1, TaughtGrows, RowsDiffer, WriteOneRow DEF QueryOK
  <2>4. ResultOK'
    BY <1>1, <2>1, RowsDiffer, WriteOneRow DEF ResultOK
  <2>5. QED
    BY <2>2, <2>3, <2>4
<1>2. ASSUME NEW x \in Template, NEW s \in Scope,
             NEW v \in Shareable(x, s) \cup {Absent},
             DB!Write(c, KRow(x, s), v)
      PROVE  DB!TypeOK' /\ QueryOK' /\ ResultOK'
  <2>1. v \in Value \cup {Absent}
    BY DEF Shareable, Value
  <2>2. DB!TypeOK'
    BY <1>2, <2>1, RowsDiffer, WriteOneRow
  <2>3. QueryOK'
    BY <1>2, <2>1, TaughtGrows, RowsDiffer, WriteOneRow DEF QueryOK
  <2>4. ResultOK'
    BY <1>2, <2>1, RowsDiffer, WriteOneRow DEF ResultOK
  <2>5. QED
    BY <2>2, <2>3, <2>4
<1>3. ASSUME c \in Turn, NEW v \in AuditEntry, DB!Write(c, ARow(c, 1), v)
      PROVE  DB!TypeOK' /\ QueryOK' /\ ResultOK'
  <2>1. v \in Value \cup {Absent}
    BY DEF Value
  <2>2. DB!TypeOK'
    BY <1>3, <2>1, RowsDiffer, WriteOneRow
  <2>3. QueryOK'
    BY <1>3, <2>1, TaughtGrows, RowsDiffer, WriteOneRow DEF QueryOK
  <2>4. ResultOK'
    BY <1>3, <2>1, RowsDiffer, WriteOneRow DEF ResultOK
  <2>5. QED
    BY <2>2, <2>3, <2>4
<1>4. QED
  BY <1>1, <1>2, <1>3 DEF Permitted, CacheWrite, AuditWrite

-----------------------------------------------------------------------------
(* Turns.                                                                  *)

\* A write to one of the caches is a write to a row that is no audit row.
LEMMA CacheRow ==
  ASSUME NEW c \in Client, CacheWrite(c)
  PROVE  \E r \in Row : \E v \in Value \cup {Absent} :
           DB!Write(c, r, v) /\ \A t, n : ARow(t, n) # r
<1>1. ASSUME NEW k \in Key, NEW v \in Taught(proven'), DB!Write(c, QRow(k), v)
      PROVE  \E r \in Row : \E w \in Value \cup {Absent} :
               DB!Write(c, r, w) /\ \A t, n : ARow(t, n) # r
  <2>1. v \in Value \cup {Absent}
    BY DEF Taught, Value
  <2>2. QED
    BY <1>1, <2>1, RowsDiffer
<1>2. ASSUME NEW x \in Template, NEW s \in Scope,
             NEW v \in Shareable(x, s) \cup {Absent},
             DB!Write(c, KRow(x, s), v)
      PROVE  \E r \in Row : \E w \in Value \cup {Absent} :
               DB!Write(c, r, w) /\ \A t, n : ARow(t, n) # r
  <2>1. v \in Value \cup {Absent}
    BY DEF Shareable, Value
  <2>2. QED
    BY <1>2, <2>1, RowsDiffer
<1>3. QED
  BY <1>1, <1>2 DEF CacheWrite

\* A failed statement and a rollback drop the client's writes, and nothing else.
LEMMA Dropped ==
  ASSUME DB!TypeOK, NEW c \in Client, DB!Fail(c) \/ DB!Rollback(c)
  PROVE  /\ table' = table
         /\ \A r \in Row : pending'[c][r] = Keep
         /\ \A d \in Client \ {c} : /\ pending'[d] = pending[d]
                                    /\ stale'[d] = stale[d]
<1>1. CASE DB!Fail(c)
  BY <1>1 DEF DB!Fail, DB!NoWrites, DB!TypeOK
<1>2. CASE DB!Rollback(c)
  BY <1>2 DEF DB!Rollback, DB!NoWrites, DB!TypeOK
<1>3. QED
  BY <1>1, <1>2

\* What a session step of client c does to the audit rows of others, and to
\* its own when it does not write them.
LEMMA AuditRowsElsewhere ==
  ASSUME DB!TypeOK, QueryOK, NEW c \in Client, Transaction(c) \/ Permitted(c),
         \A t \in Turn : AuditOK(t)
  PROVE  \A t \in Turn \ {c} :
           /\ \A n \in 1..2 : table'[ARow(t, n)] = table[ARow(t, n)]
           /\ \A n \in 1..2, d \in Client :
                pending'[d][ARow(t, n)] = pending[d][ARow(t, n)]
           /\ stale'[t] = stale[t]
<1> SUFFICES ASSUME NEW t \in Turn \ {c}
             PROVE  /\ \A n \in 1..2 : table'[ARow(t, n)] = table[ARow(t, n)]
                    /\ \A n \in 1..2, d \in Client :
                         pending'[d][ARow(t, n)] = pending[d][ARow(t, n)]
                    /\ stale'[t] = stale[t]
  OBVIOUS
<1>1. /\ \A n \in 1..2 : pending[c][ARow(t, n)] = Keep /\ ARow(t, n) \in Row
      /\ t \in Client /\ t # c
  BY RowsDiffer DEF AuditOK, Client
<1>2. CASE UNCHANGED session
  BY <1>2 DEF session
<1>3. CASE DB!Fail(c) \/ DB!Rollback(c)
  <2>1. \A d \in Client, n \in 1..2 : pending'[d][ARow(t, n)] = pending[d][ARow(t, n)]
    BY <1>1, <1>3, Dropped
  <2>2. QED
    BY <1>1, <1>3, <2>1, Dropped
<1>4. CASE DB!Commit(c)
  BY <1>1, <1>4 DEF DB!Commit, DB!NoWrites, DB!Seen, DB!TypeOK
<1>5. CASE CacheWrite(c)
  <2>1. PICK r \in Row : \E v \in Value \cup {Absent} :
          DB!Write(c, r, v) /\ \A u, n : ARow(u, n) # r
    BY <1>5, CacheRow
  <2>2. stale' = stale
    BY <2>1 DEF DB!Write
  <2>3. QED
    BY <1>1, <2>1, <2>2, WriteOneRow
<1>6. CASE AuditWrite(c)
  BY <1>1, <1>6, RowsDiffer DEF AuditWrite, DB!Write, DB!TypeOK
<1>7. QED
  BY <1>2, <1>3, <1>4, <1>5, <1>6 DEF Transaction, Permitted

\* A step of turn t that keeps the invariant: a session step, good local
\* variables and audit rows for t, nothing forgotten.
Advances(t) ==
  /\ Transaction(t) \/ Permitted(t)
  /\ \E r \in Local : Become(t, r) /\ CarriedOK(t, r, proven')
  /\ AuditOK(t)'
  /\ proven \subseteq proven' /\ proven' \subseteq Template
  /\ sweep' = sweep /\ now' = now /\ faults' \in 0..MaxFaults

LEMMA CarriedGrows ==
  ASSUME NEW t, NEW r, NEW a, NEW b, a \subseteq b, CarriedOK(t, r, a)
  PROVE  CarriedOK(t, r, b)
  BY DEF CarriedOK

LEMMA AdvanceKeepsInv ==
  ASSUME Inv, NEW t \in Turn, Advances(t)
  PROVE  Inv'
<1> USE DEF Inv, Advances
<1>1. PICK r \in Local : Become(t, r) /\ CarriedOK(t, r, proven')
  OBVIOUS
<1>2. t \in Client /\ DB!TypeOK
  BY DEF Client, TypeOK
<1>3. DB!TypeOK' /\ QueryOK' /\ ResultOK'
  BY <1>2, TransactionKeepsRows, WriteKeepsRows
<1>4. run' \in [Turn -> Local]
  BY <1>1 DEF Become, TypeOK
<1>5. TypeOK'
  BY <1>3, <1>4 DEF TypeOK
<1>6. ASSUME NEW u \in Turn
      PROVE  CarriedOK(u, run'[u], proven')
  <2>1. CASE u = t
    BY <2>1, <1>1 DEF Become, TypeOK
  <2>2. CASE u # t
    <3>1. run'[u] = run[u]
      BY <2>2, <1>1 DEF Become, TypeOK
    <3>2. QED
      BY <3>1, CarriedGrows
  <2>3. QED
    BY <2>1, <2>2
<1>7. ASSUME NEW u \in Turn
      PROVE  AuditOK(u)'
  <2>1. CASE u = t
    BY <2>1
  <2>2. CASE u # t
    <3>1. run'[u] = run[u] /\ u \in Client
      BY <2>2, <1>1 DEF Become, TypeOK, Client
    <3>2. AuditOK(u)
      OBVIOUS
    <3>3. QED
      BY <3>1, <3>2, <1>2, <2>2, AuditRowsElsewhere DEF AuditOK
  <2>3. QED
    BY <2>1, <2>2
<1>8. QED
  BY <1>3, <1>5, <1>6, <1>7

\* How the lemmas below establish Advances.
LEMMA Goes ==
  ASSUME Inv, NEW t \in Turn, NEW r \in Local, Become(t, r),
         CarriedOK(t, r, proven), AuditOK(t)',
         Transaction(t) \/ Permitted(t),
         UNCHANGED <<sweep, now, proven>>, faults' \in 0..MaxFaults
  PROVE  Advances(t)
  BY DEF Advances, Inv, TypeOK

\* Before its audit, a turn has no audit row, and keeps having none.
LEMMA EarlyAudit ==
  ASSUME Inv, NEW t \in Turn, NEW r \in Local, Become(t, r),
         Transaction(t) \/ CacheWrite(t),
         run[t].pc \notin Late \cup {"closed"}, r.pc \notin Late \cup {"closed"}
  PROVE  AuditOK(t)'
<1>1. /\ DB!TypeOK /\ QueryOK /\ t \in Client /\ AuditOK(t)
      /\ run'[t] = r
  BY DEF Inv, TypeOK, Client, Become
<1>2. /\ \A n \in 1..2 : table[ARow(t, n)] = Absent /\ ARow(t, n) \in Row
      /\ \A n \in 1..2, c \in Client : pending[c][ARow(t, n)] = Keep
  BY <1>1, RowsDiffer DEF AuditOK
<1>3. /\ \A n \in 1..2 : table'[ARow(t, n)] = Absent
      /\ \A n \in 1..2, c \in Client : pending'[c][ARow(t, n)] = Keep
  <2>1. CASE UNCHANGED session
    BY <2>1, <1>2 DEF session
  <2>2. CASE DB!Fail(t) \/ DB!Rollback(t)
    <3>1. \A d \in Client, n \in 1..2 : pending'[d][ARow(t, n)] = Keep
      BY <1>1, <1>2, <2>2, Dropped
    <3>2. QED
      BY <1>1, <1>2, <2>2, <3>1, Dropped
  <2>3. CASE DB!Commit(t)
    BY <1>1, <1>2, <2>3 DEF DB!Commit, DB!NoWrites, DB!Seen, DB!TypeOK
  <2>4. CASE CacheWrite(t)
    <3>1. PICK r0 \in Row : \E v \in Value \cup {Absent} :
            DB!Write(t, r0, v) /\ \A u, n : ARow(u, n) # r0
      BY <1>1, <2>4, CacheRow
    <3>2. QED
      BY <1>1, <1>2, <3>1, WriteOneRow
  <2>5. QED
    BY <2>1, <2>2, <2>3, <2>4 DEF Transaction
<1>4. /\ run'[t].pc \notin Late /\ run'[t].pc \notin {"closed", "topup"}
      /\ t \in Client
  BY <1>1 DEF Late
<1>5. /\ table'[ARow(t, 1)] = Absent /\ table'[ARow(t, 2)] = Absent
      /\ \A c \in Client : /\ pending'[c][ARow(t, 1)] = Keep
                           /\ pending'[c][ARow(t, 2)] = Keep
  BY <1>3
<1>6. QED
  BY <1>4, <1>5 DEF AuditOK, ARow

LEMMA GoesEarly ==
  ASSUME Inv, NEW t \in Turn, NEW r \in Local, Become(t, r),
         CarriedOK(t, r, proven), Transaction(t) \/ CacheWrite(t),
         run[t].pc \notin Late \cup {"closed"}, r.pc \notin Late \cup {"closed"},
         UNCHANGED <<sweep, now, proven>>, faults' \in 0..MaxFaults
  PROVE  Advances(t)
  BY EarlyAudit, Goes DEF Permitted

LEMMA Known ==
  ASSUME Inv, NEW t \in Turn
  PROVE  /\ run[t] \in Local /\ CarriedOK(t, run[t], proven)
         /\ t \in Client /\ ScopeOf[t] \in Scope
         /\ faults \in 0..MaxFaults
  BY PipelineAssumption DEF Inv, TypeOK, Client

LEMMA Names ==
  /\ {"new", "exact", "semantic", "alias", "generate", "resolve", "rget"} \subseteq Stage
  /\ {"rdel", "execute", "putsel", "putins", "putupd", "store", "answer"} \subseteq Stage
  /\ {"audit", "suggest", "topup", "commit", "closed"} \subseteq Stage
  /\ {"none", "greeting", "general", "answer", "blocked", "dberror", "error"}
       \subseteq Outcome
  BY DEF Stage, Outcome

LEMMA RaisesWithinBound ==
  ASSUME Inv, NEW t \in Turn, Raises(t)
  PROVE  faults' \in 0..MaxFaults
  BY PipelineAssumption DEF Inv, TypeOK, Raises, Fails

\* An entry a turn sees in one of the caches.
LEMMA SeenEntry ==
  ASSUME Inv, NEW t \in Turn, NEW k \in Key, DB!Seen(t, QRow(k)) # Absent
  PROVE  LET e == DB!Seen(t, QRow(k)) IN
           e \in QueryEntry /\ e.tmpl \in proven \ Unsafe /\ Coherent(e)
  BY Known, SeenOK DEF Inv, Taught

LEMMA SeenRows ==
  ASSUME Inv, NEW t \in Turn, run[t].entry \in QueryEntry,
         DB!Seen(t, ResultKey(t)) # Absent
  PROVE  LET e == DB!Seen(t, ResultKey(t)) IN
           /\ e \in ResultEntry
           /\ e.tmpl = run[t].entry.tmpl /\ e.scope = ScopeOf[t]
<1>1. run[t].entry.tmpl \in Template
  BY DEF QueryEntry
<1>2. QED
  BY <1>1, Known, SeenOK DEF Inv, Shareable, ResultKey

-----------------------------------------------------------------------------
(* Before the audit: each step of a turn keeps the invariant.              *)

\* A turn begins with nothing in hand.
LEMMA ArriveStep ==
  ASSUME Inv, NEW t \in Turn, Arrive(t)
  PROVE  Advances(t)
<1>1. /\ run[t] \in Local /\ CarriedOK(t, run[t], proven)
      /\ run[t].pc = "new"
  BY Known DEF Arrive, Ready
<1>2. Transaction(t) \/ CacheWrite(t)
  BY DEF Arrive, Transaction
<1>3. UNCHANGED <<sweep, now, proven>> /\ faults' \in 0..MaxFaults
  BY Known DEF Arrive, Others
<1>4. ASSUME NEW q \in Question,
             Become(t, [run[t] EXCEPT !.pc = "exact", !.q = q])
      PROVE  Advances(t)
  <2> DEFINE r == [run[t] EXCEPT !.pc = "exact", !.q = q]
  <2>1. r \in Local
    BY <1>1, <1>4, Names DEF Local
  <2>2. /\ r.pc = "exact" /\ r.q = q /\ r.level = run[t].level
        /\ r.entry = run[t].entry /\ r.got = run[t].got
        /\ r.dirty = run[t].dirty
    BY <1>1 DEF Local
  <2>3. CarriedOK(t, r, proven)
    BY <1>1, <1>4, <2>2 DEF CarriedOK, Asking, Scoped
  <2>4. QED
    BY <1>1, <1>2, <1>3, <1>4, <2>1, <2>2, <2>3, GoesEarly DEF Late
<1>5. ASSUME Become(t, [run[t] EXCEPT !.pc = "audit", !.outcome = "greeting"])
      PROVE  Advances(t)
  <2> DEFINE r == [run[t] EXCEPT !.pc = "audit", !.outcome = "greeting"]
  <2>1. r \in Local
    BY <1>1, <1>5, Names DEF Local
  <2>2. /\ r.pc = "audit" /\ r.q = run[t].q /\ r.level = run[t].level
        /\ r.entry = run[t].entry /\ r.got = run[t].got /\ r.outcome = "greeting"
        /\ r.dirty = run[t].dirty
    BY <1>1 DEF Local
  <2>3. CarriedOK(t, r, proven)
    BY <1>1, <1>5, <2>2 DEF CarriedOK, Asking, Scoped
  <2>4. QED
    BY <1>1, <1>2, <1>3, <1>5, <2>1, <2>2, <2>3, GoesEarly DEF Late
<1>6. QED
  BY <1>4, <1>5 DEF Arrive

\* An L0 hit carries what the cache holds for the question.
LEMMA LookupExactStep ==
  ASSUME Inv, NEW t \in Turn, LookupExact(t)
  PROVE  Advances(t)
<1>1. /\ run[t] \in Local /\ CarriedOK(t, run[t], proven)
      /\ run[t].pc = "exact"
  BY Known DEF LookupExact, Ready
<1>2. Transaction(t) \/ CacheWrite(t)
  BY DEF LookupExact, Transaction
<1>3. UNCHANGED <<sweep, now, proven>> /\ faults' \in 0..MaxFaults
  BY Known DEF LookupExact, Others
<1>4. run[t].q \in Question /\ KeyOf[run[t].q] \in Key
  BY <1>1, PipelineAssumption DEF CarriedOK, Asking
<1>5. ASSUME Become(t, [run[t] EXCEPT !.pc = "semantic"])
      PROVE  Advances(t)
  <2> DEFINE r == [run[t] EXCEPT !.pc = "semantic"]
  <2>1. r \in Local
    BY <1>1, <1>5, Names DEF Local
  <2>2. /\ r.pc = "semantic" /\ r.q = run[t].q /\ r.level = run[t].level
        /\ r.entry = run[t].entry /\ r.got = run[t].got
        /\ r.dirty = run[t].dirty
    BY <1>1 DEF Local
  <2>3. CarriedOK(t, r, proven)
    BY <1>1, <1>5, <2>2 DEF CarriedOK, Asking, Scoped
  <2>4. QED
    BY <1>1, <1>2, <1>3, <1>5, <2>1, <2>2, <2>3, GoesEarly DEF Late
<1>6. ASSUME DB!Seen(t, QRow(KeyOf[run[t].q])) # Absent,
             Become(t, [run[t] EXCEPT !.pc = "resolve", !.level = "L0",
                                !.entry = DB!Seen(t, QRow(KeyOf[run[t].q])),
                                !.hit = KeyOf[run[t].q], !.dirty = KeyOf[run[t].q]])
      PROVE  Advances(t)
  <2> DEFINE r == [run[t] EXCEPT !.pc = "resolve", !.level = "L0",
                                !.entry = DB!Seen(t, QRow(KeyOf[run[t].q])),
                                !.hit = KeyOf[run[t].q], !.dirty = KeyOf[run[t].q]]
  <2>1. r \in Local
    BY <1>1, <1>6, Names, <1>4, SeenEntry DEF Local
  <2>2. /\ r.pc = "resolve" /\ r.q = run[t].q /\ r.level = "L0"
        /\ r.entry = DB!Seen(t, QRow(KeyOf[run[t].q])) /\ r.got = run[t].got
        /\ r.dirty = KeyOf[run[t].q]
    BY <1>1 DEF Local
  <2>3. r.entry \in QueryEntry /\ r.entry.tmpl \in proven \ Unsafe /\ Coherent(r.entry)
    BY <1>4, <1>6, <2>2, SeenEntry
  <2>4. r.got = None /\ r.q \in Question
    BY <1>1, <1>4, <2>2 DEF CarriedOK, Asking
  <2>5. Become(t, r)
    BY <1>6
  <2> HIDE DEF r
  <2>6. CarriedOK(t, r, proven)
    BY <2>2, <2>3, <2>4 DEF CarriedOK, Asking, Scoped
  <2>7. QED
    BY <1>1, <1>2, <1>3, <2>1, <2>2, <2>5, <2>6, GoesEarly DEF Late
<1>7. QED
  BY <1>5, <1>6 DEF LookupExact

\* An L1 hit carries a neighbour's entry, of the same intent.
LEMMA LookupSemanticStep ==
  ASSUME Inv, NEW t \in Turn, LookupSemantic(t)
  PROVE  Advances(t)
<1>1. /\ run[t] \in Local /\ CarriedOK(t, run[t], proven)
      /\ run[t].pc = "semantic"
  BY Known DEF LookupSemantic, Ready
<1>2. Transaction(t) \/ CacheWrite(t)
  BY DEF LookupSemantic, Transaction
<1>3. UNCHANGED <<sweep, now, proven>> /\ faults' \in 0..MaxFaults
  BY Known DEF LookupSemantic, Others
<1>4. run[t].q \in Question /\ KeyOf[run[t].q] \in Key
  BY <1>1, PipelineAssumption DEF CarriedOK, Asking
<1>5. ASSUME Become(t, [run[t] EXCEPT !.pc = "generate", !.embedded = TRUE])
      PROVE  Advances(t)
  <2> DEFINE r == [run[t] EXCEPT !.pc = "generate", !.embedded = TRUE]
  <2>1. r \in Local
    BY <1>1, <1>5, Names DEF Local
  <2>2. /\ r.pc = "generate" /\ r.q = run[t].q /\ r.level = run[t].level
        /\ r.entry = run[t].entry /\ r.got = run[t].got
        /\ r.dirty = run[t].dirty
    BY <1>1 DEF Local
  <2>3. CarriedOK(t, r, proven)
    BY <1>1, <1>5, <2>2 DEF CarriedOK, Asking, Scoped
  <2>4. QED
    BY <1>1, <1>2, <1>3, <1>5, <2>1, <2>2, <2>3, GoesEarly DEF Late
<1>6. ASSUME NEW n \in Key,
             DB!Seen(t, QRow(n)) # Absent,
             SemanticHit(run[t].q, DB!Seen(t, QRow(n))),
             Become(t, [run[t] EXCEPT !.pc = "alias", !.embedded = TRUE,
                                !.level = "L1", !.hit = n, !.dirty = n,
                                !.entry = DB!Seen(t, QRow(n))])
      PROVE  Advances(t)
  <2> DEFINE r == [run[t] EXCEPT !.pc = "alias", !.embedded = TRUE,
                                !.level = "L1", !.hit = n, !.dirty = n,
                                !.entry = DB!Seen(t, QRow(n))]
  <2>1. r \in Local
    BY <1>1, <1>6, Names, <1>4, SeenEntry DEF Local
  <2>2. /\ r.pc = "alias" /\ r.q = run[t].q /\ r.level = "L1"
        /\ r.entry = DB!Seen(t, QRow(n)) /\ r.got = run[t].got
        /\ r.dirty = n
    BY <1>1 DEF Local
  <2>3. r.entry \in QueryEntry /\ r.entry.tmpl \in proven \ Unsafe /\ Coherent(r.entry)
    BY <1>4, <1>6, <2>2, SeenEntry
  <2>4. r.got = None /\ r.q \in Question
    BY <1>1, <1>4, <2>2 DEF CarriedOK, Asking
  <2>5. /\ Intent[r.entry.origin] = Intent[r.q]
        /\ Distance[r.q][r.entry.origin] <= Threshold
    BY <1>6, <2>2, <2>3 DEF SemanticHit, Coherent
  <2>6. Become(t, r)
    BY <1>6
  <2> HIDE DEF r
  <2>7. CarriedOK(t, r, proven)
    BY <2>2, <2>3, <2>4, <2>5 DEF CarriedOK, Asking, Scoped
  <2>8. QED
    BY <1>1, <1>2, <1>3, <2>1, <2>2, <2>6, <2>7, GoesEarly DEF Late
<1>7. QED
  BY <1>5, <1>6 DEF LookupSemantic, SemanticHit

\* The embeddings API fails.
LEMMA EmbeddingOutageStep ==
  ASSUME Inv, NEW t \in Turn, EmbeddingOutage(t)
  PROVE  Advances(t)
<1>1. /\ run[t] \in Local /\ CarriedOK(t, run[t], proven)
      /\ run[t].pc = "semantic"
  BY Known DEF EmbeddingOutage, Ready
<1>2. Transaction(t) \/ CacheWrite(t)
  BY DEF EmbeddingOutage, Transaction
<1>3. UNCHANGED <<sweep, now, proven>> /\ faults' \in 0..MaxFaults
  BY Known DEF EmbeddingOutage, Others
<1>4. ASSUME Become(t, [run[t] EXCEPT !.pc = "generate", !.missed = TRUE])
      PROVE  Advances(t)
  <2> DEFINE r == [run[t] EXCEPT !.pc = "generate", !.missed = TRUE]
  <2>1. r \in Local
    BY <1>1, <1>4, Names DEF Local
  <2>2. /\ r.pc = "generate" /\ r.q = run[t].q /\ r.level = run[t].level
        /\ r.entry = run[t].entry /\ r.got = run[t].got
        /\ r.dirty = run[t].dirty
    BY <1>1 DEF Local
  <2>3. CarriedOK(t, r, proven)
    BY <1>1, <1>4, <2>2 DEF CarriedOK, Asking, Scoped
  <2>4. QED
    BY <1>1, <1>2, <1>3, <1>4, <2>1, <2>2, <2>3, GoesEarly DEF Late
<1>5. QED
  BY <1>4 DEF EmbeddingOutage

\* What the LLM writes is written for the turn's own question.
LEMMA GenerateStep ==
  ASSUME Inv, NEW t \in Turn, Generate(t)
  PROVE  Advances(t)
<1>1. /\ run[t] \in Local /\ CarriedOK(t, run[t], proven)
      /\ run[t].pc = "generate"
  BY Known DEF Generate, Ready
<1>2. Transaction(t) \/ CacheWrite(t)
  BY DEF Generate, Transaction
<1>3. UNCHANGED <<sweep, now, proven>> /\ faults' \in 0..MaxFaults
  BY Known DEF Generate, Others
<1>4. \A x \in Template : /\ Written(t, x) \in QueryEntry
                          /\ Written(t, x).tmpl = x
                          /\ Coherent(Written(t, x))
  BY <1>1, PipelineAssumption DEF Written, QueryEntry, CarriedOK, Asking, Coherent
<1>5. ASSUME NEW x \in Template,
             Become(t, [run[t] EXCEPT !.pc = "resolve", !.level = "llm",
                                !.entry = Written(t, x)])
      PROVE  Advances(t)
  <2> DEFINE r == [run[t] EXCEPT !.pc = "resolve", !.level = "llm",
                                !.entry = Written(t, x)]
  <2>1. r \in Local
    BY <1>1, <1>5, Names, <1>4 DEF Local
  <2>2. /\ r.pc = "resolve" /\ r.q = run[t].q /\ r.level = "llm"
        /\ r.entry = Written(t, x) /\ r.got = run[t].got
        /\ r.dirty = run[t].dirty
    BY <1>1 DEF Local
  <2>3. CarriedOK(t, r, proven)
    BY <1>1, <1>5, <1>4, <2>2 DEF CarriedOK, Asking, Scoped
  <2>4. QED
    BY <1>1, <1>2, <1>3, <1>5, <2>1, <2>2, <2>3, GoesEarly, <1>4 DEF Late
<1>6. ASSUME NEW o \in {"general", "error"},
             Become(t, [run[t] EXCEPT !.pc = "audit", !.outcome = o])
      PROVE  Advances(t)
  <2> DEFINE r == [run[t] EXCEPT !.pc = "audit", !.outcome = o]
  <2>1. r \in Local
    BY <1>1, <1>6, Names DEF Local
  <2>2. /\ r.pc = "audit" /\ r.q = run[t].q /\ r.level = run[t].level
        /\ r.entry = run[t].entry /\ r.got = run[t].got /\ r.outcome = o
        /\ r.dirty = run[t].dirty
    BY <1>1 DEF Local
  <2>3. CarriedOK(t, r, proven)
    BY <1>1, <1>6, <2>2 DEF CarriedOK, Asking, Scoped
  <2>4. QED
    BY <1>1, <1>2, <1>3, <1>6, <2>1, <2>2, <2>3, GoesEarly DEF Late
<1>7. QED
  BY <1>5, <1>6 DEF Generate

\* Only guarded and scoped SQL goes on.
LEMMA ResolveStep ==
  ASSUME Inv, NEW t \in Turn, Resolve(t)
  PROVE  Advances(t)
<1>1. /\ run[t] \in Local /\ CarriedOK(t, run[t], proven)
      /\ run[t].pc = "resolve"
  BY Known DEF Resolve, Ready
<1>2. Transaction(t) \/ CacheWrite(t)
  BY DEF Resolve, Transaction
<1>3. UNCHANGED <<sweep, now, proven>> /\ faults' \in 0..MaxFaults
  BY Known DEF Resolve, Others
<1>4. ASSUME run[t].entry.tmpl \notin Unsafe,
             <<run[t].entry.tmpl, ScopeOf[t]>> \notin Denied,
             Become(t, [run[t] EXCEPT !.pc = "rget"])
      PROVE  Advances(t)
  <2> DEFINE r == [run[t] EXCEPT !.pc = "rget"]
  <2>1. r \in Local
    BY <1>1, <1>4, Names DEF Local
  <2>2. /\ r.pc = "rget" /\ r.q = run[t].q /\ r.level = run[t].level
        /\ r.entry = run[t].entry /\ r.got = run[t].got
        /\ r.dirty = run[t].dirty
    BY <1>1 DEF Local
  <2>3. CarriedOK(t, r, proven)
    BY <1>1, <1>4, <2>2 DEF CarriedOK, Asking, Scoped
  <2>4. QED
    BY <1>1, <1>2, <1>3, <1>4, <2>1, <2>2, <2>3, GoesEarly DEF Late
<1>5. ASSUME NEW o \in {"blocked", "error"},
             Become(t, [run[t] EXCEPT !.pc = "audit", !.outcome = o])
      PROVE  Advances(t)
  <2> DEFINE r == [run[t] EXCEPT !.pc = "audit", !.outcome = o]
  <2>1. r \in Local
    BY <1>1, <1>5, Names DEF Local
  <2>2. /\ r.pc = "audit" /\ r.q = run[t].q /\ r.level = run[t].level
        /\ r.entry = run[t].entry /\ r.got = run[t].got /\ r.outcome = o
        /\ r.dirty = run[t].dirty
    BY <1>1 DEF Local
  <2>3. CarriedOK(t, r, proven)
    BY <1>1, <1>5, <2>2 DEF CarriedOK, Asking, Scoped
  <2>4. QED
    BY <1>1, <1>2, <1>3, <1>5, <2>1, <2>2, <2>3, GoesEarly DEF Late
<1>6. QED
  BY <1>4, <1>5 DEF Resolve

\* An L2 hit carries rows of the turn's own template and scope.
LEMMA ResultGetStep ==
  ASSUME Inv, NEW t \in Turn, ResultGet(t)
  PROVE  Advances(t)
<1>1. /\ run[t] \in Local /\ CarriedOK(t, run[t], proven)
      /\ run[t].pc = "rget"
  BY Known DEF ResultGet, Ready
<1>2. Transaction(t) \/ CacheWrite(t)
  BY DEF ResultGet, Transaction
<1>3. UNCHANGED <<sweep, now, proven>> /\ faults' \in 0..MaxFaults
  BY Known DEF ResultGet, Others
<1>4. run[t].entry \in QueryEntry
  BY <1>1 DEF CarriedOK, Scoped
<1>5. ASSUME Become(t, [run[t] EXCEPT !.pc = "execute"])
      PROVE  Advances(t)
  <2> DEFINE r == [run[t] EXCEPT !.pc = "execute"]
  <2>1. r \in Local
    BY <1>1, <1>5, Names DEF Local
  <2>2. /\ r.pc = "execute" /\ r.q = run[t].q /\ r.level = run[t].level
        /\ r.entry = run[t].entry /\ r.got = run[t].got
        /\ r.dirty = run[t].dirty
    BY <1>1 DEF Local
  <2>3. CarriedOK(t, r, proven)
    BY <1>1, <1>5, <2>2 DEF CarriedOK, Asking, Scoped
  <2>4. QED
    BY <1>1, <1>2, <1>3, <1>5, <2>1, <2>2, <2>3, GoesEarly DEF Late
<1>6. ASSUME DB!Seen(t, ResultKey(t)) # Absent,
             Become(t, [run[t] EXCEPT !.pc = "rdel", !.got = DB!Seen(t, ResultKey(t))])
      PROVE  Advances(t)
  <2> DEFINE r == [run[t] EXCEPT !.pc = "rdel", !.got = DB!Seen(t, ResultKey(t))]
  <2>1. r \in Local
    BY <1>1, <1>6, Names, <1>4, SeenRows DEF Local
  <2>2. /\ r.pc = "rdel" /\ r.q = run[t].q /\ r.level = run[t].level
        /\ r.entry = run[t].entry /\ r.got = DB!Seen(t, ResultKey(t))
        /\ r.dirty = run[t].dirty
    BY <1>1 DEF Local
  <2>3. CarriedOK(t, r, proven)
    BY <1>1, <1>6, <1>4, SeenRows, <2>2 DEF CarriedOK, Asking, Scoped
  <2>4. QED
    BY <1>1, <1>2, <1>3, <1>6, <2>1, <2>2, <2>3, GoesEarly, <1>4, SeenRows DEF Late
<1>7. ASSUME DB!Seen(t, ResultKey(t)) # Absent,
             Become(t, [run[t] EXCEPT !.pc = "answer", !.got = DB!Seen(t, ResultKey(t)),
                                !.cached = TRUE])
      PROVE  Advances(t)
  <2> DEFINE r == [run[t] EXCEPT !.pc = "answer", !.got = DB!Seen(t, ResultKey(t)),
                                !.cached = TRUE]
  <2>1. r \in Local
    BY <1>1, <1>7, Names, <1>4, SeenRows DEF Local
  <2>2. /\ r.pc = "answer" /\ r.q = run[t].q /\ r.level = run[t].level
        /\ r.entry = run[t].entry /\ r.got = DB!Seen(t, ResultKey(t))
        /\ r.dirty = run[t].dirty
    BY <1>1 DEF Local
  <2>3. CarriedOK(t, r, proven)
    BY <1>1, <1>7, <1>4, SeenRows, <2>2 DEF CarriedOK, Asking, Scoped
  <2>4. QED
    BY <1>1, <1>2, <1>3, <1>7, <2>1, <2>2, <2>3, GoesEarly, <1>4, SeenRows DEF Late
<1>8. QED
  BY <1>5, <1>6, <1>7 DEF ResultGet

\* The SELECT of result_cache.put.
LEMMA PutSelectStep ==
  ASSUME Inv, NEW t \in Turn, PutSelect(t)
  PROVE  Advances(t)
<1>1. /\ run[t] \in Local /\ CarriedOK(t, run[t], proven)
      /\ run[t].pc = "putsel"
  BY Known DEF PutSelect, Ready
<1>2. Transaction(t) \/ CacheWrite(t)
  BY DEF PutSelect, Transaction
<1>3. UNCHANGED <<sweep, now, proven>> /\ faults' \in 0..MaxFaults
  BY Known DEF PutSelect, Others
<1>4. ASSUME NEW next \in {"putins", "putupd"},
             Become(t, [run[t] EXCEPT !.pc = next])
      PROVE  Advances(t)
  <2> DEFINE r == [run[t] EXCEPT !.pc = next]
  <2>1. r \in Local
    BY <1>1, <1>4, Names DEF Local
  <2>2. /\ r.pc = next /\ r.q = run[t].q /\ r.level = run[t].level
        /\ r.entry = run[t].entry /\ r.got = run[t].got
        /\ r.dirty = run[t].dirty
    BY <1>1 DEF Local
  <2>3. CarriedOK(t, r, proven)
    BY <1>1, <1>4, <2>2 DEF CarriedOK, Asking, Scoped
  <2>4. QED
    BY <1>1, <1>2, <1>3, <1>4, <2>1, <2>2, <2>3, GoesEarly DEF Late
<1>5. QED
  BY <1>4 DEF PutSelect

\* The answer is streamed.
LEMMA AnswerStep ==
  ASSUME Inv, NEW t \in Turn, Answer(t)
  PROVE  Advances(t)
<1>1. /\ run[t] \in Local /\ CarriedOK(t, run[t], proven)
      /\ run[t].pc = "answer"
  BY Known DEF Answer, Ready
<1>2. Transaction(t) \/ CacheWrite(t)
  BY DEF Answer, Transaction
<1>3. UNCHANGED <<sweep, now, proven>> /\ faults' \in 0..MaxFaults
  BY Known DEF Answer, Others
<1>4. ASSUME NEW o \in {"answer", "error"},
             Become(t, [run[t] EXCEPT !.pc = "audit", !.outcome = o])
      PROVE  Advances(t)
  <2> DEFINE r == [run[t] EXCEPT !.pc = "audit", !.outcome = o]
  <2>1. r \in Local
    BY <1>1, <1>4, Names DEF Local
  <2>2. /\ r.pc = "audit" /\ r.q = run[t].q /\ r.level = run[t].level
        /\ r.entry = run[t].entry /\ r.got = run[t].got /\ r.outcome = o
        /\ r.dirty = run[t].dirty
    BY <1>1 DEF Local
  <2>3. CarriedOK(t, r, proven)
    BY <1>1, <1>4, <2>2 DEF CarriedOK, Asking, Scoped
  <2>4. QED
    BY <1>1, <1>2, <1>3, <1>4, <2>1, <2>2, <2>3, GoesEarly DEF Late
<1>5. QED
  BY <1>4 DEF Answer

\* A statement fails and the outermost handler takes over.
LEMMA StatementRaisesStep ==
  ASSUME Inv, NEW t \in Turn, StatementRaises(t)
  PROVE  Advances(t)
<1>1. /\ run[t] \in Local /\ CarriedOK(t, run[t], proven)
      /\ run[t].pc \in {"exact", "alias", "rget", "rdel"}
  BY Known DEF StatementRaises, Ready
<1>2. Transaction(t) \/ CacheWrite(t)
  BY DEF StatementRaises, Transaction
<1>3. UNCHANGED <<sweep, now, proven>> /\ faults' \in 0..MaxFaults
  BY RaisesWithinBound DEF StatementRaises
<1>4. ASSUME Become(t, [run[t] EXCEPT !.pc = "audit", !.outcome = "error",
                                !.dirty = None])
      PROVE  Advances(t)
  <2> DEFINE r == [run[t] EXCEPT !.pc = "audit", !.outcome = "error",
                                !.dirty = None]
  <2>1. r \in Local
    BY <1>1, <1>4, Names DEF Local
  <2>2. /\ r.pc = "audit" /\ r.q = run[t].q /\ r.level = run[t].level
        /\ r.entry = run[t].entry /\ r.got = run[t].got /\ r.outcome = "error"
        /\ r.dirty = None
    BY <1>1 DEF Local
  <2>3. CarriedOK(t, r, proven)
    BY <1>1, <1>4, <2>2 DEF CarriedOK, Asking, Scoped
  <2>4. QED
    BY <1>1, <1>2, <1>3, <1>4, <2>1, <2>2, <2>3, GoesEarly DEF Late
<1>5. QED
  BY <1>4 DEF StatementRaises

\* The L1 lookup fails and counts as a miss.
LEMMA SemanticRaisesStep ==
  ASSUME Inv, NEW t \in Turn, SemanticRaises(t)
  PROVE  Advances(t)
<1>1. /\ run[t] \in Local /\ CarriedOK(t, run[t], proven)
      /\ run[t].pc = "semantic"
  BY Known DEF SemanticRaises, Ready
<1>2. Transaction(t) \/ CacheWrite(t)
  BY DEF SemanticRaises, Transaction
<1>3. UNCHANGED <<sweep, now, proven>> /\ faults' \in 0..MaxFaults
  BY RaisesWithinBound DEF SemanticRaises
<1>4. ASSUME Become(t, [run[t] EXCEPT !.pc = "generate", !.embedded = TRUE,
                                !.missed = TRUE])
      PROVE  Advances(t)
  <2> DEFINE r == [run[t] EXCEPT !.pc = "generate", !.embedded = TRUE,
                                !.missed = TRUE]
  <2>1. r \in Local
    BY <1>1, <1>4, Names DEF Local
  <2>2. /\ r.pc = "generate" /\ r.q = run[t].q /\ r.level = run[t].level
        /\ r.entry = run[t].entry /\ r.got = run[t].got
        /\ r.dirty = run[t].dirty
    BY <1>1 DEF Local
  <2>3. CarriedOK(t, r, proven)
    BY <1>1, <1>4, <2>2 DEF CarriedOK, Asking, Scoped
  <2>4. QED
    BY <1>1, <1>2, <1>3, <1>4, <2>1, <2>2, <2>3, GoesEarly DEF Late
<1>5. QED
  BY <1>4 DEF SemanticRaises

\* The result cache cannot be written.
LEMMA PutRaisesStep ==
  ASSUME Inv, NEW t \in Turn, PutRaises(t)
  PROVE  Advances(t)
<1>1. /\ run[t] \in Local /\ CarriedOK(t, run[t], proven)
      /\ run[t].pc \in {"putsel", "putins", "putupd"}
  BY Known DEF PutRaises, Ready
<1>2. Transaction(t) \/ CacheWrite(t)
  BY DEF PutRaises, Transaction
<1>3. UNCHANGED <<sweep, now, proven>> /\ faults' \in 0..MaxFaults
  BY RaisesWithinBound DEF PutRaises
<1>4. AfterPut(t) \in {"store", "answer"} /\ (AfterPut(t) = "store" => run[t].got.full)
  BY DEF AfterPut
<1>5. ASSUME Become(t, [run[t] EXCEPT !.pc = AfterPut(t)])
      PROVE  Advances(t)
  <2> DEFINE r == [run[t] EXCEPT !.pc = AfterPut(t)]
  <2>1. r \in Local
    BY <1>1, <1>5, Names, <1>4 DEF Local
  <2>2. /\ r.pc = AfterPut(t) /\ r.q = run[t].q /\ r.level = run[t].level
        /\ r.entry = run[t].entry /\ r.got = run[t].got
        /\ r.dirty = run[t].dirty
    BY <1>1 DEF Local
  <2>3. CarriedOK(t, r, proven)
    BY <1>1, <1>5, <1>4, <2>2 DEF CarriedOK, Asking, Scoped
  <2>4. QED
    BY <1>1, <1>2, <1>3, <1>5, <2>1, <2>2, <2>3, GoesEarly, <1>4 DEF Late
<1>6. QED
  BY <1>5 DEF PutRaises

\* The flywheel fails.
LEMMA StoreRaisesStep ==
  ASSUME Inv, NEW t \in Turn, StoreRaises(t)
  PROVE  Advances(t)
<1>1. /\ run[t] \in Local /\ CarriedOK(t, run[t], proven)
      /\ run[t].pc = "store"
  BY Known DEF StoreRaises, Ready
<1>2. Transaction(t) \/ CacheWrite(t)
  BY DEF StoreRaises, Transaction
<1>3. UNCHANGED <<sweep, now, proven>> /\ faults' \in 0..MaxFaults
  BY Known, RaisesWithinBound DEF StoreRaises
<1>4. ASSUME Become(t, [run[t] EXCEPT !.pc = "answer"])
      PROVE  Advances(t)
  <2> DEFINE r == [run[t] EXCEPT !.pc = "answer"]
  <2>1. r \in Local
    BY <1>1, <1>4, Names DEF Local
  <2>2. /\ r.pc = "answer" /\ r.q = run[t].q /\ r.level = run[t].level
        /\ r.entry = run[t].entry /\ r.got = run[t].got
        /\ r.dirty = run[t].dirty
    BY <1>1 DEF Local
  <2>3. CarriedOK(t, r, proven)
    BY <1>1, <1>4, <2>2 DEF CarriedOK, Asking, Scoped
  <2>4. QED
    BY <1>1, <1>2, <1>3, <1>4, <2>1, <2>2, <2>3, GoesEarly DEF Late
<1>5. QED
  BY <1>4 DEF StoreRaises

\* The alias is an entry its question may have.
LEMMA AddAliasStep ==
  ASSUME Inv, NEW t \in Turn, AddAlias(t)
  PROVE  Advances(t)
<1>1. /\ run[t] \in Local /\ CarriedOK(t, run[t], proven)
      /\ run[t].pc = "alias"
  BY Known DEF AddAlias, Ready
<1>2. Transaction(t) \/ CacheWrite(t)
  <2>1. /\ run[t].q \in Question /\ KeyOf[run[t].q] \in Key
        /\ run[t].entry \in Taught(proven')
    BY <1>1, PipelineAssumption DEF CarriedOK, Taught, AddAlias, Others
  <2>2. Alias(t) \in Taught(proven')
    BY <2>1, PipelineAssumption, Recounted DEF Alias
  <2>3. QED
    BY <2>1, <2>2 DEF AddAlias, Transaction, CacheWrite
<1>3. UNCHANGED <<sweep, now, proven>> /\ faults' \in 0..MaxFaults
  BY Known DEF AddAlias, Others
<1>4. ASSUME Become(t, [run[t] EXCEPT !.pc = "resolve"])
      PROVE  Advances(t)
  <2> DEFINE r == [run[t] EXCEPT !.pc = "resolve"]
  <2>1. r \in Local
    BY <1>1, <1>4, Names DEF Local
  <2>2. /\ r.pc = "resolve" /\ r.q = run[t].q /\ r.level = run[t].level
        /\ r.entry = run[t].entry /\ r.got = run[t].got
        /\ r.dirty = run[t].dirty
    BY <1>1 DEF Local
  <2>3. CarriedOK(t, r, proven)
    BY <1>1, <1>4, <2>2 DEF CarriedOK, Asking, Scoped
  <2>4. QED
    BY <1>1, <1>2, <1>3, <1>4, <2>1, <2>2, <2>3, GoesEarly DEF Late
<1>5. QED
  BY <1>4 DEF AddAlias

\* The expired rows are deleted, or already gone.
LEMMA DeleteExpiredStep ==
  ASSUME Inv, NEW t \in Turn, DeleteExpired(t)
  PROVE  Advances(t)
<1>1. /\ run[t] \in Local /\ CarriedOK(t, run[t], proven)
      /\ run[t].pc = "rdel"
  BY Known DEF DeleteExpired, Ready
<1>2. Transaction(t) \/ CacheWrite(t)
  <2>1. run[t].entry.tmpl \in Template /\ ScopeOf[t] \in Scope
    BY <1>1, Known DEF CarriedOK, Scoped, QueryEntry
  <2>2. QED
    BY <2>1 DEF DeleteExpired, Transaction, CacheWrite, ResultKey
<1>3. UNCHANGED <<sweep, now, proven>> /\ faults' \in 0..MaxFaults
  BY Known DEF DeleteExpired, Others
<1>4. ASSUME Become(t, [run[t] EXCEPT !.pc = "execute", !.got = None])
      PROVE  Advances(t)
  <2> DEFINE r == [run[t] EXCEPT !.pc = "execute", !.got = None]
  <2>1. r \in Local
    BY <1>1, <1>4, Names DEF Local
  <2>2. /\ r.pc = "execute" /\ r.q = run[t].q /\ r.level = run[t].level
        /\ r.entry = run[t].entry /\ r.got = None
        /\ r.dirty = run[t].dirty
    BY <1>1 DEF Local
  <2>3. CarriedOK(t, r, proven)
    BY <1>1, <1>4, <2>2 DEF CarriedOK, Asking, Scoped
  <2>4. QED
    BY <1>1, <1>2, <1>3, <1>4, <2>1, <2>2, <2>3, GoesEarly DEF Late
<1>5. QED
  BY <1>4 DEF DeleteExpired

\* The rows put in the result cache are those of its key.
LEMMA PutFlushStep ==
  ASSUME Inv, NEW t \in Turn, PutFlush(t)
  PROVE  Advances(t)
<1>1. /\ run[t] \in Local /\ CarriedOK(t, run[t], proven)
      /\ run[t].pc \in {"putins", "putupd"}
  BY Known DEF PutFlush, Ready
<1>2. Transaction(t) \/ CacheWrite(t)
  <2>1. run[t].entry.tmpl \in Template /\ ScopeOf[t] \in Scope
    BY <1>1, Known DEF CarriedOK, Scoped, QueryEntry
  <2>2. run[t].got \in Shareable(run[t].entry.tmpl, ScopeOf[t])
    BY <1>1 DEF CarriedOK, Scoped, Shareable, Local
  <2>3. QED
    BY <2>1, <2>2 DEF PutFlush, CacheWrite, ResultKey
<1>3. UNCHANGED <<sweep, now, proven>> /\ faults' \in 0..MaxFaults
  BY Known DEF PutFlush, Others
<1>4. AfterPut(t) \in {"store", "answer"} /\ (AfterPut(t) = "store" => run[t].got.full)
  BY DEF AfterPut
<1>5. ASSUME Become(t, [run[t] EXCEPT !.pc = AfterPut(t)])
      PROVE  Advances(t)
  <2> DEFINE r == [run[t] EXCEPT !.pc = AfterPut(t)]
  <2>1. r \in Local
    BY <1>1, <1>5, Names, <1>4 DEF Local
  <2>2. /\ r.pc = AfterPut(t) /\ r.q = run[t].q /\ r.level = run[t].level
        /\ r.entry = run[t].entry /\ r.got = run[t].got
        /\ r.dirty = run[t].dirty
    BY <1>1 DEF Local
  <2>3. CarriedOK(t, r, proven)
    BY <1>1, <1>5, <1>4, <2>2 DEF CarriedOK, Asking, Scoped
  <2>4. QED
    BY <1>1, <1>2, <1>3, <1>5, <2>1, <2>2, <2>3, GoesEarly, <1>4 DEF Late
<1>6. QED
  BY <1>5 DEF PutFlush

\* The flywheel teaches a proven template.
LEMMA StoreStep ==
  ASSUME Inv, NEW t \in Turn, Store(t)
  PROVE  Advances(t)
<1>1. /\ run[t] \in Local /\ CarriedOK(t, run[t], proven)
      /\ run[t].pc = "store"
  BY Known DEF Store, Ready
<1>2. Transaction(t) \/ CacheWrite(t)
  <2>1. /\ run[t].q \in Question /\ KeyOf[run[t].q] \in Key
        /\ run[t].entry \in Taught(proven')
    BY <1>1, PipelineAssumption DEF CarriedOK, Scoped, Taught, Store, Others
  <2>2. ASSUME NEW e \in QueryEntry \cup {Absent}
        PROVE  Upserted(t, e) \in Taught(proven')
    <3>1. e # Absent => e.hits \in 0..MaxHits
      BY DEF QueryEntry
    <3>2. QED
      BY <2>1, <3>1, Recounted DEF Upserted
  <2>3. DB!Seen(t, QRow(KeyOf[run[t].q])) \in QueryEntry \cup {Absent}
    BY <2>1, SeenEntry
  <2>4. QED
    BY <2>1, <2>2, <2>3 DEF Store, CacheWrite
<1>3. UNCHANGED <<sweep, now, proven>> /\ faults' \in 0..MaxFaults
  BY Known DEF Store, Others
<1>4. ASSUME Become(t, [run[t] EXCEPT !.pc = "answer", !.embedded = TRUE])
      PROVE  Advances(t)
  <2> DEFINE r == [run[t] EXCEPT !.pc = "answer", !.embedded = TRUE]
  <2>1. r \in Local
    BY <1>1, <1>4, Names DEF Local
  <2>2. /\ r.pc = "answer" /\ r.q = run[t].q /\ r.level = run[t].level
        /\ r.entry = run[t].entry /\ r.got = run[t].got
        /\ r.dirty = run[t].dirty
    BY <1>1 DEF Local
  <2>3. CarriedOK(t, r, proven)
    BY <1>1, <1>4, <2>2 DEF CarriedOK, Asking, Scoped
  <2>4. QED
    BY <1>1, <1>2, <1>3, <1>4, <2>1, <2>2, <2>3, GoesEarly DEF Late
<1>5. QED
  BY <1>4 DEF Store

\* A query that ran is proven if it returned rows; a failed one is not.
LEMMA ExecuteStep ==
  ASSUME Inv, NEW t \in Turn, Execute(t)
  PROVE  Advances(t)
<1>1. /\ run[t] \in Local /\ CarriedOK(t, run[t], proven)
      /\ run[t].pc = "execute" /\ ScopeOf[t] \in Scope
  BY Known DEF Execute
<1>2. Transaction(t) \/ CacheWrite(t)
  BY DEF Execute, Transaction
<1>3. UNCHANGED <<sweep, now>> /\ faults' \in 0..MaxFaults
  BY Known DEF Execute
<1>4. ASSUME UNCHANGED proven,
             Become(t, [run[t] EXCEPT !.pc = "audit", !.outcome = "dberror"])
      PROVE  Advances(t)
  <2> DEFINE r == [run[t] EXCEPT !.pc = "audit", !.outcome = "dberror"]
  <2>1. r \in Local
    BY <1>1, Names DEF Local
  <2>2. /\ r.pc = "audit" /\ r.outcome = "dberror" /\ r.entry = run[t].entry
        /\ r.got = run[t].got
        /\ r.dirty = run[t].dirty
    BY <1>1 DEF Local
  <2>3. CarriedOK(t, r, proven)
    BY <1>1, <2>2 DEF CarriedOK, Asking, Scoped
  <2>4. QED
    BY <1>1, <1>2, <1>3, <1>4, <2>1, <2>2, <2>3, GoesEarly DEF Late
<1>5. ASSUME NEW full \in BOOLEAN,
             proven' = IF full THEN proven \cup {run[t].entry.tmpl} ELSE proven,
             Become(t, [run[t] EXCEPT !.pc = "putsel", !.got = RowSet(t, full)])
      PROVE  Advances(t)
  <2> DEFINE r == [run[t] EXCEPT !.pc = "putsel", !.got = RowSet(t, full)]
  <2>1. run[t].entry \in QueryEntry /\ run[t].entry.tmpl \in Template
    BY <1>1 DEF CarriedOK, Scoped, QueryEntry
  <2>2. now + TTL \in 0..(MaxTime + TTL)
    BY PipelineAssumption DEF Inv, TypeOK
  <2>3. /\ RowSet(t, full) \in ResultEntry /\ RowSet(t, full).full = full
        /\ RowSet(t, full).tmpl = run[t].entry.tmpl
        /\ RowSet(t, full).scope = ScopeOf[t]
    BY <1>1, <2>1, <2>2 DEF RowSet, ResultEntry
  <2>4. r \in Local
    BY <1>1, <2>3, Names DEF Local
  <2>5. /\ r.pc = "putsel" /\ r.q = run[t].q /\ r.level = run[t].level
        /\ r.entry = run[t].entry /\ r.got = RowSet(t, full)
        /\ r.dirty = run[t].dirty
    BY <1>1 DEF Local
  <2>6. RowSet(t, full) # None
    BY <2>3, MarkersDiffer
  <2>7. proven \subseteq proven' /\ proven' \subseteq Template
    BY <1>5, <2>1 DEF Inv, TypeOK
  <2>8. full => run[t].entry.tmpl \in proven'
    BY <1>5
  <2>9. CarriedOK(t, r, proven')
    BY <1>1, <2>3, <2>5, <2>6, <2>7, <2>8 DEF CarriedOK, Asking, Scoped
  <2>10. AuditOK(t)'
    BY <1>1, <1>2, <1>5, <2>4, <2>5, EarlyAudit DEF Late
  <2>11. QED
    BY <1>2, <1>3, <1>5, <2>4, <2>7, <2>9, <2>10 DEF Advances, Permitted
<1>6. QED
  BY <1>4, <1>5 DEF Execute

-----------------------------------------------------------------------------
(* The audit and after it.                                                 *)

\* A session step that writes no audit row leaves the turn's own alone.
LEMMA OwnRowsKept ==
  ASSUME Inv, NEW t \in Turn, UNCHANGED session \/ CacheWrite(t)
  PROVE  /\ \A n \in 1..2 : table'[ARow(t, n)] = table[ARow(t, n)]
         /\ \A n \in 1..2, c \in Client :
              pending'[c][ARow(t, n)] = pending[c][ARow(t, n)]
         /\ stale' = stale
<1>1. CASE UNCHANGED session
  BY <1>1 DEF session
<1>2. CASE CacheWrite(t)
  <2>1. PICK r \in Row : \E v \in Value \cup {Absent} :
          DB!Write(t, r, v) /\ \A u, n : ARow(u, n) # r
    BY <1>2, Known, CacheRow
  <2>2. stale' = stale
    BY <2>1 DEF DB!Write
  <2>3. QED
    BY <2>1, <2>2, Known, RowsDiffer, WriteOneRow DEF Inv, TypeOK
<1>3. QED
  BY <1>1, <1>2

\* Such a step keeps the audit invariant if the outcome stays.
LEMMA AuditKept ==
  ASSUME Inv, NEW t \in Turn, NEW r \in Local, Become(t, r),
         UNCHANGED session \/ CacheWrite(t),
         r.outcome = run[t].outcome, r.gone = run[t].gone,
         r.pc = run[t].pc \/ (run[t].pc \in Late /\ r.pc \in Late),
         r.pc = "topup" => pending[t][ARow(t, 1)] # Keep
  PROVE  AuditOK(t)'
<1>1. AuditOK(t) /\ run'[t] = r /\ t \in Client
  BY DEF Inv, TypeOK, Become, Client
<1>2. /\ \A n \in {1, 2} : table'[ARow(t, n)] = table[ARow(t, n)]
      /\ \A n \in {1, 2}, c \in Client :
           pending'[c][ARow(t, n)] = pending[c][ARow(t, n)]
      /\ stale'[t] = stale[t]
  BY OwnRowsKept
<1>3. "closed" \notin Late
  BY DEF Late
<1>4. QED
  BY <1>1, <1>2, <1>3 DEF AuditOK

\* A rollback takes the audit row with it.
LEMMA RolledBackAudit ==
  ASSUME Inv, NEW t \in Turn, NEW r \in Local, Become(t, r), DB!Rollback(t),
         run[t].pc # "closed", r.pc # "topup"
  PROVE  AuditOK(t)'
<1>1. AuditOK(t) /\ run'[t] = r /\ t \in Client /\ DB!TypeOK
  BY DEF Inv, TypeOK, Become, Client
<1>2. stale'[t] = TRUE
  BY <1>1 DEF DB!Rollback, DB!TypeOK
<1>3. /\ ARow(t, 1) \in Row /\ ARow(t, 2) \in Row
      /\ table'[ARow(t, 1)] = Absent /\ table'[ARow(t, 2)] = Absent
  BY <1>1, RowsDiffer, Dropped DEF AuditOK
<1>4. \A c \in Client : /\ pending'[c][ARow(t, 1)] = Keep
                        /\ pending'[c][ARow(t, 2)] = Keep
  BY <1>1, <1>3, Dropped DEF AuditOK
<1>5. QED
  BY <1>1, <1>2, <1>3, <1>4 DEF AuditOK

\* Suggestions are best effort.
LEMMA SuggestStep ==
  ASSUME Inv, NEW t \in Turn, Suggest(t)
  PROVE  Advances(t)
<1>1. /\ run[t] \in Local /\ CarriedOK(t, run[t], proven)
      /\ run[t].pc = "suggest"
  BY Known DEF Suggest, Ready
<1>2. UNCHANGED <<sweep, now, proven>> /\ faults' \in 0..MaxFaults
  BY Known DEF Suggest, Others
<1>3. ASSUME NEW next \in {"topup", "commit"},
             next = "topup" => Audited(t, 1),
             Become(t, [run[t] EXCEPT !.pc = next])
      PROVE  Advances(t)
  <2> DEFINE r == [run[t] EXCEPT !.pc = next]
  <2>1. r \in Local
    BY <1>1, <1>3, Names DEF Local
  <2>2. /\ r.pc = next /\ r.q = run[t].q /\ r.level = run[t].level
        /\ r.entry = run[t].entry /\ r.got = run[t].got
        /\ r.dirty = run[t].dirty
        /\ r.outcome = run[t].outcome /\ r.gone = run[t].gone
    BY <1>1 DEF Local
  <2>3. CarriedOK(t, r, proven)
    BY <1>1, <1>3, <2>2 DEF CarriedOK, Asking, Scoped
  <2>4. Transaction(t) \/ Permitted(t)
    BY DEF Suggest, Transaction
  <2>5. AuditOK(t)'
    <3>1. Audited(t, 1) => pending[t][ARow(t, 1)] # Keep
      BY <1>1 DEF Audited, DB!Seen, Inv, AuditOK
    <3>2. QED
      BY <1>1, <1>3, <2>1, <2>2, <3>1, AuditKept DEF Late, Suggest
  <2>6. QED
    BY <1>2, <1>3, <2>1, <2>3, <2>4, <2>5, Goes
<1>4. QED
  BY <1>3 DEF Suggest

\* The savepoint of the top-up is rolled back.
LEMMA TopUpRaisesStep ==
  ASSUME Inv, NEW t \in Turn, TopUpRaises(t)
  PROVE  Advances(t)
<1>1. /\ run[t] \in Local /\ CarriedOK(t, run[t], proven)
      /\ run[t].pc = "topup"
  BY Known DEF TopUpRaises, Ready
<1>2. UNCHANGED <<sweep, now, proven>> /\ faults' \in 0..MaxFaults
  BY RaisesWithinBound DEF TopUpRaises
<1>3. ASSUME Become(t, [run[t] EXCEPT !.pc = "commit"])
      PROVE  Advances(t)
  <2> DEFINE r == [run[t] EXCEPT !.pc = "commit"]
  <2>1. r \in Local
    BY <1>1, <1>3, Names DEF Local
  <2>2. /\ r.pc = "commit" /\ r.q = run[t].q /\ r.level = run[t].level
        /\ r.entry = run[t].entry /\ r.got = run[t].got
        /\ r.dirty = run[t].dirty
        /\ r.outcome = run[t].outcome /\ r.gone = run[t].gone
    BY <1>1 DEF Local
  <2>3. CarriedOK(t, r, proven)
    BY <1>1, <1>3, <2>2 DEF CarriedOK, Asking, Scoped
  <2>4. Transaction(t) \/ Permitted(t)
    BY DEF TopUpRaises, Transaction
  <2>5. AuditOK(t)'
    BY <1>1, <1>3, <2>1, <2>2, AuditKept DEF Late, TopUpRaises
  <2>6. QED
    BY <1>2, <1>3, <2>1, <2>3, <2>4, <2>5, Goes
<1>4. QED
  BY <1>3 DEF TopUpRaises

\* A lost audit row costs the turn its session's objects.
LEMMA AuditRaisesStep ==
  ASSUME Inv, NEW t \in Turn, AuditRaises(t)
  PROVE  Advances(t)
<1>1. /\ run[t] \in Local /\ CarriedOK(t, run[t], proven)
      /\ run[t].pc = "audit"
  BY Known DEF AuditRaises, Ready
<1>2. UNCHANGED <<sweep, now, proven>> /\ faults' \in 0..MaxFaults
  BY RaisesWithinBound DEF AuditRaises
<1>3. AfterAudit(t) \in {"suggest", "commit"}
  BY DEF AfterAudit
<1>4. ASSUME Become(t, [run[t] EXCEPT !.pc = AfterAudit(t), !.dirty = None])
      PROVE  Advances(t)
  <2> DEFINE r == [run[t] EXCEPT !.pc = AfterAudit(t), !.dirty = None]
  <2>1. r \in Local
    BY <1>1, <1>4, Names, <1>3 DEF Local
  <2>2. /\ r.pc = AfterAudit(t) /\ r.q = run[t].q /\ r.level = run[t].level
        /\ r.entry = run[t].entry /\ r.got = run[t].got
        /\ r.dirty = None
        /\ r.outcome = run[t].outcome /\ r.gone = run[t].gone
    BY <1>1 DEF Local
  <2>3. CarriedOK(t, r, proven)
    BY <1>1, <1>4, <1>3, <2>2 DEF CarriedOK, Asking, Scoped
  <2>4. Transaction(t) \/ Permitted(t)
    BY DEF AuditRaises, Transaction
  <2>5. AuditOK(t)'
    BY <1>1, <1>4, <2>1, <2>2, <1>3, RolledBackAudit DEF AuditRaises
  <2>6. QED
    BY <1>2, <1>4, <2>1, <2>3, <2>4, <2>5, Goes
<1>5. QED
  BY <1>4 DEF AuditRaises

\* The final commit fails.
LEMMA CommitRaisesStep ==
  ASSUME Inv, NEW t \in Turn, CommitRaises(t)
  PROVE  Advances(t)
<1>1. /\ run[t] \in Local /\ CarriedOK(t, run[t], proven)
      /\ run[t].pc = "commit"
  BY Known DEF CommitRaises, Ready
<1>2. UNCHANGED <<sweep, now, proven>> /\ faults' \in 0..MaxFaults
  BY RaisesWithinBound DEF CommitRaises
<1>3. ASSUME Become(t, [run[t] EXCEPT !.pc = "closed", !.dirty = None])
      PROVE  Advances(t)
  <2> DEFINE r == [run[t] EXCEPT !.pc = "closed", !.dirty = None]
  <2>1. r \in Local
    BY <1>1, <1>3, Names DEF Local
  <2>2. /\ r.pc = "closed" /\ r.q = run[t].q /\ r.level = run[t].level
        /\ r.entry = run[t].entry /\ r.got = run[t].got
        /\ r.dirty = None
        /\ r.outcome = run[t].outcome /\ r.gone = run[t].gone
    BY <1>1 DEF Local
  <2>3. CarriedOK(t, r, proven)
    BY <1>1, <1>3, <2>2 DEF CarriedOK, Asking, Scoped
  <2>4. Transaction(t) \/ Permitted(t)
    BY DEF CommitRaises, Transaction
  <2>5. AuditOK(t)'
    BY <1>1, <1>3, <2>1, <2>2, RolledBackAudit DEF CommitRaises
  <2>6. QED
    BY <1>2, <1>3, <2>1, <2>3, <2>4, <2>5, Goes
<1>4. QED
  BY <1>3 DEF CommitRaises

\* The client goes away.
LEMMA DisconnectStep ==
  ASSUME Inv, NEW t \in Turn, Disconnect(t)
  PROVE  Advances(t)
<1>1. /\ run[t] \in Local /\ CarriedOK(t, run[t], proven)
      /\ run[t].pc \notin {"new", "commit", "closed"}
  BY Known DEF Disconnect, Ready
<1>2. UNCHANGED <<sweep, now, proven>> /\ faults' \in 0..MaxFaults
  BY Known DEF Disconnect, Others
<1>3. ASSUME DB!Rollback(t),
             Become(t, [run[t] EXCEPT !.pc = "closed", !.gone = TRUE,
                                !.dirty = None])
      PROVE  Advances(t)
  <2> DEFINE r == [run[t] EXCEPT !.pc = "closed", !.gone = TRUE,
                                !.dirty = None]
  <2>1. r \in Local
    BY <1>1, <1>3, Names DEF Local
  <2>2. /\ r.pc = "closed" /\ r.q = run[t].q /\ r.level = run[t].level
        /\ r.entry = run[t].entry /\ r.got = run[t].got
        /\ r.dirty = None
        /\ r.outcome = run[t].outcome /\ r.gone = TRUE
    BY <1>1 DEF Local
  <2>3. CarriedOK(t, r, proven)
    BY <1>1, <1>3, <2>2 DEF CarriedOK, Asking, Scoped
  <2>4. Transaction(t) \/ Permitted(t)
    BY <1>3 DEF Transaction
  <2>5. AuditOK(t)'
    BY <1>1, <1>3, <2>1, <2>2, RolledBackAudit
  <2>6. QED
    BY <1>2, <1>3, <2>1, <2>3, <2>4, <2>5, Goes
<1>4. ASSUME UNCHANGED session,
             Become(t, [run[t] EXCEPT !.pc = "commit", !.gone = TRUE])
      PROVE  Advances(t)
  <2> DEFINE r == [run[t] EXCEPT !.pc = "commit", !.gone = TRUE]
  <2>1. r \in Local
    BY <1>1, <1>4, Names DEF Local
  <2>2. /\ r.pc = "commit" /\ r.q = run[t].q /\ r.level = run[t].level
        /\ r.entry = run[t].entry /\ r.got = run[t].got
        /\ r.dirty = run[t].dirty
        /\ r.outcome = run[t].outcome /\ r.gone = TRUE
    BY <1>1 DEF Local
  <2>3. CarriedOK(t, r, proven)
    BY <1>1, <1>4, <2>2 DEF CarriedOK, Asking, Scoped
  <2>4. Transaction(t) \/ Permitted(t)
    BY <1>4 DEF Transaction
  <2>5. AuditOK(t)'
    <3>1. AuditOK(t) /\ run'[t] = r
      BY <1>4 DEF Inv, TypeOK, Become
    <3>2. QED
      BY <1>1, <1>4, <2>2, <3>1 DEF AuditOK, Late, session
  <2>6. QED
    BY <1>2, <1>4, <2>1, <2>3, <2>4, <2>5, Goes
<1>5. QED
  BY <1>3, <1>4 DEF Disconnect

\* The hit count is written to a row that keeps its entry.
LEMMA FlushBumpStep ==
  ASSUME Inv, NEW t \in Turn, FlushBump(t)
  PROVE  Advances(t)
<1>1. /\ run[t] \in Local /\ CarriedOK(t, run[t], proven)
      /\ run[t].dirty # None
  BY Known DEF FlushBump, Ready
<1>2. UNCHANGED <<sweep, now, proven>> /\ faults' \in 0..MaxFaults
  BY Known DEF FlushBump, Others
<1>. DEFINE k == run[t].dirty
            e == DB!Seen(t, QRow(k))
<1>9. CacheWrite(t)
  <2>1. /\ k \in Key /\ proven' = proven /\ e # Absent
        /\ DB!Write(t, QRow(k), Bumped(t, e))
    BY <1>1, <1>2 DEF FlushBump, Local
  <2>2. e \in Taught(proven')
    BY <1>2, <2>1, Known, SeenOK DEF Inv
  <2>3. run[t].entry.hits + 1 \in 0..MaxHits
    <3>1. run[t].entry.hits \in 0..MaxHits
      BY <1>1 DEF CarriedOK, QueryEntry
    <3>2. QED
      BY <3>1, PipelineAssumption DEF FlushBump
  <2>. HIDE DEF k, e
  <2>4. Bumped(t, e) \in Taught(proven')
    BY <2>2, <2>3, Recounted DEF Bumped
  <2>5. QED
    BY <2>1, <2>4 DEF CacheWrite
<1>. HIDE DEF k, e
<1>3. ASSUME Become(t, [run[t] EXCEPT !.dirty = None])
      PROVE  Advances(t)
  <2> DEFINE r == [run[t] EXCEPT !.dirty = None]
  <2>1. r \in Local
    BY <1>1, <1>3, Names DEF Local
  <2>2. /\ r.pc = run[t].pc /\ r.q = run[t].q /\ r.level = run[t].level
        /\ r.entry = run[t].entry /\ r.got = run[t].got
        /\ r.dirty = None
        /\ r.outcome = run[t].outcome /\ r.gone = run[t].gone
    BY <1>1 DEF Local
  <2>3. CarriedOK(t, r, proven)
    BY <1>1, <1>3, <2>2 DEF CarriedOK, Asking, Scoped
  <2>4. Transaction(t) \/ Permitted(t)
    BY <1>9 DEF Permitted
  <2>5. AuditOK(t)'
    <3>1. run[t].pc = "topup" => pending[t][ARow(t, 1)] # Keep
      BY DEF Inv, AuditOK
    <3>2. QED
      BY <1>1, <1>3, <1>9, <2>1, <2>2, <3>1, AuditKept
  <2>6. QED
    BY <1>2, <1>3, <2>1, <2>3, <2>4, <2>5, Goes
<1>4. QED
  BY <1>3 DEF FlushBump

\* The commit publishes the audit row.
LEMMA CommitSessionStep ==
  ASSUME Inv, NEW t \in Turn, CommitSession(t)
  PROVE  Advances(t)
<1>1. /\ run[t] \in Local /\ CarriedOK(t, run[t], proven)
      /\ run[t].pc = "commit"
  BY Known DEF CommitSession, Ready
<1>2. UNCHANGED <<sweep, now, proven>> /\ faults' \in 0..MaxFaults
  BY Known DEF CommitSession, Others
<1>3. ASSUME Become(t, [run[t] EXCEPT !.pc = "closed"])
      PROVE  Advances(t)
  <2> DEFINE r == [run[t] EXCEPT !.pc = "closed"]
  <2>1. r \in Local
    BY <1>1, <1>3, Names DEF Local
  <2>2. /\ r.pc = "closed" /\ r.q = run[t].q /\ r.level = run[t].level
        /\ r.entry = run[t].entry /\ r.got = run[t].got
        /\ r.dirty = run[t].dirty
        /\ r.outcome = run[t].outcome /\ r.gone = run[t].gone
    BY <1>1 DEF Local
  <2>3. CarriedOK(t, r, proven)
    BY <1>1, <1>3, <2>2 DEF CarriedOK, Asking, Scoped
  <2>4. Transaction(t) \/ Permitted(t)
    BY DEF CommitSession, Transaction
  <2>5. AuditOK(t)'
    <3>1. AuditOK(t) /\ run'[t] = r /\ t \in Client /\ DB!TypeOK /\ DB!Commit(t)
      BY <1>3 DEF Inv, TypeOK, Become, Client, CommitSession
    <3>2. /\ ARow(t, 1) \in Row /\ ARow(t, 2) \in Row
          /\ Absent \notin AuditEntry /\ Keep \notin AuditEntry
      BY RowsDiffer, MarkersDiffer DEF Value
    <3>3. /\ \A c \in Client : /\ pending'[c][ARow(t, 1)] = Keep
                               /\ pending'[c][ARow(t, 2)] = Keep
          /\ stale'[t] = stale[t]
          /\ \A n \in 1..2 : table'[ARow(t, n)] = DB!Seen(t, ARow(t, n))
      BY <3>1, <3>2 DEF DB!Commit, DB!NoWrites, DB!TypeOK, AuditOK
    <3>4. /\ table'[ARow(t, 2)] = Absent
          /\ table'[ARow(t, 1)] = IF pending[t][ARow(t, 1)] = Keep THEN Absent
                                   ELSE pending[t][ARow(t, 1)]
      BY <1>1, <3>1, <3>3 DEF AuditOK, DB!Seen
    <3>5. QED
      BY <1>1, <2>2, <3>1, <3>2, <3>3, <3>4 DEF AuditOK, Late
  <2>6. QED
    BY <1>2, <1>3, <2>1, <2>3, <2>4, <2>5, Goes
<1>4. QED
  BY <1>3 DEF CommitSession

\* The top-up changes the token counts of the turn's own row only.
LEMMA TopUpStep ==
  ASSUME Inv, NEW t \in Turn, TopUp(t)
  PROVE  Advances(t)
<1>1. /\ run[t] \in Local /\ CarriedOK(t, run[t], proven)
      /\ run[t].pc = "topup"
  BY Known DEF TopUp, Ready
<1>2. UNCHANGED <<sweep, now, proven>> /\ faults' \in 0..MaxFaults
  BY Known DEF TopUp, Others
<1>3. \E v \in AuditEntry : /\ DB!Write(t, ARow(t, 1), v)
                           /\ v.status = Status(run[t].outcome)
  <2>1. /\ DB!Seen(t, ARow(t, 1)) \in AuditEntry
        /\ DB!Seen(t, ARow(t, 1)).status = Status(run[t].outcome)
    BY <1>1 DEF Inv, AuditOK, DB!Seen
  <2> DEFINE v == [DB!Seen(t, ARow(t, 1)) EXCEPT !.tokens = "final"]
  <2>2. v \in AuditEntry /\ v.status = Status(run[t].outcome)
    BY <2>1 DEF AuditEntry
  <2>3. QED
    BY <2>2 DEF TopUp
<1>4. ASSUME Become(t, [run[t] EXCEPT !.pc = "commit"])
      PROVE  Advances(t)
  <2> DEFINE r == [run[t] EXCEPT !.pc = "commit"]
  <2>1. r \in Local
    BY <1>1, <1>4, Names DEF Local
  <2>2. /\ r.pc = "commit" /\ r.q = run[t].q /\ r.level = run[t].level
        /\ r.entry = run[t].entry /\ r.got = run[t].got
        /\ r.dirty = run[t].dirty
        /\ r.outcome = run[t].outcome /\ r.gone = run[t].gone
    BY <1>1 DEF Local
  <2>3. CarriedOK(t, r, proven)
    BY <1>1, <1>4, <2>2 DEF CarriedOK, Asking, Scoped
  <2>4. Transaction(t) \/ Permitted(t)
    BY <1>1, <1>3, <1>4 DEF AuditWrite, Permitted
  <2>5. AuditOK(t)'
    <3>1. AuditOK(t) /\ run'[t] = r /\ t \in Client /\ DB!TypeOK
      BY <1>4 DEF Inv, TypeOK, Become, Client
    <3>2. PICK v \in AuditEntry : /\ DB!Write(t, ARow(t, 1), v)
                                /\ v.status = Status(run[t].outcome)
      BY <1>3
    <3>3. /\ ARow(t, 1) \in Row /\ ARow(t, 2) \in Row /\ ARow(t, 1) # ARow(t, 2)
          /\ Keep \notin AuditEntry
      BY RowsDiffer, MarkersDiffer DEF Value
    <3>4. /\ table' = table /\ stale' = stale
          /\ pending' = [pending EXCEPT ![t][ARow(t, 1)] = v]
      BY <3>2 DEF DB!Write
    <3>5. /\ pending'[t][ARow(t, 1)] = v
          /\ \A c \in Client : pending'[c][ARow(t, 2)] = pending[c][ARow(t, 2)]
          /\ \A c \in Client \ {t} : pending'[c] = pending[c]
      BY <3>1, <3>3, <3>4 DEF DB!TypeOK
    <3>6. QED
      BY <1>1, <2>2, <3>1, <3>2, <3>3, <3>4, <3>5 DEF AuditOK, Late
  <2>6. QED
    BY <1>2, <1>4, <2>1, <2>3, <2>4, <2>5, Goes
<1>5. QED
  BY <1>4 DEF TopUp

\* The audit row is the turn's first, and tells its outcome.
LEMMA AuditStep ==
  ASSUME Inv, NEW t \in Turn, Audit(t)
  PROVE  Advances(t)
<1>1. /\ run[t] \in Local /\ CarriedOK(t, run[t], proven)
      /\ run[t].pc = "audit"
  BY Known DEF Audit, Ready
<1>2. UNCHANGED <<sweep, now, proven>> /\ faults' \in 0..MaxFaults
  BY Known DEF Audit, Others
<1>3. \E v \in AuditEntry : /\ DB!Write(t, ARow(t, 1), v)
                           /\ v.status = Status(run[t].outcome)
  <2>1. PICK n \in 1..2 :
          /\ \A m \in 1..(n - 1) : Audited(t, m)
          /\ DB!Write(t, ARow(t, n), [status |-> Status(run[t].outcome),
                                      tokens |-> "early"])
    BY DEF Audit
  <2>2. ~Audited(t, 1)
    BY <1>1 DEF Inv, AuditOK, Audited, DB!Seen, Late
  <2>3. n = 1
    BY <2>1, <2>2
  <2>4. run[t].outcome \in Outcome \ {"none"}
    BY <1>1 DEF CarriedOK, Local
  <2>5. Status(run[t].outcome) \in {"ok", "blocked", "error"}
    BY <2>4 DEF Status, Outcome
  <2>6. QED
    BY <2>1, <2>3, <2>5 DEF AuditEntry
<1>4. AfterAudit(t) \in {"suggest", "commit"}
  BY DEF AfterAudit
<1>5. ASSUME Become(t, [run[t] EXCEPT !.pc = AfterAudit(t)])
      PROVE  Advances(t)
  <2> DEFINE r == [run[t] EXCEPT !.pc = AfterAudit(t)]
  <2>1. r \in Local
    BY <1>1, <1>5, Names, <1>4 DEF Local
  <2>2. /\ r.pc = AfterAudit(t) /\ r.q = run[t].q /\ r.level = run[t].level
        /\ r.entry = run[t].entry /\ r.got = run[t].got
        /\ r.dirty = run[t].dirty
        /\ r.outcome = run[t].outcome /\ r.gone = run[t].gone
    BY <1>1 DEF Local
  <2>3. CarriedOK(t, r, proven)
    BY <1>1, <1>5, <1>4, <2>2 DEF CarriedOK, Asking, Scoped
  <2>4. Transaction(t) \/ Permitted(t)
    BY <1>1, <1>3, <1>5 DEF AuditWrite, Permitted
  <2>5. AuditOK(t)'
    <3>1. AuditOK(t) /\ run'[t] = r /\ t \in Client /\ DB!TypeOK
      BY <1>5 DEF Inv, TypeOK, Become, Client
    <3>2. PICK v \in AuditEntry : /\ DB!Write(t, ARow(t, 1), v)
                                /\ v.status = Status(run[t].outcome)
      BY <1>3
    <3>3. /\ ARow(t, 1) \in Row /\ ARow(t, 2) \in Row /\ ARow(t, 1) # ARow(t, 2)
          /\ Keep \notin AuditEntry
      BY RowsDiffer, MarkersDiffer DEF Value
    <3>4. /\ table' = table /\ stale' = stale
          /\ pending' = [pending EXCEPT ![t][ARow(t, 1)] = v]
      BY <3>2 DEF DB!Write
    <3>5. /\ pending'[t][ARow(t, 1)] = v
          /\ \A c \in Client : pending'[c][ARow(t, 2)] = pending[c][ARow(t, 2)]
          /\ \A c \in Client \ {t} : pending'[c] = pending[c]
      BY <3>1, <3>3, <3>4 DEF DB!TypeOK
    <3>6. QED
      BY <1>1, <1>4, <2>2, <3>1, <3>2, <3>3, <3>4, <3>5 DEF AuditOK, Late
  <2>6. QED
    BY <1>2, <1>5, <2>1, <2>3, <2>4, <2>5, Goes
<1>6. QED
  BY <1>5 DEF Audit

-----------------------------------------------------------------------------
(* The sweeper and the clock.                                              *)

\* What the sweeper may do.
Sweeps ==
  /\ Transaction(Sweeper) \/ CacheWrite(Sweeper)
  /\ UNCHANGED <<run, now, proven>>
  /\ faults' \in 0..MaxFaults
  /\ sweep' \in [on : BOOLEAN, cutoff : Nat, todo : SUBSET ResultRow]

LEMMA SweepKeepsInv ==
  ASSUME Inv, Sweeps
  PROVE  Inv'
<1> USE DEF Inv, Sweeps
<1>1. Sweeper \in Client /\ DB!TypeOK /\ Sweeper \notin Turn
  BY PipelineAssumption DEF Client, TypeOK
<1>2. Transaction(Sweeper) \/ Permitted(Sweeper)
  BY DEF Permitted
<1>3. DB!TypeOK' /\ QueryOK' /\ ResultOK'
  BY <1>1, <1>2, TransactionKeepsRows, WriteKeepsRows
<1>4. TypeOK'
  BY <1>3 DEF TypeOK
<1>5. ASSUME NEW t \in Turn
      PROVE  CarriedOK(t, run'[t], proven') /\ AuditOK(t)'
  <2>1. t \in Turn \ {Sweeper} /\ t \in Client
    BY <1>1 DEF Client
  <2>2. AuditOK(t) /\ run'[t] = run[t]
    OBVIOUS
  <2>3. AuditOK(t)'
    BY <1>1, <1>2, <2>1, <2>2, AuditRowsElsewhere DEF AuditOK
  <2>4. QED
    BY <2>3
<1>6. QED
  BY <1>3, <1>4, <1>5

LEMMA SweepStep ==
  ASSUME Inv, Sweep
  PROVE  Sweeps
<1> USE DEF Sweeps
<1>1. /\ sweep \in [on : BOOLEAN, cutoff : Nat, todo : SUBSET ResultRow]
      /\ now \in Nat /\ faults \in 0..MaxFaults /\ MaxFaults \in Nat
      /\ NotSweeping \in [on : BOOLEAN, cutoff : Nat, todo : SUBSET ResultRow]
  BY PipelineAssumption DEF Inv, TypeOK, NotSweeping
<1>2. CASE SweepBegin
  BY <1>1, <1>2 DEF SweepBegin, Transaction
<1>3. CASE SweepRow
  <2>1. Wants(Sweeper) \in ResultRow
    <3>1. PICK r \in ResultRow : r \in sweep.todo
      BY <1>1, <1>3 DEF SweepRow
    <3>2. Wants(Sweeper) = CHOOSE x \in sweep.todo : TRUE
      BY <3>1, PipelineAssumption DEF Wants
    <3>3. QED
      BY <1>1, <3>1, <3>2
  <2>2. PICK x \in Template, s \in Scope : Wants(Sweeper) = KRow(x, s)
    BY <2>1 DEF ResultRow
  <2>3. Transaction(Sweeper) \/ CacheWrite(Sweeper)
    BY <1>3, <2>2 DEF SweepRow, Transaction, CacheWrite
  <2>4. sweep' \in [on : BOOLEAN, cutoff : Nat, todo : SUBSET ResultRow]
    BY <1>1, <1>3 DEF SweepRow
  <2>5. QED
    BY <1>1, <1>3, <2>3, <2>4 DEF SweepRow
<1>4. CASE SweepCommit
  BY <1>1, <1>4 DEF SweepCommit, Transaction
<1>5. CASE SweepRaises
  BY <1>1, <1>5 DEF SweepRaises, Transaction
<1>6. QED
  BY <1>2, <1>3, <1>4, <1>5 DEF Sweep

LEMMA QuietKeepsInv ==
  ASSUME Inv, UNCHANGED <<session, run, sweep, faults, proven>>, now' \in 0..MaxTime
  PROVE  Inv'
BY DEF Inv, TypeOK, QueryOK, ResultOK, AuditOK, session, DB!TypeOK, DB!Seen

-----------------------------------------------------------------------------
(* The specification.                                                      *)

LEMMA InitInv == Init => Inv
<1> SUFFICES ASSUME Init PROVE Inv
  OBVIOUS
<1> USE DEF Init, DB!Init
<1>1. DB!TypeOK
  BY DEF DB!TypeOK, DB!NoWrites
<1>2. ASSUME NEW t \in Turn
      PROVE  run[t] \in Local /\ CarriedOK(t, run[t], proven)
  <2>1. run[t] = [pc |-> "new", q |-> None, level |-> "none", entry |-> None,
                  hit |-> None, dirty |-> None, embedded |-> FALSE, missed |-> FALSE,
                  got |-> None, cached |-> FALSE, outcome |-> "none", gone |-> FALSE]
    OBVIOUS
  <2>2. run[t] \in Local
    BY <2>1, Names DEF Local
  <2>3. /\ run[t].pc = "new" /\ run[t].got = None
        /\ run[t].dirty = None /\ run[t].level = "none"
    BY <2>1
  <2>4. QED
    BY <2>2, <2>3 DEF CarriedOK, Asking, Scoped
<1>3. TypeOK
  <2>1. run = [t \in Turn |-> run[t]]
    OBVIOUS
  <2>2. run \in [Turn -> Local]
    BY <1>2, <2>1
  <2>3. sweep \in [on : BOOLEAN, cutoff : Nat, todo : SUBSET ResultRow]
    BY DEF NotSweeping
  <2>4. now \in 0..MaxTime /\ faults \in 0..MaxFaults /\ proven \subseteq Template
    BY PipelineAssumption
  <2>5. QED
    BY <1>1, <2>2, <2>3, <2>4 DEF TypeOK
<1>4. /\ \A r \in Row : table[r] = Absent
      /\ \A c \in Client, r \in Row : pending[c][r] = Keep
  BY DEF DB!NoWrites
<1>5. QueryOK /\ ResultOK
  BY <1>4, RowsDiffer DEF QueryOK, ResultOK
<1>6. ASSUME NEW t \in Turn
      PROVE  AuditOK(t)
  BY <1>4, RowsDiffer DEF AuditOK, Late, Client
<1>7. QED
  BY <1>2, <1>3, <1>5, <1>6 DEF Inv

LEMMA TurnStep ==
  ASSUME Inv, NEW t \in Turn,
         \/ Arrive(t) \/ Advance(t) \/ EmbeddingOutage(t)
         \/ Raise(t) \/ Disconnect(t)
  PROVE  Advances(t)
<1>1. CASE Arrive(t) \/ EmbeddingOutage(t) \/ Disconnect(t)
  BY <1>1, ArriveStep, EmbeddingOutageStep, DisconnectStep
<1>2. CASE Raise(t)
  BY <1>2, StatementRaisesStep, SemanticRaisesStep, PutRaisesStep,
     StoreRaisesStep, AuditRaisesStep, TopUpRaisesStep, CommitRaisesStep DEF Raise
<1>3. CASE Advance(t)
  BY <1>3, FlushBumpStep, LookupExactStep, LookupSemanticStep, AddAliasStep,
     GenerateStep, ResolveStep, ResultGetStep, DeleteExpiredStep, ExecuteStep,
     PutSelectStep, PutFlushStep, StoreStep, AnswerStep, AuditStep, SuggestStep,
     TopUpStep, CommitSessionStep DEF Advance
<1>4. QED
  BY <1>1, <1>2, <1>3

LEMMA NextInv == Inv /\ [Next]_vars => Inv'
<1> SUFFICES ASSUME Inv, [Next]_vars PROVE Inv'
  OBVIOUS
<1>1. now \in 0..MaxTime /\ MaxTime \in Nat
  BY PipelineAssumption DEF Inv, TypeOK
<1>2. ASSUME NEW t \in Turn,
             \/ Arrive(t) \/ Advance(t) \/ EmbeddingOutage(t)
             \/ Raise(t) \/ Disconnect(t)
      PROVE  Inv'
  BY <1>2, TurnStep, AdvanceKeepsInv
<1>3. CASE Sweep
  BY <1>3, SweepStep, SweepKeepsInv
<1>4. CASE Tick
  BY <1>1, <1>4, QuietKeepsInv DEF Tick
<1>5. CASE Idle \/ UNCHANGED vars
  BY <1>1, <1>5, QuietKeepsInv DEF Idle, vars
<1>6. QED
  BY <1>2, <1>3, <1>4, <1>5 DEF Next

\* The inductive invariant holds in every reachable state.
THEOREM Invariant == Spec => []Inv
  BY InitInv, NextInv, PTL DEF Spec

\* Every reachable state is well formed: locks, write sets, the turns' local
\* variables and the sweep, for any number of concurrent turns.
THEOREM TypeCorrect == Spec => []TypeOK
<1>1. Inv => TypeOK
  BY DEF Inv
<1>2. QED
  BY <1>1, Invariant, PTL

\* No turn shows rows of another template or another user's scope, and the
\* result cache never holds rows of a rejected or refused statement.
THEOREM NoScopeLeak == Spec => []ServedRowsInScope
<1>1. ASSUME Inv
      PROVE  ServedRowsInScope
  BY <1>1 DEF Inv, CarriedOK, ResultOK, Shareable, ServedRowsInScope
<1>2. QED
  BY <1>1, Invariant, PTL

\* The query cache holds only templates that passed the guard and returned
\* rows, through every alias, upsert, rollback and lost statement.
THEOREM FlywheelTeachesProven == Spec => []OnlyProvenTemplatesAreTaught
<1>1. ASSUME Inv
      PROVE  OnlyProvenTemplatesAreTaught
  BY <1>1 DEF Inv, QueryOK, Taught, OnlyProvenTemplatesAreTaught
<1>2. QED
  BY <1>1, Invariant, PTL

\* A semantic hit serves a template written for a near question of the same
\* temporal intent, whatever was aliased and taught again since.
THEOREM HitsFit == Spec => []SemanticHitsFit
<1>1. ASSUME Inv
      PROVE  SemanticHitsFit
  BY <1>1 DEF Inv, CarriedOK, SemanticHitsFit
<1>2. QED
  BY <1>1, Invariant, PTL

\* The audit rows: at most one per turn, truthful, and lost only with a
\* disconnect or a rollback of the turn's session.
THEOREM AuditRowsAreTruthful == Spec => []AuditTrail
<1>1. ASSUME Inv
      PROVE  AuditTrail
  BY <1>1 DEF Inv, AuditOK, AuditTrail
<1>2. QED
  BY <1>1, Invariant, PTL

\* The turns and the sweeper use the database only as a client of Sessions may.
THEOREM Refinement == Spec => ImplementsSessions
<1>1. Init => DB!Init
  BY DEF Init
<1>2. ASSUME NEW c \in Client, Transaction(c) \/ Permitted(c)
      PROVE  [DB!Next]_(DB!vars)
  <2>1. CASE Transaction(c)
    BY <2>1 DEF Transaction, DB!Next, DB!vars, session
  <2>2. CASE AuditWrite(c)
    BY <2>2, RowsDiffer DEF AuditWrite, DB!Next, Value
  <2>3. CASE CacheWrite(c)
    BY <2>3, CacheRow DEF DB!Next
  <2>4. QED
    BY <1>2, <2>1, <2>2, <2>3 DEF Permitted
<1>3. ASSUME Inv, [Next]_vars
      PROVE  [DB!Next]_(DB!vars)
  <2>1. ASSUME NEW t \in Turn,
               \/ Arrive(t) \/ Advance(t) \/ EmbeddingOutage(t)
               \/ Raise(t) \/ Disconnect(t)
        PROVE  [DB!Next]_(DB!vars)
    BY <1>2, <1>3, <2>1, TurnStep, Known DEF Advances
  <2>2. CASE Sweep
    BY <1>2, <1>3, <2>2, SweepStep DEF Sweeps, Client, Permitted
  <2>3. CASE Tick \/ Idle \/ UNCHANGED vars
    BY <2>3 DEF Tick, Idle, vars, session, DB!vars
  <2>4. QED
    BY <1>3, <2>1, <2>2, <2>3 DEF Next
<1>4. QED
  BY <1>1, <1>3, Invariant, PTL DEF Spec, ImplementsSessions, DB!Spec

Sessioned == INSTANCE SessionsProofs

\* (Both instances of Sessions say the same.)
LEMMA SameSessions == DB!Spec => Sessioned!Spec
<1>1. DB!Init => Sessioned!Init
  BY DEF DB!Init, Sessioned!Init, DB!NoWrites, Sessioned!NoWrites
<1>2. [DB!Next]_(DB!vars) => [Sessioned!Next]_(Sessioned!vars)
  BY DEF DB!Next, Sessioned!Next, DB!vars, Sessioned!vars, DB!Write,
     Sessioned!Write, DB!Available, Sessioned!Available, DB!Fail,
     Sessioned!Fail, DB!Rollback, Sessioned!Rollback, DB!Commit,
     Sessioned!Commit, DB!NoWrites, Sessioned!NoWrites, DB!Unlocked,
     Sessioned!Unlocked, DB!Seen, Sessioned!Seen
<1>3. QED
  BY <1>1, <1>2, PTL DEF DB!Spec, Sessioned!Spec

\* What holds of any client of Sessions holds of the turns and the sweeper.
LEMMA TurnsAreSafe ==
  Spec => [](Sessioned!WritesAreLocked /\ Sessioned!FailedHoldsNothing)
<1>1. Sessioned!Spec => [](Sessioned!TypeOK /\ Sessioned!WritesAreLocked
                             /\ Sessioned!FailedHoldsNothing)
  BY Sessioned!SessionSafety, MarkersDiffer DEF Sessioned!SessionAssumption
<1>2. QED
  BY <1>1, SameSessions, Refinement, PTL DEF ImplementsSessions

-----------------------------------------------------------------------------
(* The sweeper spares what is fresh.                                       *)

\* What a pass has deleted but not committed was, and still is, expired: the
\* rows are locked, so no turn can replace them before the commit.
SweepInv ==
  /\ sweep.cutoff <= now
  /\ ~sweep.on => sweep.todo = {} /\ \A r \in Row : pending[Sweeper][r] = Keep
  /\ \A r \in Row : pending[Sweeper][r] # Keep =>
       /\ pending[Sweeper][r] = Absent
       /\ table[r] # Absent => table[r].until <= sweep.cutoff

LEMMA SweeperIsClient == Sweeper \in Client /\ Sweeper \notin Turn
  BY PipelineAssumption DEF Client

\* A turn's step changes no row the sweeper has locked.
LEMMA OthersLeaveLocked ==
  ASSUME Inv, Sessioned!WritesAreLocked, NEW t \in Turn,
         Transaction(t) \/ Permitted(t), NEW r \in Row
  PROVE  /\ pending'[Sweeper][r] = pending[Sweeper][r]
         /\ pending[Sweeper][r] # Keep => table'[r] = table[r]
<1>1. /\ Sweeper \in Client /\ t \in Client /\ t # Sweeper /\ DB!TypeOK
  BY SweeperIsClient DEF Inv, TypeOK, Client
<1>2. pending[Sweeper][r] # Keep => pending[t][r] = Keep
  BY <1>1 DEF Sessioned!WritesAreLocked
<1>3. CASE UNCHANGED session
  BY <1>3 DEF session
<1>4. CASE DB!Fail(t) \/ DB!Rollback(t)
  BY <1>1, <1>4 DEF DB!Fail, DB!Rollback, DB!TypeOK
<1>5. CASE DB!Commit(t)
  BY <1>1, <1>2, <1>5 DEF DB!Commit, DB!Seen, DB!TypeOK
<1>6. ASSUME NEW x \in Row, NEW v, DB!Write(t, x, v)
      PROVE  pending'[Sweeper][r] = pending[Sweeper][r] /\ table' = table
  BY <1>1, <1>6 DEF DB!Write, DB!TypeOK
<1>7. CASE Permitted(t)
  BY <1>6, <1>7, RowsDiffer DEF Permitted, CacheWrite, AuditWrite
<1>8. QED
  BY <1>3, <1>4, <1>5, <1>7 DEF Transaction

LEMMA SweepInitInv == Init => SweepInv
  BY SweeperIsClient, PipelineAssumption
  DEF Init, DB!Init, DB!NoWrites, NotSweeping, SweepInv

LEMMA SweepNextInv ==
  ASSUME Inv, Sessioned!WritesAreLocked, SweepInv, [Next]_vars
  PROVE  SweepInv'
<1>1. /\ sweep \in [on : BOOLEAN, cutoff : Nat, todo : SUBSET ResultRow]
      /\ now \in Nat /\ MaxTime \in Nat /\ DB!TypeOK /\ Sweeper \in Client
  BY PipelineAssumption, SweeperIsClient DEF Inv, TypeOK
<1>2. ASSUME NEW t \in Turn,
             \/ Arrive(t) \/ Advance(t) \/ EmbeddingOutage(t)
             \/ Raise(t) \/ Disconnect(t)
      PROVE  SweepInv'
  <2>1. /\ Transaction(t) \/ Permitted(t)
        /\ UNCHANGED <<sweep, now>>
    BY <1>2, TurnStep DEF Advances
  <2>2. \A r \in Row : /\ pending'[Sweeper][r] = pending[Sweeper][r]
                       /\ pending[Sweeper][r] # Keep => table'[r] = table[r]
    BY <2>1, OthersLeaveLocked
  <2>3. QED
    BY <2>1, <2>2 DEF SweepInv
<1>3. CASE SweepBegin
  <2>1. sweep'.cutoff = now /\ UNCHANGED <<session, now>> /\ ~sweep.on /\ sweep'.on
    BY <1>3 DEF SweepBegin
  <2>2. QED
    BY <1>1, <2>1 DEF SweepInv, session
<1>4. CASE SweepRow
  <2>1. sweep.todo # {} /\ UNCHANGED now
    BY <1>4 DEF SweepRow
  <2>2. sweep' = [sweep EXCEPT !.todo = @ \ {Wants(Sweeper)}]
    BY <1>4 DEF SweepRow
  <2>3. sweep'.cutoff = sweep.cutoff /\ sweep'.on = sweep.on
    BY <1>1, <2>2
  <2>4. Wants(Sweeper) \in ResultRow
    <3>1. Wants(Sweeper) = CHOOSE x \in sweep.todo : TRUE
      BY <2>1, SweeperIsClient DEF Wants
    <3>2. QED
      BY <1>1, <2>1, <3>1
  <2> DEFINE k == Wants(Sweeper)
  <2>5. k \in Row
    BY <2>4 DEF Row
  <2>6. CASE UNCHANGED session
    BY <2>1, <2>3, <2>6 DEF SweepInv, session
  <2>7. CASE ~UNCHANGED session
    <3>1. /\ table[k] # Absent /\ table[k].until <= sweep.cutoff
          /\ DB!Write(Sweeper, k, Absent)
      BY <1>4, <2>7 DEF SweepRow, Expired
    <3>2. /\ table' = table
          /\ pending'[Sweeper][k] = Absent
          /\ \A r \in Row : r # k => pending'[Sweeper][r] = pending[Sweeper][r]
      BY <1>1, <2>5, <3>1 DEF DB!Write, DB!TypeOK
    <3>3. sweep.on
      BY <2>1 DEF SweepInv
    <3>4. QED
      BY <2>1, <2>3, <3>1, <3>2, <3>3 DEF SweepInv
  <2>8. QED
    BY <2>6, <2>7
<1>5. CASE SweepCommit \/ SweepRaises
  <2>1. sweep' = NotSweeping /\ UNCHANGED now
        /\ (DB!Commit(Sweeper) \/ DB!Rollback(Sweeper))
    BY <1>5 DEF SweepCommit, SweepRaises
  <2>2. \A r \in Row : pending'[Sweeper][r] = Keep
    BY <1>1, <2>1 DEF DB!Commit, DB!Rollback, DB!NoWrites, DB!TypeOK
  <2>3. sweep'.cutoff = 0 /\ sweep'.todo = {}
    BY <2>1 DEF NotSweeping
  <2>4. QED
    BY <1>1, <2>1, <2>2, <2>3 DEF SweepInv
<1>6. CASE Tick
  <2>1. UNCHANGED <<session, sweep>> /\ now' = now + 1
    BY <1>6 DEF Tick
  <2>2. QED
    BY <1>1, <2>1 DEF SweepInv, session
<1>7. CASE Idle \/ UNCHANGED vars
  BY <1>7 DEF Idle, vars, session, SweepInv
<1>8. QED
  BY <1>2, <1>3, <1>4, <1>5, <1>6, <1>7 DEF Next, Sweep

LEMMA SweepInductive == Spec => []SweepInv
<1>1. Spec => []Sessioned!WritesAreLocked
  BY TurnsAreSafe, PTL
<1>2. Inv /\ Sessioned!WritesAreLocked /\ SweepInv /\ [Next]_vars => SweepInv'
  BY SweepNextInv
<1>3. QED
  BY <1>1, <1>2, Invariant, SweepInitInv, PTL DEF Spec

\* A pass of the sweeper deletes only rows that are expired when it commits,
\* whatever the turns write while it waits for their locks.
THEOREM FreshRowsAreSpared == Spec => SweeperSparesFresh
<1>1. ASSUME Inv, SweepInv, [Next]_vars,
             NEW x \in Template, NEW s \in Scope,
             sweep.on, ~sweep'.on, table[KRow(x, s)] # Absent, table'[KRow(x, s)] = Absent
      PROVE  table[KRow(x, s)].until <= now
  <2> DEFINE r == KRow(x, s)
  <2>1. r \in Row /\ Sweeper \in Client
    BY RowsDiffer, SweeperIsClient
  <2>2. \A t \in Turn : ~(\/ Arrive(t) \/ Advance(t) \/ EmbeddingOutage(t)
                          \/ Raise(t) \/ Disconnect(t))
    BY <1>1, TurnStep DEF Advances
  <2>3. ~(SweepBegin \/ Tick \/ Idle \/ UNCHANGED vars)
    BY <1>1 DEF SweepBegin, Tick, Idle, vars, session
  <2>4. ~SweepRow
    <3>1. sweep \in [on : BOOLEAN, cutoff : Nat, todo : SUBSET ResultRow]
      BY <1>1 DEF Inv, TypeOK
    <3>2. QED
      BY <1>1, <3>1 DEF SweepRow
  <2>5. ~SweepRaises
    BY <1>1 DEF SweepRaises, DB!Rollback
  <2>6. SweepCommit
    BY <1>1, <2>2, <2>3, <2>4, <2>5 DEF Next, Sweep
  <2>7. pending[Sweeper][r] # Keep
    BY <1>1, <2>1, <2>6 DEF SweepCommit, DB!Commit, DB!Seen
  <2>8. table[r].until <= sweep.cutoff /\ sweep.cutoff <= now
    BY <1>1, <2>1, <2>7 DEF SweepInv
  <2>9. /\ table[r] \in ResultEntry
        /\ sweep.cutoff \in Nat /\ now \in Nat
    <3>1. table[r] \in Shareable(x, s) \cup {Absent}
      BY <1>1 DEF Inv, ResultOK
    <3>2. table[r] \in ResultEntry
      BY <1>1, <3>1 DEF Shareable
    <3>3. QED
      BY <1>1, <3>2, PipelineAssumption DEF Inv, TypeOK
  <2>10. table[r].until \in Nat
    BY <2>9, PipelineAssumption DEF ResultEntry
  <2> HIDE DEF r
  <2>11. table[r].until <= now
    BY <2>8, <2>9, <2>10
  <2>12. QED
    BY <2>11 DEF r
<1>2. Inv /\ SweepInv /\ [Next]_vars =>
        [\A x \in Template, s \in Scope :
           LET r == KRow(x, s) IN
             sweep.on /\ ~sweep'.on /\ table[r] # Absent /\ table'[r] = Absent =>
               table[r].until <= now]_vars
  BY <1>1
<1>3. QED
  BY <1>2, Invariant, SweepInductive, PTL DEF Spec, SweeperSparesFresh

-----------------------------------------------------------------------------
(* Turns go forward.                                                       *)

\* How far along its way a turn is in each stage.
Place == [new |-> 0, exact |-> 1, semantic |-> 2, alias |-> 3, generate |-> 3,
          resolve |-> 4, rget |-> 5, rdel |-> 6, execute |-> 7, putsel |-> 8,
          putins |-> 9, putupd |-> 9, store |-> 10, answer |-> 11, audit |-> 12,
          suggest |-> 13, topup |-> 14, commit |-> 15, closed |-> 16]

Later(a, b) == Place[a] < Place[b]

\* What is left to do for turn t: twice the stages it may still go through, and
\* the flush of a hit count.
Work(t) == 2 * (16 - Place[run[t].pc]) + (IF run[t].dirty = None THEN 0 ELSE 1)

TurnActs(t) ==
  Arrive(t) \/ Advance(t) \/ EmbeddingOutage(t) \/ Raise(t) \/ Disconnect(t)

Onward(t) ==
  /\ run'[t].pc \in Stage \ {"new"}
  /\ \/ Later(run[t].pc, run'[t].pc)
     \/ run'[t].pc = run[t].pc /\ run[t].dirty # None /\ run'[t].dirty = None
  /\ run'[t].pc = "closed" => \A r \in Row : pending'[t][r] = Keep

\* A step that goes to stage pc and does not end the turn.
LEMMA MovesOn ==
  ASSUME Inv, NEW t \in Turn, NEW r, Become(t, r),
         r.pc \in Stage \ {"new", "closed"}, Later(run[t].pc, r.pc)
  PROVE  Onward(t)
<1>1. run'[t] = r
  BY DEF Inv, TypeOK, Become
<1>2. QED
  BY <1>1 DEF Onward

\* The stages that follow one another.
LEMMA Order ==
  /\ Later("new", "exact") /\ Later("new", "audit")
  /\ Later("exact", "semantic") /\ Later("exact", "resolve") /\ Later("exact", "audit")
  /\ Later("semantic", "alias") /\ Later("semantic", "generate")
  /\ Later("alias", "resolve") /\ Later("alias", "audit")
  /\ Later("generate", "resolve") /\ Later("generate", "audit")
  /\ Later("resolve", "rget") /\ Later("resolve", "audit")
  /\ Later("rget", "rdel") /\ Later("rget", "execute") /\ Later("rget", "answer")
  /\ Later("rget", "audit") /\ Later("rdel", "execute") /\ Later("rdel", "audit")
  /\ Later("execute", "putsel") /\ Later("execute", "audit")
  /\ Later("putsel", "putins") /\ Later("putsel", "putupd")
  /\ \A a \in {"putsel", "putins", "putupd"}, b \in {"store", "answer"} : Later(a, b)
  /\ Later("store", "answer") /\ Later("answer", "audit")
  /\ Later("audit", "suggest") /\ Later("audit", "commit")
  /\ Later("suggest", "topup") /\ Later("suggest", "commit") /\ Later("topup", "commit")
  /\ \A a \in Stage \ {"closed"} : Later(a, "closed")
  /\ \A a \in Stage \ {"new", "commit", "closed"} : Later(a, "commit")
  BY DEF Later, Place, Stage

LEMMA StepsOnward ==
  ASSUME Inv, NEW t \in Turn, TurnActs(t)
  PROVE  Onward(t)
<1>1. run[t] \in Local
  BY DEF Inv, TypeOK
<1>2. CASE Arrive(t)
  <2>1. run[t].pc = "new"
    BY <1>2 DEF Arrive
  <2>2. ASSUME NEW q, Become(t, [run[t] EXCEPT !.pc = "exact", !.q = q])
        PROVE  Onward(t)
    <3> DEFINE r == [run[t] EXCEPT !.pc = "exact", !.q = q]
    <3>1. r.pc = "exact"
      BY <1>1 DEF Local
    <3>2. Become(t, r)
      BY <2>2
    <3> HIDE DEF r
    <3>3. QED
      BY <2>1, <3>1, <3>2, Order, MovesOn DEF Stage
  <2>3. ASSUME Become(t, [run[t] EXCEPT !.pc = "audit", !.outcome = "greeting"])
        PROVE  Onward(t)
    <3> DEFINE r == [run[t] EXCEPT !.pc = "audit", !.outcome = "greeting"]
    <3>1. r.pc = "audit"
      BY <1>1 DEF Local
    <3>2. Become(t, r)
      BY <2>3
    <3> HIDE DEF r
    <3>3. QED
      BY <2>1, <3>1, <3>2, Order, MovesOn DEF Stage
  <2>4. QED
    BY <1>2, <2>2, <2>3 DEF Arrive
<1>3. CASE LookupExact(t)
  <2>1. run[t].pc = "exact"
    BY <1>3 DEF LookupExact, Ready
  <2>2. ASSUME NEW e, NEW d, NEW h, Become(t, [run[t] EXCEPT !.pc = "resolve", !.level = "L0",
                                      !.entry = e, !.hit = h, !.dirty = d])
        PROVE  Onward(t)
    <3> DEFINE r == [run[t] EXCEPT !.pc = "resolve", !.level = "L0",
                                      !.entry = e, !.hit = h, !.dirty = d]
    <3>1. r.pc = "resolve"
      BY <1>1 DEF Local
    <3>2. Become(t, r)
      BY <2>2
    <3> HIDE DEF r
    <3>3. QED
      BY <2>1, <3>1, <3>2, Order, MovesOn DEF Stage
  <2>3. ASSUME Become(t, [run[t] EXCEPT !.pc = "semantic"])
        PROVE  Onward(t)
    <3> DEFINE r == [run[t] EXCEPT !.pc = "semantic"]
    <3>1. r.pc = "semantic"
      BY <1>1 DEF Local
    <3>2. Become(t, r)
      BY <2>3
    <3> HIDE DEF r
    <3>3. QED
      BY <2>1, <3>1, <3>2, Order, MovesOn DEF Stage
  <2>4. QED
    BY <1>3, <2>2, <2>3 DEF LookupExact
<1>4. CASE LookupSemantic(t)
  <2>1. run[t].pc = "semantic"
    BY <1>4 DEF LookupSemantic, Ready
  <2>2. ASSUME NEW e, NEW n, NEW h, Become(t, [run[t] EXCEPT !.pc = "alias", !.embedded = TRUE,
                                         !.level = "L1", !.hit = h, !.dirty = n,
                                         !.entry = e])
        PROVE  Onward(t)
    <3> DEFINE r == [run[t] EXCEPT !.pc = "alias", !.embedded = TRUE,
                                         !.level = "L1", !.hit = h, !.dirty = n,
                                         !.entry = e]
    <3>1. r.pc = "alias"
      BY <1>1 DEF Local
    <3>2. Become(t, r)
      BY <2>2
    <3> HIDE DEF r
    <3>3. QED
      BY <2>1, <3>1, <3>2, Order, MovesOn DEF Stage
  <2>3. ASSUME Become(t, [run[t] EXCEPT !.pc = "generate", !.embedded = TRUE])
        PROVE  Onward(t)
    <3> DEFINE r == [run[t] EXCEPT !.pc = "generate", !.embedded = TRUE]
    <3>1. r.pc = "generate"
      BY <1>1 DEF Local
    <3>2. Become(t, r)
      BY <2>3
    <3> HIDE DEF r
    <3>3. QED
      BY <2>1, <3>1, <3>2, Order, MovesOn DEF Stage
  <2>4. QED
    BY <1>4, <2>2, <2>3 DEF LookupSemantic
<1>5. CASE AddAlias(t)
  BY <1>1, <1>5, Order, MovesOn DEF AddAlias, Ready, Stage, Local
<1>6. CASE Generate(t)
  <2>1. run[t].pc = "generate"
    BY <1>6 DEF Generate
  <2>2. ASSUME NEW e, Become(t, [run[t] EXCEPT !.pc = "resolve", !.level = "llm",
                                   !.entry = e])
        PROVE  Onward(t)
    <3> DEFINE r == [run[t] EXCEPT !.pc = "resolve", !.level = "llm",
                                   !.entry = e]
    <3>1. r.pc = "resolve"
      BY <1>1 DEF Local
    <3>2. Become(t, r)
      BY <2>2
    <3> HIDE DEF r
    <3>3. QED
      BY <2>1, <3>1, <3>2, Order, MovesOn DEF Stage
  <2>3. ASSUME NEW o, Become(t, [run[t] EXCEPT !.pc = "audit", !.outcome = o])
        PROVE  Onward(t)
    <3> DEFINE r == [run[t] EXCEPT !.pc = "audit", !.outcome = o]
    <3>1. r.pc = "audit"
      BY <1>1 DEF Local
    <3>2. Become(t, r)
      BY <2>3
    <3> HIDE DEF r
    <3>3. QED
      BY <2>1, <3>1, <3>2, Order, MovesOn DEF Stage
  <2>4. QED
    BY <1>6, <2>2, <2>3 DEF Generate
<1>7. CASE Resolve(t)
  BY <1>1, <1>7, Order, MovesOn DEF Resolve, Stage, Local
<1>8. CASE ResultGet(t)
  BY <1>1, <1>8, Order, MovesOn DEF ResultGet, Ready, Stage, Local
<1>9. CASE DeleteExpired(t)
  BY <1>1, <1>9, Order, MovesOn DEF DeleteExpired, Ready, Stage, Local
<1>10. CASE Execute(t)
  <2>1. run[t].pc = "execute"
    BY <1>10 DEF Execute
  <2>2. ASSUME NEW e, Become(t, [run[t] EXCEPT !.pc = "putsel", !.got = e])
        PROVE  Onward(t)
    <3> DEFINE r == [run[t] EXCEPT !.pc = "putsel", !.got = e]
    <3>1. r.pc = "putsel"
      BY <1>1 DEF Local
    <3>2. Become(t, r)
      BY <2>2
    <3> HIDE DEF r
    <3>3. QED
      BY <2>1, <3>1, <3>2, Order, MovesOn DEF Stage
  <2>3. ASSUME Become(t, [run[t] EXCEPT !.pc = "audit", !.outcome = "dberror"])
        PROVE  Onward(t)
    <3> DEFINE r == [run[t] EXCEPT !.pc = "audit", !.outcome = "dberror"]
    <3>1. r.pc = "audit"
      BY <1>1 DEF Local
    <3>2. Become(t, r)
      BY <2>3
    <3> HIDE DEF r
    <3>3. QED
      BY <2>1, <3>1, <3>2, Order, MovesOn DEF Stage
  <2>4. QED
    BY <1>10, <2>2, <2>3 DEF Execute
<1>11. CASE PutSelect(t)
  BY <1>1, <1>11, Order, MovesOn DEF PutSelect, Ready, Stage, Local
<1>12. AfterPut(t) \in {"store", "answer"} /\ AfterAudit(t) \in {"suggest", "commit"}
  BY DEF AfterPut, AfterAudit
<1>13. CASE PutFlush(t)
  BY <1>1, <1>12, <1>13, Order, MovesOn DEF PutFlush, Ready, Stage, Local
<1>14. CASE Store(t)
  BY <1>1, <1>14, Order, MovesOn DEF Store, Ready, Stage, Local
<1>15. CASE Answer(t)
  BY <1>1, <1>15, Order, MovesOn DEF Answer, Stage, Local
<1>16. CASE Audit(t)
  BY <1>1, <1>12, <1>16, Order, MovesOn DEF Audit, Ready, Stage, Local
<1>17. CASE Suggest(t)
  BY <1>1, <1>17, Order, MovesOn DEF Suggest, Stage, Local
<1>18. CASE TopUp(t)
  BY <1>1, <1>18, Order, MovesOn DEF TopUp, Ready, Stage, Local
<1>19. CASE EmbeddingOutage(t)
  BY <1>1, <1>19, Order, MovesOn DEF EmbeddingOutage, Stage, Local
<1>20. CASE StatementRaises(t)
  BY <1>1, <1>20, Order, MovesOn DEF StatementRaises, Stage, Local
<1>21. CASE SemanticRaises(t)
  BY <1>1, <1>21, Order, MovesOn DEF SemanticRaises, Stage, Local
<1>22. CASE PutRaises(t)
  BY <1>1, <1>12, <1>22, Order, MovesOn DEF PutRaises, Stage, Local
<1>23. CASE StoreRaises(t)
  BY <1>1, <1>23, Order, MovesOn DEF StoreRaises, Stage, Local
<1>24. CASE AuditRaises(t)
  BY <1>1, <1>12, <1>24, Order, MovesOn DEF AuditRaises, Stage, Local
<1>25. CASE TopUpRaises(t)
  BY <1>1, <1>25, Order, MovesOn DEF TopUpRaises, Stage, Local
<1>26. CASE FlushBump(t)
  <2>1. run'[t] = [run[t] EXCEPT !.dirty = None]
    BY <1>26 DEF FlushBump, Become, Inv, TypeOK
  <2>2. run'[t].pc = run[t].pc /\ run'[t].dirty = None
    BY <1>1, <2>1 DEF Local
  <2>3. run[t].dirty # None /\ run[t].pc \in Statement
    BY <1>26 DEF FlushBump
  <2>4. QED
    BY <1>1, <2>2, <2>3 DEF Onward, Statement, Stage
<1>27. ASSUME DB!Commit(t) \/ DB!Rollback(t), NEW r, Become(t, r), r.pc = "closed",
              run[t].pc # "closed"
       PROVE  Onward(t)
  <2>1. run'[t] = r
    BY <1>27 DEF Become, Inv, TypeOK
  <2>2. t \in Client /\ DB!TypeOK
    BY DEF Client, Inv, TypeOK
  <2>3. \A x \in Row : pending'[t][x] = Keep
    BY <1>27, <2>2 DEF DB!Commit, DB!Rollback, DB!NoWrites, DB!TypeOK
  <2>4. Later(run[t].pc, "closed")
    BY <1>1, <1>27, Order DEF Local
  <2>5. QED
    BY <1>27, <2>1, <2>3, <2>4 DEF Onward, Stage
<1>28. CASE CommitSession(t)
  BY <1>1, <1>27, <1>28 DEF CommitSession, Ready, Local
<1>29. CASE CommitRaises(t)
  BY <1>1, <1>27, <1>29 DEF CommitRaises, Local
<1>30. CASE Disconnect(t)
  <2>1. run[t].pc \notin {"new", "commit", "closed"}
    BY <1>30 DEF Disconnect
  <2>2. CASE DB!Rollback(t)
             /\ Become(t, [run[t] EXCEPT !.pc = "closed", !.gone = TRUE, !.dirty = None])
    BY <1>1, <1>27, <2>1, <2>2 DEF Local
  <2>3. CASE Become(t, [run[t] EXCEPT !.pc = "commit", !.gone = TRUE])
    BY <1>1, <2>1, <2>3, Order, MovesOn DEF Local, Stage
  <2>4. QED
    BY <1>30, <2>2, <2>3 DEF Disconnect
<1>31. QED
  BY <1>2, <1>3, <1>4, <1>5, <1>6, <1>7, <1>8, <1>9, <1>10, <1>11, <1>13, <1>14, <1>15,
     <1>16, <1>17, <1>18, <1>19, <1>20, <1>21, <1>22, <1>23, <1>24, <1>25, <1>26, <1>28,
     <1>29, <1>30
  DEF TurnActs, Advance, Raise

\* A turn takes at most 33 steps, whatever fails, races or breaks off on the way:
\* it never comes back to a stage it has left, and no error path tries again
\* (ChatPipeline.run, deps.get_session).
THEOREM TurnsAreShort ==
  Spec => /\ [](\A t \in Turn : Work(t) \in 0..33)
          /\ [][\A t \in Turn : run'[t] # run[t] => Work(t)' < Work(t)]_vars
<1>1. \A pc \in Stage : Place[pc] \in 0..16
  BY DEF Place, Stage
<1>2. ASSUME Inv, NEW t \in Turn PROVE Work(t) \in 0..33 /\ run[t].pc \in Stage
  <2>1. run[t].pc \in Stage
    BY <1>2 DEF Inv, TypeOK, Local
  <2>2. QED
    BY <1>1, <2>1 DEF Work
<1>3. ASSUME Inv, [Next]_vars, NEW t \in Turn, run'[t] # run[t]
      PROVE  Work(t)' < Work(t)
  <2>1. PICK u \in Turn : TurnActs(u)
    BY <1>3 DEF Next, vars, Sweep, SweepBegin, SweepRow, SweepCommit, SweepRaises, Tick, Idle,
       TurnActs
  <2>2. u = t
    BY <1>3, <2>1, TurnStep DEF TurnActs, Advances, Become, Inv, TypeOK
  <2>3. Onward(t)
    BY <1>3, <2>1, <2>2, StepsOnward
  <2>4. run[t].pc \in Stage /\ run'[t].pc \in Stage
    BY <1>2, <1>3, <2>3 DEF Onward
  <2>5. Place[run[t].pc] \in 0..16 /\ Place[run'[t].pc] \in 0..16
    BY <1>1, <2>4
  <2>6. CASE Later(run[t].pc, run'[t].pc)
    BY <2>5, <2>6 DEF Later, Work
  <2>7. CASE run'[t].pc = run[t].pc /\ run[t].dirty # None /\ run'[t].dirty = None
    BY <2>5, <2>7 DEF Work
  <2>8. QED
    BY <2>3, <2>6, <2>7 DEF Onward
<1>4. Inv => \A t \in Turn : Work(t) \in 0..33
  BY <1>2
<1>5. Inv /\ [Next]_vars => [\A t \in Turn : run'[t] # run[t] => Work(t)' < Work(t)]_vars
  BY <1>3
<1>6. QED
  BY <1>4, <1>5, Invariant, PTL DEF Spec

-----------------------------------------------------------------------------
(* Somebody can always go on.                                              *)

\* Finitely many turns are under way, the others have written nothing, and
\* the sweeper's transaction is never an aborted one.
BusyInv ==
  /\ IsFiniteSet(Busy)
  /\ \A t \in Turn \ Busy : \A r \in Row : pending[t][r] = Keep
  /\ tx[Sweeper] = "live"

LEMMA BusyTurns == \A t \in Turn : t \in Busy <=> run[t].pc \notin {"new", "closed"}
  BY SweeperIsClient DEF Busy

\* A client's step changes no other client's transaction.
LEMMA OthersUntouched ==
  ASSUME DB!TypeOK, NEW c \in Client, Transaction(c) \/ Permitted(c), NEW d \in Client \ {c}
  PROVE  pending'[d] = pending[d] /\ tx'[d] = tx[d]
<1>1. CASE UNCHANGED session
  BY <1>1 DEF session
<1>2. CASE DB!Fail(c) \/ DB!Rollback(c) \/ DB!Commit(c)
  BY <1>2 DEF DB!Fail, DB!Rollback, DB!Commit, DB!TypeOK
<1>3. ASSUME NEW x, NEW v, DB!Write(c, x, v)
      PROVE  pending'[d] = pending[d] /\ tx'[d] = tx[d]
  BY <1>3 DEF DB!Write, DB!TypeOK
<1>4. CASE Permitted(c)
  BY <1>3, <1>4 DEF Permitted, CacheWrite, AuditWrite
<1>5. QED
  BY <1>1, <1>2, <1>4 DEF Transaction

LEMMA BusyStart == Init => BusyInv
<1> SUFFICES ASSUME Init PROVE BusyInv
  OBVIOUS
<1>1. Busy = {}
  BY DEF Init, Busy, NotSweeping
<1>2. QED
  BY <1>1, FS_EmptySet, SweeperIsClient DEF Init, DB!Init, DB!NoWrites, BusyInv, Client

LEMMA BusyStep ==
  ASSUME Inv, BusyInv, [Next]_vars
  PROVE  BusyInv'
<1>1. DB!TypeOK /\ Sweeper \in Client /\ Sweeper \notin Turn /\ \A t \in Turn : t \in Client
  BY SweeperIsClient DEF Inv, TypeOK, Client
<1>2. ASSUME NEW c, Busy' \subseteq Busy \cup {c} PROVE IsFiniteSet(Busy')
  <2>1. IsFiniteSet(Busy \cup {c})
    BY FS_AddElement DEF BusyInv
  <2> DEFINE B == Busy'
  <2> HIDE DEF B
  <2>2. B \subseteq Busy \cup {c}
    BY <1>2 DEF B
  <2>3. IsFiniteSet(B)
    BY <2>1, <2>2, FS_Subset
  <2>4. QED
    BY <2>3 DEF B
<1>3. ASSUME NEW t \in Turn, TurnActs(t) PROVE BusyInv'
  <2>1. Onward(t) /\ Advances(t)
    BY <1>3, StepsOnward, TurnStep DEF TurnActs
  <2>2. /\ \A u \in Turn \ {t} : run'[u] = run[u]
        /\ sweep' = sweep
    BY <2>1 DEF Advances, Become, Inv, TypeOK
  <2>3. Busy' \subseteq Busy \cup {t}
    BY <2>2 DEF Busy
  <2>4. \A d \in Client \ {t} : pending'[d] = pending[d] /\ tx'[d] = tx[d]
    BY <1>1, <2>1, OthersUntouched DEF Advances
  <2>5. ASSUME NEW u \in Turn \ Busy', NEW r \in Row PROVE pending'[u][r] = Keep
    <3>1. run'[u].pc \in {"new", "closed"}
      BY <2>5 DEF Busy
    <3>2. CASE u = t
      BY <2>1, <3>1, <3>2 DEF Onward
    <3>3. CASE u # t
      <4>1. u \in Turn \ Busy
        BY <2>2, <3>1, <3>3, BusyTurns
      <4>2. QED
        BY <1>1, <2>4, <3>3, <4>1 DEF BusyInv
    <3>4. QED
      BY <3>2, <3>3
  <2>6. tx'[Sweeper] = "live"
    BY <1>1, <2>4 DEF BusyInv
  <2>7. QED
    BY <1>2, <2>3, <2>5, <2>6 DEF BusyInv
<1>4. CASE Sweep
  <2>1. /\ run' = run /\ (Transaction(Sweeper) \/ Permitted(Sweeper))
    BY <1>4, SweepStep DEF Sweeps, Permitted
  <2>2. Busy' \subseteq Busy \cup {Sweeper}
    BY <2>1 DEF Busy
  <2>3. \A t \in Turn : pending'[t] = pending[t]
    BY <1>1, <2>1, OthersUntouched
  <2>4. \A t \in Turn : t \in Busy' <=> t \in Busy
    BY <1>1, <2>1 DEF Busy
  <2>5. tx'[Sweeper] = "live"
    BY <1>1, <1>4 DEF BusyInv, Sweep, SweepBegin, SweepRow, SweepCommit, SweepRaises, session,
       DB!Write, DB!Commit, DB!Rollback, DB!TypeOK
  <2>6. QED
    BY <1>2, <2>2, <2>3, <2>4, <2>5 DEF BusyInv
<1>5. CASE Tick \/ Idle \/ UNCHANGED vars
  <2>1. UNCHANGED <<session, run, sweep>>
    BY <1>5 DEF Tick, Idle, vars
  <2>2. Busy' = Busy
    BY <2>1 DEF Busy
  <2>3. QED
    BY <2>1, <2>2 DEF BusyInv, session
<1>6. QED
  BY <1>3, <1>4, <1>5 DEF Next, TurnActs

\* A row lock belongs to somebody who is under way and has written the row.
LEMMA HoldersAreBusy ==
  ASSUME Inv, SweepInv, BusyInv, Sessioned!LocksAreForWrites,
         NEW r \in Row, NEW c \in Client, lock[r] = c
  PROVE  c \in Busy /\ pending[c][r] # Keep
<1>1. pending[c][r] # Keep
  BY DEF Sessioned!LocksAreForWrites
<1>2. CASE c \in Turn
  BY <1>1, <1>2 DEF BusyInv
<1>3. CASE c = Sweeper
  BY <1>1, <1>3 DEF SweepInv, Busy
<1>4. QED
  BY <1>1, <1>2, <1>3 DEF Client

\* Who cannot go on waits for the row lock of another one who is under way; it
\* is no audit row, as nobody else writes those.
LEMMA WaitsForAnother ==
  ASSUME Inv, SweepInv, BusyInv, Sessioned!LocksAreForWrites,
         NEW c \in Busy, ~CanGoOn(c)
  PROVE  Wants(c) \in Row /\ lock[Wants(c)] \in Busy \ {c}
<1>1. c \in Client /\ DB!TypeOK /\ (c \in Turn \/ c = Sweeper)
  BY SweeperIsClient DEF Busy, Client, Inv, TypeOK
<1>2. tx[c] = "live"
  <2>1. tx[c] \in {"live", "failed"}
    BY <1>1 DEF DB!TypeOK
  <2>2. QED
    BY <1>1, <2>1 DEF CanGoOn, Fails, BusyInv
<1>3. PICK r \in ToLock(c) : ~DB!Available(c, r)
  BY <1>2 DEF CanGoOn
<1>4. (r = Wants(c) /\ r \in Row) \/ (c \in Turn /\ \E n \in 1..2 : r = ARow(c, n))
  BY <1>3 DEF ToLock
<1>5. r \in Row /\ lock[r] \in Client \ {c}
  BY <1>1, <1>3, <1>4, RowsDiffer DEF DB!Available, DB!TypeOK
<1>6. lock[r] \in Busy /\ pending[lock[r]][r] # Keep
  BY <1>5, HoldersAreBusy
<1>7. ~(c \in Turn /\ \E n \in 1..2 : r = ARow(c, n))
  <2>1. SUFFICES ASSUME c \in Turn, NEW n \in 1..2, r = ARow(c, n) PROVE FALSE
    OBVIOUS
  <2>2. AuditOK(c) /\ (n = 1 \/ n = 2)
    BY <2>1 DEF Inv
  <2>3. QED
    BY <1>5, <1>6, <2>1, <2>2 DEF AuditOK
<1>8. QED
  BY <1>4, <1>5, <1>6, <1>7

\* If nobody can go on, everybody waits for another one, so some wait for each
\* other in a circle: the deadlock check raises for them.
LEMMA SomebodyGoesOn ==
  ASSUME Inv, SweepInv, BusyInv, Sessioned!LocksAreForWrites
  PROVE  NobodyIsStuck
<1>1. SUFFICES ASSUME Busy # {}, \A c \in Busy : ~CanGoOn(c) PROVE FALSE
  BY DEF NobodyIsStuck
<1> DEFINE next == [c \in Busy |-> lock[Wants(c)]]
<1>2. \A c \in Busy : /\ c \in Client /\ (c \in Turn \/ c = Sweeper)
                       /\ Wants(c) \in Row /\ next[c] = lock[Wants(c)] /\ next[c] \in Busy \ {c}
  BY <1>1, WaitsForAnother, SweeperIsClient DEF Busy, Client
<1> HIDE DEF next
<1>3. PICK S \in SUBSET Busy : Circle(S, next)
  <2>1. IsFiniteSet(Busy) /\ Busy # {} /\ \A x \in Busy : next[x] \in Busy
    BY <1>1, <1>2 DEF BusyInv
  <2>2. QED
    BY <2>1, EndsOnACircle
<1>4. \A x \in S : WantedRows[x] = Wants(x) /\ next[x] = lock[WantedRows[x]] /\ x \in Client
  BY <1>2 DEF WantedRows
<1>5. \A x \in S : WantedRows[x] \in Row /\ lock[WantedRows[x]] \in S \ {x}
  BY <1>2, <1>3, <1>4 DEF Circle
<1>6. {lock[WantedRows[x]] : x \in S} = S
  BY <1>3, <1>4 DEF Circle
<1>7. S \in SUBSET Client
  BY <1>4
<1>8. PICK c \in S : TRUE
  BY <1>3 DEF Circle
<1>9. DB!Deadlocked(c, WantedRows)
  BY <1>5, <1>6, <1>7, <1>8 DEF DB!Deadlocked
<1>10. CanGoOn(c)
  BY <1>2, <1>3, <1>8, <1>9 DEF CanGoOn, Fails
<1>11. QED
  BY <1>1, <1>3, <1>8, <1>10

\* However many turns wait for one another's cache rows, with the sweeper among
\* them, one of those under way can go on: the pipeline never stands still
\* with a request unanswered.
THEOREM SomebodyCanGoOn == Spec => []NobodyIsStuck
<1>1. Sessioned!Spec => []Sessioned!LocksAreForWrites
  BY Sessioned!NoLockIsLeftBehind, MarkersDiffer DEF Sessioned!SessionAssumption
<1>2. Spec => []Sessioned!LocksAreForWrites
  BY <1>1, Refinement, SameSessions, PTL DEF ImplementsSessions
<1>3. QED
  BY <1>2, Invariant, SweepInductive, BusyStart, BusyStep, SomebodyGoesOn, PTL DEF Spec

=============================================================================
