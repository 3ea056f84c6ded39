---------------------------- MODULE ChatPipeline ----------------------------
(***************************************************************************)
(* Chat turns running at the same time: ChatPipeline.run for each turn,    *)
(* the query cache (L0/L1), the result cache (L2), the audit log, the      *)
(* request-scoped session of deps.get_session and the background sweeper   *)
(* of expired results, over the shared Postgres of module Sessions.        *)
(*                                                                         *)
(* A turn's program counter names the await it has reached; every action   *)
(* is the code from one await to the next.  Data is abstracted to what the *)
(* properties tell apart: a question is a rewritten text, of which the     *)
(* normalizer keeps a key; a template is the SQL the LLM wrote, and a      *)
(* final SQL text is a template with one user's row scope.                 *)
(***************************************************************************)
EXTENDS Naturals, FiniteSets

CONSTANTS
  Turn, Sweeper,
  Question,    \* texts of questions, as the rewriter returns them
  Key, KeyOf,  \* normalized questions, and that of each question
  Intent,      \* temporal intent of each question: not a function of its key
  Distance,    \* embedding distance between two questions
  Threshold,   \* the greatest distance that still is a semantic hit
  Template,    \* SQL texts the LLM can produce
  Unsafe,      \* those the guard rejects
  Scope,       \* RBAC scopes (fingerprints) of the users
  ScopeOf,     \* the scope of the user who sends each turn
  Denied,      \* <<template, scope>> pairs apply_scope refuses
  TTL, MaxTime,
  MaxHits,     \* the greatest hit_count that its column can hold
  Impatient,   \* turns whose client may disconnect
  Slow,        \* turns whose client may stop reading, or MySQL never answer
  MaxFaults,   \* how many statements Postgres may fail
  Flaky,       \* which of "llm", "mysql" and "embeddings" may fail
  None, Absent, Keep, Free

ASSUME PipelineAssumption ==
  /\ Sweeper \notin Turn
  /\ Unsafe \subseteq Template
  /\ Denied \subseteq Template \X Scope
  /\ ScopeOf \in [Turn -> Scope]
  /\ KeyOf \in [Question -> Key]
  /\ Impatient \subseteq Turn /\ Slow \subseteq Turn
  /\ TTL \in Nat /\ MaxTime \in Nat /\ MaxHits \in Nat /\ MaxFaults \in Nat

VARIABLES table, pending, lock, tx, stale,  \* see Sessions
          run,     \* the local variables of each turn
          sweep,   \* the sweeper: is a DELETE running, its cutoff, rows to visit
          now, faults,
          proven   \* history: templates that ran and returned rows

session == <<table, pending, lock, tx, stale>>
vars == <<session, run, sweep, now, faults, proven>>

QRow(k) == <<"query", k>>
KRow(x, s) == <<"result", x, s>>
ARow(t, n) == <<"audit", t, n>>

ResultRow == {KRow(x, s) : x \in Template, s \in Scope}

Row == {QRow(k) : k \in Key}
  \cup ResultRow
  \cup {ARow(t, n) : t \in Turn, n \in 1..2}

\* An embedding is the question it was computed from.  The question that the
\* template was written for is history: the code does not keep it.
QueryEntry == [tmpl : Template, origin : Question, embedding : Question,
               intent : {Intent[q] : q \in Question}, hits : 0..MaxHits]
ResultEntry == [tmpl : Template, scope : Scope, full : BOOLEAN, until : 0..(MaxTime + TTL)]
AuditEntry == [status : {"ok", "blocked", "error"}, tokens : {"early", "final"}]

Client == Turn \cup {Sweeper}
Value == QueryEntry \cup ResultEntry \cup AuditEntry

ASSUME MarkersDiffer ==
  /\ Absent \notin Value
  /\ Keep \notin Value \cup {Absent}
  /\ Free \notin Client
  /\ None \notin Question \cup Key \cup QueryEntry \cup ResultEntry

DB == INSTANCE Sessions

Stage == {"new", "exact", "semantic", "alias", "generate", "resolve", "rget",
          "rdel", "execute", "putsel", "putins", "putupd", "store", "answer",
          "audit", "suggest", "topup", "commit", "closed"}
Outcome == {"none", "greeting", "general", "answer", "blocked", "dberror",
            "error"}

Local == [pc : Stage, q : Question \cup {None},
          level : {"none", "L0", "L1", "llm"},
          entry : QueryEntry \cup {None},   \* template being used, as it was loaded
          hit : Key \cup {None},            \* key of the row it was loaded from
          dirty : Key \cup {None},          \* row with an unflushed hit count
          embedded : BOOLEAN,               \* question_embedding is set
          missed : BOOLEAN,                 \* history: the L1 lookup failed
          got : ResultEntry \cup {None}, cached : BOOLEAN,
          outcome : Outcome, gone : BOOLEAN]

TypeOK ==
  /\ DB!TypeOK
  /\ run \in [Turn -> Local]
  /\ sweep \in [on : BOOLEAN, cutoff : Nat, todo : SUBSET ResultRow]
  /\ now \in 0..MaxTime
  /\ faults \in 0..MaxFaults
  /\ proven \subseteq Template

NotSweeping == [on |-> FALSE, cutoff |-> 0, todo |-> {}]

Init ==
  /\ DB!Init
  /\ run = [t \in Turn |->
       [pc |-> "new", q |-> None, level |-> "none",
        entry |-> None, hit |-> None, dirty |-> None, embedded |-> FALSE,
        missed |-> FALSE, got |-> None, cached |-> FALSE,
        outcome |-> "none", gone |-> FALSE]]
  /\ sweep = NotSweeping
  /\ now = 0
  /\ faults = 0
  /\ proven = {}

Others == UNCHANGED <<sweep, now, faults, proven>>

\* Turn t goes on with local variables r.
Become(t, r) == run' = [run EXCEPT ![t] = r]

-----------------------------------------------------------------------------
(* Before a statement of the turn, SQLAlchemy flushes what _bump_hit left  *)
(* on the entry: an UPDATE that locks the entry's row and sets its counter *)
(* to the count that was read, plus one; no other column.                  *)
Statement == {"exact", "semantic", "alias", "rget", "rdel", "putsel",
              "putins", "putupd", "store", "audit", "topup", "commit"}

Ready(t, stage) ==
  /\ run[t].pc = stage
  /\ tx[t] = "live"
  /\ run[t].dirty = None

\* Mistake: all columns are written back as they were read.
Bumped_Whole(t, e) == [run[t].entry EXCEPT !.hits = @ + 1]

\* The row e, by now, of turn t's entry.
Bumped(t, e) == [e EXCEPT !.hits = run[t].entry.hits + 1]

FlushBump(t) ==
  /\ run[t].pc \in Statement
  /\ run[t].dirty # None /\ run[t].entry.hits < MaxHits
  /\ LET r == QRow(run[t].dirty) IN
       /\ DB!Seen(t, r) # Absent
       /\ DB!Write(t, r, Bumped(t, DB!Seen(t, r)))
  /\ Become(t, [run[t] EXCEPT !.dirty = None])
  /\ Others

Status(o) == CASE o \in {"greeting", "general", "answer"} -> "ok"
               [] o = "blocked" -> "blocked"
               [] o \in {"dberror", "error"} -> "error"

\* Mistake: the fingerprint is left out of the key.
ResultKey_Unscoped(t) == KRow(run[t].entry.tmpl, CHOOSE s \in Scope : TRUE)

\* The final SQL of turn t; with the fingerprint it is the L2 key.
ResultKey(t) == KRow(run[t].entry.tmpl, ScopeOf[t])

-----------------------------------------------------------------------------
\* The request arrives: a greeting is answered at once, anything else is
\* rewritten to a question.
Arrive(t) ==
  /\ run[t].pc = "new"
  /\ \/ \E q \in Question : Become(t, [run[t] EXCEPT !.pc = "exact", !.q = q])
     \/ Become(t, [run[t] EXCEPT !.pc = "audit", !.outcome = "greeting"])
  /\ UNCHANGED session /\ Others

LookupExact(t) ==
  /\ Ready(t, "exact")
  /\ LET k == KeyOf[run[t].q]
         e == DB!Seen(t, QRow(k)) IN
       \/ /\ e = Absent
          /\ Become(t, [run[t] EXCEPT !.pc = "semantic"])
       \/ /\ e # Absent
          /\ Become(t, [run[t] EXCEPT !.pc = "resolve", !.level = "L0",
                                      !.entry = e, !.hit = k, !.dirty = k])
  /\ UNCHANGED session /\ Others

\* lookup_semantic for question q gets the nearest row e, and takes it if it is
\* near enough and was taught for the same kind of period.
SemanticHit(q, e) == Distance[q][e.embedding] <= Threshold /\ e.intent = Intent[q]

LookupSemantic(t) ==
  /\ Ready(t, "semantic")
  /\ LET q == run[t].q
         row(k) == DB!Seen(t, QRow(k))
         cachedK == {k \in Key : row(k) # Absent}
         Nearer(j, k) == Distance[q][row(j).embedding] < Distance[q][row(k).embedding]
     IN \/ /\ \A k \in cachedK : ~SemanticHit(q, row(k)) \/ \E j \in cachedK : Nearer(j, k)
           /\ Become(t, [run[t] EXCEPT !.pc = "generate", !.embedded = TRUE])
        \/ \E k \in cachedK :
             /\ \A j \in cachedK : ~Nearer(j, k)
             /\ SemanticHit(q, row(k))
             /\ Become(t, [run[t] EXCEPT !.pc = "alias", !.embedded = TRUE,
                                         !.level = "L1", !.hit = k, !.dirty = k,
                                         !.entry = row(k)])
  /\ UNCHANGED session /\ Others

\* The embeddings API fails: treated as a miss.
EmbeddingOutage(t) ==
  /\ "embeddings" \in Flaky
  /\ run[t].pc = "semantic"
  /\ Become(t, [run[t] EXCEPT !.pc = "generate", !.missed = TRUE])
  /\ UNCHANGED session /\ Others

\* Mistake: the alias gets the embedding of the new phrasing.
Alias_OwnEmbedding(t) == [run[t].entry EXCEPT !.hits = 0, !.embedding = run[t].q]

\* The source's template, embedding and intent; the counter starts anew.
Alias(t) == [run[t].entry EXCEPT !.hits = 0]

\* INSERT ... ON CONFLICT DO NOTHING of the question under the hit's template.
AddAlias(t) ==
  /\ Ready(t, "alias")
  /\ LET r == QRow(KeyOf[run[t].q]) IN
       /\ DB!Available(t, r)
       /\ IF DB!Seen(t, r) = Absent
            THEN DB!Write(t, r, Alias(t))
            ELSE UNCHANGED session
  /\ Become(t, [run[t] EXCEPT !.pc = "resolve"])
  /\ Others

\* What the turn will cache if SQL text x, written for its question, succeeds.
Written(t, x) ==
  [tmpl |-> x, origin |-> run[t].q, embedding |-> run[t].q,
   intent |-> Intent[run[t].q], hits |-> 0]

\* The provider writes SQL, answers in general mode, or raises.
Generate(t) ==
  /\ run[t].pc = "generate"
  /\ \/ \E x \in Template :
          Become(t, [run[t] EXCEPT !.pc = "resolve", !.level = "llm",
                                   !.entry = Written(t, x)])
     \/ \E o \in {"general", "error"} :
          /\ o = "error" => "llm" \in Flaky
          /\ Become(t, [run[t] EXCEPT !.pc = "audit", !.outcome = o])
  /\ UNCHANGED session /\ Others

\* Bind, fix and guard the SQL, then scope it to the user; the subtree fetch
\* may raise.
Resolve(t) ==
  /\ run[t].pc = "resolve"
  /\ LET x == run[t].entry.tmpl IN
       \/ /\ x \in Unsafe \/ <<x, ScopeOf[t]>> \in Denied
          /\ Become(t, [run[t] EXCEPT !.pc = "audit", !.outcome = "blocked"])
       \/ /\ x \notin Unsafe /\ "mysql" \in Flaky
          /\ Become(t, [run[t] EXCEPT !.pc = "audit", !.outcome = "error"])
       \/ /\ x \notin Unsafe /\ <<x, ScopeOf[t]>> \notin Denied
          /\ Become(t, [run[t] EXCEPT !.pc = "rget"])
  /\ UNCHANGED session /\ Others

ResultGet(t) ==
  /\ Ready(t, "rget")
  /\ LET e == DB!Seen(t, ResultKey(t)) IN
       \/ /\ e = Absent
          /\ Become(t, [run[t] EXCEPT !.pc = "execute"])
       \/ /\ e # Absent /\ e.until <= now
          /\ Become(t, [run[t] EXCEPT !.pc = "rdel", !.got = e])
       \/ /\ e # Absent /\ e.until > now
          /\ Become(t, [run[t] EXCEPT !.pc = "answer", !.got = e,
                                      !.cached = TRUE])
  /\ UNCHANGED session /\ Others

\* Lazy cleanup of the expired row.  If somebody replaced the row since the
\* SELECT, the DELETE by key finds the new row or, having waited, no row.
DeleteExpired(t) ==
  /\ Ready(t, "rdel")
  /\ LET r == ResultKey(t) IN
       /\ DB!Available(t, r)
       /\ \/ DB!Seen(t, r) # Absent /\ DB!Write(t, r, Absent)
          \/ DB!Seen(t, r) # run[t].got /\ UNCHANGED session
  /\ Become(t, [run[t] EXCEPT !.pc = "execute", !.got = None])
  /\ Others

\* The rows of the turn's final SQL; they expire TTL after MySQL returned them.
RowSet(t, full) ==
  [tmpl |-> run[t].entry.tmpl, scope |-> ScopeOf[t], full |-> full,
   until |-> now + TTL]

\* execute_readonly on MySQL.
Execute(t) ==
  /\ run[t].pc = "execute"
  /\ \/ /\ "mysql" \in Flaky
        /\ Become(t, [run[t] EXCEPT !.pc = "audit", !.outcome = "dberror"])
        /\ UNCHANGED proven
     \/ \E full \in BOOLEAN :
          /\ Become(t, [run[t] EXCEPT !.pc = "putsel", !.got = RowSet(t, full)])
          /\ proven' = IF full THEN proven \cup {run[t].entry.tmpl} ELSE proven
  /\ UNCHANGED <<session, sweep, now, faults>>

-----------------------------------------------------------------------------
PutSelect(t) ==
  /\ Ready(t, "putsel")
  /\ \E next \in {"putins", "putupd"} :
       /\ (next = "putins") = (DB!Seen(t, ResultKey(t)) = Absent)
       /\ Become(t, [run[t] EXCEPT !.pc = next])
  /\ UNCHANGED session /\ Others

\* Mistake: an empty result is taught too.
AfterPut_TeachesEmpty(t) == IF run[t].level = "llm" THEN "store" ELSE "answer"

\* Only SQL the LLM wrote in this turn, and only if it returned rows, is taught.
AfterPut(t) ==
  IF run[t].level = "llm" /\ run[t].got.full THEN "store" ELSE "answer"

\* The row put must INSERT is still absent; the one it must UPDATE still there.
PutFits(t) ==
  (run[t].pc = "putins") = (DB!Seen(t, ResultKey(t)) = Absent)

PutFlush(t) ==
  /\ Ready(t, "putins") \/ Ready(t, "putupd")
  /\ PutFits(t)
  /\ DB!Write(t, ResultKey(t), run[t].got)
  /\ Become(t, [run[t] EXCEPT !.pc = AfterPut(t)])
  /\ Others

\* Mistake: the counter of a row that is there begins again.
Upserted_Reset(t, e) == run[t].entry

\* ON CONFLICT DO UPDATE of the row e leaves its counter alone.
Upserted(t, e) ==
  IF e = Absent THEN run[t].entry ELSE [run[t].entry EXCEPT !.hits = e.hits]

\* The flywheel's upsert; it reads user.id, which a rollback has expired.
Store(t) ==
  /\ Ready(t, "store")
  /\ ~stale[t]
  /\ LET r == QRow(KeyOf[run[t].q]) IN DB!Write(t, r, Upserted(t, DB!Seen(t, r)))
  /\ Become(t, [run[t] EXCEPT !.pc = "answer", !.embedded = TRUE])
  /\ Others

\* Facts, the streamed answer and the table; the provider may raise.
Answer(t) ==
  /\ run[t].pc = "answer"
  /\ \E o \in {"answer", "error"} :
       /\ o = "error" => "llm" \in Flaky
       /\ Become(t, [run[t] EXCEPT !.pc = "audit", !.outcome = o])
  /\ UNCHANGED session /\ Others

Audited(t, n) == DB!Seen(t, ARow(t, n)) # Absent

AfterAudit(t) == IF run[t].outcome = "answer" THEN "suggest" ELSE "commit"

\* _audit: INSERT a new row; reads user.id.
Audit(t) ==
  /\ Ready(t, "audit")
  /\ ~stale[t]
  /\ \E n \in 1..2 :
       /\ ~Audited(t, n) /\ \A m \in 1..(n - 1) : Audited(t, m)
       /\ DB!Write(t, ARow(t, n), [status |-> Status(run[t].outcome),
                                   tokens |-> "early"])
  /\ Become(t, [run[t] EXCEPT !.pc = AfterAudit(t)])
  /\ Others

\* Mistake: a failure of the suggestions reaches the outer handler.
Suggest_Raises(t) ==
  /\ run[t].pc = "suggest"
  /\ \/ Become(t, [run[t] EXCEPT !.pc = "commit"])
     \/ Become(t, [run[t] EXCEPT !.pc = "audit", !.outcome = "error"])
  /\ UNCHANGED session /\ Others

\* Follow-up chips: any failure or timeout is swallowed.
Suggest(t) ==
  /\ run[t].pc = "suggest"
  /\ \E next \in {"topup", "commit"} :
       /\ next = "topup" => Audited(t, 1)
       /\ Become(t, [run[t] EXCEPT !.pc = next])
  /\ UNCHANGED session /\ Others

\* Mistake: the top-up uses a connection of its own, which commits at once.
TopUp_Autocommit(t) ==
  /\ Ready(t, "topup")
  /\ table' = [table EXCEPT ![ARow(t, 1)] =
                 [DB!Seen(t, ARow(t, 1)) EXCEPT !.tokens = "final"]]
  /\ Become(t, [run[t] EXCEPT !.pc = "commit"])
  /\ UNCHANGED <<pending, lock, tx, stale>> /\ Others

\* The token top-up in a SAVEPOINT.
TopUp(t) ==
  /\ Ready(t, "topup")
  /\ DB!Write(t, ARow(t, 1), [DB!Seen(t, ARow(t, 1)) EXCEPT !.tokens = "final"])
  /\ Become(t, [run[t] EXCEPT !.pc = "commit"])
  /\ Others

\* Mistake: get_session neither commits nor closes the session.
CommitSession_LeftOpen(t) ==
  /\ Ready(t, "commit")
  /\ Become(t, [run[t] EXCEPT !.pc = "closed"])
  /\ UNCHANGED session /\ Others

\* The response is complete: get_session commits.
CommitSession(t) ==
  /\ Ready(t, "commit")
  /\ DB!Commit(t)
  /\ Become(t, [run[t] EXCEPT !.pc = "closed"])
  /\ Others

-----------------------------------------------------------------------------
(* Statements that raise.                                                  *)

\* The row a turn's next statement has to lock.
Wants(c) ==
  CASE c = Sweeper /\ sweep.todo # {} -> CHOOSE r \in sweep.todo : TRUE
    [] c \in Turn /\ run[c].pc \in Statement /\ run[c].dirty # None
         -> QRow(run[c].dirty)
    [] c \in Turn /\ run[c].dirty = None /\ run[c].pc \in {"alias", "store"}
         -> QRow(KeyOf[run[c].q])
    [] c \in Turn /\ run[c].dirty = None
         /\ run[c].pc \in {"rdel", "putins", "putupd"} -> ResultKey(c)
    [] OTHER -> None

WantedRows == [c \in Client |-> Wants(c)]

\* The next statement of turn t fails whatever happens.
Fails(t) ==
  \/ tx[t] = "failed"
  \/ stale[t] /\ run[t].pc \in {"store", "audit"}
  \/ run[t].pc \in Statement /\ run[t].dirty # None /\ run[t].entry.hits = MaxHits
  \/ DB!Deadlocked(t, WantedRows)
  \/ /\ run[t].pc \in {"putins", "putupd"}
     /\ DB!Available(t, ResultKey(t)) /\ ~PutFits(t)

Raises(t) ==
  \/ Fails(t) /\ UNCHANGED faults
  \/ /\ faults < MaxFaults
     /\ faults' = faults + 1

\* Nothing catches it but the outermost handler: generic message, then audit.
StatementRaises(t) ==
  /\ run[t].pc \in {"exact", "alias", "rget", "rdel"}
  /\ Raises(t)
  /\ DB!Fail(t)
  /\ Become(t, [run[t] EXCEPT !.pc = "audit", !.outcome = "error",
                              !.dirty = None])
  /\ UNCHANGED <<sweep, now, proven>>

\* Swallowed as a cache miss, without a rollback.
SemanticRaises(t) ==
  /\ run[t].pc = "semantic"
  /\ Raises(t)
  /\ DB!Fail(t)
  /\ Become(t, [run[t] EXCEPT !.pc = "generate", !.embedded = TRUE,
                              !.missed = TRUE])
  /\ UNCHANGED <<sweep, now, proven>>

\* result_cache.put raises: rolled back, the turn goes on.
PutRaises(t) ==
  /\ run[t].pc \in {"putsel", "putins", "putupd"}
  /\ Raises(t)
  /\ DB!Rollback(t)
  /\ Become(t, [run[t] EXCEPT !.pc = AfterPut(t)])
  /\ UNCHANGED <<sweep, now, proven>>

\* The flywheel raises (also when the embeddings API is still down).
StoreRaises(t) ==
  /\ run[t].pc = "store"
  /\ Raises(t) \/ (~run[t].embedded /\ "embeddings" \in Flaky /\ UNCHANGED faults)
  /\ DB!Rollback(t)
  /\ Become(t, [run[t] EXCEPT !.pc = "answer"])
  /\ UNCHANGED <<sweep, now, proven>>

\* _audit never raises: it rolls back and returns None.
AuditRaises(t) ==
  /\ run[t].pc = "audit"
  /\ Raises(t)
  /\ DB!Rollback(t)
  /\ Become(t, [run[t] EXCEPT !.pc = AfterAudit(t), !.dirty = None])
  /\ UNCHANGED <<sweep, now, proven>>

\* Only the savepoint is rolled back.
TopUpRaises(t) ==
  /\ run[t].pc = "topup"
  /\ Raises(t)
  /\ Become(t, [run[t] EXCEPT !.pc = "commit"])
  /\ UNCHANGED <<session, sweep, now, proven>>

CommitRaises(t) ==
  /\ run[t].pc = "commit"
  /\ Raises(t)
  /\ DB!Rollback(t)
  /\ Become(t, [run[t] EXCEPT !.pc = "closed", !.dirty = None])
  /\ UNCHANGED <<sweep, now, proven>>

\* The client goes away.  The cancellation reaches get_session as an
\* exception (rollback), or the server ends the response quietly and
\* get_session commits what the turn has written so far.
Disconnect(t) ==
  /\ t \in Impatient
  /\ run[t].pc \notin {"new", "commit", "closed"}
  /\ \/ /\ DB!Rollback(t)
        /\ Become(t, [run[t] EXCEPT !.pc = "closed", !.gone = TRUE,
                                    !.dirty = None])
     \/ /\ Become(t, [run[t] EXCEPT !.pc = "commit", !.gone = TRUE])
        /\ UNCHANGED session
  /\ Others

-----------------------------------------------------------------------------
(* tasks/sweeper.py: one DELETE of the expired rows, then a commit.        *)
\* Mistake: the DELETE has no WHERE clause.
Expired_All(r, at) == table[r] # Absent

Expired(r, at) == table[r] # Absent /\ table[r].until <= at

\* A pass that finds nothing expired changes nothing and is left out.
SweepBegin ==
  /\ ~sweep.on
  /\ \E r \in ResultRow : Expired(r, now)
  /\ sweep' = [on |-> TRUE, cutoff |-> now,
               todo |-> {r \in ResultRow : Expired(r, now)}]
  /\ UNCHANGED <<session, run, now, faults, proven>>

\* Lock the next row, waiting if necessary, and delete it if it still is expired.
SweepRow ==
  /\ sweep.todo # {}
  /\ LET r == Wants(Sweeper) IN
       /\ DB!Available(Sweeper, r)
       /\ IF Expired(r, sweep.cutoff)
            THEN DB!Write(Sweeper, r, Absent)
            ELSE UNCHANGED session
       /\ sweep' = [sweep EXCEPT !.todo = @ \ {r}]
  /\ UNCHANGED <<run, now, faults, proven>>

\* Mistake: the session is closed without a commit.
SweepCommit_Forgotten ==
  /\ sweep.on /\ sweep.todo = {}
  /\ DB!Rollback(Sweeper)
  /\ sweep' = NotSweeping
  /\ UNCHANGED <<run, now, faults, proven>>

SweepCommit ==
  /\ sweep.on /\ sweep.todo = {}
  /\ DB!Commit(Sweeper)
  /\ sweep' = NotSweeping
  /\ UNCHANGED <<run, now, faults, proven>>

\* sweep_once swallows the error; the next pass has a new session.
SweepRaises ==
  /\ sweep.on
  /\ \/ DB!Deadlocked(Sweeper, WantedRows) /\ UNCHANGED faults
     \/ faults < MaxFaults /\ faults' = faults + 1
  /\ DB!Rollback(Sweeper)
  /\ sweep' = NotSweeping
  /\ UNCHANGED <<run, now, proven>>

Tick ==
  /\ now < MaxTime
  /\ now' = now + 1
  /\ UNCHANGED <<session, run, sweep, faults, proven>>

-----------------------------------------------------------------------------
Advance(t) ==
  \/ FlushBump(t) \/ LookupExact(t) \/ LookupSemantic(t) \/ AddAlias(t)
  \/ Generate(t) \/ Resolve(t) \/ ResultGet(t) \/ DeleteExpired(t)
  \/ Execute(t) \/ PutSelect(t) \/ PutFlush(t) \/ Store(t) \/ Answer(t)
  \/ Audit(t) \/ Suggest(t) \/ TopUp(t) \/ CommitSession(t)

Raise(t) ==
  \/ StatementRaises(t) \/ SemanticRaises(t) \/ PutRaises(t)
  \/ StoreRaises(t) \/ AuditRaises(t) \/ TopUpRaises(t) \/ CommitRaises(t)

Sweep == SweepBegin \/ SweepRow \/ SweepCommit \/ SweepRaises

\* Every request has been answered: the server waits.  Any other state with
\* no successor would be a turn that is stuck.
Idle ==
  /\ \A t \in Turn : run[t].pc = "closed"
  /\ UNCHANGED vars

Next ==
  \/ \E t \in Turn : Arrive(t) \/ Advance(t) \/ EmbeddingOutage(t)
                       \/ Raise(t) \/ Disconnect(t)
  \/ Sweep
  \/ Tick
  \/ Idle

Spec == Init /\ [][Next]_vars

\* The awaits of a turn return, unless it is slow: its client has stopped
\* reading without disconnecting, or MySQL, whose connections have no
\* read_timeout, does not answer.  The event loop runs the sweeper for ever.
Fairness ==
  /\ \A t \in Turn \ Slow : WF_vars(Advance(t) \/ (Raise(t) /\ UNCHANGED faults))
  /\ WF_vars(Sweep)

FairSpec == Spec /\ Fairness

-----------------------------------------------------------------------------
(* Properties.                                                             *)

\* The rows a turn shows, whether it ran the query or another turn did, are
\* the rows of its own template under its own scope, and no row set of a
\* rejected or refused statement is ever shared (results.py's claim that the
\* L2 cache cannot leak one user's scoped rows to another).
ServedRowsInScope ==
  /\ \A t \in Turn : run[t].got # None =>
       /\ run[t].got.tmpl = run[t].entry.tmpl
       /\ run[t].got.scope = ScopeOf[t]
  /\ \A x \in Template, s \in Scope : table[KRow(x, s)] # Absent =>
       x \notin Unsafe /\ <<x, s>> \notin Denied

\* The flywheel teaches only templates that passed the guard, ran and
\* returned rows, however often they were aliased since and whatever was
\* rolled back in between (pipeline.py, the comment above query_cache.store).
OnlyProvenTemplatesAreTaught ==
  \A k \in Key : table[QRow(k)] # Absent =>
    table[QRow(k)].tmpl \in proven \ Unsafe

\* A semantic hit serves a template that was written for a question near the
\* asker's and of the same temporal intent, through any chain of hits, aliases
\* and upserts, and although several texts of different intents share a key
\* (semantic.py: "sales today" must not match a cached "sales yesterday").  An
\* exact hit compares no intents, and nothing is said of it.
SemanticHitsFit ==
  \A t \in Turn : run[t].level = "L1" =>
    LET origin == run[t].entry.origin IN
      Intent[origin] = Intent[run[t].q] /\ Distance[run[t].q][origin] <= Threshold

\* The turns whose hit on key k has been committed.
Hits(k) == {t \in Turn : run[t].pc = "closed" /\ ~stale[t] /\ run[t].hit = k}

\* "On hit, bumps hit_count" (semantic.py): a counter has never more hits than
\* there were, through aliases and upserts of its row, and fewer only if two
\* turns have read the same count: such an update is lost, as the UPDATE sets
\* the number that was read, plus one.
HitsAreCounted ==
  \A k \in Key : table[QRow(k)] # Absent =>
    LET counted == table[QRow(k)].hits IN
      /\ counted <= Cardinality(Hits(k))
      /\ counted = Cardinality(Hits(k))
           \/ \E t, u \in Hits(k) : t # u /\ run[t].entry.hits = run[u].entry.hits

\* What a row teaches.
Lesson(e) == <<e.tmpl, e.origin, e.embedding, e.intent>>

\* What a question has been taught is replaced only by a turn whose own SQL
\* ran, as a whole, when it commits; neither an alias nor a hit that is counted
\* late brings an older lesson back (add_alias; _bump_hit on an entry that was
\* read before another turn's upsert).
OnlyTeachersReplace ==
  [][\A k \in Key :
       LET old == table[QRow(k)]  new == table'[QRow(k)] IN
         old # Absent /\ old # new =>
           \/ Lesson(old) = Lesson(new)
           \/ \E t \in Turn : /\ run[t].level = "llm" /\ KeyOf[run[t].q] = k
                               /\ run[t].pc = "commit" /\ run'[t].pc = "closed"
                               /\ Lesson(new) = Lesson(run[t].entry)]_vars

\* The audit log: never two rows for a turn, a row tells what the user saw,
\* and a turn that was answered to the end has its row unless its session
\* had to roll back on the way.
AuditTrail ==
  \A t \in Turn :
    /\ table[ARow(t, 2)] = Absent
    /\ table[ARow(t, 1)] # Absent =>
         /\ run[t].pc = "closed"
         /\ table[ARow(t, 1)].status = Status(run[t].outcome)
    /\ run[t].pc = "closed" /\ ~run[t].gone /\ ~stale[t] =>
         table[ARow(t, 1)] # Absent

\* pipeline.py's module docstring: "Every terminal path writes exactly one
\* SqlAuditLog row".
ExactlyOneAuditRow ==
  \A t \in Turn : run[t].pc = "closed" /\ ~run[t].gone =>
    table[ARow(t, 1)] # Absent

\* pipeline.py's comment on step 6: "if the embeddings API or the lookup
\* fails, treat it as a miss and fall through to the LLM rather than failing
\* the whole request" (stated for an instance where nothing else can fail).
LookupFailureIsAMiss ==
  \A t \in Turn : run[t].missed => run[t].outcome # "error"

\* The sweeper deletes no row set that is still fresh, although turns replace
\* rows while its DELETE waits for their locks.
SweeperSparesFresh ==
  [][\A x \in Template, s \in Scope :
       LET r == KRow(x, s) IN
         sweep.on /\ ~sweep'.on /\ table[r] # Absent /\ table'[r] = Absent =>
           table[r].until <= now]_vars

\* A turn or a sweep that has begun and not ended.
Busy == {t \in Turn : run[t].pc \notin {"new", "closed"}}
          \cup {c \in {Sweeper} : sweep.on}

\* The rows that client c has to lock before it can go on.
ToLock(c) == ({Wants(c)} \cap Row) \cup
  {ARow(t, n) : t \in {u \in Turn \cap {c} : run[u].pc \in {"audit", "topup"}}, n \in 1..2}

CanGoOn(c) ==
  \/ c = Sweeper /\ DB!Deadlocked(Sweeper, WantedRows)
  \/ c \in Turn /\ (run[c].pc \notin Statement \/ Fails(c))
  \/ tx[c] = "live" /\ \A r \in ToLock(c) : DB!Available(c, r)

\* Turns and the sweeper never all wait: whoever ends, on any path, returns the
\* row locks (get_session, sweep_once), and those who wait for each other in a
\* circle are told so by Postgres.
NobodyIsStuck == Busy # {} => \E c \in Busy : CanGoOn(c)

\* The clients that wait for a slow turn's lock, or for one that does.
HeldUp ==
  LET behind[n \in Nat] ==
        IF n = 0 THEN Slow
        ELSE behind[n - 1] \cup
               {c \in Client : Wants(c) \in Row /\ lock[Wants(c)] \in behind[n - 1]}
  IN behind[Cardinality(Client)]

\* A row set that has expired is deleted or replaced in the end, unless the
\* sweeper, whose DELETE is one statement, waits for ever behind a slow turn.
ExpiredRowsGo ==
  \A x \in Template, s \in Scope :
    LET r == KRow(x, s) IN
      (table[r] # Absent /\ table[r].until <= now)
        ~> (table[r] = Absent \/ table[r].until > now \/ [](Sweeper \in HeldUp))

\* The turns and the sweeper use Postgres as Sessions says any client may.
ImplementsSessions == DB!Spec
=============================================================================
