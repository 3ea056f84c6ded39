# TLA+ verification of the Botree chat backend

The backend answers natural-language questions about sales data.  A question
goes through a pipeline (cache lookups, an LLM that writes SQL, a safety guard,
row-level access control, MySQL, a streamed answer) and leaves traces in
Postgres (two caches and an audit log).  This directory holds TLA+ models of
the parts whose correctness depends on the order in which things happen, the
TLC configurations that check them, and TLAPS proofs of their main invariants.

`tlc -config X.cfg M` checks a run, `tlapm M.tla` a proof module.
`PROJECT.json` lists the runs, the correspondence of every definition with the
source lines it models, the mutants that show what each property can detect,
the hazards and the findings.

## 1. Inventory

| Component | Source (`src/app/`) | State it keeps | Operations | What is hard about it |
|---|---|---|---|---|
| Postgres sessions | `db/postgres.py`, `deps.py`, `db/models.py` | tables, one transaction per request | statements, commit, rollback | a session lives as long as the streamed response; aborted transactions; objects expired by a rollback |
| Chat pipeline | `chat/pipeline.py` | a turn's local variables | `run`, `_audit`, `_safe_rollback` | 12 awaits per turn, 7 exception handlers, turns run concurrently |
| Query cache L0/L1 | `cache/semantic.py` | `query_cache` rows | `lookup_exact`, `lookup_semantic`, `store`, `add_alias`, `_bump_hit` | shared by all users; deferred UPDATEs; chains of aliases |
| Result cache L2, sweeper | `cache/results.py`, `tasks/sweeper.py` | `result_cache` rows | `get`, `put`, `sweep` | shared by users of one scope; expiry; DELETE that waits for locks |
| Chat endpoint | `api/chat.py`, `chat/stream.py` | open text block, tool id | frames of the UI message stream | disconnects; grammar of the stream |
| Analytics database | `db/analytics.py` | SSH tunnel, connection pool | `execute_readonly`, retry | worker threads, two locks, replaced tunnels, bounded pool |
| Rate limiter | `middleware/ratelimit.py` | windows per client and bucket | `dispatch`, prune | boundaries of windows, pruning |
| Sales-force hierarchy | `rbac/hierarchy.py` | cached subtree per user | BFS, TTL cache | concurrent fills, stale clock |
| RBAC | `rbac/injector.py`, `rbac/profiles.py` | - | `apply_scope`, fingerprint | nested queries, tables that cannot be scoped |
| SQL safety | `sqlsafety/*.py` | - | alias fixer, guard, limiter | SQL syntax |
| Templates | `cache/templater.py`, `cache/normalizer.py` | - | parameterize, bind, normalize, intent | dates that move with the calendar |
| Embeddings | `cache/embeddings.py` | HTTP client | `encode`, `warmup` | outages |
| LLM providers | `llm/*.py` | token tally, HTTP clients | `generate_sql`, streaming, rewriting, titles, transcription | retries with validation feedback, truncated streams |
| Answerer, formatting | `chat/answerer.py`, `chat/rewriter.py`, `domain/*.py` | - | facts, tables, rewriting, glossary and prompt data | arithmetic on capped rows |
| Threads | `threads/service.py`, `api/threads.py` | threads and message trees | create, append, title, archive, delete | duplicate appends, concurrent titles |
| PDF export | `threads/pdf.py` | - | `active_branch`, rendering | branch selection in a message tree |
| Authentication | `auth/*.py`, `api/auth.py` | users | login, tokens | expiry |
| Lifespan, config, logging, health | `main.py`, `config.py`, `logging.py`, `errors.py`, `api/health.py` | module globals | startup, shutdown, probes | order of teardown |
| Schema and operations scripts | `alembic/`, `scripts/`, `docker/` | - | migrations, seeding, token report | run by hand, outside the service |

What makes each correct.  Sessions: write sets do not overlap, nothing of an aborted
transaction is published.  Pipeline and caches: one audit row per turn that says
what happened; nobody is shown rows of another scope; only SQL that worked is
taught, semantic hits serve it to near questions about the same period only, and only
who teaches replaces it; hits are counted; turns never all wait.  Sweeper: expired
rows go, fresh ones stay.  Stream: the grammar of the protocol, an explanation, an
end.  Analytics: no leaked tunnel or connection, a retry that heals.  Rate limiter:
the limit in any minute, an honest `Retry-After`.  Hierarchy: exactly the codes below
the root, none older than the TTL.  LLM: SQL that passed validation, one answer,
an honest count of tokens.  RBAC: every table that a SELECT reads itself scoped or the query refused.
SQL safety: one read-only statement over known tables, at most the cap of rows.
Templates: a template bound to a question is the query it came from, but for dates
the question names.  Facts: no total of a truncated result.  Threads: no message lost or moved, a head that
exists.  Authentication: the user's row decides, not the token.  Lifespan: nothing
is used after it is closed.

Interactions.  `chat` (one task per request) runs `ChatPipeline.run`, which
awaits the LLM provider, the embeddings API, MySQL (through a thread) and
Postgres (through the request's session).  All requests share the Postgres
tables, the rate limiter's and the hierarchy's dictionaries and the analytics
connector.  The sweeper is a task of its own with its own sessions.

## 2. Modules

**Sessions** is Postgres and SQLAlchemy as the code relies on them: a READ
COMMITTED transaction per client, row locks held to the end of the
transaction (also on the key of a row that another transaction has inserted
but not committed), aborted transactions, and the ORM objects a rollback
expires.  Postgres is external; the module contains what `deps.get_session`,
`_safe_rollback` and `expire_on_commit=False` make of it.  It is both the
library of ChatPipeline and Threads and the abstract specification ChatPipeline
refines: any client may issue any statement at any time.

**ChatPipeline** is the core: concurrent turns, the two caches, the audit log,
the request session and the sweeper.

| Model | Code |
|---|---|
| `run[t].pc` | the await the turn's coroutine has reached; an action is the code up to the next await |
| `run[t].q` | the rewritten text; `None` for a greeting.  `KeyOf` gives its normalized question, `Intent` its temporal intent, which is computed from the text and not from the key |
| `run[t].level`, `entry` | `cache_level`; the row the turn uses, as it was loaded: template, embedding, temporal intent and hit count.  `entry.origin` is a history variable: the text the LLM wrote the template for |
| `run[t].hit` | the key of the row that was hit |
| `run[t].dirty` | the row whose `hit_count` `_bump_hit` has changed but no flush has written; `FlushBump` is the autoflush before the next statement: it sets the counter to the count that was loaded plus one, and no other column |
| `run[t].embedded` | `question_embedding` is set |
| `run[t].got`, `cached` | `columns`/`rows`, `served_cached` |
| `run[t].outcome`, `gone` | which terminal path was taken; the client disconnected |
| `table`, `pending` | committed and uncommitted rows of `query_cache`, `result_cache`, `sql_audit_log` |
| `tx[t] = "failed"` | `InFailedSQLTransaction`, `PendingRollbackError` |
| `stale[t]` | a rollback expired `user`: `user.id` raises `MissingGreenlet` |
| `proven` | history: templates that ran and returned rows |

Handlers.  A statement's failure goes where the code sends it: swallowed
without a rollback (`SemanticRaises`), swallowed with one (`PutRaises`,
`StoreRaises`), confined to a savepoint (`TopUpRaises`), or to the outermost
handler (`StatementRaises`).  `Raises` lists the reasons: the transaction is
aborted already, the row `put` planned to INSERT or UPDATE has appeared or
gone, the turn is a deadlock victim, it needs an expired `user`, or Postgres
fails (at most `MaxFaults` times).

Abstractions.  A question is a text, an embedding the text it was computed from; the
rewriter's output is the question a turn arrives with.  A template is the SQL the LLM wrote; binding
dates into it is module Templates.  A final SQL text is a template and a scope.  Guard and access control are the constants `Unsafe`
and `Denied`.  MySQL either raises or returns a row set that is empty or not.

**Analytics** is the SSH tunnel, the connection pool and the worker threads that
share them.  The two locks make `ensure_started`, `_ensure_pool` and `_drop_pool`
atomic; what happens between them is free.

| Model | Code |
|---|---|
| `forwarder`, `listening`, `link` | `SSHTunnelManager._tunnel`; the local ports in use; the SSH transport, which may be cut before `is_alive` notices |
| `pool`, `target`, `used` | `AnalyticsDB._pool`, the port it was built for, its borrowed connections |
| `job[w]` | a thread inside `execute_readonly_sync`: the attempt, the port and pool it was given |
| `TunnelDies`, `NoticeDeath`, `ConnectionLost` | the network and MySQL |
| `Borrow`, `BorrowDead`, `ConnectFails` | DBUtils' `PooledDB` with `blocking=True`, external; it hands out a kept connection that is dead if it cannot reopen it |
| `QueryDies` | a dead connection met by the query's statement, which is recognised, or by a SET SESSION before it, which is not (`GivesUp`): there is no retry then |

**RateLimit** is `RateLimitMiddleware.dispatch` with its lazily pruned dictionary.
Time is in tenths of a millisecond, because `Retry-After` is rounded; `admitted`
and `comeBack` are history.

**Subtree** is `resolve_subtree`: one action takes a code from the queue, one
looks at a row.  **SubtreeCache** is `get_subtree_for` with its fetch in a thread:
`version` stands for the contents of the hierarchy table.

Four modules are about what happens to one query on its way to MySQL and back.
None of their code awaits; each is one or a few steps over all small inputs.

| Module | Code | A state is |
|---|---|---|
| **Fixer** | `fix_column_aliases` | SELECTs with their sources and qualified columns, before and after |
| **Scope** | `assert_safe`, `apply_scope` | a query (a tree of SELECTs, unions and sources in parentheses over tables), the tables whose names its CTEs have, a user's profile and subtree, the verdict, the predicates of every table.  `RunsInScope` evaluates the filtered query on small tables and compares the rows with those the user may see |
| **Totals** | `enforce_limit`, the result cache's conversion, `compute_total_facts` | the size of a result, the types of its columns, the LIMIT, the rows at hand, the cached ones, the facts of all answers so far |
| **Templates** | `parameterize_sql`, `bind_template`, `extract_temporal_intent`, and who hits a cached entry | the literals of a query, its template, the last question that hit it and what it was given |

Level n of Scope is 100 * n of the code.  In Totals the cap of the LIMIT
(`settings.sql_row_cap`) and that of the truncation test (`DEFAULT_ROW_CAP`) are two
constants, as in the code; the run gives both one value, as the defaults do, and
`NoPartialTotals` fails if the first is set lower than the second.

**Auth** is logins, tokens and the user a request acts as, while the users' table is
seeded and edited.

| Model | Code |
|---|---|
| `visit[v].pc` | `verified`: `login` has found the row and not yet issued the token; `decoded`: `get_current_user` has the token and not yet the row; `acting`: the endpoint runs |
| `users` | the table, with its unique name |
| `vouched`, `held` | history: whose password was given when; the rows there have been since the token was decoded |
| `Seed` | the upsert of `seed_users.py`, one transaction |
| `Administer` | a change with SQL: the service has no endpoint that edits users |

Passwords stand for their hashes, and a token that was not issued does not decode.

**Lifespan** is the process from startup to shutdown: what `lifespan` opens and closes,
the sweeper's task and its cancellation, the warm-up, requests, and a signal at any
moment.  Uvicorn is external: it drains the requests before `lifespan` goes on, and a
second signal ends the process at once (`ForceExit`).

**QuestionKeys** is the way from the messages of a request to the key of
`query_cache`: `_parse_body`, `is_greeting`, `maybe_rewrite`, `normalize_question`.

| Model | Code |
|---|---|
| a text | its lower-case words and marks; the word lists are the code's own (of the synonyms those whose order matters) |
| `measure`, `period` of a message | what its author means, which the code never sees |
| `templates` | `query_cache`: what the SQL under each key computes |
| `Understood` | the LLM, taken to understand what it is shown |

**Answer** is what a user reads of a result: `scrub_raw_row_dumps`,
`render_markdown_table`, `format_rupees`, and the report that takes the stored message
apart again (`split_prose`, `_tables_of`).  A text is a sequence of lines of the kinds
that the regular expressions tell apart; an amount is a number of thousandths.

**MCParts** puts RateLimit, Subtree, SubtreeCache, LLMTurn, Fixer, Scope, Totals,
Templates, Auth, QuestionKeys and Answer in one run, **MCService** Analytics,
ChatStream and Lifespan.  They share no variable, so nothing is gained by interleaving
them: `part` (`service`) says which of them a behaviour is about, and the others rest.
What a request of Lifespan does with Postgres and MySQL is in ChatPipeline and
Analytics; here it is a use of both that begins and ends.

**UIProtocol** is the grammar of the stream, written from the frames that
`UIMessageStream` can emit and the docs' account of the AI SDK protocol.
**ChatStream** is the pipeline's events, `_event_stream` and the encoder, with a
client that receives frame by frame and may leave; it implements UIProtocol under
the mapping of what the client has made of the frames so far.

**LLMTurn** is every LLM call of a turn.

| Model | Code |
|---|---|
| a call's number | its text, its SQL and its usage: what a property asks is which call they came from |
| `tally`, `whole` | `UsageTally`; history: calls whose response arrived to its end |
| `AskAnthropic` | the attempts of the tool-calling loop |
| `AskFirst`, `AskAgain` | the two replies of the JSON providers (Cloudflare and Bedrock have the same control flow) |
| `Validate` | `ChatPipeline._validate`, whose verdict is a choice |
| `Open` .. `AskWithoutStream` | `stream_answer` and its fallback, read by `stream_answer_text` |
| `audited`, `TopUp` | the token columns of the audit row, and their second update |

**Threads** is the thread and message endpoints: every request is a client of
Sessions whose rows are threads and messages, and reads ORM objects at one moment
and writes what it changed of them at another.

| Model | Code |
|---|---|
| `req[c].pc` | the statement the request has reached; an action is one statement and the code up to the next |
| `req[c].row`, `msg` | the `Thread` and `Message` objects as they were loaded (`msg` is `None` when `session.get` found none) |
| `GetThread`, `GetThreadAgain` | `_get_thread_or_404`, which the export calls twice |
| `GetMessage`, `FlushRow` | `upsert_message`: `session.get`, then one statement per row of the flush |
| `StartDelete`, `DeleteRow`, `Deleted` | the DELETE of `delete_messages`, row by row as it gets the locks, and the head cleared afterwards |
| `CommitRequest`, `Raised` | `get_session`: commit (or its failure), or rollback |
| `SelectMessages`, `ActiveBranch` | the second SELECT of the readers, and `active_branch` of the report |
| `overlapped` | history: threads on which two requests worked at once |

`updated_at` and `created_at` are left out, but for the fact that setting the first
makes an upsert write the thread's row; `format` and `content` are one value.  A row
that is deleted and inserted again while a DELETE waits for it is taken for the same
row.  `EditsStayInThread` says what `test_threads.py` asks (a message of another
thread "must never be moved/overwritten"), except for one order that the lookup
cannot see: the loaded message is deleted and its id used again in another thread
before the UPDATE, which then writes there; it changes only content and parent.

The modules `*Proofs` hold the theorems; the modules `MC*` give the constants of
the runs their values.

## 3. Runs

| Run | Instance | Shows |
|---|---|---|
| `turns` | 3 turns, 4 questions of 3 keys and 2 intents, 3 templates, 2 scopes, 1 tick, 1 failing statement, outages of LLM, MySQL and embeddings, 1 disconnect; three focuses, see below | what users are shown, what the caches learn, count and serve to whom, what the audit log says, what the sweeper spares |
| `turns_live` | 3 turns of which 1 may stop for ever, 1 question, 2 scopes, 1 tick, fairness | somebody can always go on, expired rows go unless the sweeper waits behind the turn that stopped, every step refines Sessions |
| `audit`, `lookup` | 2 turns without faults; 1 turn with one | findings 1 and 2 |
| `service`: Analytics | 2 threads, 1 connection, 2 ports, 3 pools, 2 faults, fairness | nothing leaks, a pool fits its tunnel, a retry that is made heals, queries end |
| ChatStream | all orders of events, with rows that JSON can or cannot represent, fairness | the grammar, ended messages explain themselves |
| Lifespan | 2 requests, a signal at any moment, the sweeper in any state, fairness | nothing closed is used, nothing is left open, shutdown ends |
| `reuse` | 2 threads, 2 connections, 1 dead tunnel | finding 3 |
| `parts`: RateLimit | 1 caller with and without a token, limit 2, 3 waits | bounds over any minute, honest `Retry-After`, pruning |
| Subtree, SubtreeCache | every table of up to 3 of 15 rows, 3 roots; 2 concurrent calls, TTL 2, 5 ticks, 2 changes | exactly the codes below the root; no subtree out of date for TTL |
| LLMTurn | 1 turn, 3 providers, 3 attempts, 2 deltas | validated SQL, one answer, conversations survive, honest tally |
| Templates | every query of up to 3 literals, 2 dates, 2 texts, all pairs of questions | a bound query differs in its dates only, which the new question names |
| Totals | up to 4 rows of 2 columns of any types, a cap of 2, cache hits and expiry | no total of rows that were cut off |
| Fixer | 1 SELECT over 1 or 2 of 3 tables, or over a derived table and a table; any qualifier on any column | right columns stay, changed ones are found |
| Auth | 1 user who has a seeded name, 2 ids, 2 names, 2 passwords, 1 request, tokens of 2 of 4 minutes, 3 changes of the table | whom a request acts as |
| QuestionKeys | 2 of some 500 requests: openings, closings and synonyms of 3 measures, follow-ups after each | one key for one meaning |
| Answer | every text of up to 3 lines of 6 kinds; a single amount, or up to 3 rows with amounts below zero, next to a full rupee and halfway between two paise | every row shown, in the answer and in the report |
| Scope | 234 queries over 6 tables (single, joined, derived, unions, in parentheses, forbidden), with and without a CTE named like the table outside the whitelist, 10 users, 3 subtrees, every possible row | of what SELECTs read themselves the rows in the user's scope, all of them and no others |
| `ranges`, `shared`, `totals`, `keys` | the instances of Templates, Fixer, Totals; 3 conversations about different measures | findings 4 to 7 |
| `threads` | 3 requests out of 16 calls, 2 users, 2 threads, 2 messages, 4 tables, any statement or commit failing | concurrent changes of a thread and its messages, and the branch the report shows |

Bounds.  Two turns are enough for every race on one row (a loser and a
winner); a third adds a turn that begins after the first has committed, which
a cache hit needs.  One question makes the turns contend; a chain of
near ones lets a template travel over two aliases, and two texts with one key but two
intents let an alias, a lookup or an upsert mix them.  A counter of at most `MaxHits` = 2
is reached by two hits, and a third fails as at the end of the column's range.  With `TTL` 1 and a tick a row set can be
fresh, expire and be replaced.  One failing statement hits each statement of
either turn; further faults add only combinations of handlers already
exercised, and the proofs cover any number.  Analytics needs two threads
because each of the code's races has one that replaces what another still uses,
and two faults so that a retry can fail as well; one connection makes the
second thread wait.  RateLimit needs waits just short of a window, just short of a
second and longer than the idle time; three make a bucket open, fill, pass the
window boundary and be pruned.  Three rows make circles, duplicates and a code
reached by two ways.  Three literals let two of one type surround a third.  Scope's
tables have all columns, two levels, one level, and none; a query that nests more
deeply is scoped SELECT by SELECT like those of two.

Auth's second name and id let the seeded name pass from one user to another, which
takes three changes with a deletion or a renaming; with tokens of two minutes one is
used fresh, used late and expired.  Two requests of QuestionKeys are the one that
teaches a key and the one that finds it; a third would meet the same table.  Two
requests of Lifespan let one end while another still holds its session.

`threads` needs two messages for a chain, a circle and a cut one, a second user with
a thread for an id that is taken, and a third request for what is deleted and then
used again between two steps of another.

Focus.  Its CONSTRAINT `Focus` lets three requests go on only if one of them deletes
message m or takes its id; any two go on in all orders.  The product of all that can vary in `turns` is out of reach.  The
CONSTRAINT `SafetyFocus` makes the run the sum of three instances: three turns on
one question with all templates and scopes and no disturbance; three turns on
different near questions; and two turns with faults, outages, expiry and the
disconnect.  A state outside all three is checked and not explored further.
`LivenessFocus` likewise lets the clock tick only while there are two turns; the
steps it prunes, a tick and an arrival, are not fair, so no behaviour that must
go on is cut off.

Fairness.  `turns_live`: the awaits of a turn return unless it is in `Slow`.  The LLM
and embeddings clients have timeouts, and MySQL is sent `MAX_EXECUTION_TIME`, but its
connections have no `read_timeout`, and a client may neither read nor disconnect: such a
turn is slow, may stop at any of its awaits and keeps its row locks.  A turn that is not
slow but waits for such a lock waits too, so it is not said that turns end.  The sweeper
runs for ever, in one DELETE over all expired rows; `ExpiredRowsGo` excepts that it
waits for ever behind a slow turn (`HeldUp`), which the code does not prevent.
`Disconnect` and `Tick` are not fair.  `service`, Analytics: every thread goes
on (WF), and a thread that waits for a connection gets one if one comes free
again and again (SF): DBUtils waits on a condition variable and wakes one waiter
per returned connection; that no newcomer overtakes it for ever is assumed.
ChatStream: the server and the client's event loop go on.  Lifespan: requests that
have begun end, by the timeouts of what they wait for, so does a cancelled sweep, and
`lifespan` goes on when what it awaits is done; nothing is assumed of signals, new
requests, the warm-up or a sweep that is not cancelled.

Deadlock is checked except where a behaviour really ends: in `parts` the queue of the
hierarchy search is empty, or a query has been repaired, scoped or answered, and the
bounds on requests and changes are reached.  ChatPipeline, Analytics, Threads and LLMTurn
have an explicit last state, ChatStream and Lifespan one in MCService (`Over`): a stream
nobody reads any more, a process that has ended.

Type invariants are proved (`TypeCorrect` and the like of the proof modules); no run
spends a property on one.

## 4. Proofs

All proofs hold for every value of the constants, from the named assumptions
of the modules.

`SessionsProofs`: `WritesAreLocked` is inductive with the type invariant and
`FailedHoldsNothing`.  Locks keep write sets apart, no more: what a transaction has read
may be old when it writes, and what is lost then is for the modules that compose it to
say (`HitsAreCounted`, `ColumnsSurvive`).

`ThreadsProofs`: the invariant `ThreadsInv` adds to that of Sessions what each request
knows and has written at each program counter (`RequestOK`): the thread it loaded was
its user's, a write to a thread differs from the row by what the request sets
(`ThreadWrite`), a write to a message is one of its own (`MessageWrite`); and that the
id of a thread being created is nobody else's (`Fresh`).  As locks are held to the
end, what was true when a row was written still is when it is committed.  Each
action has a lemma for the request that takes it; one lemma shows that the others
keep theirs.  `HeadsExist` says nothing of a race and so needs to know that there was
none: `HeadInv` adds that two requests which have loaded one thread have overlapped
(`Alone`), that a request which has not finds its thread and message as it loaded them
(`Undisturbed`), and that before it commits it has written all it must, the cleared head
of a deleted message among it (`Complete`).

`PipelineProofs`, from `PipelineAssumption` (the types of the constants)
and `MarkersDiffer` (the marker values are not rows or clients).  The
invariants of the caches speak of committed rows only and are not inductive: a
row becomes committed from a write set, and a write set gets it from the local
variables of a turn, which got it from a cache.  The inductive invariant `Inv`
therefore says the same of all three places: `QueryOK` and `ResultOK` of
committed and uncommitted rows, `CarriedOK` of what a turn carries at each
program counter.  `AuditOK` does it for the audit rows: only the turn itself
writes them, only after its outcome is settled.  Each action has a lemma that
it `Advances` its turn (a permitted session step, good local variables, good
audit rows), one lemma shows that this keeps `Inv`.  `Refinement` uses the same
lemmas: a permitted session step is a step of Sessions.  `TurnsAreSafe` then carries
the theorem about Sessions over to the pipeline.  `HitsFit` needs of every row that its
embedding and intent are those of the text its template was written for (part of
`QueryOK`), of rows that were aliased and of rows replaced under a key that several texts
share.

`PipelineProofs` also proves `FreshRowsAreSpared`: whatever the sweeper has deleted and
not yet committed had expired by its cutoff and cannot be replaced while it holds the
lock, and the cutoff is not later than the clock (`SweepInv`).

`ThreadsProofs` ends with `BranchesAreWhole`, about the recursive function
`ActiveBranch`, which is taken for a sequence of chains, each the one before with the
parent of its first message in front, where there is one (`Walks`, `Grown`).  A chain
goes from parent to child, ends at the head and has no message twice (`Path`); growing
keeps that (`PathGrows`), so it cannot be longer than there are messages
(`PathIsShort`), which is where `MessagesAreFinite` is needed.  When it stops, the parent
is missing or is on it already.

`ServiceProofs` holds the theorems of Analytics, ChatStream and Lifespan.

Analytics: that a forwarder which listens is the manager's own is
inductive; that a pool fits its tunnel needs in addition what a thread knows at
each program counter (`JobOK`: when it holds a port and a pool, and that the pool
was built for that port).  `RetryHeals` needs `RetryOK`: an undisturbed thread in
its second attempt finds a tunnel that works or none, and keeps it.  It says nothing of
a query that is given up without a retry.

ChatStream: `StreamInv` says that the client, once it has read the frames still on
their way, will have made of them what the handler's program counter and the encoder's
open block and tool call say (`Reads`, `Said`).  From it follow `StreamRefines` (initial states to initial states, a
step of the stream to a step of UIProtocol or a stutter), and `RowsExplained`.

Lifespan: what is open is determined by the phase, and so is who may still run
(`PhaseFacts`).

`AccessProofs` holds those of RateLimit, Subtree, SubtreeCache, Auth and Scope.

RateLimit, from `Window`, `Second` and the limits alone: the bound on any
2 * limit + 1 requests needs an invariant on the history: the requests counted in
a bucket are the last ones of `admitted` and are not older than its start, and all
earlier ones came before it.

Subtree: what is seen lies below the root, and what lies below the root is
seen or below something in the queue; when the queue is empty the set of what is
seen is closed, for tables of any length.  The rows that a call of SubtreeCache holds
were current when it asked or later (`RowsAreRecent`), which an entry inherits.

Auth: a token that was issued carries the time of a login in its expiry, and a request
that has decoded one holds every row there has been since (`AuthInv`); a login and the
row of a later request may lie any number of changes apart.

Scope: `QueriesStayInScope` covers queries of any nesting, and says of the tables that
stand in parentheses only that they pass the guard.  `ScopeInv` says that a
query which runs has passed the guard and carries the predicates of its user
(`Guarded`, `Enforced`).  What a table's predicates let pass is compared with what the
user may see of it (`PassesInScope`), and the comparison is carried from the tables
through the nodes of the query, each of which reads only later ones (`NodesKept`).  The predicates compare
columns with the user's codes level by level, the scope is about the rows, so the proof
needs `WarehouseAssumption`: a level column the catalogue names is in the rows of its
table, and a code stands only in the column of its own level.  The code relies on both
without checking them, and for rows that break them the theorem says nothing.  TLC
evaluates the assumption for the rows of `parts`.

`LLMTurnProofs`: the number of calls is bounded by where the turn stands, a
call's usage is in the tally exactly if its response is whole, and the audit row
is the tally at a point after which only the suggestions come.

`ConversationsAreKept` adds, independently, that there is no first reply before there is one
(`FirstIsKept`), and that who goes on to execute after one has a plan; it needs
`NoPlanIsMissing`, that the marker is not a plan.

`PartsProofs` holds the theorems of four small modules.  Totals: fewer rows than the cap
of the facts are all of the rows, provided that cap is not above the query's (an
explicit hypothesis of `TotalsAreWhole`).  Templates: the k-th literal of a type is
called by the number of such literals up to it, which grows, so no two share a name and
each placeholder's value is the literal it replaced (`NamesDiffer`, `SpecOf`).

Answer: `ResultsAreShown` goes through the text in the order of the code.  Lines are
picked out of a text one by one (`Picked`), so picking the sentences of a reply and then
the rows of a table gives back both (`PickedFirst`, `PickedRest`), and an amount that is
rounded to hundredths and grouped is told to half a hundredth.  The theorem needs that
the tool result keeps more than one row (`ToolRows`, 200 in the code): with room
for a single one, a longer result would be reported as one value without its table.

Fixer: `RepairsMend` needs `Conventional`, what the prompt tells the LLM (prompts.py:206)
and the catalogue repeats (schema_catalog.py:475): a table goes by its usual alias or its
own name, a derived table by neither.  A name then says which table it is for wherever
it is used (`NameTellsTable`), although the fixer keeps only the last use in the walk.
Without the convention (`x` for one table inside a subquery and for another outside) the
fixer can move a right column; the property says nothing of such statements.

`Recursion` has what the proofs about recursive functions need: least and greatest
elements, induction up to a number and the existence of a function given by its
first value and its steps.  They are stated for sets and functions, as the provers
cannot instantiate the library's theorems with an operator as parameter.

Model-checked only: the liveness properties (TLAPS has no `ENABLED`); `HitsAreCounted`
and `OnlyTeachersReplace`; and `KeysAreMeanings`, which depends on the word lists of the
code and on the questions, and holds for those of the run.

## 5. Findings

1. `audit`: CODEBASE_OVERVIEW.md and the docstring of `pipeline.py` promise
   exactly one audit row per turn.  When two users of one scope ask the same
   new question at the same time, the second INSERT into `result_cache` fails,
   the rollback expires `user`, and `_audit` can no longer read `user.id`.  An
   embeddings outage does the same to a single turn, through the flywheel's
   rollback.
2. `lookup`: a semantic lookup that fails in Postgres is not a mere miss; the
   transaction stays aborted and the turn fails.
3. `reuse`: the tunnel is not "reused while alive".  When two threads lose it, the
   second stops the new tunnel that the first has started and is using, and the
   first has no retry left.
4. `ranges`: `bind_template` is no inverse.  It binds every date of a template to the
   first ISO date of the question, so a question about a range of two dates that
   hits its own template is answered for one day.
5. `shared`: `mrp`, `purchase_price`, `invoice_qty` and `sf_level_code` belong to two
   tables each, and `AMBIGUOUS_COLUMNS` does not list them.  In a query over both
   tables the fixer moves a correct column to the other one, and the query still runs.
   `RepairsOnlyMend` shows that other columns are safe while the LLM uses the aliases
   it is told to.
6. `totals`: `_is_numeric` does not know `Decimal`.  Rows fresh from MySQL have other
   totals than the same rows from the result cache, which holds floats.

7. `keys`: content.md promises that a follow-up "remembers the context".
   `_looks_standalone` does not recognise "now break that down by distributor", so it
   is not rewritten, its words become a key of the cache that all conversations share,
   and the next one who says them gets the SQL of somebody else's measure.
   `KeysAreMeanings` shows that questions which stand on their own, or have been
   rewritten, do not meet in one key.

Limitations met while modelling, without a run of their own.  Rows with a value
that JSON has no form for (MySQL's TIME arrives as a `timedelta`) make the encoder
raise outside the pipeline's error handling: the message ends after the announced
query, without a word or an audit row; `PlainRowsAreExplained` excepts them.
Questions that name dates in another form than ISO have the same temporal intent,
`date_range`, and keep the dates of the question whose template they hit.  And
`settings.sql_row_cap` below `DEFAULT_ROW_CAP` would let partial totals through.

Of the query cache: `hit_count` is a number read and written back plus one, so of two
turns that read the same count one is lost (`HitsAreCounted` says when).  An exact hit
compares no temporal intents: "sales on 2026-07-06" and "sales on 2026/07/06" have one
key and two intents, and each gets the template of whichever was taught last
(`SemanticHitsFit` speaks of semantic hits).

Of the scope: `_direct_tables` finds a table in a FROM or JOIN only if it stands there
without parentheses.  `FROM (t)` and `FROM (t JOIN u ...)` pass the guard and get no
filter from that SELECT; `RunsInScope` states the filter for what the code looks at.  And
a table outside the whitelist passes anywhere in a query in which some CTE has its name.

Of the analytics database: the docstring of `execute_readonly_sync` promises a retry if
the connection has died.  Where a SET SESSION statement meets the dead connection, its
error is swallowed, the query's statement raises pymysql's `InterfaceError`, and there is
no retry.

Of the stream: a plan in general mode without an answer ends as a message with an empty
text, which `PlainRowsAreExplained` allows.

Of the normalizer: comparison signs, decimal points and letters outside the Latin alphabet
are dropped, so "< 5" and "> 5" are one question (`KeysAreMeanings` excepts the signs).
Articles stay, so the docstring's own example, "the revenue today", gets a key of its own.
A follow-up whose rewriting fails is taught under its bare words, as in finding 7.  And a
short question about data with a greeting's word in it ("ok" among up to four words) is
answered as a greeting.

Of the answer: `format_rupees` rounds the paise apart from the rupees, so 99.999 comes out
as "₹99.100" (excepted by `Tells`).  A single value is left to the LLM's sentences, and
if it stands only in a line that `scrub_raw_row_dumps` drops, the user never sees it.  The
report cuts a conversational answer at the first line that begins with "|", and has no
table to show in its place.

## 6. Not modelled

Out of reach of these models, with the reason:

- The textual fallback of the templater, for SQL that does not parse: such SQL is
  rejected by the guard, whatever it is bound to.
- A failure of `forwarder.stop()`, which `_stop_locked` swallows: stopping is taken to
  succeed.
- Usage is taken to arrive once per stream, although `cloudflare_provider.py:261-263`
  records every chunk that has it.
- Queries in which a CTE has the name of a whitelisted table, outer joins and NOT IN
  under a filter:
  Scope compares sets of rows, and their meaning is that of SQL.
- The arithmetic of embeddings; whether two questions are near is a constant.
- The Cloudflare provider builds a client for voice input per request and never closes
  it, and the LLM providers' own clients are not closed at shutdown: `OrderlyShutdown`
  is about what `lifespan` closes.
- The report's cover, whose scope line is computed when the report is made and leaves out
  the sales-force scope: wording.

Left out for good: prompts, glossary and schema catalog (data), HTML and PDF
layout, logging, settings, password hashing and token signing (libraries),
transcription and title generation (one call without state), migrations and the other
scripts (not part of the running service).
