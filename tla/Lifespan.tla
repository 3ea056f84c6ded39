------------------------------- MODULE Lifespan --------------------------------
(***************************************************************************)
(* The process from startup to shutdown (main.py lifespan): the databases, *)
(* the embedder and the tasks that it opens, the requests that use them,   *)
(* and the order in which they are closed (tasks/sweeper.py, db/           *)
(* postgres.py, db/analytics.py, cache/embeddings.py, api/health.py).      *)
(*                                                                         *)
(* Startup has no await and is one step.  Uvicorn (external) serves        *)
(* requests in between: at a signal it accepts no more of them, waits for  *)
(* those it has and lets lifespan continue; a second signal ends the       *)
(* process without either.                                                 *)
(***************************************************************************)
EXTENDS Naturals, FiniteSets

CONSTANT Request

ASSUME LifespanAssumption == IsFiniteSet(Request)

Resource == {"engine", "analytics", "embedder"}

VARIABLES
  phase,      \* where lifespan is
  open,       \* resources that were initialised and not disposed
  sweeper,    \* the task of _sweep_loop
  cancelled,  \* the task has been told to end
  warmup,     \* the task of Embedder.warmup
  serving,    \* the requests
  forced      \* the process ended before lifespan did

lifeVars == <<phase, open, sweeper, cancelled, warmup, serving, forced>>

Phase == {"new", "up", "draining", "sweeper", "engine", "analytics", "embedder", "down"}

LifeTypeOK ==
  /\ phase \in Phase
  /\ open \subseteq Resource
  /\ sweeper \in {"none", "sleep", "sweep", "rollback", "ended"}
  /\ cancelled \in BOOLEAN
  /\ warmup \in {"none", "running", "ended"}
  /\ serving \in [Request -> {"none", "embed", "query", "commit"}]
  /\ forced \in BOOLEAN

LifeInit ==
  /\ phase = "new" /\ open = {}
  /\ sweeper = "none" /\ cancelled = FALSE /\ warmup = "none"
  /\ serving = [r \in Request |-> "none"]
  /\ forced = FALSE

-----------------------------------------------------------------------------
(* Startup.                                                                *)

\* lifespan, up to yield.
Startup ==
  /\ phase = "new"
  /\ phase' = "up"
  /\ open' = Resource
  /\ warmup' = "running" /\ sweeper' = "sleep"
  /\ UNCHANGED <<cancelled, serving, forced>>

\* A setting is unusable: what was initialised is left to the end of the process,
\* none of it is connected yet.
StartupFails ==
  /\ phase = "new"
  /\ phase' = "down" /\ forced' = TRUE
  /\ open' \in {{}, {"engine"}, {"engine", "analytics"}}
  /\ UNCHANGED <<sweeper, cancelled, warmup, serving>>

\* The warm-up ends well or ill, also because its client is closed.
WarmedUp ==
  /\ warmup = "running" /\ phase # "down"
  /\ warmup' = "ended"
  /\ UNCHANGED <<phase, open, sweeper, cancelled, serving, forced>>

-----------------------------------------------------------------------------
(* Requests: a turn, which opens its session first and commits it last; the *)
(* probes of readyz, which use the same databases, are shorter ones.       *)

Serve(r) ==
  /\ phase = "up"
  /\ serving[r] = "none"
  /\ serving' = [serving EXCEPT ![r] = "embed"]
  /\ UNCHANGED <<phase, open, sweeper, cancelled, warmup, forced>>

\* The embedding is there, then the result of the query.
Proceed(r) ==
  /\ phase # "down"
  /\ \/ serving[r] = "embed" /\ serving' = [serving EXCEPT ![r] = "query"]
     \/ serving[r] = "query" /\ serving' = [serving EXCEPT ![r] = "commit"]
  /\ UNCHANGED <<phase, open, sweeper, cancelled, warmup, forced>>

\* The client leaves: a query in its thread is waited for nevertheless.
Disconnect(r) ==
  /\ phase # "down"
  /\ serving[r] = "embed"
  /\ serving' = [serving EXCEPT ![r] = "commit"]
  /\ UNCHANGED <<phase, open, sweeper, cancelled, warmup, forced>>

\* get_session commits or rolls back.
Respond(r) ==
  /\ phase # "down"
  /\ serving[r] = "commit"
  /\ serving' = [serving EXCEPT ![r] = "none"]
  /\ UNCHANGED <<phase, open, sweeper, cancelled, warmup, forced>>

-----------------------------------------------------------------------------
(* The sweeper.                                                            *)

Sweeping(state) ==
  /\ phase # "down"
  /\ sweeper' = state
  /\ UNCHANGED <<phase, open, cancelled, warmup, serving, forced>>

\* Without an engine there is nothing to sweep.
Wake == sweeper = "sleep" /\ ~cancelled /\ "engine" \in open /\ Sweeping("sweep")

\* Done or failed.
SweepEnds == sweeper = "sweep" /\ ~cancelled /\ Sweeping("sleep")

\* Mistake: the cancellation is taken for a failed sweep.
CancelledError_Swallowed ==
  \/ sweeper = "sweep" /\ cancelled /\ Sweeping("sleep")
  \/ sweeper = "sleep" /\ cancelled /\ Sweeping("sweep")

\* Cancellation ends the sleep; a sweep is rolled back before its session is closed.
CancelledError ==
  \/ sweeper = "sweep" /\ cancelled /\ Sweeping("rollback")
  \/ sweeper \in {"sleep", "rollback"} /\ cancelled /\ Sweeping("ended")

-----------------------------------------------------------------------------
(* Shutdown.                                                               *)

Signal ==
  /\ phase = "up"
  /\ phase' = "draining"
  /\ UNCHANGED <<open, sweeper, cancelled, warmup, serving, forced>>

\* Uvicorn has no more requests; lifespan continues with stop_sweeper.
StopSweeper ==
  /\ phase = "draining"
  /\ \A r \in Request : serving[r] = "none"
  /\ phase' = "sweeper"
  /\ cancelled' = TRUE
  /\ UNCHANGED <<open, sweeper, warmup, serving, forced>>

\* Mistake: the task is cancelled and not awaited.
SweeperStopped_Unawaited ==
  /\ phase = "sweeper"
  /\ phase' = "engine"
  /\ UNCHANGED <<open, sweeper, cancelled, warmup, serving, forced>>

SweeperStopped ==
  /\ phase = "sweeper"
  /\ sweeper = "ended"
  /\ phase' = "engine"
  /\ UNCHANGED <<open, sweeper, cancelled, warmup, serving, forced>>

Dispose(resource, next) ==
  /\ phase = resource
  /\ open' = open \ {resource}
  /\ phase' = next
  /\ UNCHANGED <<sweeper, cancelled, warmup, serving, forced>>

DisposeEngine == Dispose("engine", "analytics")
DisposeAnalytics == Dispose("analytics", "embedder")
DisposeEmbedder == Dispose("embedder", "down")

\* A second signal, or a kill.
ForceExit ==
  /\ phase \notin {"new", "up", "down"}
  /\ phase' = "down" /\ forced' = TRUE
  /\ UNCHANGED <<open, sweeper, cancelled, warmup, serving>>

Teardown ==
  StopSweeper \/ SweeperStopped \/ DisposeEngine \/ DisposeAnalytics \/ DisposeEmbedder

LifeNext ==
  \/ Startup \/ StartupFails \/ WarmedUp
  \/ \E r \in Request : Serve(r) \/ Proceed(r) \/ Disconnect(r) \/ Respond(r)
  \/ Wake \/ SweepEnds \/ CancelledError
  \/ Signal \/ Teardown \/ ForceExit

\* The databases and the embeddings API answer within their timeouts, so requests
\* end; the event loop resumes a task that can go on.
LifeFairness ==
  /\ \A r \in Request : WF_lifeVars(Proceed(r)) /\ WF_lifeVars(Respond(r))
  /\ WF_lifeVars(CancelledError)
  /\ WF_lifeVars(Teardown)

LifeSpec == LifeInit /\ [][LifeNext]_lifeVars /\ LifeFairness

-----------------------------------------------------------------------------
(* Nobody uses what has been closed: no request is served and no sweep,    *)
(* nor the rollback of one that was cancelled, is under way without its    *)
(* databases, whenever the signal comes; and a process that ends in its    *)
(* own time has closed all of them (lifespan, stop_sweeper).               *)
ClosedIsNotUsed ==
  phase # "down" =>
    /\ sweeper \in {"sweep", "rollback"} => "engine" \in open
    /\ \A r \in Request : serving[r] # "none" => Resource \subseteq open

NothingIsLeftOpen == phase = "down" /\ ~forced => open = {} /\ sweeper = "ended"

OrderlyShutdown == ClosedIsNotUsed /\ NothingIsLeftOpen

(* After a signal the process ends, whatever the sweeper is doing and      *)
(* whether or not the warm-up has ended (lifespan, _sweep_loop).           *)
ShutdownEnds == phase = "draining" ~> phase = "down"
=============================================================================
