------------------------------ MODULE Analytics -------------------------------
(***************************************************************************)
(* Worker threads that query MySQL through one shared SSH tunnel and one   *)
(* shared connection pool (db/analytics.py): a connection that is found    *)
(* dead invalidates pool and tunnel, and the query is tried once more.     *)
(*                                                                         *)
(* The tunnel and the pool have a lock each, never held together; a        *)
(* critical section is one action.  A forwarder is identified by the local *)
(* port it listens on, which the operating system may hand out again once  *)
(* it is closed.  Stopping a forwarder is taken to succeed.                *)
(***************************************************************************)
EXTENDS Naturals, FiniteSets

CONSTANTS
  Worker,
  Port,            \* local ports of forwarders
  Pool,            \* PooledDB objects
  MaxConnections,  \* of one pool
  MaxFaults,       \* tunnels that die, connections that break
  Losses,          \* MySQL may drop a connection of a tunnel in good health
  None

\* Neither ports nor pool objects run out.
ASSUME AnalyticsAssumption ==
  /\ IsFiniteSet(Worker)
  /\ Port # {}
  /\ IsFiniteSet(Pool) => Cardinality(Pool) > Cardinality(Worker)
  /\ MaxConnections \in Nat \ {0}
  /\ MaxFaults \in Nat
  /\ Losses \in BOOLEAN
  /\ None \notin Port \cup Pool

VARIABLES
  forwarder,  \* the tunnel manager's forwarder, by its port
  listening,  \* forwarders that were started and not stopped
  link,       \* SSH transport behind a port: "cut" is dead but not yet noticed
  pool,       \* the current pool
  target,     \* the port each pool connects to
  used,       \* connections each pool has handed out
  job,        \* the query each worker is executing
  faults,
  closed      \* dispose_analytics has run

vars == <<forwarder, listening, link, pool, target, used, job, faults, closed>>

Stage == {"idle", "tunnel", "pool", "borrow", "query", "invalidate", "stop"}

Job == [pc : Stage, attempt : 1..2,
        port : Port \cup {None},     \* what ensure_started returned
        mine : Pool \cup {None},     \* what _ensure_pool returned
        broken : BOOLEAN,            \* the connection in use has been cut
        last : {"none", "ok", "error", "dead"},  \* end of the last query
        disturbed : BOOLEAN]         \* history: trouble during the retry

TypeOK ==
  /\ forwarder \in Port \cup {None}
  /\ listening \subseteq Port
  /\ link \in [Port -> {"up", "cut", "dead"}]
  /\ pool \in Pool \cup {None}
  /\ target \in [Pool -> Port \cup {None}]
  /\ used \in [Pool -> 0..MaxConnections]
  /\ job \in [Worker -> Job]
  /\ faults \in 0..MaxFaults
  /\ closed \in BOOLEAN

NewJob == [pc |-> "idle", attempt |-> 1, port |-> None, mine |-> None,
           broken |-> FALSE, last |-> "none", disturbed |-> FALSE]

Init ==
  /\ forwarder = None
  /\ listening = {}
  /\ link = [p \in Port |-> "dead"]
  /\ pool = None
  /\ target = [k \in Pool |-> None]
  /\ used = [k \in Pool |-> 0]
  /\ job = [w \in Worker |-> NewJob]
  /\ faults = 0
  /\ closed = FALSE

tunnel == <<forwarder, listening, link>>
pools == <<pool, target, used>>

Become(w, j) == job' = [job EXCEPT ![w] = j]

\* A connection through port p works.
Works(p) == p \in listening /\ link[p] = "up"

\* The jobs after port p has stopped working: connections through it break.
\* A retry that depends on one of the ports in hit is disturbed.
Cut(p, hit) == [v \in Worker |->
  [job[v] EXCEPT !.broken = @ \/ (job[v].pc = "query" /\ target[job[v].mine] = p),
                 !.disturbed = @ \/ (job[v].attempt = 2 /\ job[v].port \in hit)]]

Ask(w) ==
  /\ ~closed
  /\ job[w].pc = "idle"
  /\ Become(w, [NewJob EXCEPT !.pc = "tunnel"])
  /\ UNCHANGED <<tunnel, pools, faults, closed>>

\* The query raises to the caller.
Raise(w, how) == Become(w, [NewJob EXCEPT !.last = how, !.disturbed = job[w].disturbed])

\* A dead connection: invalidate and try again, once.
Dead(w) ==
  IF job[w].attempt = 1
  THEN Become(w, [NewJob EXCEPT !.pc = "invalidate"])
  ELSE Raise(w, "dead")

-----------------------------------------------------------------------------
(* The tunnel.                                                             *)
IsAlive == forwarder # None /\ link[forwarder] # "dead"

\* Stopping the forwarder closes its port and its transport.
Stop ==
  /\ forwarder' = None
  /\ listening' = listening \ {forwarder}
  /\ link' = [p \in Port |-> IF p = forwarder THEN "dead" ELSE link[p]]

\* Mistake: the dead forwarder is replaced without being stopped.
Restart_Leaks(p) ==
  /\ forwarder' = p
  /\ listening' = listening \cup {p}
  /\ link' = [link EXCEPT ![p] = "up"]

Restart(p) ==
  /\ forwarder' = p
  /\ listening' = (listening \ {forwarder}) \cup {p}
  /\ link' = [link EXCEPT ![p] = "up"]

EnsureStarted(w) ==
  /\ job[w].pc = "tunnel"
  /\ \/ /\ IsAlive
        /\ Become(w, [job[w] EXCEPT !.pc = "pool", !.port = forwarder])
        /\ UNCHANGED tunnel
     \/ /\ ~IsAlive
        /\ \E p \in Port \ (listening \ {forwarder}) :
             /\ Restart(p)
             /\ Become(w, [job[w] EXCEPT !.pc = "pool", !.port = p])
  /\ UNCHANGED <<pools, faults, closed>>

\* The SSH host does not answer: no forwarder, and no retry.
StartFails(w) ==
  /\ job[w].pc = "tunnel"
  /\ ~IsAlive
  /\ faults < MaxFaults
  /\ faults' = faults + 1
  /\ Stop
  /\ Raise(w, "error")
  /\ UNCHANGED <<pools, closed>>

\* Mistake: the pool is dropped, the tunnel is left as it is.
StopTunnel_Skipped(w) ==
  /\ job[w].pc = "stop"
  /\ Become(w, [job[w] EXCEPT !.pc = "tunnel", !.attempt = 2])
  /\ UNCHANGED <<tunnel, pools, faults, closed>>

\* _tunnel.stop() of _invalidate_pool: whatever tunnel there is by now.
StopTunnel(w) ==
  /\ job[w].pc = "stop"
  /\ job' = [Cut(forwarder, {forwarder} \ {None}) EXCEPT
                ![w] = [job[w] EXCEPT !.pc = "tunnel", !.attempt = 2]]
  /\ Stop
  /\ UNCHANGED <<pools, faults, closed>>

-----------------------------------------------------------------------------
(* The pool.                                                               *)

\* Pools no variable refers to any longer.
Unused == {k \in Pool : k # pool /\ \A v \in Worker : job[v].mine # k}

\* Mistake: the pool is rebuilt only after an invalidation.
Fits_AnyTarget(p) == pool # None

Fits(p) == pool # None /\ target[pool] = p

EnsurePool(w) ==
  /\ job[w].pc = "pool"
  /\ \/ /\ Fits(job[w].port)
        /\ Become(w, [job[w] EXCEPT !.pc = "borrow", !.mine = pool])
        /\ UNCHANGED pools
     \/ /\ ~Fits(job[w].port)
        /\ \E k \in Unused :
             /\ pool' = k
             /\ target' = [target EXCEPT ![k] = job[w].port]
             /\ used' = [used EXCEPT ![k] = 0]
             /\ Become(w, [job[w] EXCEPT !.pc = "borrow", !.mine = k])
  /\ UNCHANGED <<tunnel, faults, closed>>

\* A worker waits while all connections of its pool are handed out.
HasRoom(k) == used[k] < MaxConnections

Borrow(w) ==
  /\ job[w].pc = "borrow"
  /\ HasRoom(job[w].mine)
  /\ Works(target[job[w].mine])
  /\ used' = [used EXCEPT ![job[w].mine] = @ + 1]
  /\ Become(w, [job[w] EXCEPT !.pc = "query", !.broken = FALSE])
  /\ UNCHANGED <<tunnel, pool, target, faults, closed>>

\* A connection that the pool has kept is handed out although it is dead and
\* cannot be reopened.  Which pools have kept one is left open.
BorrowDead(w) ==
  /\ job[w].pc = "borrow"
  /\ HasRoom(job[w].mine)
  /\ ~Works(target[job[w].mine])
  /\ used' = [used EXCEPT ![job[w].mine] = @ + 1]
  /\ Become(w, [job[w] EXCEPT !.pc = "query", !.broken = TRUE])
  /\ UNCHANGED <<tunnel, pool, target, faults, closed>>

\* Connecting fails before the pool counts the connection.
ConnectFails(w) ==
  /\ job[w].pc = "borrow"
  /\ HasRoom(job[w].mine)
  /\ ~Works(target[job[w].mine])
  /\ Dead(w)
  /\ UNCHANGED <<tunnel, pools, faults, closed>>

\* Mistake: a query that raises keeps its connection.
Return_OnlyOnSuccess(w, how) ==
  IF how = "ok" THEN used' = [used EXCEPT ![job[w].mine] = @ - 1] ELSE used' = used

\* conn.close() in the finally clause.
Return(w, how) == used' = [used EXCEPT ![job[w].mine] = @ - 1]

\* The statement returns rows, or raises a timeout or an SQL error.
QueryEnds(w) ==
  /\ job[w].pc = "query"
  /\ ~job[w].broken
  /\ \E how \in {"ok", "error"} : Return(w, how) /\ Raise(w, how)
  /\ UNCHANGED <<tunnel, pool, target, faults, closed>>

\* A dead connection that is not taken for one: the exception goes to the caller.
GivesUp(w) == Raise(w, IF job[w].attempt = 1 THEN "error" ELSE "dead")

\* The query's own statement meets the dead connection, an OperationalError
\* (2006, 2013); or a SET SESSION statement does, its error is swallowed, and the
\* query's statement raises InterfaceError, which nobody takes for a dead connection.
QueryDies(w) ==
  /\ job[w].pc = "query"
  /\ job[w].broken
  /\ Return(w, "dead")
  /\ Dead(w) \/ GivesUp(w)
  /\ UNCHANGED <<tunnel, pool, target, faults, closed>>

DropPool(w) ==
  /\ job[w].pc = "invalidate"
  /\ pool' = None
  /\ Become(w, [job[w] EXCEPT !.pc = "stop"])
  /\ UNCHANGED <<tunnel, target, used, faults, closed>>

-----------------------------------------------------------------------------
(* The environment.                                                        *)

TunnelDies(p) ==
  /\ p \in listening
  /\ link[p] = "up"
  /\ faults < MaxFaults
  /\ faults' = faults + 1
  /\ \E how \in {"cut", "dead"} : link' = [link EXCEPT ![p] = how]
  /\ job' = Cut(p, {p, None})
  /\ UNCHANGED <<forwarder, listening, pools, closed>>

\* The keepalive notices.
NoticeDeath(p) ==
  /\ link[p] = "cut"
  /\ link' = [link EXCEPT ![p] = "dead"]
  /\ UNCHANGED <<forwarder, listening, pools, job, faults, closed>>

\* MySQL drops one connection (2006, 2013), with the tunnel in good health.
ConnectionLost(w) ==
  /\ Losses
  /\ job[w].pc = "query"
  /\ ~job[w].broken
  /\ faults < MaxFaults
  /\ faults' = faults + 1
  /\ Become(w, [job[w] EXCEPT !.broken = TRUE, !.disturbed = @ \/ job[w].attempt = 2])
  /\ UNCHANGED <<tunnel, pools, closed>>

\* dispose_analytics, after the server has drained its requests.
Close ==
  /\ ~closed
  /\ \A w \in Worker : job[w].pc = "idle"
  /\ closed' = TRUE
  /\ pool' = None
  /\ Stop
  /\ UNCHANGED <<target, used, job, faults>>

Stopped == closed /\ UNCHANGED vars

Step(w) ==
  \/ EnsureStarted(w) \/ StartFails(w) \/ EnsurePool(w)
  \/ Borrow(w) \/ BorrowDead(w) \/ ConnectFails(w)
  \/ QueryEnds(w) \/ QueryDies(w)
  \/ DropPool(w) \/ StopTunnel(w)

Next ==
  \/ \E w \in Worker : Ask(w) \/ Step(w) \/ ConnectionLost(w)
  \/ \E p \in Port : TunnelDies(p) \/ NoticeDeath(p)
  \/ Close
  \/ Stopped

Spec == Init /\ [][Next]_vars

\* The threads run; MySQL ends a statement at MAX_EXECUTION_TIME, a cut
\* tunnel's sockets at the keepalive; a worker that waits for a connection
\* gets one if connections keep being returned.
QueryFairness ==
  \A w \in Worker : WF_vars(Step(w)) /\ SF_vars(Borrow(w) \/ BorrowDead(w) \/ ConnectFails(w))

FairSpec == Spec /\ QueryFairness

-----------------------------------------------------------------------------
Users(k) == {w \in Worker : job[w].pc = "query" /\ job[w].mine = k}

NoTunnelLeak ==
  /\ listening \subseteq {forwarder}
  /\ closed => listening = {}

ConnectionsReturned == \A k \in Pool : used[k] = Cardinality(Users(k))

(* Neither tunnels nor connections are leaked, whatever the workers replace *)
(* under each other.  Every forwarder that still listens is the manager's   *)
(* own, so that shutting down leaves no tunnel open (ensure_started, close);*)
(* a pool counts as handed out exactly the connections that workers are     *)
(* using, through errors, retries and pools replaced under their users      *)
(* (AnalyticsDB._execute_once).                                             *)
NothingLeaks == NoTunnelLeak /\ ConnectionsReturned

(* A worker always uses a pool that connects to the tunnel it was given,   *)
(* although other workers replace tunnel and pool between the two critical *)
(* sections (AnalyticsDB._ensure_pool).                                    *)
PoolFitsTunnel ==
  \A w \in Worker : job[w].mine # None => target[job[w].mine] = job[w].port

(* The retry starts from a tunnel and a pool that work: it fails on a dead  *)
(* connection only if, during the retry, the tunnel or the connection       *)
(* failed once more or another worker stopped the tunnel                    *)
(* (AnalyticsDB.execute_readonly_sync).  Not every query whose connection   *)
(* dies is tried again: see QueryDies.                                      *)
RetryHeals ==
  \A w \in Worker : job[w].last = "dead" => job[w].disturbed

(* Every query ends, with rows or with an exception, also when its worker  *)
(* has to wait for a connection and tunnels keep being replaced            *)
(* (AnalyticsDB.execute_readonly_sync).                                    *)
EveryQueryEnds ==
  \A w \in Worker : job[w].pc # "idle" ~> job[w].pc = "idle"

(* The module's docstring: the tunnel is "reused while alive and restarted *)
(* if it dies".  No worker stops a tunnel that works, unless it has lost a *)
(* connection for another reason (AnalyticsDB._invalidate_pool).           *)
ReusedWhileAlive ==
  [][\A p \in Port : Works(p) /\ ~Losses /\ ~closed' => p \in listening']_vars
=============================================================================
