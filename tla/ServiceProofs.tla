---------------------------- MODULE ServiceProofs -----------------------------
(* Proofs about what a running process does besides the chat turn itself:  *)
(* Analytics, for any number of threads, ports and faults, ChatStream, and *)
(* Lifespan, for any number of requests.                                   *)
EXTENDS Analytics, ChatStream, Lifespan, FiniteSetTheorems, TLAPS

-----------------------------------------------------------------------------
(* Analytics.                                                              *)

(* The inductive invariant.                                                *)

TunnelOK ==
  /\ listening = {forwarder} \ {None}
  /\ closed => forwarder = None /\ \A w \in Worker : job[w].pc = "idle"

\* What a worker remembers at each stage; tg are the targets of the pools.
JobOK(j, tg) ==
  /\ j.pc \in {"borrow", "query"} <=> j.mine # None
  /\ j.pc \in {"pool", "borrow", "query"} <=> j.port # None
  /\ j.attempt = 2 => j.pc \in {"tunnel", "pool", "borrow", "query"}
  /\ j.mine # None => tg[j.mine] = j.port

\* An undisturbed retry finds a tunnel that works, and keeps it.
RetryOK(j, fw, lst, lnk) ==
  /\ j.last = "dead" => j.disturbed
  /\ j.attempt = 2 /\ ~j.disturbed =>
       /\ j.pc = "tunnel" => fw = None \/ lnk[fw] = "up"
       /\ j.pc # "tunnel" => j.port \in lst /\ lnk[j.port] = "up"
       /\ ~(j.pc = "query" /\ j.broken)

Inv ==
  /\ TypeOK
  /\ TunnelOK
  /\ ConnectionsReturned
  /\ \A w \in Worker :
       JobOK(job[w], target) /\ RetryOK(job[w], forwarder, listening, link)

\* The part of the type invariant that is not about the jobs.
Typed ==
  /\ forwarder \in Port \cup {None}
  /\ link \in [Port -> {"up", "cut", "dead"}]
  /\ pool \in Pool \cup {None}
  /\ target \in [Pool -> Port \cup {None}]
  /\ used \in [Pool -> 0..MaxConnections]
  /\ faults \in 0..MaxFaults
  /\ closed \in BOOLEAN

LEMMA InitInv == Init => Inv
<1> SUFFICES ASSUME Init PROVE Inv
  OBVIOUS
<1>1. NewJob \in Job
  BY DEF NewJob, Job, Stage
<1>2. TypeOK
  <2>1. /\ job \in [Worker -> Job]
        /\ link \in [Port -> {"up", "cut", "dead"}]
    BY <1>1 DEF Init
  <2>2. /\ target \in [Pool -> Port \cup {None}]
        /\ used \in [Pool -> 0..MaxConnections]
        /\ faults \in 0..MaxFaults
    BY AnalyticsAssumption DEF Init
  <2>3. QED
    BY <2>1, <2>2 DEF Init, TypeOK
<1>3. ConnectionsReturned
  <2>1. \A k \in Pool : Users(k) = {}
    BY DEF Init, NewJob, Users
  <2>2. QED
    BY <2>1, FS_EmptySet DEF Init, ConnectionsReturned
<1>4. QED
  BY <1>2, <1>3 DEF Init, NewJob, Inv, TunnelOK, JobOK, RetryOK

LEMMA NewJobTyped == NewJob \in Job
  BY DEF NewJob, Job, Stage

LEMMA Known ==
  ASSUME Inv
  PROVE  /\ Typed /\ TunnelOK /\ ConnectionsReturned
         /\ listening \subseteq Port
         /\ job \in [Worker -> Job]
         /\ None \notin Port \cup Pool
         /\ \A w \in Worker :
              /\ job[w] \in Job
              /\ JobOK(job[w], target)
              /\ RetryOK(job[w], forwarder, listening, link)
  BY AnalyticsAssumption DEF Inv, TypeOK, Typed

\* A step that gives one worker the job j.
LEMMA OneJob ==
  ASSUME Inv, NEW w \in Worker, NEW j \in Job, Become(w, j),
         Typed', listening' = {forwarder'} \ {None}, ~closed', ConnectionsReturned',
         JobOK(j, target'), RetryOK(j, forwarder', listening', link'),
         \A v \in Worker \ {w} :
           JobOK(job[v], target') /\ RetryOK(job[v], forwarder', listening', link')
  PROVE  Inv'
<1>1. job' \in [Worker -> Job] /\ job'[w] = j
      /\ \A v \in Worker \ {w} : job'[v] = job[v]
  BY Known DEF Become
<1>2. listening' \subseteq Port
  BY DEF Typed
<1>3. QED
  BY <1>1, <1>2 DEF Inv, TypeOK, Typed, TunnelOK

\* As long as a worker works, the connector is open.
LEMMA ConnectorOpen ==
  ASSUME Inv, NEW w \in Worker, job[w].pc # "idle"
  PROVE  ~closed
  BY Known DEF TunnelOK

\* Steps that neither hand out nor return a connection.
LEMMA UsersKept ==
  ASSUME ConnectionsReturned, used' = used,
         \A v \in Worker : /\ job'[v].pc = "query" <=> job[v].pc = "query"
                           /\ job[v].pc = "query" => job'[v].mine = job[v].mine
  PROVE  ConnectionsReturned'
<1>1. \A k \in Pool : Users(k)' = Users(k)
  BY DEF Users
<1>2. QED
  BY <1>1 DEF ConnectionsReturned

LEMMA OneUserKept ==
  ASSUME Inv, NEW w \in Worker, NEW j \in Job, Become(w, j), used' = used,
         job[w].pc # "query", j.pc # "query"
  PROVE  ConnectionsReturned'
<1>1. job'[w] = j /\ \A v \in Worker \ {w} : job'[v] = job[v]
  BY Known DEF Become
<1>2. QED
  BY <1>1, UsersKept, Known

\* Handing out and returning one connection.
LEMMA UserAdded ==
  ASSUME Inv, NEW w \in Worker, NEW j \in Job, Become(w, j),
         job[w].pc = "borrow", j.pc = "query", j.mine = job[w].mine,
         used' = [used EXCEPT ![job[w].mine] = @ + 1],
         used[job[w].mine] < MaxConnections
  PROVE  ConnectionsReturned' /\ used' \in [Pool -> 0..MaxConnections]
<1> DEFINE k == job[w].mine
<1>1. /\ job[w] \in Job /\ k \in Pool /\ job'[w] = j
      /\ \A v \in Worker \ {w} : job'[v] = job[v]
  BY Known DEF Become, JobOK, Job
<1>2. w \notin Users(k) /\ IsFiniteSet(Users(k))
  BY AnalyticsAssumption, FS_Subset DEF Users
<1>3. \A i \in Pool : Users(i)' = IF i = k THEN Users(k) \cup {w} ELSE Users(i)
  BY <1>1 DEF Users
<1>4. Cardinality(Users(k) \cup {w}) = Cardinality(Users(k)) + 1
  BY <1>2, FS_AddElement
<1>5. used' \in [Pool -> 0..MaxConnections]
  BY <1>1, Known, AnalyticsAssumption DEF Typed
<1>6. QED
  BY <1>1, <1>3, <1>4, <1>5, Known DEF ConnectionsReturned, Typed

LEMMA UserGone ==
  ASSUME Inv, NEW w \in Worker, NEW j \in Job, Become(w, j),
         job[w].pc = "query", j.pc # "query",
         used' = [used EXCEPT ![job[w].mine] = @ - 1]
  PROVE  ConnectionsReturned' /\ used' \in [Pool -> 0..MaxConnections]
<1> DEFINE k == job[w].mine
<1>1. /\ job[w] \in Job /\ k \in Pool /\ job'[w] = j
      /\ \A v \in Worker \ {w} : job'[v] = job[v]
  BY Known DEF Become, JobOK, Job
<1>2. w \in Users(k) /\ IsFiniteSet(Users(k))
  BY AnalyticsAssumption, FS_Subset DEF Users
<1>3. \A i \in Pool : Users(i)' = IF i = k THEN Users(k) \ {w} ELSE Users(i)
  BY <1>1 DEF Users
<1>4. /\ Cardinality(Users(k) \ {w}) = Cardinality(Users(k)) - 1
      /\ Cardinality(Users(k) \ {w}) \in Nat
  BY <1>2, FS_RemoveElement, FS_CardinalityType
<1>5. used[k] \in 1..MaxConnections
  BY <1>1, <1>4, Known, AnalyticsAssumption DEF ConnectionsReturned, Typed
<1>6. used' \in [Pool -> 0..MaxConnections]
  BY <1>1, <1>5, Known, AnalyticsAssumption DEF Typed
<1>7. QED
  BY <1>1, <1>3, <1>4, <1>6, Known DEF ConnectionsReturned, Typed

\* A new pool has no users.
LEMMA NoUsers ==
  ASSUME Inv, NEW w \in Worker, NEW j \in Job, Become(w, j),
         job[w].pc # "query", j.pc # "query",
         NEW k \in Unused, used' = [used EXCEPT ![k] = 0]
  PROVE  ConnectionsReturned' /\ used' \in [Pool -> 0..MaxConnections]
<1>1. /\ k \in Pool /\ job'[w] = j
      /\ \A v \in Worker \ {w} : job'[v] = job[v]
      /\ \A v \in Worker : job[v].mine # k
  BY Known DEF Become, Unused
<1>2. \A i \in Pool : Users(i)' = IF i = k THEN {} ELSE Users(i)
  BY <1>1 DEF Users
<1>3. used' \in [Pool -> 0..MaxConnections]
  BY <1>1, Known, AnalyticsAssumption DEF Typed
<1>4. QED
  BY <1>1, <1>2, <1>3, FS_EmptySet, Known DEF ConnectionsReturned, Typed

-----------------------------------------------------------------------------
(* Every step keeps the invariant.                                         *)

\* A new query.
LEMMA AskKeeps ==
  ASSUME Inv, NEW w \in Worker, Ask(w)
  PROVE  Inv'
<1>1. /\ job[w] \in Job /\ JobOK(job[w], target)
      /\ RetryOK(job[w], forwarder, listening, link)
      /\ job[w].pc = "idle" /\ ~closed
  BY Known DEF Ask
<1>2. UNCHANGED <<forwarder, listening, link, pool, target, used, faults, closed>>
  BY <1>1, Known DEF Ask, tunnel, pools
<1>3. /\ listening' = {forwarder'} \ {None} /\ ~closed'
      /\ \A v \in Worker \ {w} : /\ JobOK(job[v], target')
                                 /\ RetryOK(job[v], forwarder', listening', link')
  BY <1>1, <1>2, Known DEF Typed, TunnelOK
<1>4. ASSUME Become(w, [NewJob EXCEPT !.pc = "tunnel"])
      PROVE  Inv'
  <2> DEFINE j == [NewJob EXCEPT !.pc = "tunnel"]
  <2>1. j \in Job
    BY <1>1, <1>2, <1>4, NewJobTyped, Known DEF Job, Stage, Typed
  <2>2. /\ j.pc = "tunnel"
        /\ j.attempt = 1
        /\ j.port = None
        /\ j.mine = None
        /\ j.broken <=> (FALSE)
        /\ j.last = "none"
        /\ j.disturbed <=> (FALSE)
    BY <1>1 DEF NewJob, Job
  <2>3. JobOK(j, target')
    BY <1>1, <1>2, <1>4, <2>2, Known DEF JobOK, Typed, Job
  <2>4. RetryOK(j, forwarder', listening', link')
    BY <1>1, <1>2, <1>4, <2>2, Known DEF RetryOK, JobOK, TunnelOK, Typed, Job
  <2>5. ConnectionsReturned' /\ Typed'
    BY <1>1, <1>2, <1>4, <2>1, <2>2, OneUserKept, Known DEF Typed
  <2>6. Become(w, j)
    BY <1>4
  <2> HIDE DEF j
  <2>7. QED
    BY <1>3, <2>1, <2>3, <2>4, <2>5, <2>6, OneJob
<1>5. QED
  BY <1>4, Known DEF Ask, Ask

\* A worker gets the tunnel: the one there is, or a new one that works.
LEMMA EnsureStartedKeeps ==
  ASSUME Inv, NEW w \in Worker, EnsureStarted(w)
  PROVE  Inv'
<1>1. /\ job[w] \in Job /\ JobOK(job[w], target)
      /\ RetryOK(job[w], forwarder, listening, link)
      /\ job[w].pc = "tunnel" /\ ~closed
  BY Known, ConnectorOpen DEF EnsureStarted
<1>2. UNCHANGED <<pool, target, used, faults, closed>>
  BY <1>1, Known DEF EnsureStarted, pools
<1>4. ASSUME IsAlive, UNCHANGED tunnel, Become(w, [job[w] EXCEPT !.pc = "pool", !.port = forwarder])
      PROVE  Inv'
  <2> DEFINE j == [job[w] EXCEPT !.pc = "pool", !.port = forwarder]
  <2>0. /\ listening' = {forwarder'} \ {None} /\ ~closed'
        /\ \A v \in Worker \ {w} : /\ JobOK(job[v], target')
                                   /\ RetryOK(job[v], forwarder', listening', link')
    BY <1>1, <1>2, <1>4, Known, AnalyticsAssumption DEF tunnel, TunnelOK
  <2>1. j \in Job
    BY <1>1, <1>2, <1>4, NewJobTyped, Known DEF Job, Stage, Typed, tunnel, IsAlive
  <2>2. /\ j.pc = "pool"
        /\ j.attempt = job[w].attempt
        /\ j.port = forwarder
        /\ j.mine = job[w].mine
        /\ j.broken <=> (job[w].broken)
        /\ j.last = job[w].last
        /\ j.disturbed <=> (job[w].disturbed)
    BY <1>1 DEF Job
  <2>3. JobOK(j, target')
    BY <1>1, <1>2, <1>4, <2>2, Known DEF JobOK, Typed, Job, tunnel, IsAlive
  <2>4. RetryOK(j, forwarder', listening', link')
    BY <1>1, <1>2, <1>4, <2>2, Known DEF RetryOK, JobOK, TunnelOK, Typed, Job, tunnel, IsAlive
  <2>5. ConnectionsReturned' /\ Typed'
    BY <1>1, <1>2, <1>4, <2>1, <2>2, OneUserKept, Known DEF Typed, tunnel, IsAlive
  <2>6. Become(w, j)
    BY <1>4
  <2> HIDE DEF j
  <2>7. QED
    BY <2>0, <2>1, <2>3, <2>4, <2>5, <2>6, OneJob
<1>5. ASSUME NEW p \in Port, ~IsAlive, Restart(p), Become(w, [job[w] EXCEPT !.pc = "pool", !.port = p])
      PROVE  Inv'
  <2> DEFINE j == [job[w] EXCEPT !.pc = "pool", !.port = p]
  <2>0. /\ listening' = {forwarder'} \ {None} /\ ~closed'
        /\ \A v \in Worker \ {w} : /\ JobOK(job[v], target')
                                   /\ RetryOK(job[v], forwarder', listening', link')
    BY <1>1, <1>2, <1>5, Known, AnalyticsAssumption DEF Restart, IsAlive, TunnelOK, RetryOK, Typed, Job
  <2>1. j \in Job
    BY <1>1, <1>2, <1>5, NewJobTyped, Known DEF Job, Stage, Typed, Restart
  <2>2. /\ j.pc = "pool"
        /\ j.attempt = job[w].attempt
        /\ j.port = p
        /\ j.mine = job[w].mine
        /\ j.broken <=> (job[w].broken)
        /\ j.last = job[w].last
        /\ j.disturbed <=> (job[w].disturbed)
    BY <1>1 DEF Job
  <2>3. JobOK(j, target')
    BY <1>1, <1>2, <1>5, <2>2, Known DEF JobOK, Typed, Job, Restart
  <2>4. RetryOK(j, forwarder', listening', link')
    BY <1>1, <1>2, <1>5, <2>2, Known DEF RetryOK, JobOK, TunnelOK, Typed, Job, Restart
  <2>5. ConnectionsReturned' /\ Typed'
    BY <1>1, <1>2, <1>5, <2>1, <2>2, OneUserKept, Known DEF Typed, Restart
  <2>6. Become(w, j)
    BY <1>5
  <2> HIDE DEF j
  <2>7. QED
    BY <2>0, <2>1, <2>3, <2>4, <2>5, <2>6, OneJob
<1>6. QED
  BY <1>4, <1>5, Known DEF EnsureStarted

\* No tunnel can be started: there is none.
LEMMA StartFailsKeeps ==
  ASSUME Inv, NEW w \in Worker, StartFails(w)
  PROVE  Inv'
<1>1. /\ job[w] \in Job /\ JobOK(job[w], target)
      /\ RetryOK(job[w], forwarder, listening, link)
      /\ job[w].pc = "tunnel" /\ ~closed
  BY Known, ConnectorOpen DEF StartFails
<1>2. UNCHANGED <<pool, target, used, closed>> /\ faults' \in 0..MaxFaults
  BY <1>1, Known, AnalyticsAssumption DEF StartFails, pools, Typed
<1>4. ASSUME ~IsAlive, Stop, Become(w, [NewJob EXCEPT !.last = "error", !.disturbed = job[w].disturbed])
      PROVE  Inv'
  <2> DEFINE j == [NewJob EXCEPT !.last = "error", !.disturbed = job[w].disturbed]
  <2>0. /\ listening' = {forwarder'} \ {None} /\ ~closed'
        /\ \A v \in Worker \ {w} : /\ JobOK(job[v], target')
                                   /\ RetryOK(job[v], forwarder', listening', link')
    BY <1>1, <1>2, <1>4, Known, AnalyticsAssumption DEF Stop, TunnelOK, RetryOK, IsAlive, Typed, Job
  <2>1. j \in Job
    BY <1>1, <1>2, <1>4, NewJobTyped, Known DEF Job, Stage, Typed, Stop
  <2>2. /\ j.pc = "idle"
        /\ j.attempt = 1
        /\ j.port = None
        /\ j.mine = None
        /\ j.broken <=> (FALSE)
        /\ j.last = "error"
        /\ j.disturbed <=> (job[w].disturbed)
    BY <1>1, NewJobTyped DEF NewJob, Job
  <2>3. JobOK(j, target')
    BY <1>1, <1>2, <1>4, <2>2, Known DEF JobOK, Typed, Job, Stop
  <2>4. RetryOK(j, forwarder', listening', link')
    BY <1>1, <1>2, <1>4, <2>2, Known DEF RetryOK, JobOK, TunnelOK, Typed, Job, Stop
  <2>5. ConnectionsReturned' /\ Typed'
    BY <1>1, <1>2, <1>4, <2>1, <2>2, OneUserKept, Known DEF Typed, Stop
  <2>6. Become(w, j)
    BY <1>4
  <2> HIDE DEF j
  <2>7. QED
    BY <2>0, <2>1, <2>3, <2>4, <2>5, <2>6, OneJob
<1>5. QED
  BY <1>4, Known DEF StartFails, Raise

\* A worker gets a pool for its tunnel: the current one or a new one.
LEMMA EnsurePoolKeeps ==
  ASSUME Inv, NEW w \in Worker, EnsurePool(w)
  PROVE  Inv'
<1>1. /\ job[w] \in Job /\ JobOK(job[w], target)
      /\ RetryOK(job[w], forwarder, listening, link)
      /\ job[w].pc = "pool" /\ ~closed
  BY Known, ConnectorOpen DEF EnsurePool
<1>2. UNCHANGED <<forwarder, listening, link, faults, closed>>
  BY <1>1, Known DEF EnsurePool, tunnel
<1>4. ASSUME Fits(job[w].port), UNCHANGED pools, Become(w, [job[w] EXCEPT !.pc = "borrow", !.mine = pool])
      PROVE  Inv'
  <2> DEFINE j == [job[w] EXCEPT !.pc = "borrow", !.mine = pool]
  <2>0. /\ listening' = {forwarder'} \ {None} /\ ~closed'
        /\ \A v \in Worker \ {w} : /\ JobOK(job[v], target')
                                   /\ RetryOK(job[v], forwarder', listening', link')
    BY <1>1, <1>2, <1>4, Known, AnalyticsAssumption DEF pools, TunnelOK
  <2>1. j \in Job
    BY <1>1, <1>2, <1>4, NewJobTyped, Known DEF Job, Stage, Typed, pools, Fits
  <2>2. /\ j.pc = "borrow"
        /\ j.attempt = job[w].attempt
        /\ j.port = job[w].port
        /\ j.mine = pool
        /\ j.broken <=> (job[w].broken)
        /\ j.last = job[w].last
        /\ j.disturbed <=> (job[w].disturbed)
    BY <1>1 DEF Job
  <2>3. JobOK(j, target')
    BY <1>1, <1>2, <1>4, <2>2, Known DEF JobOK, Typed, Job, pools, Fits
  <2>4. RetryOK(j, forwarder', listening', link')
    BY <1>1, <1>2, <1>4, <2>2, Known DEF RetryOK, JobOK, TunnelOK, Typed, Job, pools, Fits
  <2>5. ConnectionsReturned' /\ Typed'
    BY <1>1, <1>2, <1>4, <2>1, <2>2, OneUserKept, Known DEF Typed, pools, Fits
  <2>6. Become(w, j)
    BY <1>4
  <2> HIDE DEF j
  <2>7. QED
    BY <2>0, <2>1, <2>3, <2>4, <2>5, <2>6, OneJob
<1>5. ASSUME NEW k \in Unused, pool' = k, target' = [target EXCEPT ![k] = job[w].port], used' = [used EXCEPT ![k] = 0], Become(w, [job[w] EXCEPT !.pc = "borrow", !.mine = k])
      PROVE  Inv'
  <2> DEFINE j == [job[w] EXCEPT !.pc = "borrow", !.mine = k]
  <2>0. /\ listening' = {forwarder'} \ {None} /\ ~closed'
        /\ \A v \in Worker \ {w} : /\ JobOK(job[v], target')
                                   /\ RetryOK(job[v], forwarder', listening', link')
    BY <1>1, <1>2, <1>5, Known, AnalyticsAssumption DEF Unused, TunnelOK, JobOK, Typed, Job
  <2>1. j \in Job
    BY <1>1, <1>2, <1>5, NewJobTyped, Known DEF Job, Stage, Typed, Unused
  <2>2. /\ j.pc = "borrow"
        /\ j.attempt = job[w].attempt
        /\ j.port = job[w].port
        /\ j.mine = k
        /\ j.broken <=> (job[w].broken)
        /\ j.last = job[w].last
        /\ j.disturbed <=> (job[w].disturbed)
    BY <1>1 DEF Job
  <2>3. JobOK(j, target')
    BY <1>1, <1>2, <1>5, <2>2, Known DEF JobOK, Typed, Job, Unused
  <2>4. RetryOK(j, forwarder', listening', link')
    BY <1>1, <1>2, <1>5, <2>2, Known DEF RetryOK, JobOK, TunnelOK, Typed, Job, Unused
  <2>5. ConnectionsReturned' /\ Typed'
    BY <1>1, <1>2, <1>5, <2>1, <2>2, NoUsers, Known, AnalyticsAssumption DEF Typed, Unused, Job
  <2>6. Become(w, j)
    BY <1>5
  <2> HIDE DEF j
  <2>7. QED
    BY <2>0, <2>1, <2>3, <2>4, <2>5, <2>6, OneJob
<1>6. QED
  BY <1>4, <1>5, Known DEF EnsurePool

\* A worker gets a connection.
LEMMA BorrowKeeps ==
  ASSUME Inv, NEW w \in Worker, Borrow(w)
  PROVE  Inv'
<1>1. /\ job[w] \in Job /\ JobOK(job[w], target)
      /\ RetryOK(job[w], forwarder, listening, link)
      /\ job[w].pc = "borrow" /\ ~closed
  BY Known, ConnectorOpen DEF Borrow
<1>2. /\ UNCHANGED <<forwarder, listening, link, pool, target, faults, closed>>
      /\ used' = [used EXCEPT ![job[w].mine] = @ + 1]
      /\ used[job[w].mine] < MaxConnections
      /\ Works(target[job[w].mine])
  BY <1>1, Known DEF Borrow, tunnel, HasRoom
<1>3. /\ listening' = {forwarder'} \ {None} /\ ~closed'
      /\ \A v \in Worker \ {w} : /\ JobOK(job[v], target')
                                 /\ RetryOK(job[v], forwarder', listening', link')
  BY <1>1, <1>2, Known DEF TunnelOK
<1>4. ASSUME Become(w, [job[w] EXCEPT !.pc = "query", !.broken = FALSE])
      PROVE  Inv'
  <2> DEFINE j == [job[w] EXCEPT !.pc = "query", !.broken = FALSE]
  <2>1. j \in Job
    BY <1>1, <1>2, <1>4, NewJobTyped, Known DEF Job, Stage, Typed, Works
  <2>2. /\ j.pc = "query"
        /\ j.attempt = job[w].attempt
        /\ j.port = job[w].port
        /\ j.mine = job[w].mine
        /\ j.broken <=> (FALSE)
        /\ j.last = job[w].last
        /\ j.disturbed <=> (job[w].disturbed)
    BY <1>1 DEF Job
  <2>3. JobOK(j, target')
    BY <1>1, <1>2, <1>4, <2>2, Known DEF JobOK, Typed, Job, Works
  <2>4. RetryOK(j, forwarder', listening', link')
    BY <1>1, <1>2, <1>4, <2>2, Known DEF RetryOK, JobOK, TunnelOK, Typed, Job, Works
  <2>5. ConnectionsReturned' /\ Typed'
    BY <1>1, <1>2, <1>4, <2>1, <2>2, UserAdded, Known DEF Typed
  <2>6. Become(w, j)
    BY <1>4
  <2> HIDE DEF j
  <2>7. QED
    BY <1>3, <2>1, <2>3, <2>4, <2>5, <2>6, OneJob
<1>5. QED
  BY <1>4, Known DEF Borrow

\* A worker gets a connection that is dead already: its retry has been disturbed.
LEMMA BorrowDeadKeeps ==
  ASSUME Inv, NEW w \in Worker, BorrowDead(w)
  PROVE  Inv'
<1>1. /\ job[w] \in Job /\ JobOK(job[w], target)
      /\ RetryOK(job[w], forwarder, listening, link)
      /\ job[w].pc = "borrow" /\ ~closed
  BY Known, ConnectorOpen DEF BorrowDead
<1>2. /\ UNCHANGED <<forwarder, listening, link, pool, target, faults, closed>>
      /\ used' = [used EXCEPT ![job[w].mine] = @ + 1]
      /\ used[job[w].mine] < MaxConnections
      /\ ~Works(target[job[w].mine])
  BY <1>1, Known DEF BorrowDead, tunnel, HasRoom
<1>3. /\ listening' = {forwarder'} \ {None} /\ ~closed'
      /\ \A v \in Worker \ {w} : /\ JobOK(job[v], target')
                                 /\ RetryOK(job[v], forwarder', listening', link')
  BY <1>1, <1>2, Known DEF TunnelOK
<1>4. ASSUME Become(w, [job[w] EXCEPT !.pc = "query", !.broken = TRUE])
      PROVE  Inv'
  <2> DEFINE j == [job[w] EXCEPT !.pc = "query", !.broken = TRUE]
  <2>1. j \in Job
    BY <1>1, <1>2, <1>4, NewJobTyped, Known DEF Job, Stage, Typed, Works
  <2>2. /\ j.pc = "query"
        /\ j.attempt = job[w].attempt
        /\ j.port = job[w].port
        /\ j.mine = job[w].mine
        /\ j.broken <=> (TRUE)
        /\ j.last = job[w].last
        /\ j.disturbed <=> (job[w].disturbed)
    BY <1>1 DEF Job
  <2>3. JobOK(j, target')
    BY <1>1, <1>2, <1>4, <2>2, Known DEF JobOK, Typed, Job, Works
  <2>4. RetryOK(j, forwarder', listening', link')
    BY <1>1, <1>2, <1>4, <2>2, Known DEF RetryOK, JobOK, TunnelOK, Typed, Job, Works
  <2>5. ConnectionsReturned' /\ Typed'
    BY <1>1, <1>2, <1>4, <2>1, <2>2, UserAdded, Known DEF Typed
  <2>6. Become(w, j)
    BY <1>4
  <2> HIDE DEF j
  <2>7. QED
    BY <1>3, <2>1, <2>3, <2>4, <2>5, <2>6, OneJob
<1>5. QED
  BY <1>4, Known DEF BorrowDead

\* A tunnel that does not work is no surprise to a disturbed worker only.
LEMMA ConnectFailsKeeps ==
  ASSUME Inv, NEW w \in Worker, ConnectFails(w)
  PROVE  Inv'
<1>1. /\ job[w] \in Job /\ JobOK(job[w], target)
      /\ RetryOK(job[w], forwarder, listening, link)
      /\ job[w].pc = "borrow" /\ ~closed
  BY Known, ConnectorOpen DEF ConnectFails
<1>2. UNCHANGED <<forwarder, listening, link, pool, target, used, faults, closed>> /\ ~Works(target[job[w].mine])
  BY <1>1, Known DEF ConnectFails, tunnel, pools
<1>3. /\ listening' = {forwarder'} \ {None} /\ ~closed'
      /\ \A v \in Worker \ {w} : /\ JobOK(job[v], target')
                                 /\ RetryOK(job[v], forwarder', listening', link')
  BY <1>1, <1>2, Known DEF TunnelOK
<1>4. ASSUME job[w].attempt = 1, Become(w, [NewJob EXCEPT !.pc = "invalidate"])
      PROVE  Inv'
  <2> DEFINE j == [NewJob EXCEPT !.pc = "invalidate"]
  <2>1. j \in Job
    BY <1>1, <1>2, <1>4, NewJobTyped, Known DEF Job, Stage, Typed, Works
  <2>2. /\ j.pc = "invalidate"
        /\ j.attempt = 1
        /\ j.port = None
        /\ j.mine = None
        /\ j.broken <=> (FALSE)
        /\ j.last = "none"
        /\ j.disturbed <=> (FALSE)
    BY <1>1, NewJobTyped DEF NewJob, Job
  <2>3. JobOK(j, target')
    BY <1>1, <1>2, <1>4, <2>2, Known DEF JobOK, Typed, Job, Works
  <2>4. RetryOK(j, forwarder', listening', link')
    BY <1>1, <1>2, <1>4, <2>2, Known DEF RetryOK, JobOK, TunnelOK, Typed, Job, Works
  <2>5. ConnectionsReturned' /\ Typed'
    BY <1>1, <1>2, <1>4, <2>1, <2>2, OneUserKept, Known DEF Typed, Works
  <2>6. Become(w, j)
    BY <1>4
  <2> HIDE DEF j
  <2>7. QED
    BY <1>3, <2>1, <2>3, <2>4, <2>5, <2>6, OneJob
<1>5. ASSUME job[w].attempt # 1, Become(w, [NewJob EXCEPT !.last = "dead", !.disturbed = job[w].disturbed])
      PROVE  Inv'
  <2> DEFINE j == [NewJob EXCEPT !.last = "dead", !.disturbed = job[w].disturbed]
  <2>1. j \in Job
    BY <1>1, <1>2, <1>5, NewJobTyped, Known DEF Job, Stage, Typed, Works
  <2>2. /\ j.pc = "idle"
        /\ j.attempt = 1
        /\ j.port = None
        /\ j.mine = None
        /\ j.broken <=> (FALSE)
        /\ j.last = "dead"
        /\ j.disturbed <=> (job[w].disturbed)
    BY <1>1, NewJobTyped DEF NewJob, Job
  <2>3. JobOK(j, target')
    BY <1>1, <1>2, <1>5, <2>2, Known DEF JobOK, Typed, Job, Works
  <2>4. RetryOK(j, forwarder', listening', link')
    BY <1>1, <1>2, <1>5, <2>2, Known DEF RetryOK, JobOK, TunnelOK, Typed, Job, Works
  <2>5. ConnectionsReturned' /\ Typed'
    BY <1>1, <1>2, <1>5, <2>1, <2>2, OneUserKept, Known DEF Typed, Works
  <2>6. Become(w, j)
    BY <1>5
  <2> HIDE DEF j
  <2>7. QED
    BY <1>3, <2>1, <2>3, <2>4, <2>5, <2>6, OneJob
<1>6. QED
  BY <1>4, <1>5, Known DEF ConnectFails, Dead, Raise

\* A query ends and returns its connection.
LEMMA QueryEndsKeeps ==
  ASSUME Inv, NEW w \in Worker, QueryEnds(w)
  PROVE  Inv'
<1>1. /\ job[w] \in Job /\ JobOK(job[w], target)
      /\ RetryOK(job[w], forwarder, listening, link)
      /\ job[w].pc = "query" /\ ~closed
  BY Known, ConnectorOpen DEF QueryEnds
<1>2. UNCHANGED <<forwarder, listening, link, pool, target, faults, closed>> /\ used' = [used EXCEPT ![job[w].mine] = @ - 1]
  BY <1>1, Known DEF QueryEnds, Return, tunnel
<1>3. /\ listening' = {forwarder'} \ {None} /\ ~closed'
      /\ \A v \in Worker \ {w} : /\ JobOK(job[v], target')
                                 /\ RetryOK(job[v], forwarder', listening', link')
  BY <1>1, <1>2, Known DEF TunnelOK
<1>4. ASSUME NEW how \in {"ok", "error"}, Become(w, [NewJob EXCEPT !.last = how, !.disturbed = job[w].disturbed])
      PROVE  Inv'
  <2> DEFINE j == [NewJob EXCEPT !.last = how, !.disturbed = job[w].disturbed]
  <2>1. j \in Job
    BY <1>1, <1>2, <1>4, NewJobTyped, Known DEF Job, Stage, Typed
  <2>2. /\ j.pc = "idle"
        /\ j.attempt = 1
        /\ j.port = None
        /\ j.mine = None
        /\ j.broken <=> (FALSE)
        /\ j.last = how
        /\ j.disturbed <=> (job[w].disturbed)
    BY <1>1, NewJobTyped DEF NewJob, Job
  <2>3. JobOK(j, target')
    BY <1>1, <1>2, <1>4, <2>2, Known DEF JobOK, Typed, Job
  <2>4. RetryOK(j, forwarder', listening', link')
    BY <1>1, <1>2, <1>4, <2>2, Known DEF RetryOK, JobOK, TunnelOK, Typed, Job
  <2>5. ConnectionsReturned' /\ Typed'
    BY <1>1, <1>2, <1>4, <2>1, <2>2, UserGone, Known DEF Typed
  <2>6. Become(w, j)
    BY <1>4
  <2> HIDE DEF j
  <2>7. QED
    BY <1>3, <2>1, <2>3, <2>4, <2>5, <2>6, OneJob
<1>5. QED
  BY <1>4, Known DEF QueryEnds, Raise

\* A connection breaks under a query.
LEMMA QueryDiesKeeps ==
  ASSUME Inv, NEW w \in Worker, QueryDies(w)
  PROVE  Inv'
<1>1. /\ job[w] \in Job /\ JobOK(job[w], target)
      /\ RetryOK(job[w], forwarder, listening, link)
      /\ job[w].pc = "query" /\ ~closed
  BY Known, ConnectorOpen DEF QueryDies
<1>2. UNCHANGED <<forwarder, listening, link, pool, target, faults, closed>> /\ used' = [used EXCEPT ![job[w].mine] = @ - 1] /\ job[w].broken
  BY <1>1, Known DEF QueryDies, Return, tunnel
<1>3. /\ listening' = {forwarder'} \ {None} /\ ~closed'
      /\ \A v \in Worker \ {w} : /\ JobOK(job[v], target')
                                 /\ RetryOK(job[v], forwarder', listening', link')
  BY <1>1, <1>2, Known DEF TunnelOK
<1>4. ASSUME job[w].attempt = 1, Become(w, [NewJob EXCEPT !.pc = "invalidate"])
      PROVE  Inv'
  <2> DEFINE j == [NewJob EXCEPT !.pc = "invalidate"]
  <2>1. j \in Job
    BY <1>1, <1>2, <1>4, NewJobTyped, Known DEF Job, Stage, Typed
  <2>2. /\ j.pc = "invalidate"
        /\ j.attempt = 1
        /\ j.port = None
        /\ j.mine = None
        /\ j.broken <=> (FALSE)
        /\ j.last = "none"
        /\ j.disturbed <=> (FALSE)
    BY <1>1, NewJobTyped DEF NewJob, Job
  <2>3. JobOK(j, target')
    BY <1>1, <1>2, <1>4, <2>2, Known DEF JobOK, Typed, Job
  <2>4. RetryOK(j, forwarder', listening', link')
    BY <1>1, <1>2, <1>4, <2>2, Known DEF RetryOK, JobOK, TunnelOK, Typed, Job
  <2>5. ConnectionsReturned' /\ Typed'
    BY <1>1, <1>2, <1>4, <2>1, <2>2, UserGone, Known DEF Typed
  <2>6. Become(w, j)
    BY <1>4
  <2> HIDE DEF j
  <2>7. QED
    BY <1>3, <2>1, <2>3, <2>4, <2>5, <2>6, OneJob
<1>5. ASSUME NEW how \in {"error", "dead"}, how = "dead" => job[w].attempt # 1,
             Become(w, [NewJob EXCEPT !.last = how, !.disturbed = job[w].disturbed])
      PROVE  Inv'
  <2> DEFINE j == [NewJob EXCEPT !.last = how, !.disturbed = job[w].disturbed]
  <2>1. j \in Job
    BY <1>1, <1>2, <1>5, NewJobTyped, Known DEF Job, Stage, Typed
  <2>2. /\ j.pc = "idle"
        /\ j.attempt = 1
        /\ j.port = None
        /\ j.mine = None
        /\ j.broken <=> (FALSE)
        /\ j.last = how
        /\ j.disturbed <=> (job[w].disturbed)
    BY <1>1, NewJobTyped DEF NewJob, Job
  <2>3. JobOK(j, target')
    BY <1>1, <1>2, <1>5, <2>2, Known DEF JobOK, Typed, Job
  <2>4. RetryOK(j, forwarder', listening', link')
    BY <1>1, <1>2, <1>5, <2>2, Known DEF RetryOK, JobOK, TunnelOK, Typed, Job
  <2>5. ConnectionsReturned' /\ Typed'
    BY <1>1, <1>2, <1>5, <2>1, <2>2, UserGone, Known DEF Typed
  <2>6. Become(w, j)
    BY <1>5
  <2> HIDE DEF j
  <2>7. QED
    BY <1>3, <2>1, <2>3, <2>4, <2>5, <2>6, OneJob
<1>6. QED
  BY <1>4, <1>5, Known DEF QueryDies, Dead, GivesUp, Raise

\* The pool is dropped; workers may go on using it.
LEMMA DropPoolKeeps ==
  ASSUME Inv, NEW w \in Worker, DropPool(w)
  PROVE  Inv'
<1>1. /\ job[w] \in Job /\ JobOK(job[w], target)
      /\ RetryOK(job[w], forwarder, listening, link)
      /\ job[w].pc = "invalidate" /\ ~closed
  BY Known, ConnectorOpen DEF DropPool
<1>2. UNCHANGED <<forwarder, listening, link, target, used, faults, closed>> /\ pool' = None
  BY <1>1, Known DEF DropPool, tunnel
<1>3. /\ listening' = {forwarder'} \ {None} /\ ~closed'
      /\ \A v \in Worker \ {w} : /\ JobOK(job[v], target')
                                 /\ RetryOK(job[v], forwarder', listening', link')
  BY <1>1, <1>2, Known DEF TunnelOK
<1>4. ASSUME Become(w, [job[w] EXCEPT !.pc = "stop"])
      PROVE  Inv'
  <2> DEFINE j == [job[w] EXCEPT !.pc = "stop"]
  <2>1. j \in Job
    BY <1>1, <1>2, <1>4, NewJobTyped, Known DEF Job, Stage, Typed
  <2>2. /\ j.pc = "stop"
        /\ j.attempt = job[w].attempt
        /\ j.port = job[w].port
        /\ j.mine = job[w].mine
        /\ j.broken <=> (job[w].broken)
        /\ j.last = job[w].last
        /\ j.disturbed <=> (job[w].disturbed)
    BY <1>1 DEF Job
  <2>3. JobOK(j, target')
    BY <1>1, <1>2, <1>4, <2>2, Known DEF JobOK, Typed, Job
  <2>4. RetryOK(j, forwarder', listening', link')
    BY <1>1, <1>2, <1>4, <2>2, Known DEF RetryOK, JobOK, TunnelOK, Typed, Job
  <2>5. ConnectionsReturned' /\ Typed'
    BY <1>1, <1>2, <1>4, <2>1, <2>2, OneUserKept, Known DEF Typed
  <2>6. Become(w, j)
    BY <1>4
  <2> HIDE DEF j
  <2>7. QED
    BY <1>3, <2>1, <2>3, <2>4, <2>5, <2>6, OneJob
<1>5. QED
  BY <1>4, Known DEF DropPool

\* MySQL drops a connection.
LEMMA ConnectionLostKeeps ==
  ASSUME Inv, NEW w \in Worker, ConnectionLost(w)
  PROVE  Inv'
<1>1. /\ job[w] \in Job /\ JobOK(job[w], target)
      /\ RetryOK(job[w], forwarder, listening, link)
      /\ job[w].pc = "query" /\ ~closed
  BY Known, ConnectorOpen DEF ConnectionLost
<1>2. UNCHANGED <<forwarder, listening, link, pool, target, used, closed>> /\ faults' \in 0..MaxFaults
  BY <1>1, Known, AnalyticsAssumption DEF ConnectionLost, tunnel, pools, Typed
<1> DEFINE d == job[w].disturbed \/ job[w].attempt = 2
           j == [job[w] EXCEPT !.broken = TRUE, !.disturbed = d]
<1>3. j \in Job
  BY <1>1 DEF Job
<1>4. /\ j.pc = job[w].pc /\ j.attempt = job[w].attempt /\ j.port = job[w].port
      /\ j.mine = job[w].mine /\ j.last = job[w].last
      /\ j.disturbed <=> d
  BY <1>1 DEF Job
<1>5. Become(w, j)
  BY <1>1 DEF ConnectionLost, Become, Job
<1>6. JobOK(j, target') /\ RetryOK(j, forwarder', listening', link')
  BY <1>1, <1>2, <1>4 DEF JobOK, RetryOK, Job
<1> HIDE DEF j
<1>7. job'[w] = j /\ \A v \in Worker \ {w} : job'[v] = job[v]
  BY <1>5, Known DEF Become
<1>8. ConnectionsReturned'
  BY <1>1, <1>2, <1>4, <1>7, UsersKept, Known
<1>9. Typed' /\ listening' = {forwarder'} \ {None} /\ ~closed'
  BY <1>1, <1>2, Known DEF Typed, TunnelOK
<1>10. QED
  BY <1>2, <1>3, <1>5, <1>6, <1>8, <1>9, OneJob, Known

\* What breaking a tunnel does to a job.
LEMMA CutJob ==
  ASSUME Inv, NEW p, NEW hit, NEW v \in Worker
  PROVE  LET c == Cut(p, hit)[v] IN
         /\ c \in Job
         /\ c.pc = job[v].pc /\ c.attempt = job[v].attempt /\ c.port = job[v].port
         /\ c.mine = job[v].mine /\ c.last = job[v].last
         /\ c.broken <=> job[v].broken \/ (job[v].pc = "query" /\ target[job[v].mine] = p)
         /\ c.disturbed <=> job[v].disturbed \/ (job[v].attempt = 2 /\ job[v].port \in hit)
<1> DEFINE b == job[v].broken \/ (job[v].pc = "query" /\ target[job[v].mine] = p)
           d == job[v].disturbed \/ (job[v].attempt = 2 /\ job[v].port \in hit)
<1>1. job[v] \in Job
  BY Known
<1>2. Cut(p, hit)[v] = [job[v] EXCEPT !.broken = b, !.disturbed = d]
  BY <1>1 DEF Cut, Job
<1>3. b \in BOOLEAN /\ d \in BOOLEAN
  BY <1>1 DEF Job
<1> HIDE DEF b, d
<1>4. LET c == [job[v] EXCEPT !.broken = b, !.disturbed = d] IN
        /\ c \in Job
        /\ c.pc = job[v].pc /\ c.attempt = job[v].attempt /\ c.port = job[v].port
        /\ c.mine = job[v].mine /\ c.last = job[v].last
        /\ c.broken <=> b
        /\ c.disturbed <=> d
  BY <1>1, <1>3 DEF Job
<1>5. QED
  BY <1>2, <1>4 DEF b, d

\* The tunnel dies: who depends on it in a retry is disturbed.
LEMMA TunnelDiesKeeps ==
  ASSUME Inv, NEW p \in Port, TunnelDies(p)
  PROVE  Inv'
<1>1. /\ UNCHANGED <<forwarder, listening, pool, target, used, closed>>
      /\ faults' \in 0..MaxFaults /\ link' \in [Port -> {"up", "cut", "dead"}]
      /\ \A q \in Port \ {p} : link'[q] = link[q]
      /\ p = forwarder /\ p \in listening /\ p # None
  BY Known, AnalyticsAssumption DEF TunnelDies, pools, Typed, TunnelOK
<1> DEFINE c(v) == Cut(p, {p, None})[v]
<1>2. job' = Cut(p, {p, None})
  BY DEF TunnelDies
<1>3. ASSUME NEW v \in Worker
      PROVE  /\ job'[v] \in Job
             /\ JobOK(job'[v], target')
             /\ RetryOK(job'[v], forwarder', listening', link')
             /\ job'[v].pc = job[v].pc /\ job'[v].mine = job[v].mine
  <2>1. /\ job'[v] = c(v) /\ job[v] \in Job
        /\ JobOK(job[v], target) /\ RetryOK(job[v], forwarder, listening, link)
    BY <1>2, Known
  <2> HIDE DEF c
  <2>2. /\ c(v) \in Job
        /\ c(v).pc = job[v].pc /\ c(v).attempt = job[v].attempt /\ c(v).port = job[v].port
        /\ c(v).mine = job[v].mine /\ c(v).last = job[v].last
        /\ c(v).broken <=> job[v].broken \/ (job[v].pc = "query" /\ target[job[v].mine] = p)
        /\ c(v).disturbed <=> job[v].disturbed \/ (job[v].attempt = 2 /\ job[v].port \in {p, None})
    BY CutJob DEF c
  <2>3. JobOK(c(v), target')
    BY <1>1, <2>1, <2>2 DEF JobOK
  <2>4. RetryOK(c(v), forwarder', listening', link')
    BY <1>1, <2>1, <2>2, Known DEF RetryOK, JobOK, Job, Typed
  <2>5. QED
    BY <2>1, <2>2, <2>3, <2>4
<1>4. job' \in [Worker -> Job]
  <2>1. job' = [v \in Worker |-> c(v)]
    BY <1>2 DEF Cut
  <2>2. \A v \in Worker : c(v) \in Job
    BY <1>2, <1>3
  <2> HIDE DEF c
  <2>3. QED
    BY <2>1, <2>2
<1>5. ConnectionsReturned'
  BY <1>1, <1>3, UsersKept, Known
<1>6. TypeOK' /\ TunnelOK'
  BY <1>1, <1>3, <1>4, Known DEF TypeOK, TunnelOK, Typed
<1>7. QED
  BY <1>3, <1>5, <1>6 DEF Inv

\* A worker stops the tunnel: the others' retries through it are disturbed.
LEMMA StopTunnelKeeps ==
  ASSUME Inv, NEW w \in Worker, StopTunnel(w)
  PROVE  Inv'
<1>1. /\ job[w] \in Job /\ JobOK(job[w], target)
      /\ RetryOK(job[w], forwarder, listening, link)
      /\ job[w].pc = "stop" /\ ~closed
  BY Known, ConnectorOpen DEF StopTunnel
<1>2. /\ UNCHANGED <<pool, target, used, faults, closed>>
      /\ forwarder' = None /\ listening' = {} /\ link' \in [Port -> {"up", "cut", "dead"}]
  BY Known DEF StopTunnel, Stop, pools, Typed, TunnelOK
<1> DEFINE j == [job[w] EXCEPT !.pc = "tunnel", !.attempt = 2]
           c(v) == Cut(forwarder, {forwarder} \ {None})[v]
<1>3. job' = [Cut(forwarder, {forwarder} \ {None}) EXCEPT ![w] = j]
  BY DEF StopTunnel
<1>4. DOMAIN Cut(forwarder, {forwarder} \ {None}) = Worker
  BY DEF Cut
<1>5. job' = [v \in Worker |-> IF v = w THEN j ELSE c(v)]
  BY <1>3, <1>4 DEF Cut
<1>6. /\ j \in Job
      /\ j.pc = "tunnel" /\ j.attempt = 2 /\ j.port = job[w].port
      /\ j.mine = job[w].mine /\ j.last = job[w].last
      /\ j.broken <=> job[w].broken
      /\ j.disturbed <=> job[w].disturbed
  <2>1. "tunnel" \in Stage /\ 2 \in 1..2
    BY DEF Stage
  <2>2. j \in Job
    BY <1>1, <2>1 DEF Job
  <2>3. QED
    BY <1>1, <2>2 DEF Job
<1>7. JobOK(j, target') /\ RetryOK(j, forwarder', listening', link')
  BY <1>1, <1>2, <1>6 DEF JobOK, RetryOK
<1> HIDE DEF j, c
<1>8. ASSUME NEW v \in Worker
      PROVE  /\ job'[v] \in Job
             /\ JobOK(job'[v], target')
             /\ RetryOK(job'[v], forwarder', listening', link')
             /\ job'[v].pc = "query" <=> job[v].pc = "query"
             /\ job[v].pc = "query" => job'[v].mine = job[v].mine
  <2>1. CASE v = w
    BY <2>1, <1>1, <1>5, <1>6, <1>7
  <2>2. CASE v # w
    <3>1. /\ job'[v] = c(v) /\ job[v] \in Job
          /\ JobOK(job[v], target) /\ RetryOK(job[v], forwarder, listening, link)
      BY <2>2, <1>5, Known
    <3>2. /\ c(v) \in Job
          /\ c(v).pc = job[v].pc /\ c(v).attempt = job[v].attempt /\ c(v).port = job[v].port
          /\ c(v).mine = job[v].mine /\ c(v).last = job[v].last
          /\ c(v).broken <=> job[v].broken \/ (job[v].pc = "query" /\ target[job[v].mine] = forwarder)
          /\ c(v).disturbed <=> job[v].disturbed \/ (job[v].attempt = 2 /\ job[v].port \in {forwarder} \ {None})
      BY CutJob DEF c
    <3>3. JobOK(c(v), target')
      BY <1>2, <3>1, <3>2 DEF JobOK
    <3>4. RetryOK(c(v), forwarder', listening', link')
      BY <1>2, <3>1, <3>2, Known DEF RetryOK, JobOK, Job, TunnelOK
    <3>5. QED
      BY <3>1, <3>2, <3>3, <3>4
  <2>3. QED
    BY <2>1, <2>2
<1>9. job' \in [Worker -> Job]
  BY <1>5, <1>8
<1>10. ConnectionsReturned'
  BY <1>2, <1>8, UsersKept, Known
<1>11. TypeOK' /\ TunnelOK'
  BY <1>1, <1>2, <1>9, Known DEF TypeOK, TunnelOK, Typed
<1>12. QED
  BY <1>8, <1>10, <1>11 DEF Inv

\* The keepalive notices what has already disturbed the retries.
LEMMA NoticeDeathKeeps ==
  ASSUME Inv, NEW p \in Port, NoticeDeath(p)
  PROVE  Inv'
<1>1. /\ UNCHANGED <<forwarder, listening, pool, target, used, job, faults, closed>>
      /\ link' \in [Port -> {"up", "cut", "dead"}]
      /\ \A q \in Port : link[q] = "up" => link'[q] = "up"
  BY Known DEF NoticeDeath, pools, Typed
<1>2. ConnectionsReturned' /\ TypeOK' /\ TunnelOK'
  BY <1>1, UsersKept, Known DEF TypeOK, TunnelOK, Typed
<1>3. ASSUME NEW v \in Worker
      PROVE  JobOK(job'[v], target') /\ RetryOK(job'[v], forwarder', listening', link')
  BY <1>1, Known DEF JobOK, RetryOK, Typed
<1>4. QED
  BY <1>2, <1>3 DEF Inv

\* Shutting down stops the tunnel when nobody uses it.
LEMMA CloseKeeps ==
  ASSUME Inv, Close
  PROVE  Inv'
<1>1. /\ UNCHANGED <<target, used, job, faults>>
      /\ pool' = None /\ forwarder' = None /\ listening' = {} /\ closed' = TRUE
      /\ link' \in [Port -> {"up", "cut", "dead"}]
      /\ \A w \in Worker : job[w].pc = "idle"
  BY Known DEF Close, Stop, Typed, TunnelOK
<1>2. ConnectionsReturned' /\ TypeOK' /\ TunnelOK'
  BY <1>1, UsersKept, Known DEF TypeOK, TunnelOK, Typed
<1>3. ASSUME NEW v \in Worker
      PROVE  JobOK(job'[v], target') /\ RetryOK(job'[v], forwarder', listening', link')
  <2>1. job[v] \in Job /\ job[v].attempt # 2
    BY <1>1, Known DEF JobOK
  <2>2. QED
    BY <1>1, <2>1, Known DEF JobOK, RetryOK
<1>4. QED
  BY <1>2, <1>3 DEF Inv

LEMMA NextInv == Inv /\ [Next]_vars => Inv'
<1>1. ASSUME Inv, UNCHANGED vars PROVE Inv'
  <2>1. UNCHANGED <<forwarder, listening, link, pool, target, used, job, faults, closed>>
    BY <1>1 DEF vars
  <2>2. ConnectionsReturned'
    BY <1>1, <2>1, UsersKept DEF Inv
  <2>3. QED
    BY <1>1, <2>1, <2>2 DEF Inv, TypeOK, TunnelOK
<1>2. ASSUME Inv, NEW w \in Worker, Step(w) PROVE Inv'
  BY <1>2, EnsureStartedKeeps, StartFailsKeeps, EnsurePoolKeeps, BorrowKeeps, BorrowDeadKeeps,
     ConnectFailsKeeps, QueryEndsKeeps, QueryDiesKeeps, DropPoolKeeps, StopTunnelKeeps
  DEF Step
<1>3. QED
  BY <1>1, <1>2, AskKeeps, ConnectionLostKeeps, TunnelDiesKeeps, NoticeDeathKeeps,
     CloseKeeps
  DEF Next, Stopped

LEMMA Invariant == Spec => []Inv
<1>1. QED
  BY InitInv, NextInv, PTL DEF Spec

-----------------------------------------------------------------------------
(* What it implies.                                                        *)

\* Every value stays in its type, the counts of the pools in particular
\* (AnalyticsDB).
THEOREM TypeCorrect == Spec => []TypeOK
<1>1. Inv => TypeOK
  BY DEF Inv
<1>2. QED
  BY <1>1, Invariant, PTL

\* No forwarder but the manager's own is left listening, none after shutdown, and
\* pools count exactly the connections in use (SSHTunnelManager.ensure_started,
\* AnalyticsDB.close, _execute_once).
THEOREM NothingIsLeaked == Spec => []NothingLeaks
<1>1. Inv => NothingLeaks
  BY DEF Inv, TunnelOK, NoTunnelLeak, NothingLeaks
<1>2. QED
  BY <1>1, Invariant, PTL

\* A worker's pool connects to the tunnel it was given, whatever the other
\* threads do meanwhile (AnalyticsDB._ensure_pool).
THEOREM PoolsFitTunnels == Spec => []PoolFitsTunnel
<1>1. Inv => PoolFitsTunnel
  BY DEF Inv, JobOK, PoolFitsTunnel
<1>2. QED
  BY <1>1, Invariant, PTL

\* A retry fails for a dead connection only if it was disturbed
\* (AnalyticsDB.execute_readonly_sync).
THEOREM UndisturbedRetryHeals == Spec => []RetryHeals
<1>1. Inv => RetryHeals
  BY DEF Inv, RetryOK, RetryHeals
<1>2. QED
  BY <1>1, Invariant, PTL

\* What is left to do for the query of w: its stages, and those of the retry.
Left(w) ==
  LET retry == IF job[w].attempt = 1 THEN 6 ELSE 0
  IN CASE job[w].pc = "tunnel" -> 4 + retry
       [] job[w].pc = "pool" -> 3 + retry
       [] job[w].pc = "borrow" -> 2 + retry
       [] job[w].pc = "query" -> 1 + retry
       [] job[w].pc = "invalidate" -> 6
       [] job[w].pc = "stop" -> 5
       [] job[w].pc = "idle" -> 0

\* A step of w, by the stages before and after it and by the attempts.
Moves(w, from, to) ==
  /\ job[w].pc = from /\ job'[w].pc = to
  /\ from = "stop" => job'[w].attempt = 2
  /\ to = "invalidate" => job[w].attempt = 1
  /\ from # "stop" /\ to \notin {"invalidate", "idle"} =>
       job'[w].attempt = job[w].attempt

LEMMA JobBecomes ==
  ASSUME Inv, NEW w \in Worker, NEW j, Become(w, j)
  PROVE  job'[w] = j /\ \A v \in Worker \ {w} : job'[v] = job[v]
  BY Known DEF Become

LEMMA Raises ==
  ASSUME Inv, NEW w \in Worker, NEW how, Raise(w, how)
  PROVE  job'[w].pc = "idle" /\ \A v \in Worker \ {w} : job'[v] = job[v]
<1> DEFINE j == [NewJob EXCEPT !.last = how, !.disturbed = job[w].disturbed]
<1>1. j.pc = "idle"
  BY DEF NewJob
<1>2. Become(w, j)
  BY DEF Raise
<1> HIDE DEF j
<1>3. QED
  BY <1>1, <1>2, JobBecomes

LEMMA Retries ==
  ASSUME Inv, NEW w \in Worker, job[w].pc # "stop", Dead(w)
  PROVE  /\ Moves(w, job[w].pc, "idle") \/ Moves(w, job[w].pc, "invalidate")
         /\ \A v \in Worker \ {w} : job'[v] = job[v]
<1>1. CASE job[w].attempt = 1
  <2> DEFINE j == [NewJob EXCEPT !.pc = "invalidate"]
  <2>1. j.pc = "invalidate"
    BY DEF NewJob
  <2>2. Become(w, j)
    BY <1>1 DEF Dead
  <2> HIDE DEF j
  <2>3. QED
    BY <1>1, <2>1, <2>2, JobBecomes DEF Moves
<1>2. CASE job[w].attempt # 1
  BY <1>2, Raises DEF Dead, Moves
<1>3. QED
  BY <1>1, <1>2

\* The steps of the code, stage by stage.
LEMMA StepMoves ==
  ASSUME Inv, NEW w \in Worker, Step(w)
  PROVE  \/ Moves(w, "tunnel", "pool") \/ Moves(w, "tunnel", "idle")
         \/ Moves(w, "pool", "borrow")
         \/ Moves(w, "borrow", "query") \/ Moves(w, "borrow", "invalidate")
         \/ Moves(w, "borrow", "idle")
         \/ Moves(w, "query", "idle") \/ Moves(w, "query", "invalidate")
         \/ Moves(w, "invalidate", "stop") \/ Moves(w, "stop", "tunnel")
<1>1. job[w] \in Job /\ JobOK(job[w], target)
  BY Known
<1>2. CASE EnsureStarted(w)
  <2>1. ASSUME NEW p, Become(w, [job[w] EXCEPT !.pc = "pool", !.port = p])
        PROVE  Moves(w, "tunnel", "pool")
    <3> DEFINE j == [job[w] EXCEPT !.pc = "pool", !.port = p]
    <3>1. j.pc = "pool" /\ j.attempt = job[w].attempt
      BY <1>1 DEF Job
    <3>2. Become(w, j)
      BY <2>1
    <3> HIDE DEF j
    <3>3. QED
      BY <1>2, <3>1, <3>2, JobBecomes DEF EnsureStarted, Moves
  <2>2. QED
    BY <1>2, <2>1 DEF EnsureStarted
<1>3. CASE StartFails(w)
  BY <1>3, Raises DEF StartFails, Moves
<1>4. CASE EnsurePool(w)
  <2>1. ASSUME NEW k, Become(w, [job[w] EXCEPT !.pc = "borrow", !.mine = k])
        PROVE  Moves(w, "pool", "borrow")
    <3> DEFINE j == [job[w] EXCEPT !.pc = "borrow", !.mine = k]
    <3>1. j.pc = "borrow" /\ j.attempt = job[w].attempt
      BY <1>1 DEF Job
    <3>2. Become(w, j)
      BY <2>1
    <3> HIDE DEF j
    <3>3. QED
      BY <1>4, <3>1, <3>2, JobBecomes DEF EnsurePool, Moves
  <2>2. QED
    BY <1>4, <2>1 DEF EnsurePool
<1>5. CASE Borrow(w) \/ BorrowDead(w)
  <2>1. ASSUME NEW b, Become(w, [job[w] EXCEPT !.pc = "query", !.broken = b])
        PROVE  Moves(w, "borrow", "query")
    <3> DEFINE j == [job[w] EXCEPT !.pc = "query", !.broken = b]
    <3>1. j.pc = "query" /\ j.attempt = job[w].attempt
      BY <1>1 DEF Job
    <3>2. Become(w, j)
      BY <2>1
    <3> HIDE DEF j
    <3>3. QED
      BY <1>5, <3>1, <3>2, JobBecomes DEF Borrow, BorrowDead, Moves
  <2>2. QED
    BY <1>5, <2>1 DEF Borrow, BorrowDead
<1>6. CASE ConnectFails(w)
  BY <1>6, Retries DEF ConnectFails
<1>7. CASE QueryEnds(w)
  BY <1>7, Raises DEF QueryEnds, Moves
<1>8. CASE QueryDies(w)
  BY <1>8, Retries, Raises DEF QueryDies, GivesUp, Moves
<1>9. CASE DropPool(w)
  <2> DEFINE j == [job[w] EXCEPT !.pc = "stop"]
  <2>1. j.pc = "stop" /\ j.attempt = job[w].attempt
    BY <1>1 DEF Job
  <2>2. Become(w, j)
    BY <1>9 DEF DropPool
  <2> HIDE DEF j
  <2>3. QED
    BY <1>9, <2>1, <2>2, JobBecomes DEF DropPool, Moves
<1>10. CASE StopTunnel(w)
  <2> DEFINE j == [job[w] EXCEPT !.pc = "tunnel", !.attempt = 2]
             cut == Cut(forwarder, {forwarder} \ {None})
  <2>1. j.pc = "tunnel" /\ j.attempt = 2
    BY <1>1 DEF Job
  <2>2. job' = [cut EXCEPT ![w] = j] /\ w \in DOMAIN cut
    BY <1>10 DEF StopTunnel, Cut
  <2> HIDE DEF j, cut
  <2>3. QED
    BY <1>10, <2>1, <2>2 DEF StopTunnel, Moves
<1>11. QED
  BY <1>2, <1>3, <1>4, <1>5, <1>6, <1>7, <1>8, <1>9, <1>10 DEF Step

\* What others do leaves the stage and the attempt of w alone.
Rests(w) == job'[w].pc = job[w].pc /\ job'[w].attempt = job[w].attempt

LEMMA OthersRest ==
  ASSUME Inv, NEW w \in Worker, Step(w)
  PROVE  \A v \in Worker \ {w} : Rests(v)
<1>1. ASSUME NEW j, Become(w, j)
      PROVE  \A v \in Worker \ {w} : Rests(v)
  BY <1>1, JobBecomes DEF Rests
<1>2. CASE StopTunnel(w)
  <2> DEFINE cut == Cut(forwarder, {forwarder} \ {None})
  <2>1. \A v \in Worker : cut[v].pc = job[v].pc /\ cut[v].attempt = job[v].attempt
    BY CutJob
  <2>2. \E j : job' = [cut EXCEPT ![w] = j] /\ DOMAIN cut = Worker
    BY <1>2 DEF StopTunnel, Cut
  <2> HIDE DEF cut
  <2>3. QED
    BY <2>1, <2>2 DEF Rests
<1>3. CASE ~StopTunnel(w)
  BY <1>1, <1>3 DEF Step, EnsureStarted, StartFails, Raise, EnsurePool, Borrow, BorrowDead,
     ConnectFails, Dead, GivesUp, QueryEnds, QueryDies, DropPool
<1>4. QED
  BY <1>2, <1>3

LEMMA RestsKeepsLeft ==
  ASSUME NEW w, Rests(w)
  PROVE  Left(w)' = Left(w)
  BY DEF Left, Rests

\* Every step of the code leaves less to do, and no other one leaves more, unless it is
\* a new question.
LessLeft ==
  \A w \in Worker : /\ Step(w) => Left(w)' < Left(w)
                    /\ job[w].pc # "idle" => Left(w)' <= Left(w)

LEMMA LeftBound ==
  ASSUME Inv, NEW w \in Worker
  PROVE  Left(w) \in 0..10
<1>1. job[w].pc \in Stage /\ job[w].attempt \in 1..2
  BY Known DEF Job
<1>2. QED
  BY <1>1 DEF Left, Stage

LEMMA StepLeaves ==
  ASSUME Inv, NEW w \in Worker, Step(w)
  PROVE  Left(w)' \in Nat /\ Left(w)' < Left(w)
<1>1. job[w].attempt \in 1..2
  BY Known DEF Job
<1>2. QED
  BY <1>1, StepMoves DEF Moves, Left

LEMMA NextLeaves ==
  ASSUME Inv, [Next]_vars
  PROVE  LessLeft
<1> SUFFICES ASSUME NEW w \in Worker, job[w].pc # "idle", ~Step(w)
             PROVE  Left(w)' <= Left(w)
  <2>1. ASSUME NEW w \in Worker, Step(w) PROVE Left(w)' < Left(w) /\ Left(w)' <= Left(w)
    <3>1. Left(w) \in 0..10 /\ Left(w)' \in Nat /\ Left(w)' < Left(w)
      BY <2>1, StepLeaves, LeftBound
    <3>2. QED
      BY <3>1
  <2>2. QED
    BY <2>1 DEF LessLeft
<1>1. ASSUME Rests(w) PROVE Left(w)' <= Left(w)
  <2>1. Left(w)' = Left(w)
    BY <1>1, RestsKeepsLeft
  <2>2. QED
    BY <2>1, LeftBound
<1>2. ASSUME NEW v \in Worker, Ask(v) PROVE Rests(w)
  BY <1>2, JobBecomes DEF Ask, Rests
<1>3. ASSUME NEW v \in Worker, Step(v) PROVE Rests(w)
  BY <1>3, OthersRest
<1>4. ASSUME NEW v \in Worker, ConnectionLost(v) PROVE Rests(w)
  <2> DEFINE j == [job[v] EXCEPT !.broken = TRUE, !.disturbed = @ \/ job[v].attempt = 2]
  <2>1. j.pc = job[v].pc /\ j.attempt = job[v].attempt
    BY Known DEF Job
  <2>2. Become(v, j)
    BY <1>4 DEF ConnectionLost
  <2> HIDE DEF j
  <2>3. QED
    BY <2>1, <2>2, JobBecomes DEF Rests
<1>5. ASSUME NEW p \in Port, TunnelDies(p) PROVE Rests(w)
  BY <1>5, CutJob DEF TunnelDies, Rests
<1>6. ASSUME NEW p \in Port, NoticeDeath(p) PROVE Rests(w)
  BY <1>6 DEF NoticeDeath, Rests
<1>7. CASE Close \/ Stopped \/ UNCHANGED vars
  BY <1>7, <1>1 DEF Close, Stopped, vars, Rests
<1>8. QED
  BY <1>1, <1>2, <1>3, <1>4, <1>5, <1>6, <1>7 DEF Next

\* A query takes at most ten steps of its own, whatever other threads and the
\* environment do meanwhile: it is tried twice, and what others do to pool and tunnel
\* never sends it back (AnalyticsDB.execute_readonly_sync).
THEOREM QueriesAreShort ==
  Spec => [](\A w \in Worker : Left(w) \in 0..10) /\ [][LessLeft]_vars
<1>1. Inv => \A w \in Worker : Left(w) \in 0..10
  BY LeftBound
<1>2. Inv /\ [Next]_vars => [LessLeft]_vars
  BY NextLeaves
<1>3. QED
  BY <1>1, <1>2, Invariant, PTL DEF Spec

\* The steps that need no fault are possible.
CanStep(w) ==
  /\ job[w].pc = "tunnel" => IsAlive \/ Port \ (listening \ {forwarder}) # {}
  /\ job[w].pc = "pool" => Fits(job[w].port) \/ Unused # {}
  /\ job[w].pc = "borrow" => HasRoom(job[w].mine)

Working == {w \in Worker : job[w].pc # "idle"}

LEMMA PoolsLeft ==
  ASSUME Inv, NEW w \in Worker, job[w].pc = "pool"
  PROVE  Unused # {}
<1> SUFFICES ASSUME Unused = {} PROVE FALSE
  OBVIOUS
<1> DEFINE f == [v \in Worker |-> IF v = w THEN pool ELSE job[v].mine]
           Taken == {f[v] : v \in Worker}
<1>1. job[w].mine = None /\ None \notin Pool
  BY Known DEF JobOK
<1>2. Pool \subseteq Taken
  <2>1. SUFFICES ASSUME NEW k \in Pool PROVE k \in Taken
    OBVIOUS
  <2>2. k = pool \/ \E v \in Worker : job[v].mine = k
    BY DEF Unused
  <2>3. QED
    BY <1>1, <2>2
<1>3. IsFiniteSet(Taken) /\ Cardinality(Taken) <= Cardinality(Worker)
  <2>1. f \in Surjection(Worker, Taken)
    BY DEF Surjection
  <2> HIDE DEF f, Taken
  <2>2. QED
    BY <2>1, AnalyticsAssumption, FS_Surjection
<1> HIDE DEF Taken
<1>4. IsFiniteSet(Pool) /\ Cardinality(Pool) <= Cardinality(Taken)
  BY <1>2, <1>3, FS_Subset
<1>5. Cardinality(Pool) \in Nat /\ Cardinality(Taken) \in Nat /\ Cardinality(Worker) \in Nat
  BY <1>3, <1>4, AnalyticsAssumption, FS_CardinalityType
<1>6. QED
  BY <1>3, <1>4, <1>5, AnalyticsAssumption

\* Who waits for a connection waits for one that a query is using.
LEMMA SomebodyQueries ==
  ASSUME Inv, NEW w \in Worker, job[w].pc = "borrow", ~HasRoom(job[w].mine)
  PROVE  \E v \in Worker : job[v].pc = "query"
<1>1. job[w].mine \in Pool
  BY Known DEF JobOK, Job
<1>2. used[job[w].mine] \in 0..MaxConnections /\ MaxConnections \in Nat \ {0}
  BY <1>1, Known, AnalyticsAssumption DEF Typed
<1>3. Cardinality(Users(job[w].mine)) # 0
  BY <1>1, <1>2, Known DEF HasRoom, ConnectionsReturned
<1>4. Users(job[w].mine) # {}
  BY <1>3, FS_EmptySet
<1>5. QED
  BY <1>4 DEF Users

\* The threads never stand still together: if any query is under way, one of them can
\* take its next step, and be it to notice that its connection is dead
\* (AnalyticsDB._ensure_pool, _execute_once).
THEOREM QueriesNeverStandStill == Spec => [](Working # {} => \E w \in Working : CanStep(w))
<1>1. ASSUME Inv, NEW w \in Working
      PROVE  \E v \in Working : CanStep(v)
  <2>1. w \in Worker /\ job[w].pc # "idle"
    BY DEF Working
  <2>2. CASE job[w].pc = "borrow" /\ ~HasRoom(job[w].mine)
    <3>1. PICK v \in Worker : job[v].pc = "query"
      BY <1>1, <2>1, <2>2, SomebodyQueries
    <3>2. QED
      BY <3>1 DEF Working, CanStep
  <2>3. job[w].pc = "tunnel" => Port \ (listening \ {forwarder}) # {}
    BY <1>1, Known, AnalyticsAssumption DEF TunnelOK
  <2>4. job[w].pc = "pool" => Unused # {}
    BY <1>1, <2>1, PoolsLeft
  <2>5. CASE ~(job[w].pc = "borrow" /\ ~HasRoom(job[w].mine))
    BY <2>3, <2>4, <2>5 DEF CanStep
  <2>6. QED
    BY <2>2, <2>5
<1>2. Inv => (Working # {} => \E w \in Working : CanStep(w))
  BY <1>1
<1>3. QED
  BY <1>2, Invariant, PTL

-----------------------------------------------------------------------------
(***************************************************************************)
(* The stream to a client.  What a frame on the wire will mean to the      *)
(* client depends on the frames before it, so the inductive invariant is   *)
(* about the whole way ahead: reading the wire leads the client, one legal *)
(* step after another, from what it has seen to what the server has said.  *)
(***************************************************************************)

View == [received : Nat, last : FrameType \cup {NoId},
         phase : {"new", "started", "step", "stepped", "finished", "closed"},
         block : Nat \cup {NoId}, blocks : Nat, calling : Nat \cup {NoId}, calls : Nat,
         answered : SUBSET Nat, texts : SUBSET Text]

\* A client in state v may be sent f.
Legal(v, f) ==
  LET between == v.phase = "step" /\ v.block = NoId /\ v.calling = NoId IN
  \/ f.type = "start" /\ v.phase = "new"
  \/ f.type = "start-step" /\ v.phase = "started"
  \/ f.type = "text-start" /\ between /\ f.id = v.blocks
  \/ f.type \in {"text-delta", "text-end"} /\ v.phase = "step" /\ v.block # NoId /\ f.id = v.block
  \/ f.type = "tool-input-start" /\ between /\ f.id = v.calls
  \/ f.type = "tool-input-available" /\ v.phase = "step" /\ v.calling # NoId
  \/ f.type = "tool-output-available" /\ between /\ f.id \in (0..v.calls-1) \ v.answered
  \/ f.type = "data-suggestions" /\ between
  \/ f.type = "finish-step" /\ between
  \/ f.type = "finish" /\ v.phase = "stepped"
  \/ f.type = "[DONE]" /\ v.phase = "finished"

\* What it makes of f.
Sees(v, f) ==
  [received |-> v.received + 1,
   last |-> f.type,
   phase |-> IF f.type = "start" THEN "started"
             ELSE IF f.type = "start-step" THEN "step"
             ELSE IF f.type = "finish-step" THEN "stepped"
             ELSE IF f.type = "finish" THEN "finished"
             ELSE IF f.type = "[DONE]" THEN "closed" ELSE v.phase,
   block |-> IF f.type \in {"text-start", "text-delta"} THEN f.id
             ELSE IF f.type = "text-end" THEN NoId ELSE v.block,
   blocks |-> IF f.type = "text-start" THEN v.blocks + 1 ELSE v.blocks,
   calling |-> IF f.type = "tool-input-start" THEN f.id
               ELSE IF f.type = "tool-input-available" THEN NoId ELSE v.calling,
   calls |-> IF f.type = "tool-input-start" THEN v.calls + 1 ELSE v.calls,
   answered |-> IF f.type = "tool-output-available" THEN v.answered \cup {f.id}
                ELSE v.answered,
   texts |-> IF f.text = NoId THEN v.texts ELSE v.texts \cup {f.text}]

\* PlainRowsAreExplained, of any client.
Told(v, p) ==
  /\ v.texts \cap {"answer", "table"} # {} => v.answered # {}
  /\ p /\ v.phase = "closed" =>
       /\ v.blocks # 0
       /\ v.calls # 0 => v.texts # {}
       /\ v.answered # 0..v.calls-1 => v.texts \cap {"refusal", "error"} # {}

\* Reading w takes v to u, by legal steps, and the client is told what it should be.
Leads(s, w, p) ==
  /\ \A i \in 0..Len(w) : Told(s[i], p)
  /\ \A i \in 1..Len(w) : Legal(s[i-1], w[i]) /\ s[i] = Sees(s[i-1], w[i])

Reads(v, w, u, p) ==
  \E s \in [0..Len(w) -> View] : s[0] = v /\ s[Len(w)] = u /\ Leads(s, w, p)

\* Client and encoder agree, between the first frames and the last.
InStep(u, e) ==
  /\ u.phase = "step" /\ u.calling = NoId
  /\ u.block = e.text /\ u.blocks = e.text_n /\ u.calls = e.tool_n

\* What the server has said when it is at a stage, e its encoder.
Said(stage, e, u, p) ==
  /\ stage # "cancelled"
  /\ stage = "open" =>
       /\ u.phase = "new" /\ u.block = NoId /\ u.calling = NoId
       /\ u.blocks = 0 /\ u.calls = 0 /\ u.answered = {} /\ u.texts = {}
       /\ e.text_n = 0 /\ e.tool_n = 0 /\ e.text = NoId
  /\ stage \notin {"open", "finished"} => InStep(u, e)
  /\ stage \in {"question", "scope", "answer"} => e.text = NoId /\ u.texts = {}
  /\ stage = "question" => u.calls = 0
  /\ stage = "scope" => u.calls = 1 /\ e.tool = 0
  /\ stage \in {"question", "scope"} => u.answered = {}
  /\ stage \in {"answer", "table", "suggest"} => u.calls = 1 /\ u.answered = {0}
  /\ stage \in {"table", "suggest"} => u.texts # {} /\ u.blocks # 0
  /\ stage = "done" =>
       /\ p => u.blocks # 0
       /\ p /\ u.calls # 0 => u.texts # {}
       /\ p /\ u.answered # 0..u.calls-1 => u.texts \cap {"refusal", "error"} # {}

StreamInv ==
  /\ StreamTypeOK
  /\ Told(view, plain)
  /\ ~connected => wire = <<>>
  /\ connected => \E u \in View : Reads(view, wire, u, plain) /\ Said(pc, enc, u, plain)

-----------------------------------------------------------------------------
(* Ways along the wire.                                                    *)

LEMMA FrameSeen ==
  ASSUME NEW v \in View, NEW f \in Frame, Legal(v, f)
  PROVE  Sees(v, f) \in View
<1> USE ChatStreamAssumption DEF Legal, Sees, View, Frame
<1>1. /\ v.answered \cup {f.id} \in SUBSET Nat \/ f.type # "tool-output-available"
      /\ f.id \in Nat \cup {NoId}
      /\ f.text = NoId \/ v.texts \cup {f.text} \in SUBSET Text
      /\ f.type \in FrameType
      /\ v.blocks + 1 \in Nat /\ v.calls + 1 \in Nat /\ v.received + 1 \in Nat
      /\ v.blocks \in Nat /\ v.calls \in Nat
  OBVIOUS
<1>2. QED
  BY <1>1

LEMMA NothingAhead ==
  ASSUME NEW v \in View, NEW p, Told(v, p)
  PROVE  Reads(v, <<>>, v, p)
<1> DEFINE s == [i \in 0..0 |-> v]
<1>1. s \in [0..Len(<<>>) -> View] /\ s[0] = v /\ s[Len(<<>>)] = v
  OBVIOUS
<1>2. Leads(s, <<>>, p)
  BY DEF Leads
<1>3. QED
  BY <1>1, <1>2 DEF Reads

LEMMA OneMore ==
  ASSUME NEW v \in View, NEW w \in Seq(Frame), NEW u \in View, NEW p, NEW f \in Frame,
         Reads(v, w, u, p), Legal(u, f), Told(Sees(u, f), p)
  PROVE  Reads(v, Append(w, f), Sees(u, f), p) /\ Sees(u, f) \in View
<1>1. PICK s \in [0..Len(w) -> View] : s[0] = v /\ s[Len(w)] = u /\ Leads(s, w, p)
  BY DEF Reads
<1> DEFINE n == Len(w)
           t == [i \in 0..n+1 |-> IF i <= n THEN s[i] ELSE Sees(u, f)]
<1>2. n \in Nat /\ Len(Append(w, f)) = n + 1 /\ Append(w, f)[n + 1] = f
      /\ \A i \in 1..n : Append(w, f)[i] = w[i]
  OBVIOUS
<1>3. Sees(u, f) \in View
  BY FrameSeen
<1>4. t \in [0..n+1 -> View]
  BY <1>2, <1>3
<1>5. /\ t[n+1] = Sees(u, f) /\ t[n] = u
      /\ \A i \in 0..n : t[i] = s[i]
  BY <1>1, <1>2
<1> HIDE DEF t
<1>6. \A i \in 0..n+1 : Told(t[i], p)
  <2>1. \A i \in 0..n : Told(s[i], p)
    BY <1>1 DEF Leads
  <2>2. \A i \in 0..n+1 : i \in 0..n \/ i = n + 1
    BY <1>2
  <2>3. QED
    BY <1>5, <2>1, <2>2
<1>7. \A i \in 1..n+1 : Legal(t[i-1], Append(w, f)[i]) /\ t[i] = Sees(t[i-1], Append(w, f)[i])
  <2> TAKE i \in 1..n+1
  <2>1. CASE i = n + 1
    <3>1. i - 1 = n
      BY <1>2, <2>1
    <3>2. QED
      BY <1>2, <1>5, <2>1, <3>1
  <2>2. CASE i \in 1..n
    <3>1. i - 1 \in 0..n /\ i \in 0..n
      BY <1>2, <2>2
    <3>2. t[i] = s[i] /\ t[i-1] = s[i-1] /\ Append(w, f)[i] = w[i]
      BY <1>2, <1>5, <2>2, <3>1
    <3>3. Legal(s[i-1], w[i]) /\ s[i] = Sees(s[i-1], w[i])
      BY <1>1, <2>2 DEF Leads
    <3>4. QED
      BY <3>2, <3>3
  <2>3. QED
    BY <1>2, <2>1, <2>2
<1>8. t[0] = v
  BY <1>1, <1>2, <1>5
<1>9. Leads(t, Append(w, f), p)
  BY <1>2, <1>6, <1>7 DEF Leads
<1>10. QED
  BY <1>2, <1>3, <1>4, <1>5, <1>8, <1>9 DEF Reads

LEMMA OneLess ==
  ASSUME NEW v \in View, NEW w \in Seq(Frame), NEW u \in View, NEW p,
         Reads(v, w, u, p), w # <<>>
  PROVE  /\ Legal(v, Head(w)) /\ Head(w) \in Frame
         /\ Sees(v, Head(w)) \in View /\ Told(Sees(v, Head(w)), p)
         /\ Reads(Sees(v, Head(w)), Tail(w), u, p)
<1>1. PICK s \in [0..Len(w) -> View] : s[0] = v /\ s[Len(w)] = u /\ Leads(s, w, p)
  BY DEF Reads
<1> DEFINE n == Len(w) - 1
           t == [i \in 0..n |-> s[i+1]]
<1>2. /\ n \in Nat /\ Len(w) = n + 1 /\ Len(Tail(w)) = n
      /\ \A i \in 1..n : Tail(w)[i] = w[i+1]
      /\ Head(w) = w[1] /\ Head(w) \in Frame
  OBVIOUS
<1>3. 1 \in 1..Len(w) /\ 1 \in 0..Len(w) /\ 1 - 1 = 0
  BY <1>2
<1>4. Legal(v, Head(w)) /\ s[1] = Sees(v, Head(w)) /\ Told(s[1], p)
  BY <1>1, <1>2, <1>3 DEF Leads
<1>5. t \in [0..n -> View] /\ t[0] = s[1] /\ t[n] = u
  BY <1>1, <1>2
<1>6. \A i \in 0..n : t[i] = s[i+1] /\ i + 1 \in 0..Len(w)
  BY <1>2
<1> HIDE DEF t
<1>7. \A i \in 0..n : Told(t[i], p)
  BY <1>1, <1>6 DEF Leads
<1>8. \A i \in 1..n : Legal(t[i-1], Tail(w)[i]) /\ t[i] = Sees(t[i-1], Tail(w)[i])
  <2> TAKE i \in 1..n
  <2>1. /\ i + 1 \in 1..Len(w) /\ i + 1 - 1 = i
        /\ i \in 0..n /\ i - 1 \in 0..n /\ i - 1 + 1 = i
    BY <1>2
  <2>2. Legal(s[i], w[i+1]) /\ s[i+1] = Sees(s[i], w[i+1])
    BY <1>1, <2>1 DEF Leads
  <2>3. t[i-1] = s[i] /\ t[i] = s[i+1] /\ Tail(w)[i] = w[i+1]
    BY <1>2, <1>6, <2>1
  <2>4. QED
    BY <2>2, <2>3
<1>9. Leads(t, Tail(w), p)
  BY <1>2, <1>7, <1>8 DEF Leads
<1>10. Reads(Sees(v, Head(w)), Tail(w), u, p)
  BY <1>2, <1>4, <1>5, <1>9 DEF Reads
<1>11. QED
  BY <1>2, <1>4, <1>10, FrameSeen

LEMMA WayEnds ==
  ASSUME NEW v, NEW w \in Seq(Frame), NEW u, NEW p, Reads(v, w, u, p)
  PROVE  Told(u, p)
<1>1. Len(w) \in 0..Len(w)
  OBVIOUS
<1>2. QED
  BY <1>1 DEF Reads, Leads

LEMMA Joined ==
  ASSUME NEW w \in Seq(Frame), NEW f \in Frame, NEW g \in Frame, NEW h \in Frame
  PROVE  /\ w \o <<>> = w
         /\ w \o <<f>> = Append(w, f)
         /\ w \o <<f, g>> = Append(Append(w, f), g)
         /\ w \o <<f, g, h>> = Append(Append(Append(w, f), g), h)
  OBVIOUS

-----------------------------------------------------------------------------
(* What the encoder sends.                                                 *)

Encoder == [text_n : Nat, tool_n : Nat, text : Nat \cup {NoId}, tool : Nat \cup {NoId}]

LEMMA NewText ==
  ASSUME NEW e \in Encoder, NEW i \in Nat \cup {NoId}
  PROVE  [e EXCEPT !.text = i] \in Encoder
  BY DEF Encoder

LEMMA NewTextCount ==
  ASSUME NEW e \in Encoder, NEW i \in Nat
  PROVE  [e EXCEPT !.text_n = i] \in Encoder
  BY DEF Encoder

LEMMA NewTool ==
  ASSUME NEW e \in Encoder, NEW i \in Nat \cup {NoId}
  PROVE  [e EXCEPT !.tool = i] \in Encoder
  BY DEF Encoder

LEMMA NewToolCount ==
  ASSUME NEW e \in Encoder, NEW i \in Nat
  PROVE  [e EXCEPT !.tool_n = i] \in Encoder
  BY DEF Encoder

LEMMA Opened ==
  ASSUME NEW e \in Encoder
  PROVE  LET d == [e EXCEPT !.text = e.text_n, !.text_n = @ + 1] IN
         /\ d \in Encoder /\ d.text = e.text_n /\ d.text_n = e.text_n + 1
         /\ d.tool_n = e.tool_n /\ d.tool = e.tool
<1> DEFINE f == [e EXCEPT !.text = e.text_n]
           d == [f EXCEPT !.text_n = f.text_n + 1]
<1>1. e.text_n \in Nat
  BY DEF Encoder
<1>2. f \in Encoder
  BY <1>1, NewText
<1>3. f.text_n = e.text_n /\ f.text = e.text_n /\ f.tool_n = e.tool_n /\ f.tool = e.tool
  BY DEF Encoder
<1>4. [e EXCEPT !.text = e.text_n, !.text_n = @ + 1] = d
  OBVIOUS
<1> HIDE DEF f
<1>5. d \in Encoder
  BY <1>1, <1>2, <1>3, NewTextCount
<1>6. /\ d.text = f.text /\ d.text_n = f.text_n + 1
      /\ d.tool_n = f.tool_n /\ d.tool = f.tool
  BY <1>2 DEF Encoder
<1> HIDE DEF d
<1>7. QED
  BY <1>3, <1>4, <1>5, <1>6

LEMMA Announced ==
  ASSUME NEW e \in Encoder
  PROVE  LET d == [e EXCEPT !.tool = enc.tool_n, !.tool_n = @ + 1] IN
         e.tool_n = enc.tool_n =>
         /\ d \in Encoder /\ d.tool = e.tool_n /\ d.tool_n = e.tool_n + 1
         /\ d.text_n = e.text_n /\ d.text = e.text
<1> SUFFICES ASSUME e.tool_n = enc.tool_n
             PROVE  LET d == [e EXCEPT !.tool = e.tool_n, !.tool_n = @ + 1] IN
                    /\ d \in Encoder /\ d.tool = e.tool_n /\ d.tool_n = e.tool_n + 1
                    /\ d.text_n = e.text_n /\ d.text = e.text
  BY Zenon
<1> DEFINE f == [e EXCEPT !.tool = e.tool_n]
           d == [f EXCEPT !.tool_n = f.tool_n + 1]
<1>1. e.tool_n \in Nat
  BY DEF Encoder
<1>2. f \in Encoder
  BY <1>1, NewTool
<1>3. f.tool_n = e.tool_n /\ f.tool = e.tool_n /\ f.text_n = e.text_n /\ f.text = e.text
  BY DEF Encoder
<1>4. [e EXCEPT !.tool = e.tool_n, !.tool_n = @ + 1] = d
  OBVIOUS
<1> HIDE DEF f
<1>5. d \in Encoder
  BY <1>1, <1>2, <1>3, NewToolCount
<1>6. /\ d.tool = f.tool /\ d.tool_n = f.tool_n + 1
      /\ d.text_n = f.text_n /\ d.text = f.text
  BY <1>2 DEF Encoder
<1> HIDE DEF d
<1>7. QED
  BY <1>3, <1>4, <1>5, <1>6

\* The words of a text that is sent.
Words(text) == {text} \ {NoId}

LEMMA Frames ==
  /\ \A t \in FrameType : F(t) \in Frame
  /\ \A t \in FrameType, i \in Nat : Id(t, i) \in Frame
  /\ \A i \in Nat, x \in Text \cup {NoId} : Delta(i, x) \in Frame
  BY DEF F, Id, Delta, Frame, FrameType

\* text_end closes the block that is open, if one is.
LEMMA BlockEnds ==
  ASSUME NEW v \in View, NEW w \in Seq(Frame), NEW u \in View, NEW p,
         enc \in Encoder, Reads(v, w, u, p), InStep(u, enc)
  PROVE  /\ w \o text_end \in Seq(Frame)
         /\ Ended \in Encoder
         /\ \E z \in View : /\ Reads(v, w \o text_end, z, p)
                            /\ InStep(z, Ended) /\ z.block = NoId
                            /\ z.blocks = u.blocks /\ z.calls = u.calls /\ z.answered = u.answered
                            /\ z.texts = u.texts
<1> USE ChatStreamAssumption
<1>0. Ended \in Encoder /\ Ended = [enc EXCEPT !.text = NoId]
  BY DEF Ended, Encoder
<1>1. CASE enc.text = NoId
  <2>1. text_end = <<>> /\ w \o text_end = w
    BY <1>1, Joined DEF text_end
  <2>2. InStep(u, Ended) /\ u.block = NoId
    BY <1>0, <1>1 DEF InStep, Encoder
  <2>3. QED
    BY <1>0, <2>1, <2>2
<1>2. CASE enc.text # NoId
  <2> DEFINE f == Id("text-end", enc.text)
             z == Sees(u, f)
  <2>1. enc.text \in Nat
    BY <1>2 DEF Encoder
  <2>2. f \in Frame
    BY <2>1, Frames DEF FrameType
  <2>3. w \o text_end = Append(w, f)
    BY <1>2, <2>2, Joined DEF text_end
  <2>4. Legal(u, f)
    BY <1>2 DEF Legal, InStep, Id
  <2>5. /\ z.phase = u.phase /\ z.block = NoId /\ z.blocks = u.blocks
        /\ z.calling = u.calling /\ z.calls = u.calls
        /\ z.answered = u.answered /\ z.texts = u.texts
    BY DEF Sees, Id
  <2>6. Told(z, p)
    <3>1. Told(u, p)
      BY WayEnds
    <3> HIDE DEF z
    <3>2. QED
      BY <2>5, <3>1 DEF Told
  <2>7. Reads(v, Append(w, f), z, p) /\ z \in View
    <3> HIDE DEF f
    <3>1. QED
      BY <2>2, <2>4, <2>6, OneMore
  <2>8. InStep(z, Ended)
    <3> HIDE DEF z
    <3>1. QED
      BY <1>0, <2>5 DEF InStep, Encoder
  <2>9. QED
    <3> HIDE DEF z, f
    <3>1. QED
      BY <1>0, <2>2, <2>3, <2>5, <2>7, <2>8
<1>3. QED
  BY <1>1, <1>2

\* A client that reads a piece of an open block.
LEMMA DeltaSeen ==
  ASSUME NEW v \in View, NEW w \in Seq(Frame), NEW x \in View, NEW p,
         NEW i \in Nat, NEW text \in Text \cup {NoId},
         Reads(v, w, x, p), x.phase = "step", x.block = i,
         text \in {"answer", "table"} => x.answered # {}
  PROVE  /\ Reads(v, Append(w, Delta(i, text)), Sees(x, Delta(i, text)), p)
         /\ Sees(x, Delta(i, text)) \in View
         /\ Sees(x, Delta(i, text)).phase = "step"
         /\ Sees(x, Delta(i, text)).block = i
         /\ Sees(x, Delta(i, text)).blocks = x.blocks
         /\ Sees(x, Delta(i, text)).calling = x.calling
         /\ Sees(x, Delta(i, text)).calls = x.calls
         /\ Sees(x, Delta(i, text)).answered = x.answered
         /\ Sees(x, Delta(i, text)).texts = x.texts \cup Words(text)
<1> DEFINE f == Delta(i, text)
           z == Sees(x, f)
<1>0. Told(x, p) /\ i # NoId
  BY WayEnds, ChatStreamAssumption
<1>1. f \in Frame
  BY Frames
<1>2. Legal(x, f)
  BY <1>0 DEF Legal, Delta
<1>3. /\ z.phase = "step" /\ z.block = i /\ z.blocks = x.blocks /\ z.calling = x.calling
      /\ z.calls = x.calls /\ z.answered = x.answered /\ z.texts = x.texts \cup Words(text)
  BY <1>0 DEF Sees, Delta, Words
<1>4. Told(z, p)
  <2> HIDE DEF z
  <2>1. QED
    BY <1>0, <1>3, ChatStreamAssumption DEF Told, Words
<1>5. Reads(v, Append(w, f), z, p) /\ z \in View
  <2> HIDE DEF f
  <2>1. QED
    BY <1>1, <1>2, <1>4, OneMore
<1>6. QED
  <2> HIDE DEF z
  <2>1. QED
    BY <1>3, <1>5 DEF z

\* text_delta opens a block if it must.
LEMMA DeltaSent ==
  ASSUME NEW text \in Text \cup {NoId}, NEW u \in View,
         enc \in Encoder, view \in View, wire \in Seq(Frame), connected,
         text_delta(text), Reads(view, wire, u, plain), InStep(u, enc),
         text \in {"answer", "table"} => u.answered # {}
  PROVE  /\ wire' \in Seq(Frame) /\ enc' \in Encoder
         /\ \E z \in View : /\ Reads(view, wire', z, plain)
                            /\ InStep(z, enc')
                            /\ z.calls = u.calls /\ z.answered = u.answered
                            /\ z.texts = u.texts \cup Words(text)
                            /\ enc.text = NoId \/ u.blocks # 0 => z.blocks # 0
<1> USE ChatStreamAssumption
<1>0. Told(u, plain) 
  BY WayEnds
<1>2. CASE enc.text = NoId
  <2> DEFINE n == enc.text_n
             f == Id("text-start", n)
             x == Sees(u, f)
             g == Delta(n, text)
  <2>1. n \in Nat /\ f \in Frame /\ g \in Frame
    <3>1. n \in Nat
      BY DEF Encoder
    <3>2. QED
      BY <3>1, Frames DEF FrameType
  <2>2. /\ enc' = [enc EXCEPT !.text = n, !.text_n = @ + 1]
        /\ wire' = wire \o <<f, g>>
    BY <1>2 DEF text_delta, Send
  <2>3. wire' = Append(Append(wire, f), g) /\ Append(wire, f) \in Seq(Frame)
        /\ wire' \in Seq(Frame)
    <3> HIDE DEF f, g, n
    <3>1. QED
      BY <2>1, <2>2, Joined
  <2>4. enc' \in Encoder /\ enc'.text = n /\ enc'.text_n = n + 1 /\ enc'.tool_n = enc.tool_n
    BY <2>2, Opened
  <2>5. Legal(u, f)
    BY <1>2 DEF Legal, InStep, Id
  <2>6. /\ x.phase = "step" /\ x.block = n /\ x.blocks = n + 1 /\ x.calling = NoId
        /\ x.calls = u.calls /\ x.answered = u.answered /\ x.texts = u.texts
    BY DEF Sees, Id, InStep
  <2>7. Told(x, plain)
    <3> HIDE DEF x
    <3>1. QED
      BY <1>0, <2>6 DEF Told, InStep
  <2>8. Reads(view, Append(wire, f), x, plain) /\ x \in View
    <3> HIDE DEF f
    <3>1. QED
      BY <2>1, <2>5, <2>7, OneMore
  <2> DEFINE z == Sees(x, g)
  <2>9. /\ Reads(view, wire', z, plain) /\ z \in View
        /\ z.phase = "step" /\ z.block = n /\ z.blocks = x.blocks /\ z.calling = x.calling
        /\ z.calls = x.calls /\ z.answered = u.answered /\ z.texts = u.texts \cup Words(text)
    <3>1. text \in {"answer", "table"} => x.answered # {}
      BY <2>6
    <3> DEFINE w == Append(wire, f)
    <3>2. w \in Seq(Frame) /\ Reads(view, w, x, plain) /\ wire' = Append(w, g)
      BY <2>3, <2>8
    <3> HIDE DEF x, n, f, w
    <3>3. /\ Reads(view, Append(w, g), z, plain) /\ z \in View
          /\ z.phase = "step" /\ z.block = n /\ z.blocks = x.blocks
          /\ z.calling = x.calling /\ z.calls = x.calls
          /\ z.answered = x.answered /\ z.texts = x.texts \cup Words(text)
      BY <2>1, <2>6, <2>8, <3>1, <3>2, DeltaSeen
    <3>4. QED
      BY <2>6, <3>2, <3>3
  <2>10. InStep(z, enc') /\ z.blocks # 0
    <3> HIDE DEF z, x, n
    <3>1. n + 1 # 0
      BY <2>1
    <3>2. QED
      BY <2>4, <2>6, <2>9, <3>1 DEF InStep
  <2>11. QED
    <3> HIDE DEF z, x, n, f, g
    <3>1. QED
      BY <2>3, <2>4, <2>6, <2>9, <2>10
<1>3. CASE enc.text # NoId
  <2> DEFINE n == enc.text
             g == Delta(n, text)
             z == Sees(u, g)
  <2>1. n \in Nat /\ g \in Frame
    <3>1. n \in Nat
      BY <1>3 DEF Encoder
    <3>2. QED
      BY <3>1, Frames
  <2>2. enc' = enc /\ wire' = Append(wire, g) /\ wire' \in Seq(Frame)
    <3>1. enc' = enc /\ wire' = wire \o <<g>>
      BY <1>3 DEF text_delta, Send
    <3> HIDE DEF g
    <3>2. QED
      BY <2>1, <3>1, Joined
  <2>3. /\ Reads(view, wire', z, plain) /\ z \in View
        /\ z.phase = "step" /\ z.block = n /\ z.blocks = u.blocks /\ z.calling = u.calling
        /\ z.calls = u.calls /\ z.answered = u.answered /\ z.texts = u.texts \cup Words(text)
    <3>1. u.phase = "step" /\ u.block = n
      BY DEF InStep
    <3>2. QED
      BY <2>1, <2>2, <3>1, DeltaSeen
  <2>4. QED
    <3> HIDE DEF z, g
    <3>1. QED
      BY <1>3, <2>2, <2>3 DEF InStep
<1>4. QED
  BY <1>2, <1>3

\* A frame that brings no text and is no end.
LEMMA PlainFrame ==
  ASSUME NEW v \in View, NEW w \in Seq(Frame), NEW u \in View, NEW p, NEW f \in Frame,
         Reads(v, w, u, p), Legal(u, f), f.text = NoId, f.type # "[DONE]"
  PROVE  /\ Append(w, f) \in Seq(Frame)
         /\ Reads(v, Append(w, f), Sees(u, f), p) /\ Sees(u, f) \in View
<1> DEFINE z == Sees(u, f)
<1>1. /\ z.texts = u.texts /\ u.answered \subseteq z.answered
      /\ z.phase # "closed"
  BY DEF Sees, Legal
<1>2. Told(u, p)
  BY WayEnds
<1>3. Told(z, p)
  <2> HIDE DEF z
  <2>1. QED
    BY <1>1, <1>2 DEF Told
<1>4. QED
  BY <1>3, OneMore

-----------------------------------------------------------------------------
(* Every step keeps the invariant.                                         *)

LEMMA StreamKnown ==
  ASSUME StreamInv
  PROVE  /\ plain \in BOOLEAN /\ pc \in StreamStage /\ enc \in Encoder
         /\ wire \in Seq(Frame) /\ connected \in BOOLEAN /\ view \in View
  BY DEF StreamInv, StreamTypeOK, Encoder, View

\* A step of the server: whether anybody is there or not.
LEMMA ServerKeeps ==
  ASSUME StreamInv, UNCHANGED <<plain, connected, view>>,
         pc' \in StreamStage, enc' \in Encoder,
         connected => wire' \in Seq(Frame), ~connected => wire' = wire,
         \A u \in View :
           connected /\ Reads(view, wire, u, plain) /\ Said(pc, enc, u, plain)
             => \E z \in View : Reads(view, wire', z, plain) /\ Said(pc', enc', z, plain)
  PROVE  StreamInv'
<1>1. wire' \in Seq(Frame)
  BY StreamKnown DEF StreamInv
<1>2. StreamTypeOK'
  BY <1>1, StreamKnown DEF StreamTypeOK, Encoder, View
<1>3. Told(view, plain)'
  BY DEF StreamInv
<1>4. ~connected' => wire' = <<>>
  BY DEF StreamInv
<1>5. (connected => \E u \in View : Reads(view, wire, u, plain) /\ Said(pc, enc, u, plain))'
  BY DEF StreamInv
<1>6. QED
  BY <1>2, <1>3, <1>4, <1>5 DEF StreamInv

LEMMA SendIs ==
  ASSUME NEW frames, Send(frames)
  PROVE  /\ ~connected => wire' = wire
         /\ connected => wire' = wire \o frames
  BY DEF Send

\* Encoding a text moves any client in step on.
LEMMA TextKeeps ==
  ASSUME StreamInv, NEW text \in Text \cup {NoId}, NEW stage \in StreamStage,
         text_delta(text), Becomes(stage),
         \A u \in View : Said(pc, enc, u, plain) => InStep(u, enc)
            /\ (text \in {"answer", "table"} => u.answered # {}),
         \A u, z \in View :
           /\ Said(pc, enc, u, plain) /\ InStep(z, enc')
           /\ z.calls = u.calls /\ z.answered = u.answered
           /\ z.texts = u.texts \cup Words(text)
           /\ enc.text = NoId \/ u.blocks # 0 => z.blocks # 0
           => Said(stage, enc', z, plain)
  PROVE  StreamInv'
<1>1. /\ UNCHANGED <<plain, connected, view>> /\ pc' = stage
  BY DEF Becomes
<1>2. enc' \in Encoder
  <2>1. CASE enc.text = NoId
    BY <2>1, StreamKnown, Opened, Zenon DEF text_delta
  <2>2. CASE enc.text # NoId
    BY <2>2, StreamKnown DEF text_delta
  <2>3. QED
    BY <2>1, <2>2
<1>3. ~connected => wire' = wire
  BY DEF text_delta, Send
<1>4. ASSUME connected, NEW u \in View,
             Reads(view, wire, u, plain), Said(pc, enc, u, plain)
      PROVE  /\ wire' \in Seq(Frame)
             /\ \E z \in View : Reads(view, wire', z, plain) /\ Said(stage, enc', z, plain)
  <2>1. InStep(u, enc) /\ (text \in {"answer", "table"} => u.answered # {})
    BY <1>4
  <2>2. /\ wire' \in Seq(Frame)
        /\ \E z \in View : /\ Reads(view, wire', z, plain)
                           /\ InStep(z, enc')
                           /\ z.calls = u.calls /\ z.answered = u.answered
                           /\ z.texts = u.texts \cup Words(text)
                           /\ enc.text = NoId \/ u.blocks # 0 => z.blocks # 0
    BY <1>4, <2>1, StreamKnown, DeltaSent, Zenon
  <2>3. QED
    BY <1>4, <2>2
<1>5. connected => wire' \in Seq(Frame)
  BY <1>4 DEF StreamInv
<1>6. QED
  BY <1>1, <1>2, <1>3, <1>4, <1>5, ServerKeeps

\* A step that sends nothing.
LEMMA SilentKeeps ==
  ASSUME StreamInv, NEW stage \in StreamStage, UNCHANGED <<enc, wire>>, Becomes(stage),
         \A u \in View : Said(pc, enc, u, plain) => Said(stage, enc, u, plain)
  PROVE  StreamInv'
<1>1. /\ UNCHANGED <<plain, connected, view>> /\ pc' = stage
  BY DEF Becomes
<1>2. QED
  BY <1>1, StreamKnown, ServerKeeps

LEMMA OpenKeeps == ASSUME StreamInv, Open PROVE StreamInv'
<1>1. /\ UNCHANGED <<plain, connected, view, enc>> /\ pc = "open" /\ pc' = "question"
      /\ pc' \in StreamStage
  BY DEF Open, Becomes, start, StreamStage
<1> DEFINE f == F("start")
           g == F("start-step")
<1>2. f \in Frame /\ g \in Frame
  BY Frames DEF FrameType
<1>3. Send(<<f, g>>)
  BY DEF Open, start
<1>4. ASSUME connected
      PROVE  wire' = Append(Append(wire, f), g)
  <2>1. QED
    <3> HIDE DEF f, g
    <3>1. wire' = wire \o <<f, g>>
      BY <1>3, <1>4, SendIs
    <3>2. QED
      BY <1>2, <3>1, Joined, StreamKnown
<1>5. ASSUME connected, NEW u \in View,
             Reads(view, wire, u, plain), Said(pc, enc, u, plain)
      PROVE  /\ wire' \in Seq(Frame)
             /\ \E z \in View : Reads(view, wire', z, plain) /\ Said(pc', enc', z, plain)
  <2> DEFINE x == Sees(u, f)
             z == Sees(x, g)
  <2>1. u.phase = "new"
    BY <1>1, <1>5 DEF Said
  <2>2. Legal(u, f) /\ f.text = NoId /\ f.type # "[DONE]"
    BY <2>1 DEF Legal, F
  <2>3. /\ x.phase = "started" /\ x.block = u.block /\ x.blocks = u.blocks
        /\ x.calling = u.calling /\ x.calls = u.calls
        /\ x.answered = u.answered /\ x.texts = u.texts
    BY DEF Sees, F
  <2>4. /\ Append(wire, f) \in Seq(Frame)
        /\ Reads(view, Append(wire, f), x, plain) /\ x \in View
    <3> HIDE DEF f
    <3>1. QED
      BY <1>2, <1>5, <2>2, StreamKnown, PlainFrame
  <2> HIDE DEF x
  <2>5. Legal(x, g) /\ g.text = NoId /\ g.type # "[DONE]"
    BY <2>3 DEF Legal, F
  <2>6. /\ z.phase = "step" /\ z.block = x.block /\ z.blocks = x.blocks
        /\ z.calling = x.calling /\ z.calls = x.calls
        /\ z.answered = x.answered /\ z.texts = x.texts
    BY DEF Sees, F
  <2>7. /\ wire' \in Seq(Frame) /\ Reads(view, wire', z, plain) /\ z \in View
    <3> DEFINE w == Append(wire, f)
    <3>1. w \in Seq(Frame) /\ Reads(view, w, x, plain) /\ wire' = Append(w, g)
      BY <1>4, <1>5, <2>4
    <3> HIDE DEF f, g, w
    <3>2. QED
      BY <1>2, <2>4, <2>5, <3>1, StreamKnown, PlainFrame
  <2> HIDE DEF z
  <2>8. Said("question", enc, z, plain)
    BY <1>1, <1>5, <2>3, <2>6 DEF Said, InStep
  <2>9. QED
    BY <1>1, <2>7, <2>8
<1>6. connected => wire' \in Seq(Frame)
  BY <1>5 DEF StreamInv
<1>7. ~connected => wire' = wire
  BY <1>3, SendIs
<1>8. QED
  BY <1>1, <1>5, <1>6, <1>7, StreamKnown, ServerKeeps

\* The events that are a text.
LEMMA TextEventsKeep ==
  ASSUME StreamInv, Reply \/ Refuse \/ Answer \/ Error
  PROVE  StreamInv'
<1> USE DEF StreamStage, Text
<1>1. CASE Reply
  <2>1. pc = "question" /\ Becomes("done")
    BY <1>1 DEF Reply
  <2>2. PICK words \in {"reply", NoId} : text_delta(words)
    BY <1>1 DEF Reply
  <2>3. words \in Text \cup {NoId} /\ words \notin {"answer", "table"}
    BY <2>2, ChatStreamAssumption
  <2>4. \A u \in View : Said(pc, enc, u, plain) => InStep(u, enc)
    BY <2>1 DEF Said
  <2>5. \A u, z \in View :
           /\ Said(pc, enc, u, plain) /\ InStep(z, enc')
           /\ z.calls = u.calls /\ z.answered = u.answered
           /\ z.texts = u.texts \cup Words(words)
           /\ enc.text = NoId \/ u.blocks # 0 => z.blocks # 0
           => Said("done", enc', z, plain)
    <3>1. 0..0-1 = {}
      OBVIOUS
    <3>2. \A u \in View : Said(pc, enc, u, plain) =>
            enc.text = NoId /\ u.calls = 0 /\ u.answered = {} /\ InStep(u, enc)
      BY <2>1 DEF Said
    <3>3. ASSUME NEW u \in View, NEW z \in View, Said(pc, enc, u, plain), InStep(z, enc'),
                 z.calls = u.calls, z.answered = u.answered,
                 enc.text = NoId \/ u.blocks # 0 => z.blocks # 0
          PROVE  Said("done", enc', z, plain)
      <4>1. z.calls = 0 /\ z.answered = {} /\ z.blocks # 0
        BY <3>2, <3>3
      <4>2. z.answered = 0..z.calls-1
        BY <3>1, <4>1
      <4>3. QED
        BY <3>3, <4>1, <4>2 DEF Said
    <3>4. QED
      BY <3>3
  <2>6. QED
    BY <2>1, <2>2, <2>3, <2>4, <2>5, TextKeeps
<1>2. CASE Refuse
  <2>1. /\ pc = "scope" /\ text_delta("refusal") /\ Becomes("done")
    BY <1>2 DEF Refuse
  <2>2. \A u \in View : Said(pc, enc, u, plain) => InStep(u, enc)
    BY <2>1 DEF Said
  <2>3. \A u, z \in View :
           /\ Said(pc, enc, u, plain) /\ InStep(z, enc')
           /\ z.calls = u.calls /\ z.answered = u.answered
           /\ z.texts = u.texts \cup Words("refusal")
           /\ enc.text = NoId \/ u.blocks # 0 => z.blocks # 0
           => Said("done", enc', z, plain)
    BY ChatStreamAssumption, <2>1 DEF Said, Words
  <2>4. QED
    BY <2>1, <2>2, <2>3, TextKeeps
<1>3. CASE Answer
  <2>1. /\ pc = "answer" /\ text_delta("answer") /\ Becomes("table")
    BY <1>3 DEF Answer
  <2>2. \A u \in View : Said(pc, enc, u, plain) => InStep(u, enc) /\ u.answered # {}
    BY <2>1 DEF Said
  <2>3. \A u, z \in View :
           /\ Said(pc, enc, u, plain) /\ InStep(z, enc')
           /\ z.calls = u.calls /\ z.answered = u.answered
           /\ z.texts = u.texts \cup Words("answer")
           /\ enc.text = NoId \/ u.blocks # 0 => z.blocks # 0
           => Said("table", enc', z, plain)
    BY ChatStreamAssumption, <2>1 DEF Said, Words
  <2>4. QED
    BY <2>1, <2>2, <2>3, TextKeeps
<1>4. CASE Error
  <2>1. /\ pc \in {"question", "scope", "answer", "table"}
        /\ text_delta("error") /\ Becomes("done")
    BY <1>4 DEF Error
  <2>2. \A u \in View : Said(pc, enc, u, plain) => InStep(u, enc)
    BY <2>1 DEF Said
  <2>3. \A u, z \in View :
           /\ Said(pc, enc, u, plain) /\ InStep(z, enc')
           /\ z.calls = u.calls /\ z.answered = u.answered
           /\ z.texts = u.texts \cup Words("error")
           /\ enc.text = NoId \/ u.blocks # 0 => z.blocks # 0
           => Said("done", enc', z, plain)
    BY ChatStreamAssumption, <2>1 DEF Said, Words
  <2>4. QED
    BY <2>1, <2>2, <2>3, TextKeeps
<1>5. QED
  BY <1>1, <1>2, <1>3, <1>4

LEMMA TableKeeps == ASSUME StreamInv, Table PROVE StreamInv'
<1> USE DEF StreamStage, Text
<1>1. pc = "table" /\ Becomes("suggest")
  BY DEF Table
<1>2. CASE text_delta("table")
  <2>1. \A u \in View : Said(pc, enc, u, plain) => InStep(u, enc) /\ u.answered # {}
    BY <1>1 DEF Said
  <2>2. \A u, z \in View :
           /\ Said(pc, enc, u, plain) /\ InStep(z, enc')
           /\ z.calls = u.calls /\ z.answered = u.answered
           /\ z.texts = u.texts \cup Words("table")
           /\ enc.text = NoId \/ u.blocks # 0 => z.blocks # 0
           => Said("suggest", enc', z, plain)
    BY ChatStreamAssumption, <1>1 DEF Said, Words
  <2>3. QED
    BY <1>1, <1>2, <2>1, <2>2, TextKeeps
<1>3. CASE UNCHANGED <<enc, wire>>
  <2>1. \A u \in View : Said(pc, enc, u, plain) => Said("suggest", enc, u, plain)
    BY <1>1 DEF Said
  <2>2. QED
    BY <1>1, <1>3, <2>1, SilentKeeps
<1>4. QED
  BY <1>2, <1>3 DEF Table

LEMMA EncodingFailsKeeps == ASSUME StreamInv, EncodingFails PROVE StreamInv'
<1>1. ~plain /\ pc = "scope" /\ Becomes("done") /\ UNCHANGED <<enc, wire>>
  BY DEF EncodingFails
<1>2. \A u \in View : Said(pc, enc, u, plain) => Said("done", enc, u, plain)
  BY <1>1 DEF Said
<1>3. "done" \in StreamStage
  BY DEF StreamStage
<1>4. QED
  BY <1>1, <1>2, <1>3, SilentKeeps

LEMMA EndedIs ==
  ASSUME enc \in Encoder
  PROVE  /\ Ended \in Encoder /\ text_end \in Seq(Frame)
         /\ Ended.text = NoId /\ Ended.text_n = enc.text_n
         /\ Ended.tool = enc.tool /\ Ended.tool_n = enc.tool_n
<1>1. Ended \in Encoder
  BY NewText DEF Ended
<1>2. /\ Ended.text = NoId /\ Ended.text_n = enc.text_n
      /\ Ended.tool = enc.tool /\ Ended.tool_n = enc.tool_n
  BY DEF Ended, Encoder
<1>3. text_end \in Seq(Frame)
  <2>1. CASE enc.text = NoId
    BY <2>1 DEF text_end
  <2>2. CASE enc.text # NoId
    <3> DEFINE f == Id("text-end", enc.text)
    <3>1. enc.text \in Nat
      BY <2>2 DEF Encoder
    <3>2. f \in Frame
      BY <3>1, Frames DEF FrameType
    <3>3. text_end = <<f>>
      BY <2>2 DEF text_end
    <3> HIDE DEF f
    <3>4. QED
      BY <3>2, <3>3
  <2>3. QED
    BY <2>1, <2>2
<1>4. QED
  BY <1>1, <1>2, <1>3

LEMMA AppendLater ==
  ASSUME NEW w \in Seq(Frame), NEW e \in Seq(Frame), NEW f \in Frame
  PROVE  /\ w \o e \in Seq(Frame) /\ Append(e, f) \in Seq(Frame)
         /\ w \o Append(e, f) = Append(w \o e, f)
<1>1. /\ w \o e \in Seq(Frame) /\ Append(e, f) \in Seq(Frame)
      /\ w \o Append(e, f) \in Seq(Frame) /\ Append(w \o e, f) \in Seq(Frame)
  OBVIOUS
<1>2. Len(w \o Append(e, f)) = Len(Append(w \o e, f))
  OBVIOUS
<1>3. ASSUME NEW i \in 1..Len(w \o Append(e, f))
      PROVE  (w \o Append(e, f))[i] = Append(w \o e, f)[i]
  <2>1. CASE i <= Len(w)
    BY <2>1
  <2>2. CASE i > Len(w) /\ i <= Len(w) + Len(e)
    BY <2>2
  <2>3. CASE i = Len(w) + Len(e) + 1
    BY <2>3
  <2>4. QED
    BY <2>1, <2>2, <2>3
<1>4. QED
  BY <1>1, <1>2, <1>3

\* What is sent after the end of a block.
LEMMA SentAfterEnd ==
  ASSUME NEW w \in Seq(Frame), NEW e \in Seq(Frame), NEW f \in Frame, NEW g \in Frame
  PROVE  /\ w \o e \in Seq(Frame)
         /\ w \o (e \o <<f, g>>) = Append(Append(w \o e, f), g)
         /\ \A h \in Frame :
              w \o (e \o <<f, g, h>>) = Append(Append(Append(w \o e, f), g), h)
<1>1. Append(e, f) \in Seq(Frame) /\ Append(Append(e, f), g) \in Seq(Frame)
  OBVIOUS
<1>2. w \o Append(Append(e, f), g) = Append(Append(w \o e, f), g)
  BY <1>1, AppendLater
<1>3. e \o <<f, g>> = Append(Append(e, f), g)
  BY Joined
<1>4. w \o e \in Seq(Frame)
  BY AppendLater
<1>5. ASSUME NEW h \in Frame
      PROVE  w \o (e \o <<f, g, h>>) = Append(Append(Append(w \o e, f), g), h)
  <2>1. e \o <<f, g, h>> = Append(Append(Append(e, f), g), h)
    BY Joined
  <2>2. w \o Append(Append(Append(e, f), g), h) = Append(Append(Append(w \o e, f), g), h)
    BY <1>1, <1>2, AppendLater
  <2>3. QED
    BY <2>1, <2>2, Zenon
<1>6. QED
  BY <1>2, <1>3, <1>4, <1>5, Zenon

LEMMA ToolSQLKeeps == ASSUME StreamInv, ToolSQL PROVE StreamInv'
<1> DEFINE n == enc.tool_n
           f == Id("tool-input-start", n)
           g == Id("tool-input-available", n)
           w == wire \o text_end
<1>1. /\ UNCHANGED <<plain, connected, view>> /\ pc = "question" /\ pc' = "scope"
      /\ pc' \in StreamStage
      /\ enc' = [Ended EXCEPT !.tool = enc.tool_n, !.tool_n = @ + 1]
      /\ Send(text_end \o <<f, g>>)
  BY DEF ToolSQL, Becomes, tool_input, StreamStage
<1>2. n \in Nat /\ f \in Frame /\ g \in Frame
  <2>1. n \in Nat
    BY StreamKnown DEF Encoder
  <2>2. QED
    BY <2>1, Frames DEF FrameType
<1>3. /\ enc' \in Encoder /\ enc'.tool = n /\ enc'.tool_n = n + 1
      /\ enc'.text_n = enc.text_n /\ enc'.text = NoId
  <2>1. Ended \in Encoder /\ Ended.tool_n = enc.tool_n
        /\ Ended.text_n = enc.text_n /\ Ended.text = NoId
    BY StreamKnown, EndedIs
  <2>2. QED
    BY <1>1, <2>1, Announced
<1>4. w \in Seq(Frame) /\ (connected => wire' = Append(Append(w, f), g))
      /\ (~connected => wire' = wire)
  <2>1. text_end \in Seq(Frame) /\ wire \in Seq(Frame)
    BY StreamKnown, EndedIs
  <2>2. /\ ~connected => wire' = wire
        /\ connected => wire' = wire \o (text_end \o <<f, g>>)
    BY <1>1, SendIs
  <2> HIDE DEF f, g
  <2>3. /\ wire \o text_end \in Seq(Frame)
        /\ wire \o (text_end \o <<f, g>>) = Append(Append(wire \o text_end, f), g)
    BY <1>2, <2>1, SentAfterEnd
  <2>4. QED
    BY <2>2, <2>3
<1>5. ASSUME connected, NEW u \in View,
             Reads(view, wire, u, plain), Said(pc, enc, u, plain)
      PROVE  /\ wire' \in Seq(Frame)
             /\ \E z \in View : Reads(view, wire', z, plain) /\ Said(pc', enc', z, plain)
  <2>1. /\ InStep(u, enc) /\ u.texts = {} /\ u.calls = 0 /\ u.answered = {}
    BY <1>1, <1>5 DEF Said
  <2>2. PICK y \in View : /\ Reads(view, w, y, plain)
                          /\ InStep(y, Ended) /\ y.block = NoId
                          /\ y.calls = u.calls /\ y.answered = u.answered
                          /\ y.texts = u.texts
    BY <1>5, <2>1, StreamKnown, BlockEnds
  <2>3. /\ y.phase = "step" /\ y.calling = NoId /\ y.blocks = enc.text_n /\ y.calls = n
    BY <2>2, StreamKnown, EndedIs DEF InStep
  <2> HIDE DEF w
  <2> DEFINE x == Sees(y, f)
             z == Sees(x, g)
  <2>4. Legal(y, f) /\ f.text = NoId /\ f.type # "[DONE]"
    BY <2>2, <2>3 DEF Legal, Id
  <2>5. /\ x.phase = "step" /\ x.block = NoId /\ x.blocks = y.blocks
        /\ x.calling = n /\ x.calls = n + 1
        /\ x.answered = y.answered /\ x.texts = y.texts
    BY <2>2, <2>3 DEF Sees, Id
  <2>6. /\ Append(w, f) \in Seq(Frame)
        /\ Reads(view, Append(w, f), x, plain) /\ x \in View
    <3> HIDE DEF f
    <3>1. QED
      BY <1>2, <1>4, <2>2, <2>4, StreamKnown, PlainFrame
  <2> HIDE DEF x
  <2>7. Legal(x, g) /\ g.text = NoId /\ g.type # "[DONE]"
    BY <1>2, <2>5, ChatStreamAssumption DEF Legal, Id
  <2>8. /\ z.phase = "step" /\ z.block = NoId /\ z.blocks = x.blocks
        /\ z.calling = NoId /\ z.calls = x.calls
        /\ z.answered = x.answered /\ z.texts = x.texts
    BY <2>5 DEF Sees, Id
  <2>9. /\ wire' \in Seq(Frame) /\ Reads(view, wire', z, plain) /\ z \in View
    <3> DEFINE v == Append(w, f)
    <3>1. v \in Seq(Frame) /\ Reads(view, v, x, plain) /\ wire' = Append(v, g)
      BY <1>4, <1>5, <2>6
    <3> HIDE DEF f, g, v
    <3>2. QED
      BY <1>2, <2>6, <2>7, <3>1, StreamKnown, PlainFrame
  <2> HIDE DEF z
  <2>10. Said("scope", enc', z, plain)
    <3>1. n = 0
      BY <2>1, <2>2, <2>3
    <3> HIDE DEF n
    <3>2. z.calls = 1 /\ enc'.tool_n = 1 /\ enc'.tool = 0
      BY <1>3, <2>5, <2>8, <3>1
    <3>3. InStep(z, enc')
      BY <1>3, <2>3, <2>5, <2>8, <3>2 DEF InStep
    <3>4. QED
      BY <1>3, <2>1, <2>2, <2>5, <2>8, <3>2, <3>3 DEF Said
  <2>11. QED
    BY <1>1, <2>9, <2>10
<1>6. connected => wire' \in Seq(Frame)
  BY <1>5 DEF StreamInv
<1>7. QED
  BY <1>1, <1>3, <1>4, <1>5, <1>6, ServerKeeps

LEMMA ToolResultKeeps == ASSUME StreamInv, ToolResult PROVE StreamInv'
<1> DEFINE n == IF enc.tool = NoId THEN 0 ELSE enc.tool
           f == Id("tool-output-available", n)
<1>1. /\ UNCHANGED <<plain, connected, view, enc>> /\ pc = "scope" /\ pc' = "answer"
      /\ pc' \in StreamStage
      /\ Send(<<f>>)
  BY DEF ToolResult, Becomes, tool_output, StreamStage
<1>2. n \in Nat /\ f \in Frame
  <2>1. n \in Nat
    BY StreamKnown DEF Encoder
  <2>2. QED
    BY <2>1, Frames DEF FrameType
<1>3. (connected => wire' = Append(wire, f)) /\ (~connected => wire' = wire)
  <2>1. /\ ~connected => wire' = wire
        /\ connected => wire' = wire \o <<f>>
    BY <1>1, SendIs
  <2> HIDE DEF f
  <2>2. QED
    BY <1>2, <2>1, Joined, StreamKnown
<1>4. ASSUME connected, NEW u \in View,
             Reads(view, wire, u, plain), Said(pc, enc, u, plain)
      PROVE  /\ wire' \in Seq(Frame)
             /\ \E z \in View : Reads(view, wire', z, plain) /\ Said(pc', enc', z, plain)
  <2> DEFINE z == Sees(u, f)
  <2>1. /\ InStep(u, enc) /\ u.texts = {} /\ u.calls = 1 /\ u.answered = {}
        /\ enc.text = NoId /\ n = 0 /\ f.id = 0
    BY <1>1, <1>4, ChatStreamAssumption DEF Said, Id
  <2>2. Legal(u, f) /\ f.text = NoId /\ f.type # "[DONE]"
    <3>1. 0 \in (0..1-1) \ {}
      OBVIOUS
    <3>2. QED
      BY <2>1, <3>1 DEF Legal, Id, InStep
  <2>3. /\ z.phase = "step" /\ z.block = u.block /\ z.blocks = u.blocks
        /\ z.calling = NoId /\ z.calls = u.calls
        /\ z.answered = {0} /\ z.texts = {}
    BY <2>1 DEF Sees, Id, InStep
  <2>4. /\ Append(wire, f) \in Seq(Frame)
        /\ Reads(view, Append(wire, f), z, plain) /\ z \in View
    <3> HIDE DEF f
    <3>1. QED
      BY <1>2, <1>4, <2>2, StreamKnown, PlainFrame
  <2> HIDE DEF z, f
  <2>5. Said("answer", enc, z, plain)
    BY <2>1, <2>3 DEF Said, InStep
  <2>6. QED
    BY <1>1, <1>3, <1>4, <2>4, <2>5
<1>5. connected => wire' \in Seq(Frame)
  BY <1>4 DEF StreamInv
<1>6. QED
  BY <1>1, <1>3, <1>4, <1>5, StreamKnown, ServerKeeps

LEMMA SuggestKeeps == ASSUME StreamInv, Suggest PROVE StreamInv'
<1>1. /\ pc = "suggest" /\ Becomes("done") /\ "done" \in StreamStage
      /\ UNCHANGED <<plain, connected, view>> /\ pc' = "done"
  BY DEF Suggest, Becomes, StreamStage
<1>2. CASE UNCHANGED <<enc, wire>>
  <2>1. \A u \in View : Said(pc, enc, u, plain) => Said("done", enc, u, plain)
    <3>1. 0..1-1 = {0}
      OBVIOUS
    <3>2. QED
      BY <1>1, <3>1 DEF Said
  <2>2. QED
    BY <1>1, <1>2, <2>1, SilentKeeps
<1>3. CASE suggestions
  <2> DEFINE f == F("data-suggestions")
             w == wire \o text_end
  <2>1. enc' = Ended /\ Send(Append(text_end, f))
    BY <1>3 DEF suggestions
  <2>2. f \in Frame
    BY Frames DEF FrameType
  <2>3. /\ w \in Seq(Frame) /\ enc' \in Encoder
        /\ (connected => wire' = Append(w, f)) /\ (~connected => wire' = wire)
    <3>1. text_end \in Seq(Frame) /\ wire \in Seq(Frame) /\ Ended \in Encoder
      BY StreamKnown, EndedIs
    <3>2. /\ ~connected => wire' = wire
          /\ connected => wire' = wire \o Append(text_end, f)
      BY <2>1, SendIs
    <3> HIDE DEF f
    <3>3. QED
      BY <2>1, <2>2, <3>1, <3>2, AppendLater
  <2>4. ASSUME connected, NEW u \in View,
               Reads(view, wire, u, plain), Said(pc, enc, u, plain)
        PROVE  /\ wire' \in Seq(Frame)
               /\ \E z \in View : Reads(view, wire', z, plain) /\ Said(pc', enc', z, plain)
    <3>1. InStep(u, enc) /\ u.calls = 1 /\ u.answered = {0} /\ u.texts # {} /\ u.blocks # 0
      BY <1>1, <2>4 DEF Said
    <3>2. PICK y \in View : /\ Reads(view, w, y, plain)
                            /\ InStep(y, Ended) /\ y.block = NoId
                            /\ y.blocks = u.blocks /\ y.calls = u.calls /\ y.answered = u.answered
                            /\ y.texts = u.texts
      BY <2>4, <3>1, StreamKnown, BlockEnds
    <3> HIDE DEF w
    <3> DEFINE z == Sees(y, f)
    <3>3. Legal(y, f) /\ f.text = NoId /\ f.type # "[DONE]"
      BY <3>2 DEF Legal, F, InStep
    <3>4. /\ z.phase = y.phase /\ z.block = y.block /\ z.blocks = y.blocks
          /\ z.calling = y.calling /\ z.calls = y.calls
          /\ z.answered = y.answered /\ z.texts = y.texts
      BY DEF Sees, F
    <3>5. /\ Append(w, f) \in Seq(Frame)
          /\ Reads(view, Append(w, f), z, plain) /\ z \in View
      <4> HIDE DEF f
      <4>1. QED
        BY <2>2, <2>3, <3>2, <3>3, StreamKnown, PlainFrame
    <3> HIDE DEF z, f
    <3>6. Said("done", enc', z, plain)
      <4>1. 0..1-1 = {0}
        OBVIOUS
      <4>2. QED
        BY <2>1, <3>1, <3>2, <3>4, <4>1 DEF Said, InStep
    <3>7. QED
      BY <1>1, <2>3, <2>4, <3>5, <3>6
  <2>5. connected => wire' \in Seq(Frame)
    BY <2>4 DEF StreamInv
  <2>6. QED
    BY <1>1, <2>3, <2>4, <2>5, ServerKeeps
<1>4. QED
  BY <1>2, <1>3 DEF Suggest

LEMMA FinishKeeps == ASSUME StreamInv, Finish PROVE StreamInv'
<1> DEFINE f == F("finish-step")
           g == F("finish")
           h == F("[DONE]")
           w == wire \o text_end
<1>1. /\ UNCHANGED <<plain, connected, view>> /\ pc = "done" /\ pc' = "finished"
      /\ pc' \in StreamStage /\ enc' = Ended
      /\ Send(text_end \o <<f, g, h>>)
  BY DEF Finish, Becomes, finish, StreamStage
<1>2. f \in Frame /\ g \in Frame /\ h \in Frame
  BY Frames DEF FrameType
<1>3. text_end \in Seq(Frame) /\ wire \in Seq(Frame) /\ enc' \in Encoder
  BY <1>1, StreamKnown, EndedIs
<1>4. /\ w \in Seq(Frame)
      /\ connected => wire' = Append(Append(Append(w, f), g), h)
      /\ ~connected => wire' = wire
  <2>1. /\ ~connected => wire' = wire
        /\ connected => wire' = wire \o (text_end \o <<f, g, h>>)
    BY <1>1, SendIs
  <2> HIDE DEF f, g, h
  <2>2. /\ wire \o text_end \in Seq(Frame)
        /\ wire \o (text_end \o <<f, g, h>>)
             = Append(Append(Append(wire \o text_end, f), g), h)
    BY <1>2, <1>3, SentAfterEnd
  <2>3. QED
    BY <2>1, <2>2
<1>5. ASSUME connected, NEW u \in View,
             Reads(view, wire, u, plain), Said(pc, enc, u, plain)
      PROVE  /\ wire' \in Seq(Frame)
             /\ \E z \in View : Reads(view, wire', z, plain) /\ Said(pc', enc', z, plain)
  <2>1. /\ InStep(u, enc)
        /\ plain => u.blocks # 0
        /\ plain /\ u.calls # 0 => u.texts # {}
        /\ plain /\ u.answered # 0..u.calls-1 => u.texts \cap {"refusal", "error"} # {}
    BY <1>1, <1>5 DEF Said
  <2>2. PICK y \in View : /\ Reads(view, w, y, plain)
                          /\ InStep(y, Ended) /\ y.block = NoId
                          /\ y.blocks = u.blocks /\ y.calls = u.calls /\ y.answered = u.answered
                          /\ y.texts = u.texts
    BY <1>5, <2>1, StreamKnown, BlockEnds
  <2> HIDE DEF w
  <2> DEFINE x == Sees(y, f)
  <2>3. Legal(y, f) /\ f.text = NoId /\ f.type # "[DONE]"
    BY <2>2 DEF Legal, F, InStep
  <2>4. /\ x.phase = "stepped" /\ x.blocks = u.blocks /\ x.calls = u.calls
        /\ x.answered = u.answered /\ x.texts = u.texts
    BY <2>2 DEF Sees, F
  <2>5. Append(w, f) \in Seq(Frame) /\ Reads(view, Append(w, f), x, plain) /\ x \in View
    <3> HIDE DEF f
    <3>1. QED
      BY <1>2, <1>4, <2>2, <2>3, StreamKnown, PlainFrame
  <2> DEFINE w1 == Append(w, f)
  <2>6. w1 \in Seq(Frame) /\ Reads(view, w1, x, plain)
        /\ wire' = Append(Append(w1, g), h)
    BY <1>4, <1>5, <2>5
  <2> HIDE DEF x, w1
  <2> DEFINE t == Sees(x, g)
  <2>7. Legal(x, g) /\ g.text = NoId /\ g.type # "[DONE]"
    BY <2>4 DEF Legal, F
  <2>8. /\ t.phase = "finished" /\ t.blocks = u.blocks /\ t.calls = u.calls
        /\ t.answered = u.answered /\ t.texts = u.texts
    BY <2>4 DEF Sees, F
  <2>9. Append(w1, g) \in Seq(Frame) /\ Reads(view, Append(w1, g), t, plain) /\ t \in View
    <3> HIDE DEF g
    <3>1. QED
      BY <1>2, <2>5, <2>6, <2>7, StreamKnown, PlainFrame
  <2> DEFINE w2 == Append(w1, g)
  <2>10. w2 \in Seq(Frame) /\ Reads(view, w2, t, plain) /\ wire' = Append(w2, h)
    BY <2>6, <2>9
  <2> HIDE DEF t, w2
  <2> DEFINE z == Sees(t, h)
  <2>11. Legal(t, h)
    BY <2>8 DEF Legal, F
  <2>12. /\ z.phase = "closed" /\ z.blocks = u.blocks /\ z.calls = u.calls
         /\ z.answered = u.answered /\ z.texts = u.texts
    BY <2>8 DEF Sees, F
  <2>13. Told(u, plain)
    BY <1>5, WayEnds, StreamKnown
  <2>14. Told(z, plain)
    <3> HIDE DEF z
    <3>1. QED
      BY <2>1, <2>12, <2>13 DEF Told
  <2>15. Reads(view, Append(w2, h), z, plain) /\ z \in View
    <3> HIDE DEF h
    <3>1. QED
      BY <1>2, <2>9, <2>10, <2>11, <2>14, StreamKnown, OneMore
  <2>16. wire' \in Seq(Frame)
    <3> HIDE DEF h
    <3>1. QED
      BY <1>2, <2>10
  <2>17. Said("finished", enc', z, plain)
    BY DEF Said
  <2> HIDE DEF z, h
  <2>18. QED
    BY <1>1, <2>10, <2>15, <2>16, <2>17
<1>6. connected => wire' \in Seq(Frame)
  BY <1>5 DEF StreamInv
<1>7. QED
  BY <1>1, <1>3, <1>4, <1>5, <1>6, ServerKeeps

LEMMA CancelledKeeps == ASSUME StreamInv, Cancelled PROVE StreamInv'
<1>1. /\ ~connected /\ pc' = "cancelled" /\ pc' \in StreamStage
      /\ UNCHANGED <<plain, enc, wire, connected, view>>
  BY DEF Cancelled, StreamStage
<1>2. QED
  BY <1>1, StreamKnown, ServerKeeps

LEMMA LeaveKeeps == ASSUME StreamInv, Leave PROVE StreamInv'
<1>1. /\ connected' = FALSE /\ wire' = <<>>
      /\ UNCHANGED <<plain, pc, enc, view>>
  BY DEF Leave
<1>2. StreamTypeOK' /\ Told(view, plain)'
  <2>1. <<>> \in Seq(Frame)
    OBVIOUS
  <2>2. QED
    BY <1>1, <2>1 DEF StreamInv, StreamTypeOK
<1>3. QED
  BY <1>1, <1>2 DEF StreamInv

\* What a client makes of a frame it may be sent, is what Sees says.
LEMMA ReceiveIs ==
  ASSUME view \in View, wire \in Seq(Frame), Receive, Legal(view, Head(wire))
  PROVE  view' = Sees(view, Head(wire))
<1> DEFINE f == Head(wire)
<1>1. f \in Frame
  BY DEF Receive
<1> USE DEF Receive, Sees, View
<1>2. CASE f.type \in {"start", "start-step"}
  BY <1>2 DEF Legal
<1>3. CASE f.type \in {"text-start"}
  BY <1>3
<1>4. CASE f.type \in {"text-delta", "text-end"}
  BY <1>4
<1>5. CASE f.type \in {"tool-input-start", "tool-input-available"}
  BY <1>5
<1>6. CASE f.type \in {"tool-output-available", "data-suggestions"}
  BY <1>6
<1>7. CASE f.type \in {"finish-step", "finish", "[DONE]"}
  BY <1>7
<1>8. QED
  BY <1>1, <1>2, <1>3, <1>4, <1>5, <1>6, <1>7 DEF Frame, FrameType

LEMMA ReceiveKeeps == ASSUME StreamInv, Receive PROVE StreamInv'
<1>1. /\ connected /\ wire # <<>> /\ wire' = Tail(wire)
      /\ UNCHANGED <<plain, pc, enc, connected>>
  BY DEF Receive
<1>2. PICK u \in View : Reads(view, wire, u, plain) /\ Said(pc, enc, u, plain)
  BY <1>1 DEF StreamInv
<1>3. /\ Legal(view, Head(wire)) /\ Sees(view, Head(wire)) \in View
      /\ Told(Sees(view, Head(wire)), plain)
      /\ Reads(Sees(view, Head(wire)), Tail(wire), u, plain)
  BY <1>1, <1>2, StreamKnown, OneLess
<1>4. view' = Sees(view, Head(wire))
  BY <1>3, StreamKnown, ReceiveIs
<1>5. wire' \in Seq(Frame)
  BY <1>1, StreamKnown
<1>6. StreamTypeOK'
  BY <1>1, <1>3, <1>4, <1>5, StreamKnown DEF StreamTypeOK, Encoder, View
<1>7. Told(view, plain)'
  BY <1>1, <1>3, <1>4
<1>8. (connected => \E x \in View : Reads(view, wire, x, plain) /\ Said(pc, enc, x, plain))'
  BY <1>1, <1>2, <1>3, <1>4
<1>9. QED
  BY <1>1, <1>6, <1>7, <1>8 DEF StreamInv

LEMMA StreamInitInv == StreamInit => StreamInv
<1> SUFFICES ASSUME StreamInit PROVE StreamInv
  OBVIOUS
<1> USE ChatStreamAssumption DEF StreamInit
<1>1. StreamTypeOK
  BY DEF StreamTypeOK, StreamStage
<1>2. view \in View
  BY DEF View
<1>3. Told(view, plain)
  BY DEF Told
<1>4. Reads(view, wire, view, plain)
  BY <1>2, <1>3, NothingAhead
<1>5. Said(pc, enc, view, plain)
  BY DEF Said
<1>6. QED
  BY <1>1, <1>2, <1>3, <1>4, <1>5 DEF StreamInv

LEMMA StreamNextInv == StreamInv /\ [StreamNext]_streaming => StreamInv'
<1> SUFFICES ASSUME StreamInv, [StreamNext]_streaming PROVE StreamInv'
  OBVIOUS
<1>1. CASE Server
  BY <1>1, OpenKeeps, TextEventsKeep, ToolSQLKeeps, ToolResultKeeps, EncodingFailsKeeps,
     TableKeeps, SuggestKeeps, FinishKeeps, CancelledKeeps DEF Server
<1>2. CASE Receive
  BY <1>2, ReceiveKeeps
<1>3. CASE Leave
  BY <1>3, LeaveKeeps
<1>4. CASE UNCHANGED streaming
  <2>1. UNCHANGED <<plain, pc, enc, wire, connected, view>>
    BY <1>4 DEF streaming
  <2>2. QED
    BY <2>1 DEF StreamInv, StreamTypeOK
<1>5. QED
  BY <1>1, <1>2, <1>3, <1>4 DEF StreamNext

LEMMA StreamInductive == StreamSpec => []StreamInv
  BY StreamInitInv, StreamNextInv, PTL DEF StreamSpec

\* Whatever a client does, server, wire and view stay in their types.
THEOREM StreamTypeCorrect == StreamSpec => []StreamTypeOK
<1>1. StreamInv => StreamTypeOK
  BY DEF StreamInv
<1>2. QED
  BY <1>1, StreamInductive, PTL

\* Whenever a client stops reading, what it has read is explained.
THEOREM RowsExplained == StreamSpec => []PlainRowsAreExplained
<1>1. StreamInv => PlainRowsAreExplained
  BY DEF StreamInv, Told, PlainRowsAreExplained
<1>2. QED
  BY <1>1, StreamInductive, PTL

\* A frame that is legal is a step of the protocol.
LEMMA LegalIsProtocol ==
  ASSUME NEW f \in Frame, view \in View, Legal(view, f), view' = Sees(view, f)
  PROVE  Protocol!Next
<1> DEFINE between == view.phase = "step" /\ view.block = NoId /\ view.calling = NoId
<1> USE DEF Sees, Protocol!Next, Protocol!Frame
<1>1. CASE f.type = "start" /\ view.phase = "new"
  BY <1>1 DEF Protocol!Start, Protocol!Enter
<1>2. CASE f.type = "start-step" /\ view.phase = "started"
  BY <1>2 DEF Protocol!StartStep, Protocol!Enter
<1>3. CASE f.type = "text-start" /\ between /\ f.id = view.blocks
  BY <1>3 DEF Protocol!TextStart, Protocol!Between
<1>4. CASE f.type = "text-delta" /\ view.phase = "step" /\ view.block # NoId /\ f.id = view.block
  BY <1>4 DEF Protocol!TextDelta
<1>5. CASE f.type = "text-end" /\ view.phase = "step" /\ view.block # NoId
  BY <1>5 DEF Protocol!TextEnd
<1>6. CASE f.type = "tool-input-start" /\ between /\ f.id = view.calls
  BY <1>6 DEF Protocol!ToolInputStart, Protocol!Between
<1>7. CASE f.type = "tool-input-available" /\ view.phase = "step" /\ view.calling # NoId
  BY <1>7 DEF Protocol!ToolInputAvailable
<1>8. CASE f.type = "tool-output-available" /\ between
           /\ f.id \in (0..view.calls-1) \ view.answered
  BY <1>8 DEF Protocol!ToolOutputAvailable, Protocol!Between
<1>9. CASE f.type = "data-suggestions" /\ between
  BY <1>9 DEF Protocol!DataSuggestions, Protocol!Between
<1>10. CASE f.type = "finish-step" /\ between
  BY <1>10 DEF Protocol!FinishStep, Protocol!Enter, Protocol!Between
<1>11. CASE f.type = "finish" /\ view.phase = "stepped"
  BY <1>11 DEF Protocol!Finish, Protocol!Enter
<1>12. CASE f.type = "[DONE]" /\ view.phase = "finished"
  BY <1>12 DEF Protocol!Done, Protocol!Enter
<1>13. QED
  BY <1>1, <1>2, <1>3, <1>4, <1>5, <1>6, <1>7, <1>8, <1>9, <1>10, <1>11, <1>12 DEF Legal

\* The stream implements the protocol: the server's steps are none of the client's.
THEOREM StreamRefines == StreamSpec => FollowsProtocol
<1>1. StreamInit => Protocol!Init
  BY DEF StreamInit, Protocol!Init
<1>2. StreamInv /\ [StreamNext]_streaming => [Protocol!Next]_(Protocol!vars)
  <2> SUFFICES ASSUME StreamInv, [StreamNext]_streaming
               PROVE  [Protocol!Next]_(Protocol!vars)
    OBVIOUS
  <2>1. CASE Receive
    <3>1. /\ connected /\ wire # <<>>
      BY <2>1 DEF Receive
    <3>2. PICK u \in View : Reads(view, wire, u, plain)
      BY <3>1 DEF StreamInv
    <3>3. Legal(view, Head(wire)) /\ Head(wire) \in Frame
      BY <3>1, <3>2, StreamKnown, OneLess
    <3>4. view' = Sees(view, Head(wire))
      BY <2>1, <3>3, StreamKnown, ReceiveIs
    <3>5. QED
      BY <3>3, <3>4, StreamKnown, LegalIsProtocol
  <2>2. CASE UNCHANGED view
    BY <2>2 DEF Protocol!vars
  <2>3. CASE Server
    <3>1. UNCHANGED view
      BY <2>3 DEF Server, Open, Reply, ToolSQL, Refuse, ToolResult, EncodingFails,
                  Answer, Table, Suggest, Error, Finish, Cancelled, Becomes
    <3>2. QED
      BY <2>2, <3>1
  <2>4. CASE Leave
    BY <2>2, <2>4 DEF Leave
  <2>5. QED
    BY <2>1, <2>2, <2>3, <2>4 DEF StreamNext, streaming
<1>3. QED
  BY <1>1, <1>2, StreamInductive, PTL DEF StreamSpec, FollowsProtocol, Protocol!Spec

-----------------------------------------------------------------------------
(* Lifespan: shutdown.                                                     *)

Idle == \A r \in Request : serving[r] = "none"

\* What is open, and who still runs, by the phase.
PhaseFacts ==
  /\ phase = "new" => sweeper = "none" /\ Idle
  /\ phase \in {"up", "draining", "sweeper", "engine"} => open = Resource
  /\ phase \in {"sweeper", "engine", "analytics", "embedder"} => Idle
  /\ phase \in {"engine", "analytics", "embedder"} => sweeper = "ended"
  /\ phase = "analytics" => open = {"analytics", "embedder"}
  /\ phase = "embedder" => open = {"embedder"}
  /\ phase # "down" => ~forced

LifeInv == LifeTypeOK /\ PhaseFacts /\ NothingIsLeftOpen

LEMMA LifeInitInv == LifeInit => LifeInv
  BY DEF LifeInit, LifeInv, LifeTypeOK, PhaseFacts, NothingIsLeftOpen, Idle, Phase

LEMMA LifeStep == LifeInv /\ [LifeNext]_lifeVars => LifeInv'
<1> SUFFICES ASSUME LifeInv, [LifeNext]_lifeVars PROVE LifeInv'
  OBVIOUS
<1> USE DEF LifeInv, LifeTypeOK, PhaseFacts, NothingIsLeftOpen, Idle, Phase, Resource
<1>1. CASE Startup
  BY <1>1 DEF Startup
<1>2. CASE StartupFails
  BY <1>2 DEF StartupFails
<1>3. CASE WarmedUp
  BY <1>3 DEF WarmedUp
<1>4. ASSUME NEW r \in Request, Serve(r) PROVE LifeInv'
  BY <1>4 DEF Serve
<1>5. ASSUME NEW r \in Request, Proceed(r) \/ Disconnect(r) \/ Respond(r) PROVE LifeInv'
  <2>1. /\ phase # "down" /\ serving[r] # "none"
        /\ UNCHANGED <<phase, open, sweeper, cancelled, warmup, forced>>
        /\ serving' \in [Request -> {"none", "embed", "query", "commit"}]
    BY <1>5 DEF Proceed, Disconnect, Respond
  <2>2. phase \in {"up", "draining"}
    BY <2>1
  <2>3. QED
    BY <2>1, <2>2
<1>6. CASE Wake \/ SweepEnds \/ CancelledError
  <2>1. PICK state \in {"sleep", "sweep", "rollback", "ended"} : Sweeping(state)
    BY <1>6 DEF Wake, SweepEnds, CancelledError
  <2>2. sweeper \in {"sleep", "sweep", "rollback"}
    BY <1>6 DEF Wake, SweepEnds, CancelledError
  <2>3. QED
    BY <2>1, <2>2 DEF Sweeping
<1>7. CASE Signal
  BY <1>7 DEF Signal
<1>8. CASE StopSweeper
  BY <1>8 DEF StopSweeper
<1>9. CASE SweeperStopped
  BY <1>9 DEF SweeperStopped
<1>10. CASE DisposeEngine
  BY <1>10 DEF DisposeEngine, Dispose
<1>11. CASE DisposeAnalytics
  BY <1>11 DEF DisposeAnalytics, Dispose
<1>12. CASE DisposeEmbedder
  BY <1>12 DEF DisposeEmbedder, Dispose
<1>13. CASE ForceExit
  BY <1>13 DEF ForceExit
<1>14. CASE UNCHANGED lifeVars
  BY <1>14 DEF lifeVars
<1>15. QED
  BY <1>1, <1>2, <1>3, <1>4, <1>5, <1>6, <1>7, <1>8, <1>9, <1>10, <1>11, <1>12, <1>13, <1>14
     DEF LifeNext, Teardown

(* Whatever the number of requests, nothing that was closed is used, and a *)
(* process that ends in its own time leaves nothing open: main.py lifespan *)
(* and tasks/sweeper.py stop_sweeper.                                      *)
THEOREM ShutdownIsOrderly == LifeSpec => [](LifeTypeOK /\ OrderlyShutdown)
<1>1. LifeInv => LifeTypeOK /\ OrderlyShutdown
  BY DEF LifeInv, LifeTypeOK, PhaseFacts, Idle, OrderlyShutdown, ClosedIsNotUsed, Phase, Resource
<1>2. QED
  BY <1>1, LifeInitInv, LifeStep, PTL DEF LifeSpec

\* The steps until the process has ended, once the requests are over.
Closing == phase \in {"sweeper", "engine", "analytics", "embedder"}

Ahead ==
  (CASE phase = "sweeper" -> 4 [] phase = "engine" -> 3 [] phase = "analytics" -> 2
     [] phase = "embedder" -> 1 [] OTHER -> 0)
    + (CASE sweeper = "sweep" -> 2 [] sweeper \in {"sleep", "rollback"} -> 1 [] OTHER -> 0)

\* The task is there from startup on, and stop_sweeper alone cancels it.
SweeperFacts ==
  /\ phase \notin {"new", "down"} => sweeper # "none"
  /\ phase \in {"new", "up", "draining"} => ~cancelled
  /\ Closing => cancelled

\* The one that is waited for can go on: the sweeper has been told to end.
CanClose ==
  /\ phase = "sweeper" =>
       sweeper = "ended" \/ (cancelled /\ sweeper \in {"sleep", "sweep", "rollback"})
  /\ Closing => Ahead \in 1..6

LEMMA SweeperStep == LifeInv /\ SweeperFacts /\ [LifeNext]_lifeVars => SweeperFacts'
<1> SUFFICES ASSUME LifeInv, SweeperFacts, [LifeNext]_lifeVars PROVE SweeperFacts'
  OBVIOUS
<1> USE DEF SweeperFacts, Closing
<1>1. phase \in Phase
  BY DEF LifeInv, LifeTypeOK
<1>2. ASSUME NEW r \in Request, Serve(r) \/ Proceed(r) \/ Disconnect(r) \/ Respond(r)
      PROVE  SweeperFacts'
  BY <1>2 DEF Serve, Proceed, Disconnect, Respond
<1>3. CASE Wake \/ SweepEnds \/ CancelledError
  BY <1>3 DEF Wake, SweepEnds, CancelledError, Sweeping
<1>4. CASE Startup \/ StartupFails \/ WarmedUp \/ Signal \/ ForceExit
  BY <1>1, <1>4 DEF Startup, StartupFails, WarmedUp, Signal, ForceExit, Phase
<1>5. CASE Teardown
  BY <1>5 DEF Teardown, StopSweeper, SweeperStopped, DisposeEngine, DisposeAnalytics,
     DisposeEmbedder, Dispose
<1>6. CASE UNCHANGED lifeVars
  BY <1>6 DEF lifeVars
<1>7. QED
  BY <1>2, <1>3, <1>4, <1>5, <1>6 DEF LifeNext

\* What happens while the process closes brings its end nearer, but for the warm-up,
\* which ends once and is waited for by nobody.
LEMMA ClosingStep ==
  ASSUME LifeInv, SweeperFacts, LifeNext, Closing
  PROVE  Ahead' < Ahead \/ WarmedUp
<1>1. /\ Idle /\ cancelled /\ sweeper \in {"sleep", "sweep", "rollback", "ended"}
      /\ phase \in {"engine", "analytics", "embedder"} => sweeper = "ended"
  BY DEF LifeInv, LifeTypeOK, PhaseFacts, SweeperFacts, Closing
<1>2. ~(\E r \in Request : Serve(r) \/ Proceed(r) \/ Disconnect(r) \/ Respond(r))
  BY <1>1 DEF Serve, Proceed, Disconnect, Respond, Idle, Closing
<1>3. ~(Startup \/ StartupFails \/ Wake \/ SweepEnds \/ Signal \/ StopSweeper)
  BY <1>1 DEF Startup, StartupFails, Wake, SweepEnds, Signal, StopSweeper, Closing
<1>4. CASE CancelledError
  <2>1. /\ phase' = phase
        /\ \/ sweeper = "sweep" /\ sweeper' = "rollback"
           \/ sweeper \in {"sleep", "rollback"} /\ sweeper' = "ended"
    BY <1>4 DEF CancelledError, Sweeping
  <2>2. QED
    BY <2>1 DEF Ahead, Closing
<1>5. CASE SweeperStopped \/ DisposeEngine \/ DisposeAnalytics \/ DisposeEmbedder
  <2>1. /\ sweeper' = "ended" /\ sweeper = "ended"
        /\ \/ phase = "sweeper" /\ phase' = "engine"
           \/ phase = "engine" /\ phase' = "analytics"
           \/ phase = "analytics" /\ phase' = "embedder"
           \/ phase = "embedder" /\ phase' = "down"
    BY <1>1, <1>5 DEF SweeperStopped, DisposeEngine, DisposeAnalytics, DisposeEmbedder, Dispose
  <2>2. QED
    BY <2>1 DEF Ahead
<1>6. CASE ForceExit
  BY <1>1, <1>6 DEF ForceExit, Ahead, Closing
<1>7. QED
  BY <1>2, <1>3, <1>4, <1>5, <1>6 DEF LifeNext, Teardown

(* A shutdown does not wait for itself, and once the requests are over it  *)
(* takes at most six steps: the sweeper, cancelled at any point of a sweep *)
(* and never again asleep, then the databases (stop_sweeper, lifespan).    *)
THEOREM ShutdownIsShort ==
  LifeSpec => []CanClose /\ [][Closing => Ahead' < Ahead \/ WarmedUp]_lifeVars
<1>1. LifeInit => LifeInv /\ SweeperFacts
  BY LifeInitInv DEF LifeInit, SweeperFacts, Closing
<1>2. LifeInv /\ SweeperFacts /\ [LifeNext]_lifeVars => LifeInv' /\ SweeperFacts'
  BY LifeStep, SweeperStep
<1>3. ASSUME LifeInv, SweeperFacts
      PROVE  CanClose
  <2>1. sweeper \in {"none", "sleep", "sweep", "rollback", "ended"}
    BY <1>3 DEF LifeInv, LifeTypeOK
  <2>2. phase = "sweeper" =>
          sweeper = "ended" \/ (cancelled /\ sweeper \in {"sleep", "sweep", "rollback"})
    BY <1>3, <2>1 DEF SweeperFacts, Closing
  <2>3. Closing => Ahead \in 1..6
    BY <1>3, <2>1 DEF Closing, Ahead
  <2>4. QED
    BY <2>2, <2>3 DEF CanClose
<1>4. LifeInv /\ SweeperFacts /\ [LifeNext]_lifeVars =>
        [Closing => Ahead' < Ahead \/ WarmedUp]_lifeVars
  BY ClosingStep
<1>5. QED
  BY <1>1, <1>2, <1>3, <1>4, PTL DEF LifeSpec

===============================================================================
