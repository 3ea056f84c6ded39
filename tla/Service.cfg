\* Analytics: two workers, one connection, two faults.  The stream: rows of either
\* kind.  The process: two requests.
CONSTANTS
  w1 = w1  w2 = w2  w3 = w3  p1 = p1  p2 = p2
  k1 = k1  k2 = k2  k3 = k3  k4 = k4
  Worker = {w1, w2}
  Port = {p1, p2}
  Pool = {k1, k2, k3}
  MaxConnections = 1
  MaxFaults = 2
  Losses = TRUE
  None = None
  NoId = NoId
  r1 = r1  r2 = r2
  Request = {r1, r2}
SPECIFICATION ServiceSpec
INVARIANTS NothingLeaks PoolFitsTunnel RetryHeals
  PlainRowsAreExplained OrderlyShutdown
PROPERTIES EveryQueryEnds FollowsProtocol EndsForAll ShutdownEnds
