\* Under fairness: three turns that lock one another out, and two turns with the
\* sweeper while row sets expire (LivenessFocus).
CONSTANTS
  good = good  bad = bad  priv = priv  s1 = s1  s2 = s2
  t1 = t1  t2 = t2  t3 = t3
  day = day  slash = slash  near = near  far = far
  kday = kday  knear = knear  kfar = kfar
  Turn = {t1, t2, t3}
  Sweeper = sweeper
  Question = {day}
  Key = {kday}
  KeyOf <- NormalKey
  Intent <- IntentOf
  Distance <- DistanceOf
  Threshold = 1
  Template = {good}
  Unsafe <- NothingUnsafe
  Scope = {s1, s2}
  ScopeOf <- LastIsOther
  Denied <- NothingDenied
  TTL = 1
  MaxTime = 1
  MaxHits = 2
  Impatient = {}
  Slow = {t1}
  MaxFaults = 0
  Flaky = {}
  None = None  Absent = Absent  Keep = Keep  Free = Free
SPECIFICATION FairSpec
CONSTRAINT LivenessFocus
INVARIANTS NobodyIsStuck
PROPERTIES ExpiredRowsGo ImplementsSessions
