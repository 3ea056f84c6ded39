\* Two concurrent turns, nothing fails.
CONSTANTS
  good = good  bad = bad  priv = priv  s1 = s1  s2 = s2
  t1 = t1  t2 = t2  t3 = t3
  day = day  slash = slash  near = near  far = far
  kday = kday  knear = knear  kfar = kfar
  Turn = {t1, t2}
  Sweeper = sweeper
  Question = {day}
  Key = {kday}
  KeyOf <- NormalKey
  Intent <- IntentOf
  Distance <- DistanceOf
  Threshold = 1
  Template = {good}
  Unsafe <- NothingUnsafe
  Scope = {s1}
  ScopeOf <- SameScope
  Denied <- NothingDenied
  TTL = 1
  MaxTime = 0
  MaxHits = 2
  Impatient = {}
  Slow = {}
  MaxFaults = 0
  Flaky = {}
  None = None  Absent = Absent  Keep = Keep  Free = Free
SPECIFICATION Spec
INVARIANTS ExactlyOneAuditRow
