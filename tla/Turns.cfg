\* Three small instances: three users with one question, three near questions,
\* and two turns that everything can happen to (SafetyFocus).
CONSTANTS
  good = good  bad = bad  priv = priv  s1 = s1  s2 = s2
  t1 = t1  t2 = t2  t3 = t3
  day = day  slash = slash  near = near  far = far
  kday = kday  knear = knear  kfar = kfar
  Turn = {t1, t2, t3}
  Sweeper = sweeper
  Question = {day, slash, near, far}
  Key = {kday, knear, kfar}
  KeyOf <- NormalKey
  Intent <- IntentOf
  Distance <- DistanceOf
  Threshold = 1
  Template = {good, bad, priv}
  Unsafe <- UnsafeSQL
  Scope = {s1, s2}
  ScopeOf <- LastIsOther
  Denied <- DeniedSQL
  TTL = 1
  MaxTime = 1
  MaxHits = 2
  Impatient = {t1}
  Slow = {}
  MaxFaults = 1
  Flaky = {"llm", "mysql", "embeddings"}
  None = None  Absent = Absent  Keep = Keep  Free = Free
SPECIFICATION Spec
CONSTRAINT SafetyFocus
INVARIANTS AuditTrail OnlyProvenTemplatesAreTaught ServedRowsInScope SemanticHitsFit HitsAreCounted
PROPERTIES SweeperSparesFresh OnlyTeachersReplace
