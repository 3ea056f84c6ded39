\* All queries of up to three literals, and the questions that may share one.
CONSTANTS
  d1 = d1  d2 = d2  s1 = s1  s2 = s2
  Date = {d1, d2}
  Text = {s1, s2}
  Now = Now
  Period = {"last_month"}
  NoPeriod = NoPeriod
  Written <- AnyWritten
SPECIFICATION TemplatesSpec
INVARIANT BindIsInverse
