\* Three requests, each with any of the calls of Asks, on one of four tables.
CONSTANTS
  r1 = r1  r2 = r2  r3 = r3  u = u  w = w  mine = mine  other = other
  m = m  n = n  t = t  x = x  y = y
  Client = {r1, r2, r3}
  Row <- Rows
  Value <- Values
  Absent = Absent  Keep = Keep  Free = Free  None = None
  User = {u, w}
  Thread = {mine, other}
  Message = {m, n}
  Title = {t}
  Content = {x, y}
  Asked <- Asks
  Start <- Starts
CONSTRAINT Focus
SYMMETRY Symmetry
SPECIFICATION ThreadsSpec
INVARIANTS HeadsExist
PROPERTIES EditsStayInThread ColumnsSurvive NothingComesBack BranchIsWhole
