\* Rate limiter: a caller with and without a valid token on one route, three
\* waits.  Hierarchy: all tables of up to three of the sample rows, below each of
\* three codes; two concurrent calls for one code, entries that live two ticks.
\* LLMTurn: three attempts, two deltas.  Fixer: as in MCFixer.
\* Templates: all queries of up to three literals, all pairs of questions that may
\* share one.  Totals: up to four rows of two columns, a cap of two.  Scope: five
\* tables and one that is not whitelisted, in 234 queries for 30 users, with and
\* without a CTE that has that one's name.  Auth: one
\* user, token and concurrent request, tokens of two minutes of four, three changes of
\* the table.  Questions: two of some 500 requests.  Answers: texts of up to three
\* lines, up to three rows.
CONSTANTS
  ann = ann  office = office
  Caller = {ann}
  UserOf <- EachOwnUser
  AddressOf <- SameOffice
  Route = {"chat"}
  Limit <- TwoPerMinute
  Delay <- Delays
  MaxDelays = 3
  None = None
  top = top  mid = mid  low = low  one = one  two = two
  Code = {top, mid, low}
  Level = {1, 2}
  RowLists <- AnyRows
  NoCode = NoCode
  NoLevel = NoLevel
  Coroutine = {one, two}
  Root = {top}
  TTL = 2
  MaxNow = 5
  MaxVersion = 2
  Nothing = Nothing
  Provider <- EveryProvider
  MaxSQLAttempts = 3
  MaxDeltas = 2
  Missing = Missing
  d1 = d1  d2 = d2  s1 = s1  s2 = s2
  Date = {d1, d2}
  Text = {s1, s2}
  Now = Now
  Period = {"last_month"}
  NoPeriod = NoPeriod
  Written <- AnyWritten
  sales = sales  name = name
  Column = {sales, name}
  Additive = {sales}
  SQLRowCap = 2
  DefaultRowCap = 2
  MaxSize = 4
  NoLimit = NoLimit  OtherLimit = OtherLimit  NoRows = NoRows
  invoices = invoices  orders = orders  purchases = purchases
  measure = measure  product = product  mrp = mrp
  inv = inv  ord = ord  pur = pur  derived = derived
  BaseTable = {invoices, orders, purchases}
  Name = {measure, product, mrp}
  Has <- ColumnsOf
  OwnerOf <- OwnersOf
  Ambiguous = {product}
  UsualAlias <- UsualAliases
  Drafts <- AnyDrafts
  NoRepair = NoRepair
  fact = fact  customer = customer  salesman = salesman  levels = levels  people = people
  outside = outside
  zone = zone  area = area  code2 = code2  code3 = code3  name2 = name2  name3 = name3
  north = north  south = south  me = me  peer = peer  below = below  beside = beside  far = far
  Table = {fact, customer, salesman, levels, people, outside}
  Whitelist = {fact, customer, salesman, levels, people}
  Reference = {levels}
  Fact = {fact}
  Catalog <- CatalogOf
  Family <- AnyColumn
  NameColumn <- NameColumns
  SfLevel = {1, 2, 3, 7}
  LevelColumn <- LevelColumns
  SfCode = {me, peer, below, beside, far}
  Region = {north, south}
  Data <- AllRows
  Queries <- SampleQueries
  Profiles <- SampleProfiles
  Subtrees <- SampleSubtrees
  CTENames <- NoneOrOutside
  Unset = Unset
  jo = jo  al = al  joName = joName  alName = alName
  oldSecret = oldSecret  seedSecret = seedSecret  device = device
  Id = {jo, al}
  Username = {joName, alName}
  Password = {oldSecret, seedSecret}
  SeedName = {joName}
  SeedPassword = seedSecret
  Lifetime = 2
  Visitor = {device}
  FirstUsers <- OneUser
  MaxTime = 3
  MaxLogins = 1
  MaxEdits = 3
  Nobody = Nobody
  Bodies <- AnyBodies
  Marks = {"?", "<", ">"}
  Signs = {"<", ">"}
  Articles = {"the"}
  Unsaid = Unsaid
  PhraseOf <- FirstPhrase
  Unknown = Unknown
  MaxAsked = 2
  outlets = outlets  amount = amount
  Field = {outlets, amount}
  Money = {amount}
  Results <- AnyResults
  Replies <- AnyReplies
  ToolRows = 2
  NoMessage = NoMessage
SPECIFICATION PartsSpec
INVARIANTS
  RateBound RetryHonest
  ExactSubtree AtMostTTLOld
  ReturnedSQLPassed OneAnswer ConversationsSurvive SpendingIsAudited
  OnlyDatesChange NoPartialTotals RepairsOnlyMend 
  AccessIsVouched KeysAreMeanings ResultIsShown
PROPERTIES NoOldBuckets
CHECK_DEADLOCK FALSE
