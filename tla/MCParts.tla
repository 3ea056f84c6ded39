------------------------------- MODULE MCParts --------------------------------
(* Small instances of components that share no variable, searched side by  *)
(* side: a behaviour is about one of them while the others rest.           *)
EXTENDS RateLimit, Subtree, SubtreeCache, LLMTurn, MCTemplates, MCTotals, MCFixer, Scope,
  Auth, MCQuestionKeys, Answer

CONSTANTS
  ann, office,                      \* RateLimit
  top, mid, low, one, two,          \* Subtree, SubtreeCache
  fact, customer, salesman, levels, people, outside,               \* Scope: tables,
  zone, area, code2, code3, name2, name3,                          \* columns
  north, south, me, peer, below, beside, far,                      \* and their values
  jo, al, joName, alName, oldSecret, seedSecret, device,           \* Auth
  outlets, amount                                                  \* Answer

VARIABLE part

parts == <<part, vars, resolving, cacheVars, turnVars, templating, totalling, fixing, scoping,
           authVars, keying, answering>>

-----------------------------------------------------------------------------
\* RateLimit.  Two of the first leave a fraction of a millisecond of the window,
\* the second nearly all of it, and the third is more than the idle time.
EachOwnUser == [x \in Caller |-> x]
SameOffice == [x \in Caller |-> office]
TwoPerMinute == [r \in Route |-> 2]
Delays == {205 * (Second \div 10) - 3, Window - 5, IdleTTL + 1}

\* Subtree: every table of up to three of these rows.  mid may lack a level or have
\* another one; one row has no code, one no parent.
Person(code, parent, level) == [code |-> code, parent |-> parent, level |-> level]
SampleRow ==
  {Person(x, y, 1) : x, y \in Code} \cup {Person(mid, y, NoLevel) : y \in Code}
    \cup {Person(mid, top, 2), Person(NoCode, top, 1), Person(mid, NoCode, 1)}
AnyRows == UNION {[1..k -> SampleRow] : k \in 0..3}

\* LLMTurn.
EveryProvider == {"anthropic", "cloudflare", "bedrock"}

-----------------------------------------------------------------------------
\* Scope.  The facts have all columns, customers the names of both levels, salesmen
\* one level, the other two tables nothing to filter by.
NameColumns == [x \in {zone, area, code2, code3, name2, name3} |->
                  CASE x = code2 -> name2 [] x = code3 -> name3 [] OTHER -> x]
CatalogOf == [t \in Table |-> CASE t = fact -> {zone, name2}
                                [] t = customer -> {zone, name2, name3}
                                [] t = salesman -> {zone, code2}
                                [] OTHER -> {}]
AnyColumn == DOMAIN NameColumns
LevelColumns == [l \in {2, 3} |-> IF l = 2 THEN code2 ELSE code3]

\* Every row there may be; the regions of a row in zone and in area agree.
Values(x) == CASE x = zone -> {north, south} [] x = code2 -> {me, peer}
               [] x = code3 -> {below, beside}
RowsOf(C) ==
  {r \in [C -> {north, south, me, peer, below, beside}] : \A x \in C : r[x] \in Values(x)}
AllRows ==
  [t \in Table |->
     CASE t = fact -> {[x \in {zone, area, code2, code3} |-> IF x = area THEN r[zone] ELSE r[x]] :
                         r \in RowsOf({zone, code2, code3})}
       [] t = customer -> RowsOf({zone, code2, code3})
       [] t = salesman -> RowsOf({zone, code2})
       [] OTHER -> {<<>>}]

\* One table, a join, a derived table (of a join, or joined), a union, a table and a
\* join in parentheses; and what the guard refuses, as the statement or below it.
Select(from) == [kind |-> "select", from |-> from]
Nested(from) == [kind |-> "nested", from |-> from]
Forbidden(from) == [kind |-> "forbidden", from |-> from]
SampleQueries ==
  UNION {{<<Select(<<t>>)>>, <<Forbidden(<<t>>)>>, <<Select(<<2>>), Forbidden(<<t>>)>>} :
           t \in Table}
    \cup {<<Select(<<t, u>>)>> : t, u \in Table}
    \cup {<<Select(<<2>>), Select(<<t, u>>)>> : t, u \in Table}
    \cup {<<Select(<<t, 2>>), Select(<<u>>)>> : t, u \in Table}
    \cup {<<Select(<<t, 2>>), Nested(<<u>>)>> : t, u \in Table}
    \cup {<<Select(<<2>>), Nested(<<t, u>>)>> : t, u \in Table}
    \cup {<<[kind |-> "union", from |-> <<2, 3>>], Select(<<t>>), Select(<<u>>)>> : t, u \in Table}

\* Users with a region, a code, both or neither; far is of a level without column.
User(level, code, col, vals) ==
  [role |-> "other", level |-> level, code |-> code, geoCol |-> col, geoVals |-> vals]
SampleProfiles ==
  {User(2, me, Unset, {}), User(2, me, zone, {north}), User(2, me, area, {north}),
   User(3, below, zone, {north, south}), User(Unset, Unset, zone, {north}),
   User(Unset, Unset, Unset, {}), User(7, far, Unset, {}), User(7, far, zone, {south}),
   User(1, Unset, Unset, {}), [User(2, me, zone, {}) EXCEPT !.role = "VP"]}
NoneOrOutside == {{}, {outside}}
SampleSubtrees ==
  {[l \in SfLevel |-> {}], [l \in SfLevel |-> IF l = 3 THEN {below} ELSE {}],
   [l \in SfLevel |-> IF l = 3 THEN {below, beside} ELSE IF l = 7 THEN {far} ELSE {}]}

-----------------------------------------------------------------------------
\* Auth: one user, who has the name that is seeded and another password.
OneUser ==
  {[i \in Id |-> IF i = jo THEN [username |-> joName, password |-> oldSecret, is_active |-> TRUE]
                ELSE Nobody]}

-----------------------------------------------------------------------------
\* Answer.  Texts of up to three lines; a single value, or up to three rows of a
\* count and an amount: of a loss, below the next rupee, halfway between two paise.
AnyReplies == UNION {[1..count -> {Line(k, "words") : k \in Kind}] : count \in 0..3}
Amounts == {-250500, 99999, 1125}
AnyResults ==
  {[columns |-> <<amount>>, rows |-> <<<<v>>>>] : v \in Amounts}
    \cup {[columns |-> <<outlets, amount>>, rows |-> [i \in 1..count |-> <<i, f[i]>>]] :
            count \in 0..3, f \in [1..3 -> Amounts]}

-----------------------------------------------------------------------------
\* The variables of a component that rests.
ResolvingRests ==
  /\ rows = <<>> /\ root = top /\ queue = <<>> /\ todo = {} /\ seen = {top}
  /\ result = [l \in Level |-> {}] /\ expanded = {}
TemplatingRests ==
  /\ origin = NoPeriod /\ written = <<>> /\ entry = NoPeriod /\ asker = NoPeriod /\ bound = <<>>
TotallingRests ==
  /\ own = NoLimit /\ size = 0 /\ types = NoLimit /\ limit = NoLimit /\ stage = "rests"
  /\ fetched = NoRows /\ cached = NoRows /\ facts = {}
FixingRests == draft = <<>> /\ repair = NoRepair
ScopingRests ==
  /\ query = <<>> /\ cte_names = {} /\ profile = Unset /\ subtree = Unset
  /\ verdict = "rests" /\ filter = <<>>
AnsweringRests ==
  /\ heading = <<>> /\ found = <<>> /\ reply = <<>>
  /\ message = NoMessage /\ report = NoMessage

\* The others start from one state each.
PartsInit ==
  /\ Init /\ CacheInit /\ AuthInit /\ KeysInit
  /\ part \in {"rate", "resolve", "cache", "turn", "templates", "totals", "fixer", "scope",
               "auth", "keys", "answer"}
  /\ TurnInit
  /\ part # "turn" => provider = "anthropic"
  /\ IF part = "resolve" THEN ResolveInit ELSE ResolvingRests
  /\ IF part = "templates" THEN TemplatesInit ELSE TemplatingRests
  /\ IF part = "totals" THEN TotalsInit ELSE TotallingRests
  /\ IF part = "fixer" THEN FixerInit ELSE FixingRests
  /\ IF part = "scope" THEN ScopeInit ELSE ScopingRests
  /\ IF part = "answer" THEN AnswerInit ELSE AnsweringRests

PartsNext ==
  /\ UNCHANGED part
  /\ \/ part = "rate" /\ Next
     \/ part # "rate" /\ UNCHANGED vars
  /\ \/ part = "resolve" /\ ResolveNext
     \/ part # "resolve" /\ UNCHANGED resolving
  /\ \/ part = "cache" /\ CacheNext
     \/ part # "cache" /\ UNCHANGED cacheVars
  /\ \/ part = "turn" /\ TurnNext
     \/ part # "turn" /\ UNCHANGED turnVars
  /\ \/ part = "templates" /\ Hit
     \/ part # "templates" /\ UNCHANGED templating
  /\ \/ part = "totals" /\ TotalsNext
     \/ part # "totals" /\ UNCHANGED totalling
  /\ \/ part = "fixer" /\ FixColumnAliases
     \/ part # "fixer" /\ UNCHANGED fixing
  /\ \/ part = "scope" /\ ScopeNext
     \/ part # "scope" /\ UNCHANGED scoping
  /\ \/ part = "auth" /\ AuthNext
     \/ part # "auth" /\ UNCHANGED authVars
  /\ \/ part = "keys" /\ KeysNext
     \/ part # "keys" /\ UNCHANGED keying
  /\ \/ part = "answer" /\ AnswerNext
     \/ part # "answer" /\ UNCHANGED answering

PartsSpec == PartsInit /\ [][PartsNext]_parts
=============================================================================
