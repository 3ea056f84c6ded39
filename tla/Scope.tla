-------------------------------- MODULE Scope ---------------------------------
(***************************************************************************)
(* assert_safe (sqlsafety/guard.py) and apply_scope (rbac/injector.py):    *)
(* which tables a query may read, and the row filters that keep a user to  *)
(* the rows of their region and of the people below them.                  *)
(*                                                                         *)
(* A query is a sequence of nodes, the statement first: a SELECT, a UNION  *)
(* of SELECTs, a table or a join of tables in parentheses, or something    *)
(* that writes, locks or waits.  A node reads tables, in FROM and JOIN,    *)
(* and later nodes: derived tables, CTEs, subqueries of its conditions,    *)
(* what stands in parentheses.  The conditions that the LLM wrote are left *)
(* out: they only remove rows.  So are outer joins and NOT IN, where a     *)
(* filter may change what is joined, and CTEs with the name of a           *)
(* whitelisted table, whose readers are filtered as if they read it.       *)
(***************************************************************************)
EXTENDS Naturals, Sequences

CONSTANTS
  Table,
  Whitelist,  \* INCLUDE_TABLES
  Reference,  \* UNSCOPED_REFERENCE_TABLES
  Fact,       \* FACT_TABLES
  Catalog,    \* SCHEMA_DESCRIPTION: the columns of each table
  Family,     \* _HIER_FAMILY, the columns that every fact table has
  NameColumn, \* of a ..._code column, the parallel ..._name column
  SfLevel,
  LevelColumn,\* LEVEL_TO_HIER_COL
  SfCode,       \* sf_code values
  Region,     \* values of geo columns
  Data,       \* the rows of each table
  Queries, Profiles, Subtrees,
  CTENames,   \* sets of tables whose names a query's CTEs may have
  Unset

Columns == DOMAIN NameColumn

\* role, sf_level, sf_code, allowed_geo_col and allowed_geo_vals of a user.
Profile == [role : {"VP", "other"}, level : SfLevel \cup {Unset}, code : SfCode \cup {Unset},
            geoCol : Columns \cup {Unset}, geoVals : SUBSET Region]

Node == [kind : {"select", "union", "nested", "forbidden"}, from : Seq(Table \cup Nat)]

ASSUME ScopeAssumption ==
  /\ Whitelist \subseteq Table /\ Reference \subseteq Whitelist /\ Fact \subseteq Whitelist
  /\ Catalog \in [Table -> SUBSET Columns] /\ Family \subseteq Columns
  /\ DOMAIN LevelColumn \subseteq SfLevel
  /\ Profiles \subseteq Profile
  /\ Subtrees \subseteq [SfLevel -> SUBSET SfCode]
  /\ \A q \in Queries : q \in Seq(Node) /\ q # <<>>
  /\ \A q \in Queries : \A i \in DOMAIN q :
       /\ q[i].from \in Seq(Table \cup (i + 1)..Len(q))
       /\ q[i].kind = "union" => q[i].from \in Seq((i + 1)..Len(q))
  /\ CTENames \subseteq SUBSET (Table \ Whitelist)
  /\ \A t \in Table : \A r \in Data[t] : DOMAIN r \subseteq Columns

VARIABLES
  query,    \* nodes with a kind and what they read
  cte_names,\* those that are names of tables, too
  profile,
  subtree,  \* what get_subtree_for returned
  verdict,
  filter    \* the predicates added: for each node, those of each of its tables

scoping == <<query, cte_names, profile, subtree, verdict, filter>>

NoFilter == [i \in DOMAIN query |-> [s \in DOMAIN query[i].from |-> {}]]

ScopeInit ==
  /\ query \in Queries /\ cte_names \in CTENames /\ profile \in Profiles /\ subtree \in Subtrees
  /\ verdict = "written"
  /\ filter = NoFilter

\* _assert_table_allowed: the name of a CTE is let pass, whatever it stands for.
Allowed(source) == source \in Table => source \in Whitelist \cup cte_names

AssertSafe ==
  /\ verdict = "written"
  /\ verdict' = IF \A i \in DOMAIN query :
                     /\ query[i].kind # "forbidden"
                     /\ \A s \in DOMAIN query[i].from : Allowed(query[i].from[s])
                THEN "safe" ELSE "blocked"
  /\ UNCHANGED <<query, cte_names, profile, subtree, filter>>

\* Level n stands for 100 * n.
Unrestricted == profile.level = 1 \/ profile.role = "VP"

HasGeo == profile.geoCol # Unset /\ profile.geoVals # {}

\* _effective_hier_map: the codes below the user, and their own.
HierMap(l) ==
  subtree[l] \cup IF profile.code # Unset /\ profile.level = l THEN {profile.code} ELSE {}

HasHier == \E l \in SfLevel : HierMap(l) # {}

TableColumns(t) == Catalog[t] \cup IF t \in Fact THEN Family ELSE {}

Supports(t, c) == c \in TableColumns(t) \/ NameColumn[c] \in TableColumns(t)

\* A predicate is a set of alternatives, each a column and its values.
GeoPredicate(t) ==
  IF HasGeo /\ Supports(t, profile.geoCol)
  THEN {[column |-> profile.geoCol, values |-> profile.geoVals]} ELSE {}

HierPredicate(t) ==
  {[column |-> LevelColumn[l], values |-> HierMap(l)] :
     l \in {k \in DOMAIN LevelColumn : HierMap(k) # {} /\ Supports(t, LevelColumn[k])}}

\* A dimension that the profile has configured cannot be enforced.
Unenforceable(t) ==
  \/ HasGeo /\ GeoPredicate(t) = {}
  \/ HasHier /\ HierPredicate(t) = {}

TablePredicate(t) == {GeoPredicate(t), HierPredicate(t)} \ {{}}

\* Mistake: only the table after FROM.
DirectTables_First(i) ==
  {s \in DOMAIN query[i].from : s = 1 /\ query[i].kind = "select" /\ query[i].from[s] \in Table}

\* The tables that stand in the FROM and the JOINs of a SELECT themselves, without
\* parentheses.
DirectTables(i) ==
  {s \in DOMAIN query[i].from : query[i].kind = "select" /\ query[i].from[s] \in Table}

\* Those of them that apply_scope filters.
Scoped(i) ==
  {s \in DirectTables(i) : query[i].from[s] \in Whitelist \ Reference}

ApplyScope ==
  /\ verdict = "safe"
  /\ UNCHANGED <<query, cte_names, profile, subtree>>
  /\ \/ Unrestricted /\ verdict' = "run" /\ UNCHANGED filter
     \/ /\ ~Unrestricted
        /\ \/ ~HasGeo /\ ~HasHier
           \/ \E i \in DOMAIN query : \E s \in Scoped(i) : Unenforceable(query[i].from[s])
        /\ verdict' = "refused" /\ UNCHANGED filter
     \/ /\ ~Unrestricted /\ (HasGeo \/ HasHier)
        /\ \A i \in DOMAIN query : \A s \in Scoped(i) : ~Unenforceable(query[i].from[s])
        /\ verdict' = "run"
        /\ filter' = [i \in DOMAIN query |-> [s \in DOMAIN query[i].from |->
                        IF s \in Scoped(i) THEN TablePredicate(query[i].from[s]) ELSE {}]]

ScopeNext == AssertSafe \/ ApplyScope

ScopeSpec == ScopeInit /\ [][ScopeNext]_scoping

-----------------------------------------------------------------------------
\* The warehouse agrees with the hierarchy: a table that is taken to have the
\* column of a level has it, a code stands in the column of its level only, and
\* that is the level the subtree and the profile have it at.
ASSUME WarehouseAssumption ==
  \A t \in Whitelist \ Reference : \A r \in Data[t] :
    /\ \A l \in DOMAIN LevelColumn : Supports(t, LevelColumn[l]) => LevelColumn[l] \in DOMAIN r
    /\ \A c \in DOMAIN r :
         /\ r[c] # Unset
         /\ r[c] \in SfCode =>
              \E l \in DOMAIN LevelColumn :
                /\ c = LevelColumn[l] /\ Supports(t, c)
                /\ \A tree \in Subtrees, k \in SfLevel : r[c] \in tree[k] => k = l
                /\ \A p \in Profiles : p.code = r[c] => p.level = l

\* The sets of table rows that rows of the result come from, when each table
\* is filtered; with each of them, whether a SELECT reads its table itself.
Passes(row, predicate) == \A part \in predicate : \E p \in part : row[p.column] \in p.values

\* A row from each source.
Joined(part) ==
  LET D == DOMAIN part
  IN {UNION {f[s] : s \in D} :
        f \in {g \in [D -> UNION {part[s] : s \in D}] : \A s \in D : g[s] \in part[s]}}

Result(added) ==
  LET from[i \in DOMAIN query] ==
        LET part == [s \in DOMAIN query[i].from |->
              IF query[i].from[s] \in Table
              THEN {{<<query[i].from[s], row, query[i].kind = "select">>} :
                      row \in {r \in Data[query[i].from[s]] : Passes(r, added[i][s])}}
              ELSE from[query[i].from[s]]]
        IN IF query[i].kind = "union" THEN UNION {part[s] : s \in DOMAIN part}
           ELSE Joined(part)
  IN from[1]

\* The rows that a user may see: in one of their regions, and of themselves or
\* somebody below them.
InScope(t, row) ==
  /\ HasGeo => row[profile.geoCol] \in profile.geoVals
  /\ HasHier => \E c \in DOMAIN row :
                  row[c] \in {profile.code} \cup UNION {subtree[l] : l \in SfLevel}

\* A query that runs returns what the user may see of what was asked for, no
\* more and no less, wherever its SELECTs stand and whatever each of their tables
\* has for columns (apply_scope: "EVERY directly-referenced whitelisted base table
\* in EVERY SELECT scope ... no table is trusted to be scoped implicitly by a join
\* partner"); and nothing in it writes, locks or waits.  The code promises no more
\* than that: a table in parentheses is read without a filter, and one with the name
\* of a CTE needs no place in the whitelist.
RunsInScope ==
  verdict = "run" =>
    /\ \A i \in DOMAIN query : query[i].kind # "forbidden"
    /\ Result(filter) =
         {origin \in Result(NoFilter) : \A x \in origin :
            /\ x[1] \in Whitelist \cup cte_names
            /\ x[3] /\ x[1] \in Whitelist \ Reference => Unrestricted \/ InScope(x[1], x[2])}
=============================================================================
