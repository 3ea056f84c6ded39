-------------------------------- MODULE Fixer ---------------------------------
(***************************************************************************)
(* fix_column_aliases (sqlsafety/fixer.py): a column that the LLM has      *)
(* qualified with the wrong table is given a table of the query that has   *)
(* it.                                                                     *)
(*                                                                         *)
(* A statement is a sequence of SELECTs, the outermost first, as the walk  *)
(* of its tree meets them.  A SELECT has sources, in FROM and JOIN, each a *)
(* table or a later SELECT that goes by a name, and qualified columns.     *)
(* Columns without a qualifier, which are left alone, and subqueries that  *)
(* name sources of the SELECT around them are left out.                    *)
(***************************************************************************)
EXTENDS Naturals, Sequences

CONSTANTS
  BaseTable,
  Name,        \* names of columns
  Has,         \* the columns of each table
  OwnerOf,     \* COLUMN_TABLE_MAP
  Ambiguous,   \* AMBIGUOUS_COLUMNS
  UsualAlias,  \* ALIAS_TABLE_MAP
  Drafts,      \* statements that the LLM may write
  NoRepair

IsSeq(s) == s \in Seq({s[i] : i \in DOMAIN s})

ASSUME FixerAssumption ==
  /\ NoRepair \notin BaseTable
  /\ Has \in [BaseTable -> SUBSET Name]
  /\ DOMAIN OwnerOf \subseteq Name
  /\ \A c \in DOMAIN OwnerOf : OwnerOf[c] \in BaseTable /\ c \in Has[OwnerOf[c]]
  /\ \A q \in DOMAIN UsualAlias : UsualAlias[q] \in BaseTable
  /\ \A d \in Drafts : IsSeq(d) /\ \A i \in DOMAIN d : IsSeq(d[i].from)
  /\ \A d \in Drafts : \A i \in DOMAIN d : \A k \in DOMAIN d[i].from :
       d[i].from[k].is \in BaseTable \cup (i + 1)..Len(d)

\* The LLM uses the aliases it is told to, or none, and other names for derived
\* tables (prompts.py).
ASSUME Conventional ==
  /\ DOMAIN UsualAlias \cap BaseTable = {}
  /\ \A d \in Drafts : \A i \in DOMAIN d : \A k \in DOMAIN d[i].from :
       LET s == d[i].from[k]
       IN IF s.is \in BaseTable
          THEN s.as = s.is \/ (s.as \in DOMAIN UsualAlias /\ UsualAlias[s.as] = s.is)
          ELSE s.as \notin DOMAIN UsualAlias \cup BaseTable

VARIABLES draft, repair

fixing == <<draft, repair>>

FixerInit == draft \in Drafts /\ repair = NoRepair

\* Where the statement reads tables; the walk meets the uses in this order.
Uses ==
  UNION {{i} \X {k \in DOMAIN draft[i].from : draft[i].from[k].is \in BaseTable} :
           i \in DOMAIN draft}
SourceAt(use) == draft[use[1]].from[use[2]]
Earlier(use, other) ==
  use[1] < other[1] \/ (use[1] = other[1] /\ use[2] < other[2])

Earliest(uses) == CHOOSE u \in uses : \A v \in uses \ {u} : Earlier(u, v)
Latest(uses) == CHOOSE u \in uses : \A v \in uses \ {u} : Earlier(v, u)

\* query_alias_map: a name that is used twice is that of the last table.
Means(q) ==
  LET used == {u \in Uses : SourceAt(u).as = q}
  IN IF used # {} THEN SourceAt(Latest(used)).is ELSE NoRepair

\* The table a qualifier stands for: in this statement, or else by convention.
Current(q) ==
  IF Means(q) # NoRepair THEN Means(q)
  ELSE IF q \in DOMAIN UsualAlias THEN UsualAlias[q] ELSE NoRepair

\* _qualifier_for: the first alias of the table, or else its own name.
Qualifiers(t) == {u \in Uses : Means(SourceAt(u).as) = t}
QualifierFor(t) ==
  LET aliases == {u \in Qualifiers(t) : SourceAt(u).as # t}
  IN IF aliases # {} THEN SourceAt(Earliest(aliases)).as ELSE t

\* Mistake: a column that several tables have is repaired as well.
Eligible_All == DOMAIN OwnerOf

Eligible == DOMAIN OwnerOf \ Ambiguous

Misplaced(column) ==
  /\ column.name \in Eligible
  /\ Current(column.of) \notin {NoRepair, OwnerOf[column.name]}
  /\ Qualifiers(OwnerOf[column.name]) # {}

Repaired(column) ==
  IF Misplaced(column) THEN [name |-> column.name, of |-> QualifierFor(OwnerOf[column.name])]
  ELSE column

FixColumnAliases ==
  /\ repair = NoRepair
  /\ repair' = [i \in DOMAIN draft |->
       [from |-> draft[i].from,
        columns |-> [k \in DOMAIN draft[i].columns |-> Repaired(draft[i].columns[k])]]]
  /\ UNCHANGED draft

FixerSpec == FixerInit /\ [][FixColumnAliases]_fixing

-----------------------------------------------------------------------------
\* MySQL finds the column in the source that its qualifier names.
Found(statement, i, column) ==
  \E k \in DOMAIN statement[i].from :
    LET s == statement[i].from[k] IN
    /\ s.as = column.of
    /\ column.name \in IF s.is \in BaseTable THEN Has[s.is]
                       ELSE {statement[s.is].columns[m].name : m \in DOMAIN statement[s.is].columns}

\* Columns of several tables that AMBIGUOUS_COLUMNS does not list.
Unlisted == {c \in DOMAIN OwnerOf \ Ambiguous : \E t \in BaseTable \ {OwnerOf[c]} : c \in Has[t]}

\* A column that MySQL would find stays as it is, in a statement of any shape;
\* one that is changed is found afterwards, if there is only one SELECT
\* (fix_column_aliases: "only when that table is present in the query and the
\* column unambiguously belongs to it").
RepairsOnlyMend ==
  repair # NoRepair =>
    \A i \in DOMAIN draft : \A k \in DOMAIN draft[i].columns :
      LET old == draft[i].columns[k]
          new == repair[i].columns[k]
      IN /\ old.name \notin Unlisted /\ Found(draft, i, old) => new = old
         /\ new # old /\ Len(draft) = 1 => Found(repair, i, new)

\* A column of several tables is never requalified ("a SQL fixer must never
\* auto-rewrite these", schema_catalog.py).
SharedColumnsStay ==
  repair # NoRepair =>
    \A i \in DOMAIN draft : \A k \in DOMAIN draft[i].columns :
      Found(draft, i, draft[i].columns[k]) => repair[i].columns[k] = draft[i].columns[k]
=============================================================================
