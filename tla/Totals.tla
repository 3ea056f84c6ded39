-------------------------------- MODULE Totals --------------------------------
(***************************************************************************)
(* How many rows of a query an answer is about, and the totals it states:  *)
(* enforce_limit (sqlsafety/limiter.py), execution, the conversion of      *)
(* cached rows (cache/results.py) and compute_total_facts                  *)
(* (domain/formatting.py).  A question is asked again and again while the  *)
(* data stays the same; its rows come from MySQL or from the cache.        *)
(*                                                                         *)
(* A row set is its number of rows and the type of each column, of which   *)
(* every row has a value; a total is the set of rows it adds up, which are *)
(* the first ones of the query.                                            *)
(***************************************************************************)
EXTENDS Naturals

CONSTANTS
  Column,
  Additive,        \* columns whose name has one of ADDITIVE_HINTS
  SQLRowCap,       \* settings.sql_row_cap
  DefaultRowCap,   \* DEFAULT_ROW_CAP
  MaxSize,         \* bound on the rows of a query
  NoLimit,
  OtherLimit,      \* a LIMIT that is no plain number
  NoRows

ASSUME TotalsAssumption ==
  /\ Additive \subseteq Column
  /\ SQLRowCap \in Nat /\ DefaultRowCap \in Nat /\ MaxSize \in Nat
  /\ {NoLimit, OtherLimit, NoRows} \cap Nat = {}

\* Types of values: in MySQL's answers, and the one only JSON has.
SQLType == {"int", "float", "decimal", "text", "date"}

VARIABLES
  own,      \* the LIMIT that the LLM wrote: or NoLimit or OtherLimit
  size,     \* how many rows the query has without a LIMIT
  types,    \* the types of its columns in MySQL
  limit,    \* the LIMIT it is run with
  stage,
  fetched,  \* the rows at hand: how many, and of which types
  cached,   \* the rows in result_cache
  facts     \* the facts of the answers so far

totalling == <<own, size, types, limit, stage, fetched, cached, facts>>

NoFacts == [truncated |-> FALSE, totals |-> {}, over |-> 0]

TotalsInit ==
  /\ own \in 0..MaxSize \cup {NoLimit, OtherLimit}
  /\ size \in 0..MaxSize
  /\ types \in [Column -> SQLType]
  /\ limit = NoLimit
  /\ stage = "asked"
  /\ fetched = NoRows /\ cached = NoRows
  /\ facts = {}

Least(m, n) == IF m < n THEN m ELSE n

Capped == IF own \in Nat THEN Least(own, SQLRowCap) ELSE SQLRowCap

EnforceLimit ==
  /\ stage = "asked"
  /\ limit' = Capped
  /\ stage' = "limited"
  /\ UNCHANGED <<own, size, types, fetched, cached, facts>>

\* Decimals become floats, dates become strings.
Jsonable(type) ==
  CASE type = "decimal" -> "float" [] type = "date" -> "text" [] OTHER -> type

\* MySQL answers, and put caches the rows; or put fails.
Fetch ==
  /\ stage = "limited" /\ cached = NoRows
  /\ fetched' = [count |-> Least(size, limit), types |-> types]
  /\ \/ cached' = [fetched' EXCEPT !.types = [c \in Column |-> Jsonable(types[c])]]
     \/ UNCHANGED cached
  /\ stage' = "rows"
  /\ UNCHANGED <<own, size, types, limit, facts>>

Get ==
  /\ stage = "limited" /\ cached # NoRows
  /\ fetched' = cached
  /\ stage' = "rows"
  /\ UNCHANGED <<own, size, types, limit, cached, facts>>

\* isinstance(value, (int, float)): not a Decimal.
Numeric == {c \in Column : fetched.types[c] \in {"int", "float"}}

Targets == IF Numeric \cap Additive # {} THEN Numeric \cap Additive ELSE Numeric

\* Mistake: a full result is taken for a whole one.
MayBeCut_Late(count) == count > DefaultRowCap

MayBeCut(count) == count >= DefaultRowCap

ComputeTotalFacts ==
  IF fetched.count = 0 \/ Column = {} THEN NoFacts
  ELSE IF MayBeCut(fetched.count) THEN [NoFacts EXCEPT !.truncated = TRUE]
  ELSE [truncated |-> FALSE, totals |-> Targets, over |-> fetched.count]

BuildFacts ==
  /\ stage = "rows"
  /\ facts' = facts \cup {ComputeTotalFacts}
  /\ stage' = "answered"
  /\ UNCHANGED <<own, size, types, limit, fetched, cached>>

Repeat ==
  /\ stage = "answered"
  /\ stage' = "asked"
  /\ limit' = NoLimit /\ fetched' = NoRows
  /\ UNCHANGED <<own, size, types, cached, facts>>

\* The rows outlive result_cache_ttl_s.
Expire ==
  /\ cached # NoRows
  /\ cached' = NoRows
  /\ UNCHANGED <<own, size, types, limit, stage, fetched, facts>>

TotalsNext == EnforceLimit \/ Fetch \/ Get \/ BuildFacts \/ Repeat \/ Expire

TotalsSpec == TotalsInit /\ [][TotalsNext]_totalling

-----------------------------------------------------------------------------
\* Totals are those of all rows the question asks for: not of rows that the
\* cap cut off (compute_total_facts: "it would be a misleading partial total").
NoPartialTotals ==
  \A f \in facts : f.totals # {} => f.over = IF own \in Nat THEN Least(own, size) ELSE size

\* The same rows have the same totals, whether MySQL or the cache returned
\* them (README.md: "deterministic totals").
TotalsAreDeterministic == \A f, g \in facts : f = g
=============================================================================
