------------------------------ MODULE Templates -------------------------------
(***************************************************************************)
(* SQL templates (cache/templater.py): the SQL the LLM wrote for one       *)
(* question is cached with its string literals replaced by placeholders,   *)
(* and a question that hits the entry gets them bound again.               *)
(*                                                                         *)
(* A query is the sequence of its literals, as the parser finds them; what *)
(* lies between them never changes.  A question is the dates it names, the *)
(* way it writes them, and the period it names in words.  The textual      *)
(* fallback for SQL that does not parse is left out: such SQL is cached    *)
(* without parameters, and the guard refuses it.                           *)
(***************************************************************************)
EXTENDS Naturals, Sequences, FiniteSets

CONSTANTS
  Date,      \* calendar dates
  Text,      \* values of other string literals
  Now,       \* CURDATE(), or a number: no string literal
  Period,    \* periods named in words, "last_month" and so on
  NoPeriod,
  Written    \* the queries that the LLM may write

Literal ==
  [type : {"date"}, value : Date] \cup [type : {"str"}, value : Text]
    \cup [type : {"other"}, value : {Now}]

\* iso: 2026-07-06; words: 6 July, or 06/07/2026; odd: 2026/07/06, which the
\* intent does not recognise.  All are the same question once normalized.
Question == [dates : UNION {[1..n -> Date] : n \in 0..2}, form : {"iso", "words", "odd"},
             period : Period \cup {NoPeriod}]

ASSUME TemplatesAssumption ==
  /\ Written \subseteq Seq(Literal)
  /\ Period \cap {"none", "date_range"} = {}

VARIABLES
  origin,   \* the question the LLM wrote the query for
  written,  \* what it wrote
  entry,    \* the cached template and its params_spec
  asker,    \* the last question that hit the entry
  bound     \* the query it was given

templating == <<origin, written, entry, asker, bound>>

\* extract_temporal_intent.
Intent(q) ==
  IF q.period # NoPeriod THEN q.period
  ELSE IF q.dates # <<>> /\ q.form \in {"iso", "words"} THEN "date_range" ELSE "none"

\* Mistake: the counters stay at one.
NameOf_Uncounted(sql, i) == <<sql[i].type, 1>>

\* date1, date2, ..., str1, str2, ...
NameOf(sql, i) == <<sql[i].type, Cardinality({j \in 1..i : sql[j].type = sql[i].type})>>

\* The name's value is the last one assigned to it.
Parameterize(sql) ==
  LET literals == {i \in DOMAIN sql : sql[i].type # "other"}
      Named(name) == {i \in literals : NameOf(sql, i) = name}
  IN [template |-> [i \in DOMAIN sql |-> IF i \in literals
                                         THEN [type |-> "placeholder", value |-> NameOf(sql, i)]
                                         ELSE sql[i]],
      spec |-> [name \in {NameOf(sql, i) : i \in literals} |->
                  sql[CHOOSE i \in Named(name) : \A j \in Named(name) : j <= i]]]

\* The date that bind_template finds in the question.
Replacement(q) == IF q.form = "iso" /\ q.dates # <<>> THEN {q.dates[1]} ELSE {}

Value(spec, q) ==
  IF spec.type = "date" /\ Replacement(q) # {}
  THEN [spec EXCEPT !.value = CHOOSE d \in Replacement(q) : TRUE] ELSE spec

Bind(e, q) ==
  [i \in DOMAIN e.template |->
     IF e.template[i].type = "placeholder" THEN Value(e.spec[e.template[i].value], q)
     ELSE e.template[i]]

\* The LLM writes the dates that the question names, if it names any.
Answers(sql, q) ==
  q.dates # <<>> =>
    {sql[i].value : i \in {j \in DOMAIN sql : sql[j].type = "date"}}
      = {q.dates[i] : i \in DOMAIN q.dates}

TemplatesInit ==
  /\ origin \in Question
  /\ written \in {sql \in Written : Answers(sql, origin)}
  /\ entry = Parameterize(written)
  /\ asker = origin
  /\ bound = written

\* A question with the same normalized text (L0), or with the same temporal
\* intent and close in meaning (L1), which adds an alias with the same entry.
Hit ==
  /\ \E q \in Question :
       /\ \/ q.dates = origin.dates /\ q.period = origin.period
          \/ Intent(q) = Intent(origin)
       /\ asker' = q
       /\ bound' = Bind(entry, q)
  /\ UNCHANGED <<origin, written, entry>>

TemplatesSpec == TemplatesInit /\ [][Hit]_templating

-----------------------------------------------------------------------------
\* A cached query differs from the one that the LLM wrote only in its dates,
\* each of which becomes one that the new question names (bind_template:
\* "String parameters are always bound back to their originally-recorded
\* value"; CURDATE() and numbers are untouched).
OnlyDatesChange ==
  /\ DOMAIN bound = DOMAIN written
  /\ \A i \in DOMAIN written : bound[i] # written[i] =>
       /\ bound[i].type = "date" /\ written[i].type = "date"
       /\ bound[i].value \in {asker.dates[j] : j \in DOMAIN asker.dates}

\* Bound to the question it was written for, a template is the query it came
\* from (templater.py: "`bind_template` is the inverse").
BindIsInverse == asker = origin => bound = written
=============================================================================
