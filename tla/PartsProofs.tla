----------------------------- MODULE PartsProofs ------------------------------
(* Proofs about the smaller modules: Totals, Templates, Answer and Fixer.  *)
EXTENDS Totals, Templates, Answer, Fixer, Recursion, FiniteSetTheorems, SequenceTheorems, TLAPS

-----------------------------------------------------------------------------
(* Totals: no partial totals.                                              *)

\* The number of rows that the query returns, and that the question asks for.
Returns == Least(size, Capped)
Wanted == IF own \in Nat THEN Least(own, size) ELSE size

TotalsInv ==
  /\ own \in Nat \cup {NoLimit, OtherLimit} /\ size \in Nat
  /\ stage \in {"asked", "limited", "rows", "answered"}
  /\ stage = "limited" => limit = Capped
  /\ cached # NoRows => cached.count = Returns
  /\ stage = "rows" => fetched.count = Returns
  /\ NoPartialTotals

\* Fewer rows than the cap are all of them.
LEMMA FewAreAll ==
  ASSUME own \in Nat \cup {NoLimit, OtherLimit}, size \in Nat,
         DefaultRowCap <= SQLRowCap, ~MayBeCut(Returns)
  PROVE  Returns = Wanted
<1>1. SQLRowCap \in Nat /\ DefaultRowCap \in Nat
  BY TotalsAssumption
<1>2. CASE own \in Nat
  BY <1>1, <1>2 DEF Returns, Wanted, MayBeCut, Least, Capped
<1>3. CASE own \notin Nat
  BY <1>1, <1>3 DEF Returns, Wanted, MayBeCut, Least, Capped
<1>4. QED
  BY <1>2, <1>3

LEMMA TotalsInitInv == TotalsInit => TotalsInv
  BY TotalsAssumption DEF TotalsInit, TotalsInv, NoPartialTotals

LEMMA TotalsStep ==
  ASSUME DefaultRowCap <= SQLRowCap, TotalsInv, [TotalsNext]_totalling
  PROVE  TotalsInv'
<1> USE DEF TotalsInv
<1>1. CASE EnforceLimit
  BY <1>1 DEF EnforceLimit, Returns, Capped, NoPartialTotals
<1>2. CASE Fetch
  <2>1. limit = Capped /\ UNCHANGED <<own, size, types, limit, facts>> /\ stage' = "rows"
    BY <1>2 DEF Fetch
  <2>2. fetched'.count = Returns
    BY <1>2, <2>1 DEF Fetch, Returns
  <2>3. cached' # NoRows => cached'.count = Returns
    BY <1>2, <2>1 DEF Fetch, Returns
  <2>4. QED
    BY <2>1, <2>2, <2>3 DEF Returns, Capped, NoPartialTotals
<1>3. CASE Get
  BY <1>3 DEF Get, Returns, Capped, NoPartialTotals
<1>4. CASE BuildFacts
  <2>1. /\ facts' = facts \cup {ComputeTotalFacts} /\ fetched.count = Returns
        /\ stage' = "answered" /\ UNCHANGED <<own, size, types, limit, fetched, cached>>
    BY <1>4 DEF BuildFacts
  <2>2. ComputeTotalFacts.totals # {} => ComputeTotalFacts.over = Wanted
    BY <2>1, FewAreAll DEF ComputeTotalFacts, NoFacts
  <2>3. NoPartialTotals'
    BY <2>1, <2>2 DEF NoPartialTotals, Wanted
  <2>4. QED
    BY <2>1, <2>3 DEF Returns, Capped
<1>5. CASE Repeat
  BY <1>5 DEF Repeat, Returns, Capped, NoPartialTotals
<1>6. CASE Expire
  BY <1>6 DEF Expire, Returns, Capped, NoPartialTotals
<1>7. CASE UNCHANGED totalling
  BY <1>7 DEF totalling, Returns, Capped, NoPartialTotals
<1>8. QED
  BY <1>1, <1>2, <1>3, <1>4, <1>5, <1>6, <1>7 DEF TotalsNext

(* Totals are over all rows that were asked for if the cap of the facts is *)
(* not above that of the query, as in the code, where both are 50:        *)
(* domain/formatting.py compute_total_facts, config.py sql_row_cap.        *)
THEOREM TotalsAreWhole ==
  ASSUME DefaultRowCap <= SQLRowCap PROVE TotalsSpec => []NoPartialTotals
<1>1. TotalsInv /\ [TotalsNext]_totalling => TotalsInv'
  BY TotalsStep
<1>2. TotalsInv => NoPartialTotals
  BY DEF TotalsInv
<1>3. QED
  BY <1>1, <1>2, TotalsInitInv, PTL DEF TotalsSpec

-----------------------------------------------------------------------------
(* Templates: binding.                                                     *)

Literals(sql) == {i \in DOMAIN sql : sql[i].type # "other"}

\* The literals of i's type, up to i.
SameUpTo(sql, i) == {j \in 1..i : sql[j].type = sql[i].type}

LEMMA CountsGrow ==
  ASSUME NEW sql \in Seq(Literal), NEW i \in DOMAIN sql, NEW j \in DOMAIN sql,
         j < i, sql[i].type = sql[j].type
  PROVE  Cardinality(SameUpTo(sql, j)) # Cardinality(SameUpTo(sql, i))
<1> DEFINE A == SameUpTo(sql, j)
<1> DEFINE B == SameUpTo(sql, i)
<1>1. i \in Nat /\ j \in Nat /\ i >= 1 /\ j >= 1
  OBVIOUS
<1>2. IsFiniteSet(1..i)
  BY <1>1, FS_Interval
<1>3. A \subseteq B /\ B \subseteq 1..i
  BY <1>1 DEF SameUpTo
<1>4. i \in B /\ i \notin A
  BY <1>1 DEF SameUpTo
<1>5. IsFiniteSet(B)
  BY <1>2, <1>3, FS_Subset
<1>6. Cardinality(A) < Cardinality(B)
  BY <1>3, <1>4, <1>5, FS_Subset, FS_CardinalityType
<1>7. Cardinality(A) \in Nat /\ Cardinality(B) \in Nat
  BY <1>3, <1>5, FS_Subset, FS_CardinalityType
<1>8. QED
  BY <1>6, <1>7

\* No two literals share a placeholder: the counters are not reset.
LEMMA NamesDiffer ==
  ASSUME NEW sql \in Seq(Literal), NEW i \in DOMAIN sql, NEW j \in DOMAIN sql,
         NameOf(sql, i) = NameOf(sql, j)
  PROVE  i = j
<1>1. /\ sql[i].type = sql[j].type
      /\ Cardinality(SameUpTo(sql, i)) = Cardinality(SameUpTo(sql, j))
  BY DEF NameOf, SameUpTo
<1>2. i \in Int /\ j \in Int
  OBVIOUS
<1>3. ~(j < i) /\ ~(i < j)
  BY <1>1, CountsGrow
<1>4. QED
  BY <1>2, <1>3

LEMMA LiteralFields ==
  ASSUME NEW sql \in Seq(Literal), NEW i \in DOMAIN sql
  PROVE  /\ sql[i] \in Literal /\ sql[i].type \in {"date", "str", "other"}
         /\ sql[i] = [type |-> sql[i].type, value |-> sql[i].value]
<1>1. sql[i] \in Literal
  OBVIOUS
<1>2. QED
  BY <1>1 DEF Literal

\* Each placeholder stands for the literal that it replaced.
LEMMA SpecOf ==
  ASSUME NEW sql \in Seq(Literal), NEW i \in Literals(sql)
  PROVE  Parameterize(sql).spec[NameOf(sql, i)] = sql[i]
<1> DEFINE Called(name) == {k \in Literals(sql) : NameOf(sql, k) = name}
<1> DEFINE spec == [name \in {NameOf(sql, k) : k \in Literals(sql)} |->
                      sql[CHOOSE k \in Called(name) : \A j \in Called(name) : j <= k]]
<1>1. Parameterize(sql).spec = spec
  BY DEF Parameterize, Literals
<1>2. i \in DOMAIN sql /\ i \in Int
  BY DEF Literals
<1>3. Called(NameOf(sql, i)) = {i}
  BY <1>2, NamesDiffer DEF Literals
<1>4. (CHOOSE k \in {i} : \A j \in {i} : j <= k) = i
  BY <1>2
<1>5. spec[NameOf(sql, i)] = sql[i]
  BY <1>3, <1>4
<1>6. QED
  BY <1>1, <1>5

LEMMA TemplateOf ==
  ASSUME NEW sql \in Seq(Literal)
  PROVE  /\ DOMAIN Parameterize(sql).template = DOMAIN sql
         /\ \A i \in DOMAIN sql :
              Parameterize(sql).template[i] =
                IF i \in Literals(sql) THEN [type |-> "placeholder", value |-> NameOf(sql, i)]
                ELSE sql[i]
  BY DEF Parameterize, Literals

LEMMA FirstDate ==
  ASSUME NEW q \in Question, NEW d \in Replacement(q)
  PROVE  d \in {q.dates[j] : j \in DOMAIN q.dates}
<1>1. d = q.dates[1] /\ q.dates # <<>>
  BY DEF Replacement
<1>2. PICK n \in 0..2 : q.dates \in [1..n -> Date]
  BY DEF Question
<1>3. n # 0
  <2>1. CASE n = 0
    <3>1. q.dates \in [{} -> Date]
      BY <1>2, <2>1
    <3>2. q.dates = <<>>
      BY <3>1
    <3>3. QED
      BY <3>2, <1>1
  <2>2. QED
    BY <2>1
<1>4. 1 \in DOMAIN q.dates
  BY <1>2, <1>3
<1>5. QED
  BY <1>1, <1>4

LEMMA BoundLiteral ==
  ASSUME NEW sql \in Seq(Literal), NEW q \in Question, NEW i \in DOMAIN sql
  PROVE  LET b == Bind(Parameterize(sql), q) IN
         /\ DOMAIN b = DOMAIN sql
         /\ b[i] # sql[i] =>
              /\ b[i].type = "date" /\ sql[i].type = "date"
              /\ b[i].value \in {q.dates[j] : j \in DOMAIN q.dates}
<1> DEFINE e == Parameterize(sql)
<1> DEFINE b == Bind(e, q)
<1>1. /\ DOMAIN b = DOMAIN sql
      /\ b[i] = IF e.template[i].type = "placeholder"
                THEN Value(e.spec[e.template[i].value], q) ELSE e.template[i]
  BY TemplateOf DEF Bind
<1>2. CASE i \in Literals(sql)
  <2>1. e.template[i] = [type |-> "placeholder", value |-> NameOf(sql, i)]
    BY <1>2, TemplateOf
  <2>2. e.spec[NameOf(sql, i)] = sql[i]
    BY <1>2, SpecOf
  <2> HIDE DEF b, e
  <2>3. b[i] = Value(sql[i], q)
    BY <1>1, <2>1, <2>2
  <2>4. CASE sql[i].type = "date" /\ Replacement(q) # {}
    <3> DEFINE d == CHOOSE x \in Replacement(q) : TRUE
    <3>1. d \in Replacement(q)
      BY <2>4
    <3>2. b[i] = [sql[i] EXCEPT !.value = d]
      BY <2>3, <2>4 DEF Value
    <3> HIDE DEF d
    <3>3. b[i].type = "date" /\ b[i].value = d
      BY <3>2, <2>4, LiteralFields
    <3>4. QED
      BY <3>1, <3>3, <2>4, <1>1, FirstDate DEF b, e
  <2>5. CASE ~(sql[i].type = "date" /\ Replacement(q) # {})
    BY <2>3, <2>5, <1>1 DEF Value, b, e
  <2>6. QED
    BY <2>4, <2>5
<1>3. CASE i \notin Literals(sql)
  <2>1. e.template[i] = sql[i] /\ sql[i].type = "other"
    BY <1>3, TemplateOf DEF Literals
  <2> HIDE DEF b, e
  <2>2. b[i] = sql[i]
    BY <1>1, <2>1
  <2>3. QED
    BY <2>2, <1>1 DEF b, e
<1>4. QED
  BY <1>2, <1>3

TemplatesInv ==
  written \in Seq(Literal) /\ entry = Parameterize(written) /\ OnlyDatesChange

LEMMA TemplatesInitInv == TemplatesInit => TemplatesInv
  BY TemplatesAssumption DEF TemplatesInit, TemplatesInv, OnlyDatesChange

LEMMA TemplatesStep == TemplatesInv /\ [Hit]_templating => TemplatesInv'
<1> SUFFICES ASSUME TemplatesInv, [Hit]_templating PROVE TemplatesInv'
  OBVIOUS
<1>1. CASE Hit
  <2>1. PICK q \in Question : asker' = q /\ bound' = Bind(entry, q)
    BY <1>1 DEF Hit
  <2>2. written' = written /\ entry' = entry /\ entry = Parameterize(written)
    BY <1>1 DEF Hit, TemplatesInv
  <2>3. DOMAIN bound' = DOMAIN written
    BY <2>1, <2>2, TemplateOf DEF Bind, TemplatesInv
  <2>4. \A i \in DOMAIN written : bound'[i] # written[i] =>
          /\ bound'[i].type = "date" /\ written[i].type = "date"
          /\ bound'[i].value \in {q.dates[j] : j \in DOMAIN q.dates}
    BY <2>1, <2>2, BoundLiteral DEF TemplatesInv
  <2>5. QED
    BY <2>1, <2>2, <2>3, <2>4 DEF TemplatesInv, OnlyDatesChange
<1>2. CASE UNCHANGED templating
  BY <1>2 DEF templating, TemplatesInv, OnlyDatesChange
<1>3. QED
  BY <1>1, <1>2

(* Queries of any length come back with nothing changed but dates, which   *)
(* become dates of the new question: parameterize numbers literals so that *)
(* no two share a placeholder, bind_template puts each back (templater.py).*)
THEOREM OnlyDatesEverChange == TemplatesSpec => []OnlyDatesChange
<1>1. TemplatesInv => OnlyDatesChange
  BY DEF TemplatesInv
<1>2. QED
  BY <1>1, TemplatesInitInv, TemplatesStep, PTL DEF TemplatesSpec

-----------------------------------------------------------------------------
(* Answer: the result is shown.                                            *)

\* The lines of a text, picked one after the other.
Picks(h, L, text, places) ==
  /\ h \in [0..Len(text) -> Seq(L)] /\ h[0] = <<>>
  /\ \A i \in 1..Len(text) :
       h[i] = IF i \in places THEN Append(h[i-1], text[i]) ELSE h[i-1]

LEMMA PickedInSteps ==
  ASSUME NEW L, NEW text \in Seq(L), NEW places
  PROVE  \E h : Picks(h, L, text, places) /\ Picked(text, places) = h[Len(text)]
<1> DEFINE n == Len(text)
           S == Seq(L)
           step == [x \in (1..n) \X S |-> IF x[1] \in places THEN Append(x[2], text[x[1]]) ELSE x[2]]
           E(g) == [i \in 0..n |->
                      IF i = 0 THEN <<>>
                      ELSE IF i \in places THEN Append(g[i-1], text[i]) ELSE g[i-1]]
           h == CHOOSE g : g = E(g)
<1>1. n \in Nat /\ \A i \in 1..n : text[i] \in L
  OBVIOUS
<1>2. step \in [(1..n) \X S -> S]
  BY <1>1
<1>3. \A i \in 1..n, s \in S :
        step[<<i, s>>] = IF i \in places THEN Append(s, text[i]) ELSE s
  OBVIOUS
<1> HIDE DEF step, n
<1>4. <<>> \in S
  OBVIOUS
<1> HIDE DEF S
<1> DEFINE b == <<>>
<1>5. Iterates(S, b, n, step)
  <2>1. b \in S
    BY <1>4
  <2> HIDE DEF b
  <2>2. QED
    BY <1>1, <1>2, <2>1, RecursiveFunction
<1>6. PICK f \in [0..n -> S] : f[0] = <<>> /\ \A i \in 1..n : f[i] = step[<<i, f[i-1]>>]
  BY <1>5 DEF Iterates
<1>7. \A i \in 0..n : i = 0 \/ (i \in 1..n /\ i # 0 /\ i - 1 \in 0..n)
  BY <1>1
<1>8. f = E(f)
  <2>1. ASSUME NEW i \in 0..n PROVE f[i] = E(f)[i]
    <3>1. CASE i = 0
      BY <1>6, <3>1
    <3>2. CASE i # 0
      <4>1. i \in 1..n /\ f[i-1] \in S
        BY <1>7, <3>2
      <4>2. f[i] = IF i \in places THEN Append(f[i-1], text[i]) ELSE f[i-1]
        BY <1>3, <1>6, <4>1
      <4>3. QED
        BY <3>2, <4>2
    <3>3. QED
      BY <3>1, <3>2
  <2> HIDE DEF E
  <2>2. DOMAIN E(f) = 0..n /\ E(f) = [i \in 0..n |-> E(f)[i]]
    BY DEF E
  <2>3. QED
    BY <2>1, <2>2
<1>9. h = E(h)
  BY <1>8
<1>10. Picked(text, places) = h[n]
  BY DEF Picked, n
<1> HIDE DEF h
<1>11. /\ h = [i \in 0..n |-> h[i]] /\ h[0] = <<>>
       /\ \A i \in 1..n : h[i] = IF i \in places THEN Append(h[i-1], text[i]) ELSE h[i-1]
  <2>1. \A i \in 0..n : h[i] = E(h)[i]
    BY <1>9
  <2>2. DOMAIN h = 0..n
    BY <1>9
  <2>3. h = [i \in 0..n |-> h[i]]
    BY <1>9, <2>2
  <2>4. /\ E(h)[0] = <<>>
        /\ \A i \in 1..n : E(h)[i] = IF i \in places THEN Append(h[i-1], text[i]) ELSE h[i-1]
    BY <1>1
  <2>5. 0 \in 0..n /\ \A i \in 1..n : i \in 0..n
    BY <1>1
  <2> HIDE DEF E
  <2>6. QED
    BY <2>1, <2>3, <2>4, <2>5
<1> DEFINE T == {i \in 0..n : h[i] \in S}
<1>12. 0 \in T
  BY <1>1, <1>4, <1>11
<1>13. ASSUME NEW i \in 1..n, i - 1 \in T PROVE i \in T
  <2>1. i \in 0..n /\ h[i-1] \in S
    BY <1>13
  <2>2. h[i] \in S
    <3>1. h[i] = IF i \in places THEN Append(h[i-1], text[i]) ELSE h[i-1]
      BY <1>11
    <3> DEFINE s == h[i-1]
               e == text[i]
    <3>2. s \in Seq(L) /\ e \in L
      BY <1>1, <2>1 DEF S
    <3> HIDE DEF s, e
    <3>3. Append(s, e) \in Seq(L)
      BY <3>2, AppendProperties
    <3>4. QED
      BY <2>1, <3>1, <3>3 DEF S, s, e
  <2>3. QED
    BY <2>1, <2>2
<1> HIDE DEF T
<1>14. 0..n \subseteq T
  BY <1>1, <1>12, <1>13, InductionUpTo
<1>15. h \in [0..n -> S]
  BY <1>11, <1>14 DEF T
<1>16. Picks(h, L, text, places)
  BY <1>11, <1>15 DEF Picks, S, n
<1>17. QED
  BY <1>10, <1>16 DEF n

\* The first k lines, or all but them.
FirstOf(text, places, k) == \A i \in 1..Len(text) : i \in places <=> i <= k
RestOf(text, places, k) == \A i \in 1..Len(text) : i \in places <=> i > k

LEMMA PickedFirst ==
  ASSUME NEW L, NEW text \in Seq(L), NEW k \in 0..Len(text), NEW places, FirstOf(text, places, k)
  PROVE  /\ Picked(text, places) \in Seq(L) /\ Len(Picked(text, places)) = k
         /\ \A j \in 1..k : Picked(text, places)[j] = text[j]
<1> DEFINE n == Len(text)
<1>1. PICK h : Picks(h, L, text, places) /\ Picked(text, places) = h[n]
  BY PickedInSteps
<1> DEFINE Upto(i) == IF i <= k THEN i ELSE k
           T == {i \in 0..n : /\ Len(h[i]) = Upto(i)
                              /\ \A j \in 1..Upto(i) : h[i][j] = text[j]}
<1>2. n \in Nat /\ k \in Nat /\ k <= n /\ \A i \in 1..n : text[i] \in L
  OBVIOUS
<1>3. 0 \in T
  BY <1>1, <1>2 DEF Picks
<1>4. ASSUME NEW i \in 1..n, i - 1 \in T PROVE i \in T
  <2>1. /\ i \in 0..n /\ i \in Int /\ i - 1 \in 0..n /\ text[i] \in L
        /\ Len(h[i-1]) = Upto(i-1) /\ \A j \in 1..Upto(i-1) : h[i-1][j] = text[j]
    BY <1>2, <1>4
  <2>2. h[i-1] \in Seq(L)
    BY <1>1, <2>1 DEF Picks
  <2>3. CASE i <= k
    <3>7. i \in places
      BY <2>3 DEF FirstOf
    <3>6. h[i] = Append(h[i-1], text[i])
      BY <1>1, <3>7 DEF Picks
    <3>1. h[i] = Append(h[i-1], text[i]) /\ Upto(i-1) = i - 1 /\ Upto(i) = i
      BY <1>2, <2>1, <2>3, <3>6
    <3>2. Len(h[i]) = i /\ h[i][i] = text[i] /\ \A j \in 1..i-1 : h[i][j] = h[i-1][j]
      BY <2>1, <2>2, <3>1, AppendProperties
    <3>3. \A j \in 1..i : j = i \/ j \in 1..i-1
      BY <2>1
    <3>4. \A j \in 1..i : h[i][j] = text[j]
      BY <2>1, <3>1, <3>2, <3>3
    <3>5. QED
      BY <2>1, <3>1, <3>2, <3>4
  <2>4. CASE ~(i <= k)
    <3>1. h[i] = h[i-1] /\ Upto(i-1) = k /\ Upto(i) = k
      BY <1>1, <1>2, <2>1, <2>4 DEF Picks, FirstOf
    <3>2. QED
      BY <2>1, <3>1
  <2>5. QED
    BY <2>3, <2>4
<1> HIDE DEF T
<1>5. 0..n \subseteq T
  BY <1>2, <1>3, <1>4, InductionUpTo
<1>6. n \in T
  BY <1>2, <1>5
<1>7. Upto(n) = k
  BY <1>2
<1> HIDE DEF Upto, n
<1>8. Len(h[n]) = k /\ \A j \in 1..k : h[n][j] = text[j]
  BY <1>6, <1>7 DEF T
<1>9. h[n] \in Seq(L)
  BY <1>1, <1>2 DEF Picks, n
<1>10. QED
  BY <1>1, <1>8, <1>9

IsRest(picked, L, text, k) ==
  /\ picked \in Seq(L) /\ Len(picked) = Len(text) - k
  /\ \A j \in 1..Len(text) - k : picked[j] = text[k + j]

LEMMA PickedRest ==
  ASSUME NEW L, NEW text \in Seq(L), NEW k \in 0..Len(text), NEW places, RestOf(text, places, k)
  PROVE  IsRest(Picked(text, places), L, text, k)
<1> DEFINE n == Len(text)
<1>1. PICK h : Picks(h, L, text, places) /\ Picked(text, places) = h[n]
  BY PickedInSteps
<1> DEFINE Beyond(i) == IF i <= k THEN 0 ELSE i - k
           T == {i \in 0..n : /\ Len(h[i]) = Beyond(i)
                              /\ \A j \in 1..Beyond(i) : h[i][j] = text[k + j]}
<1>2. n \in Nat /\ k \in Nat /\ k <= n /\ \A i \in 1..n : text[i] \in L
  OBVIOUS
<1>3. 0 \in T
  BY <1>1, <1>2 DEF Picks
<1>4. ASSUME NEW i \in 1..n, i - 1 \in T PROVE i \in T
  <2>1. /\ i \in 0..n /\ i \in Int /\ i - 1 \in 0..n /\ text[i] \in L
        /\ Len(h[i-1]) = Beyond(i-1) /\ \A j \in 1..Beyond(i-1) : h[i-1][j] = text[k + j]
    BY <1>2, <1>4
  <2>2. h[i-1] \in Seq(L)
    BY <1>1, <2>1 DEF Picks
  <2>3. CASE i > k
    <3>7. i \in places
      BY <2>3 DEF RestOf
    <3>6. h[i] = Append(h[i-1], text[i])
      BY <1>1, <3>7 DEF Picks
    <3>1. h[i] = Append(h[i-1], text[i]) /\ Beyond(i-1) = i - 1 - k /\ Beyond(i) = i - k
      BY <1>2, <2>1, <2>3, <3>6
    <3>2. Len(h[i]) = i - k /\ h[i][i-k] = text[i] /\ \A j \in 1..i-1-k : h[i][j] = h[i-1][j]
      <4>1. Len(h[i]) = Len(h[i-1]) + 1 /\ h[i][Len(h[i-1]) + 1] = text[i]
            /\ \A j \in 1..Len(h[i-1]) : h[i][j] = h[i-1][j]
        <5> DEFINE s == h[i-1]
                   e == text[i]
        <5>1. s \in Seq(L) /\ e \in L /\ h[i] = Append(s, e)
          BY <2>1, <2>2, <3>1
        <5> HIDE DEF s, e
        <5>2. Len(h[i]) = Len(s) + 1 /\ h[i][Len(s) + 1] = e /\ \A j \in 1..Len(s) : h[i][j] = s[j]
          BY <5>1, AppendProperties
        <5>3. QED
          BY <5>2 DEF s, e
      <4>2. Len(h[i-1]) = i - 1 - k /\ Len(h[i-1]) + 1 = i - k
        BY <1>2, <2>1, <3>1
      <4>3. QED
        BY <4>1, <4>2
    <3>3. \A j \in 1..i-k : (j = i - k /\ k + j = i) \/ j \in 1..i-1-k
      BY <1>2, <2>1
    <3>4. \A j \in 1..i-k : h[i][j] = text[k + j]
      BY <2>1, <3>1, <3>2, <3>3
    <3>5. QED
      BY <2>1, <3>1, <3>2, <3>4
  <2>4. CASE ~(i > k)
    <3>1. h[i] = h[i-1] /\ Beyond(i-1) = 0 /\ Beyond(i) = 0
      BY <1>1, <1>2, <2>1, <2>4 DEF Picks, RestOf
    <3>2. QED
      BY <2>1, <3>1
  <2>5. QED
    BY <1>2, <2>1, <2>3, <2>4
<1> HIDE DEF T
<1>5. 0..n \subseteq T
  BY <1>2, <1>3, <1>4, InductionUpTo
<1>6. n \in T
  BY <1>2, <1>5
<1>7. Beyond(n) = n - k
  BY <1>2
<1> HIDE DEF Beyond, n
<1>8. Len(h[n]) = n - k /\ \A j \in 1..n - k : h[n][j] = text[k + j]
  BY <1>6, <1>7 DEF T
<1>9. h[n] \in Seq(L)
  BY <1>1, <1>2 DEF Picks, n
<1>10. QED
  BY <1>1, <1>8, <1>9 DEF n, IsRest

\* What is picked comes from those places.
LEMMA PickedFrom ==
  ASSUME NEW L, NEW text \in Seq(L), NEW places
  PROVE  Picked(text, places) \in Seq({text[i] : i \in places \cap (1..Len(text))})
<1> DEFINE n == Len(text)
           M == {text[i] : i \in places \cap (1..n)}
<1>1. PICK h : Picks(h, L, text, places) /\ Picked(text, places) = h[n]
  BY PickedInSteps
<1> DEFINE T == {i \in 0..n : h[i] \in Seq(M)}
<1>2. n \in Nat
  OBVIOUS
<1>3. 0 \in T
  BY <1>1, <1>2 DEF Picks
<1>4. ASSUME NEW i \in 1..n, i - 1 \in T PROVE i \in T
  <2>1. i \in 0..n /\ h[i-1] \in Seq(M)
    BY <1>4
  <2>2. h[i] = IF i \in places THEN Append(h[i-1], text[i]) ELSE h[i-1]
    BY <1>1 DEF Picks
  <2>3. i \in places => text[i] \in M
    OBVIOUS
  <2> HIDE DEF M
  <2>4. h[i] \in Seq(M)
    BY <2>1, <2>2, <2>3
  <2>5. QED
    BY <2>1, <2>4
<1> HIDE DEF T
<1>5. 0..n \subseteq T
  BY <1>2, <1>3, <1>4, InductionUpTo
<1>6. n \in T
  BY <1>2, <1>5
<1>7. QED
  BY <1>1, <1>6 DEF T

-----------------------------------------------------------------------------
\* Sentences first, then the rows of a table.
LEMMA TakenApart ==
  ASSUME NEW L, NEW a \in Seq(L), NEW b \in Seq(L),
         \A i \in 1..Len(a) : a[i].kind = "sentence", \A i \in 1..Len(b) : b[i].kind = "row"
  PROVE  Sentences(a \o b) = a /\ TableRows(a \o b) = b /\ SplitProse(a \o b) = a
<1> DEFINE text == a \o b
           n == Len(text)
           k == Len(a)
<1>1. /\ text \in Seq(L) /\ n = k + Len(b) /\ k \in Nat /\ Len(b) \in Nat /\ n \in Nat
      /\ DOMAIN text = 1..n
  BY ConcatProperties
<1>2. /\ \A i \in 1..k : text[i] = a[i] /\ text[i] \in L
      /\ \A i \in 1..Len(b) : text[k + i] = b[i] /\ text[k + i] \in L
  <2>1. \A i \in 1..Len(a) + Len(b) : text[i] = IF i <= Len(a) THEN a[i] ELSE b[i - Len(a)]
    BY ConcatProperties
  <2>2. \A i \in 1..k : i \in 1..Len(a) + Len(b) /\ i <= Len(a) /\ a[i] \in L
    BY <1>1
  <2>3. \A i \in 1..Len(b) :
          /\ k + i \in 1..Len(a) + Len(b) /\ ~(k + i <= Len(a)) /\ (k + i) - Len(a) = i
          /\ b[i] \in L
    BY <1>1
  <2> HIDE DEF text, k
  <2>4. \A i \in 1..k : text[i] = a[i] /\ text[i] \in L
    BY <2>1, <2>2
  <2>5. \A i \in 1..Len(b) : text[k + i] = b[i] /\ text[k + i] \in L
    BY <2>1, <2>3
  <2>6. QED
    BY <2>4, <2>5
<1> HIDE DEF text, n
<1>3. ASSUME NEW i \in 1..n
      PROVE  (i <= k /\ text[i].kind = "sentence") \/ (i > k /\ text[i].kind = "row")
  <2>1. CASE i <= k
    BY <1>1, <1>2, <2>1
  <2>2. CASE ~(i <= k)
    <3>1. i - k \in 1..Len(b) /\ i = k + (i - k)
      BY <1>1, <2>2
    <3>2. text[i] = b[i - k]
      BY <1>2, <3>1
    <3>3. i > k
      BY <1>1, <2>2
    <3>4. QED
      BY <3>1, <3>2, <3>3
  <2>3. QED
    BY <2>1, <2>2
<1>4. k \in 0..n
  BY <1>1
<1>5. Sentences(text) = a
  <2> DEFINE places == {i \in DOMAIN text : text[i].kind = "sentence"}
  <2>1. \A i \in 1..n : i \in places <=> i <= k
    BY <1>1, <1>3
  <2> DEFINE p == Picked(text, places)
  <2> HIDE DEF places
  <2>2. p \in Seq(L) /\ Len(p) = k /\ \A j \in 1..k : p[j] = text[j]
    <3> HIDE DEF k
    <3>1. k \in 0..Len(text) /\ FirstOf(text, places, k)
      BY <1>4, <2>1 DEF n, FirstOf
    <3>2. QED
      BY <1>1, <3>1, PickedFirst DEF n
  <2>3. \A j \in 1..Len(p) : p[j] = a[j]
    BY <1>2, <2>2
  <2> HIDE DEF p
  <2>4. p = a
    BY <2>2, <2>3, SeqEqual
  <2>5. QED
    BY <2>4 DEF p, places, Sentences
<1>6. TableRows(text) = b
  <2> DEFINE places == {i \in DOMAIN text : text[i].kind # "sentence"}
  <2>1. \A i \in 1..n : i \in places <=> i > k
    BY <1>1, <1>3
  <2> DEFINE p == Picked(text, places)
  <2> HIDE DEF places
  <2>2. p \in Seq(L) /\ Len(p) = n - k /\ \A j \in 1..n - k : p[j] = text[k + j]
    <3> HIDE DEF k
    <3>1. k \in 0..Len(text) /\ RestOf(text, places, k)
      BY <1>4, <2>1 DEF n, RestOf
    <3>2. text \in Seq(L)
      BY <1>1
    <3> HIDE DEF p
    <3>3. IsRest(Picked(text, places), L, text, k)
      BY <3>1, <3>2, PickedRest
    <3>4. QED
      BY <3>3 DEF n, p, IsRest
  <2>3. n - k = Len(b)
    BY <1>1
  <2>4. \A j \in 1..Len(p) : p[j] = b[j]
    BY <1>2, <2>2, <2>3
  <2> HIDE DEF p, k
  <2>5. p = b
    BY <2>2, <2>3, <2>4, SeqEqual
  <2>6. QED
    BY <2>5 DEF p, places, TableRows
<1>7. SplitProse(text) = a
  <2> DEFINE before == {m \in 0..n : \A i \in 1..m : text[i].kind # "row"}
             last == CHOOSE m \in before : \A o \in before : o <= m
  <2>1. before = 0..k
    <3>1. ASSUME NEW m \in before PROVE m \in 0..k
      <4>1. m \in 0..n /\ (m > k => k + 1 \in 1..m /\ k + 1 \in 1..n)
        BY <1>1
      <4>2. m > k => text[k + 1].kind = "row"
        BY <1>1, <1>3, <4>1
      <4>3. ~(m > k)
        BY <4>1, <4>2
      <4>4. QED
        BY <1>1, <4>1, <4>3
    <3>2. ASSUME NEW m \in 0..k PROVE m \in before
      <4>1. \A i \in 1..m : i \in 1..n /\ i <= k
        BY <1>1
      <4>2. \A i \in 1..m : text[i].kind # "row"
        BY <1>1, <1>3, <4>1
      <4>3. QED
        BY <1>1, <4>2
    <3>3. QED
      BY <3>1, <3>2
  <2> HIDE DEF before
  <2>2. k \in before /\ \A o \in before : o <= k
    BY <1>1, <2>1
  <2>3. last \in before /\ \A o \in before : o <= last
    BY <2>2
  <2> HIDE DEF last
  <2>4. last = k
    BY <1>1, <2>1, <2>2, <2>3
  <2>5. SplitProse(text) = SubSeq(text, 1, k)
    BY <2>4 DEF SplitProse, before, last, n
  <2> DEFINE q == SubSeq(text, 1, k)
  <2>6. \A i \in 1..k : text[i] \in L
    BY <1>2
  <2>7. /\ q \in Seq(L) /\ Len(q) = (IF 1 <= k THEN k - 1 + 1 ELSE 0)
        /\ \A i \in 1..k - 1 + 1 : q[i] = text[1 + i - 1]
    BY <1>1, <2>6, SubSeqProperties
  <2>8. Len(q) = k /\ \A i \in 1..k : q[i] = text[i]
    <3>1. k - 1 + 1 = k /\ \A i \in 1..k : 1 + i - 1 = i
      BY <1>1
    <3>2. QED
      BY <1>1, <2>7, <3>1
  <2> HIDE DEF q
  <2>9. \A i \in 1..Len(q) : q[i] = a[i]
    BY <1>2, <2>8
  <2>10. q = a
    BY <2>7, <2>8, <2>9, SeqEqual
  <2>11. QED
    BY <2>5, <2>10 DEF q
<1>8. QED
  BY <1>5, <1>6, <1>7 DEF text

\* What scrubbing leaves are sentences, and it leaves a text of sentences alone.
LEMMA ScrubbedText ==
  ASSUME NEW L, NEW text \in Seq(L), \A i \in 1..Len(text) : text[i].kind \in Kind
  PROVE  /\ Scrubbed(text) \in Seq(L)
         /\ \A i \in 1..Len(Scrubbed(text)) : Scrubbed(text)[i].kind = "sentence"
         /\ Sentences(text) = text => Scrubbed(text) = text
<1> DEFINE n == Len(text)
           places == {i \in DOMAIN text : ~InDump(text, i) /\ ~IsDataLine(text[i])}
           sentences == {i \in DOMAIN text : text[i].kind = "sentence"}
<1>1. n \in Nat /\ DOMAIN text = 1..n /\ \A i \in 1..n : text[i] \in L
  OBVIOUS
<1>2. ASSUME NEW i \in places PROVE text[i].kind = "sentence"
  <2>1. i \in 1..n /\ ~InDump(text, i) /\ ~IsDataLine(text[i])
    OBVIOUS
  <2>2. text[i].kind # "open"
    <3>1. i \in 1..i /\ \A d \in i..(i - 1) : FALSE
      BY <1>1, <2>1
    <3>2. QED
      BY <2>1, <3>1 DEF InDump
  <2>3. QED
    BY <2>1, <2>2 DEF InDump, IsDataLine, Kind
<1> HIDE DEF places
<1>3. Scrubbed(text) \in Seq({text[i] : i \in places \cap (1..n)})
  BY PickedFrom DEF Scrubbed, places
<1> DEFINE M == {text[i] : i \in places \cap (1..n)}
           s == Scrubbed(text)
<1>4. M \subseteq L /\ \A x \in M : x.kind = "sentence"
  BY <1>1, <1>2
<1> HIDE DEF M, s
<1>5. s \in Seq(M)
  BY <1>3 DEF M, s
<1>6. s \in Seq(L) /\ \A i \in 1..Len(s) : s[i].kind = "sentence"
  BY <1>4, <1>5
<1>7. ASSUME Sentences(text) = text PROVE s = text
  <2>1. text \in Seq({text[i] : i \in sentences \cap (1..n)})
    <3> HIDE DEF sentences, n
    <3>1. Sentences(text) = Picked(text, sentences)
      BY DEF Sentences, sentences
    <3>2. Picked(text, sentences) \in Seq({text[i] : i \in sentences \cap (1..n)})
      BY PickedFrom DEF n
    <3>3. QED
      BY <1>7, <3>1, <3>2
  <2> DEFINE V == {text[i] : i \in sentences \cap (1..n)}
  <2>2. \A x \in V : x.kind = "sentence"
    OBVIOUS
  <2> HIDE DEF V
  <2>3. \A i \in 1..n : text[i] \in V
    BY <2>1 DEF V
  <2>4. \A i \in 1..n : text[i].kind = "sentence"
    BY <2>2, <2>3
  <2>5. \A i \in 1..n : i \in places
    BY <1>1, <2>4 DEF places, InDump, IsDataLine
  <2>6. FirstOf(text, places, n)
    BY <1>1, <2>5 DEF FirstOf
  <2>7. n \in 0..Len(text)
    BY <1>1
  <2>8. Len(s) = n /\ \A j \in 1..n : s[j] = text[j]
    BY <2>6, <2>7, PickedFirst DEF s, Scrubbed, places
  <2>9. QED
    BY <1>6, <2>8, SeqEqual
<1>8. QED
  BY <1>6, <1>7 DEF s

\* Half a hundredth at most is lost.
LEMMA RupeesTell ==
  ASSUME NEW v \in Int, NEW column
  PROVE  Tells(Cell(column, v), v)
<1> SUFFICES ASSUME Magnitude(v) % 1000 < 995 PROVE Cell(column, v).reads - v \in -5..5
  BY DEF Tells
<1>1. CASE column \notin Money
  <2>1. Cell(column, v).reads = v
    BY <1>1 DEF Cell
  <2>2. QED
    BY <2>1
<1>2. CASE column \in Money
  <2> DEFINE m == Magnitude(v)
             q == m \div 1000
             r == m % 1000
             down == r \div 10
             rest == m % 10
             h == Hundredths(m)
             reads == q * 1000 + (IF h = 100 THEN 100 ELSE 10 * h)
  <2>1. m \in Nat /\ (v < 0 => m = -v) /\ (~(v < 0) => m = v)
    BY DEF Magnitude
  <2>2. h = IF rest > 5 \/ (rest = 5 /\ down % 2 = 1) THEN down + 1 ELSE down
    BY DEF Hundredths
  <2>3. Cell(column, v).reads = IF v < 0 THEN -reads ELSE reads
    BY <1>2 DEF Cell, FormatRupees
  <2> HIDE DEF m, h
  <2>4. /\ q \in Nat /\ r \in 0..999 /\ m = 1000 * q + r /\ r < 995
        /\ down \in 0..99 /\ rest \in 0..9 /\ r = 10 * down + rest
    <3>1. q \in Nat /\ r \in 0..999 /\ m = 1000 * q + r /\ rest \in 0..9
      BY <2>1
    <3>2. r < 995
      BY DEF m
    <3>3. down \in 0..99 /\ r = 10 * down + (r % 10)
      BY <3>1
    <3>4. r % 10 = rest
      BY <2>1, <3>1
    <3>5. QED
      BY <3>1, <3>2, <3>3, <3>4
  <2> HIDE DEF q, r, down, rest
  <2>5. h \in {down, down + 1} /\ (h = down + 1 => rest >= 5) /\ (h = down => rest <= 5)
    BY <2>2, <2>4
  <2>6. h # 100 /\ h \in Nat
    BY <2>4, <2>5
  <2>7. reads = q * 1000 + 10 * h
    BY <2>6
  <2>8. reads \in Int /\ reads - m \in -5..5
    BY <2>1, <2>4, <2>5, <2>6, <2>7
  <2> HIDE DEF reads
  <2>9. QED
    BY <2>1, <2>3, <2>8
<1>3. QED
  BY <1>1, <1>2

-----------------------------------------------------------------------------
Composed ==
  [text |-> Prose \o RenderMarkdownTable,
   output |-> [rows |-> FirstRows(ToolRows), row_count |-> Len(found)]]

Exported ==
  [prose |-> SplitProse(message.text), table |-> TableOf(message.output),
   note |-> message.output.row_count > Len(message.output.rows)]

AnswerInv ==
  /\ \E r \in Results : heading = r.columns /\ found = r.rows
  /\ reply \in Replies
  /\ message # NoMessage => message = Composed
  /\ report # NoMessage => message # NoMessage /\ report = Exported

LEMMA AnswerStart == AnswerInit => AnswerInv
  BY DEF AnswerInit, AnswerInv

LEMMA AnswerStep == AnswerInv /\ [AnswerNext]_answering => AnswerInv'
<1> SUFFICES ASSUME AnswerInv, [AnswerNext]_answering PROVE AnswerInv'
  OBVIOUS
<1>1. UNCHANGED <<heading, found, reply>>
  BY DEF AnswerNext, AnswerQuestion, Export, answering
<1>2. Composed' = Composed
  BY <1>1 DEF Composed, Prose, RenderMarkdownTable, Rendered, Cells, SingleValue, FirstRows
<1>3. UNCHANGED message => Exported' = Exported
  BY <1>1 DEF Exported, TableOf, Cells
<1>4. CASE AnswerQuestion
  <2>1. message = NoMessage /\ report' = report /\ message' = Composed
    BY <1>4 DEF AnswerQuestion, Composed
  <2>2. QED
    BY <1>1, <1>2, <2>1 DEF AnswerInv
<1>5. CASE Export
  <2>1. message # NoMessage /\ message' = message /\ report' = Exported
    BY <1>5 DEF Export, Exported
  <2>2. QED
    BY <1>1, <1>2, <1>3, <2>1 DEF AnswerInv
<1>6. CASE UNCHANGED answering
  BY <1>1, <1>2, <1>3, <1>6 DEF AnswerInv, answering
<1>7. QED
  BY <1>4, <1>5, <1>6 DEF AnswerNext

LEMMA ResultFacts ==
  ASSUME AnswerInv
  PROVE  /\ Len(heading) \in Nat /\ DOMAIN heading = 1..Len(heading)
         /\ Len(found) \in Nat /\ DOMAIN found = 1..Len(found)
         /\ found = <<>> <=> Len(found) = 0
         /\ \A i \in 1..Len(found) : found[i] \in [DOMAIN heading -> Int]
<1>1. heading \in Seq(Field) /\ found \in Seq([DOMAIN heading -> Int])
  BY AnswerAssumption DEF AnswerInv
<1>2. QED
  BY <1>1

\* The lines that a message may have.
Lines ==
  {Line(k, "words") : k \in Kind} \cup {Line("sentence", "no data"), Line("sentence", "lead-in")}
    \cup {Rendered(found[i]) : i \in DOMAIN found}

\* The prose is made of sentences, and there is some.
LEMMA ProseIsSaid ==
  ASSUME AnswerInv
  PROVE  /\ Prose \in Seq(Lines) /\ Prose # <<>>
         /\ \A i \in 1..Len(Prose) : Prose[i].kind = "sentence"
         /\ found # <<>> /\ reply # <<>> /\ Sentences(reply) = reply => Prose = reply
<1>1. reply \in Seq({Line(k, "words") : k \in Kind})
  BY AnswerAssumption DEF AnswerInv
<1>2. reply \in Seq(Lines) /\ \A i \in 1..Len(reply) : reply[i].kind \in Kind
  <2>1. {Line(k, "words") : k \in Kind} \subseteq Lines
        /\ \A x \in {Line(k, "words") : k \in Kind} : x.kind \in Kind
    <3>1. \A k \in Kind : Line(k, "words").kind = k
      BY DEF Line
    <3>2. {Line(k, "words") : k \in Kind} \subseteq Lines
      BY DEF Lines
    <3>3. QED
      BY <3>1, <3>2
  <2> DEFINE M == {Line(k, "words") : k \in Kind}
  <2> HIDE DEF M
  <2>2. QED
    BY <1>1, <2>1 DEF M
<1>3. /\ Scrubbed(reply) \in Seq(Lines)
      /\ \A i \in 1..Len(Scrubbed(reply)) : Scrubbed(reply)[i].kind = "sentence"
      /\ Sentences(reply) = reply => Scrubbed(reply) = reply
  BY <1>2, ScrubbedText
<1>4. /\ NoData \in Seq(Lines) /\ Len(NoData) = 1 /\ NoData[1].kind = "sentence"
      /\ LeadIn \in Seq(Lines) /\ Len(LeadIn) = 1 /\ LeadIn[1].kind = "sentence"
  <2> DEFINE d == Line("sentence", "no data")
             l == Line("sentence", "lead-in")
  <2>1. d \in Lines /\ l \in Lines
    BY DEF Lines
  <2>2. d.kind = "sentence" /\ l.kind = "sentence"
    BY DEF Line
  <2>3. NoData = <<d>> /\ LeadIn = <<l>>
    BY DEF NoData, LeadIn
  <2> HIDE DEF d, l
  <2>4. QED
    BY <2>1, <2>2, <2>3
<1>5. NoData # <<>> /\ LeadIn # <<>>
  BY <1>4
<1>6. \A i \in 1..1 : i = 1
  OBVIOUS
<1>7. QED
  BY <1>3, <1>4, <1>5, <1>6 DEF Prose

\* The table has a line for each row.
LEMMA TableIsRows ==
  ASSUME AnswerInv
  PROVE  /\ RenderMarkdownTable \in Seq(Lines)
         /\ \A i \in 1..Len(RenderMarkdownTable) : RenderMarkdownTable[i].kind = "row"
         /\ ~SingleValue =>
              /\ Len(RenderMarkdownTable) = Len(found)
              /\ \A i \in 1..Len(found) : RenderMarkdownTable[i].cells = Cells(found[i])
<1> DEFINE table == [i \in DOMAIN found |-> Rendered(found[i])]
<1>1. table \in Seq(Lines) /\ Len(table) = Len(found)
      /\ \A i \in 1..Len(found) : table[i].kind = "row" /\ table[i].cells = Cells(found[i])
  <2>1. \A i \in 1..Len(found) : Rendered(found[i]) \in Lines
    BY ResultFacts DEF Lines
  <2>2. table = [i \in 1..Len(found) |-> Rendered(found[i])] /\ Len(found) \in Nat
    BY ResultFacts
  <2>3. table \in Seq(Lines) /\ Len(table) = Len(found)
    BY <2>1, <2>2
  <2>4. \A i \in 1..Len(found) : table[i] = Rendered(found[i])
    BY <2>2
  <2>5. QED
    BY <2>3, <2>4 DEF Rendered
<1> HIDE DEF table
<1>2. CASE found = <<>> \/ SingleValue
  <2>1. RenderMarkdownTable = <<>> /\ Len(RenderMarkdownTable) = 0
    BY <1>2 DEF RenderMarkdownTable
  <2>2. RenderMarkdownTable \in Seq(Lines)
    BY <2>1
  <2>3. ~SingleValue => Len(found) = 0
    BY <1>2, ResultFacts
  <2>4. \A i \in 1..0 : FALSE
    OBVIOUS
  <2>5. QED
    BY <2>1, <2>2, <2>3, <2>4
<1>3. CASE ~(found = <<>> \/ SingleValue)
  BY <1>1, <1>3 DEF RenderMarkdownTable, table
<1>4. QED
  BY <1>2, <1>3

\* The report's table has the first rows.
LEMMA ReportTable ==
  ASSUME AnswerInv, ~SingleValue, NEW i \in 1..Len(found)
  PROVE  LET output == [rows |-> FirstRows(ToolRows), row_count |-> Len(found)]
         IN  IF i <= ToolRows THEN TableOf(output)[i] = Cells(found[i])
             ELSE output.row_count > Len(output.rows)
<1> DEFINE n == IF Len(found) < ToolRows THEN Len(found) ELSE ToolRows
           rows == FirstRows(ToolRows)
           output == [rows |-> rows, row_count |-> Len(found)]
<1>1. ToolRows \in Nat /\ ToolRows > 1 /\ Len(found) \in Nat /\ i \in Nat /\ i >= 1 /\ i <= Len(found)
  BY AnswerAssumption, ResultFacts
<1>2. n \in Nat /\ n >= 1 /\ n <= Len(found)
  BY <1>1
<1>3. rows = SubSeq(found, 1, n)
  BY DEF FirstRows
<1> DEFINE S == [DOMAIN heading -> Int]
<1>4. \A j \in 1..n : found[j] \in S
  BY <1>2, ResultFacts
<1> HIDE DEF n, rows, S
<1>5. rows \in Seq(S) /\ Len(rows) = n /\ \A j \in 1..n : rows[j] = found[j]
  <2>1. /\ SubSeq(found, 1, n) \in Seq(S)
        /\ Len(SubSeq(found, 1, n)) = (IF 1 <= n THEN n - 1 + 1 ELSE 0)
        /\ \A j \in 1..n - 1 + 1 : SubSeq(found, 1, n)[j] = found[1 + j - 1]
    BY <1>2, <1>4, SubSeqProperties
  <2>2. n - 1 + 1 = n /\ \A j \in 1..n : 1 + j - 1 = j
    BY <1>2
  <2>3. QED
    BY <1>2, <1>3, <2>1, <2>2
<1>6. output.rows = rows /\ output.row_count = Len(found)
  OBVIOUS
<1>7. CASE i <= ToolRows
  <2>1. i \in 1..n /\ DOMAIN rows = 1..n
    BY <1>1, <1>5, <1>7 DEF n
  <2>2. rows # <<>>
    BY <1>2, <1>5
  <2>3. ~(Len(rows) = 1 /\ Len(heading) = 1)
    BY <1>1, <1>5 DEF n, SingleValue
  <2>4. TableOf(output) = [j \in DOMAIN rows |-> Cells(rows[j])]
    BY <1>6, <2>2, <2>3 DEF TableOf
  <2>5. TableOf(output)[i] = Cells(found[i])
    BY <1>5, <2>1, <2>4
  <2>6. QED
    BY <1>7, <2>5 DEF rows
<1>8. CASE ~(i <= ToolRows)
  <2>1. Len(found) > n
    BY <1>1, <1>8 DEF n
  <2>2. QED
    BY <1>5, <1>6, <1>8, <2>1 DEF rows
<1>9. QED
  BY <1>7, <1>8

\* Whatever the LLM writes, the user sees every row of the result once and, as
\* far as the tool result holds them, in the report, and the LLM's sentences in
\* both; for results of any size and any amounts (answerer.stream_answer_text,
\* formatting.format_rupees, pdf.split_prose, _tables_of).
THEOREM ResultsAreShown == AnswerSpec => []ResultIsShown
<1>1. ASSUME AnswerInv PROVE ResultIsShown
  <2> DEFINE table == RenderMarkdownTable
  <2>1. /\ Sentences(Prose \o table) = Prose /\ TableRows(Prose \o table) = table
        /\ SplitProse(Prose \o table) = Prose
    BY <1>1, ProseIsSaid, TableIsRows, TakenApart
  <2>2. ASSUME message # NoMessage
        PROVE  /\ Sentences(message.text) = Prose /\ TableRows(message.text) = table
               /\ SplitProse(message.text) = Prose
               /\ message.output = [rows |-> FirstRows(ToolRows), row_count |-> Len(found)]
    <3> DEFINE output == [rows |-> FirstRows(ToolRows), row_count |-> Len(found)]
    <3>1. message = [text |-> Prose \o table, output |-> output]
      BY <1>1, <2>2 DEF AnswerInv, Composed
    <3> HIDE DEF output, table
    <3>2. message.text = Prose \o table /\ message.output = output
      BY <3>1
    <3>3. QED
      BY <2>1, <3>2 DEF output
  <2> HIDE DEF table
  <2>3. ASSUME ~SingleValue
        PROVE  /\ Len(table) = Len(found)
               /\ \A i \in DOMAIN found : table[i].cells = Cells(found[i])
               /\ \A i \in DOMAIN found, c \in DOMAIN heading :
                    Tells(table[i].cells[c], found[i][c])
    <3>1. /\ Len(table) = Len(found)
          /\ \A i \in DOMAIN found : table[i].cells = Cells(found[i])
      BY <1>1, <2>3, TableIsRows, ResultFacts DEF table
    <3>2. ASSUME NEW i \in DOMAIN found, NEW c \in DOMAIN heading
          PROVE  Tells(table[i].cells[c], found[i][c])
      <4>1. table[i].cells[c] = Cell(heading[c], found[i][c]) /\ found[i][c] \in Int
        BY <1>1, <3>1, ResultFacts DEF Cells
      <4>2. QED
        BY <4>1, RupeesTell
    <3>3. QED
      BY <3>1, <3>2
  <2>4. ASSUME message # NoMessage
        PROVE  LET rows == TableRows(message.text) IN
               /\ ~SingleValue => /\ Len(rows) = Len(found)
                                  /\ \A i \in DOMAIN found, c \in DOMAIN heading :
                                       Tells(rows[i].cells[c], found[i][c])
               /\ Sentences(message.text) # <<>>
               /\ found # <<>> /\ reply # <<>> /\ Sentences(reply) = reply
                    => Sentences(message.text) = reply
    BY <1>1, <2>2, <2>3, <2>4, ProseIsSaid
  <2>5. ASSUME report # NoMessage
        PROVE  /\ report.prose = Sentences(message.text)
               /\ ~SingleValue =>
                    \A i \in DOMAIN found :
                      IF i <= ToolRows THEN report.table[i] = TableRows(message.text)[i].cells
                      ELSE report.note
    <3>1. message # NoMessage /\ report = Exported
      BY <1>1, <2>5 DEF AnswerInv
    <3>2. /\ report.prose = SplitProse(message.text) /\ report.table = TableOf(message.output)
          /\ report.note = (message.output.row_count > Len(message.output.rows))
      BY <3>1 DEF Exported
    <3>3. ASSUME ~SingleValue, NEW i \in DOMAIN found
          PROVE  IF i <= ToolRows THEN report.table[i] = TableRows(message.text)[i].cells
                 ELSE report.note
      <4>1. i \in 1..Len(found)
        BY <1>1, ResultFacts
      <4>2. IF i <= ToolRows THEN TableOf(message.output)[i] = Cells(found[i])
            ELSE message.output.row_count > Len(message.output.rows)
        BY <1>1, <2>2, <3>1, <3>3, <4>1, ReportTable
      <4>3. QED
        BY <2>2, <2>3, <3>1, <3>2, <3>3, <4>2
    <3>4. QED
      BY <2>2, <3>1, <3>2, <3>3
  <2>6. QED
    BY <2>4, <2>5 DEF ResultIsShown
<1>2. QED
  BY <1>1, AnswerStart, AnswerStep, PTL DEF AnswerSpec

-----------------------------------------------------------------------------
(* Fixer: no repair takes a column from a table that has it.               *)

\* The positions of a statement's sources.
LEMMA UsesArePositions ==
  ASSUME draft \in Drafts, NEW u \in Uses
  PROVE  /\ u = <<u[1], u[2]>> /\ u[1] \in DOMAIN draft /\ u[2] \in DOMAIN draft[u[1]].from
         /\ Len(draft) \in Nat /\ u[1] \in 1..Len(draft)
         /\ Len(draft[u[1]].from) \in Nat /\ u[2] \in 1..Len(draft[u[1]].from)
         /\ SourceAt(u).is \in BaseTable
<1>1. PICK i \in DOMAIN draft :
        u \in {i} \X {k \in DOMAIN draft[i].from : draft[i].from[k].is \in BaseTable}
  BY DEF Uses
<1>2. /\ u = <<u[1], u[2]>> /\ u[1] = i /\ u[2] \in DOMAIN draft[i].from
      /\ draft[i].from[u[2]].is \in BaseTable
  BY <1>1
<1>3. IsSeq(draft) /\ IsSeq(draft[i].from)
  BY FixerAssumption
<1>4. /\ Len(draft) \in Nat /\ DOMAIN draft = 1..Len(draft)
      /\ Len(draft[i].from) \in Nat /\ DOMAIN draft[i].from = 1..Len(draft[i].from)
  BY <1>3 DEF IsSeq
<1>5. QED
  BY <1>2, <1>4 DEF SourceAt

\* Among some of them, one is the last and one the first.
LEMMA LatestIsOne ==
  ASSUME draft \in Drafts, NEW uses, uses \subseteq Uses, uses # {}
  PROVE  Latest(uses) \in uses
<1> DEFINE Is == {u[1] : u \in uses}
<1>1. Len(draft) \in Nat /\ Is \subseteq 0..Len(draft) /\ Is # {}
  BY UsesArePositions
<1>2. PICK i \in Is : \A j \in Is : j <= i
  <2> HIDE DEF Is
  <2>1. QED
    BY <1>1, GreatestElement
<1> DEFINE Ks == {u[2] : u \in {v \in uses : v[1] = i}}
<1>3. Len(draft[i].from) \in Nat /\ Ks \subseteq 0..Len(draft[i].from) /\ Ks # {}
  BY <1>2, UsesArePositions
<1>4. PICK k \in Ks : \A j \in Ks : j <= k
  <2> HIDE DEF Ks
  <2>1. QED
    BY <1>3, GreatestElement
<1>5. PICK u \in uses : u[1] = i /\ u[2] = k
  BY <1>4
<1>6. ASSUME NEW v \in uses \ {u} PROVE Earlier(v, u)
  <2>1. /\ v = <<v[1], v[2]>> /\ u = <<u[1], u[2]>>
        /\ v[1] \in Nat /\ u[1] \in Nat /\ v[2] \in Nat /\ u[2] \in Nat
    BY UsesArePositions
  <2>2. v[1] <= i
    BY <1>2
  <2>3. CASE v[1] = i
    <3>1. v[2] <= k
      BY <1>4, <2>3
    <3>2. v[2] # u[2]
      BY <1>5, <2>1, <2>3
    <3>3. QED
      BY <1>5, <2>1, <2>3, <3>1, <3>2 DEF Earlier
  <2>4. CASE v[1] # i
    BY <1>5, <2>1, <2>2, <2>4 DEF Earlier
  <2>5. QED
    BY <2>3, <2>4
<1>7. QED
  BY <1>6 DEF Latest

LEMMA EarliestIsOne ==
  ASSUME draft \in Drafts, NEW uses, uses \subseteq Uses, uses # {}
  PROVE  Earliest(uses) \in uses
<1> DEFINE Is == {u[1] : u \in uses}
<1>1. Is \subseteq Nat /\ Is # {}
  BY UsesArePositions
<1>2. PICK i \in Is : \A j \in Is : i <= j
  <2> HIDE DEF Is
  <2>1. QED
    BY <1>1, LeastElement
<1> DEFINE Ks == {u[2] : u \in {v \in uses : v[1] = i}}
<1>3. Ks \subseteq Nat /\ Ks # {}
  BY <1>2, UsesArePositions
<1>4. PICK k \in Ks : \A j \in Ks : k <= j
  <2> HIDE DEF Ks
  <2>1. QED
    BY <1>3, LeastElement
<1>5. PICK u \in uses : u[1] = i /\ u[2] = k
  BY <1>4
<1>6. ASSUME NEW v \in uses \ {u} PROVE Earlier(u, v)
  <2>1. /\ v = <<v[1], v[2]>> /\ u = <<u[1], u[2]>>
        /\ v[1] \in Nat /\ u[1] \in Nat /\ v[2] \in Nat /\ u[2] \in Nat
    BY UsesArePositions
  <2>2. i <= v[1]
    BY <1>2
  <2>3. CASE v[1] = i
    <3>1. k <= v[2]
      BY <1>4, <2>3
    <3>2. v[2] # u[2]
      BY <1>5, <2>1, <2>3
    <3>3. QED
      BY <1>5, <2>1, <2>3, <3>1, <3>2 DEF Earlier
  <2>4. CASE v[1] # i
    BY <1>5, <2>1, <2>2, <2>4 DEF Earlier
  <2>5. QED
    BY <2>3, <2>4
<1>7. QED
  BY <1>6 DEF Earliest

\* A name says which table it is for.
LEMMA NameTellsTable ==
  ASSUME draft \in Drafts, NEW u \in Uses
  PROVE  Means(SourceAt(u).as) = SourceAt(u).is
<1> DEFINE used == {v \in Uses : SourceAt(v).as = SourceAt(u).as}
           w == Latest(used)
<1>1. w \in used
  <2>1. used \subseteq Uses /\ used # {}
    OBVIOUS
  <2> HIDE DEF used
  <2>2. QED
    BY <2>1, LatestIsOne
<1>2. Means(SourceAt(u).as) = SourceAt(w).is
  BY DEF Means
<1> HIDE DEF w
<1>3. ASSUME NEW v \in Uses
      PROVE  /\ SourceAt(v).is \in BaseTable
             /\ \/ SourceAt(v).as = SourceAt(v).is
                \/ /\ SourceAt(v).as \in DOMAIN UsualAlias
                   /\ UsualAlias[SourceAt(v).as] = SourceAt(v).is
  BY UsesArePositions, Conventional DEF SourceAt
<1>4. SourceAt(w).as = SourceAt(u).as
  BY <1>1
<1>5. SourceAt(w).is = SourceAt(u).is
  BY <1>1, <1>3, <1>4, Conventional
<1>6. QED
  BY <1>2, <1>5

\* A column that stands at a table which has it is left there.
LEMMA FoundStays ==
  ASSUME draft \in Drafts, NEW i \in DOMAIN draft, NEW k \in DOMAIN draft[i].columns,
         draft[i].columns[k].name \notin Unlisted, Found(draft, i, draft[i].columns[k])
  PROVE  Repaired(draft[i].columns[k]) = draft[i].columns[k]
<1> DEFINE old == draft[i].columns[k]
<1>1. PICK n \in DOMAIN draft[i].from :
        /\ draft[i].from[n].as = old.of
        /\ draft[i].from[n].is \in BaseTable => old.name \in Has[draft[i].from[n].is]
  BY DEF Found
<1> DEFINE s == draft[i].from[n]
<1>2. SUFFICES ASSUME old.name \in Eligible PROVE ~Misplaced(old)
  BY DEF Repaired, Misplaced
<1>3. CASE s.is \in BaseTable
  <2>1. <<i, n>> \in Uses /\ SourceAt(<<i, n>>) = s
    BY <1>3 DEF Uses, SourceAt
  <2>2. Means(old.of) = s.is
    BY <1>1, <2>1, NameTellsTable
  <2>3. OwnerOf[old.name] = s.is
    BY <1>1, <1>2, <1>3 DEF Unlisted, Eligible
  <2>4. Current(old.of) = OwnerOf[old.name]
    BY <1>3, <2>2, <2>3, FixerAssumption DEF Current
  <2>5. QED
    BY <2>4 DEF Misplaced
<1>4. CASE s.is \notin BaseTable
  <2>1. s.as \notin DOMAIN UsualAlias \cup BaseTable
    BY <1>4, Conventional
  <2>2. ASSUME NEW v \in Uses PROVE SourceAt(v).as \in DOMAIN UsualAlias \cup BaseTable
    BY UsesArePositions, Conventional DEF SourceAt
  <2>3. {v \in Uses : SourceAt(v).as = old.of} = {}
    BY <1>1, <2>1, <2>2
  <2>4. Current(old.of) = NoRepair
    BY <1>1, <2>1, <2>3 DEF Current, Means
  <2>5. QED
    BY <2>4 DEF Misplaced
<1>5. QED
  BY <1>3, <1>4

\* A table's qualifier is the name of one of its sources.
LEMMA QualifierIsUsed ==
  ASSUME draft \in Drafts, NEW t \in BaseTable, Qualifiers(t) # {}
  PROVE  \E u \in Uses : SourceAt(u).as = QualifierFor(t) /\ SourceAt(u).is = t
<1> DEFINE aliases == {u \in Qualifiers(t) : SourceAt(u).as # t}
<1>1. ASSUME NEW u \in Qualifiers(t) PROVE u \in Uses /\ SourceAt(u).is = t
  BY NameTellsTable DEF Qualifiers
<1>2. CASE aliases # {}
  <2>1. aliases \subseteq Uses
    BY DEF Qualifiers
  <2>2. Earliest(aliases) \in aliases
    <3> HIDE DEF aliases
    <3>1. QED
      BY <1>2, <2>1, EarliestIsOne
  <2>3. QualifierFor(t) = SourceAt(Earliest(aliases)).as
    BY <1>2 DEF QualifierFor
  <2>4. QED
    BY <1>1, <2>2, <2>3
<1>3. CASE aliases = {}
  <2>1. QualifierFor(t) = t
    BY <1>3 DEF QualifierFor
  <2>2. QED
    BY <1>1, <1>3, <2>1
<1>4. QED
  BY <1>2, <1>3

FixerInv ==
  /\ draft \in Drafts
  /\ repair # NoRepair =>
       repair = [i \in DOMAIN draft |->
         [from |-> draft[i].from,
          columns |-> [k \in DOMAIN draft[i].columns |-> Repaired(draft[i].columns[k])]]]

LEMMA FixerStep == FixerInv /\ [FixColumnAliases]_fixing => FixerInv'
<1>1. SUFFICES ASSUME FixerInv, [FixColumnAliases]_fixing PROVE FixerInv'
  OBVIOUS
<1>2. draft' = draft
  BY <1>1 DEF FixColumnAliases, fixing
<1>3. ASSUME NEW column PROVE Repaired(column)' = Repaired(column)
  BY <1>2 DEF Repaired, Misplaced, Current, Means, Qualifiers, QualifierFor, Uses, SourceAt
<1>4. CASE FixColumnAliases
  BY <1>1, <1>2, <1>3, <1>4 DEF FixColumnAliases, FixerInv
<1>5. CASE UNCHANGED fixing
  BY <1>1, <1>2, <1>3, <1>5 DEF fixing, FixerInv
<1>6. QED
  BY <1>1, <1>4, <1>5

LEMMA RepairMends == FixerInv => RepairsOnlyMend
<1>1. SUFFICES ASSUME FixerInv, repair # NoRepair,
                      NEW i \in DOMAIN draft, NEW k \in DOMAIN draft[i].columns
               PROVE  LET old == draft[i].columns[k]
                          new == repair[i].columns[k]
                      IN /\ old.name \notin Unlisted /\ Found(draft, i, old) => new = old
                         /\ new # old /\ Len(draft) = 1 => Found(repair, i, new)
  BY DEF RepairsOnlyMend
<1> DEFINE old == draft[i].columns[k]
           new == repair[i].columns[k]
<1>2. draft \in Drafts /\ new = Repaired(old) /\ repair[i].from = draft[i].from
  BY <1>1 DEF FixerInv
<1>3. ASSUME old.name \notin Unlisted, Found(draft, i, old) PROVE new = old
  BY <1>2, <1>3, FoundStays
<1>4. ASSUME new # old, Len(draft) = 1 PROVE Found(repair, i, new)
  <2> DEFINE t == OwnerOf[old.name]
  <2>1. Misplaced(old) /\ new = [name |-> old.name, of |-> QualifierFor(t)]
    BY <1>2, <1>4 DEF Repaired
  <2>2. t \in BaseTable /\ old.name \in Has[t] /\ Qualifiers(t) # {}
    BY <2>1, FixerAssumption DEF Misplaced, Eligible
  <2>3. PICK u \in Uses : SourceAt(u).as = QualifierFor(t) /\ SourceAt(u).is = t
    <3> HIDE DEF t
    <3>1. QED
      BY <1>2, <2>2, QualifierIsUsed
  <2>4. u[1] = i /\ u[2] \in DOMAIN draft[i].from
    <3>1. IsSeq(draft)
      BY <1>2, FixerAssumption
    <3>2. DOMAIN draft = 1..1
      BY <1>4, <3>1 DEF IsSeq
    <3>3. u[1] \in DOMAIN draft /\ u[2] \in DOMAIN draft[u[1]].from
      BY <1>2, UsesArePositions
    <3>4. QED
      BY <1>1, <3>2, <3>3
  <2>5. repair[i].from[u[2]] = SourceAt(u)
    BY <1>2, <2>4 DEF SourceAt
  <2>6. repair[i].from[u[2]].as = new.of /\ repair[i].from[u[2]].is = t
    BY <2>1, <2>3, <2>5
  <2>7. u[2] \in DOMAIN repair[i].from /\ new.name = old.name
    BY <1>2, <2>1, <2>4
  <2> HIDE DEF new, t
  <2>8. QED
    BY <2>2, <2>6, <2>7 DEF Found
<1>5. QED
  BY <1>3, <1>4

\* RepairsOnlyMend, for every catalogue and every statement with the usual aliases:
\* fix_column_aliases moves no column away from a table that has it, and what it
\* changes in a statement of one SELECT is found afterwards.
THEOREM RepairsMend == FixerSpec => []RepairsOnlyMend
<1>1. FixerInit => FixerInv
  BY DEF FixerInit, FixerInv
<1>2. FixerInv /\ [FixColumnAliases]_fixing => FixerInv'
  BY FixerStep
<1>3. FixerInv => RepairsOnlyMend
  BY RepairMends
<1>4. QED
  BY <1>1, <1>2, <1>3, PTL DEF FixerSpec

===============================================================================
