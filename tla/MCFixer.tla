------------------------------- MODULE MCFixer --------------------------------
\* Fixer with three fact tables and three columns: one that only invoices have, one
\* that all have and that counts as ambiguous, and the one that orders and purchases
\* have (mrp), which does not.
EXTENDS Fixer

CONSTANTS
  invoices, orders, purchases,
  measure, product, mrp,
  inv, ord, pur, derived

ColumnsOf == [t \in BaseTable |-> CASE t = invoices -> {measure, product}
                                    [] OTHER -> {product, mrp}]
OwnersOf == [x \in Name |-> IF x = mrp THEN orders ELSE invoices]
UsualAliases == [q \in {inv, ord, pur} |->
                   CASE q = inv -> invoices [] q = ord -> orders [] q = pur -> purchases]

\* The LLM uses the aliases it is told to, or none (prompts.py); every column has
\* any qualifier.
Source == {[is |-> UsualAlias[q], as |-> q] : q \in DOMAIN UsualAlias}
            \cup {[is |-> t, as |-> t] : t \in BaseTable}
FromOne == {<<s>> : s \in Source}
FromTwo == {<<s, t>> : s, t \in Source} \ {<<s, s>> : s \in Source}
AnyColumns ==
  {<<[of |-> q, name |-> x]>> : q \in DOMAIN UsualAlias \cup BaseTable \cup {derived}, x \in Name}

FromDerived ==
  {<<[is |-> 2, as |-> derived]>>} \cup {<<[is |-> 2, as |-> derived], s>> : s \in Source}

\* One SELECT of one or two tables, or one of a derived table and perhaps another.
AnyDrafts ==
  {<<[from |-> f, columns |-> x]>> : f \in FromOne \cup FromTwo, x \in AnyColumns}
    \cup {<<[from |-> f, columns |-> x], [from |-> g, columns |-> y]>> :
            f \in FromDerived, g \in FromOne, x \in AnyColumns, y \in AnyColumns}
=============================================================================
