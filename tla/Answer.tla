-------------------------------- MODULE Answer ---------------------------------
(***************************************************************************)
(* What a user reads of a query's result: the LLM's text, scrubbed of      *)
(* echoed data, and the table that the program appends (chat/answerer.py), *)
(* stored as a message and later taken apart again for the report of the   *)
(* thread (threads/pdf.py).                                                *)
(*                                                                         *)
(* A text is a sequence of lines: a sentence, or what scrub_raw_row_dumps  *)
(* takes for data - a figure (up to five words, the last a number), a row  *)
(* that begins with |, columns aligned by spaces, a dump [{...}] or the    *)
(* beginning of one.  Amounts are integers, in thousandths of a rupee.     *)
(* Grouping of digits, fonts, layout and cells that are cut at 300         *)
(* characters are left out; totals are the matter of module Totals.        *)
(***************************************************************************)
EXTENDS Integers, Sequences

CONSTANTS
  Field,       \* columns of results
  Money,       \* columns for which is_money_column holds
  Results,     \* columns and rows of results
  Replies,     \* texts of the LLM
  ToolRows,    \* the cap on the rows of a tool result
  NoMessage

\* A line says something, or shows the cells of a row of the result.
Kind == {"sentence", "figure", "row", "aligned", "dump", "open"}
Line(kind, says) == [kind |-> kind, says |-> says, cells |-> <<>>]

ASSUME AnswerAssumption ==
  /\ \A r \in Results :
       r.columns \in Seq(Field) /\ r.rows \in Seq([DOMAIN r.columns -> Int])
  /\ Replies \subseteq Seq({Line(k, "words") : k \in Kind})
  /\ ToolRows \in Nat \ {0, 1}

VARIABLES
  heading,  \* columns
  found,    \* the rows of the result: for each column an amount
  reply,    \* the text of the LLM
  message,  \* the stored message
  report    \* what the report shows of it

answering == <<heading, found, reply, message, report>>

AnswerInit ==
  /\ \E r \in Results : heading = r.columns /\ found = r.rows
  /\ reply \in Replies
  /\ message = NoMessage
  /\ report = NoMessage

-----------------------------------------------------------------------------
(* scrub_raw_row_dumps                                                     *)

\* The line lies in [{...}], which may begin on an earlier line, or after a
\* beginning that has no end.
InDump(text, i) ==
  \/ text[i].kind = "dump"
  \/ \E b \in 1..i : /\ text[b].kind = "open"
                     /\ \A d \in b..(i - 1) : text[d].kind # "dump"

\* Mistake: the rows of a table that the LLM wrote itself stay.
IsDataLine_NotRows(line) == line.kind \in {"aligned", "figure"}

IsDataLine(line) == line.kind \in {"row", "aligned", "figure"}

\* The lines at these places.
Picked(text, places) ==
  LET nth[n \in 0..Len(text)] ==
        IF n = 0 THEN <<>>
        ELSE IF n \in places THEN Append(nth[n - 1], text[n]) ELSE nth[n - 1]
  IN nth[Len(text)]

Scrubbed(text) ==
  Picked(text, {i \in DOMAIN text : ~InDump(text, i) /\ ~IsDataLine(text[i])})

-----------------------------------------------------------------------------
(* format_rupees: the whole part, and the hundredths unless there is no    *)
(* fraction, rounded half to even; reads is the amount that comes out.     *)

Magnitude(v) == IF v < 0 THEN -v ELSE v

Hundredths(v) ==
  LET rest == v % 10
      down == (v % 1000) \div 10
  IN IF rest > 5 \/ (rest = 5 /\ down % 2 = 1) THEN down + 1 ELSE down

\* One hundred hundredths are written ".100", which reads as a tenth.
FormatRupees(v) ==
  LET m == Magnitude(v)
      h == Hundredths(m)
      reads == (m \div 1000) * 1000 + (IF h = 100 THEN 100 ELSE 10 * h)
  IN [currency |-> TRUE, reads |-> IF v < 0 THEN -reads ELSE reads]

Cell(column, v) ==
  IF column \in Money THEN FormatRupees(v) ELSE [currency |-> FALSE, reads |-> v]

Cells(row) == [c \in DOMAIN heading |-> Cell(heading[c], row[c])]

-----------------------------------------------------------------------------
SingleValue == Len(found) = 1 /\ Len(heading) = 1

Rendered(row) == [kind |-> "row", says |-> "row", cells |-> Cells(row)]

\* Mistake: a single row is left to the prose.
RenderMarkdownTable_Several ==
  IF Len(found) <= 1 THEN <<>> ELSE [i \in DOMAIN found |-> Rendered(found[i])]

\* Without the lines of the heading.
RenderMarkdownTable ==
  IF found = <<>> \/ SingleValue THEN <<>> ELSE [i \in DOMAIN found |-> Rendered(found[i])]

NoData == <<Line("sentence", "no data")>>
LeadIn == <<Line("sentence", "lead-in")>>

\* stream_answer_text.
Prose ==
  IF found = <<>> THEN NoData
  ELSE IF Scrubbed(reply) = <<>> THEN LeadIn ELSE Scrubbed(reply)

FirstRows(n) == SubSeq(found, 1, IF Len(found) < n THEN Len(found) ELSE n)

\* The pipeline's output, as the client stores it.
AnswerQuestion ==
  /\ message = NoMessage
  /\ message' = [text |-> Prose \o RenderMarkdownTable,
                 output |-> [rows |-> FirstRows(ToolRows), row_count |-> Len(found)]]
  /\ UNCHANGED <<heading, found, reply, report>>

-----------------------------------------------------------------------------
(* threads/pdf.py                                                          *)

\* The lines before the first one that begins with |.
SplitProse(text) ==
  LET before == {n \in 0..Len(text) : \A i \in 1..n : text[i].kind # "row"}
  IN SubSeq(text, 1, CHOOSE n \in before : \A m \in before : m <= n)

\* _tables_of and _render_table.
TableOf(output) ==
  IF output.rows = <<>> \/ (Len(output.rows) = 1 /\ Len(heading) = 1) THEN <<>>
  ELSE [i \in DOMAIN output.rows |-> Cells(output.rows[i])]

\* The note counts the rows that are not shown.
Export ==
  /\ message # NoMessage /\ report = NoMessage
  /\ report' = [prose |-> SplitProse(message.text),
                table |-> TableOf(message.output),
                note |-> message.output.row_count > Len(message.output.rows)]
  /\ UNCHANGED <<heading, found, reply, message>>

AnswerNext == AnswerQuestion \/ Export

AnswerSpec == AnswerInit /\ [][AnswerNext]_answering

-----------------------------------------------------------------------------
Sentences(text) == Picked(text, {i \in DOMAIN text : text[i].kind = "sentence"})
TableRows(text) == Picked(text, {i \in DOMAIN text : text[i].kind # "sentence"})

\* A cell tells the amount, to half of a hundredth.  Not so where rounding
\* carries over to the whole part.
Tells(cell, v) ==
  Magnitude(v) % 1000 < 995 => cell.reads - v \in -5..5

(* Whatever the LLM writes, a user sees every row of the result once, with *)
(* its amounts, in the answer and, as far as the tool result holds them,   *)
(* in the report, which says when there are more; both carry the same      *)
(* words: every sentence, where the LLM wrote nothing else, and never      *)
(* nothing.  A single value is left to the sentences                       *)
(* (stream_answer_text, render_markdown_table, split_prose, _tables_of).   *)
ResultIsShown ==
  /\ message # NoMessage =>
       LET table == TableRows(message.text) IN
       /\ ~SingleValue => /\ Len(table) = Len(found)
                          /\ \A i \in DOMAIN found, c \in DOMAIN heading :
                               Tells(table[i].cells[c], found[i][c])
       /\ Sentences(message.text) # <<>>
       /\ found # <<>> /\ reply # <<>> /\ Sentences(reply) = reply
            => Sentences(message.text) = reply
  /\ report # NoMessage =>
       /\ report.prose = Sentences(message.text)
       /\ ~SingleValue =>
            \A i \in DOMAIN found :
              IF i <= ToolRows THEN report.table[i] = TableRows(message.text)[i].cells
              ELSE report.note
=============================================================================
