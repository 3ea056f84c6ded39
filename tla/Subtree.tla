------------------------------- MODULE Subtree --------------------------------
(***************************************************************************)
(* resolve_subtree (rbac/hierarchy.py): the codes below a root in the      *)
(* sales-force hierarchy, by their level, found breadth first.             *)
(*                                                                         *)
(* The rows come from a table without constraints: codes may be repeated,  *)
(* report to themselves or in a circle, and lack a code, parent or level.  *)
(***************************************************************************)
EXTENDS Naturals, Sequences

CONSTANTS
  Code,      \* sf_code values
  Level,     \* sf_level_code values that are numbers
  RowLists,  \* the contents of the table, in the order they are fetched
  NoCode,    \* an empty code
  NoLevel    \* a level that is no number

Row == [code : Code \cup {NoCode}, parent : Code \cup {NoCode}, level : Level \cup {NoLevel}]

ASSUME SubtreeAssumption ==
  /\ RowLists \subseteq Seq(Row)
  /\ NoCode \notin Code
  /\ NoLevel \notin Level

VARIABLES
  rows, root,
  queue,
  todo,      \* rows of the current code that the inner loop has still to look at
  seen,
  result,
  expanded   \* history: codes taken from the queue

resolving == <<rows, root, queue, todo, seen, result, expanded>>

ResolveTypeOK ==
  /\ rows \in RowLists /\ root \in Code
  /\ queue \in Seq(Code)
  /\ todo \subseteq DOMAIN rows
  /\ seen \subseteq Code
  /\ result \in [Level -> SUBSET Code]
  /\ expanded \subseteq Code

ResolveInit ==
  /\ rows \in RowLists /\ root \in Code
  /\ queue = <<root>>
  /\ todo = {}
  /\ seen = {root}
  /\ result = [l \in Level |-> {}]
  /\ expanded = {}

\* children.get(current): rows without a parent are under no code.
Children(current) == {i \in DOMAIN rows : rows[i].parent = current}

\* Take the next code from the queue.
Expand ==
  /\ todo = {} /\ queue # <<>>
  /\ todo' = Children(Head(queue))
  /\ queue' = Tail(queue)
  /\ expanded' = expanded \cup {Head(queue)}
  /\ UNCHANGED <<rows, root, seen, result>>

Mark(row) == seen \cup {row.code}

\* Mistake: a code without a level ends its branch.
Queued_WithLevel(row) == IF row.level = NoLevel THEN queue ELSE Append(queue, row.code)

Queued(row) == Append(queue, row.code)

Listed(row) ==
  [l \in Level |-> IF l = row.level THEN result[l] \cup {row.code} ELSE result[l]]

Skipped(row) == row.code = NoCode \/ row.code \in seen

\* Look at the next child, in the order of the rows.
Look(i) ==
  /\ i \in todo /\ \A j \in todo : i <= j
  /\ todo' = todo \ {i}
  /\ IF Skipped(rows[i])
     THEN UNCHANGED <<queue, seen, result>>
     ELSE /\ seen' = Mark(rows[i])
          /\ result' = Listed(rows[i])
          /\ queue' = Queued(rows[i])
  /\ UNCHANGED <<rows, root, expanded>>

ResolveNext == Expand \/ \E i \in todo : Look(i)

ResolveSpec == ResolveInit /\ [][ResolveNext]_resolving

-----------------------------------------------------------------------------
Returned == queue = <<>> /\ todo = {}

\* A set of codes that contains whoever reports to one of them.
Closed(S) ==
  \A i \in DOMAIN rows : rows[i].parent \in S /\ rows[i].code # NoCode => rows[i].code \in S

\* c is the root, or reports to it, directly or not.
Under(c) == \A S \in SUBSET Code : root \in S /\ Closed(S) => c \in S

ListedAt(c) == {l \in Level : c \in result[l]}

\* Every row of the code has a level.
AlwaysLevelled(c) == \A i \in DOMAIN rows : rows[i].code = c => rows[i].level # NoLevel

\* Nobody who does not report to the root is listed, also half way through, and not
\* the root itself, even if the hierarchy goes round in a circle.
OnlyBelow == \A c \in Code : ListedAt(c) # {} => c # root /\ Under(c)

\* Everybody who does is listed in the end, through any number of levels and through
\* codes that have no level themselves.
AllBelow ==
  Returned => \A c \in Code \ {root} : Under(c) /\ AlwaysLevelled(c) => ListedAt(c) # {}

\* A code is listed at one level, one that a row of it gives.
OneLevel ==
  \A c \in Code : \A l, m \in ListedAt(c) :
    /\ l = m
    /\ \E i \in DOMAIN rows : rows[i].code = c /\ rows[i].level = l

\* A code is looked into once at most: the queue holds none twice and none that has
\* been taken from it before.
ExpandedOnce ==
  /\ \A i, j \in 1..Len(queue) : queue[i] = queue[j] => i = j
  /\ \A i \in 1..Len(queue) : queue[i] \notin expanded

(* A user sees everybody who reports to them and nobody else, each at one  *)
(* level, and the search ends: also in hierarchies with circles, codes     *)
(* without a level and codes with several rows (resolve_subtree).          *)
ExactSubtree == OnlyBelow /\ AllBelow /\ OneLevel /\ ExpandedOnce
=============================================================================
