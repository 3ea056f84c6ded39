----------------------------- MODULE MCPipeline -----------------------------
(* Small instances of ChatPipeline.                                        *)
EXTENDS ChatPipeline

CONSTANTS good, bad, priv, s1, s2, t1, t2, t3, day, slash, near, far,
          kday, knear, kfar

\* "sales on 2026-07-06" and "sales on 2026/07/06" have one key, but only the
\* first is recognised as a date; another wording is near both, and a third one
\* is near that wording only.
NormalKey == [q \in Question |-> CASE q = near -> knear [] q = far -> kfar
                                   [] OTHER -> kday]
IntentOf == [q \in Question |-> IF q = slash THEN "none" ELSE "date_range"]
DistanceOf ==
  [p \in Question |-> [q \in Question |->
     IF p = q THEN 0 ELSE IF far \in {p, q} /\ near \notin {p, q} THEN 2 ELSE 1]]

SameScope == [t \in Turn |-> s1]
LastIsOther == [t \in Turn |-> IF t = t3 THEN s2 ELSE s1]

UnsafeSQL == {bad}
DeniedSQL == {priv} \X {s2}
NothingDenied == {}
NothingUnsafe == {}

-----------------------------------------------------------------------------
(* A run covers several small instances one after the other: a state that  *)
(* belongs to none of them is not explored further.                        *)
TwoTurns == run[t3].pc = "new"
Asked == {run[t].q : t \in Turn} \ {None}
Used == {run[t].entry.tmpl : t \in {u \in Turn : run[u].entry # None}}

Undisturbed ==
  /\ faults = 0 /\ now = 0
  /\ \A t \in Turn : ~run[t].gone /\ ~run[t].missed
                      /\ run[t].outcome \notin {"greeting", "error", "dberror"}

\* Each turn asks something else: along the chain, or with one key.
Chain ==
  /\ run[t1].q \in {None, day, slash} /\ run[t2].q \in {None, near}
  /\ run[t3].q \in {None, far, day, slash}
  /\ run[t1].q = None \/ run[t1].q # run[t3].q

\* Three users' turns ask the same and are served one another's rows; three ask
\* near questions of one another; two are disturbed by all that can fail.
SafetyFocus ==
  \/ Undisturbed /\ Asked \subseteq {day}
  \/ Undisturbed /\ Used \subseteq {good} /\ Chain
  \/ TwoTurns /\ Asked \subseteq {day} /\ Used \subseteq {good}

\* Three turns lock one another's rows; two meet the sweeper as time passes.
LivenessFocus == now = 0 \/ TwoTurns
=============================================================================
