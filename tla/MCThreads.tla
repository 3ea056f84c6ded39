------------------------------ MODULE MCThreads -------------------------------
(* Three requests on the threads of two users.                             *)
EXTENDS Threads, TLC

CONSTANTS r1, r2, r3,   \* requests
          u, w,         \* users
          mine, other,  \* threads
          m, n,         \* messages
          t, x, y

Rows == Thread \cup Message
Values == ThreadRow \cup MessageRow

Titled(head) == [owner |-> u, head |-> head, title |-> None, status |-> "regular",
                 deleted |-> FALSE]
Foreign == [owner |-> w, head |-> None, title |-> None, status |-> "regular",
            deleted |-> FALSE]
Said(parent) == [thread |-> mine, parent |-> parent, content |-> x]

\* u's thread with no messages, with one, and with a question and its answer;
\* w's thread, or none yet.
Table(head, first, second, theirs) ==
  [r \in Row |-> CASE r = mine -> Titled(head) [] r = other -> theirs
                   [] r = m -> first [] r = n -> second]

Starts ==
  {Table(None, Absent, Absent, Foreign), Table(None, Absent, Absent, Absent),
   Table(m, Said(None), Absent, Foreign), Table(n, Said(None), Said(m), Foreign)}

\* An edit that makes a circle or moves the head, an answer, the same without
\* the head, a second question; and in w's thread a message with a known id.
Upsert(id, parent, head) ==
  [op |-> "upsert", user |-> u, thread |-> mine, id |-> id, parent |-> parent, content |-> y,
   head |-> head]
TakesId == [Upsert(m, None, TRUE) EXCEPT !.user = w, !.thread = other]

Prune(s) == [op |-> "prune", user |-> u, thread |-> mine, ids |-> s]
Patch(who, title, status) ==
  [op |-> "patch", user |-> who, thread |-> mine, title |-> title, status |-> status]

Asks ==
  {Upsert(m, n, FALSE), Upsert(m, None, TRUE), Upsert(n, m, TRUE), Upsert(n, m, FALSE),
   Upsert(n, None, TRUE), TakesId, Prune({m}), Prune({m, n}), Prune({}),
   Patch(w, t, None), Patch(u, t, None), Patch(u, None, "archived"),
   [op |-> "create", user |-> w, thread |-> other]}
  \cup {[op |-> o, user |-> u, thread |-> mine] : o \in {"delete", "messages", "export"}}

\* Of three requests one at least prunes m or takes its id.
Focus ==
  (\A d \in Client : req[d].ask # None) =>
     \E d \in Client : req[d].ask \in {Prune({m}), TakesId}

Symmetry == Permutations(Client)
==============================================================================
