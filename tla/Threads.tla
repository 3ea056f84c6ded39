------------------------------- MODULE Threads -------------------------------
(***************************************************************************)
(* Chat threads and their messages (app/threads/service.py, the routes in  *)
(* app/api/threads.py and the branch the PDF report shows).  Every request *)
(* is a client of module Sessions whose rows are the threads and the       *)
(* messages, so a request reads ORM objects at one moment and writes what  *)
(* it changed of them at another, with other requests in between.          *)
(* Message ids come from the browser; a message names its parent, and a    *)
(* thread its newest message, its head, with nothing in the schema that    *)
(* makes either exist.                                                     *)
(*                                                                         *)
(* Abstractions: updated_at and created_at are left out (an upsert still   *)
(* writes the thread's row, as it sets updated_at); format and content are *)
(* one value; the rows of a DELETE are matched when it starts, and one     *)
(* deleted and inserted again while it waits is taken for the same row.    *)
(***************************************************************************)
EXTENDS Sessions, Sequences

CONSTANTS
  User, Thread, Message, Title, Content,
  None,
  Asked,   \* the calls that the requests may make
  Start    \* the tables that they may find

ThreadRow == [owner : User, head : Message \cup {None}, title : Title \cup {None},
              status : {"regular", "archived"}, deleted : BOOLEAN]
MessageRow == [thread : Thread, parent : Message \cup {None}, content : Content]

Call ==
  [op : {"create", "delete", "messages", "export"}, user : User, thread : Thread]
  \cup [op : {"patch"}, user : User, thread : Thread, title : Title \cup {None},
        status : {"regular", "archived", None}]
  \cup [op : {"upsert"}, user : User, thread : Thread, id : Message,
        parent : Message \cup {None}, content : Content, head : BOOLEAN]
  \cup [op : {"prune"}, user : User, thread : Thread, ids : SUBSET Message]

ASSUME ThreadsAssumption ==
  /\ Row = Thread \cup Message
  /\ Thread \cap Message = {}
  /\ Value = ThreadRow \cup MessageRow
  /\ None \notin Message \cup Title \cup {"regular", "archived"} \cup Value \cup Call
  /\ Asked \subseteq Call

\* Ids are short strings (String(255) in app/db/models.py).
ASSUME MessagesAreFinite == IsFiniteSet(Message)

\* Threads and messages as requests one after the other leave them: messages
\* belong to threads, and heads exist.
WellFormed(tab) ==
  /\ \A t \in Thread : tab[t] \in ThreadRow \cup {Absent}
  /\ \A m \in Message : tab[m] \in MessageRow \cup {Absent}
  /\ \A m \in Message : tab[m] # Absent => tab[tab[m].thread] # Absent
  /\ \A t \in Thread :
       tab[t] # Absent /\ tab[t].head # None =>
         tab[tab[t].head] # Absent /\ tab[tab[t].head].thread = t

ASSUME StartAssumption ==
  Start \subseteq {tab \in [Row -> Value \cup {Absent}] : WellFormed(tab)}

VARIABLES
  req,         \* the local variables of each request
  shown,       \* what each reader is shown: a branch, or all messages
  overlapped   \* history: threads on which two requests worked at once

threadVars == <<vars, req, shown, overlapped>>

Stage == {"idle", "thread", "again", "get", "select", "delete", "deleting",
          "flush", "commit", "raised", "closed"}

Local ==
  [pc : Stage, ask : Call \cup {None},
   row : ThreadRow \cup {None},    \* the thread as loaded
   msg : MessageRow \cup {None},   \* the message as loaded, if there was one
   todo : SUBSET Row]              \* rows the current flush or DELETE has to write

ThreadsTypeOK ==
  /\ TypeOK
  /\ \A t \in Thread : table[t] \in ThreadRow \cup {Absent}
  /\ \A m \in Message : table[m] \in MessageRow \cup {Absent}
  /\ req \in [Client -> Local]
  /\ overlapped \subseteq Thread

ThreadsInit ==
  /\ table \in Start
  /\ pending = [c \in Client |-> NoWrites]
  /\ lock = [r \in Row |-> Free]
  /\ tx = [c \in Client |-> "live"]
  /\ stale = [c \in Client |-> FALSE]
  /\ req = [c \in Client |-> [pc |-> "idle", ask |-> None, row |-> None, msg |-> None,
                              todo |-> {}]]
  /\ shown = [c \in Client |-> [chain |-> <<>>, all |-> {}]]
  /\ overlapped = {}

Step(c, r) == req' = [req EXCEPT ![c] = r]
At(c, pc) == req[c].pc = pc
Working(c) == req[c].pc \notin {"idle", "closed"}

-----------------------------------------------------------------------------
\* Mistake: a flush writes every column.
Updated_WholeRow(current, loaded, object) == object

\* A flush writes the columns of an object that differ from what was loaded;
\* the others stay as they are in the row by then.
Updated(current, loaded, object) ==
  [k \in DOMAIN current |-> IF object[k] = loaded[k] THEN current[k] ELSE object[k]]

NewThread(a) == [owner |-> a.user, head |-> None, title |-> None,
                 status |-> "regular", deleted |-> FALSE]
NewMessage(a) == [thread |-> a.thread, parent |-> a.parent, content |-> a.content]

Patched(a, row) ==
  [row EXCEPT !.title = IF a.title = None THEN @ ELSE a.title,
              !.status = IF a.status = None THEN @ ELSE a.status]

\* Mistake: the head stays although its message goes.
Pruned_KeepsHead(a, row) == row

Pruned(a, row) == [row EXCEPT !.head = IF @ \in a.ids THEN None ELSE @]

\* The loaded thread with the attributes the call sets.
ThreadObject(a, row) ==
  CASE a.op = "patch" -> Patched(a, row)
    [] a.op = "delete" -> [row EXCEPT !.deleted = TRUE]
    [] a.op = "upsert" -> IF a.head THEN [row EXCEPT !.head = a.id] ELSE row
    [] a.op = "prune" -> Pruned(a, row)

MessageObject(a, msg) == [msg EXCEPT !.parent = a.parent, !.content = a.content]

\* The thread's row, if the flush has something to write to it.
Dirty(a, row) ==
  IF a.op = "upsert" \/ ThreadObject(a, row) # row THEN {a.thread} ELSE {}

\* The local variables of request r when it has rows to write, or none.
Flushing(r, rows) ==
  [r EXCEPT !.todo = rows, !.pc = IF rows = {} THEN "commit" ELSE "flush"]

-----------------------------------------------------------------------------
\* A request comes in.  A new thread gets an id nobody has used.
Receive(c) ==
  /\ At(c, "idle")
  /\ \E a \in Asked :
       /\ a.op = "create" =>
            /\ table[a.thread] = Absent
            /\ a.thread \notin {req[d].ask.thread : d \in {e \in Client : req[e].ask # None}}
       /\ Step(c, LET r == [req[c] EXCEPT !.ask = a]
                  IN  IF a.op = "create" THEN Flushing(r, {a.thread})
                      ELSE [r EXCEPT !.pc = "thread"])
  /\ UNCHANGED <<vars, shown, overlapped>>

Visible(a, row) == row # Absent /\ row.owner = a.user /\ ~row.deleted

\* What follows the thread's SELECT.
Loaded(r) ==
  CASE r.ask.op \in {"patch", "delete"} -> Flushing(r, Dirty(r.ask, r.row))
    [] r.ask.op = "upsert" -> [r EXCEPT !.pc = "get"]
    [] r.ask.op = "prune" -> [r EXCEPT !.pc = IF r.ask.ids = {} THEN "commit" ELSE "delete",
                                       !.todo = {}]
    [] r.ask.op = "messages" -> [r EXCEPT !.pc = "select"]
    [] r.ask.op = "export" -> [r EXCEPT !.pc = "again"]

\* _get_thread_or_404.
GetThread(c) ==
  LET a == req[c].ask
      row == Seen(c, a.thread)
  IN /\ At(c, "thread")
     /\ Step(c, IF Visible(a, row) THEN Loaded([req[c] EXCEPT !.row = row])
                ELSE [req[c] EXCEPT !.pc = "raised"])
     /\ overlapped' = IF \E d \in Client \ {c} : Working(d) /\ req[d].ask.thread = a.thread
                      THEN overlapped \cup {a.thread} ELSE overlapped
     /\ UNCHANGED <<vars, shown>>

\* The export looks the thread up twice; the object loaded first is not
\* refreshed.
GetThreadAgain(c) ==
  /\ At(c, "again")
  /\ Step(c, [req[c] EXCEPT
       !.pc = IF Visible(req[c].ask, Seen(c, req[c].ask.thread)) THEN "select" ELSE "raised"])
  /\ UNCHANGED <<vars, shown, overlapped>>

\* Mistake: a message of another thread is taken for one of this thread.
Ours_Any(a, row) == row # Absent

Ours(a, row) == row # Absent /\ row.thread = a.thread

\* session.get(Message, id): an upsert updates the message it finds and
\* inserts it otherwise; the id of another thread's message is refused.
GetMessage(c) ==
  LET a == req[c].ask
      msg == Seen(c, a.id)
      edited == IF msg # Absent /\ MessageObject(a, msg) = msg THEN {} ELSE {a.id}
  IN /\ At(c, "get")
     /\ Step(c, IF msg # Absent /\ ~Ours(a, msg) THEN [req[c] EXCEPT !.pc = "raised"]
                ELSE Flushing([req[c] EXCEPT !.msg = IF msg = Absent THEN None ELSE msg],
                              edited \cup Dirty(a, req[c].row)))
     /\ UNCHANGED <<vars, shown, overlapped>>

\* DELETE FROM messages begins: the rows it matches ...
StartDelete(c) ==
  /\ At(c, "delete")
  /\ Step(c, [req[c] EXCEPT !.pc = "deleting",
                            !.todo = {m \in req[c].ask.ids : Ours(req[c].ask, Seen(c, m))}])
  /\ UNCHANGED <<vars, shown, overlapped>>

\* ... are deleted one by one, each when no other transaction has it locked
\* and if it still matches by then ...
DeleteRow(c, m) ==
  /\ At(c, "deleting") /\ m \in req[c].todo
  /\ Step(c, [req[c] EXCEPT !.todo = @ \ {m}])
  /\ IF Ours(req[c].ask, Seen(c, m)) THEN Write(c, m, Absent)
     ELSE Available(c, m) /\ UNCHANGED vars
  /\ UNCHANGED <<shown, overlapped>>

\* ... and the head that was loaded is cleared if it was to be deleted.
Deleted(c) ==
  /\ At(c, "deleting") /\ req[c].todo = {}
  /\ Step(c, Flushing(req[c], Dirty(req[c].ask, req[c].row)))
  /\ UNCHANGED <<vars, shown, overlapped>>

\* What the flush of request r writes over a row that now holds cur.
Flushed(r, x, cur) ==
  CASE r.ask.op = "create" -> NewThread(r.ask)
    [] r.ask.op # "create" /\ x \in Thread ->
         Updated(cur, r.row, ThreadObject(r.ask, r.row))
    [] x \in Message /\ r.msg = None -> NewMessage(r.ask)
    [] x \in Message /\ r.msg # None -> Updated(cur, r.msg, MessageObject(r.ask, r.msg))

\* Mistake: an INSERT that overwrites the row it finds, an UPDATE that inserts
\* the row it does not find.
Refused_Never(r, x, cur) == FALSE

\* An INSERT of an id that exists, and an UPDATE of a row that has been deleted
\* since it was loaded (SQLAlchemy compares the number of rows).
Refused(r, x, cur) == x \in Message /\ (cur = Absent) = (r.msg # None)

\* A flush writes its rows in either order, each when it can have the lock.
FlushRow(c, x) ==
  LET r == req[c]
      cur == Seen(c, x)
  IN /\ At(c, "flush") /\ x \in r.todo
     /\ Available(c, x)
     /\ IF Refused(r, x, cur)
        THEN Fail(c) /\ Step(c, [r EXCEPT !.pc = "raised"])
        ELSE /\ Write(c, x, Flushed(r, x, IF cur = Absent THEN r.msg ELSE cur))
             /\ Step(c, Flushing(r, r.todo \ {x}))
     /\ UNCHANGED <<shown, overlapped>>

\* Any statement may fail: an outage, or a deadlock that this request loses.
Fault(c) ==
  /\ req[c].pc \in {"thread", "again", "get", "select", "delete", "deleting", "flush"}
  /\ Fail(c)
  /\ Step(c, [req[c] EXCEPT !.pc = "raised"])
  /\ UNCHANGED <<shown, overlapped>>

\* An exception (404 or 500) makes get_session roll back.
Raised(c) ==
  /\ At(c, "raised")
  /\ Rollback(c)
  /\ Step(c, [req[c] EXCEPT !.pc = "closed"])
  /\ UNCHANGED <<shown, overlapped>>

\* get_session commits when the endpoint has returned; a commit that fails is
\* rolled back and logged.
CommitRequest(c) ==
  /\ At(c, "commit")
  /\ Commit(c) \/ Rollback(c)
  /\ Step(c, [req[c] EXCEPT !.pc = "closed"])
  /\ UNCHANGED <<shown, overlapped>>

-----------------------------------------------------------------------------
\* The thread's messages, as list_messages selects them.
MessagesOf(c) == {m \in Message : Ours(req[c].ask, Seen(c, m))}

\* Mistake: the walk ends one message early.
Longer_DropsRoot(chain, seen, parent) ==
  parent # None /\ parent \in DOMAIN seen /\ parent \notin {chain[i] : i \in DOMAIN chain}
    /\ seen[parent].parent # None

\* The walk up the parents goes on: the parent is in the thread and not yet
\* in the chain.
Longer(chain, seen, parent) ==
  parent # None /\ parent \in DOMAIN seen /\ parent \notin {chain[i] : i \in DOMAIN chain}

\* active_branch: the head and its parents, oldest first, or all messages if
\* there is no usable head.  seen maps the thread's messages to their rows.
ActiveBranch(head, seen) ==
  LET chain[n \in 0..Cardinality(DOMAIN seen)] ==
        IF n = 0 THEN <<head>>
        ELSE LET below == chain[n - 1]
                 parent == seen[below[1]].parent
             IN  IF Longer(below, seen, parent) THEN <<parent>> \o below ELSE below
  IN  IF head \in DOMAIN seen
      THEN [chain |-> chain[Cardinality(DOMAIN seen)], all |-> {}]
      ELSE [chain |-> <<>>, all |-> DOMAIN seen]

\* list_messages returns the head loaded before and the messages there are
\* now; the report shows their branch.
SelectMessages(c) ==
  LET seen == [m \in MessagesOf(c) |-> Seen(c, m)]
  IN /\ At(c, "select")
     /\ Step(c, [req[c] EXCEPT !.pc = "commit"])
     /\ shown' = [shown EXCEPT ![c] =
          IF req[c].ask.op = "export" THEN ActiveBranch(req[c].row.head, seen)
          ELSE [chain |-> <<>>, all |-> DOMAIN seen]]
     /\ UNCHANGED <<vars, overlapped>>

AllClosed ==
  /\ \A c \in Client : At(c, "closed")
  /\ UNCHANGED threadVars

ThreadsNext ==
  \/ \E c \in Client :
       \/ Receive(c) \/ GetThread(c) \/ GetThreadAgain(c) \/ GetMessage(c)
       \/ StartDelete(c) \/ Deleted(c) \/ SelectMessages(c)
       \/ \E m \in Message : DeleteRow(c, m)
       \/ \E x \in Row : FlushRow(c, x)
       \/ Fault(c) \/ Raised(c) \/ CommitRequest(c)
  \/ AllClosed

ThreadsSpec == ThreadsInit /\ [][ThreadsNext]_threadVars

-----------------------------------------------------------------------------
\* A request changes messages of its own thread only, and the thread belongs
\* to its user (service.upsert_message: "a same-id row in another thread must
\* never be silently moved").  One case escapes the lookup: the message it had
\* loaded is deleted and its id used again in another thread before the UPDATE.
EditsStayInThread ==
  [][\A m \in Message : table'[m] # table[m] =>
       \E c \in Client :
         LET a == req[c].ask
         IN /\ lock[m] = c
            /\ table[a.thread].owner = a.user
            /\ table'[m] # Absent /\ table[m] = Absent => table'[m].thread = a.thread
            /\ table[m] # Absent =>
                 \/ table[m].thread = a.thread
                 \/ req[c].msg # None /\ req[c].msg.thread = a.thread
            /\ table[m] # Absent /\ table'[m] # Absent =>
                 table'[m].thread = table[m].thread]_threadVars

\* A commit changes of a thread only what its request set, so that renaming,
\* archiving, deleting and moving the head at once do not undo each other; a
\* deleted thread stays deleted.
ColumnsSurvive ==
  [][\A t \in Thread : table[t] # Absent =>
       \A k \in {"owner", "head", "title", "status", "deleted"} :
         table'[t][k] # table[t][k] =>
           LET c == lock[t]
           IN  table'[t][k] = ThreadObject(req[c].ask, req[c].row)[k]
               /\ table'[t][k] # req[c].row[k]]_threadVars

\* A message that is gone comes back only by a request that looked for it and
\* found none: an edit that crosses a deletion fails and does not undo it.
NothingComesBack ==
  [][\A m \in Message : table[m] = Absent /\ table'[m] # Absent =>
       req[lock[m]].ask.op = "upsert" /\ req[lock[m]].msg = None]_threadVars

\* A thread's head is one of its messages, unless two requests worked on the
\* thread at once; delete_messages clears the head it loaded, not the one in
\* the row by then.
HeadsExist ==
  \A t \in Thread \ overlapped :
    table[t] # Absent /\ table[t].head # None =>
      table[table[t].head] # Absent /\ table[table[t].head].thread = t

\* The report shows the head and everything above it, and nothing else, once
\* each and every message after its parent, also when parents have been
\* deleted or come round in a circle; or all messages if the head is gone.
BranchIsWhole ==
  [][\A c \in Client : At(c, "select") /\ req[c].ask.op = "export" /\ req'[c].pc = "commit" =>
       LET ids == MessagesOf(c)
           head == req[c].row.head
           chain == shown'[c].chain
           listed == {chain[i] : i \in DOMAIN chain}
           Upward(S) == \A m \in S : Seen(c, m).parent \in S \/ Seen(c, m).parent \notin ids
       IN IF head \notin ids THEN chain = <<>> /\ shown'[c].all = ids
          ELSE /\ chain[Len(chain)] = head
               /\ Len(chain) = Cardinality(listed)
               /\ \A i \in 2..Len(chain) : Seen(c, chain[i]).parent = chain[i - 1]
               /\ Upward(listed)
               /\ \A S \in SUBSET ids : head \in S /\ Upward(S) => listed \subseteq S]_threadVars
==============================================================================
