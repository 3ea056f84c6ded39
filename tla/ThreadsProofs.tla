---------------------------- MODULE ThreadsProofs -----------------------------
(* Proofs about Threads, for any users, threads, messages and requests.    *)
EXTENDS Threads, SessionsProofs, Recursion

Writing == {"patch", "delete", "upsert", "prune"}

\* What the fields of a call are.
LEMMA CallFields ==
  ASSUME NEW a \in Call
  PROVE  /\ a.op \in Writing \cup {"create", "messages", "export"}
         /\ a.user \in User /\ a.thread \in Thread
         /\ a.op = "patch" => /\ a.title \in Title \cup {None}
                              /\ a.status \in {"regular", "archived", None}
         /\ a.op = "upsert" => /\ a.id \in Message /\ a.parent \in Message \cup {None}
                               /\ a.content \in Content /\ a.head \in BOOLEAN
         /\ a.op = "prune" => a.ids \subseteq Message
  BY DEF Call, Writing

LEMMA Distinct ==
  /\ None \notin ThreadRow /\ None \notin MessageRow
  /\ Absent \notin ThreadRow /\ Absent \notin MessageRow
  /\ Keep \notin ThreadRow /\ Keep \notin MessageRow /\ Keep # Absent
  /\ \A t \in Thread : t \in Row /\ t \notin Message
  /\ \A m \in Message : m \in Row /\ m \notin Thread
  BY ThreadsAssumption, SessionAssumption

\* The object a call makes of the loaded thread is a thread of the same owner.
LEMMA ObjectOK ==
  ASSUME NEW a \in Call, a.op \in Writing, NEW row \in ThreadRow
  PROVE  /\ ThreadObject(a, row) \in ThreadRow
         /\ ThreadObject(a, row).owner = row.owner
<1>1. CASE a.op = "patch"
  BY <1>1, CallFields DEF ThreadObject, Patched, ThreadRow
<1>2. CASE a.op = "delete"
  BY <1>2 DEF ThreadObject, ThreadRow
<1>3. CASE a.op = "upsert"
  BY <1>3, CallFields DEF ThreadObject, ThreadRow
<1>4. CASE a.op = "prune"
  BY <1>4 DEF ThreadObject, Pruned, ThreadRow
<1>5. QED
  BY <1>1, <1>2, <1>3, <1>4 DEF Writing

LEMMA UpdatedThread ==
  ASSUME NEW cur \in ThreadRow, NEW row \in ThreadRow, NEW obj \in ThreadRow,
         obj.owner = row.owner
  PROVE  /\ Updated(cur, row, obj) \in ThreadRow
         /\ Updated(cur, row, obj).owner = cur.owner
         /\ \A k \in {"owner", "head", "title", "status", "deleted"} :
              Updated(cur, row, obj)[k] # cur[k] =>
                Updated(cur, row, obj)[k] = obj[k] /\ obj[k] # row[k]
<1>1. DOMAIN cur = {"owner", "head", "title", "status", "deleted"}
  BY DEF ThreadRow
<1>2. Updated(cur, row, obj) =
        [k \in {"owner", "head", "title", "status", "deleted"} |->
           IF obj[k] = row[k] THEN cur[k] ELSE obj[k]]
  BY <1>1 DEF Updated
<1>3. Updated(cur, row, obj) =
        [owner |-> Updated(cur, row, obj).owner, head |-> Updated(cur, row, obj).head,
         title |-> Updated(cur, row, obj).title, status |-> Updated(cur, row, obj).status,
         deleted |-> Updated(cur, row, obj).deleted]
  BY <1>2
<1>4. /\ Updated(cur, row, obj).owner = cur.owner
      /\ Updated(cur, row, obj).head \in Message \cup {None}
      /\ Updated(cur, row, obj).title \in Title \cup {None}
      /\ Updated(cur, row, obj).status \in {"regular", "archived"}
      /\ Updated(cur, row, obj).deleted \in BOOLEAN
  BY <1>2 DEF ThreadRow
<1>5. cur.owner \in User
  BY DEF ThreadRow
<1>6. QED
  BY <1>2, <1>3, <1>4, <1>5 DEF ThreadRow

LEMMA UpdatedMessage ==
  ASSUME NEW cur \in MessageRow, NEW msg \in MessageRow, NEW a \in Call, a.op = "upsert"
  PROVE  /\ Updated(cur, msg, MessageObject(a, msg)) \in MessageRow
         /\ Updated(cur, msg, MessageObject(a, msg)).thread = cur.thread
<1> DEFINE new == Updated(cur, msg, MessageObject(a, msg))
<1>1. DOMAIN cur = {"thread", "parent", "content"}
  BY DEF MessageRow
<1>2. MessageObject(a, msg) \in MessageRow /\ MessageObject(a, msg).thread = msg.thread
  BY CallFields DEF MessageObject, MessageRow
<1>3. new = [k \in {"thread", "parent", "content"} |->
               IF MessageObject(a, msg)[k] = msg[k] THEN cur[k] ELSE MessageObject(a, msg)[k]]
  BY <1>1 DEF Updated
<1>4. new = [thread |-> new.thread, parent |-> new.parent, content |-> new.content]
  BY <1>3
<1>5. /\ new.thread = cur.thread /\ cur.thread \in Thread
      /\ new.parent \in Message \cup {None}
      /\ new.content \in Content
  BY <1>2, <1>3 DEF MessageRow
<1>6. QED
  BY <1>4, <1>5 DEF MessageRow

-----------------------------------------------------------------------------
\* Until a request writes, its transaction is empty; from then on p, its
\* uncommitted writes, are what its program makes of what it loaded and of the
\* committed rows tab, which its locks keep as they were.
Loading == {"again", "get", "select", "delete", "deleting", "flush", "commit"}

Held(r, tab) ==
  /\ r.row \in ThreadRow /\ r.row.owner = r.ask.user
  /\ tab[r.ask.thread] \in ThreadRow /\ tab[r.ask.thread].owner = r.ask.user

\* The stage a request is in fits its call.
StageOK(r) ==
  /\ r.pc # "idle" => r.ask \in Call
  /\ r.pc = "thread" => r.ask.op # "create"
  /\ r.pc \in {"again", "select"} => r.ask.op \in {"messages", "export"}
  /\ r.pc = "get" => r.ask.op = "upsert"
  /\ r.pc \in {"delete", "deleting"} => r.ask.op = "prune"
  /\ r.pc = "deleting" => r.todo \subseteq Message
  /\ r.pc = "flush" => /\ r.ask.op \in Writing \cup {"create"}
                       /\ r.todo \subseteq {r.ask.thread} \cup
                            (IF r.ask.op = "upsert" THEN {r.ask.id} ELSE {})
  /\ r.pc \in {"flush", "commit"} /\ r.ask.op = "upsert" =>
       r.msg = None \/ (r.msg \in MessageRow /\ r.msg.thread = r.ask.thread)

MessageWrite(r, p, tab, m) ==
  \/ p[m] = Keep
  \/ /\ r.ask.op = "prune" /\ p[m] = Absent
     /\ tab[m] \in MessageRow /\ tab[m].thread = r.ask.thread
  \/ /\ r.ask.op = "upsert" /\ m = r.ask.id /\ p[m] \in MessageRow
     /\ \/ r.msg = None /\ tab[m] = Absent /\ p[m].thread = r.ask.thread
        \/ r.msg \in MessageRow /\ tab[m] \in MessageRow /\ p[m].thread = tab[m].thread

ThreadWrite(r, p, tab, t) ==
  \/ p[t] = Keep
  \/ /\ t = r.ask.thread
     /\ \/ r.ask.op = "create" /\ p[t] = NewThread(r.ask)
        \/ /\ r.ask.op \in Writing
           /\ p[t] = Updated(tab[t], r.row, ThreadObject(r.ask, r.row))

RequestOK(r, p, tab) ==
  /\ StageOK(r)
  /\ r.pc \notin {"deleting", "flush", "commit"} => p = NoWrites
  /\ r.pc \in Loading /\ r.ask.op # "create" => Held(r, tab)
  /\ r.pc \in {"flush", "commit"} /\ r.ask.op = "create" => tab[r.ask.thread] = Absent
  /\ r.pc \in {"deleting", "flush"} => \A x \in r.todo : p[x] = Keep
  /\ r.pc = "deleting" => \A t \in Thread : p[t] = Keep
  /\ \A m \in Message : MessageWrite(r, p, tab, m)
  /\ \A t \in Thread : ThreadWrite(r, p, tab, t)

\* No two requests create the same thread.
Fresh ==
  \A c, d \in Client :
    /\ c # d /\ req[c].ask \in Call /\ req[d].ask \in Call
    /\ req[c].ask.op = "create" /\ req[d].ask.op = "create"
    => req[c].ask.thread # req[d].ask.thread

ThreadsInv ==
  /\ SessionInv /\ ThreadsTypeOK /\ Fresh
  /\ \A c \in Client : RequestOK(req[c], pending[c], table)

LEMMA ThreadsStart == ThreadsInit => ThreadsInv
<1> SUFFICES ASSUME ThreadsInit PROVE ThreadsInv
  OBVIOUS
<1>1. /\ table \in [Row -> Value \cup {Absent}]
      /\ \A t \in Thread : table[t] \in ThreadRow \cup {Absent}
      /\ \A m \in Message : table[m] \in MessageRow \cup {Absent}
  BY StartAssumption DEF ThreadsInit, WellFormed
<1>2. SessionInv
  BY <1>1, SessionAssumption
  DEF ThreadsInit, SessionInv, TypeOK, WritesAreLocked, FailedHoldsNothing, NoWrites
<1>3. ASSUME NEW c \in Client
      PROVE  /\ req[c] = [pc |-> "idle", ask |-> None, row |-> None, msg |-> None, todo |-> {}]
             /\ pending[c] = NoWrites
  BY DEF ThreadsInit
<1>4. ThreadsTypeOK
  BY <1>1, <1>2 DEF ThreadsInit, ThreadsTypeOK, SessionInv, Local, Stage
<1>5. Fresh
  <2>1. ASSUME NEW c \in Client PROVE req[c].ask = None
    BY <1>3
  <2>2. None \notin Call
    BY ThreadsAssumption
  <2>3. QED
    BY <2>1, <2>2 DEF Fresh
<1>6. ASSUME NEW c \in Client PROVE RequestOK(req[c], pending[c], table)
  BY <1>3, Distinct DEF RequestOK, StageOK, Loading, MessageWrite, ThreadWrite, NoWrites
<1>7. QED
  BY <1>2, <1>4, <1>5, <1>6 DEF ThreadsInv

-----------------------------------------------------------------------------
\* A step of request c that commits nothing and keeps its call.
LEMMA LocalStep ==
  ASSUME ThreadsInv, NEW c \in Client, NEW r \in Local, Step(c, r),
         r.ask = req[c].ask, SessionInv', table' = table,
         \A d \in Client \ {c} : pending'[d] = pending[d],
         overlapped' \subseteq Thread, RequestOK(r, pending'[c], table)
  PROVE  ThreadsInv'
<1>1. /\ req'[c] = r /\ req' \in [Client -> Local]
      /\ \A d \in Client \ {c} : req'[d] = req[d]
  BY DEF ThreadsInv, ThreadsTypeOK, Step
<1>2. ThreadsTypeOK'
  BY <1>1 DEF ThreadsInv, ThreadsTypeOK, SessionInv
<1>3. \A d \in Client : req'[d].ask = req[d].ask
  BY <1>1
<1>4. Fresh'
  BY <1>3 DEF ThreadsInv, Fresh
<1>5. ASSUME NEW d \in Client PROVE RequestOK(req'[d], pending'[d], table')
  <2>1. CASE d = c
    BY <2>1, <1>1
  <2>2. CASE d # c
    BY <2>2, <1>1 DEF ThreadsInv
  <2>3. QED
    BY <2>1, <2>2
<1>6. QED
  BY <1>2, <1>4, <1>5 DEF ThreadsInv

\* What the invariant says of one request.
LEMMA Facts ==
  ASSUME ThreadsInv, NEW c \in Client
  PROVE  /\ SessionInv /\ TypeOK /\ req[c] \in Local /\ overlapped \subseteq Thread
         /\ RequestOK(req[c], pending[c], table)
         /\ \A t \in Thread : table[t] \in ThreadRow \cup {Absent}
         /\ \A m \in Message : table[m] \in MessageRow \cup {Absent}
  BY DEF ThreadsInv, ThreadsTypeOK

\* An unwritten row is seen as it was committed.
LEMMA SeenCommitted ==
  ASSUME NEW c, NEW x, pending[c][x] = Keep
  PROVE  Seen(c, x) = table[x]
  BY DEF Seen

\* An unfinished record.
LEMMA Unwritten ==
  ASSUME ThreadsInv, NEW c \in Client, pending[c] = NoWrites
  PROVE  \A x \in Row : pending[c][x] = Keep /\ Seen(c, x) = table[x]
  BY SeenCommitted DEF NoWrites

\* What Flushing leaves of a request's record.
LEMMA FlushingFields ==
  ASSUME NEW r \in Local, NEW rows \in SUBSET Row
  PROVE  /\ Flushing(r, rows) \in Local
         /\ Flushing(r, rows).todo = rows
         /\ Flushing(r, rows).pc \in {"flush", "commit"}
         /\ Flushing(r, rows).ask = r.ask
         /\ Flushing(r, rows).row = r.row
         /\ Flushing(r, rows).msg = r.msg
  BY DEF Flushing, Local, Stage

\* The request's thread is loaded: nothing written yet.
LEMMA GetThreadKeeps ==
  ASSUME ThreadsInv, NEW c \in Client, GetThread(c)
  PROVE  ThreadsInv'
<1> DEFINE r == req[c]
           a == req[c].ask
           cur == table[req[c].ask.thread]
           loaded == [r EXCEPT !.row = cur]
<1>1. /\ SessionInv /\ r \in Local /\ RequestOK(r, pending[c], table)
      /\ r.pc = "thread" /\ a \in Call /\ a.op # "create" /\ pending[c] = NoWrites
  BY Facts DEF GetThread, At, RequestOK, StageOK
<1>2. a.thread \in Thread /\ a.thread \in Row
  BY <1>1, CallFields, Distinct
<1>3. Seen(c, a.thread) = cur
  BY <1>1, <1>2, Unwritten
<1>4. overlapped' \subseteq Thread /\ UNCHANGED vars
  BY <1>2, Facts DEF GetThread
<1>5. SessionInv'
  BY <1>1, <1>4, SessionNext
<1>6. \A x \in Row : pending[c][x] = Keep
  BY <1>1, Unwritten
<1>7. CASE ~Visible(a, cur)
  <2>1. Step(c, [r EXCEPT !.pc = "raised"])
    BY <1>3, <1>7 DEF GetThread
  <2>2. [r EXCEPT !.pc = "raised"] \in Local
    BY <1>1 DEF Local, Stage
  <2>3. RequestOK([r EXCEPT !.pc = "raised"], pending[c], table)
    BY <1>1, <1>6, Distinct
    DEF RequestOK, StageOK, Loading, MessageWrite, ThreadWrite, Local
  <2>4. QED
    BY <1>1, <1>4, <1>5, <2>1, <2>2, <2>3, LocalStep DEF vars, Local
<1>8. CASE Visible(a, cur)
  <2>1. Step(c, Loaded(loaded))
    BY <1>3, <1>8 DEF GetThread
  <2>2. cur \in ThreadRow /\ cur.owner = a.user
    BY <1>1, <1>2, <1>8, Facts DEF Visible
  <2>3. /\ loaded \in Local /\ loaded.ask = a /\ loaded.row = cur /\ loaded.pc = "thread"
    BY <1>1, <2>2 DEF Local
  <2>4. Held(loaded, table)
    BY <2>2, <2>3 DEF Held
  <2>5. a.op \in Writing => Dirty(a, cur) \subseteq {a.thread}
    BY DEF Dirty
  <2>6. /\ Loaded(loaded) \in Local /\ Loaded(loaded).ask = a /\ Loaded(loaded).row = cur
        /\ StageOK(Loaded(loaded))
        /\ Loaded(loaded).pc \in Loading
        /\ Loaded(loaded).pc = "deleting" => FALSE
    <3>1. CASE a.op \in {"patch", "delete"}
      <4>1. Loaded(loaded) = Flushing(loaded, Dirty(a, cur))
        BY <2>3, <3>1 DEF Loaded
      <4>2. Dirty(a, cur) \in SUBSET Row /\ Dirty(a, cur) \subseteq {a.thread}
        BY <1>2, <2>5, <3>1 DEF Writing
      <4> DEFINE f == Flushing(loaded, Dirty(a, cur))
      <4>3. /\ f \in Local /\ f.todo = Dirty(a, cur) /\ f.pc \in {"flush", "commit"}
            /\ f.ask = a /\ f.row = cur
        BY <2>3, <4>2, FlushingFields
      <4> HIDE DEF f
      <4>4. StageOK(f)
        BY <1>1, <3>1, <4>2, <4>3 DEF StageOK, Writing
      <4>5. QED
        BY <4>1, <4>3, <4>4 DEF f, Loading
    <3>2. CASE a.op = "upsert"
      BY <1>1, <2>3, <3>2 DEF Loaded, StageOK, Loading, Local, Stage
    <3>3. CASE a.op = "prune"
      BY <1>1, <2>3, <3>3 DEF Loaded, StageOK, Loading, Local, Stage
    <3>4. CASE a.op = "messages"
      BY <1>1, <2>3, <3>4 DEF Loaded, StageOK, Loading, Local, Stage
    <3>5. CASE a.op = "export"
      BY <1>1, <2>3, <3>5 DEF Loaded, StageOK, Loading, Local, Stage
    <3>6. QED
      BY <1>1, <3>1, <3>2, <3>3, <3>4, <3>5, CallFields DEF Writing
  <2>7. Loaded(loaded).pc = "flush" => Loaded(loaded).todo \subseteq Row
    BY <2>6 DEF Local
  <2>8. Held(Loaded(loaded), table)
    BY <2>4, <2>3, <2>6 DEF Held
  <2>9. RequestOK(Loaded(loaded), pending[c], table)
    BY <1>1, <1>6, <2>6, <2>7, <2>8, Distinct DEF RequestOK, MessageWrite, ThreadWrite
  <2>10. QED
    BY <1>1, <1>4, <1>5, <2>1, <2>6, <2>9, LocalStep DEF vars
<1>9. QED
  BY <1>7, <1>8

LEMMA GetThreadAgainKeeps ==
  ASSUME ThreadsInv, NEW c \in Client, GetThreadAgain(c)
  PROVE  ThreadsInv'
<1> DEFINE r == req[c]
<1>1. /\ SessionInv /\ r \in Local /\ RequestOK(r, pending[c], table) /\ r.pc = "again"
      /\ UNCHANGED vars /\ overlapped' = overlapped /\ overlapped \subseteq Thread
  BY Facts DEF GetThreadAgain, At
<1>2. PICK pc \in {"select", "raised"} : Step(c, [r EXCEPT !.pc = pc])
  BY DEF GetThreadAgain
<1> DEFINE after == [r EXCEPT !.pc = pc]
<1>3. /\ after \in Local /\ after.ask = r.ask /\ after.pc = pc /\ after.row = r.row
  BY <1>1 DEF Local, Stage
<1>4. RequestOK(after, pending[c], table)
  BY <1>1, <1>3 DEF RequestOK, StageOK, Held, Loading, MessageWrite, ThreadWrite, Local
<1>5. SessionInv'
  BY <1>1, SessionNext
<1>6. QED
  BY <1>1, <1>2, <1>3, <1>4, <1>5, LocalStep DEF vars

LEMMA SelectKeeps ==
  ASSUME ThreadsInv, NEW c \in Client, SelectMessages(c)
  PROVE  ThreadsInv'
<1> DEFINE r == req[c]
           after == [r EXCEPT !.pc = "commit"]
<1>1. /\ SessionInv /\ r \in Local /\ RequestOK(r, pending[c], table) /\ r.pc = "select"
      /\ UNCHANGED vars /\ overlapped' = overlapped /\ overlapped \subseteq Thread
      /\ Step(c, after)
  BY Facts DEF SelectMessages, At
<1>2. /\ pending[c] = NoWrites /\ \A x \in Row : pending[c][x] = Keep
  BY <1>1, Unwritten DEF RequestOK
<1>3. /\ after \in Local /\ after.ask = r.ask /\ after.pc = "commit" /\ after.row = r.row
      /\ after.msg = r.msg
  BY <1>1 DEF Local, Stage
<1>4. r.ask \in Call /\ r.ask.op \in {"messages", "export"}
  BY <1>1 DEF RequestOK, StageOK
<1>5. RequestOK(after, pending[c], table)
  BY <1>1, <1>2, <1>3, <1>4, Distinct
  DEF RequestOK, StageOK, Held, Loading, MessageWrite, ThreadWrite
<1>6. SessionInv'
  BY <1>1, SessionNext
<1>7. QED
  BY <1>1, <1>3, <1>5, <1>6, LocalStep DEF vars

\* The message is looked up: the request plans an UPDATE or an INSERT.
LEMMA GetMessageKeeps ==
  ASSUME ThreadsInv, NEW c \in Client, GetMessage(c)
  PROVE  ThreadsInv'
<1> DEFINE r == req[c]
           a == req[c].ask
           msg == table[req[c].ask.id]
<1>1. /\ SessionInv /\ r \in Local /\ RequestOK(r, pending[c], table) /\ r.pc = "get"
      /\ a \in Call /\ a.op = "upsert" /\ pending[c] = NoWrites
      /\ UNCHANGED vars /\ overlapped' = overlapped /\ overlapped \subseteq Thread
  BY Facts DEF GetMessage, At, RequestOK, StageOK
<1>2. a.thread \in Thread /\ a.thread \in Row /\ a.id \in Message /\ a.id \in Row
  BY <1>1, CallFields, Distinct
<1>3. /\ Seen(c, a.id) = msg /\ msg \in MessageRow \cup {Absent}
      /\ \A x \in Row : pending[c][x] = Keep
  BY <1>1, <1>2, Unwritten, Facts
<1>4. SessionInv'
  BY <1>1, SessionNext
<1>5. CASE msg # Absent /\ ~Ours(a, msg)
  <2> DEFINE after == [r EXCEPT !.pc = "raised"]
  <2>1. Step(c, after)
    BY <1>3, <1>5 DEF GetMessage
  <2>2. after \in Local /\ after.ask = a /\ after.pc = "raised"
    BY <1>1 DEF Local, Stage
  <2>3. RequestOK(after, pending[c], table)
    BY <1>1, <1>3, <2>2, Distinct DEF RequestOK, StageOK, Loading, MessageWrite, ThreadWrite
  <2>4. QED
    BY <1>1, <1>4, <2>1, <2>2, <2>3, LocalStep DEF vars
<1>6. CASE ~(msg # Absent /\ ~Ours(a, msg))
  <2> DEFINE found == IF msg = Absent THEN None ELSE msg
             base == [r EXCEPT !.msg = found]
             rows == (IF msg # Absent /\ MessageObject(a, msg) = msg THEN {} ELSE {a.id})
                       \cup Dirty(a, r.row)
             after == Flushing(base, rows)
  <2>1. Step(c, after)
    BY <1>3, <1>6 DEF GetMessage
  <2>2. /\ found \in MessageRow \cup {None}
        /\ found = None \/ (found \in MessageRow /\ found.thread = a.thread)
    BY <1>3, <1>6 DEF Ours
  <2>3. base \in Local /\ base.ask = a /\ base.row = r.row /\ base.msg = found
    BY <1>1, <2>2 DEF Local
  <2>4. rows \in SUBSET Row /\ rows \subseteq {a.thread, a.id}
    BY <1>2 DEF Dirty
  <2> HIDE DEF base, rows, found
  <2>5. /\ after \in Local /\ after.todo = rows /\ after.pc \in {"flush", "commit"}
        /\ after.ask = a /\ after.row = r.row /\ after.msg = found
    BY <2>3, <2>4, FlushingFields
  <2> HIDE DEF after
  <2>6. StageOK(after)
    BY <1>1, <2>2, <2>4, <2>5 DEF StageOK, Writing
  <2>7. Held(after, table)
    BY <1>1, <2>5 DEF RequestOK, Held, Loading
  <2>8. RequestOK(after, pending[c], table)
    BY <1>1, <1>3, <2>4, <2>5, <2>6, <2>7, Distinct
    DEF RequestOK, MessageWrite, ThreadWrite
  <2>9. QED
    BY <1>1, <1>4, <2>1, <2>5, <2>8, LocalStep DEF vars
<1>7. QED
  BY <1>5, <1>6

LEMMA StartDeleteKeeps ==
  ASSUME ThreadsInv, NEW c \in Client, StartDelete(c)
  PROVE  ThreadsInv'
<1> DEFINE r == req[c]
           rows == {m \in r.ask.ids : Ours(r.ask, Seen(c, m))}
           after == [r EXCEPT !.pc = "deleting", !.todo = rows]
<1>1. /\ SessionInv /\ r \in Local /\ RequestOK(r, pending[c], table) /\ r.pc = "delete"
      /\ r.ask \in Call /\ r.ask.op = "prune" /\ pending[c] = NoWrites
      /\ UNCHANGED vars /\ overlapped' = overlapped /\ overlapped \subseteq Thread
      /\ Step(c, after)
  BY Facts DEF StartDelete, At, RequestOK, StageOK
<1>2. \A x \in Row : pending[c][x] = Keep
  BY <1>1, Unwritten
<1>3. rows \subseteq Message /\ rows \subseteq Row
  BY <1>1, CallFields, Distinct
<1> HIDE DEF rows
<1>4. /\ after \in Local /\ after.ask = r.ask /\ after.pc = "deleting" /\ after.row = r.row
      /\ after.todo = rows
  BY <1>1, <1>3 DEF Local, Stage
<1>5. RequestOK(after, pending[c], table)
  BY <1>1, <1>2, <1>3, <1>4, Distinct
  DEF RequestOK, StageOK, Held, Loading, MessageWrite, ThreadWrite
<1>6. SessionInv'
  BY <1>1, SessionNext
<1>7. QED
  BY <1>1, <1>4, <1>5, <1>6, LocalStep DEF vars

\* A row the DELETE visits is deleted or, if it no longer matches, left.
LEMMA DeleteRowKeeps ==
  ASSUME ThreadsInv, NEW c \in Client, NEW m \in Message, DeleteRow(c, m)
  PROVE  ThreadsInv'
<1> DEFINE r == req[c]
           after == [r EXCEPT !.todo = @ \ {m}]
<1>1. /\ SessionInv /\ TypeOK /\ r \in Local /\ RequestOK(r, pending[c], table)
      /\ r.pc = "deleting" /\ m \in r.todo /\ m \in Row
      /\ r.ask \in Call /\ r.ask.op = "prune" /\ r.todo \subseteq Message
      /\ overlapped' = overlapped /\ overlapped \subseteq Thread /\ Step(c, after)
  BY Facts, Distinct DEF DeleteRow, At, RequestOK, StageOK
<1>2. /\ pending[c][m] = Keep /\ Seen(c, m) = table[m]
      /\ table[m] \in MessageRow \cup {Absent}
  BY <1>1, SeenCommitted, Facts DEF RequestOK
<1>3. /\ after \in Local /\ after.ask = r.ask /\ after.pc = "deleting" /\ after.row = r.row
      /\ after.msg = r.msg /\ after.todo = r.todo \ {m}
  BY <1>1 DEF Local
<1> HIDE DEF after
<1>4. CASE ~Ours(r.ask, table[m])
  <2>1. UNCHANGED vars
    BY <1>2, <1>4 DEF DeleteRow
  <2>2. SessionInv'
    BY <1>1, <2>1, SessionNext
  <2>3. RequestOK(after, pending[c], table)
    BY <1>1, <1>3 DEF RequestOK, StageOK, Held, Loading, MessageWrite, ThreadWrite
  <2>4. QED
    BY <1>1, <1>3, <2>1, <2>2, <2>3, LocalStep DEF vars
<1>5. CASE Ours(r.ask, table[m])
  <2>1. Write(c, m, Absent)
    BY <1>2, <1>5 DEF DeleteRow
  <2>2. SessionInv'
    BY <1>1, <2>1, WriteKeepsInv
  <2>3. /\ pending'[c][m] = Absent
        /\ \A x \in Row \ {m} : pending'[c][x] = pending[c][x]
        /\ \A d \in Client \ {c} : pending'[d] = pending[d]
        /\ table' = table
    BY <1>1, <2>1 DEF Write, TypeOK
  <2>4. table[m] \in MessageRow /\ table[m].thread = r.ask.thread
    BY <1>2, <1>5 DEF Ours
  <2>5. ASSUME NEW x \in Message PROVE MessageWrite(after, pending'[c], table, x)
    <3>1. MessageWrite(r, pending[c], table, x) /\ x \in Row
      BY <1>1, Distinct DEF RequestOK
    <3>2. QED
      BY <1>1, <1>3, <2>3, <2>4, <3>1 DEF MessageWrite
  <2>6. ASSUME NEW t \in Thread PROVE pending'[c][t] = Keep
    BY <1>1, <2>3, Distinct DEF RequestOK
  <2>7. RequestOK(after, pending'[c], table)
    BY <1>1, <1>3, <2>3, <2>5, <2>6, Distinct DEF RequestOK, StageOK, Held, Loading, ThreadWrite
  <2>8. QED
    BY <1>1, <1>3, <2>2, <2>3, <2>7, LocalStep
<1>6. QED
  BY <1>4, <1>5

LEMMA DeletedKeeps ==
  ASSUME ThreadsInv, NEW c \in Client, Deleted(c)
  PROVE  ThreadsInv'
<1> DEFINE r == req[c]
           rows == Dirty(r.ask, r.row)
           after == Flushing(r, rows)
<1>1. /\ SessionInv /\ r \in Local /\ RequestOK(r, pending[c], table) /\ r.pc = "deleting"
      /\ r.ask \in Call /\ r.ask.op = "prune" /\ UNCHANGED vars
      /\ overlapped' = overlapped /\ overlapped \subseteq Thread /\ Step(c, after)
  BY Facts DEF Deleted, At, RequestOK, StageOK
<1>2. r.ask.thread \in Thread /\ r.ask.thread \in Row
  BY <1>1, CallFields, Distinct
<1>3. rows \in SUBSET Row /\ rows \subseteq {r.ask.thread}
  BY <1>2 DEF Dirty
<1> HIDE DEF rows
<1>4. /\ after \in Local /\ after.todo = rows /\ after.pc \in {"flush", "commit"}
      /\ after.ask = r.ask /\ after.row = r.row /\ after.msg = r.msg
  BY <1>1, <1>3, FlushingFields
<1> HIDE DEF after
<1>5. RequestOK(after, pending[c], table)
  BY <1>1, <1>2, <1>3, <1>4
  DEF RequestOK, StageOK, Held, Loading, MessageWrite, ThreadWrite, Writing
<1>6. SessionInv'
  BY <1>1, SessionNext
<1>7. QED
  BY <1>1, <1>4, <1>5, <1>6, LocalStep DEF vars

\* An error empties the transaction.
LEMMA EmptyKeeps ==
  ASSUME ThreadsInv, NEW c \in Client, NEW pc \in {"raised", "closed"},
         Step(c, [req[c] EXCEPT !.pc = pc]), SessionInv', table' = table,
         pending' = [pending EXCEPT ![c] = NoWrites], req[c].pc # "idle",
         overlapped' = overlapped
  PROVE  ThreadsInv'
<1> DEFINE r == req[c]
           after == [r EXCEPT !.pc = pc]
<1>1. /\ r \in Local /\ RequestOK(r, pending[c], table) /\ TypeOK /\ overlapped \subseteq Thread
  BY Facts
<1>2. after \in Local /\ after.ask = r.ask /\ after.pc = pc
  BY <1>1 DEF Local, Stage
<1>3. pending'[c] = NoWrites /\ \A d \in Client \ {c} : pending'[d] = pending[d]
  BY <1>1 DEF TypeOK
<1>4. \A x \in Row : NoWrites[x] = Keep
  BY DEF NoWrites
<1>5. RequestOK(after, NoWrites, table)
  BY <1>1, <1>2, <1>4, Distinct DEF RequestOK, StageOK, Loading, MessageWrite, ThreadWrite
<1>6. QED
  BY <1>1, <1>2, <1>3, <1>5, LocalStep

\* The values a flush writes.
LEMMA FlushedValues ==
  ASSUME NEW r, NEW x, NEW cur
  PROVE  /\ r.ask.op = "create" /\ x \notin Message => Flushed(r, x, cur) = NewThread(r.ask)
         /\ r.ask.op # "create" /\ x \in Thread /\ x \notin Message =>
              Flushed(r, x, cur) = Updated(cur, r.row, ThreadObject(r.ask, r.row))
         /\ r.ask.op # "create" /\ x \in Message /\ x \notin Thread /\ r.msg = None =>
              Flushed(r, x, cur) = NewMessage(r.ask)
         /\ r.ask.op # "create" /\ x \in Message /\ x \notin Thread /\ r.msg # None =>
              Flushed(r, x, cur) = Updated(cur, r.msg, MessageObject(r.ask, r.msg))
<1> DEFINE onThread == Updated(cur, r.row, ThreadObject(r.ask, r.row))
           onMessage == Updated(cur, r.msg, MessageObject(r.ask, r.msg))
           newThread == NewThread(r.ask)
           newMessage == NewMessage(r.ask)
<1>1. Flushed(r, x, cur) =
        CASE r.ask.op = "create" -> newThread
          [] r.ask.op # "create" /\ x \in Thread -> onThread
          [] x \in Message /\ r.msg = None -> newMessage
          [] x \in Message /\ r.msg # None -> onMessage
  BY DEF Flushed
<1> HIDE DEF onThread, onMessage, newThread, newMessage
<1>2. QED
  BY <1>1 DEF onThread, onMessage, newThread, newMessage

\* What a flush that is not refused writes to one of its rows.
LEMMA Written ==
  ASSUME ThreadsInv, NEW c \in Client, NEW x \in Row, req[c].pc = "flush",
         x \in req[c].todo, ~Refused(req[c], x, table[x])
  PROVE  LET r == req[c]
             a == req[c].ask
             cur == table[x]
             new == Flushed(r, x, IF cur = Absent THEN r.msg ELSE cur)
         IN  /\ x \in Thread => /\ new \in ThreadRow /\ x = a.thread
                                /\ \/ a.op = "create" /\ new = NewThread(a)
                                   \/ /\ a.op \in Writing
                                      /\ new = Updated(cur, r.row, ThreadObject(a, r.row))
             /\ x \notin Thread =>
                  /\ x \in Message /\ new \in MessageRow /\ x = a.id /\ a.op = "upsert"
                  /\ \/ r.msg = None /\ cur = Absent /\ new.thread = a.thread
                     \/ r.msg \in MessageRow /\ cur \in MessageRow /\ new.thread = cur.thread
<1> DEFINE r == req[c]
           a == req[c].ask
           cur == table[x]
           base == IF cur = Absent THEN r.msg ELSE cur
           new == Flushed(r, x, base)
<1>1. /\ RequestOK(r, pending[c], table) /\ r.pc = "flush" /\ a \in Call
      /\ a.op \in Writing \cup {"create"} /\ x \in r.todo
      /\ r.todo \subseteq {a.thread} \cup (IF a.op = "upsert" THEN {a.id} ELSE {})
  BY Facts DEF RequestOK, StageOK
<1>2. a.thread \in Thread /\ (a.op = "upsert" => a.id \in Message)
  BY <1>1, CallFields
<1>3. ~Refused(r, x, cur)
  OBVIOUS
<1>4. /\ x \in Thread => /\ new \in ThreadRow /\ x = a.thread
                         /\ \/ a.op = "create" /\ new = NewThread(a)
                            \/ /\ a.op \in Writing
                               /\ new = Updated(cur, r.row, ThreadObject(a, r.row))
      /\ x \notin Thread =>
           /\ x \in Message /\ new \in MessageRow /\ x = a.id /\ a.op = "upsert"
           /\ \/ r.msg = None /\ cur = Absent /\ new.thread = a.thread
              \/ r.msg \in MessageRow /\ cur \in MessageRow /\ new.thread = cur.thread
  <2>1. CASE x = a.thread /\ a.op = "create"
    <3>1. new = NewThread(a)
      BY <1>2, <2>1, Distinct, FlushedValues
    <3>2. NewThread(a) \in ThreadRow
      BY <1>1, CallFields DEF NewThread, ThreadRow
    <3>3. QED
      BY <1>2, <2>1, <3>1, <3>2
  <2>2. CASE x = a.thread /\ a.op # "create"
    <3>1. /\ a.op \in Writing /\ r.row \in ThreadRow /\ cur \in ThreadRow
      BY <1>1, <2>2 DEF RequestOK, Held, Loading
    <3>2. base = cur
      BY <3>1, Distinct
    <3>3. new = Updated(cur, r.row, ThreadObject(a, r.row))
      BY <1>2, <2>2, <3>2, Distinct, FlushedValues
    <3>4. new \in ThreadRow
      BY <1>1, <3>1, <3>3, ObjectOK, UpdatedThread
    <3>5. QED
      BY <1>2, <2>2, <3>1, <3>3, <3>4
  <2>3. CASE x # a.thread
    <3>1. a.op = "upsert" /\ x = a.id /\ x \in Message /\ x \notin Thread
      BY <1>1, <1>2, <2>3, Distinct
    <3>2. r.msg = None \/ (r.msg \in MessageRow /\ r.msg.thread = a.thread)
      BY <1>1, <3>1 DEF RequestOK, StageOK
    <3>3. cur \in MessageRow \cup {Absent}
      BY <3>1, Facts
    <3>4. CASE r.msg = None
      <4>1. cur = Absent
        BY <1>3, <3>1, <3>4 DEF Refused
      <4>2. new = NewMessage(a)
        BY <3>1, <3>4, FlushedValues
      <4>3. NewMessage(a) \in MessageRow /\ NewMessage(a).thread = a.thread
        BY <1>1, <3>1, CallFields DEF NewMessage, MessageRow
      <4>4. QED
        BY <3>1, <3>4, <4>1, <4>2, <4>3
    <3>5. CASE r.msg \in MessageRow
      <4>1. r.msg # None
        BY <3>5, Distinct
      <4>2. cur \in MessageRow /\ base = cur
        BY <1>3, <3>1, <3>3, <4>1, Distinct DEF Refused
      <4>3. new = Updated(cur, r.msg, MessageObject(a, r.msg))
        <5>1. Flushed(r, x, base) = Updated(base, r.msg, MessageObject(a, r.msg))
          BY <3>1, <4>1, FlushedValues
        <5>2. QED
          BY <4>2, <5>1
      <4>4. new \in MessageRow /\ new.thread = cur.thread
        <5> DEFINE u == Updated(cur, r.msg, MessageObject(a, r.msg))
        <5>1. u \in MessageRow /\ u.thread = cur.thread
          BY <1>1, <3>1, <3>5, <4>2, UpdatedMessage
        <5>2. new = u
          BY <4>3
        <5> HIDE DEF u, new
        <5>3. QED
          BY <5>1, <5>2
      <4>5. QED
        BY <3>1, <3>5, <4>2, <4>4
    <3>6. QED
      BY <3>2, <3>4, <3>5
  <2>4. QED
    BY <2>1, <2>2, <2>3
<1>5. QED
  BY <1>4

\* A flush writes one of its rows, or fails.
LEMMA FlushRowKeeps ==
  ASSUME ThreadsInv, NEW c \in Client, NEW x \in Row, FlushRow(c, x)
  PROVE  ThreadsInv'
<1> DEFINE r == req[c]
           a == req[c].ask
           cur == table[x]
           base == IF cur = Absent THEN r.msg ELSE cur
           new == Flushed(r, x, base)
           after == Flushing(r, r.todo \ {x})
<1>1. /\ SessionInv /\ TypeOK /\ r \in Local /\ RequestOK(r, pending[c], table)
      /\ r.pc = "flush" /\ x \in r.todo /\ a \in Call
      /\ a.op \in Writing \cup {"create"}
      /\ r.todo \subseteq {a.thread} \cup (IF a.op = "upsert" THEN {a.id} ELSE {})
      /\ overlapped' = overlapped /\ overlapped \subseteq Thread
  BY Facts DEF FlushRow, At, RequestOK, StageOK
<1>2. a.thread \in Thread /\ (a.op = "upsert" => a.id \in Message)
  BY <1>1, CallFields
<1>3. pending[c][x] = Keep /\ Seen(c, x) = cur
  BY <1>1, SeenCommitted DEF RequestOK
<1>4. CASE Refused(r, x, cur)
  <2>1. Fail(c) /\ Step(c, [r EXCEPT !.pc = "raised"])
    BY <1>3, <1>4 DEF FlushRow
  <2>2. SessionInv'
    BY <1>1, <2>1, SessionNext DEF Next
  <2>3. QED
    BY <1>1, <2>1, <2>2, EmptyKeeps DEF Fail
<1>5. CASE ~Refused(r, x, cur)
  <2>1. Write(c, x, new) /\ Step(c, after)
    BY <1>3, <1>5 DEF FlushRow
  <2>2. r.todo \ {x} \in SUBSET Row
    BY <1>1 DEF Local
  <2>3. /\ after \in Local /\ after.todo = r.todo \ {x} /\ after.pc \in {"flush", "commit"}
        /\ after.ask = a /\ after.row = r.row /\ after.msg = r.msg
    BY <1>1, <2>2, FlushingFields
  <2> HIDE DEF after
  <2>4. /\ x \in Thread => /\ new \in ThreadRow /\ x = a.thread
                           /\ \/ a.op = "create" /\ new = NewThread(a)
                              \/ /\ a.op \in Writing
                                 /\ new = Updated(cur, r.row, ThreadObject(a, r.row))
        /\ x \notin Thread =>
             /\ x \in Message /\ new \in MessageRow /\ x = a.id /\ a.op = "upsert"
             /\ \/ r.msg = None /\ cur = Absent /\ new.thread = a.thread
                \/ r.msg \in MessageRow /\ cur \in MessageRow /\ new.thread = cur.thread
    BY <1>1, <1>5, Written
  <2> HIDE DEF new
  <2>5. new \in Value
    BY <2>4, ThreadsAssumption
  <2>6. SessionInv'
    BY <1>1, <2>1, <2>5, WriteKeepsInv
  <2>7. /\ pending'[c][x] = new
        /\ \A y \in Row \ {x} : pending'[c][y] = pending[c][y]
        /\ \A d \in Client \ {c} : pending'[d] = pending[d]
        /\ table' = table
    BY <1>1, <2>1 DEF Write, TypeOK
  <2>8. ASSUME NEW m \in Message PROVE MessageWrite(after, pending'[c], table, m)
    <3>1. MessageWrite(r, pending[c], table, m) /\ m \in Row /\ m \notin Thread
      BY <1>1, Distinct DEF RequestOK
    <3>2. QED
      BY <2>3, <2>4, <2>7, <3>1 DEF MessageWrite
  <2>9. ASSUME NEW t \in Thread PROVE ThreadWrite(after, pending'[c], table, t)
    <3>1. ThreadWrite(r, pending[c], table, t) /\ t \in Row
      BY <1>1, Distinct DEF RequestOK
    <3>2. QED
      BY <2>3, <2>4, <2>7, <3>1 DEF ThreadWrite
  <2>10. \A y \in after.todo : pending'[c][y] = Keep
    BY <1>1, <2>2, <2>3, <2>7 DEF RequestOK
  <2>11. StageOK(after)
    BY <1>1, <2>3 DEF RequestOK, StageOK
  <2>12. RequestOK(after, pending'[c], table)
    BY <1>1, <2>3, <2>8, <2>9, <2>10, <2>11 DEF RequestOK, Held, Loading
  <2>13. QED
    BY <1>1, <2>1, <2>3, <2>6, <2>7, <2>12, LocalStep
<1>6. QED
  BY <1>4, <1>5

LEMMA FaultKeeps ==
  ASSUME ThreadsInv, NEW c \in Client, Fault(c)
  PROVE  ThreadsInv'
<1>1. SessionInv'
  BY Facts, SessionNext DEF Fault, Next
<1>2. QED
  BY <1>1, EmptyKeeps DEF Fault, Fail

LEMMA RolledBack ==
  ASSUME ThreadsInv, NEW c \in Client, Rollback(c), req[c].pc # "idle",
         Step(c, [req[c] EXCEPT !.pc = "closed"]), overlapped' = overlapped
  PROVE  ThreadsInv'
<1>1. SessionInv'
  BY Facts, SessionNext DEF Next
<1>2. QED
  BY <1>1, EmptyKeeps DEF Rollback

\* What a request that commits has done to a thread ...
LEMMA ThreadAtCommit ==
  ASSUME ThreadsInv, NEW c \in Client, req[c].pc = "commit", NEW t \in Thread,
         pending[c][t] # Keep
  PROVE  /\ t = req[c].ask.thread /\ Seen(c, t) \in ThreadRow
         /\ \/ req[c].ask.op = "create" /\ table[t] = Absent
            \/ /\ req[c].ask \in Call /\ req[c].ask.op \in Writing
               /\ table[t] \in ThreadRow /\ req[c].row \in ThreadRow
               /\ Seen(c, t).owner = table[t].owner
               /\ Seen(c, t) = Updated(table[t], req[c].row, ThreadObject(req[c].ask, req[c].row))
<1> DEFINE r == req[c]
           a == req[c].ask
<1>1. RequestOK(r, pending[c], table) /\ a \in Call /\ r.pc = "commit"
  BY Facts DEF RequestOK, StageOK
<1>2. ThreadWrite(r, pending[c], table, t) /\ Seen(c, t) = pending[c][t]
  BY <1>1 DEF RequestOK, Seen
<1>3. CASE a.op = "create" /\ pending[c][t] = NewThread(a)
  <2>1. NewThread(a) \in ThreadRow
    BY <1>1, CallFields DEF NewThread, ThreadRow
  <2>2. t = a.thread
    BY <1>2 DEF ThreadWrite
  <2>3. QED
    BY <1>1, <1>2, <1>3, <2>1, <2>2 DEF RequestOK
<1>4. CASE a.op \in Writing /\ pending[c][t] = Updated(table[t], r.row, ThreadObject(a, r.row))
  <2>1. t = a.thread
    BY <1>2 DEF ThreadWrite
  <2>2. r.row \in ThreadRow /\ table[t] \in ThreadRow
    BY <1>1, <1>4, <2>1 DEF RequestOK, Held, Loading, Writing
  <2>3. ThreadObject(a, r.row) \in ThreadRow /\ ThreadObject(a, r.row).owner = r.row.owner
    BY <1>1, <1>4, <2>2, ObjectOK
  <2>4. QED
    BY <1>1, <1>2, <1>4, <2>1, <2>2, <2>3, UpdatedThread
<1>5. QED
  BY <1>2, <1>3, <1>4 DEF ThreadWrite

\* ... and to a message.
LEMMA MessageAtCommit ==
  ASSUME ThreadsInv, NEW c \in Client, req[c].pc = "commit", NEW m \in Message,
         pending[c][m] # Keep
  PROVE  \/ /\ req[c].ask.op = "prune" /\ Seen(c, m) = Absent
            /\ table[m] \in MessageRow /\ table[m].thread = req[c].ask.thread
         \/ /\ req[c].ask.op = "upsert" /\ Seen(c, m) \in MessageRow
            /\ \/ req[c].msg = None /\ table[m] = Absent
                  /\ Seen(c, m).thread = req[c].ask.thread
               \/ /\ req[c].msg \in MessageRow /\ req[c].msg.thread = req[c].ask.thread
                  /\ table[m] \in MessageRow /\ Seen(c, m).thread = table[m].thread
<1>1. /\ MessageWrite(req[c], pending[c], table, m) /\ Seen(c, m) = pending[c][m]
      /\ StageOK(req[c])
  BY Facts DEF RequestOK, Seen
<1>2. QED
  BY <1>1, Distinct DEF MessageWrite, StageOK

LEMMA CommitKeeps ==
  ASSUME ThreadsInv, NEW c \in Client, Commit(c), req[c].pc = "commit",
         Step(c, [req[c] EXCEPT !.pc = "closed"]), overlapped' = overlapped
  PROVE  ThreadsInv'
<1> DEFINE after == [req[c] EXCEPT !.pc = "closed"]
<1>1. /\ SessionInv /\ TypeOK /\ req \in [Client -> Local] /\ overlapped \subseteq Thread
      /\ \A d \in Client : RequestOK(req[d], pending[d], table)
  BY Facts DEF ThreadsInv, ThreadsTypeOK
<1>2. SessionInv' /\ TypeOK'
  BY <1>1, SessionNext DEF Next, SessionInv
<1>3. /\ pending'[c] = NoWrites /\ \A d \in Client \ {c} : pending'[d] = pending[d]
      /\ table' = [x \in Row |-> Seen(c, x)]
  BY <1>1 DEF Commit, TypeOK
<1>4. /\ after \in Local /\ after.ask = req[c].ask /\ after.pc = "closed"
      /\ req'[c] = after /\ \A d \in Client \ {c} : req'[d] = req[d]
      /\ req' \in [Client -> Local]
  BY <1>1 DEF Local, Stage, Step
<1> HIDE DEF after
<1>5. \A x \in Row : pending[c][x] = Keep => table'[x] = table[x]
  BY <1>3 DEF Seen
<1>6. ASSUME NEW t \in Thread
      PROVE  /\ table'[t] \in ThreadRow \cup {Absent}
             /\ table[t] \in ThreadRow =>
                  table'[t] \in ThreadRow /\ table'[t].owner = table[t].owner
  <2>1. CASE pending[c][t] = Keep
    BY <1>5, <2>1, Facts, Distinct
  <2>2. CASE pending[c][t] # Keep
    BY <1>3, <2>2, ThreadAtCommit, Distinct
  <2>3. QED
    BY <2>1, <2>2
<1>7. ASSUME NEW m \in Message PROVE table'[m] \in MessageRow \cup {Absent}
  <2>1. CASE pending[c][m] = Keep
    BY <1>5, <2>1, Facts, Distinct
  <2>2. CASE pending[c][m] # Keep
    BY <1>3, <2>2, MessageAtCommit, Distinct
  <2>3. QED
    BY <2>1, <2>2
<1>8. ThreadsTypeOK'
  BY <1>1, <1>2, <1>4, <1>6, <1>7 DEF ThreadsTypeOK
<1>9. Fresh'
  <2>1. \A d \in Client : req'[d].ask = req[d].ask
    BY <1>4
  <2>2. QED
    BY <2>1 DEF ThreadsInv, Fresh
<1>10. RequestOK(after, NoWrites, table')
  <2>1. \A x \in Row : NoWrites[x] = Keep
    BY DEF NoWrites
  <2>2. StageOK(req[c])
    BY <1>1 DEF RequestOK
  <2>3. QED
    BY <1>4, <2>1, <2>2, Distinct DEF RequestOK, StageOK, Loading, MessageWrite, ThreadWrite
<1>11. ASSUME NEW d \in Client \ {c} PROVE RequestOK(req[d], pending[d], table')
  <2> DEFINE r == req[d]
             p == pending[d]
  <2>1. RequestOK(r, p, table) /\ (r.pc # "idle" => r.ask \in Call)
    BY <1>1 DEF RequestOK, StageOK
  <2>2. \A x \in Row : p[x] # Keep => table'[x] = table[x]
    BY <1>1, <1>5, SessionAssumption DEF SessionInv, WritesAreLocked
  <2>3. r.pc \in Loading /\ r.ask.op # "create" => Held(r, table')
    <3> SUFFICES ASSUME r.pc \in Loading, r.ask.op # "create" PROVE Held(r, table')
      OBVIOUS
    <3>1. Held(r, table) /\ r.ask.thread \in Thread
      BY <2>1, CallFields DEF RequestOK, Loading
    <3>2. QED
      BY <1>6, <3>1 DEF Held
  <2>4. r.pc \in {"flush", "commit"} /\ r.ask.op = "create" => table'[r.ask.thread] = Absent
    <3> SUFFICES ASSUME r.pc \in {"flush", "commit"}, r.ask.op = "create"
                 PROVE  table'[r.ask.thread] = Absent
      OBVIOUS
    <3> DEFINE t == r.ask.thread
    <3>1. table[t] = Absent /\ t \in Thread /\ r.ask \in Call
      BY <2>1, CallFields DEF RequestOK
    <3>2. ASSUME pending[c][t] # Keep PROVE FALSE
      <4>1. t = req[c].ask.thread /\ req[c].ask.op = "create"
        BY <3>1, <3>2, ThreadAtCommit, Distinct
      <4>2. req[c].ask \in Call
        BY <1>1 DEF RequestOK, StageOK
      <4>3. QED
        BY <3>1, <4>1, <4>2 DEF ThreadsInv, Fresh
    <3>3. QED
      BY <1>5, <3>1, <3>2, Distinct
  <2>5. ASSUME NEW m \in Message PROVE MessageWrite(r, p, table', m)
    <3>1. MessageWrite(r, p, table, m) /\ m \in Row
      BY <2>1, Distinct DEF RequestOK
    <3>2. QED
      BY <2>2, <3>1 DEF MessageWrite
  <2>6. ASSUME NEW t \in Thread PROVE ThreadWrite(r, p, table', t)
    <3>1. ThreadWrite(r, p, table, t) /\ t \in Row
      BY <2>1, Distinct DEF RequestOK
    <3>2. QED
      BY <2>2, <3>1 DEF ThreadWrite
  <2>7. QED
    BY <2>1, <2>3, <2>4, <2>5, <2>6 DEF RequestOK
<1>12. ASSUME NEW d \in Client PROVE RequestOK(req'[d], pending'[d], table')
  <2>1. CASE d = c
    BY <2>1, <1>3, <1>4, <1>10
  <2>2. CASE d # c
    BY <2>2, <1>3, <1>4, <1>11
  <2>3. QED
    BY <2>1, <2>2
<1>13. QED
  BY <1>2, <1>8, <1>9, <1>12 DEF ThreadsInv

LEMMA ReceiveKeeps ==
  ASSUME ThreadsInv, NEW c \in Client, Receive(c)
  PROVE  ThreadsInv'
<1> DEFINE r == req[c]
<1>1. /\ SessionInv /\ r \in Local /\ RequestOK(r, pending[c], table) /\ r.pc = "idle"
      /\ pending[c] = NoWrites /\ UNCHANGED vars /\ overlapped' = overlapped
      /\ overlapped \subseteq Thread /\ req \in [Client -> Local]
  BY Facts DEF Receive, At, RequestOK, ThreadsInv, ThreadsTypeOK
<1>2. PICK a \in Asked :
        /\ a.op = "create" =>
             /\ table[a.thread] = Absent
             /\ a.thread \notin {req[d].ask.thread : d \in {e \in Client : req[e].ask # None}}
        /\ Step(c, IF a.op = "create" THEN Flushing([r EXCEPT !.ask = a], {a.thread})
                   ELSE [[r EXCEPT !.ask = a] EXCEPT !.pc = "thread"])
  BY DEF Receive
<1>3. a \in Call /\ a.thread \in Thread /\ a.thread \in Row
  BY ThreadsAssumption, CallFields, Distinct
<1>4. \A x \in Row : pending[c][x] = Keep
  BY <1>1, Unwritten
<1> DEFINE base == [r EXCEPT !.ask = a]
           after == IF a.op = "create" THEN Flushing(base, {a.thread})
                    ELSE [base EXCEPT !.pc = "thread"]
<1>5. base \in Local /\ base.ask = a /\ base.msg = r.msg
  BY <1>1, <1>3 DEF Local
<1>6. /\ after \in Local /\ after.ask = a
      /\ a.op = "create" => after.pc \in {"flush", "commit"} /\ after.todo = {a.thread}
      /\ a.op # "create" => after.pc = "thread"
  <2>1. CASE a.op = "create"
    <3> DEFINE f == Flushing(base, {a.thread})
    <3>1. {a.thread} \in SUBSET Row
      BY <1>3
    <3> HIDE DEF base
    <3>2. /\ f \in Local /\ f.todo = {a.thread} /\ f.pc \in {"flush", "commit"}
          /\ f.ask = a
      BY <1>5, <3>1, FlushingFields
    <3>3. after = f
      BY <2>1
    <3> HIDE DEF f, after
    <3>4. QED
      BY <2>1, <3>2, <3>3
  <2>2. CASE a.op # "create"
    BY <1>5, <2>2 DEF Local, Stage
  <2>3. QED
    BY <2>1, <2>2
<1>7. Step(c, after)
  BY <1>2
<1> HIDE DEF after
<1>8. /\ req'[c] = after /\ \A d \in Client \ {c} : req'[d] = req[d]
      /\ req' \in [Client -> Local]
  BY <1>1, <1>6, <1>7 DEF Step
<1>9. SessionInv'
  BY <1>1, SessionNext
<1>10. ThreadsTypeOK'
  BY <1>1, <1>8, <1>9 DEF ThreadsInv, ThreadsTypeOK, SessionInv, vars
<1>11. RequestOK(after, pending[c], table)
  <2>1. /\ \A m \in Message : MessageWrite(after, pending[c], table, m)
        /\ \A t \in Thread : ThreadWrite(after, pending[c], table, t)
    BY <1>4, Distinct DEF MessageWrite, ThreadWrite
  <2>2. StageOK(after)
    BY <1>3, <1>6 DEF StageOK, Writing
  <2>3. CASE a.op = "create"
    BY <1>2, <1>3, <1>4, <1>6, <2>1, <2>2, <2>3 DEF RequestOK, Loading
  <2>4. CASE a.op # "create"
    BY <1>1, <1>6, <2>1, <2>2, <2>4 DEF RequestOK, Loading
  <2>5. QED
    BY <2>3, <2>4
<1>12. Fresh'
  <2>1. ASSUME NEW d \in Client \ {c}, a.op = "create", req[d].ask \in Call
        PROVE  req[d].ask.thread # a.thread
    BY <1>2, <2>1, ThreadsAssumption
  <2>2. QED
    BY <1>6, <1>8, <2>1 DEF ThreadsInv, Fresh
<1>13. ASSUME NEW d \in Client PROVE RequestOK(req'[d], pending'[d], table')
  <2>1. pending' = pending /\ table' = table
    BY <1>1 DEF vars
  <2>2. CASE d = c
    BY <2>1, <2>2, <1>8, <1>11
  <2>3. CASE d # c
    BY <2>1, <2>3, <1>8 DEF ThreadsInv
  <2>4. QED
    BY <2>2, <2>3
<1>14. QED
  BY <1>9, <1>10, <1>12, <1>13 DEF ThreadsInv

LEMMA ThreadsStep == ThreadsInv /\ [ThreadsNext]_threadVars => ThreadsInv'
<1> SUFFICES ASSUME ThreadsInv, [ThreadsNext]_threadVars PROVE ThreadsInv'
  OBVIOUS
<1>1. CASE UNCHANGED threadVars
  <2>1. /\ SessionInv' /\ req' = req /\ pending' = pending /\ table' = table
        /\ overlapped' = overlapped
    BY <1>1, SessionNext DEF threadVars, vars, ThreadsInv
  <2>2. ThreadsTypeOK' /\ Fresh'
    BY <2>1 DEF ThreadsInv, ThreadsTypeOK, SessionInv, Fresh
  <2>3. QED
    BY <2>1, <2>2 DEF ThreadsInv
<1>2. ASSUME NEW c \in Client, Receive(c) PROVE ThreadsInv'
  BY <1>2, ReceiveKeeps
<1>3. ASSUME NEW c \in Client, GetThread(c) PROVE ThreadsInv'
  BY <1>3, GetThreadKeeps
<1>4. ASSUME NEW c \in Client, GetThreadAgain(c) PROVE ThreadsInv'
  BY <1>4, GetThreadAgainKeeps
<1>5. ASSUME NEW c \in Client, GetMessage(c) PROVE ThreadsInv'
  BY <1>5, GetMessageKeeps
<1>6. ASSUME NEW c \in Client, StartDelete(c) PROVE ThreadsInv'
  BY <1>6, StartDeleteKeeps
<1>7. ASSUME NEW c \in Client, Deleted(c) PROVE ThreadsInv'
  BY <1>7, DeletedKeeps
<1>8. ASSUME NEW c \in Client, SelectMessages(c) PROVE ThreadsInv'
  BY <1>8, SelectKeeps
<1>9. ASSUME NEW c \in Client, NEW m \in Message, DeleteRow(c, m) PROVE ThreadsInv'
  BY <1>9, DeleteRowKeeps
<1>10. ASSUME NEW c \in Client, NEW x \in Row, FlushRow(c, x) PROVE ThreadsInv'
  BY <1>10, FlushRowKeeps
<1>11. ASSUME NEW c \in Client, Fault(c) PROVE ThreadsInv'
  BY <1>11, FaultKeeps
<1>12. ASSUME NEW c \in Client, Raised(c) PROVE ThreadsInv'
  BY <1>12, RolledBack DEF Raised, At
<1>13. ASSUME NEW c \in Client, CommitRequest(c) PROVE ThreadsInv'
  BY <1>13, CommitKeeps, RolledBack DEF CommitRequest, At
<1>14. QED
  BY <1>1, <1>2, <1>3, <1>4, <1>5, <1>6, <1>7, <1>8, <1>9, <1>10, <1>11, <1>12, <1>13
  DEF ThreadsNext, AllClosed

\* Every step of a request is a step of a database session, or leaves the
\* database alone.
LEMMA RequestIsSession == ThreadsInv /\ [ThreadsNext]_threadVars => [Next]_vars
<1> SUFFICES ASSUME ThreadsInv, [ThreadsNext]_threadVars PROVE [Next]_vars
  OBVIOUS
<1>1. CASE UNCHANGED threadVars
  BY <1>1 DEF threadVars
<1>2. ASSUME NEW c \in Client,
             \/ Receive(c) \/ GetThread(c) \/ GetThreadAgain(c) \/ GetMessage(c)
             \/ StartDelete(c) \/ Deleted(c) \/ SelectMessages(c)
      PROVE  [Next]_vars
  BY <1>2 DEF Receive, GetThread, GetThreadAgain, GetMessage, StartDelete, Deleted,
     SelectMessages
<1>3. ASSUME NEW c \in Client, NEW m \in Message, DeleteRow(c, m) PROVE [Next]_vars
  BY <1>3, Distinct DEF DeleteRow, Next
<1>4. ASSUME NEW c \in Client, NEW x \in Row, FlushRow(c, x) PROVE [Next]_vars
  <2> DEFINE base == IF Seen(c, x) = Absent THEN req[c].msg ELSE Seen(c, x)
             v == Flushed(req[c], x, base)
  <2>1. /\ req[c].pc = "flush" /\ x \in req[c].todo /\ RequestOK(req[c], pending[c], table)
        /\ \/ Fail(c)
           \/ ~Refused(req[c], x, Seen(c, x)) /\ Write(c, x, v)
    BY <1>4, Facts DEF FlushRow, At
  <2> HIDE DEF v
  <2>2. Seen(c, x) = table[x]
    BY <2>1, SeenCommitted DEF RequestOK
  <2>3. CASE Fail(c)
    BY <2>3 DEF Next
  <2>4. CASE ~Refused(req[c], x, Seen(c, x)) /\ Write(c, x, v)
    <3>1. v \in ThreadRow \cup MessageRow
      BY <2>1, <2>2, <2>4, Written DEF v
    <3>2. v \in Value
      BY <3>1, ThreadsAssumption
    <3>3. QED
      BY <2>4, <3>2 DEF Next
  <2>5. QED
    BY <2>1, <2>3, <2>4
<1>5. ASSUME NEW c \in Client, Fault(c) \/ Raised(c) \/ CommitRequest(c) PROVE [Next]_vars
  BY <1>5 DEF Fault, Raised, CommitRequest, Next
<1>6. QED
  BY <1>1, <1>2, <1>3, <1>4, <1>5 DEF ThreadsNext, AllClosed

\* The requests use the database as module Sessions says, whatever the tables
\* hold when they start: the model of the endpoints makes no step of its own on
\* the tables, the locks or the transactions (app/deps.py get_session).
THEOREM RequestsUseSessions == ThreadsSpec => [][Next]_vars
  BY ThreadsStart, ThreadsStep, RequestIsSession, PTL DEF ThreadsSpec

\* Only a commit changes a committed row, one that the request has written and
\* holds the lock of.
LEMMA Changes ==
  ASSUME ThreadsInv, ThreadsNext, NEW x \in Row, table'[x] # table[x]
  PROVE  \E c \in Client : /\ req[c].pc = "commit" /\ lock[x] = c
                           /\ pending[c][x] # Keep /\ table'[x] = Seen(c, x)
<1>1. PICK c \in Client : CommitRequest(c)
  BY DEF ThreadsNext, Receive, GetThread, GetThreadAgain, GetMessage, StartDelete, Deleted,
     SelectMessages, DeleteRow, FlushRow, Fault, Raised, AllClosed, Fail, Rollback, Write,
     threadVars, vars
<1>2. Commit(c) /\ req[c].pc = "commit"
  BY <1>1 DEF CommitRequest, Rollback, At
<1>3. table'[x] = Seen(c, x) /\ pending[c][x] # Keep
  BY <1>2 DEF Commit, Seen
<1>4. lock[x] = c
  BY <1>3, Facts DEF SessionInv, WritesAreLocked
<1>5. QED
  BY <1>2, <1>3, <1>4

\* Type correctness of the threads' and the requests' state, for any number of
\* requests, users, threads and messages.
THEOREM ThreadsTypeCorrect == ThreadsSpec => []ThreadsTypeOK
<1>1. ThreadsInv => ThreadsTypeOK
  BY DEF ThreadsInv
<1>2. QED
  BY <1>1, ThreadsStart, ThreadsStep, PTL DEF ThreadsSpec

\* A request changes messages of its own user's thread only; the one exception
\* is an id that was deleted and used again after the request had loaded it
\* (service.upsert_message, delete_messages).
THEOREM EditsAreConfined == ThreadsSpec => EditsStayInThread
<1> DEFINE Confined(m, c) ==
      LET a == req[c].ask
      IN /\ lock[m] = c
         /\ table[a.thread].owner = a.user
         /\ table'[m] # Absent /\ table[m] = Absent => table'[m].thread = a.thread
         /\ table[m] # Absent =>
              \/ table[m].thread = a.thread
              \/ req[c].msg # None /\ req[c].msg.thread = a.thread
         /\ table[m] # Absent /\ table'[m] # Absent =>
              table'[m].thread = table[m].thread
<1>1. ASSUME ThreadsInv, ThreadsNext, NEW m \in Message, table'[m] # table[m]
      PROVE  \E c \in Client : Confined(m, c)
  <2>1. PICK c \in Client : /\ req[c].pc = "commit" /\ lock[m] = c
                            /\ pending[c][m] # Keep /\ table'[m] = Seen(c, m)
    BY <1>1, Changes, Distinct
  <2>2. RequestOK(req[c], pending[c], table)
    BY <1>1, Facts
  <2>3. req[c].ask.op \in {"prune", "upsert"}
    BY <2>1, <1>1, MessageAtCommit
  <2>4. table[req[c].ask.thread].owner = req[c].ask.user
    BY <2>1, <2>2, <2>3 DEF RequestOK, Held, Loading
  <2>5. QED
    BY <1>1, <2>1, <2>4, MessageAtCommit, Distinct
<1>2. ASSUME ThreadsInv, [ThreadsNext]_threadVars
      PROVE  [\A m \in Message : table'[m] # table[m] => \E c \in Client : Confined(m, c)]_threadVars
  BY <1>1, <1>2
<1>3. QED
  BY <1>2, ThreadsStart, ThreadsStep, PTL DEF ThreadsSpec, EditsStayInThread

\* Renaming, archiving, deleting and moving the head of one thread at once do
\* not undo each other (service.update_thread, delete_thread, upsert_message,
\* delete_messages).
THEOREM ColumnsAreKept == ThreadsSpec => ColumnsSurvive
<1> DEFINE Kept(t, k) ==
      LET c == lock[t]
      IN  table'[t][k] = ThreadObject(req[c].ask, req[c].row)[k] /\ table'[t][k] # req[c].row[k]
<1>1. ASSUME ThreadsInv, ThreadsNext, NEW t \in Thread, table[t] # Absent,
             NEW k \in {"owner", "head", "title", "status", "deleted"},
             table'[t][k] # table[t][k]
      PROVE  Kept(t, k)
  <2>1. PICK c \in Client : /\ req[c].pc = "commit" /\ lock[t] = c
                            /\ pending[c][t] # Keep /\ table'[t] = Seen(c, t)
    BY <1>1, Changes, Distinct
  <2> DEFINE obj == ThreadObject(req[c].ask, req[c].row)
  <2>2. /\ req[c].ask \in Call /\ req[c].ask.op \in Writing
        /\ table[t] \in ThreadRow /\ req[c].row \in ThreadRow
        /\ table'[t] = Updated(table[t], req[c].row, obj)
    BY <1>1, <2>1, ThreadAtCommit
  <2>3. obj \in ThreadRow /\ obj.owner = req[c].row.owner
    BY <2>2, ObjectOK
  <2> HIDE DEF obj
  <2>4. table'[t][k] = obj[k] /\ obj[k] # req[c].row[k]
    BY <1>1, <2>2, <2>3, UpdatedThread
  <2>5. QED
    BY <2>1, <2>4 DEF obj
<1>2. ASSUME ThreadsInv, [ThreadsNext]_threadVars
      PROVE  [\A t \in Thread : table[t] # Absent =>
                \A k \in {"owner", "head", "title", "status", "deleted"} :
                  table'[t][k] # table[t][k] => Kept(t, k)]_threadVars
  BY <1>1, <1>2
<1>3. QED
  BY <1>2, ThreadsStart, ThreadsStep, PTL DEF ThreadsSpec, ColumnsSurvive

\* An edit that crosses the deletion of its message does not bring it back
\* (service.upsert_message).
THEOREM DeletionsLast == ThreadsSpec => NothingComesBack
<1>1. ASSUME ThreadsInv, ThreadsNext, NEW m \in Message, table[m] = Absent, table'[m] # Absent
      PROVE  req[lock[m]].ask.op = "upsert" /\ req[lock[m]].msg = None
  <2>1. PICK c \in Client : /\ req[c].pc = "commit" /\ lock[m] = c
                            /\ pending[c][m] # Keep /\ table'[m] = Seen(c, m)
    BY <1>1, Changes, Distinct
  <2>2. QED
    BY <1>1, <2>1, MessageAtCommit, Distinct
<1>2. ASSUME ThreadsInv, [ThreadsNext]_threadVars
      PROVE  [\A m \in Message : table[m] = Absent /\ table'[m] # Absent =>
                req[lock[m]].ask.op = "upsert" /\ req[lock[m]].msg = None]_threadVars
  BY <1>1, <1>2
<1>3. QED
  BY <1>2, ThreadsStart, ThreadsStep, PTL DEF ThreadsSpec, NothingComesBack

-----------------------------------------------------------------------------
\* Heads: two requests that have loaded the same thread have overlapped ...
Alone ==
  \A c, d \in Client :
    /\ c # d /\ req[c].pc \in Loading /\ req[d].pc \in Loading
    /\ req[c].ask.op # "create" /\ req[d].ask.op # "create"
    /\ req[c].ask.thread = req[d].ask.thread
    => req[c].ask.thread \in overlapped

\* ... so a request that has not finds its thread and its message as it loaded
\* them, and its writes, when they are complete, move the head to a message
\* that exists, or away from one that goes.
Undisturbed(r, tab) ==
  /\ r.ask.op # "create" => tab[r.ask.thread] = r.row
  /\ r.pc \in {"flush", "commit"} /\ r.ask.op = "upsert" /\ r.msg # None =>
       tab[r.ask.id] \in MessageRow /\ tab[r.ask.id].thread = r.ask.thread

Complete(r, p) ==
  /\ r.pc \in {"flush", "commit"} /\ r.ask.op = "upsert" =>
       r.ask.id \in r.todo \/ p[r.ask.id] # Keep \/ r.msg # None
  /\ r.pc \in {"flush", "commit"} /\ r.ask.op = "prune" /\ r.row.head \in r.ask.ids =>
       r.ask.thread \in r.todo \/ p[r.ask.thread] # Keep
  /\ r.pc = "commit" /\ r.ask.op \in {"upsert", "prune"} => r.todo = {}
  /\ r.ask.op = "prune" =>
       /\ r.pc = "deleting" => r.todo \subseteq r.ask.ids
       /\ \A m \in Message : p[m] = Absent => m \in r.ask.ids

Tidy(r, p, tab, over) ==
  r.pc \in Loading => /\ r.ask.thread \notin over => Undisturbed(r, tab)
                      /\ Complete(r, p)

HeadInv ==
  /\ Alone /\ HeadsExist
  /\ \A c \in Client : Tidy(req[c], pending[c], table, overlapped)

LEMMA HeadStart == ThreadsInit => HeadInv
<1> SUFFICES ASSUME ThreadsInit PROVE HeadInv
  OBVIOUS
<1>1. \A c \in Client : req[c].pc = "idle"
  BY DEF ThreadsInit
<1>2. Alone /\ \A c \in Client : Tidy(req[c], pending[c], table, overlapped)
  BY <1>1 DEF Alone, Tidy, Loading
<1>3. WellFormed(table)
  BY StartAssumption DEF ThreadsInit
<1>4. HeadsExist
  BY <1>3 DEF HeadsExist, WellFormed
<1>5. QED
  BY <1>2, <1>4 DEF HeadInv

\* A step of request c that commits nothing: it has loaded its thread before,
\* or loads it now and overlaps with whoever has.
LEMMA HeadLocal ==
  ASSUME ThreadsInv, HeadInv, NEW c \in Client, NEW r, Step(c, r),
         table' = table, \A d \in Client \ {c} : pending'[d] = pending[d],
         overlapped \subseteq overlapped',
         r.pc \in Loading /\ r.ask.op # "create" =>
           \/ req[c].pc \in Loading /\ r.ask = req[c].ask
           \/ \A d \in Client \ {c} :
                req[d].pc \in Loading /\ req[d].ask.thread = r.ask.thread =>
                  r.ask.thread \in overlapped',
         Tidy(r, pending'[c], table, overlapped')
  PROVE  HeadInv'
<1>1. req'[c] = r /\ \A d \in Client \ {c} : req'[d] = req[d]
  BY DEF ThreadsInv, ThreadsTypeOK, Step
<1>2. Alone'
  <2> SUFFICES ASSUME NEW d \in Client, NEW e \in Client, d # e,
                      req'[d].pc \in Loading, req'[e].pc \in Loading,
                      req'[d].ask.op # "create", req'[e].ask.op # "create",
                      req'[d].ask.thread = req'[e].ask.thread
               PROVE  req'[d].ask.thread \in overlapped'
    BY DEF Alone
  <2>1. CASE d # c /\ e # c
    BY <1>1, <2>1 DEF HeadInv, Alone
  <2>2. CASE d = c
    <3>1. r.pc \in Loading /\ r.ask.op # "create" /\ req'[e] = req[e]
      BY <1>1, <2>2
    <3>2. CASE req[c].pc \in Loading /\ r.ask = req[c].ask
      BY <1>1, <2>2, <3>1, <3>2 DEF HeadInv, Alone
    <3>3. QED
      BY <1>1, <2>2, <3>1, <3>2
  <2>3. CASE e = c
    <3>1. r.pc \in Loading /\ r.ask.op # "create" /\ req'[d] = req[d]
      BY <1>1, <2>3
    <3>2. CASE req[c].pc \in Loading /\ r.ask = req[c].ask
      BY <1>1, <2>3, <3>1, <3>2 DEF HeadInv, Alone
    <3>3. QED
      BY <1>1, <2>3, <3>1, <3>2
  <2>4. QED
    BY <2>1, <2>2, <2>3
<1>3. HeadsExist'
  BY DEF HeadInv, HeadsExist
<1>4. ASSUME NEW d \in Client PROVE Tidy(req'[d], pending'[d], table', overlapped')
  <2>1. CASE d = c
    BY <1>1, <2>1
  <2>2. CASE d # c
    <3>1. Tidy(req[d], pending[d], table, overlapped)
      BY DEF HeadInv
    <3>2. Tidy(req[d], pending[d], table, overlapped')
      BY <3>1 DEF Tidy
    <3>3. QED
      BY <1>1, <2>2, <3>2
  <2>3. QED
    BY <2>1, <2>2
<1>5. QED
  BY <1>2, <1>3, <1>4 DEF HeadInv

\* A request that writes no message and deletes none, or that has loaded
\* nothing, has nothing to keep but the thread it loaded.
LEMMA TidyReader ==
  ASSUME NEW r, NEW p, NEW tab, NEW over,
         r.pc \in Loading => /\ r.ask.op \notin {"upsert", "prune"}
                             /\ r.ask.op # "create" /\ r.ask.thread \notin over =>
                                  tab[r.ask.thread] = r.row
  PROVE  Tidy(r, p, tab, over)
  BY DEF Tidy, Undisturbed, Complete

LEMMA HeadReceive ==
  ASSUME ThreadsInv, HeadInv, NEW c \in Client, Receive(c)
  PROVE  HeadInv'
<1> DEFINE r == req[c]
<1>1. PICK a \in Asked :
        Step(c, IF a.op = "create" THEN Flushing([r EXCEPT !.ask = a], {a.thread})
                ELSE [[r EXCEPT !.ask = a] EXCEPT !.pc = "thread"])
  BY DEF Receive
<1> DEFINE base == [r EXCEPT !.ask = a]
           after == IF a.op = "create" THEN Flushing(base, {a.thread})
                    ELSE [base EXCEPT !.pc = "thread"]
<1>2. a \in Call /\ r \in Local /\ UNCHANGED vars /\ overlapped' = overlapped
  BY ThreadsAssumption, Facts DEF Receive
<1>3. /\ a.op = "create" => after.ask.op = "create"
      /\ a.op # "create" => after.pc = "thread"
  BY <1>2 DEF Flushing, Local
<1>4. Step(c, after)
  BY <1>1
<1> HIDE DEF after
<1>5. after.pc \in Loading => after.ask.op = "create"
  BY <1>3 DEF Loading
<1>6. Tidy(after, pending'[c], table, overlapped')
  BY <1>5, TidyReader
<1>7. QED
  BY <1>2, <1>4, <1>5, <1>6, HeadLocal DEF vars

LEMMA HeadGetThread ==
  ASSUME ThreadsInv, HeadInv, NEW c \in Client, GetThread(c)
  PROVE  HeadInv'
<1> DEFINE r == req[c]
           a == req[c].ask
           cur == table[req[c].ask.thread]
           loaded == [r EXCEPT !.row = cur]
           after == IF Visible(a, cur) THEN Loaded(loaded) ELSE [r EXCEPT !.pc = "raised"]
<1>1. /\ r \in Local /\ r.pc = "thread" /\ a \in Call /\ a.op # "create"
      /\ pending[c] = NoWrites /\ UNCHANGED vars
  BY Facts DEF GetThread, At, RequestOK, StageOK
<1>2. a.thread \in Thread /\ a.thread \in Row
  BY <1>1, CallFields, Distinct
<1>3. Seen(c, a.thread) = cur /\ \A x \in Row : pending[c][x] = Keep
  BY <1>1, <1>2, Unwritten
<1>4. Step(c, after)
  BY <1>3 DEF GetThread
<1>5. /\ overlapped \subseteq overlapped'
      /\ \A d \in Client \ {c} : Working(d) /\ req[d].ask.thread = a.thread =>
           a.thread \in overlapped'
  BY DEF GetThread
<1>6. \A d \in Client : req[d].pc \in Loading => Working(d)
  BY DEF Working, Loading
<1>7. CASE ~Visible(a, cur)
  <2>1. after.pc = "raised"
    BY <1>1, <1>7 DEF Local
  <2> HIDE DEF after
  <2>2. after.pc \notin Loading
    BY <2>1 DEF Loading
  <2>3. Tidy(after, pending'[c], table, overlapped')
    BY <2>2, TidyReader
  <2>4. QED
    BY <1>1, <1>4, <1>5, <2>2, <2>3, HeadLocal DEF vars
<1>8. CASE Visible(a, cur)
  <2>1. after = Loaded(loaded)
    BY <1>8
  <2>2. cur \in ThreadRow
    BY <1>1, <1>2, <1>8, Facts DEF Visible
  <2>3. /\ loaded \in Local /\ loaded.ask = a /\ loaded.row = cur
    BY <1>1, <2>2 DEF Local
  <2> HIDE DEF loaded
  <2>4. /\ after.ask = a /\ after.row = cur
        /\ a.op = "upsert" => after.pc = "get"
        /\ a.op = "prune" => after.pc \in {"delete", "commit"} /\ after.todo = {}
        /\ a.op = "prune" /\ after.pc = "commit" => a.ids = {}
    <3>1. CASE a.op \in {"patch", "delete"}
      <4>1. after = Flushing(loaded, Dirty(a, cur))
        BY <2>1, <2>3, <3>1 DEF Loaded
      <4>2. Dirty(a, cur) \in SUBSET Row
        BY <1>2 DEF Dirty
      <4> DEFINE f == Flushing(loaded, Dirty(a, cur))
      <4>3. f.ask = a /\ f.row = cur
        BY <2>3, <4>2, FlushingFields
      <4> HIDE DEF f
      <4>4. QED
        BY <3>1, <4>1, <4>3 DEF f
    <3>2. CASE a.op = "upsert"
      BY <2>1, <2>3, <3>2 DEF Loaded, Local
    <3>3. CASE a.op = "prune"
      BY <2>1, <2>3, <3>3 DEF Loaded, Local
    <3>4. CASE a.op = "messages"
      BY <2>1, <2>3, <3>4 DEF Loaded, Local
    <3>5. CASE a.op = "export"
      BY <2>1, <2>3, <3>5 DEF Loaded, Local
    <3>6. QED
      BY <1>1, <3>1, <3>2, <3>3, <3>4, <3>5, CallFields DEF Writing
  <2> HIDE DEF after
  <2>5. Undisturbed(after, table)
    BY <2>4 DEF Undisturbed
  <2>6. Complete(after, pending[c])
    BY <1>3, <2>4, Distinct DEF Complete
  <2>7. Tidy(after, pending'[c], table, overlapped')
    BY <1>1, <2>5, <2>6 DEF Tidy, vars
  <2>8. \A d \in Client \ {c} :
          req[d].pc \in Loading /\ req[d].ask.thread = after.ask.thread =>
            after.ask.thread \in overlapped'
    BY <1>5, <1>6, <2>4
  <2>9. QED
    BY <1>1, <1>4, <1>5, <2>7, <2>8, HeadLocal DEF vars
<1>9. QED
  BY <1>7, <1>8

LEMMA HeadGetThreadAgain ==
  ASSUME ThreadsInv, HeadInv, NEW c \in Client, GetThreadAgain(c)
  PROVE  HeadInv'
<1> DEFINE r == req[c]
<1>1. /\ r \in Local /\ r.pc = "again" /\ r.ask.op \in {"messages", "export"}
      /\ UNCHANGED vars /\ overlapped' = overlapped
  BY Facts DEF GetThreadAgain, At, RequestOK, StageOK
<1>2. PICK pc \in {"select", "raised"} : Step(c, [r EXCEPT !.pc = pc])
  BY DEF GetThreadAgain
<1> DEFINE after == [r EXCEPT !.pc = pc]
<1>3. after.ask = r.ask /\ after.row = r.row
  BY <1>1 DEF Local
<1> HIDE DEF after
<1>4. r.pc \in Loading /\ Tidy(r, pending[c], table, overlapped)
  BY <1>1 DEF HeadInv, Loading
<1>5. Tidy(after, pending'[c], table, overlapped')
  BY <1>1, <1>3, <1>4, TidyReader DEF Tidy, Undisturbed
<1>6. QED
  BY <1>1, <1>2, <1>3, <1>4, <1>5, HeadLocal DEF vars, after

LEMMA HeadSelect ==
  ASSUME ThreadsInv, HeadInv, NEW c \in Client, SelectMessages(c)
  PROVE  HeadInv'
<1> DEFINE r == req[c]
           after == [r EXCEPT !.pc = "commit"]
<1>1. /\ r \in Local /\ r.pc = "select" /\ r.ask.op \in {"messages", "export"}
      /\ UNCHANGED vars /\ overlapped' = overlapped /\ Step(c, after)
  BY Facts DEF SelectMessages, At, RequestOK, StageOK
<1>2. after.ask = r.ask /\ after.row = r.row
  BY <1>1 DEF Local
<1> HIDE DEF after
<1>3. r.pc \in Loading /\ Tidy(r, pending[c], table, overlapped)
  BY <1>1 DEF HeadInv, Loading
<1>4. Tidy(after, pending'[c], table, overlapped')
  BY <1>1, <1>2, <1>3, TidyReader DEF Tidy, Undisturbed
<1>5. QED
  BY <1>1, <1>2, <1>3, <1>4, HeadLocal DEF vars

\* A message that is to be inserted will be written, one to be updated is ours.
LEMMA HeadGetMessage ==
  ASSUME ThreadsInv, HeadInv, NEW c \in Client, GetMessage(c)
  PROVE  HeadInv'
<1> DEFINE r == req[c]
           a == req[c].ask
           msg == table[req[c].ask.id]
<1>1. /\ r \in Local /\ r.pc = "get" /\ a \in Call /\ a.op = "upsert"
      /\ pending[c] = NoWrites /\ UNCHANGED vars /\ overlapped' = overlapped
  BY Facts DEF GetMessage, At, RequestOK, StageOK
<1>2. a.thread \in Row /\ a.id \in Message /\ a.id \in Row
  BY <1>1, CallFields, Distinct
<1>3. Seen(c, a.id) = msg /\ msg \in MessageRow \cup {Absent}
  BY <1>1, <1>2, Unwritten, Facts
<1>4. r.pc \in Loading /\ Tidy(r, pending[c], table, overlapped)
  BY <1>1 DEF HeadInv, Loading
<1>5. CASE msg # Absent /\ ~Ours(a, msg)
  <2> DEFINE after == [r EXCEPT !.pc = "raised"]
  <2>1. Step(c, after)
    BY <1>3, <1>5 DEF GetMessage
  <2>2. after.pc = "raised"
    BY <1>1 DEF Local
  <2> HIDE DEF after
  <2>3. after.pc \notin Loading
    BY <2>2 DEF Loading
  <2>4. Tidy(after, pending'[c], table, overlapped')
    BY <2>3, TidyReader
  <2>5. QED
    BY <1>1, <2>1, <2>3, <2>4, HeadLocal DEF vars
<1>6. CASE ~(msg # Absent /\ ~Ours(a, msg))
  <2> DEFINE found == IF msg = Absent THEN None ELSE msg
             base == [r EXCEPT !.msg = found]
             rows == (IF msg # Absent /\ MessageObject(a, msg) = msg THEN {} ELSE {a.id})
                       \cup Dirty(a, r.row)
             after == Flushing(base, rows)
  <2>1. Step(c, after)
    BY <1>3, <1>6 DEF GetMessage
  <2>2. /\ found # None => msg \in MessageRow /\ msg.thread = a.thread
        /\ found = None => a.id \in rows
    BY <1>3, <1>6, Distinct DEF Ours
  <2>3. base \in Local /\ base.ask = a /\ base.row = r.row /\ base.msg = found
    BY <1>1, <1>3 DEF Local
  <2>4. rows \in SUBSET Row
    BY <1>2 DEF Dirty
  <2>5. rows # {}
    BY <1>1 DEF Dirty
  <2> HIDE DEF base, rows, found
  <2>6. /\ after.todo = rows /\ after.ask = a /\ after.row = r.row /\ after.msg = found
    BY <2>3, <2>4, FlushingFields
  <2>7. after.pc = "flush"
    BY <2>3, <2>5 DEF Flushing, Local
  <2> HIDE DEF after
  <2>8. Complete(after, pending[c])
    BY <1>1, <2>2, <2>6, <2>7 DEF Complete
  <2>9. a.thread \notin overlapped => Undisturbed(after, table)
    BY <1>1, <1>4, <2>2, <2>6 DEF Undisturbed, Tidy
  <2>10. Tidy(after, pending'[c], table, overlapped')
    BY <1>1, <2>6, <2>8, <2>9 DEF Tidy, vars
  <2>11. QED
    BY <1>1, <1>4, <2>1, <2>6, <2>10, HeadLocal DEF vars
<1>7. QED
  BY <1>5, <1>6

LEMMA HeadStartDelete ==
  ASSUME ThreadsInv, HeadInv, NEW c \in Client, StartDelete(c)
  PROVE  HeadInv'
<1> DEFINE r == req[c]
           rows == {m \in r.ask.ids : Ours(r.ask, Seen(c, m))}
           after == [r EXCEPT !.pc = "deleting", !.todo = rows]
<1>1. /\ r \in Local /\ r.pc = "delete" /\ r.ask.op = "prune"
      /\ UNCHANGED vars /\ overlapped' = overlapped /\ Step(c, after)
  BY Facts DEF StartDelete, At, RequestOK, StageOK
<1>2. rows \subseteq r.ask.ids
  OBVIOUS
<1> HIDE DEF rows
<1>3. after.ask = r.ask /\ after.row = r.row /\ after.todo = rows /\ after.pc = "deleting"
  BY <1>1 DEF Local
<1> HIDE DEF after
<1>4. r.pc \in Loading /\ Tidy(r, pending[c], table, overlapped)
  BY <1>1 DEF HeadInv, Loading
<1>5. Complete(after, pending[c])
  BY <1>1, <1>2, <1>3, <1>4 DEF Tidy, Complete
<1>6. Tidy(after, pending'[c], table, overlapped')
  BY <1>1, <1>3, <1>4, <1>5 DEF Tidy, Undisturbed, vars
<1>7. QED
  BY <1>1, <1>3, <1>4, <1>6, HeadLocal DEF vars

LEMMA HeadDeleteRow ==
  ASSUME ThreadsInv, HeadInv, NEW c \in Client, NEW m \in Message, DeleteRow(c, m)
  PROVE  HeadInv'
<1> DEFINE r == req[c]
           after == [r EXCEPT !.todo = @ \ {m}]
<1>1. /\ TypeOK /\ r \in Local /\ r.pc = "deleting" /\ r.ask.op = "prune"
      /\ m \in r.todo /\ m \in Row /\ overlapped' = overlapped /\ Step(c, after)
  BY Facts, Distinct DEF DeleteRow, At, RequestOK, StageOK
<1>2. /\ after.ask = r.ask /\ after.row = r.row /\ after.pc = "deleting"
      /\ after.todo = r.todo \ {m}
  BY <1>1 DEF Local
<1> HIDE DEF after
<1>3. r.pc \in Loading /\ Tidy(r, pending[c], table, overlapped)
  BY <1>1 DEF HeadInv, Loading
<1>4. /\ table' = table /\ \A d \in Client \ {c} : pending'[d] = pending[d]
      /\ \A x \in Row \ {m} : pending'[c][x] = pending[c][x]
  BY <1>1 DEF DeleteRow, Write, TypeOK, vars
<1>5. \A x \in Message : pending'[c][x] = Absent => x \in r.ask.ids
  BY <1>1, <1>3, <1>4, Distinct DEF Tidy, Complete
<1>6. Complete(after, pending'[c])
  BY <1>1, <1>2, <1>3, <1>5 DEF Tidy, Complete
<1>7. Tidy(after, pending'[c], table, overlapped')
  BY <1>1, <1>2, <1>3, <1>6 DEF Tidy, Undisturbed
<1>8. QED
  BY <1>1, <1>2, <1>3, <1>4, <1>7, HeadLocal

\* The head that was loaded is among the rows to write if its message goes.
LEMMA HeadDeleted ==
  ASSUME ThreadsInv, HeadInv, NEW c \in Client, Deleted(c)
  PROVE  HeadInv'
<1> DEFINE r == req[c]
           a == req[c].ask
           rows == Dirty(a, r.row)
           after == Flushing(r, rows)
<1>1. /\ r \in Local /\ r.pc = "deleting" /\ a \in Call /\ a.op = "prune"
      /\ UNCHANGED vars /\ overlapped' = overlapped /\ Step(c, after)
      /\ RequestOK(r, pending[c], table)
  BY Facts DEF Deleted, At, RequestOK, StageOK
<1>2. a.thread \in Row /\ r.row \in ThreadRow /\ a.ids \subseteq Message
  BY <1>1, CallFields, Distinct DEF RequestOK, Held, Loading
<1>3. rows \in SUBSET Row
  BY <1>2 DEF Dirty
<1>4. r.row.head \in a.ids => a.thread \in rows
  <2> SUFFICES ASSUME r.row.head \in a.ids PROVE a.thread \in rows
    OBVIOUS
  <2>1. ThreadObject(a, r.row) = [r.row EXCEPT !.head = None]
    BY <1>1 DEF ThreadObject, Pruned
  <2>2. ThreadObject(a, r.row).head = None /\ r.row.head # None
    BY <1>2, <2>1, ThreadsAssumption DEF ThreadRow
  <2>3. QED
    BY <2>2 DEF Dirty
<1>5. rows = {} => after.pc = "commit"
  BY <1>1 DEF Flushing, Local
<1>6. rows # {} => after.pc = "flush"
  BY <1>1 DEF Flushing, Local
<1> HIDE DEF rows
<1>7. after.todo = rows /\ after.ask = a /\ after.row = r.row
  BY <1>1, <1>3, FlushingFields
<1> HIDE DEF after
<1>8. r.pc \in Loading /\ Tidy(r, pending[c], table, overlapped)
  BY <1>1 DEF HeadInv, Loading
<1>9. Complete(after, pending[c])
  BY <1>1, <1>4, <1>5, <1>6, <1>7, <1>8 DEF Tidy, Complete
<1>10. Tidy(after, pending'[c], table, overlapped')
  BY <1>1, <1>7, <1>8, <1>9 DEF Tidy, Undisturbed, vars
<1>11. QED
  BY <1>1, <1>7, <1>8, <1>10, HeadLocal DEF vars

\* An error ends what the request had loaded.
LEMMA HeadEmpty ==
  ASSUME ThreadsInv, HeadInv, NEW c \in Client, NEW pc \in {"raised", "closed"},
         Step(c, [req[c] EXCEPT !.pc = pc]), table' = table,
         pending' = [pending EXCEPT ![c] = NoWrites], overlapped' = overlapped
  PROVE  HeadInv'
<1> DEFINE after == [req[c] EXCEPT !.pc = pc]
<1>1. after.pc = pc /\ TypeOK
  BY Facts DEF Local
<1> HIDE DEF after
<1>2. after.pc \notin Loading
  BY <1>1 DEF Loading
<1>3. Tidy(after, pending'[c], table, overlapped')
  BY <1>2, TidyReader
<1>4. \A d \in Client \ {c} : pending'[d] = pending[d]
  BY <1>1 DEF TypeOK
<1>5. QED
  BY <1>2, <1>3, <1>4, HeadLocal DEF after

\* What is flushed is written, and is no deletion.
LEMMA HeadFlushRow ==
  ASSUME ThreadsInv, HeadInv, NEW c \in Client, NEW x \in Row, FlushRow(c, x)
  PROVE  HeadInv'
<1> DEFINE r == req[c]
           a == req[c].ask
           cur == table[x]
           new == Flushed(r, x, IF cur = Absent THEN r.msg ELSE cur)
           after == Flushing(r, r.todo \ {x})
<1>1. /\ TypeOK /\ r \in Local /\ RequestOK(r, pending[c], table)
      /\ r.pc = "flush" /\ x \in r.todo /\ overlapped' = overlapped
  BY Facts DEF FlushRow, At
<1>2. r.pc \in Loading /\ Tidy(r, pending[c], table, overlapped)
  BY <1>1 DEF HeadInv, Loading
<1>3. Seen(c, x) = cur
  BY <1>1, SeenCommitted DEF RequestOK
<1>4. CASE Refused(r, x, cur)
  BY <1>1, <1>3, <1>4, HeadEmpty DEF FlushRow, Fail
<1>5. CASE ~Refused(r, x, cur)
  <2>1. Write(c, x, new) /\ Step(c, after)
    BY <1>3, <1>5 DEF FlushRow
  <2>2. new \in ThreadRow \cup MessageRow
    BY <1>1, <1>5, Written
  <2> HIDE DEF new
  <2>3. r.todo \ {x} \in SUBSET Row
    BY <1>1 DEF Local
  <2>4. /\ after.todo = r.todo \ {x} /\ after.pc \in {"flush", "commit"}
        /\ after.ask = a /\ after.row = r.row /\ after.msg = r.msg
    BY <1>1, <2>3, FlushingFields
  <2>5. after.pc = "commit" => after.todo = {}
    BY <1>1, <2>4 DEF Flushing, Local
  <2> HIDE DEF after
  <2>6. /\ pending'[c][x] = new
        /\ \A y \in Row \ {x} : pending'[c][y] = pending[c][y]
        /\ \A d \in Client \ {c} : pending'[d] = pending[d]
        /\ table' = table
    BY <1>1, <2>1 DEF Write, TypeOK
  <2>7. pending'[c][x] # Keep /\ pending'[c][x] # Absent
    BY <2>2, <2>6, Distinct
  <2>8. \A y \in Row : /\ pending[c][y] # Keep => pending'[c][y] # Keep
                       /\ pending'[c][y] = Absent => pending[c][y] = Absent
    BY <2>6, <2>7
  <2>9. a.op = "upsert" => a.id \in Row
    BY <1>1, CallFields, Distinct DEF RequestOK, StageOK
  <2>10. a.thread \in Row
    BY <1>1, CallFields, Distinct DEF RequestOK, StageOK
  <2>11. Complete(after, pending'[c])
    <3>1. Complete(r, pending[c])
      BY <1>2 DEF Tidy
    <3>2. a.op = "upsert" => a.id \in after.todo \/ pending'[c][a.id] # Keep \/ r.msg # None
      BY <1>1, <3>1, <2>4, <2>7, <2>8, <2>9 DEF Complete
    <3>3. a.op = "prune" /\ r.row.head \in a.ids =>
            a.thread \in after.todo \/ pending'[c][a.thread] # Keep
      BY <1>1, <3>1, <2>4, <2>7, <2>8, <2>10 DEF Complete
    <3>4. a.op = "prune" => \A m \in Message : pending'[c][m] = Absent => m \in a.ids
      BY <3>1, <2>8, Distinct DEF Complete
    <3>5. QED
      BY <2>4, <2>5, <3>2, <3>3, <3>4 DEF Complete
  <2>12. Tidy(after, pending'[c], table, overlapped')
    BY <1>1, <1>2, <2>4, <2>11 DEF Tidy, Undisturbed
  <2>13. QED
    BY <1>1, <1>2, <2>1, <2>4, <2>6, <2>12, HeadLocal
<1>6. QED
  BY <1>4, <1>5

\* What a commit leaves of a message: deleted only by a request on its thread,
\* else where it was.
LEMMA MessageStays ==
  ASSUME ThreadsInv, NEW c \in Client, Commit(c), req[c].pc = "commit",
         NEW m \in Message, table[m] # Absent,
         \/ req[c].ask.op # "prune" \/ req[c].ask.thread # table[m].thread
         \/ pending[c][m] # Absent
  PROVE  table'[m] # Absent /\ table'[m].thread = table[m].thread
         /\ (table[m] \in MessageRow => table'[m] \in MessageRow)
<1>1. m \in Row /\ table'[m] = Seen(c, m)
  BY Distinct DEF Commit
<1>2. CASE pending[c][m] = Keep
  BY <1>1, <1>2 DEF Seen
<1>3. CASE pending[c][m] # Keep
  <2>1. Seen(c, m) = pending[c][m]
    BY <1>3 DEF Seen
  <2>2. QED
    BY <1>1, <1>3, <2>1, MessageAtCommit, Distinct
<1>4. QED
  BY <1>2, <1>3

\* The head of the thread that a request alone has changed.
LEMMA OwnHead ==
  ASSUME ThreadsInv, HeadInv, NEW c \in Client, Commit(c), req[c].pc = "commit",
         req[c].ask.op # "create", req[c].ask.thread \notin overlapped,
         table'[req[c].ask.thread].head # None
  PROVE  LET head == table'[req[c].ask.thread].head
         IN  table'[head] # Absent /\ table'[head].thread = req[c].ask.thread
<1> DEFINE r == req[c]
           a == req[c].ask
           t == req[c].ask.thread
           head == table'[t].head
<1>1. /\ RequestOK(r, pending[c], table) /\ a \in Call /\ r.pc = "commit"
      /\ Held(r, table) /\ t \in Thread /\ t \in Row
      /\ r.msg = None \/ r.msg \in MessageRow \/ a.op # "upsert"
  BY Facts, CallFields, Distinct DEF RequestOK, StageOK, Loading
<1>2. Undisturbed(r, table) /\ Complete(r, pending[c])
  BY <1>1 DEF HeadInv, Tidy, Loading
<1>3. table[t] = r.row /\ r.row \in ThreadRow
  BY <1>1, <1>2 DEF Undisturbed, Held
<1>4. r.row.head # None =>
        /\ r.row.head \in Message /\ table[r.row.head] # Absent
        /\ table[r.row.head].thread = t
  BY <1>1, <1>3, Distinct DEF HeadInv, HeadsExist, ThreadRow
\* The head that was loaded stays, if this request does not delete it.
<1>5. ASSUME r.row.head # None, a.op = "prune" => r.row.head \notin a.ids
      PROVE  table'[r.row.head] # Absent /\ table'[r.row.head].thread = t
  <2>1. a.op = "prune" => pending[c][r.row.head] # Absent
    BY <1>2, <1>4, <1>5 DEF Complete
  <2>2. QED
    BY <1>1, <1>4, <1>5, <2>1, MessageStays
<1>6. table'[t] = Seen(c, t)
  BY <1>1 DEF Commit
<1>7. CASE pending[c][t] = Keep
  <2>1. table'[t] = r.row
    BY <1>3, <1>6, <1>7 DEF Seen
  <2>2. a.op = "prune" => r.row.head \notin a.ids
    BY <1>1, <1>2, <1>7 DEF Complete
  <2>3. QED
    BY <1>5, <2>1, <2>2
<1>8. CASE pending[c][t] # Keep
  <2> DEFINE obj == ThreadObject(a, r.row)
  <2>1. a.op \in Writing /\ table'[t] = Updated(r.row, r.row, obj)
    BY <1>1, <1>3, <1>6, <1>8, ThreadAtCommit
  <2>2. obj \in ThreadRow
    BY <1>1, <1>3, <2>1, ObjectOK
  <2>3. head = obj.head
    BY <1>3, <2>1, <2>2 DEF Updated, ThreadRow
  <2>4. CASE a.op \in {"patch", "delete"} \/ (a.op = "upsert" /\ ~a.head)
    <3>1. obj.head = r.row.head
      <4>1. CASE a.op = "patch"
        BY <1>3, <4>1 DEF ThreadObject, Patched, ThreadRow
      <4>2. CASE a.op = "delete"
        BY <1>3, <4>2 DEF ThreadObject, ThreadRow
      <4>3. CASE a.op = "upsert" /\ ~a.head
        BY <1>3, <4>3 DEF ThreadObject
      <4>4. QED
        BY <2>4, <4>1, <4>2, <4>3
    <3>2. QED
      BY <1>5, <2>3, <2>4, <3>1
  <2>5. CASE a.op = "upsert" /\ a.head
    <3>1. head = a.id /\ a.id \in Message /\ a.id \in Row
      BY <1>1, <1>3, <2>3, <2>5, CallFields, Distinct DEF ThreadObject, ThreadRow
    <3>2. CASE pending[c][a.id] # Keep
      <4>1. table'[a.id] = Seen(c, a.id)
        BY <3>1 DEF Commit
      <4>2. \/ Seen(c, a.id) \in MessageRow /\ Seen(c, a.id).thread = t
            \/ /\ r.msg \in MessageRow /\ Seen(c, a.id) \in MessageRow
               /\ Seen(c, a.id).thread = table[a.id].thread
        BY <1>1, <2>5, <3>1, <3>2, MessageAtCommit
      <4>3. r.msg \in MessageRow => table[a.id].thread = t
        BY <1>1, <1>2, <2>5, Distinct DEF Undisturbed
      <4>4. QED
        BY <3>1, <4>1, <4>2, <4>3, Distinct
    <3>3. CASE pending[c][a.id] = Keep
      <4>1. r.msg # None
        BY <1>1, <1>2, <2>5, <3>3 DEF Complete
      <4>2. table[a.id] \in MessageRow /\ table[a.id].thread = t
        BY <1>1, <1>2, <2>5, <4>1 DEF Undisturbed
      <4>3. QED
        BY <1>1, <2>5, <3>1, <4>2, MessageStays, Distinct
    <3>4. QED
      BY <3>2, <3>3
  <2>6. CASE a.op = "prune"
    <3>1. obj.head = IF r.row.head \in a.ids THEN None ELSE r.row.head
      BY <1>3, <2>6 DEF ThreadObject, Pruned, ThreadRow
    <3>2. QED
      BY <1>5, <2>3, <2>6, <3>1
  <2>7. QED
    BY <1>1, <2>1, <2>4, <2>5, <2>6, CallFields DEF Writing
<1>9. QED
  BY <1>7, <1>8

\* A commit: the thread of the request is as that lemma says, the others and
\* what the other requests rely on stay.
LEMMA HeadCommit ==
  ASSUME ThreadsInv, HeadInv, NEW c \in Client, Commit(c), req[c].pc = "commit",
         Step(c, [req[c] EXCEPT !.pc = "closed"]), overlapped' = overlapped
  PROVE  HeadInv'
<1> DEFINE r == req[c]
           a == req[c].ask
           after == [req[c] EXCEPT !.pc = "closed"]
<1>1. /\ RequestOK(r, pending[c], table) /\ a \in Call /\ a.thread \in Thread
      /\ TypeOK /\ after.pc = "closed"
  BY Facts, CallFields DEF RequestOK, StageOK, Local
<1>2. /\ req'[c] = after /\ \A d \in Client \ {c} : req'[d] = req[d]
      /\ \A d \in Client \ {c} : pending'[d] = pending[d]
      /\ table' = [x \in Row |-> Seen(c, x)]
  BY <1>1 DEF Step, ThreadsInv, ThreadsTypeOK, Commit, TypeOK
<1> HIDE DEF after
<1>3. after.pc \notin Loading
  BY <1>1 DEF Loading
<1>4. Alone'
  BY <1>2, <1>3 DEF HeadInv, Alone
<1>5. \A t \in Thread : t # a.thread => table'[t] = table[t]
  <2> SUFFICES ASSUME NEW t \in Thread, t # a.thread PROVE table'[t] = table[t]
    OBVIOUS
  <2>1. pending[c][t] = Keep /\ t \in Row
    BY <1>1, ThreadAtCommit, Distinct
  <2>2. QED
    BY <1>2, <2>1 DEF Seen
<1>6. HeadsExist'
  <2> SUFFICES ASSUME NEW t \in Thread \ overlapped, table'[t] # Absent,
                      table'[t].head # None
               PROVE  table'[table'[t].head] # Absent /\ table'[table'[t].head].thread = t
    BY DEF HeadsExist
  <2>1. CASE t # a.thread
    <3> DEFINE h == table[t].head
    <3>1. /\ table'[t] = table[t] /\ h \in Message
          /\ table[h] # Absent /\ table[h].thread = t
      BY <1>5, <2>1, Facts DEF HeadInv, HeadsExist, ThreadRow
    <3>2. QED
      BY <2>1, <3>1, MessageStays
  <2>2. CASE t = a.thread /\ a.op = "create"
    <3>1. table[t] = Absent /\ t \in Row
      BY <1>1, <2>2, Distinct DEF RequestOK
    <3>2. pending[c][t] # Keep
      BY <1>2, <3>1 DEF Seen
    <3>3. table'[t] = NewThread(a)
      BY <1>1, <1>2, <2>2, <3>1, <3>2 DEF RequestOK, ThreadWrite, Seen, Writing
    <3>4. QED
      BY <3>3 DEF NewThread
  <2>3. CASE t = a.thread /\ a.op # "create"
    BY <2>3, OwnHead
  <2>4. QED
    BY <2>1, <2>2, <2>3
<1>7. ASSUME NEW d \in Client \ {c} PROVE Tidy(req[d], pending[d], table', overlapped)
  <2> DEFINE e == req[d]
  <2>1. Tidy(e, pending[d], table, overlapped) /\ RequestOK(e, pending[d], table)
    BY Facts DEF HeadInv
  <2>2. ASSUME e.pc \in Loading, e.ask.thread \notin overlapped
        PROVE  Undisturbed(e, table')
    <3>1. e.ask \in Call /\ e.ask.thread \in Thread
      BY <2>1, <2>2, CallFields DEF RequestOK, StageOK, Loading
    <3>2. e.ask.op # "create" /\ a.op # "create" => e.ask.thread # a.thread
      BY <2>2 DEF HeadInv, Alone, Loading
    <3>3. e.ask.op # "create" => table[e.ask.thread] \in ThreadRow
      BY <2>1, <2>2 DEF RequestOK, Held
    <3>4. a.op = "create" => table[a.thread] = Absent
      BY <1>1 DEF RequestOK
    <3>5. e.ask.op # "create" => e.ask.thread # a.thread
      BY <3>2, <3>3, <3>4, Distinct
    <3>6. e.ask.op # "create" => table'[e.ask.thread] = e.row
      BY <1>5, <2>1, <2>2, <3>1, <3>5 DEF Tidy, Undisturbed
    <3>7. ASSUME e.pc \in {"flush", "commit"}, e.ask.op = "upsert", e.msg # None
          PROVE  table'[e.ask.id] \in MessageRow /\ table'[e.ask.id].thread = e.ask.thread
      <4>1. table[e.ask.id] \in MessageRow /\ table[e.ask.id].thread = e.ask.thread
        BY <2>1, <2>2, <3>7 DEF Tidy, Undisturbed
      <4>2. e.ask.id \in Message
        BY <3>1, <3>7, CallFields
      <4>3. QED
        BY <3>5, <3>7, <4>1, <4>2, MessageStays, Distinct
    <3>8. QED
      BY <3>6, <3>7 DEF Undisturbed
  <2>3. QED
    BY <2>1, <2>2 DEF Tidy
<1>8. ASSUME NEW d \in Client PROVE Tidy(req'[d], pending'[d], table', overlapped')
  <2>1. CASE d = c
    BY <1>2, <1>3, <2>1 DEF Tidy
  <2>2. CASE d # c
    BY <1>2, <1>7, <2>2
  <2>3. QED
    BY <2>1, <2>2
<1>9. QED
  BY <1>4, <1>6, <1>8 DEF HeadInv

LEMMA HeadStep == ThreadsInv /\ HeadInv /\ [ThreadsNext]_threadVars => HeadInv'
<1> SUFFICES ASSUME ThreadsInv, HeadInv, [ThreadsNext]_threadVars PROVE HeadInv'
  OBVIOUS
<1>1. CASE UNCHANGED threadVars
  BY <1>1 DEF threadVars, vars, HeadInv, Alone, HeadsExist
<1>2. ASSUME NEW c \in Client, Receive(c) PROVE HeadInv'
  BY <1>2, HeadReceive
<1>3. ASSUME NEW c \in Client, GetThread(c) PROVE HeadInv'
  BY <1>3, HeadGetThread
<1>4. ASSUME NEW c \in Client, GetThreadAgain(c) PROVE HeadInv'
  BY <1>4, HeadGetThreadAgain
<1>5. ASSUME NEW c \in Client, GetMessage(c) PROVE HeadInv'
  BY <1>5, HeadGetMessage
<1>6. ASSUME NEW c \in Client, StartDelete(c) PROVE HeadInv'
  BY <1>6, HeadStartDelete
<1>7. ASSUME NEW c \in Client, Deleted(c) PROVE HeadInv'
  BY <1>7, HeadDeleted
<1>8. ASSUME NEW c \in Client, SelectMessages(c) PROVE HeadInv'
  BY <1>8, HeadSelect
<1>9. ASSUME NEW c \in Client, NEW m \in Message, DeleteRow(c, m) PROVE HeadInv'
  BY <1>9, HeadDeleteRow
<1>10. ASSUME NEW c \in Client, NEW x \in Row, FlushRow(c, x) PROVE HeadInv'
  BY <1>10, HeadFlushRow
<1>11. ASSUME NEW c \in Client, Fault(c) PROVE HeadInv'
  BY <1>11, HeadEmpty DEF Fault, Fail
<1>12. ASSUME NEW c \in Client, Raised(c) PROVE HeadInv'
  BY <1>12, HeadEmpty DEF Raised, Rollback
<1>13. ASSUME NEW c \in Client, CommitRequest(c) PROVE HeadInv'
  BY <1>13, HeadCommit, HeadEmpty DEF CommitRequest, At, Rollback
<1>14. QED
  BY <1>1, <1>2, <1>3, <1>4, <1>5, <1>6, <1>7, <1>8, <1>9, <1>10, <1>11, <1>12, <1>13
  DEF ThreadsNext, AllClosed

\* A thread's head is one of its messages unless two requests worked on the
\* thread at once (service.upsert_message, delete_messages).
THEOREM HeadsAreThere == ThreadsSpec => []HeadsExist
<1>1. ThreadsInit => ThreadsInv /\ HeadInv
  BY ThreadsStart, HeadStart
<1>2. ThreadsInv /\ HeadInv /\ [ThreadsNext]_threadVars => ThreadsInv' /\ HeadInv'
  BY ThreadsStep, HeadStep
<1>3. ThreadsInv /\ HeadInv => HeadsExist
  BY DEF HeadInv
<1>4. QED
  BY <1>1, <1>2, <1>3, PTL DEF ThreadsSpec

-----------------------------------------------------------------------------
(* The branch a report shows.                                              *)

Listed(chain) == {chain[i] : i \in DOMAIN chain}

\* One round of the walk.
Grown(seen, below) ==
  IF Longer(below, seen, seen[below[1]].parent)
  THEN <<seen[below[1]].parent>> \o below ELSE below

Chains(D) == Seq(D) \ {<<>>}

Walks(f, D, head, seen, N) ==
  /\ f \in [0..N -> Chains(D)]
  /\ f[0] = <<head>> /\ \A i \in 1..N : f[i] = Grown(seen, f[i-1])

\* The walk is a function of the number of rounds.
LEMMA WalkExists ==
  ASSUME NEW D, NEW head \in D, NEW seen, DOMAIN seen = D, NEW N \in Nat
  PROVE  \E f : Walks(f, D, head, seen, N)
<1> DEFINE step == [x \in (1..N) \X Chains(D) |-> Grown(seen, x[2])]
<1>1. ASSUME NEW s \in Chains(D) PROVE Grown(seen, s) \in Chains(D)
  <2>1. CASE Longer(s, seen, seen[s[1]].parent)
    <3> DEFINE q == seen[s[1]].parent
    <3>1. q \in D
      BY <2>1 DEF Longer
    <3> HIDE DEF q
    <3>2. <<q>> \o s \in Seq(D) /\ Len(<<q>> \o s) = 1 + Len(s) /\ Len(s) \in Nat
      BY <3>1 DEF Chains
    <3>3. <<q>> \o s \in Chains(D)
      BY <3>2 DEF Chains
    <3>4. QED
      BY <2>1, <3>3 DEF Grown, q
  <2>2. CASE ~Longer(s, seen, seen[s[1]].parent)
    BY <2>2 DEF Grown
  <2>3. QED
    BY <2>1, <2>2
<1>2. step \in [(1..N) \X Chains(D) -> Chains(D)]
  BY <1>1
<1>3. <<head>> \in Chains(D)
  BY DEF Chains
<1>4. \A i \in 1..N, s \in Chains(D) : step[<<i, s>>] = Grown(seen, s)
  OBVIOUS
<1> HIDE DEF step
<1>5. PICK f \in [0..N -> Chains(D)] :
        f[0] = <<head>> /\ \A i \in 1..N : f[i] = step[<<i, f[i-1]>>]
  <2> DEFINE S == Chains(D)
             b == <<head>>
  <2>1. b \in S /\ step \in [(1..N) \X S -> S]
    BY <1>2, <1>3
  <2> HIDE DEF S, b
  <2>2. Iterates(S, b, N, step)
    BY <2>1, RecursiveFunction
  <2>3. \E f \in [0..N -> S] : f[0] = b /\ \A i \in 1..N : f[i] = step[<<i, f[i-1]>>]
    BY <2>2 DEF Iterates
  <2>4. QED
    BY <2>3 DEF S, b
<1>6. \A i \in 1..N : i - 1 \in 0..N /\ f[i-1] \in Chains(D)
  OBVIOUS
<1>7. \A i \in 1..N : f[i] = Grown(seen, f[i-1])
  BY <1>4, <1>5, <1>6
<1>8. QED
  BY <1>5, <1>7 DEF Walks

\* ActiveBranch's chain is that function's last value.
LEMMA BranchIsWalk ==
  ASSUME NEW D, NEW head \in D, NEW seen, DOMAIN seen = D, Cardinality(D) \in Nat
  PROVE  \E f : /\ Walks(f, D, head, seen, Cardinality(D))
               /\ ActiveBranch(head, seen) = [chain |-> f[Cardinality(D)], all |-> {}]
<1> DEFINE N == Cardinality(D)
           E(g) == [n \in 0..N |->
              IF n = 0 THEN <<head>>
              ELSE IF Longer(g[n-1], seen, seen[g[n-1][1]].parent)
                   THEN <<seen[g[n-1][1]].parent>> \o g[n-1] ELSE g[n-1]]
           h == CHOOSE g : g = E(g)
<1>1. PICK f : Walks(f, D, head, seen, N)
  BY WalkExists
<1>2. \A n \in 0..N : n = 0 \/ n \in 1..N
  OBVIOUS
<1>3. f = E(f)
  <2>1. \A n \in 0..N : f[n] = E(f)[n]
    BY <1>1, <1>2 DEF Grown, Walks
  <2>2. f = [n \in 0..N |-> f[n]] /\ E(f) = [n \in 0..N |-> E(f)[n]]
    BY <1>1 DEF Walks
  <2> HIDE DEF E
  <2>3. QED
    BY <2>1, <2>2
<1>4. h = E(h)
  BY <1>3
<1>5. ActiveBranch(head, seen) = [chain |-> h[N], all |-> {}]
  BY DEF ActiveBranch
<1> HIDE DEF h
<1>6. h = [n \in 0..N |-> h[n]] /\ h[0] = <<head>>
      /\ \A i \in 1..N : h[i] = Grown(seen, h[i-1])
  <2>1. \A n \in 0..N : h[n] = E(h)[n]
    BY <1>4
  <2>2. DOMAIN h = 0..N
    BY <1>4
  <2>3. h = [n \in 0..N |-> h[n]]
    BY <1>4, <2>2
  <2>4. \A n \in 0..N : E(h)[n] = IF n = 0 THEN <<head>> ELSE Grown(seen, h[n-1])
    BY DEF Grown
  <2> HIDE DEF E
  <2>5. 0 \in 0..N /\ \A i \in 1..N : i \in 0..N /\ i # 0
    OBVIOUS
  <2>6. h[0] = <<head>>
    BY <2>1, <2>4, <2>5
  <2>7. ASSUME NEW i \in 1..N PROVE h[i] = Grown(seen, h[i-1])
    BY <2>1, <2>4, <2>5
  <2>8. QED
    BY <2>3, <2>6, <2>7
<1> HIDE DEF E
<1>7. h = f
  <2> DEFINE T == {n \in 0..N : h[n] = f[n]}
  <2>0. N \in Nat /\ f[0] = <<head>> /\ \A i \in 1..N : f[i] = Grown(seen, f[i-1])
    BY <1>1 DEF Walks
  <2>a. 0 \in 0..N /\ h[0] = f[0]
    BY <1>6, <2>0
  <2>1. 0 \in T
    BY <2>a
  <2>2. ASSUME NEW i \in 1..N, i - 1 \in T PROVE i \in T
    <3>1. i \in 0..N /\ h[i-1] = f[i-1]
      BY <2>2
    <3>2. h[i] = f[i]
      BY <1>6, <2>0, <3>1
    <3>3. QED
      BY <3>1, <3>2
  <2> HIDE DEF T
  <2>3. 0..N \subseteq T
    BY <2>1, <2>2, InductionUpTo
  <2>4. \A n \in 0..N : h[n] = f[n]
    BY <2>3 DEF T
  <2>5. f = [n \in 0..N |-> f[n]]
    BY <1>1 DEF Walks
  <2>6. QED
    BY <1>6, <2>4, <2>5
<1>8. QED
  BY <1>1, <1>5, <1>7

Above(seen, m) == seen[m].parent

\* A path from an ancestor down to the head, and every set that has the head and
\* the parents of its members has it.
UpwardIn(S, seen) == \A m \in S : Above(seen, m) \in S \/ Above(seen, m) \notin DOMAIN seen

Path(s, D, head, seen) ==
  /\ s \in Chains(D) /\ s[Len(s)] = head
  /\ \A i, j \in 1..Len(s) : s[i] = s[j] => i = j
  /\ \A i \in 2..Len(s) : Above(seen, s[i]) = s[i - 1]
  /\ \A S \in SUBSET D : head \in S /\ UpwardIn(S, seen) => Listed(s) \subseteq S

Goes(s, seen) == Longer(s, seen, Above(seen, s[1]))

LEMMA ChainFacts ==
  ASSUME NEW D, NEW s \in Chains(D)
  PROVE  /\ Len(s) \in Nat \ {0} /\ DOMAIN s = 1..Len(s)
         /\ \A i \in 1..Len(s) : s[i] \in D
         /\ Listed(s) = {s[i] : i \in 1..Len(s)} /\ Listed(s) \subseteq D
  BY DEF Chains, Listed

LEMMA Prepended ==
  ASSUME NEW D, NEW s \in Chains(D), NEW q \in D
  PROVE  LET t == <<q>> \o s
         IN  /\ t \in Chains(D) /\ Len(t) = Len(s) + 1
             /\ t[1] = q /\ \A i \in 2..Len(t) : t[i] = s[i - 1]
<1>1. s \in Seq(D) /\ <<q>> \in Seq(D) /\ Len(<<q>>) = 1 /\ Len(s) \in Nat
  BY DEF Chains
<1> DEFINE t == <<q>> \o s
<1>2. t \in Seq(D) /\ Len(t) = Len(s) + 1 /\ t[1] = q
  BY <1>1
<1>3. \A i \in 2..Len(t) : t[i] = s[i - 1]
  BY <1>1
<1> HIDE DEF t
<1>4. t # <<>>
  BY <1>1, <1>2
<1>5. QED
  BY <1>2, <1>3, <1>4 DEF Chains, t

LEMMA PathGrows ==
  ASSUME NEW D, NEW head \in D, NEW seen, DOMAIN seen = D, NEW s, Path(s, D, head, seen),
         Goes(s, seen)
  PROVE  /\ Path(Grown(seen, s), D, head, seen)
         /\ Len(Grown(seen, s)) = Len(s) + 1
<1> DEFINE q == Above(seen, s[1])
           t == <<q>> \o s
<1>1. /\ s \in Chains(D) /\ q \in D /\ q \notin Listed(s) /\ t = Grown(seen, s)
  BY DEF Path, Goes, Longer, Above, Listed, Grown
<1> HIDE DEF q
<1>2. /\ t \in Chains(D) /\ Len(t) = Len(s) + 1
      /\ t[1] = q /\ \A i \in 2..Len(t) : t[i] = s[i - 1]
  BY <1>1, Prepended
<1>3. /\ Len(s) \in Nat \ {0} /\ \A i \in 1..Len(s) : s[i] \in D
      /\ Listed(s) = {s[i] : i \in 1..Len(s)}
  BY <1>1, ChainFacts
<1>4. Listed(t) = {t[i] : i \in 1..Len(t)}
  <2>1. DOMAIN t = 1..Len(t)
    BY <1>2, ChainFacts
  <2>2. QED
    BY <2>1 DEF Listed
<1> HIDE DEF t
<1>5. t[Len(t)] = head
  BY <1>2, <1>3 DEF Path
<1>6. ASSUME NEW i \in 1..Len(t), NEW j \in 1..Len(t), t[i] = t[j] PROVE i = j
  <2>1. \A k \in 2..Len(t) : k - 1 \in 1..Len(s) /\ t[k] = s[k-1] /\ t[k] \in Listed(s)
    BY <1>2, <1>3
  <2>2. \A k \in 1..Len(t) : k = 1 \/ k \in 2..Len(t)
    BY <1>2, <1>3
  <2>3. CASE i = 1 \/ j = 1
    BY <1>1, <1>2, <1>6, <2>1, <2>2, <2>3
  <2>4. CASE i # 1 /\ j # 1
    <3>1. s[i-1] = s[j-1] /\ i - 1 \in 1..Len(s) /\ j - 1 \in 1..Len(s)
      BY <1>6, <2>1, <2>2, <2>4
    <3>2. i - 1 = j - 1
      BY <3>1 DEF Path
    <3>3. QED
      BY <3>2
  <2>5. QED
    BY <2>3, <2>4
<1>7. ASSUME NEW i \in 2..Len(t) PROVE Above(seen, t[i]) = t[i - 1]
  <2>1. CASE i = 2
    BY <1>2, <1>3, <2>1 DEF q
  <2>2. CASE i # 2
    <3>1. i - 1 \in 2..Len(s) /\ i - 1 \in 2..Len(t)
      BY <1>2, <1>3, <2>2
    <3>2. t[i] = s[i-1] /\ t[i-1] = s[i-1-1]
      BY <1>2, <3>1
    <3>3. QED
      BY <3>1, <3>2 DEF Path
  <2>3. QED
    BY <2>1, <2>2
<1>8. ASSUME NEW S \in SUBSET D, head \in S, UpwardIn(S, seen) PROVE Listed(t) \subseteq S
  <2>1. Listed(s) \subseteq S
    BY <1>8 DEF Path
  <2>2. s[1] \in S
    BY <1>3, <2>1
  <2>3. q \in S
    BY <1>1, <1>8, <2>2 DEF UpwardIn, q
  <2>4. \A i \in 1..Len(t) : i = 1 \/ (i \in 2..Len(t) /\ t[i] = s[i-1] /\ i - 1 \in 1..Len(s))
    BY <1>2, <1>3
  <2>5. QED
    BY <1>2, <1>3, <1>4, <2>1, <2>3, <2>4
<1>9. QED
  <2>1. Path(t, D, head, seen)
    BY <1>2, <1>5, <1>6, <1>7, <1>8 DEF Path
  <2>2. QED
    BY <1>1, <1>2, <2>1

\* A path has no more elements than there are messages.
LEMMA PathIsShort ==
  ASSUME NEW D, IsFiniteSet(D), NEW head, NEW seen, NEW s, Path(s, D, head, seen)
  PROVE  Len(s) = Cardinality(Listed(s)) /\ Len(s) <= Cardinality(D)
<1>1. /\ s \in Chains(D) /\ \A i, j \in 1..Len(s) : s[i] = s[j] => i = j
  BY DEF Path
<1>2. /\ Len(s) \in Nat \ {0} /\ DOMAIN s = 1..Len(s)
      /\ Listed(s) = {s[i] : i \in 1..Len(s)} /\ Listed(s) \subseteq D
  BY <1>1, ChainFacts
<1> DEFINE g == [i \in 1..Len(s) |-> s[i]]
<1>3. g \in Bijection(1..Len(s), Listed(s))
  BY <1>1, <1>2 DEF Bijection, Injection, Surjection, IsInjective
<1>4. ExistsBijection(1..Len(s), Listed(s))
  BY <1>3 DEF ExistsBijection
<1>5. IsFiniteSet(1..Len(s)) /\ Cardinality(1..Len(s)) = Len(s)
  BY <1>2, FS_Interval
<1>6. Cardinality(Listed(s)) = Len(s)
  BY <1>4, <1>5, FS_Bijection
<1>7. Cardinality(Listed(s)) <= Cardinality(D)
  BY <1>2, FS_Subset
<1>8. QED
  BY <1>6, <1>7

\* The chain that ActiveBranch computes is a path that does not go on.
LEMMA BranchIsPath ==
  ASSUME NEW D, IsFiniteSet(D), NEW head \in D, NEW seen, DOMAIN seen = D
  PROVE  \E s : /\ Path(s, D, head, seen) /\ ~Goes(s, seen)
               /\ ActiveBranch(head, seen) = [chain |-> s, all |-> {}]
<1> DEFINE N == Cardinality(D)
<1>1. N \in Nat
  BY FS_CardinalityType
<1>2. PICK f : Walks(f, D, head, seen, N) /\ ActiveBranch(head, seen) = [chain |-> f[N], all |-> {}]
  BY <1>1, BranchIsWalk
<1> HIDE DEF N
<1>3. f[0] = <<head>> /\ \A i \in 1..N : f[i] = Grown(seen, f[i-1])
  BY <1>2 DEF Walks
<1> DEFINE Ends(n) == Len(f[n]) = n + 1 \/ ~Goes(f[n], seen)
           T == {n \in 0..N : Path(f[n], D, head, seen) /\ Ends(n)}
<1>4. 0 \in T
  <2>1. Path(<<head>>, D, head, seen) /\ Len(<<head>>) = 1
    BY DEF Path, Chains, Listed
  <2>2. QED
    BY <1>1, <1>3, <2>1
<1>5. ASSUME NEW i \in 1..N, i - 1 \in T PROVE i \in T
  <2>1. /\ i \in 0..N /\ f[i] = Grown(seen, f[i-1]) /\ Path(f[i-1], D, head, seen)
        /\ Len(f[i-1]) = i \/ ~Goes(f[i-1], seen)
    BY <1>1, <1>3, <1>5
  <2>2. CASE Goes(f[i-1], seen)
    <3>1. Path(f[i], D, head, seen) /\ Len(f[i]) = Len(f[i-1]) + 1
      BY <2>1, <2>2, PathGrows
    <3>2. QED
      BY <2>1, <2>2, <3>1
  <2>3. CASE ~Goes(f[i-1], seen)
    <3>1. f[i] = f[i-1]
      BY <2>1, <2>3 DEF Goes, Grown, Above
    <3>2. QED
      BY <2>1, <2>3, <3>1
  <2>4. QED
    BY <2>2, <2>3
<1> HIDE DEF T
<1>6. 0..N \subseteq T
  BY <1>1, <1>4, <1>5, InductionUpTo
<1>7. N \in T
  BY <1>1, <1>6
<1>8. Path(f[N], D, head, seen) /\ (Len(f[N]) = N + 1 \/ ~Goes(f[N], seen))
  BY <1>7 DEF T
<1>9. Len(f[N]) <= N
  BY <1>8, PathIsShort DEF N
<1>10. Len(f[N]) # N + 1
  BY <1>1, <1>9
<1>11. QED
  BY <1>2, <1>8, <1>10

\* Only the select of a request takes it from there to its commit.
LEMMA OnlySelectShows ==
  ASSUME ThreadsInv, ThreadsNext, NEW c \in Client, At(c, "select"), req'[c].pc = "commit"
  PROVE  SelectMessages(c)
<1>1. req \in [Client -> Local]
  BY DEF ThreadsInv, ThreadsTypeOK
<1>2. PICK d \in Client :
        \/ Receive(d) \/ GetThread(d) \/ GetThreadAgain(d) \/ GetMessage(d)
        \/ StartDelete(d) \/ Deleted(d) \/ SelectMessages(d)
        \/ \E m \in Message : DeleteRow(d, m)
        \/ \E x \in Row : FlushRow(d, x)
        \/ Fault(d) \/ Raised(d) \/ CommitRequest(d)
  <2>1. ~AllClosed
    BY DEF AllClosed, At
  <2>2. QED
    BY <2>1 DEF ThreadsNext
<1>3. \E r : Step(d, r)
  BY <1>2 DEF Receive, GetThread, GetThreadAgain, GetMessage, StartDelete, Deleted,
     SelectMessages, DeleteRow, FlushRow, Fault, Raised, CommitRequest
<1>4. c = d
  BY <1>1, <1>3 DEF Step, At
<1>5. CASE Fault(d)
  <2>1. req'[d].pc = "raised"
    BY <1>1, <1>5 DEF Fault, Step, Local
  <2>2. QED
    BY <1>4, <2>1
<1>6. CASE ~Fault(d)
  BY <1>2, <1>4, <1>6 DEF Receive, GetThread, GetThreadAgain, GetMessage, StartDelete, Deleted,
     DeleteRow, FlushRow, Raised, CommitRequest, At
<1>7. QED
  BY <1>5, <1>6

\* Every reader is shown something.
ShownInv == DOMAIN shown = Client

LEMMA ShownStep == ThreadsInv /\ ShownInv /\ [ThreadsNext]_threadVars => ShownInv'
  BY DEF ShownInv, ThreadsNext, Receive, GetThread, GetThreadAgain, GetMessage, StartDelete,
     Deleted, SelectMessages, DeleteRow, FlushRow, Fault, Raised, CommitRequest, AllClosed,
     threadVars

LEMMA ShownStart == ThreadsInit => ShownInv
  BY DEF ThreadsInit, ShownInv

\* What an export shows.
LEMMA SelectShows ==
  ASSUME ThreadsInv, ShownInv, NEW c \in Client, SelectMessages(c), req[c].ask.op = "export"
  PROVE  LET seen == [m \in MessagesOf(c) |-> Seen(c, m)]
             head == req[c].row.head
         IN  /\ head \in MessagesOf(c) =>
                  \E s : /\ Path(s, MessagesOf(c), head, seen) /\ ~Goes(s, seen)
                         /\ shown'[c] = [chain |-> s, all |-> {}]
             /\ head \notin MessagesOf(c) =>
                  shown'[c] = [chain |-> <<>>, all |-> MessagesOf(c)]
<1> DEFINE D == MessagesOf(c)
           seen == [m \in D |-> Seen(c, m)]
           head == req[c].row.head
<1>1. shown'[c] = ActiveBranch(head, seen)
  BY DEF SelectMessages, ShownInv
<1>2. DOMAIN seen = D /\ IsFiniteSet(D)
  <2>1. MessagesOf(c) \in SUBSET Message
    BY DEF MessagesOf
  <2>2. QED
    BY <2>1, MessagesAreFinite, FS_Subset
<1> HIDE DEF seen, D, head
<1>3. ASSUME head \in D
      PROVE  \E s : /\ Path(s, D, head, seen) /\ ~Goes(s, seen)
                    /\ shown'[c] = [chain |-> s, all |-> {}]
  BY <1>1, <1>2, <1>3, BranchIsPath
<1>4. ASSUME head \notin D PROVE shown'[c] = [chain |-> <<>>, all |-> D]
  BY <1>1, <1>2, <1>4 DEF ActiveBranch
<1>5. QED
  BY <1>3, <1>4 DEF seen, D, head

\* The report shows the head, everything above it once each and after its
\* parent, and nothing else, whatever the parents are; or all messages if the
\* head is gone (pdf.active_branch).
THEOREM BranchesAreWhole == ThreadsSpec => BranchIsWhole
<1> DEFINE Asks(c) == At(c, "select") /\ req[c].ask.op = "export" /\ req'[c].pc = "commit"
           Whole(c) ==
             LET ids == MessagesOf(c)
                 head == req[c].row.head
                 chain == shown'[c].chain
                 listed == {chain[i] : i \in DOMAIN chain}
                 Upward(S) == \A m \in S : Seen(c, m).parent \in S \/ Seen(c, m).parent \notin ids
             IN IF head \notin ids THEN chain = <<>> /\ shown'[c].all = ids
                ELSE /\ chain[Len(chain)] = head
                     /\ Len(chain) = Cardinality(listed)
                     /\ \A i \in 2..Len(chain) : Seen(c, chain[i]).parent = chain[i - 1]
                     /\ Upward(listed)
                     /\ \A S \in SUBSET ids : head \in S /\ Upward(S) => listed \subseteq S
<1>1. ASSUME ThreadsInv, ShownInv, ThreadsNext, NEW c \in Client, Asks(c) PROVE Whole(c)
  <2> DEFINE D == MessagesOf(c)
             seen == [m \in D |-> Seen(c, m)]
             head == req[c].row.head
  <2>1. SelectMessages(c) /\ req[c].ask.op = "export"
    BY <1>1, OnlySelectShows
  <2>2. CASE head \notin D
    <3>1. shown'[c] = [chain |-> <<>>, all |-> D]
      BY <1>1, <2>1, <2>2, SelectShows
    <3>2. shown'[c].chain = <<>> /\ shown'[c].all = D
      BY <3>1
    <3>3. QED
      BY <2>2, <3>2
  <2>3. CASE head \in D
    <3>1. PICK s : /\ Path(s, D, head, seen) /\ ~Goes(s, seen)
                   /\ shown'[c] = [chain |-> s, all |-> {}]
      BY <1>1, <2>1, <2>3, SelectShows
    <3>2. s = shown'[c].chain
      BY <3>1
    <3>3. IsFiniteSet(D) /\ D \subseteq Message
      <4>1. MessagesOf(c) \in SUBSET Message
        BY DEF MessagesOf
      <4>2. QED
        BY <4>1, MessagesAreFinite, FS_Subset
    <3>4. DOMAIN seen = D /\ \A m \in D : Above(seen, m) = Seen(c, m).parent
      BY DEF Above
    <3> HIDE DEF seen, D, head
    <3>5. /\ Len(s) \in Nat \ {0} /\ DOMAIN s = 1..Len(s) /\ \A i \in 1..Len(s) : s[i] \in D
          /\ Listed(s) \subseteq D
      BY <3>1, ChainFacts DEF Path
    <3>6. s[Len(s)] = head /\ Len(s) = Cardinality(Listed(s))
      <4>1. s[Len(s)] = head
        BY <3>1 DEF Path
      <4>2. QED
        BY <3>1, <3>3, <4>1, PathIsShort
    <3>7. \A i \in 2..Len(s) : i \in 1..Len(s) /\ i - 1 \in 1..Len(s)
      BY <3>5
    <3>8. \A i \in 2..Len(s) : Seen(c, s[i]).parent = s[i - 1]
      BY <3>1, <3>4, <3>5, <3>7 DEF Path
    <3>9. ASSUME NEW m \in Listed(s)
          PROVE  Seen(c, m).parent \in Listed(s) \/ Seen(c, m).parent \notin D
      <4>1. PICK i \in 1..Len(s) : m = s[i]
        BY <3>5 DEF Listed
      <4>2. CASE i = 1
        <5>1. Above(seen, m) = None \/ Above(seen, m) \notin D \/ Above(seen, m) \in Listed(s)
          BY <3>1, <3>4, <4>1, <4>2 DEF Goes, Longer, Listed
        <5>2. None \notin D
          BY <3>3, ThreadsAssumption
        <5>3. QED
          BY <3>4, <3>5, <5>1, <5>2
      <4>3. CASE i # 1
        <5>1. i \in 2..Len(s)
          BY <3>5, <4>3
        <5>2. QED
          BY <3>5, <3>7, <3>8, <4>1, <5>1 DEF Listed
      <4>4. QED
        BY <4>2, <4>3
    <3>10. ASSUME NEW S \in SUBSET D, head \in S,
                  \A m \in S : Seen(c, m).parent \in S \/ Seen(c, m).parent \notin D
           PROVE  Listed(s) \subseteq S
      <4>1. UpwardIn(S, seen)
        BY <3>4, <3>10 DEF UpwardIn
      <4>2. QED
        BY <3>1, <3>10, <4>1 DEF Path
    <3> DEFINE chain == shown'[c].chain
    <3>11. /\ head \in D /\ chain[Len(chain)] = head
           /\ Len(chain) = Cardinality(Listed(chain))
           /\ \A i \in 2..Len(chain) : Seen(c, chain[i]).parent = chain[i - 1]
           /\ \A m \in Listed(chain) :
                Seen(c, m).parent \in Listed(chain) \/ Seen(c, m).parent \notin D
           /\ \A S \in SUBSET D :
                head \in S /\ (\A m \in S : Seen(c, m).parent \in S \/ Seen(c, m).parent \notin D)
                => Listed(chain) \subseteq S
      BY <2>3, <3>2, <3>6, <3>8, <3>9, <3>10
    <3>12. QED
      BY <3>11 DEF Listed, D, head
  <2>4. QED
    BY <2>2, <2>3
<1>2. ASSUME ThreadsInv, ShownInv, [ThreadsNext]_threadVars
      PROVE  [\A c \in Client : Asks(c) => Whole(c)]_threadVars
  BY <1>1, <1>2
<1>3. QED
  BY <1>2, ThreadsStart, ThreadsStep, ShownStart, ShownStep, PTL DEF ThreadsSpec, BranchIsWhole
==============================================================================
