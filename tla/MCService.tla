------------------------------ MODULE MCService -------------------------------
(* What a running process does besides a chat turn itself: queries that     *)
(* share the tunnel, the stream to a client, and the process's own start    *)
(* and end, searched side by side: a behaviour is about one of them.        *)
EXTENDS MCAnalytics, ChatStream, Lifespan

CONSTANTS r1, r2

VARIABLE service

services == <<service, vars, streaming, lifeVars>>

\* Nothing that is fair is enabled in a part that rests: analytics and lifespan rest
\* in their first state, a stream whose client has left.
StreamRests ==
  /\ plain = TRUE /\ pc = "cancelled" /\ connected = FALSE /\ wire = <<>>
  /\ enc = [text_n |-> 0, tool_n |-> 0, text |-> NoId, tool |-> NoId]
  /\ view = [received |-> 0, last |-> NoId, phase |-> "new", block |-> NoId, blocks |-> 0,
             calling |-> NoId, calls |-> 0, answered |-> {}, texts |-> {}]

ServiceInit ==
  /\ service \in {"analytics", "stream", "life"}
  /\ Init /\ LifeInit
  /\ IF service = "stream" THEN StreamInit ELSE StreamRests

\* The stream is over, the process has ended; any other standstill is a deadlock.
Over ==
  /\ \/ service = "stream" /\ pc \in {"finished", "cancelled"} /\ ~connected
     \/ service = "life" /\ phase = "down"
  /\ UNCHANGED <<vars, streaming, lifeVars>>

ServiceNext ==
  /\ UNCHANGED service
  /\ \/ service = "analytics" /\ Next /\ UNCHANGED <<streaming, lifeVars>>
     \/ service = "stream" /\ StreamNext /\ UNCHANGED <<vars, lifeVars>>
     \/ service = "life" /\ LifeNext /\ UNCHANGED <<vars, streaming>>
     \/ Over

ServiceSpec ==
  ServiceInit /\ [][ServiceNext]_services /\ QueryFairness /\ StreamFairness /\ LifeFairness
=============================================================================
