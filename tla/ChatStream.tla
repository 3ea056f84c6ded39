------------------------------ MODULE ChatStream ------------------------------
(***************************************************************************)
(* One answer of POST /api/chat on its way to the client: the events of    *)
(* ChatPipeline.run, the encoder UIMessageStream, and a client that reads  *)
(* the frames and may leave at any time (api/chat.py, chat/stream.py).     *)
(*                                                                         *)
(* What the pipeline does between its events is the matter of module       *)
(* ChatPipeline; here it is a choice of the next event.                    *)
(***************************************************************************)
EXTENDS Integers, Sequences

CONSTANT NoId

VARIABLES
  plain,      \* all values in the rows have a form in JSON
  pc,         \* where run and _event_stream are
  enc,        \* the UIMessageStream
  wire,       \* frames sent and not received
  connected,
  view        \* what the client has made of the frames it received

streaming == <<plain, pc, enc, wire, connected, view>>

StreamStage == {"open", "question", "scope", "answer", "table", "suggest", "done",
          "finished", "cancelled"}
Text == {"reply", "refusal", "answer", "table", "error"}

ASSUME ChatStreamAssumption == NoId \notin Nat \cup Text

FrameType == {"start", "start-step", "text-start", "text-delta", "text-end",
              "tool-input-start", "tool-input-available", "tool-output-available",
              "data-suggestions", "finish-step", "finish", "[DONE]"}
Frame == [type : FrameType, id : Nat \cup {NoId}, text : Text \cup {NoId}]

StreamTypeOK ==
  /\ plain \in BOOLEAN
  /\ pc \in StreamStage
  /\ enc \in [text_n : Nat, tool_n : Nat, text : Nat \cup {NoId}, tool : Nat \cup {NoId}]
  /\ wire \in Seq(Frame)
  /\ connected \in BOOLEAN
  /\ view \in [received : Nat, last : FrameType \cup {NoId},
               phase : {"new", "started", "step", "stepped", "finished", "closed"},
               block : Nat \cup {NoId}, blocks : Nat, calling : Nat \cup {NoId}, calls : Nat,
               answered : SUBSET Nat, texts : SUBSET Text]

StreamInit ==
  /\ plain \in BOOLEAN
  /\ pc = "open"
  /\ enc = [text_n |-> 0, tool_n |-> 0, text |-> NoId, tool |-> NoId]
  /\ wire = <<>>
  /\ connected = TRUE
  /\ view = [received |-> 0, last |-> NoId, phase |-> "new", block |-> NoId, blocks |-> 0,
             calling |-> NoId, calls |-> 0, answered |-> {}, texts |-> {}]

-----------------------------------------------------------------------------
(* The encoder.                                                            *)

F(type) == [type |-> type, id |-> NoId, text |-> NoId]
Id(type, id) == [type |-> type, id |-> id, text |-> NoId]
Delta(id, text) == [type |-> "text-delta", id |-> id, text |-> text]

\* What is sent after the client has left is lost.
Send(frames) == wire' = IF connected THEN wire \o frames ELSE wire

text_end == IF enc.text = NoId THEN <<>> ELSE <<Id("text-end", enc.text)>>

\* Mistake: the block stays the current one.
Ended_Kept == enc

Ended == [enc EXCEPT !.text = NoId]

start ==
  /\ Send(<<F("start"), F("start-step")>>)
  /\ UNCHANGED enc

\* Opens a block first if none is open.
text_delta(text) ==
  \/ /\ enc.text = NoId
     /\ enc' = [enc EXCEPT !.text = enc.text_n, !.text_n = @ + 1]
     /\ Send(<<Id("text-start", enc.text_n), Delta(enc.text_n, text)>>)
  \/ /\ enc.text # NoId
     /\ Send(<<Delta(enc.text, text)>>)
     /\ UNCHANGED enc

tool_input ==
  /\ enc' = [Ended EXCEPT !.tool = enc.tool_n, !.tool_n = @ + 1]
  /\ Send(text_end \o <<Id("tool-input-start", enc.tool_n),
                        Id("tool-input-available", enc.tool_n)>>)

\* Without a call: q0.
tool_output ==
  /\ Send(<<Id("tool-output-available", IF enc.tool = NoId THEN 0 ELSE enc.tool)>>)
  /\ UNCHANGED enc

suggestions ==
  /\ enc' = Ended
  /\ Send(Append(text_end, F("data-suggestions")))

\* Mistake: no terminator.
finish_NoDone ==
  /\ enc' = Ended
  /\ Send(text_end \o <<F("finish-step"), F("finish")>>)

finish ==
  /\ enc' = Ended
  /\ Send(text_end \o <<F("finish-step"), F("finish"), F("[DONE]")>>)

-----------------------------------------------------------------------------
(* The events of the pipeline, each encoded before the next one.           *)

Becomes(stage) == pc' = stage /\ UNCHANGED <<plain, connected, view>>

Open == pc = "open" /\ start /\ Becomes("question")

\* A greeting, an answer in general, or SQL that the guard refuses.  The plan of an
\* answer in general may have no words.
Reply ==
  /\ pc = "question"
  /\ \E words \in {"reply", NoId} : text_delta(words)
  /\ Becomes("done")

ToolSQL == pc = "question" /\ tool_input /\ Becomes("scope")

\* Nothing in the user's scope, or the database fails.
Refuse == pc = "scope" /\ text_delta("refusal") /\ Becomes("done")

\* Mistake: the result is not sent if it is served from the cache.
ToolResult_Sometimes ==
  pc = "scope" /\ (tool_output \/ UNCHANGED <<enc, wire>>) /\ Becomes("answer")

ToolResult == pc = "scope" /\ tool_output /\ Becomes("answer")

\* json.dumps raises: _event_stream leaves its loop, and the pipeline where it is.
EncodingFails ==
  /\ ~plain
  /\ pc = "scope"
  /\ Becomes("done") /\ UNCHANGED <<enc, wire>>

\* stream_answer_text yields once.
Answer == pc = "answer" /\ text_delta("answer") /\ Becomes("table")

\* No table for a single value or no rows.
Table ==
  /\ pc = "table"
  /\ text_delta("table") \/ UNCHANGED <<enc, wire>>
  /\ Becomes("suggest")

Suggest ==
  /\ pc = "suggest"
  /\ suggestions \/ UNCHANGED <<enc, wire>>
  /\ Becomes("done")

\* Mistake: an unexpected error ends the turn without a word.
Error_Silent ==
  /\ pc \in {"question", "scope", "answer", "table"}
  /\ Becomes("done") /\ UNCHANGED <<enc, wire>>

\* Anything unexpected in run.
Error ==
  /\ pc \in {"question", "scope", "answer", "table"}
  /\ text_delta("error") /\ Becomes("done")

Finish == pc = "done" /\ finish /\ Becomes("finished")

-----------------------------------------------------------------------------
(* The client.                                                             *)

Receive ==
  LET f == Head(wire)
      seen == [view EXCEPT !.received = @ + 1, !.last = f.type,
                           !.texts = IF f.text = NoId THEN @ ELSE @ \cup {f.text}] IN
  /\ connected /\ wire # <<>>
  /\ wire' = Tail(wire)
  /\ \/ f.type = "start" /\ view' = [seen EXCEPT !.phase = "started"]
     \/ f.type = "start-step" /\ view' = [seen EXCEPT !.phase = "step"]
     \/ f.type = "text-start" /\ view' = [seen EXCEPT !.block = f.id, !.blocks = @ + 1]
     \/ f.type = "text-delta" /\ view' = [seen EXCEPT !.block = f.id]
     \/ f.type = "text-end" /\ view' = [seen EXCEPT !.block = NoId]
     \/ f.type = "tool-input-start" /\ view' = [seen EXCEPT !.calling = f.id, !.calls = @ + 1]
     \/ f.type = "tool-input-available" /\ view' = [seen EXCEPT !.calling = NoId]
     \/ f.type = "tool-output-available" /\ view' = [seen EXCEPT !.answered = @ \cup {f.id}]
     \/ f.type = "data-suggestions" /\ view' = seen
     \/ f.type = "finish-step" /\ view' = [seen EXCEPT !.phase = "stepped"]
     \/ f.type = "finish" /\ view' = [seen EXCEPT !.phase = "finished"]
     \/ f.type = "[DONE]" /\ view' = [seen EXCEPT !.phase = "closed"]
  /\ UNCHANGED <<plain, pc, enc, connected>>

Leave ==
  /\ connected
  /\ connected' = FALSE
  /\ wire' = <<>>
  /\ UNCHANGED <<plain, pc, enc, view>>

\* The server notices: CancelledError, which nobody keeps.
Cancelled ==
  /\ ~connected
  /\ pc \notin {"finished", "cancelled"}
  /\ pc' = "cancelled"
  /\ UNCHANGED <<plain, enc, wire, connected, view>>

Server ==
  \/ Open \/ Reply \/ ToolSQL \/ Refuse \/ ToolResult \/ EncodingFails
  \/ Answer \/ Table \/ Suggest \/ Error \/ Finish
  \/ Cancelled

StreamNext == Server \/ Receive \/ Leave

StreamSpec == StreamInit /\ [][StreamNext]_streaming

\* Every await of the server ends, by a timeout if need be; the client reads on.
StreamFairness == WF_streaming(Server) /\ WF_streaming(Receive)

-----------------------------------------------------------------------------
Protocol == INSTANCE UIProtocol WITH
  received <- view.received, last <- view.last, phase <- view.phase,
  block <- view.block, blocks <- view.blocks,
  calling <- view.calling, calls <- view.calls, answered <- view.answered

(* The frames a client receives, up to whenever it leaves, follow the      *)
(* protocol: blocks are opened, closed and not interleaved with tool       *)
(* calls or suggestions, outputs belong to calls, nothing follows [DONE]   *)
(* (UIMessageStream, _event_stream).                                       *)
FollowsProtocol == Protocol!Spec

(* A user who reads an answer or a table has got the rows it is about      *)
(* before; and when the message is over, it has a text, with words in it    *)
(* if a query was announced, and says what has become of that query: "any  *)
(* unexpected error is caught and turned into a friendly message"           *)
(* (ChatPipeline.run).  A text without words is the answer in general of a *)
(* plan that has none.  Rows that JSON has no form for are excepted:       *)
(* encoding them raises outside the pipeline's error handling              *)
(* (_event_stream), and nothing is said.                                   *)
PlainRowsAreExplained ==
  /\ view.texts \cap {"answer", "table"} # {} => view.answered # {}
  /\ plain /\ view.phase = "closed" =>
       /\ view.blocks # 0
       /\ view.calls # 0 => view.texts # {}
       /\ view.answered # 0..view.calls-1 => view.texts \cap {"refusal", "error"} # {}

(* A client that stays gets the end of the message (_event_stream).        *)
EndsForAll == <>(~connected \/ view.phase = "closed")
=============================================================================
