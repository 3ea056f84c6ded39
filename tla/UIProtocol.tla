------------------------------ MODULE UIProtocol ------------------------------
(***************************************************************************)
(* What a client of the chat endpoint may rely on: the order of the frames *)
(* of an AI SDK v6 "UI message stream" (chat/stream.py), as far as it has  *)
(* received them.                                                          *)
(***************************************************************************)
EXTENDS Naturals

CONSTANT NoId

VARIABLES
  received,  \* how many frames
  last,      \* the last one's type
  phase,     \* of the stream
  block,     \* the text block that is open
  blocks,    \* how many there have been
  calling,   \* the tool call whose input has been announced and not sent
  calls,     \* how many there have been
  answered   \* calls whose output has been sent

vars == <<received, last, phase, block, blocks, calling, calls, answered>>

Init ==
  /\ received = 0 /\ last = NoId /\ phase = "new"
  /\ block = NoId /\ blocks = 0
  /\ calling = NoId /\ calls = 0 /\ answered = {}

\* Between the parts of a message.
Between == phase = "step" /\ block = NoId /\ calling = NoId

Frame(type) == received' = received + 1 /\ last' = type

Enter(type, from, to) ==
  /\ Frame(type)
  /\ phase = from /\ phase' = to
  /\ UNCHANGED <<block, blocks, calling, calls, answered>>

Start == Enter("start", "new", "started")
StartStep == Enter("start-step", "started", "step")

TextStart ==
  /\ Frame("text-start")
  /\ Between
  /\ block' = blocks /\ blocks' = blocks + 1
  /\ UNCHANGED <<phase, calling, calls, answered>>

TextDelta ==
  /\ Frame("text-delta")
  /\ phase = "step" /\ block # NoId
  /\ UNCHANGED <<phase, block, blocks, calling, calls, answered>>

TextEnd ==
  /\ Frame("text-end")
  /\ phase = "step" /\ block # NoId
  /\ block' = NoId
  /\ UNCHANGED <<phase, blocks, calling, calls, answered>>

ToolInputStart ==
  /\ Frame("tool-input-start")
  /\ Between
  /\ calling' = calls /\ calls' = calls + 1
  /\ UNCHANGED <<phase, block, blocks, answered>>

ToolInputAvailable ==
  /\ Frame("tool-input-available")
  /\ phase = "step" /\ calling # NoId
  /\ calling' = NoId
  /\ UNCHANGED <<phase, block, blocks, calls, answered>>

ToolOutputAvailable ==
  /\ Frame("tool-output-available")
  /\ Between
  /\ \E c \in 0..calls-1 : c \notin answered /\ answered' = answered \cup {c}
  /\ UNCHANGED <<phase, block, blocks, calling, calls>>

DataSuggestions ==
  /\ Frame("data-suggestions")
  /\ Between
  /\ UNCHANGED <<phase, block, blocks, calling, calls, answered>>

FinishStep == Between /\ Enter("finish-step", "step", "stepped")
Finish == Enter("finish", "stepped", "finished")
Done == Enter("[DONE]", "finished", "closed")

Next ==
  \/ Start \/ StartStep
  \/ TextStart \/ TextDelta \/ TextEnd
  \/ ToolInputStart \/ ToolInputAvailable \/ ToolOutputAvailable
  \/ DataSuggestions
  \/ FinishStep \/ Finish \/ Done

Spec == Init /\ [][Next]_vars
=============================================================================
