---------------------------- MODULE MCQuestionKeys -----------------------------
(* Requests in the words of the code's lists, from two conversations.      *)
EXTENDS QuestionKeys

Message(role, text, measure, period) ==
  [role |-> role, text |-> text, measure |-> measure, period |-> period]

\* The glossary's words for the measures.
PhrasesFor == [measure \in {"revenue", "purchases", "orders"} |->
  CASE measure = "revenue" -> {<<"sales">>, <<"turnover">>, <<"revenue">>, <<"invoice", "value">>}
    [] measure = "purchases" -> {<<"spend">>, <<"purchase", "spend">>}
    [] measure = "orders" -> {<<"order", "value">>}]
FirstPhrase == [measure \in DOMAIN PhrasesFor |->
  CASE measure = "revenue" -> <<"sales">> [] measure = "purchases" -> <<"purchase", "spend">>
    [] measure = "orders" -> <<"order", "value">>]

Opening == {<<>>, <<"please">>, <<"can", "you", "show", "me">>, <<"tell", "me", "what", "is">>,
            <<"what", "is", "the">>}
Closing == {<<>>, <<"please">>, <<"?">>, <<"please", "can", "you", "tell", "me", "?">>}
Periods == {<<"today">>, <<"yesterday">>}
Bounds == {<<"<", "5">>, <<">", "5">>}
Wordings ==
  UNION {{Message("user", o \o p \o t \o c, measure, t) :
            o \in Opening, p \in PhrasesFor[measure], t \in Periods, c \in Closing} :
         measure \in DOMAIN PhrasesFor}
  \cup {Message("user", <<"sales">> \o t, "revenue", t) : t \in Bounds}

\* Follow-ups, of which the last is not recognised.
FollowUp(period) ==
  {Message("user", f \o period, Unsaid, period) :
     f \in {<<"what", "about">>, <<"and">>, <<"same", "for">>, <<"now", "break", "that">>}}

\* A conversation that was about a measure, with a blank reply and a note.
Before(measure) ==
  <<Message("system", <<"be", "brief">>, Unsaid, <<>>),
    Message("user", FirstPhrase[measure] \o <<"yesterday">>, measure, <<"yesterday">>),
    Message("assistant", <<>>, Unsaid, <<>>)>>

Greeting == <<Message("user", <<"hello", "?">>, Unsaid, <<>>)>>
AnyBodies ==
  {<<m>> : m \in Wordings} \cup {Greeting}
    \cup {Append(Before(measure), m) :
            measure \in DOMAIN PhrasesFor, m \in UNION {FollowUp(t) : t \in Periods}}
    \cup {Append(Before("orders"), m) : m \in {x \in Wordings : Len(x.text) = 2}}
    \cup {<<m>> \o <<Message("assistant", <<"error">>, Unsaid, <<>>)>> :
            m \in {x \in Wordings : Len(x.text) = 2}}

ByDistributor == <<"by", "distributor">>
Conversations ==
  {Append(Before(measure), m) :
     measure \in DOMAIN PhrasesFor,
     m \in {Message("user", <<"now", "break", "that", "down">> \o ByDistributor, Unsaid,
                   ByDistributor)} \cup {x \in Wordings : Plain(x.text)}}
=============================================================================
