------------------------------- MODULE LLMTurn --------------------------------
(***************************************************************************)
(* The LLM calls of one chat turn: rewriting the question, generate_sql    *)
(* with its retries, stream_answer with its fallback, the answerer, the    *)
(* follow-up suggestions, and the UsageTally that counts them all          *)
(* (llm/*_provider.py, llm/usage.py, chat/rewriter.py, chat/answerer.py,   *)
(* chat/pipeline.py).                                                      *)
(*                                                                         *)
(* Calls are numbered.  A text, an SQL statement or a usage is the number  *)
(* of the call it came with; what a call returns is a choice, and so is    *)
(* what the validate hook makes of the SQL.  Greetings, which make no      *)
(* call, and a client that closes the generator are left out.              *)
(***************************************************************************)
EXTENDS Naturals, Sequences

CONSTANTS
  Provider,        \* of "anthropic", "cloudflare" and "bedrock"
  MaxSQLAttempts,  \* _MAX_SQL_ATTEMPTS of the Anthropic provider
  MaxDeltas,       \* bound on the pieces of a streamed answer
  Missing

ASSUME LLMTurnAssumption ==
  /\ Provider \subseteq {"anthropic", "cloudflare", "bedrock"}
  /\ MaxSQLAttempts \in Nat \ {0, 1} /\ MaxDeltas \in Nat \ {0}
  /\ Missing \notin Nat

\* Rewriting, SQL, the streamed answer, its fallback and the suggestions.
Call == 1..MaxSQLAttempts + 4

VARIABLES
  provider, pc,
  calls,    \* number of calls made
  whole,    \* history: calls whose response arrived to its end
  tally,    \* UsageTally: how often each call's usage was recorded
  attempt,  \* of generate_sql
  first,    \* mode of the first reply, and whether it held an answer
  passed,   \* history: calls whose SQL passed the validate hook
  garbled,  \* history: calls whose reply is JSON, but no object of texts
  plan,     \* SQLPlan
  chunks,   \* pieces of the answer that stream_answer has yielded
  shown,    \* the answer the user gets
  outcome,
  audited   \* the tally in the audit row

spending == <<calls, whole, tally>>
generation == <<attempt, first, passed, garbled, plan>>
answer == <<chunks, shown>>
turnVars == <<provider, pc, spending, generation, answer, outcome, audited>>

Mode == {"db", "general", "other"}
Plan == [mode : {"db", "general"}, sql : Call \cup {Missing}, answer : Call \cup {Missing}]

ASSUME NoPlanIsMissing == Missing \notin Plan

TurnTypeOK ==
  /\ provider \in Provider
  /\ pc \in {"rewrite", "cache", "sql", "execute", "stream", "reading",
             "fallback", "audit", "suggest", "topup", "done"}
  /\ calls \in Nat /\ whole \subseteq Call
  /\ tally \in [Call -> Nat]
  /\ attempt \in 1..MaxSQLAttempts
  /\ first \in [mode : Mode, answer : Call \cup {Missing}] \cup {Missing}
  /\ passed \subseteq Call /\ garbled \subseteq Call
  /\ plan \in Plan \cup {Missing}
  /\ chunks \in Seq(Call) /\ shown \in Seq(Call)
  /\ outcome \in {"none", "answer", "general", "error"}
  /\ audited \in [Call -> Nat] \cup {Missing}

TurnInit ==
  /\ provider \in Provider
  /\ pc = "rewrite"
  /\ calls = 0 /\ whole = {} /\ tally = [n \in Call |-> 0]
  /\ attempt = 1 /\ first = Missing /\ passed = {} /\ garbled = {} /\ plan = Missing
  /\ chunks = <<>> /\ shown = <<>>
  /\ outcome = "none"
  /\ audited = Missing

-----------------------------------------------------------------------------
(* Calls.                                                                  *)

n == calls + 1

\* record_usage.
Recorded(k) == [tally EXCEPT ![k] = @ + 1]

\* The whole response arrives, and its usage is recorded before it is used.
Returns ==
  /\ calls' = n
  /\ whole' = whole \cup {n}
  /\ tally' = Recorded(n)

\* No response, an error status, a body that is no JSON, a timeout.
Fails ==
  /\ calls' = n
  /\ UNCHANGED <<whole, tally>>

Goto(stage) == pc' = stage /\ UNCHANGED <<provider, audited>>

\* An exception that run catches.
GiveUp ==
  /\ Goto("audit") /\ outcome' = "error"
  /\ UNCHANGED answer

-----------------------------------------------------------------------------
\* maybe_rewrite never raises; most questions need no call.
Rewrite ==
  /\ pc = "rewrite"
  /\ Returns \/ Fails \/ UNCHANGED spending
  /\ Goto("cache")
  /\ UNCHANGED <<generation, answer, outcome>>

\* The SQL comes from the query cache, or the LLM has to write it.
Lookup ==
  /\ pc = "cache"
  /\ \/ \E stage \in {"sql", "execute"} : Goto(stage)
        /\ UNCHANGED <<answer, outcome>>
     \/ GiveUp
  /\ UNCHANGED <<spending, generation>>

\* Mistake: the last attempt is not validated.
Accepted_Unchecked(last) == IF last THEN TRUE ELSE n \in passed'

\* validate returned no error for the SQL of this call.
Accepted(last) == n \in passed'

\* validate's verdict on the SQL of this call.
Validate(sql) ==
  \E ok \in BOOLEAN :
    /\ ok => sql = "some"
    /\ passed' = IF ok THEN passed \cup {n} ELSE passed

Query == [mode |-> "db", sql |-> n, answer |-> Missing]
Conversation(a) == [mode |-> "general", sql |-> Missing, answer |-> a]

\* run goes on with the plan: the user sees a conversational answer at once.
Planned(p) ==
  /\ plan' = p
  /\ IF p.mode = "db"
     THEN Goto("execute") /\ UNCHANGED <<answer, outcome>>
     ELSE /\ Goto("audit") /\ outcome' = "general"
          /\ shown' = IF p.answer = Missing THEN <<>> ELSE <<p.answer>>
          /\ UNCHANGED chunks

\* parse_llm_json returns whatever JSON it finds: what is no object, or holds
\* something else than texts, raises where it is used.
Garbled ==
  /\ Returns /\ garbled' = garbled \cup {n}
  /\ GiveUp /\ UNCHANGED <<attempt, first, passed, plan>>

MoreAttempts == attempt < MaxSQLAttempts

\* Up to MaxSQLAttempts calls, each told the error of the one before.
AskAnthropic ==
  /\ pc = "sql" /\ provider = "anthropic"
  /\ UNCHANGED <<first, garbled>>
  /\ \/ /\ Returns
        /\ Planned(Conversation(n)) /\ UNCHANGED <<attempt, passed>>
     \/ /\ Returns /\ \E sql \in {"none", "some"} : Validate(sql)
        /\ IF Accepted(~MoreAttempts)
           THEN Planned(Query) /\ UNCHANGED attempt
           ELSE /\ UNCHANGED plan
                /\ IF MoreAttempts
                   THEN /\ attempt' = attempt + 1
                        /\ Goto("sql") /\ UNCHANGED <<answer, outcome>>
                   ELSE GiveUp /\ UNCHANGED attempt
     \/ /\ Fails /\ GiveUp /\ UNCHANGED <<attempt, passed, plan>>

\* The JSON providers: the first reply.  What is no JSON is a conversation
\* without an answer.
AskFirst ==
  /\ pc = "sql" /\ provider # "anthropic" /\ attempt = 1
  /\ \/ Garbled
     \/ /\ Returns /\ UNCHANGED garbled
        /\ \E mode \in Mode, sql \in {"none", "some"}, a \in {n, Missing} :
             /\ IF mode = "db" THEN Validate(sql) ELSE UNCHANGED passed
             /\ IF Accepted(FALSE)
                THEN Planned(Query) /\ UNCHANGED <<attempt, first>>
                ELSE /\ first' = [mode |-> mode, answer |-> a]
                     /\ attempt' = 2
                     /\ Goto("sql") /\ UNCHANGED <<plan, answer, outcome>>
     \/ /\ Fails /\ GiveUp /\ UNCHANGED generation

\* Mistake: a conversation is only returned if the second reply is one too.
Conversational_OnlyBoth(mode) == first.mode = "general" /\ mode = "general"

\* The turn is a conversation: what the second call made of it matters less.
Conversational(mode) == first.mode = "general"

\* Exactly one more call, told the error or not to refuse.
AskAgain ==
  /\ pc = "sql" /\ provider # "anthropic" /\ attempt = 2
  /\ UNCHANGED <<attempt, first>>
  /\ \/ Garbled
     \/ /\ Returns /\ UNCHANGED garbled
        /\ \E mode \in Mode, sql \in {"none", "some"}, a \in {n, Missing} :
             LET query == mode = "db" /\ sql = "some" IN
             /\ IF query THEN Validate(sql) ELSE UNCHANGED passed
             /\ IF query /\ Accepted(TRUE)
                THEN Planned(Query)
                ELSE IF Conversational(mode)
                     THEN Planned(Conversation(IF a = Missing THEN first.answer ELSE a))
                     ELSE GiveUp /\ UNCHANGED plan
     \/ /\ Fails /\ GiveUp /\ UNCHANGED <<passed, garbled, plan>>

\* MySQL returns rows to talk about; without rows the answer is a fixed
\* sentence; anything else ends the turn.
Execute ==
  /\ pc = "execute"
  /\ \/ Goto("stream") /\ UNCHANGED outcome
     \/ Goto("audit") /\ outcome' = "answer"
     \/ Goto("audit") /\ outcome' = "error"
  /\ UNCHANGED <<spending, generation, answer>>

-----------------------------------------------------------------------------
(* stream_answer, read to its end by stream_answer_text.                   *)

Open ==
  /\ pc = "stream"
  /\ calls' = n
  /\ Goto("reading")
  /\ UNCHANGED <<whole, tally, generation, answer, outcome>>

Delta ==
  /\ pc = "reading" /\ Len(chunks) < MaxDeltas
  /\ chunks' = Append(chunks, calls)
  /\ UNCHANGED <<provider, pc, spending, generation, shown, outcome, audited>>

\* Scrubbed and regrouped; the lead-in if nothing is left.
Answered(pieces) ==
  /\ chunks' = pieces
  /\ shown' = pieces
  /\ Goto("audit") /\ outcome' = "answer"

\* Mistake: a broken stream is always replaced by a call that is not one.
Fallback_Always == provider # "anthropic"

\* Nothing was streamed at all.
Fallback == provider # "anthropic" /\ chunks = <<>>

\* The stream is over, or broken where that is not an error.
StreamOver ==
  \/ Fallback /\ Goto("fallback") /\ UNCHANGED <<answer, outcome>>
  \/ ~Fallback /\ Answered(chunks)

\* The last event holds the usage of the stream, if it comes.
UsageArrives == whole' = whole \cup {calls} /\ tally' = Recorded(calls)

StreamEnds ==
  /\ pc = "reading"
  /\ UsageArrives \/ UNCHANGED <<whole, tally>>
  /\ StreamOver
  /\ UNCHANGED <<calls, generation>>

\* A transport error, which only Anthropic's provider reports, or anything
\* else that is raised while the stream is read.
StreamBreaks ==
  /\ pc = "reading"
  /\ UNCHANGED <<whole, tally>> \/ (provider # "anthropic" /\ UsageArrives)
  /\ GiveUp \/ (provider # "anthropic" /\ StreamOver)
  /\ UNCHANGED <<calls, generation>>

\* A text of nothing adds nothing to the pieces.
AskWithoutStream ==
  /\ pc = "fallback"
  /\ \/ Returns /\ \E pieces \in {chunks, Append(chunks, n)} : Answered(pieces)
     \/ Fails /\ GiveUp
  /\ UNCHANGED generation

-----------------------------------------------------------------------------
\* _audit never raises, and may write no row.
Audit ==
  /\ pc = "audit"
  /\ audited' \in {tally, Missing}
  /\ pc' = IF outcome = "answer" THEN "suggest" ELSE "done"
  /\ UNCHANGED <<provider, spending, generation, answer, outcome>>

\* Failures and the timeout of the suggestions are swallowed.
Suggest ==
  /\ pc = "suggest"
  /\ Returns \/ Fails
  /\ Goto("topup")
  /\ UNCHANGED <<generation, answer, outcome>>

\* Mistake: the tally is added to what the row holds.
ToppedUp_Added == [k \in Call |-> audited[k] + tally[k]]

ToppedUp == tally

\* The token columns are set again, if there is a row and unless the
\* savepoint fails.
TopUp ==
  /\ pc = "topup"
  /\ audited' = audited \/ (audited # Missing /\ audited' = ToppedUp)
  /\ pc' = "done"
  /\ UNCHANGED <<provider, spending, generation, answer, outcome>>

TurnOver == pc = "done" /\ UNCHANGED turnVars

TurnNext ==
  \/ Rewrite \/ Lookup \/ AskAnthropic \/ AskFirst \/ AskAgain \/ Execute
  \/ Open \/ Delta \/ StreamEnds \/ StreamBreaks \/ AskWithoutStream
  \/ Audit \/ Suggest \/ TopUp \/ TurnOver

TurnSpec == TurnInit /\ [][TurnNext]_turnVars

-----------------------------------------------------------------------------
(* "If `validate` is provided, the returned SQL must have passed it",      *)
(* after however many attempts (LLMProvider.generate_sql).                 *)
ReturnedSQLPassed ==
  plan # Missing => (plan.mode = "db" => plan.sql \in passed)

(* The user never sees two answers in one message: its pieces all come     *)
(* from one call (stream_answer, "a truncated single answer beats a        *)
(* duplicated one").                                                       *)
OneAnswer == \A i, j \in 1..Len(chunks) : chunks[i] = chunks[j]

(* "A general question is a valid outcome, not a failure": a question the  *)
(* model answers in conversation is not turned into an error by the call   *)
(* that asks for SQL again, unless that call itself fails or its reply is  *)
(* garbled (generate_sql of the JSON providers).                           *)
ConversationsSurvive ==
  outcome = "error" /\ plan = Missing /\ first # Missing =>
    (first.mode = "general" => calls \notin whole \ garbled)

(* The audit row, if it is written, holds no tokens that were not spent    *)
(* and none twice ("an undercount, never an overcount"), and misses only   *)
(* calls whose response did not arrive or, if it could not be updated, the *)
(* suggestions (llm/usage.py, ChatPipeline.run).                           *)
SpendingIsAudited ==
  pc = "done" /\ audited # Missing =>
    /\ \A k \in Call : audited[k] <= 1 /\ (audited[k] = 1 => k \in whole)
    /\ \A k \in whole : audited[k] = 1 \/ (outcome = "answer" /\ k = calls)
=============================================================================
