----------------------------- MODULE LLMTurnProofs -----------------------------
(***************************************************************************)
(* What holds of the LLM calls of a turn, for every set of providers and   *)
(* every number of attempts.                                               *)
(***************************************************************************)
EXTENDS LLMTurn, TLAPS

Early == {"rewrite", "cache", "sql", "execute", "stream"}

\* The first reply of a JSON provider, as far as it matters later.
Reply == [mode : Mode, answer : Call \cup {Missing}]

\* How many calls can have been made where the turn stands.
CallsBound ==
  /\ pc = "rewrite" => calls = 0
  /\ pc = "cache" => calls <= 1
  /\ pc = "sql" => calls <= attempt
  /\ pc \in {"execute", "stream"} => calls <= MaxSQLAttempts + 1
  /\ pc \in {"reading", "fallback"} => calls <= MaxSQLAttempts + 2
  /\ pc \in {"audit", "suggest"} => calls <= MaxSQLAttempts + 3
  /\ calls <= MaxSQLAttempts + 4
  /\ pc \in {"rewrite", "cache"} => attempt = 1
  /\ pc = "sql" /\ provider # "anthropic" /\ attempt # 1 =>
       first \in Reply

\* The usage of a call is recorded when its response is complete, once.
TallyIsTrue ==
  /\ whole \subseteq 1..calls
  /\ \A k \in Call : tally[k] = (IF k \in whole THEN 1 ELSE 0)
  /\ pc = "reading" => calls >= 1 /\ calls \notin whole

\* All that was yielded came with the stream, or with the one call after it.
OneSource ==
  /\ pc \in Early \cup {"fallback"} => chunks = <<>>
  /\ pc = "reading" => \A i \in 1..Len(chunks) : chunks[i] = calls
  /\ OneAnswer

\* The row is written from the tally, and the suggestions come after it.
RowIsTrue ==
  /\ pc = "suggest" => audited \in {tally, Missing}
  /\ pc \in {"topup", "done"} /\ audited # Missing =>
       /\ \A k \in Call : audited[k] <= 1 /\ (audited[k] = 1 => k \in whole)
       /\ \A k \in whole : audited[k] = 1 \/ (outcome = "answer" /\ k = calls)
  /\ pc \in {"suggest", "topup"} => outcome = "answer"

\* The inductive invariant.
IInv == TurnTypeOK /\ CallsBound /\ TallyIsTrue /\ OneSource /\ RowIsTrue /\ ReturnedSQLPassed

\* What the call of generate_sql comes to: another attempt, a query that
\* passed, a conversation, or the end of the turn.
Attempted ==
  /\ pc = "sql"
  /\ Returns \/ Fails
  /\ UNCHANGED <<provider, audited, chunks>>
  /\ passed' \in {passed, passed \cup {n}}
  /\ garbled' \in {garbled, garbled \cup {n}}
  /\ first' \in Reply \cup {first}
  /\ \/ /\ pc' = "sql" /\ attempt' = attempt + 1 /\ attempt < MaxSQLAttempts
        /\ provider # "anthropic" => first' \in Reply
        /\ UNCHANGED <<plan, shown, outcome>>
     \/ /\ pc' = "execute" /\ attempt' = attempt
        /\ plan' = Query /\ n \in passed'
        /\ UNCHANGED <<shown, outcome>>
     \/ /\ pc' = "audit" /\ attempt' = attempt /\ outcome' = "general"
        /\ \E a \in Call \cup {Missing} : plan' = Conversation(a)
        /\ shown' \in Seq(Call)
     \/ /\ pc' = "audit" /\ attempt' = attempt /\ outcome' = "error"
        /\ UNCHANGED <<plan, shown>>

\* The tally after a step is as true as before.
Paid ==
  /\ whole' \in SUBSET Call /\ tally' \in [Call -> Nat]
  /\ whole' \subseteq 1..calls'
  /\ \A k \in Call : tally'[k] = (IF k \in whole' THEN 1 ELSE 0)

-----------------------------------------------------------------------------
(* The calls.                                                              *)

\* There is a number left for the next call wherever one is made.
LEMMA NumbersLast ==
  ASSUME TurnTypeOK, CallsBound,
         pc \in {"rewrite", "cache", "sql", "execute", "stream", "reading", "fallback", "suggest"}
  PROVE  n \in Call /\ n \in Nat /\ n = calls + 1
BY LLMTurnAssumption DEF TurnTypeOK, CallsBound, Call, n

LEMMA Spends ==
  ASSUME TurnTypeOK, TallyIsTrue, n \in Call, Returns \/ Fails \/ UNCHANGED spending
  PROVE  Paid /\ calls' \in {calls, n}
<1> USE LLMTurnAssumption DEF Paid
<1>1. CASE Returns
  <2>1. calls' = calls + 1 /\ whole' = whole \cup {calls + 1}
    BY <1>1 DEF Returns, n
  <2>2. tally' = [tally EXCEPT ![calls + 1] = @ + 1]
    BY <1>1 DEF Returns, Recorded, n
  <2>3. calls + 1 \notin whole /\ tally[calls + 1] = 0
    BY DEF TurnTypeOK, TallyIsTrue, n
  <2>4. tally' \in [Call -> Nat]
    BY <2>2 DEF TurnTypeOK, n
  <2>5. \A k \in Call : tally'[k] = (IF k \in whole' THEN 1 ELSE 0)
    BY <2>1, <2>2, <2>3 DEF TurnTypeOK, TallyIsTrue, n
  <2> QED
    BY <2>1, <2>4, <2>5 DEF TurnTypeOK, TallyIsTrue, n
<1>2. CASE Fails
  BY <1>2 DEF Fails, TurnTypeOK, TallyIsTrue, n
<1>3. CASE UNCHANGED spending
  BY <1>3 DEF spending, TurnTypeOK, TallyIsTrue, n
<1> QED
  BY <1>1, <1>2, <1>3

\* The usage of the stream that is being read.
LEMMA StreamSpends ==
  ASSUME TurnTypeOK, TallyIsTrue, CallsBound, pc = "reading", calls' = calls,
         UsageArrives \/ UNCHANGED <<whole, tally>>
  PROVE  Paid
<1> USE DEF Paid
<1>1. calls \in Call /\ calls \notin whole /\ tally[calls] = 0
  BY LLMTurnAssumption DEF TurnTypeOK, TallyIsTrue, CallsBound, Call
<1>2. CASE UsageArrives
  <2>1. tally' = [tally EXCEPT ![calls] = @ + 1]
    BY <1>2 DEF UsageArrives, Recorded
  <2>2. whole' = whole \cup {calls}
    BY <1>2 DEF UsageArrives
  <2>3. tally' \in [Call -> Nat]
    BY <2>1, <1>1 DEF TurnTypeOK
  <2>4. \A k \in Call : tally'[k] = (IF k \in whole' THEN 1 ELSE 0)
    BY <2>1, <2>2, <1>1 DEF TurnTypeOK, TallyIsTrue
  <2> QED
    BY <2>2, <2>3, <2>4, <1>1 DEF TurnTypeOK, TallyIsTrue
<1>3. CASE UNCHANGED <<whole, tally>>
  BY <1>3 DEF TurnTypeOK, TallyIsTrue
<1> QED
  BY <1>2, <1>3

\* The two together, as the steps use them.
LEMMA Calling ==
  ASSUME TurnTypeOK, CallsBound, TallyIsTrue,
         pc \in {"rewrite", "sql", "fallback", "suggest"},
         Returns \/ Fails \/ UNCHANGED spending
  PROVE  Paid /\ calls' \in {calls, n} /\ n \in Call /\ n = calls + 1
BY NumbersLast, Spends

\* Each provider's attempt is one of the four.
LEMMA Attempts ==
  ASSUME TurnTypeOK, CallsBound, AskAnthropic \/ AskFirst \/ AskAgain
  PROVE  Attempted
<1> USE LLMTurnAssumption DEF TurnTypeOK, Goto, GiveUp, answer
<1>1. n \in Call
  BY NumbersLast DEF AskAnthropic, AskFirst, AskAgain
<1>2. \A a \in Call \cup {Missing} : Planned(Conversation(a)) =>
        /\ pc' = "audit" /\ outcome' = "general" /\ plan' = Conversation(a)
        /\ shown' \in Seq(Call) /\ UNCHANGED <<provider, audited, chunks>>
  <2> SUFFICES ASSUME NEW a \in Call \cup {Missing}, Planned(Conversation(a))
               PROVE  /\ pc' = "audit" /\ outcome' = "general" /\ plan' = Conversation(a)
                      /\ shown' \in Seq(Call) /\ UNCHANGED <<provider, audited, chunks>>
    OBVIOUS
  <2>1. Conversation(a).mode = "general" /\ Conversation(a).answer = a
    BY DEF Conversation
  <2>2. <<>> \in Seq(Call) /\ (a # Missing => <<a>> \in Seq(Call))
    OBVIOUS
  <2> QED
    BY <2>1, <2>2 DEF Planned
<1>3. Planned(Query) =>
        /\ pc' = "execute" /\ plan' = Query
        /\ UNCHANGED <<provider, audited, chunks, shown, outcome>>
  BY DEF Planned, Query
<1>4. CASE AskAnthropic
  <2>0. pc = "sql" /\ provider = "anthropic" /\ first' = first /\ garbled' = garbled
    BY <1>4 DEF AskAnthropic
  <2>1. CASE Returns /\ Planned(Conversation(n)) /\ UNCHANGED <<attempt, passed>>
    BY <1>1, <1>2, <2>0, <2>1 DEF Attempted
  <2>2. CASE \E sql \in {"none", "some"} :
               /\ Returns /\ Validate(sql)
               /\ IF Accepted(~MoreAttempts)
                  THEN Planned(Query) /\ UNCHANGED attempt
                  ELSE /\ UNCHANGED plan
                       /\ IF MoreAttempts
                          THEN /\ attempt' = attempt + 1
                               /\ Goto("sql") /\ UNCHANGED <<answer, outcome>>
                          ELSE GiveUp /\ UNCHANGED attempt
    <3>1. passed' \in {passed, passed \cup {n}}
      BY <2>2 DEF Validate
    <3> QED
      BY <1>3, <2>0, <2>2, <3>1 DEF Attempted, Accepted, MoreAttempts
  <2>3. CASE Fails /\ GiveUp /\ UNCHANGED <<attempt, passed, plan>>
    BY <2>0, <2>3 DEF Attempted
  <2> QED
    BY <1>4, <2>1, <2>2, <2>3 DEF AskAnthropic
<1>5. CASE AskFirst
  <2>0. pc = "sql" /\ provider # "anthropic" /\ attempt = 1
    BY <1>5 DEF AskFirst
  <2>1. CASE Garbled
    BY <2>0, <2>1 DEF Attempted, Garbled
  <2>2. CASE /\ Returns /\ UNCHANGED garbled
             /\ \E mode \in Mode, sql \in {"none", "some"}, a \in {n, Missing} :
                  /\ IF mode = "db" THEN Validate(sql) ELSE UNCHANGED passed
                  /\ IF Accepted(FALSE)
                     THEN Planned(Query) /\ UNCHANGED <<attempt, first>>
                     ELSE /\ first' = [mode |-> mode, answer |-> a]
                          /\ attempt' = 2
                          /\ Goto("sql") /\ UNCHANGED <<plan, answer, outcome>>
    <3>1. passed' \in {passed, passed \cup {n}}
      BY <2>2 DEF Validate
    <3>2. CASE Planned(Query) /\ n \in passed' /\ UNCHANGED <<attempt, first>>
      BY <1>3, <2>0, <2>2, <3>1, <3>2 DEF Attempted
    <3>3. CASE \E mode \in Mode, a \in {n, Missing} :
                 /\ first' = [mode |-> mode, answer |-> a]
                 /\ attempt' = 2
                 /\ Goto("sql") /\ UNCHANGED <<plan, answer, outcome>>
      <4>1. first' \in Reply
        BY <1>1, <3>3 DEF Reply
      <4>2. attempt' = attempt + 1 /\ attempt < MaxSQLAttempts
        BY <2>0, <3>3
      <4> QED
        BY <2>0, <2>2, <3>1, <3>3, <4>1, <4>2 DEF Attempted, Reply
    <3> QED
      BY <2>2, <3>2, <3>3 DEF Accepted
  <2>3. CASE Fails /\ GiveUp /\ UNCHANGED generation
    BY <2>0, <2>3 DEF Attempted, generation
  <2> QED
    BY <1>5, <2>1, <2>2, <2>3 DEF AskFirst
<1>6. CASE AskAgain
  <2>0. pc = "sql" /\ attempt' = attempt /\ first' = first
    BY <1>6 DEF AskAgain
  <2>1. first \in Reply
    BY <1>6 DEF AskAgain, CallsBound
  <2>2. \A a \in {n, Missing} : (IF a = Missing THEN first.answer ELSE a) \in Call \cup {Missing}
  BY <2>1, <1>1 DEF Reply  <2>3. CASE Garbled
    BY <2>0, <2>3 DEF Attempted, Garbled
  <2>4. CASE Fails /\ GiveUp /\ UNCHANGED <<passed, garbled, plan>>
    BY <2>0, <2>4 DEF Attempted
  <2>5. CASE /\ Returns /\ UNCHANGED garbled
             /\ \E mode \in Mode, sql \in {"none", "some"}, a \in {n, Missing} :
                  LET query == mode = "db" /\ sql = "some" IN
                  /\ IF query THEN Validate(sql) ELSE UNCHANGED passed
                  /\ IF query /\ Accepted(TRUE)
                     THEN Planned(Query)
                     ELSE IF Conversational(mode)
                          THEN Planned(Conversation(IF a = Missing THEN first.answer ELSE a))
                          ELSE GiveUp /\ UNCHANGED plan
    <3>1. passed' \in {passed, passed \cup {n}}
      BY <2>5 DEF Validate
    <3>2. CASE Planned(Query) /\ n \in passed'
      BY <1>3, <2>0, <2>5, <3>1, <3>2 DEF Attempted
    <3>3. CASE \E a \in Call \cup {Missing} : Planned(Conversation(a))
      BY <1>2, <2>0, <2>5, <3>1, <3>3 DEF Attempted
    <3>4. CASE GiveUp /\ UNCHANGED plan
      BY <2>0, <2>5, <3>1, <3>4 DEF Attempted
    <3> QED
      BY <2>2, <2>5, <3>2, <3>3, <3>4 DEF Accepted
  <2> QED
    BY <1>6, <2>3, <2>4, <2>5 DEF AskAgain
<1> QED
  BY <1>4, <1>5, <1>6

-----------------------------------------------------------------------------
\* The types, step by step.
LEMMA Typed == IInv /\ [TurnNext]_turnVars => TurnTypeOK'
<1> SUFFICES ASSUME IInv, [TurnNext]_turnVars PROVE TurnTypeOK'
  OBVIOUS
<1> USE LLMTurnAssumption DEF IInv
<1>1. CASE Rewrite
  <2>1. Paid /\ calls' \in {calls, n} /\ n \in Call /\ n = calls + 1
    BY <1>1, Calling DEF Rewrite
  <2> QED
    BY <2>1, <1>1 DEF TurnTypeOK, Paid, Rewrite, Goto, generation, answer
<1>2. CASE Lookup
  BY <1>2 DEF TurnTypeOK, Lookup, Goto, GiveUp, spending, generation, answer
<1>3. CASE AskAnthropic \/ AskFirst \/ AskAgain
  <2>1. Attempted
    BY <1>3, Attempts
  <2>2. Paid /\ calls' \in {calls, n} /\ n \in Call /\ n = calls + 1
    BY <2>1, Calling DEF Attempted
  <2>3. provider' \in Provider /\ chunks' \in Seq(Call) /\ shown' \in Seq(Call)
    BY <2>1 DEF Attempted, TurnTypeOK
  <2>4. passed' \subseteq Call /\ garbled' \subseteq Call
    BY <2>1, <2>2 DEF Attempted, TurnTypeOK
  <2>5. first' \in Reply \cup {Missing} /\ attempt' \in 1..MaxSQLAttempts
    BY <2>1 DEF Attempted, TurnTypeOK, Reply
  <2>6. Query \in Plan /\ \A a \in Call \cup {Missing} : Conversation(a) \in Plan
    BY <2>2 DEF Query, Conversation, Plan
  <2>7. plan' \in Plan \cup {Missing}
    BY <2>1, <2>6 DEF Attempted, TurnTypeOK
  <2>8. audited' \in [Call -> Nat] \cup {Missing}
    BY <2>1 DEF Attempted, TurnTypeOK
  <2>9. /\ pc' \in {"sql", "execute", "audit"}
        /\ outcome' \in {outcome, "general", "error"}
    BY <2>1 DEF Attempted
  <2> QED
    BY <2>2, <2>3, <2>4, <2>5, <2>7, <2>8, <2>9 DEF TurnTypeOK, Reply, Paid
<1>4. CASE Execute
  BY <1>4 DEF TurnTypeOK, Execute, Goto, spending, generation, answer
<1>5. CASE Open
  BY <1>5 DEF TurnTypeOK, Open, n, Goto, generation, answer, Call, CallsBound
<1>6. CASE Delta
  <2>1. calls \in Call
    BY <1>6 DEF Delta, TurnTypeOK, TallyIsTrue, CallsBound, Call
  <2>2. Append(chunks, calls) \in Seq(Call)
    BY <2>1 DEF TurnTypeOK
  <2> QED
    BY <1>6, <2>2 DEF TurnTypeOK, Delta, spending, generation
<1>7. CASE StreamEnds
  <2>1. Paid /\ calls' = calls
    BY <1>7, StreamSpends DEF StreamEnds
  <2> QED
    BY <2>1, <1>7 DEF TurnTypeOK, Paid, StreamEnds, StreamOver, Fallback,
       Answered, Goto, generation, answer
<1>8. CASE StreamBreaks
  <2>1. Paid /\ calls' = calls
    BY <1>8, StreamSpends DEF StreamBreaks
  <2> QED
    BY <2>1, <1>8 DEF TurnTypeOK, Paid, StreamBreaks, StreamOver, Fallback,
       Answered, Goto, GiveUp, generation, answer
<1>9. CASE AskWithoutStream
  <2>1. Paid /\ calls' \in {calls, n} /\ n \in Call /\ n = calls + 1
    BY <1>9, Calling DEF AskWithoutStream
  <2>2. Append(chunks, n) \in Seq(Call)
    BY <2>1 DEF TurnTypeOK
  <2>3. chunks' \in Seq(Call) /\ shown' \in Seq(Call)
    BY <1>9, <2>2 DEF AskWithoutStream, Answered, GiveUp, answer, TurnTypeOK
  <2>4. /\ pc' = "audit" /\ outcome' \in {"answer", "error"}
        /\ UNCHANGED <<provider, audited, generation>>
    BY <1>9 DEF AskWithoutStream, Answered, GiveUp, Goto
  <2> QED
    BY <2>1, <2>3, <2>4 DEF TurnTypeOK, Paid, generation
<1>10. CASE Audit
  BY <1>10 DEF TurnTypeOK, Audit, spending, generation, answer
<1>11. CASE Suggest
  <2>1. Paid /\ calls' \in {calls, n} /\ n \in Call /\ n = calls + 1
    BY <1>11, Calling DEF Suggest
  <2> QED
    BY <2>1, <1>11 DEF TurnTypeOK, Paid, Suggest, Goto, generation, answer
<1>12. CASE TopUp
  BY <1>12 DEF TurnTypeOK, TopUp, ToppedUp, spending, generation, answer
<1>13. CASE TurnOver \/ UNCHANGED turnVars
  BY <1>13 DEF TurnTypeOK, TurnOver, spending, generation, answer, turnVars
<1> QED
  BY <1>1, <1>2, <1>3, <1>4, <1>5, <1>6, <1>7, <1>8, <1>9, <1>10, <1>11, <1>12,
     <1>13 DEF TurnNext

-----------------------------------------------------------------------------
\* The number of calls, step by step.
LEMMA Bounded == IInv /\ [TurnNext]_turnVars => CallsBound'
<1> SUFFICES ASSUME IInv, [TurnNext]_turnVars PROVE CallsBound'
  OBVIOUS
<1> USE LLMTurnAssumption DEF IInv
<1>1. CASE Rewrite
  <2>1. Paid /\ calls' \in {calls, n} /\ n \in Call /\ n = calls + 1
    BY <1>1, Calling DEF Rewrite
  <2> QED
    BY <2>1, <1>1 DEF TurnTypeOK, CallsBound, Paid, Rewrite, Goto, generation,
       answer
<1>2. CASE Lookup
  BY <1>2 DEF TurnTypeOK, CallsBound, Lookup, Goto, GiveUp, spending,
     generation, answer
<1>3. CASE AskAnthropic \/ AskFirst \/ AskAgain
  <2>1. Attempted
    BY <1>3, Attempts
  <2>2. Paid /\ calls' \in {calls, n} /\ n \in Call /\ n = calls + 1
    BY <2>1, Calling DEF Attempted
  <2> QED
    BY <2>1, <2>2 DEF TurnTypeOK, CallsBound, Paid, Attempted
<1>4. CASE Execute
  BY <1>4 DEF TurnTypeOK, CallsBound, Execute, Goto, spending, generation,
     answer
<1>5. CASE Open
  BY <1>5 DEF TurnTypeOK, CallsBound, Open, n, Goto, generation, answer
<1>6. CASE Delta
  BY <1>6 DEF TurnTypeOK, CallsBound, Delta, spending, generation
<1>7. CASE StreamEnds
  BY <1>7 DEF TurnTypeOK, CallsBound, StreamEnds, StreamOver, Fallback,
     Answered, Goto, generation, answer
<1>8. CASE StreamBreaks
  BY <1>8 DEF TurnTypeOK, CallsBound, StreamBreaks, StreamOver, Fallback,
     Answered, Goto, GiveUp, generation, answer
<1>9. CASE AskWithoutStream
  <2>1. Paid /\ calls' \in {calls, n} /\ n \in Call /\ n = calls + 1
    BY <1>9, Calling DEF AskWithoutStream
  <2> QED
    BY <2>1, <1>9 DEF TurnTypeOK, CallsBound, Paid, AskWithoutStream, Answered,
       Goto, GiveUp, generation, answer
<1>10. CASE Audit
  BY <1>10 DEF TurnTypeOK, CallsBound, Audit, spending, generation, answer
<1>11. CASE Suggest
  <2>1. Paid /\ calls' \in {calls, n} /\ n \in Call /\ n = calls + 1
    BY <1>11, Calling DEF Suggest
  <2> QED
    BY <2>1, <1>11 DEF TurnTypeOK, CallsBound, Paid, Suggest, Goto, generation,
       answer
<1>12. CASE TopUp
  BY <1>12 DEF TurnTypeOK, CallsBound, TopUp, ToppedUp, spending, generation,
     answer
<1>13. CASE TurnOver \/ UNCHANGED turnVars
  BY <1>13 DEF TurnTypeOK, CallsBound, TurnOver, spending, generation, answer, turnVars
<1> QED
  BY <1>1, <1>2, <1>3, <1>4, <1>5, <1>6, <1>7, <1>8, <1>9, <1>10, <1>11, <1>12,
     <1>13 DEF TurnNext

-----------------------------------------------------------------------------
\* The tally, step by step.
LEMMA Tallied == IInv /\ [TurnNext]_turnVars => TallyIsTrue'
<1> SUFFICES ASSUME IInv, [TurnNext]_turnVars PROVE TallyIsTrue'
  OBVIOUS
<1> USE LLMTurnAssumption DEF IInv
<1>1. CASE Rewrite
  <2>1. Paid /\ calls' \in {calls, n} /\ n \in Call /\ n = calls + 1
    BY <1>1, Calling DEF Rewrite
  <2> QED
    BY <2>1, <1>1 DEF TurnTypeOK, TallyIsTrue, Paid, Rewrite, Goto, generation,
       answer
<1>2. CASE Lookup
  BY <1>2 DEF TurnTypeOK, TallyIsTrue, Lookup, Goto, GiveUp, spending,
     generation, answer
<1>3. CASE AskAnthropic \/ AskFirst \/ AskAgain
  <2>1. Attempted
    BY <1>3, Attempts
  <2>2. Paid /\ calls' \in {calls, n} /\ n \in Call /\ n = calls + 1
    BY <2>1, Calling DEF Attempted
  <2> QED
    BY <2>1, <2>2 DEF TurnTypeOK, TallyIsTrue, Paid, Attempted
<1>4. CASE Execute
  BY <1>4 DEF TurnTypeOK, TallyIsTrue, Execute, Goto, spending, generation,
     answer
<1>5. CASE Open
  BY <1>5 DEF TurnTypeOK, TallyIsTrue, Open, n, Goto, generation, answer, Call,
     CallsBound
<1>6. CASE Delta
  BY <1>6 DEF TurnTypeOK, TallyIsTrue, Delta, spending, generation
<1>7. CASE StreamEnds
  <2>1. Paid /\ calls' = calls
    BY <1>7, StreamSpends DEF StreamEnds
  <2> QED
    BY <2>1, <1>7 DEF TurnTypeOK, TallyIsTrue, Paid, StreamEnds, StreamOver,
       Fallback, Answered, Goto, generation, answer
<1>8. CASE StreamBreaks
  <2>1. Paid /\ calls' = calls
    BY <1>8, StreamSpends DEF StreamBreaks
  <2> QED
    BY <2>1, <1>8 DEF TurnTypeOK, TallyIsTrue, Paid, StreamBreaks, StreamOver,
       Fallback, Answered, Goto, GiveUp, generation, answer
<1>9. CASE AskWithoutStream
  <2>1. Paid /\ calls' \in {calls, n} /\ n \in Call /\ n = calls + 1
    BY <1>9, Calling DEF AskWithoutStream
  <2> QED
    BY <2>1, <1>9 DEF TurnTypeOK, TallyIsTrue, Paid, AskWithoutStream, Answered,
       Goto, GiveUp, generation, answer
<1>10. CASE Audit
  BY <1>10 DEF TurnTypeOK, TallyIsTrue, Audit, spending, generation, answer
<1>11. CASE Suggest
  <2>1. Paid /\ calls' \in {calls, n} /\ n \in Call /\ n = calls + 1
    BY <1>11, Calling DEF Suggest
  <2> QED
    BY <2>1, <1>11 DEF TurnTypeOK, TallyIsTrue, Paid, Suggest, Goto, generation,
       answer
<1>12. CASE TopUp
  BY <1>12 DEF TurnTypeOK, TallyIsTrue, TopUp, ToppedUp, spending, generation,
     answer
<1>13. CASE TurnOver \/ UNCHANGED turnVars
  BY <1>13 DEF TurnTypeOK, TallyIsTrue, TurnOver, spending, generation, answer, turnVars
<1> QED
  BY <1>1, <1>2, <1>3, <1>4, <1>5, <1>6, <1>7, <1>8, <1>9, <1>10, <1>11, <1>12,
     <1>13 DEF TurnNext

-----------------------------------------------------------------------------
\* The pieces of the answer, step by step.
LEMMA Sourced == IInv /\ [TurnNext]_turnVars => OneSource'
<1> SUFFICES ASSUME IInv, [TurnNext]_turnVars PROVE OneSource'
  OBVIOUS
<1> USE LLMTurnAssumption DEF IInv
<1>1. CASE Rewrite
  BY <1>1 DEF TurnTypeOK, OneSource, OneAnswer, Early, Rewrite, Goto,
     generation, answer
<1>2. CASE Lookup
  BY <1>2 DEF TurnTypeOK, OneSource, OneAnswer, Early, Lookup, Goto, GiveUp,
     spending, generation, answer
<1>3. CASE AskAnthropic \/ AskFirst \/ AskAgain
  <2>1. Attempted
    BY <1>3, Attempts
  <2> QED
    BY <2>1 DEF TurnTypeOK, OneSource, OneAnswer, Early, Attempted
<1>4. CASE Execute
  BY <1>4 DEF TurnTypeOK, OneSource, OneAnswer, Early, Execute, Goto, spending,
     generation, answer
<1>5. CASE Open
  BY <1>5 DEF TurnTypeOK, OneSource, OneAnswer, Early, Open, n, Goto,
     generation, answer
<1>6. CASE Delta
  BY <1>6 DEF TurnTypeOK, OneSource, OneAnswer, Early, Delta, spending,
     generation
<1>7. CASE StreamEnds
  BY <1>7 DEF TurnTypeOK, OneSource, OneAnswer, Early, StreamEnds, StreamOver,
     Fallback, Answered, Goto, generation, answer
<1>8. CASE StreamBreaks
  BY <1>8 DEF TurnTypeOK, OneSource, OneAnswer, Early, StreamBreaks, StreamOver,
     Fallback, Answered, Goto, GiveUp, generation, answer
<1>9. CASE AskWithoutStream
  BY <1>9 DEF TurnTypeOK, OneSource, OneAnswer, Early, AskWithoutStream,
     Answered, Goto, GiveUp, generation, answer
<1>10. CASE Audit
  BY <1>10 DEF TurnTypeOK, OneSource, OneAnswer, Early, Audit, spending,
     generation, answer
<1>11. CASE Suggest
  BY <1>11 DEF TurnTypeOK, OneSource, OneAnswer, Early, Suggest, Goto,
     generation, answer
<1>12. CASE TopUp
  BY <1>12 DEF TurnTypeOK, OneSource, OneAnswer, Early, TopUp, ToppedUp,
     spending, generation, answer
<1>13. CASE TurnOver \/ UNCHANGED turnVars
  BY <1>13 DEF TurnTypeOK, OneSource, OneAnswer, Early, TurnOver, spending,
     generation, answer, turnVars
<1> QED
  BY <1>1, <1>2, <1>3, <1>4, <1>5, <1>6, <1>7, <1>8, <1>9, <1>10, <1>11, <1>12,
     <1>13 DEF TurnNext

-----------------------------------------------------------------------------
\* The audit row, step by step.
LEMMA Rowed == IInv /\ [TurnNext]_turnVars => RowIsTrue'
<1> SUFFICES ASSUME IInv, [TurnNext]_turnVars PROVE RowIsTrue'
  OBVIOUS
<1> USE LLMTurnAssumption DEF IInv
<1>1. CASE Rewrite
  <2>1. Paid /\ calls' \in {calls, n} /\ n \in Call /\ n = calls + 1
    BY <1>1, Calling DEF Rewrite
  <2> QED
    BY <2>1, <1>1 DEF TurnTypeOK, TallyIsTrue, RowIsTrue, Paid, Rewrite, Goto,
       generation, answer
<1>2. CASE Lookup
  BY <1>2 DEF TurnTypeOK, TallyIsTrue, RowIsTrue, Lookup, Goto, GiveUp,
     spending, generation, answer
<1>3. CASE AskAnthropic \/ AskFirst \/ AskAgain
  <2>1. Attempted
    BY <1>3, Attempts
  <2>2. Paid /\ calls' \in {calls, n} /\ n \in Call /\ n = calls + 1
    BY <2>1, Calling DEF Attempted
  <2> QED
    BY <2>1, <2>2 DEF TurnTypeOK, TallyIsTrue, RowIsTrue, Paid, Attempted
<1>4. CASE Execute
  BY <1>4 DEF TurnTypeOK, TallyIsTrue, RowIsTrue, Execute, Goto, spending,
     generation, answer
<1>5. CASE Open
  BY <1>5 DEF TurnTypeOK, TallyIsTrue, RowIsTrue, Open, n, Goto, generation,
     answer, Call, CallsBound
<1>6. CASE Delta
  BY <1>6 DEF TurnTypeOK, TallyIsTrue, RowIsTrue, Delta, spending, generation
<1>7. CASE StreamEnds
  <2>1. Paid /\ calls' = calls
    BY <1>7, StreamSpends DEF StreamEnds
  <2> QED
    BY <2>1, <1>7 DEF TurnTypeOK, TallyIsTrue, RowIsTrue, Paid, StreamEnds,
       StreamOver, Fallback, Answered, Goto, generation, answer
<1>8. CASE StreamBreaks
  <2>1. Paid /\ calls' = calls
    BY <1>8, StreamSpends DEF StreamBreaks
  <2> QED
    BY <2>1, <1>8 DEF TurnTypeOK, TallyIsTrue, RowIsTrue, Paid, StreamBreaks,
       StreamOver, Fallback, Answered, Goto, GiveUp, generation, answer
<1>9. CASE AskWithoutStream
  <2>1. Paid /\ calls' \in {calls, n} /\ n \in Call /\ n = calls + 1
    BY <1>9, Calling DEF AskWithoutStream
  <2> QED
    BY <2>1, <1>9 DEF TurnTypeOK, TallyIsTrue, RowIsTrue, Paid,
       AskWithoutStream, Answered, Goto, GiveUp, generation, answer
<1>10. CASE Audit
  BY <1>10 DEF TurnTypeOK, TallyIsTrue, RowIsTrue, Audit, spending, generation,
     answer
<1>11. CASE Suggest
  <2>1. Paid /\ calls' \in {calls, n} /\ n \in Call /\ n = calls + 1
    BY <1>11, Calling DEF Suggest
  <2> QED
    BY <2>1, <1>11 DEF TurnTypeOK, TallyIsTrue, RowIsTrue, Paid, Suggest, Goto,
       generation, answer, Fails, Returns, Recorded
<1>12. CASE TopUp
  BY <1>12 DEF TurnTypeOK, TallyIsTrue, RowIsTrue, TopUp, ToppedUp, spending,
     generation, answer
<1>13. CASE TurnOver \/ UNCHANGED turnVars
  BY <1>13 DEF TurnTypeOK, TallyIsTrue, RowIsTrue, TurnOver, spending, generation,
     answer, turnVars
<1> QED
  BY <1>1, <1>2, <1>3, <1>4, <1>5, <1>6, <1>7, <1>8, <1>9, <1>10, <1>11, <1>12,
     <1>13 DEF TurnNext

-----------------------------------------------------------------------------
\* The plan, step by step.
LEMMA Passed == IInv /\ [TurnNext]_turnVars => ReturnedSQLPassed'
<1> SUFFICES ASSUME IInv, [TurnNext]_turnVars PROVE ReturnedSQLPassed'
  OBVIOUS
<1> USE LLMTurnAssumption DEF IInv
<1>1. CASE Rewrite
  BY <1>1 DEF ReturnedSQLPassed, Rewrite, Goto, generation, answer
<1>2. CASE Lookup
  BY <1>2 DEF ReturnedSQLPassed, Lookup, Goto, GiveUp, spending, generation,
     answer
<1>3. CASE AskAnthropic \/ AskFirst \/ AskAgain
  <2>1. Attempted
    BY <1>3, Attempts
  <2> QED
    BY <2>1 DEF ReturnedSQLPassed, Attempted, Query, Conversation
<1>4. CASE Execute
  BY <1>4 DEF ReturnedSQLPassed, Execute, Goto, spending, generation, answer
<1>5. CASE Open
  BY <1>5 DEF ReturnedSQLPassed, Open, n, Goto, generation, answer
<1>6. CASE Delta
  BY <1>6 DEF ReturnedSQLPassed, Delta, spending, generation
<1>7. CASE StreamEnds
  BY <1>7 DEF ReturnedSQLPassed, StreamEnds, StreamOver, Fallback, Answered,
     Goto, generation, answer
<1>8. CASE StreamBreaks
  BY <1>8 DEF ReturnedSQLPassed, StreamBreaks, StreamOver, Fallback,
     Answered, Goto, GiveUp, generation, answer
<1>9. CASE AskWithoutStream
  BY <1>9 DEF ReturnedSQLPassed, AskWithoutStream, Answered, Goto, GiveUp,
     generation, answer
<1>10. CASE Audit
  BY <1>10 DEF ReturnedSQLPassed, Audit, spending, generation, answer
<1>11. CASE Suggest
  BY <1>11 DEF ReturnedSQLPassed, Suggest, Goto, generation, answer
<1>12. CASE TopUp
  BY <1>12 DEF ReturnedSQLPassed, TopUp, ToppedUp, spending, generation,
     answer
<1>13. CASE TurnOver \/ UNCHANGED turnVars
  BY <1>13 DEF ReturnedSQLPassed, TurnOver, spending, generation, answer, turnVars
<1> QED
  BY <1>1, <1>2, <1>3, <1>4, <1>5, <1>6, <1>7, <1>8, <1>9, <1>10, <1>11, <1>12,
     <1>13 DEF TurnNext

-----------------------------------------------------------------------------
\* The invariant holds in every reachable state.
THEOREM Invariance == TurnSpec => []IInv
<1>1. TurnInit => IInv
  <2> SUFFICES ASSUME TurnInit PROVE IInv
    OBVIOUS
  <2>1. TurnTypeOK
    BY LLMTurnAssumption DEF TurnInit, TurnTypeOK, Call
  <2>2. CallsBound /\ TallyIsTrue
    BY LLMTurnAssumption DEF TurnInit, CallsBound, TallyIsTrue
  <2>3. OneSource /\ RowIsTrue /\ ReturnedSQLPassed
    BY DEF TurnInit, OneSource, OneAnswer, Early, RowIsTrue, ReturnedSQLPassed
  <2> QED
    BY <2>1, <2>2, <2>3 DEF IInv
<1>2. IInv /\ [TurnNext]_turnVars => IInv'
  BY Typed, Bounded, Tallied, Sourced, Rowed, Passed DEF IInv
<1> QED
  BY <1>1, <1>2, PTL DEF TurnSpec

\* The types of a turn's state.
THEOREM TypeCorrect == TurnSpec => []TurnTypeOK
<1>1. IInv => TurnTypeOK
  BY DEF IInv
<1> QED
  BY <1>1, Invariance, PTL

\* SQL that a provider returns has passed the validate hook, whichever the
\* provider and however many attempts it took.
THEOREM Validated == TurnSpec => []ReturnedSQLPassed
<1>1. IInv => ReturnedSQLPassed
  BY DEF IInv
<1> QED
  BY <1>1, Invariance, PTL

\* A message never holds pieces of two answers.
THEOREM NeverDuplicated == TurnSpec => []OneAnswer
<1>1. IInv => OneAnswer
  BY DEF IInv, OneSource
<1> QED
  BY <1>1, Invariance, PTL

\* The audit row never overcounts, and undercounts only what it says.
THEOREM Accounted == TurnSpec => []SpendingIsAudited
<1>1. IInv => SpendingIsAudited
  BY DEF IInv, RowIsTrue, SpendingIsAudited
<1> QED
  BY <1>1, Invariance, PTL

-----------------------------------------------------------------------------
(* The first reply.                                                        *)

\* When there is none yet, and what has come of it since.
FirstIsKept ==
  /\ pc \in {"rewrite", "cache"} \/ provider = "anthropic" \/ (pc = "sql" /\ attempt = 1) =>
       first = Missing
  /\ pc \in {"execute", "stream", "reading", "fallback"} => first = Missing \/ plan # Missing
  /\ outcome = "error" => pc \in {"audit", "done"}
  /\ ConversationsSurvive

\* Giving up without a plan is in order before there is a reply, and after a call
\* that failed or was garbled.
LEMMA KeptByCalls ==
  ASSUME IInv, FirstIsKept, AskAnthropic \/ AskFirst \/ AskAgain
  PROVE  FirstIsKept'
<1> USE LLMTurnAssumption DEF IInv
<1>0. /\ TurnTypeOK /\ pc = "sql" /\ n = calls + 1 /\ n \in Nat /\ n \notin whole
      /\ whole \subseteq 1..calls /\ outcome # "error"
  <2>1. pc = "sql"
    BY DEF AskAnthropic, AskFirst, AskAgain
  <2>2. calls \in Nat /\ whole \subseteq 1..calls
    BY DEF TurnTypeOK, TallyIsTrue
  <2>3. outcome # "error"
    BY <2>1 DEF FirstIsKept
  <2>4. QED
    BY <2>1, <2>2, <2>3 DEF n
<1>1. CASE AskAnthropic
  <2>1. first = Missing /\ first' = first /\ provider = "anthropic" /\ provider' = provider
    BY <1>1 DEF AskAnthropic, FirstIsKept, Planned, Goto, GiveUp
  <2>2. pc' \in {"sql", "execute", "audit"} /\ (outcome' = "error" => pc' = "audit")
    BY <1>0, <1>1 DEF AskAnthropic, Planned, Query, Conversation, Goto, GiveUp
  <2>3. QED
    BY <2>1, <2>2 DEF FirstIsKept, ConversationsSurvive
<1>2. CASE AskFirst
  <2>1. first = Missing /\ provider # "anthropic" /\ provider' = provider
    BY <1>2 DEF AskFirst, FirstIsKept, Garbled, Planned, Goto, GiveUp
  <2>2. CASE Garbled
    BY <2>1, <2>2 DEF Garbled, GiveUp, Goto, FirstIsKept, ConversationsSurvive
  <2>3. CASE Planned(Query) /\ first' = first
    BY <1>0, <2>1, <2>3 DEF Planned, Query, Goto, FirstIsKept, ConversationsSurvive
  <2>4. CASE Goto("sql") /\ attempt' = 2 /\ outcome' = outcome
    BY <1>0, <2>1, <2>4 DEF Goto, FirstIsKept, ConversationsSurvive
  <2>5. CASE GiveUp /\ UNCHANGED generation
    BY <2>1, <2>5 DEF GiveUp, Goto, generation, FirstIsKept, ConversationsSurvive
  <2>6. QED
    BY <1>2, <2>2, <2>3, <2>4, <2>5 DEF AskFirst
<1>3. CASE AskAgain
  <2>1. first' = first /\ provider # "anthropic" /\ provider' = provider /\ attempt' = 2
    BY <1>3 DEF AskAgain, Garbled, Planned, Goto, GiveUp
  <2>2. CASE Garbled
    BY <1>0, <2>1, <2>2 DEF Garbled, Returns, GiveUp, Goto, FirstIsKept, ConversationsSurvive
  <2>3. ASSUME NEW p \in Plan, Planned(p) PROVE FirstIsKept'
    <3>1. plan' # Missing
      BY <2>3, NoPlanIsMissing DEF Planned
    <3>2. pc' \in {"execute", "audit"} /\ outcome' # "error"
      BY <1>0, <2>3 DEF Planned, Goto
    <3>3. QED
      BY <2>1, <3>1, <3>2 DEF FirstIsKept, ConversationsSurvive
  <2>4. CASE GiveUp /\ first.mode # "general"
    BY <2>1, <2>4 DEF GiveUp, Goto, FirstIsKept, ConversationsSurvive
  <2>5. CASE Fails /\ GiveUp
    BY <1>0, <2>1, <2>5 DEF Fails, GiveUp, Goto, FirstIsKept, ConversationsSurvive
  <2>6. Query \in Plan /\ \A a \in Call \cup {Missing} : Conversation(a) \in Plan
    BY <1>0, NumbersLast DEF Query, Conversation, Plan
  <2>7. n \in Call /\ first.answer \in Call \cup {Missing}
    BY <1>0, <1>3, NumbersLast DEF AskAgain, CallsBound, Reply
  <2>8. ASSUME NEW mode \in Mode, NEW a \in {n, Missing},
               \/ Planned(Query)
               \/ /\ Conversational(mode)
                  /\ Planned(Conversation(IF a = Missing THEN first.answer ELSE a))
               \/ ~Conversational(mode) /\ GiveUp
        PROVE  FirstIsKept'
    BY <2>3, <2>4, <2>6, <2>7, <2>8 DEF Conversational
  <2>9. QED
    BY <1>3, <2>2, <2>5, <2>8 DEF AskAgain
<1>4. QED
  BY <1>1, <1>2, <1>3

LEMMA KeptElsewhere ==
  ASSUME IInv, FirstIsKept, [TurnNext]_turnVars, ~(AskAnthropic \/ AskFirst \/ AskAgain)
  PROVE  FirstIsKept'
<1> USE LLMTurnAssumption DEF IInv, FirstIsKept, ConversationsSurvive
<1>1. CASE Rewrite
  BY <1>1 DEF Rewrite, Goto, generation, answer
<1>2. CASE Lookup
  BY <1>2 DEF Lookup, Goto, GiveUp, generation
<1>3. CASE Execute
  BY <1>3 DEF Execute, Goto, generation, spending
<1>4. CASE Open \/ Delta
  BY <1>4 DEF Open, Delta, Goto, generation
<1>5. CASE StreamEnds
  BY <1>5 DEF StreamEnds, StreamOver, Answered, Goto, generation
<1>6. CASE StreamBreaks
  BY <1>6 DEF StreamBreaks, StreamOver, Answered, GiveUp, Goto, generation
<1>7. CASE AskWithoutStream
  BY <1>7 DEF AskWithoutStream, Answered, GiveUp, Goto, generation
<1>8. CASE Audit
  BY <1>8 DEF Audit, generation, spending
<1>9. CASE Suggest \/ TopUp
  BY <1>9 DEF Suggest, TopUp, Goto, RowIsTrue, generation
<1>10. CASE TurnOver \/ UNCHANGED turnVars
  BY <1>10 DEF TurnOver, turnVars, generation, spending
<1>11. QED
  BY <1>1, <1>2, <1>3, <1>4, <1>5, <1>6, <1>7, <1>8, <1>9, <1>10 DEF TurnNext

\* A conversational first reply is never lost to the call that asks for SQL
\* once more, unless that call fails or is garbled: llm/cloudflare_provider.py
\* and llm/bedrock_provider.py generate_sql.
THEOREM ConversationsAreKept == TurnSpec => []ConversationsSurvive
<1>1. TurnInit => FirstIsKept
  BY DEF TurnInit, FirstIsKept, ConversationsSurvive
<1>2. IInv /\ FirstIsKept /\ [TurnNext]_turnVars => FirstIsKept'
  BY KeptByCalls, KeptElsewhere
<1>3. FirstIsKept => ConversationsSurvive
  BY DEF FirstIsKept
<1>4. QED
  BY <1>1, <1>2, <1>3, Invariance, PTL DEF TurnSpec
=============================================================================
