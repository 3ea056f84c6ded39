----------------------------- MODULE QuestionKeys ------------------------------
(***************************************************************************)
(* From the messages of a chat request to the key of the query cache, and  *)
(* to the template that is reused (api/chat.py _parse_body, chat/          *)
(* rewriter.py, cache/normalizer.py, the exact lookup of cache/semantic.py *)
(* and the steps of chat/pipeline.py between them).                        *)
(*                                                                         *)
(* A text is a sequence of lower-case words and marks.  Beside its words a *)
(* message carries what its author means by them, which the code does not  *)
(* see: a follow-up means the measure of the question before it.  The LLM  *)
(* is taken to understand what it is shown, and no more.  Near questions,  *)
(* failures of the query and templates that are invalidated are the matter *)
(* of module ChatPipeline, message parts that are no text are left out.    *)
(***************************************************************************)
EXTENDS Naturals, Sequences

Seqs == INSTANCE SequencesExt

CONSTANTS
  Bodies,      \* the messages of the requests
  Marks,       \* what is neither letter, digit nor %
  Signs,       \* marks that mean something
  Articles,
  Unsaid,      \* the measure of a follow-up
  PhraseOf,    \* the words by which the LLM calls a measure
  Unknown,
  MaxAsked     \* bound on requests

\* A word of the code's lists; a list of words is one phrase.
Fillers == <<<<"please">>, <<"can", "you">>, <<"show", "me">>, <<"give", "me">>,
             <<"what", "is">>, <<"what", "are">>, <<"tell", "me">>>>

\* SYNONYMS, most words first and then longest first.
Synonyms ==
  <<[phrase |-> <<"purchase", "spend">>, word |-> "purchase_value"],
    [phrase |-> <<"invoice", "value">>, word |-> "revenue"],
    [phrase |-> <<"order", "value">>, word |-> "order_revenue"],
    [phrase |-> <<"turnover">>, word |-> "revenue"],
    [phrase |-> <<"sales">>, word |-> "revenue"],
    [phrase |-> <<"spend">>, word |-> "purchase_value"]>>

GreetingKeywords ==
  {<<"hi">>, <<"hello">>, <<"hey">>, <<"thanks">>, <<"thank", "you">>, <<"bye">>,
   <<"good", "morning">>, <<"good", "afternoon">>, <<"good", "evening">>,
   <<"what", "can", "you", "do">>, <<"help">>, <<"who", "are", "you">>, <<"ok">>,
   <<"okay">>, <<"cool">>, <<"how", "are", "you">>}

FollowUpPrefixes ==
  {<<"what", "about">>, <<"how", "about">>, <<"what", "if">>, <<"break", "that">>,
   <<"break", "it">>, <<"break", "down">>, <<"drill", "down">>, <<"drill", "into">>,
   <<"same", "for">>, <<"same", "but">>, <<"same", "thing">>, <<"and", "what">>,
   <<"and", "how">>, <<"now", "show">>, <<"now", "give">>}

AnaphoraWords ==
  {"it", "its", "that", "this", "these", "those", "them", "they", "their", "he", "she",
   "his", "her", "and", "also", "then"}

VARIABLES
  body,       \* the messages of the request that is served
  request,    \* what has been made of them
  templates,  \* query_cache: what each template computes, by its key
  asked,      \* requests so far
  known       \* history: the meanings taught by plain questions

keying == <<body, request, templates, asked, known>>

KeysInit ==
  /\ body = <<>>
  /\ request = [pc |-> "idle"]
  /\ templates = <<>>
  /\ asked = 0
  /\ known = {}

-----------------------------------------------------------------------------
(* _parse_body                                                             *)

UserMessages(b) == {i \in DOMAIN b : b[i].role = "user"}

AskedAt(b) == CHOOSE i \in UserMessages(b) : \A j \in UserMessages(b) : i >= j

History(b) ==
  SelectSeq(SubSeq(b, 1, AskedAt(b) - 1),
            LAMBDA m : m.role \in {"user", "assistant"} /\ m.text # <<>>)

-----------------------------------------------------------------------------
(* normalize_question                                                      *)

Occurs(phrase, text, i) ==
  i \in 1..(Len(text) - Len(phrase) + 1) /\ SubSeq(text, i, i + Len(phrase) - 1) = phrase

\* Every occurrence of the phrase is replaced by the word.
Replaced(text, synonym) ==
  Seqs!FlattenSeq([i \in DOMAIN text |->
    IF Occurs(synonym.phrase, text, i) THEN <<synonym.word>>
    ELSE IF \E j \in (i - Len(synonym.phrase) + 1)..i : Occurs(synonym.phrase, text, j)
         THEN <<>> ELSE <<text[i]>>])

\* The phrase goes from the front and from the end, and is all of the text at most.
Stripped(text, filler) ==
  LET n == Len(filler)
      front == IF Seqs!IsPrefix(filler, text) THEN SubSeq(text, n + 1, Len(text)) ELSE text
  IN IF front # <<>> /\ Seqs!IsSuffix(filler, front)
     THEN SubSeq(front, 1, Len(front) - n) ELSE front

StrippedOnce(text) ==
  LET after[i \in 0..Len(Fillers)] ==
        IF i = 0 THEN text ELSE Stripped(after[i - 1], Fillers[i])
  IN after[Len(Fillers)]

\* Until nothing more goes.
StripFiller(text) ==
  LET strip[t \in {SubSeq(text, i, j) : i \in 1..(Len(text) + 1), j \in 0..Len(text)}] ==
        LET once == StrippedOnce(t) IN IF once = t THEN t ELSE strip[once]
  IN strip[text]

ApplySynonyms(text) ==
  LET after[i \in 0..Len(Synonyms)] ==
        IF i = 0 THEN text ELSE Replaced(after[i - 1], Synonyms[i])
  IN after[Len(Synonyms)]

NormalizeQuestion(text) ==
  StripFiller(ApplySynonyms(SelectSeq(text, LAMBDA w : w \notin Marks)))

-----------------------------------------------------------------------------
IsGreeting(text) ==
  LET words == SelectSeq(text, LAMBDA w : w \notin Marks)
  IN Len(words) <= 4 /\ \E k \in GreetingKeywords, i \in DOMAIN words : Occurs(k, words, i)

LooksStandalone(text) ==
  /\ \A p \in FollowUpPrefixes : ~Seqs!IsPrefix(p, text)
  /\ text # <<>> => Head(text) \notin AnaphoraWords

\* What a text means after the messages of h.
Understood(h, m) ==
  LET said == SelectSeq(h, LAMBDA x : x.measure # Unsaid)
  IN IF m.measure # Unsaid THEN [measure |-> m.measure, period |-> m.period]
     ELSE IF said = <<>> THEN Unknown
     ELSE [measure |-> Seqs!Last(said).measure, period |-> m.period]

\* What the user means.
Meant == Understood(SubSeq(body, 1, AskedAt(body) - 1), body[AskedAt(body)])

\* rewrite_question.
Rewritten(h, m) ==
  LET u == Understood(h, m)
  IN IF u = Unknown THEN m
     ELSE [role |-> m.role, text |-> PhraseOf[u.measure] \o u.period,
           measure |-> u.measure, period |-> m.period]

\* maybe_rewrite: where the LLM is asked, it may fail.
MaybeRewritten(h, m) ==
  IF h = <<>> \/ LooksStandalone(m.text) THEN {m} ELSE {m, Rewritten(h, m)}

\* Mistake: the key is that of the question as it was asked.
AskQuestion_Unresolved(b) ==
  LET h == History(b)
      m == b[AskedAt(b)]
      key == NormalizeQuestion(m.text)
  IN /\ request.pc = "idle" /\ asked < MaxAsked
     /\ ~IsGreeting(m.text)
     /\ \E resolved \in MaybeRewritten(h, m) :
          request' = [pc |-> "found", resolved |-> resolved, key |-> key,
                      hit |-> IF key \in DOMAIN templates THEN templates[key] ELSE Unknown]
     /\ body' = b
     /\ asked' = asked + 1
     /\ UNCHANGED <<templates, known>>

\* A greeting is replied to and leaves no trace.
AskQuestion(b) ==
  LET h == History(b)
      m == b[AskedAt(b)]
  IN /\ request.pc = "idle" /\ asked < MaxAsked
     /\ ~IsGreeting(m.text)
     /\ \E resolved \in MaybeRewritten(h, m) :
          LET key == NormalizeQuestion(resolved.text)
          IN request' = [pc |-> "found", resolved |-> resolved, key |-> key,
                         hit |-> IF key \in DOMAIN templates THEN templates[key] ELSE Unknown]
     /\ body' = b
     /\ asked' = asked + 1
     /\ UNCHANGED <<templates, known>>

Plain(text) == \A i \in DOMAIN text : text[i] \notin Signs \cup Articles

NextRequest == request' = [pc |-> "idle"] /\ body' = <<>>

\* A template that was not found is generated, and stored if the query returns rows.
Teach ==
  LET r == request
      u == Understood(History(body), r.resolved)
  IN /\ r.pc = "found" /\ r.hit = Unknown
     /\ u # Unknown
     /\ templates' = [k \in DOMAIN templates \cup {r.key} |->
                       IF k = r.key THEN u ELSE templates[k]]
     /\ known' = IF r.resolved.measure # Unsaid /\ Plain(r.resolved.text)
                 THEN known \cup {u} ELSE known
     /\ NextRequest
     /\ UNCHANGED asked

Done ==
  /\ request.pc = "found"
  /\ NextRequest
  /\ UNCHANGED <<templates, asked, known>>

KeysNext == (\E b \in Bodies : AskQuestion(b)) \/ Teach \/ Done

KeysSpec == KeysInit /\ [][KeysNext]_keying

-----------------------------------------------------------------------------
(* A question that stands on its own, as it was asked or after rewriting,  *)
(* is answered by a template for what its author means, however it is      *)
(* worded, wherever it was asked and whatever has been taught before; and  *)
(* a meaning once taught is found again, also in other words.  Questions   *)
(* that say something by a sign (<, >) are not covered, nor, when they are *)
(* to be found again, those with an article (_parse_body, maybe_rewrite,   *)
(* normalize_question).                                                    *)
KeysAreMeanings ==
  request.pc = "found" /\ request.resolved.measure # Unsaid /\ Meant.period[1] \notin Signs =>
    /\ request.hit \in {Meant, Unknown}
    /\ Meant \in known /\ Plain(request.resolved.text) => request.hit = Meant

(* content.md:37: "You can ask follow-ups naturally -- 'now break that     *)
(* down by distributor' -- and it remembers the context."  The template    *)
(* that answers a follow-up is one for what it means in its conversation.  *)
ContextIsRemembered == request.pc = "found" => request.hit \in {Meant, Unknown}
=============================================================================
