\* Three conversations, each about another measure, in two requests: the same
\* follow-up, which rewriter.py does not recognise, or a question of its own.
CONSTANTS
  Bodies <- Conversations
  Marks = {"?", "<", ">"}
  Signs = {"<", ">"}
  Articles = {"the"}
  Unsaid = Unsaid
  PhraseOf <- FirstPhrase
  Unknown = Unknown
  MaxAsked = 2
SPECIFICATION KeysSpec
INVARIANTS ContextIsRemembered
CHECK_DEADLOCK FALSE
