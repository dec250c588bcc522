SPECIFICATION FairSpec
CONSTANTS
  q1 = q1
  NoQuote = NoQuote
  Quotes = {q1}
  MaxCommits = 3
  MaxAsked = 1
  MaxReplies = 2
INVARIANTS
  TokenBelongsToLines
PROPERTIES
  AnswersShownTerms
  HeardChangesAreShown
  FormComesBack
