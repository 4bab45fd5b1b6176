CONSTANTS
  MaxCalls = 4
  MayLose = TRUE
SPECIFICATION FairSpec
INVARIANTS
  AnswersConserved
  ResultsPrecedeNotice
PROPERTIES
  TrackerKeepsPromise
  CallsAreAnswered
