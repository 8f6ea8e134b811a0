\* Two questions of a thread, two submissions each, with one mishap.
SPECIFICATION FairSpec
CONSTANTS
  NumQuestions = 2
  MAX_QUESTION_ATTEMPTS = 2
  MAX_TURNS = 2
  MaxRuns = 2
  MaxMishaps = 1
  NoItem = NoItem
  NoAnswer = NoAnswer
INVARIANTS
  OneRunPerDelivery
  HistoryIsRecent
PROPERTIES
  AnswersStand
  QuestionsSettle
  RequestsSettle
CHECK_DEADLOCK FALSE
