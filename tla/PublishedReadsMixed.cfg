CONSTANTS
  ChatReader = {c1}
  NewsReader = {n1}
  FactQueries = 2
  MaxChat = 2
  MaxNews = 1
SPECIFICATION Spec
INVARIANT AnswersAreBoundToRun
CHECK_DEADLOCK FALSE
