CONSTANTS
  corpus = corpus
  web = web
  first = first
  second = second
  other = other
  a = a
  b = b
  noCorpus = noCorpus
  noWeb = noWeb
  noTitle = noTitle
  Corpus = corpus
  Calls = {first, second, other}
  ToolOf <- MCToolOf
  MaxExternal = 1
  Offers <- MCOffers
  Failure <- MCFailure
  TitleOf <- MCTitleOf
  MaxShown = 2
  MaxReflexion = 2
  Timeout = 2
  Budget = 0
  Reserve = 1
  MaxComplete = 1
  QueueRoom = 2
  NoScore = NoScore
SPECIFICATION AgentSpec
INVARIANTS MarksResolve FairShare TerminalArrives
PROPERTIES BudgetKept EveryThreadEnds
CHECK_DEADLOCK FALSE
