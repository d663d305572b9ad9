CONSTANTS
  a = a
  b = b
  c = c
  mine = mine
  yours = yours
  Turns = {a, b, c}
  Streams = {a}
  AgentStreams = {c}
  OwnerOf <- OwnerOfTurn
  s1 = s1
  s2 = s2
  s3 = s3
  Sids = {s1, s2, s3}
  NewId <- NewIdOf
  MaxTurns = 2
  MaxGone = 1
  MaxProducers = 1
  QueueSize = 1
  MaxChunks = 2
  MaxLost = 1
  NoAnswer = NoAnswer
  NoSid = NoSid
  NoTurn = NoTurn
  NoSession = NoSession
SPECIFICATION FairSpec
INVARIANTS SlotsConserved ToldTheTruth
PROPERTIES HistorySeen EveryTurnEnds
CHECK_DEADLOCK FALSE
