CONSTANTS
  NumSessions = 2
  MainCalls = {"get"}
  OnAnswer = {"get"}
  OnTimeout = {}
  OnPush = {"plain"}
  InitTime = 1
  IdBase = 16
  NumIds = 65536
  MaxRequests = 3
  MaxDepth = 5
  MaxCopies = 1
SPECIFICATION FairSpec
INVARIANTS
  TypeOK
  NoRequestLost
  AnsweredOnce
  AnswerIsMine
PROPERTY EveryRequestEnds
