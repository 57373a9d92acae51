CONSTANTS
  NumSessions = 2
  MainCalls = {"report"}
  OnAnswer = {}
  OnTimeout = {}
  OnPush = {"report"}
  InitTime = 1
  IdBase = 16
  NumIds = 65536
  MaxRequests = 3
  MaxDepth = 6
  MaxCopies = 1
SPECIFICATION Spec
INVARIANT NoRequestLost
