CONSTANTS
  NumSessions = 2
  MaxMessageId = 3
  ServerIds = {0}
  OnAnswer = {"send"}
  OnTimeout = {"send"}
  MaxDepth = 1
  Requests <- MCRequests
  SendBufSize = 500
SPECIFICATION FairSpec
INVARIANTS
  TypeOK
  PendingIsInTable
  AuthHasOneSession
  MessagesSurvive
PROPERTIES
  CalledOnce
  EveryRequestResolved
  AuthNeverStalls
