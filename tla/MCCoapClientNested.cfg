CONSTANTS
  NumSessions = 2
  MaxMessageId = 3
  ServerIds = {0}
  OnAnswer = {"send", "yield"}
  OnTimeout = {}
  MaxDepth = 2
  Requests <- MCRequests
  SendBufSize = 500
SPECIFICATION Spec
PROPERTY CalledOnce
