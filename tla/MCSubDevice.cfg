CONSTANTS
  Product <- OneProduct
  NumProps = 1
  TableSize = 2
  a = a
  b = b
  Values = {a, b}
  None = none
  Default = a
  Oversized = {}
  Rooms = {9, 40}
  TextOf <- TheTexts
  ValueTexts <- TheValues
  Lengths <- TheLengths
  MaxField = 20
  MaxTokens = 60
  NumSessions = 1
  Window = 2
  MaxChanges = 2
  MaxLosses = 1
  MaxDepth = 1
  MaxDocs = 1
SPECIFICATION FairSpec
INVARIANTS
  TypeOK
  LostOrReported
  ConfirmOwed
  GroupTextsReadBack
PROPERTIES ImplementsWishes ShutdownEnds
CHECK_DEADLOCK FALSE
