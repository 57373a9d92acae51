CONSTANTS
  NumProps = 2
  a = a
  b = b
  Values = {a, b}
  None = none
  Default = a
  Rooms = {1, 2}
  Name <- MCName
  ValueTexts <- MCValueTexts
  Method <- MCMethod
  Lengths <- MCLengths
  MaxTokens = 30
  Unstorable = {}
  Window = 2
  MaxChanges = 2
  MaxLosses = 1
  MaxDepth = 2
  MaxDocs = 1
SPECIFICATION FairSpec
INVARIANTS
  TypeOK
  LostOrReported
  ConfirmOwed
  ReportsReadBack
  OrdersReadBack
PROPERTIES Converges ImplementsWishes
