CONSTANTS
  t1 = t1
  t2 = t2
  Topics = {t1}
  none = none
  NoTopic = none
  NumHandlers = 1
  AutoReconnect = {TRUE}
  CleanSession = TRUE
  MinWait = 1
  MaxWait = 3
  AppCalls = {}
  CallbackCalls = {}
  PublishQos = {1, 2}
  DeliverQos = {1}
  MaxFaults = 2
  MaxInbound = 1
  MaxNest = 1
SPECIFICATION FairSpec
PROPERTY Recovers
