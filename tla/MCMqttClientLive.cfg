CONSTANTS
  t1 = t1
  t2 = t2
  Topics = {t1}
  none = none
  NoTopic = none
  NumHandlers = 1
  AutoReconnect = {TRUE}
  CleanSession = TRUE
  MinWait = 1
  MaxWait = 1
  AppCalls = {"subscribe", "publish", "connect"}
  CallbackCalls = {"publish"}
  PublishQos = {0, 1}
  DeliverQos = {1}
  MaxFaults = 2
  MaxInbound = 1
  MaxNest = 1
SPECIFICATION FairSpec
PROPERTIES DeadLinkNoticed CallsReturn ReopensSocket
