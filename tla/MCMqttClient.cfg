CONSTANTS
  t1 = t1
  t2 = t2
  Topics = {t1, t2}
  none = none
  NoTopic = none
  NumHandlers = 1
  AutoReconnect = {TRUE, FALSE}
  CleanSession = TRUE
  MinWait = 1
  MaxWait = 3
  AppCalls = {"subscribe", "publish", "unsubscribe", "disconnect", "set_auto_reconnect", "destroy"}
  CallbackCalls = {"publish"}
  PublishQos = {1}
  DeliverQos = {2}
  MaxFaults = 2
  MaxInbound = 1
  MaxNest = 1
SYMMETRY Symmetric
SPECIFICATION Spec
INVARIANTS TypeOK SocketMatchesState PingOnlyOnSocket BackoffBounded HandlersSubscribed
