-------------------------- MODULE MqttClientProofs --------------------------
(***************************************************************************)
(* Invariants of MqttClient for every handler table, wait interval, QoS    *)
(* and number of faults: the call stack is unbounded, and so is the depth  *)
(* to which calls, callbacks and reconnections nest.  In order: the types, *)
(* the back-off, the socket and the ping, and at last the subscriptions,   *)
(* whose proof begins at "Handlers and subscriptions".                     *)
(***************************************************************************)
EXTENDS MqttClient, SequenceTheorems, TLAPS

USE DEF States, Timers, Links

-----------------------------------------------------------------------------
(* Sequences.                                                              *)

\* Taking the first element off a sequence.
LEMMA Pop ==
  ASSUME NEW S, NEW s \in Seq(S), s # <<>>
  PROVE  Head(s) \in S /\ Tail(s) \in Seq(S)
  OBVIOUS

\* Putting one in front.
LEMMA Push ==
  ASSUME NEW S, NEW s \in Seq(S), NEW e \in S
  PROVE  /\ <<e>> \o s \in Seq(S) /\ <<e>> \o s # <<>>
         /\ Head(<<e>> \o s) = e /\ Tail(<<e>> \o s) = s
  OBVIOUS

\* Putting two in front.
LEMMA PushTwo ==
  ASSUME NEW S, NEW s \in Seq(S), NEW e \in S, NEW f \in S
  PROVE  /\ <<e, f>> \o s \in Seq(S) /\ <<e, f>> \o s # <<>>
         /\ Head(<<e, f>> \o s) = e /\ Tail(<<e, f>> \o s) = <<f>> \o s
  OBVIOUS

\* One at a time.
LEMMA PushPush ==
  ASSUME NEW S, NEW s \in Seq(S), NEW e \in S, NEW f \in S
  PROVE  <<e, f>> \o s = <<e>> \o (<<f>> \o s)
<1>1. <<e>> \in Seq(S) /\ <<f>> \in Seq(S) /\ <<e, f>> \in Seq(S)
  OBVIOUS
<1>2. <<e>> \o <<f>> \in Seq(S) /\ Len(<<e>> \o <<f>>) = 2 /\ Len(<<e, f>>) = 2
  BY <1>1
<1>3. \A i \in 1..2 : (<<e>> \o <<f>>)[i] = <<e, f>>[i]
  BY <1>1
<1>4. <<e>> \o <<f>> = <<e, f>>
  BY <1>1, <1>2, <1>3, SeqEqual
<1>5. (<<e>> \o <<f>>) \o s = <<e>> \o (<<f>> \o s)
  BY <1>1, ConcatAssociative
<1> QED
  BY <1>4, <1>5, Zenon

\* Putting three in front.
LEMMA PushThree ==
  ASSUME NEW S, NEW s \in Seq(S), NEW e \in S, NEW f \in S, NEW g \in S
  PROVE  /\ <<e, f, g>> \o s \in Seq(S) /\ <<e, f, g>> \o s # <<>>
         /\ Head(<<e, f, g>> \o s) = e /\ Tail(<<e, f, g>> \o s) = <<f, g>> \o s
  OBVIOUS

-----------------------------------------------------------------------------
(* The type invariant, in three parts.                                     *)

ClientOK ==
  /\ state \in States /\ ping \in BOOLEAN /\ wait \in Nat /\ auto \in BOOLEAN
  /\ ready \in BOOLEAN /\ timers \subseteq Timers
  /\ handlers \in [Slots -> Topics \cup {NoTopic}]
CallsOK == stack \in Seq(Frames) /\ ret \in Results
NetOK ==
  /\ link \in Links /\ inbound \in Seq(Packets) /\ brokerUp \in BOOLEAN
  /\ brokerSubs \subseteq Topics /\ faults \in 0..MaxFaults

\* A return, a step within a call and a call keep the stack well typed.
LEMMA ReturnOK ==
  ASSUME CallsOK, stack # <<>>, NEW rc \in Results, Return(rc)
  PROVE  CallsOK'
  BY Pop DEF CallsOK, Return

\* A step within a call replaces the top frame.
LEMMA ContinueOK ==
  ASSUME CallsOK, stack # <<>>, NEW f \in Frames, NEW rc \in Results, Continue(f, rc)
  PROVE  CallsOK'
<1>1. Tail(stack) \in Seq(Frames)
  BY Pop DEF CallsOK
<1> QED
  BY <1>1, Push DEF CallsOK, Continue

\* A call puts the callee in front of its caller.
LEMMA CallOK ==
  ASSUME CallsOK, stack # <<>>, NEW f \in Frames, NEW g \in Frames, Call(f, g)
  PROVE  CallsOK'
<1>1. Tail(stack) \in Seq(Frames)
  BY Pop DEF CallsOK
<1> QED
  BY <1>1, PushTwo DEF CallsOK, Call, Results

\* The frames that actions push.
LEMMA FramesOK ==
  /\ {Connect, Reconnect, HandleReconnect, Yield, Callback} \subseteq Frames
  /\ \A t \in Topics : Subscribe(t) \in Frames /\ Unsubscribe(t) \in Frames
  /\ \A qos \in 0..2 : PublishAt(qos) \in Frames
  /\ \A rc \in Results : Cycle(rc) \in Frames
  BY DEF Connect, Reconnect, HandleReconnect, Yield, Subscribe, Unsubscribe, PublishAt,
         Cycle, Callback, Frame, Frames, Records, CallNames, Results

\* A call that goes on keeps its frame but for the fields assigned.
LEMMA TopOK ==
  ASSUME CallsOK, stack # <<>>
  PROVE  /\ Top \in Frames /\ Top.rc \in Results
         /\ Top.topic \in Topics \cup {NoTopic} /\ Top.n \in Nat
         /\ \A pc \in {"wait", "send", "opened", "again", "cycled", "done"} :
              [Top EXCEPT !.pc = pc] \in Frames
         /\ \A n \in Nat : Top.fn = "reconnect" => [Top EXCEPT !.pc = "resub", !.n = n] \in Frames
         /\ \A rc \in Results : [Top EXCEPT !.pc = "exit", !.rc = rc] \in Frames
         /\ Resumed \in Frames
<1>1. Top \in Frames
  BY Pop DEF CallsOK, Top
<1>2. Top \in Records
  BY <1>1 DEF Frames
<1>3. ASSUME NEW pc \in {"wait", "send", "opened", "again", "cycled", "done"}
      PROVE  [Top EXCEPT !.pc = pc] \in Frames
  <2>1. [Top EXCEPT !.pc = pc] \in Records
    BY <1>2 DEF Records
  <2>2. /\ [Top EXCEPT !.pc = pc].fn = Top.fn /\ [Top EXCEPT !.pc = pc].topic = Top.topic
        /\ [Top EXCEPT !.pc = pc].n = Top.n
    BY <1>2 DEF Records
  <2> QED
    BY <1>1, <2>1, <2>2 DEF Frames
<1>4. ASSUME NEW n \in Nat, Top.fn = "reconnect"
      PROVE  [Top EXCEPT !.pc = "resub", !.n = n] \in Frames
  <2>1. [Top EXCEPT !.pc = "resub", !.n = n] \in Records
    BY <1>2 DEF Records
  <2>2. [Top EXCEPT !.pc = "resub", !.n = n].fn = "reconnect"
    BY <1>2, <1>4 DEF Records
  <2> QED
    BY <2>1, <2>2 DEF Frames
<1>5. ASSUME NEW rc \in Results
      PROVE  [Top EXCEPT !.pc = "exit", !.rc = rc] \in Frames
  <2>1. [Top EXCEPT !.pc = "exit", !.rc = rc] \in Records
    BY <1>2 DEF Records
  <2>2. /\ [Top EXCEPT !.pc = "exit", !.rc = rc].fn = Top.fn
        /\ [Top EXCEPT !.pc = "exit", !.rc = rc].topic = Top.topic
        /\ [Top EXCEPT !.pc = "exit", !.rc = rc].n = Top.n
    BY <1>2 DEF Records
  <2> QED
    BY <1>1, <2>1, <2>2 DEF Frames
<1>6. Resumed \in Frames
  BY <1>1, <1>3 DEF Resumed
<1> QED
  BY <1>1, <1>2, <1>3, <1>4, <1>5, <1>6 DEF Records

\* What Written, WriteFails and the two forms of Disconnect leave behind.
LEMMA WrittenOK ==
  ASSUME NetOK, NEW p \in DOMAIN Replies \cup {"CONNECT"}, NEW t, t \in Topics \/ p # "SUBSCRIBE",
         NEW backlog \in Seq(Packets), Written(p, t, backlog)
  PROVE  NetOK' /\ link # "none" /\ link' # "none"
<1>1. CASE link \in {"silent", "dead"}
  BY <1>1
  DEF Written, NetOK, NoFault, BrokerAccepts, BrokerRefusesConnect, BrokerHangsUp, BrokerAnswers, BrokerRefusesTopic
<1>2. CASE BrokerAccepts(p, backlog) /\ link = "up"
  BY <1>2 DEF BrokerAccepts, NetOK, NoFault, Packets, ConnAcks
<1>3. CASE BrokerRefusesConnect(p, backlog) /\ link = "up"
  BY <1>3, BoundAssumption DEF BrokerRefusesConnect, NetOK, Fault, Packets, ConnAcks
<1>4. CASE BrokerHangsUp(p, backlog) /\ link = "up"
  BY <1>4 DEF BrokerHangsUp, NetOK, NoFault
<1>5. CASE BrokerAnswers(p, t, backlog) /\ link = "up"
  <2>1. p \in DOMAIN Replies
    BY <1>5 DEF BrokerAnswers
  <2>2. Replies[p] \in Seq(Packets)
    <3>1. <<>> \in Seq(Packets) /\ \A q \in Packets : <<q>> \in Seq(Packets)
      OBVIOUS
    <3>2. \/ Replies[p] = <<>>
          \/ \E q \in {"SUBACK", "UNSUBACK", "PUBACK", "PUBREC", "PUBREL", "PUBCOMP", "PINGRESP"} :
               Replies[p] = <<q>>
      BY <2>1 DEF Replies
    <3>3. {"SUBACK", "UNSUBACK", "PUBACK", "PUBREC", "PUBREL", "PUBCOMP", "PINGRESP"} \subseteq Packets
      BY DEF Packets
    <3> HIDE DEF Packets
    <3> QED
      BY <3>1, <3>2, <3>3
  <2>3. SubsAfter(p, t) \subseteq Topics
    BY DEF SubsAfter, NetOK
  <2> QED
    BY <1>5, <2>2, <2>3 DEF BrokerAnswers, NetOK, NoFault
<1>6. CASE BrokerRefusesTopic(p, backlog) /\ link = "up"
  BY <1>6, BoundAssumption DEF BrokerRefusesTopic, NetOK, Fault, Packets
<1> QED
  BY <1>1, <1>2, <1>3, <1>4, <1>5, <1>6 DEF Written

\* tc_iot_mqtt_disconnect keeps the state, the timers and the network well typed.
LEMMA DisconnectOK ==
  ASSUME NetOK, state \in States, timers \subseteq Timers, faults' \in 0..MaxFaults,
         NEW running \in SUBSET Timers, NEW backlog \in Seq(Packets),
         Disconnect(running, backlog)
  PROVE  state' \in States /\ timers' \subseteq Timers /\ NetOK'
<1>1. CASE state = "CONNECTED"
  <2>1. /\ state' = "INITIALIZED" /\ link' = "none" /\ inbound' = <<>>
        /\ brokerUp' = FALSE /\ brokerSubs' = brokerSubs
        /\ timers' \in {running, running \cup {"sent"}}
    BY <1>1 DEF Disconnect
  <2>2. timers' \subseteq Timers /\ state' \in States
    BY <2>1
  <2>3. inbound' \in Seq(Packets)
    BY <2>1
  <2> QED
    BY <2>1, <2>2, <2>3 DEF NetOK
<1>2. CASE state # "CONNECTED"
  <2>1. /\ timers' = running /\ inbound' = backlog
        /\ UNCHANGED <<state, link, brokerUp, brokerSubs>>
    BY <1>2 DEF Disconnect
  <2> QED
    BY <2>1 DEF NetOK
<1> QED
  BY <1>1, <1>2

\* tc_iot_mqtt_set_message_handler keeps the table of its size.
LEMMA HandlersOK ==
  ASSUME handlers \in [Slots -> Topics \cup {NoTopic}], NEW t \in Topics \cup {NoTopic}
  PROVE  /\ Installed(handlers, t) \in [Slots -> Topics \cup {NoTopic}]
         /\ Removed(handlers, t) \in [Slots -> Topics \cup {NoTopic}]
  BY DEF Installed, Removed

\* What a step leaves alone keeps its type.
LEMMA ClientUnchanged == ASSUME ClientOK, UNCHANGED client PROVE ClientOK'
  BY DEF ClientOK, client
\* The same for the network.
LEMMA NetUnchanged == ASSUME NetOK, UNCHANGED net, UNCHANGED faults PROVE NetOK'
  BY DEF NetOK, net
\* The same for the call stack.
LEMMA CallsUnchanged == ASSUME CallsOK, UNCHANGED calls PROVE CallsOK'
  BY DEF CallsOK, calls

\* A fault is taken from those that are left.
LEMMA FaultOK == ASSUME faults \in 0..MaxFaults, Fault \/ NoFault PROVE faults' \in 0..MaxFaults
  BY BoundAssumption DEF Fault, NoFault

TypeInv == ClientOK /\ CallsOK /\ NetOK

\* The parts of the invariant are those of TypeOK.
LEMMA TypeInvIsTypeOK == TypeInv <=> TypeOK
  BY DEF TypeInv, TypeOK, ClientOK, CallsOK, NetOK

\* The receive cycle keeps the types.
LEMMA CycleType ==
  ASSUME TypeInv, CycleStep
  PROVE  TypeInv'
<1> USE DEF TypeInv
<1>0. /\ Cycling \/ At("cycle", "keepalive") => stack # <<>>
      /\ faults \in 0..MaxFaults /\ inbound \in Seq(Packets)
      /\ state \in States /\ timers \subseteq Timers
  BY DEF Cycling, Waiting, At, AtRequest, NetOK, ClientOK
<1>a. {"IDLE", "ERR", "SEND_FAILED", "NONE"} \cup Packets \subseteq Results
  BY DEF Results
<1>b. ASSUME inbound # <<>> PROVE Head(inbound) \in Packets /\ Tail(inbound) \in Seq(Packets)
  BY <1>0, <1>b, Pop
<1>1. ASSUME ReadNothing PROVE TypeInv'
  <2>1. CallsOK'
    BY <1>0, <1>a, <1>1, CallOK, TopOK, FramesOK DEF ReadNothing
  <2>2. NetOK'
    BY <1>0, <1>1, FaultOK DEF ReadNothing, NetOK, net
  <2> QED
    BY <1>1, <2>1, <2>2, ClientUnchanged DEF ReadNothing
<1>2. ASSUME ReadError PROVE TypeInv'
  <2>1. CallsOK'
    BY <1>0, <1>a, <1>2, ContinueOK, TopOK DEF ReadError
  <2>2. state' \in States /\ timers' \subseteq Timers /\ NetOK'
    BY <1>0, <1>2, DisconnectOK DEF ReadError, CycleFails
  <2> QED
    BY <1>2, <2>1, <2>2 DEF ReadError, CycleFails, ClientOK
<1>3. ASSUME ReadAck PROVE TypeInv'
  <2>1. CallsOK'
    BY <1>0, <1>a, <1>b, <1>3, CallOK, TopOK, FramesOK DEF ReadAck, Reading
  <2>2. NetOK'
    BY <1>b, <1>3 DEF ReadAck, Reading, NetOK
  <2> QED
    BY <1>3, <2>1, <2>2 DEF ReadAck, ClientOK
<1>4. ASSUME ReadPublish PROVE TypeInv'
  <2>1. PICK rc \in Publishes \cup {"SEND_FAILED"} : Deliver(rc)
    BY <1>4 DEF ReadPublish, Reading
  <2>2. rc \in Results
    BY <1>a DEF Packets
  <2>3. CallsOK'
    <3>1. Tail(stack) \in Seq(Frames) /\ Callback \in Frames /\ Cycle(rc) \in Frames /\ Resumed \in Frames
      BY <1>0, <1>4, <2>2, Pop, TopOK, FramesOK DEF CallsOK, ReadPublish, Reading
    <3>2. <<Callback, Cycle(rc), Resumed>> \o Tail(stack) \in Seq(Frames)
      BY <3>1, PushThree
    <3> QED
      BY <1>a, <2>1, <3>2 DEF Deliver, CallsOK
  <2>4. NetOK' /\ timers' \subseteq Timers
    <3>1. inbound # <<>> /\ Tail(inbound) \in Seq(Packets)
      BY <1>b, <1>4 DEF ReadPublish, Reading
    <3>2. CASE Written("PUBACK", NoTopic, Tail(inbound)) \/ Written("PUBREC", NoTopic, Tail(inbound))
      <4>1. NetOK'
        BY <3>1, <3>2, WrittenOK DEF Replies
      <4> QED
        BY <1>0, <1>4, <4>1 DEF ReadPublish
    <3>3. CASE inbound' = Tail(inbound) /\ UNCHANGED <<link, brokerUp, brokerSubs, faults>>
      BY <1>0, <1>4, <3>1, <3>3 DEF ReadPublish, NetOK
    <3> QED
      BY <1>4, <3>2, <3>3 DEF ReadPublish, WriteFails, NoFault
  <2> QED
    BY <1>4, <2>3, <2>4 DEF ReadPublish, ClientOK
<1>5. ASSUME ReadRelease PROVE TypeInv'
  <2>1. CallsOK'
    BY <1>0, <1>a, <1>b, <1>5, CallOK, TopOK, FramesOK DEF ReadRelease, Reading
  <2>2. NetOK'
    BY <1>b, <1>5, WrittenOK DEF ReadRelease, Reading, Replies
  <2> QED
    BY <1>5, <2>1, <2>2 DEF ReadRelease, ClientOK
<1>6. ASSUME ReadReleaseFails PROVE TypeInv'
  <2>1. CallsOK'
    BY <1>0, <1>a, <1>6, ContinueOK, TopOK DEF ReadReleaseFails, Reading
  <2>2. state' \in States /\ timers' \subseteq Timers /\ NetOK'
    BY <1>0, <1>b, <1>6, DisconnectOK DEF ReadReleaseFails, Reading, CycleFails
  <2> QED
    BY <1>6, <2>1, <2>2 DEF ReadReleaseFails, CycleFails, ClientOK
<1>7. ASSUME KeepaliveNotDue PROVE TypeInv'
  BY <1>0, <1>7, ReturnOK, TopOK, ClientUnchanged, NetUnchanged DEF KeepaliveNotDue
<1>8. ASSUME KeepalivePing PROVE TypeInv'
  <2>1. CallsOK'
    BY <1>0, <1>8, ReturnOK, TopOK DEF KeepalivePing
  <2>2. NetOK'
    BY <1>0, <1>8, WrittenOK DEF KeepalivePing, Replies
  <2> QED
    BY <1>8, <2>1, <2>2 DEF KeepalivePing, ClientOK
<1>9. ASSUME KeepaliveFails PROVE TypeInv'
  <2>1. CallsOK'
    BY <1>0, <1>a, <1>9, ReturnOK DEF KeepaliveFails
  <2>2. state' \in States /\ timers' \subseteq Timers /\ NetOK'
    BY <1>0, <1>9, DisconnectOK DEF KeepaliveFails, CycleFails
  <2> QED
    BY <1>9, <2>1, <2>2 DEF KeepaliveFails, CycleFails, ClientOK
<1>10. ASSUME KeepalivePingWasted PROVE TypeInv'
  <2>1. CallsOK'
    BY <1>0, <1>a, <1>10, ReturnOK DEF KeepalivePingWasted
  <2>2. NetOK'
    BY <1>0, <1>10, WrittenOK DEF KeepalivePingWasted, Replies
  <2> QED
    BY <1>10, <2>1, <2>2 DEF KeepalivePingWasted, ClientOK
<1> QED
  BY <1>1, <1>2, <1>3, <1>4, <1>5, <1>6, <1>7, <1>8, <1>9, <1>10 DEF CycleStep

\* Opening a connection, and _handle_reconnect, keep the types.
LEMMA ConnectType ==
  ASSUME TypeInv, ConnectStep
  PROVE  TypeInv'
<1> USE DEF TypeInv
<1>0. /\ \A pc : At("connect", pc) \/ At("reconnect", pc) => stack # <<>>
      /\ faults \in 0..MaxFaults /\ inbound \in Seq(Packets)
      /\ state \in States /\ timers \subseteq Timers
      /\ NoTopic \in Topics \cup {NoTopic} /\ ret \in Results
  BY DEF At, NetOK, ClientOK, CallsOK
<1>a. {"SUCCESS", "CONNECT_FAILED", "SEND_FAILED", "REFUSED", "WAIT_TIMEOUT", "NONE",
       "IN_PROGRESS", "UNAVAILABLE"} \subseteq Results
  BY DEF Results
<1>1. ASSUME ReconnectConnected \/ ConnectAlready \/ ConnectRefused PROVE TypeInv'
  BY <1>0, <1>a, <1>1, ReturnOK, ClientUnchanged, NetUnchanged
  DEF ReconnectConnected, ConnectAlready, ConnectRefused
<1>2. ASSUME ReconnectReuse PROVE TypeInv'
  BY <1>0, <1>a, <1>2, ContinueOK, FramesOK, ClientUnchanged, NetUnchanged DEF ReconnectReuse
<1>3. ASSUME ReconnectOpen PROVE TypeInv'
  <2>1. CallsOK'
    BY <1>0, <1>a, <1>3, ContinueOK, FramesOK DEF ReconnectOpen
  <2>2. <<>> \in Seq(Packets)
    OBVIOUS
  <2> QED
    BY <1>3, <2>1, <2>2 DEF ReconnectOpen, ClientOK, NetOK
<1>4. ASSUME ReconnectOpenFails PROVE TypeInv'
  <2>1. CallsOK'
    BY <1>0, <1>a, <1>4, ReturnOK DEF ReconnectOpenFails
  <2>2. NetOK'
    BY <1>0, <1>4, FaultOK DEF ReconnectOpenFails, NetOK, net
  <2> QED
    BY <1>4, <2>1, <2>2, ClientUnchanged DEF ReconnectOpenFails
<1>5. ASSUME ConnectSend PROVE TypeInv'
  <2>1. CallsOK'
    BY <1>0, <1>a, <1>5, ContinueOK, TopOK DEF ConnectSend
  <2>2. NetOK'
    BY <1>0, <1>5, WrittenOK DEF ConnectSend
  <2> QED
    BY <1>5, <2>1, <2>2 DEF ConnectSend, ClientOK
<1>6. ASSUME ConnectSendFails PROVE TypeInv'
  <2>1. CallsOK'
    BY <1>0, <1>a, <1>6, ReturnOK DEF ConnectSendFails
  <2>2. NetOK'
    BY <1>6 DEF ConnectSendFails, WriteFails, NetOK, NoFault
  <2> QED
    BY <1>6, <2>1, <2>2 DEF ConnectSendFails, ClientOK
<1>7. ASSUME ConnectAcked PROVE TypeInv'
  <2>1. CallsOK'
    BY <1>0, <1>a, <1>7, ReturnOK DEF ConnectAcked
  <2> QED
    BY <1>7, <2>1, NetUnchanged DEF ConnectAcked, ClientOK
<1>8. ASSUME ConnectTimesOut PROVE TypeInv'
  <2>1. CallsOK'
    BY <1>0, <1>a, <1>8, ReturnOK DEF ConnectTimesOut
  <2>2. faults' \in 0..MaxFaults
    BY <1>0, <1>8, FaultOK DEF ConnectTimesOut, TimedOut
  <2>3. state' \in States /\ timers' \subseteq Timers /\ NetOK'
    BY <1>0, <1>8, <2>2, DisconnectOK DEF ConnectTimesOut, DropSession
  <2> QED
    BY <1>8, <2>1, <2>3 DEF ConnectTimesOut, DropSession, ClientOK
<1>9. ASSUME HandleReconnectSkips PROVE TypeInv'
  BY <1>0, <1>a, <1>9, ReturnOK, ClientUnchanged, NetUnchanged DEF HandleReconnectSkips
<1>10. ASSUME HandleReconnectTries PROVE TypeInv'
  BY <1>0, <1>10, CallOK, TopOK, FramesOK, ClientUnchanged, NetUnchanged DEF HandleReconnectTries
<1>11. ASSUME HandleReconnectBacksOff PROVE TypeInv'
  <2>1. CallsOK'
    BY <1>0, <1>a, <1>11, ReturnOK DEF HandleReconnectBacksOff
  <2>2. NextWait \in Nat
    BY WaitAssumption DEF NextWait, ClientOK
  <2> QED
    BY <1>11, <2>1, <2>2, NetUnchanged DEF HandleReconnectBacksOff, ClientOK
<1>12. ASSUME HandleReconnectResubscribes PROVE TypeInv'
  <2>1. PICK i \in SlotsAhead : Call([Top EXCEPT !.pc = "resub", !.n = i], Subscribe(handlers[i]))
    BY <1>12 DEF HandleReconnectResubscribes
  <2>2. i \in Nat /\ handlers[i] \in Topics
    BY HandlersAssumption DEF SlotsAhead, Slots, ClientOK
  <2>3. stack # <<>>
    BY <1>0, <1>12 DEF HandleReconnectResubscribes, Resubscribing
  <2>4. CallsOK'
    BY <1>12, <2>1, <2>2, <2>3, CallOK, TopOK, FramesOK DEF HandleReconnectResubscribes, Resubscribing, At
  <2> QED
    BY <1>12, <2>4, ClientUnchanged, NetUnchanged DEF HandleReconnectResubscribes
<1>13. ASSUME HandleReconnectFinishes PROVE TypeInv'
  <2>1. CallsOK'
    BY <1>0, <1>a, <1>13, ReturnOK DEF HandleReconnectFinishes, Resubscribing
  <2> QED
    BY <1>13, <2>1, NetUnchanged DEF HandleReconnectFinishes, ClientOK
<1> QED
  BY <1>1, <1>2, <1>3, <1>4, <1>5, <1>6, <1>7, <1>8, <1>9, <1>10, <1>11, <1>12, <1>13
  DEF ConnectStep

\* Requests, tc_iot_mqtt_yield and callbacks keep the types.
LEMMA RequestType ==
  ASSUME TypeInv, RequestStep
  PROVE  TypeInv'
<1> USE DEF TypeInv
<1>0. /\ \A fn, pc : At(fn, pc) \/ AtRequest(pc) => stack # <<>>
      /\ faults \in 0..MaxFaults /\ inbound \in Seq(Packets)
      /\ state \in States /\ timers \subseteq Timers
      /\ NoTopic \in Topics \cup {NoTopic} /\ ret \in Results
  BY DEF At, AtRequest, NetOK, ClientOK, CallsOK
<1>a. {"SUCCESS", "SEND_FAILED", "WAIT_TIMEOUT", "NONE", "UNAVAILABLE", "SUBACK_FAILED",
       "FAILURE"} \subseteq Results
  BY DEF Results
<1>1. ASSUME RequestConnected PROVE TypeInv'
  BY <1>0, <1>a, <1>1, ContinueOK, TopOK, ClientUnchanged, NetUnchanged DEF RequestConnected
<1>2. ASSUME RequestReconnects PROVE TypeInv'
  BY <1>0, <1>2, CallOK, TopOK, FramesOK, ClientUnchanged, NetUnchanged DEF RequestReconnects
<1>3. ASSUME RequestUnavailable \/ RequestNotConnected \/ PublishTooLarge \/ RequestExits
      PROVE  TypeInv'
  BY <1>0, <1>a, <1>3, ReturnOK, TopOK, ClientUnchanged, NetUnchanged
  DEF RequestUnavailable, RequestNotConnected, PublishTooLarge, RequestExits
<1>4. ASSUME RequestSend PROVE TypeInv'
  <2>1. CallsOK'
    BY <1>0, <1>a, <1>4, ReturnOK, ContinueOK, TopOK DEF RequestSend
  <2>2. RequestPacket(Top) \in DOMAIN Replies /\ (Top.topic \in Topics \/ RequestPacket(Top) # "SUBSCRIBE")
    <3>1. Top \in Frames /\ Top.fn \in Requests
      BY <1>0, <1>4, TopOK DEF RequestSend, AtRequest
    <3>2. Top.fn \in {"subscribe", "unsubscribe"} => Top.topic \in Topics
      BY <3>1 DEF Frames
    <3>3. Top.fn = "publish" => Top.n \in 0..2
      BY <3>1 DEF Frames
    <3>4. \A qos \in 0..2 : Publish(qos) \in {"PUBLISH0", "PUBLISH1", "PUBLISH2"}
      BY DEF Publish
    <3> QED
      BY <3>1, <3>2, <3>3, <3>4 DEF RequestPacket, Replies, Requests
  <2>3. NetOK'
    BY <1>0, <1>4, <2>2, WrittenOK DEF RequestSend
  <2>4. handlers' \in [Slots -> Topics \cup {NoTopic}]
    BY <1>0, <1>4, HandlersOK, TopOK DEF RequestSend, ClientOK
  <2> QED
    BY <1>4, <2>1, <2>3, <2>4 DEF RequestSend, ClientOK
<1>5. ASSUME RequestSendFails PROVE TypeInv'
  <2>1. CallsOK'
    BY <1>0, <1>a, <1>5, CallOK, TopOK, FramesOK DEF RequestSendFails, GiveUp
  <2>2. state' \in States /\ timers' \subseteq Timers /\ NetOK'
    BY <1>0, <1>5, DisconnectOK DEF RequestSendFails, GiveUp, DropSession
  <2> QED
    BY <1>5, <2>1, <2>2 DEF RequestSendFails, GiveUp, DropSession, ClientOK
<1>6. ASSUME SubscribeRefused \/ RequestAcked PROVE TypeInv'
  <2>1. CallsOK'
    BY <1>0, <1>a, <1>6, ReturnOK DEF SubscribeRefused, RequestAcked
  <2>2. handlers' \in [Slots -> Topics \cup {NoTopic}]
    BY <1>0, <1>6, HandlersOK, TopOK DEF SubscribeRefused, RequestAcked, ClientOK
  <2> QED
    BY <1>6, <2>1, <2>2, NetUnchanged DEF SubscribeRefused, RequestAcked, ClientOK
<1>7. ASSUME RequestTimesOut PROVE TypeInv'
  <2>1. CallsOK'
    BY <1>0, <1>a, <1>7, CallOK, TopOK, FramesOK DEF RequestTimesOut, GiveUp
  <2>2. handlers' \in [Slots -> Topics \cup {NoTopic}]
    BY <1>0, <1>7, HandlersOK, TopOK DEF RequestTimesOut, ClientOK
  <2>3. faults' \in 0..MaxFaults
    BY <1>0, <1>7, FaultOK DEF RequestTimesOut, TimedOut
  <2>4. state' \in States /\ timers' \subseteq Timers /\ NetOK'
    BY <1>0, <1>7, <2>3, DisconnectOK DEF RequestTimesOut, GiveUp, DropSession
  <2> QED
    BY <1>7, <2>1, <2>2, <2>4 DEF RequestTimesOut, GiveUp, DropSession, ClientOK
<1>8. ASSUME YieldReconnects PROVE TypeInv'
  BY <1>0, <1>8, CallOK, TopOK, FramesOK, ClientUnchanged, NetUnchanged DEF YieldReconnects
<1>9. ASSUME YieldLoops PROVE TypeInv'
  BY <1>0, <1>a, <1>9, ContinueOK, FramesOK, ClientUnchanged, NetUnchanged DEF YieldLoops
<1>10. ASSUME YieldReturns PROVE TypeInv'
  BY <1>0, <1>a, <1>10, ReturnOK, ClientUnchanged, NetUnchanged DEF YieldReturns
<1>11. ASSUME CallbackRequests PROVE TypeInv'
  <2>1. RequestFrames(CallbackCalls) \subseteq Frames
    BY FramesOK, QosAssumption DEF RequestFrames
  <2>2. CallsOK'
    BY <1>0, <1>11, <2>1, CallOK, TopOK DEF CallbackRequests
  <2> QED
    BY <1>11, <2>2, ClientUnchanged, NetUnchanged DEF CallbackRequests
<1>12. ASSUME CallbackReturns PROVE TypeInv'
  BY <1>a, <1>12, ReturnOK, ClientUnchanged, NetUnchanged DEF CallbackReturns
<1> QED
  BY <1>1, <1>2, <1>3, <1>4, <1>5, <1>6, <1>7, <1>8, <1>9, <1>10, <1>11, <1>12 DEF RequestStep

\* The application, time, the network and the broker keep the types.
LEMMA AppEnvType ==
  ASSUME TypeInv, AppStep \/ EnvStep
  PROVE  TypeInv'
<1> USE DEF TypeInv
<1>0. /\ faults \in 0..MaxFaults /\ inbound \in Seq(Packets) /\ brokerSubs \subseteq Topics
      /\ state \in States /\ timers \subseteq Timers /\ <<>> \in Seq(Packets)
      /\ <<>> \in Seq(Frames) /\ {"NONE", "SUCCESS", "CONNECT_FAILED"} \subseteq Results
  BY DEF NetOK, ClientOK, Results
<1>f. \A f \in Frames : <<f>> \in Seq(Frames)
  OBVIOUS
<1>1. ASSUME Construct PROVE TypeInv'
  <2>1. CallsOK'
    BY <1>0, <1>f, <1>1, FramesOK DEF Construct, CallsOK
  <2>2. NetOK'
    BY <1>0, <1>1, FaultOK DEF Construct, NetOK
  <2>3. ClientOK'
    BY <1>1, ConfigAssumption DEF Construct, ClientOK
  <2> QED
    BY <2>1, <2>2, <2>3
<1>2. ASSUME AppYields \/ AppConnects PROVE TypeInv'
  <2>1. CallsOK'
    BY <1>0, <1>f, <1>2, FramesOK DEF AppYields, AppConnects, CallsOK
  <2> QED
    BY <1>2, <2>1, ClientUnchanged, NetUnchanged DEF AppYields, AppConnects
<1>3. ASSUME AppRequests PROVE TypeInv'
  <2>1. RequestFrames(AppCalls) \subseteq Frames
    BY FramesOK, QosAssumption DEF RequestFrames
  <2>2. CallsOK'
    BY <1>0, <1>f, <1>3, <2>1 DEF AppRequests, CallsOK
  <2> QED
    BY <1>3, <2>2, ClientUnchanged, NetUnchanged DEF AppRequests
<1>4. ASSUME AppDisconnects PROVE TypeInv'
  <2>1. state' \in States /\ timers' \subseteq Timers /\ NetOK'
    BY <1>0, <1>4, DisconnectOK DEF AppDisconnects, DropSession
  <2> QED
    BY <1>0, <1>4, <2>1 DEF AppDisconnects, DropSession, ClientOK, CallsOK
<1>5. ASSUME AppSetsAutoReconnect PROVE TypeInv'
  BY <1>5, ConfigAssumption, CallsUnchanged, NetUnchanged DEF AppSetsAutoReconnect, ClientOK
<1>6. ASSUME AppDestroys PROVE TypeInv'
  BY <1>6, CallsUnchanged, NetUnchanged DEF AppDestroys, ClientOK
<1>7. ASSUME NEW t \in Timers, Tick(t) PROVE TypeInv'
  <2>1. NetOK'
    BY <1>0, <1>7, FaultOK DEF Tick, NetOK, net
  <2> QED
    BY <1>7, <2>1, CallsUnchanged DEF Tick, ClientOK
<1>8. ASSUME LinkSilent \/ LinkDies PROVE TypeInv'
  <2>1. NetOK'
    BY <1>0, <1>8, FaultOK DEF LinkSilent, LinkDies, Loses, NetOK
  <2> QED
    BY <1>8, <2>1, ClientUnchanged, CallsUnchanged DEF LinkSilent, LinkDies
<1>9. ASSUME BrokerPublish PROVE TypeInv'
  <2>1. PICK qos \in DeliverQos : inbound' = Append(inbound, Publish(qos))
    BY <1>9 DEF BrokerPublish
  <2>2. Publish(qos) \in Packets
    BY QosAssumption DEF Publish, Packets, Publishes
  <2>3. inbound' \in Seq(Packets)
    BY <1>0, <2>1, <2>2, AppendProperties
  <2>4. NetOK'
    BY <1>9, <2>3 DEF BrokerPublish, NetOK
  <2> QED
    BY <1>9, <2>4, ClientUnchanged, CallsUnchanged DEF BrokerPublish
<1> QED
  BY <1>1, <1>2, <1>3, <1>4, <1>5, <1>6, <1>7, <1>8, <1>9 DEF AppStep, EnvStep

\* The initial states are well typed.
LEMMA TypeInit == Init => TypeInv
<1> SUFFICES ASSUME Init PROVE TypeInv
  OBVIOUS
<1>1. ClientOK
  BY ConfigAssumption DEF Init, ClientOK
<1>2. CallsOK
  BY DEF Init, CallsOK, Results
<1>3. <<>> \in Seq(Packets)
  OBVIOUS
<1>4. NetOK
  <2>1. faults \in 0..MaxFaults
    BY BoundAssumption DEF Init
  <2>2. link \in Links /\ brokerUp \in BOOLEAN /\ inbound = <<>> /\ brokerSubs = {}
    BY DEF Init
  <2> QED
    BY <1>3, <2>1, <2>2 DEF NetOK
<1> QED
  BY <1>1, <1>2, <1>4 DEF TypeInv

\* Every step keeps the types.
LEMMA TypeStep == TypeInv /\ [Next]_vars => TypeInv'
<1> SUFFICES ASSUME TypeInv, [Next]_vars PROVE TypeInv'
  OBVIOUS
<1>1. CASE UNCHANGED vars
  BY <1>1, ClientUnchanged, CallsUnchanged, NetUnchanged DEF vars, TypeInv
<1>2. CASE Next
  BY <1>2, CycleType, ConnectType, RequestType, AppEnvType DEF Next
<1> QED
  BY <1>1, <1>2

\* The types are an invariant, in the form the other proofs use.
LEMMA TypeInvariant == Spec => []TypeInv
  BY TypeInit, TypeStep, PTL DEF Spec

\* Every variable keeps its type, and every frame of the call stack the topic
\* or the QoS its call needs.
THEOREM TypeCorrect == Spec => []TypeOK
<1>1. Spec => []TypeInv
  BY TypeInvariant
<1> QED
  BY <1>1, TypeInvIsTypeOK, PTL

-----------------------------------------------------------------------------
(* The back-off.                                                           *)

\* The doubled and capped wait stays between its two bounds.
LEMMA NextWaitBounds ==
  ASSUME wait \in Nat, wait <= MaxWait, wait # 0 => MinWait <= wait
  PROVE  NextWait \in Nat /\ MinWait <= NextWait /\ NextWait <= MaxWait
  BY WaitAssumption DEF NextWait

\* A wait that is not 0 is at least MinWait, and only such a wait runs the timer.
BackoffInv ==
  /\ wait <= MaxWait
  /\ wait # 0 => MinWait <= wait
  /\ "reconnect" \in timers => wait # 0

\* Only these actions assign the wait, or start the reconnect timer.
LEMMA WaitAssigned ==
  ASSUME Next
  PROVE  \/ HandleReconnectBacksOff \/ HandleReconnectFinishes \/ Construct
         \/ /\ wait' = wait
            /\ "reconnect" \in timers' => "reconnect" \in timers
<1> USE DEF client, net
<1> DEFINE Kept == wait' = wait /\ ("reconnect" \in timers' => "reconnect" \in timers)
<1>0. ASSUME DropSession, wait' = wait PROVE Kept
  BY <1>0 DEF DropSession, Disconnect
<1>1. ASSUME CycleStep PROVE Kept
  BY <1>1 DEF CycleStep, ReadNothing, ReadError, ReadAck, ReadPublish, ReadRelease, ReadReleaseFails,
     KeepaliveNotDue, KeepalivePing, KeepalivePingWasted, KeepaliveFails, CycleFails, Disconnect
<1>2. ASSUME ConnectStep
      PROVE  \/ HandleReconnectBacksOff \/ HandleReconnectFinishes
             \/ Kept
  <2>1. ASSUME \/ ReconnectConnected \/ ReconnectReuse \/ ReconnectOpen \/ ReconnectOpenFails
               \/ ConnectAlready \/ ConnectAcked \/ ConnectRefused \/ HandleReconnectSkips
               \/ HandleReconnectTries \/ HandleReconnectResubscribes
        PROVE  Kept
    BY <2>1 DEF ReconnectConnected, ReconnectReuse, ReconnectOpen, ReconnectOpenFails, ConnectAlready,
       ConnectAcked, ConnectRefused, HandleReconnectSkips, HandleReconnectTries, HandleReconnectResubscribes
  <2>2. ASSUME ConnectSend \/ ConnectSendFails PROVE Kept
    BY <2>2 DEF ConnectSend, ConnectSendFails
  <2>3. ASSUME ConnectTimesOut PROVE Kept
    BY <1>0, <2>3 DEF ConnectTimesOut
  <2> QED
    BY <1>2, <2>1, <2>2, <2>3 DEF ConnectStep
<1>3. ASSUME RequestStep PROVE Kept
  BY <1>3 DEF RequestStep, RequestConnected, RequestReconnects, RequestUnavailable, RequestNotConnected,
     PublishTooLarge, RequestSend, RequestSendFails, SubscribeRefused, RequestAcked, RequestTimesOut,
     RequestExits, YieldReconnects, YieldLoops, YieldReturns, CallbackRequests, CallbackReturns,
     GiveUp, DropSession, Disconnect
<1>4. ASSUME AppStep
      PROVE  Construct \/ Kept
  <2>1. ASSUME AppYields \/ AppConnects \/ AppRequests \/ AppSetsAutoReconnect \/ AppDestroys PROVE Kept
    BY <2>1 DEF AppYields, AppConnects, AppRequests, AppSetsAutoReconnect, AppDestroys
  <2>2. ASSUME AppDisconnects PROVE Kept
    BY <1>0, <2>2 DEF AppDisconnects
  <2> QED
    BY <1>4, <2>1, <2>2 DEF AppStep
<1>5. ASSUME EnvStep PROVE Kept
  BY <1>5 DEF EnvStep, Tick, LinkSilent, LinkDies, BrokerPublish
<1> QED
  BY <1>1, <1>2, <1>3, <1>4, <1>5 DEF Next

\* Every step keeps the bounds of the back-off.
LEMMA BackoffStep == TypeInv /\ BackoffInv /\ [Next]_vars => BackoffInv'
<1> SUFFICES ASSUME TypeInv, BackoffInv, [Next]_vars PROVE BackoffInv'
  OBVIOUS
<1>0. wait \in Nat
  BY DEF TypeInv, ClientOK
<1>1. CASE HandleReconnectBacksOff
  BY <1>0, <1>1, NextWaitBounds, WaitAssumption DEF HandleReconnectBacksOff, BackoffInv
<1>2. CASE HandleReconnectFinishes \/ Construct
  BY <1>2, WaitAssumption DEF HandleReconnectFinishes, Construct, BackoffInv
<1>3. CASE wait' = wait /\ ("reconnect" \in timers' => "reconnect" \in timers)
  BY <1>3 DEF BackoffInv
<1>4. CASE UNCHANGED vars
  BY <1>4 DEF BackoffInv, vars, client
<1> QED
  BY <1>1, <1>2, <1>3, <1>4, WaitAssigned

\* Attempts to reconnect are MinWait to MaxWait apart whenever the timer runs,
\* and the wait never passes the value that makes tc_iot_mqtt_yield give up.
THEOREM BackoffIsBounded == Spec => []BackoffBounded
<1>1. Init => BackoffInv
  BY WaitAssumption DEF Init, BackoffInv
<1>2. BackoffInv => BackoffBounded
  BY DEF BackoffInv, BackoffBounded
<1> QED
  BY <1>1, <1>2, TypeInvariant, BackoffStep, PTL DEF Spec
-----------------------------------------------------------------------------
(* The socket.                                                             *)

\* No call holds a CONNACK result.
NoAck(s) == \A i \in 1..Len(s) : s[i].rc \notin ConnAcks

\* Only the cycle that has just read a CONNACK and its caller hold that result,
\* and the socket it was read from stays open until the caller has seen it.
AckInv ==
  /\ ret \in ConnAcks => link # "none"
  /\ stack # <<>> => /\ NoAck(Tail(stack))
                     /\ Top.rc \in ConnAcks => Top.fn = "cycle" /\ link # "none"

SocketInv == SocketMatchesState /\ PingOnlyOnSocket

\* Dropping frames leaves no frame that holds an acknowledgement of a CONNECT.
LEMMA NoAckTail ==
  ASSUME NEW s \in Seq(Frames), s # <<>>, NoAck(s)
  PROVE  NoAck(Tail(s)) /\ Head(s).rc \notin ConnAcks
<1>1. Head(s) = s[1] /\ 1 \in 1..Len(s)
  OBVIOUS
<1>2. \A i \in 1..Len(Tail(s)) : Tail(s)[i] = s[i + 1] /\ i + 1 \in 1..Len(s)
  OBVIOUS
<1> QED
  BY <1>1, <1>2 DEF NoAck

\* Nor does pushing frames that hold none.
LEMMA NoAckPush ==
  ASSUME NEW s \in Seq(Frames), NoAck(s), NEW f \in Frames, f.rc \notin ConnAcks
  PROVE  NoAck(<<f>> \o s)
<1>1. <<f>> \o s \in Seq(Frames) /\ <<f>> \o s # <<>> /\ (<<f>> \o s)[1] = f
  OBVIOUS
<1>2. \A i \in 1..Len(<<f>> \o s) : i = 1 \/ ((<<f>> \o s)[i] = s[i - 1] /\ i - 1 \in 1..Len(s))
  OBVIOUS
<1> QED
  BY <1>1, <1>2 DEF NoAck

\* A return keeps the invariant when it hands on what the frame below may hold.
LEMMA ReturnAck ==
  ASSUME CallsOK, AckInv, stack # <<>>, NEW rc \in Results, Return(rc),
         rc \in ConnAcks => link' # "none"
  PROVE  AckInv'
<1>1. Tail(stack) \in Seq(Frames) /\ NoAck(Tail(stack))
  BY Pop DEF CallsOK, AckInv
<1>2. stack' = Tail(stack) /\ ret' = rc
  BY DEF Return
<1>3. ASSUME Tail(stack) # <<>>
      PROVE  NoAck(Tail(Tail(stack))) /\ Head(Tail(stack)).rc \notin ConnAcks
  BY <1>1, <1>3, NoAckTail
<1> QED
  BY <1>1, <1>2, <1>3 DEF AckInv, Top, NoAck

\* A step within a call keeps it.
LEMMA ContinueAck ==
  ASSUME CallsOK, AckInv, stack # <<>>, NEW f \in Frames, NEW rc \in Results, Continue(f, rc),
         f.rc \notin ConnAcks, rc \in ConnAcks => link' # "none"
  PROVE  AckInv'
<1>1. Tail(stack) \in Seq(Frames) /\ NoAck(Tail(stack))
  BY Pop DEF CallsOK, AckInv
<1>2. stack' = <<f>> \o Tail(stack) /\ ret' = rc
  BY DEF Continue
<1>3. Head(stack') = f /\ Tail(stack') = Tail(stack)
  BY <1>1, <1>2, Push
<1> QED
  BY <1>1, <1>2, <1>3 DEF AckInv, Top, NoAck

\* A call keeps it.
LEMMA CallAck ==
  ASSUME CallsOK, AckInv, stack # <<>>, NEW f \in Frames, NEW g \in Frames, Call(f, g),
         f.rc \notin ConnAcks, g.rc \in ConnAcks => g.fn = "cycle" /\ link' # "none"
  PROVE  AckInv'
<1>1. Tail(stack) \in Seq(Frames) /\ NoAck(Tail(stack))
  BY Pop DEF CallsOK, AckInv
<1>2. stack' = <<g, f>> \o Tail(stack) /\ ret' = "NONE"
  BY DEF Call
<1>3. Head(stack') = g /\ Tail(stack') = <<f>> \o Tail(stack)
  BY <1>1, <1>2, PushTwo
<1>4. NoAck(<<f>> \o Tail(stack))
  BY <1>1, NoAckPush
<1> QED
  BY <1>2, <1>3, <1>4 DEF AckInv, Top, NoAck, ConnAcks

\* Calls that end with a session, a ping or neither keep the socket's invariant.
LEMMA SocketSame ==
  ASSUME SocketInv, UNCHANGED state, (link = "none") <=> (link' = "none"),
         ping' => ping \/ link # "none"
  PROVE  SocketInv'
  BY DEF SocketInv, SocketMatchesState, PingOnlyOnSocket

\* tc_iot_mqtt_disconnect closes the socket of a connected client, and no other.
LEMMA SocketDropped ==
  ASSUME SocketInv, NEW running, NEW backlog, Disconnect(running, backlog),
         ping' => ping /\ state # "CONNECTED"
  PROVE  SocketInv'
  BY DEF SocketInv, SocketMatchesState, PingOnlyOnSocket, Disconnect

\* A step that changes neither calls nor the socket keeps the invariant.
LEMMA AckSame ==
  ASSUME AckInv, UNCHANGED calls, link # "none" => link' # "none"
  PROVE  AckInv'
  BY DEF AckInv, calls, Top, NoAck

\* The fields a frame keeps, and what the frames that actions push hold.
LEMMA FrameResults ==
  /\ \A f \in {Connect, Reconnect, HandleReconnect, Yield, Callback} : f.rc = "NONE"
  /\ \A t \in Topics : Subscribe(t).rc = "NONE" /\ Unsubscribe(t).rc = "NONE"
  /\ \A qos \in 0..2 : PublishAt(qos).rc = "NONE"
  /\ \A rc \in Results : Cycle(rc).rc = rc /\ Cycle(rc).fn = "cycle"
  BY DEF Connect, Reconnect, HandleReconnect, Yield, Callback, Subscribe, Unsubscribe, PublishAt,
         Cycle, Frame

\* A frame of another call than cycle() holds none, whichever of its fields change.
LEMMA TopAck ==
  ASSUME CallsOK, AckInv, stack # <<>>, Top.fn # "cycle"
  PROVE  /\ Top.rc \notin ConnAcks /\ Resumed.rc \notin ConnAcks
         /\ \A pc : [Top EXCEPT !.pc = pc].rc \notin ConnAcks
         /\ \A n : [Top EXCEPT !.pc = "resub", !.n = n].rc \notin ConnAcks
         /\ \A rc \in Results \ ConnAcks : [Top EXCEPT !.pc = "exit", !.rc = rc].rc \notin ConnAcks
<1>1. Top \in Records
  BY TopOK DEF Frames
<1>2. Top.rc \notin ConnAcks
  BY DEF AckInv
<1> QED
  BY <1>1, <1>2 DEF Records, Resumed

SessionInv == AckInv /\ SocketInv

\* The receive cycle.
LEMMA CycleSession ==
  ASSUME TypeInv, SessionInv, CycleStep
  PROVE  SessionInv'
<1> USE DEF TypeInv, SessionInv
<1>0. /\ Cycling => stack # <<>> /\ Top.fn # "cycle"
      /\ At("cycle", "keepalive") => stack # <<>>
      /\ inbound \in Seq(Packets)
      /\ CallsOK /\ NetOK /\ AckInv /\ SocketInv
  BY DEF Cycling, Waiting, At, AtRequest, Requests, NetOK
<1>a. {"IDLE", "ERR", "SEND_FAILED", "NONE"} \cup Packets \subseteq Results
      /\ {"IDLE", "ERR", "SEND_FAILED", "NONE"} \cap ConnAcks = {}
  BY DEF Results, ConnAcks
<1>b. ASSUME inbound # <<>> PROVE Head(inbound) \in Packets /\ Tail(inbound) \in Seq(Packets)
  BY <1>0, <1>b, Pop
<1>1. ASSUME ReadNothing PROVE SessionInv'
  <2>1. AckInv'
    BY <1>0, <1>a, <1>1, CallAck, TopOK, TopAck, FramesOK, FrameResults DEF ReadNothing
  <2> QED
    BY <1>0, <1>1, <2>1, SocketSame DEF ReadNothing, client, net
<1>2. ASSUME ReadError PROVE SessionInv'
  <2>1. AckInv'
    BY <1>0, <1>a, <1>2, ContinueAck, TopOK, TopAck DEF ReadError
  <2> QED
    BY <1>0, <1>2, <2>1, SocketDropped DEF ReadError, CycleFails
<1>3. ASSUME ReadAck PROVE SessionInv'
  <2>1. AckInv'
    BY <1>0, <1>a, <1>b, <1>3, CallAck, TopOK, TopAck, FramesOK, FrameResults DEF ReadAck, Reading
  <2> QED
    BY <1>0, <1>3, <2>1, SocketSame DEF ReadAck
<1>4. ASSUME ReadPublish PROVE SessionInv'
  <2>0. PICK rc \in Publishes \cup {"SEND_FAILED"} : Deliver(rc)
    BY <1>4 DEF ReadPublish, Reading
  <2>1. AckInv'
    <3>0. rc \in Results /\ rc \notin ConnAcks
      BY <1>a DEF Packets, Publishes, ConnAcks
    <3>1. /\ Tail(stack) \in Seq(Frames) /\ NoAck(Tail(stack))
          /\ Callback \in Frames /\ Cycle(rc) \in Frames /\ Resumed \in Frames
          /\ Callback.rc = "NONE" /\ Cycle(rc).rc = rc /\ Resumed.rc \notin ConnAcks
      BY <1>0, <1>4, <3>0, Pop, TopOK, TopAck, FramesOK, FrameResults
      DEF CallsOK, ReadPublish, Reading, AckInv
    <3>2. NoAck(<<Resumed>> \o Tail(stack)) /\ <<Resumed>> \o Tail(stack) \in Seq(Frames)
      BY <3>1, NoAckPush, Push
    <3>3. NoAck(<<Cycle(rc)>> \o (<<Resumed>> \o Tail(stack)))
      BY <3>0, <3>1, <3>2, NoAckPush
    <3>4. <<Cycle(rc), Resumed>> \o Tail(stack) = <<Cycle(rc)>> \o (<<Resumed>> \o Tail(stack))
      BY <3>1, PushPush
    <3>5. /\ stack' # <<>> /\ Head(stack') = Callback
          /\ Tail(stack') = <<Cycle(rc), Resumed>> \o Tail(stack)
          /\ ret' = "NONE"
      <4>1. /\ <<Callback, Cycle(rc), Resumed>> \o Tail(stack) # <<>>
            /\ Head(<<Callback, Cycle(rc), Resumed>> \o Tail(stack)) = Callback
            /\ Tail(<<Callback, Cycle(rc), Resumed>> \o Tail(stack)) = <<Cycle(rc), Resumed>> \o Tail(stack)
        BY <3>1, PushThree
      <4>2. stack' = <<Callback, Cycle(rc), Resumed>> \o Tail(stack) /\ ret' = "NONE"
        BY <2>0 DEF Deliver
      <4> QED
        BY <4>1, <4>2, Zenon
    <3> QED
      BY <1>a, <3>1, <3>3, <3>4, <3>5 DEF AckInv, Top, NoAck
  <2>2. link # "none" /\ link' # "none"
    BY <1>0, <1>4 DEF ReadPublish, Reading, Written, WriteFails, BrokerAccepts, BrokerRefusesConnect,
       BrokerHangsUp, BrokerAnswers, BrokerRefusesTopic
  <2> QED
    BY <1>0, <1>4, <2>1, <2>2, SocketSame DEF ReadPublish
<1>5. ASSUME ReadRelease PROVE SessionInv'
  <2>1. link # "none" /\ link' # "none"
    BY <1>0, <1>b, <1>5, WrittenOK DEF ReadRelease, Reading, Replies
  <2>2. AckInv'
    BY <1>0, <1>a, <1>b, <1>5, <2>1, CallAck, TopOK, TopAck, FramesOK, FrameResults DEF ReadRelease, Reading
  <2> QED
    BY <1>0, <1>5, <2>1, <2>2, SocketSame DEF ReadRelease
<1>6. ASSUME ReadReleaseFails PROVE SessionInv'
  <2>1. AckInv'
    BY <1>0, <1>a, <1>6, ContinueAck, TopOK, TopAck DEF ReadReleaseFails, Reading
  <2> QED
    BY <1>0, <1>6, <2>1, SocketDropped DEF ReadReleaseFails, CycleFails
<1>7. ASSUME KeepaliveNotDue PROVE SessionInv'
  <2>1. AckInv'
    BY <1>0, <1>7, ReturnAck, TopOK DEF KeepaliveNotDue, AckInv, net
  <2> QED
    BY <1>0, <1>7, <2>1, SocketSame DEF KeepaliveNotDue, client, net
<1>8. ASSUME KeepalivePing PROVE SessionInv'
  <2>1. link # "none" /\ link' # "none"
    BY <1>0, <1>8, WrittenOK DEF KeepalivePing, Replies
  <2>2. AckInv'
    BY <1>0, <1>8, <2>1, ReturnAck, TopOK DEF KeepalivePing
  <2> QED
    BY <1>0, <1>8, <2>1, <2>2, SocketSame DEF KeepalivePing
<1>9. ASSUME KeepaliveFails PROVE SessionInv'
  <2>1. AckInv'
    BY <1>0, <1>a, <1>9, ReturnAck DEF KeepaliveFails
  <2> QED
    BY <1>0, <1>9, <2>1, SocketDropped DEF KeepaliveFails, CycleFails
<1>10. ASSUME KeepalivePingWasted PROVE SessionInv'
  <2>1. link # "none" /\ link' # "none"
    BY <1>0, <1>10, WrittenOK DEF KeepalivePingWasted, Replies
  <2>2. AckInv'
    BY <1>0, <1>a, <1>10, <2>1, ReturnAck DEF KeepalivePingWasted
  <2> QED
    BY <1>0, <1>10, <2>1, <2>2, SocketSame DEF KeepalivePingWasted
<1> QED
  BY <1>1, <1>2, <1>3, <1>4, <1>5, <1>6, <1>7, <1>8, <1>9, <1>10 DEF CycleStep

\* Opening a connection, and _handle_reconnect.
LEMMA ConnectSession ==
  ASSUME TypeInv, SessionInv, ConnectStep
  PROVE  SessionInv'
<1> USE DEF TypeInv, SessionInv
<1>0. /\ \A pc : At("connect", pc) \/ At("reconnect", pc) => stack # <<>> /\ Top.fn # "cycle"
      /\ inbound \in Seq(Packets) /\ ret \in Results
      /\ CallsOK /\ NetOK /\ AckInv /\ SocketInv
  BY DEF At, NetOK, CallsOK
<1>a. /\ {"SUCCESS", "CONNECT_FAILED", "SEND_FAILED", "REFUSED", "WAIT_TIMEOUT", "NONE",
           "IN_PROGRESS", "UNAVAILABLE"} \subseteq Results
      /\ {"SUCCESS", "CONNECT_FAILED", "SEND_FAILED", "REFUSED", "WAIT_TIMEOUT", "NONE",
           "IN_PROGRESS", "UNAVAILABLE"} \cap ConnAcks = {}
  BY DEF Results, ConnAcks
<1>1. ASSUME \/ ReconnectConnected \/ ConnectAlready \/ ConnectRefused
             \/ ReconnectOpenFails \/ HandleReconnectSkips
      PROVE  SessionInv'
  <2>1. AckInv'
    BY <1>0, <1>a, <1>1, ReturnAck
    DEF ReconnectConnected, ConnectAlready, ConnectRefused, ReconnectOpenFails, HandleReconnectSkips
  <2>2. UNCHANGED <<state, link, ping>>
    BY <1>1 DEF ReconnectConnected, ConnectAlready, ConnectRefused, ReconnectOpenFails,
       HandleReconnectSkips, client, net
  <2> QED
    BY <1>0, <2>1, <2>2, SocketSame
<1>2. ASSUME ReconnectReuse PROVE SessionInv'
  <2>1. AckInv'
    BY <1>0, <1>a, <1>2, ContinueAck, FramesOK, FrameResults DEF ReconnectReuse
  <2> QED
    BY <1>0, <1>2, <2>1, SocketSame DEF ReconnectReuse, client, net
<1>3. ASSUME ReconnectOpen PROVE SessionInv'
  <2>1. AckInv'
    BY <1>0, <1>a, <1>3, ContinueAck, FramesOK, FrameResults DEF ReconnectOpen
  <2> QED
    BY <1>0, <1>3, <2>1 DEF ReconnectOpen, SocketInv, SocketMatchesState, PingOnlyOnSocket
<1>4. ASSUME ConnectSend PROVE SessionInv'
  <2>1. link # "none" /\ link' # "none"
    BY <1>0, <1>4, WrittenOK DEF ConnectSend
  <2>2. AckInv'
    BY <1>0, <1>a, <1>4, ContinueAck, TopOK, TopAck DEF ConnectSend
  <2> QED
    BY <1>0, <1>4, <2>1, <2>2, SocketSame DEF ConnectSend
<1>5. ASSUME ConnectSendFails PROVE SessionInv'
  <2>1. AckInv'
    BY <1>0, <1>a, <1>5, ReturnAck DEF ConnectSendFails
  <2> QED
    BY <1>0, <1>5, <2>1, SocketSame DEF ConnectSendFails, WriteFails
<1>6. ASSUME ConnectAcked PROVE SessionInv'
  <2>1. AckInv'
    BY <1>0, <1>a, <1>6, ReturnAck DEF ConnectAcked
  <2>2. link # "none" /\ link' = link
    BY <1>6 DEF ConnectAcked, AckInv, ConnAcks, net
  <2> QED
    BY <1>6, <2>1, <2>2 DEF ConnectAcked, SocketInv, SocketMatchesState, PingOnlyOnSocket
<1>7. ASSUME ConnectTimesOut PROVE SessionInv'
  <2>1. AckInv'
    BY <1>0, <1>a, <1>7, ReturnAck DEF ConnectTimesOut
  <2> QED
    BY <1>0, <1>7, <2>1, SocketDropped DEF ConnectTimesOut, DropSession
<1>8. ASSUME HandleReconnectTries PROVE SessionInv'
  <2>1. AckInv'
    BY <1>0, <1>a, <1>8, CallAck, TopOK, TopAck, FramesOK, FrameResults DEF HandleReconnectTries
  <2> QED
    BY <1>0, <1>8, <2>1, SocketSame DEF HandleReconnectTries, client, net
<1>9. ASSUME HandleReconnectBacksOff \/ HandleReconnectFinishes PROVE SessionInv'
  <2>1. AckInv'
    BY <1>0, <1>a, <1>9, ReturnAck
    DEF HandleReconnectBacksOff, HandleReconnectFinishes, Resubscribing
  <2> QED
    BY <1>0, <1>9, <2>1, SocketSame DEF HandleReconnectBacksOff, HandleReconnectFinishes, net
<1>10. ASSUME HandleReconnectResubscribes PROVE SessionInv'
  <2>1. PICK i \in SlotsAhead : Call([Top EXCEPT !.pc = "resub", !.n = i], Subscribe(handlers[i]))
    BY <1>10 DEF HandleReconnectResubscribes
  <2>2. i \in Nat /\ handlers[i] \in Topics
    BY HandlersAssumption DEF SlotsAhead, Slots, ClientOK
  <2>3. stack # <<>> /\ Top.fn = "reconnect"
    BY <1>10 DEF HandleReconnectResubscribes, Resubscribing, At
  <2>4. AckInv'
    BY <1>0, <1>a, <2>1, <2>2, <2>3, CallAck, TopOK, TopAck, FramesOK, FrameResults
  <2> QED
    BY <1>0, <1>10, <2>4, SocketSame DEF HandleReconnectResubscribes, client, net
<1> QED
  BY <1>1, <1>2, <1>3, <1>4, <1>5, <1>6, <1>7, <1>8, <1>9, <1>10 DEF ConnectStep

\* Requests, tc_iot_mqtt_yield and callbacks.
LEMMA RequestSession ==
  ASSUME TypeInv, SessionInv, RequestStep
  PROVE  SessionInv'
<1> USE DEF TypeInv, SessionInv
<1>0. /\ \A pc : AtRequest(pc) \/ At("yield", pc) \/ At("callback", pc) \/ At("publish", pc)
              \/ At("subscribe", pc) => stack # <<>> /\ Top.fn # "cycle"
      /\ inbound \in Seq(Packets) /\ ret \in Results
      /\ CallsOK /\ NetOK /\ AckInv /\ SocketInv
  BY DEF At, AtRequest, Requests, NetOK, CallsOK
<1>a. /\ {"SUCCESS", "SEND_FAILED", "WAIT_TIMEOUT", "NONE", "UNAVAILABLE", "SUBACK_FAILED",
           "FAILURE"} \subseteq Results \ ConnAcks
  BY DEF Results, ConnAcks
<1>b. ret \in ConnAcks => link # "none"
  BY DEF AckInv
<1>1. ASSUME RequestConnected PROVE SessionInv'
  <2>1. AckInv'
    BY <1>0, <1>a, <1>1, ContinueAck, TopOK, TopAck DEF RequestConnected
  <2> QED
    BY <1>0, <1>1, <2>1, SocketSame DEF RequestConnected, client, net
<1>2. ASSUME RequestReconnects \/ YieldReconnects PROVE SessionInv'
  <2>1. AckInv'
    BY <1>0, <1>2, CallAck, TopOK, TopAck, FramesOK, FrameResults, <1>a
    DEF RequestReconnects, YieldReconnects
  <2> QED
    BY <1>0, <1>2, <2>1, SocketSame DEF RequestReconnects, YieldReconnects, client, net
<1>3. ASSUME \/ RequestUnavailable \/ RequestNotConnected \/ PublishTooLarge \/ RequestExits
             \/ YieldReturns \/ CallbackReturns
      PROVE  SessionInv'
  <2>1. UNCHANGED <<state, link, ping>>
    BY <1>3 DEF RequestUnavailable, RequestNotConnected, PublishTooLarge, RequestExits, YieldReturns,
       CallbackReturns, client, net
  <2>2. AckInv'
    <3>1. CASE RequestExits
      BY <1>0, <3>1, ReturnAck, TopOK, TopAck DEF RequestExits
    <3>2. CASE CallbackReturns
      BY <1>0, <1>a, <3>2, ReturnAck DEF CallbackReturns
    <3>3. CASE RequestUnavailable \/ RequestNotConnected \/ PublishTooLarge \/ YieldReturns
      BY <1>0, <1>a, <1>b, <2>1, <3>3, ReturnAck
      DEF RequestUnavailable, RequestNotConnected, PublishTooLarge, YieldReturns
    <3> QED
      BY <1>3, <3>1, <3>2, <3>3
  <2> QED
    BY <1>0, <2>1, <2>2, SocketSame
<1>4. ASSUME RequestSend PROVE SessionInv'
  <2>1. link # "none" /\ link' # "none"
    BY <1>0, <1>4 DEF RequestSend, NetOK, Written, BrokerAccepts, BrokerRefusesConnect,
       BrokerHangsUp, BrokerAnswers, BrokerRefusesTopic
  <2>2. AckInv'
    BY <1>0, <1>a, <1>4, ReturnAck, ContinueAck, TopOK, TopAck DEF RequestSend
  <2> QED
    BY <1>0, <1>4, <2>1, <2>2, SocketSame DEF RequestSend
<1>5. ASSUME RequestSendFails \/ RequestTimesOut PROVE SessionInv'
  <2>0. PICK rc \in {"SEND_FAILED", "WAIT_TIMEOUT"} : GiveUp(rc) /\ stack # <<>> /\ Top.fn # "cycle"
    BY <1>0, <1>5 DEF RequestSendFails, RequestTimesOut
  <2>1. AckInv'
    BY <1>0, <1>a, <2>0, CallAck, TopOK, TopAck, FramesOK, FrameResults DEF GiveUp
  <2> QED
    BY <1>0, <2>0, <2>1, SocketDropped DEF GiveUp, DropSession
<1>6. ASSUME SubscribeRefused \/ RequestAcked PROVE SessionInv'
  <2>1. AckInv'
    BY <1>0, <1>a, <1>6, ReturnAck DEF SubscribeRefused, RequestAcked
  <2> QED
    BY <1>0, <1>6, <2>1, SocketSame DEF SubscribeRefused, RequestAcked, net
<1>7. ASSUME YieldLoops PROVE SessionInv'
  <2>1. AckInv'
    BY <1>0, <1>a, <1>7, ContinueAck, FramesOK, FrameResults DEF YieldLoops
  <2> QED
    BY <1>0, <1>7, <2>1, SocketSame DEF YieldLoops, client, net
<1>8. ASSUME CallbackRequests PROVE SessionInv'
  <2>1. PICK f \in RequestFrames(CallbackCalls) : Call([Top EXCEPT !.pc = "done"], f)
    BY <1>8 DEF CallbackRequests
  <2>2. f \in Frames /\ f.rc = "NONE"
    BY FramesOK, FrameResults, QosAssumption DEF RequestFrames
  <2>3. AckInv'
    BY <1>0, <1>a, <1>8, <2>1, <2>2, CallAck, TopOK, TopAck DEF CallbackRequests
  <2> QED
    BY <1>0, <1>8, <2>3, SocketSame DEF CallbackRequests, client, net
<1> QED
  BY <1>1, <1>2, <1>3, <1>4, <1>5, <1>6, <1>7, <1>8 DEF RequestStep

\* The application, time, the network and the broker.
LEMMA AppEnvSession ==
  ASSUME TypeInv, SessionInv, AppStep \/ EnvStep
  PROVE  SessionInv'
<1> USE DEF TypeInv, SessionInv
<1>0. CallsOK /\ NetOK /\ AckInv /\ SocketInv
  OBVIOUS
<1>a. {"NONE", "SUCCESS", "CONNECT_FAILED"} \cap ConnAcks = {}
  BY DEF ConnAcks
<1>b. ASSUME stack' = <<>> \/ (\E f \in Frames : f.rc = "NONE" /\ stack' = <<f>>),
             ret' \notin ConnAcks
      PROVE  AckInv'
  <2>1. \A f \in Frames : Head(<<f>>) = f /\ Tail(<<f>>) = <<>>
    OBVIOUS
  <2>2. NoAck(<<>>)
    BY DEF NoAck
  <2> QED
    BY <1>b, <2>1, <2>2, <1>a DEF AckInv, Top, NoAck
<1>1. ASSUME Construct PROVE SessionInv'
  <2>1. AckInv'
    BY <1>a, <1>b, <1>1, FramesOK, FrameResults DEF Construct
  <2> QED
    BY <1>1, <2>1 DEF Construct, SocketInv, SocketMatchesState, PingOnlyOnSocket
<1>2. ASSUME AppYields \/ AppConnects \/ AppRequests PROVE SessionInv'
  <2>1. \A f \in RequestFrames(AppCalls) : f \in Frames /\ f.rc = "NONE"
    BY FramesOK, FrameResults, QosAssumption DEF RequestFrames
  <2>2. AckInv'
    BY <1>a, <1>b, <1>2, <2>1, FramesOK, FrameResults DEF AppYields, AppConnects, AppRequests
  <2> QED
    BY <1>0, <1>2, <2>2, SocketSame DEF AppYields, AppConnects, AppRequests, client, net
<1>3. ASSUME AppDisconnects PROVE SessionInv'
  <2>1. AckInv'
    BY <1>a, <1>b, <1>3 DEF AppDisconnects
  <2> QED
    BY <1>0, <1>3, <2>1, SocketDropped DEF AppDisconnects, DropSession
<1>4. ASSUME AppSetsAutoReconnect \/ AppDestroys \/ (\E t \in Timers : Tick(t)) PROVE SessionInv'
  <2>1. UNCHANGED <<calls, state, link, ping>>
    BY <1>4 DEF AppSetsAutoReconnect, AppDestroys, Tick, net
  <2> QED
    BY <1>0, <2>1, AckSame, SocketSame
<1>5. ASSUME LinkSilent \/ LinkDies \/ BrokerPublish PROVE SessionInv'
  <2>1. UNCHANGED <<calls, state, ping>> /\ link # "none" /\ link' # "none"
    BY <1>5 DEF LinkSilent, LinkDies, BrokerPublish, client
  <2> QED
    BY <1>0, <2>1, AckSame, SocketSame
<1> QED
  BY <1>1, <1>2, <1>3, <1>4, <1>5 DEF AppStep, EnvStep

\* Every step keeps the invariant that ties state, socket and ping together.
LEMMA SessionStep == TypeInv /\ SessionInv /\ [Next]_vars => SessionInv'
<1> SUFFICES ASSUME TypeInv, SessionInv, [Next]_vars PROVE SessionInv'
  OBVIOUS
<1>1. CASE UNCHANGED vars
  BY <1>1 DEF vars, client, calls, net, SessionInv, AckInv, SocketInv, SocketMatchesState,
     PingOnlyOnSocket, Top, NoAck
<1>2. CASE Next
  BY <1>2, CycleSession, ConnectSession, RequestSession, AppEnvSession DEF Next
<1> QED
  BY <1>1, <1>2

\* It is an invariant of the specification.
LEMMA SessionInvariant == Spec => []SessionInv
<1>1. Init => SessionInv
  BY DEF Init, SessionInv, AckInv, SocketInv, SocketMatchesState, PingOnlyOnSocket, ConnAcks
<1> QED
  BY <1>1, TypeInvariant, SessionStep, PTL DEF Spec

\* However calls nest, the state and the socket agree: a reconnection opens no
\* second socket beside the first, and no client is connected without one.
THEOREM SocketCorrect == Spec => []SocketMatchesState
<1>1. SessionInv => SocketMatchesState
  BY DEF SessionInv, SocketInv
<1> QED
  BY <1>1, SessionInvariant, PTL

\* However calls nest, an unanswered ping is never carried over to a new socket.
THEOREM PingCorrect == Spec => []PingOnlyOnSocket
<1>1. SessionInv => PingOnlyOnSocket
  BY DEF SessionInv, SocketInv
<1> QED
  BY <1>1, SessionInvariant, PTL

-----------------------------------------------------------------------------
(* Handlers and subscriptions.                                             *)
(*                                                                         *)
(* The theorem is about a client that is used as every example uses it: a  *)
(* clean session, tc_iot_mqtt_connect left to the library, and callbacks   *)
(* that publish but do not subscribe.  Without any one of the three it is  *)
(* not true: a session that is kept is not resubscribed, nor is one that   *)
(* the application opens, and the waits of two nested subscribes take each *)
(* other's acknowledgement.                                                *)
(*                                                                         *)
(* Between calls a handler without a subscription must not exist.  During  *)
(* them it may, and the invariant says why: some call on the stack is      *)
(* about to subscribe the topic or to take the handler out (Excused).  A   *)
(* call gives that reason up when it is acknowledged, so the invariant     *)
(* also says whose an acknowledgement is (AnswerInv), how calls nest       *)
(* (ShapeInv), that a session begins with nothing on its way (BrokerInv)   *)
(* and that a topic has one handler (TableInv).                            *)

UsedAsInExamples ==
  CleanSession /\ "connect" \notin AppCalls /\ {"subscribe", "unsubscribe"} \cap CallbackCalls = {}

Live == state = "CONNECTED" /\ link = "up"
SubAcks == {"SUBACK", "SUBACK_FAIL"}
Is(f, fn, pc) == f.fn = fn /\ f.pc = pc

\* The packet or result p is on its way to a call that waits for it.
OnReturn(p) == ret = p \/ (stack # <<>> /\ Top.fn = "cycle" /\ Top.rc = p)
Carried(p) == (\E k \in 1..Len(inbound) : inbound[k] = p) \/ OnReturn(p)

\* The calls that a call in this place may be waiting for.
Callees(f) ==
  IF Is(f, "connect", "wait") \/ Is(f, "yield", "cycled") THEN {"cycle"}
  ELSE IF Is(f, "reconnect", "opened") THEN {"connect"}
  ELSE IF Is(f, "reconnect", "resub") THEN {"subscribe"}
  ELSE IF f.fn \in Requests /\ f.pc \in {"send", "exit"} THEN {"reconnect"}
  ELSE IF f.fn \in Requests /\ f.pc = "wait" THEN {"cycle"}
  ELSE IF Is(f, "yield", "again") THEN {"reconnect"}
  ELSE IF f.fn = "cycle" THEN {"callback"}
  ELSE IF Is(f, "callback", "done") THEN {"publish"}
  ELSE {}

\* What a frame holds: _handle_reconnect starts with the first slot, and only the
\* cycle that has just read an acknowledgement holds one.
FrameHolds(f, i) ==
  /\ f.fn = "reconnect" /\ f.pc \in {"begin", "opened"} => f.n = 0
  /\ f.rc \in SubAcks \cup ConnAcks => i = 1 /\ f.fn = "cycle"

\* Each call was made by the one below it.
NestedInv ==
  /\ \A i \in 1..(Len(stack) - 1) : stack[i].fn \in Callees(stack[i + 1])
  /\ \A i \in 1..Len(stack) : FrameHolds(stack[i], i)

\* A reconnection that fails leaves no session.
OutcomeInv ==
  /\ At("reconnect", "begin") => state # "CONNECTED"
  /\ At("reconnect", "opened") /\ ret # "SUCCESS" => ~Live
  /\ AtRequest("send") /\ ret # "SUCCESS" => ~Live

-----------------------------------------------------------------------------
(* The stack after a step.                                                 *)

\* After a return.
LEMMA ReturnAt ==
  ASSUME CallsOK, stack # <<>>, NEW rc, Return(rc)
  PROVE  /\ Len(stack) \in Nat \ {0} /\ Len(stack') = Len(stack) - 1 /\ stack[1] = Top
         /\ \A i \in 1..Len(stack') : stack'[i] = stack[i + 1]
         /\ stack' # <<>> => Top' = stack[2] /\ Len(stack) >= 2
         /\ ret' = rc
  BY DEF CallsOK, Return, Top

\* After a step within the innermost call.
LEMMA ContinueAt ==
  ASSUME CallsOK, stack # <<>>, NEW f, NEW rc, Continue(f, rc)
  PROVE  /\ Len(stack) \in Nat \ {0} /\ Len(stack') = Len(stack) /\ stack[1] = Top
         /\ stack'[1] = f /\ \A i \in 2..Len(stack) : stack'[i] = stack[i]
         /\ stack' # <<>> /\ Top' = f /\ ret' = rc
  BY DEF CallsOK, Continue, Top

\* After a call.
LEMMA CallAt ==
  ASSUME CallsOK, stack # <<>>, NEW f, NEW g, Call(f, g)
  PROVE  /\ Len(stack) \in Nat \ {0} /\ Len(stack') = Len(stack) + 1 /\ stack[1] = Top
         /\ stack'[1] = g /\ stack'[2] = f
         /\ \A i \in 3..Len(stack') : stack'[i] = stack[i - 1]
         /\ stack' # <<>> /\ Top' = g /\ ret' = "NONE"
  BY DEF CallsOK, Call, Top

\* After a message has been handed to its callback.
LEMMA DeliverAt ==
  ASSUME CallsOK, stack # <<>>, NEW rc, Deliver(rc)
  PROVE  /\ Len(stack) \in Nat \ {0} /\ Len(stack') = Len(stack) + 2 /\ stack[1] = Top
         /\ stack'[1] = Callback /\ stack'[2] = Cycle(rc) /\ stack'[3] = Resumed
         /\ \A i \in 4..Len(stack') : stack'[i] = stack[i - 2]
         /\ stack' # <<>> /\ Top' = Callback /\ ret' = "NONE"
  BY DEF CallsOK, Deliver, Top

\* A return keeps the calls nested.
LEMMA ReturnNested ==
  ASSUME CallsOK, NestedInv, stack # <<>>, NEW rc, Return(rc)
  PROVE  NestedInv'
<1>1. /\ Len(stack) \in Nat \ {0} /\ Len(stack') = Len(stack) - 1
      /\ \A i \in 1..Len(stack') : stack'[i] = stack[i + 1]
  BY ReturnAt
<1>2. \A i \in 1..(Len(stack') - 1) : stack'[i].fn \in Callees(stack'[i + 1])
  BY <1>1 DEF NestedInv
<1>3. ASSUME NEW i \in 1..Len(stack') PROVE FrameHolds(stack'[i], i)
  BY <1>1 DEF NestedInv, FrameHolds
<1> QED
  BY <1>2, <1>3 DEF NestedInv

\* What the call below is told when a connection or a reconnection ends.
LEMMA ReturnOutcome ==
  ASSUME CallsOK, NestedInv, stack # <<>>, NEW rc, Return(rc),
         Top.fn \in {"connect", "reconnect"} /\ rc # "SUCCESS" => ~Live'
  PROVE  OutcomeInv'
<1>1. /\ stack[1] = Top /\ Len(stack) \in Nat /\ ret' = rc
      /\ stack' # <<>> => Top' = stack[2] /\ Len(stack) >= 2
  BY ReturnAt
<1>2. stack' # <<>> => Top.fn \in Callees(Top')
  BY <1>1 DEF NestedInv
<1> HIDE DEF Top
<1>3. ~At("reconnect", "begin")'
  BY <1>2 DEF At, Callees, Is, Requests
<1>4. At("reconnect", "opened")' => Top.fn = "connect"
  BY <1>2 DEF At, Callees, Is, Requests
<1>5. AtRequest("send")' => Top.fn = "reconnect"
  BY <1>2 DEF AtRequest, Callees, Is, Requests
<1> QED
  BY <1>1, <1>3, <1>4, <1>5 DEF OutcomeInv

\* A step within a call keeps both.
LEMMA ContinueNested ==
  ASSUME CallsOK, NestedInv, stack # <<>>, NEW f, NEW rc, Continue(f, rc),
         f.fn = Top.fn, f.fn # "reconnect", FrameHolds(f, 1),
         f.fn \in Requests /\ f.pc = "send" => rc = "SUCCESS"
  PROVE  NestedInv' /\ OutcomeInv'
<1>1. /\ Len(stack) \in Nat \ {0} /\ Len(stack') = Len(stack) /\ stack[1] = Top
      /\ stack'[1] = f /\ \A i \in 2..Len(stack) : stack'[i] = stack[i]
      /\ stack' # <<>> /\ Top' = f /\ ret' = rc
  BY ContinueAt
<1>2. ASSUME NEW i \in 1..(Len(stack') - 1) PROVE stack'[i].fn \in Callees(stack'[i + 1])
  <2>1. stack[i].fn \in Callees(stack[i + 1])
    BY <1>1 DEF NestedInv
  <2>2. stack'[i].fn = stack[i].fn /\ stack'[i + 1] = stack[i + 1]
    BY <1>1
  <2> QED
    BY <2>1, <2>2
<1>3. ASSUME NEW i \in 1..Len(stack') PROVE FrameHolds(stack'[i], i)
  BY <1>1 DEF NestedInv
<1>4. OutcomeInv'
  BY <1>1 DEF OutcomeInv, At, AtRequest
<1> QED
  BY <1>2, <1>3, <1>4 DEF NestedInv

\* So does a call.
LEMMA CallNested ==
  ASSUME CallsOK, NestedInv, stack # <<>>, NEW f, NEW g, Call(f, g),
         f.fn = Top.fn, g.fn \in Callees(f), FrameHolds(f, 2), FrameHolds(g, 1),
         g.fn = "reconnect" => g.pc = "begin" /\ state' # "CONNECTED",
         g.fn \in Requests => g.pc # "send"
  PROVE  NestedInv' /\ OutcomeInv'
<1>1. /\ Len(stack) \in Nat \ {0} /\ Len(stack') = Len(stack) + 1 /\ stack[1] = Top
      /\ stack'[1] = g /\ stack'[2] = f
      /\ \A i \in 3..Len(stack') : stack'[i] = stack[i - 1]
      /\ stack' # <<>> /\ Top' = g /\ ret' = "NONE"
  BY CallAt
<1>2. ASSUME NEW i \in 1..(Len(stack') - 1) PROVE stack'[i].fn \in Callees(stack'[i + 1])
  <2>1. CASE i = 1
    BY <1>1, <2>1
  <2>2. CASE i # 1
    <3>1. i - 1 \in 1..(Len(stack) - 1) /\ stack[i - 1].fn \in Callees(stack[i - 1 + 1])
      BY <1>1, <2>2 DEF NestedInv
    <3>2. stack'[i].fn = stack[i - 1].fn /\ stack'[i + 1] = stack[i]
      BY <1>1, <2>2
    <3> QED
      BY <3>1, <3>2
  <2> QED
    BY <2>1, <2>2
<1>3. ASSUME NEW i \in 1..Len(stack') PROVE FrameHolds(stack'[i], i)
  <2>1. CASE i \in 1..2
    BY <1>1, <2>1
  <2>2. CASE i \in 3..Len(stack')
    <3>1. FrameHolds(stack[i - 1], i - 1) /\ stack'[i] = stack[i - 1]
      BY <1>1, <2>2 DEF NestedInv
    <3> QED
      BY <2>2, <3>1 DEF FrameHolds
  <2> QED
    BY <1>1, <2>1, <2>2
<1>4. OutcomeInv'
  BY <1>1 DEF OutcomeInv, At, AtRequest
<1> QED
  BY <1>2, <1>3, <1>4 DEF NestedInv

\* So does the delivery of a message.
LEMMA DeliverNested ==
  ASSUME CallsOK, NestedInv, stack # <<>>, NEW rc, Deliver(rc), rc \notin SubAcks \cup ConnAcks,
         Resumed.fn = Top.fn, "cycle" \in Callees(Resumed), FrameHolds(Resumed, 3)
  PROVE  NestedInv' /\ OutcomeInv'
<1>1. /\ Len(stack) \in Nat \ {0} /\ Len(stack') = Len(stack) + 2 /\ stack[1] = Top
      /\ stack'[1] = Callback /\ stack'[2] = Cycle(rc) /\ stack'[3] = Resumed
      /\ \A i \in 4..Len(stack') : stack'[i] = stack[i - 2]
      /\ stack' # <<>> /\ Top' = Callback
  BY DeliverAt
<1>0. /\ Callback.fn = "callback" /\ Callback.rc = "NONE" /\ Callback.pc = "run"
      /\ Cycle(rc).fn = "cycle" /\ Cycle(rc).rc = rc
  BY DEF Callback, Cycle, Frame
<1>2. ASSUME NEW i \in 1..(Len(stack') - 1) PROVE stack'[i].fn \in Callees(stack'[i + 1])
  <2>1. CASE i = 1
    BY <1>0, <1>1, <2>1 DEF Callees, Is, Requests
  <2>2. CASE i = 2
    BY <1>0, <1>1, <2>2
  <2>3. CASE i > 2
    <3>1. i - 2 \in 1..(Len(stack) - 1) /\ stack[i - 2].fn \in Callees(stack[i - 2 + 1])
      BY <1>1, <2>3 DEF NestedInv
    <3>2. stack'[i].fn = stack[i - 2].fn /\ stack'[i + 1] = stack[i - 1]
      BY <1>1, <2>3
    <3> QED
      BY <3>1, <3>2
  <2> QED
    BY <2>1, <2>2, <2>3
<1>3. ASSUME NEW i \in 1..Len(stack') PROVE FrameHolds(stack'[i], i)
  <2>1. CASE i \in 1..2
    BY <1>0, <1>1, <2>1 DEF FrameHolds, SubAcks, ConnAcks
  <2>2. CASE i = 3
    BY <1>1, <2>2
  <2>3. CASE i \in 4..Len(stack')
    <3>1. FrameHolds(stack[i - 2], i - 2) /\ stack'[i] = stack[i - 2]
      BY <1>1, <2>3 DEF NestedInv
    <3> QED
      BY <2>3, <3>1 DEF FrameHolds
  <2> QED
    BY <1>1, <2>1, <2>2, <2>3
<1>4. OutcomeInv'
  BY <1>0, <1>1 DEF OutcomeInv, At, AtRequest, Requests
<1> QED
  BY <1>2, <1>3, <1>4 DEF NestedInv

-----------------------------------------------------------------------------
(* What the steps of one session do to the network.                        *)

\* What the broker sends besides messages and the answers to CONNECT and SUBSCRIBE.
Others == {"UNSUBACK", "PUBACK", "PUBREC", "PUBREL", "PUBCOMP", "PINGRESP"}

\* `d' packets have been read, or all are gone, and only those in `new' have come.
Moves(d, new) ==
  \A k \in 1..Len(inbound') :
    inbound'[k] \in new \/ (k + d \in 1..Len(inbound) /\ inbound'[k] = inbound[k + d])

\* No socket is opened and no session begins; the subscriptions of one that goes on stay.
SameLink == link' = "up" => link = "up" /\ brokerUp' = brokerUp
SameSubs == link' = "up" => brokerSubs' = brokerSubs
SameState == state' = state \/ (state = "CONNECTED" /\ state' = "INITIALIZED")
Plain == SameLink /\ SameSubs /\ SameState

\* Nothing is read.
LEMMA MovesNone ==
  ASSUME inbound \in Seq(Packets), inbound' \in {inbound, <<>>}, NEW new
  PROVE  Moves(0, new)
  BY DEF Moves

\* One packet is read.
LEMMA MovesTail ==
  ASSUME inbound \in Seq(Packets), inbound # <<>>, inbound' = Tail(inbound), NEW new
  PROVE  Moves(1, new)
  BY DEF Moves

\* The broker's answer to anything but CONNECT and SUBSCRIBE.
LEMMA WrittenMoves ==
  ASSUME inbound \in Seq(Packets), NEW p \in DOMAIN Replies \ {"SUBSCRIBE"}, NEW t,
         NEW d \in 0..1, NEW backlog \in Seq(Packets), Written(p, t, backlog),
         \A k \in 1..Len(backlog) : k + d \in 1..Len(inbound) /\ backlog[k] = inbound[k + d]
  PROVE  /\ Moves(d, Others) /\ SameLink
         /\ p # "UNSUBSCRIBE" => SameSubs
<1>0. p # "CONNECT"
  BY DEF Replies
<1>1. ASSUME inbound' = backlog PROVE Moves(d, Others)
  BY <1>1 DEF Moves
<1>2. CASE link \in {"silent", "dead"}
  BY <1>1, <1>2 DEF Written, SameLink, SameSubs
<1>3. CASE BrokerHangsUp(p, backlog)
  BY <1>1, <1>3 DEF BrokerHangsUp, SameLink, SameSubs
<1>4. CASE BrokerAnswers(p, t, backlog) /\ link = "up"
  <2>1. Replies[p] = <<>> \/ \E q \in Others : Replies[p] = <<q>>
    BY DEF Replies, Others
  <2>2. Moves(d, Others)
    <3>1. CASE Replies[p] = <<>>
      BY <1>1, <1>4, <3>1 DEF BrokerAnswers
    <3>2. CASE \E q \in Others : Replies[p] = <<q>>
      <4>1. PICK q \in Others : inbound' = backlog \o <<q>>
        BY <1>4, <3>2 DEF BrokerAnswers
      <4>2. \A k \in 1..Len(inbound') : inbound'[k] = q \/ (k \in 1..Len(backlog) /\ inbound'[k] = backlog[k])
        BY <4>1
      <4> QED
        BY <4>2 DEF Moves
    <3> QED
      BY <2>1, <3>1, <3>2
  <2> QED
    BY <1>0, <1>4, <2>2 DEF BrokerAnswers, SubsAfter, SameLink, SameSubs
<1> QED
  BY <1>0, <1>2, <1>3, <1>4
  DEF Written, BrokerAccepts, BrokerRefusesConnect, BrokerRefusesTopic

\* The same when nothing was read before, and when the packet answered was.
LEMMA WrittenFirst ==
  ASSUME inbound \in Seq(Packets), NEW p \in DOMAIN Replies \ {"SUBSCRIBE"}, NEW t,
         Written(p, t, inbound)
  PROVE  /\ Moves(0, Others) /\ SameLink
         /\ p # "UNSUBSCRIBE" => SameSubs
<1>1. 0 \in 0..1 /\ \A k \in 1..Len(inbound) : k + 0 \in 1..Len(inbound) /\ inbound[k] = inbound[k + 0]
  OBVIOUS
<1> QED
  BY <1>1, WrittenMoves

\* The packet it answers has been read.
LEMMA WrittenNext ==
  ASSUME inbound \in Seq(Packets), inbound # <<>>, NEW p \in {"PUBACK", "PUBREC", "PUBREL", "PUBCOMP"},
         Written(p, NoTopic, Tail(inbound))
  PROVE  Moves(1, Others) /\ SameLink /\ SameSubs
<1>1. /\ 1 \in 0..1 /\ Tail(inbound) \in Seq(Packets)
      /\ \A k \in 1..Len(Tail(inbound)) :
           k + 1 \in 1..Len(inbound) /\ Tail(inbound)[k] = inbound[k + 1]
  OBVIOUS
<1>2. p \in DOMAIN Replies \ {"SUBSCRIBE"} /\ p # "UNSUBSCRIBE"
  BY DEF Replies
<1> QED
  BY <1>1, <1>2, WrittenMoves

\* Disconnecting ends the session or does nothing.
LEMMA DisconnectPlain ==
  ASSUME NetOK, NEW running, NEW backlog, Disconnect(running, backlog)
  PROVE  /\ Plain /\ state' # "CONNECTED"
         /\ inbound' = <<>> \/ inbound' = backlog
  BY DEF Disconnect, Plain, SameLink, SameSubs, SameState

\* Steps that leave the session alone.
LEMMA PlainSame ==
  ASSUME NetOK, UNCHANGED net, UNCHANGED state
  PROVE  Plain /\ Moves(0, Others)
<1>1. Plain
  BY DEF Plain, SameLink, SameSubs, SameState, net
<1>2. inbound \in Seq(Packets) /\ inbound' = inbound
  BY DEF NetOK, net
<1> QED
  BY <1>1, <1>2, MovesNone

-----------------------------------------------------------------------------
(* The receive cycle: what its steps have in common.                       *)

MovesOn == Moves(0, Others) \/ Moves(1, Others)
Answers == SubAcks \cup ConnAcks

\* cycle() begins, with what it has read.
CycleBegins ==
  /\ Cycling /\ MovesOn
  /\ \E rc \in Results :
       /\ Call(Resumed, Cycle(rc))
       /\ rc \in Answers => inbound # <<>> /\ rc = Head(inbound) /\ Moves(1, Others)

\* It has read a message.
CycleDelivers ==
  /\ Cycling /\ inbound # <<>> /\ Head(inbound) \in Publishes /\ Moves(1, Others)
  /\ \E rc \in Publishes \cup {"SEND_FAILED"} : Deliver(rc)

\* It fails.
CycleErrs == Cycling /\ MovesOn /\ Continue(Resumed, "ERR") /\ state' # "CONNECTED"

\* It ends with keepalive().
CycleEnds == At("cycle", "keepalive") /\ Moves(0, Others) /\ \E rc \in {Top.rc, "ERR"} : Return(rc)

\* Every step of the receive cycle is one of the four and opens no session.
LEMMA CycleKinds ==
  ASSUME TypeInv, CycleStep
  PROVE  /\ Plain /\ handlers' = handlers
         /\ CycleBegins \/ CycleDelivers \/ CycleErrs \/ CycleEnds
<1>0. NetOK /\ inbound \in Seq(Packets)
  BY DEF TypeInv, NetOK
<1>a. {"IDLE", "ERR"} \cup Packets \subseteq Results /\ {"IDLE", "ERR", "SEND_FAILED"} \cap Answers = {}
  BY DEF Results, Answers, SubAcks, ConnAcks
<1>b. inbound # <<>> => Head(inbound) \in Packets /\ Tail(inbound) \in Seq(Packets)
  BY <1>0, Pop
<1>c. ASSUME state' = state, SameLink, SameSubs PROVE Plain
  BY <1>c DEF Plain, SameState
<1>1. ASSUME ReadNothing PROVE Plain /\ handlers' = handlers /\ CycleBegins
  <2>1. Plain /\ Moves(0, Others)
    BY <1>0, <1>1, PlainSame DEF ReadNothing, client
  <2> QED
    BY <1>a, <1>1, <2>1 DEF ReadNothing, CycleBegins, MovesOn, client
<1>2. ASSUME ReadError PROVE Plain /\ handlers' = handlers /\ CycleErrs
  <2>1. Plain /\ state' # "CONNECTED" /\ (inbound' = <<>> \/ inbound' = inbound)
    BY <1>0, <1>2, DisconnectPlain DEF ReadError, CycleFails
  <2>2. Moves(0, Others)
    BY <1>0, <2>1, MovesNone
  <2> QED
    BY <1>2, <2>1, <2>2 DEF ReadError, CycleErrs, MovesOn
<1>3. ASSUME ReadAck PROVE Plain /\ handlers' = handlers /\ CycleBegins
  <2>1. Moves(1, Others)
    BY <1>0, <1>3, MovesTail DEF ReadAck, Reading
  <2>2. Plain
    BY <1>c, <1>3 DEF ReadAck, SameLink, SameSubs
  <2>3. Cycling /\ inbound # <<>> /\ Head(inbound) \in Results /\ Call(Resumed, Cycle(Head(inbound)))
    BY <1>a, <1>b, <1>3 DEF ReadAck, Reading
  <2> QED
    BY <1>3, <2>1, <2>2, <2>3 DEF ReadAck, CycleBegins, MovesOn
<1>4. ASSUME ReadPublish PROVE Plain /\ handlers' = handlers /\ CycleDelivers
  <2>0. inbound # <<>> /\ Head(inbound) \in Publishes /\ Cycling /\ state' = state /\ handlers' = handlers
    BY <1>4 DEF ReadPublish, Reading
  <2>1. \E rc \in Publishes \cup {"SEND_FAILED"} : Deliver(rc)
    BY <1>4, <2>0 DEF ReadPublish
  <2>2. Moves(1, Others) /\ SameLink /\ SameSubs
    <3>1. CASE inbound' = Tail(inbound) /\ UNCHANGED <<link, brokerUp, brokerSubs>>
      BY <1>0, <2>0, <3>1, MovesTail DEF SameLink, SameSubs
    <3>2. CASE \E p \in {"PUBACK", "PUBREC"} : Written(p, NoTopic, Tail(inbound))
      BY <1>0, <2>0, <3>2, WrittenNext
    <3> QED
      BY <1>4, <3>1, <3>2 DEF ReadPublish, WriteFails
  <2> QED
    BY <1>c, <2>0, <2>1, <2>2 DEF CycleDelivers
<1>5. ASSUME ReadRelease PROVE Plain /\ handlers' = handlers /\ CycleBegins
  <2>0. /\ inbound # <<>> /\ Head(inbound) \in {"PUBREC", "PUBREL"} /\ Cycling
        /\ state' = state /\ handlers' = handlers /\ Call(Resumed, Cycle(Head(inbound)))
    BY <1>5 DEF ReadRelease, Reading
  <2>1. \E p \in {"PUBREL", "PUBCOMP"} : Written(p, NoTopic, Tail(inbound))
    BY <1>5 DEF ReadRelease
  <2>2. Moves(1, Others) /\ SameLink /\ SameSubs
    BY <1>0, <2>0, <2>1, WrittenNext
  <2>3. Head(inbound) \in Results
    BY <1>a, <1>b, <2>0
  <2> QED
    BY <1>c, <2>0, <2>2, <2>3 DEF CycleBegins, MovesOn
<1>6. ASSUME ReadReleaseFails PROVE Plain /\ handlers' = handlers /\ CycleErrs
  <2>0. inbound # <<>>
    BY <1>6 DEF ReadReleaseFails, Reading
  <2>1. Plain /\ state' # "CONNECTED" /\ (inbound' = <<>> \/ inbound' = Tail(inbound))
    BY <1>0, <1>6, DisconnectPlain DEF ReadReleaseFails, CycleFails
  <2>2. MovesOn
    BY <1>0, <2>0, <2>1, MovesNone, MovesTail DEF MovesOn
  <2> QED
    BY <1>6, <2>1, <2>2 DEF ReadReleaseFails, Reading, CycleErrs
<1>7. ASSUME KeepaliveNotDue PROVE Plain /\ handlers' = handlers /\ CycleEnds
  <2>1. Plain /\ Moves(0, Others)
    BY <1>0, <1>7, PlainSame DEF KeepaliveNotDue, client
  <2> QED
    BY <1>7, <2>1 DEF KeepaliveNotDue, CycleEnds, client
<1>8. ASSUME KeepalivePing \/ KeepalivePingWasted PROVE Plain /\ handlers' = handlers /\ CycleEnds
  <2>0. Written("PINGREQ", NoTopic, inbound)
    BY <1>8 DEF KeepalivePing, KeepalivePingWasted
  <2>1. Moves(0, Others) /\ SameLink /\ SameSubs
    <3>1. "PINGREQ" \in DOMAIN Replies \ {"SUBSCRIBE"} /\ "PINGREQ" # "UNSUBSCRIBE"
      BY DEF Replies
    <3> QED
      BY <1>0, <2>0, <3>1, WrittenFirst
  <2> QED
    BY <1>c, <1>8, <2>1 DEF KeepalivePing, KeepalivePingWasted, CycleEnds
<1>9. ASSUME KeepaliveFails PROVE Plain /\ handlers' = handlers /\ CycleEnds
  <2>1. Plain /\ (inbound' = <<>> \/ inbound' = inbound)
    BY <1>0, <1>9, DisconnectPlain DEF KeepaliveFails, CycleFails
  <2>2. Moves(0, Others)
    BY <1>0, <2>1, MovesNone
  <2> QED
    BY <1>9, <2>1, <2>2 DEF KeepaliveFails, CycleEnds
<1> QED
  BY <1>1, <1>2, <1>3, <1>4, <1>5, <1>6, <1>7, <1>8, <1>9 DEF CycleStep

-----------------------------------------------------------------------------
(* Calls nest.                                                             *)

\* The fields of frames that actions push.
LEMMA FrameFields ==
  /\ Is(Connect, "connect", "send") /\ Is(Reconnect, "connect", "open") /\ Is(Yield, "yield", "loop")
  /\ Is(HandleReconnect, "reconnect", "begin") /\ HandleReconnect.n = 0 /\ Is(Callback, "callback", "run")
  /\ \A t : /\ Is(Subscribe(t), "subscribe", "check") /\ Subscribe(t).topic = t
            /\ Is(Unsubscribe(t), "unsubscribe", "check")
  /\ \A q : Is(PublishAt(q), "publish", "check")
  /\ \A rc : Cycle(rc).fn = "cycle" /\ Cycle(rc).rc = rc
  /\ \A t : Subscribe(t).rc = "NONE" /\ Unsubscribe(t).rc = "NONE"
  /\ \A q : PublishAt(q).rc = "NONE"
  /\ \A f \in {Connect, Reconnect, Yield, HandleReconnect, Callback} : f.rc = "NONE"
  BY DEF Connect, Reconnect, Yield, HandleReconnect, Callback, Subscribe, Unsubscribe, PublishAt,
         Cycle, Frame, Is

\* The fields that a call keeps when it goes on.
LEMMA TopFields ==
  ASSUME CallsOK, stack # <<>>
  PROVE  /\ \A pc : LET f == [Top EXCEPT !.pc = pc] IN
              /\ Is(f, Top.fn, pc) /\ f.topic = Top.topic /\ f.n = Top.n /\ f.rc = Top.rc
         /\ \A pc, n : LET f == [Top EXCEPT !.pc = pc, !.n = n] IN
              /\ Is(f, Top.fn, pc) /\ f.topic = Top.topic /\ f.n = n /\ f.rc = Top.rc
         /\ \A pc, rc : LET f == [Top EXCEPT !.pc = pc, !.rc = rc] IN
              /\ Is(f, Top.fn, pc) /\ f.topic = Top.topic /\ f.n = Top.n /\ f.rc = rc
<1>1. Top \in Records
  BY TopOK DEF Frames
<1> HIDE DEF Top
<1> QED
  BY <1>1 DEF Records, Is

\* What the innermost call holds.
LEMMA TopHolds ==
  ASSUME CallsOK, NestedInv, stack # <<>>
  PROVE  FrameHolds(Top, 1)
<1>1. 1 \in 1..Len(stack) /\ Top = stack[1]
  BY DEF CallsOK, Top
<1> QED
  BY <1>1 DEF NestedInv

\* The call that runs the receive cycle, while the cycle runs.
LEMMA ResumedFields ==
  ASSUME CallsOK, NestedInv, stack # <<>>, Cycling
  PROVE  /\ Resumed.fn = Top.fn /\ "cycle" \in Callees(Resumed) /\ Resumed.rc \notin Answers
         /\ Top.fn \notin {"cycle", "reconnect"} /\ \A i \in 1..3 : FrameHolds(Resumed, i)
         /\ Top.fn # "yield" => Resumed = Top /\ Top.pc = "wait"
         /\ Top.fn \in Requests \cup {"connect", "yield"}
         /\ Resumed.fn \in Requests => Resumed.pc = "wait"
<1>1. \/ Top.pc = "wait" /\ Top.fn \in Requests \cup {"connect"}
      \/ Top.fn = "yield"
  BY DEF Cycling, Waiting, AtRequest, At
<1>2. FrameHolds(Top, 1)
  BY TopHolds
<1>3. Top.rc \notin Answers
  BY <1>1, <1>2 DEF FrameHolds, Answers, Requests
<1>4. Resumed.fn = Top.fn /\ Resumed.rc = Top.rc /\ (Top.fn = "yield" => Resumed.pc = "cycled")
  BY TopFields DEF Resumed, Is
<1>5. Top.fn # "yield" => Resumed = Top
  BY DEF Resumed
<1> HIDE DEF Top, Resumed
<1>6. "cycle" \in Callees(Resumed)
  BY <1>1, <1>4, <1>5 DEF Callees, Is, Requests
<1>7. \A i \in 1..3 : FrameHolds(Resumed, i)
  BY <1>1, <1>3, <1>4 DEF FrameHolds, Answers, Requests
<1> QED
  BY <1>1, <1>3, <1>4, <1>5, <1>6, <1>7 DEF Requests

ShapeInv == NestedInv /\ OutcomeInv

\* The receive cycle.
LEMMA CycleShape ==
  ASSUME TypeInv, ShapeInv, CycleStep
  PROVE  ShapeInv'
<1>0. CallsOK /\ NestedInv /\ OutcomeInv
  BY DEF TypeInv, ShapeInv
<1>1. CASE CycleBegins
  <2>1. PICK rc \in Results : Call(Resumed, Cycle(rc))
    BY <1>1 DEF CycleBegins
  <2>2. stack # <<>> /\ Cycling
    BY <1>1 DEF CycleBegins, Cycling, Waiting, AtRequest, At
  <2>3. /\ Cycle(rc).fn = "cycle" /\ FrameHolds(Cycle(rc), 1)
    BY FrameFields DEF FrameHolds
  <2> QED
    BY <1>0, <2>1, <2>2, <2>3, ResumedFields, CallNested DEF ShapeInv, Requests
<1>2. CASE CycleDelivers
  <2>1. PICK rc \in Publishes \cup {"SEND_FAILED"} : Deliver(rc)
    BY <1>2 DEF CycleDelivers
  <2>2. stack # <<>> /\ Cycling
    BY <1>2 DEF CycleDelivers, Cycling, Waiting, AtRequest, At
  <2>3. rc \notin SubAcks \cup ConnAcks
    BY DEF Publishes, SubAcks, ConnAcks
  <2> QED
    BY <1>0, <2>1, <2>2, <2>3, ResumedFields, DeliverNested DEF ShapeInv
<1>3. CASE CycleErrs
  <2>1. stack # <<>> /\ Cycling /\ Continue(Resumed, "ERR")
    BY <1>3 DEF CycleErrs, Cycling, Waiting, AtRequest, At
  <2> QED
    BY <1>0, <2>1, ResumedFields, ContinueNested DEF ShapeInv
<1>4. CASE CycleEnds
  <2>1. PICK rc : Return(rc)
    BY <1>4 DEF CycleEnds
  <2>2. stack # <<>> /\ Top.fn = "cycle"
    BY <1>4 DEF CycleEnds, At
  <2> QED
    BY <1>0, <2>1, <2>2, ReturnNested, ReturnOutcome DEF ShapeInv
<1> QED
  BY <1>1, <1>2, <1>3, <1>4, CycleKinds

\* A refused CONNECT has cost the socket.
RefusedInv == Carried("CONNACK_FAIL") => link # "up"

\* Opening a connection, and _handle_reconnect.
LEMMA ConnectShape ==
  ASSUME TypeInv, ShapeInv, RefusedInv, ConnectStep
  PROVE  ShapeInv'
<1>0. CallsOK /\ NestedInv /\ OutcomeInv /\ NetOK
  BY DEF TypeInv, ShapeInv
<1>a. /\ \A pc : At("connect", pc) => stack # <<>> /\ Top.fn = "connect" /\ Top.pc = pc
      /\ \A pc : At("reconnect", pc) => stack # <<>> /\ Top.fn = "reconnect" /\ Top.pc = pc
  BY DEF At
<1>b. stack # <<>> => FrameHolds(Top, 1)
  BY <1>0, TopHolds
<1>1. ASSUME NEW rc, Return(rc), stack # <<>>, rc # "SUCCESS" => ~Live'
      PROVE  ShapeInv'
  BY <1>0, <1>1, ReturnNested, ReturnOutcome DEF ShapeInv
<1>2. ASSUME NEW f, NEW rc, Continue(f, rc), stack # <<>>, Top.fn = "connect", f.fn = "connect",
             f.rc \notin Answers
      PROVE  ShapeInv'
  <2>1. FrameHolds(f, 1) /\ f.fn # "reconnect" /\ f.fn \notin Requests
    BY <1>2 DEF FrameHolds, Requests, Answers
  <2> QED
    BY <1>0, <1>2, <2>1, ContinueNested DEF ShapeInv
<1>3. ASSUME \/ ReconnectConnected \/ ReconnectOpenFails \/ ConnectAlready \/ ConnectSendFails
             \/ ConnectAcked \/ ConnectRefused \/ HandleReconnectSkips
             \/ HandleReconnectBacksOff \/ HandleReconnectFinishes
      PROVE  ShapeInv'
  <2>1. CASE ReconnectConnected \/ ConnectAlready \/ ConnectAcked \/ HandleReconnectFinishes
    BY <1>1, <1>a, <2>1 DEF ReconnectConnected, ConnectAlready, ConnectAcked, HandleReconnectFinishes, Resubscribing
  <2>2. CASE ReconnectOpenFails \/ HandleReconnectSkips
    <3>1. state' # "CONNECTED"
      BY <1>0, <2>2 DEF ReconnectOpenFails, HandleReconnectSkips, client, OutcomeInv
    <3> QED
      BY <1>1, <1>a, <2>2, <3>1 DEF ReconnectOpenFails, HandleReconnectSkips, Live
  <2>3. CASE ConnectSendFails \/ ConnectRefused
    <3>1. link' # "up"
      BY <2>3 DEF ConnectSendFails, WriteFails, ConnectRefused, RefusedInv, Carried, OnReturn, net
    <3> QED
      BY <1>1, <1>a, <2>3, <3>1 DEF ConnectSendFails, ConnectRefused, Live
  <2>4. CASE HandleReconnectBacksOff
    <3>1. ~Live'
      BY <1>0, <2>4 DEF HandleReconnectBacksOff, OutcomeInv, Live, net
    <3> QED
      BY <1>1, <1>a, <2>4, <3>1 DEF HandleReconnectBacksOff
  <2> QED
    BY <1>3, <2>1, <2>2, <2>3, <2>4
<1>4. ASSUME ConnectTimesOut PROVE ShapeInv'
  <2>1. state' # "CONNECTED"
    BY <1>0, <1>4, DisconnectPlain DEF ConnectTimesOut, DropSession
  <2> QED
    BY <1>1, <1>a, <1>4, <2>1 DEF ConnectTimesOut, Live
<1>5. ASSUME ReconnectReuse \/ ReconnectOpen \/ ConnectSend PROVE ShapeInv'
  <2>1. /\ Connect.fn = "connect" /\ Connect.rc \notin Answers
    BY FrameFields DEF Is, Answers, SubAcks, ConnAcks
  <2>2. stack # <<>> => [Top EXCEPT !.pc = "wait"].fn = Top.fn /\ [Top EXCEPT !.pc = "wait"].rc = Top.rc
    BY <1>0, TopFields DEF Is
  <2>3. Top.fn = "connect" /\ stack # <<>> => Top.rc \notin Answers
    BY <1>b DEF FrameHolds, Answers
  <2> QED
    BY <1>2, <1>5, <1>a, <2>1, <2>2, <2>3 DEF ReconnectReuse, ReconnectOpen, ConnectSend
<1>6. ASSUME HandleReconnectTries PROVE ShapeInv'
  <2>1. stack # <<>> /\ Is(Top, "reconnect", "begin") /\ Top.n = 0 /\ Top.rc \notin Answers
    BY <1>6, <1>a, <1>b DEF HandleReconnectTries, Is, FrameHolds, Answers
  <2> DEFINE f == [Top EXCEPT !.pc = "opened"]
  <2>2. Is(f, "reconnect", "opened") /\ f.n = 0 /\ f.rc = Top.rc
    BY <1>0, <2>1, TopFields DEF Is
  <2>3. Call(f, Reconnect)
    BY <1>6 DEF HandleReconnectTries
  <2> HIDE DEF f
  <2>4. Reconnect.fn \in Callees(f) /\ FrameHolds(f, 2) /\ FrameHolds(Reconnect, 1)
    BY <2>1, <2>2, FrameFields DEF Callees, Is, FrameHolds, Answers, SubAcks, ConnAcks
  <2>5. Reconnect.fn = "connect" /\ f.fn = Top.fn
    BY <2>1, <2>2, FrameFields DEF Is
  <2> QED
    BY <1>0, <2>1, <2>3, <2>4, <2>5, CallNested DEF ShapeInv, Requests
<1>7. ASSUME HandleReconnectResubscribes PROVE ShapeInv'
  <2>0. stack # <<>> /\ Top.fn = "reconnect" /\ Top.rc \notin Answers
    BY <1>7, <1>a, <1>b DEF HandleReconnectResubscribes, Resubscribing, FrameHolds, Answers
  <2>1. PICK i \in SlotsAhead : Call([Top EXCEPT !.pc = "resub", !.n = i], Subscribe(handlers[i]))
    BY <1>7 DEF HandleReconnectResubscribes
  <2> DEFINE f == [Top EXCEPT !.pc = "resub", !.n = i]
             g == Subscribe(handlers[i])
  <2>2. Is(f, "reconnect", "resub") /\ f.rc = Top.rc
    BY <1>0, <2>0, TopFields DEF Is
  <2>3. Is(g, "subscribe", "check") /\ g.rc = "NONE"
    BY FrameFields
  <2>4. Call(f, g)
    BY <2>1
  <2> HIDE DEF f, g
  <2>5. g.fn \in Callees(f) /\ FrameHolds(f, 2) /\ FrameHolds(g, 1)
    BY <2>0, <2>2, <2>3 DEF Callees, Is, FrameHolds, Answers, SubAcks, ConnAcks
  <2>6. g.fn = "subscribe" /\ g.pc = "check" /\ f.fn = Top.fn
    BY <2>0, <2>2, <2>3 DEF Is
  <2> QED
    BY <1>0, <2>0, <2>4, <2>5, <2>6, CallNested DEF ShapeInv
<1> QED
  BY <1>3, <1>4, <1>5, <1>6, <1>7 DEF ConnectStep, ConnectTimesOut

\* What callbacks may call.
LEMMA CallbackFrames ==
  ASSUME UsedAsInExamples, NEW g \in RequestFrames(CallbackCalls)
  PROVE  Is(g, "publish", "check") /\ g.rc = "NONE"
  BY FrameFields DEF UsedAsInExamples, RequestFrames

\* Requests, tc_iot_mqtt_yield and callbacks.
LEMMA RequestShape ==
  ASSUME UsedAsInExamples, TypeInv, ShapeInv, RequestStep
  PROVE  ShapeInv'
<1>0. CallsOK /\ NestedInv /\ OutcomeInv /\ NetOK
  BY DEF TypeInv, ShapeInv
<1>a. /\ \A pc : AtRequest(pc) => stack # <<>> /\ Top.fn \in Requests /\ Top.pc = pc
      /\ \A pc : At("yield", pc) => stack # <<>> /\ Top.fn = "yield" /\ Top.pc = pc
      /\ \A pc : At("callback", pc) => stack # <<>> /\ Top.fn = "callback" /\ Top.pc = pc
      /\ \A pc : At("publish", pc) => AtRequest(pc)
      /\ \A pc : At("subscribe", pc) => AtRequest(pc)
      /\ Requests \cap {"connect", "reconnect", "cycle", "yield", "callback"} = {}
  BY DEF At, AtRequest, Requests
<1>b. stack # <<>> /\ Top.fn # "cycle" => Top.rc \notin Answers
  BY <1>0, TopHolds DEF FrameHolds, Answers
<1>1. ASSUME NEW rc, Return(rc), stack # <<>>, Top.fn \in Requests \cup {"yield", "callback"}
      PROVE  ShapeInv'
  BY <1>0, <1>1, <1>a, ReturnNested, ReturnOutcome DEF ShapeInv
<1>2. ASSUME NEW f, NEW rc, Continue(f, rc), stack # <<>>, Top.fn \in Requests \cup {"yield"},
             f.fn = Top.fn, f.rc \notin Answers, f.pc = "send" => rc = "SUCCESS"
      PROVE  ShapeInv'
  <2>1. FrameHolds(f, 1) /\ f.fn # "reconnect"
    BY <1>2, <1>a DEF FrameHolds, Answers
  <2> QED
    BY <1>0, <1>2, <2>1, ContinueNested DEF ShapeInv
<1>3. ASSUME NEW f, Call(f, HandleReconnect), stack # <<>>, f.fn = Top.fn, f.rc \notin Answers,
             \/ f.fn \in Requests /\ f.pc \in {"send", "exit"}
             \/ Is(f, "yield", "again"),
             state' # "CONNECTED"
      PROVE  ShapeInv'
  <2>1. /\ Is(HandleReconnect, "reconnect", "begin") /\ HandleReconnect.n = 0 /\ HandleReconnect.rc = "NONE"
    BY FrameFields
  <2>2. HandleReconnect.fn \in Callees(f) /\ FrameHolds(f, 2) /\ FrameHolds(HandleReconnect, 1)
    BY <1>3, <1>a, <2>1 DEF Callees, Is, FrameHolds, Answers, SubAcks, ConnAcks, Requests
  <2>3. HandleReconnect.pc = "begin" /\ HandleReconnect.fn \notin Requests
    BY <1>a, <2>1 DEF Is
  <2> QED
    BY <1>0, <1>3, <2>2, <2>3, CallNested DEF ShapeInv
<1>4. CASE RequestConnected
  <2>1. stack # <<>> /\ Top.fn \in Requests /\ Continue([Top EXCEPT !.pc = "send"], "SUCCESS")
    BY <1>4, <1>a DEF RequestConnected
  <2> QED
    BY <1>0, <1>2, <1>a, <1>b, <2>1, TopFields DEF Is
<1>5. CASE RequestReconnects
  <2>1. /\ stack # <<>> /\ Top.fn \in Requests /\ Call([Top EXCEPT !.pc = "send"], HandleReconnect)
        /\ state' # "CONNECTED"
    BY <1>5, <1>a DEF RequestReconnects, client
  <2> DEFINE f == [Top EXCEPT !.pc = "send"]
  <2>2. f.fn = Top.fn /\ f.pc = "send" /\ f.rc = Top.rc
    BY <1>0, <2>1, TopFields DEF Is
  <2>3. f.rc \notin Answers
    BY <1>a, <1>b, <2>1, <2>2
  <2>4. Call(f, HandleReconnect)
    BY <2>1
  <2> HIDE DEF f
  <2> QED
    BY <1>3, <2>1, <2>2, <2>3, <2>4
<1>6. CASE RequestUnavailable \/ RequestNotConnected \/ PublishTooLarge \/ SubscribeRefused
           \/ RequestAcked \/ RequestExits
  BY <1>1, <1>6, <1>a DEF RequestUnavailable, RequestNotConnected, PublishTooLarge, SubscribeRefused,
     RequestAcked, RequestExits
<1>7. CASE RequestSend
  <2>1. stack # <<>> /\ Top.fn \in Requests
    BY <1>7, <1>a DEF RequestSend
  <2>2. Return("SUCCESS") \/ Continue([Top EXCEPT !.pc = "wait"], "NONE")
    BY <1>7 DEF RequestSend
  <2> DEFINE f == [Top EXCEPT !.pc = "wait"]
  <2>3. f.fn = Top.fn /\ f.rc = Top.rc /\ f.pc = "wait"
    BY <1>0, <2>1, TopFields DEF Is
  <2>4. Return("SUCCESS") \/ Continue(f, "NONE")
    BY <2>2
  <2>5. f.rc \notin Answers
    BY <1>a, <1>b, <2>1, <2>3
  <2> HIDE DEF f
  <2> QED
    BY <1>1, <1>2, <2>1, <2>3, <2>4, <2>5
<1>8. CASE RequestSendFails \/ RequestTimesOut
  <2>0. PICK rc \in {"SEND_FAILED", "WAIT_TIMEOUT"} : GiveUp(rc) /\ stack # <<>> /\ Top.fn \in Requests
    BY <1>8, <1>a DEF RequestSendFails, RequestTimesOut
  <2>1. state' # "CONNECTED" /\ Call([Top EXCEPT !.pc = "exit", !.rc = rc], HandleReconnect)
    BY <1>0, <2>0, DisconnectPlain DEF GiveUp, DropSession
  <2> DEFINE f == [Top EXCEPT !.pc = "exit", !.rc = rc]
  <2>2. f.fn = Top.fn /\ f.rc = rc /\ f.pc = "exit"
    BY <1>0, <2>0, TopFields DEF Is
  <2>3. f.rc \notin Answers
    BY <2>2 DEF Answers, SubAcks, ConnAcks
  <2>4. Call(f, HandleReconnect)
    BY <2>1
  <2> HIDE DEF f
  <2> QED
    BY <1>3, <2>0, <2>1, <2>2, <2>3, <2>4
<1>9. CASE YieldReconnects
  <2>1. /\ stack # <<>> /\ Top.fn = "yield" /\ Call([Top EXCEPT !.pc = "again"], HandleReconnect)
        /\ state' # "CONNECTED"
    BY <1>9, <1>a DEF YieldReconnects, client
  <2> DEFINE f == [Top EXCEPT !.pc = "again"]
  <2>2. Is(f, "yield", "again") /\ f.fn = Top.fn /\ f.rc = Top.rc
    BY <1>0, <2>1, TopFields DEF Is
  <2>3. f.rc \notin Answers
    BY <1>b, <2>1, <2>2
  <2>4. Call(f, HandleReconnect)
    BY <2>1
  <2> HIDE DEF f
  <2> QED
    BY <1>3, <2>1, <2>2, <2>3, <2>4
<1>10. CASE YieldLoops
  <2>1. stack # <<>> /\ Top.fn = "yield" /\ Continue(Yield, "NONE")
    BY <1>10, <1>a DEF YieldLoops
  <2>2. Yield.fn = "yield" /\ Yield.rc = "NONE" /\ Yield.pc = "loop"
    BY FrameFields DEF Is
  <2> QED
    BY <1>2, <2>1, <2>2 DEF Answers, SubAcks, ConnAcks
<1>11. CASE YieldReturns \/ CallbackReturns
  BY <1>1, <1>11, <1>a DEF YieldReturns, CallbackReturns
<1>12. CASE CallbackRequests
  <2>1. stack # <<>> /\ Top.fn = "callback"
    BY <1>12, <1>a DEF CallbackRequests
  <2>2. PICK g \in RequestFrames(CallbackCalls) : Call([Top EXCEPT !.pc = "done"], g)
    BY <1>12 DEF CallbackRequests
  <2> DEFINE f == [Top EXCEPT !.pc = "done"]
  <2>3. Is(f, "callback", "done") /\ f.rc = Top.rc
    BY <1>0, <2>1, TopFields DEF Is
  <2>4. Is(g, "publish", "check") /\ g.rc = "NONE"
    BY CallbackFrames
  <2>5. Call(f, g)
    BY <2>2
  <2> HIDE DEF f
  <2>6. g.fn \in Callees(f) /\ FrameHolds(f, 2) /\ FrameHolds(g, 1)
    BY <1>a, <1>b, <2>1, <2>3, <2>4 DEF Callees, Is, FrameHolds, Answers, SubAcks, ConnAcks
  <2>7. g.pc = "check" /\ g.fn = "publish" /\ f.fn = Top.fn
    BY <2>1, <2>3, <2>4 DEF Is
  <2> QED
    BY <1>0, <2>1, <2>5, <2>6, <2>7, CallNested DEF ShapeInv
<1> QED
  BY <1>4, <1>5, <1>6, <1>7, <1>8, <1>9, <1>10, <1>11, <1>12 DEF RequestStep

\* Calls of the application, time, the network and the broker.
LEMMA AppEnvShape ==
  ASSUME ShapeInv, AppStep \/ EnvStep
  PROVE  ShapeInv'
<1>0. NestedInv /\ OutcomeInv
  BY DEF ShapeInv
<1>1. ASSUME stack' = <<>> PROVE ShapeInv'
  BY <1>1 DEF ShapeInv, NestedInv, OutcomeInv, At, AtRequest
<1>2. ASSUME NEW f, stack' = <<f>>, f.rc = "NONE", f.fn # "reconnect", f.fn \in Requests => f.pc = "check"
      PROVE  ShapeInv'
  <2>1. Len(stack') = 1 /\ stack'[1] = f /\ Head(stack') = f
    BY <1>2
  <2>2. FrameHolds(f, 1)
    BY <1>2 DEF FrameHolds, SubAcks, ConnAcks
  <2>3. NestedInv'
    BY <2>1, <2>2 DEF NestedInv
  <2>4. OutcomeInv'
    BY <1>2, <2>1 DEF OutcomeInv, At, AtRequest, Top
  <2> QED
    BY <2>3, <2>4 DEF ShapeInv
<1>3. ASSUME UNCHANGED calls, state' = state, Live' => Live PROVE ShapeInv'
  BY <1>0, <1>3 DEF ShapeInv, NestedInv, OutcomeInv, At, AtRequest, Top, calls
<1>4. CASE Construct
  BY <1>1, <1>2, <1>4, FrameFields DEF Construct, Is, Requests
<1>5. CASE AppYields \/ AppConnects \/ AppRequests
  <2>1. \A f \in RequestFrames(AppCalls) : f.fn \in Requests /\ f.pc = "check" /\ f.rc = "NONE"
    BY FrameFields DEF RequestFrames, Is, Requests
  <2> QED
    BY <1>2, <1>5, <2>1, FrameFields DEF AppYields, AppConnects, AppRequests, Is, Requests
<1>6. CASE AppDisconnects
  BY <1>1, <1>6 DEF AppDisconnects
<1>7. CASE AppSetsAutoReconnect \/ AppDestroys \/ (\E t \in Timers : Tick(t))
  BY <1>3, <1>7 DEF AppSetsAutoReconnect, AppDestroys, Tick, Live, net
<1>8. CASE LinkSilent \/ LinkDies \/ BrokerPublish
  BY <1>3, <1>8 DEF LinkSilent, LinkDies, BrokerPublish, Live, client
<1> QED
  BY <1>4, <1>5, <1>6, <1>7, <1>8 DEF AppStep, EnvStep

-----------------------------------------------------------------------------
(* A session as it opens.                                                  *)

\* A socket on which no CONNECT has been sent is one that is about to see it.
FreshInv == link = "up" /\ ~brokerUp =>
  At("connect", "send") /\ state = "NETWORK_READY" /\ inbound = <<>>

\* tc_iot_mqtt_connect_with_results waits for the answer to its CONNECT.
Opening ==
  \/ At("connect", "wait")
  \/ stack # <<>> /\ Top.fn = "cycle" /\ Len(stack) >= 2 /\ Is(stack[2], "connect", "wait")

\* What it waits on is a session in which nothing has happened yet.
OpeningInv == Opening /\ link = "up" =>
  /\ brokerSubs = {} /\ \A k \in 1..Len(inbound) : inbound[k] \notin Publishes
  /\ \A p \in SubAcks : ~Carried(p)

\* A message can reach it only from a socket that the broker has given up: then
\* whatever its callback does leaves the client without a session.
WaitingInv == \A i \in 1..Len(stack) : Is(stack[i], "connect", "wait") =>
  state = "NETWORK_READY" /\ (i >= 3 => link # "up" /\ ~Carried("CONNACK"))

\* The broker answers a CONNECT before it sends anything else.
ConnackInv == \A k \in 2..Len(inbound) : inbound[k] # "CONNACK"

BrokerInv == RefusedInv /\ FreshInv /\ OpeningInv /\ WaitingInv /\ ConnackInv

\* No acknowledgement is handed on that was not there before.
NoNews(set) == \A p \in set : OnReturn(p)' => Carried(p)

\* Nor does one arrive in a step that brings only `new' packets.
LEMMA CarriedKept ==
  ASSUME NEW d \in 0..1, NEW new, Moves(d, new), NEW p, p \notin new, OnReturn(p)' => Carried(p)
  PROVE  Carried(p)' => Carried(p)
  BY DEF Moves, Carried

\* The parts of the invariant that do not depend on the calls.
LEMMA BrokerKept ==
  ASSUME BrokerInv, NEW d \in 0..1, NEW new, Moves(d, new), new \cap ConnAcks = {},
         inbound \in Seq(Packets),
         SameLink, link' = "up" => brokerUp', NoNews(ConnAcks), WaitingInv',
         Opening' /\ link' = "up" => /\ Opening /\ SameSubs /\ NoNews(SubAcks)
                                     /\ new \cap (SubAcks \cup Publishes) = {}
  PROVE  BrokerInv'
<1>1. RefusedInv'
  <2>1. Carried("CONNACK_FAIL")' => Carried("CONNACK_FAIL")
    BY CarriedKept DEF NoNews, ConnAcks
  <2> QED
    BY <2>1 DEF RefusedInv, BrokerInv, SameLink
<1>2. FreshInv'
  BY DEF FreshInv
<1>3. OpeningInv'
  <2>1. SUFFICES ASSUME Opening', link' = "up" PROVE OpeningInv'
    BY DEF OpeningInv
  <2>2. Opening /\ link = "up" /\ brokerSubs' = brokerSubs /\ new \cap (SubAcks \cup Publishes) = {}
    BY <2>1 DEF SameLink, SameSubs
  <2>3. /\ brokerSubs = {} /\ \A k \in 1..Len(inbound) : inbound[k] \notin Publishes
        /\ \A p \in SubAcks : ~Carried(p)
    BY <2>2 DEF OpeningInv, BrokerInv
  <2>4. \A k \in 1..Len(inbound') : inbound'[k] \notin Publishes
    BY <2>2, <2>3 DEF Moves
  <2>5. ASSUME NEW p \in SubAcks PROVE ~Carried(p)'
    <3>1. OnReturn(p)' => Carried(p)
      BY <2>1 DEF NoNews
    <3>2. p \notin new
      BY <2>2
    <3> QED
      BY <2>3, <3>1, <3>2, CarriedKept
  <2> QED
    BY <2>2, <2>3, <2>4, <2>5 DEF OpeningInv
<1>4. ConnackInv'
  <2>1. ASSUME NEW k \in 2..Len(inbound') PROVE inbound'[k] # "CONNACK"
    <3>1. inbound'[k] \in new \/ (k + d \in 2..Len(inbound) /\ inbound'[k] = inbound[k + d])
      BY <2>1 DEF Moves
    <3> QED
      BY <3>1 DEF ConnackInv, BrokerInv, ConnAcks
  <2> QED
    BY <2>1 DEF ConnackInv
<1> QED
  BY <1>1, <1>2, <1>3, <1>4 DEF BrokerInv

\* The socket a call returns on.
LEMMA ReturnOpening ==
  ASSUME CallsOK, NestedInv, WaitingInv, stack # <<>>, NEW rc, Return(rc), SameLink,
         \A i \in 2..Len(stack) : Is(stack[i], "connect", "wait") => SameState,
         rc \in Answers => Carried(rc), NEW d \in 0..1, NEW new, Moves(d, new), "CONNACK" \notin new
  PROVE  /\ WaitingInv' /\ NoNews(Answers)
         /\ Opening' /\ link' = "up" => Opening /\ Top.fn = "cycle"
<1>1. /\ Len(stack) \in Nat \ {0} /\ Len(stack') = Len(stack) - 1 /\ stack[1] = Top
      /\ \A i \in 1..Len(stack') : stack'[i] = stack[i + 1]
      /\ stack' # <<>> => Top' = stack[2] /\ Len(stack) >= 2
      /\ ret' = rc
  BY ReturnAt
<1>2. NoNews(Answers)
  <2>1. stack' # <<>> => FrameHolds(Top', 2)
    BY <1>1 DEF NestedInv
  <2> QED
    BY <1>1, <2>1 DEF NoNews, OnReturn, FrameHolds, Answers
<1>3. Carried("CONNACK")' => Carried("CONNACK")
  BY <1>2, CarriedKept DEF NoNews, Answers, ConnAcks
<1>4. WaitingInv'
  <2>1. ASSUME NEW i \in 1..Len(stack'), Is(stack'[i], "connect", "wait")
        PROVE  state' = "NETWORK_READY" /\ (i >= 3 => link' # "up" /\ ~Carried("CONNACK")')
    <3>1. i + 1 \in 2..Len(stack) /\ Is(stack[i + 1], "connect", "wait")
      BY <1>1, <2>1
    <3>2. state = "NETWORK_READY" /\ SameState /\ (i + 1 >= 3 => link # "up" /\ ~Carried("CONNACK"))
      BY <3>1 DEF WaitingInv
    <3> QED
      BY <1>3, <2>1, <3>2 DEF SameState, SameLink
  <2> QED
    BY <2>1 DEF WaitingInv
<1>5. ASSUME Opening', link' = "up" PROVE Opening /\ Top.fn = "cycle"
  <2>1. stack' # <<>> /\ Len(stack) >= 2 /\ Top' = stack[2] /\ Len(stack') \in Nat
    BY <1>1, <1>5 DEF Opening, At
  <2>2. CASE Is(Top', "connect", "wait")
    <3>1. Top.fn \in Callees(stack[2]) /\ Is(stack[2], "connect", "wait")
      BY <1>1, <2>1, <2>2 DEF NestedInv
    <3>2. Top.fn = "cycle"
      BY <3>1 DEF Callees, Is
    <3> QED
      BY <2>1, <3>1, <3>2 DEF Opening
  <2>3. CASE Top'.fn = "cycle" /\ Len(stack') >= 2 /\ Is(stack'[2], "connect", "wait")
    <3>1. Is(stack[3], "connect", "wait") /\ 3 \in 1..Len(stack)
      BY <1>1, <2>3
    <3>2. link # "up"
      BY <3>1 DEF WaitingInv
    <3> QED
      BY <1>5, <3>2 DEF SameLink
  <2> QED
    BY <1>5, <2>2, <2>3 DEF Opening, At, Is
<1> QED
  BY <1>2, <1>4, <1>5

\* The socket a call goes on with.
LEMMA ContinueOpening ==
  ASSUME CallsOK, NestedInv, WaitingInv, stack # <<>>, NEW f, NEW rc, Continue(f, rc), SameLink, SameState,
         f.fn = Top.fn, f.fn # "cycle", rc \notin Answers, Is(f, "connect", "wait") => Is(Top, "connect", "wait"),
         NEW d \in 0..1, NEW new, Moves(d, new), "CONNACK" \notin new
  PROVE  WaitingInv' /\ NoNews(Answers) /\ (Opening' => Opening /\ Is(Top, "connect", "wait"))
<1>1. /\ Len(stack) \in Nat \ {0} /\ Len(stack') = Len(stack) /\ stack[1] = Top
      /\ stack'[1] = f /\ \A i \in 2..Len(stack) : stack'[i] = stack[i]
      /\ stack' # <<>> /\ Top' = f /\ ret' = rc
  BY ContinueAt
<1>2. NoNews(Answers)
  BY <1>1 DEF NoNews, OnReturn
<1>3. Carried("CONNACK")' => Carried("CONNACK")
  BY <1>2, CarriedKept DEF NoNews, Answers, ConnAcks
<1>4. WaitingInv'
  <2>1. ASSUME NEW i \in 1..Len(stack'), Is(stack'[i], "connect", "wait")
        PROVE  state' = "NETWORK_READY" /\ (i >= 3 => link' # "up" /\ ~Carried("CONNACK")')
    <3>1. i \in 1..Len(stack) /\ Is(stack[i], "connect", "wait")
      BY <1>1, <2>1
    <3>2. state = "NETWORK_READY" /\ (i >= 3 => link # "up" /\ ~Carried("CONNACK"))
      BY <3>1 DEF WaitingInv
    <3> QED
      BY <1>3, <2>1, <3>2 DEF SameState, SameLink
  <2> QED
    BY <2>1 DEF WaitingInv
<1>5. Opening' => Opening /\ Is(Top, "connect", "wait")
  BY <1>1 DEF Opening, At, Is
<1> QED
  BY <1>2, <1>4, <1>5

\* The socket a call makes another one on.
LEMMA CallOpening ==
  ASSUME CallsOK, NestedInv, WaitingInv, stack # <<>>, NEW f, NEW g, Call(f, g), SameLink, SameState,
         f.fn = Top.fn, Top.fn # "cycle", Is(f, "connect", "wait") => Is(Top, "connect", "wait"),
         ~Is(g, "connect", "wait"), g.rc \in Answers => Carried(g.rc),
         NEW d \in 0..1, NEW new, Moves(d, new), "CONNACK" \notin new
  PROVE  /\ WaitingInv' /\ NoNews(Answers)
         /\ Opening' => Opening /\ g.fn = "cycle"
<1>1. /\ Len(stack) \in Nat \ {0} /\ Len(stack') = Len(stack) + 1 /\ stack[1] = Top
      /\ stack'[1] = g /\ stack'[2] = f
      /\ \A i \in 3..Len(stack') : stack'[i] = stack[i - 1]
      /\ stack' # <<>> /\ Top' = g /\ ret' = "NONE"
  BY CallAt
<1>2. NoNews(Answers)
  BY <1>1 DEF NoNews, OnReturn, Answers, SubAcks, ConnAcks
<1>3. Carried("CONNACK")' => Carried("CONNACK")
  BY <1>2, CarriedKept DEF NoNews, Answers, ConnAcks
<1>4. WaitingInv'
  <2>1. ASSUME NEW i \in 1..Len(stack'), Is(stack'[i], "connect", "wait")
        PROVE  state' = "NETWORK_READY" /\ (i >= 3 => link' # "up" /\ ~Carried("CONNACK")')
    <3>1. i # 1
      BY <1>1, <2>1
    <3>2. CASE i = 2
      <4>1. 1 \in 1..Len(stack) /\ Is(stack[1], "connect", "wait")
        BY <1>1, <2>1, <3>2
      <4>2. state = "NETWORK_READY"
        BY <4>1 DEF WaitingInv
      <4> QED
        BY <3>2, <4>2 DEF SameState
    <3>3. CASE i >= 3
      <4>1. i - 1 \in 2..Len(stack) /\ Is(stack[i - 1], "connect", "wait")
        BY <1>1, <2>1, <3>3
      <4>2. i - 1 # 2
        <5>1. SUFFICES ASSUME i - 1 = 2 PROVE FALSE
          OBVIOUS
        <5>2. 1 \in 1..(Len(stack) - 1) /\ Is(stack[2], "connect", "wait")
          BY <1>1, <4>1, <5>1
        <5>3. stack[1].fn \in Callees(stack[2])
          BY <5>2 DEF NestedInv
        <5> QED
          BY <1>1, <5>2, <5>3 DEF Callees, Is
      <4>3. state = "NETWORK_READY" /\ link # "up" /\ ~Carried("CONNACK")
        BY <1>1, <4>1, <4>2 DEF WaitingInv
      <4> QED
        BY <1>3, <4>3 DEF SameState, SameLink
    <3> QED
      BY <1>1, <3>1, <3>2, <3>3
  <2> QED
    BY <2>1 DEF WaitingInv
<1>5. Opening' => Opening /\ g.fn = "cycle"
  BY <1>1 DEF Opening, At, Is
<1> QED
  BY <1>2, <1>4, <1>5

\* The socket a message is delivered on.
LEMMA DeliverOpening ==
  ASSUME CallsOK, NestedInv, BrokerInv, stack # <<>>, Cycling, NEW rc, Deliver(rc), SameLink, SameState,
         inbound \in Seq(Packets), inbound # <<>>, Head(inbound) \in Publishes, Moves(1, Others)
  PROVE  WaitingInv' /\ NoNews(Answers) /\ ~Opening'
<1>1. /\ Len(stack) \in Nat \ {0} /\ Len(stack') = Len(stack) + 2 /\ stack[1] = Top
      /\ stack'[1] = Callback /\ stack'[2] = Cycle(rc) /\ stack'[3] = Resumed
      /\ \A i \in 4..Len(stack') : stack'[i] = stack[i - 2]
      /\ stack' # <<>> /\ Top' = Callback /\ ret' = "NONE"
  BY DeliverAt
<1>2. Callback.fn = "callback" /\ Cycle(rc).fn = "cycle"
  BY FrameFields DEF Is
<1>3. NoNews(Answers) /\ ~Opening'
  BY <1>1, <1>2 DEF NoNews, OnReturn, Answers, SubAcks, ConnAcks, Opening, At
<1>4. Carried("CONNACK")' => Carried("CONNACK")
  <2>1. "CONNACK" \notin Others /\ (OnReturn("CONNACK")' => Carried("CONNACK"))
    BY <1>3 DEF NoNews, Answers, ConnAcks, Others
  <2> QED
    BY <2>1, CarriedKept
<1>5. Top.fn # "cycle" /\ (Is(Resumed, "connect", "wait") => Is(Top, "connect", "wait"))
  BY ResumedFields DEF Is
<1>6. ASSUME NEW i \in 1..Len(stack'), Is(stack'[i], "connect", "wait")
      PROVE  state' = "NETWORK_READY" /\ (i >= 3 => link' # "up" /\ ~Carried("CONNACK")')
  <2>1. i \notin {1, 2}
    BY <1>1, <1>2, <1>6 DEF Is
  <2>2. CASE i = 3
    <3>1. At("connect", "wait") /\ 1 \in 1..Len(stack) /\ Is(stack[1], "connect", "wait")
      BY <1>1, <1>5, <1>6, <2>2 DEF At, Is
    <3>2. state = "NETWORK_READY"
      BY <3>1 DEF BrokerInv, WaitingInv
    <3>3. link # "up"
      <4>1. 1 \in 1..Len(inbound) /\ inbound[1] \in Publishes
        OBVIOUS
      <4> QED
        BY <3>1, <4>1 DEF BrokerInv, OpeningInv, Opening
    <3>4. ~Carried("CONNACK")'
      <4>1. ASSUME NEW k \in 1..Len(inbound') PROVE inbound'[k] # "CONNACK"
        <5>1. inbound'[k] \in Others \/ (k + 1 \in 2..Len(inbound) /\ inbound'[k] = inbound[k + 1])
          BY <4>1 DEF Moves
        <5> QED
          BY <5>1 DEF BrokerInv, ConnackInv, Others
      <4>2. ~OnReturn("CONNACK")'
        BY <1>1, <1>2 DEF OnReturn
      <4> QED
        BY <4>1, <4>2 DEF Carried
    <3> QED
      BY <3>2, <3>3, <3>4 DEF SameState, SameLink
  <2>3. CASE i >= 4
    <3>1. i - 2 \in 2..Len(stack) /\ Is(stack[i - 2], "connect", "wait")
      BY <1>1, <1>6, <2>3
    <3>2. i - 2 # 2
      <4>1. SUFFICES ASSUME i - 2 = 2 PROVE FALSE
        OBVIOUS
      <4>2. 1 \in 1..(Len(stack) - 1) /\ Is(stack[2], "connect", "wait")
        BY <1>1, <3>1, <4>1
      <4>3. stack[1].fn \in Callees(stack[2])
        BY <4>2 DEF NestedInv
      <4> QED
        BY <1>1, <1>5, <4>2, <4>3 DEF Callees, Is
    <3>3. state = "NETWORK_READY" /\ link # "up" /\ ~Carried("CONNACK")
      BY <1>1, <3>1, <3>2 DEF BrokerInv, WaitingInv
    <3> QED
      BY <1>4, <3>3 DEF SameState, SameLink
  <2> QED
    BY <1>1, <2>1, <2>2, <2>3
<1>7. WaitingInv'
  BY <1>6 DEF WaitingInv
<1> QED
  BY <1>3, <1>7

\* Only a call that is about to send CONNECT can be on a socket without a session.
LEMMA UpHasSession ==
  ASSUME BrokerInv, SameLink, ~At("connect", "send") \/ state # "NETWORK_READY" \/ link # "up"
  PROVE  link' = "up" => brokerUp'
  BY DEF BrokerInv, FreshInv, SameLink

\* The receive cycle.
LEMMA CycleBroker ==
  ASSUME TypeInv, ShapeInv, BrokerInv, CycleStep
  PROVE  BrokerInv'
<1>0. CallsOK /\ NestedInv /\ WaitingInv /\ inbound \in Seq(Packets)
  BY DEF TypeInv, ShapeInv, BrokerInv, NetOK
<1>a. SameLink /\ SameSubs /\ SameState
  BY CycleKinds DEF Plain
<1>b. "CONNACK" \notin Others /\ Others \cap ConnAcks = {} /\ Others \cap (SubAcks \cup Publishes) = {}
  BY DEF Others, ConnAcks, SubAcks, Publishes
<1>1. ASSUME NEW d \in 0..1, Moves(d, Others), NoNews(Answers), WaitingInv', Opening' /\ link' = "up" => Opening,
             ~At("connect", "send")
      PROVE  BrokerInv'
  <2>1. NoNews(ConnAcks) /\ NoNews(SubAcks) /\ (link' = "up" => brokerUp')
    BY <1>1, <1>a, UpHasSession DEF NoNews, Answers
  <2> QED
    BY <1>0, <1>1, <1>a, <1>b, <2>1, BrokerKept
<1>c. Cycling => stack # <<>> /\ ~At("connect", "send")
  BY DEF Cycling, Waiting, AtRequest, At, Requests
<1>2. CASE CycleBegins
  <2>1. PICK rc \in Results : /\ Call(Resumed, Cycle(rc))
                              /\ rc \in Answers => inbound # <<>> /\ rc = Head(inbound)
    BY <1>2 DEF CycleBegins
  <2>2. PICK d \in 0..1 : Moves(d, Others)
    BY <1>2 DEF CycleBegins, MovesOn
  <2>3. Cycling /\ stack # <<>> /\ ~At("connect", "send")
    BY <1>2, <1>c DEF CycleBegins
  <2>4. /\ Resumed.fn = Top.fn /\ Top.fn # "cycle"
        /\ Is(Resumed, "connect", "wait") => Is(Top, "connect", "wait")
    BY <1>0, <2>3, ResumedFields DEF Is
  <2>5. Cycle(rc).fn = "cycle" /\ Cycle(rc).rc = rc
    BY FrameFields
  <2>6. Cycle(rc).rc \in Answers => Carried(Cycle(rc).rc)
    <3>1. inbound # <<>> => 1 \in 1..Len(inbound) /\ inbound[1] = Head(inbound)
      BY <1>0
    <3> QED
      BY <2>1, <2>5, <3>1 DEF Carried
  <2>7. ~Is(Cycle(rc), "connect", "wait")
    BY <2>5 DEF Is
  <2>8. WaitingInv' /\ NoNews(Answers) /\ (Opening' => Opening)
    BY <1>0, <1>a, <1>b, <2>1, <2>2, <2>3, <2>4, <2>6, <2>7, CallOpening
  <2> QED
    BY <1>1, <2>2, <2>3, <2>8
<1>3. CASE CycleDelivers
  <2>1. PICK rc : Deliver(rc)
    BY <1>3 DEF CycleDelivers
  <2>2. /\ Cycling /\ stack # <<>> /\ ~At("connect", "send")
        /\ inbound # <<>> /\ Head(inbound) \in Publishes /\ Moves(1, Others)
    BY <1>3, <1>c DEF CycleDelivers
  <2>3. WaitingInv' /\ NoNews(Answers) /\ ~Opening'
    BY <1>0, <1>a, <2>1, <2>2, DeliverOpening
  <2> QED
    BY <1>1, <2>2, <2>3
<1>4. CASE CycleErrs
  <2>1. PICK d \in 0..1 : Moves(d, Others)
    BY <1>4 DEF CycleErrs, MovesOn
  <2>2. Cycling /\ stack # <<>> /\ ~At("connect", "send") /\ Continue(Resumed, "ERR")
    BY <1>4, <1>c DEF CycleErrs
  <2>3. /\ Resumed.fn = Top.fn /\ Top.fn # "cycle"
        /\ Is(Resumed, "connect", "wait") => Is(Top, "connect", "wait")
    BY <1>0, <2>2, ResumedFields DEF Is
  <2>4. "ERR" \notin Answers
    BY DEF Answers, SubAcks, ConnAcks
  <2>5. WaitingInv' /\ NoNews(Answers) /\ (Opening' => Opening)
    BY <1>0, <1>a, <1>b, <2>1, <2>2, <2>3, <2>4, ContinueOpening
  <2> QED
    BY <1>1, <2>1, <2>2, <2>5
<1>5. CASE CycleEnds
  <2>1. PICK rc \in {Top.rc, "ERR"} : Return(rc)
    BY <1>5 DEF CycleEnds
  <2>2. stack # <<>> /\ Top.fn = "cycle" /\ Moves(0, Others) /\ ~At("connect", "send")
    BY <1>5 DEF CycleEnds, At
  <2>3. rc \in Answers => Carried(rc)
    BY <2>2 DEF Carried, OnReturn, Answers, SubAcks, ConnAcks
  <2>4. WaitingInv' /\ NoNews(Answers) /\ (Opening' /\ link' = "up" => Opening)
    BY <1>0, <1>a, <1>b, <2>1, <2>2, <2>3, ReturnOpening
  <2> QED
    BY <1>1, <2>2, <2>4
<1> QED
  BY <1>2, <1>3, <1>4, <1>5, CycleKinds

\* A return that is not the end of a receive cycle.
LEMMA ReturnBroker ==
  ASSUME TypeInv, ShapeInv, BrokerInv, stack # <<>>, Top.fn # "cycle", NEW rc, Return(rc),
         rc \in Answers => Carried(rc), SameLink, link' = "up" => brokerUp',
         \A i \in 2..Len(stack) : Is(stack[i], "connect", "wait") => SameState,
         NEW new, Moves(0, new), new \cap ConnAcks = {}
  PROVE  BrokerInv'
<1>1. CallsOK /\ NestedInv /\ WaitingInv /\ inbound \in Seq(Packets) /\ "CONNACK" \notin new
  BY DEF TypeInv, ShapeInv, BrokerInv, NetOK, ConnAcks
<1>2. /\ WaitingInv' /\ NoNews(Answers)
      /\ Opening' /\ link' = "up" => Opening /\ Top.fn = "cycle"
  BY <1>1, ReturnOpening
<1>3. NoNews(ConnAcks) /\ ~(Opening' /\ link' = "up")
  BY <1>2 DEF NoNews, Answers
<1> QED
  BY <1>1, <1>2, <1>3, BrokerKept

\* A step within a call other than the wait for CONNACK.
LEMMA ContinueBroker ==
  ASSUME TypeInv, ShapeInv, BrokerInv, stack # <<>>, NEW f, NEW rc, Continue(f, rc),
         f.fn = Top.fn, f.fn # "cycle", ~Is(f, "connect", "wait"), rc \notin Answers,
         SameLink, SameState, link' = "up" => brokerUp', NEW new, Moves(0, new), new \cap ConnAcks = {}
  PROVE  BrokerInv'
<1>1. CallsOK /\ NestedInv /\ WaitingInv /\ inbound \in Seq(Packets) /\ "CONNACK" \notin new
  BY DEF TypeInv, ShapeInv, BrokerInv, NetOK, ConnAcks
<1>2. WaitingInv' /\ NoNews(Answers)
  BY <1>1, ContinueOpening
<1>3. NoNews(ConnAcks)
  BY <1>2 DEF NoNews, Answers
<1>4. ~Opening'
  BY <1>1, ContinueAt DEF Opening, At, Is
<1> QED
  BY <1>1, <1>2, <1>3, <1>4, BrokerKept

\* A call of anything but the receive cycle.
LEMMA CallBroker ==
  ASSUME TypeInv, ShapeInv, BrokerInv, stack # <<>>, NEW f, NEW g, Call(f, g),
         f.fn = Top.fn, Top.fn # "cycle", ~Is(f, "connect", "wait"), ~Is(g, "connect", "wait"),
         g.fn # "cycle", g.rc \notin Answers,
         Plain, Moves(0, Others), ~At("connect", "send")
  PROVE  BrokerInv'
<1>1. /\ CallsOK /\ NestedInv /\ WaitingInv /\ inbound \in Seq(Packets) /\ SameLink /\ SameState
      /\ "CONNACK" \notin Others /\ Others \cap ConnAcks = {}
  BY DEF TypeInv, ShapeInv, BrokerInv, NetOK, Plain, Others, ConnAcks
<1>2. /\ WaitingInv' /\ NoNews(Answers)
      /\ Opening' => Opening /\ g.fn = "cycle"
  BY <1>1, CallOpening
<1>3. NoNews(ConnAcks) /\ ~Opening' /\ (link' = "up" => brokerUp')
  BY <1>1, <1>2, UpHasSession DEF NoNews, Answers
<1> QED
  BY <1>1, <1>2, <1>3, BrokerKept

\* The CONNECT is sent: a socket without a session gets one, and an answer that
\* is the first packet on it.
LEMMA SendBroker ==
  ASSUME TypeInv, ShapeInv, SocketMatchesState, CleanSession, BrokerInv, ConnectSend
  PROVE  BrokerInv'
<1>0. CallsOK /\ NestedInv /\ WaitingInv /\ inbound \in Seq(Packets) /\ stack # <<>> /\ state \in States
  BY DEF TypeInv, ShapeInv, BrokerInv, NetOK, ConnectSend, At, ClientOK
<1>1. /\ Is(Top, "connect", "send") /\ state' = state /\ state # "CONNECTED"
      /\ Written("CONNECT", NoTopic, inbound) /\ Continue([Top EXCEPT !.pc = "wait"], "NONE")
  BY DEF ConnectSend, At, Is
<1>2. state = "NETWORK_READY"
  BY <1>0, <1>1 DEF SocketMatchesState, Written, States
<1> DEFINE f == [Top EXCEPT !.pc = "wait"]
<1>3. Is(f, "connect", "wait") /\ f.rc = Top.rc
  BY <1>0, <1>1, TopFields DEF Is
<1>4. Continue(f, "NONE")
  BY <1>1
<1> HIDE DEF f
<1>5. /\ Len(stack) \in Nat \ {0} /\ Len(stack') = Len(stack) /\ stack[1] = Top
      /\ stack'[1] = f /\ \A i \in 2..Len(stack) : stack'[i] = stack[i]
      /\ stack' # <<>> /\ Top' = f /\ ret' = "NONE"
  BY <1>0, <1>4, ContinueAt
<1>6. \A p \in Answers : ~OnReturn(p)'
  BY <1>3, <1>5 DEF OnReturn, Is, Answers, SubAcks, ConnAcks
<1>7. \/ link \in {"silent", "dead"} /\ inbound' = inbound /\ UNCHANGED <<link, brokerUp, brokerSubs>>
      \/ /\ link = "up" /\ brokerUp /\ inbound' = inbound /\ link' = "dead" /\ UNCHANGED brokerSubs
      \/ /\ link = "up" /\ ~brokerUp /\ inbound = <<>>
         /\ \/ inbound' = <<"CONNACK">> /\ link' = "up" /\ brokerUp' = TRUE /\ brokerSubs' = {}
            \/ inbound' = <<"CONNACK_FAIL">> /\ link' = "dead"
  <2>1. link = "up" /\ ~brokerUp => inbound = <<>>
    BY DEF BrokerInv, FreshInv
  <2>2. inbound = <<>> => Append(inbound, "CONNACK") = <<"CONNACK">> /\ Append(inbound, "CONNACK_FAIL") = <<"CONNACK_FAIL">>
    BY <1>0
  <2>3. brokerUp \in BOOLEAN
    BY DEF TypeInv, NetOK
  <2> QED
    BY <1>1, <2>1, <2>2, <2>3
    DEF Written, BrokerAccepts, BrokerRefusesConnect, BrokerHangsUp, BrokerAnswers, BrokerRefusesTopic
<1>8. WaitingInv'
  <2>1. ASSUME NEW i \in 1..Len(stack'), Is(stack'[i], "connect", "wait"), i >= 3
        PROVE  link' # "up" /\ ~Carried("CONNACK")'
    <3>1. i \in 1..Len(stack) /\ Is(stack[i], "connect", "wait")
      BY <1>5, <2>1
    <3>2. link # "up" /\ ~Carried("CONNACK")
      BY <1>0, <2>1, <3>1 DEF WaitingInv
    <3>3. link' # "up" /\ inbound' = inbound
      BY <1>7, <3>2
    <3>4. "CONNACK" \in Answers
      BY DEF Answers, ConnAcks
    <3> QED
      BY <1>6, <3>2, <3>3, <3>4 DEF Carried
  <2> QED
    BY <1>1, <1>2, <2>1 DEF WaitingInv
<1>9. OpeningInv' /\ FreshInv'
  <2>1. CASE link' # "up"
    BY <2>1 DEF OpeningInv, FreshInv
  <2>2. CASE link' = "up"
    <3>1. inbound' = <<"CONNACK">> /\ brokerUp' = TRUE /\ brokerSubs' = {}
      BY <1>7, <2>2
    <3>2. \A k \in 1..Len(inbound') : inbound'[k] = "CONNACK"
      BY <3>1
    <3>3. \A p \in SubAcks : ~Carried(p)'
      BY <1>6, <3>2 DEF Carried, SubAcks, Answers
    <3> QED
      BY <3>1, <3>2, <3>3 DEF OpeningInv, FreshInv, Publishes
  <2> QED
    BY <2>1, <2>2
<1>10. RefusedInv' /\ ConnackInv'
  <2>1. "CONNACK_FAIL" \in Answers
    BY DEF Answers, ConnAcks
  <2>2. CASE inbound' = inbound /\ link' # "up"
    BY <2>2 DEF RefusedInv, ConnackInv, BrokerInv
  <2>3. CASE inbound' = <<"CONNACK">>
    BY <1>6, <2>1, <2>3 DEF RefusedInv, ConnackInv, Carried
  <2>4. CASE inbound' = <<"CONNACK_FAIL">> /\ link' = "dead"
    BY <2>4 DEF RefusedInv, ConnackInv
  <2> QED
    BY <1>7, <2>2, <2>3, <2>4
<1> QED
  BY <1>8, <1>9, <1>10 DEF BrokerInv

\* Opening a connection, and _handle_reconnect.
LEMMA ConnectBroker ==
  ASSUME TypeInv, ShapeInv, SocketMatchesState, CleanSession, BrokerInv, ConnectStep
  PROVE  BrokerInv'
<1>0. CallsOK /\ NestedInv /\ WaitingInv /\ FreshInv /\ NetOK /\ inbound \in Seq(Packets)
  BY DEF TypeInv, ShapeInv, BrokerInv, NetOK
<1>a. /\ \A pc : At("connect", pc) => stack # <<>> /\ Is(Top, "connect", pc) /\ Top.fn # "cycle"
      /\ \A pc : At("reconnect", pc) => stack # <<>> /\ Is(Top, "reconnect", pc) /\ Top.fn # "cycle"
  BY DEF At, Is
<1>b. {"SUCCESS", "CONNECT_FAILED", "SEND_FAILED", "REFUSED", "WAIT_TIMEOUT", "NONE", "IN_PROGRESS",
       "UNAVAILABLE"} \cap Answers = {} /\ Others \cap ConnAcks = {}
  BY DEF Answers, SubAcks, ConnAcks, Others
<1>c. ASSUME UNCHANGED net, state' = state PROVE Plain /\ Moves(0, Others)
  BY <1>0, <1>c, PlainSame
<1>1. ASSUME NEW rc, Return(rc), rc \notin Answers, stack # <<>>, Top.fn # "cycle",
             Plain, Moves(0, Others), ~At("connect", "send") \/ state # "NETWORK_READY" \/ link # "up"
      PROVE  BrokerInv'
  <2>1. SameLink /\ SameState /\ (link' = "up" => brokerUp')
    BY <1>1, UpHasSession DEF Plain
  <2> QED
    BY <1>1, <1>b, <2>1, ReturnBroker
<1>2. CASE ReconnectConnected \/ ConnectAlready \/ ConnectRefused \/ ReconnectOpenFails
           \/ HandleReconnectSkips \/ HandleReconnectBacksOff \/ HandleReconnectFinishes
  <2>1. UNCHANGED net /\ state' = state
    BY <1>2 DEF ReconnectConnected, ConnectAlready, ConnectRefused, ReconnectOpenFails, HandleReconnectSkips,
       HandleReconnectBacksOff, HandleReconnectFinishes, client
  <2>2. stack # <<>> /\ Top.fn # "cycle" /\ (~At("connect", "send") \/ state # "NETWORK_READY")
    BY <1>2 DEF ReconnectConnected, ConnectAlready, ConnectRefused, ReconnectOpenFails, HandleReconnectSkips,
       HandleReconnectBacksOff, HandleReconnectFinishes, Resubscribing, At
  <2>3. \E rc \in {"SUCCESS", "CONNECT_FAILED", "REFUSED", "IN_PROGRESS", "UNAVAILABLE"} : Return(rc)
    BY <1>2 DEF ReconnectConnected, ConnectAlready, ConnectRefused, ReconnectOpenFails, HandleReconnectSkips,
       HandleReconnectBacksOff, HandleReconnectFinishes
  <2> QED
    BY <1>1, <1>b, <1>c, <2>1, <2>2, <2>3
<1>3. CASE ConnectSendFails
  <2>1. /\ UNCHANGED net /\ state' = state /\ stack # <<>> /\ Top.fn # "cycle" /\ link # "up"
        /\ Return("SEND_FAILED")
    BY <1>3, <1>a DEF ConnectSendFails, WriteFails, net
  <2> QED
    BY <1>1, <1>b, <1>c, <2>1
<1>4. CASE ConnectTimesOut
  <2>1. stack # <<>> /\ Top.fn # "cycle" /\ ~At("connect", "send") /\ Return("WAIT_TIMEOUT")
    BY <1>4 DEF ConnectTimesOut, At
  <2>2. Plain /\ (inbound' = <<>> \/ inbound' = inbound)
    BY <1>0, <1>4, DisconnectPlain DEF ConnectTimesOut, DropSession
  <2>3. Moves(0, Others)
    BY <1>0, <2>2, MovesNone
  <2> QED
    BY <1>1, <1>b, <2>1, <2>2, <2>3
<1>5. CASE ConnectAcked
  <2>1. stack # <<>> /\ Top.fn # "cycle" /\ ~At("connect", "send") /\ Return("SUCCESS") /\ ret = "CONNACK"
    BY <1>5 DEF ConnectAcked, At
  <2>2. SameLink /\ Moves(0, Others)
    BY <1>0, <1>5, MovesNone DEF ConnectAcked, net, SameLink
  <2>3. ASSUME NEW i \in 2..Len(stack), Is(stack[i], "connect", "wait") PROVE FALSE
    <3>1. Len(stack) \in Nat /\ stack[1] = Top
      BY <1>0, <2>1, ReturnAt
    <3>2. i # 2
      <4>1. SUFFICES ASSUME i = 2 PROVE FALSE
        OBVIOUS
      <4>2. stack[1].fn \in Callees(stack[2]) /\ Is(stack[2], "connect", "wait")
        BY <1>0, <2>3, <3>1, <4>1 DEF NestedInv
      <4> QED
        BY <2>1, <3>1, <4>2 DEF Callees, Is
    <3>3. i \in 1..Len(stack) /\ i >= 3
      BY <3>1, <3>2
    <3>4. ~Carried("CONNACK")
      BY <1>0, <2>3, <3>3 DEF WaitingInv
    <3> QED
      BY <2>1, <3>4 DEF Carried, OnReturn
  <2>4. link' = "up" => brokerUp'
    BY <2>1, <2>2, UpHasSession
  <2> QED
    BY <1>b, <2>1, <2>2, <2>3, <2>4, ReturnBroker
<1>6. CASE ReconnectReuse
  <2>1. stack # <<>> /\ Top.fn = "connect" /\ ~At("connect", "send") /\ Continue(Connect, "NONE")
    BY <1>6 DEF ReconnectReuse, At
  <2>2. Plain /\ Moves(0, Others)
    BY <1>6, <1>c DEF ReconnectReuse, client
  <2>3. Connect.fn = "connect" /\ ~Is(Connect, "connect", "wait")
    BY FrameFields DEF Is
  <2>4. SameLink /\ SameState /\ (link' = "up" => brokerUp')
    BY <2>1, <2>2, UpHasSession DEF Plain
  <2> QED
    BY <1>b, <2>1, <2>2, <2>3, <2>4, ContinueBroker
<1>7. CASE ReconnectOpen
  <2>1. /\ stack # <<>> /\ state = "INITIALIZED" /\ state' = "NETWORK_READY" /\ link' = "up" /\ inbound' = <<>>
        /\ Continue(Connect, "NONE")
    BY <1>7 DEF ReconnectOpen, At
  <2>2. Is(Connect, "connect", "send")
    BY FrameFields
  <2>3. /\ Len(stack) \in Nat \ {0} /\ Len(stack') = Len(stack) /\ stack'[1] = Connect
        /\ \A i \in 2..Len(stack) : stack'[i] = stack[i]
        /\ stack' # <<>> /\ Top' = Connect /\ ret' = "NONE"
    BY <1>0, <2>1, ContinueAt
  <2>4. ASSUME NEW i \in 1..Len(stack'), Is(stack'[i], "connect", "wait") PROVE FALSE
    <3>1. i # 1
      BY <2>2, <2>3, <2>4 DEF Is
    <3>2. i \in 1..Len(stack) /\ Is(stack[i], "connect", "wait")
      BY <2>3, <2>4, <3>1
    <3> QED
      BY <1>0, <2>1, <3>2 DEF WaitingInv
  <2>5. ~Carried("CONNACK_FAIL")'
    BY <2>1, <2>2, <2>3 DEF Carried, OnReturn, Is
  <2>6. At("connect", "send")' /\ ~Opening'
    BY <2>2, <2>3 DEF At, Opening, Is
  <2> QED
    BY <2>1, <2>4, <2>5, <2>6 DEF BrokerInv, RefusedInv, FreshInv, OpeningInv, WaitingInv, ConnackInv
<1>8. CASE ConnectSend
  BY <1>8, SendBroker
<1>9. CASE HandleReconnectTries
  <2>1. /\ stack # <<>> /\ Top.fn = "reconnect" /\ ~At("connect", "send")
        /\ Call([Top EXCEPT !.pc = "opened"], Reconnect) /\ Plain /\ Moves(0, Others)
    BY <1>9, <1>c DEF HandleReconnectTries, At, client
  <2> DEFINE f == [Top EXCEPT !.pc = "opened"]
  <2>2. f.fn = Top.fn /\ Is(f, "reconnect", "opened")
    BY <1>0, <2>1, TopFields DEF Is
  <2>3. Is(Reconnect, "connect", "open") /\ Reconnect.rc = "NONE"
    BY FrameFields
  <2>4. Call(f, Reconnect)
    BY <2>1
  <2> HIDE DEF f
  <2>5. /\ ~Is(f, "connect", "wait") /\ ~Is(Reconnect, "connect", "wait") /\ Reconnect.fn # "cycle"
        /\ Reconnect.rc \notin Answers /\ Top.fn # "cycle"
    BY <1>b, <2>1, <2>2, <2>3 DEF Is
  <2> QED
    BY <2>1, <2>2, <2>4, <2>5, CallBroker
<1>10. CASE HandleReconnectResubscribes
  <2>0. /\ stack # <<>> /\ Top.fn = "reconnect" /\ ~At("connect", "send") /\ Plain /\ Moves(0, Others)
    BY <1>10, <1>c DEF HandleReconnectResubscribes, Resubscribing, At, client
  <2>1. PICK i \in SlotsAhead : Call([Top EXCEPT !.pc = "resub", !.n = i], Subscribe(handlers[i]))
    BY <1>10 DEF HandleReconnectResubscribes
  <2> DEFINE f == [Top EXCEPT !.pc = "resub", !.n = i]
             g == Subscribe(handlers[i])
  <2>2. f.fn = Top.fn /\ Is(f, "reconnect", "resub")
    BY <1>0, <2>0, TopFields DEF Is
  <2>3. Is(g, "subscribe", "check") /\ g.rc = "NONE"
    BY FrameFields
  <2>4. Call(f, g)
    BY <2>1
  <2> HIDE DEF f, g
  <2>5. /\ ~Is(f, "connect", "wait") /\ ~Is(g, "connect", "wait") /\ g.fn # "cycle"
        /\ g.rc \notin Answers /\ Top.fn # "cycle"
    BY <1>b, <2>0, <2>2, <2>3 DEF Is
  <2> QED
    BY <2>0, <2>2, <2>4, <2>5, CallBroker
<1> QED
  BY <1>2, <1>3, <1>4, <1>5, <1>6, <1>7, <1>8, <1>9, <1>10 DEF ConnectStep

\* What becomes of a SUBSCRIBE.
LEMMA SubscribeWritten ==
  ASSUME NetOK, NEW t, Written("SUBSCRIBE", t, inbound)
  PROVE  \/ inbound' = inbound /\ link' # "up"
         \/ /\ inbound' = Append(inbound, "SUBACK") /\ brokerSubs' = brokerSubs \cup {t}
            /\ UNCHANGED <<link, brokerUp>>
         \/ /\ inbound' = Append(inbound, "SUBACK_FAIL") /\ brokerSubs' = brokerSubs
            /\ UNCHANGED <<link, brokerUp>>
<1>1. Replies["SUBSCRIBE"] = <<"SUBACK">>
  BY DEF Replies
<1>2. inbound \o <<"SUBACK">> = Append(inbound, "SUBACK")
  BY DEF NetOK
<1> QED
  BY <1>1, <1>2 DEF Written, BrokerAccepts, BrokerRefusesConnect, BrokerHangsUp, BrokerAnswers,
     BrokerRefusesTopic, SubsAfter

\* What a request sends.
LEMMA RequestPackets ==
  ASSUME CallsOK, stack # <<>>, Top.fn \in Requests
  PROVE  /\ RequestPacket(Top) \in DOMAIN Replies
         /\ RequestPacket(Top) = "SUBSCRIBE" <=> Top.fn = "subscribe"
         /\ RequestPacket(Top) = "UNSUBSCRIBE" <=> Top.fn = "unsubscribe"
<1>1. Top \in Frames
  BY TopOK
<1> HIDE DEF Top
<1>2. CASE Top.fn = "publish"
  <2>1. Top.n \in 0..2
    BY <1>1, <1>2 DEF Frames
  <2>2. RequestPacket(Top) \in {"PUBLISH0", "PUBLISH1", "PUBLISH2"}
    BY <1>2, <2>1 DEF RequestPacket, Publish
  <2> QED
    BY <1>2, <2>2 DEF Replies
<1>3. CASE Top.fn = "subscribe" \/ Top.fn = "unsubscribe"
  BY <1>3 DEF RequestPacket, Replies
<1> QED
  BY <1>2, <1>3 DEF Requests

\* A request opens no session, whatever it sends.
LEMMA RequestWritten ==
  ASSUME TypeInv, stack # <<>>, Top.fn \in Requests, Written(RequestPacket(Top), Top.topic, inbound)
  PROVE  /\ SameLink /\ Moves(0, Others \cup SubAcks)
         /\ Top.fn # "subscribe" => Moves(0, Others)
         /\ Top.fn = "publish" => SameSubs
<1>1. CallsOK /\ NetOK /\ inbound \in Seq(Packets)
  BY DEF TypeInv, NetOK
<1>2. CASE Top.fn = "subscribe"
  <2>1. Written("SUBSCRIBE", Top.topic, inbound)
    BY <1>2 DEF RequestPacket
  <2>2. \/ inbound' = inbound /\ link' # "up"
        \/ (\E a \in SubAcks : inbound' = Append(inbound, a)) /\ UNCHANGED <<link, brokerUp>>
    BY <1>1, <2>1, SubscribeWritten DEF SubAcks
  <2>3. Moves(0, Others \cup SubAcks)
    BY <1>1, <2>2 DEF Moves
  <2> QED
    BY <1>2, <2>2, <2>3 DEF SameLink
<1>3. CASE Top.fn # "subscribe"
  <2>1. RequestPacket(Top) \in DOMAIN Replies \ {"SUBSCRIBE"}
    BY <1>1, <1>3, RequestPackets
  <2>2. Moves(0, Others) /\ SameLink /\ (RequestPacket(Top) # "UNSUBSCRIBE" => SameSubs)
    BY <1>1, <2>1, WrittenFirst
  <2>3. Top.fn = "publish" => RequestPacket(Top) # "UNSUBSCRIBE"
    BY <1>1, RequestPackets
  <2> QED
    BY <2>2, <2>3, <1>3 DEF Moves
<1> QED
  BY <1>2, <1>3

\* Requests, tc_iot_mqtt_yield and callbacks.
LEMMA RequestBroker ==
  ASSUME UsedAsInExamples, TypeInv, ShapeInv, BrokerInv, RequestStep
  PROVE  BrokerInv'
<1>0. CallsOK /\ NestedInv /\ NetOK /\ inbound \in Seq(Packets)
  BY DEF TypeInv, ShapeInv, NetOK
<1>a. /\ \A pc : AtRequest(pc) => stack # <<>> /\ Top.fn \in Requests /\ Top.pc = pc
      /\ \A pc : At("yield", pc) => stack # <<>> /\ Top.fn = "yield"
      /\ \A pc : At("callback", pc) => stack # <<>> /\ Top.fn = "callback"
      /\ \A pc : At("publish", pc) => AtRequest(pc)
      /\ \A pc : At("subscribe", pc) => AtRequest(pc)
      /\ Requests \cap {"connect", "reconnect", "cycle", "yield", "callback"} = {}
  BY DEF At, AtRequest, Requests
<1>b. {"SUCCESS", "FAILURE", "SEND_FAILED", "SUBACK_FAILED", "WAIT_TIMEOUT", "NONE",
       "UNAVAILABLE"} \cap Answers = {} /\ (Others \cup SubAcks) \cap ConnAcks = {}
  BY DEF Answers, SubAcks, ConnAcks, Others
<1>c. ASSUME UNCHANGED net, state' = state PROVE Plain /\ Moves(0, Others)
  BY <1>0, <1>c, PlainSame
<1>d. stack # <<>> /\ Top.fn # "cycle" => Top.rc \notin Answers
  BY <1>0, TopHolds DEF FrameHolds, Answers
<1>e. Top.fn \in Requests \cup {"yield", "callback"} /\ stack # <<>> => ~At("connect", "send") /\ Top.fn # "cycle"
  BY <1>a DEF At
<1>1. ASSUME NEW rc, Return(rc), rc \in Answers => Carried(rc), stack # <<>>,
             Top.fn \in Requests \cup {"yield", "callback"}, SameLink, SameState, Moves(0, Others)
      PROVE  BrokerInv'
  <2>1. Top.fn # "cycle" /\ (link' = "up" => brokerUp') /\ Others \cap ConnAcks = {}
    BY <1>1, <1>b, <1>e, UpHasSession
  <2> QED
    BY <1>1, <2>1, ReturnBroker
<1>2. ASSUME NEW f, NEW rc, Continue(f, rc), rc \notin Answers, stack # <<>>,
             Top.fn \in Requests \cup {"yield"}, f.fn = Top.fn,
             SameLink, SameState, Moves(0, Others \cup SubAcks)
      PROVE  BrokerInv'
  <2>1. f.fn # "cycle" /\ ~Is(f, "connect", "wait") /\ (link' = "up" => brokerUp')
    BY <1>2, <1>a, <1>e, UpHasSession DEF Is
  <2> QED
    BY <1>2, <1>b, <2>1, ContinueBroker
<1>3. ASSUME NEW f, NEW g, Call(f, g), stack # <<>>, Top.fn \in Requests \cup {"yield", "callback"},
             f.fn = Top.fn, g.fn \in {"reconnect", "publish"}, g.rc = "NONE", Plain, Moves(0, Others)
      PROVE  BrokerInv'
  <2>1. Top.fn # "cycle" /\ ~Is(f, "connect", "wait") /\ ~Is(g, "connect", "wait") /\ ~At("connect", "send")
    BY <1>3, <1>a, <1>e DEF Is
  <2>2. g.fn # "cycle" /\ g.rc \notin Answers
    BY <1>3, <1>b
  <2> QED
    BY <1>3, <2>1, <2>2, CallBroker
<1>f. Is(HandleReconnect, "reconnect", "begin") /\ HandleReconnect.rc = "NONE"
  BY FrameFields
<1>4. CASE RequestConnected
  <2>1. stack # <<>> /\ Top.fn \in Requests /\ Continue([Top EXCEPT !.pc = "send"], "SUCCESS")
    BY <1>4, <1>a DEF RequestConnected
  <2>2. [Top EXCEPT !.pc = "send"].fn = Top.fn
    BY <1>0, <2>1, TopFields DEF Is
  <2>3. SameLink /\ SameState /\ Moves(0, Others \cup SubAcks)
    BY <1>4, <1>c DEF RequestConnected, client, Plain, Moves
  <2> QED
    BY <1>2, <1>b, <2>1, <2>2, <2>3
<1>5. CASE RequestReconnects \/ YieldReconnects
  <2>1. /\ stack # <<>> /\ Top.fn \in Requests \cup {"yield"}
        /\ \E pc \in {"send", "again"} : Call([Top EXCEPT !.pc = pc], HandleReconnect)
    BY <1>5, <1>a DEF RequestReconnects, YieldReconnects
  <2>2. PICK pc \in {"send", "again"} : Call([Top EXCEPT !.pc = pc], HandleReconnect)
    BY <2>1
  <2>3. [Top EXCEPT !.pc = pc].fn = Top.fn
    BY <1>0, <2>1, TopFields DEF Is
  <2>4. Plain /\ Moves(0, Others)
    BY <1>5, <1>c DEF RequestReconnects, YieldReconnects, client
  <2> QED
    BY <1>3, <1>f, <2>1, <2>2, <2>3, <2>4 DEF Is
<1>6. CASE RequestUnavailable \/ RequestNotConnected \/ PublishTooLarge \/ SubscribeRefused
           \/ RequestAcked \/ RequestExits \/ YieldReturns \/ CallbackReturns
  <2>1. UNCHANGED net /\ state' = state
    BY <1>6 DEF RequestUnavailable, RequestNotConnected, PublishTooLarge, SubscribeRefused,
       RequestAcked, RequestExits, YieldReturns, CallbackReturns, client
  <2>2. stack # <<>> /\ Top.fn \in Requests \cup {"yield", "callback"}
    BY <1>6, <1>a DEF RequestUnavailable, RequestNotConnected, PublishTooLarge, SubscribeRefused,
       RequestAcked, RequestExits, YieldReturns, CallbackReturns
  <2>3. PICK rc \in {"SUCCESS", "FAILURE", "SUBACK_FAILED", "NONE", "UNAVAILABLE", ret, Top.rc} : Return(rc)
    BY <1>6 DEF RequestUnavailable, RequestNotConnected, PublishTooLarge, SubscribeRefused,
       RequestAcked, RequestExits, YieldReturns, CallbackReturns
  <2>4. rc \in Answers => Carried(rc)
    BY <1>b, <1>d, <1>e, <2>2, <2>3 DEF Carried, OnReturn
  <2>5. SameLink /\ SameState /\ Moves(0, Others)
    BY <1>c, <2>1 DEF Plain
  <2> QED
    BY <1>1, <2>2, <2>3, <2>4, <2>5
<1>7. CASE RequestSend
  <2>1. /\ stack # <<>> /\ Top.fn \in Requests /\ Written(RequestPacket(Top), Top.topic, inbound)
        /\ state' = state
    BY <1>7, <1>a DEF RequestSend
  <2>2. SameLink /\ Moves(0, Others \cup SubAcks) /\ (Top.fn # "subscribe" => Moves(0, Others)) /\ SameState
    BY <2>1, RequestWritten DEF SameState
  <2>3. CASE Top.fn = "publish" /\ Return("SUCCESS")
    BY <1>1, <1>b, <2>1, <2>2, <2>3
  <2>4. CASE Continue([Top EXCEPT !.pc = "wait"], "NONE")
    <3>1. [Top EXCEPT !.pc = "wait"].fn = Top.fn
      BY <1>0, <2>1, TopFields DEF Is
    <3> QED
      BY <1>2, <1>b, <2>1, <2>2, <2>4, <3>1
  <2> QED
    BY <1>7, <2>3, <2>4 DEF RequestSend
<1>8. CASE RequestSendFails \/ RequestTimesOut
  <2>0. PICK rc \in {"SEND_FAILED", "WAIT_TIMEOUT"} : GiveUp(rc) /\ stack # <<>> /\ Top.fn \in Requests
    BY <1>8, <1>a DEF RequestSendFails, RequestTimesOut
  <2>1. Call([Top EXCEPT !.pc = "exit", !.rc = rc], HandleReconnect)
    BY <2>0 DEF GiveUp
  <2>2. [Top EXCEPT !.pc = "exit", !.rc = rc].fn = Top.fn
    BY <1>0, <2>0, TopFields DEF Is
  <2>3. Plain /\ (inbound' = <<>> \/ inbound' = inbound)
    BY <1>0, <2>0, DisconnectPlain DEF GiveUp, DropSession
  <2>4. Moves(0, Others)
    BY <1>0, <2>3, MovesNone
  <2> QED
    BY <1>3, <1>f, <2>0, <2>1, <2>2, <2>3, <2>4 DEF Is
<1>9. CASE YieldLoops
  <2>1. stack # <<>> /\ Top.fn = "yield" /\ Continue(Yield, "NONE")
    BY <1>9, <1>a DEF YieldLoops
  <2>2. Yield.fn = "yield"
    BY FrameFields DEF Is
  <2>3. SameLink /\ SameState /\ Moves(0, Others \cup SubAcks)
    BY <1>9, <1>c DEF YieldLoops, client, Plain, Moves
  <2> QED
    BY <1>2, <1>b, <2>1, <2>2, <2>3
<1>10. CASE CallbackRequests
  <2>1. stack # <<>> /\ Top.fn = "callback"
    BY <1>10, <1>a DEF CallbackRequests
  <2>2. PICK g \in RequestFrames(CallbackCalls) : Call([Top EXCEPT !.pc = "done"], g)
    BY <1>10 DEF CallbackRequests
  <2>3. [Top EXCEPT !.pc = "done"].fn = Top.fn
    BY <1>0, <2>1, TopFields DEF Is
  <2>4. g.fn = "publish" /\ g.rc = "NONE"
    BY CallbackFrames DEF Is
  <2>5. Plain /\ Moves(0, Others)
    BY <1>10, <1>c DEF CallbackRequests, client
  <2> QED
    BY <1>3, <2>1, <2>2, <2>3, <2>4, <2>5
<1> QED
  BY <1>4, <1>5, <1>6, <1>7, <1>8, <1>9, <1>10 DEF RequestStep

\* Calls of the application, time, the network and the broker.
LEMMA AppEnvBroker ==
  ASSUME UsedAsInExamples, TypeInv, BrokerInv, AppStep \/ EnvStep
  PROVE  BrokerInv'
<1>0. NetOK /\ inbound \in Seq(Packets) /\ CallsOK
  BY DEF TypeInv, NetOK
<1>a. /\ Others \cap ConnAcks = {} /\ Publishes \cap ConnAcks = {} /\ {"NONE", "SUCCESS", "CONNECT_FAILED"} \cap Answers = {}
      /\ Others \cap (SubAcks \cup Publishes) = {} /\ ConnAcks \subseteq Answers /\ SubAcks \subseteq Answers
  BY DEF Others, ConnAcks, Publishes, Answers, SubAcks
<1>1. ASSUME stack = <<>>, NEW f, stack' = <<f>> \/ stack' = <<>>, f.rc = "NONE", ~Is(f, "connect", "wait"),
             ret' \in {"NONE", "SUCCESS", "CONNECT_FAILED"}, SameLink, Moves(0, Others)
      PROVE  BrokerInv'
  <2>1. stack' # <<>> => Len(stack') = 1 /\ stack'[1] = f /\ Head(stack') = f
    BY <1>1
  <2>2. stack' = <<>> => Len(stack') = 0
    OBVIOUS
  <2>3. NoNews(Answers)
    BY <1>1, <1>a, <2>1 DEF NoNews, OnReturn, Top, Answers, SubAcks, ConnAcks
  <2>4. WaitingInv' /\ ~Opening'
    BY <1>1, <2>1, <2>2 DEF WaitingInv, Opening, At, Is, Top
  <2>5. ~At("connect", "send")
    BY <1>1 DEF At
  <2> QED
    BY <1>0, <1>1, <1>a, <2>3, <2>4, <2>5, UpHasSession, BrokerKept DEF NoNews
<1>2. ASSUME UNCHANGED calls, state' = state, SameLink, SameSubs, inbound' \in {inbound, <<>>},
             link' = "up" => UNCHANGED <<inbound, brokerUp>>
      PROVE  BrokerInv'
  <2>1. Moves(0, Others)
    BY <1>0, <1>2, MovesNone
  <2>2. NoNews(Answers) /\ (Opening' <=> Opening)
    BY <1>2 DEF calls, NoNews, OnReturn, Carried, Top, Opening, At
  <2>3. "CONNACK" \in Answers /\ "CONNACK_FAIL" \in Answers
    BY DEF Answers, ConnAcks
  <2>4. ASSUME NEW p \in Answers PROVE Carried(p)' => Carried(p)
    BY <2>1, <2>2, <1>2 DEF Carried, NoNews
  <2>5. RefusedInv'
    BY <2>3, <2>4, <1>2 DEF RefusedInv, BrokerInv, SameLink
  <2>6. FreshInv'
    BY <1>2 DEF FreshInv, BrokerInv, SameLink, calls, At, Top
  <2>7. OpeningInv'
    BY <1>2, <1>a, <2>2, <2>4 DEF OpeningInv, BrokerInv, SameLink, SameSubs
  <2>8. WaitingInv'
    BY <1>2, <2>3, <2>4 DEF WaitingInv, BrokerInv, SameLink, calls
  <2>9. ConnackInv'
    BY <1>2 DEF ConnackInv, BrokerInv
  <2> QED
    BY <2>5, <2>6, <2>7, <2>8, <2>9 DEF BrokerInv
<1>3. CASE Construct
  <2>1. stack' # <<>> => stack' = <<Connect>> /\ Head(stack') = Connect /\ Len(stack') = 1 /\ stack'[1] = Connect
    BY <1>3 DEF Construct
  <2>2. Is(Connect, "connect", "send") /\ Connect.rc = "NONE"
    BY FrameFields
  <2>3. stack' = <<>> => Len(stack') = 0
    OBVIOUS
  <2>4. inbound' = <<>> /\ ret' \in {"NONE", "CONNECT_FAILED"} /\ (link' = "up" => stack' # <<>> /\ state' = "NETWORK_READY")
    BY <1>3 DEF Construct
  <2>5. ~Carried("CONNACK_FAIL")'
    BY <2>1, <2>2, <2>4 DEF Carried, OnReturn, Top, Is
  <2>6. ~Opening' /\ (stack' # <<>> => At("connect", "send")')
    BY <2>1, <2>2 DEF Opening, At, Is, Top
  <2>7. WaitingInv'
    BY <2>1, <2>2, <2>3 DEF WaitingInv, Is
  <2> QED
    BY <2>4, <2>5, <2>6, <2>7 DEF BrokerInv, RefusedInv, FreshInv, OpeningInv, ConnackInv
<1>4. CASE AppYields \/ AppRequests
  <2>1. \A f \in RequestFrames(AppCalls) : f.rc = "NONE" /\ ~Is(f, "connect", "wait")
    BY FrameFields DEF RequestFrames, Is
  <2>2. Yield.rc = "NONE" /\ ~Is(Yield, "connect", "wait")
    BY FrameFields DEF Is
  <2>3. PICK f \in RequestFrames(AppCalls) \cup {Yield} : stack' = <<f>>
    BY <1>4 DEF AppYields, AppRequests
  <2>4. /\ stack = <<>> /\ ret' = "NONE" /\ UNCHANGED net /\ state' = state
    BY <1>4 DEF AppYields, AppRequests, client
  <2>5. SameLink /\ Moves(0, Others)
    BY <1>0, <2>4, PlainSame DEF Plain
  <2> QED
    BY <1>1, <2>1, <2>2, <2>3, <2>4, <2>5
<1>5. CASE AppDisconnects
  <2>1. stack = <<>> /\ stack' = <<>> /\ ret' = "SUCCESS"
    BY <1>5 DEF AppDisconnects
  <2>2. Plain /\ (inbound' = <<>> \/ inbound' = inbound)
    BY <1>0, <1>5, DisconnectPlain DEF AppDisconnects, DropSession
  <2>3. SameLink /\ Moves(0, Others)
    BY <1>0, <2>2, MovesNone DEF Plain
  <2>4. Yield.rc = "NONE" /\ ~Is(Yield, "connect", "wait")
    BY FrameFields DEF Is
  <2> QED
    BY <1>1, <2>1, <2>3, <2>4
<1>6. CASE AppSetsAutoReconnect \/ AppDestroys \/ (\E t \in Timers : Tick(t))
  <2>1. UNCHANGED <<calls, net, state>>
    BY <1>6 DEF AppSetsAutoReconnect, AppDestroys, Tick
  <2> QED
    BY <1>2, <2>1 DEF net, SameLink, SameSubs
<1>7. CASE LinkSilent \/ LinkDies
  <2>1. UNCHANGED calls /\ state' = state /\ link' # "up" /\ inbound' \in {inbound, <<>>}
    BY <1>7 DEF LinkSilent, LinkDies, Loses, client
  <2> QED
    BY <1>2, <2>1 DEF SameLink, SameSubs
<1>8. CASE BrokerPublish
  <2>1. /\ link = "up" /\ brokerUp /\ brokerSubs # {} /\ UNCHANGED <<calls, link, brokerUp, brokerSubs>> /\ state' = state
    BY <1>8 DEF BrokerPublish, client
  <2>2. PICK p \in Publishes : inbound' = Append(inbound, p)
    BY <1>8, QosAssumption DEF BrokerPublish, Publish, Publishes
  <2>3. Moves(0, Publishes)
    BY <1>0, <2>2 DEF Moves
  <2>4. NoNews(Answers) /\ (Opening' => Opening)
    BY <2>1 DEF calls, NoNews, OnReturn, Carried, Top, Opening, At
  <2>5. ~Opening'
    BY <2>1, <2>4 DEF BrokerInv, OpeningInv
  <2>6. WaitingInv'
    BY <2>1 DEF WaitingInv, BrokerInv, calls
  <2>7. NoNews(ConnAcks) /\ SameLink /\ brokerUp'
    BY <1>a, <2>1, <2>4 DEF NoNews, SameLink
  <2> QED
    BY <1>0, <1>a, <2>3, <2>5, <2>6, <2>7, BrokerKept
<1> QED
  BY <1>3, <1>4, <1>5, <1>6, <1>7, <1>8 DEF AppStep, EnvStep, UsedAsInExamples, AppConnects

-----------------------------------------------------------------------------
(* The handler table.                                                      *)

\* No topic has two handlers.
Injective == \A i, j \in Slots : handlers[i] = handlers[j] /\ handlers[i] # NoTopic => i = j

\* While tc_iot_mqtt_client_construct connects there are no handlers.
ConstructInv == stack # <<>> /\ stack[Len(stack)].fn = "connect" =>
  /\ \A s \in Slots : handlers[s] = NoTopic
  /\ \A i \in 1..Len(stack) : stack[i].fn # "subscribe"

TableInv == Injective /\ ConstructInv

\* Handlers are only taken out of the table.
Shrinks == \A s \in Slots : handlers'[s] \in {handlers[s], NoTopic}

\* The outermost call is the same, and no subscribe begins.
SameBottom ==
  /\ stack' # <<>> => stack # <<>> /\ stack'[Len(stack')].fn = stack[Len(stack)].fn
  /\ \A i \in 1..Len(stack') :
       stack'[i].fn = "subscribe" => \E j \in 1..Len(stack) : stack[j].fn = "subscribe"

\* Taking a handler out leaves none for its topic.
LEMMA RemovedTable ==
  ASSUME handlers \in [Slots -> Topics \cup {NoTopic}], Injective, NEW t \in Topics, handlers' = Removed(handlers, t)
  PROVE  Shrinks /\ \A s \in Slots : handlers'[s] # t
<1>0. t # NoTopic
  BY TopicAssumption
<1>1. CASE \E i \in Slots : handlers[i] = t
  <2>1. PICK i \in Slots : handlers[i] = t
    BY <1>1
  <2>2. \A j \in 1..(i - 1) : j \in Slots /\ j # i
    BY HandlersAssumption DEF Slots
  <2>3. \A j \in 1..(i - 1) : handlers[j] # t
    BY <1>0, <2>1, <2>2 DEF Injective
  <2>4. FirstSlot(handlers, t) \in Slots /\ handlers[FirstSlot(handlers, t)] = t
    BY <2>1, <2>3 DEF FirstSlot
  <2>5. FirstSlot(handlers, t) = i
    BY <1>0, <2>1, <2>4 DEF Injective
  <2>6. handlers' = [handlers EXCEPT ![i] = NoTopic]
    BY <1>1, <2>5 DEF Removed
  <2>7. \A s \in Slots : handlers'[s] = IF s = i THEN NoTopic ELSE handlers[s]
    BY <2>1, <2>6
  <2> QED
    BY <1>0, <2>1, <2>7 DEF Shrinks, Injective
<1>2. CASE ~\E i \in Slots : handlers[i] = t
  BY <1>2 DEF Removed, Shrinks
<1> QED
  BY <1>1, <1>2

\* Putting one in changes one slot, to a topic that had none.
LEMMA InstalledTable ==
  ASSUME handlers \in [Slots -> Topics \cup {NoTopic}], Injective, NEW t \in Topics,
         handlers' = Installed(handlers, t)
  PROVE  Injective' /\ \A s \in Slots : handlers'[s] \in {handlers[s], t}
<1> DEFINE e == FirstSlot(handlers, NoTopic)
<1>1. CASE handlers' = handlers
  BY <1>1 DEF Injective
<1>2. CASE t \notin {handlers[i] : i \in Slots} /\ handlers' = [handlers EXCEPT ![e] = t]
  <2> HIDE DEF e
  <2>1. \A s \in Slots : handlers'[s] = IF s = e THEN t ELSE handlers[s]
    BY <1>2
  <2>2. \A s \in Slots : handlers[s] # t
    BY <1>2
  <2> QED
    BY <2>1, <2>2 DEF Injective
<1> QED
  BY <1>1, <1>2 DEF Installed

\* A step that adds no handler and no call to subscribe.
LEMMA TableKept ==
  ASSUME TableInv, Shrinks, SameBottom
  PROVE  TableInv'
<1>1. Injective'
  BY DEF TableInv, Injective, Shrinks
<1>2. ConstructInv'
  <2>1. SUFFICES ASSUME stack' # <<>>, stack'[Len(stack')].fn = "connect"
                 PROVE  /\ \A s \in Slots : handlers'[s] = NoTopic
                        /\ \A i \in 1..Len(stack') : stack'[i].fn # "subscribe"
    BY DEF ConstructInv
  <2>2. /\ \A s \in Slots : handlers[s] = NoTopic
        /\ \A i \in 1..Len(stack) : stack[i].fn # "subscribe"
    BY <2>1 DEF SameBottom, TableInv, ConstructInv
  <2> QED
    BY <2>2 DEF Shrinks, SameBottom
<1> QED
  BY <1>1, <1>2 DEF TableInv

\* A return, a step within a call and a call have the same outermost call.
LEMMA ReturnBottom ==
  ASSUME CallsOK, stack # <<>>, NEW rc, Return(rc)
  PROVE  SameBottom
<1>1. /\ Len(stack) \in Nat \ {0} /\ Len(stack') = Len(stack) - 1
      /\ \A i \in 1..Len(stack') : stack'[i] = stack[i + 1]
      /\ stack' # <<>> => Len(stack) >= 2
  BY ReturnAt
<1>2. \A i \in 1..Len(stack') : i + 1 \in 1..Len(stack)
  BY <1>1
<1>3. stack' # <<>> => stack'[Len(stack')] = stack[Len(stack)]
  BY <1>1
<1> QED
  BY <1>1, <1>2, <1>3 DEF SameBottom

\* A step within a call.
LEMMA ContinueBottom ==
  ASSUME CallsOK, stack # <<>>, NEW f, NEW rc, Continue(f, rc), f.fn = Top.fn
  PROVE  SameBottom
<1>1. /\ Len(stack) \in Nat \ {0} /\ Len(stack') = Len(stack) /\ stack[1] = Top
      /\ stack'[1] = f /\ \A i \in 2..Len(stack) : stack'[i] = stack[i]
  BY ContinueAt
<1> HIDE DEF Top
<1>2. \A i \in 1..Len(stack) : stack'[i].fn = stack[i].fn
  BY <1>1
<1> QED
  BY <1>1, <1>2 DEF SameBottom

\* A call of anything but subscribe.
LEMMA CallBottom ==
  ASSUME CallsOK, stack # <<>>, NEW f, NEW g, Call(f, g), f.fn = Top.fn
  PROVE  /\ stack'[Len(stack')].fn = stack[Len(stack)].fn
         /\ g.fn # "subscribe" => SameBottom
<1>1. /\ Len(stack) \in Nat \ {0} /\ Len(stack') = Len(stack) + 1 /\ stack[1] = Top
      /\ stack'[1] = g /\ stack'[2] = f
      /\ \A i \in 3..Len(stack') : stack'[i] = stack[i - 1]
  BY CallAt
<1> HIDE DEF Top
<1>2. \A i \in 2..Len(stack') : stack'[i].fn = stack[i - 1].fn /\ i - 1 \in 1..Len(stack)
  BY <1>1
<1>3. stack'[Len(stack')].fn = stack[Len(stack)].fn
  BY <1>1, <1>2
<1>4. ASSUME g.fn # "subscribe", NEW i \in 1..Len(stack'), stack'[i].fn = "subscribe"
      PROVE  \E j \in 1..Len(stack) : stack[j].fn = "subscribe"
  <2>1. i \in 2..Len(stack')
    BY <1>1, <1>4
  <2> QED
    BY <1>2, <1>4, <2>1
<1> QED
  BY <1>3, <1>4 DEF SameBottom

\* The delivery of a message.
LEMMA DeliverBottom ==
  ASSUME CallsOK, stack # <<>>, NEW rc, Deliver(rc), Resumed.fn = Top.fn
  PROVE  SameBottom
<1>1. /\ Len(stack) \in Nat \ {0} /\ Len(stack') = Len(stack) + 2 /\ stack[1] = Top
      /\ stack'[1] = Callback /\ stack'[2] = Cycle(rc) /\ stack'[3] = Resumed
      /\ \A i \in 4..Len(stack') : stack'[i] = stack[i - 2]
  BY DeliverAt
<1>2. Callback.fn = "callback" /\ Cycle(rc).fn = "cycle"
  BY FrameFields DEF Is
<1> HIDE DEF Top
<1>3. \A i \in 3..Len(stack') : stack'[i].fn = stack[i - 2].fn /\ i - 2 \in 1..Len(stack)
  BY <1>1
<1>4. stack'[Len(stack')].fn = stack[Len(stack)].fn
  BY <1>1, <1>3
<1>5. ASSUME NEW i \in 1..Len(stack'), stack'[i].fn = "subscribe"
      PROVE  \E j \in 1..Len(stack) : stack[j].fn = "subscribe"
  <2>1. i \in 3..Len(stack')
    BY <1>1, <1>2, <1>5
  <2> QED
    BY <1>3, <1>5, <2>1
<1> QED
  BY <1>4, <1>5 DEF SameBottom

-----------------------------------------------------------------------------
(* Acknowledgements of SUBSCRIBE, and handlers without a subscription.     *)

\* A subscribe waits, and nothing above it on the stack subscribes or connects.
Relays == {"cycle", "callback", "publish"}
Asks(i) == Is(stack[i], "subscribe", "wait") /\ \A j \in 1..(i - 1) : stack[j].fn \in Relays

\* There is one acknowledgement of a SUBSCRIBE at a time.
OneAnswer ==
  \A k \in 1..Len(inbound) : inbound[k] \in SubAcks =>
    /\ \A l \in 1..Len(inbound) : inbound[l] \in SubAcks => k = l
    /\ \A p \in SubAcks : ~OnReturn(p)

\* In a session it belongs to the subscribe that waits for it, and it tells the truth.
AnswerInv == Live /\ (\E p \in SubAcks : Carried(p)) =>
  /\ OneAnswer
  /\ \E i \in 1..Len(stack) : Asks(i) /\ (Carried("SUBACK") => stack[i].topic \in brokerSubs)

\* Why the handler of topic t in slot s may have no subscription: it is being
\* subscribed or unsubscribed, or _handle_reconnect has not come to it.
Excuses(f, s, t) ==
  \/ f.fn = "subscribe" /\ f.pc \in {"check", "send", "wait"} /\ f.topic = t
  \/ Is(f, "unsubscribe", "wait") /\ f.topic = t
  \/ f.fn = "reconnect" /\ f.pc \in {"opened", "resub"} /\ s > f.n
Unsubscribed(s) == handlers[s] # NoTopic /\ handlers[s] \notin brokerSubs
Excused == Live =>
  \A s \in Slots : Unsubscribed(s) => \E i \in 1..Len(stack) : Excuses(stack[i], s, handlers[s])

SubscribedInv == AnswerInv /\ Excused

\* An acknowledgement that a step hands on was handed on before, or has been read.
Handed(d) == \A p \in SubAcks :
  OnReturn(p)' => OnReturn(p) \/ (d = 1 /\ 1 \in 1..Len(inbound) /\ inbound[1] = p)

\* A step in which nothing is acknowledged.
LEMMA AnswerKept ==
  ASSUME AnswerInv, NEW d \in 0..1, NEW new, Moves(d, new), new \cap SubAcks = {}, Handed(d), Plain,
         inbound \in Seq(Packets), inbound' \in Seq(Packets),
         (\E p \in SubAcks : Carried(p)') => \A i \in 1..Len(stack) : Asks(i) =>
           \E k \in 1..Len(stack') : Asks(k)' /\ stack'[k].topic = stack[i].topic
  PROVE  AnswerInv'
<1> SUFFICES ASSUME Live', \E p \in SubAcks : Carried(p)' PROVE AnswerInv'
  BY DEF AnswerInv
<1>1. Live /\ brokerSubs' = brokerSubs
  BY DEF Live, Plain, SameLink, SameSubs, SameState
<1>2. ASSUME NEW k \in 1..Len(inbound'), inbound'[k] \in SubAcks
      PROVE  k + d \in 1..Len(inbound) /\ inbound'[k] = inbound[k + d]
  BY <1>2 DEF Moves
<1>3. ASSUME NEW p \in SubAcks, Carried(p)' PROVE Carried(p)
  <2>1. OnReturn(p)' => Carried(p)
    BY DEF Handed, Carried
  <2> QED
    BY <1>2, <1>3, <2>1 DEF Carried
<1>4. /\ OneAnswer
      /\ \E i \in 1..Len(stack) : Asks(i) /\ (Carried("SUBACK") => stack[i].topic \in brokerSubs)
  BY <1>1, <1>3 DEF AnswerInv
<1>5. OneAnswer'
  <2>1. ASSUME NEW k \in 1..Len(inbound'), inbound'[k] \in SubAcks, NEW l \in 1..Len(inbound'), inbound'[l] \in SubAcks
        PROVE  k = l
    <3>1. k + d = l + d
      BY <1>2, <1>4, <2>1 DEF OneAnswer
    <3> QED
      BY <3>1
  <2>2. ASSUME NEW k \in 1..Len(inbound'), inbound'[k] \in SubAcks, NEW p \in SubAcks, OnReturn(p)'
        PROVE  FALSE
    <3>1. k + d \in 1..Len(inbound) /\ inbound[k + d] \in SubAcks
      BY <1>2, <2>2
    <3>2. ~OnReturn(p)
      BY <1>4, <2>2, <3>1 DEF OneAnswer
    <3>3. d = 1 /\ 1 \in 1..Len(inbound) /\ inbound[1] = p
      BY <2>2, <3>2 DEF Handed
    <3>4. k + d = 1
      BY <1>4, <2>2, <3>1, <3>3 DEF OneAnswer
    <3> QED
      BY <3>3, <3>4
  <2> QED
    BY <2>1, <2>2 DEF OneAnswer
<1>6. PICK i \in 1..Len(stack) : Asks(i) /\ (Carried("SUBACK") => stack[i].topic \in brokerSubs)
  BY <1>4
<1>7. PICK k \in 1..Len(stack') : Asks(k)' /\ stack'[k].topic = stack[i].topic
  BY <1>6
<1>8. Carried("SUBACK")' => stack'[k].topic \in brokerSubs'
  <2>1. "SUBACK" \in SubAcks
    BY DEF SubAcks
  <2> QED
    BY <1>1, <1>3, <1>6, <1>7, <2>1
<1> QED
  BY <1>5, <1>7, <1>8 DEF AnswerInv

\* A step that gives up no reason before the subscription is there.
LEMMA ExcusedKept ==
  ASSUME Excused, Live' => Live, Shrinks,
         Live' => \A s \in Slots : handlers'[s] # NoTopic /\ handlers'[s] \notin brokerSubs' =>
           /\ Unsubscribed(s)
           /\ \A i \in 1..Len(stack) : Excuses(stack[i], s, handlers[s]) =>
                \E k \in 1..Len(stack') : Excuses(stack'[k], s, handlers[s])
  PROVE  Excused'
<1> SUFFICES ASSUME Live', NEW s \in Slots, handlers'[s] # NoTopic, handlers'[s] \notin brokerSubs'
             PROVE  \E k \in 1..Len(stack') : Excuses(stack'[k], s, handlers'[s])
  BY DEF Excused, Unsubscribed
<1>1. handlers'[s] = handlers[s]
  BY DEF Shrinks
<1>2. PICK i \in 1..Len(stack) : Excuses(stack[i], s, handlers[s])
  BY DEF Excused
<1> QED
  BY <1>1, <1>2

\* What a client without a session owes nobody.
LEMMA NotLive ==
  ASSUME ~Live'
  PROVE  SubscribedInv'
  BY DEF SubscribedInv, AnswerInv, Excused

\* A return from a call that no acknowledgement is for.
LEMMA ReturnAnswer ==
  ASSUME TypeInv, NestedInv, AnswerInv, stack # <<>>, NEW rc, Return(rc), rc \in SubAcks => OnReturn(rc),
         ~Is(Top, "subscribe", "wait"), Plain, NEW d \in 0..1, NEW new, Moves(d, new), new \cap SubAcks = {},
         inbound' \in Seq(Packets)
  PROVE  AnswerInv'
<1>0. CallsOK /\ inbound \in Seq(Packets)
  BY DEF TypeInv, NetOK
<1>1. /\ Len(stack) \in Nat \ {0} /\ Len(stack') = Len(stack) - 1 /\ stack[1] = Top
      /\ \A i \in 1..Len(stack') : stack'[i] = stack[i + 1]
      /\ stack' # <<>> => Top' = stack[2] /\ Len(stack) >= 2
      /\ ret' = rc
  BY <1>0, ReturnAt
<1>2. Handed(d)
  <2>1. stack' # <<>> => FrameHolds(Top', 2)
    BY <1>1 DEF NestedInv
  <2> QED
    BY <1>1, <2>1 DEF Handed, OnReturn, FrameHolds
<1>3. ASSUME NEW i \in 1..Len(stack), Asks(i)
      PROVE  \E k \in 1..Len(stack') : Asks(k)' /\ stack'[k].topic = stack[i].topic
  <2>1. i # 1
    BY <1>1, <1>3 DEF Asks
  <2>2. i - 1 \in 1..Len(stack') /\ stack'[i - 1] = stack[i]
    BY <1>1, <2>1
  <2>3. \A j \in 1..(i - 1 - 1) : stack'[j] = stack[j + 1] /\ j + 1 \in 1..(i - 1)
    BY <1>1, <2>2
  <2>4. Asks(i - 1)'
    BY <1>3, <2>2, <2>3 DEF Asks
  <2> QED
    BY <2>2, <2>4
<1> QED
  BY <1>0, <1>2, <1>3, AnswerKept

\* A return from a call that was no reason for a missing subscription.
LEMMA ReturnExcused ==
  ASSUME CallsOK, Excused, stack # <<>>, NEW rc, Return(rc), Plain, Shrinks,
         Live' => \A s \in Slots : handlers'[s] # NoTopic /\ Unsubscribed(s) => ~Excuses(Top, s, handlers[s])
  PROVE  Excused'
<1>1. /\ Len(stack) \in Nat \ {0} /\ Len(stack') = Len(stack) - 1 /\ stack[1] = Top
      /\ \A i \in 1..Len(stack') : stack'[i] = stack[i + 1]
  BY ReturnAt
<1>2. Live' => Live /\ brokerSubs' = brokerSubs
  BY DEF Live, Plain, SameLink, SameSubs, SameState
<1>3. ASSUME Live', NEW s \in Slots, handlers'[s] # NoTopic, handlers'[s] \notin brokerSubs'
      PROVE  /\ Unsubscribed(s)
             /\ \A i \in 1..Len(stack) : Excuses(stack[i], s, handlers[s]) =>
                  \E k \in 1..Len(stack') : Excuses(stack'[k], s, handlers[s])
  <2>1. Unsubscribed(s)
    BY <1>2, <1>3 DEF Unsubscribed, Shrinks
  <2>2. ASSUME NEW i \in 1..Len(stack), Excuses(stack[i], s, handlers[s])
        PROVE  \E k \in 1..Len(stack') : Excuses(stack'[k], s, handlers[s])
    <3>1. i # 1
      BY <1>1, <1>3, <2>1, <2>2
    <3>2. i - 1 \in 1..Len(stack') /\ stack'[i - 1] = stack[i]
      BY <1>1, <3>1
    <3> QED
      BY <2>2, <3>2
  <2> QED
    BY <2>1, <2>2
<1> QED
  BY <1>2, <1>3, ExcusedKept

\* A step within a call that changes no handler.
LEMMA ContinueSubscribed ==
  ASSUME TypeInv, SubscribedInv, stack # <<>>, NEW f, NEW rc, Continue(f, rc), f.fn = Top.fn, f.fn # "cycle",
         rc \notin SubAcks, Is(Top, "subscribe", "wait") => f = Top, handlers' = handlers,
         \A s, t : Excuses(Top, s, t) => Excuses(f, s, t),
         Plain, NEW d \in 0..1, NEW new, Moves(d, new), new \cap SubAcks = {}, inbound' \in Seq(Packets)
  PROVE  SubscribedInv'
<1>0. CallsOK /\ inbound \in Seq(Packets) /\ AnswerInv /\ Excused
  BY DEF TypeInv, NetOK, SubscribedInv
<1>1. /\ Len(stack) \in Nat \ {0} /\ Len(stack') = Len(stack) /\ stack[1] = Top
      /\ stack'[1] = f /\ \A i \in 2..Len(stack) : stack'[i] = stack[i]
      /\ stack' # <<>> /\ Top' = f /\ ret' = rc
  BY <1>0, ContinueAt
<1> HIDE DEF Top
<1>2. Handed(d)
  BY <1>1 DEF Handed, OnReturn
<1>3. ASSUME NEW i \in 1..Len(stack), Asks(i)
      PROVE  \E k \in 1..Len(stack') : Asks(k)' /\ stack'[k].topic = stack[i].topic
  <2>1. stack'[i] = stack[i]
    <3>1. i = 1 => Is(Top, "subscribe", "wait")
      BY <1>1, <1>3 DEF Asks
    <3> QED
      BY <1>1, <3>1
  <2>2. \A j \in 1..(i - 1) : stack'[j].fn = stack[j].fn
    BY <1>1
  <2>3. Asks(i)'
    BY <1>3, <2>1, <2>2 DEF Asks
  <2> QED
    BY <1>1, <2>1, <2>3
<1>4. AnswerInv'
  BY <1>0, <1>2, <1>3, AnswerKept
<1>5. Live' => Live /\ brokerSubs' = brokerSubs
  BY DEF Live, Plain, SameLink, SameSubs, SameState
<1>6. ASSUME Live', NEW s \in Slots, handlers'[s] # NoTopic, handlers'[s] \notin brokerSubs'
      PROVE  /\ Unsubscribed(s)
             /\ \A i \in 1..Len(stack) : Excuses(stack[i], s, handlers[s]) =>
                  \E k \in 1..Len(stack') : Excuses(stack'[k], s, handlers[s])
  <2>1. Unsubscribed(s)
    BY <1>5, <1>6 DEF Unsubscribed
  <2>2. ASSUME NEW i \in 1..Len(stack), Excuses(stack[i], s, handlers[s])
        PROVE  i \in 1..Len(stack') /\ Excuses(stack'[i], s, handlers[s])
    BY <1>1, <2>2
  <2> QED
    BY <2>1, <2>2
<1>7. Shrinks
  BY DEF Shrinks
<1>8. Excused'
  BY <1>0, <1>5, <1>6, <1>7, ExcusedKept
<1> QED
  BY <1>4, <1>8 DEF SubscribedInv

\* A call.
LEMMA CallSubscribed ==
  ASSUME TypeInv, SubscribedInv, stack # <<>>, NEW f, NEW g, Call(f, g), f.fn = Top.fn,
         Is(Top, "subscribe", "wait") => f = Top, handlers' = handlers,
         Top.fn \in Relays \cup {"subscribe"} => g.fn \in Relays,
         \A s \in Slots : Unsubscribed(s) /\ Excuses(Top, s, handlers[s]) =>
           Excuses(f, s, handlers[s]) \/ Excuses(g, s, handlers[s]),
         Plain, NEW d \in 0..1, NEW new, Moves(d, new), new \cap SubAcks = {}, inbound' \in Seq(Packets),
         g.rc \in SubAcks => d = 1 /\ 1 \in 1..Len(inbound) /\ inbound[1] = g.rc
  PROVE  SubscribedInv'
<1>0. CallsOK /\ inbound \in Seq(Packets) /\ AnswerInv /\ Excused
  BY DEF TypeInv, NetOK, SubscribedInv
<1>1. /\ Len(stack) \in Nat \ {0} /\ Len(stack') = Len(stack) + 1 /\ stack[1] = Top
      /\ stack'[1] = g /\ stack'[2] = f
      /\ \A i \in 3..Len(stack') : stack'[i] = stack[i - 1]
      /\ stack' # <<>> /\ Top' = g /\ ret' = "NONE"
  BY <1>0, CallAt
<1> HIDE DEF Top
<1>2. Handed(d)
  BY <1>1 DEF Handed, OnReturn, SubAcks
<1>3. ASSUME NEW i \in 1..Len(stack), Asks(i)
      PROVE  \E k \in 1..Len(stack') : Asks(k)' /\ stack'[k].topic = stack[i].topic
  <2>0. Top.fn \in Relays \cup {"subscribe"}
    <3>1. i = 1 => Top.fn = "subscribe"
      BY <1>1, <1>3 DEF Asks, Is
    <3>2. i # 1 => Top.fn \in Relays
      BY <1>1, <1>3 DEF Asks
    <3> QED
      BY <3>1, <3>2
  <2>1. i + 1 \in 1..Len(stack') /\ stack'[i + 1] = stack[i]
    <3>1. CASE i = 1
      <4>1. Is(Top, "subscribe", "wait")
        BY <1>1, <1>3, <3>1 DEF Asks
      <4> QED
        BY <1>1, <3>1, <4>1
    <3>2. CASE i # 1
      <4>1. i + 1 \in 3..Len(stack')
        BY <1>1, <3>2
      <4> QED
        BY <1>1, <4>1
    <3> QED
      BY <3>1, <3>2
  <2>2. ASSUME NEW j \in 1..(i + 1 - 1) PROVE stack'[j].fn \in Relays
    <3>1. CASE j = 1
      BY <1>1, <2>0, <3>1
    <3>2. CASE j # 1
      <4>1. j - 1 \in 1..(i - 1) /\ stack[j - 1].fn \in Relays
        BY <1>3, <3>2 DEF Asks
      <4>2. stack'[j].fn = stack[j - 1].fn
        BY <1>1, <3>2, <4>1
      <4> QED
        BY <4>1, <4>2
    <3> QED
      BY <3>1, <3>2
  <2>3. Asks(i + 1)'
    BY <1>3, <2>1, <2>2 DEF Asks
  <2> QED
    BY <2>1, <2>3
<1>4. AnswerInv'
  BY <1>0, <1>2, <1>3, AnswerKept
<1>5. Live' => Live /\ brokerSubs' = brokerSubs
  BY DEF Live, Plain, SameLink, SameSubs, SameState
<1>6. ASSUME Live', NEW s \in Slots, handlers'[s] # NoTopic, handlers'[s] \notin brokerSubs'
      PROVE  /\ Unsubscribed(s)
             /\ \A i \in 1..Len(stack) : Excuses(stack[i], s, handlers[s]) =>
                  \E k \in 1..Len(stack') : Excuses(stack'[k], s, handlers[s])
  <2>1. Unsubscribed(s)
    BY <1>5, <1>6 DEF Unsubscribed
  <2>2. ASSUME NEW i \in 1..Len(stack), Excuses(stack[i], s, handlers[s])
        PROVE  \E k \in 1..Len(stack') : Excuses(stack'[k], s, handlers[s])
    <3>1. CASE i = 1
      <4>1. Excuses(f, s, handlers[s]) \/ Excuses(g, s, handlers[s])
        BY <1>1, <2>1, <2>2, <3>1
      <4>2. 1 \in 1..Len(stack') /\ 2 \in 1..Len(stack')
        BY <1>1
      <4> QED
        BY <1>1, <4>1, <4>2
    <3>2. CASE i # 1
      <4>1. i + 1 \in 3..Len(stack') /\ i + 1 \in 1..Len(stack')
        BY <1>1, <3>2
      <4>2. stack'[i + 1] = stack[i]
        BY <1>1, <4>1
      <4> QED
        BY <2>2, <4>1, <4>2
    <3> QED
      BY <3>1, <3>2
  <2> QED
    BY <2>1, <2>2
<1>7. Shrinks
  BY DEF Shrinks
<1>8. Excused'
  BY <1>0, <1>5, <1>6, <1>7, ExcusedKept
<1> QED
  BY <1>4, <1>8 DEF SubscribedInv

\* The delivery of a message.
LEMMA DeliverSubscribed ==
  ASSUME TypeInv, SubscribedInv, stack # <<>>, NEW rc, Deliver(rc), rc \notin SubAcks,
         Resumed.fn = Top.fn, Top.fn # "yield" => Resumed = Top, handlers' = handlers,
         Plain, NEW d \in 0..1, NEW new, Moves(d, new), new \cap SubAcks = {}, inbound' \in Seq(Packets)
  PROVE  SubscribedInv'
<1>0. CallsOK /\ inbound \in Seq(Packets) /\ AnswerInv /\ Excused
  BY DEF TypeInv, NetOK, SubscribedInv
<1>1. /\ Len(stack) \in Nat \ {0} /\ Len(stack') = Len(stack) + 2 /\ stack[1] = Top
      /\ stack'[1] = Callback /\ stack'[2] = Cycle(rc) /\ stack'[3] = Resumed
      /\ \A i \in 4..Len(stack') : stack'[i] = stack[i - 2]
      /\ stack' # <<>> /\ Top' = Callback /\ ret' = "NONE"
  BY <1>0, DeliverAt
<1>2. Callback.fn = "callback" /\ Cycle(rc).fn = "cycle"
  BY FrameFields DEF Is
<1> HIDE DEF Top, Resumed
<1>3. Handed(d)
  BY <1>1, <1>2 DEF Handed, OnReturn, SubAcks
<1>4. ASSUME NEW i \in 1..Len(stack), i = 1 => Top.fn # "yield"
      PROVE  i + 2 \in 1..Len(stack') /\ stack'[i + 2] = stack[i]
  <2>1. CASE i = 1
    BY <1>1, <1>4, <2>1
  <2>2. CASE i # 1
    <3>1. i + 2 \in 4..Len(stack')
      BY <1>1, <2>2
    <3> QED
      BY <1>1, <3>1
  <2> QED
    BY <2>1, <2>2
<1>5. ASSUME NEW i \in 1..Len(stack), Asks(i)
      PROVE  \E k \in 1..Len(stack') : Asks(k)' /\ stack'[k].topic = stack[i].topic
  <2>1. i = 1 => Top.fn # "yield"
    BY <1>1, <1>5 DEF Asks, Is
  <2>2. i + 2 \in 1..Len(stack') /\ stack'[i + 2] = stack[i]
    BY <1>4, <2>1
  <2>3. ASSUME NEW j \in 1..(i + 2 - 1) PROVE stack'[j].fn \in Relays
    <3>1. CASE j \in 1..2
      BY <1>1, <1>2, <3>1 DEF Relays
    <3>2. CASE j \notin 1..2
      <4>1. j - 2 \in 1..(i - 1) /\ j - 2 \in 1..Len(stack) /\ stack[j - 2].fn \in Relays
        BY <1>1, <1>5, <3>2 DEF Asks
      <4>2. j - 2 = 1 => Top.fn # "yield"
        BY <1>1, <4>1 DEF Relays
      <4>3. stack'[j - 2 + 2] = stack[j - 2]
        BY <1>4, <4>1, <4>2
      <4> QED
        BY <4>1, <4>3
    <3> QED
      BY <3>1, <3>2
  <2>4. Asks(i + 2)'
    BY <1>5, <2>2, <2>3 DEF Asks
  <2> QED
    BY <2>2, <2>4
<1>6. AnswerInv'
  BY <1>0, <1>3, <1>5, AnswerKept
<1>7. Live' => Live /\ brokerSubs' = brokerSubs
  BY DEF Live, Plain, SameLink, SameSubs, SameState
<1>8. ASSUME Live', NEW s \in Slots, handlers'[s] # NoTopic, handlers'[s] \notin brokerSubs'
      PROVE  /\ Unsubscribed(s)
             /\ \A i \in 1..Len(stack) : Excuses(stack[i], s, handlers[s]) =>
                  \E k \in 1..Len(stack') : Excuses(stack'[k], s, handlers[s])
  <2>1. Unsubscribed(s)
    BY <1>7, <1>8 DEF Unsubscribed
  <2>2. ASSUME NEW i \in 1..Len(stack), Excuses(stack[i], s, handlers[s])
        PROVE  i + 2 \in 1..Len(stack') /\ Excuses(stack'[i + 2], s, handlers[s])
    <3>1. i = 1 => Top.fn # "yield"
      BY <1>1, <2>2 DEF Excuses, Is
    <3> QED
      BY <1>4, <2>2, <3>1
  <2> QED
    BY <2>1, <2>2
<1>9. Shrinks
  BY DEF Shrinks
<1>10. Excused'
  BY <1>0, <1>7, <1>8, <1>9, ExcusedKept
<1> QED
  BY <1>6, <1>10 DEF SubscribedInv

HandledInv == TableInv /\ SubscribedInv

\* The receive cycle.
LEMMA CycleHandled ==
  ASSUME TypeInv, TypeInv', ShapeInv, HandledInv, CycleStep
  PROVE  HandledInv'
<1>0. /\ CallsOK /\ NestedInv /\ inbound \in Seq(Packets) /\ inbound' \in Seq(Packets)
      /\ TableInv /\ SubscribedInv /\ AnswerInv /\ Excused
  BY DEF TypeInv, ShapeInv, NetOK, HandledInv, SubscribedInv
<1>a. Plain /\ handlers' = handlers /\ Others \cap SubAcks = {} /\ Shrinks
  BY CycleKinds DEF Others, SubAcks, Shrinks
<1>b. ASSUME Cycling
      PROVE  /\ stack # <<>> /\ Resumed.fn = Top.fn /\ (Top.fn # "yield" => Resumed = Top) /\ Top.fn # "cycle"
             /\ Is(Top, "subscribe", "wait") => Resumed = Top
             /\ \A s, t : Excuses(Top, s, t) => Excuses(Resumed, s, t)
  <2>1. stack # <<>>
    BY <1>b DEF Cycling, Waiting, AtRequest, At
  <2>2. Resumed.fn = Top.fn /\ (Top.fn # "yield" => Resumed = Top) /\ Top.fn # "cycle"
    BY <1>0, <1>b, <2>1, ResumedFields
  <2> HIDE DEF Top, Resumed
  <2> QED
    BY <2>1, <2>2 DEF Is, Excuses
<1>c. SameBottom /\ SubscribedInv' => HandledInv'
  BY <1>0, <1>a, TableKept DEF HandledInv
<1>1. CASE CycleBegins
  <2>1. PICK rc \in Results : /\ Call(Resumed, Cycle(rc))
                              /\ rc \in Answers => inbound # <<>> /\ rc = Head(inbound) /\ Moves(1, Others)
    BY <1>1 DEF CycleBegins
  <2>2. PICK d \in 0..1 : Moves(d, Others) /\ (rc \in SubAcks => d = 1)
    BY <1>1, <2>1 DEF CycleBegins, MovesOn, Answers
  <2>3. rc \in SubAcks => 1 \in 1..Len(inbound) /\ inbound[1] = rc
    BY <1>0, <2>1 DEF Answers
  <2>4. Cycling
    BY <1>1 DEF CycleBegins
  <2>5. Cycle(rc).fn = "cycle" /\ Cycle(rc).rc = rc /\ "cycle" \in Relays /\ "cycle" # "subscribe"
    BY FrameFields DEF Relays
  <2>6. SubscribedInv'
    BY <1>0, <1>a, <1>b, <2>1, <2>2, <2>3, <2>4, <2>5, CallSubscribed
  <2>7. SameBottom
    BY <1>0, <1>b, <2>1, <2>4, <2>5, CallBottom
  <2> QED
    BY <1>c, <2>6, <2>7
<1>2. CASE CycleDelivers
  <2>1. PICK rc \in Publishes \cup {"SEND_FAILED"} : Deliver(rc)
    BY <1>2 DEF CycleDelivers
  <2>2. rc \notin SubAcks
    BY DEF Publishes, SubAcks
  <2>3. Cycling /\ Moves(1, Others)
    BY <1>2 DEF CycleDelivers
  <2>4. SubscribedInv'
    BY <1>0, <1>a, <1>b, <2>1, <2>2, <2>3, DeliverSubscribed
  <2>5. SameBottom
    BY <1>0, <1>b, <2>1, <2>3, DeliverBottom
  <2> QED
    BY <1>c, <2>4, <2>5
<1>3. CASE CycleErrs
  <2>1. PICK d \in 0..1 : Moves(d, Others)
    BY <1>3 DEF CycleErrs, MovesOn
  <2>2. Cycling /\ Continue(Resumed, "ERR") /\ "ERR" \notin SubAcks
    BY <1>3 DEF CycleErrs, SubAcks
  <2>3. SubscribedInv'
    BY <1>0, <1>a, <1>b, <2>1, <2>2, ContinueSubscribed
  <2>4. SameBottom
    BY <1>0, <1>b, <2>2, ContinueBottom
  <2> QED
    BY <1>c, <2>3, <2>4
<1>4. CASE CycleEnds
  <2>1. PICK rc \in {Top.rc, "ERR"} : Return(rc)
    BY <1>4 DEF CycleEnds
  <2>2. stack # <<>> /\ Top.fn = "cycle" /\ Moves(0, Others)
    BY <1>4 DEF CycleEnds, At
  <2>3. rc \in SubAcks => OnReturn(rc)
    BY <2>1, <2>2 DEF OnReturn, SubAcks
  <2>4. ~Is(Top, "subscribe", "wait") /\ \A s, t : ~Excuses(Top, s, t)
    BY <2>2 DEF Is, Excuses
  <2>5. AnswerInv' /\ Excused'
    BY <1>0, <1>a, <2>1, <2>2, <2>3, <2>4, ReturnAnswer, ReturnExcused
  <2>6. SameBottom
    BY <1>0, <2>1, <2>2, ReturnBottom
  <2> QED
    BY <1>c, <2>5, <2>6 DEF SubscribedInv
<1> QED
  BY <1>1, <1>2, <1>3, <1>4, CycleKinds

\* CONNACK begins a session without subscriptions: _handle_reconnect is about to
\* go through the handler table, or there are no handlers yet.
LEMMA AckedSubscribed ==
  ASSUME TypeInv, ShapeInv, BrokerInv, HandledInv, ConnectAcked
  PROVE  SubscribedInv'
<1>0. CallsOK /\ NestedInv /\ stack # <<>> /\ ConstructInv
  BY DEF TypeInv, ShapeInv, HandledInv, TableInv, ConnectAcked, At
<1>1. /\ Top.fn = "connect" /\ At("connect", "wait") /\ Return("SUCCESS") /\ UNCHANGED <<handlers, net>>
  BY DEF ConnectAcked, At
<1>2. /\ Len(stack) \in Nat \ {0} /\ Len(stack') = Len(stack) - 1 /\ stack[1] = Top
      /\ \A i \in 1..Len(stack') : stack'[i] = stack[i + 1]
      /\ stack' # <<>> => Top' = stack[2] /\ Len(stack) >= 2
      /\ ret' = "SUCCESS"
  BY <1>0, <1>1, ReturnAt
<1>3. AnswerInv'
  <2>1. SUFFICES ASSUME Live', NEW p \in SubAcks, Carried(p)' PROVE FALSE
    BY DEF AnswerInv
  <2>2. link = "up" /\ inbound' = inbound
    BY <1>1, <2>1 DEF Live, net
  <2>3. ~Carried(p)
    BY <1>1, <2>2 DEF BrokerInv, OpeningInv, Opening
  <2>4. stack' # <<>> => FrameHolds(Top', 2)
    BY <1>0, <1>2 DEF NestedInv
  <2>5. ~OnReturn(p)'
    BY <1>2, <2>4 DEF OnReturn, FrameHolds, SubAcks
  <2> QED
    BY <2>1, <2>2, <2>3, <2>5 DEF Carried
<1>4. Excused'
  <2>1. CASE stack' = <<>>
    <3>0. Len(stack') = 0
      BY <2>1
    <3>1. Len(stack) = 1 /\ stack[1].fn = "connect"
      BY <1>1, <1>2, <3>0
    <3>2. \A s \in Slots : handlers'[s] = NoTopic
      BY <1>0, <1>1, <3>1 DEF ConstructInv
    <3> QED
      BY <3>2 DEF Excused, Unsubscribed
  <2>2. CASE stack' # <<>>
    <3>1. 2 \in 1..Len(stack) /\ 1 \in 1..(Len(stack) - 1) /\ 1 \in 1..Len(stack') /\ stack'[1] = stack[2]
      BY <1>2, <2>2
    <3>2. "connect" \in Callees(stack[2]) /\ FrameHolds(stack[2], 2)
      BY <1>0, <1>1, <1>2, <3>1 DEF NestedInv
    <3>3. Is(stack'[1], "reconnect", "opened") /\ stack'[1].n = 0
      BY <3>1, <3>2 DEF Callees, FrameHolds, Is, Requests
    <3>4. \A t : \A s \in Slots : Excuses(stack'[1], s, t)
      BY <3>3, HandlersAssumption DEF Excuses, Is, Slots
    <3> QED
      BY <3>1, <3>4 DEF Excused
  <2> QED
    BY <2>1, <2>2
<1> QED
  BY <1>3, <1>4 DEF SubscribedInv

\* A subscribe is called for the next handler: those in between there are none.
LEMMA ResubscribeHandled ==
  ASSUME TypeInv, TypeInv', CleanSession, HandledInv, HandleReconnectResubscribes
  PROVE  HandledInv'
<1>0. /\ CallsOK /\ inbound \in Seq(Packets) /\ inbound' \in Seq(Packets) /\ NetOK
      /\ TableInv /\ SubscribedInv /\ stack # <<>> /\ Top.fn = "reconnect" /\ handlers' = handlers
  BY DEF TypeInv, NetOK, HandledInv, HandleReconnectResubscribes, Resubscribing, At, client
<1>1. Plain /\ Moves(0, Others) /\ Others \cap SubAcks = {}
  BY <1>0, PlainSame DEF HandleReconnectResubscribes, client, Others, SubAcks
<1>2. PICK i \in SlotsAhead : /\ \A j \in SlotsAhead : i <= j
                              /\ Call([Top EXCEPT !.pc = "resub", !.n = i], Subscribe(handlers[i]))
  BY DEF HandleReconnectResubscribes
<1> DEFINE f == [Top EXCEPT !.pc = "resub", !.n = i]
           g == Subscribe(handlers[i])
<1>3. f.fn = Top.fn /\ f.pc = "resub" /\ f.n = i
  BY <1>0, TopFields DEF Is
<1>4. Is(g, "subscribe", "check") /\ g.topic = handlers[i] /\ g.rc = "NONE"
  BY FrameFields
<1>5. Call(f, g)
  BY <1>2
<1>6. i \in Slots /\ handlers[i] # NoTopic
  BY DEF SlotsAhead
<1> HIDE DEF f, g
<1>7. ASSUME NEW s \in Slots, Unsubscribed(s), Excuses(Top, s, handlers[s])
      PROVE  Excuses(f, s, handlers[s]) \/ Excuses(g, s, handlers[s])
  <2>1. s > Top.n
    BY <1>0, <1>7 DEF Excuses, Is
  <2>2. s \in SlotsAhead
    BY <1>7, <2>1 DEF SlotsAhead, Unsubscribed
  <2>3. s = i \/ s > i
    BY <1>2, <1>6, <2>2, HandlersAssumption DEF Slots
  <2>4. CASE s = i
    BY <1>4, <2>4 DEF Excuses, Is
  <2>5. CASE s > i
    BY <1>0, <1>3, <2>5 DEF Excuses
  <2> QED
    BY <2>3, <2>4, <2>5
<1>8. /\ ~Is(Top, "subscribe", "wait") /\ Top.fn \notin Relays \cup {"subscribe"}
      /\ g.rc \notin SubAcks
  BY <1>0, <1>4 DEF Is, Relays, SubAcks
<1>9. SubscribedInv'
  BY <1>0, <1>1, <1>3, <1>5, <1>7, <1>8, CallSubscribed
<1>10. TableInv'
  <2>1. stack'[Len(stack')].fn = stack[Len(stack)].fn
    BY <1>0, <1>3, <1>5, CallBottom
  <2>2. stack[Len(stack)].fn # "connect"
    BY <1>0, <1>6 DEF TableInv, ConstructInv
  <2>3. ConstructInv'
    BY <2>1, <2>2 DEF ConstructInv
  <2> QED
    BY <1>0, <2>3 DEF TableInv, Injective
<1> QED
  BY <1>9, <1>10 DEF HandledInv

\* Opening a connection, and _handle_reconnect.
LEMMA ConnectHandled ==
  ASSUME TypeInv, TypeInv', CleanSession, ShapeInv, BrokerInv, HandledInv, ConnectStep
  PROVE  HandledInv'
<1>0. /\ CallsOK /\ NestedInv /\ OutcomeInv /\ NetOK /\ inbound \in Seq(Packets) /\ inbound' \in Seq(Packets)
      /\ TableInv /\ SubscribedInv /\ AnswerInv /\ Excused
  BY DEF TypeInv, ShapeInv, NetOK, HandledInv, SubscribedInv
<1>a. /\ \A pc : At("connect", pc) => stack # <<>> /\ Is(Top, "connect", pc)
      /\ \A pc : At("reconnect", pc) => stack # <<>> /\ Is(Top, "reconnect", pc)
  BY DEF At, Is
<1>b. ASSUME handlers' = handlers, SameBottom, SubscribedInv' PROVE HandledInv'
  <2>1. Shrinks
    BY <1>b DEF Shrinks
  <2> QED
    BY <1>0, <1>b, <2>1, TableKept DEF HandledInv
<1>1. CASE ReconnectOpenFails \/ ConnectSendFails \/ ConnectTimesOut \/ ConnectRefused
           \/ HandleReconnectSkips \/ HandleReconnectBacksOff
  <2>1. /\ handlers' = handlers /\ stack # <<>>
        /\ \E rc \in {"CONNECT_FAILED", "SEND_FAILED", "WAIT_TIMEOUT", "REFUSED", "IN_PROGRESS", "UNAVAILABLE"} :
             Return(rc)
    BY <1>1, <1>a DEF ReconnectOpenFails, ConnectSendFails, ConnectTimesOut, ConnectRefused,
       HandleReconnectSkips, HandleReconnectBacksOff, client
  <2>2. SameBottom
    BY <1>0, <2>1, ReturnBottom
  <2>3. ~Live'
    <3>1. CASE ConnectTimesOut
      BY <1>0, <3>1, DisconnectPlain DEF ConnectTimesOut, DropSession, Live
    <3>2. CASE ConnectRefused
      BY <3>2 DEF ConnectRefused, BrokerInv, RefusedInv, Carried, OnReturn, Live, net
    <3>3. CASE HandleReconnectSkips \/ HandleReconnectBacksOff
      BY <1>0, <3>3 DEF HandleReconnectSkips, HandleReconnectBacksOff, OutcomeInv, Live, client, net
    <3>4. CASE ReconnectOpenFails \/ ConnectSendFails
      BY <3>4 DEF ReconnectOpenFails, ConnectSendFails, Live, client
    <3> QED
      BY <1>1, <3>1, <3>2, <3>3, <3>4
  <2> QED
    BY <1>b, <2>1, <2>2, <2>3, NotLive
<1>2. CASE ReconnectReuse \/ ReconnectOpen \/ ConnectSend
  <2>1. handlers' = handlers /\ stack # <<>> /\ Is(Top, "connect", Top.pc) /\ state' # "CONNECTED"
    BY <1>2 DEF ReconnectReuse, ReconnectOpen, ConnectSend, client, At, Is
  <2>2. Continue(Connect, "NONE") \/ Continue([Top EXCEPT !.pc = "wait"], "NONE")
    BY <1>2 DEF ReconnectReuse, ReconnectOpen, ConnectSend
  <2>3. Connect.fn = Top.fn /\ [Top EXCEPT !.pc = "wait"].fn = Top.fn
    BY <1>0, <2>1, TopFields, FrameFields DEF Is
  <2>4. SameBottom
    BY <1>0, <2>1, <2>2, <2>3, ContinueBottom
  <2> QED
    BY <1>b, <2>1, <2>4, NotLive DEF Live
<1>3. CASE ReconnectConnected \/ ConnectAlready \/ HandleReconnectFinishes
  <2>1. /\ handlers' = handlers /\ stack # <<>> /\ Return("SUCCESS") /\ UNCHANGED net /\ state' = state
        /\ Top.fn \in {"connect", "reconnect"} /\ "SUCCESS" \notin SubAcks
    BY <1>3 DEF ReconnectConnected, ConnectAlready, HandleReconnectFinishes, Resubscribing, At, client, SubAcks
  <2>2. Plain /\ Moves(0, Others) /\ Others \cap SubAcks = {}
    BY <1>0, <2>1, PlainSame DEF Others, SubAcks
  <2>3. ASSUME NEW s \in Slots, Unsubscribed(s) PROVE ~Excuses(Top, s, handlers[s])
    <3>1. CASE Top.fn = "connect"
      BY <3>1 DEF Excuses, Is
    <3>2. CASE Top.fn = "reconnect"
      <4>1. SlotsAhead = {}
        BY <1>3, <3>2 DEF HandleReconnectFinishes, ReconnectConnected, ConnectAlready, At
      <4>2. ~(s > Top.n)
        BY <2>3, <4>1 DEF SlotsAhead, Unsubscribed
      <4> QED
        BY <3>2, <4>2 DEF Excuses, Is
    <3> QED
      BY <2>1, <3>1, <3>2
  <2>4. ~Is(Top, "subscribe", "wait") /\ Shrinks
    BY <2>1 DEF Is, Shrinks
  <2>5. AnswerInv'
    BY <1>0, <2>1, <2>2, <2>4, ReturnAnswer
  <2>6. Excused'
    BY <1>0, <2>1, <2>2, <2>3, <2>4, ReturnExcused
  <2>7. SameBottom
    BY <1>0, <2>1, ReturnBottom
  <2> QED
    BY <1>b, <2>1, <2>5, <2>6, <2>7 DEF SubscribedInv
<1>4. CASE ConnectAcked
  <2>1. handlers' = handlers /\ stack # <<>> /\ Return("SUCCESS")
    BY <1>4, <1>a DEF ConnectAcked
  <2>2. SameBottom
    BY <1>0, <2>1, ReturnBottom
  <2> QED
    BY <1>4, <1>b, <2>1, <2>2, AckedSubscribed
<1>5. CASE HandleReconnectTries
  <2>1. /\ handlers' = handlers /\ stack # <<>> /\ Is(Top, "reconnect", "begin") /\ UNCHANGED net /\ state' = state
        /\ Call([Top EXCEPT !.pc = "opened"], Reconnect)
    BY <1>5, <1>a DEF HandleReconnectTries, client
  <2> DEFINE f == [Top EXCEPT !.pc = "opened"]
  <2>2. f.fn = Top.fn
    BY <1>0, <2>1, TopFields DEF Is
  <2>3. Call(f, Reconnect)
    BY <2>1
  <2> HIDE DEF f
  <2>4. Reconnect.fn = "connect" /\ Reconnect.rc \notin SubAcks
    BY FrameFields DEF Is, SubAcks
  <2>5. Plain /\ Moves(0, Others) /\ Others \cap SubAcks = {}
    BY <1>0, <2>1, PlainSame DEF Others, SubAcks
  <2>6. /\ ~Is(Top, "subscribe", "wait") /\ Top.fn \notin Relays \cup {"subscribe"}
        /\ \A s, t : ~Excuses(Top, s, t)
    BY <2>1 DEF Is, Relays, Excuses
  <2>7. SubscribedInv'
    BY <1>0, <2>1, <2>2, <2>3, <2>4, <2>5, <2>6, CallSubscribed
  <2>8. SameBottom
    BY <1>0, <2>1, <2>2, <2>3, <2>4, CallBottom
  <2> QED
    BY <1>b, <2>1, <2>7, <2>8
<1>6. CASE HandleReconnectResubscribes
  BY <1>6, ResubscribeHandled
<1> QED
  BY <1>1, <1>2, <1>3, <1>4, <1>5, <1>6 DEF ConnectStep

\* A call that is neither the subscribe that waits nor above it on the stack runs
\* in a session in which no SUBSCRIBE is being acknowledged.
LEMMA NoneCarried ==
  ASSUME CallsOK, AnswerInv, Live, stack # <<>>, Top.fn \notin Relays, ~Is(Top, "subscribe", "wait")
  PROVE  \A p \in SubAcks : ~Carried(p)
<1>1. SUFFICES ASSUME \E p \in SubAcks : Carried(p) PROVE FALSE
  OBVIOUS
<1>2. PICK i \in 1..Len(stack) : Asks(i)
  BY <1>1 DEF AnswerInv
<1>3. stack[1] = Top
  BY DEF CallsOK, Top
<1> HIDE DEF Top
<1>4. i # 1 => 1 \in 1..(i - 1)
  BY <1>2
<1> QED
  BY <1>2, <1>3, <1>4 DEF Asks

\* What UNSUBSCRIBE takes away.
LEMMA UnsubscribeWritten ==
  ASSUME NetOK, NEW t, Written("UNSUBSCRIBE", t, inbound)
  PROVE  link' = "up" => brokerSubs \ {t} \subseteq brokerSubs'
  BY DEF Written, BrokerAccepts, BrokerRefusesConnect, BrokerHangsUp, BrokerAnswers, BrokerRefusesTopic,
     SubsAfter

\* SUBSCRIBE is sent, and the handler installed.
LEMMA SubscribeHandled ==
  ASSUME TypeInv, HandledInv, RequestSend, Top.fn = "subscribe"
  PROVE  HandledInv'
<1>0. /\ CallsOK /\ NetOK /\ inbound \in Seq(Packets) /\ stack # <<>> /\ TableInv /\ AnswerInv /\ Excused
      /\ handlers \in [Slots -> Topics \cup {NoTopic}]
  BY DEF TypeInv, NetOK, ClientOK, HandledInv, SubscribedInv, RequestSend, AtRequest
<1> DEFINE t == Top.topic
           f == [Top EXCEPT !.pc = "wait"]
<1>1. t \in Topics
  BY <1>0, TopOK DEF Frames
<1>2. /\ Top.pc = "send" /\ state' = state /\ handlers' = Installed(handlers, t) /\ Continue(f, "NONE")
      /\ Written("SUBSCRIBE", t, inbound)
  BY DEF RequestSend, AtRequest, RequestPacket
<1>3. Is(f, "subscribe", "wait") /\ f.topic = t
  BY <1>0, TopFields DEF Is
<1>4. /\ Len(stack) \in Nat \ {0} /\ Len(stack') = Len(stack) /\ stack[1] = Top
      /\ stack'[1] = f /\ \A i \in 2..Len(stack) : stack'[i] = stack[i]
      /\ stack' # <<>> /\ Top' = f /\ ret' = "NONE"
  BY <1>0, <1>2, ContinueAt
<1>5. Excuses(Top, 0, t) /\ Top.fn \notin Relays /\ ~Is(Top, "subscribe", "wait")
  BY <1>2 DEF Excuses, Is, Relays
<1>6. \A s, u : Excuses(Top, s, u) => u = t
  BY DEF Excuses, Is
<1>7. Top.fn = "subscribe"
  OBVIOUS
<1> HIDE DEF f, t, Top
<1>8. TableInv'
  <2>1. Injective'
    BY <1>0, <1>1, <1>2, InstalledTable DEF TableInv
  <2>2. f.fn = Top.fn
    BY <1>3, <1>7 DEF Is
  <2>3. SameBottom
    BY <1>0, <1>2, <2>2, ContinueBottom
  <2>4. stack[Len(stack)].fn # "connect"
    BY <1>0, <1>4, <1>7 DEF TableInv, ConstructInv
  <2>5. ConstructInv'
    BY <2>3, <2>4 DEF ConstructInv, SameBottom
  <2> QED
    BY <2>1, <2>5 DEF TableInv
<1>9. CASE ~Live'
  BY <1>8, <1>9, NotLive DEF HandledInv
<1>10. CASE Live'
  <2>1. /\ Live
        /\ \/ inbound' = Append(inbound, "SUBACK") /\ brokerSubs' = brokerSubs \cup {t}
           \/ inbound' = Append(inbound, "SUBACK_FAIL") /\ brokerSubs' = brokerSubs
    BY <1>0, <1>2, <1>10, SubscribeWritten DEF Live
  <2>2. \A p \in SubAcks : ~Carried(p)
    BY <1>0, <1>5, <2>1, NoneCarried
  <2>3. PICK a \in SubAcks : inbound' = Append(inbound, a) /\ (a = "SUBACK" => t \in brokerSubs')
    BY <2>1 DEF SubAcks
  <2>4. /\ Len(inbound') = Len(inbound) + 1 /\ inbound'[Len(inbound')] = a
        /\ \A k \in 1..Len(inbound) : inbound'[k] = inbound[k] /\ inbound[k] \notin SubAcks
    BY <1>0, <2>2, <2>3 DEF Carried
  <2>5. \A p \in SubAcks : ~OnReturn(p)'
    BY <1>3, <1>4 DEF OnReturn, Is, SubAcks
  <2>6. \A k \in 1..Len(inbound') : inbound'[k] \in SubAcks => k = Len(inbound') /\ inbound'[k] = a
    BY <1>0, <2>4
  <2>7. OneAnswer'
    BY <2>5, <2>6 DEF OneAnswer
  <2>8. 1 \in 1..Len(stack') /\ Asks(1)' /\ stack'[1].topic = t
    BY <1>3, <1>4 DEF Asks
  <2>9. Carried("SUBACK")' => t \in brokerSubs'
    <3>1. "SUBACK" \in SubAcks
      BY DEF SubAcks
    <3> QED
      BY <2>3, <2>5, <2>6, <3>1 DEF Carried
  <2>10. AnswerInv'
    BY <2>7, <2>8, <2>9 DEF AnswerInv
  <2>11. ASSUME NEW s \in Slots, handlers'[s] # NoTopic, handlers'[s] \notin brokerSubs'
         PROVE  \E k \in 1..Len(stack') : Excuses(stack'[k], s, handlers'[s])
    <3>1. handlers'[s] \in {handlers[s], t}
      BY <1>0, <1>1, <1>2, InstalledTable DEF TableInv
    <3>2. CASE handlers'[s] = t
      <4>1. Excuses(f, s, t)
        BY <1>3 DEF Excuses, Is
      <4> QED
        BY <1>4, <2>8, <3>2, <4>1
    <3>3. CASE handlers'[s] # t
      <4>1. handlers'[s] = handlers[s] /\ Unsubscribed(s)
        BY <2>1, <2>11, <3>1, <3>3 DEF Unsubscribed
      <4>2. PICK i \in 1..Len(stack) : Excuses(stack[i], s, handlers[s])
        BY <1>0, <2>1, <4>1 DEF Excused
      <4>3. i # 1
        BY <1>4, <1>6, <3>3, <4>1, <4>2
      <4> QED
        BY <1>4, <4>1, <4>2, <4>3
    <3> QED
      BY <3>1, <3>2, <3>3
  <2>12. Excused'
    BY <2>11 DEF Excused, Unsubscribed
  <2> QED
    BY <1>8, <2>10, <2>12 DEF HandledInv, SubscribedInv
<1> QED
  BY <1>9, <1>10

\* UNSUBSCRIBE is sent.
LEMMA UnsubscribeHandled ==
  ASSUME TypeInv, HandledInv, RequestSend, Top.fn = "unsubscribe"
  PROVE  HandledInv'
<1>0. /\ CallsOK /\ NetOK /\ inbound \in Seq(Packets) /\ stack # <<>> /\ TableInv /\ AnswerInv /\ Excused
  BY DEF TypeInv, NetOK, HandledInv, SubscribedInv, RequestSend, AtRequest
<1> DEFINE t == Top.topic
           f == [Top EXCEPT !.pc = "wait"]
<1>1. /\ Top.pc = "send" /\ state' = state /\ handlers' = handlers /\ Continue(f, "NONE")
      /\ Written("UNSUBSCRIBE", t, inbound) /\ Written(RequestPacket(Top), t, inbound)
  BY DEF RequestSend, AtRequest, RequestPacket
<1>2. SameLink /\ Moves(0, Others)
  BY <1>0, <1>1, RequestWritten DEF Requests
<1>3. Is(f, "unsubscribe", "wait") /\ f.topic = t
  BY <1>0, TopFields DEF Is
<1>4. /\ Len(stack) \in Nat \ {0} /\ Len(stack') = Len(stack) /\ stack[1] = Top
      /\ stack'[1] = f /\ \A i \in 2..Len(stack) : stack'[i] = stack[i]
      /\ stack' # <<>> /\ Top' = f /\ ret' = "NONE"
  BY <1>0, <1>1, ContinueAt
<1>5. Top.fn \notin Relays /\ ~Is(Top, "subscribe", "wait") /\ Top.fn = "unsubscribe"
  BY DEF Is, Relays
<1>6. \A s, u : ~Excuses(Top, s, u)
  BY <1>1 DEF Excuses, Is
<1> HIDE DEF f, t, Top
<1>7. TableInv'
  <2>1. f.fn = Top.fn
    BY <1>3, <1>5 DEF Is
  <2>2. SameBottom /\ Shrinks
    BY <1>0, <1>1, <2>1, ContinueBottom DEF Shrinks
  <2> QED
    BY <1>0, <2>2, TableKept
<1>8. ASSUME Live' PROVE SubscribedInv'
  <2>1. Live
    BY <1>1, <1>2, <1>8 DEF Live, SameLink
  <2>2. \A p \in SubAcks : ~Carried(p)
    BY <1>0, <1>5, <2>1, NoneCarried
  <2>3. \A p \in SubAcks : ~OnReturn(p)'
    BY <1>3, <1>4 DEF OnReturn, Is, SubAcks
  <2>4. Others \cap SubAcks = {}
    BY DEF Others, SubAcks
  <2>5. \A p \in SubAcks : ~Carried(p)'
    BY <1>2, <2>2, <2>3, <2>4 DEF Carried, Moves
  <2>6. AnswerInv'
    BY <2>5 DEF AnswerInv
  <2>7. ASSUME NEW s \in Slots, handlers'[s] # NoTopic, handlers'[s] \notin brokerSubs'
        PROVE  \E k \in 1..Len(stack') : Excuses(stack'[k], s, handlers'[s])
    <3>1. CASE handlers[s] = t
      <4>1. Excuses(f, s, t)
        BY <1>3 DEF Excuses
      <4> QED
        BY <1>1, <1>4, <3>1, <4>1
    <3>2. CASE handlers[s] # t
      <4>1. Unsubscribed(s)
        BY <1>0, <1>1, <1>8, <2>7, <3>2, UnsubscribeWritten DEF Unsubscribed, Live
      <4>2. PICK i \in 1..Len(stack) : Excuses(stack[i], s, handlers[s])
        BY <1>0, <2>1, <4>1 DEF Excused
      <4>3. i # 1
        BY <1>4, <1>6, <4>2
      <4> QED
        BY <1>1, <1>4, <4>2, <4>3
    <3> QED
      BY <3>1, <3>2
  <2> QED
    BY <2>6, <2>7 DEF SubscribedInv, Excused, Unsubscribed
<1> QED
  BY <1>7, <1>8, NotLive DEF HandledInv

\* A publish is sent.
LEMMA PublishHandled ==
  ASSUME TypeInv, TypeInv', ShapeInv, HandledInv, RequestSend, Top.fn = "publish"
  PROVE  HandledInv'
<1>0. /\ CallsOK /\ NestedInv /\ NetOK /\ inbound \in Seq(Packets) /\ inbound' \in Seq(Packets) /\ stack # <<>>
      /\ TableInv /\ SubscribedInv /\ AnswerInv /\ Excused
  BY DEF TypeInv, ShapeInv, NetOK, HandledInv, SubscribedInv, RequestSend, AtRequest
<1> DEFINE f == [Top EXCEPT !.pc = "wait"]
<1>1. /\ handlers' = handlers /\ state' = state /\ Written(RequestPacket(Top), Top.topic, inbound)
      /\ Return("SUCCESS") \/ Continue(f, "NONE")
  BY DEF RequestSend, AtRequest
<1>2. SameLink /\ Moves(0, Others) /\ SameSubs
  BY <1>0, <1>1, RequestWritten DEF Requests
<1>3. Plain /\ Others \cap SubAcks = {} /\ {"SUCCESS", "NONE"} \cap SubAcks = {} /\ Shrinks
  BY <1>1, <1>2 DEF Plain, SameState, Others, SubAcks, Shrinks
<1>4. f.fn = Top.fn
  BY <1>0, TopFields DEF Is
<1> HIDE DEF f
<1>5. Top.fn # "cycle" /\ ~Is(Top, "subscribe", "wait") /\ \A s, t : ~Excuses(Top, s, t)
  BY DEF Is, Excuses
<1>6. CASE Return("SUCCESS")
  <2>1. AnswerInv' /\ Excused'
    BY <1>0, <1>2, <1>3, <1>5, <1>6, ReturnAnswer, ReturnExcused
  <2>2. SameBottom
    BY <1>0, <1>6, ReturnBottom
  <2> QED
    BY <1>0, <1>3, <2>1, <2>2, TableKept DEF HandledInv, SubscribedInv
<1>7. CASE Continue(f, "NONE")
  <2>1. SubscribedInv'
    BY <1>0, <1>1, <1>2, <1>3, <1>4, <1>5, <1>7, ContinueSubscribed
  <2>2. SameBottom
    BY <1>0, <1>4, <1>7, ContinueBottom
  <2> QED
    BY <1>0, <1>3, <2>1, <2>2, TableKept DEF HandledInv
<1> QED
  BY <1>1, <1>6, <1>7

\* The acknowledgement of a SUBSCRIBE ends the subscribe that waits for it, and
\* with SUBACK the broker has the subscription.
LEMMA SubackHandled ==
  ASSUME TypeInv, ShapeInv, HandledInv, RequestAcked \/ SubscribeRefused, Top.fn = "subscribe"
  PROVE  HandledInv'
<1>0. /\ CallsOK /\ NestedInv /\ NetOK /\ stack # <<>> /\ TableInv /\ AnswerInv /\ Excused
      /\ handlers \in [Slots -> Topics \cup {NoTopic}]
  BY DEF TypeInv, ShapeInv, ClientOK, HandledInv, SubscribedInv, RequestAcked, SubscribeRefused, AtRequest, At
<1> DEFINE t == Top.topic
<1>1. t \in Topics
  BY <1>0, TopOK DEF Frames
<1>2. /\ UNCHANGED net /\ state' = state /\ ret \in SubAcks
      /\ \/ ret = "SUBACK" /\ handlers' = handlers
         \/ handlers' = Removed(handlers, t)
      /\ \E rc \in {"SUCCESS", "SUBACK_FAILED"} : Return(rc)
  BY DEF RequestAcked, SubscribeRefused, Acked, Acks, SubAcks
<1>3. PICK rc \in {"SUCCESS", "SUBACK_FAILED"} : Return(rc)
  BY <1>2
<1>4. /\ Len(stack) \in Nat \ {0} /\ Len(stack') = Len(stack) - 1 /\ stack[1] = Top
      /\ \A i \in 1..Len(stack') : stack'[i] = stack[i + 1]
      /\ stack' # <<>> => Top' = stack[2] /\ Len(stack) >= 2
      /\ ret' = rc
  BY <1>0, <1>3, ReturnAt
<1>5. Top.fn \notin Relays /\ \A s, u : Excuses(Top, s, u) => u = t
  BY DEF Relays, Excuses, Is
<1>6. Shrinks
  BY <1>0, <1>1, <1>2, RemovedTable DEF Shrinks, TableInv
<1>7. TableInv'
  <2>1. SameBottom
    BY <1>0, <1>3, ReturnBottom
  <2> QED
    BY <1>0, <1>6, <2>1, TableKept
<1> HIDE DEF t, Top
<1>8. ASSUME Live' PROVE SubscribedInv'
  <2>1. Live /\ inbound' = inbound /\ brokerSubs' = brokerSubs
    BY <1>2, <1>8 DEF Live, net
  <2>2. OnReturn(ret) /\ Carried(ret)
    BY DEF OnReturn, Carried
  <2>3. /\ OneAnswer
        /\ \E i \in 1..Len(stack) : Asks(i) /\ (Carried("SUBACK") => stack[i].topic \in brokerSubs)
    BY <1>0, <1>2, <2>1, <2>2 DEF AnswerInv
  <2>4. \A k \in 1..Len(inbound) : inbound[k] \notin SubAcks
    BY <1>2, <2>2, <2>3 DEF OneAnswer
  <2>5. stack' # <<>> => FrameHolds(Top', 2)
    BY <1>0, <1>4 DEF NestedInv
  <2>6. \A p \in SubAcks : ~OnReturn(p)'
    BY <1>4, <2>5 DEF OnReturn, FrameHolds, SubAcks, Top
  <2>7. AnswerInv'
    BY <2>1, <2>4, <2>6 DEF AnswerInv, Carried
  <2>8. ret = "SUBACK" => t \in brokerSubs
    <3>1. PICK i \in 1..Len(stack) : Asks(i) /\ (Carried("SUBACK") => stack[i].topic \in brokerSubs)
      BY <2>3
    <3>2. i = 1
      <4>1. i # 1 => 1 \in 1..(i - 1)
        BY <3>1
      <4> QED
        BY <1>4, <1>5, <3>1, <4>1 DEF Asks
    <3> QED
      BY <1>4, <2>2, <3>1, <3>2 DEF t
  <2>9. Plain
    BY <1>2 DEF Plain, SameLink, SameSubs, SameState, net
  <2>10. ASSUME NEW s \in Slots, handlers'[s] # NoTopic, Unsubscribed(s) PROVE ~Excuses(Top, s, handlers[s])
    <3>1. handlers[s] = handlers'[s]
      BY <1>6, <2>10 DEF Shrinks
    <3>2. handlers[s] # t
      <4>1. CASE ret = "SUBACK"
        BY <2>8, <2>10, <4>1 DEF Unsubscribed
      <4>2. CASE handlers' = Removed(handlers, t)
        BY <1>0, <1>1, <3>1, <4>2, RemovedTable DEF TableInv
      <4> QED
        BY <1>2, <4>1, <4>2
    <3> QED
      BY <1>5, <3>2
  <2>11. Excused'
    BY <1>0, <1>3, <1>6, <2>9, <2>10, ReturnExcused
  <2> QED
    BY <2>7, <2>11 DEF SubscribedInv
<1> QED
  BY <1>7, <1>8, NotLive DEF HandledInv

\* So does that of an UNSUBSCRIBE, with the handler, and of a PUBLISH.
LEMMA AckHandled ==
  ASSUME TypeInv, TypeInv', ShapeInv, HandledInv, RequestAcked, Top.fn # "subscribe"
  PROVE  HandledInv'
<1>0. /\ CallsOK /\ NestedInv /\ NetOK /\ inbound \in Seq(Packets) /\ inbound' \in Seq(Packets) /\ stack # <<>>
      /\ TableInv /\ AnswerInv /\ Excused /\ handlers \in [Slots -> Topics \cup {NoTopic}]
  BY DEF TypeInv, ShapeInv, NetOK, ClientOK, HandledInv, SubscribedInv, RequestAcked, AtRequest
<1> DEFINE t == Top.topic
<1>1. Top.fn = "unsubscribe" => t \in Topics
  BY <1>0, TopOK DEF Frames
<1>2. /\ UNCHANGED net /\ state' = state /\ Return("SUCCESS") /\ "SUCCESS" \notin SubAcks
      /\ handlers' = IF Top.fn = "unsubscribe" THEN Removed(handlers, t) ELSE handlers
      /\ Top.fn \in {"unsubscribe", "publish"}
  BY DEF RequestAcked, AtRequest, Requests, SubAcks
<1>3. Plain /\ Moves(0, Others) /\ Others \cap SubAcks = {}
  BY <1>0, <1>2, PlainSame DEF Others, SubAcks
<1>4. ~Is(Top, "subscribe", "wait") /\ \A s, u : Excuses(Top, s, u) => u = t /\ Top.fn = "unsubscribe"
  BY <1>2 DEF Is, Excuses
<1> HIDE DEF t, Top
<1>5. Shrinks /\ \A s \in Slots : Top.fn = "unsubscribe" => handlers'[s] # t
  BY <1>0, <1>1, <1>2, RemovedTable DEF Shrinks, TableInv
<1>6. SameBottom
  BY <1>0, <1>2, ReturnBottom
<1>7. TableInv'
  BY <1>0, <1>5, <1>6, TableKept
<1>8. AnswerInv'
  BY <1>0, <1>2, <1>3, <1>4, ReturnAnswer
<1>9. ASSUME NEW s \in Slots, handlers'[s] # NoTopic PROVE ~Excuses(Top, s, handlers[s])
  BY <1>4, <1>5, <1>9 DEF Shrinks
<1>10. Excused'
  BY <1>0, <1>2, <1>3, <1>5, <1>9, ReturnExcused
<1> QED
  BY <1>7, <1>8, <1>10 DEF HandledInv, SubscribedInv

\* Requests, tc_iot_mqtt_yield and callbacks.
LEMMA RequestHandled ==
  ASSUME UsedAsInExamples, TypeInv, TypeInv', ShapeInv, HandledInv, RequestStep
  PROVE  HandledInv'
<1>0. /\ CallsOK /\ NestedInv /\ OutcomeInv /\ NetOK /\ inbound \in Seq(Packets) /\ inbound' \in Seq(Packets)
      /\ TableInv /\ SubscribedInv /\ AnswerInv /\ Excused /\ handlers \in [Slots -> Topics \cup {NoTopic}]
  BY DEF TypeInv, ShapeInv, NetOK, ClientOK, HandledInv, SubscribedInv
<1>a. /\ \A pc : AtRequest(pc) => stack # <<>> /\ Top.fn \in Requests /\ Top.pc = pc
      /\ \A pc : At("yield", pc) => stack # <<>> /\ Top.fn = "yield" /\ Top.pc = pc
      /\ \A pc : At("callback", pc) => stack # <<>> /\ Top.fn = "callback" /\ Top.pc = pc
      /\ \A pc : At("publish", pc) => stack # <<>> /\ Top.fn = "publish" /\ Top.pc = pc
      /\ \A pc : At("subscribe", pc) => stack # <<>> /\ Top.fn = "subscribe" /\ Top.pc = pc
      /\ Requests \cap {"connect", "reconnect", "cycle", "yield", "callback"} = {}
      /\ Requests = {"subscribe", "unsubscribe", "publish"}
  BY DEF At, AtRequest, Requests
<1>b. ASSUME Shrinks, SameBottom, SubscribedInv' PROVE HandledInv'
  BY <1>0, <1>b, TableKept DEF HandledInv
<1>c. handlers' = handlers => Shrinks
  BY DEF Shrinks
<1>d. ASSUME NEW f, NEW pc, stack # <<>>, f = [Top EXCEPT !.pc = pc] PROVE f.fn = Top.fn /\ f.pc = pc /\ f.topic = Top.topic
  BY <1>0, <1>d, TopFields DEF Is
<1>e. ASSUME NEW f, Call(f, HandleReconnect), stack # <<>>, f.fn = Top.fn, Shrinks, state' # "CONNECTED"
      PROVE  HandledInv'
  <2>1. HandleReconnect.fn # "subscribe"
    BY FrameFields DEF Is
  <2>2. SameBottom
    BY <1>0, <1>e, <2>1, CallBottom
  <2> QED
    BY <1>b, <1>e, <2>2, NotLive DEF Live
<1>f. ASSUME UNCHANGED net, state' = state PROVE Plain /\ Moves(0, Others) /\ Others \cap SubAcks = {}
  BY <1>0, <1>f, PlainSame DEF Others, SubAcks
<1>1. CASE RequestConnected
  <2> DEFINE f == [Top EXCEPT !.pc = "send"]
  <2>1. /\ stack # <<>> /\ Top.fn \in Requests /\ Top.pc = "check" /\ Continue(f, "SUCCESS")
        /\ UNCHANGED net /\ state' = state /\ handlers' = handlers
    BY <1>1, <1>a DEF RequestConnected, client
  <2>2. f.fn = Top.fn /\ f.pc = "send" /\ f.topic = Top.topic
    BY <1>d, <2>1
  <2> HIDE DEF f, Top
  <2>3. f.fn # "cycle" /\ "SUCCESS" \notin SubAcks /\ ~Is(Top, "subscribe", "wait")
    BY <1>a, <2>1, <2>2 DEF SubAcks, Is
  <2>4. \A s, t : Excuses(Top, s, t) => Excuses(f, s, t)
    BY <1>a, <2>1, <2>2 DEF Excuses, Is
  <2>5. SubscribedInv'
    BY <1>0, <1>f, <2>1, <2>2, <2>3, <2>4, ContinueSubscribed
  <2>6. SameBottom
    BY <1>0, <2>1, <2>2, ContinueBottom
  <2> QED
    BY <1>b, <1>c, <2>1, <2>5, <2>6
<1>2. CASE RequestReconnects \/ YieldReconnects
  <2>1. PICK pc \in {"send", "again"} : Call([Top EXCEPT !.pc = pc], HandleReconnect)
    BY <1>2 DEF RequestReconnects, YieldReconnects
  <2>2. stack # <<>> /\ handlers' = handlers /\ state' # "CONNECTED"
    BY <1>2, <1>a DEF RequestReconnects, YieldReconnects, client
  <2>3. [Top EXCEPT !.pc = pc].fn = Top.fn
    BY <1>d, <2>2
  <2> QED
    BY <1>c, <1>e, <2>1, <2>2, <2>3
<1>3. CASE RequestSendFails \/ RequestTimesOut
  <2>0. PICK rc \in {"SEND_FAILED", "WAIT_TIMEOUT"} : GiveUp(rc) /\ stack # <<>> /\ Top.fn \in Requests
    BY <1>3, <1>a DEF RequestSendFails, RequestTimesOut
  <2>1. state' # "CONNECTED" /\ Call([Top EXCEPT !.pc = "exit", !.rc = rc], HandleReconnect)
    BY <1>0, <2>0, DisconnectPlain DEF GiveUp, DropSession
  <2>2. [Top EXCEPT !.pc = "exit", !.rc = rc].fn = Top.fn
    BY <1>0, <2>0, TopFields DEF Is
  <2>3. Shrinks
    <3>1. handlers' = handlers \/ (Top.fn = "subscribe" /\ handlers' = Removed(handlers, Top.topic))
      BY <1>3 DEF RequestSendFails, RequestTimesOut
    <3>2. Top.fn = "subscribe" => Top.topic \in Topics
      BY <1>0, <2>0, TopOK DEF Frames
    <3> QED
      BY <1>0, <1>c, <3>1, <3>2, RemovedTable DEF TableInv
  <2> QED
    BY <1>e, <2>0, <2>1, <2>2, <2>3
<1>4. CASE RequestUnavailable \/ RequestNotConnected
  <2>1. stack # <<>> /\ handlers' = handlers /\ \E rc \in {"UNAVAILABLE", ret} : Return(rc)
    BY <1>4, <1>a DEF RequestUnavailable, RequestNotConnected, client
  <2>2. ~Live'
    BY <1>0, <1>4 DEF RequestUnavailable, RequestNotConnected, OutcomeInv, Live, client, net
  <2>3. SameBottom
    BY <1>0, <2>1, ReturnBottom
  <2> QED
    BY <1>b, <1>c, <2>1, <2>2, <2>3, NotLive
<1>5. CASE PublishTooLarge \/ RequestExits \/ YieldReturns \/ CallbackReturns
  <2>1. stack # <<>> /\ handlers' = handlers /\ UNCHANGED net /\ state' = state
    BY <1>5, <1>a DEF PublishTooLarge, RequestExits, YieldReturns, CallbackReturns, client
  <2>2. PICK rc \in {"SUCCESS", "FAILURE", "NONE", ret, Top.rc} : Return(rc)
    BY <1>5 DEF PublishTooLarge, RequestExits, YieldReturns, CallbackReturns
  <2>3. Top.fn # "cycle" /\ ~Is(Top, "subscribe", "wait") /\ \A s, t : ~Excuses(Top, s, t)
    BY <1>5, <1>a DEF PublishTooLarge, RequestExits, YieldReturns, CallbackReturns, Is, Excuses
  <2>4. rc \in SubAcks => OnReturn(rc)
    <3>1. Top.rc \notin SubAcks
      BY <1>0, <2>1, <2>3, TopHolds DEF FrameHolds
    <3> QED
      BY <2>2, <3>1 DEF OnReturn, SubAcks
  <2>5. AnswerInv'
    BY <1>0, <1>f, <2>1, <2>2, <2>3, <2>4, ReturnAnswer
  <2>6. Excused'
    BY <1>0, <1>c, <1>f, <2>1, <2>2, <2>3, ReturnExcused
  <2>7. SameBottom
    BY <1>0, <2>1, <2>2, ReturnBottom
  <2> QED
    BY <1>b, <1>c, <2>1, <2>5, <2>6, <2>7 DEF SubscribedInv
<1>6. CASE RequestSend
  BY <1>6, <1>a, SubscribeHandled, UnsubscribeHandled, PublishHandled DEF RequestSend
<1>7. CASE SubscribeRefused \/ RequestAcked
  BY <1>7, <1>a, SubackHandled, AckHandled DEF SubscribeRefused
<1>8. CASE YieldLoops
  <2>1. /\ stack # <<>> /\ Top.fn = "yield" /\ Continue(Yield, "NONE") /\ "NONE" \notin SubAcks
        /\ UNCHANGED net /\ state' = state /\ handlers' = handlers
    BY <1>8, <1>a DEF YieldLoops, client, SubAcks
  <2>2. Yield.fn = Top.fn /\ Yield.fn # "cycle"
    BY <2>1, FrameFields DEF Is
  <2>3. ~Is(Top, "subscribe", "wait") /\ \A s, t : ~Excuses(Top, s, t)
    BY <2>1 DEF Is, Excuses
  <2>4. SubscribedInv'
    BY <1>0, <1>f, <2>1, <2>2, <2>3, ContinueSubscribed
  <2>5. SameBottom
    BY <1>0, <2>1, <2>2, ContinueBottom
  <2> QED
    BY <1>b, <1>c, <2>1, <2>4, <2>5
<1>9. CASE CallbackRequests
  <2> DEFINE f == [Top EXCEPT !.pc = "done"]
  <2>1. PICK g \in RequestFrames(CallbackCalls) : Call(f, g)
    BY <1>9 DEF CallbackRequests
  <2>2. /\ stack # <<>> /\ Top.fn = "callback" /\ UNCHANGED net /\ state' = state /\ handlers' = handlers
    BY <1>9, <1>a DEF CallbackRequests, client
  <2>3. f.fn = Top.fn
    BY <1>d, <2>2
  <2> HIDE DEF f
  <2>4. g.fn = "publish" /\ g.rc \notin SubAcks /\ g.fn \in Relays /\ g.fn # "subscribe"
    BY CallbackFrames DEF Is, SubAcks, Relays
  <2>5. ~Is(Top, "subscribe", "wait") /\ \A s, t : ~Excuses(Top, s, t)
    BY <2>2 DEF Is, Excuses
  <2>6. SubscribedInv'
    BY <1>0, <1>f, <2>1, <2>2, <2>3, <2>4, <2>5, CallSubscribed
  <2>7. SameBottom
    BY <1>0, <2>1, <2>2, <2>3, <2>4, CallBottom
  <2> QED
    BY <1>b, <1>c, <2>2, <2>6, <2>7
<1> QED
  BY <1>1, <1>2, <1>3, <1>4, <1>5, <1>6, <1>7, <1>8, <1>9 DEF RequestStep

\* Calls of the application, time, the network and the broker.
LEMMA AppEnvHandled ==
  ASSUME UsedAsInExamples, TypeInv, TypeInv', HandledInv, AppStep \/ EnvStep
  PROVE  HandledInv'
<1>0. /\ CallsOK /\ NetOK /\ inbound \in Seq(Packets) /\ inbound' \in Seq(Packets) /\ TableInv /\ Injective
      /\ AnswerInv /\ Excused
  BY DEF TypeInv, NetOK, HandledInv, TableInv, SubscribedInv
<1>1. ASSUME UNCHANGED calls, Shrinks, Plain, NEW new, Moves(0, new), new \cap SubAcks = {}
      PROVE  HandledInv'
  <2>1. stack' = stack /\ ret' = ret
    BY <1>1 DEF calls
  <2>2. SameBottom
    BY <2>1 DEF SameBottom
  <2>3. Handed(0)
    BY <2>1 DEF Handed, OnReturn, Top
  <2>4. \A i \in 1..Len(stack) : Asks(i) => i \in 1..Len(stack') /\ Asks(i)' /\ stack'[i].topic = stack[i].topic
    BY <2>1 DEF Asks
  <2>5. AnswerInv'
    BY <1>0, <1>1, <2>3, <2>4, AnswerKept
  <2>6. Live' => Live /\ brokerSubs' = brokerSubs
    BY <1>1 DEF Live, Plain, SameLink, SameSubs, SameState
  <2>7. Excused'
    BY <1>0, <1>1, <2>1, <2>6, ExcusedKept DEF Unsubscribed, Shrinks
  <2> QED
    BY <1>0, <1>1, <2>2, <2>5, <2>7, TableKept DEF HandledInv, SubscribedInv
<1>2. ASSUME stack = <<>>, NEW f, stack' = <<f>>, f.fn \in Requests \cup {"yield"}, ret' = "NONE",
             UNCHANGED net, UNCHANGED client
      PROVE  HandledInv'
  <2>1. Len(stack') = 1 /\ stack'[1] = f /\ Top' = f /\ Len(stack) = 0
    BY <1>2 DEF Top
  <2>2. handlers' = handlers /\ state' = state /\ inbound' = inbound /\ brokerSubs' = brokerSubs /\ link' = link
    BY <1>2 DEF client, net
  <2>3. TableInv'
    BY <1>0, <1>2, <2>1, <2>2 DEF TableInv, Injective, ConstructInv, Requests
  <2>4. \A p \in SubAcks : ~OnReturn(p)'
    BY <1>2, <2>1 DEF OnReturn, SubAcks, Requests
  <2>5. AnswerInv'
    BY <1>0, <2>1, <2>2, <2>4 DEF AnswerInv, Live, Carried
  <2>6. Excused'
    BY <1>0, <2>1, <2>2 DEF Excused, Unsubscribed, Live
  <2> QED
    BY <2>3, <2>5, <2>6 DEF HandledInv, SubscribedInv
<1>3. CASE Construct
  <2>1. /\ handlers' = [s \in Slots |-> NoTopic] /\ state' # "CONNECTED"
        /\ stack' = <<>> \/ stack' = <<Connect>>
    BY <1>3 DEF Construct
  <2>2. stack' # <<>> => Len(stack') = 1 /\ stack'[1] = Connect
    BY <2>1
  <2>3. Connect.fn = "connect"
    BY FrameFields DEF Is
  <2>4. TableInv'
    BY <2>1, <2>2, <2>3 DEF TableInv, Injective, ConstructInv
  <2> QED
    BY <2>1, <2>4, NotLive DEF HandledInv, Live
<1>4. CASE AppYields \/ AppRequests
  <2>1. \A f \in RequestFrames(AppCalls) : f.fn \in Requests
    BY FrameFields DEF RequestFrames, Is, Requests
  <2>2. Yield.fn = "yield"
    BY FrameFields DEF Is
  <2>3. PICK f \in RequestFrames(AppCalls) \cup {Yield} : stack' = <<f>>
    BY <1>4 DEF AppYields, AppRequests
  <2>4. stack = <<>> /\ ret' = "NONE" /\ UNCHANGED net /\ UNCHANGED client
    BY <1>4 DEF AppYields, AppRequests
  <2> QED
    BY <1>2, <2>1, <2>2, <2>3, <2>4
<1>5. CASE AppDisconnects
  <2>1. stack' = <<>> /\ handlers' = handlers
    BY <1>5 DEF AppDisconnects
  <2>2. state' # "CONNECTED"
    BY <1>0, <1>5, DisconnectPlain DEF AppDisconnects, DropSession
  <2>3. TableInv'
    BY <1>0, <2>1 DEF TableInv, Injective, ConstructInv
  <2> QED
    BY <2>2, <2>3, NotLive DEF HandledInv, Live
<1>6. CASE AppSetsAutoReconnect \/ AppDestroys \/ (\E t \in Timers : Tick(t))
  <2>1. UNCHANGED calls /\ UNCHANGED net /\ state' = state
    BY <1>6 DEF AppSetsAutoReconnect, AppDestroys, Tick
  <2>2. handlers' = handlers \/ handlers' = [s \in Slots |-> NoTopic]
    BY <1>6 DEF AppSetsAutoReconnect, AppDestroys, Tick
  <2>3. Shrinks
    BY <2>2 DEF Shrinks
  <2>4. Plain /\ Moves(0, Others) /\ Others \cap SubAcks = {}
    BY <1>0, <2>1, PlainSame DEF Others, SubAcks
  <2> QED
    BY <1>1, <2>1, <2>3, <2>4
<1>7. CASE LinkSilent \/ LinkDies
  <2>1. UNCHANGED calls /\ UNCHANGED client /\ link' # "up"
    BY <1>7 DEF LinkSilent, LinkDies
  <2>2. TableInv'
    BY <1>0, <2>1 DEF TableInv, Injective, ConstructInv, calls, client
  <2> QED
    BY <2>1, <2>2, NotLive DEF HandledInv, Live
<1>8. CASE BrokerPublish
  <2>1. UNCHANGED calls /\ UNCHANGED client /\ UNCHANGED <<link, brokerUp, brokerSubs>>
    BY <1>8 DEF BrokerPublish
  <2>2. PICK p \in Publishes : inbound' = Append(inbound, p)
    BY <1>8, QosAssumption DEF BrokerPublish, Publish, Publishes
  <2>3. Moves(0, Publishes) /\ Publishes \cap SubAcks = {}
    BY <1>0, <2>2 DEF Moves, Publishes, SubAcks
  <2>4. Plain /\ Shrinks
    BY <2>1 DEF Plain, SameLink, SameSubs, SameState, Shrinks, client
  <2> QED
    BY <1>1, <2>1, <2>3, <2>4
<1> QED
  BY <1>3, <1>4, <1>5, <1>6, <1>7, <1>8 DEF AppStep, EnvStep, UsedAsInExamples, AppConnects

-----------------------------------------------------------------------------
(* The inductive invariant.                                                *)

SubscriptionInv == ShapeInv /\ BrokerInv /\ HandledInv

\* Every step of a client that is used like that keeps the invariant.
LEMMA SubscriptionStep ==
  ASSUME UsedAsInExamples
  PROVE  TypeInv /\ SessionInv /\ SubscriptionInv /\ [Next]_vars => SubscriptionInv'
<1> SUFFICES ASSUME TypeInv, SessionInv, SubscriptionInv, [Next]_vars PROVE SubscriptionInv'
  OBVIOUS
<1>0. TypeInv' /\ ShapeInv /\ BrokerInv /\ HandledInv /\ SocketMatchesState /\ CleanSession /\ RefusedInv
  BY TypeStep DEF SubscriptionInv, SessionInv, SocketInv, UsedAsInExamples, BrokerInv
<1>1. CASE UNCHANGED vars
  <2>1. UNCHANGED <<state, handlers, stack, ret, link, inbound, brokerUp, brokerSubs>>
    BY <1>1 DEF vars, client, calls, net
  <2>2. ShapeInv'
    BY <1>0, <2>1 DEF ShapeInv, NestedInv, OutcomeInv, At, AtRequest, Top, Live
  <2>3. BrokerInv'
    BY <1>0, <2>1 DEF BrokerInv, RefusedInv, FreshInv, OpeningInv, WaitingInv, ConnackInv, Opening,
       Carried, OnReturn, At, Top
  <2>4. HandledInv'
    BY <1>0, <2>1 DEF HandledInv, TableInv, Injective, ConstructInv, SubscribedInv, AnswerInv, Excused,
       OneAnswer, Asks, Unsubscribed, Live, Carried, OnReturn, Top
  <2> QED
    BY <2>2, <2>3, <2>4 DEF SubscriptionInv
<1>2. CASE CycleStep
  BY <1>0, <1>2, CycleShape, CycleBroker, CycleHandled DEF SubscriptionInv
<1>3. CASE ConnectStep
  BY <1>0, <1>3, ConnectShape, ConnectBroker, ConnectHandled DEF SubscriptionInv
<1>4. CASE RequestStep
  BY <1>0, <1>4, RequestShape, RequestBroker, RequestHandled DEF SubscriptionInv
<1>5. CASE AppStep \/ EnvStep
  BY <1>0, <1>5, AppEnvShape, AppEnvBroker, AppEnvHandled DEF SubscriptionInv
<1> QED
  BY <1>1, <1>2, <1>3, <1>4, <1>5 DEF Next

\* In the beginning nothing is connected, handled or called.
LEMMA SubscriptionInit == Init => SubscriptionInv
<1> SUFFICES ASSUME Init PROVE SubscriptionInv
  OBVIOUS
<1>1. /\ state = "INVALID" /\ handlers = [s \in Slots |-> NoTopic] /\ stack = <<>> /\ ret = "NONE"
      /\ link = "none" /\ inbound = <<>> /\ Len(stack) = 0 /\ Len(inbound) = 0
  BY DEF Init
<1>2. ShapeInv
  BY <1>1 DEF ShapeInv, NestedInv, OutcomeInv, At, AtRequest
<1>3. BrokerInv
  BY <1>1 DEF BrokerInv, RefusedInv, FreshInv, OpeningInv, WaitingInv, ConnackInv, Opening, Carried, OnReturn, At
<1>4. HandledInv
  BY <1>1 DEF HandledInv, TableInv, Injective, ConstructInv, SubscribedInv, AnswerInv, Excused, Live
<1> QED
  BY <1>2, <1>3, <1>4 DEF SubscriptionInv

\* Between calls, whatever was lost, refused or answered late while the client
\* connected and resubscribed, a connected client is subscribed to every topic it
\* has a handler for: with a clean session, connections left to the library and
\* callbacks that do not subscribe, as in every example.
THEOREM HandlersStaySubscribed == ASSUME UsedAsInExamples PROVE Spec => []HandlersSubscribed
<1>1. SubscriptionInv => HandlersSubscribed
  <2>1. SUFFICES ASSUME SubscriptionInv, stack = <<>>, Live, NEW t \in Registered PROVE t \in brokerSubs
    BY DEF HandlersSubscribed, Live
  <2>2. PICK s \in Slots : handlers[s] = t /\ t # NoTopic
    BY DEF Registered
  <2>3. Excused /\ Len(stack) = 0
    BY <2>1 DEF SubscriptionInv, HandledInv, SubscribedInv
  <2> QED
    BY <2>1, <2>2, <2>3 DEF Excused, Unsubscribed
<1>2. TypeInv /\ SessionInv /\ SubscriptionInv /\ [Next]_vars => SubscriptionInv'
  BY SubscriptionStep
<1> QED
  BY <1>1, <1>2, SubscriptionInit, TypeInvariant, SessionInvariant, PTL DEF Spec
=============================================================================
