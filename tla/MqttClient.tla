------------------------------ MODULE MqttClient ------------------------------
(***************************************************************************)
(* The MQTT client of src/mqtt/tc_iot_mqtt.c: connection state, automatic  *)
(* reconnection with back-off, keep-alive, the handler table and the three *)
(* blocking requests (subscribe, unsubscribe, publish).                    *)
(*                                                                         *)
(* The client has one thread.  What makes it hard is that its calls nest:  *)
(* a request waits for its acknowledgement by running the receive cycle,   *)
(* the cycle delivers messages to callbacks, a callback may issue another  *)
(* request, and a request that fails reconnects, which resubscribes, which *)
(* are again requests.  `stack' is that call stack, innermost call first;  *)
(* one action is the code from one network operation to the next, and      *)
(* `ret' is what the call that returned last gave its caller.              *)
(*                                                                         *)
(* The network and the broker are external.  The broker answers a packet   *)
(* at once on a link that is up; a late answer is a read that finds        *)
(* nothing although `inbound' holds one.  Everything that goes wrong       *)
(* outside the client costs one unit of `faults'.                          *)
(***************************************************************************)
EXTENDS Integers, Sequences

CONSTANTS
  Topics,         \* topic filters the application uses
  NoTopic,        \* an empty slot of the handler table
  NumHandlers,    \* TC_IOT_MAX_MESSAGE_HANDLERS
  AutoReconnect,  \* values of the auto_reconnect option
  CleanSession,   \* config: clean_session
  MinWait,        \* TC_IOT_MIN_RECONNECT_WAIT_INTERVAL
  MaxWait,        \* TC_IOT_MAX_RECONNECT_WAIT_INTERVAL
  AppCalls,       \* what the application calls from its main loop
  CallbackCalls,  \* what it calls from inside a message callback
  PublishQos,     \* QoS levels it publishes with
  DeliverQos,     \* QoS levels the broker delivers with
  MaxFaults,      \* bound: things that go wrong outside the client
  MaxInbound,     \* bound: broker pushes no message beyond this backlog
  MaxNest         \* bound: callbacks that may issue calls, one in another

CallNames == {"connect", "yield", "subscribe", "unsubscribe", "publish", "disconnect",
              "set_auto_reconnect", "destroy"}

ASSUME TopicAssumption == NoTopic \notin Topics
ASSUME HandlersAssumption == NumHandlers \in Nat \ {0}
ASSUME ConfigAssumption == AutoReconnect \subseteq BOOLEAN /\ CleanSession \in BOOLEAN
ASSUME WaitAssumption == MinWait \in Nat \ {0} /\ MaxWait \in Nat /\ MinWait <= MaxWait
ASSUME CallsAssumption == AppCalls \subseteq CallNames /\ CallbackCalls \subseteq CallNames
ASSUME QosAssumption == PublishQos \subseteq 0..2 /\ DeliverQos \subseteq 0..2
ASSUME BoundAssumption == MaxFaults \in Nat /\ MaxInbound \in Nat /\ MaxNest \in Nat

VARIABLES
  state,        \* c->state
  ping,         \* c->ping_outstanding
  wait,         \* c->reconnect_timeout_ms
  timers,       \* timers that are running, i.e. started and not yet expired
  auto,         \* c->auto_reconnect
  handlers,     \* c->message_handlers[i].topicFilter
  ready,        \* tc_iot_mqtt_client_construct has succeeded
  stack,        \* the client's call stack, innermost call first
  ret,          \* what the call that returned last gave its caller
  link,         \* the socket: not open, working, half-open, reset or closed by the peer
  inbound,      \* packets received by the host and not yet read
  brokerUp,     \* the broker holds an MQTT session on this socket
  brokerSubs,   \* the broker's subscriptions for this client
  faults        \* things that may still go wrong outside the client

client == <<state, ping, wait, timers, auto, handlers, ready>>
calls  == <<stack, ret>>
net    == <<link, inbound, brokerUp, brokerSubs>>
vars   == <<client, calls, net, faults>>

Slots == 1..NumHandlers
States == {"INVALID", "INITIALIZED", "NETWORK_READY", "CONNECTED"}
Timers == {"sent", "recv", "ping", "reconnect"}
Links  == {"none", "up", "silent", "dead"}

Publishes == {"PUBLISH0", "PUBLISH1", "PUBLISH2"}
Publish(qos) == <<"PUBLISH0", "PUBLISH1", "PUBLISH2">>[qos + 1]
ConnAcks  == {"CONNACK", "CONNACK_FAIL"}
Packets == Publishes \cup ConnAcks \cup
  {"SUBACK", "SUBACK_FAIL", "UNSUBACK", "PUBACK", "PUBREC", "PUBREL", "PUBCOMP", "PINGRESP"}

\* What a call returns.  "IDLE" is cycle()'s 0 after a read that found nothing
\* until its timer ran out, "ERR" any negative result of cycle().
Results == Packets \cup
  {"NONE", "SUCCESS", "IDLE", "ERR", "FAILURE", "SEND_FAILED", "WAIT_TIMEOUT", "REFUSED",
   "CONNECT_FAILED", "IN_PROGRESS", "UNAVAILABLE", "SUBACK_FAILED"}

Requests == {"subscribe", "unsubscribe", "publish"}
Records == [fn : CallNames \cup {"reconnect", "cycle", "callback"},
            pc : {"begin", "open", "check", "send", "wait", "exit", "opened", "resub",
                  "loop", "again", "cycled", "keepalive", "run", "done"},
            topic : Topics \cup {NoTopic},
            n : Nat,
            rc : Results]
\* topic is the filter of a (un)subscribe, n the QoS of a publish and the slot
\* that _handle_reconnect has reached.
Frames == {f \in Records : /\ f.fn \in {"subscribe", "unsubscribe"} => f.topic \in Topics
                           /\ f.fn = "publish" => f.n \in 0..2}

\* The type of every variable.
TypeOK ==
  /\ state \in States /\ ping \in BOOLEAN /\ wait \in Nat /\ auto \in BOOLEAN /\ ready \in BOOLEAN
  /\ timers \subseteq Timers
  /\ handlers \in [Slots -> Topics \cup {NoTopic}]
  /\ stack \in Seq(Frames) /\ ret \in Results
  /\ link \in Links /\ inbound \in Seq(Packets) /\ brokerUp \in BOOLEAN
  /\ brokerSubs \subseteq Topics
  /\ faults \in 0..MaxFaults

-----------------------------------------------------------------------------
(* The call stack.                                                         *)

Frame(fn, pc, topic, n, rc) == [fn |-> fn, pc |-> pc, topic |-> topic, n |-> n, rc |-> rc]
Connect        == Frame("connect", "send", NoTopic, 0, "NONE")
Reconnect      == Frame("connect", "open", NoTopic, 0, "NONE")
HandleReconnect == Frame("reconnect", "begin", NoTopic, 0, "NONE")
Yield          == Frame("yield", "loop", NoTopic, 0, "NONE")
Subscribe(t)   == Frame("subscribe", "check", t, 0, "NONE")
Unsubscribe(t) == Frame("unsubscribe", "check", t, 0, "NONE")
PublishAt(qos) == Frame("publish", "check", NoTopic, qos, "NONE")
Cycle(rc)      == Frame("cycle", "keepalive", NoTopic, 0, rc)
Callback       == Frame("callback", "run", NoTopic, 0, "NONE")

Top == Head(stack)
At(fn, pc) == stack # <<>> /\ Top.fn = fn /\ Top.pc = pc
AtRequest(pc) == stack # <<>> /\ Top.fn \in Requests /\ Top.pc = pc

Return(rc) == stack' = Tail(stack) /\ ret' = rc
Continue(frame, rc) == stack' = <<frame>> \o Tail(stack) /\ ret' = rc
Call(frame, callee) == stack' = <<callee, frame>> \o Tail(stack) /\ ret' = "NONE"

-----------------------------------------------------------------------------
(* The socket and the broker (external).                                   *)

Fault == faults > 0 /\ faults' = faults - 1
NoFault == faults' = faults
UnderWay(packets) == \E i \in 1..Len(inbound) : inbound[i] \in packets

Replies == [SUBSCRIBE |-> <<"SUBACK">>, UNSUBSCRIBE |-> <<"UNSUBACK">>,
            PUBLISH0 |-> <<>>, PUBLISH1 |-> <<"PUBACK">>, PUBLISH2 |-> <<"PUBREC">>,
            PUBREC |-> <<"PUBREL">>, PUBREL |-> <<"PUBCOMP">>, PUBACK |-> <<>>,
            PUBCOMP |-> <<>>, PINGREQ |-> <<"PINGRESP">>]

SubsAfter(packet, t) ==
  CASE packet = "SUBSCRIBE"   -> brokerSubs \cup {t}
    [] packet = "UNSUBSCRIBE" -> brokerSubs \ {t}
    [] OTHER                  -> brokerSubs

\* The broker accepts a CONNECT; a new clean session starts with no subscription.
BrokerAccepts(packet, backlog) ==
  /\ packet = "CONNECT" /\ ~brokerUp
  /\ inbound' = Append(backlog, "CONNACK") /\ brokerUp' = TRUE
  /\ brokerSubs' = IF CleanSession THEN {} ELSE brokerSubs
  /\ NoFault /\ UNCHANGED link

\* It refuses one (say, for a password that has expired), and closes the socket.
BrokerRefusesConnect(packet, backlog) ==
  /\ packet = "CONNECT" /\ ~brokerUp
  /\ inbound' = Append(backlog, "CONNACK_FAIL") /\ link' = "dead"
  /\ Fault /\ UNCHANGED <<brokerUp, brokerSubs>>

\* A second CONNECT on one socket, or any other packet before the first one,
\* breaks the protocol: the broker closes the socket.
BrokerHangsUp(packet, backlog) ==
  /\ (packet = "CONNECT") = brokerUp
  /\ inbound' = backlog /\ link' = "dead" /\ brokerUp' = FALSE
  /\ NoFault /\ UNCHANGED brokerSubs

BrokerAnswers(packet, t, backlog) ==
  /\ packet # "CONNECT" /\ brokerUp
  /\ inbound' = backlog \o Replies[packet] /\ brokerSubs' = SubsAfter(packet, t)
  /\ NoFault /\ UNCHANGED <<link, brokerUp>>

BrokerRefusesTopic(packet, backlog) ==
  /\ packet = "SUBSCRIBE" /\ brokerUp
  /\ inbound' = Append(backlog, "SUBACK_FAIL")
  /\ Fault /\ UNCHANGED <<link, brokerUp, brokerSubs>>

\* do_write accepts the whole packet.  `backlog' is what is left to read.
Written(packet, t, backlog) ==
  \/ /\ link = "up"
     /\ \/ BrokerAccepts(packet, backlog)
        \/ BrokerRefusesConnect(packet, backlog)
        \/ BrokerHangsUp(packet, backlog)
        \/ BrokerAnswers(packet, t, backlog)
        \/ BrokerRefusesTopic(packet, backlog)
  \/ /\ link \in {"silent", "dead"}
     /\ inbound' = backlog /\ NoFault /\ UNCHANGED <<link, brokerUp, brokerSubs>>

\* do_write fails: the descriptor is closed, or the peer has closed or reset it.
WriteFails(backlog) ==
  /\ link \in {"none", "dead"}
  /\ inbound' = backlog /\ NoFault /\ UNCHANGED <<link, brokerUp, brokerSubs>>

-----------------------------------------------------------------------------
(* tc_iot_mqtt_disconnect: a no-op unless CONNECTED.  `running' are the    *)
(* timers before its DISCONNECT packet refreshes last_sent, `backlog' is   *)
(* what its caller has left to read.                                       *)

Disconnect(running, backlog) ==
  IF state = "CONNECTED"
  THEN /\ state' = "INITIALIZED"
       /\ link' = "none" /\ inbound' = <<>> /\ brokerUp' = FALSE
       /\ \/ link # "none" /\ timers' = running \cup {"sent"}
          \/ link \in {"none", "dead"} /\ timers' = running
       /\ UNCHANGED brokerSubs
  ELSE /\ timers' = running /\ inbound' = backlog
       /\ UNCHANGED <<state, link, brokerUp, brokerSubs>>

\* cycle() leaves with an error: disconnect, then _close_session.
CycleFails(running, backlog) == Disconnect(running, backlog) /\ ping' = FALSE

\* Mutant: tc_iot_mqtt_disconnect without its _close_session.
DropSessionKeepsPing == Disconnect(timers, inbound) /\ ping' = ping

\* The other callers of tc_iot_mqtt_disconnect: the ping is forgotten with the session.
DropSession == Disconnect(timers, inbound) /\ ping' = (ping /\ state # "CONNECTED")

-----------------------------------------------------------------------------
(* tc_iot_mqtt_set_message_handler.                                        *)

Registered == {handlers[i] : i \in Slots} \ {NoTopic}
FirstSlot(table, t) ==
  CHOOSE i \in Slots : table[i] = t /\ \A j \in 1..(i - 1) : table[j] # t

\* Mutant: without `if (i < TC_IOT_MAX_MESSAGE_HANDLERS)' after the search for a slot.
InstalledUnchecked(table, t) ==
  LET held == {table[i] : i \in Slots} IN
  IF t \in held THEN table
  ELSE IF NoTopic \notin held
  THEN [i \in 1..(NumHandlers + 1) |-> IF i \in Slots THEN table[i] ELSE t]
  ELSE [table EXCEPT ![FirstSlot(table, NoTopic)] = t]

Installed(table, t) ==
  LET held == {table[i] : i \in Slots} IN
  IF t \in held \/ NoTopic \notin held THEN table
  ELSE [table EXCEPT ![FirstSlot(table, NoTopic)] = t]

Removed(table, t) ==
  IF \E i \in Slots : table[i] = t THEN [table EXCEPT ![FirstSlot(table, t)] = NoTopic]
  ELSE table

-----------------------------------------------------------------------------
(* The receive cycle.  Every waitfor() loop and tc_iot_mqtt_yield run it;  *)
(* `Resumed' is the caller's frame once the cycle has returned.            *)

\* The acknowledgements waitfor() stops at.  Only the packet type is compared.
Acks(f) ==
  CASE f.fn = "connect"     -> ConnAcks
    [] f.fn = "subscribe"   -> {"SUBACK", "SUBACK_FAIL"}
    [] f.fn = "unsubscribe" -> {"UNSUBACK"}
    [] f.fn = "publish"     -> IF f.n = 1 THEN {"PUBACK"} ELSE {"PUBCOMP"}
    [] OTHER                -> {}

Waiting == AtRequest("wait") \/ At("connect", "wait")
Acked == Waiting /\ ret \in Acks(Top)
\* Mutant: waitfor() loops on although the cycle failed.
GaveUpIgnoresErrors == Waiting /\ ret = "IDLE"
GaveUp == Waiting /\ ret \in {"ERR", "IDLE"}

Cycling ==
  \/ Waiting /\ ~Acked /\ ~GaveUp
  \/ At("yield", "loop") /\ (state = "CONNECTED" \/ ~auto)
Resumed == IF Top.fn = "yield" THEN [Top EXCEPT !.pc = "cycled"] ELSE Top

\* Nothing arrives before the timer runs out.  An answer that is under way and
\* comes too late is a fault.
ReadNothing ==
  /\ Cycling /\ link \in {"up", "silent"}
  /\ \/ inbound = <<>> /\ NoFault
     \/ inbound # <<>> /\ Fault
  /\ Call(Resumed, Cycle("IDLE"))
  /\ UNCHANGED <<client, net>>

ReadError ==
  /\ Cycling /\ link \in {"none", "dead"} /\ inbound = <<>>
  /\ CycleFails(timers, inbound)
  /\ Continue(Resumed, "ERR")
  /\ UNCHANGED <<wait, auto, handlers, ready, faults>>

Reading(packets) == Cycling /\ link # "none" /\ inbound # <<>> /\ Head(inbound) \in packets

ReadAck ==
  /\ Reading(Packets \ (Publishes \cup {"PUBREC", "PUBREL"}))
  /\ ping' = (ping /\ Head(inbound) # "PINGRESP")
  /\ timers' = timers \cup {"recv"}
  /\ inbound' = Tail(inbound)
  /\ Call(Resumed, Cycle(Head(inbound)))
  /\ UNCHANGED <<state, wait, auto, handlers, ready, link, brokerUp, brokerSubs, faults>>

\* deliverMessage runs the callback before the cycle goes on to keepalive().
Deliver(rc) == stack' = <<Callback, Cycle(rc), Resumed>> \o Tail(stack) /\ ret' = "NONE"

ReadPublish ==
  /\ Reading(Publishes)
  /\ LET packet == Head(inbound)
         backlog == Tail(inbound)
         reply == IF packet = "PUBLISH1" THEN "PUBACK" ELSE "PUBREC" IN
     \/ /\ packet = "PUBLISH0"
        /\ inbound' = backlog /\ timers' = timers \cup {"recv"}
        /\ Deliver(packet)
        /\ UNCHANGED <<link, brokerUp, brokerSubs, faults>>
     \/ /\ packet # "PUBLISH0" /\ Written(reply, NoTopic, backlog)
        /\ timers' = timers \cup {"recv", "sent"}
        /\ Deliver(packet)
     \/ /\ packet # "PUBLISH0" /\ WriteFails(backlog)
        /\ timers' = timers \cup {"recv"}
        /\ Deliver("SEND_FAILED")
  /\ UNCHANGED <<state, ping, wait, auto, handlers, ready>>

\* The second half of a QoS 2 exchange, outgoing (PUBREC) or incoming (PUBREL).
ReadRelease ==
  /\ Reading({"PUBREC", "PUBREL"})
  /\ LET packet == Head(inbound)
         reply == IF packet = "PUBREC" THEN "PUBREL" ELSE "PUBCOMP" IN
     /\ Written(reply, NoTopic, Tail(inbound))
     /\ timers' = timers \cup {"recv", "sent"}
     /\ Call(Resumed, Cycle(packet))
  /\ UNCHANGED <<state, ping, wait, auto, handlers, ready>>

ReadReleaseFails ==
  /\ Reading({"PUBREC", "PUBREL"}) /\ link = "dead"
  /\ CycleFails(timers \cup {"recv"}, Tail(inbound))
  /\ Continue(Resumed, "ERR")
  /\ UNCHANGED <<wait, auto, handlers, ready, faults>>

-----------------------------------------------------------------------------
(* keepalive(), the last thing cycle() does.                               *)

\* Mutant: || read as && between the two expired timers.
PingDueWhenBothExpire == {"ping", "sent", "recv"} \cap timers = {}
PingDue == "ping" \notin timers /\ ~({"sent", "recv"} \subseteq timers)

KeepaliveNotDue ==
  /\ At("cycle", "keepalive") /\ ~PingDue /\ Top.rc # "SEND_FAILED"
  /\ Return(Top.rc)
  /\ UNCHANGED <<client, net, faults>>

KeepalivePing ==
  /\ At("cycle", "keepalive") /\ PingDue /\ ~ping /\ Top.rc # "SEND_FAILED"
  /\ Written("PINGREQ", NoTopic, inbound)
  /\ ping' = TRUE /\ timers' = timers \cup {"ping", "sent"}
  /\ Return(Top.rc)
  /\ UNCHANGED <<state, wait, auto, handlers, ready>>

\* The ping is sent although the cycle then fails for the message it could not
\* acknowledge: what is left of it once the callback has dropped that connection
\* and opened a socket without a session.
KeepalivePingWasted ==
  /\ At("cycle", "keepalive") /\ PingDue /\ ~ping /\ Top.rc = "SEND_FAILED"
  /\ state # "CONNECTED"
  /\ Written("PINGREQ", NoTopic, inbound)
  /\ ping' = FALSE /\ timers' = timers \cup {"ping", "sent"}
  /\ Return("ERR")
  /\ UNCHANGED <<state, wait, auto, handlers, ready>>

\* The last ping is unanswered, the new one cannot be sent, or the message just
\* delivered could not be acknowledged.  A ping attempt restarts ping_timer.
KeepaliveFails ==
  /\ At("cycle", "keepalive")
  /\ \/ PingDue /\ ping
     \/ PingDue /\ link \in {"none", "dead"}
     \/ Top.rc = "SEND_FAILED" /\ (PingDue => state = "CONNECTED")
  /\ CycleFails(IF PingDue /\ ~ping THEN timers \cup {"ping"} ELSE timers, inbound)
  /\ Return("ERR")
  /\ UNCHANGED <<wait, auto, handlers, ready, faults>>

-----------------------------------------------------------------------------
(* tc_iot_mqtt_reconnect and tc_iot_mqtt_connect_with_results.             *)

ReconnectConnected ==
  /\ At("connect", "open") /\ state = "CONNECTED"
  /\ Return("SUCCESS")
  /\ UNCHANGED <<client, net, faults>>

\* Mutant: the state is not looked at before the socket is reused.
ReconnectReuseUnchecked ==
  /\ At("connect", "open") /\ state # "CONNECTED"
  /\ Continue(Connect, "NONE")
  /\ UNCHANGED <<client, net, faults>>

\* NETWORK_READY: the socket of the last attempt is taken to be usable.
ReconnectReuse ==
  /\ At("connect", "open") /\ state = "NETWORK_READY"
  /\ Continue(Connect, "NONE")
  /\ UNCHANGED <<client, net, faults>>

ReconnectOpen ==
  /\ At("connect", "open") /\ state = "INITIALIZED"
  /\ state' = "NETWORK_READY" /\ link' = "up" /\ inbound' = <<>> /\ brokerUp' = FALSE
  /\ Continue(Connect, "NONE")
  /\ UNCHANGED <<ping, wait, timers, auto, handlers, ready, brokerSubs, faults>>

\* Mutant: NETWORK_READY whatever do_connect returned.
ReconnectOpenFailsReady ==
  /\ At("connect", "open") /\ state = "INITIALIZED" /\ Fault
  /\ state' = "NETWORK_READY"
  /\ Return("CONNECT_FAILED")
  /\ UNCHANGED <<ping, wait, timers, auto, handlers, ready, net>>

ReconnectOpenFails ==
  /\ At("connect", "open") /\ state = "INITIALIZED" /\ Fault
  /\ Return("CONNECT_FAILED")
  /\ UNCHANGED <<client, net>>

ConnectAlready ==
  /\ At("connect", "send") /\ state = "CONNECTED"
  /\ Return("SUCCESS")
  /\ UNCHANGED <<client, net, faults>>

ConnectSend ==
  /\ At("connect", "send") /\ state # "CONNECTED"
  /\ Written("CONNECT", NoTopic, inbound)
  /\ timers' = timers \cup {"recv", "sent"}
  /\ Continue([Top EXCEPT !.pc = "wait"], "NONE")
  /\ UNCHANGED <<state, ping, wait, auto, handlers, ready>>

\* The disconnect that follows is a no-op: the client is not CONNECTED.
ConnectSendFails ==
  /\ At("connect", "send") /\ state # "CONNECTED"
  /\ WriteFails(inbound)
  /\ timers' = timers \cup {"recv"}
  /\ Return("SEND_FAILED")
  /\ UNCHANGED <<state, ping, wait, auto, handlers, ready>>

ConnectAcked ==
  /\ At("connect", "wait") /\ ret = "CONNACK"
  /\ state' = "CONNECTED" /\ ping' = FALSE /\ ready' = TRUE
  /\ Return("SUCCESS")
  /\ UNCHANGED <<wait, timers, auto, handlers, net, faults>>

ConnectRefused ==
  /\ At("connect", "wait") /\ ret = "CONNACK_FAIL"
  /\ Return("REFUSED")
  /\ UNCHANGED <<client, net, faults>>

\* waitfor() ends with the acknowledgement not seen: the cycle failed, read
\* nothing until the timer ran out, or read something else for too long (a fault
\* when the acknowledgement is under way).
TimedOut ==
  \/ GaveUp /\ NoFault
  \/ /\ Waiting /\ ~Acked /\ ret \notin {"ERR", "IDLE", "NONE"}
     /\ IF UnderWay(Acks(Top)) THEN Fault ELSE NoFault

ConnectTimesOut ==
  /\ At("connect", "wait") /\ TimedOut
  /\ DropSession
  /\ Return("WAIT_TIMEOUT")
  /\ UNCHANGED <<wait, auto, handlers, ready>>

-----------------------------------------------------------------------------
(* _handle_reconnect.                                                      *)

HandleReconnectSkips ==
  /\ At("reconnect", "begin")
  /\ \/ "reconnect" \in timers /\ Return("IN_PROGRESS")
     \/ "reconnect" \notin timers /\ ~auto /\ Return("UNAVAILABLE")
  /\ UNCHANGED <<client, net, faults>>

HandleReconnectTries ==
  /\ At("reconnect", "begin") /\ "reconnect" \notin timers /\ auto
  /\ Call([Top EXCEPT !.pc = "opened"], Reconnect)
  /\ UNCHANGED <<client, net, faults>>

\* Mutant: the doubled wait is not capped.
NextWaitUncapped == IF wait = 0 THEN MinWait ELSE 2 * wait
NextWait == IF wait = 0 THEN MinWait
            ELSE IF 2 * wait > MaxWait THEN MaxWait ELSE 2 * wait

HandleReconnectBacksOff ==
  /\ At("reconnect", "opened") /\ ret # "SUCCESS"
  /\ wait' = NextWait /\ timers' = timers \cup {"reconnect"}
  /\ Return("IN_PROGRESS")
  /\ UNCHANGED <<state, ping, auto, handlers, ready, net, faults>>

Resubscribing ==
  \/ At("reconnect", "opened") /\ ret = "SUCCESS"
  \/ At("reconnect", "resub")
\* Mutant: the loop over the handler table starts one slot late.
SlotsAheadLate == {i \in Slots : CleanSession /\ i > Top.n + 1 /\ handlers[i] # NoTopic}
\* Slots the loop has not reached and that hold a handler when it gets there.
SlotsAhead == {i \in Slots : CleanSession /\ i > Top.n /\ handlers[i] # NoTopic}

HandleReconnectResubscribes ==
  /\ Resubscribing
  /\ \E i \in SlotsAhead :
       /\ \A j \in SlotsAhead : i <= j
       /\ Call([Top EXCEPT !.pc = "resub", !.n = i], Subscribe(handlers[i]))
  /\ UNCHANGED <<client, net, faults>>

\* Whatever became of the subscriptions, the back-off is reset.
HandleReconnectFinishes ==
  /\ Resubscribing /\ SlotsAhead = {}
  /\ wait' = 0 /\ timers' = timers \ {"reconnect"}
  /\ Return("SUCCESS")
  /\ UNCHANGED <<state, ping, auto, handlers, ready, net, faults>>

-----------------------------------------------------------------------------
(* subscribe, unsubscribe and publish.                                     *)

RequestPacket(f) ==
  CASE f.fn = "subscribe"   -> "SUBSCRIBE"
    [] f.fn = "unsubscribe" -> "UNSUBSCRIBE"
    [] OTHER                -> Publish(f.n)

\* _check_connection.
RequestConnected ==
  /\ AtRequest("check") /\ state = "CONNECTED"
  /\ Continue([Top EXCEPT !.pc = "send"], "SUCCESS")
  /\ UNCHANGED <<client, net, faults>>

RequestReconnects ==
  /\ AtRequest("check") /\ state # "CONNECTED" /\ auto
  /\ Call([Top EXCEPT !.pc = "send"], HandleReconnect)
  /\ UNCHANGED <<client, net, faults>>

RequestUnavailable ==
  /\ AtRequest("check") /\ state # "CONNECTED" /\ ~auto
  /\ Return("UNAVAILABLE")
  /\ UNCHANGED <<client, net, faults>>

RequestNotConnected ==
  /\ AtRequest("send") /\ ret # "SUCCESS"
  /\ Return(ret)
  /\ UNCHANGED <<client, net, faults>>

\* The message does not fit the send buffer: rc still holds the success of
\* _check_connection, and that is what the caller gets.
PublishTooLarge ==
  /\ At("publish", "send") /\ ret = "SUCCESS"
  /\ Return("SUCCESS")
  /\ UNCHANGED <<client, net, faults>>

RequestSend ==
  /\ AtRequest("send") /\ ret = "SUCCESS"
  /\ Written(RequestPacket(Top), Top.topic, inbound)
  /\ timers' = timers \cup {"sent"}
  /\ handlers' = IF Top.fn = "subscribe" THEN Installed(handlers, Top.topic) ELSE handlers
  /\ IF Top.fn = "publish" /\ Top.n = 0
     THEN Return("SUCCESS")
     ELSE Continue([Top EXCEPT !.pc = "wait"], "NONE")
  /\ UNCHANGED <<state, ping, wait, auto, ready>>

\* What a request does about a failed send or a missing acknowledgement:
\* disconnect, one attempt to reconnect, and the error to the caller.
GiveUp(rc) ==
  /\ DropSession
  /\ Call([Top EXCEPT !.pc = "exit", !.rc = rc], HandleReconnect)
  /\ UNCHANGED <<wait, auto, ready>>

RequestSendFails ==
  /\ AtRequest("send") /\ ret = "SUCCESS" /\ link \in {"none", "dead"}
  /\ GiveUp("SEND_FAILED")
  /\ UNCHANGED <<auto, handlers, faults>>

SubscribeRefused ==
  /\ At("subscribe", "wait") /\ ret = "SUBACK_FAIL"
  /\ handlers' = Removed(handlers, Top.topic)
  /\ Return("SUBACK_FAILED")
  /\ UNCHANGED <<state, ping, wait, timers, auto, ready, net, faults>>

RequestAcked ==
  /\ AtRequest("wait") /\ Acked /\ ret # "SUBACK_FAIL"
  /\ handlers' = IF Top.fn = "unsubscribe" THEN Removed(handlers, Top.topic) ELSE handlers
  /\ Return("SUCCESS")
  /\ UNCHANGED <<state, ping, wait, timers, auto, ready, net, faults>>

RequestTimesOut ==
  /\ AtRequest("wait") /\ TimedOut
  /\ handlers' = IF Top.fn = "subscribe" THEN Removed(handlers, Top.topic) ELSE handlers
  /\ GiveUp("WAIT_TIMEOUT")

RequestExits ==
  /\ AtRequest("exit")
  /\ Return(Top.rc)
  /\ UNCHANGED <<client, net, faults>>

-----------------------------------------------------------------------------
(* tc_iot_mqtt_yield: its cycles are Cycling steps.                        *)

YieldReconnects ==
  /\ At("yield", "loop") /\ state # "CONNECTED" /\ auto
  /\ Call([Top EXCEPT !.pc = "again"], HandleReconnect)
  /\ UNCHANGED <<client, net, faults>>

\* Its timer has not expired and the last round did not fail.
YieldLoops ==
  /\ \/ At("yield", "again") /\ ret = "SUCCESS"
     \/ At("yield", "cycled") /\ ret \notin {"ERR", "IDLE"}
  /\ Continue(Yield, "NONE")
  /\ UNCHANGED <<client, net, faults>>

YieldReturns ==
  /\ \/ At("yield", "again") /\ Return(ret)
     \/ At("yield", "cycled") /\ Return(IF ret = "ERR" THEN "FAILURE" ELSE "SUCCESS")
  /\ UNCHANGED <<client, net, faults>>

-----------------------------------------------------------------------------
(* The application.                                                        *)

RequestFrames(allowed) ==
  (IF "subscribe" \in allowed THEN {Subscribe(t) : t \in Topics} ELSE {}) \cup
  (IF "unsubscribe" \in allowed THEN {Unsubscribe(t) : t \in Topics} ELSE {}) \cup
  (IF "publish" \in allowed THEN {PublishAt(qos) : qos \in PublishQos} ELSE {})

\* tc_iot_mqtt_client_construct, again from scratch until it succeeds.
Construct ==
  /\ stack = <<>> /\ ~ready
  /\ ping' = FALSE /\ wait' = 0 /\ timers' = {} /\ auto' \in AutoReconnect
  /\ handlers' = [i \in Slots |-> NoTopic]
  /\ inbound' = <<>> /\ brokerUp' = FALSE
  /\ \/ /\ state' = "NETWORK_READY" /\ link' = "up"
        /\ stack' = <<Connect>> /\ ret' = "NONE" /\ NoFault
     \/ /\ state' = "INITIALIZED" /\ link' = "none"
        /\ stack' = <<>> /\ ret' = "CONNECT_FAILED" /\ Fault
  /\ UNCHANGED <<ready, brokerSubs>>

AppYields ==
  /\ stack = <<>> /\ ready
  /\ stack' = <<Yield>> /\ ret' = "NONE"
  /\ UNCHANGED <<client, net, faults>>

AppConnects ==
  /\ stack = <<>> /\ ready /\ "connect" \in AppCalls
  /\ \E f \in {Connect, Reconnect} : stack' = <<f>> /\ ret' = "NONE"
  /\ UNCHANGED <<client, net, faults>>

AppRequests ==
  /\ stack = <<>> /\ ready
  /\ \E f \in RequestFrames(AppCalls) : stack' = <<f>> /\ ret' = "NONE"
  /\ UNCHANGED <<client, net, faults>>

AppDisconnects ==
  /\ stack = <<>> /\ ready /\ "disconnect" \in AppCalls
  /\ DropSession
  /\ stack' = <<>> /\ ret' = "SUCCESS"
  /\ UNCHANGED <<wait, auto, handlers, ready, faults>>

AppSetsAutoReconnect ==
  /\ stack = <<>> /\ ready /\ "set_auto_reconnect" \in AppCalls
  /\ auto' \in AutoReconnect
  /\ UNCHANGED <<state, ping, wait, timers, handlers, ready, calls, net, faults>>

\* tc_iot_mqtt_destroy empties the handler table; the socket stays open.
AppDestroys ==
  /\ stack = <<>> /\ ready /\ "destroy" \in AppCalls
  /\ handlers' = IF CleanSession THEN [i \in Slots |-> NoTopic] ELSE handlers
  /\ ready' = FALSE
  /\ UNCHANGED <<state, ping, wait, timers, auto, calls, net, faults>>

\* A message callback, the default handler included.
CallbackRequests ==
  /\ At("callback", "run")
  /\ Len(SelectSeq(stack, LAMBDA f : f.fn = "callback")) <= MaxNest
  /\ \E f \in RequestFrames(CallbackCalls) : Call([Top EXCEPT !.pc = "done"], f)
  /\ UNCHANGED <<client, net, faults>>

CallbackReturns ==
  /\ stack # <<>> /\ Top.fn = "callback"
  /\ Return("NONE")
  /\ UNCHANGED <<client, net, faults>>

-----------------------------------------------------------------------------
(* Time, the network and the broker (external).                            *)

\* A timer runs out.  That the answer to a ping takes that long is a fault.
Tick(t) ==
  /\ t \in timers /\ timers' = timers \ {t}
  /\ IF t = "ping" /\ UnderWay({"PINGRESP"}) THEN Fault ELSE NoFault
  /\ UNCHANGED <<state, ping, wait, auto, handlers, ready, calls, net>>

\* Packets still under way may be lost with the connection.
Loses == inbound' \in {inbound, <<>>}

\* The peer, or the way to it, is gone and nothing tells the client.
LinkSilent ==
  /\ link = "up" /\ Fault
  /\ link' = "silent" /\ brokerUp' = FALSE /\ Loses
  /\ UNCHANGED <<client, calls, brokerSubs>>

\* The socket is reset, or closed by the peer.
LinkDies ==
  /\ \/ link = "up" /\ Fault
     \/ link = "silent" /\ NoFault
  /\ link' = "dead" /\ brokerUp' = FALSE /\ Loses
  /\ UNCHANGED <<client, calls, brokerSubs>>

BrokerPublish ==
  /\ link = "up" /\ brokerUp /\ brokerSubs # {} /\ Len(inbound) < MaxInbound
  /\ \E qos \in DeliverQos : inbound' = Append(inbound, Publish(qos))
  /\ UNCHANGED <<client, calls, link, brokerUp, brokerSubs, faults>>

-----------------------------------------------------------------------------
Init ==
  /\ state = "INVALID" /\ ping = FALSE /\ wait = 0 /\ timers = {} /\ ready = FALSE
  /\ auto \in AutoReconnect /\ handlers = [i \in Slots |-> NoTopic]
  /\ stack = <<>> /\ ret = "NONE"
  /\ link = "none" /\ inbound = <<>> /\ brokerUp = FALSE /\ brokerSubs = {}
  /\ faults = MaxFaults

CycleStep ==
  \/ ReadNothing \/ ReadError \/ ReadAck \/ ReadPublish \/ ReadRelease \/ ReadReleaseFails
  \/ KeepaliveNotDue \/ KeepalivePing \/ KeepalivePingWasted \/ KeepaliveFails

ConnectStep ==
  \/ ReconnectConnected \/ ReconnectReuse \/ ReconnectOpen \/ ReconnectOpenFails
  \/ ConnectAlready \/ ConnectSend \/ ConnectSendFails
  \/ ConnectAcked \/ ConnectRefused \/ ConnectTimesOut
  \/ HandleReconnectSkips \/ HandleReconnectTries \/ HandleReconnectBacksOff
  \/ HandleReconnectResubscribes \/ HandleReconnectFinishes

RequestStep ==
  \/ RequestConnected \/ RequestReconnects \/ RequestUnavailable \/ RequestNotConnected
  \/ PublishTooLarge \/ RequestSend \/ RequestSendFails
  \/ SubscribeRefused \/ RequestAcked \/ RequestTimesOut \/ RequestExits
  \/ YieldReconnects \/ YieldLoops \/ YieldReturns
  \/ CallbackRequests \/ CallbackReturns

AppStep == Construct \/ AppYields \/ AppConnects \/ AppRequests \/ AppDisconnects
           \/ AppSetsAutoReconnect \/ AppDestroys

EnvStep == (\E t \in Timers : Tick(t)) \/ LinkSilent \/ LinkDies \/ BrokerPublish

Next == CycleStep \/ ConnectStep \/ RequestStep \/ AppStep \/ EnvStep

Spec == Init /\ [][Next]_vars

\* A call that has begun goes on, every timer runs out, and so does the time of
\* a loop that keeps reading.  The application constructs the client and comes
\* back to tc_iot_mqtt_yield, as the main loop of every example does; what it
\* calls besides is its own choice.
Fairness ==
  /\ WF_vars(CycleStep \/ ConnectStep \/ RequestStep)
  /\ SF_vars(YieldReturns) /\ SF_vars(RequestTimesOut) /\ SF_vars(ConnectTimesOut)
  /\ \A t \in Timers : WF_vars(Tick(t))
  /\ WF_vars(Construct) /\ SF_vars(AppYields)

FairSpec == Spec /\ Fairness
-----------------------------------------------------------------------------
(* Properties.                                                             *)

\* The state says whether a socket is open: a reconnection never runs do_connect
\* while one is (it would leak), and nothing but a socket carries a session.
SocketMatchesState == (link = "none") <=> (state \in {"INVALID", "INITIALIZED"})

\* An unanswered ping belongs to the socket it was sent on: were it left over
\* from an earlier one, the first keepalive() would drop the new connection.
PingOnlyOnSocket == ping => link # "none"

\* _handle_reconnect waits at least the minimum and at most the maximum between
\* attempts, so tc_iot_mqtt_yield's RECONNECT_TIMEOUT exit is never taken.
BackoffBounded ==
  /\ wait <= MaxWait
  /\ "reconnect" \in timers => MinWait <= wait

\* Between calls, a connected client with a clean session is subscribed to every
\* topic it has a handler for, whatever was lost while it (re)subscribed.
HandlersSubscribed ==
  stack = <<>> /\ state = "CONNECTED" /\ link = "up" => Registered \subseteq brokerSubs

\* The back-off timer is cancelled only by a reconnection.
WaitIsKept == [][wait # 0 /\ wait' = 0 => state' = "CONNECTED"]_vars

\* keepalive() notices a connection that died without a word.
DeadLinkNoticed ==
  state = "CONNECTED" /\ link \in {"silent", "dead"} ~> state # "CONNECTED" \/ link = "up"

\* Every call returns, however its callbacks and reconnections nest.
CallsReturn == stack # <<>> ~> stack = <<>>

\* With auto_reconnect, a client whose session was dropped opens a new socket.
ReopensSocket ==
  ready /\ auto /\ state = "INITIALIZED" ~> ~(ready /\ auto /\ state = "INITIALIZED")

\* The client reconnects by itself once the network has stopped failing.
Recovers == ready ~> state = "CONNECTED"
=============================================================================
