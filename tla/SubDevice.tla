------------------------------ MODULE SubDevice ------------------------------
(***************************************************************************)
(* A gateway and its sub-devices: src/iotsuite/tc_iot_sub_device.c with    *)
(* the event handler and main program of examples/advanced_edition/        *)
(* sub_device.  A control document of the group is processed device by     *)
(* device: the number of the document is stored, then every value, with a  *)
(* bit to report it and one to confirm it; when all is processed a report  *)
(* and a confirmation are packed from the bits and published, and more     *)
(* documents may be processed while they are published.                    *)
(*                                                                         *)
(* `stack' is the call stack, innermost first; a session is one slot of    *)
(* the table of ShadowSessions.                                            *)
(***************************************************************************)
EXTENDS GroupDocument

CONSTANTS
  TableSize,        \* devices tc_iot_sub_device_register has room for
  Values, None,     \* values of a property, no value
  Default,          \* value of every property at the start
  Oversized,        \* values longer than TC_IOT_SHADOW_MAX_FIELD_LEN
  Rooms,            \* entries a document may have room for
  NumSessions,      \* TC_IOT_MAX_SESSION_COUNT
  Window,           \* a control document is overtaken by fewer than Window others
  MaxChanges, MaxLosses, MaxDepth, MaxDocs \* bounds: wishes and changes by the application
                    \* together, points lost at a time, nested publications that receive,
                    \* documents under way to the server

\* tc_iot_sub_device_register, at start-up: devices beyond the table are not known.
Registered == {d \in Devices : d <= TableSize}
Known == {x \in Points : x[1] \in Registered}

ASSUME ConstantsAssumption ==
  /\ None \notin Values /\ Default \in Values /\ Oversized \subseteq Values
  /\ TableSize \in Nat /\ NumSessions \in Nat /\ Rooms \subseteq Nat
ASSUME BoundsAssumption == {Window, MaxChanges, MaxLosses, MaxDepth, MaxDocs} \subseteq Nat
\* The texts of the numbers of control documents (%u).
ASSUME NumbersDiffer == \A i, j \in 0..MaxChanges : ToString(i) = ToString(j) => i = j

VARIABLES
  main,                     \* what the main program does
  data,                     \* p_data of the sub-devices
  sequence,                 \* sub_device->sequence
  reportBits, desiredBits,  \* reported_bits: to be reported; desired_bits: to be confirmed
  stack,                    \* call stack
  sessions,                 \* session table
  wish, srvSeq, view,       \* server: desired states, their numbers, reported states
  uplink, downlink,         \* documents under way
  met,                      \* points that have had the value now wished for
  lost,                     \* <<kind, point>>: packed, but into a document nobody got
  changes                   \* changes made by the application

table == <<data, sequence, reportBits, desiredBits>>
server == <<wish, srvSeq, view>>
vars == <<main, table, stack, sessions, server, uplink, downlink, met, lost, changes>>

Kinds == {"online", "offline", "get", "report", "confirm"}
Slots == 1..NumSessions
NoSlot == 0

\* fn: a request about to be made, one that waits for its publication, or the handler of
\* the answer to a get; slot: its session.
Frames == [fn : {"call"}, kind : Kinds, slot : {NoSlot}]
          \cup [fn : {"publish", "answer"}, kind : Kinds, slot : Slots]

\* A control document: number and desired values of each device, number 0 if it is not in it.
Controls == [Devices -> [seq : 0..MaxChanges, values : [1..NumProps -> Values \cup {None}]]]

\* The type of every variable.
TypeOK ==
  /\ main \in {"online", "get", "loop", "offline", "drain", "done"}
  /\ data \in [Points -> Values]
  /\ sequence \in [Devices -> 0..MaxChanges] /\ srvSeq \in [Devices -> 0..MaxChanges]
  /\ reportBits \subseteq Known /\ desiredBits \subseteq Known
  /\ stack \in Seq(Frames)
  /\ sessions \in [Slots -> Kinds \cup {"free", "leaked"}]
  /\ wish \in [Points -> Values \cup {None}] /\ view \in [Points -> Values \cup {None}]
  /\ downlink \in Seq([slot : Slots \cup {NoSlot}, doc : Controls])
  /\ met \subseteq Points /\ lost \subseteq Kinds \X Points
  /\ changes \in 0..MaxChanges

-----------------------------------------------------------------------------
Top == Head(stack)
In(fn) == stack # <<>> /\ Top.fn = fn
Call(kind) == [fn |-> "call", kind |-> kind, slot |-> NoSlot]

Fulfilled(d, w) == {x \in Points : d[x] = w[x]}
Becomes(d) == data' = d /\ met' = met \cup Fulfilled(d, wish)

-----------------------------------------------------------------------------
(* Requests.                                                               *)

\* Points a request is about: the bits, cleared while the document is packed.
Bits(kind) == CASE kind = "report" -> reportBits [] kind = "confirm" -> desiredBits
                [] OTHER -> {}

Build(kind, bits, seqs, room) ==
  CASE kind = "report" -> StateDocument(bits, "reported", [d \in Devices |-> 0], room)
    [] kind = "confirm" -> StateDocument(bits, "desired", seqs, room)
    [] kind = "online" -> ListDocument(Registered, TRUE, <<"timestamp", "nonce">>, room)
    [] kind = "offline" -> ListDocument(Registered, FALSE, <<"timestamp">>, room)
    [] kind = "get" -> ListDocument(Registered, FALSE, <<"metadata">>, room)

\* Every document there may be, in a table: TLC fills it when it compares it.
Built == CHOOSE built \in
  {[of \in Kinds \X (SUBSET Points) \X [Devices -> 0..MaxChanges] \X Rooms |->
      Build(of[1], of[2], of[3], of[4])]} : built = built
Document(kind, room) == Built[<<kind, Bits(kind), sequence, room>>]

\* What the server gets: the entries, the values of those that are points, the session id.
Message(kind, doc, i) == [kind |-> kind, facts |-> doc.facts, data |-> data, slot |-> i]

Forgets(kind) == lost' = lost \cup ({kind} \X Bits(kind))
Loses(kind) == Cardinality(lost) < MaxLosses /\ Forgets(kind)

\* Nothing to say: tc_iot_sub_device_report and _confirm return.
Skips == Top.kind \in {"report", "confirm"} /\ Bits(Top.kind) = {}

RequestSkipped ==
  /\ In("call") /\ Skips
  /\ stack' = Tail(stack)
  /\ UNCHANGED <<main, table, sessions, server, uplink, downlink, met, lost, changes>>

ClearBits(kind) ==
  /\ reportBits' = IF kind = "report" THEN {} ELSE reportBits
  /\ desiredBits' = IF kind = "confirm" THEN {} ELSE desiredBits

\* tc_iot_fetch_session finds no slot: the bits are cleared all the same.
RequestRefused ==
  /\ In("call") /\ ~Skips
  /\ \A i \in Slots : sessions[i] # "free"
  /\ ClearBits(Top.kind) /\ Forgets(Top.kind)
  /\ stack' = Tail(stack)
  /\ UNCHANGED <<main, data, sequence, sessions, server, uplink, downlink, met, changes>>

FirstFree(i) == sessions[i] = "free" /\ \A j \in 1..(i - 1) : sessions[j] # "free"

\* The session id does not fit: the slot is taken, without timer and handler.
RequestFails ==
  /\ In("call") /\ ~Skips
  /\ \E room \in Rooms : ~Document(Top.kind, room).ok
  /\ \E i \in Slots : FirstFree(i) /\ sessions' = [sessions EXCEPT ![i] = "leaked"]
  /\ ClearBits(Top.kind) /\ Loses(Top.kind)
  /\ stack' = Tail(stack)
  /\ UNCHANGED <<main, data, sequence, server, uplink, downlink, met, changes>>

\* The document is published; nobody reads it when it is cut off, or lost.
Publish(kind, doc, i) ==
  \/ /\ doc.ok /\ Len(uplink) < MaxDocs
     /\ uplink' = Append(uplink, Message(kind, doc, i))
     /\ lost' = lost \ ({kind} \X Bits(kind))
  \/ Loses(kind) /\ UNCHANGED uplink

RequestPublished ==
  /\ In("call") /\ ~Skips
  /\ \E i \in Slots, room \in Rooms :
       /\ FirstFree(i) /\ sessions' = [sessions EXCEPT ![i] = Top.kind]
       /\ stack' = <<[Top EXCEPT !.fn = "publish", !.slot = i]>> \o Tail(stack)
       /\ Publish(Top.kind, Document(Top.kind, room), i)
  /\ ClearBits(Top.kind)
  /\ UNCHANGED <<main, data, sequence, server, downlink, met, changes>>

\* Whether it succeeded or not, the caller goes on and the session stays.
PublishReturns ==
  /\ In("publish")
  /\ stack' = Tail(stack)
  /\ UNCHANGED <<main, table, sessions, server, uplink, downlink, met, lost, changes>>

-----------------------------------------------------------------------------
(* Documents from the server.                                              *)

\* The main loop yields, and a publication receives while it waits.
Receives == In("publish") \/ (stack = <<>> /\ main \in {"loop", "drain"})

Nesting == Cardinality({i \in DOMAIN stack : stack[i].fn = "publish"})

\* A value that is too long ends the processing of its device and of its product.
Fails(doc, d) == \E p \in 1..NumProps : doc[d].values[p] \in Oversized
Reached(doc) == {d \in Devices :
  doc[d].seq > 0 /\ \A e \in 1..(d - 1) : doc[e].seq > 0 /\ Product[e] = Product[d] => ~Fails(doc, e)}

\* Values the event handler is called with: no value before is too long.
Ordered(doc) == {x \in Points :
  /\ x[1] \in Reached(doc) /\ doc[x[1]].values[x[2]] # None
  /\ \A p \in 1..x[2] : doc[x[1]].values[p] \notin Oversized}

\* Those the example's event handler writes: tc_iot_sub_device_info_find knows the device.
Taken(doc) == Ordered(doc) \cap Known

\* Mutant: the event handler does not mark what it wrote.
ProcessUnmarked(doc) ==
  /\ sequence' = [d \in Devices |->
       IF d \in Reached(doc) \cap Registered THEN doc[d].seq ELSE sequence[d]]
  /\ Becomes([x \in Points |-> IF x \in Taken(doc) THEN doc[x[1]].values[x[2]] ELSE data[x]])
  /\ desiredBits' = desiredBits \cup Taken(doc)
  /\ UNCHANGED reportBits

\* Mutant: the event handler marks a value that it does not write.
ProcessUnwritten(doc) ==
  /\ sequence' = [d \in Devices |->
       IF d \in Reached(doc) \cap Registered THEN doc[d].seq ELSE sequence[d]]
  /\ Becomes(data)
  /\ reportBits' = reportBits \cup Taken(doc)
  /\ desiredBits' = desiredBits \cup Taken(doc)

\* tc_iot_group_doc_parse with the example's event handler: the number of a device is
\* stored before its values, a value is written and sets both bits.
Process(doc) ==
  /\ sequence' = [d \in Devices |->
       IF d \in Reached(doc) \cap Registered THEN doc[d].seq ELSE sequence[d]]
  /\ Becomes([x \in Points |-> IF x \in Taken(doc) THEN doc[x[1]].values[x[2]] ELSE data[x]])
  /\ reportBits' = reportBits \cup Taken(doc)
  /\ desiredBits' = desiredBits \cup Taken(doc)

\* TC_IOT_SUB_DEV_SERVER_CONTROL_ALL_FINISHED, also when processing ended early, makes the
\* event handler report and confirm; a document without sub_dev raises no event.
Event(doc) == IF \E d \in Devices : doc[d].seq > 0 THEN <<Call("report"), Call("confirm")>>
              ELSE <<>>

\* Mutant: a message is taken for the answer whatever its session id.
AnswersAny(m) == <<[fn |-> "answer", kind |-> "get", slot |-> m.slot]>>

\* The handler of the answer to the get, while its session is in the table.
Answers(m) == IF m.slot \in Slots /\ sessions[m.slot] = "get"
              THEN <<[fn |-> "answer", kind |-> "get", slot |-> m.slot]>> ELSE <<>>

\* tc_iot_device_on_group_message_received.
Receive(i) ==
  /\ Receives /\ Nesting <= MaxDepth /\ i \in DOMAIN downlink
  /\ Process(downlink[i].doc)
  /\ stack' = Event(downlink[i].doc) \o Answers(downlink[i]) \o stack
  /\ downlink' = SubSeq(downlink, 1, i - 1) \o SubSeq(downlink, i + 1, Len(downlink))
  /\ UNCHANGED <<main, sessions, server, uplink, lost, changes>>

\* The answer to the get is released after its handler, if it has not expired meanwhile.
AnswerDone ==
  /\ In("answer")
  /\ sessions' = [sessions EXCEPT ![Top.slot] = "free"]
  /\ stack' = Tail(stack)
  /\ UNCHANGED <<main, table, server, uplink, downlink, met, lost, changes>>

\* Any other request is acknowledged.
Acknowledged(i) ==
  /\ Receives /\ sessions[i] \in Kinds \ {"get"}
  /\ sessions' = [sessions EXCEPT ![i] = "free"]
  /\ UNCHANGED <<main, table, stack, server, uplink, downlink, met, lost, changes>>

\* Mutant: the scan passes over a session without handler.
ExpiresWithHandler(i) == sessions[i] \in Kinds

\* A timer that was never started counts as expired.
Expires(i) == sessions[i] # "free"

\* The scan after a yield.
Expire(i) ==
  /\ stack = <<>> /\ main \in {"loop", "drain"}
  /\ Expires(i)
  /\ sessions' = [sessions EXCEPT ![i] = "free"]
  /\ UNCHANGED <<main, table, stack, server, uplink, downlink, met, lost, changes>>

-----------------------------------------------------------------------------
(* The main program of the example.                                        *)

\* The next call of the main program when the one before has returned; the signal that
\* ends the loop comes at any time.
Follows == [online |-> "get", get |-> "loop", loop |-> "offline", offline |-> "drain"]

MainGoesOn ==
  /\ stack = <<>> /\ main \in DOMAIN Follows
  /\ main' = Follows[main]
  /\ stack' = IF main' \in Kinds THEN <<Call(main')>> ELSE <<>>
  /\ UNCHANGED <<table, sessions, server, uplink, downlink, met, lost, changes>>

\* while (tc_iot_shadow_pending_session_count(...) > 0) tc_iot_shadow_yield(...).
Drained ==
  /\ main = "drain" /\ stack = <<>>
  /\ \A i \in Slots : sessions[i] = "free"
  /\ main' = "done"
  /\ UNCHANGED <<table, stack, sessions, server, uplink, downlink, met, lost, changes>>

\* do_report: the application writes a value, marks everything and reports.
AppReports(x, v) ==
  /\ main = "loop" /\ stack = <<>>
  /\ changes < MaxChanges /\ data[x] # v
  /\ Becomes([data EXCEPT ![x] = v])
  /\ reportBits' = Known
  /\ stack' = <<Call("report")>>
  /\ changes' = changes + 1
  /\ UNCHANGED <<main, sequence, desiredBits, sessions, server, uplink, downlink, lost>>

-----------------------------------------------------------------------------
(* The server and the network, as the gateway relies on them.              *)

Desired(w, seqs, devices) == [d \in Devices |->
  [seq |-> IF d \in devices THEN seqs[d] ELSE 0, values |-> [p \in 1..NumProps |-> w[<<d, p>>]]]]

\* A control instruction: the desired state of the device is pushed with a new number.
Wish(x, v) ==
  /\ changes < MaxChanges
  /\ changes' = changes + 1
  /\ wish' = [wish EXCEPT ![x] = v]
  /\ srvSeq' = [srvSeq EXCEPT ![x[1]] = @ + 1]
  /\ met' = IF data[x] = v THEN met \cup {x} ELSE met \ {x}
  /\ downlink' = Append(downlink, [slot |-> NoSlot, doc |-> Desired(wish', srvSeq', {x[1]})])
  /\ UNCHANGED <<main, table, stack, sessions, view, uplink, lost>>

\* The points a document has in a state, and those it confirms: only for the number of the
\* desired state the server has.
PointsIn(m, holder) == {x \in Points : PointPath(x[1], holder, x[2]) \in m.facts}
Confirmed(m) == {x \in PointsIn(m, "desired") : /\ m.kind = "confirm" /\ wish[x] # None
  /\ DevicePath(x[1]) \o <<"sequence", ToString(srvSeq[x[1]])>> \in m.facts}
Reported(m) == IF m.kind = "report" THEN PointsIn(m, "reported") ELSE {}

\* Devices a get asks for that have something desired.
Asked(m) == {d \in Devices : /\ m.kind = "get" /\ DevicePath(d) \o <<"dev_name">> \in m.facts
                             /\ \E p \in 1..NumProps : wish[<<d, p>>] # None}

ServerReceives ==
  /\ uplink # <<>>
  /\ uplink' = Tail(uplink)
  /\ LET m == Head(uplink)
     IN  /\ view' = [x \in Points |-> IF x \in Reported(m) THEN m.data[x] ELSE view[x]]
         /\ wish' = [x \in Points |-> IF x \in Confirmed(m) THEN None ELSE wish[x]]
         /\ downlink' = IF m.kind = "get"
              THEN Append(downlink, [slot |-> m.slot, doc |-> Desired(wish, srvSeq, Asked(m))])
              ELSE downlink
  /\ UNCHANGED <<main, table, stack, sessions, srvSeq, met, lost, changes>>

-----------------------------------------------------------------------------
Init ==
  /\ main = "online" /\ stack = <<Call("online")>>
  /\ data = [x \in Points |-> Default]
  /\ sequence = [d \in Devices |-> 0]
  /\ reportBits = {} /\ desiredBits = {}
  /\ sessions = [i \in Slots |-> "free"]
  /\ wish = [x \in Points |-> None] /\ view = wish
  /\ srvSeq = [d \in Devices |-> 0]
  /\ uplink = <<>> /\ downlink = <<>>
  /\ met = {} /\ lost = {} /\ changes = 0

Requests == RequestSkipped \/ RequestRefused \/ RequestFails \/ RequestPublished

Next ==
  \/ Requests \/ PublishReturns \/ AnswerDone
  \/ \E i \in 1..Window : Receive(i)
  \/ \E i \in Slots : Acknowledged(i) \/ Expire(i)
  \/ MainGoesOn \/ Drained
  \/ \E x \in Known, v \in Values : AppReports(x, v)
  \/ \E x \in Points, v \in Values : Wish(x, v)
  \/ ServerReceives

Spec == Init /\ [][Next]_vars

\* Calls return, timers run out and are looked at by every yield, the server works; the
\* process is told to stop only if somebody stops it.
Fairness ==
  /\ WF_vars(Requests) /\ WF_vars(PublishReturns) /\ WF_vars(AnswerDone) /\ WF_vars(Drained)
  /\ WF_vars(MainGoesOn /\ main # "loop") /\ WF_vars(ServerReceives)
  /\ \A i \in Slots : SF_vars(Expire(i))

FairSpec == Spec /\ Fairness

-----------------------------------------------------------------------------
(* Properties.                                                             *)

Reporting(x) == \E i \in DOMAIN uplink : x \in Reported(uplink[i])
Confirming(x) == \E i \in DOMAIN uplink : x \in Confirmed(uplink[i])

\* The server knows every value of a sub-device, or its bit is set, or a report that says so
\* under the right device and product is under way, or was lost; a value nobody ever changed
\* need not be reported.
LostOrReported == \A x \in Known :
  \/ view[x] = data[x] \/ x \in reportBits \/ Reporting(x) \/ <<"report", x>> \in lost
  \/ view[x] = None /\ data[x] = Default

\* When the gateway is idle and has processed the present desired state of a device, it still
\* has to confirm each point of it, or the confirmation, with the right number, is under way,
\* or was lost.
ConfirmOwed == \A x \in Known :
  stack = <<>> /\ sequence[x[1]] = srvSeq[x[1]] /\ wish[x] \notin Oversized \cup {None}
    => x \in desiredBits \/ Confirming(x) \/ <<"confirm", x>> \in lost

Abstract == INSTANCE Wishes WITH device <- data, Props <- Points

\* The server takes a wish back only after the sub-device has had the value wished for.
ImplementsWishes == Abstract!Spec

\* The gateway stops: every session comes free, those of failed requests included.
ShutdownEnds == main = "offline" ~> main = "done"
=============================================================================
