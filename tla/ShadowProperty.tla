---------------------------- MODULE ShadowProperty ----------------------------
(***************************************************************************)
(* The data synchronisation of src/iotsuite/tc_iot_shadow_property.c and   *)
(* of tc_iot_shadow.c from tc_iot_shadow_cmp_local on.  The device keeps   *)
(* three copies of every property (local, reported, desired), a bit for    *)
(* each property it has reported and one for each control instruction it   *)
(* has to confirm, and the sequence number of the last message.            *)
(* tc_iot_shadow_check_and_report packs what differs into a document,      *)
(* changing bits and copies as it goes, and publishes it; a publication    *)
(* receives, so a control message may be processed, and confirmed, inside  *)
(* the report of another one.  `stack' is the call stack, innermost first. *)
(*                                                                         *)
(* The session a request needs is modelled by ShadowSessions, publishing   *)
(* by MqttClient: here a publication receives, then returns, and its       *)
(* message is sent at its start, or lost.                                  *)
(***************************************************************************)
EXTENDS Integers, Sequences, FiniteSets

CONSTANTS
  NumProps,         \* property_total
  Values, None,     \* values of a property, no value
  Default,          \* what the copies are initialised with
  Rooms,            \* numbers of properties a document may have room for
  Unstorable,       \* properties tc_iot_shadow_save_to_cached does not write (type INT)
  Window,           \* a control document is overtaken by fewer than Window others
  MaxChanges, MaxLosses, MaxDepth, MaxDocs \* bounds: wishes and changes by the application
                    \* together, properties lost at a time, nested calls, documents under
                    \* way to the server

Props == 1..NumProps

ASSUME PropsAssumption == NumProps \in Nat
ASSUME ValuesAssumption == None \notin Values /\ Default \in Values
ASSUME RoomsAssumption == Rooms \subseteq Nat \ {0}
ASSUME UnstorableAssumption == Unstorable \subseteq Props
ASSUME BoundsAssumption == {Window, MaxChanges, MaxLosses, MaxDepth, MaxDocs} \subseteq Nat

VARIABLES
  local, reported, desired,    \* p_current_device_data, p_reported_..., p_desired_...
  reportedBits, desiredBits,   \* c->reported_bits, c->desired_bits
  seq,                         \* c->shadow_seq
  stack,                       \* call stack
  wish, srvSeq, view,          \* server: desired state, its sequence, reported state
  uplink, downlink,            \* documents under way, in order (one connection)
  met,                         \* properties that have had the value now wished for
  lost,                        \* <<kind, property>>: packed, but into a document nobody got
  changes                      \* changes made by the application

device == <<local, reported, desired, reportedBits, desiredBits, seq, stack, changes>>
server == <<wish, srvSeq, view>>
vars == <<device, server, uplink, downlink, met, lost>>

NoData == [p \in Props |-> None]
Data == [Props -> Values \cup {None}]
Kinds == {"get", "report", "confirm"}

\* fn: the call; kind: what it packs or publishes; confirms: tc_iot_confirm_devcie_data
\* called it, and goes on with a confirmation; todo: desired values not processed yet;
\* prop: the property whose event callback runs.
Frames == [fn : {"init", "pack", "publish", "sync", "control"}, kind : Kinds,
           confirms : BOOLEAN, todo : Data, prop : Props \cup {0}]

Documents == [kind : Kinds, seq : 0..MaxChanges, data : Data]

\* The type of every variable.
TypeOK ==
  /\ {local, reported, desired} \subseteq [Props -> Values]
  /\ reportedBits \subseteq Props /\ desiredBits \subseteq Props
  /\ seq \in 0..MaxChanges /\ srvSeq \in 0..MaxChanges
  /\ stack \in Seq(Frames)
  /\ wish \in Data /\ view \in Data
  /\ uplink \in Seq(Documents)
  /\ downlink \in Seq([seq : 0..MaxChanges, data : Data])
  /\ met \subseteq Props /\ lost \subseteq Kinds \X Props
  /\ changes \in 0..MaxChanges

-----------------------------------------------------------------------------
Frame(fn, kind, confirms) ==
  [fn |-> fn, kind |-> kind, confirms |-> confirms, todo |-> NoData, prop |-> 0]
Pack(kind, confirms) == Frame("pack", kind, confirms)
Sync(data) == [Frame("sync", "get", FALSE) EXCEPT !.todo = data]

Top == Head(stack)
In(fn) == stack # <<>> /\ Top.fn = fn

\* Mutant: a null value is taken for a value.
PresentNulls(data) == Props

Present(data) == {p \in Props : data[p] # None}
Fulfilled(d, w) == {p \in Props : d[p] = w[p]}

\* What the application or the callback writes may fulfil a wish.
Becomes(data) == local' = data /\ met' = met \cup Fulfilled(data, wish)

\* A document is sent, or lost with what was packed into it.
Publish(kind, data, confirms) ==
  /\ stack' = <<Frame("publish", kind, confirms)>> \o Tail(stack)
  /\ \/ /\ Len(uplink) < MaxDocs
        /\ uplink' = Append(uplink, [kind |-> kind, seq |-> seq, data |-> data])
        /\ lost' = lost \ ({kind} \X Present(data))
     \/ /\ Cardinality(lost) < MaxLosses
        /\ lost' = lost \cup ({kind} \X Present(data))
        /\ UNCHANGED uplink

-----------------------------------------------------------------------------
(* tc_iot_shadow_check_and_report.                                         *)

\* Mutant: a property that was never reported is compared like any other.
ChangedOnly == {p \in Props : reported[p] # local[p]}

ToReport == {p \in Props : p \notin reportedBits \/ reported[p] # local[p]}

\* Mutant: every instruction received is confirmed, whatever became of it.
AllReceived == desiredBits

\* Instructions the device has followed; the others keep their bit.
ToConfirm == {p \in desiredBits : desired[p] = local[p]}

\* The first properties of a set, as many as a document has room for, and those the
\* loop reached before it gave up.
Written(props, room) == {p \in props : Cardinality({q \in props : q <= p}) <= room}
Reached(props, room) == {p \in props : Cardinality({q \in props : q <= p}) <= room + 1}

\* The loop jumped to exit: nothing is published, what was packed is forgotten.
GivesUp(kind, gone) ==
  /\ Cardinality(lost) < MaxLosses
  /\ lost' = lost \cup ({kind} \X gone)
  /\ stack' = Tail(stack)
  /\ UNCHANGED uplink

\* TC_IOT_REPORT_SKIPPED_FOR_NO_CHANGE: tc_iot_confirm_devcie_data goes on.
Skips ==
  /\ stack' = (IF Top.confirms THEN <<Pack("confirm", FALSE)>> ELSE <<>>) \o Tail(stack)
  /\ UNCHANGED <<uplink, lost>>

Emits(kind, props, room, data) ==
  IF props = {} THEN Skips
  ELSE IF Written(props, room) # props THEN
    GivesUp(kind, IF kind = "report" THEN Reached(props, room) ELSE Written(props, room))
  ELSE Publish(kind, data, Top.confirms)

\* Mutant: the reported copy is not updated.
PackReportKeepsCopy ==
  /\ In("pack") /\ Top.kind = "report"
  /\ \E room \in Rooms :
       /\ Emits("report", ToReport, room,
                [p \in Props |-> IF p \in ToReport THEN local[p] ELSE None])
       /\ reportedBits' = reportedBits \cup Written(ToReport, room)
  /\ UNCHANGED <<local, reported, desired, desiredBits, seq, changes, server, downlink, met>>

\* Copies and bits change while the document is written: the property that does not fit
\* any more has its copy updated, but not its bit.
PackReport ==
  /\ In("pack") /\ Top.kind = "report"
  /\ \E room \in Rooms :
       /\ Emits("report", ToReport, room,
                [p \in Props |-> IF p \in ToReport THEN local[p] ELSE None])
       /\ reported' = [p \in Props |->
            IF p \in Reached(ToReport, room) \ Unstorable THEN local[p] ELSE reported[p]]
       /\ reportedBits' = reportedBits \cup Written(ToReport, room)
  /\ UNCHANGED <<local, desired, desiredBits, seq, changes, server, downlink, met>>

\* Mutant: the bit is cleared whether or not the instruction was followed.
PackConfirmClearsAll ==
  /\ In("pack") /\ Top.kind = "confirm"
  /\ \E room \in Rooms :
       Emits("confirm", ToConfirm, room,
             [p \in Props |-> IF p \in ToConfirm THEN desired[p] ELSE None])
  /\ desiredBits' = {}
  /\ UNCHANGED <<local, reported, desired, reportedBits, seq, changes, server, downlink, met>>

\* Only instructions that were followed are confirmed, and only their bits cleared.
PackConfirm ==
  /\ In("pack") /\ Top.kind = "confirm"
  /\ \E room \in Rooms :
       /\ Emits("confirm", ToConfirm, room,
                [p \in Props |-> IF p \in ToConfirm THEN desired[p] ELSE None])
       /\ desiredBits' = desiredBits \ Written(ToConfirm, room)
  /\ UNCHANGED <<local, reported, desired, reportedBits, seq, changes, server, downlink, met>>

\* TC_IOT_SHADOW_SESSION_NOT_ENOUGH, before anything is packed.
PackRefused ==
  /\ In("pack")
  /\ stack' = Tail(stack)
  /\ UNCHANGED <<local, reported, desired, reportedBits, desiredBits, seq, changes,
                 server, uplink, downlink, met, lost>>

\* What the caller of a finished publication does next: tc_iot_server_init reports whatever
\* became of its get, tc_iot_confirm_devcie_data confirms after a report that succeeded.
After(frame, ok) ==
  IF frame.kind = "get" THEN <<Pack("report", FALSE)>>
  ELSE IF frame.confirms /\ ok THEN <<Pack("confirm", FALSE)>> ELSE <<>>

\* The publication returns; it may fail although its document was delivered.
PublishReturns(ok) ==
  /\ In("publish")
  /\ stack' = After(Top, ok) \o Tail(stack)
  /\ UNCHANGED <<local, reported, desired, reportedBits, desiredBits, seq, changes,
                 server, uplink, downlink, met, lost>>

-----------------------------------------------------------------------------
(* Control documents.                                                      *)

\* Mutant: an older sequence number is not taken over, its desired values are.
SeqKeepsGreatest(doc) == IF doc.seq > seq THEN doc.seq ELSE seq

\* c->shadow_seq after a document: the document's number, also when it goes backwards.
SeqAfter(doc) == IF doc.seq > 0 THEN doc.seq ELSE seq

\* The main loop yields, tc_iot_server_init yields before its get, and a publication
\* receives while it waits.
Receives == stack = <<>> \/ (Len(stack) < MaxDepth /\ \E fn \in {"init", "publish"} : In(fn))

\* tc_iot_device_on_message_received, tc_iot_shadow_doc_parse.
Receive(i) ==
  /\ Receives /\ i \in DOMAIN downlink
  /\ seq' = SeqAfter(downlink[i])
  /\ stack' = <<Sync(downlink[i].data)>> \o stack
  /\ downlink' = SubSeq(downlink, 1, i - 1) \o SubSeq(downlink, i + 1, Len(downlink))
  /\ UNCHANGED <<local, reported, desired, reportedBits, desiredBits, changes,
                 server, uplink, met, lost>>

\* _tc_iot_sync_shadow_property takes the next value and calls event_notify.
ControlBegins(p) ==
  /\ In("sync") /\ p \in Present(Top.todo)
  /\ desired' = IF p \in Unstorable THEN desired ELSE [desired EXCEPT ![p] = Top.todo[p]]
  /\ desiredBits' = desiredBits \cup {p}
  /\ stack' = <<[Top EXCEPT !.fn = "control", !.prop = p]>> \o Tail(stack)
  /\ UNCHANGED <<local, reported, reportedBits, seq, changes, server, uplink, downlink, met, lost>>

\* The instruction is copied to the local data only if the callback agreed.
Copies(p, ok) == ok /\ p \notin Unstorable

\* event_notify returns; the callback may have written the value to local itself.
ControlReturns(ok, wrote) ==
  /\ In("control")
  /\ LET p == Top.prop
     IN  /\ Becomes(IF Copies(p, ok) \/ wrote THEN [local EXCEPT ![p] = Top.todo[p]] ELSE local)
         /\ stack' = <<Sync([Top.todo EXCEPT ![p] = None])>> \o Tail(stack)
  /\ UNCHANGED <<reported, desired, reportedBits, desiredBits, seq, changes,
                 server, uplink, downlink, lost>>

\* All values are processed: tc_iot_confirm_devcie_data.
SyncDone ==
  /\ In("sync") /\ Present(Top.todo) = {}
  /\ stack' = <<Pack("report", TRUE)>> \o Tail(stack)
  /\ UNCHANGED <<local, reported, desired, reportedBits, desiredBits, seq, changes,
                 server, uplink, downlink, met, lost>>

-----------------------------------------------------------------------------
(* The application, and tc_iot_server_init.                                *)

\* tc_iot_server_init has yielded and asks for the desired state.
PublishGet ==
  /\ In("init")
  /\ Publish("get", NoData, FALSE)
  /\ UNCHANGED <<local, reported, desired, reportedBits, desiredBits, seq, changes,
                 server, downlink, met>>

\* The application, an interrupt handler included, writes its local data.
AppChange(p, v) ==
  /\ changes + srvSeq < MaxChanges /\ local[p] # v
  /\ Becomes([local EXCEPT ![p] = v])
  /\ changes' = changes + 1
  /\ UNCHANGED <<reported, desired, reportedBits, desiredBits, seq, stack,
                 server, uplink, downlink, lost>>

\* tc_iot_report_device_data or tc_iot_confirm_devcie_data, from the main loop.
AppReports(confirms) ==
  /\ stack = <<>>
  /\ stack' = <<Pack("report", confirms)>>
  /\ UNCHANGED <<local, reported, desired, reportedBits, desiredBits, seq, changes,
                 server, uplink, downlink, met, lost>>

-----------------------------------------------------------------------------
(* The server and the network, as the device relies on them.               *)

\* A control instruction: the whole desired state is pushed with a new number.
Wish(p, v) ==
  /\ changes + srvSeq < MaxChanges
  /\ wish' = [wish EXCEPT ![p] = v]
  /\ srvSeq' = srvSeq + 1
  /\ met' = IF local[p] = v THEN met \cup {p} ELSE met \ {p}
  /\ downlink' = Append(downlink, [seq |-> srvSeq', data |-> wish'])
  /\ UNCHANGED <<device, view, uplink, lost>>

\* A confirmation counts only for the desired state whose number it carries.
Confirmed(doc) == IF doc.kind = "confirm" /\ doc.seq = srvSeq
                  THEN Present(doc.data) \cap Present(wish) ELSE {}

\* A report updates the server's view, a confirmation clears wishes, a get is answered
\* with the desired state if there is one.
ServerReceives ==
  /\ uplink # <<>>
  /\ uplink' = Tail(uplink)
  /\ LET doc == Head(uplink)
     IN  /\ view' = [p \in Props |-> IF doc.kind = "report" /\ doc.data[p] # None
                                     THEN doc.data[p] ELSE view[p]]
         /\ wish' = [p \in Props |-> IF p \in Confirmed(doc) THEN None ELSE wish[p]]
         /\ downlink' = IF doc.kind = "get" /\ Present(wish) # {}
                        THEN Append(downlink, [seq |-> srvSeq, data |-> wish]) ELSE downlink
  /\ UNCHANGED <<device, srvSeq, met, lost>>

-----------------------------------------------------------------------------
Init ==
  /\ local = [p \in Props |-> Default] /\ reported = local /\ desired = local
  /\ reportedBits = {} /\ desiredBits = {} /\ seq = 0
  /\ stack = <<Frame("init", "get", FALSE)>>
  /\ wish \in Data
  /\ srvSeq = (IF wish = NoData THEN 0 ELSE 1) /\ srvSeq <= MaxChanges
  /\ view = NoData
  /\ uplink = <<>> /\ downlink = <<>>
  /\ met = Fulfilled(local, wish)
  /\ lost = {} /\ changes = 0

Next ==
  \/ PackReport \/ PackConfirm \/ PackRefused
  \/ \E ok \in BOOLEAN : PublishReturns(ok)
  \/ \E i \in 1..Window : Receive(i)
  \/ \E p \in Props : ControlBegins(p)
  \/ \E ok, wrote \in BOOLEAN : ControlReturns(ok, wrote)
  \/ SyncDone
  \/ PublishGet
  \/ \E p \in Props, v \in Values : AppChange(p, v)
  \/ \E confirms \in BOOLEAN : AppReports(confirms)
  \/ \E p \in Props, v \in Values : Wish(p, v)
  \/ ServerReceives

Spec == Init /\ [][Next]_vars

\* Calls return, callbacks included, the connection delivers, and the main loop reports
\* from time to time; sessions come free again, so a report is not refused for ever.
Fairness ==
  /\ WF_vars(PublishGet) /\ WF_vars(\E ok \in BOOLEAN : PublishReturns(ok))
  /\ WF_vars(\E p \in Props : ControlBegins(p)) /\ WF_vars(SyncDone)
  /\ WF_vars(\E ok, wrote \in BOOLEAN : ControlReturns(ok, wrote))
  /\ WF_vars(PackConfirm \/ PackRefused) /\ SF_vars(PackReport)
  /\ WF_vars(ServerReceives) /\ SF_vars(AppReports(FALSE))

FairSpec == Spec /\ Fairness

-----------------------------------------------------------------------------
(* Properties.                                                             *)

Reporting(p) == \E i \in DOMAIN uplink : uplink[i].kind = "report" /\ uplink[i].data[p] # None
Confirming(p) == \E i \in DOMAIN uplink :
  uplink[i].kind = "confirm" /\ uplink[i].seq = srvSeq /\ uplink[i].data[p] # None

\* A property that will not be reported again is known to the server as it is, or will be
\* when what is under way arrives, unless the document it was packed into was lost: bits and
\* copies are updated before anything is sent, in reports that nest.
LostOrReported == \A p \in Props :
  p \notin ToReport /\ ~Reporting(p) => view[p] = local[p] \/ <<"report", p>> \in lost

\* When the device is idle and knows the present wish for a property it has followed, it
\* still has to confirm it, or the confirmation is under way or was lost: the bit is cleared
\* before anything is sent, and a nested control document may set it again.
ConfirmOwed == \A p \in Props :
  stack = <<>> /\ seq = srvSeq /\ wish[p] = desired[p] /\ local[p] = desired[p]
    => p \in desiredBits \/ Confirming(p) \/ <<"confirm", p>> \in lost

Abstract == INSTANCE Wishes WITH device <- local

\* The server takes a wish back only after the device has had the value wished for, whatever
\* is refused, reordered, nested or lost.
ImplementsWishes == Abstract!Spec

\* Once nothing changes, the server gets to know every property, unless its report was lost.
Converges == \A p \in Props : []<>(view[p] = local[p] \/ <<"report", p>> \in lost)
=============================================================================
