---------------------------- MODULE ShadowSessions ----------------------------
(***************************************************************************)
(* The request sessions of src/iotsuite/tc_iot_shadow.c: tc_iot_shadow_get,*)
(* _update, _delete and tc_iot_shadow_check_and_report publish a request   *)
(* and leave a session with its callback in a fixed table;                 *)
(* _tc_iot_shadow_on_message_received finds the session of an answer by    *)
(* its id, and _tc_iot_check_expired_session ends the ones nobody answered.*)
(*                                                                         *)
(* The client is one thread, but a publication waits for its               *)
(* acknowledgement by receiving, so answers are processed inside requests, *)
(* callbacks issue requests, and a session may be released and taken again *)
(* while an outer call still holds a pointer to it.  `stack' is the call   *)
(* stack, innermost call first.                                            *)
(*                                                                         *)
(* tc_iot_mqtt_client_publish is a call that receives any number of        *)
(* messages and then succeeds or fails; whether its message arrived is     *)
(* independent of that (a PUBACK may be lost, and one of another message   *)
(* may be taken for it).  MqttClient models the inside of it.              *)
(***************************************************************************)
EXTENDS Integers, Sequences

CONSTANTS
  NumSessions,    \* TC_IOT_MAX_SESSION_COUNT
  MainCalls,      \* what the application's main loop requests
  OnAnswer,       \* what the callback of an answered request requests
  OnTimeout,      \* what the callback of an expired request requests
  OnPush,         \* what on_receive_msg requests for a message without a session
  InitTime,       \* client_init_time, as far as it goes into a session id
  IdBase,         \* base of the text of a session id (16)
  NumIds,         \* session ids before usid wraps (65536)
  MaxRequests,    \* bound: requests with a session id
  MaxDepth,       \* bound: nested calls when a message is received
  MaxCopies       \* bound: deliveries of one answer (QoS 1: at least once)

\* "get": tc_iot_shadow_get, _update and _delete with a callback, "plain": without
\* one, "report": tc_iot_shadow_check_and_report.
Kinds == {"get", "plain", "report"}

ASSUME SessionsAssumption == NumSessions \in Nat \ {0}
ASSUME KindsAssumption ==
  MainCalls \cup OnAnswer \cup OnTimeout \cup OnPush \subseteq Kinds
ASSUME IdAssumption == InitTime \in Nat /\ IdBase \in Nat \ {0, 1} /\ NumIds \in Nat \ {0}
ASSUME BoundAssumption == {MaxRequests, MaxDepth, MaxCopies} \subseteq Nat

VARIABLES
  sessions,    \* c->sessions: the request a session was taken for, NoRequest when empty
  running,     \* slots whose timer has not expired
  usid,        \* ids generated so far
  stack,       \* the client's call stack, innermost call first
  answers,     \* deliveries of the answer to a request that may still come
  accepted,    \* requests that returned success to their caller
  called       \* how often the callback of a request was called

vars == <<sessions, running, usid, stack, answers, accepted, called>>

Slots == 1..NumSessions
Requests == 0..(MaxRequests - 1)
NoRequest == -1
NoSlot == 0

\* fn: the call; slot: the session it will release when it goes on; req: the request
\* whose callback runs, or whose publication is under way; from: the request that the
\* answer passed to the callback belongs to; can: what the callback may request.
Frames == [fn : {"yield", "publish", "message", "scan", "expired", "callback"},
           kind : Kinds, slot : 0..(NumSessions + 1), req : Requests \cup {NoRequest},
           from : Requests \cup {NoRequest}, can : SUBSET Kinds]

\* The type of every variable.
TypeOK ==
  /\ sessions \in [Slots -> Requests \cup {NoRequest}] /\ running \subseteq Slots
  /\ usid \in 0..MaxRequests
  /\ stack \in Seq(Frames)
  /\ answers \in [Requests -> 0..MaxCopies]
  /\ accepted \subseteq Requests /\ called \in [Requests -> Nat]

-----------------------------------------------------------------------------
(* Session ids.  The text of an id is "%x" of the low bits of the client's *)
(* start time, followed by a counter.                                      *)

Id(r) == (InitTime * NumIds) + (r % NumIds)

\* The text of p begins the text of q: neither has leading zeros.
Begins(p, q) == p = q \/ (p > 0 /\ \E k \in 1..MaxRequests : q \div IdBase^k = p)

\* Mutant: the last character of the ids is not compared.
MatchesAllButLast(i, r) ==
  sessions[i] # NoRequest /\ Id(sessions[i]) \div IdBase = Id(r) \div IdBase

\* strncmp(session->sid, session_id, strlen(session_id)) == 0
Matches(i, r) == sessions[i] # NoRequest /\ Begins(Id(r), Id(sessions[i]))

\* The id of no request begins that of another one: the counter does not come round, and
\* ids have the same number of digits, since there is a start time before it.
IdsDiffer == \A p, q \in Requests : Begins(Id(p), Id(q)) => p = q

Found(r) == {i \in Slots : Matches(i, r)}
First(slots) == CHOOSE i \in slots : \A j \in slots : i <= j

-----------------------------------------------------------------------------
Frame(fn, kind, slot, req) ==
  [fn |-> fn, kind |-> kind, slot |-> slot, req |-> req, from |-> NoRequest, can |-> {}]
Yield      == Frame("yield", "plain", NoSlot, NoRequest)
Scan(i)    == Frame("scan", "plain", i, NoRequest)
Publish(kind, i, r) == Frame("publish", kind, i, r)
\* What goes on in the session's slot once its callback has returned.
Message(i) == Frame("message", "plain", i, NoRequest)
Expired(i) == Frame("expired", "plain", i, NoRequest)
Callback(r, from, can) ==
  [fn |-> "callback", kind |-> "plain", slot |-> NoSlot, req |-> r, from |-> from, can |-> can]

Top == Head(stack)
In(fn) == stack # <<>> /\ Top.fn = fn

Release(i) == sessions' = [sessions EXCEPT ![i] = NoRequest] /\ running' = running \ {i}

-----------------------------------------------------------------------------
(* Requests.                                                               *)

\* The main loop requests between its calls, and a callback while it runs.
Requesting(kind) ==
  \/ stack = <<>> /\ kind \in MainCalls
  \/ In("callback") /\ kind \in Top.can

WithSession(kind) == Requesting(kind) /\ kind # "plain"

Empty == {i \in Slots : sessions[i] = NoRequest}

\* The session's timer and callback are set, and the request is published: it may
\* reach the server, which answers it.
RequestBegins ==
  \E kind \in Kinds, copies \in {0, MaxCopies} :
    /\ WithSession(kind) /\ usid < MaxRequests /\ Empty # {}
    /\ sessions' = [sessions EXCEPT ![First(Empty)] = usid]
    /\ running' = running \cup {First(Empty)}
    /\ stack' = <<Publish(kind, First(Empty), usid)>> \o stack
    /\ answers' = [answers EXCEPT ![usid] = copies]
    /\ usid' = usid + 1
    /\ UNCHANGED <<accepted, called>>

\* No callback, no session: the answer will go to on_receive_msg.
RequestPlain ==
  /\ Requesting("plain")
  /\ stack' = <<Publish("plain", NoSlot, NoRequest)>> \o stack
  /\ UNCHANGED <<sessions, running, usid, answers, accepted, called>>

\* The document does not fit its buffer, or there is nothing to report: the session
\* is released before anything is published, but its id is used up.  (When the table
\* is full, TC_IOT_SHADOW_SESSION_NOT_ENOUGH is returned and nothing changes.)
RequestAborted ==
  /\ \E kind \in Kinds : WithSession(kind)
  /\ usid < MaxRequests /\ Empty # {}
  /\ usid' = usid + 1
  /\ UNCHANGED <<sessions, running, stack, answers, accepted, called>>

PublishSucceeds ==
  /\ In("publish")
  /\ accepted' = IF Top.kind = "plain" THEN accepted ELSE accepted \cup {Top.req}
  /\ stack' = Tail(stack)
  /\ UNCHANGED <<sessions, running, usid, answers, called>>

\* Mutant: every request releases its session when its publication fails.
PublishFailsReleases ==
  /\ In("publish")
  /\ IF Top.kind # "plain" THEN Release(Top.slot) ELSE UNCHANGED <<sessions, running>>
  /\ stack' = Tail(stack)
  /\ UNCHANGED <<usid, answers, accepted, called>>

\* Only check_and_report releases the session it has taken.
PublishFails ==
  /\ In("publish")
  /\ IF Top.kind = "report" THEN Release(Top.slot) ELSE UNCHANGED <<sessions, running>>
  /\ stack' = Tail(stack)
  /\ UNCHANGED <<usid, answers, accepted, called>>

-----------------------------------------------------------------------------
(* Receiving: tc_iot_mqtt_yield, or a publication that waits.              *)

Receiving == (In("yield") \/ In("publish")) /\ Len(stack) + 2 <= MaxDepth

\* The callback of the first session with a matching id is called; the session is
\* still there while it runs.
AnswerReceived ==
  \E r \in Requests :
    /\ Receiving /\ answers[r] > 0 /\ Found(r) # {}
    /\ LET i == First(Found(r)) IN
       /\ stack' = <<Callback(sessions[i], r, OnAnswer), Message(i)>> \o stack
       /\ called' = [called EXCEPT ![sessions[i]] = @ + 1]
    /\ answers' = [answers EXCEPT ![r] = @ - 1]
    /\ UNCHANGED <<sessions, running, usid, accepted>>

\* An answer that comes too late, or to a request without a session, and a message
\* the server pushes, go to on_receive_msg.
PushReceived ==
  /\ Receiving
  /\ \/ UNCHANGED answers
     \/ \E r \in Requests : /\ answers[r] > 0 /\ Found(r) = {}
                            /\ answers' = [answers EXCEPT ![r] = @ - 1]
  /\ stack' = <<Callback(NoRequest, NoRequest, OnPush)>> \o stack
  /\ UNCHANGED <<sessions, running, usid, accepted, called>>

CallbackReturns ==
  /\ In("callback")
  /\ stack' = Tail(stack)
  /\ UNCHANGED <<sessions, running, usid, answers, accepted, called>>

\* Mutant: an answered session stays in the table.
AnswerDoneKeeps ==
  /\ In("message")
  /\ stack' = Tail(stack)
  /\ UNCHANGED <<sessions, running, usid, answers, accepted, called>>

AnswerDone ==
  /\ In("message")
  /\ Release(Top.slot)
  /\ stack' = Tail(stack)
  /\ UNCHANGED <<usid, answers, accepted, called>>

-----------------------------------------------------------------------------
(* tc_iot_shadow_yield, and the session timers.                            *)

YieldBegins ==
  /\ stack = <<>>
  /\ stack' = <<Yield>>
  /\ UNCHANGED <<sessions, running, usid, answers, accepted, called>>

YieldScans ==
  /\ In("yield")
  /\ stack' = <<Scan(1)>> \o Tail(stack)
  /\ UNCHANGED <<sessions, running, usid, answers, accepted, called>>

\* Mutant: the last slot of the table is not looked at.
OverdueButLast(i) == {j \in i..(NumSessions - 1) : sessions[j] # NoRequest /\ j \notin running}

\* Slots from `i' on that _tc_iot_check_expired_session stops at.
Overdue(i) == {j \in i..NumSessions : sessions[j] # NoRequest /\ j \notin running}

SessionExpires ==
  /\ In("scan") /\ Overdue(Top.slot) # {}
  /\ LET i == First(Overdue(Top.slot)) IN
     /\ stack' = <<Callback(sessions[i], NoRequest, OnTimeout), Expired(i)>> \o Tail(stack)
     /\ called' = [called EXCEPT ![sessions[i]] = @ + 1]
  /\ UNCHANGED <<sessions, running, usid, answers, accepted>>

\* Mutant: the scan goes on one slot too far.
ExpiryDoneSkips ==
  /\ In("expired")
  /\ Release(Top.slot)
  /\ stack' = <<Scan(Top.slot + 2)>> \o Tail(stack)
  /\ UNCHANGED <<usid, answers, accepted, called>>

ExpiryDone ==
  /\ In("expired")
  /\ Release(Top.slot)
  /\ stack' = <<Scan(Top.slot + 1)>> \o Tail(stack)
  /\ UNCHANGED <<usid, answers, accepted, called>>

YieldReturns ==
  /\ In("scan") /\ Overdue(Top.slot) = {}
  /\ stack' = Tail(stack)
  /\ UNCHANGED <<sessions, running, usid, answers, accepted, called>>

Tick(i) ==
  /\ i \in running
  /\ running' = running \ {i}
  /\ UNCHANGED <<sessions, usid, stack, answers, accepted, called>>

-----------------------------------------------------------------------------
Init ==
  /\ sessions = [i \in Slots |-> NoRequest] /\ running = {} /\ usid = 0
  /\ stack = <<>> /\ answers = [r \in Requests |-> 0]
  /\ accepted = {} /\ called = [r \in Requests |-> 0]

RequestStep == RequestBegins \/ RequestPlain \/ RequestAborted \/ PublishSucceeds \/ PublishFails
ReceiveStep == AnswerReceived \/ PushReceived \/ CallbackReturns \/ AnswerDone
YieldStep   == YieldBegins \/ YieldScans \/ SessionExpires \/ ExpiryDone \/ YieldReturns

Next == RequestStep \/ ReceiveStep \/ YieldStep \/ \E i \in Slots : Tick(i)

Spec == Init /\ [][Next]_vars

\* A call that waits, or a callback, at depth d of the stack ends.
Ends(d) ==
  Len(stack) = d /\ (PublishSucceeds \/ PublishFails \/ YieldScans \/ CallbackReturns)

\* Timers run out, calls go on, and the application yields again and again between its
\* requests.  A publication and a yield end at their own timers whatever they receive
\* meanwhile, and so does a callback that makes requests.
Fairness ==
  /\ \A i \in Slots : WF_vars(Tick(i))
  /\ \A d \in 1..(MaxDepth + 1) : SF_vars(Ends(d))
  /\ SF_vars(YieldBegins)
  /\ WF_vars(AnswerDone \/ SessionExpires \/ ExpiryDone \/ YieldReturns)

FairSpec == Spec /\ Fairness

-----------------------------------------------------------------------------
(* Properties.                                                             *)

\* A request that was accepted keeps its session until its callback is called: no
\* release made on behalf of another request (tc_iot_release_session after a
\* callback, or at the exit of check_and_report) wipes it.
NoRequestLost ==
  \A r \in accepted : called[r] > 0 \/ \E i \in Slots : sessions[i] = r

\* The callback of a request is called once, by the answer or by the timeout, even
\* when they race, and although the session outlives the callback.
AnsweredOnce == \A r \in Requests : called[r] <= 1

\* The answer a callback is given is the answer to its own request: ids that are
\* compared over the length of the received one do not mix up sessions.
AnswerIsMine ==
  \A k \in DOMAIN stack : stack[k].from # NoRequest => stack[k].from = stack[k].req

\* Every accepted request ends: its callback is called with the answer or, by
\* _tc_iot_check_expired_session, with the timeout.
EveryRequestEnds == \A r \in Requests : r \in accepted ~> called[r] > 0
=============================================================================
