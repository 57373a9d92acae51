------------------------------ MODULE CoapClient ------------------------------
(***************************************************************************)
(* The CoAP client of src/src/coap/tc_iot_coap.c: confirmable requests over*)
(* UDP, a fixed table of the sessions that wait for an answer, the yield   *)
(* that calls their handlers, and the authentication loop on top of it.    *)
(*                                                                         *)
(* The client is one thread.  A yield calls handlers, a handler may send,  *)
(* and the shipped application's handler even yields; `stack' holds the    *)
(* yields under way, innermost first.  tc_iot_coap_auth is called by the   *)
(* main loop only and sits below the stack (auth_pc).                      *)
(*                                                                         *)
(* The server and the network are `wire': the message ids an answer to     *)
(* which may still arrive.  An answer may be lost, late or doubled; its    *)
(* code matters to the handler of the authentication alone.                *)
(***************************************************************************)
EXTENDS CoapMessage

CONSTANTS
  NumSessions,    \* TC_IOT_COAP_MAX_SESSION_COUNT (10)
  MaxMessageId,   \* TC_IOT_COAP_MAX_MESSAGE_ID (65535)
  ServerIds,      \* message ids of the server's own messages
  OnAnswer,       \* what the handler of an answered request calls
  OnTimeout,      \* what the handler of an expired request calls
  MaxDepth        \* bound: yields under way at once

ASSUME SizesAssumption == {NumSessions, MaxMessageId, MaxDepth} \subseteq Nat \ {0} /\ MaxMessageId <= 65535
ASSUME ServerIdsAssumption == ServerIds \subseteq Nat
ASSUME HandlersAssumption == OnAnswer \cup OnTimeout \subseteq {"send", "yield"}

VARIABLES
  sessions,        \* c->sessions
  next_packetid,   \* c->next_packetid, the id used last
  auth_state,      \* c->auth_state
  auth_pc,         \* where tc_iot_coap_auth is
  auth_mid,        \* its message id, the same in every retry
  stack,           \* the yields under way, innermost first
  wire,            \* ids whose answer may still arrive
  pending          \* requests that got a session and whose handler was not called yet

vars == <<sessions, next_packetid, auth_state, auth_pc, auth_mid, stack, wire, pending>>

Slots == 1..NumSessions
Ids == 1..MaxMessageId
\* A yield that reads has no slot.
NoSlot == 0

\* A slot is empty when its message_id is 0.  expired: its timer has run out.
Empty == [message_id |-> 0, handler |-> "none", expired |-> FALSE]
Sessions == [message_id : 0..MaxMessageId, handler : {"none", "auth", "app"},
             expired : BOOLEAN]

\* A yield scans for expired sessions, then reads one message; in "expire" and
\* "deliver" the application's handler of the session in slot runs.
Frames == [pc : {"scan", "expire", "read", "deliver"}, slot : Slots \cup {NoSlot}]

\* The type of every variable.
TypeOK ==
  /\ sessions \in [Slots -> Sessions]
  /\ next_packetid \in 0..MaxMessageId
  /\ auth_state \in {"INITIAL", "SUCCESS", "FAILED", "TIMEOUT"}
  /\ auth_pc \in {"idle", "start", "wait"}
  /\ auth_mid \in 0..MaxMessageId
  /\ stack \in Seq(Frames)
  /\ wire \subseteq Ids /\ pending \subseteq Ids

-----------------------------------------------------------------------------
(* Sessions and message ids.                                               *)

Live == {s \in Slots : sessions[s].message_id # 0}
LiveIds == {sessions[s].message_id : s \in Live}

\* tc_iot_coap_session_find: the first slot with this message id, if there is one.
Find(id) ==
  LET found == {s \in Slots : sessions[s].message_id = id}
  IN  {s \in found : \A t \in found : s <= t}

\* Mutant: a full table gives up its first session.
FindEmptyOrFirst == IF Find(0) = {} THEN {1} ELSE Find(0)

FindEmpty == Find(0)

Release(s) == [sessions EXCEPT ![s] = Empty]

\* Mutant: the id does not wrap.
NextPacketIdUnbounded == next_packetid + 1

NextPacketId == IF next_packetid = MaxMessageId THEN 1 ELSE next_packetid + 1

\* Assumed: ids come round after 65535 messages, and by then the session, the
\* answers and the authentication of the earlier use are gone.
IdIsFresh(id) == id \notin LiveIds \cup wire /\ (auth_pc # "idle" => id # auth_mid)

\* tc_iot_coap_send_message: without an empty slot the request is sent all the
\* same; the result of the write changes nothing here but what the server gets.
SendMessage(id, handler) ==
  /\ IF handler = "none" \/ FindEmpty = {}
     THEN UNCHANGED <<sessions, pending>>
     ELSE \E slot \in FindEmpty :
            /\ sessions' = [sessions EXCEPT ![slot] =
                              [message_id |-> id, handler |-> handler, expired |-> FALSE]]
            /\ pending' = pending \cup {id}
  /\ wire' \in {wire, wire \cup {id}}

-----------------------------------------------------------------------------
(* The stack of yields.                                                    *)

Top == stack[1]
TopAt(pc) == stack # <<>> /\ Top.pc = pc
Resume(frame) == stack' = <<frame>> \o Tail(stack)
Return == stack' = Tail(stack)

\* Mutant: the last slot is never looked at.
ScanFromButLast(s) ==
  IF s >= NumSessions THEN [pc |-> "read", slot |-> NoSlot] ELSE [pc |-> "scan", slot |-> s]

\* The next place of the expiry scan.
ScanFrom(s) ==
  IF s > NumSessions THEN [pc |-> "read", slot |-> NoSlot] ELSE [pc |-> "scan", slot |-> s]

MainRuns == stack = <<>> /\ auth_pc = "idle"

\* The main loop and the handlers call tc_iot_coap_publish, _rpc and _yield.
MayCall(call) ==
  \/ MainRuns
  \/ TopAt("deliver") /\ call \in OnAnswer
  \/ TopAt("expire") /\ call \in OnTimeout

Init ==
  /\ sessions = [s \in Slots |-> Empty]
  /\ next_packetid = 0
  /\ auth_state = "INITIAL" /\ auth_pc = "idle" /\ auth_mid = 0
  /\ stack = <<>> /\ wire = {} /\ pending = {}

-----------------------------------------------------------------------------
(* tc_iot_coap_publish and tc_iot_coap_rpc.                                *)

\* The handler may be NULL.
Send(handler) ==
  /\ MayCall("send") /\ IdIsFresh(NextPacketId)
  /\ next_packetid' = NextPacketId
  /\ SendMessage(NextPacketId, handler)
  /\ UNCHANGED <<auth_state, auth_pc, auth_mid, stack>>

\* The request does not fit the buffer: its id is used up.
SendTooLarge ==
  /\ MayCall("send") /\ IdIsFresh(NextPacketId)
  /\ next_packetid' = NextPacketId
  /\ UNCHANGED <<sessions, auth_state, auth_pc, auth_mid, stack, wire, pending>>

-----------------------------------------------------------------------------
(* tc_iot_coap_yield.                                                      *)

EnterYield == stack' = <<ScanFrom(1)>> \o stack

Yield ==
  /\ MayCall("yield") /\ Len(stack) < MaxDepth
  /\ EnterYield
  /\ UNCHANGED <<sessions, next_packetid, auth_state, auth_pc, auth_mid, wire, pending>>

Due(s) == s \in Live /\ sessions[s].expired

ScanPasses ==
  /\ TopAt("scan") /\ ~Due(Top.slot)
  /\ Resume(ScanFrom(Top.slot + 1))
  /\ UNCHANGED <<sessions, next_packetid, auth_state, auth_pc, auth_mid, wire, pending>>

\* Mutant: the session of a timed-out authentication stays in the table.
ScanExpiresAuthKeeps ==
  /\ TopAt("scan") /\ Due(Top.slot) /\ sessions[Top.slot].handler = "auth"
  /\ auth_state' = "TIMEOUT"
  /\ pending' = pending \ {sessions[Top.slot].message_id}
  /\ Resume(ScanFrom(Top.slot + 1))
  /\ UNCHANGED <<sessions, next_packetid, auth_pc, auth_mid, wire>>

\* Mutant: a timed-out authentication is released without telling it.
ScanExpiresAuthSilently ==
  /\ TopAt("scan") /\ Due(Top.slot) /\ sessions[Top.slot].handler = "auth"
  /\ pending' = pending \ {sessions[Top.slot].message_id}
  /\ sessions' = Release(Top.slot)
  /\ Resume(ScanFrom(Top.slot + 1))
  /\ UNCHANGED <<next_packetid, auth_state, auth_pc, auth_mid, wire>>

\* The handler of the authentication only notes the timeout.
ScanExpiresAuth ==
  /\ TopAt("scan") /\ Due(Top.slot) /\ sessions[Top.slot].handler = "auth"
  /\ auth_state' = "TIMEOUT"
  /\ pending' = pending \ {sessions[Top.slot].message_id}
  /\ sessions' = Release(Top.slot)
  /\ Resume(ScanFrom(Top.slot + 1))
  /\ UNCHANGED <<next_packetid, auth_pc, auth_mid, wire>>

ScanCallsHandler ==
  /\ TopAt("scan") /\ Due(Top.slot) /\ sessions[Top.slot].handler = "app"
  /\ pending' = pending \ {sessions[Top.slot].message_id}
  /\ Resume([pc |-> "expire", slot |-> Top.slot])
  /\ UNCHANGED <<sessions, next_packetid, auth_state, auth_pc, auth_mid, wire>>

\* The slot is released by its place, whatever it holds by now.
TimeoutHandlerReturns ==
  /\ TopAt("expire")
  /\ sessions' = Release(Top.slot)
  /\ Resume(ScanFrom(Top.slot + 1))
  /\ UNCHANGED <<next_packetid, auth_state, auth_pc, auth_mid, wire, pending>>

\* Nothing came in time, the read failed, or the message is malformed.
ReadNothing ==
  /\ TopAt("read") /\ Return
  /\ UNCHANGED <<sessions, next_packetid, auth_state, auth_pc, auth_mid, wire, pending>>

\* A message with this id is read; the network may have doubled it.
Arrives(id) ==
  /\ TopAt("read") /\ id \in wire \cup ServerIds
  /\ wire' \in {wire, wire \ {id}}

\* No session, or message id 0 finds an empty slot: default_handler takes it.
ReadForDefault(id) ==
  /\ Arrives(id) /\ \A s \in Find(id) : sessions[s].handler = "none"
  /\ Return
  /\ UNCHANGED <<sessions, next_packetid, auth_state, auth_pc, auth_mid, pending>>

\* A 2.01 with a token that fits, or anything else.
ReadForAuth(id) ==
  /\ Arrives(id)
  /\ \E s \in Find(id) : sessions[s].handler = "auth" /\ sessions' = Release(s)
  /\ auth_state' \in {"SUCCESS", "FAILED"}
  /\ pending' = pending \ {id}
  /\ Return
  /\ UNCHANGED <<next_packetid, auth_pc, auth_mid>>

ReadForApp(id) ==
  /\ Arrives(id)
  /\ \E s \in Find(id) :
       sessions[s].handler = "app" /\ Resume([pc |-> "deliver", slot |-> s])
  /\ pending' = pending \ {id}
  /\ UNCHANGED <<sessions, next_packetid, auth_state, auth_pc, auth_mid>>

\* Mutant: an answered session stays in the table until it expires.
AnswerHandlerReturnsKeeps ==
  /\ TopAt("deliver")
  /\ Return
  /\ UNCHANGED <<sessions, next_packetid, auth_state, auth_pc, auth_mid, wire, pending>>

AnswerHandlerReturns ==
  /\ TopAt("deliver")
  /\ sessions' = Release(Top.slot)
  /\ Return
  /\ UNCHANGED <<next_packetid, auth_state, auth_pc, auth_mid, wire, pending>>

-----------------------------------------------------------------------------
(* tc_iot_coap_auth.                                                       *)

Auth ==
  /\ MainRuns /\ IdIsFresh(NextPacketId)
  /\ next_packetid' = NextPacketId /\ auth_mid' = NextPacketId
  /\ auth_pc' = "start"
  /\ UNCHANGED <<sessions, auth_state, stack, wire, pending>>

AuthStart ==
  /\ auth_pc = "start"
  /\ auth_state' = "INITIAL" /\ auth_pc' = "wait"
  /\ SendMessage(auth_mid, "auth")
  /\ UNCHANGED <<next_packetid, auth_mid, stack>>

AuthYields ==
  /\ auth_pc = "wait" /\ stack = <<>> /\ auth_state = "INITIAL"
  /\ EnterYield
  /\ UNCHANGED <<sessions, next_packetid, auth_state, auth_pc, auth_mid, wire, pending>>

AuthRetries ==
  /\ auth_pc = "wait" /\ stack = <<>> /\ auth_state = "TIMEOUT"
  /\ auth_pc' = "start"
  /\ UNCHANGED <<sessions, next_packetid, auth_state, auth_mid, stack, wire, pending>>

AuthReturns ==
  /\ auth_pc = "wait" /\ stack = <<>> /\ auth_state \in {"SUCCESS", "FAILED"}
  /\ auth_pc' = "idle"
  /\ UNCHANGED <<sessions, next_packetid, auth_state, auth_mid, stack, wire, pending>>

-----------------------------------------------------------------------------
(* The environment.                                                        *)

TimerExpires(s) ==
  /\ s \in Live /\ ~sessions[s].expired
  /\ sessions' = [sessions EXCEPT ![s].expired = TRUE]
  /\ UNCHANGED <<next_packetid, auth_state, auth_pc, auth_mid, stack, wire, pending>>

AnswerLost(id) ==
  /\ id \in wire /\ wire' = wire \ {id}
  /\ UNCHANGED <<sessions, next_packetid, auth_state, auth_pc, auth_mid, stack, pending>>

-----------------------------------------------------------------------------
YieldStep ==
  \/ ScanPasses \/ ScanExpiresAuth \/ ScanCallsHandler
  \/ TimeoutHandlerReturns \/ AnswerHandlerReturns
  \/ ReadNothing
  \/ \E id \in wire \cup ServerIds : ReadForDefault(id) \/ ReadForAuth(id) \/ ReadForApp(id)

AuthStep == AuthStart \/ AuthYields \/ AuthRetries \/ AuthReturns

Next ==
  \/ \E handler \in {"none", "app"} : Send(handler)
  \/ SendTooLarge
  \/ Yield
  \/ YieldStep
  \/ Auth \/ AuthStep
  \/ \E s \in Slots : TimerExpires(s)
  \/ \E id \in Ids : AnswerLost(id)

Spec == Init /\ [][Next]_vars

\* Calls go on until they return, a handler returns, time passes, and the main
\* loop calls tc_iot_coap_yield again and again.
FairSpec ==
  /\ Spec
  /\ WF_vars(YieldStep) /\ WF_vars(AuthStep)
  /\ WF_vars(Yield)
  /\ \A s \in Slots : WF_vars(TimerExpires(s))

-----------------------------------------------------------------------------
(* Properties.                                                             *)

\* A request that waits for its handler is in the table: the session of one
\* request is never wiped for another one (the release after a handler is by slot),
\* and no id makes a taken slot look empty.
PendingIsInTable == pending \subseteq LiveIds

\* tc_iot_coap_auth leaves no session behind, and has at most one at a time: every
\* attempt uses the same message id, and a late timeout or answer of one attempt
\* must not end the next one.
AuthSessions == {s \in Slots : sessions[s].handler = "auth"}
AuthHasOneSession ==
  /\ \A s, t \in AuthSessions : s = t
  /\ \A s \in AuthSessions :
       auth_pc = "wait" /\ auth_state = "INITIAL" /\ sessions[s].message_id = auth_mid

\* A handler is called only for a request that waits for it: never twice, and
\* never with a timeout after its answer (the scan for timeouts and the delivery
\* are two ways to the same session).
CallsHandler ==
  /\ stack # <<>> /\ stack' # <<>> /\ Len(stack') = Len(stack)
  /\ Top.pc \in {"scan", "read"} /\ Top'.pc \in {"expire", "deliver"}
CalledOnce == [][CallsHandler => sessions[Top'.slot].message_id \in pending]_vars

\* Every request with a session has its handler called: answered, or timed out by
\* the scan.
EveryRequestResolved == \A id \in Ids : id \in pending ~> id \notin pending

\* An authentication that got a session returns or retries; a lost answer does
\* not stall it.
AuthNeverStalls == (auth_pc = "wait" /\ AuthSessions # {}) ~> auth_pc # "wait"

\* Which message ids every request whose options are added in order is read back under.
ReadBack == [id \in Ids |-> \A request \in OrderedRequests : Survives(id, request)]

\* Precondition: no option of the request was added before more than one that was there
\* (OrderedRequests; those of tc_iot_coap_auth, _publish and _rpc are such).  Then,
\* whatever request of these a session waits for the answer of, its datagram is read as
\* that request, with every option its caller added, in order: a session is found by the
\* id in the datagram, and the server by the path.  This is about
\* tc_iot_coap_message_add_option, _serialize and _deserialize: the place of an
\* option, the differences of the numbers, the forms of a number, the marker, and
\* datagrams cut short by the buffer they are read into.
MessagesSurvive == \A s \in Live : ReadBack[sessions[s].message_id]
=============================================================================
