--------------------------- MODULE CoapClientProofs ---------------------------
(***************************************************************************)
(* Invariants of CoapClient for every size of the session table and of the *)
(* message ids: types for all handlers, the life of a session for handlers *)
(* that send but do not yield, and what is read of the requests of all     *)
(* sessions, from the options a caller adds to the datagram and back.      *)
(***************************************************************************)
EXTENDS CoapClient, FiniteSetTheorems, Lemmas

-----------------------------------------------------------------------------
(* The call stack and the table.                                           *)

\* What the steps of a yield do to the stack.
LEMMA YieldStack ==
  ASSUME NEW S, NEW s \in Seq(S), NEW e \in S
  PROVE  /\ <<e>> \o s \in Seq(S) /\ <<e>> \o s # <<>> /\ (<<e>> \o s)[1] = e
         /\ s # <<>> => /\ s[1] \in S /\ Tail(s) \in Seq(S)
                        /\ <<e>> \o Tail(s) \in Seq(S)
                        /\ <<e>> \o Tail(s) # <<>> /\ (<<e>> \o Tail(s))[1] = e
                        /\ Len(<<e>> \o Tail(s)) = Len(s)
  OBVIOUS

\* Sizes as numbers.
LEMMA Sizes == NumSessions \in Nat /\ MaxMessageId \in Nat /\ NumSessions > 0 /\ MaxMessageId > 0
  BY SizesAssumption

\* The frame of the next place of the scan.
LEMMA ScanFromType ==
  ASSUME NEW s \in Nat, s > 0
  PROVE  ScanFrom(s) \in Frames
  BY Sizes DEF ScanFrom, Frames, Slots, NoSlot

\* Emptying a slot; any other index changes nothing.
LEMMA ReleaseType ==
  ASSUME sessions \in [Slots -> Sessions], NEW s
  PROVE  Release(s) \in [Slots -> Sessions]
<1>1. Empty \in Sessions
  BY Sizes DEF Empty, Sessions
<1> QED
  BY <1>1 DEF Release

\* The next message id.
LEMMA NextPacketIdType ==
  ASSUME next_packetid \in 0..MaxMessageId
  PROVE  NextPacketId \in Ids
  BY Sizes DEF NextPacketId, Ids

\* Sending a message keeps the table, the wire and the waiting requests in their types.
LEMMA SendMessageType ==
  ASSUME TypeOK, NEW id \in Ids, NEW handler \in {"none", "auth", "app"},
         SendMessage(id, handler)
  PROVE  sessions' \in [Slots -> Sessions] /\ wire' \subseteq Ids /\ pending' \subseteq Ids
<1>1. [message_id |-> id, handler |-> handler, expired |-> FALSE] \in Sessions
  BY Sizes DEF Sessions, Ids
<1>2. wire' \subseteq Ids
  BY DEF SendMessage, TypeOK
<1>3. CASE handler = "none" \/ FindEmpty = {}
  BY <1>2, <1>3 DEF SendMessage, TypeOK
<1>4. CASE ~(handler = "none" \/ FindEmpty = {})
  BY <1>1, <1>2, <1>4 DEF SendMessage, TypeOK
<1> QED
  BY <1>3, <1>4

-----------------------------------------------------------------------------
(* Types.                                                                  *)

\* While an authentication is under way it has a message id.
AuthHasId == auth_pc # "idle" => auth_mid \in Ids

TypeInv == TypeOK /\ AuthHasId

\* Types hold at first.
LEMMA TypeInit == Init => TypeInv
<1>1. Empty \in Sessions
  BY Sizes DEF Empty, Sessions
<1> QED
  BY <1>1, Sizes DEF Init, TypeInv, TypeOK, AuthHasId

\* Every step of the client, its handlers and the network keeps them.
LEMMA TypeStep == TypeInv /\ [Next]_vars => TypeInv'
<1> SUFFICES ASSUME TypeInv, [Next]_vars PROVE TypeInv'
  OBVIOUS
<1> USE DEF TypeInv, TypeOK, AuthHasId
<1>1. ASSUME NEW handler \in {"none", "app"}, Send(handler) PROVE TypeInv'
  <2>1. NextPacketId \in Ids
    BY NextPacketIdType
  <2>2. sessions' \in [Slots -> Sessions] /\ wire' \subseteq Ids /\ pending' \subseteq Ids
    BY <1>1, <2>1, SendMessageType DEF Send
  <2>3. next_packetid' \in 0..MaxMessageId
    BY <1>1, <2>1, Sizes DEF Send, Ids
  <2> QED
    BY <1>1, <2>2, <2>3 DEF Send
<1>2. CASE SendTooLarge
  <2>1. NextPacketId \in 0..MaxMessageId
    BY NextPacketIdType, Sizes DEF Ids
  <2> QED
    BY <1>2, <2>1 DEF SendTooLarge
<1>3. CASE Yield \/ AuthYields
  <2>1. ScanFrom(1) \in Frames
    BY ScanFromType
  <2>2. <<ScanFrom(1)>> \o stack \in Seq(Frames)
    BY <2>1, YieldStack
  <2>3. stack' \in Seq(Frames)
    BY <1>3, <2>2 DEF Yield, AuthYields, EnterYield
  <2> QED
    BY <1>3, <2>3 DEF Yield, AuthYields
<1>4. CASE YieldStep
  <2>1. PICK slot \in Slots \cup {NoSlot} : stack # <<>> /\ Top.slot = slot
    <3>1. stack # <<>>
      BY <1>4 DEF YieldStep, ScanPasses, ScanExpiresAuth, ScanCallsHandler, ReadNothing,
           TimeoutHandlerReturns, AnswerHandlerReturns, ReadForDefault, ReadForAuth,
           ReadForApp, Arrives, TopAt
    <3>2. Top \in Frames
      BY <3>1 DEF Top
    <3> QED
      BY <3>1, <3>2 DEF Frames
  <2>2. ScanFrom(Top.slot + 1) \in Frames
    BY <2>1, ScanFromType, Sizes DEF Slots, NoSlot
  <2>3. Release(Top.slot) \in [Slots -> Sessions]
    BY ReleaseType
  <2>4. ASSUME NEW e \in Frames, Resume(e) PROVE stack' \in Seq(Frames)
    BY <2>1, <2>4, YieldStack DEF Resume
  <2>5. ASSUME Return PROVE stack' \in Seq(Frames)
    BY <2>1, <2>5 DEF Return
  <2>6. ASSUME NEW s \in Slots, NEW p \in {"expire", "deliver"}
        PROVE  [pc |-> p, slot |-> s] \in Frames
    BY DEF Frames
  <2>7. CASE ScanPasses
    BY <2>2, <2>4, <2>7 DEF ScanPasses
  <2>8. CASE ScanExpiresAuth
    BY <2>2, <2>3, <2>4, <2>8 DEF ScanExpiresAuth
  <2>9. CASE ScanCallsHandler
    <3>1. Top.slot \in Slots
      BY <2>9 DEF ScanCallsHandler, Due, Live
    <3> QED
      BY <2>4, <2>6, <2>9, <3>1 DEF ScanCallsHandler
  <2>10. CASE TimeoutHandlerReturns
    BY <2>2, <2>3, <2>4, <2>10 DEF TimeoutHandlerReturns
  <2>11. CASE AnswerHandlerReturns
    BY <2>3, <2>5, <2>11 DEF AnswerHandlerReturns
  <2>12. CASE ReadNothing
    BY <2>5, <2>12 DEF ReadNothing
  <2>13. ASSUME NEW id \in wire \cup ServerIds, ReadForDefault(id) PROVE TypeInv'
    BY <2>5, <2>13 DEF ReadForDefault, Arrives
  <2>14. ASSUME NEW id \in wire \cup ServerIds, ReadForAuth(id) PROVE TypeInv'
    <3>1. sessions' \in [Slots -> Sessions]
      BY <2>14, ReleaseType DEF ReadForAuth
    <3> QED
      BY <2>5, <2>14, <3>1 DEF ReadForAuth, Arrives
  <2>15. ASSUME NEW id \in wire \cup ServerIds, ReadForApp(id) PROVE TypeInv'
    <3>1. stack' \in Seq(Frames)
      BY <2>4, <2>6, <2>15 DEF ReadForApp, Find
    <3> QED
      BY <2>15, <3>1 DEF ReadForApp, Arrives
  <2> QED
    BY <1>4, <2>7, <2>8, <2>9, <2>10, <2>11, <2>12, <2>13, <2>14, <2>15 DEF YieldStep
<1>5. CASE Auth
  <2>1. NextPacketId \in Ids /\ NextPacketId \in 0..MaxMessageId
    BY NextPacketIdType, Sizes DEF Ids
  <2> QED
    BY <1>5, <2>1 DEF Auth
<1>6. CASE AuthStart
  <2>1. sessions' \in [Slots -> Sessions] /\ wire' \subseteq Ids /\ pending' \subseteq Ids
    BY <1>6, SendMessageType DEF AuthStart
  <2> QED
    BY <1>6, <2>1 DEF AuthStart
<1>7. CASE AuthRetries \/ AuthReturns
  BY <1>7 DEF AuthRetries, AuthReturns
<1>8. ASSUME NEW s \in Slots, TimerExpires(s) PROVE TypeInv'
  <2>1. sessions' \in [Slots -> Sessions]
    BY <1>8 DEF TimerExpires, Sessions
  <2> QED
    BY <1>8, <2>1 DEF TimerExpires
<1>9. ASSUME NEW id \in Ids, AnswerLost(id) PROVE TypeInv'
  BY <1>9 DEF AnswerLost
<1>10. CASE UNCHANGED vars
  BY <1>10 DEF vars
<1> QED
  BY <1>1, <1>2, <1>3, <1>4, <1>5, <1>6, <1>7, <1>8, <1>9, <1>10 DEF Next, AuthStep

\* Every variable of the CoAP client keeps its type, however deep yields nest: message
\* ids stay within 16 bits and the scan within the table.
THEOREM TypeCorrect == Spec => []TypeOK
<1>1. TypeInv => TypeOK
  BY DEF TypeInv
<1> QED
  BY <1>1, TypeInit, TypeStep, PTL DEF Spec
-----------------------------------------------------------------------------
(* The life of a session, for handlers that do not yield.                  *)

NoNestedYield == "yield" \notin OnAnswer \cup OnTimeout

\* The handler of the session in slot s is being called.
HandlerRuns(s) == (TopAt("expire") \/ TopAt("deliver")) /\ Top.slot = s

\* One yield at a time; the scan is at a slot, and the session whose handler runs
\* is in the table.
StackInv ==
  /\ stack = <<>> \/ \E frame \in Frames : stack = <<frame>>
  /\ TopAt("scan") => Top.slot \in Slots
  /\ \A s \in Slots \cup {NoSlot} :
       HandlerRuns(s) => s \in Live /\ sessions[s].handler = "app"

\* A slot is empty altogether, and the id finds the session.
TableInv ==
  /\ \A s \in Slots : sessions[s].message_id = 0 <=> sessions[s].handler = "none"
  /\ \A s, t \in Live : sessions[s].message_id = sessions[t].message_id => s = t

\* A session in the table waits for its handler unless the handler is running.
PendingInv ==
  /\ pending \subseteq LiveIds
  /\ \A s \in Live : HandlerRuns(s) <=> sessions[s].message_id \notin pending

\* The id of an authentication belongs to its own session only, which is gone as
\* soon as there is a result.
AuthInv ==
  /\ auth_pc = "start" => stack = <<>>
  /\ auth_pc # "idle" =>
       \A s \in Slots : sessions[s].message_id = auth_mid => sessions[s].handler = "auth"
  /\ \A s \in Slots :
       sessions[s].handler = "auth" =>
         auth_pc = "wait" /\ auth_state = "INITIAL" /\ sessions[s].message_id = auth_mid

SessionInv == StackInv /\ TableInv /\ PendingInv /\ AuthInv

\* One frame replaced, pushed or removed.
LEMMA OnlyFrame ==
  ASSUME NEW e, NEW f
  PROVE  /\ <<e>> # <<>> /\ <<e>>[1] = e
         /\ Tail(<<e>>) = <<>> /\ <<f>> \o Tail(<<e>>) = <<f>> /\ <<f>> \o <<>> = <<f>>
  OBVIOUS

\* A request with a new id takes an empty slot or none.
LEMMA SendKeeps ==
  ASSUME TypeInv, TableInv, PendingInv, StackInv,
         NEW id \in Ids, id \notin LiveIds, NEW handler \in {"none", "auth", "app"},
         SendMessage(id, handler), UNCHANGED stack
  PROVE  /\ TableInv' /\ PendingInv' /\ StackInv'
         /\ \A s \in Slots :
              \/ sessions'[s] = sessions[s]
              \/ /\ handler # "none" /\ sessions'[s].handler = handler
                 /\ sessions'[s].message_id = id
<1> USE DEF TypeInv, TypeOK
<1>1. CASE handler = "none" \/ FindEmpty = {}
  <2>1. UNCHANGED <<sessions, pending, stack>>
    BY <1>1 DEF SendMessage
  <2> QED
    BY <2>1 DEF TableInv, PendingInv, StackInv, HandlerRuns, TopAt, Top, Live, LiveIds
<1>2. CASE ~(handler = "none" \/ FindEmpty = {})
  <2>1. PICK slot \in FindEmpty :
          /\ sessions' = [sessions EXCEPT ![slot] =
                            [message_id |-> id, handler |-> handler, expired |-> FALSE]]
          /\ pending' = pending \cup {id}
    BY <1>2 DEF SendMessage
  <2>2. slot \in Slots /\ sessions[slot].message_id = 0
    BY DEF FindEmpty, Find
  <2>3. /\ sessions'[slot] = [message_id |-> id, handler |-> handler, expired |-> FALSE]
        /\ \A s \in Slots \ {slot} : sessions'[s] = sessions[s]
    BY <2>1, <2>2
  <2>4. id # 0 /\ \A s \in Live : sessions[s].message_id # id
    BY Sizes DEF Ids, LiveIds
  <2>5. Live' = Live \cup {slot} /\ slot \notin Live
    BY <2>2, <2>3, <2>4 DEF Live
  <2>6. \A s : HandlerRuns(s)' <=> HandlerRuns(s)
    BY DEF HandlerRuns, TopAt, Top
  <2>7. ~HandlerRuns(slot)
    BY <2>2, <2>5 DEF StackInv
  <2>8. TableInv'
    <3>1. \A s \in Slots : sessions'[s].message_id = 0 <=> sessions'[s].handler = "none"
      BY <1>2, <2>2, <2>3, <2>4 DEF TableInv
    <3>2. \A s \in Live' : s = slot \/ (s \in Live /\ s # slot /\ sessions'[s] = sessions[s])
      BY <2>3, <2>5 DEF Live
    <3>3. \A s, t \in Live' : sessions'[s].message_id = sessions'[t].message_id => s = t
      BY <2>3, <2>4, <3>2 DEF TableInv
    <3> QED
      BY <3>1, <3>3 DEF TableInv
  <2>9. pending' \subseteq LiveIds'
    BY <2>1, <2>3, <2>5 DEF PendingInv, LiveIds, Live
  <2>10. PendingInv'
    BY <2>1, <2>3, <2>4, <2>5, <2>6, <2>7, <2>9 DEF PendingInv
  <2>11. StackInv'
    BY <2>3, <2>5, <2>6 DEF StackInv, TopAt, Top, Live
  <2> QED
    BY <1>2, <2>3, <2>8, <2>10, <2>11
<1> QED
  BY <1>1, <1>2

\* The session of a request is released once its handler has been called.
LEMMA ReleaseKeeps ==
  ASSUME TypeInv, TableInv, PendingInv,
         NEW s \in Live, sessions' = Release(s),
         pending' = pending \ {sessions[s].message_id},
         \A t \in Live \ {s} : ~HandlerRuns(t),
         ~TopAt("expire")', ~TopAt("deliver")'
  PROVE  /\ TableInv' /\ PendingInv'
         /\ sessions'[s] = Empty /\ \A t \in Slots \ {s} : sessions'[t] = sessions[t]
<1> USE DEF TypeInv, TypeOK
<1>1. s \in Slots
  BY DEF Live
<1>2. sessions'[s] = Empty /\ \A t \in Slots \ {s} : sessions'[t] = sessions[t]
  BY <1>1 DEF Release
<1>3. Live' = Live \ {s}
  BY <1>1, <1>2 DEF Live, Empty
<1>4. TableInv'
  <2>1. \A t \in Slots : sessions'[t].message_id = 0 <=> sessions'[t].handler = "none"
    BY <1>2 DEF TableInv, Empty
  <2>2. \A t \in Live' : t \in Live /\ sessions'[t] = sessions[t]
    BY <1>2, <1>3 DEF Live
  <2>3. \A t, u \in Live' : sessions'[t].message_id = sessions'[u].message_id => t = u
    BY <2>2 DEF TableInv
  <2> QED
    BY <2>1, <2>3 DEF TableInv
<1>5. \A t : ~HandlerRuns(t)'
  BY DEF HandlerRuns
<1>6. \A t \in Live' : sessions'[t] = sessions[t] /\ sessions[t].message_id # sessions[s].message_id
  BY <1>1, <1>2, <1>3 DEF TableInv, Live
<1>7. \A t \in Live' : sessions'[t].message_id \in pending'
  BY <1>3, <1>6 DEF PendingInv
<1>8. pending' \subseteq LiveIds'
  <2> SUFFICES ASSUME NEW id \in pending' PROVE id \in LiveIds'
    OBVIOUS
  <2>1. PICK t \in Live : sessions[t].message_id = id
    BY DEF PendingInv, LiveIds
  <2>2. t \in Live'
    BY <1>3, <2>1
  <2> QED
    BY <1>6, <2>1, <2>2 DEF LiveIds
<1>9. PendingInv'
  BY <1>5, <1>7, <1>8 DEF PendingInv
<1> QED
  BY <1>2, <1>4, <1>9

\* The next place of the scan is a slot or the read: no handler runs there.
LEMMA ScanFromPlace ==
  ASSUME NEW s \in Nat, s > 0
  PROVE  /\ ScanFrom(s).pc \in {"scan", "read"}
         /\ ScanFrom(s).pc = "scan" => ScanFrom(s).slot \in Slots
  BY Sizes DEF ScanFrom, Slots

\* The stack becomes one frame without a handler, or empty.
LEMMA QuietStack ==
  ASSUME NEW frame \in Frames, frame.pc \in {"scan", "read"},
         frame.pc = "scan" => frame.slot \in Slots,
         stack' = <<>> \/ stack' = <<frame>>
  PROVE  StackInv' /\ ~TopAt("expire")' /\ ~TopAt("deliver")'
<1>1. stack' # <<>> => Top' = frame
  BY OnlyFrame DEF Top
<1>2. ~TopAt("expire")' /\ ~TopAt("deliver")'
  BY <1>1 DEF TopAt
<1>3. TopAt("scan")' => Top'.slot \in Slots
  BY <1>1 DEF TopAt
<1>4. stack' = <<>> \/ \E f \in Frames : stack' = <<f>>
  OBVIOUS
<1> QED
  BY <1>2, <1>3, <1>4 DEF StackInv, HandlerRuns

\* Moving between frames without a handler leaves sessions and requests alone.
LEMMA QuietKeeps ==
  ASSUME TableInv, PendingInv, ~TopAt("expire"), ~TopAt("deliver"),
         ~TopAt("expire")', ~TopAt("deliver")', UNCHANGED <<sessions, pending>>
  PROVE  TableInv' /\ PendingInv'
<1>1. \A s : ~HandlerRuns(s) /\ ~HandlerRuns(s)'
  BY DEF HandlerRuns
<1> QED
  BY <1>1 DEF TableInv, PendingInv, Live, LiveIds

\* A handler is called for a session that waits.
LEMMA CallKeeps ==
  ASSUME TypeInv, TableInv, PendingInv, ~TopAt("expire"), ~TopAt("deliver"),
         NEW s \in Live, sessions[s].handler = "app", NEW pc \in {"expire", "deliver"},
         stack' = <<[pc |-> pc, slot |-> s]>>,
         pending' = pending \ {sessions[s].message_id}, UNCHANGED sessions
  PROVE  StackInv' /\ TableInv' /\ PendingInv' /\ sessions[s].message_id \in pending
<1>1. s \in Slots /\ [pc |-> pc, slot |-> s] \in Frames
  BY DEF Live, Frames
<1>2. Top' = [pc |-> pc, slot |-> s] /\ stack' # <<>>
  BY OnlyFrame DEF Top
<1>3. \A t : ~HandlerRuns(t)
  BY DEF HandlerRuns
<1>4. \A t : HandlerRuns(t)' <=> t = s
  BY <1>2 DEF HandlerRuns, TopAt
<1>5. Live' = Live /\ LiveIds' = LiveIds
  BY DEF Live, LiveIds
<1>6. StackInv'
  BY <1>1, <1>2, <1>4, <1>5 DEF StackInv, TopAt
<1>7. TableInv'
  BY <1>5 DEF TableInv
<1>8. PendingInv'
  BY <1>3, <1>4, <1>5 DEF PendingInv, TableInv
<1> QED
  BY <1>3, <1>6, <1>7, <1>8 DEF PendingInv

\* While handlers do not yield, a yield starts on an empty stack.
LEMMA YieldFromMain ==
  ASSUME NoNestedYield, MayCall("yield")
  PROVE  MainRuns
  BY DEF NoNestedYield, MayCall

\* The stack has one frame when a yield is under way.
LEMMA YieldFrame ==
  ASSUME StackInv, NEW pc, TopAt(pc)
  PROVE  /\ Tail(stack) = <<>> /\ \A e : <<e>> \o Tail(stack) = <<e>>
         /\ Top \in Frames /\ Top.slot \in Slots \cup {NoSlot}
<1>1. PICK frame \in Frames : stack = <<frame>>
  BY DEF StackInv, TopAt
<1>2. Top = frame
  BY <1>1, OnlyFrame DEF Top
<1> QED
  BY <1>1, <1>2, OnlyFrame DEF Frames

\* There is one session of the authentication at most, and it has its id.
LEMMA AuthSessionAlone ==
  ASSUME TypeInv, TableInv, AuthInv, NEW s \in Slots, sessions[s].handler = "auth"
  PROVE  /\ s \in Live
         /\ \A t \in Slots \ {s} : /\ sessions[t].handler # "auth"
                                   /\ sessions[t].message_id # auth_mid
<1>1. auth_pc = "wait" /\ sessions[s].message_id = auth_mid /\ auth_mid # 0
  BY Sizes DEF AuthInv, TypeInv, AuthHasId, Ids
<1>2. s \in Live
  BY <1>1 DEF Live
<1>3. ASSUME NEW t \in Slots \ {s}
      PROVE  sessions[t].handler # "auth" /\ sessions[t].message_id # auth_mid
  <2>1. sessions[t].message_id = auth_mid => t = s
    BY <1>1, <1>2 DEF TableInv, Live
  <2>2. sessions[t].handler = "auth" => sessions[t].message_id = auth_mid
    BY DEF AuthInv
  <2> QED
    BY <2>1, <2>2
<1> QED
  BY <1>2, <1>3

\* The handler of a session has returned: the slot is empty, nothing else changes.
LEMMA HandlerReturns ==
  ASSUME TypeInv, SessionInv, NEW pc \in {"expire", "deliver"}, TopAt(pc),
         sessions' = Release(Top.slot), UNCHANGED <<pending, auth_pc, auth_state, auth_mid>>,
         ~TopAt("expire")', ~TopAt("deliver")'
  PROVE  TableInv' /\ PendingInv' /\ (auth_pc # "start" => AuthInv')
<1> USE DEF SessionInv
<1>1. Top.slot \in Slots \cup {NoSlot} /\ HandlerRuns(Top.slot)
  BY YieldFrame DEF HandlerRuns, TopAt
<1>2. Top.slot \in Live /\ sessions[Top.slot].handler = "app"
  BY <1>1 DEF StackInv
<1>3. pending' = pending \ {sessions[Top.slot].message_id}
  BY <1>1, <1>2 DEF PendingInv
<1>4. \A t \in Live \ {Top.slot} : ~HandlerRuns(t)
  BY DEF HandlerRuns
<1>5. /\ TableInv' /\ PendingInv' /\ sessions'[Top.slot] = Empty
      /\ \A t \in Slots \ {Top.slot} : sessions'[t] = sessions[t]
  BY <1>2, <1>3, <1>4, ReleaseKeeps
<1>6. auth_pc # "start" => AuthInv'
  <2> SUFFICES ASSUME auth_pc # "start" PROVE AuthInv'
    OBVIOUS
  <2>1. auth_pc # "idle" => auth_mid # 0
    BY Sizes DEF TypeInv, AuthHasId, Ids
  <2> QED
    BY <1>5, <2>1 DEF AuthInv, Empty
<1> QED
  BY <1>5, <1>6

\* The session of the authentication is released with a result.
LEMMA AuthResult ==
  ASSUME TypeInv, SessionInv, ~TopAt("expire"), ~TopAt("deliver"),
         NEW s \in Slots, sessions[s].handler = "auth", sessions' = Release(s),
         pending' = pending \ {sessions[s].message_id}, UNCHANGED <<auth_pc, auth_mid>>,
         ~TopAt("expire")', ~TopAt("deliver")'
  PROVE  TableInv' /\ PendingInv' /\ AuthInv'
<1> USE DEF SessionInv
<1>1. /\ s \in Live
      /\ \A t \in Slots \ {s} : sessions[t].handler # "auth" /\ sessions[t].message_id # auth_mid
  BY AuthSessionAlone
<1>2. \A t \in Live \ {s} : ~HandlerRuns(t)
  BY DEF HandlerRuns
<1>3. /\ TableInv' /\ PendingInv' /\ sessions'[s] = Empty
      /\ \A t \in Slots \ {s} : sessions'[t] = sessions[t]
  BY <1>1, <1>2, ReleaseKeeps
<1>4. auth_pc = "wait" /\ auth_mid # 0
  BY Sizes DEF AuthInv, TypeInv, AuthHasId, Ids
<1>5. \A t \in Slots : sessions'[t].handler # "auth" /\ sessions'[t].message_id # auth_mid
  BY <1>1, <1>3, <1>4 DEF Empty
<1>6. AuthInv'
  BY <1>4, <1>5 DEF AuthInv
<1> QED
  BY <1>3, <1>6

\* The table is empty at first.
LEMMA SessionInit == Init => SessionInv
<1> SUFFICES ASSUME Init PROVE SessionInv
  OBVIOUS
<1>1. \A s \in Slots : sessions[s] = Empty
  BY DEF Init
<1>2. Live = {}
  BY <1>1 DEF Live, Empty
<1> QED
  BY <1>1, <1>2 DEF Init, SessionInv, StackInv, TableInv, PendingInv, AuthInv, HandlerRuns,
       TopAt, Empty

\* The steps of a yield.
LEMMA YieldStepKeeps ==
  ASSUME TypeInv, SessionInv, YieldStep
  PROVE  SessionInv'
<1> USE DEF SessionInv
<1>1. ASSUME TopAt("scan") PROVE ScanFrom(Top.slot + 1) \in Frames /\ Top.slot + 1 \in Nat /\ Top.slot + 1 > 0
  <2>1. Top.slot + 1 \in Nat /\ Top.slot + 1 > 0
    BY <1>1, Sizes DEF StackInv, Slots
  <2> QED
    BY <2>1, ScanFromType
<1>2. ASSUME TopAt("scan"), Resume(ScanFrom(Top.slot + 1))
      PROVE  StackInv' /\ ~TopAt("expire")' /\ ~TopAt("deliver")'
  <2>1. stack' = <<ScanFrom(Top.slot + 1)>>
    BY <1>2, YieldFrame DEF Resume
  <2> QED
    BY <1>1, <1>2, <2>1, ScanFromPlace, QuietStack
<1>3. ASSUME NEW pc, TopAt(pc), Return
      PROVE  stack' = <<>> /\ StackInv' /\ ~TopAt("expire")' /\ ~TopAt("deliver")'
  <2>1. stack' = <<>>
    BY <1>3, YieldFrame DEF Return
  <2> QED
    BY <2>1 DEF StackInv, TopAt, HandlerRuns
<1>4. stack # <<>> /\ auth_pc # "start"
  <2>1. stack # <<>>
    BY DEF YieldStep, ScanPasses, ScanExpiresAuth, ScanCallsHandler, ReadNothing,
         TimeoutHandlerReturns, AnswerHandlerReturns, ReadForDefault, ReadForAuth,
         ReadForApp, Arrives, TopAt
  <2> QED
    BY <2>1 DEF AuthInv
<1>5. ASSUME NEW pc \in {"scan", "read"}, TopAt(pc) PROVE ~TopAt("expire") /\ ~TopAt("deliver")
  BY <1>5 DEF TopAt
<1>6. ASSUME UNCHANGED <<sessions, auth_state, auth_pc, auth_mid>> PROVE AuthInv'
  BY <1>4, <1>6 DEF AuthInv
<1>7. CASE ScanPasses
  BY <1>2, <1>5, <1>6, <1>7, QuietKeeps DEF ScanPasses
<1>8. CASE ScanExpiresAuth
  BY <1>2, <1>5, <1>8, AuthResult DEF ScanExpiresAuth, Due, Live
<1>9. CASE ScanCallsHandler
  <2>1. stack' = <<[pc |-> "expire", slot |-> Top.slot]>>
    BY <1>9, YieldFrame DEF ScanCallsHandler, Resume
  <2> QED
    BY <1>5, <1>6, <1>9, <2>1, CallKeeps DEF ScanCallsHandler, Due
<1>10. CASE TimeoutHandlerReturns
  <2>1. ScanFrom(Top.slot + 1) \in Frames /\ Top.slot + 1 \in Nat /\ Top.slot + 1 > 0
    <3>1. Top.slot + 1 \in Nat /\ Top.slot + 1 > 0
      BY <1>10, YieldFrame, Sizes DEF TimeoutHandlerReturns, Slots, NoSlot
    <3> QED
      BY <3>1, ScanFromType
  <2>2. stack' = <<ScanFrom(Top.slot + 1)>>
    BY <1>10, YieldFrame DEF TimeoutHandlerReturns, Resume
  <2>3. StackInv' /\ ~TopAt("expire")' /\ ~TopAt("deliver")'
    BY <2>1, <2>2, ScanFromPlace, QuietStack
  <2> QED
    BY <1>4, <1>10, <2>3, HandlerReturns DEF TimeoutHandlerReturns
<1>11. CASE AnswerHandlerReturns
  BY <1>3, <1>4, <1>11, HandlerReturns DEF AnswerHandlerReturns
<1>12. CASE ReadNothing
  BY <1>3, <1>5, <1>6, <1>12, QuietKeeps DEF ReadNothing
<1>13. ASSUME NEW id \in wire \cup ServerIds, ReadForDefault(id) PROVE SessionInv'
  BY <1>3, <1>5, <1>6, <1>13, QuietKeeps DEF ReadForDefault, Arrives
<1>14. ASSUME NEW id \in wire \cup ServerIds, ReadForAuth(id) PROVE SessionInv'
  <2>1. PICK s \in Find(id) : sessions[s].handler = "auth" /\ sessions' = Release(s)
    BY <1>14 DEF ReadForAuth
  <2>2. s \in Slots /\ sessions[s].message_id = id
    BY DEF Find
  <2>3. TopAt("read") /\ Return
    BY <1>14 DEF ReadForAuth, Arrives
  <2> QED
    BY <1>3, <1>5, <1>14, <2>1, <2>2, <2>3, AuthResult DEF ReadForAuth
<1>15. ASSUME NEW id \in wire \cup ServerIds, ReadForApp(id) PROVE SessionInv'
  <2>1. PICK s \in Find(id) : sessions[s].handler = "app" /\ Resume([pc |-> "deliver", slot |-> s])
    BY <1>15 DEF ReadForApp
  <2>2. s \in Live /\ sessions[s].message_id = id
    BY <2>1 DEF Find, Live, TableInv
  <2>3. TopAt("read")
    BY <1>15 DEF ReadForApp, Arrives
  <2>4. stack' = <<[pc |-> "deliver", slot |-> s]>>
    BY <2>1, <2>3, YieldFrame DEF Resume
  <2> QED
    BY <1>5, <1>6, <1>15, <2>1, <2>2, <2>3, <2>4, CallKeeps DEF ReadForApp
<1> QED
  BY <1>7, <1>8, <1>9, <1>10, <1>11, <1>12, <1>13, <1>14, <1>15 DEF YieldStep

\* Every step keeps the sessions, where no handler yields.
LEMMA SessionStep ==
  ASSUME NoNestedYield
  PROVE  TypeInv /\ SessionInv /\ [Next]_vars => SessionInv'
<1> SUFFICES ASSUME TypeInv, SessionInv, [Next]_vars PROVE SessionInv'
  OBVIOUS
<1> USE DEF SessionInv
<1>1. NextPacketId \in Ids /\ (auth_pc # "idle" => auth_mid \in Ids)
  BY NextPacketIdType DEF TypeInv, TypeOK, AuthHasId
<1>2. ASSUME UNCHANGED <<sessions, stack, pending>>
      PROVE  StackInv' /\ TableInv' /\ PendingInv'
  BY <1>2 DEF StackInv, TableInv, PendingInv, HandlerRuns, TopAt, Top, Live, LiveIds
<1>3. ASSUME stack = <<>>, EnterYield, UNCHANGED <<sessions, pending>>
      PROVE  StackInv' /\ TableInv' /\ PendingInv'
  <2>1. stack' = <<ScanFrom(1)>>
    BY <1>3, OnlyFrame DEF EnterYield
  <2>2. StackInv' /\ ~TopAt("expire")' /\ ~TopAt("deliver")'
    BY <2>1, ScanFromType, ScanFromPlace, QuietStack
  <2>3. ~TopAt("expire") /\ ~TopAt("deliver")
    BY <1>3 DEF TopAt
  <2> QED
    BY <1>3, <2>2, <2>3, QuietKeeps
<1>4. ASSUME NEW handler \in {"none", "app"}, Send(handler) PROVE SessionInv'
  <2>1. /\ NextPacketId \notin LiveIds /\ (auth_pc # "idle" => NextPacketId # auth_mid)
        /\ SendMessage(NextPacketId, handler) /\ UNCHANGED stack
    BY <1>4 DEF Send, IdIsFresh
  <2>2. /\ TableInv' /\ PendingInv' /\ StackInv'
        /\ \A s \in Slots :
             \/ sessions'[s] = sessions[s]
             \/ sessions'[s].handler = handler /\ sessions'[s].message_id = NextPacketId
    BY <1>1, <2>1, SendKeeps
  <2>3. AuthInv'
    BY <1>4, <2>1, <2>2 DEF Send, AuthInv
  <2> QED
    BY <2>2, <2>3
<1>5. CASE SendTooLarge
  BY <1>2, <1>5 DEF SendTooLarge, AuthInv
<1>6. CASE Yield
  <2>1. MainRuns
    BY <1>6, YieldFromMain DEF Yield
  <2>2. StackInv' /\ TableInv' /\ PendingInv'
    BY <1>3, <1>6, <2>1 DEF Yield, MainRuns
  <2> QED
    BY <1>6, <2>1, <2>2 DEF Yield, AuthInv, MainRuns
<1>7. CASE YieldStep
  BY <1>7, YieldStepKeeps
<1>8. CASE Auth
  <2>1. StackInv' /\ TableInv' /\ PendingInv'
    BY <1>2, <1>8 DEF Auth
  <2>2. \A s \in Slots : sessions[s].message_id # NextPacketId
    BY <1>1, <1>8, Sizes DEF Auth, IdIsFresh, LiveIds, Live, Ids
  <2>3. AuthInv'
    BY <1>8, <2>2 DEF Auth, AuthInv, MainRuns
  <2> QED
    BY <2>1, <2>3
<1>9. CASE AuthStart
  <2>1. \A s \in Slots : sessions[s].message_id # auth_mid /\ sessions[s].handler # "auth"
    BY <1>9 DEF AuthStart, AuthInv
  <2>2. auth_mid \in Ids /\ auth_mid \notin LiveIds
    BY <1>1, <1>9, <2>1 DEF AuthStart, LiveIds, Live
  <2>3. /\ TableInv' /\ PendingInv' /\ StackInv'
        /\ \A s \in Slots :
             \/ sessions'[s] = sessions[s]
             \/ sessions'[s].handler = "auth" /\ sessions'[s].message_id = auth_mid
    BY <1>9, <2>2, SendKeeps DEF AuthStart
  <2>4. AuthInv'
    BY <1>9, <2>1, <2>3 DEF AuthStart, AuthInv
  <2> QED
    BY <2>3, <2>4
<1>10. CASE AuthYields
  BY <1>3, <1>10 DEF AuthYields, AuthInv
<1>11. CASE AuthRetries \/ AuthReturns
  <2>1. StackInv' /\ TableInv' /\ PendingInv'
    BY <1>2, <1>11 DEF AuthRetries, AuthReturns
  <2>2. \A s \in Slots : sessions[s].handler # "auth"
    BY <1>11 DEF AuthRetries, AuthReturns, AuthInv
  <2> QED
    BY <1>11, <2>1, <2>2 DEF AuthRetries, AuthReturns, AuthInv
<1>12. ASSUME NEW s \in Slots, TimerExpires(s) PROVE SessionInv'
  <2>1. \A t \in Slots : /\ sessions'[t].message_id = sessions[t].message_id
                        /\ sessions'[t].handler = sessions[t].handler
    BY <1>12 DEF TimerExpires, TypeInv, TypeOK, Sessions
  <2>2. Live' = Live
    BY <2>1 DEF Live
  <2>3. LiveIds' = LiveIds
    BY <2>1, <2>2 DEF LiveIds, Live
  <2>4. \A t : HandlerRuns(t)' <=> HandlerRuns(t)
    BY <1>12 DEF TimerExpires, HandlerRuns, TopAt, Top
  <2>5. StackInv'
    BY <1>12, <2>1, <2>2, <2>4 DEF TimerExpires, StackInv, TopAt, Top, Live
  <2>6. TableInv' /\ PendingInv'
    BY <1>12, <2>1, <2>2, <2>3, <2>4 DEF TimerExpires, TableInv, PendingInv, Live
  <2>7. AuthInv'
    BY <1>12, <2>1 DEF TimerExpires, AuthInv
  <2> QED
    BY <2>5, <2>6, <2>7
<1>13. ASSUME NEW id \in Ids, AnswerLost(id) PROVE SessionInv'
  BY <1>2, <1>13 DEF AnswerLost, AuthInv
<1>14. CASE UNCHANGED vars
  BY <1>2, <1>14 DEF vars, AuthInv
<1> QED
  BY <1>4, <1>5, <1>6, <1>7, <1>8, <1>9, <1>10, <1>11, <1>12, <1>13, <1>14 DEF Next, AuthStep

\* A handler is called by the scan or by a read, which leave the table alone.
LEMMA CallsHandlerStep ==
  ASSUME NoNestedYield, SessionInv, Next, CallsHandler
  PROVE  UNCHANGED sessions
<1> USE DEF SessionInv
<1>1. /\ stack # <<>> /\ stack' # <<>>
      /\ Top.pc \in {"scan", "read"} /\ Top'.pc \in {"expire", "deliver"}
  BY DEF CallsHandler
<1>2. ASSUME UNCHANGED stack PROVE FALSE
  BY <1>1, <1>2 DEF Top
<1>3. ASSUME NEW pc, TopAt(pc), Return PROVE FALSE
  <2>1. stack' = <<>>
    BY <1>3, YieldFrame DEF Return
  <2> QED
    BY <1>1, <2>1
<1>4. ASSUME TopAt("scan"), Resume(ScanFrom(Top.slot + 1)) PROVE FALSE
  <2>1. Top.slot + 1 \in Nat /\ Top.slot + 1 > 0
    BY <1>4, Sizes DEF StackInv, Slots
  <2>2. stack' = <<ScanFrom(Top.slot + 1)>>
    BY <1>4, YieldFrame DEF Resume
  <2>3. Top' = ScanFrom(Top.slot + 1)
    BY <2>2, OnlyFrame DEF Top
  <2> QED
    BY <1>1, <2>1, <2>3, ScanFromPlace
<1>5. CASE YieldStep
  <2>1. CASE ScanPasses \/ ScanExpiresAuth
    BY <1>4, <2>1 DEF ScanPasses, ScanExpiresAuth
  <2>2. CASE TimeoutHandlerReturns \/ AnswerHandlerReturns
    BY <1>1, <2>2 DEF TimeoutHandlerReturns, AnswerHandlerReturns, TopAt
  <2>3. CASE ReadNothing \/ \E id \in wire \cup ServerIds : ReadForDefault(id) \/ ReadForAuth(id)
    BY <1>3, <2>3 DEF ReadNothing, ReadForDefault, ReadForAuth, Arrives
  <2>4. CASE ScanCallsHandler \/ \E id \in wire \cup ServerIds : ReadForApp(id)
    BY <2>4 DEF ScanCallsHandler, ReadForApp
  <2> QED
    BY <1>5, <2>1, <2>2, <2>3, <2>4 DEF YieldStep
<1>6. CASE Yield \/ AuthYields
  BY <1>1, <1>6, YieldFromMain DEF Yield, AuthYields, MainRuns
<1> QED
  BY <1>2, <1>5, <1>6 DEF Next, AuthStep, Send, SendTooLarge, Auth, AuthStart, AuthRetries,
     AuthReturns, TimerExpires, AnswerLost

-----------------------------------------------------------------------------
(* Theorems.                                                               *)

\* So they are in every state.
LEMMA SessionCorrect ==
  ASSUME NoNestedYield
  PROVE  Spec => [](TypeInv /\ SessionInv)
<1>1. Init => TypeInv /\ SessionInv
  BY TypeInit, SessionInit
<1>2. TypeInv /\ SessionInv /\ [Next]_vars => TypeInv' /\ SessionInv'
  BY TypeStep, SessionStep
<1> QED
  BY <1>1, <1>2, PTL DEF Spec

\* When no handler yields, a request that waits for its handler keeps its session:
\* the release by slot after a handler never hits another request.
THEOREM PendingKept ==
  ASSUME NoNestedYield
  PROVE  Spec => []PendingIsInTable
<1>1. SessionInv => PendingIsInTable
  BY DEF SessionInv, PendingInv, PendingIsInTable
<1> QED
  BY <1>1, SessionCorrect, PTL

\* When no handler yields, the attempts of an authentication do not overlap, and it
\* leaves no session behind, whatever is lost, late or doubled.
THEOREM AuthAlone ==
  ASSUME NoNestedYield
  PROVE  Spec => []AuthHasOneSession
<1>1. TypeInv /\ SessionInv => AuthHasOneSession
  <2> SUFFICES ASSUME TypeInv, SessionInv PROVE AuthHasOneSession
    OBVIOUS
  <2>1. \A s, t \in AuthSessions : s = t
    BY AuthSessionAlone DEF SessionInv, AuthSessions
  <2> QED
    BY <2>1 DEF SessionInv, AuthInv, AuthHasOneSession, AuthSessions
<1> QED
  BY <1>1, SessionCorrect, PTL

\* When no handler yields, a handler is called only for a request that waits for it.
THEOREM HandlerCalledOnce ==
  ASSUME NoNestedYield
  PROVE  Spec => CalledOnce
<1>1. TypeInv /\ SessionInv /\ [Next]_vars
        => [CallsHandler => sessions[Top'.slot].message_id \in pending]_vars
  <2> SUFFICES ASSUME TypeInv, SessionInv, Next, CallsHandler
               PROVE  sessions[Top'.slot].message_id \in pending
    OBVIOUS
  <2> USE DEF SessionInv
  <2>1. \A s : ~HandlerRuns(s)
    BY DEF CallsHandler, HandlerRuns, TopAt
  <2>2. \A s \in Live : sessions[s].message_id \in pending
    BY <2>1 DEF PendingInv
  <2>3. SessionInv' /\ TypeInv'
    BY SessionStep, TypeStep
  <2>4. PICK frame \in Frames : stack' = <<frame>>
    BY <2>3 DEF CallsHandler, StackInv
  <2>5. Top' = frame
    BY <2>4, OnlyFrame DEF Top
  <2>6. frame.slot \in Slots \cup {NoSlot} /\ HandlerRuns(frame.slot)'
    BY <2>4, <2>5 DEF CallsHandler, HandlerRuns, TopAt, Frames
  <2>7. frame.slot \in Live'
    BY <2>3, <2>6 DEF StackInv
  <2>8. UNCHANGED sessions
    BY CallsHandlerStep
  <2>9. frame.slot \in Live
    BY <2>7, <2>8 DEF Live
  <2> QED
    BY <2>2, <2>5, <2>9
<1> QED
  BY <1>1, SessionCorrect, PTL DEF CalledOnce, Spec

-----------------------------------------------------------------------------
(* Building a request: every option is put in its place.                   *)

\* The lower numbers first.
Ordered(o) == \A p, q \in 1..Len(o) : p < q => o[p].number <= o[q].number

\* An option of its number and its value.
LEMMA OptionIs ==
  ASSUME NEW x \in ShortOptions
  PROVE  x.number \in 0..268 /\ x.number \in Nat /\ x.value \in ShortValues /\ Option(x.number, x.value) = x
<1>1. x.number \in 0..268
  BY DEF ShortOptions
<1>2. x.value \in ShortValues
  BY DEF ShortOptions
<1>3. x = [number |-> x.number, value |-> x.value]
  BY DEF ShortOptions
<1>4. Option(x.number, x.value) = x
  BY <1>3, Zenon DEF Option
<1> QED
  BY <1>1, <1>2, <1>4

\* The numbers of the options.
LEMMA NumberOf ==
  ASSUME NEW o \in Seq(ShortOptions)
  PROVE  \A p \in 1..Len(o) : o[p] \in ShortOptions /\ o[p].number \in 0..268 /\ o[p].number \in Nat
<1>1. ASSUME NEW p \in 1..Len(o) PROVE o[p] \in ShortOptions
  OBVIOUS
<1> QED
  BY <1>1, OptionIs

\* How many options stay before a new one: those with numbers up to its own.
LEMMA BeforeIs ==
  ASSUME NEW o \in Seq(ShortOptions), Ordered(o), NEW number \in Nat
  PROVE  /\ Before(o, number) \in 0..Len(o)
         /\ \A p \in 1..Len(o) : p <= Before(o, number) <=> o[p].number <= number
<1> DEFINE stay == {i \in 1..Len(o) : o[i].number <= number}
           i == Before(o, number)
<1>1. Len(o) \in Nat /\ \A p \in 1..Len(o) : o[p].number \in Nat
  BY NumberOf
<1>2. i = IF stay = {} THEN 0 ELSE CHOOSE x \in stay : \A y \in stay : y <= x
  BY Zenon DEF Before
<1>3. CASE stay = {}
  <2>1. i = 0
    BY <1>2, <1>3
  <2>2. \A p \in 1..Len(o) : ~(p <= 0) /\ ~(o[p].number <= number)
    BY <1>3
  <2> HIDE DEF i
  <2> QED
    BY <1>1, <2>1, <2>2 DEF i
<1>4. CASE stay # {}
  <2>1. stay \subseteq 1..Len(o)
    OBVIOUS
  <2>2. i \in stay /\ \A y \in stay : y <= i
    <3> HIDE DEF stay, i
    <3>1. \E x \in stay : \A y \in stay : y <= x
      BY <1>1, <1>4, <2>1, Greatest
    <3> QED
      BY <1>2, <1>4, <3>1
  <2> HIDE DEF i
  <2>3. i \in 1..Len(o) /\ o[i].number <= number
    BY <2>2
  <2>4. ASSUME NEW p \in 1..Len(o) PROVE p <= i <=> o[p].number <= number
    <3>1. o[p].number <= number => p <= i
      BY <2>2
    <3>2. p < i => o[p].number <= o[i].number
      BY <2>3 DEF Ordered
    <3> QED
      BY <1>1, <2>3, <3>1, <3>2
  <2> QED
    BY <1>1, <2>3, <2>4 DEF i
<1> QED
  BY <1>3, <1>4

\* The options of a message after tc_iot_coap_message_add_option.
Moved(o, number, value) ==
  LET i == Before(o, number)
  IN  IF i = Len(o) THEN Append(o, Option(number, value))
      ELSE [j \in 1..(Len(o) + 1) |->
              CASE j = i + 1 -> Option(number, value)
                [] j = i + 2 -> o[i + 1]
                [] j = Len(o) + 1 /\ j # i + 2 -> Option(0, <<>>)
                [] OTHER -> o[j]]
Added(o, number, value) == IF Len(o) >= MaxOptions THEN o ELSE Moved(o, number, value)

\* The option is behind those that stay and before the one that does not, if any.
AddedAt(o, x, i, z) ==
  /\ i \in {Len(o), Len(o) - 1} /\ i >= 0
  /\ z \in Seq(ShortOptions) /\ Len(z) = Len(o) + 1 /\ Ordered(z)
  /\ z[i + 1] = x
  /\ \A p \in 1..Len(o) : z[IF p <= i THEN p ELSE p + 1] = o[p]
  /\ \A p \in 1..Len(o) : p <= i <=> o[p].number <= x.number

\* The last two of some places.
LEMMA LastTwo == \A i, n \in Int : i \in 0..n /\ i >= n - 1 /\ i # n => i = n - 1 /\ n >= 1
  OBVIOUS

\* A place before, at or behind another one.
LEMMA Thirds ==
  \A i, n \in Int : i = n - 1 /\ n >= 1 =>
    /\ \A j \in 1..(n + 1) : j = i + 1 \/ j = i + 2 \/ (j \in 1..i /\ j \in 1..n)
    /\ \A j \in 1..(n + 1), k \in 1..(n + 1) : j < k => j \in 1..i \/ j = i + 1
  OBVIOUS

\* Adding an option, of which at most one has to make room: all options stay, the lower numbers first.
LEMMA AddedIs ==
  ASSUME NEW o \in Seq(ShortOptions), Ordered(o), NEW x \in ShortOptions, Len(o) < MaxOptions,
         \A p, q \in 1..Len(o) : o[p].number > x.number /\ o[q].number > x.number => p = q
  PROVE  \E i : AddedAt(o, x, i, Added(o, x.number, x.value))
<1> DEFINE number == x.number
           z == Added(o, x.number, x.value)
<1>1. number \in 0..268 /\ number \in Nat /\ x.value \in ShortValues /\ Option(x.number, x.value) = x
  BY OptionIs
<1>2. Len(o) \in Nat /\ (\A p \in 1..Len(o) : o[p] \in ShortOptions /\ o[p].number \in Nat) /\ DOMAIN o = 1..Len(o)
  BY NumberOf
<1>3. Len(o) \in Int
  OBVIOUS
<1>4. PICK i : i = Before(o, number)
  OBVIOUS
<1>5. i \in 0..Len(o) /\ \A p \in 1..Len(o) : p <= i <=> o[p].number <= number
  <2> HIDE DEF number
  <2> QED
    BY <1>1, <1>4, BeforeIs
<1>6. i >= Len(o) - 1
  <2> SUFFICES ASSUME i < Len(o) - 1 PROVE FALSE
    BY <1>2, <1>5
  <2>1. i + 1 \in 1..Len(o) /\ i + 2 \in 1..Len(o) /\ ~(i + 1 <= i) /\ ~(i + 2 <= i) /\ i + 1 # i + 2
    BY <1>2, <1>5
  <2>2. o[i + 1].number > number /\ o[i + 2].number > number
    BY <1>1, <1>2, <1>5, <2>1
  <2> QED
    BY <2>1, <2>2
<1>7. z = Moved(o, number, x.value)
  BY <1>2 DEF Added, MaxOptions
<1>8. CASE i = Len(o)
  <2>1. z = Append(o, x)
    BY <1>1, <1>4, <1>7, <1>8, Zenon DEF Moved
  <2>2. /\ Append(o, x) \in Seq(ShortOptions) /\ Len(Append(o, x)) = Len(o) + 1
        /\ Append(o, x)[Len(o) + 1] = x /\ \A p \in 1..Len(o) : Append(o, x)[p] = o[p]
    OBVIOUS
  <2>3. z \in Seq(ShortOptions) /\ Len(z) = Len(o) + 1 /\ z[i + 1] = x /\ \A p \in 1..Len(o) : z[p] = o[p]
    BY <1>8, <2>1, <2>2
  <2> HIDE DEF z, number
  <2>4. \A p \in 1..Len(o) : p <= i
    BY <1>2, <1>8
  <2>5. Ordered(z)
    <3> SUFFICES ASSUME NEW p \in 1..Len(z), NEW q \in 1..Len(z), p < q PROVE z[p].number <= z[q].number
      BY DEF Ordered
    <3>1. p \in 1..Len(o) /\ z[p] = o[p] /\ o[p].number <= number
      BY <1>2, <1>5, <2>3, <2>4
    <3>2. CASE q = Len(o) + 1
      BY <1>8, <2>3, <3>1, <3>2 DEF number
    <3>3. CASE q # Len(o) + 1
      <4>1. q \in 1..Len(o)
        BY <1>2, <2>3, <3>3
      <4> QED
        BY <2>3, <3>1, <4>1 DEF Ordered
    <3> QED
      BY <3>2, <3>3
  <2>6. \A p \in 1..Len(o) : z[IF p <= i THEN p ELSE p + 1] = o[p]
    BY <2>3, <2>4
  <2>7. AddedAt(o, x, i, z)
    BY <1>2, <1>5, <1>8, <2>3, <2>5, <2>6 DEF AddedAt, number
  <2> QED
    BY <2>7 DEF z
<1>9. CASE i # Len(o)
  <2> DEFINE e(j) == CASE j = i + 1 -> x [] j = i + 2 -> o[i + 1]
                       [] j = Len(o) + 1 /\ j # i + 2 -> Option(0, <<>>) [] OTHER -> o[j]
  <2>1. i = Len(o) - 1 /\ Len(o) >= 1
    <3>1. i \in Int /\ Len(o) \in Int /\ i \in 0..Len(o)
      BY <1>2, <1>5
    <3> QED
      BY <1>6, <1>9, <3>1, LastTwo
  <2>2. z = [j \in 1..(Len(o) + 1) |-> e(j)]
    BY <1>1, <1>4, <1>7, <1>9, Zenon DEF Moved
  <2>3. /\ e(i + 1) = x /\ e(i + 2) = o[i + 1]
        /\ \A j \in 1..i : e(j) = o[j]
    <3> HIDE DEF e, z, number
    <3>6. i \in Int /\ Len(o) \in Int
      BY <1>2, <1>5
    <3>1. \A j \in 1..i : j # i + 1 /\ j # i + 2 /\ j # Len(o) + 1
      BY <2>1, <3>6
    <3>2. i + 1 # i + 2
      BY <3>6
    <3> USE DEF e
    <3>3. ASSUME NEW j \in 1..i PROVE e(j) = o[j]
      BY <3>1
    <3>7. i + 1 # Len(o) + 1
      BY <2>1, <3>6
    <3>4. e(i + 1) = x
      BY <3>2, <3>7
    <3>5. e(i + 2) = o[i + 1]
      BY <3>2
    <3> HIDE DEF e
    <3> QED
      BY <3>3, <3>4, <3>5
  <2> HIDE DEF e, z
  <2>4. \A j \in 1..(Len(o) + 1) : e(j) \in ShortOptions
    <3> SUFFICES ASSUME NEW j \in 1..(Len(o) + 1) PROVE e(j) \in ShortOptions
      OBVIOUS
    <3>1. j = i + 1 \/ j = i + 2 \/ (j \in 1..i /\ j \in 1..Len(o))
      <4>1. i \in Int /\ Len(o) \in Int
        BY <1>2, <1>5
      <4> QED
        BY <2>1, <4>1, Thirds
    <3>2. i + 1 \in 1..Len(o)
      BY <1>2, <2>1
    <3> QED
      BY <1>2, <2>3, <3>1, <3>2
  <2>5. z \in Seq(ShortOptions) /\ Len(z) = Len(o) + 1 /\ \A j \in 1..(Len(o) + 1) : z[j] = e(j)
    BY <1>2, <2>2, <2>4
  <2>6. z[i + 1] = x /\ z[i + 2] = o[i + 1] /\ \A j \in 1..i : z[j] = o[j]
    <3>1. i + 1 \in 1..(Len(o) + 1) /\ i + 2 \in 1..(Len(o) + 1) /\ \A j \in 1..i : j \in 1..(Len(o) + 1)
      BY <1>2, <2>1
    <3> QED
      BY <2>3, <2>5, <3>1
  <2> HIDE DEF number
  <2>7. ASSUME NEW p \in 1..Len(o) PROVE z[IF p <= i THEN p ELSE p + 1] = o[p]
    <3>1. CASE p <= i
      <4>1. p \in 1..i
        BY <1>2, <2>1, <3>1
      <4> QED
        BY <2>6, <3>1, <4>1
    <3>2. CASE ~(p <= i)
      <4>1. p = i + 1 /\ p + 1 = i + 2
        <5>1. PICK n \in Int : n = Len(o)
          BY <1>3, Zenon
        <5>2. p \in Int /\ p <= n
          BY <5>1
        <5>3. i = n - 1
          BY <2>1, <5>1
        <5> QED
          BY <3>2, <5>2, <5>3
      <4> QED
        BY <2>6, <3>2, <4>1
    <3> QED
      BY <3>1, <3>2
  <2>8. Ordered(z)
    <3> SUFFICES ASSUME NEW p \in 1..Len(z), NEW q \in 1..Len(z), p < q PROVE z[p].number <= z[q].number
      BY DEF Ordered
    <3>1. i + 1 \in 1..Len(o) /\ ~(i + 1 <= i) /\ o[i + 1].number > number
      BY <1>1, <1>2, <1>5, <2>1
    <3>2. \A j \in 1..i : j \in 1..Len(o) /\ o[j].number <= number
      BY <1>2, <1>5, <2>1
    <3>8. i \in Int /\ Len(o) \in Int /\ p \in 1..(Len(o) + 1) /\ q \in 1..(Len(o) + 1)
      BY <1>2, <1>5, <2>5
    <3>3. p \in 1..i \/ p = i + 1
      BY <2>1, <3>8, Thirds
    <3>4. q \in 1..i \/ q = i + 1 \/ q = i + 2
      BY <2>1, <3>8, Thirds
    <3>5. z[i + 1].number = number /\ z[i + 2].number = o[i + 1].number
      BY <2>6 DEF number
    <3>6. CASE p = i + 1
      <4>1. q = i + 2
        BY <1>5, <3>4, <3>6
      <4> QED
        BY <1>1, <1>2, <3>1, <3>5, <3>6, <4>1
    <3>7. CASE p \in 1..i
      <4>1. z[p].number = o[p].number /\ o[p].number <= number /\ p \in 1..Len(o)
        BY <2>6, <3>2, <3>7
      <4>2. CASE q \in 1..i
        BY <2>6, <3>2, <4>1, <4>2 DEF Ordered
      <4>3. CASE q = i + 1
        BY <3>5, <4>1, <4>3
      <4>4. CASE q = i + 2
        BY <1>1, <1>2, <3>1, <3>5, <4>1, <4>4
      <4> QED
        BY <3>4, <4>2, <4>3, <4>4
    <3> QED
      BY <3>3, <3>6, <3>7
  <2>9. AddedAt(o, x, i, z)
    BY <1>2, <1>5, <2>1, <2>5, <2>6, <2>7, <2>8 DEF AddedAt, number
  <2> QED
    BY <2>9 DEF z
<1> QED
  BY <1>8, <1>9

\* Where the first n of those added are.
Place(o, added, n, place) ==
  /\ place \in [1..n -> 1..n]
  /\ \A p \in 1..n : \E i \in 1..n : place[i] = p
  /\ \A i \in 1..n : o[place[i]] = added[i]
  /\ \A i, j \in 1..n :
       i < j => IF added[j].number < added[i].number THEN place[j] < place[i] ELSE place[i] < place[j]
Placed(o, added, n) ==
  /\ o \in Seq(ShortOptions) /\ Len(o) = n /\ Ordered(o)
  /\ \E place : Place(o, added, n, place)

\* An option that makes room for one other at most.
InPlace(added, k) ==
  \A j, l \in 1..(k - 1) :
    added[j].number > added[k].number /\ added[l].number > added[k].number => j = l

\* One option more is added, and each of those before is where it belongs.
LEMMA PlacedMore ==
  ASSUME NEW added \in Seq(ShortOptions), NEW k \in 1..Len(added), k <= MaxOptions, InPlace(added, k),
         NEW o, Placed(o, added, k - 1)
  PROVE  Placed(Added(o, added[k].number, added[k].value), added, k)
<1>1. PICK n \in Nat : n = k - 1
  OBVIOUS
<1>2. k = n + 1 /\ n < MaxOptions /\ n + 1 \in Nat
  <2>1. k \in Int /\ n \in Int
    OBVIOUS
  <2> QED
    BY <1>1, <2>1 DEF MaxOptions
<1>3. PICK x : x = added[k]
  OBVIOUS
<1>4. PICK place : Place(o, added, n, place)
  BY <1>1 DEF Placed
<1>5. o \in Seq(ShortOptions) /\ Len(o) = n /\ Ordered(o)
  BY <1>1 DEF Placed
<1>6. x \in ShortOptions /\ x.number \in Nat
  <2>1. x \in ShortOptions
    BY <1>3
  <2> QED
    BY <2>1, OptionIs
<1>7. \A p \in 1..n : o[p] \in ShortOptions /\ o[p].number \in Nat
  BY <1>5, NumberOf
<1>8. /\ place \in [1..n -> 1..n] /\ (\A p \in 1..n : \E i \in 1..n : place[i] = p)
      /\ \A i \in 1..n : o[place[i]] = added[i]
  BY <1>4 DEF Place
<1>9. \A i, j \in 1..n :
        i < j => IF added[j].number < added[i].number THEN place[j] < place[i] ELSE place[i] < place[j]
  BY <1>4 DEF Place
<1>10. \A p, q \in 1..Len(o) : o[p].number > x.number /\ o[q].number > x.number => p = q
  <2> SUFFICES ASSUME NEW p \in 1..n, NEW q \in 1..n, o[p].number > x.number, o[q].number > x.number
               PROVE  p = q
    BY <1>5
  <2>1. PICK i \in 1..n : place[i] = p
    BY <1>8
  <2>2. PICK j \in 1..n : place[j] = q
    BY <1>8
  <2>3. o[p] = added[i] /\ o[q] = added[j]
    BY <1>8, <2>1, <2>2
  <2>4. k \in DOMAIN added /\ i \in 1..(k - 1) /\ j \in 1..(k - 1)
    BY <1>2
  <2>5. i = j
    BY <1>3, <2>3, <2>4 DEF InPlace
  <2> QED
    BY <2>1, <2>2, <2>5
<1>11. PICK z : z = Added(o, x.number, x.value)
  OBVIOUS
<1>12. PICK i : AddedAt(o, x, i, z)
  <2>1. Len(o) < MaxOptions
    BY <1>2, <1>5
  <2>2. \E i : AddedAt(o, x, i, Added(o, x.number, x.value))
    BY <1>5, <1>6, <1>10, <2>1, AddedIs
  <2> QED
    BY <1>11, <2>2
<1>13. /\ i \in {n, n - 1} /\ i >= 0 /\ i \in Int
       /\ z \in Seq(ShortOptions) /\ Len(z) = n + 1 /\ Ordered(z) /\ z[i + 1] = x
       /\ \A p \in 1..n : z[IF p <= i THEN p ELSE p + 1] = o[p]
       /\ \A p \in 1..n : p <= i <=> o[p].number <= x.number
  BY <1>5, <1>12 DEF AddedAt
<1> DEFINE there(p) == IF p <= i THEN p ELSE p + 1
           next == [j \in 1..(n + 1) |-> IF j = n + 1 THEN i + 1 ELSE there(place[j])]
<1>14. next[n + 1] = i + 1 /\ \A j \in 1..n : next[j] = there(place[j])
  BY <1>2
<1>15. \A p \in 1..n : there(p) \in 1..(n + 1) /\ there(p) # i + 1 /\ (p <= i => there(p) < i + 1) /\ (~(p <= i) => there(p) > i + 1)
  BY <1>13
<1>16. \A p, q \in 1..n : p < q => there(p) < there(q)
  BY <1>13
<1>17. next \in [1..(n + 1) -> 1..(n + 1)]
  <2>1. ASSUME NEW j \in 1..(n + 1) PROVE (IF j = n + 1 THEN i + 1 ELSE there(place[j])) \in 1..(n + 1)
    <3> HIDE DEF there
    <3>1. i + 1 \in 1..(n + 1)
      BY <1>13
    <3>2. j # n + 1 => j \in 1..n
      OBVIOUS
    <3> QED
      BY <1>8, <1>15, <3>1, <3>2
  <2> HIDE DEF there
  <2> QED
    BY <2>1
<1> HIDE DEF next
<1>18. \A p \in 1..(n + 1) : \E j \in 1..(n + 1) : next[j] = p
  <2> SUFFICES ASSUME NEW p \in 1..(n + 1) PROVE \E j \in 1..(n + 1) : next[j] = p
    OBVIOUS
  <2>1. p = i + 1 \/ \E q \in 1..n : there(q) = p
    <3>1. CASE p <= i
      <4>1. p \in 1..n /\ there(p) = p
        BY <1>13, <3>1
      <4> QED
        BY <4>1
    <3>2. CASE p > i + 1
      <4>1. p - 1 \in 1..n /\ ~(p - 1 <= i) /\ p - 1 + 1 = p
        BY <1>13, <3>2
      <4>2. there(p - 1) = p
        BY <4>1
      <4> QED
        BY <4>1, <4>2
    <3> QED
      BY <1>13, <3>1, <3>2
  <2> HIDE DEF there
  <2>2. CASE p = i + 1
    <3>1. n + 1 \in 1..(n + 1)
      OBVIOUS
    <3> QED
      BY <1>14, <2>2, <3>1
  <2>3. ASSUME NEW q \in 1..n, there(q) = p PROVE \E j \in 1..(n + 1) : next[j] = p
    <3>1. PICK j \in 1..n : place[j] = q
      BY <1>8
    <3>2. j \in 1..(n + 1) /\ next[j] = p
      BY <1>14, <2>3, <3>1
    <3> QED
      BY <3>2
  <2> QED
    BY <2>1, <2>2, <2>3
<1>19. \A j \in 1..(n + 1) : z[next[j]] = added[j]
  <2> SUFFICES ASSUME NEW j \in 1..(n + 1) PROVE z[next[j]] = added[j]
    OBVIOUS
  <2>1. CASE j = n + 1
    BY <1>2, <1>3, <1>13, <1>14, <2>1
  <2>2. CASE j # n + 1
    <3>1. j \in 1..n
      BY <2>2
    <3>2. place[j] \in 1..n
      BY <1>8, <3>1
    <3>3. z[there(place[j])] = o[place[j]]
      BY <1>13, <3>2
    <3> HIDE DEF there
    <3> QED
      BY <1>8, <1>14, <3>1, <3>3
  <2> QED
    BY <2>1, <2>2
<1>20. \A a, b \in 1..(n + 1) :
         a < b => IF added[b].number < added[a].number THEN next[b] < next[a] ELSE next[a] < next[b]
  <2> SUFFICES ASSUME NEW a \in 1..(n + 1), NEW b \in 1..(n + 1), a < b
               PROVE  IF added[b].number < added[a].number THEN next[b] < next[a] ELSE next[a] < next[b]
    OBVIOUS
  <2> HIDE DEF there
  <2>1. a \in 1..n /\ place[a] \in 1..n /\ next[a] = there(place[a])
    <3>1. a \in 1..n
      OBVIOUS
    <3> QED
      BY <1>8, <1>14, <3>1
  <2>2. CASE b = n + 1
    <3>1. added[b] = x /\ next[b] = i + 1
      BY <1>2, <1>3, <1>14, <2>2
    <3>2. added[a] = o[place[a]]
      BY <1>8, <2>1
    <3>3. o[place[a]].number \in Nat /\ (place[a] <= i <=> o[place[a]].number <= x.number)
      BY <1>7, <1>13, <2>1
    <3>4. CASE place[a] <= i
      <4>1. next[a] < i + 1
        BY <1>15, <2>1, <3>4
      <4>2. ~(o[place[a]].number > x.number)
        BY <1>6, <3>3, <3>4
      <4> QED
        BY <1>6, <3>1, <3>2, <3>3, <4>1, <4>2
    <3>5. CASE ~(place[a] <= i)
      <4>1. next[a] > i + 1
        BY <1>15, <2>1, <3>5
      <4>2. x.number < o[place[a]].number
        BY <1>6, <3>3, <3>5
      <4> QED
        BY <1>13, <3>1, <3>2, <4>1, <4>2
    <3> QED
      BY <3>4, <3>5
  <2>3. CASE b # n + 1
    <3>1. b \in 1..n /\ place[b] \in 1..n /\ next[b] = there(place[b])
      <4>1. b \in 1..n
        BY <2>3
      <4> QED
        BY <1>8, <1>14, <4>1
    <3>2. IF added[b].number < added[a].number THEN place[b] < place[a] ELSE place[a] < place[b]
      BY <1>9, <2>1, <3>1
    <3>3. /\ place[b] < place[a] => there(place[b]) < there(place[a])
          /\ place[a] < place[b] => there(place[a]) < there(place[b])
      BY <1>16, <2>1, <3>1
    <3> QED
      BY <2>1, <3>1, <3>2, <3>3
  <2> QED
    BY <2>2, <2>3
<1>21. Place(z, added, n + 1, next)
  BY <1>17, <1>18, <1>19, <1>20 DEF Place
<1>22. Placed(z, added, n + 1)
  BY <1>13, <1>21 DEF Placed
<1> QED
  BY <1>2, <1>3, <1>11, <1>22

\* An option is put behind those that stay, at least.
LEMMA BeforeReaches ==
  ASSUME NEW o \in Seq(ShortOptions), NEW number \in Nat, NEW q \in 0..Len(o),
         q = 0 \/ o[q].number <= number
  PROVE  Before(o, number) \in q..Len(o)
<1> DEFINE stay == {i \in 1..Len(o) : o[i].number <= number}
           i == Before(o, number)
<1>1. i = IF stay = {} THEN 0 ELSE CHOOSE x \in stay : \A y \in stay : y <= x
  BY Zenon DEF Before
<1>2. Len(o) \in Nat /\ stay \subseteq 1..Len(o) /\ (q = 0 \/ q \in stay)
  OBVIOUS
<1> HIDE DEF stay, i
<1>3. CASE stay = {}
  BY <1>1, <1>2, <1>3 DEF i
<1>4. CASE stay # {}
  <2>1. \E x \in stay : \A y \in stay : y <= x
    BY <1>2, <1>4, Greatest
  <2>2. i \in stay /\ \A y \in stay : y <= i
    BY <1>1, <1>4, <2>1
  <2>3. i \in 1..Len(o) /\ q <= i
    BY <1>2, <2>2
  <2> QED
    BY <2>3 DEF i
<1> QED
  BY <1>3, <1>4

\* What an option does to the ones there are, wherever its place is: those before it stay,
\* and of more than one behind it the last is gone.
LEMMA MovedIs ==
  ASSUME NEW o \in Seq(ShortOptions), NEW x \in ShortOptions, Len(o) < MaxOptions,
         NEW i \in 0..Len(o), i = Before(o, x.number), NEW z, z = Added(o, x.number, x.value)
  PROVE  /\ z \in Seq(ShortOptions) /\ Len(z) = Len(o) + 1
         /\ \A p \in 1..i : z[p] = o[p]
         /\ i <= Len(o) - 2 => z[Len(o) + 1].number = 0 /\ z[Len(o)] \in {o[i + 1], o[Len(o)]}
<1>1. Option(x.number, x.value) = x
  BY OptionIs
<1>2. PICK n \in Nat : n = Len(o)
  OBVIOUS
<1>3. \A p \in 1..n : o[p] \in ShortOptions
  BY <1>2, NumberOf
<1>4. z = Moved(o, x.number, x.value)
  BY <1>2 DEF Added, MaxOptions
<1>5. PICK gone : gone = Option(0, <<>>)
  OBVIOUS
<1>6. gone \in ShortOptions /\ gone.number = 0
  <2>1. <<>> \in ShortValues
    BY DEF ShortValues
  <2>2. gone = [number |-> 0, value |-> <<>>]
    BY <1>5 DEF Option
  <2>3. 0 \in 0..268
    OBVIOUS
  <2> QED
    BY <2>1, <2>2, <2>3 DEF ShortOptions
<1>7. CASE i = n
  <2>1. z = Append(o, x)
    BY <1>1, <1>2, <1>4, <1>7, Zenon DEF Moved
  <2> QED
    BY <1>2, <1>7, <2>1
<1>8. CASE i # n
  <2> DEFINE at(j) == CASE j = i + 1 -> x
                        [] j = i + 2 -> o[i + 1]
                        [] j = n + 1 /\ j # i + 2 -> gone
                        [] OTHER -> o[j]
  <2>1. z = [j \in 1..(n + 1) |-> at(j)]
    BY <1>1, <1>2, <1>4, <1>5, <1>8, Zenon DEF Moved
  <2>2. i \in Nat /\ i < n /\ i + 1 \in 1..n
    BY <1>2, <1>8
  <2>3. ASSUME NEW j \in 1..(n + 1) PROVE at(j) \in ShortOptions
    <3>1. j = i + 1 \/ j = i + 2 \/ j = n + 1 \/ j \in 1..n
      BY <1>2
    <3> QED
      BY <1>2, <1>3, <1>6, <2>2, <3>1
  <2>4. \A j \in 1..(n + 1) : z[j] = at(j)
    BY <2>1
  <2>5. \A p \in 1..i : p \in 1..(n + 1) /\ at(p) = o[p]
    BY <1>2, <2>2
  <2>6. ASSUME i <= n - 2
        PROVE  n + 1 \in 1..(n + 1) /\ at(n + 1) = gone /\ n \in 1..(n + 1) /\ at(n) \in {o[i + 1], o[n]}
    BY <1>2, <2>2, <2>6
  <2> HIDE DEF at
  <2>7. z \in Seq(ShortOptions) /\ Len(z) = n + 1
    <3>1. z \in [1..(n + 1) -> ShortOptions]
      BY <2>1, <2>3
    <3> QED
      BY <3>1
  <2> QED
    BY <1>2, <1>6, <2>4, <2>5, <2>6, <2>7
<1> QED
  BY <1>2, <1>7, <1>8

\* A number behind a larger one: what is left when an option was lost.
Broken(o, n) ==
  /\ o \in Seq(ShortOptions) /\ Len(o) = n
  /\ \E p \in 1..(n - 1) : o[p].number > 0 /\ o[p + 1].number = 0

\* It stays, whatever is added.
LEMMA BrokenMore ==
  ASSUME NEW x \in ShortOptions, NEW n \in Nat, n < MaxOptions, NEW o, Broken(o, n)
  PROVE  Broken(Added(o, x.number, x.value), n + 1)
<1>1. o \in Seq(ShortOptions) /\ Len(o) = n /\ x.number \in Nat
  BY OptionIs DEF Broken
<1>2. PICK p \in 1..(n - 1) : o[p].number > 0 /\ o[p + 1].number = 0
  BY DEF Broken
<1>3. p + 1 \in 0..Len(o) /\ o[p + 1].number <= x.number
  BY <1>1, <1>2
<1>4. PICK i : i = Before(o, x.number)
  OBVIOUS
<1>5. i \in (p + 1)..n /\ i \in 0..Len(o)
  <2>1. PICK q \in 0..Len(o) : q = p + 1
    BY <1>3
  <2>2. PICK number \in Nat : number = x.number
    BY <1>1
  <2>3. Before(o, number) \in q..Len(o)
    <3>1. o[q].number <= number
      BY <1>3, <2>1, <2>2
    <3> QED
      BY <1>1, <3>1, BeforeReaches
  <2> QED
    BY <1>1, <1>2, <1>4, <2>1, <2>2, <2>3
<1>6. PICK z : z = Added(o, x.number, x.value)
  OBVIOUS
<1>7. z \in Seq(ShortOptions) /\ Len(z) = n + 1 /\ \A q \in 1..i : z[q] = o[q]
  BY <1>1, <1>4, <1>5, <1>6, MovedIs
<1>8. p \in 1..i /\ p + 1 \in 1..i /\ p \in 1..(n + 1 - 1)
  BY <1>5
<1> QED
  BY <1>2, <1>6, <1>7, <1>8 DEF Broken

\* An option that would have to make room for two others loses one.
LEMMA PlacedBreaks ==
  ASSUME NEW added \in Seq(ShortOptions), NEW k \in 1..Len(added), k <= MaxOptions, ~InPlace(added, k),
         NEW o, Placed(o, added, k - 1)
  PROVE  Broken(Added(o, added[k].number, added[k].value), k)
<1>1. PICK n \in Nat : n = k - 1 /\ k = n + 1 /\ n < MaxOptions
  <2>1. k \in Int /\ k - 1 \in Nat
    OBVIOUS
  <2> QED
    BY <2>1 DEF MaxOptions
<1>2. PICK x : x = added[k]
  OBVIOUS
<1>3. x \in ShortOptions /\ x.number \in Nat
  <2>1. x \in ShortOptions
    BY <1>2
  <2> QED
    BY <2>1, OptionIs
<1>4. o \in Seq(ShortOptions) /\ Len(o) = n /\ Ordered(o) /\ \A p \in 1..n : o[p].number \in Nat
  BY <1>1, NumberOf DEF Placed
<1>5. PICK place : Place(o, added, n, place)
  BY <1>1 DEF Placed
<1>6. PICK j \in 1..n, l \in 1..n : j # l /\ added[j].number > x.number /\ added[l].number > x.number
  BY <1>1, <1>2 DEF InPlace
<1>7. PICK i : i = Before(o, x.number)
  OBVIOUS
<1>8. i \in 0..n /\ \A p \in 1..n : p <= i <=> o[p].number <= x.number
  BY <1>3, <1>4, <1>7, BeforeIs
<1>9. place[j] \in 1..n /\ place[l] \in 1..n /\ o[place[j]] = added[j] /\ o[place[l]] = added[l]
  BY <1>5 DEF Place
<1>10. place[j] # place[l]
  <2>1. \A a, b \in 1..n : a < b => place[a] # place[b]
    <3>1. \A a \in 1..n : place[a] \in 1..n
      BY <1>5 DEF Place
    <3>2. \A a, b \in 1..n : a < b => place[b] < place[a] \/ place[a] < place[b]
      BY <1>5 DEF Place
    <3> QED
      BY <3>1, <3>2
  <2> QED
    BY <1>6, <2>1
<1>11. i < place[j] /\ i < place[l]
  <2>1. ASSUME NEW q \in 1..n, NEW y, y = o[q], y.number > x.number PROVE i < q
    <3>1. o[q].number \in Nat /\ (q <= i <=> o[q].number <= x.number)
      BY <1>4, <1>8
    <3>2. y.number \in Nat /\ (q <= i => y.number <= x.number)
      BY <2>1, <3>1
    <3> QED
      BY <1>3, <1>8, <2>1, <3>2
  <2> QED
    BY <1>6, <1>9, <2>1
<1>12. i <= n - 2 /\ i + 1 \in 1..n /\ n \in 1..n /\ ~(i + 1 <= i) /\ ~(n <= i)
  BY <1>8, <1>9, <1>10, <1>11
<1>13. o[i + 1].number > 0 /\ o[n].number > 0
  BY <1>3, <1>4, <1>8, <1>12
<1>14. PICK z : z = Added(o, x.number, x.value)
  OBVIOUS
<1>15. z \in Seq(ShortOptions) /\ Len(z) = n + 1 /\ z[n + 1].number = 0 /\ z[n] \in {o[i + 1], o[n]}
  BY <1>1, <1>3, <1>4, <1>7, <1>8, <1>12, <1>14, MovedIs
<1>16. n \in 1..(k - 1) /\ z[n].number > 0 /\ z[n + 1].number = 0
  BY <1>1, <1>12, <1>13, <1>15
<1> QED
  BY <1>1, <1>2, <1>14, <1>15, <1>16 DEF Broken

\* Such options are not in order.
LEMMA BrokenIsLoss ==
  ASSUME NEW added \in Seq(ShortOptions), NEW o, Broken(o, Len(added))
  PROVE  ~InOrder(o, added)
<1> SUFFICES ASSUME InOrder(o, added) PROVE FALSE
  OBVIOUS
<1>1. PICK n \in Nat : n = Len(added) /\ DOMAIN added = 1..n
  OBVIOUS
<1>2. PICK place \in [1..n -> 1..n] :
        /\ \A i \in 1..n : o[place[i]] = added[i]
        /\ \A i, j \in 1..n :
             i < j => IF added[j].number < added[i].number THEN place[j] < place[i] ELSE place[i] < place[j]
  BY <1>1, Zenon DEF InOrder
<1>3. PICK p \in 1..(n - 1) : o[p].number > 0 /\ o[p + 1].number = 0
  BY <1>1 DEF Broken
<1>4. place \in Surjection(1..n, 1..n)
  <2>1. \A i, j \in 1..n : place[i] = place[j] => i = j
    <3>1. \A i \in 1..n : place[i] \in 1..n
      OBVIOUS
    <3>2. \A i, j \in 1..n : i < j => place[j] < place[i] \/ place[i] < place[j]
      BY <1>2
    <3> QED
      BY <3>1, <3>2
  <2>2. place \in Injection(1..n, 1..n)
    BY <2>1 DEF Injection, IsInjective
  <2>3. IsFiniteSet(1..n)
    BY FS_Interval
  <2> QED
    BY <2>2, <2>3, FS_Injection
<1>5. p \in 1..n /\ p + 1 \in 1..n
  BY <1>3
<1>6. PICK a \in 1..n : place[a] = p
  BY <1>4, <1>5 DEF Surjection
<1>7. PICK b \in 1..n : place[b] = p + 1
  BY <1>4, <1>5 DEF Surjection
<1>8. added[a].number > 0 /\ added[b].number = 0
  BY <1>2, <1>3, <1>6, <1>7
<1>9. added[b].number < added[a].number
  <2>1. added[a].number \in Nat
    BY <1>1, NumberOf
  <2> QED
    BY <1>8, <2>1
<1>10. CASE a < b
  <2>1. place[b] < place[a]
    BY <1>2, <1>9, <1>10
  <2> QED
    BY <1>5, <1>6, <1>7, <2>1
<1>11. CASE b < a
  <2>1. ~(added[a].number < added[b].number)
    <3>1. added[a].number \in Nat /\ added[b].number \in Nat
      BY <1>1, NumberOf
    <3>2. \A m, l \in Nat : l = 0 => ~(m < l)
      OBVIOUS
    <3> QED
      BY <1>8, <3>1, <3>2, Zenon
  <2>2. place[b] < place[a]
    BY <1>2, <1>11, <2>1
  <2> QED
    BY <1>5, <1>6, <1>7, <2>2
<1>12. a # b
  BY <1>5, <1>6, <1>7
<1> QED
  BY <1>10, <1>11, <1>12

\* All that were added, or a loss.
Built(o, added, n) ==
  IF \A k \in 1..n : InPlace(added, k) THEN Placed(o, added, n) ELSE Broken(o, n)

\* One option more is added to what was built.
LEMMA BuiltMore ==
  ASSUME NEW added \in Seq(ShortOptions), NEW k \in 1..Len(added), k <= MaxOptions,
         NEW o, Built(o, added, k - 1)
  PROVE  Built(Added(o, added[k].number, added[k].value), added, k)
<1>1. k - 1 \in Nat /\ k - 1 + 1 = k /\ k - 1 < MaxOptions /\ k \in 1..k /\ added[k] \in ShortOptions
  BY DEF MaxOptions
<1>2. \A j \in 1..k : j = k \/ j \in 1..(k - 1)
  OBVIOUS
<1>3. \A j \in 1..(k - 1) : j \in 1..k
  OBVIOUS
<1>4. CASE \A j \in 1..k : InPlace(added, j)
  <2>1. InPlace(added, k) /\ Placed(o, added, k - 1)
    BY <1>1, <1>3, <1>4 DEF Built
  <2>2. Placed(Added(o, added[k].number, added[k].value), added, k)
    BY <2>1, PlacedMore
  <2> QED
    BY <1>4, <2>2, Zenon DEF Built
<1>5. CASE ~\A j \in 1..k : InPlace(added, j)
  <2>1. CASE \A j \in 1..(k - 1) : InPlace(added, j)
    <3>1. Placed(o, added, k - 1) /\ ~InPlace(added, k)
      BY <1>2, <1>5, <2>1 DEF Built
    <3>2. Broken(Added(o, added[k].number, added[k].value), k)
      BY <3>1, PlacedBreaks
    <3> QED
      BY <1>5, <3>2, Zenon DEF Built
  <2>2. CASE ~\A j \in 1..(k - 1) : InPlace(added, j)
    <3>1. Broken(o, k - 1)
      BY <2>2 DEF Built
    <3>2. Broken(Added(o, added[k].number, added[k].value), k)
      <4>1. Broken(Added(o, added[k].number, added[k].value), (k - 1) + 1)
        BY <1>1, <3>1, BrokenMore
      <4> QED
        BY <1>1, <4>1
    <3> QED
      BY <1>5, <3>2, Zenon DEF Built
  <2> QED
    BY <2>1, <2>2
<1> QED
  BY <1>4, <1>5

\* The message of a request.
Post(id, o, payload) ==
  [type |-> 0, code |-> 2, message_id |-> id, token |-> Token(id), options |-> o, payload |-> payload]

\* Adding an option to a message changes its options only.
LEMMA PostAdds ==
  ASSUME NEW id, NEW o, NEW payload, NEW number, NEW value
  PROVE  AddOption(Post(id, o, payload), number, value) = Post(id, Added(o, number, value), payload)
<1>1. Post(id, o, payload).options = o
  BY DEF Post
<1>2. AddOption(Post(id, o, payload), number, value) =
        IF Len(o) >= MaxOptions THEN Post(id, o, payload)
        ELSE [Post(id, o, payload) EXCEPT !.options = Moved(o, number, value)]
  BY <1>1 DEF AddOption, Moved
<1>3. ASSUME NEW z PROVE [Post(id, o, payload) EXCEPT !.options = z] = Post(id, z, payload)
  BY DEF Post
<1>4. CASE Len(o) >= MaxOptions
  BY <1>2, <1>4, Zenon DEF Added
<1>5. CASE ~(Len(o) >= MaxOptions)
  <2>1. AddOption(Post(id, o, payload), number, value) = [Post(id, o, payload) EXCEPT !.options = Moved(o, number, value)]
    BY <1>2, <1>5
  <2>2. Added(o, number, value) = Moved(o, number, value)
    BY <1>5 DEF Added
  <2> QED
    BY <1>3, <2>1, <2>2, Zenon
<1> QED
  BY <1>4, <1>5

\* Before the first is added.
LEMMA NonePlaced == ASSUME NEW added PROVE Placed(<<>>, added, 0)
<1> DEFINE place == [i \in 1..0 |-> i]
<1>1. 1..0 = {}
  OBVIOUS
<1>2. place \in [1..0 -> 1..0]
  BY <1>1
<1> HIDE DEF place
<1>3. Place(<<>>, added, 0, place)
  BY <1>1, <1>2 DEF Place
<1>4. <<>> \in Seq(ShortOptions) /\ Len(<<>>) = 0
  OBVIOUS
<1>5. Ordered(<<>>)
  BY <1>1, <1>4 DEF Ordered
<1> QED
  BY <1>3, <1>4, <1>5 DEF Placed

\* The same of what was built.
LEMMA NoneBuilt == ASSUME NEW added PROVE Built(<<>>, added, 0)
<1>1. 1..0 = {}
  OBVIOUS
<1>2. Placed(<<>>, added, 0)
  BY NonePlaced
<1> QED
  BY <1>1, <1>2 DEF Built

\* What was built has options that the datagram can hold, lost ones or not.
LEMMA BuiltIsShort == ASSUME NEW o, NEW added, NEW n, Built(o, added, n) PROVE o \in Seq(ShortOptions)
  BY DEF Built, Placed, Broken

\* The options of a message after all have been added.
LEMMA BuiltIs ==
  ASSUME NEW id, NEW added \in Seq(ShortOptions), Len(added) <= MaxOptions
  PROVE  \E o : /\ Built(o, added, Len(added))
                /\ WithOptions(Post(id, <<>>, <<>>), added) = Post(id, o, <<>>)
<1> DEFINE n == Len(added)
           base == Post(id, <<>>, <<>>)
           Pass(i, m) == AddOption(m, added[i].number, added[i].value)
           Loop(g) == g = [i \in 0..n |-> IF i = 0 THEN base ELSE Pass(i, g[i - 1])]
           built == CHOOSE g : Loop(g)
           Good(i, m) == \E o : Built(o, added, i) /\ m = Post(id, o, <<>>)
           D == {Post(id, o, <<>>) : o \in Seq(ShortOptions)}
           R == {x \in Nat \X D : Good(x[1], x[2])}
<1>1. n \in Nat /\ n <= MaxOptions
  OBVIOUS
<1>2. WithOptions(base, added) = built[n]
  BY DEF WithOptions
<1>3. ASSUME NEW i \in Nat, NEW m PROVE <<i, m>> \in R <=> Good(i, m)
  <2>1. Good(i, m) => m \in D
    BY BuiltIsShort
  <2> HIDE DEF Good, D
  <2> QED
    BY <2>1
<1>4. ASSUME NEW i \in 1..n, NEW m, Good(i - 1, m) PROVE Good(i, Pass(i, m))
  <2>1. PICK o : Built(o, added, i - 1) /\ m = Post(id, o, <<>>)
    BY <1>4
  <2>2. i \in 1..Len(added) /\ i <= MaxOptions
    BY <1>1 DEF MaxOptions
  <2>3. Built(Added(o, added[i].number, added[i].value), added, i)
    BY <2>1, <2>2, BuiltMore
  <2>4. Pass(i, m) = Post(id, Added(o, added[i].number, added[i].value), <<>>)
    BY <2>1, PostAdds
  <2> HIDE DEF Pass
  <2> QED
    BY <2>3, <2>4
<1>5. Good(0, base)
  BY NoneBuilt
<1>6. base \in D /\ \A i, m : Good(i, m) => m \in D
  BY <1>5, BuiltIsShort
<1> HIDE DEF Good, D, R, Pass, base, n
<1>7. \A i \in 1..n : i \in Nat /\ i - 1 \in Nat /\ i - 1 \in 0..n /\ i \in 0..n /\ i # 0
  BY <1>1
<1>8. \E g : Loop(g)
  <2> DEFINE step == [x \in Nat \X D |-> Pass(x[1], x[2])]
  <2>1. \A i \in Nat, m \in D : step[<<i, m>>] = Pass(i, m)
    OBVIOUS
  <2> HIDE DEF step
  <2>2. Keeps(D, R, step, n)
    BY <1>3, <1>4, <1>6, <1>7, <2>1 DEF Keeps
  <2>3. <<0, base>> \in R
    BY <1>3, <1>5
  <2>4. PICK g \in [0..n -> D] : g[0] = base /\ \A i \in 1..n : g[i] = step[<<i, g[i - 1]>>]
    <3>1. base \in D
      BY <1>6
    <3> QED
      <4>1. Loops(D, base, step, n)
        BY <1>1, <2>2, <2>3, <3>1, LoopReaches, Zenon
      <4> QED
        BY <4>1 DEF Loops
  <2>5. \A i \in 1..n : g[i] = Pass(i, g[i - 1])
    BY <1>7, <2>1, <2>4
  <2>6. ASSUME NEW i \in 0..n PROVE g[i] = IF i = 0 THEN base ELSE Pass(i, g[i - 1])
    BY <1>1, <2>4, <2>5
  <2>7. g = [i \in 0..n |-> g[i]]
    BY <2>4
  <2> QED
    BY <2>6, <2>7
<1>9. built = [i \in 0..n |-> IF i = 0 THEN base ELSE Pass(i, built[i - 1])]
  BY <1>8
<1> HIDE DEF built
<1>10. built[0] = base /\ \A i \in 1..n : built[i] = Pass(i, built[i - 1])
  <2>1. 0 \in 0..n
    BY <1>1
  <2> QED
    BY <1>7, <1>9, <2>1
<1>11. \A i \in 0..n : <<i, built[i]>> \in R
  <2>1. <<0, built[0]>> \in R
    BY <1>3, <1>5, <1>10
  <2>2. \A i \in 1..n : <<i - 1, built[i - 1]>> \in R => <<i, built[i]>> \in R
    BY <1>3, <1>4, <1>7, <1>10
  <2> QED
    BY <1>1, <2>1, <2>2, LoopKeeps
<1>12. Good(n, built[n])
  <2>1. n \in 0..n
    BY <1>1
  <2> QED
    BY <1>1, <1>3, <1>11, <2>1
<1> QED
  BY <1>2, <1>12 DEF Good, n, base

\* Options are added in order when each is.
LEMMA OrderIs ==
  ASSUME NEW added \in Seq(ShortOptions)
  PROVE  AddedInOrder(added) <=> \A k \in 1..Len(added) : InPlace(added, k)
<1>1. DOMAIN added = 1..Len(added)
  OBVIOUS
<1> QED
  BY <1>1, Zenon DEF AddedInOrder, InPlace

\* The request a caller builds.
LEMMA RequestBuilt ==
  ASSUME NEW id, NEW r, r.options \in Seq(ShortOptions), Len(r.options) <= MaxOptions
  PROVE  \E o : Built(o, r.options, Len(r.options)) /\ Request(id, r) = Post(id, o, r.payload)
<1>1. NewMessage(id, 0, 2) = Post(id, <<>>, <<>>)
  BY DEF NewMessage, Post
<1>2. PICK o : Built(o, r.options, Len(r.options)) /\ WithOptions(Post(id, <<>>, <<>>), r.options) = Post(id, o, <<>>)
  BY BuiltIs
<1>3. SetPayload(Post(id, o, <<>>), r.payload) = Post(id, o, r.payload)
  BY DEF SetPayload, Post
<1> QED
  BY <1>1, <1>2, <1>3, Zenon DEF Request

\* If its options are added in order, it has each of them, in place.
LEMMA RequestIs ==
  ASSUME NEW id, NEW r, r.options \in Seq(ShortOptions), AddedInOrder(r.options), Len(r.options) <= MaxOptions
  PROVE  \E o : Placed(o, r.options, Len(r.options)) /\ Request(id, r) = Post(id, o, r.payload)
<1>1. PICK o : Built(o, r.options, Len(r.options)) /\ Request(id, r) = Post(id, o, r.payload)
  BY RequestBuilt
<1>2. \A k \in 1..Len(r.options) : InPlace(r.options, k)
  BY OrderIs
<1>3. Placed(o, r.options, Len(r.options))
  BY <1>1, <1>2, Zenon DEF Built
<1> QED
  BY <1>1, <1>3

\* Options in place are in order.
LEMMA OptionsInOrder ==
  ASSUME NEW o, NEW added \in Seq(ShortOptions), Placed(o, added, Len(added))
  PROVE  InOrder(o, added)
<1>1. DOMAIN added = 1..Len(added)
  OBVIOUS
<1>2. PICK place : Place(o, added, Len(added), place)
  BY DEF Placed
<1>3. Len(o) = Len(added)
  BY DEF Placed
<1> QED
  BY <1>1, <1>2, <1>3, Zenon DEF Place, InOrder

\* The options of a request are all there, the lower numbers first, exactly if none was
\* added before more than one that was there: beyond that tc_iot_coap_message_add_option
\* (its memmove of one element) loses an option, and whatever is added later does not
\* bring it back.
THEOREM OptionsKept ==
  ASSUME NEW id, NEW r, r.options \in Seq(ShortOptions), Len(r.options) <= MaxOptions
  PROVE  InOrder(Request(id, r).options, r.options) <=> AddedInOrder(r.options)
<1>1. PICK o : Built(o, r.options, Len(r.options)) /\ Request(id, r) = Post(id, o, r.payload)
  BY RequestBuilt
<1>2. Request(id, r).options = o
  BY <1>1 DEF Post
<1>3. CASE AddedInOrder(r.options)
  <2>1. \A k \in 1..Len(r.options) : InPlace(r.options, k)
    BY <1>3, OrderIs
  <2>2. Placed(o, r.options, Len(r.options))
    BY <1>1, <2>1, Zenon DEF Built
  <2> QED
    BY <1>2, <1>3, <2>2, OptionsInOrder
<1>4. CASE ~AddedInOrder(r.options)
  <2>1. ~\A k \in 1..Len(r.options) : InPlace(r.options, k)
    BY <1>4, OrderIs
  <2>2. Broken(o, Len(r.options))
    BY <1>1, <2>1, Zenon DEF Built
  <2> QED
    BY <1>2, <1>4, <2>2, BrokenIsLoss
<1> QED
  BY <1>3, <1>4

\* The client's own requests are such: tc_iot_coap_auth, _publish and _rpc add the path
\* before the queries.
LEMMA OwnRequestsInOrder ==
  \A path, token, topic, reply :
    /\ AddedInOrder(AuthOptions(path)) /\ AddedInOrder(PublishOptions(path, token, topic))
    /\ AddedInOrder(RpcOptions(path, token, topic, reply))
  BY DEF AddedInOrder, AuthOptions, PublishOptions, RpcOptions, Option, UriPath, UriQuery

-----------------------------------------------------------------------------
(* Writing it: where the bytes of a request are in its datagram.           *)

\* How many bytes extend a number, and what an option takes.
Wide(n) == IF n > 12 THEN 1 ELSE 0
OptionLen(delta, value) == 1 + Wide(delta) + Wide(Len(value)) + Len(value)

\* An option of a datagram, behind its first bytes.
OptionAt(t, at, delta, value) ==
  /\ at + OptionLen(delta, value) <= Len(t)
  /\ t[at + 1] = Base(delta) * 16 + Base(Len(value))
  /\ Wide(delta) = 1 => t[at + 2] = delta - 13
  /\ Wide(Len(value)) = 1 => t[at + 2 + Wide(delta)] = Len(value) - 13
  /\ \A i \in 1..Len(value) : t[at + 1 + Wide(delta) + Wide(Len(value)) + i] = value[i]

\* The bytes that extend a number: none or one.
LEMMA WideIs == ASSUME NEW n \in 0..268 PROVE Wide(n) \in 0..1 /\ Wide(n) = IF n > 12 THEN 1 ELSE 0
  BY DEF Wide

\* The four bits that stand for a number.
LEMMA BaseIs == ASSUME NEW n \in 0..268 PROVE Base(n) = (IF n > 12 THEN 13 ELSE n) /\ Base(n) \in 0..13
<1>1. CASE n > 12
  <2>1. ~(0 <= n /\ n < 13) /\ (13 <= n /\ n < 269) /\ ~(269 <= n /\ n < 65550)
    BY <1>1
  <2>2. Base(n) = 13
    BY <2>1 DEF Base
  <2> QED
    BY <1>1, <2>2
<1>2. CASE ~(n > 12)
  <2>1. (0 <= n /\ n < 13) /\ ~(13 <= n /\ n < 269) /\ ~(269 <= n /\ n < 65550)
    BY <1>2
  <2>2. Base(n) = n
    BY <2>1 DEF Base
  <2> QED
    BY <1>2, <2>2
<1> QED
  BY <1>1, <1>2

\* The byte that extends a number.
LEMMA ExtraIs ==
  ASSUME NEW n \in 0..268
  PROVE  Extra(n) \in Seq(0..255) /\ Len(Extra(n)) = Wide(n) /\ (Wide(n) = 1 => Extra(n)[1] = n - 13)
<1>1. CASE n > 12
  <2>1. (13 <= n /\ n < 269) /\ ~(269 <= n /\ n < 65550) /\ n - 13 \in 0..255
    BY <1>1
  <2>2. Extra(n) = <<n - 13>>
    BY <2>1 DEF Extra
  <2> QED
    BY <1>1, <2>1, <2>2 DEF Wide
<1>2. CASE ~(n > 12)
  <2>1. ~(13 <= n /\ n < 269) /\ ~(269 <= n /\ n < 65550)
    BY <1>2
  <2>2. Extra(n) = <<>>
    BY <2>1 DEF Extra
  <2> QED
    BY <1>2, <2>2 DEF Wide
<1> QED
  BY <1>1, <1>2

\* A value is a sequence of bytes with a length that one byte extends.
LEMMA ValueIs ==
  ASSUME NEW value \in ShortValues
  PROVE  value \in Seq(0..255) /\ Len(value) \in 0..268
<1>1. value \in Seq(0..255) /\ Len(value) <= 268
  BY DEF ShortValues
<1>2. Len(value) \in Nat
  BY <1>1
<1>3. PICK n : n = Len(value)
  OBVIOUS
<1>4. n \in Nat /\ n <= 268
  BY <1>1, <1>2, <1>3
<1>5. n \in 0..268
  BY <1>4
<1> QED
  BY <1>1, <1>3, <1>5, Zenon

\* One sequence behind another.
Follows(z, w, b) ==
  /\ z \in Seq(0..255) /\ Len(z) = Len(w) + Len(b) /\ Len(w) \in Nat /\ Len(b) \in Nat
  /\ \A i \in 1..Len(w) : z[i] = w[i]
  /\ \A i \in 1..Len(b) : z[Len(w) + i] = b[i]

\* What a sequence and one behind it hold.
LEMMA Followed ==
  ASSUME NEW w \in Seq(0..255), NEW b \in Seq(0..255)
  PROVE  Follows(w \o b, w, b)
<1>1. PICK z : z = w \o b
  OBVIOUS
<1>2. /\ z \in Seq(0..255) /\ Len(z) = Len(w) + Len(b)
      /\ \A i \in 1..(Len(w) + Len(b)) : z[i] = IF i <= Len(w) THEN w[i] ELSE b[i - Len(w)]
  <2>1. /\ Len(w \o b) = Len(w) + Len(b)
        /\ \A i \in 1..(Len(w) + Len(b)) : (w \o b)[i] = IF i <= Len(w) THEN w[i] ELSE b[i - Len(w)]
    BY ConcatProperties, Zenon
  <2>2. w \o b \in Seq(0..255)
    OBVIOUS
  <2> QED
    BY <1>1, <2>1, <2>2
<1>3. PICK m : m = Len(w)
  OBVIOUS
<1>4. PICK n : n = Len(b)
  OBVIOUS
<1>5. m \in Nat /\ n \in Nat
  BY <1>3, <1>4
<1>6. \A i \in 1..m : z[i] = w[i]
  BY <1>2, <1>3, <1>4, <1>5
<1>7. ASSUME NEW i \in 1..n PROVE z[m + i] = b[i]
  <2>1. m + i \in 1..(m + n) /\ ~(m + i <= m) /\ m + i - m = i
    BY <1>5
  <2>2. z[m + i] = IF m + i <= m THEN w[m + i] ELSE b[m + i - m]
    BY <1>2, <1>3, <1>4, <2>1
  <2> QED
    BY <2>1, <2>2
<1> QED
  BY <1>1, <1>2, <1>3, <1>4, <1>5, <1>6, <1>7 DEF Follows

\* Four sequences, one behind the other.
InParts(z, a, b, c, d) ==
  /\ z \in Seq(0..255) /\ Len(z) = Len(a) + Len(b) + Len(c) + Len(d)
  /\ \A i \in 1..Len(a) : z[i] = a[i]
  /\ \A i \in 1..Len(b) : z[Len(a) + i] = b[i]
  /\ \A i \in 1..Len(c) : z[Len(a) + Len(b) + i] = c[i]
  /\ \A i \in 1..Len(d) : z[Len(a) + Len(b) + Len(c) + i] = d[i]

\* Where the parts of four sequences are.
LEMMA FourParts ==
  ASSUME NEW a \in Seq(0..255), NEW b \in Seq(0..255), NEW c \in Seq(0..255), NEW d \in Seq(0..255)
  PROVE  InParts(a \o b \o c \o d, a, b, c, d)
<1>1. PICK x : x = a \o b
  OBVIOUS
<1>2. PICK y : y = x \o c
  OBVIOUS
<1>3. PICK z : z = y \o d
  OBVIOUS
<1>4. Follows(x, a, b)
  BY <1>1, Followed
<1>5. Follows(y, x, c)
  <2>1. x \in Seq(0..255)
    BY <1>4 DEF Follows
  <2> QED
    BY <1>2, <2>1, Followed
<1>6. Follows(z, y, d)
  <2>1. y \in Seq(0..255)
    BY <1>5 DEF Follows
  <2> QED
    BY <1>3, <2>1, Followed
<1>7. /\ z \in Seq(0..255) /\ Len(z) = Len(y) + Len(d) /\ Len(y) = Len(x) + Len(c) /\ Len(x) = Len(a) + Len(b)
      /\ Len(a) \in Nat /\ Len(b) \in Nat /\ Len(c) \in Nat /\ Len(d) \in Nat
  BY <1>4, <1>5, <1>6 DEF Follows
<1>8. /\ \A i \in 1..Len(y) : z[i] = y[i]
      /\ \A i \in 1..Len(x) : y[i] = x[i]
      /\ \A i \in 1..Len(a) : x[i] = a[i]
      /\ \A i \in 1..Len(d) : z[Len(y) + i] = d[i]
      /\ \A i \in 1..Len(c) : y[Len(x) + i] = c[i]
      /\ \A i \in 1..Len(b) : x[Len(a) + i] = b[i]
  BY <1>4, <1>5, <1>6 DEF Follows
<1>9. PICK k \in Nat : k = Len(a)
  BY <1>7
<1>10. PICK l \in Nat : l = Len(b)
  BY <1>7
<1>11. PICK m \in Nat : m = Len(c)
  BY <1>7
<1>12. PICK n \in Nat : n = Len(d)
  BY <1>7
<1>13. Len(x) = k + l /\ Len(y) = k + l + m /\ Len(z) = k + l + m + n
  BY <1>7, <1>9, <1>10, <1>11, <1>12
<1>14. /\ \A i \in 1..(k + l + m) : z[i] = y[i]
       /\ \A i \in 1..(k + l) : y[i] = x[i]
       /\ \A i \in 1..k : x[i] = a[i]
       /\ \A i \in 1..n : z[k + l + m + i] = d[i]
       /\ \A i \in 1..m : y[k + l + i] = c[i]
       /\ \A i \in 1..l : x[k + i] = b[i]
  BY <1>8, <1>9, <1>10, <1>11, <1>12, <1>13, Zenon
<1>15. /\ \A i \in 1..k : i \in 1..(k + l) /\ i \in 1..(k + l + m)
       /\ \A i \in 1..l : k + i \in 1..(k + l) /\ k + i \in 1..(k + l + m)
       /\ \A i \in 1..m : k + l + i \in 1..(k + l + m)
  OBVIOUS
<1>16. /\ \A i \in 1..k : z[i] = a[i]
       /\ \A i \in 1..l : z[k + i] = b[i]
       /\ \A i \in 1..m : z[k + l + i] = c[i]
       /\ \A i \in 1..n : z[k + l + m + i] = d[i]
  BY <1>14, <1>15
<1>17. z = a \o b \o c \o d
  BY <1>1, <1>2, <1>3
<1>18. InParts(z, a, b, c, d)
  BY <1>7, <1>9, <1>10, <1>11, <1>12, <1>13, <1>16 DEF InParts
<1> QED
  BY <1>17, <1>18

\* The bytes of an option, as tc_iot_coap_write_option writes them.
LEMMA OptionBytesAre ==
  ASSUME NEW delta \in 0..268, NEW value \in ShortValues
  PROVE  /\ OptionBytes(delta, value) \in Seq(0..255)
         /\ Len(OptionBytes(delta, value)) = OptionLen(delta, value)
         /\ OptionAt(OptionBytes(delta, value), 0, delta, value)
<1>1. PICK n : n = Len(value)
  OBVIOUS
<1>2. value \in Seq(0..255) /\ n \in 0..268
  BY <1>1, ValueIs
<1>3. PICK h : h = Base(delta) * 16 + Base(n)
  OBVIOUS
<1>4. h \in 0..255
  <2>1. Base(delta) \in 0..13 /\ Base(n) \in 0..13
    BY <1>2, BaseIs
  <2> QED
    BY <1>3, <2>1
<1>5. PICK x : x = Extra(delta)
  OBVIOUS
<1>6. PICK y : y = Extra(n)
  OBVIOUS
<1>7. x \in Seq(0..255) /\ Len(x) = Wide(delta) /\ (Wide(delta) = 1 => x[1] = delta - 13) /\ Wide(delta) \in 0..1
  BY <1>5, ExtraIs, WideIs
<1>8. y \in Seq(0..255) /\ Len(y) = Wide(n) /\ (Wide(n) = 1 => y[1] = n - 13) /\ Wide(n) \in 0..1
  BY <1>2, <1>6, ExtraIs, WideIs
<1>9. PICK a : a = <<h>>
  OBVIOUS
<1>10. a \in Seq(0..255) /\ Len(a) = 1 /\ a[1] = h
  BY <1>4, <1>9
<1>11. PICK z : z = a \o x \o y \o value
  OBVIOUS
<1>21. InParts(z, a, x, y, value)
  BY <1>2, <1>7, <1>8, <1>10, <1>11, FourParts, Zenon
<1>12. /\ z \in Seq(0..255) /\ Len(z) = Len(a) + Len(x) + Len(y) + Len(value)
       /\ \A i \in 1..Len(a) : z[i] = a[i]
       /\ \A i \in 1..Len(x) : z[Len(a) + i] = x[i]
       /\ \A i \in 1..Len(y) : z[Len(a) + Len(x) + i] = y[i]
       /\ \A i \in 1..Len(value) : z[Len(a) + Len(x) + Len(y) + i] = value[i]
  BY <1>21, Zenon DEF InParts
<1>13. OptionBytes(delta, value) = z
  BY <1>1, <1>3, <1>5, <1>6, <1>9, <1>11, Zenon DEF OptionBytes
<1>14. PICK p \in 0..1 : p = Wide(delta)
  BY <1>7
<1>15. PICK q \in 0..1 : q = Wide(n)
  BY <1>8
<1>16. /\ Len(z) = 1 + p + q + n
       /\ \A i \in 1..1 : z[i] = a[i]
       /\ \A i \in 1..p : z[1 + i] = x[i]
       /\ \A i \in 1..q : z[1 + p + i] = y[i]
       /\ \A i \in 1..n : z[1 + p + q + i] = value[i]
  BY <1>1, <1>7, <1>8, <1>10, <1>12, <1>14, <1>15, Zenon
<1>17. z[1] = h
  BY <1>10, <1>16
<1>18. p = 1 => z[2] = delta - 13
  <2>1. p = 1 => 1 \in 1..p /\ 1 + 1 = 2
    OBVIOUS
  <2> QED
    BY <1>7, <1>14, <1>16, <2>1
<1>19. q = 1 => z[2 + p] = n - 13
  <2>1. q = 1 => 1 \in 1..q /\ 1 + p + 1 = 2 + p
    OBVIOUS
  <2> QED
    BY <1>8, <1>15, <1>16, <2>1
<1>20. OptionLen(delta, value) = 1 + p + q + n
  BY <1>1, <1>14, <1>15 DEF OptionLen
<1>22. OptionAt(z, 0, delta, value)
  <2>1. 0 + OptionLen(delta, value) <= Len(z)
    BY <1>2, <1>16, <1>20
  <2>2. 0 + 1 = 1 /\ 0 + 2 = 2 /\ 0 + 2 + p = 2 + p /\ 0 + 1 + p + q = 1 + p + q
    OBVIOUS
  <2> QED
    BY <1>1, <1>3, <1>14, <1>15, <1>16, <1>17, <1>18, <1>19, <2>1, <2>2 DEF OptionAt
<1> QED
  BY <1>12, <1>13, <1>16, <1>20, <1>22

\* How long an option is, in numbers the provers can bound.
LEMMA LenIs ==
  ASSUME NEW delta \in 0..268, NEW value \in ShortValues
  PROVE  \E p, q \in 0..1, n \in 0..268 :
           p = Wide(delta) /\ q = Wide(Len(value)) /\ n = Len(value) /\ OptionLen(delta, value) = 1 + p + q + n
<1>1. Len(value) \in 0..268
  BY ValueIs
<1>2. Wide(delta) \in 0..1 /\ Wide(Len(value)) \in 0..1
  BY <1>1, WideIs
<1> QED
  BY <1>1, <1>2 DEF OptionLen

\* What is behind an option, or before it, does not change it.
LEMMA OptionMoved ==
  ASSUME NEW delta \in 0..268, NEW value \in ShortValues, NEW b, OptionAt(b, 0, delta, value),
         NEW w, NEW z, Follows(z, w, b)
  PROVE  OptionAt(z, Len(w), delta, value)
<1>1. PICK p \in 0..1, q \in 0..1, n \in 0..268 :
        p = Wide(delta) /\ q = Wide(Len(value)) /\ n = Len(value) /\ OptionLen(delta, value) = 1 + p + q + n
  BY LenIs
<1>2. PICK m : m = Len(w)
  OBVIOUS
<1>3. PICK l : l = Len(b)
  OBVIOUS
<1>4. m \in Nat /\ l \in Nat /\ Len(z) = m + l /\ \A i \in 1..l : z[m + i] = b[i]
  BY <1>2, <1>3 DEF Follows
<1>5. /\ 0 + (1 + p + q + n) <= l
      /\ b[0 + 1] = Base(delta) * 16 + Base(n)
      /\ p = 1 => b[0 + 2] = delta - 13
      /\ q = 1 => b[0 + 2 + p] = n - 13
      /\ \A i \in 1..n : b[0 + 1 + p + q + i] = value[i]
  BY <1>1, <1>3, Zenon DEF OptionAt
<1>6. 1 + p + q + n <= l
  BY <1>4, <1>5
<1>7. z[m + 1] = Base(delta) * 16 + Base(n)
  <2>1. 1 \in 1..l /\ 0 + 1 = 1
    BY <1>4, <1>6
  <2> QED
    BY <1>4, <1>5, <2>1
<1>8. p = 1 => z[m + 2] = delta - 13
  <2>1. p = 1 => 2 \in 1..l /\ 0 + 2 = 2
    BY <1>4, <1>6
  <2> QED
    BY <1>4, <1>5, <2>1
<1>9. q = 1 => z[m + 2 + p] = n - 13
  <2>1. q = 1 => 2 + p \in 1..l /\ 0 + 2 + p = 2 + p /\ m + (2 + p) = m + 2 + p
    BY <1>4, <1>6
  <2> QED
    BY <1>4, <1>5, <2>1
<1>10. ASSUME NEW i \in 1..n PROVE z[m + 1 + p + q + i] = value[i]
  <2>1. 1 + p + q + i \in 1..l /\ 0 + 1 + p + q + i = 1 + p + q + i /\ m + (1 + p + q + i) = m + 1 + p + q + i
    BY <1>4, <1>6
  <2> QED
    BY <1>4, <1>5, <2>1
<1>11. m + (1 + p + q + n) <= Len(z)
  BY <1>4, <1>6
<1> QED
  BY <1>1, <1>2, <1>7, <1>8, <1>9, <1>10, <1>11, Zenon DEF OptionAt

\* One sequence begins with another.
Begins(z, w) == Len(w) \in Nat /\ Len(z) \in Nat /\ Len(w) <= Len(z) /\ \A i \in 1..Len(w) : z[i] = w[i]

\* An option stays where it is when more is written.
LEMMA OptionStays ==
  ASSUME NEW delta \in 0..268, NEW value \in ShortValues, NEW at \in Nat, NEW w, OptionAt(w, at, delta, value),
         NEW z, Begins(z, w)
  PROVE  OptionAt(z, at, delta, value)
<1>1. PICK p \in 0..1, q \in 0..1, n \in 0..268 :
        p = Wide(delta) /\ q = Wide(Len(value)) /\ n = Len(value) /\ OptionLen(delta, value) = 1 + p + q + n
  BY LenIs
<1>2. PICK m : m = Len(w)
  OBVIOUS
<1>3. m \in Nat /\ Len(z) \in Nat /\ m <= Len(z) /\ \A i \in 1..m : z[i] = w[i]
  BY <1>2 DEF Begins
<1>4. /\ at + (1 + p + q + n) <= m
      /\ w[at + 1] = Base(delta) * 16 + Base(n)
      /\ p = 1 => w[at + 2] = delta - 13
      /\ q = 1 => w[at + 2 + p] = n - 13
      /\ \A i \in 1..n : w[at + 1 + p + q + i] = value[i]
  BY <1>1, <1>2, Zenon DEF OptionAt
<1>5. /\ at + 1 \in 1..m /\ (p = 1 => at + 2 \in 1..m) /\ (q = 1 => at + 2 + p \in 1..m)
      /\ \A i \in 1..n : at + 1 + p + q + i \in 1..m
  BY <1>3, <1>4
<1>6. at + (1 + p + q + n) <= Len(z)
  BY <1>3, <1>4
<1>7. /\ z[at + 1] = Base(delta) * 16 + Base(n)
      /\ p = 1 => z[at + 2] = delta - 13
      /\ q = 1 => z[at + 2 + p] = n - 13
      /\ \A i \in 1..n : z[at + 1 + p + q + i] = value[i]
  BY <1>3, <1>4, <1>5
<1> QED
  BY <1>1, <1>6, <1>7, Zenon DEF OptionAt

\* The difference of two numbers in order is itself such a number.
LEMMA DeltaIs ==
  ASSUME NEW o \in Seq(ShortOptions), Ordered(o), NEW i \in 1..Len(o)
  PROVE  /\ Delta(o, i) \in 0..268 /\ o[i].value \in ShortValues /\ o[i].number \in 0..268
         /\ o[i].number = Delta(o, i) + (IF i = 1 THEN 0 ELSE o[i - 1].number)
         /\ i # 1 => o[i - 1].number \in 0..268
<1>1. Len(o) \in Nat /\ i \in Nat
  OBVIOUS
<1>2. o[i] \in ShortOptions
  OBVIOUS
<1>3. o[i].number \in 0..268 /\ o[i].value \in ShortValues
  BY <1>2, OptionIs
<1>4. CASE i = 1
  <2>1. Delta(o, i) = o[i].number - 0
    BY <1>4 DEF Delta
  <2>2. PICK a \in 0..268 : a = o[i].number
    BY <1>3
  <2>3. a - 0 = a /\ a = a + 0
    OBVIOUS
  <2>4. Delta(o, i) = a
    BY <2>1, <2>2, <2>3
  <2> QED
    BY <1>3, <1>4, <2>2, <2>3, <2>4
<1>5. CASE i # 1
  <2>1. i - 1 \in 1..Len(o) /\ i - 1 < i
    BY <1>1, <1>5
  <2>2. o[i - 1].number \in 0..268
    BY <2>1, NumberOf
  <2>3. o[i - 1].number <= o[i].number
    BY <2>1 DEF Ordered
  <2>4. Delta(o, i) = o[i].number - o[i - 1].number
    BY <1>5 DEF Delta
  <2>5. PICK a \in 0..268 : a = o[i].number
    BY <1>3
  <2>6. PICK b \in 0..268 : b = o[i - 1].number
    BY <2>2
  <2>7. b <= a /\ Delta(o, i) = a - b
    BY <2>3, <2>4, <2>5, <2>6
  <2>8. a - b \in 0..268 /\ a = (a - b) + b
    BY <2>7
  <2>9. a = Delta(o, i) + b
    BY <2>7, <2>8
  <2> QED
    BY <1>3, <1>5, <2>5, <2>6, <2>7, <2>8, <2>9
<1> QED
  BY <1>4, <1>5

\* The first k options of a datagram, behind its head, and where they end.
Ends(t, o, k, e) ==
  /\ e \in [0..k -> Nat] /\ e[0] = 8
  /\ \A j \in 1..k : /\ e[j] = e[j - 1] + OptionLen(Delta(o, j), o[j].value)
                     /\ OptionAt(t, e[j - 1], Delta(o, j), o[j].value)

\* Options that were written stay.
LEMMA EndsStay ==
  ASSUME NEW o \in Seq(ShortOptions), Ordered(o), NEW k \in 0..Len(o), NEW w, NEW e, Ends(w, o, k, e), NEW z, Begins(z, w)
  PROVE  Ends(z, o, k, e)
<1> SUFFICES ASSUME NEW j \in 1..k PROVE OptionAt(z, e[j - 1], Delta(o, j), o[j].value)
  BY DEF Ends
<1>1. j \in 1..Len(o) /\ j - 1 \in 0..k
  OBVIOUS
<1>2. OptionAt(w, e[j - 1], Delta(o, j), o[j].value) /\ e[j - 1] \in Nat
  BY <1>1 DEF Ends
<1>3. Delta(o, j) \in 0..268 /\ o[j].value \in ShortValues
  BY <1>1, DeltaIs
<1> QED
  BY <1>2, <1>3, OptionStays

\* What is written goes on with what was.
LEMMA FollowsBegins == ASSUME NEW z, NEW w, NEW b, Follows(z, w, b) PROVE Begins(z, w)
  BY DEF Follows, Begins

\* One option more is written.
LEMMA EndsMore ==
  ASSUME NEW o \in Seq(ShortOptions), Ordered(o), NEW k \in 1..Len(o),
         NEW w \in Seq(0..255), NEW e, Ends(w, o, k - 1, e), e[k - 1] = Len(w)
  PROVE  LET z == w \o OptionBytes(Delta(o, k), o[k].value)
         IN  z \in Seq(0..255) /\ Begins(z, w) /\ \E f : Ends(z, o, k, f) /\ f[k] = Len(z)
<1>1. PICK delta : delta = Delta(o, k)
  OBVIOUS
<1>2. PICK value : value = o[k].value
  OBVIOUS
<1>3. delta \in 0..268 /\ value \in ShortValues
  BY <1>1, <1>2, DeltaIs
<1>4. PICK b : b = OptionBytes(delta, value)
  OBVIOUS
<1>5. b \in Seq(0..255) /\ Len(b) = OptionLen(delta, value) /\ OptionAt(b, 0, delta, value)
  BY <1>3, <1>4, OptionBytesAre
<1>6. PICK z : z = w \o b
  OBVIOUS
<1>7. Follows(z, w, b)
  BY <1>5, <1>6, Followed
<1>8. z \in Seq(0..255) /\ Len(z) = Len(w) + Len(b) /\ Len(z) \in Nat /\ Begins(z, w)
  <2>1. z \in Seq(0..255) /\ Len(z) = Len(w) + Len(b) /\ Begins(z, w)
    BY <1>7, FollowsBegins DEF Follows
  <2>2. Len(z) \in Nat
    BY <2>1
  <2> QED
    BY <2>1, <2>2
<1>9. OptionAt(z, Len(w), delta, value)
  BY <1>3, <1>5, <1>7, OptionMoved
<1>10. k - 1 \in 0..Len(o) /\ k \in Nat
  OBVIOUS
<1>11. Ends(z, o, k - 1, e)
  BY <1>8, <1>10, EndsStay
<1> DEFINE f == [j \in 0..k |-> IF j = k THEN Len(z) ELSE e[j]]
<1>12. f[k] = Len(z) /\ \A j \in 0..(k - 1) : f[j] = e[j] /\ e[j] \in Nat
  BY <1>10, <1>11 DEF Ends
<1>13. f \in [0..k -> Nat]
  <2>1. \A j \in 0..k : (IF j = k THEN Len(z) ELSE e[j]) \in Nat
    BY <1>8, <1>10, <1>11 DEF Ends
  <2> QED
    BY <2>1
<1> HIDE DEF f
<1>14. f[0] = 8
  BY <1>10, <1>11, <1>12 DEF Ends
<1>15. ASSUME NEW j \in 1..k
       PROVE  /\ f[j] = f[j - 1] + OptionLen(Delta(o, j), o[j].value)
              /\ OptionAt(z, f[j - 1], Delta(o, j), o[j].value)
  <2>1. j - 1 \in 0..(k - 1) /\ f[j - 1] = e[j - 1]
    BY <1>10, <1>12
  <2>2. CASE j = k
    <3>1. f[j - 1] = Len(w)
      BY <2>1, <2>2
    <3> QED
      BY <1>1, <1>2, <1>5, <1>8, <1>9, <1>12, <2>2, <3>1
  <2>3. CASE j # k
    <3>1. j \in 1..(k - 1) /\ j \in 0..(k - 1)
      BY <1>10, <2>3
    <3>2. e[j] = e[j - 1] + OptionLen(Delta(o, j), o[j].value) /\ OptionAt(z, e[j - 1], Delta(o, j), o[j].value)
      BY <1>11, <3>1 DEF Ends
    <3> QED
      BY <1>12, <2>1, <3>1, <3>2
  <2> QED
    BY <2>2, <2>3
<1>16. Ends(z, o, k, f)
  BY <1>13, <1>14, <1>15 DEF Ends
<1> QED
  BY <1>1, <1>2, <1>4, <1>6, <1>8, <1>12, <1>16

\* A digit is a byte.
LEMMA DigitIs == ASSUME NEW n \in 0..15 PROVE HexDigit(n) \in 0..255
  BY DEF HexDigit

\* Every four bits of an id are a digit.
LEMMA NibbleIs == ASSUME NEW n \in Nat PROVE HexDigit(n % 16) \in 0..255
<1>1. n % 16 \in 0..15
  OBVIOUS
<1> QED
  BY <1>1, DigitIs

\* The token of an id has four bytes.
LEMMA TokenIs ==
  ASSUME NEW id \in Nat
  PROVE  Token(id) \in Seq(0..255) /\ Len(Token(id)) = 4
<1>1. PICK a : a = HexDigit((id \div 4096) % 16)
  OBVIOUS
<1>2. PICK b : b = HexDigit((id \div 256) % 16)
  OBVIOUS
<1>3. PICK c : c = HexDigit((id \div 16) % 16)
  OBVIOUS
<1>4. PICK d : d = HexDigit(id % 16)
  OBVIOUS
<1>5. id \div 4096 \in Nat /\ id \div 256 \in Nat /\ id \div 16 \in Nat
  OBVIOUS
<1>6. a \in 0..255 /\ b \in 0..255 /\ c \in 0..255 /\ d \in 0..255
  <2>1. HexDigit((id \div 4096) % 16) \in 0..255
    BY <1>5, NibbleIs
  <2>2. HexDigit((id \div 256) % 16) \in 0..255
    BY <1>5, NibbleIs
  <2>3. HexDigit((id \div 16) % 16) \in 0..255
    BY <1>5, NibbleIs
  <2>4. HexDigit(id % 16) \in 0..255
    BY NibbleIs
  <2> QED
    BY <1>1, <1>2, <1>3, <1>4, <2>1, <2>2, <2>3, <2>4
<1>7. Token(id) = <<a, b, c, d>>
  BY <1>1, <1>2, <1>3, <1>4 DEF Token
<1>8. PICK t : t = <<a, b, c, d>>
  OBVIOUS
<1>9. t \in Seq(0..255) /\ Len(t) = 4
  BY <1>6, <1>8
<1> QED
  BY <1>7, <1>8, <1>9, Zenon

\* The head of a request and its token.
HeadIs(t, id) ==
  /\ t[1] = 68 /\ t[2] = 2 /\ t[3] = (id \div 256) % 256 /\ t[4] = id % 256
  /\ \A i \in 1..4 : t[4 + i] = Token(id)[i]

\* The first eight bytes of a request.
LEMMA FirstIs ==
  ASSUME NEW id \in Nat, NEW o, NEW payload
  PROVE  LET w == Head4(Post(id, o, payload)) \o Token(id)
         IN  w \in Seq(0..255) /\ Len(w) = 8 /\ HeadIs(w, id)
<1>1. Token(id) \in Seq(0..255) /\ Len(Token(id)) = 4
  BY TokenIs
<1>2. PICK c \in 0..255 : c = (id \div 256) % 256
  OBVIOUS
<1>3. PICK d \in 0..255 : d = id % 256
  OBVIOUS
<1>4. Head4(Post(id, o, payload)) = <<68, 2>> \o <<c, d>>
  <2>1. Ver * 64 + Post(id, o, payload).type * 16 + Len(Post(id, o, payload).token) = 68
    <3>1. Post(id, o, payload).type = 0 /\ Post(id, o, payload).token = Token(id) /\ Ver = 1
      BY DEF Post, Ver
    <3>2. 1 * 64 + 0 * 16 + 4 = 68
      OBVIOUS
    <3> QED
      BY <1>1, <3>1, <3>2
  <2>2. Post(id, o, payload).code = 2 /\ Post(id, o, payload).message_id = id
    BY DEF Post
  <2> QED
    BY <1>2, <1>3, <2>1, <2>2 DEF Head4, Short
<1>5. PICK h : h = <<68, 2>> \o <<c, d>>
  OBVIOUS
<1>6. h \in Seq(0..255) /\ Len(h) = 4 /\ h[1] = 68 /\ h[2] = 2 /\ h[3] = c /\ h[4] = d
  BY <1>5
<1>7. PICK w : w = h \o Token(id)
  OBVIOUS
<1>8. Follows(w, h, Token(id))
  BY <1>1, <1>6, <1>7, Followed
<1>9. /\ w \in Seq(0..255) /\ Len(w) = 4 + 4
      /\ (\A i \in 1..4 : w[i] = h[i])
      /\ \A i \in 1..4 : w[4 + i] = Token(id)[i]
  BY <1>1, <1>6, <1>8, Zenon DEF Follows
<1>10. w[1] = 68 /\ w[2] = 2 /\ w[3] = c /\ w[4] = d
  BY <1>6, <1>9
<1>11. HeadIs(w, id)
  BY <1>2, <1>3, <1>9, <1>10 DEF HeadIs
<1>12. 4 + 4 = 8
  OBVIOUS
<1> QED
  BY <1>4, <1>5, <1>7, <1>9, <1>11, <1>12

\* They stay when more is written.
LEMMA HeadStays ==
  ASSUME NEW id, NEW w, HeadIs(w, id), NEW z, Begins(z, w), Len(w) >= 8
  PROVE  HeadIs(z, id)
<1>1. PICK m : m = Len(w)
  OBVIOUS
<1>2. m \in Nat /\ m >= 8 /\ \A i \in 1..m : z[i] = w[i]
  BY <1>1 DEF Begins
<1>3. 1 \in 1..m /\ 2 \in 1..m /\ 3 \in 1..m /\ 4 \in 1..m /\ \A i \in 1..4 : 4 + i \in 1..m
  BY <1>2
<1> QED
  BY <1>2, <1>3 DEF HeadIs

\* The first k options written.
Wrote(w, id, o, k) ==
  /\ w \in Seq(0..255) /\ Len(w) >= 8 /\ HeadIs(w, id)
  /\ \E e : Ends(w, o, k, e) /\ e[k] = Len(w)

\* Before the first option.
LEMMA WroteHead ==
  ASSUME NEW id \in Nat, NEW o, NEW payload
  PROVE  Wrote(Head4(Post(id, o, payload)) \o Token(id), id, o, 0)
<1>1. PICK w : w = Head4(Post(id, o, payload)) \o Token(id)
  OBVIOUS
<1>2. w \in Seq(0..255) /\ Len(w) = 8 /\ HeadIs(w, id)
  BY <1>1, FirstIs
<1> DEFINE e == [j \in 0..0 |-> 8]
<1>3. e \in [0..0 -> Nat] /\ e[0] = 8 /\ 1..0 = {}
  OBVIOUS
<1> HIDE DEF e
<1>4. Ends(w, o, 0, e)
  BY <1>3 DEF Ends
<1> QED
  BY <1>1, <1>2, <1>3, <1>4 DEF Wrote

\* A pass of the loop that writes the options.
LEMMA WroteMore ==
  ASSUME NEW id, NEW o \in Seq(ShortOptions), Ordered(o), NEW k \in 1..Len(o), NEW w, Wrote(w, id, o, k - 1), NEW size
  PROVE  LET z == PutOption(size, w, Delta(o, k), o[k].value)
         IN  z = Overflow \/ Wrote(z, id, o, k)
<1>1. PICK e : Ends(w, o, k - 1, e) /\ e[k - 1] = Len(w)
  BY DEF Wrote
<1>2. w \in Seq(0..255) /\ Len(w) >= 8 /\ HeadIs(w, id)
  BY DEF Wrote
<1>3. PICK z : z = w \o OptionBytes(Delta(o, k), o[k].value)
  OBVIOUS
<1>4. z \in Seq(0..255) /\ Begins(z, w) /\ \E f : Ends(z, o, k, f) /\ f[k] = Len(z)
  BY <1>1, <1>2, <1>3, EndsMore
<1>5. HeadIs(z, id)
  BY <1>2, <1>4, HeadStays
<1>6. Len(z) >= 8
  BY <1>2, <1>4 DEF Begins
<1>7. Wrote(z, id, o, k)
  BY <1>4, <1>5, <1>6 DEF Wrote
<1> QED
  BY <1>3, <1>7 DEF PutOption

\* The datagram of a request: what is behind the options, and all of it.
Rest(t, at, payload) ==
  \/ payload = <<>> /\ Len(t) = at
  \/ /\ Len(t) = at + 1 + Len(payload) /\ t[at + 1] = 255
     /\ \A i \in 1..Len(payload) : t[at + 1 + i] = payload[i]
Sent(t, id, o, payload) ==
  /\ t \in Seq(0..255) /\ HeadIs(t, id)
  /\ \E e : Ends(t, o, Len(o), e) /\ Rest(t, e[Len(o)], payload)

\* What is not refused is written.
LEMMA PutIs == ASSUME NEW size, NEW w, NEW b, Put(size, w, b) # Overflow PROVE w # Overflow /\ Put(size, w, b) = w \o b
  BY DEF Put

\* The marker and the payload behind the options.
LEMMA Finished ==
  ASSUME NEW id, NEW o \in Seq(ShortOptions), Ordered(o), NEW payload \in Seq(0..255),
         NEW w, Wrote(w, id, o, Len(o))
  PROVE  /\ payload = <<>> => Sent(w, id, o, payload)
         /\ Sent((w \o <<PayloadMarker>>) \o payload, id, o, payload)
<1>1. PICK e : Ends(w, o, Len(o), e) /\ e[Len(o)] = Len(w)
  BY DEF Wrote
<1>2. w \in Seq(0..255) /\ Len(w) >= 8 /\ HeadIs(w, id)
  BY DEF Wrote
<1>3. payload = <<>> => Sent(w, id, o, payload)
  <2>1. payload = <<>> => Rest(w, e[Len(o)], payload)
    BY <1>1 DEF Rest
  <2> QED
    BY <1>1, <1>2, <2>1 DEF Sent
<1>4. PICK m : m = <<PayloadMarker>>
  OBVIOUS
<1>5. m \in Seq(0..255) /\ Len(m) = 1 /\ m[1] = 255
  BY <1>4 DEF PayloadMarker
<1>6. PICK y : y = w \o m
  OBVIOUS
<1>7. Follows(y, w, m)
  BY <1>2, <1>5, <1>6, Followed
<1>8. PICK z : z = y \o payload
  OBVIOUS
<1>9. Follows(z, y, payload)
  <2>1. y \in Seq(0..255)
    BY <1>7 DEF Follows
  <2> QED
    BY <1>8, <2>1, Followed
<1>10. PICK l : l = Len(w)
  OBVIOUS
<1>11. PICK n : n = Len(payload)
  OBVIOUS
<1>12. /\ l \in Nat /\ n \in Nat /\ l >= 8 /\ Len(y) = l + 1 /\ Len(z) = (l + 1) + n /\ z \in Seq(0..255)
       /\ \A i \in 1..l : y[i] = w[i]
       /\ \A i \in 1..1 : y[l + i] = m[i]
       /\ \A i \in 1..(l + 1) : z[i] = y[i]
       /\ \A i \in 1..n : z[(l + 1) + i] = payload[i]
  BY <1>2, <1>5, <1>7, <1>9, <1>10, <1>11 DEF Follows
<1>13. Begins(z, w)
  <2>1. \A i \in 1..l : i \in 1..(l + 1)
    BY <1>12
  <2>2. \A i \in 1..l : z[i] = w[i]
    BY <1>12, <2>1
  <2>3. Len(z) \in Nat /\ l <= Len(z)
    BY <1>12
  <2> QED
    BY <1>10, <1>12, <2>2, <2>3 DEF Begins
<1>14. HeadIs(z, id)
  BY <1>2, <1>13, HeadStays
<1>15. Ends(z, o, Len(o), e)
  <2>1. Len(o) \in 0..Len(o)
    OBVIOUS
  <2> QED
    BY <1>1, <1>13, <2>1, EndsStay
<1>16. z[l + 1] = 255
  <2>1. l + 1 \in 1..(l + 1) /\ 1 \in 1..1
    BY <1>12
  <2> QED
    BY <1>5, <1>12, <2>1
<1>17. e[Len(o)] = l
  BY <1>1, <1>10
<1>18. Rest(z, l, payload)
  BY <1>11, <1>12, <1>16 DEF Rest
<1>19. Sent(z, id, o, payload)
  BY <1>12, <1>14, <1>15, <1>17, <1>18 DEF Sent
<1> QED
  BY <1>3, <1>4, <1>6, <1>8, <1>19

\* The parts of a message.
LEMMA PostFields ==
  ASSUME NEW id, NEW o, NEW payload
  PROVE  /\ Post(id, o, payload).options = o /\ Post(id, o, payload).payload = payload
         /\ Post(id, o, payload).token = Token(id)
  BY DEF Post

\* tc_iot_coap_serialize of the parts of a message.
WriteAll(options, first, payload, size) ==
  LET written[i \in 0..Len(options)] ==
        IF i = 0 THEN Put(size, <<>>, first)
        ELSE PutOption(size, written[i - 1], Delta(options, i), options[i].value)
  IN  IF payload = <<>> THEN written[Len(options)]
      ELSE Put(size, Put(size, written[Len(options)], <<PayloadMarker>>), payload)

\* tc_iot_coap_serialize writes the head, every option and the payload, or reports an overflow.
LEMMA SerializeIs ==
  ASSUME NEW id \in Nat, NEW o \in Seq(ShortOptions), Ordered(o), NEW payload \in Seq(0..255), NEW size,
         Serialize(Post(id, o, payload), size) # Overflow
  PROVE  Sent(Serialize(Post(id, o, payload), size), id, o, payload)
<1> DEFINE n == Len(o)
           first == Head4(Post(id, o, payload)) \o Token(id)
           base == Put(size, <<>>, first)
           Pass(i, w) == PutOption(size, w, Delta(o, i), o[i].value)
           Loop(g) == g = [i \in 0..n |-> IF i = 0 THEN base ELSE Pass(i, g[i - 1])]
           written == CHOOSE g : Loop(g)
           Good(i, w) == w = Overflow \/ Wrote(w, id, o, i)
           D == {Overflow} \cup Seq(0..255)
           R == {x \in Nat \X D : Good(x[1], x[2])}
           all == IF payload = <<>> THEN written[n]
                  ELSE Put(size, Put(size, written[n], <<PayloadMarker>>), payload)
<1>1. n \in Nat
  OBVIOUS
<1>2. Serialize(Post(id, o, payload), size) = all
  <2>1. WriteAll(o, first, payload, size) = all
    BY DEF WriteAll
  <2>2. PICK m : m = Post(id, o, payload)
    OBVIOUS
  <2>3. Serialize(m, size) = WriteAll(m.options, Head4(m) \o m.token, m.payload, size)
    BY DEF Serialize, WriteAll
  <2>4. m.options = o /\ m.payload = payload /\ Head4(m) \o m.token = first
    BY <2>2, PostFields
  <2> HIDE DEF all, first
  <2> QED
    BY <2>1, <2>2, <2>3, <2>4
<1>3. ASSUME NEW i \in Nat, NEW w PROVE <<i, w>> \in R <=> Good(i, w)
  <2>1. Good(i, w) => w \in D
    BY DEF Wrote
  <2> HIDE DEF Good, D
  <2> QED
    BY <2>1
<1>4. ASSUME NEW i \in 1..n, NEW w, Good(i - 1, w) PROVE Good(i, Pass(i, w))
  <2>1. CASE w = Overflow
    BY <2>1 DEF PutOption
  <2>2. CASE Wrote(w, id, o, i - 1)
    BY <2>2, WroteMore
  <2> QED
    BY <1>4, <2>1, <2>2
<1>5. Good(0, base)
  <2> SUFFICES ASSUME base # Overflow PROVE Wrote(base, id, o, 0)
    OBVIOUS
  <2>1. Wrote(first, id, o, 0)
    BY WroteHead
  <2>2. first \in Seq(0..255)
    BY <2>1 DEF Wrote
  <2>3. base = <<>> \o first
    <3>1. Put(size, <<>>, first) # Overflow
      OBVIOUS
    <3> HIDE DEF first
    <3> QED
      BY <3>1 DEF Put
  <2> HIDE DEF first, base
  <2>4. <<>> \o first = first
    BY <2>2, ConcatEmptySeq
  <2> QED
    BY <2>1, <2>3, <2>4
<1>6. base \in D /\ \A i, w : Good(i, w) => w \in D
  BY <1>5 DEF Wrote
<1> HIDE DEF Good, D, R, Pass, base, n, first
<1>7. \A i \in 1..n : i \in Nat /\ i - 1 \in Nat /\ i - 1 \in 0..n /\ i \in 0..n /\ i # 0
  BY <1>1
<1>8. \E g : Loop(g)
  <2> DEFINE step == [x \in Nat \X D |-> Pass(x[1], x[2])]
  <2>1. \A i \in Nat, w \in D : step[<<i, w>>] = Pass(i, w)
    OBVIOUS
  <2> HIDE DEF step
  <2>2. Keeps(D, R, step, n)
    BY <1>3, <1>4, <1>6, <1>7, <2>1 DEF Keeps
  <2>3. <<0, base>> \in R
    BY <1>3, <1>5
  <2>4. PICK g \in [0..n -> D] : g[0] = base /\ \A i \in 1..n : g[i] = step[<<i, g[i - 1]>>]
    <3>1. base \in D
      BY <1>6
    <3>2. Loops(D, base, step, n)
      BY <1>1, <2>2, <2>3, <3>1, LoopReaches, Zenon
    <3> QED
      BY <3>2 DEF Loops
  <2>5. \A i \in 1..n : g[i] = Pass(i, g[i - 1])
    BY <1>7, <2>1, <2>4
  <2>6. ASSUME NEW i \in 0..n PROVE g[i] = IF i = 0 THEN base ELSE Pass(i, g[i - 1])
    BY <1>1, <2>4, <2>5
  <2>7. g = [i \in 0..n |-> g[i]]
    BY <2>4
  <2> QED
    BY <2>6, <2>7
<1> HIDE DEF all
<1>9. written = [i \in 0..n |-> IF i = 0 THEN base ELSE Pass(i, written[i - 1])]
  BY <1>8
<1> HIDE DEF written
<1>10. written[0] = base /\ \A i \in 1..n : written[i] = Pass(i, written[i - 1])
  <2>1. 0 \in 0..n
    BY <1>1
  <2> QED
    BY <1>7, <1>9, <2>1
<1>11. \A i \in 0..n : <<i, written[i]>> \in R
  <2>1. <<0, written[0]>> \in R
    BY <1>3, <1>5, <1>10
  <2>2. \A i \in 1..n : <<i - 1, written[i - 1]>> \in R => <<i, written[i]>> \in R
    BY <1>3, <1>4, <1>7, <1>10
  <2> QED
    BY <1>1, <2>1, <2>2, LoopKeeps
<1>12. Good(n, written[n])
  <2>1. n \in 0..n
    BY <1>1
  <2> QED
    BY <1>1, <1>3, <1>11, <2>1
<1>13. PICK w : w = written[n]
  OBVIOUS
<1>14. all # Overflow
  BY <1>2
<1>15. CASE payload = <<>>
  <2>1. all = w
    BY <1>13, <1>15 DEF all
  <2>2. Wrote(w, id, o, Len(o))
    BY <1>12, <1>13, <1>14, <2>1 DEF Good, n
  <2>3. Sent(w, id, o, payload)
    BY <1>15, <2>2, Finished
  <2> QED
    BY <1>2, <2>1, <2>3
<1>16. CASE payload # <<>>
  <2>1. all = Put(size, Put(size, w, <<PayloadMarker>>), payload)
    BY <1>13, <1>16 DEF all
  <2>2. Put(size, w, <<PayloadMarker>>) # Overflow /\ all = Put(size, w, <<PayloadMarker>>) \o payload
    <3> PICK y : y = Put(size, w, <<PayloadMarker>>)
      OBVIOUS
    <3>1. Put(size, y, payload) # Overflow /\ all = Put(size, y, payload)
      BY <1>14, <2>1
    <3>2. y # Overflow /\ Put(size, y, payload) = y \o payload
      BY <3>1 DEF Put
    <3> QED
      BY <3>1, <3>2
  <2>3. w # Overflow /\ all = (w \o <<PayloadMarker>>) \o payload
    <3>1. w # Overflow /\ Put(size, w, <<PayloadMarker>>) = w \o <<PayloadMarker>>
      BY <2>2, PutIs, Zenon
    <3> QED
      BY <2>2, <3>1
  <2>4. Wrote(w, id, o, Len(o))
    BY <1>12, <1>13, <2>3 DEF Good, n
  <2> QED
    BY <1>2, <2>3, <2>4, Finished
<1> QED
  BY <1>15, <1>16

\* So does tc_iot_coap_send_message, which sends it.
LEMMA DatagramIs ==
  ASSUME NEW id \in Nat, NEW o \in Seq(ShortOptions), Ordered(o), NEW payload \in Seq(0..255), NEW size,
         Datagram(Post(id, o, payload), size) # <<>>
  PROVE  Sent(Datagram(Post(id, o, payload), size), id, o, payload)
<1>1. PICK t : t = Serialize(Post(id, o, payload), size)
  OBVIOUS
<1>2. Datagram(Post(id, o, payload), size) = t /\ t # Overflow
  BY <1>1 DEF Datagram
<1> QED
  BY <1>1, <1>2, SerializeIs

-----------------------------------------------------------------------------
(* Reading it: option by option, whole or cut short.                       *)

\* A datagram cut short.
Cut(b, t, cut) == cut \in Nat /\ Len(b) = cut /\ cut <= Len(t) /\ \A i \in 1..cut : b[i] = t[i]

\* A byte of a datagram cut short: the one that was sent, or zero.
LEMMA ByteIs ==
  ASSUME NEW b, NEW t, NEW cut, Cut(b, t, cut), NEW pos \in Nat
  PROVE  ByteAt(b, pos) = IF pos < cut THEN t[pos + 1] ELSE 0
<1>1. cut \in Nat /\ Len(b) = cut /\ \A i \in 1..cut : b[i] = t[i]
  BY DEF Cut
<1>2. pos < cut => pos + 1 \in 1..cut
  BY <1>1
<1> QED
  BY <1>1, <1>2 DEF ByteAt

\* Two numbers of four bits in one byte, none of them fifteen.
LEMMA Nibbles == \A p, q \in 0..13 : (p * 16 + q) \div 16 = p /\ (p * 16 + q) % 16 = q /\ p * 16 + q # 255
  OBVIOUS

\* A number that was written, read back.
ExtraAt(t, at, n, cut) == (at < cut => t[at + 1] \in 0..255) /\ (Wide(n) = 1 => t[at + 1] = n - 13)
ReadAs(x, at, n, cut) ==
  x.extra = Wide(n) /\ x.number \in Nat /\ (Wide(n) = 0 \/ at < cut => x.number = n)

\* A number of an option is read as it was written, if its byte arrived.
LEMMA ExtendedIs ==
  ASSUME NEW b, NEW t, NEW cut, Cut(b, t, cut), NEW at \in Nat, NEW n \in 0..268, ExtraAt(t, at, n, cut)
  PROVE  ReadAs(Extended(b, at, Base(n)), at, n, cut)
<1>1. ByteAt(b, at) = IF at < cut THEN t[at + 1] ELSE 0
  BY ByteIs
<1>2. ByteAt(b, at) \in 0..255
  BY <1>1 DEF ExtraAt
<1>3. CASE n > 12
  <2>1. Base(n) = 13 /\ Wide(n) = 1
    BY <1>3, BaseIs DEF Wide
  <2>2. Extended(b, at, Base(n)) = [number |-> 13 + ByteAt(b, at), extra |-> 1]
    BY <2>1 DEF Extended
  <2>3. 13 + ByteAt(b, at) \in Nat
    BY <1>2
  <2>4. at < cut => 13 + ByteAt(b, at) = n
    BY <1>1, <2>1 DEF ExtraAt
  <2> QED
    BY <2>1, <2>2, <2>3, <2>4 DEF ReadAs
<1>4. CASE ~(n > 12)
  <2>1. Base(n) = n /\ Wide(n) = 0 /\ n # 13 /\ n # 14 /\ n \in Nat
    BY <1>4, BaseIs DEF Wide
  <2>2. Extended(b, at, Base(n)) = [number |-> n, extra |-> 0]
    BY <2>1 DEF Extended
  <2> QED
    BY <2>1, <2>2 DEF ReadAs
<1> QED
  BY <1>3, <1>4

\* A pass of the loop over the options, of its parts.
TurnOf(buffer, at, base, delta, length) ==
  LET start == at.pos + 1 + delta.extra + length.extra
      next == start + length.number
      read == Option(at.sum + delta.number, Bytes(buffer, start, length.number))
  IN  IF base \div 16 = 15 \/ base % 16 = 15 \/ next > Len(buffer)
      THEN At(at.options, at.sum, Len(buffer) + 1, "left")
      ELSE At(IF Len(at.options) < MaxOptions THEN Append(at.options, read) ELSE at.options,
              read.number, next, "on")

\* The parts of a place in the loop.
LEMMA GoesOn ==
  ASSUME NEW o, NEW sum, NEW pos, NEW a, a = At(o, sum, pos, "on")
  PROVE  a.options = o /\ a.sum = sum /\ a.pos = pos /\ a.loop # "left"
  BY DEF At

\* The parts of the place where it ends.
LEMMA Stops ==
  ASSUME NEW o, NEW sum, NEW pos, NEW a, a = At(o, sum, pos, "left")
  PROVE  a.options = o /\ a.sum = sum /\ a.pos = pos /\ a.loop = "left"
  BY DEF At

\* An element of a datagram is a byte.
LEMMA ByteOf == ASSUME NEW t \in Seq(0..255), NEW k \in 1..Len(t) PROVE t[k] \in 0..255
<1> DEFINE B == 0..255
<1>1. t \in Seq(B)
  OBVIOUS
<1> HIDE DEF B
<1>2. t[k] \in B
  BY <1>1
<1> QED
  BY <1>2 DEF B

\* An option is read, or refused.
Turned(o, sum, at, delta, value, cut) ==
  IF at + OptionLen(delta, value) <= cut
  THEN At(Append(o, Option(sum + delta, value)), sum + delta, at + OptionLen(delta, value), "on")
  ELSE At(o, sum, cut + 1, "left")

\* Where the next option is.
TurnsAt(t, b, cut, at, delta, value, o) ==
  /\ t \in Seq(0..255) /\ Cut(b, t, cut) /\ at \in Nat /\ at < cut
  /\ delta \in 0..268 /\ value \in ShortValues /\ OptionAt(t, at, delta, value) /\ Len(o) < MaxOptions

\* A pass of the loop reads the option that was written, or refuses one that is cut short.
LEMMA TurnReads ==
  \A t, b, cut, at, delta, value, o, sum :
    TurnsAt(t, b, cut, at, delta, value, o)
      => OptionTurn(b, At(o, sum, at, "on")) = Turned(o, sum, at, delta, value, cut)
<1> TAKE t, b, cut, at, delta, value, o, sum
<1> HAVE TurnsAt(t, b, cut, at, delta, value, o)
<1> t \in Seq(0..255) /\ Cut(b, t, cut) /\ at \in Nat /\ at < cut
  BY DEF TurnsAt
<1> delta \in 0..268 /\ value \in ShortValues /\ OptionAt(t, at, delta, value) /\ Len(o) < MaxOptions
  BY DEF TurnsAt
<1>1. PICK p \in 0..1, q \in 0..1, n \in 0..268 :
        p = Wide(delta) /\ q = Wide(Len(value)) /\ n = Len(value) /\ OptionLen(delta, value) = 1 + p + q + n
  BY LenIs
<1>2. cut \in Nat /\ Len(b) = cut /\ cut <= Len(t) /\ Len(t) \in Nat
  BY DEF Cut
<1>3. /\ at + (1 + p + q + n) <= Len(t)
      /\ t[at + 1] = Base(delta) * 16 + Base(n)
      /\ p = 1 => t[at + 2] = delta - 13
      /\ q = 1 => t[at + 2 + p] = n - 13
      /\ \A i \in 1..n : t[at + 1 + p + q + i] = value[i]
  BY <1>1, Zenon DEF OptionAt
<1>4. PICK base : base = ByteAt(b, at)
  OBVIOUS
<1>5. base = Base(delta) * 16 + Base(n)
  BY <1>3, <1>4, ByteIs
<1>6. base \div 16 = Base(delta) /\ base % 16 = Base(n) /\ base # 255 /\ base \div 16 # 15 /\ base % 16 # 15
  <2>1. PICK x \in 0..13 : x = Base(delta)
    BY BaseIs
  <2>2. PICK y \in 0..13 : y = Base(n)
    BY BaseIs
  <2>3. base = x * 16 + y
    BY <1>5, <2>1, <2>2
  <2>4. base \div 16 = x /\ base % 16 = y /\ base # 255 /\ x # 15 /\ y # 15
    <3>1. x # 15 /\ y # 15
      OBVIOUS
    <3>2. (x * 16 + y) \div 16 = x /\ (x * 16 + y) % 16 = y /\ x * 16 + y # 255
      BY Nibbles, Zenon
    <3> QED
      BY <2>3, <3>1, <3>2, Zenon
  <2> QED
    BY <2>1, <2>2, <2>4
<1>7. PICK d : d = Extended(b, at + 1, base \div 16)
  OBVIOUS
<1>8. d.extra = p /\ d.number \in Nat /\ (p = 0 \/ at + 1 < cut => d.number = delta)
  <2>1. at + 1 \in Nat /\ at + 1 + 1 = at + 2
    OBVIOUS
  <2>2. at + 1 < cut => t[at + 1 + 1] \in 0..255
    <3>1. at + 1 < cut => at + 1 + 1 \in 1..Len(t)
      BY <1>2
    <3> QED
      BY <3>1, ByteOf
  <2>3. Wide(delta) = 1 => t[at + 1 + 1] = delta - 13
    BY <1>1, <1>3, <2>1
  <2>4. d = Extended(b, at + 1, Base(delta))
    BY <1>6, <1>7
  <2> QED
    <3>1. ExtraAt(t, at + 1, delta, cut)
      BY <2>2, <2>3 DEF ExtraAt
    <3>2. ReadAs(d, at + 1, delta, cut)
      BY <2>1, <2>4, <3>1, ExtendedIs
    <3> QED
      BY <1>1, <3>2 DEF ReadAs
<1>9. PICK l : l = Extended(b, at + 1 + d.extra, base % 16)
  OBVIOUS
<1>10. l.extra = q /\ l.number \in Nat /\ (q = 0 \/ at + 1 + p < cut => l.number = n)
  <2>1. PICK pos \in Nat : pos = at + 1 + p
    OBVIOUS
  <2>2. pos + 1 = at + 2 + p
    BY <2>1
  <2>3. pos < cut => t[pos + 1] \in 0..255
    <3>1. pos < cut => pos + 1 \in 1..Len(t)
      BY <1>2
    <3> QED
      BY <3>1, ByteOf
  <2>4. Wide(n) = 1 => t[pos + 1] = n - 13
    BY <1>1, <1>3, <2>2
  <2>5. l = Extended(b, pos, Base(n))
    BY <1>6, <1>8, <1>9, <2>1
  <2>6. l.extra = Wide(n) /\ l.number \in Nat /\ (Wide(n) = 0 \/ pos < cut => l.number = n)
    <3>1. ExtraAt(t, pos, n, cut)
      BY <2>3, <2>4 DEF ExtraAt
    <3>2. ReadAs(l, pos, n, cut)
      BY <2>5, <3>1, ExtendedIs
    <3> QED
      BY <3>2 DEF ReadAs
  <2> QED
    BY <1>1, <2>1, <2>6
<1>11. PICK a : a = At(o, sum, at, "on")
  OBVIOUS
<1>12. a.options = o /\ a.sum = sum /\ a.pos = at /\ a.loop # "left"
  BY <1>11, GoesOn
<1>13. OptionTurn(b, a) = TurnOf(b, a, base, d, l)
  <2>1. OptionTurn(b, a) = TurnOf(b, a, ByteAt(b, a.pos), Extended(b, a.pos + 1, ByteAt(b, a.pos) \div 16),
                                  Extended(b, a.pos + 1 + Extended(b, a.pos + 1, ByteAt(b, a.pos) \div 16).extra, ByteAt(b, a.pos) % 16))
    <3>1. a.loop # "left" /\ ~(a.pos >= Len(b)) /\ ByteAt(b, a.pos) # PayloadMarker
      BY <1>2, <1>4, <1>6, <1>12 DEF PayloadMarker
    <3> QED
      BY <3>1 DEF OptionTurn, TurnOf
  <2> QED
    BY <1>4, <1>7, <1>9, <1>12, <2>1, Zenon
<1>14. PICK start \in Nat : start = at + 1 + p + q
  OBVIOUS
<1>15. PICK next \in Nat : next = start + l.number
  BY <1>10
<1>16. TurnOf(b, a, base, d, l) =
         IF base \div 16 = 15 \/ base % 16 = 15 \/ next > cut THEN At(o, sum, cut + 1, "left")
         ELSE At(Append(o, Option(sum + d.number, Bytes(b, start, l.number))), sum + d.number, next, "on")
  <2>1. a.pos + 1 + d.extra + l.extra = start
    BY <1>8, <1>10, <1>12, <1>14
  <2>2. TurnOf(b, a, base, d, l) =
          IF base \div 16 = 15 \/ base % 16 = 15 \/ start + l.number > Len(b)
          THEN At(a.options, a.sum, Len(b) + 1, "left")
          ELSE At(IF Len(a.options) < MaxOptions
                  THEN Append(a.options, Option(a.sum + d.number, Bytes(b, start, l.number))) ELSE a.options,
                  Option(a.sum + d.number, Bytes(b, start, l.number)).number, start + l.number, "on")
    BY <2>1, Zenon DEF TurnOf
  <2>3. Option(a.sum + d.number, Bytes(b, start, l.number)).number = a.sum + d.number
    BY DEF Option
  <2> QED
    BY <1>2, <1>12, <1>15, <2>2, <2>3, Zenon
<1>17. ~(base \div 16 = 15 \/ base % 16 = 15)
  BY <1>6
<1>18. CASE at + (1 + p + q + n) <= cut
  <2>1. (p = 0 \/ at + 1 < cut) /\ (q = 0 \/ at + 1 + p < cut) /\ start + n <= cut
    BY <1>2, <1>14, <1>18
  <2>2. d.number = delta /\ l.number = n
    BY <1>8, <1>10, <2>1
  <2>3. next = at + (1 + p + q + n) /\ ~(next > cut)
    BY <1>2, <1>14, <1>15, <1>18, <2>2
  <2>4. Bytes(b, start, n) = value
    <3>1. ASSUME NEW i \in 1..n PROVE ByteAt(b, start + i - 1) = value[i]
      <4>1. PICK pos \in Nat : pos = start + i - 1
        OBVIOUS
      <4>2. pos < cut /\ pos + 1 = at + 1 + p + q + i
        BY <1>2, <1>14, <2>1, <4>1
      <4>3. ByteAt(b, pos) = t[pos + 1]
        BY <4>2, ByteIs
      <4> QED
        BY <1>3, <4>1, <4>2, <4>3
    <3>2. value \in Seq(0..255)
      BY ValueIs
    <3>3. value = [i \in 1..n |-> value[i]]
      BY <1>1, <3>2
    <3>4. Bytes(b, start, n) = [i \in 1..n |-> ByteAt(b, start + i - 1)]
      BY DEF Bytes
    <3> QED
      BY <3>1, <3>3, <3>4
  <2>5. OptionTurn(b, a) = At(Append(o, Option(sum + delta, value)), sum + delta, at + (1 + p + q + n), "on")
    BY <1>13, <1>16, <1>17, <2>2, <2>3, <2>4
  <2> QED
    BY <1>1, <1>11, <1>18, <2>5, Zenon DEF Turned
<1>19. CASE ~(at + (1 + p + q + n) <= cut)
  <2>1. next > cut
    <3>1. CASE q = 0 \/ at + 1 + p < cut
      <4>1. next = at + (1 + p + q + n)
        BY <1>10, <1>14, <1>15, <3>1
      <4> QED
        BY <1>2, <1>19, <4>1
    <3>2. CASE ~(q = 0 \/ at + 1 + p < cut)
      <4>1. start > cut
        BY <1>2, <1>14, <3>2
      <4> QED
        BY <1>2, <1>10, <1>15, <4>1
    <3> QED
      BY <3>1, <3>2
  <2>2. OptionTurn(b, a) = At(o, sum, cut + 1, "left")
    BY <1>13, <1>16, <2>1
  <2> QED
    BY <1>1, <1>11, <1>19, <2>2, Zenon DEF Turned
<1> QED
  BY <1>18, <1>19, Zenon

\* The number of the last option read, and the reader behind k options.
Number(o, k) == IF k = 0 THEN 0 ELSE o[k].number
ReadAt(o, k, pos, loop) == At(SubSeq(o, 1, k), Number(o, k), pos, loop)

\* Where the reader stops: an option is cut short, there is no more, or behind the marker.
StopsAt(t, o, e, cut, j, pos) ==
  \/ pos = cut + 1 /\ cut < Len(t)
  \/ pos = cut /\ cut = e[j]
  \/ pos = e[j] + 1 /\ j = Len(o) /\ pos <= cut

\* The reader after k passes.
Pass(t, o, e, cut, k, a) ==
  \/ k \in 0..Len(o) /\ e[k] <= cut /\ a = ReadAt(o, k, e[k], "on")
  \/ \E j \in 0..Len(o), pos \in Nat : a = ReadAt(o, j, pos, "left") /\ StopsAt(t, o, e, cut, j, pos)

\* One option more.
LEMMA OneOption ==
  ASSUME NEW o \in Seq(ShortOptions), Ordered(o), NEW k \in 1..Len(o)
  PROVE  /\ Number(o, k - 1) + Delta(o, k) = o[k].number /\ Number(o, k) = o[k].number
         /\ Append(SubSeq(o, 1, k - 1), Option(o[k].number, o[k].value)) = SubSeq(o, 1, k)
         /\ Len(SubSeq(o, 1, k - 1)) = k - 1
<1>1. k \in Nat /\ k # 0 /\ o[k] \in ShortOptions
  OBVIOUS
<1>2. Option(o[k].number, o[k].value) = o[k]
  BY <1>1, OptionIs
<1>3. Append(SubSeq(o, 1, k - 1), o[k]) = SubSeq(o, 1, k) /\ Len(SubSeq(o, 1, k - 1)) = k - 1
  OBVIOUS
<1>4. Number(o, k - 1) = IF k = 1 THEN 0 ELSE o[k - 1].number
  <2>1. k - 1 = 0 <=> k = 1
    OBVIOUS
  <2> QED
    BY <2>1, Zenon DEF Number
<1>5. Number(o, k - 1) + Delta(o, k) = o[k].number
  <2>1. PICK d \in 0..268 : d = Delta(o, k)
    BY DeltaIs
  <2>2. PICK m \in 0..268 : m = Number(o, k - 1)
    <3>1. CASE k = 1
      BY <1>4, <3>1
    <3>2. CASE k # 1
      BY <1>4, <3>2, DeltaIs
    <3> QED
      BY <3>1, <3>2
  <2>3. o[k].number = d + m
    BY <1>4, <2>1, <2>2, DeltaIs
  <2>4. m + d = d + m
    OBVIOUS
  <2> QED
    BY <2>1, <2>2, <2>3, <2>4
<1>6. Number(o, k) = o[k].number
  BY <1>1 DEF Number
<1> QED
  BY <1>2, <1>3, <1>5, <1>6

\* The reader goes from one option to the next, or stops.
LEMMA PassReads ==
  ASSUME NEW t \in Seq(0..255), NEW o \in Seq(ShortOptions), Ordered(o), Len(o) <= MaxOptions,
         NEW e, Ends(t, o, Len(o), e), NEW payload, Rest(t, e[Len(o)], payload),
         NEW cut, NEW b, Cut(b, t, cut),
         NEW k \in Nat, k > 0, NEW a, Pass(t, o, e, cut, k - 1, a)
  PROVE  Pass(t, o, e, cut, k, OptionTurn(b, a))
<1>1. PICK n \in Nat : n = Len(o)
  OBVIOUS
<1>2. cut \in Nat /\ Len(b) = cut /\ cut <= Len(t) /\ Len(t) \in Nat
  BY DEF Cut
<1>3. e \in [0..n -> Nat]
  BY <1>1 DEF Ends
<1>4. ASSUME NEW j \in 0..n, NEW pos \in Nat, a = ReadAt(o, j, pos, "left"), StopsAt(t, o, e, cut, j, pos)
      PROVE  Pass(t, o, e, cut, k, OptionTurn(b, a))
  <2>1. a.loop = "left"
    BY <1>4, Stops DEF ReadAt
  <2>2. OptionTurn(b, a) = a
    BY <2>1 DEF OptionTurn
  <2> QED
    BY <1>1, <1>4, <2>2 DEF Pass
<1>5. ASSUME k - 1 \in 0..n, e[k - 1] <= cut, a = ReadAt(o, k - 1, e[k - 1], "on")
      PROVE  Pass(t, o, e, cut, k, OptionTurn(b, a))
  <2>1. PICK at \in Nat : at = e[k - 1]
    BY <1>3, <1>5
  <2>2. PICK read : read = SubSeq(o, 1, k - 1)
    OBVIOUS
  <2>3. PICK sum : sum = Number(o, k - 1)
    OBVIOUS
  <2>4. a = At(read, sum, at, "on")
    BY <1>5, <2>1, <2>2, <2>3 DEF ReadAt
  <2>5. a.options = read /\ a.sum = sum /\ a.pos = at /\ a.loop # "left"
    BY <2>4, GoesOn
  <2>6. ASSUME NEW pos \in Nat, OptionTurn(b, a) = At(read, sum, pos, "left"), StopsAt(t, o, e, cut, k - 1, pos)
        PROVE  Pass(t, o, e, cut, k, OptionTurn(b, a))
    BY <1>1, <1>5, <2>2, <2>3, <2>6 DEF Pass, ReadAt
  <2>7. CASE at >= cut
    <3>1. at = cut
      BY <1>2, <1>5, <2>1, <2>7
    <3>2. OptionTurn(b, a) = At(read, sum, at, "left")
      BY <1>2, <2>5, <2>7 DEF OptionTurn
    <3>3. StopsAt(t, o, e, cut, k - 1, at)
      BY <2>1, <3>1 DEF StopsAt
    <3> QED
      BY <2>6, <3>2, <3>3
  <2>8. CASE at < cut /\ k - 1 = n
    <3>1. e[Len(o)] = at
      BY <1>1, <2>1, <2>8
    <3>2. t[at + 1] = 255
      BY <1>2, <2>8, <3>1 DEF Rest
    <3>3. ByteAt(b, at) = PayloadMarker
      BY <2>8, <3>2, ByteIs DEF PayloadMarker
    <3>4. ~(at >= cut)
      BY <1>2, <2>8
    <3>5. OptionTurn(b, a) = At(read, sum, at + 1, "left")
      BY <1>2, <2>5, <3>3, <3>4 DEF OptionTurn
    <3>6. at + 1 \in Nat /\ at + 1 <= cut
      BY <1>2, <2>8
    <3>7. StopsAt(t, o, e, cut, k - 1, at + 1)
      BY <1>1, <2>1, <2>8, <3>6 DEF StopsAt
    <3> QED
      BY <2>6, <3>5, <3>6, <3>7
  <2>9. CASE at < cut /\ k - 1 # n
    <3>1. k \in 1..Len(o) /\ k \in 0..Len(o) /\ k - 1 < MaxOptions
      <4>1. n <= MaxOptions /\ MaxOptions = 16
        BY <1>1 DEF MaxOptions
      <4>2. k \in 1..n /\ k \in 0..n /\ k - 1 < 16
        BY <1>5, <2>9, <4>1
      <4> QED
        BY <1>1, <4>1, <4>2
    <3>2. PICK delta : delta = Delta(o, k)
      OBVIOUS
    <3>3. PICK value : value = o[k].value
      OBVIOUS
    <3>4. delta \in 0..268 /\ value \in ShortValues
      BY <3>1, <3>2, <3>3, DeltaIs
    <3>5. OptionAt(t, at, delta, value) /\ e[k] = at + OptionLen(delta, value) /\ e[k] \in Nat
      BY <1>1, <1>3, <2>1, <3>1, <3>2, <3>3 DEF Ends
    <3>6. /\ sum + delta = o[k].number /\ Number(o, k) = o[k].number
          /\ Append(read, Option(o[k].number, value)) = SubSeq(o, 1, k) /\ Len(read) = k - 1
      BY <2>2, <2>3, <3>1, <3>2, <3>3, OneOption
    <3>7. Len(read) < MaxOptions
      BY <3>1, <3>6
    <3>8. OptionTurn(b, a) =
            IF at + OptionLen(delta, value) <= cut
            THEN At(Append(read, Option(sum + delta, value)), sum + delta, at + OptionLen(delta, value), "on")
            ELSE At(read, sum, cut + 1, "left")
      <4>1. at < cut
        BY <2>9
      <4> QED
        <5>1. OptionTurn(b, At(read, sum, at, "on")) = Turned(read, sum, at, delta, value, cut)
          <6>1. TurnsAt(t, b, cut, at, delta, value, read)
            BY <3>4, <3>5, <3>7, <4>1 DEF TurnsAt
          <6> QED
            BY <6>1, TurnReads, SMT
        <5> QED
          BY <2>4, <5>1, Zenon DEF Turned
    <3>9. CASE e[k] <= cut
      <4>1. OptionTurn(b, a) = At(SubSeq(o, 1, k), Number(o, k), e[k], "on")
        BY <3>5, <3>6, <3>8, <3>9
      <4> QED
        BY <3>1, <3>9, <4>1 DEF Pass, ReadAt
    <3>10. CASE ~(e[k] <= cut)
      <4>1. OptionTurn(b, a) = At(read, sum, cut + 1, "left")
        BY <3>5, <3>8, <3>10
      <4>2. e[k] <= Len(t)
        BY <3>5 DEF OptionAt
      <4>3. cut < Len(t) /\ cut + 1 \in Nat
        BY <1>2, <3>5, <3>10, <4>2
      <4>4. StopsAt(t, o, e, cut, k - 1, cut + 1)
        BY <4>3 DEF StopsAt
      <4> QED
        BY <2>6, <4>1, <4>3, <4>4
    <3> QED
      BY <3>9, <3>10
  <2> QED
    BY <1>2, <2>1, <2>7, <2>8, <2>9
<1> QED
  BY <1>1, <1>4, <1>5 DEF Pass

\* An option takes a byte at least.
LEMMA EndsGrow ==
  ASSUME NEW t, NEW o \in Seq(ShortOptions), Ordered(o), NEW e, Ends(t, o, Len(o), e)
  PROVE  \A k \in 0..Len(o) : e[k] >= 8 + k
<1>1. PICK n \in Nat : n = Len(o)
  OBVIOUS
<1>2. e \in [0..n -> Nat] /\ e[0] = 8 /\ \A j \in 1..n : e[j] = e[j - 1] + OptionLen(Delta(o, j), o[j].value)
  BY <1>1 DEF Ends
<1> DEFINE R == {x \in Nat \X Nat : x[2] >= 8 + x[1]}
<1>3. \A i, x \in Nat : <<i, x>> \in R <=> x >= 8 + i
  OBVIOUS
<1> HIDE DEF R
<1>4. <<0, e[0]>> \in R
  BY <1>2, <1>3
<1>5. ASSUME NEW i \in 1..n, <<i - 1, e[i - 1]>> \in R
      PROVE  <<i, e[i]>> \in R
  <2>1. PICK d \in Nat : d = OptionLen(Delta(o, i), o[i].value) /\ d >= 1
    <3>1. Delta(o, i) \in 0..268 /\ o[i].value \in ShortValues
      BY <1>1, DeltaIs
    <3>2. PICK delta \in 0..268, value \in ShortValues : delta = Delta(o, i) /\ value = o[i].value
      BY <3>1
    <3>3. PICK p, q \in 0..1, m \in 0..268 :
            p = Wide(delta) /\ q = Wide(Len(value)) /\ m = Len(value) /\ OptionLen(delta, value) = 1 + p + q + m
      BY LenIs
    <3> QED
      BY <3>2, <3>3
  <2>2. i - 1 \in 0..n /\ i \in 0..n /\ i - 1 \in Nat /\ i \in Nat
    BY <1>1
  <2>3. PICK x \in Nat : x = e[i - 1]
    BY <1>2, <2>2
  <2>4. x >= 8 + (i - 1)
    BY <1>3, <1>5, <2>2, <2>3
  <2>5. e[i] = x + d
    BY <1>2, <2>1, <2>3
  <2>6. x + d >= 8 + i /\ x + d \in Nat
    BY <2>1, <2>4
  <2> QED
    BY <1>3, <2>2, <2>5, <2>6
<1>6. \A i \in 0..n : <<i, e[i]>> \in R
  BY <1>4, <1>5, LoopKeeps
<1>7. ASSUME NEW k \in 0..n PROVE e[k] >= 8 + k
  <2>1. k \in Nat /\ e[k] \in Nat
    BY <1>2
  <2> QED
    BY <1>3, <1>6, <2>1
<1> QED
  BY <1>1, <1>7

\* The loop of the reader, to where it stops.
LEMMA ReadsAll ==
  ASSUME NEW t \in Seq(0..255), NEW o \in Seq(ShortOptions), Ordered(o), Len(o) <= MaxOptions,
         NEW e, Ends(t, o, Len(o), e), NEW payload, Rest(t, e[Len(o)], payload),
         NEW cut, NEW b, Cut(b, t, cut), cut >= 8
  PROVE  \E j \in 0..Len(o), pos \in Nat :
           OptionsFrom(b, 8) = ReadAt(o, j, pos, "left") /\ StopsAt(t, o, e, cut, j, pos)
<1> DEFINE n == Len(b)
           base == At(<<>>, 0, 8, "on")
           Loop(g) == g = [k \in 0..n |-> IF k = 0 THEN base ELSE OptionTurn(b, g[k - 1])]
           passes == CHOOSE g : Loop(g)
           Good(k, a) == Pass(t, o, e, cut, k, a)
           D == {ReadAt(o, k, pos, loop) : k \in 0..Len(o), pos \in Nat, loop \in {"on", "left"}}
           R == {x \in Nat \X D : Good(x[1], x[2])}
           last == CHOOSE k \in 0..n : passes[k].loop = "left"
<1>1. cut \in Nat /\ n = cut /\ n \in Nat
  BY DEF Cut
<1>2. OptionsFrom(b, 8) = passes[last]
  BY DEF OptionsFrom
<1>3. ASSUME NEW k \in Nat, NEW a PROVE <<k, a>> \in R <=> Good(k, a)
  <2>1. Good(k, a) => a \in D
    <3>1. ASSUME k \in 0..Len(o), e[k] <= cut, a = ReadAt(o, k, e[k], "on")
          PROVE  a \in D
      <4>1. e[k] \in Nat
        BY <3>1 DEF Ends
      <4> QED
        BY <3>1, <4>1
    <3>2. ASSUME NEW j \in 0..Len(o), NEW pos \in Nat, a = ReadAt(o, j, pos, "left")
          PROVE  a \in D
      BY <3>2
    <3> HIDE DEF D
    <3> QED
      BY <3>1, <3>2 DEF Pass
  <2> HIDE DEF Good, D
  <2> QED
    BY <2>1
<1>4. ASSUME NEW k \in 1..n, NEW a, Good(k - 1, a) PROVE Good(k, OptionTurn(b, a))
  <2>1. k \in Nat /\ k > 0
    BY <1>1
  <2> QED
    BY <1>4, <2>1, PassReads
<1>5. Good(0, base)
  <2>1. 0 \in 0..Len(o) /\ e[0] = 8 /\ 8 <= cut
    BY <1>1 DEF Ends
  <2>2. base = ReadAt(o, 0, 8, "on")
    <3>1. SubSeq(o, 1, 0) = <<>>
      OBVIOUS
    <3>2. Number(o, 0) = 0
      BY DEF Number
    <3> QED
      BY <3>1, <3>2 DEF ReadAt
  <2> QED
    BY <2>1, <2>2 DEF Pass
<1>6. base \in D
  <2>1. <<0, base>> \in R
    BY <1>3, <1>5
  <2> HIDE DEF D, Good, base
  <2> QED
    BY <2>1
<1> HIDE DEF Good, D, R, base, n
<1>7. \A k \in 1..n : k \in Nat /\ k - 1 \in Nat /\ k - 1 \in 0..n /\ k \in 0..n /\ k # 0
  BY <1>1
<1>8. \E g : Loop(g)
  <2> DEFINE step == [x \in Nat \X D |-> OptionTurn(b, x[2])]
  <2>1. \A k \in Nat, a \in D : step[<<k, a>>] = OptionTurn(b, a)
    OBVIOUS
  <2> HIDE DEF step
  <2>2. Keeps(D, R, step, n)
    <3> SUFFICES ASSUME NEW k \in 1..n, NEW a \in D, <<k - 1, a>> \in R
                 PROVE  step[<<k, a>>] \in D /\ <<k, step[<<k, a>>]>> \in R
      BY DEF Keeps
    <3>1. Good(k, OptionTurn(b, a))
      BY <1>3, <1>4, <1>7
    <3>2. <<k, OptionTurn(b, a)>> \in R
      BY <1>3, <1>7, <3>1
    <3>3. OptionTurn(b, a) \in D
      BY <3>2 DEF R
    <3> QED
      BY <1>7, <2>1, <3>2, <3>3
  <2>3. <<0, base>> \in R
    BY <1>3, <1>5
  <2>4. PICK g \in [0..n -> D] : g[0] = base /\ \A k \in 1..n : g[k] = step[<<k, g[k - 1]>>]
    <3>1. Loops(D, base, step, n)
      BY <1>1, <1>6, <2>2, <2>3, LoopReaches, Zenon
    <3> QED
      BY <3>1 DEF Loops
  <2>5. \A k \in 1..n : g[k] = OptionTurn(b, g[k - 1])
    BY <1>7, <2>1, <2>4
  <2>6. ASSUME NEW k \in 0..n PROVE g[k] = IF k = 0 THEN base ELSE OptionTurn(b, g[k - 1])
    BY <1>1, <2>4, <2>5
  <2>7. g = [k \in 0..n |-> g[k]]
    BY <2>4
  <2> QED
    BY <2>6, <2>7
<1> HIDE DEF last
<1>9. passes = [k \in 0..n |-> IF k = 0 THEN base ELSE OptionTurn(b, passes[k - 1])]
  BY <1>8
<1> HIDE DEF passes
<1>10. passes[0] = base /\ \A k \in 1..n : passes[k] = OptionTurn(b, passes[k - 1])
  <2>1. 0 \in 0..n
    BY <1>1
  <2> QED
    BY <1>7, <1>9, <2>1
<1>11. \A k \in 0..n : <<k, passes[k]>> \in R
  <2>1. <<0, passes[0]>> \in R
    BY <1>3, <1>5, <1>10
  <2>2. \A k \in 1..n : <<k - 1, passes[k - 1]>> \in R => <<k, passes[k]>> \in R
    BY <1>3, <1>4, <1>7, <1>10
  <2> QED
    BY <1>1, <2>1, <2>2, LoopKeeps
<1>12. \A k \in 0..n : Good(k, passes[k])
  <2> SUFFICES ASSUME NEW k \in 0..n PROVE Good(k, passes[k])
    OBVIOUS
  <2>1. k \in Nat
    BY <1>1
  <2> QED
    BY <1>3, <1>11, <2>1
<1>13. n \in 0..n /\ passes[n].loop = "left"
  <2>1. n \in 0..n
    BY <1>1
  <2>2. Pass(t, o, e, cut, n, passes[n])
    BY <1>12, <2>1 DEF Good
  <2>3. ~(n \in 0..Len(o) /\ e[n] <= cut)
    <3> SUFFICES ASSUME n \in 0..Len(o), e[n] <= cut PROVE FALSE
      OBVIOUS
    <3>1. e[n] >= 8 + n
      BY EndsGrow
    <3>2. e[n] \in Nat
      BY DEF Ends
    <3> QED
      BY <1>1, <3>1, <3>2
  <2>4. PICK j \in 0..Len(o), pos \in Nat : passes[n] = ReadAt(o, j, pos, "left")
    BY <2>2, <2>3 DEF Pass
  <2> QED
    BY <2>1, <2>4, Stops DEF ReadAt
<1>14. last \in 0..n /\ passes[last].loop = "left"
  BY <1>13 DEF last
<1>15. Pass(t, o, e, cut, last, passes[last])
  BY <1>12, <1>14 DEF Good
<1>16. passes[last] # ReadAt(o, last, e[last], "on")
  BY <1>14, GoesOn DEF ReadAt
<1> QED
  BY <1>2, <1>15, <1>16 DEF Pass

-----------------------------------------------------------------------------
(* A request survives its way.                                             *)

\* A message id of sixteen bits.
Word(id) == id \in Nat /\ id < 65536

\* A message id is read back from its two bytes.
LEMMA IdIs ==
  ASSUME NEW id \in Nat, id < 65536, NEW h, h = (id \div 256) % 256, NEW l, l = id % 256
  PROVE  256 * h + l = id
<1>1. PICK q \in Nat : q = id \div 256
  OBVIOUS
<1>2. l \in 0..255 /\ id = 256 * q + l
  BY <1>1
<1>3. q < 256
  BY <1>2
<1>4. h = q % 256
  BY <1>1
<1>5. h = q
  BY <1>3, <1>4
<1> QED
  BY <1>2, <1>5

\* The outcome of the reader, of its parts.
Outcome(b, token_len, pos, rest) ==
  CASE Len(b) < 4 -> {}
    [] Len(b) >= 4 /\ pos >= Len(b) -> {Received(b, token_len, <<>>, <<>>)}
    [] OTHER -> IF rest.pos > Len(b) THEN {}
                ELSE {Received(b, token_len, rest.options, SubSeq(b, rest.pos + 1, Len(b)))}

\* The outcome of tc_iot_coap_deserialize.
LEMMA OutcomeIs ==
  ASSUME NEW b, NEW token_len, token_len = b[1] % 16, NEW pos, pos = 4 + token_len, NEW rest, rest = OptionsFrom(b, pos)
  PROVE  Deserialize(b) = Outcome(b, token_len, pos, rest)
  BY DEF Deserialize, Refused, Outcome

\* Less than a head is refused.
LEMMA NoneRead == ASSUME NEW b, Len(b) < 4 PROVE Deserialize(b) = {}
  BY DEF Deserialize, Refused

\* A head and no more than its token: no options, no payload.
LEMMA ShortRead ==
  ASSUME NEW b, NEW cut \in Nat, Len(b) = cut, cut >= 4, 8 >= cut, b[1] = 68
  PROVE  Deserialize(b) = {Received(b, 4, <<>>, <<>>)}
<1>1. PICK rest : rest = OptionsFrom(b, 8)
  OBVIOUS
<1>2. b[1] % 16 = 4 /\ 8 = 4 + 4
  OBVIOUS
<1>3. Deserialize(b) = Outcome(b, 4, 8, rest)
  BY <1>1, <1>2, OutcomeIs
<1>4. ~(Len(b) < 4) /\ Len(b) >= 4 /\ 8 >= Len(b)
  OBVIOUS
<1> QED
  BY <1>3, <1>4 DEF Outcome

\* Behind the token the options are read.
LEMMA LongRead ==
  ASSUME NEW b, NEW cut \in Nat, Len(b) = cut, cut > 8, b[1] = 68, NEW rest, rest = OptionsFrom(b, 8)
  PROVE  /\ rest.pos > cut => Deserialize(b) = {}
         /\ ~(rest.pos > cut) => Deserialize(b) = {Received(b, 4, rest.options, SubSeq(b, rest.pos + 1, cut))}
<1>1. b[1] % 16 = 4 /\ 8 = 4 + 4
  OBVIOUS
<1>2. Deserialize(b) = Outcome(b, 4, 8, rest)
  BY <1>1, OutcomeIs
<1>3. ~(Len(b) < 4) /\ ~(8 >= Len(b))
  OBVIOUS
<1> QED
  BY <1>2, <1>3 DEF Outcome

\* A sequence that another one goes on with.
LEMMA PrefixIs ==
  ASSUME NEW s, NEW z, Len(s) \in Nat, Len(s) <= Len(z), \A i \in 1..Len(s) : s[i] = z[i]
  PROVE  IsPrefix(s, z)
<1>1. PICK n \in Nat : n = Len(s)
  OBVIOUS
<1>2. SubSeq(s, 1, n) = [i \in 1..n |-> s[1 + i - 1]] /\ SubSeq(z, 1, n) = [i \in 1..n |-> z[1 + i - 1]]
  BY <1>1
<1>3. SubSeq(s, 1, n) = SubSeq(z, 1, n)
  BY <1>1, <1>2
<1> QED
  BY <1>1, <1>3 DEF IsPrefix

\* The head of a request, read back.
LEMMA ReceivedIs ==
  ASSUME NEW id \in Nat, Word(id), NEW t, HeadIs(t, id), NEW cut, NEW b, Cut(b, t, cut), cut >= 4, NEW x, NEW y
  PROVE  /\ b[1] = 68
         /\ Received(b, 4, x, y) = [type |-> 0, code |-> 2, message_id |-> id, token |-> Bytes(b, 4, 4),
                                    options |-> x, payload |-> y]
<1>1. cut \in Nat /\ \A i \in 1..cut : b[i] = t[i]
  BY DEF Cut
<1>2. 1 \in 1..cut /\ 2 \in 1..cut /\ 3 \in 1..cut /\ 4 \in 1..cut
  BY <1>1
<1>3. b[1] = 68 /\ b[2] = 2 /\ b[3] = (id \div 256) % 256 /\ b[4] = id % 256
  BY <1>1, <1>2 DEF HeadIs
<1>4. (b[1] \div 16) % 4 = 0
  BY <1>3
<1>5. 256 * b[3] + b[4] = id
  BY <1>3, IdIs DEF Word
<1> QED
  BY <1>3, <1>4, <1>5 DEF Received

\* The token is read back.
LEMMA TokenRead ==
  ASSUME NEW id \in Nat, NEW t, HeadIs(t, id), Len(t) \in Nat, Len(t) >= 8
  PROVE  Bytes(t, 4, 4) = Token(id)
<1>1. ASSUME NEW i \in 1..4 PROVE ByteAt(t, 4 + i - 1) = Token(id)[i]
  <2>1. 4 + i - 1 < Len(t) /\ (4 + i - 1) + 1 = 4 + i
    OBVIOUS
  <2>2. t[4 + i] = Token(id)[i]
    BY DEF HeadIs
  <2> QED
    BY <2>1, <2>2 DEF ByteAt
<1>2. Token(id) = [i \in 1..4 |-> Token(id)[i]]
  <2>1. PICK token \in Seq(0..255) : token = Token(id) /\ Len(token) = 4
    BY TokenIs
  <2>2. token = [i \in 1..4 |-> token[i]]
    BY <2>1
  <2> QED
    BY <2>1, <2>2
<1> QED
  BY <1>1, <1>2 DEF Bytes

\* What is behind the place where the reader stops is a part of the payload.
PayloadIs(t, o, e, payload, cut, b, j, pos) ==
  /\ IsPrefix(SubSeq(b, pos + 1, cut), payload)
  /\ cut = Len(t) /\ pos # e[j] => SubSeq(b, pos + 1, cut) = payload /\ j = Len(o)

\* What is read as the payload is a part of it; of a whole datagram, all of it.
LEMMA PayloadRead ==
  ASSUME NEW t, NEW o \in Seq(ShortOptions), NEW e, e \in [0..Len(o) -> Nat], NEW payload \in Seq(0..255), Rest(t, e[Len(o)], payload),
         NEW cut, NEW b, Cut(b, t, cut), NEW j \in 0..Len(o), NEW pos \in Nat, StopsAt(t, o, e, cut, j, pos), pos <= cut
  PROVE  PayloadIs(t, o, e, payload, cut, b, j, pos)
<1> SUFFICES /\ IsPrefix(SubSeq(b, pos + 1, cut), payload)
             /\ cut = Len(t) /\ pos # e[j] => SubSeq(b, pos + 1, cut) = payload /\ j = Len(o)
  BY DEF PayloadIs
<1>1. cut \in Nat /\ Len(b) = cut /\ cut <= Len(t) /\ Len(t) \in Nat /\ \A i \in 1..cut : b[i] = t[i]
  BY DEF Cut
<1>2. PICK n \in Nat : n = cut - pos
  BY <1>1
<1>3. PICK p : p = SubSeq(b, pos + 1, cut)
  OBVIOUS
<1>4. p = [i \in 1..n |-> b[pos + i]]
  <2>1. SubSeq(b, pos + 1, cut) = [i \in 1..n |-> b[(pos + 1) + i - 1]]
    BY <1>1, <1>2
  <2>2. \A i \in 1..n : (pos + 1) + i - 1 = pos + i
    OBVIOUS
  <2> QED
    BY <1>3, <2>1, <2>2
<1>5. Len(p) = n /\ \A i \in 1..n : p[i] = t[pos + i]
  <2>1. Len(p) = n /\ \A i \in 1..n : p[i] = b[pos + i]
    BY <1>4
  <2>2. \A i \in 1..n : pos + i \in 1..cut
    BY <1>1, <1>2
  <2> QED
    BY <1>1, <2>1, <2>2
<1>6. PICK m \in Nat : m = Len(payload)
  OBVIOUS
<1>7. pos # cut + 1
  BY <1>1
<1>8. CASE pos = cut /\ cut = e[j]
  <2>1. n = 0 /\ 1..0 = {}
    BY <1>1, <1>2, <1>8
  <2>2. IsPrefix(p, payload)
    BY <1>5, <1>6, <2>1, PrefixIs
  <2> QED
    BY <1>3, <1>8, <2>2
<1>9. CASE pos = e[j] + 1 /\ j = Len(o)
  <2>1. PICK at \in Nat : at = e[j]
    OBVIOUS
  <2>2. Len(t) # at
    BY <1>1, <1>9, <2>1
  <2>3. Len(t) = at + 1 + m /\ \A i \in 1..m : t[at + 1 + i] = payload[i]
    BY <1>6, <1>9, <2>1, <2>2 DEF Rest
  <2>4. n <= m /\ pos = at + 1 /\ (cut = Len(t) => n = m)
    <3>1. PICK l \in Nat : l = Len(t)
      BY <1>1
    <3>2. l = at + 1 + m /\ cut <= l
      BY <1>1, <2>3, <3>1
    <3>3. pos = at + 1
      BY <1>9, <2>1
    <3>4. n <= m
      BY <1>1, <1>2, <3>2, <3>3
    <3>5. cut = l => n = m
      BY <1>1, <1>2, <3>2, <3>3
    <3> QED
      BY <3>1, <3>3, <3>4, <3>5
  <2>5. \A i \in 1..n : i \in 1..m
    BY <2>4
  <2>6. \A i \in 1..n : p[i] = payload[i]
    BY <1>5, <2>3, <2>4, <2>5
  <2>7. IsPrefix(p, payload)
    BY <1>5, <1>6, <2>4, <2>6, PrefixIs
  <2>8. ASSUME cut = Len(t) PROVE p = payload
    <3>1. payload = [i \in 1..m |-> payload[i]]
      BY <1>6
    <3>2. p = [i \in 1..n |-> p[i]]
      BY <1>4
    <3> QED
      BY <2>4, <2>6, <2>8, <3>1, <3>2
  <2> QED
    BY <1>3, <1>9, <2>7, <2>8
<1> QED
  BY <1>7, <1>8, <1>9 DEF StopsAt

\* A message of its parts.
LEMMA PostIs ==
  ASSUME NEW id, NEW o, NEW payload, NEW read,
         read = [type |-> 0, code |-> 2, message_id |-> id, token |-> Token(id), options |-> o, payload |-> payload]
  PROVE  read = Post(id, o, payload)
  BY DEF Post

\* A message with fewer options or a shorter payload.
LEMMA PartOf ==
  ASSUME NEW id, NEW o, NEW payload, NEW token, NEW x, IsPrefix(x, o), NEW y, IsPrefix(y, payload), NEW read,
         read = [type |-> 0, code |-> 2, message_id |-> id, token |-> token, options |-> x, payload |-> y]
  PROVE  CutIsPrefix(Post(id, o, payload), read)
<1>1. read.message_id = id /\ read.code = 2 /\ read.options = x /\ read.payload = y
  OBVIOUS
<1> QED
  BY <1>1 DEF CutIsPrefix, Post

\* What is sent, and where its options end.
Fine(id, o, payload) ==
  id \in Nat /\ Word(id) /\ o \in Seq(ShortOptions) /\ Ordered(o) /\ Len(o) <= MaxOptions /\ payload \in Seq(0..255)
SentAt(t, id, o, payload, e) == t \in Seq(0..255) /\ HeadIs(t, id) /\ Ends(t, o, Len(o), e) /\ Rest(t, e[Len(o)], payload)

\* Where the options of a datagram end, and how long it is.
LEMMA SentLen ==
  ASSUME NEW t, NEW id, NEW o, NEW payload, Fine(id, o, payload), NEW e, SentAt(t, id, o, payload, e)
  PROVE  /\ Len(o) \in Nat /\ Len(t) \in Nat /\ e \in [0..Len(o) -> Nat] /\ \A k \in 0..Len(o) : e[k] >= 8 + k
         /\ Len(t) >= e[Len(o)] /\ (Len(t) = e[Len(o)] => payload = <<>>)
<1>1. o \in Seq(ShortOptions) /\ Ordered(o) /\ payload \in Seq(0..255)
  BY DEF Fine
<1>2. t \in Seq(0..255)
  BY DEF SentAt
<1>3. Ends(t, o, Len(o), e) /\ Rest(t, e[Len(o)], payload)
  BY DEF SentAt
<1>4. Len(o) \in Nat /\ Len(payload) \in Nat
  BY <1>1
<1>5. Len(t) \in Nat
  BY <1>2
<1>6. e \in [0..Len(o) -> Nat]
  BY <1>3 DEF Ends
<1>7. \A k \in 0..Len(o) : e[k] >= 8 + k
  BY <1>1, <1>3, EndsGrow
<1>8. PICK at \in Nat : at = e[Len(o)]
  BY <1>4, <1>6
<1>9. Len(t) >= at /\ (Len(t) = at => payload = <<>>)
  <2>1. Rest(t, at, payload)
    BY <1>3, <1>8
  <2>2. CASE payload = <<>> /\ Len(t) = at
    BY <2>2
  <2>3. CASE Len(t) = at + 1 + Len(payload)
    <3>1. Len(t) > at
      BY <1>4, <2>3
    <3> QED
      BY <3>1
  <2> QED
    BY <2>1, <2>2, <2>3 DEF Rest
<1> QED
  BY <1>4, <1>5, <1>6, <1>7, <1>8, <1>9

\* Where the datagram ends all options have been read.
LEMMA NoneBehind ==
  ASSUME NEW t, NEW id, NEW o, NEW payload, Fine(id, o, payload), NEW e, SentAt(t, id, o, payload, e),
         NEW j \in 0..Len(o), e[j] = Len(t)
  PROVE  j = Len(o)
<1> SUFFICES ASSUME j # Len(o) PROVE FALSE
  OBVIOUS
<1>1. Len(o) \in Nat /\ Len(t) \in Nat
  BY SentLen
<1>2. j + 1 \in 1..Len(o) /\ (j + 1) - 1 = j
  BY <1>1
<1>3. o \in Seq(ShortOptions) /\ Ordered(o)
  BY DEF Fine
<1>4. PICK delta \in 0..268, value \in ShortValues : delta = Delta(o, j + 1) /\ value = o[j + 1].value
  BY <1>2, <1>3, DeltaIs
<1>5. OptionAt(t, e[j], delta, value)
  <2>1. Ends(t, o, Len(o), e)
    BY DEF SentAt
  <2>2. OptionAt(t, e[(j + 1) - 1], Delta(o, j + 1), o[j + 1].value)
    BY <1>2, <2>1 DEF Ends
  <2> QED
    BY <1>2, <1>4, <2>2
<1>6. PICK p, q \in 0..1, l \in 0..268 :
        p = Wide(delta) /\ q = Wide(Len(value)) /\ l = Len(value) /\ OptionLen(delta, value) = 1 + p + q + l
  BY LenIs
<1>7. Len(t) + (1 + p + q + l) <= Len(t)
  BY <1>5, <1>6, Zenon DEF OptionAt
<1> QED
  BY <1>1, <1>7

\* The options read and the place behind them.
LEMMA ReadAtIs ==
  ASSUME NEW o, NEW j, NEW pos, NEW rest, rest = ReadAt(o, j, pos, "left")
  PROVE  rest.options = SubSeq(o, 1, j) /\ rest.pos = pos
<1>1. PICK x : x = SubSeq(o, 1, j)
  OBVIOUS
<1>2. PICK sum : sum = Number(o, j)
  OBVIOUS
<1>3. rest = At(x, sum, pos, "left")
  BY <1>1, <1>2 DEF ReadAt
<1>4. rest.options = x /\ rest.pos = pos
  BY <1>3, Stops
<1> QED
  BY <1>1, <1>4

\* The loop of the reader over a datagram that is longer than a head.
StoppedAt(rest, t, o, e, payload, cut, b, j, pos) ==
  /\ rest.options = SubSeq(o, 1, j) /\ rest.pos = pos /\ StopsAt(t, o, e, cut, j, pos)
  /\ pos <= cut => IsPrefix(SubSeq(b, pos + 1, cut), payload)
  /\ pos <= cut /\ cut = Len(t) /\ pos # e[j] => SubSeq(b, pos + 1, cut) = payload /\ j = Len(o)

\* The loop of the reader over a datagram that is longer than a head.
LEMMA ReadsOn ==
  ASSUME NEW t, NEW id, NEW o, NEW payload, Fine(id, o, payload), NEW e, SentAt(t, id, o, payload, e),
         NEW cut, NEW b, Cut(b, t, cut), cut > 8, NEW rest, rest = OptionsFrom(b, 8)
  PROVE  \E j \in 0..Len(o), pos \in Nat : StoppedAt(rest, t, o, e, payload, cut, b, j, pos)
<1>1. o \in Seq(ShortOptions) /\ Ordered(o) /\ Len(o) <= MaxOptions
  BY DEF Fine
<1>2. payload \in Seq(0..255)
  BY DEF Fine
<1>3. t \in Seq(0..255)
  BY DEF SentAt
<1>4. Ends(t, o, Len(o), e) /\ Rest(t, e[Len(o)], payload)
  BY DEF SentAt
<1>5. cut \in Nat /\ cut >= 8
  BY DEF Cut
<1>6. PICK j \in 0..Len(o), pos \in Nat : OptionsFrom(b, 8) = ReadAt(o, j, pos, "left") /\ StopsAt(t, o, e, cut, j, pos)
  BY <1>1, <1>3, <1>4, <1>5, ReadsAll
<1>7. rest.options = SubSeq(o, 1, j) /\ rest.pos = pos
  BY <1>6, ReadAtIs
<1>8. e \in [0..Len(o) -> Nat]
  BY SentLen
<1>9. Rest(t, e[Len(o)], payload) /\ StopsAt(t, o, e, cut, j, pos)
  BY <1>4, <1>6
<1>10. o \in Seq(ShortOptions)
  BY <1>1
<1>11. ASSUME pos <= cut PROVE PayloadIs(t, o, e, payload, cut, b, j, pos)
  BY <1>2, <1>8, <1>9, <1>10, <1>11, PayloadRead
<1> QED
  BY <1>7, <1>9, <1>11 DEF StoppedAt, PayloadIs

\* A datagram that arrives whole.
LEMMA ReadsWhole ==
  ASSUME NEW t, NEW id, NEW o, NEW payload, Fine(id, o, payload), NEW e, SentAt(t, id, o, payload, e)
  PROVE  Deserialize(t) = {Post(id, o, payload)}
<1>1. PICK n \in Nat, cut \in Nat : n = Len(o) /\ cut = Len(t)
  BY SentLen
<1>2. cut >= e[n] /\ e[n] >= 8 + n /\ e[n] \in Nat /\ (cut = e[n] => payload = <<>>)
  <2>1. n \in 0..n
    BY <1>1
  <2> QED
    BY <1>1, <2>1, SentLen
<1>3. cut >= 8 /\ cut >= 4
  BY <1>2
<1>4. Cut(t, t, cut)
  BY <1>1 DEF Cut
<1>5. HeadIs(t, id) /\ Word(id) /\ id \in Nat
  BY DEF SentAt, Fine
<1>6. ASSUME NEW x, NEW y PROVE t[1] = 68 /\ Received(t, 4, x, y) = Post(id, x, y)
  <2>1. Bytes(t, 4, 4) = Token(id)
    BY <1>1, <1>3, <1>5, TokenRead
  <2>2. t[1] = 68 /\ Received(t, 4, x, y) = [type |-> 0, code |-> 2, message_id |-> id, token |-> Bytes(t, 4, 4),
                                    options |-> x, payload |-> y]
    BY <1>3, <1>4, <1>5, ReceivedIs
  <2> QED
    BY <2>1, <2>2, PostIs
<1>7. t[1] = 68 /\ Len(t) = cut
  BY <1>1, <1>6
<1>8. o \in Seq(ShortOptions) /\ payload \in Seq(0..255)
  BY DEF Fine
<1>9. CASE 8 >= cut
  <2>1. n = 0 /\ cut = e[n]
    BY <1>2, <1>9
  <2>2. o = <<>> /\ payload = <<>>
    <3>1. Len(o) = 0
      BY <1>1, <2>1
    <3>2. o = <<>>
      BY <1>8, <3>1
    <3> QED
      BY <1>2, <2>1, <3>2
  <2>3. Deserialize(t) = {Received(t, 4, <<>>, <<>>)}
    BY <1>3, <1>7, <1>9, ShortRead
  <2> QED
    BY <1>6, <2>2, <2>3
<1>10. CASE cut > 8
  <2>1. PICK rest : rest = OptionsFrom(t, 8)
    OBVIOUS
  <2>2. ~(rest.pos > cut) => Deserialize(t) = {Received(t, 4, rest.options, SubSeq(t, rest.pos + 1, cut))}
    BY <1>7, <1>10, <2>1, LongRead
  <2>3. PICK j \in 0..Len(o), pos \in Nat : StoppedAt(rest, t, o, e, payload, cut, t, j, pos)
    BY <1>4, <1>10, <2>1, ReadsOn
  <2>4. /\ rest.options = SubSeq(o, 1, j) /\ rest.pos = pos /\ StopsAt(t, o, e, cut, j, pos)
        /\ pos <= cut /\ cut = Len(t) /\ pos # e[j] => SubSeq(t, pos + 1, cut) = payload /\ j = Len(o)
    BY <2>3 DEF StoppedAt
  <2>5. pos <= cut
    BY <1>1, <2>4 DEF StopsAt
  <2>6. j = Len(o) /\ SubSeq(t, pos + 1, cut) = payload
    <3>1. CASE pos # e[j]
      BY <1>1, <2>4, <2>5, <3>1
    <3>2. CASE pos = e[j]
      <4>1. cut = e[j] /\ pos = cut
        BY <1>1, <2>4, <2>5, <3>2 DEF StopsAt
      <4>2. j = Len(o)
        <5>1. e[j] = Len(t)
          BY <1>1, <4>1
        <5> QED
          BY <5>1, NoneBehind
      <4>3. payload = <<>>
        BY <1>1, <1>2, <4>1, <4>2
      <4>4. SubSeq(t, pos + 1, cut) = <<>>
        <5>1. t \in Seq(0..255)
          BY DEF SentAt
        <5> QED
          BY <1>1, <4>1, <5>1
      <4> QED
        BY <4>2, <4>3, <4>4
    <3> QED
      BY <3>1, <3>2
  <2>7. SubSeq(o, 1, j) = o
    BY <1>8, <2>6
  <2>8. ~(rest.pos > cut)
    BY <2>4, <2>5
  <2>9. Deserialize(t) = {Received(t, 4, o, payload)}
    BY <2>2, <2>4, <2>6, <2>7, <2>8
  <2> QED
    BY <1>6, <2>9
<1> QED
  BY <1>9, <1>10

\* A datagram that arrives cut short.
LEMMA ReadsPart ==
  ASSUME NEW t, NEW id, NEW o, NEW payload, Fine(id, o, payload), NEW e, SentAt(t, id, o, payload, e),
         NEW cut, NEW b, Cut(b, t, cut), NEW read \in Deserialize(b)
  PROVE  CutIsPrefix(Post(id, o, payload), read)
<1>1. HeadIs(t, id) /\ Word(id) /\ id \in Nat
  BY DEF SentAt, Fine
<1>2. cut \in Nat /\ Len(b) = cut
  BY DEF Cut
<1>3. cut >= 4
  BY <1>2, NoneRead
<1>4. b[1] = 68
  BY <1>1, <1>3, ReceivedIs
<1>5. ASSUME NEW x, NEW y, IsPrefix(x, o), IsPrefix(y, payload), read = Received(b, 4, x, y)
      PROVE  CutIsPrefix(Post(id, o, payload), read)
  <2>1. read = [type |-> 0, code |-> 2, message_id |-> id, token |-> Bytes(b, 4, 4), options |-> x, payload |-> y]
    BY <1>1, <1>3, <1>5, ReceivedIs
  <2> QED
    BY <1>5, <2>1, PartOf
<1>6. o \in Seq(ShortOptions)
  BY DEF Fine
<1>7. payload \in Seq(0..255)
  BY DEF Fine
<1>8. CASE 8 >= cut
  <2>1. read = Received(b, 4, <<>>, <<>>)
    BY <1>2, <1>3, <1>4, <1>8, ShortRead
  <2>2. IsPrefix(<<>>, o)
    BY <1>6, PrefixIs
  <2>3. IsPrefix(<<>>, payload)
    BY <1>7, PrefixIs
  <2> QED
    BY <1>5, <2>1, <2>2, <2>3
<1>9. CASE cut > 8
  <2>1. PICK rest : rest = OptionsFrom(b, 8)
    OBVIOUS
  <2>2. /\ rest.pos > cut => Deserialize(b) = {}
        /\ ~(rest.pos > cut) => Deserialize(b) = {Received(b, 4, rest.options, SubSeq(b, rest.pos + 1, cut))}
    BY <1>2, <1>4, <1>9, <2>1, LongRead
  <2>3. PICK j \in 0..Len(o), pos \in Nat : StoppedAt(rest, t, o, e, payload, cut, b, j, pos)
    BY <1>9, <2>1, ReadsOn
  <2>4. /\ rest.options = SubSeq(o, 1, j) /\ rest.pos = pos
        /\ pos <= cut => IsPrefix(SubSeq(b, pos + 1, cut), payload)
    BY <2>3 DEF StoppedAt
  <2>5. ~(pos > cut)
    BY <2>2, <2>4
  <2>6. read = Received(b, 4, SubSeq(o, 1, j), SubSeq(b, pos + 1, cut))
    BY <2>2, <2>4, <2>5
  <2>7. IsPrefix(SubSeq(b, pos + 1, cut), payload)
    BY <1>2, <2>4, <2>5
  <2>8. IsPrefix(SubSeq(o, 1, j), o)
    <3>1. Len(SubSeq(o, 1, j)) = j /\ j \in Nat /\ j <= Len(o) /\ \A i \in 1..j : SubSeq(o, 1, j)[i] = o[i]
      BY <1>6
    <3> QED
      BY <3>1, PrefixIs
  <2> QED
    BY <1>5, <2>6, <2>7, <2>8
<1> QED
  BY <1>2, <1>8, <1>9

\* A request that is added in order survives its way.
LEMMA RequestSurvives ==
  ASSUME NEW id \in Nat, Word(id), NEW r, r.options \in Seq(ShortOptions), Len(r.options) <= MaxOptions,
         r.payload \in Seq(0..255), AddedInOrder(r.options)
  PROVE  Survives(id, r)
<1>1. PICK o : Placed(o, r.options, Len(r.options)) /\ Request(id, r) = Post(id, o, r.payload)
  BY RequestIs
<1>2. o \in Seq(ShortOptions) /\ Len(o) = Len(r.options) /\ Ordered(o) /\ InOrder(o, r.options)
  BY <1>1, OptionsInOrder DEF Placed
<1>3. PICK message : message = Post(id, o, r.payload)
  OBVIOUS
<1>4. PICK sent : sent = Datagram(message, SendBufSize)
  OBVIOUS
<1>5. ASSUME sent # <<>>
      PROVE  /\ Deserialize(sent) = {message}
             /\ \A cut \in 0..(Len(sent) - 1) : \A read \in Deserialize(SubSeq(sent, 1, cut)) : CutIsPrefix(message, read)
  <2>1. Sent(sent, id, o, r.payload)
    BY <1>2, <1>3, <1>4, <1>5, DatagramIs
  <2>2. PICK e : SentAt(sent, id, o, r.payload, e)
    BY <2>1 DEF Sent, SentAt
  <2>3. Fine(id, o, r.payload)
    BY <1>2 DEF Fine
  <2>4. Deserialize(sent) = {message}
    BY <1>3, <2>2, <2>3, ReadsWhole
  <2>5. ASSUME NEW cut \in 0..(Len(sent) - 1), NEW read \in Deserialize(SubSeq(sent, 1, cut))
        PROVE  CutIsPrefix(message, read)
    <3>1. sent \in Seq(0..255)
      BY <2>1 DEF Sent
    <3>2. PICK b : b = SubSeq(sent, 1, cut)
      OBVIOUS
    <3>3. cut \in Nat /\ Len(b) = cut /\ cut <= Len(sent) /\ \A i \in 1..cut : b[i] = sent[i]
      BY <3>1, <3>2
    <3>4. Cut(b, sent, cut)
      BY <3>3 DEF Cut
    <3> QED
      BY <1>3, <2>2, <2>5, <2>3, <3>2, <3>4, ReadsPart
  <2> QED
    BY <2>4, <2>5
<1>6. message.options = o
  BY <1>3 DEF Post
<1> QED
  BY <1>1, <1>2, <1>3, <1>4, <1>5, <1>6 DEF Survives

\* Whatever request a session waits for the answer of, if none of its options was added
\* before more than one that was there (OrderedRequests; by OptionsKept the others lose
\* an option), its datagram is read as that request, whole or in part, for every set of
\* short requests and every size of the send buffer: tc_iot_coap_message_add_option,
\* _serialize and _deserialize.
THEOREM RequestsSurvive ==
  ASSUME RequestsAreShort
  PROVE  Spec => []MessagesSurvive
<1>1. TypeInv => MessagesSurvive
  <2> SUFFICES ASSUME TypeInv, NEW s \in Live
               PROVE  ReadBack[sessions[s].message_id]
    BY DEF MessagesSurvive
  <2>1. PICK id : id = sessions[s].message_id
    OBVIOUS
  <2>2. id \in Ids
    <3>1. s \in Slots /\ id # 0
      BY <2>1 DEF Live
    <3>2. id \in 0..MaxMessageId
      BY <2>1, <3>1 DEF TypeInv, TypeOK, Sessions
    <3> QED
      BY <3>1, <3>2, Sizes DEF Ids
  <2>3. id \in Nat /\ Word(id)
    <3>1. id \in Nat /\ id <= MaxMessageId
      BY <2>2, Sizes DEF Ids
    <3>2. MaxMessageId \in Nat /\ MaxMessageId <= 65535
      BY SizesAssumption
    <3> QED
      BY <3>1, <3>2 DEF Word
  <2>4. ASSUME NEW request \in OrderedRequests
        PROVE  Survives(id, request)
    BY <2>3, RequestSurvives DEF RequestsAreShort, OrderedRequests
  <2>5. ReadBack[id]
    BY <2>2, <2>4 DEF ReadBack
  <2> QED
    BY <2>1, <2>5
<1> QED
  BY <1>1, TypeInit, TypeStep, PTL DEF Spec
===============================================================================
