------------------------- MODULE ShadowSessionsProofs -------------------------
(***************************************************************************)
(* Invariants of ShadowSessions for every size of the session table and    *)
(* any depth of calls: types for all callers, and one callback for every   *)
(* accepted request for callers that keep to SafeCallers.                  *)
(***************************************************************************)
EXTENDS ShadowSessions, SequenceTheorems, WellFoundedInduction, TLAPS

-----------------------------------------------------------------------------
(* The call stack.                                                         *)

\* What pushing a frame does to a stack.
LEMMA PushType ==
  ASSUME NEW S, NEW s \in Seq(S), NEW e \in S
  PROVE  /\ <<e>> \o s \in Seq(S) /\ Len(<<e>> \o s) = Len(s) + 1 /\ Len(s) \in Nat
         /\ (<<e>> \o s)[1] = e /\ Head(<<e>> \o s) = e /\ <<e>> \o s # <<>>
         /\ \A k \in 1..Len(s) : (<<e>> \o s)[k + 1] = s[k]
  OBVIOUS

\* What popping one does.
LEMMA PopType ==
  ASSUME NEW S, NEW s \in Seq(S), s # <<>>
  PROVE  /\ Tail(s) \in Seq(S) /\ Len(Tail(s)) = Len(s) - 1 /\ Len(s) \in Nat \ {0}
         /\ Head(s) \in S /\ Head(s) = s[1]
         /\ \A k \in 1..(Len(s) - 1) : Tail(s)[k] = s[k + 1]
  OBVIOUS

\* Two frames are pushed one after the other.
LEMMA PushTwo ==
  ASSUME NEW S, NEW s \in Seq(S), NEW e \in S, NEW f \in S
  PROVE  <<e, f>> \o s = <<e>> \o (<<f>> \o s)
<1>1. <<e>> \in Seq(S) /\ <<f>> \in Seq(S) /\ <<e, f>> \in Seq(S) /\ <<e>> \o <<f>> \in Seq(S)
  OBVIOUS
<1>2. /\ Len(<<e>> \o <<f>>) = Len(<<e, f>>)
      /\ \A k \in 1..Len(<<e, f>>) : (<<e>> \o <<f>>)[k] = <<e, f>>[k]
  BY <1>1
<1>3. <<e>> \o <<f>> = <<e, f>>
  BY <1>1, <1>2, SeqEqual
<1>4. (<<e>> \o <<f>>) \o s = <<e>> \o (<<f>> \o s)
  BY <1>1, ConcatAssociative
<1> QED
  BY <1>3, <1>4, Zenon

\* A stack of one frame.
LEMMA PopLast ==
  ASSUME NEW S, NEW s \in Seq(S), s # <<>>, Len(s) = 1
  PROVE  Tail(s) = <<>>
<1>1. Tail(s) \in Seq(S) /\ Len(Tail(s)) = 0
  BY PopType
<1> QED
  BY <1>1, EmptySeq

-----------------------------------------------------------------------------
(* The table.                                                              *)

\* The order in which slots are looked at.
Before == {p \in Nat \X Nat : p[1] < p[2]}

\* It has no infinite descent.
LEMMA BeforeWellFounded == IsWellFoundedOn(Before, Nat)
<1>1. Before = OpToRel(<, Nat)
  BY Zenon DEF Before, OpToRel
<1> QED
  BY <1>1, NatLessThanWellFounded

\* The first of some slots is one of them.
LEMMA FirstType ==
  ASSUME NEW S, S \subseteq Nat, S # {}
  PROVE  First(S) \in S
<1>1. PICK x \in S : \A y \in S : ~(<<y, x>> \in Before)
  BY BeforeWellFounded, WFMin
<1>2. ASSUME NEW y \in S PROVE x <= y
  <2>1. x \in Nat /\ y \in Nat
    BY <1>1
  <2>2. <<y, x>> \in Nat \X Nat /\ <<y, x>>[1] = y /\ <<y, x>>[2] = x
    BY <2>1
  <2>3. y < x => <<y, x>> \in Before
    BY <2>1, <2>2 DEF Before
  <2> QED
    BY <1>1, <2>1, <2>3
<1> QED
  BY <1>2 DEF First

\* Sizes as numbers.
LEMMA Sizes ==
  /\ NumSessions \in Nat /\ NumSessions > 0
  /\ MaxRequests \in Nat /\ MaxCopies \in Nat /\ MaxDepth \in Nat
  BY SessionsAssumption, BoundAssumption

\* A slot taken, found or overdue is one of the table.
LEMMA SlotsFound ==
  /\ Empty # {} => First(Empty) \in Slots /\ sessions[First(Empty)] = NoRequest
  /\ \A r : Found(r) # {} => First(Found(r)) \in Slots /\ Matches(First(Found(r)), r)
  /\ \A i \in 1..(NumSessions + 1) :
       Overdue(i) # {} => First(Overdue(i)) \in Slots /\ sessions[First(Overdue(i))] # NoRequest
<1>1. Slots \subseteq Nat
  BY Sizes DEF Slots
<1>2. Empty # {} => First(Empty) \in Empty
  <2>1. Empty \subseteq Nat
    BY <1>1 DEF Empty
  <2> QED
    BY <2>1, FirstType
<1>3. ASSUME NEW r, Found(r) # {} PROVE First(Found(r)) \in Found(r)
  <2>1. Found(r) \subseteq Nat
    BY <1>1 DEF Found
  <2> QED
    BY <1>3, <2>1, FirstType
<1>4. ASSUME NEW i \in 1..(NumSessions + 1), Overdue(i) # {}
      PROVE  First(Overdue(i)) \in Overdue(i) /\ Overdue(i) \subseteq Slots
  <2>1. Overdue(i) \subseteq Slots
    BY Sizes DEF Overdue, Slots
  <2>2. Overdue(i) \subseteq Nat
    BY <1>1, <2>1
  <2> QED
    BY <1>4, <2>1, <2>2, FirstType
<1>5. ASSUME NEW r, Found(r) # {} PROVE First(Found(r)) \in Slots /\ Matches(First(Found(r)), r)
  BY <1>3, <1>5 DEF Found
<1>6. ASSUME NEW i \in 1..(NumSessions + 1), Overdue(i) # {}
      PROVE  First(Overdue(i)) \in Slots /\ sessions[First(Overdue(i))] # NoRequest
  <2>1. First(Overdue(i)) \in Overdue(i) /\ Overdue(i) \subseteq Slots
    BY <1>4, <1>6
  <2> QED
    BY <2>1 DEF Overdue
<1>7. Empty # {} => First(Empty) \in Slots /\ sessions[First(Empty)] = NoRequest
  BY <1>2 DEF Empty
<1> QED
  BY <1>5, <1>6, <1>7

\* Releasing a session.
LEMMA ReleaseType ==
  ASSUME TypeOK, NEW i \in Slots, Release(i)
  PROVE  /\ sessions' \in [Slots -> Requests \cup {NoRequest}] /\ running' \subseteq Slots
         /\ sessions'[i] = NoRequest
         /\ \A j \in Slots : j # i => sessions'[j] = sessions[j]
  BY DEF TypeOK, Release

-----------------------------------------------------------------------------
(* Types.                                                                  *)

\* What a frame keeps for the code behind its call.
FrameKeeps(f) ==
  /\ f.fn \in {"message", "expired"} => f.slot \in Slots
  /\ f.fn = "scan" => f.slot \in 1..(NumSessions + 1)
  /\ f.fn = "publish" /\ f.kind # "plain" => f.slot \in Slots /\ f.req \in Requests

StackKeeps(s) == \A k \in 1..Len(s) : FrameKeeps(s[k])

TypeInv == TypeOK /\ StackKeeps(stack)

\* The frames there are.
LEMMA FrameType ==
  /\ Yield \in Frames /\ FrameKeeps(Yield)
  /\ \A i \in 1..(NumSessions + 1) : Scan(i) \in Frames /\ FrameKeeps(Scan(i))
  /\ \A i \in Slots : /\ Message(i) \in Frames /\ FrameKeeps(Message(i))
                      /\ Expired(i) \in Frames /\ FrameKeeps(Expired(i))
  /\ \A kind \in Kinds, i \in Slots, r \in Requests :
       Publish(kind, i, r) \in Frames /\ FrameKeeps(Publish(kind, i, r))
  /\ Publish("plain", NoSlot, NoRequest) \in Frames
  /\ FrameKeeps(Publish("plain", NoSlot, NoRequest))
  /\ \A r \in Requests \cup {NoRequest}, from \in Requests \cup {NoRequest}, can \in SUBSET Kinds :
       Callback(r, from, can) \in Frames /\ FrameKeeps(Callback(r, from, can))
  BY Sizes DEF Frames, FrameKeeps, Frame, Yield, Scan, Message, Expired, Publish, Callback, Kinds,
     Slots, NoSlot

\* What is pushed and popped keeps the stack in its type.
LEMMA StackPushed ==
  ASSUME NEW s \in Seq(Frames), StackKeeps(s), NEW e \in Frames, FrameKeeps(e)
  PROVE  <<e>> \o s \in Seq(Frames) /\ StackKeeps(<<e>> \o s)
<1> DEFINE t == <<e>> \o s
<1>1. /\ t \in Seq(Frames) /\ Len(t) = Len(s) + 1 /\ Len(s) \in Nat /\ t[1] = e
      /\ \A k \in 1..Len(s) : t[k + 1] = s[k]
  BY PushType
<1> HIDE DEF t
<1>2. ASSUME NEW k \in 1..Len(t) PROVE FrameKeeps(t[k])
  <2>1. CASE k = 1
    BY <1>1, <2>1
  <2>2. CASE k # 1
    <3>1. k - 1 \in 1..Len(s) /\ t[(k - 1) + 1] = s[k - 1] /\ (k - 1) + 1 = k
      BY <1>1, <1>2, <2>2
    <3> QED
      BY <3>1 DEF StackKeeps
  <2> QED
    BY <2>1, <2>2
<1> QED
  BY <1>1, <1>2 DEF StackKeeps, t

LEMMA StackPopped ==
  ASSUME NEW s \in Seq(Frames), StackKeeps(s), s # <<>>
  PROVE  /\ Tail(s) \in Seq(Frames) /\ StackKeeps(Tail(s))
         /\ Head(s) \in Frames /\ FrameKeeps(Head(s))
<1>1. /\ Tail(s) \in Seq(Frames) /\ Len(Tail(s)) = Len(s) - 1 /\ Len(s) \in Nat \ {0}
      /\ Head(s) \in Frames /\ Head(s) = s[1]
      /\ \A k \in 1..(Len(s) - 1) : Tail(s)[k] = s[k + 1]
  BY PopType
<1>2. FrameKeeps(Head(s))
  BY <1>1 DEF StackKeeps
<1>3. ASSUME NEW k \in 1..Len(Tail(s)) PROVE FrameKeeps(Tail(s)[k])
  <2>1. k \in 1..(Len(s) - 1) /\ k + 1 \in 1..Len(s)
    BY <1>1
  <2> QED
    BY <1>1, <2>1 DEF StackKeeps
<1> QED
  BY <1>1, <1>2, <1>3 DEF StackKeeps

LEMMA TypeInit == Init => TypeInv
<1>1. <<>> \in Seq(Frames) /\ StackKeeps(<<>>)
  BY DEF StackKeeps
<1> QED
  BY <1>1, Sizes DEF Init, TypeInv, TypeOK, Requests

\* The steps of a request.
LEMMA TypeRequest ==
  ASSUME TypeInv, RequestStep
  PROVE  TypeInv'
<1> USE DEF TypeInv
<1>1. ASSUME NEW kind \in Kinds, NEW copies \in {0, MaxCopies}, WithSession(kind),
             usid < MaxRequests, Empty # {},
             sessions' = [sessions EXCEPT ![First(Empty)] = usid],
             running' = running \cup {First(Empty)},
             stack' = <<Publish(kind, First(Empty), usid)>> \o stack,
             answers' = [answers EXCEPT ![usid] = copies],
             usid' = usid + 1, UNCHANGED <<accepted, called>>
      PROVE  TypeInv'
  <2>1. First(Empty) \in Slots /\ usid \in Requests
    BY <1>1, SlotsFound, Sizes DEF TypeOK, Requests
  <2>2. Publish(kind, First(Empty), usid) \in Frames /\ FrameKeeps(Publish(kind, First(Empty), usid))
    BY <2>1, FrameType
  <2>3. stack' \in Seq(Frames) /\ StackKeeps(stack')
    BY <1>1, <2>2, StackPushed DEF TypeOK
  <2>4. copies \in 0..MaxCopies
    BY Sizes
  <2> QED
    BY <1>1, <2>1, <2>3, <2>4, Sizes DEF TypeOK, Requests
<1>2. CASE RequestPlain
  <2>1. stack' \in Seq(Frames) /\ StackKeeps(stack')
    BY <1>2, FrameType, StackPushed DEF RequestPlain, TypeOK
  <2> QED
    BY <1>2, <2>1 DEF RequestPlain, TypeOK
<1>3. CASE RequestAborted
  BY <1>3, Sizes DEF RequestAborted, TypeOK
<1>4. CASE PublishSucceeds
  <2>1. /\ stack' \in Seq(Frames) /\ StackKeeps(stack')
        /\ Top \in Frames /\ FrameKeeps(Top)
    BY <1>4, StackPopped DEF PublishSucceeds, In, Top, TypeOK
  <2>2. accepted' \subseteq Requests
    BY <1>4, <2>1 DEF PublishSucceeds, In, TypeOK, FrameKeeps
  <2> QED
    BY <1>4, <2>1, <2>2 DEF PublishSucceeds, TypeOK
<1>5. CASE PublishFails
  <2>1. /\ stack' \in Seq(Frames) /\ StackKeeps(stack')
        /\ Top \in Frames /\ FrameKeeps(Top)
    BY <1>5, StackPopped DEF PublishFails, In, Top, TypeOK
  <2>2. Top.kind = "report" => Top.slot \in Slots
    BY <1>5, <2>1 DEF PublishFails, In, FrameKeeps
  <2>3. sessions' \in [Slots -> Requests \cup {NoRequest}] /\ running' \subseteq Slots
    BY <1>5, <2>2, ReleaseType DEF PublishFails, TypeOK
  <2> QED
    BY <1>5, <2>1, <2>3 DEF PublishFails, TypeOK
<1> QED
  BY <1>1, <1>2, <1>3, <1>4, <1>5 DEF RequestStep, RequestBegins

\* The steps of a receive and what follows it.
LEMMA TypeReceive ==
  ASSUME TypeInv, ReceiveStep
  PROVE  TypeInv'
<1> USE DEF TypeInv
<1>1. ASSUME NEW r \in Requests, Receiving, answers[r] > 0, Found(r) # {},
             stack' = <<Callback(sessions[First(Found(r))], r, OnAnswer), Message(First(Found(r)))>> \o stack,
             called' = [called EXCEPT ![sessions[First(Found(r))]] = @ + 1],
             answers' = [answers EXCEPT ![r] = @ - 1],
             UNCHANGED <<sessions, running, usid, accepted>>
      PROVE  TypeInv'
  <2> DEFINE i == First(Found(r))
  <2>1. i \in Slots /\ sessions[i] \in Requests /\ OnAnswer \in SUBSET Kinds
    BY <1>1, SlotsFound, KindsAssumption DEF Matches, TypeOK
  <2>2. Message(i) \in Frames /\ FrameKeeps(Message(i))
    BY <2>1, FrameType
  <2>3. Callback(sessions[i], r, OnAnswer) \in Frames /\ FrameKeeps(Callback(sessions[i], r, OnAnswer))
    BY <2>1, FrameType
  <2>4. stack' = <<Callback(sessions[i], r, OnAnswer)>> \o (<<Message(i)>> \o stack)
    BY <1>1, <2>2, <2>3, PushTwo DEF TypeOK
  <2>5. <<Message(i)>> \o stack \in Seq(Frames) /\ StackKeeps(<<Message(i)>> \o stack)
    BY <2>2, StackPushed DEF TypeOK
  <2>6. stack' \in Seq(Frames) /\ StackKeeps(stack')
    BY <2>3, <2>4, <2>5, StackPushed
  <2>7. answers' \in [Requests -> 0..MaxCopies] /\ called' \in [Requests -> Nat]
    BY <1>1, <2>1, Sizes DEF TypeOK
  <2> QED
    BY <1>1, <2>6, <2>7 DEF TypeOK
<1>2. CASE PushReceived
  <2>1. Callback(NoRequest, NoRequest, OnPush) \in Frames /\ FrameKeeps(Callback(NoRequest, NoRequest, OnPush))
    BY FrameType, KindsAssumption
  <2>2. stack' \in Seq(Frames) /\ StackKeeps(stack')
    BY <1>2, <2>1, StackPushed DEF PushReceived, TypeOK
  <2>3. ASSUME NEW r \in Requests, answers[r] > 0, answers' = [answers EXCEPT ![r] = @ - 1]
        PROVE  answers' \in [Requests -> 0..MaxCopies]
    <3>1. answers[r] - 1 \in 0..MaxCopies
      BY <2>3, Sizes DEF TypeOK
    <3> QED
      BY <2>3, <3>1 DEF TypeOK
  <2> QED
    BY <1>2, <2>2, <2>3 DEF PushReceived, TypeOK
<1>3. CASE CallbackReturns
  <2>1. stack' \in Seq(Frames) /\ StackKeeps(stack')
    BY <1>3, StackPopped DEF CallbackReturns, In, TypeOK
  <2> QED
    BY <1>3, <2>1 DEF CallbackReturns, TypeOK
<1>4. CASE AnswerDone
  <2>1. /\ stack' \in Seq(Frames) /\ StackKeeps(stack') /\ FrameKeeps(Top)
    BY <1>4, StackPopped DEF AnswerDone, In, Top, TypeOK
  <2>2. Top.slot \in Slots
    BY <1>4, <2>1 DEF AnswerDone, In, FrameKeeps
  <2>3. sessions' \in [Slots -> Requests \cup {NoRequest}] /\ running' \subseteq Slots
    BY <1>4, <2>2, ReleaseType DEF AnswerDone
  <2> QED
    BY <1>4, <2>1, <2>3 DEF AnswerDone, TypeOK
<1> QED
  BY <1>1, <1>2, <1>3, <1>4 DEF ReceiveStep, AnswerReceived

\* The steps of a yield.
LEMMA TypeYield ==
  ASSUME TypeInv, YieldStep
  PROVE  TypeInv'
<1> USE DEF TypeInv
<1>1. CASE YieldBegins
  <2>1. stack' = <<Yield>> \o stack
    BY <1>1 DEF YieldBegins
  <2>2. stack' \in Seq(Frames) /\ StackKeeps(stack')
    BY <2>1, FrameType, StackPushed DEF TypeOK
  <2> QED
    BY <1>1, <2>2 DEF YieldBegins, TypeOK
<1>2. ASSUME stack # <<>>
      PROVE  /\ Tail(stack) \in Seq(Frames) /\ StackKeeps(Tail(stack))
             /\ Top \in Frames /\ FrameKeeps(Top)
  BY <1>2, StackPopped DEF TypeOK, Top
<1>3. CASE YieldScans
  <2>1. Scan(1) \in Frames /\ FrameKeeps(Scan(1))
    BY FrameType, Sizes
  <2>2. stack' \in Seq(Frames) /\ StackKeeps(stack')
    BY <1>2, <1>3, <2>1, StackPushed DEF YieldScans, In
  <2> QED
    BY <1>3, <2>2 DEF YieldScans, TypeOK
<1>4. CASE SessionExpires
  <2> DEFINE i == First(Overdue(Top.slot))
  <2>1. Top.slot \in 1..(NumSessions + 1) /\ stack # <<>>
    BY <1>2, <1>4 DEF SessionExpires, In, FrameKeeps
  <2>2. i \in Slots /\ sessions[i] \in Requests /\ OnTimeout \in SUBSET Kinds
    BY <1>4, <2>1, SlotsFound, KindsAssumption DEF SessionExpires, TypeOK
  <2>3. Expired(i) \in Frames /\ FrameKeeps(Expired(i))
    BY <2>2, FrameType
  <2>4. Callback(sessions[i], NoRequest, OnTimeout) \in Frames /\ FrameKeeps(Callback(sessions[i], NoRequest, OnTimeout))
    BY <2>2, FrameType
  <2>5. stack' = <<Callback(sessions[i], NoRequest, OnTimeout)>> \o (<<Expired(i)>> \o Tail(stack))
    BY <1>2, <1>4, <2>1, <2>3, <2>4, PushTwo DEF SessionExpires
  <2>6. <<Expired(i)>> \o Tail(stack) \in Seq(Frames) /\ StackKeeps(<<Expired(i)>> \o Tail(stack))
    BY <1>2, <2>1, <2>3, StackPushed
  <2>7. stack' \in Seq(Frames) /\ StackKeeps(stack')
    BY <2>4, <2>5, <2>6, StackPushed
  <2>8. called' \in [Requests -> Nat]
    BY <1>4, <2>2 DEF SessionExpires, TypeOK
  <2> QED
    BY <1>4, <2>7, <2>8 DEF SessionExpires, TypeOK
<1>5. CASE ExpiryDone
  <2>1. Top.slot \in Slots /\ stack # <<>>
    BY <1>2, <1>5 DEF ExpiryDone, In, FrameKeeps
  <2>2. Scan(Top.slot + 1) \in Frames /\ FrameKeeps(Scan(Top.slot + 1))
    <3>1. Top.slot + 1 \in 1..(NumSessions + 1)
      BY <2>1, Sizes DEF Slots
    <3> QED
      BY <3>1, FrameType
  <2>3. stack' \in Seq(Frames) /\ StackKeeps(stack')
    BY <1>2, <1>5, <2>1, <2>2, StackPushed DEF ExpiryDone
  <2>4. sessions' \in [Slots -> Requests \cup {NoRequest}] /\ running' \subseteq Slots
    BY <1>5, <2>1, ReleaseType DEF ExpiryDone
  <2> QED
    BY <1>5, <2>3, <2>4 DEF ExpiryDone, TypeOK
<1>6. CASE YieldReturns
  BY <1>2, <1>6 DEF YieldReturns, In, TypeOK
<1> QED
  BY <1>1, <1>3, <1>4, <1>5, <1>6 DEF YieldStep

LEMMA TypeStep == TypeInv /\ [Next]_vars => TypeInv'
<1> SUFFICES ASSUME TypeInv, [Next]_vars PROVE TypeInv'
  OBVIOUS
<1>1. CASE RequestStep
  BY <1>1, TypeRequest
<1>2. CASE ReceiveStep
  BY <1>2, TypeReceive
<1>3. CASE YieldStep
  BY <1>3, TypeYield
<1>4. ASSUME NEW i \in Slots, Tick(i) PROVE TypeInv'
  BY <1>4 DEF Tick, TypeInv, TypeOK
<1>5. CASE UNCHANGED vars
  BY <1>5 DEF vars, TypeInv, TypeOK
<1> QED
  BY <1>1, <1>2, <1>3, <1>4, <1>5 DEF Next

\* Every variable keeps its type, whatever callers request and however deep calls nest: no
\* scan leaves the table, no frame keeps a slot there is not.
THEOREM TypeCorrect == Spec => []TypeOK
<1>1. TypeInv => TypeOK
  BY DEF TypeInv
<1> QED
  BY TypeInit, TypeStep, <1>1, PTL DEF Spec

-----------------------------------------------------------------------------
(* Who holds what.  Callers that report nothing, and request nothing in a  *)
(* timeout, of a server that answers once.  (Run shadow_report shows what  *)
(* reports within callbacks do.)                                           *)

SafeCallers ==
  /\ "report" \notin MainCalls \cup OnAnswer \cup OnPush
  /\ OnTimeout = {} /\ MaxCopies <= 1

\* The slots that calls of a kind will release, and the requests being published.
Held(s, fn) == {s[k].slot : k \in {n \in 1..Len(s) : s[n].fn = fn}}
Publishing(s) == {s[k].req : k \in {n \in 1..Len(s) : s[n].fn = "publish" /\ s[n].kind # "plain"}}

Holds(f) == f.fn \in {"message", "expired"}

\* A frame does nothing its caller must not do.
FrameSafe(f) ==
  /\ f.fn = "publish" => f.kind # "report"
  /\ f.fn = "callback" => "report" \notin f.can
  /\ f.from # NoRequest => f.from = f.req

\* A yield is the call of the main loop; in its scan nothing is received; and no two calls
\* hold one slot.
BottomInv(s) ==
  \A k \in 1..Len(s) :
    /\ s[k].fn \in {"yield", "scan", "expired"} => k = Len(s)
    /\ s[k].fn = "scan" => k = 1
    /\ s[k].fn = "expired" => k <= 2 /\ (k = 2 => s[1].fn = "callback" /\ s[1].can = {})
ApartInv(s) ==
  \A k \in 1..Len(s), l \in 1..Len(s) : Holds(s[k]) /\ Holds(s[l]) /\ s[k].slot = s[l].slot => k = l
StackInv(s) == (\A k \in 1..Len(s) : FrameSafe(s[k])) /\ BottomInv(s) /\ ApartInv(s)

\* Each request was given one session, when its id was made.
TableInv ==
  /\ \A i \in Slots : sessions[i] < usid
  /\ \A i, j \in Slots : sessions[i] = sessions[j] /\ sessions[i] # NoRequest => i = j
  /\ \A r \in Requests : r >= usid => answers[r] = 0 /\ called[r] = 0

\* A request accepted, or being published, keeps its session until its callback is called.
KeptInv ==
  \A r \in accepted \cup Publishing(stack) :
    r < usid /\ (called[r] > 0 \/ \E i \in Slots : sessions[i] = r)

\* A call holds the slot of the session whose callback it has called, until it is back; no
\* other answer to it will come.
HeldInv ==
  /\ \A i \in Held(stack, "message") \cup Held(stack, "expired") :
       sessions[i] # NoRequest /\ called[sessions[i]] > 0
  /\ \A i \in Held(stack, "message") : answers[sessions[i]] = 0
CalledInv ==
  \A i \in Slots : sessions[i] # NoRequest /\ called[sessions[i]] > 0
                     => i \in Held(stack, "message") \cup Held(stack, "expired")

LifeInv == StackInv(stack) /\ TableInv /\ KeptInv /\ HeldInv /\ CalledInv /\ AnsweredOnce

-----------------------------------------------------------------------------
(* What the steps of a call do to the stack.                               *)

\* A stack nothing in which is in the middle of a scan.
Open(s) == \A k \in 1..Len(s) : s[k].fn \notin {"scan", "expired"}

\* A call, and a callback that may request something, are never above a scan.
LEMMA OpenBelow ==
  ASSUME NEW s \in Seq(Frames), StackInv(s),
         s # <<>> => \/ Head(s).fn \in {"yield", "publish"}
                     \/ Head(s).fn = "callback" /\ Head(s).can # {}
  PROVE  Open(s)
<1>1. s # <<>> => Len(s) \in Nat \ {0} /\ Head(s) = s[1]
  BY PopType
<1>2. s = <<>> => Len(s) = 0
  BY EmptySeq
<1> QED
  BY <1>1, <1>2 DEF Open, StackInv, BottomInv

\* Whom a frame makes hold and publish.
HeldBy(e, fn) == IF e.fn = fn THEN {e.slot} ELSE {}
PublishedBy(e) == IF e.fn = "publish" /\ e.kind # "plain" THEN {e.req} ELSE {}

LEMMA PushSets ==
  ASSUME NEW s \in Seq(Frames), NEW e \in Frames
  PROVE  /\ \A fn : Held(<<e>> \o s, fn) = Held(s, fn) \cup HeldBy(e, fn)
         /\ Publishing(<<e>> \o s) = Publishing(s) \cup PublishedBy(e)
<1> DEFINE t == <<e>> \o s
<1>1. /\ Len(t) = Len(s) + 1 /\ Len(s) \in Nat /\ t[1] = e
      /\ \A k \in 1..Len(s) : t[k + 1] = s[k]
  BY PushType
<1> HIDE DEF t
<1>2. \A k \in 1..Len(t) : k = 1 \/ (k - 1 \in 1..Len(s) /\ t[k] = s[k - 1])
  <2> SUFFICES ASSUME NEW k \in 1..Len(t), k # 1 PROVE k - 1 \in 1..Len(s) /\ t[k] = s[k - 1]
    OBVIOUS
  <2>1. k - 1 \in 1..Len(s) /\ (k - 1) + 1 = k
    BY <1>1
  <2> QED
    BY <1>1, <2>1
<1>3. \A k \in 1..Len(s) : k + 1 \in 1..Len(t) /\ t[k + 1] = s[k]
  BY <1>1
<1>4. 1 \in 1..Len(t)
  BY <1>1
<1>5. ASSUME NEW fn PROVE Held(t, fn) = Held(s, fn) \cup HeldBy(e, fn)
  BY <1>1, <1>2, <1>3, <1>4 DEF Held, HeldBy
<1>6. Publishing(t) = Publishing(s) \cup PublishedBy(e)
  BY <1>1, <1>2, <1>3, <1>4 DEF Publishing, PublishedBy
<1> QED
  BY <1>5, <1>6 DEF t

LEMMA PopSets ==
  ASSUME NEW s \in Seq(Frames), s # <<>>
  PROVE  /\ \A fn : Held(s, fn) = Held(Tail(s), fn) \cup HeldBy(Head(s), fn)
         /\ Publishing(s) = Publishing(Tail(s)) \cup PublishedBy(Head(s))
<1>1. Tail(s) \in Seq(Frames) /\ Head(s) \in Frames
  BY PopType
<1>2. s = <<Head(s)>> \o Tail(s)
  <2>1. /\ Len(Tail(s)) = Len(s) - 1 /\ Len(s) \in Nat \ {0} /\ Head(s) = s[1]
        /\ \A k \in 1..(Len(s) - 1) : Tail(s)[k] = s[k + 1]
    BY PopType
  <2> DEFINE t == <<Head(s)>> \o Tail(s)
  <2>2. /\ t \in Seq(Frames) /\ Len(t) = Len(Tail(s)) + 1 /\ t[1] = Head(s)
        /\ \A k \in 1..Len(Tail(s)) : t[k + 1] = Tail(s)[k]
    BY <1>1, PushType
  <2> HIDE DEF t
  <2>3. ASSUME NEW k \in 1..Len(s) PROVE s[k] = t[k]
    <3>1. CASE k = 1
      BY <2>1, <2>2, <3>1
    <3>2. CASE k # 1
      <4>1. k - 1 \in 1..(Len(s) - 1) /\ (k - 1) + 1 = k
        BY <2>1, <3>2
      <4> QED
        BY <2>1, <2>2, <4>1
    <3> QED
      BY <3>1, <3>2
  <2>4. Len(s) = Len(t)
    BY <2>1, <2>2
  <2>5. s = t
    BY <2>2, <2>3, <2>4, SeqEqual
  <2> QED
    BY <2>5 DEF t
<1> DEFINE h == Head(s)
           b == Tail(s)
<1>3. \A fn : Held(<<h>> \o b, fn) = Held(b, fn) \cup HeldBy(h, fn)
  BY <1>1, PushSets
<1>4. Publishing(<<h>> \o b) = Publishing(b) \cup PublishedBy(h)
  BY <1>1, PushSets
<1>5. s = <<h>> \o b
  BY <1>2
<1> HIDE DEF h, b
<1>6. \A fn : Held(s, fn) = Held(b, fn) \cup HeldBy(h, fn)
  BY <1>3, <1>5, Zenon
<1>7. Publishing(s) = Publishing(b) \cup PublishedBy(h)
  BY <1>4, <1>5, Zenon
<1> QED
  BY <1>6, <1>7 DEF h, b

\* Pushing a call or a callback.
LEMMA PushStack ==
  ASSUME NEW s \in Seq(Frames), StackInv(s), Open(s), NEW e \in Frames, FrameSafe(e),
         e.fn \in {"publish", "message", "callback"},
         Holds(e) => e.slot \notin Held(s, "message")
  PROVE  StackInv(<<e>> \o s) /\ Open(<<e>> \o s)
<1> DEFINE t == <<e>> \o s
<1>1. /\ Len(t) = Len(s) + 1 /\ Len(s) \in Nat /\ t[1] = e
      /\ \A k \in 1..Len(s) : t[k + 1] = s[k]
  BY PushType
<1> HIDE DEF t
<1>2. \A k \in 1..Len(t) : k = 1 \/ (k - 1 \in 1..Len(s) /\ t[k] = s[k - 1])
  <2> SUFFICES ASSUME NEW k \in 1..Len(t), k # 1 PROVE k - 1 \in 1..Len(s) /\ t[k] = s[k - 1]
    OBVIOUS
  <2>1. k - 1 \in 1..Len(s) /\ (k - 1) + 1 = k
    BY <1>1
  <2> QED
    BY <1>1, <2>1
<1>3. Open(t)
  BY <1>1, <1>2 DEF Open
<1>4. \A k \in 1..Len(t) : FrameSafe(t[k])
  BY <1>1, <1>2 DEF StackInv
<1>5. BottomInv(t)
  <2> SUFFICES ASSUME NEW k \in 1..Len(t), t[k].fn = "yield" PROVE k = Len(t)
    BY <1>3 DEF BottomInv, Open
  <2>1. k - 1 \in 1..Len(s) /\ s[k - 1].fn = "yield"
    BY <1>1, <1>2
  <2>2. k - 1 = Len(s)
    BY <2>1 DEF StackInv, BottomInv
  <2> QED
    BY <1>1, <2>2
<1>6. ApartInv(t)
  <2>1. \A k \in 1..Len(s) : Holds(s[k]) /\ Holds(e) => s[k].slot # e.slot
    BY DEF Open, Holds, Held
  <2> SUFFICES ASSUME NEW k \in 1..Len(t), NEW l \in 1..Len(t), Holds(t[k]), Holds(t[l]),
                      t[k].slot = t[l].slot
               PROVE  k = l
    BY DEF ApartInv
  <2>2. CASE k = 1 \/ l = 1
    BY <1>1, <1>2, <2>1, <2>2
  <2>3. CASE k # 1 /\ l # 1
    <3>1. k - 1 = l - 1
      BY <1>2, <2>3 DEF StackInv, ApartInv
    <3> QED
      BY <1>1, <3>1
  <2> QED
    BY <2>2, <2>3
<1> QED
  BY <1>3, <1>4, <1>5, <1>6 DEF StackInv, t

\* Returning.
LEMMA PopStack ==
  ASSUME NEW s \in Seq(Frames), StackInv(s), s # <<>>
  PROVE  /\ StackInv(Tail(s)) /\ FrameSafe(Head(s))
         /\ Holds(Head(s)) => Head(s).slot \notin Held(Tail(s), "message") \cup Held(Tail(s), "expired")
<1> DEFINE t == Tail(s)
<1>1. /\ Len(t) = Len(s) - 1 /\ Len(s) \in Nat \ {0} /\ Head(s) = s[1]
      /\ \A k \in 1..(Len(s) - 1) : t[k] = s[k + 1]
  BY PopType
<1> HIDE DEF t
<1>2. \A k \in 1..Len(t) : k + 1 \in 1..Len(s) /\ t[k] = s[k + 1]
  BY <1>1
<1>3. \A k \in 1..Len(t) : FrameSafe(t[k])
  BY <1>2 DEF StackInv
<1>4. BottomInv(t)
  <2> SUFFICES ASSUME NEW k \in 1..Len(t), t[k].fn \in {"yield", "scan", "expired"}
               PROVE  k = Len(t) /\ t[k].fn # "scan" /\ (t[k].fn = "expired" => k = 1)
    BY <1>1 DEF BottomInv
  <2>1. k + 1 \in 1..Len(s) /\ s[k + 1].fn = t[k].fn /\ k \in 1..Len(t)
    BY <1>2
  <2>2. k + 1 = Len(s) /\ (s[k + 1].fn = "scan" => k + 1 = 1) /\ (s[k + 1].fn = "expired" => k + 1 <= 2)
    BY <2>1 DEF StackInv, BottomInv
  <2> QED
    BY <1>1, <2>1, <2>2
<1>5. ApartInv(t)
  <2> SUFFICES ASSUME NEW k \in 1..Len(t), NEW l \in 1..Len(t), Holds(t[k]), Holds(t[l]),
                      t[k].slot = t[l].slot
               PROVE  k = l
    BY DEF ApartInv
  <2>1. k + 1 = l + 1
    BY <1>2 DEF StackInv, ApartInv
  <2> QED
    BY <1>1, <2>1
<1>6. ASSUME Holds(s[1]), NEW k \in 1..Len(t), Holds(t[k]) PROVE t[k].slot # s[1].slot
  <2>1. 1 \in 1..Len(s) /\ k + 1 # 1
    BY <1>1
  <2> QED
    BY <1>2, <1>6, <2>1 DEF StackInv, ApartInv
<1>7. Holds(s[1]) => s[1].slot \notin Held(t, "message") \cup Held(t, "expired")
  BY <1>6 DEF Held, Holds
<1>8. FrameSafe(Head(s))
  BY <1>1 DEF StackInv
<1> QED
  BY <1>1, <1>3, <1>4, <1>5, <1>7, <1>8 DEF StackInv, t

\* The main loop's calls.
LEMMA BottomStack ==
  /\ StackInv(<<>>)
  /\ \A fn : Held(<<>>, fn) = {} /\ Publishing(<<>>) = {}
  /\ \A e \in Frames : FrameSafe(e) => StackInv(<<e>> \o <<>>)
<1>1. StackInv(<<>>) /\ \A fn : Held(<<>>, fn) = {} /\ Publishing(<<>>) = {}
  BY EmptySeq DEF StackInv, BottomInv, ApartInv, Held, Publishing
<1>2. ASSUME NEW e \in Frames, FrameSafe(e) PROVE StackInv(<<e>> \o <<>>)
  <2> DEFINE t == <<e>> \o <<>>
  <2>1. Len(t) = 1 /\ t[1] = e
    BY PushType, EmptySeq
  <2> HIDE DEF t
  <2> QED
    BY <1>2, <2>1 DEF StackInv, BottomInv, ApartInv, t
<1> QED
  BY <1>1, <1>2

\* The callback of a session that has expired.
LEMMA ExpiringStack ==
  ASSUME NEW c \in Frames, NEW e \in Frames, FrameSafe(c), FrameSafe(e),
         c.fn = "callback", c.can = {}, e.fn = "expired"
  PROVE  StackInv(<<c>> \o (<<e>> \o <<>>))
<1> DEFINE t == <<c>> \o (<<e>> \o <<>>)
<1>1. Len(t) = 2 /\ t[1] = c /\ t[2] = e
  <2>1. <<e>> \o <<>> \in Seq(Frames) /\ Len(<<e>> \o <<>>) = 1 /\ (<<e>> \o <<>>)[1] = e
    BY PushType, EmptySeq
  <2>2. 1 \in 1..1
    OBVIOUS
  <2> QED
    BY <2>1, <2>2, PushType
<1> HIDE DEF t
<1>2. \A k \in 1..Len(t) : k = 1 \/ k = 2
  BY <1>1
<1> QED
  BY <1>1, <1>2 DEF StackInv, BottomInv, ApartInv, Holds, t

-----------------------------------------------------------------------------
(* What the steps do to the sessions.                                      *)

\* Slots that are held are slots.
LEMMA HeldSlots ==
  ASSUME TypeInv
  PROVE  Held(stack, "message") \cup Held(stack, "expired") \subseteq Slots
  BY DEF TypeInv, StackKeeps, FrameKeeps, Held

\* Steps that change neither the table nor what was called.
LEMMA QuietStep ==
  ASSUME TypeInv, TypeInv', LifeInv, StackInv(stack'),
         Held(stack', "message") = Held(stack, "message"),
         Held(stack', "expired") = Held(stack, "expired"),
         accepted' \cup Publishing(stack') \subseteq accepted \cup Publishing(stack),
         UNCHANGED <<sessions, called>>, usid' \in {usid, usid + 1},
         \A r \in Requests : answers'[r] <= answers[r]
  PROVE  LifeInv'
<1> USE DEF TypeInv, TypeOK
<1>1. TableInv'
  <2>1. \A r \in Requests : answers[r] = 0 => answers'[r] = 0
    BY Sizes
  <2>2. \A r \in Requests : r >= usid' => r >= usid
    BY Sizes DEF Requests
  <2>3. \A i \in Slots : sessions'[i] < usid'
    BY Sizes DEF LifeInv, TableInv, Requests, NoRequest
  <2> QED
    BY <2>1, <2>2, <2>3 DEF LifeInv, TableInv
<1>2. KeptInv'
  <2> SUFFICES ASSUME NEW r \in accepted' \cup Publishing(stack')
               PROVE  r < usid' /\ (called'[r] > 0 \/ \E i \in Slots : sessions'[i] = r)
    BY DEF KeptInv
  <2>1. r < usid /\ (called[r] > 0 \/ \E i \in Slots : sessions[i] = r)
    BY DEF LifeInv, KeptInv
  <2>2. r \in Int
    <3>1. CASE r \in accepted'
      BY <3>1, Sizes DEF Requests
    <3>2. CASE r \in Publishing(stack')
      BY <3>2, Sizes DEF Publishing, StackKeeps, FrameKeeps, Requests
    <3> QED
      BY <3>1, <3>2
  <2> QED
    BY <2>1, <2>2
<1>3. HeldInv'
  <2>1. ASSUME NEW i \in Held(stack, "message") PROVE answers'[sessions[i]] = 0
    <3>1. i \in Slots /\ sessions[i] # NoRequest /\ answers[sessions[i]] = 0
      BY HeldSlots DEF LifeInv, HeldInv
    <3>2. sessions[i] \in Requests
      BY <3>1
    <3> QED
      BY <3>1, <3>2, Sizes
  <2> QED
    BY <2>1 DEF LifeInv, HeldInv
<1>4. CalledInv' /\ AnsweredOnce'
  BY DEF LifeInv, CalledInv, AnsweredOnce
<1> QED
  BY <1>1, <1>2, <1>3, <1>4 DEF LifeInv

\* A call gives back the slot it holds.
LEMMA ReleaseStep ==
  ASSUME TypeInv, TypeInv', LifeInv, stack # <<>>, Holds(Top), Release(Top.slot),
         UNCHANGED <<usid, answers, accepted, called>>, StackInv(stack'),
         \A fn \in {"message", "expired"} : Held(stack', fn) = Held(Tail(stack), fn),
         Publishing(stack') = Publishing(Tail(stack))
  PROVE  LifeInv'
<1> USE DEF TypeInv, TypeOK
<1> DEFINE i == Top.slot
<1>1. /\ Top.slot \notin Held(Tail(stack), "message") \cup Held(Tail(stack), "expired")
      /\ \A fn : Held(stack, fn) = Held(Tail(stack), fn) \cup HeldBy(Top, fn)
      /\ Publishing(stack) = Publishing(Tail(stack)) \cup PublishedBy(Top)
  BY PopStack, PopSets DEF LifeInv, Top
<1>2. i \in Held(stack, "message") \cup Held(stack, "expired") /\ i \in Slots
  BY <1>1, HeldSlots DEF HeldBy, Holds
<1>3. sessions[i] # NoRequest /\ called[sessions[i]] > 0
  BY <1>2 DEF LifeInv, HeldInv
<1>4. sessions'[i] = NoRequest /\ \A j \in Slots : j # i => sessions'[j] = sessions[j]
  BY <1>2, ReleaseType
<1>5. \A fn : HeldBy(Top, fn) \subseteq {i}
  BY DEF HeldBy
<1> HIDE DEF i
<1>6. TableInv'
  <2>1. \A j \in Slots : sessions'[j] < usid
    <3>1. NoRequest < usid
      BY Sizes DEF NoRequest
    <3> QED
      BY <1>4, <3>1 DEF LifeInv, TableInv
  <2>2. \A j, k \in Slots : sessions'[j] = sessions'[k] /\ sessions'[j] # NoRequest => j = k
    BY <1>4 DEF LifeInv, TableInv
  <2> QED
    BY <2>1, <2>2 DEF LifeInv, TableInv
<1>7. KeptInv'
  BY <1>1, <1>3, <1>4 DEF LifeInv, KeptInv
<1>8. HeldInv'
  <2>1. ASSUME NEW j \in Held(stack', "message") \cup Held(stack', "expired")
        PROVE  j # i /\ j \in Held(stack, "message") \cup Held(stack, "expired") /\ sessions'[j] = sessions[j]
    BY <1>1, <1>4, HeldSlots DEF i
  <2>2. Held(stack', "message") \subseteq Held(stack, "message")
    BY <1>1
  <2> QED
    BY <2>1, <2>2 DEF LifeInv, HeldInv
<1>9. CalledInv'
  <2> SUFFICES ASSUME NEW j \in Slots, sessions'[j] # NoRequest, called[sessions'[j]] > 0
               PROVE  j \in Held(stack', "message") \cup Held(stack', "expired")
    BY DEF CalledInv
  <2>1. j # i /\ j \in Held(stack, "message") \cup Held(stack, "expired")
    BY <1>4 DEF LifeInv, CalledInv
  <2> QED
    BY <1>1, <1>5, <2>1
<1>10. AnsweredOnce'
  BY DEF LifeInv, AnsweredOnce
<1> QED
  BY <1>6, <1>7, <1>8, <1>9, <1>10 DEF LifeInv

\* The callback of a session that was not called yet is called, and its slot held.
LEMMA CallStep ==
  ASSUME TypeInv, TypeInv', LifeInv, NEW i \in Slots, sessions[i] # NoRequest,
         called[sessions[i]] = 0, called' = [called EXCEPT ![sessions[i]] = @ + 1],
         UNCHANGED <<sessions, usid, accepted>>, StackInv(stack'),
         \A r \in Requests : answers'[r] <= answers[r],
         \A j \in Held(stack', "message") : j \in Held(stack, "message") \/ (j = i /\ answers'[sessions[i]] = 0),
         Held(stack', "message") \cup Held(stack', "expired")
           = Held(stack, "message") \cup Held(stack, "expired") \cup {i},
         Publishing(stack') = Publishing(stack)
  PROVE  LifeInv'
<1> USE DEF TypeInv, TypeOK
<1> DEFINE q == sessions[i]
<1>1. q \in Requests /\ called'[q] = 1 /\ \A r \in Requests : r # q => called'[r] = called[r]
  OBVIOUS
<1>2. \A r \in Requests : called'[r] >= called[r] /\ called[r] \in Nat
  BY <1>1
<1>3. TableInv'
  <2>1. q < usid
    BY DEF LifeInv, TableInv
  <2>2. \A r \in Requests : r >= usid => answers'[r] = 0
    BY Sizes DEF LifeInv, TableInv
  <2>3. \A r \in Requests : r >= usid => r # q
    BY <1>1, <2>1, Sizes DEF Requests
  <2> QED
    BY <1>1, <2>2, <2>3 DEF LifeInv, TableInv
<1>4. KeptInv'
  <2> SUFFICES ASSUME NEW r \in accepted \cup Publishing(stack)
               PROVE  r < usid /\ (called'[r] > 0 \/ \E j \in Slots : sessions[j] = r)
    BY DEF KeptInv
  <2>1. r < usid /\ (called[r] > 0 \/ \E j \in Slots : sessions[j] = r)
    BY DEF LifeInv, KeptInv
  <2>2. r \in Requests
    BY DEF Publishing, StackKeeps, FrameKeeps
  <2> QED
    BY <1>2, <2>1, <2>2
<1>5. HeldInv'
  <2>1. ASSUME NEW j \in Held(stack', "message") \cup Held(stack', "expired")
        PROVE  sessions[j] # NoRequest /\ called'[sessions[j]] > 0
    <3>1. CASE j = i
      BY <1>1, <3>1
    <3>2. CASE j # i
      <4>1. j \in Slots /\ sessions[j] # NoRequest /\ called[sessions[j]] > 0
        BY <2>1, <3>2, HeldSlots DEF LifeInv, HeldInv
      <4>2. sessions[j] \in Requests
        BY <4>1
      <4> QED
        BY <1>2, <4>1, <4>2
    <3> QED
      BY <3>1, <3>2
  <2>2. ASSUME NEW j \in Held(stack', "message") PROVE answers'[sessions[j]] = 0
    <3>1. CASE j \in Held(stack, "message")
      <4>1. j \in Slots /\ sessions[j] # NoRequest /\ answers[sessions[j]] = 0
        BY <3>1, HeldSlots DEF LifeInv, HeldInv
      <4>2. sessions[j] \in Requests
        BY <4>1
      <4> QED
        BY <4>1, <4>2, Sizes
    <3> QED
      BY <2>2, <3>1
  <2> QED
    BY <2>1, <2>2 DEF HeldInv
<1>6. CalledInv'
  <2> SUFFICES ASSUME NEW j \in Slots, sessions[j] # NoRequest, called'[sessions[j]] > 0, j # i
               PROVE  j \in Held(stack, "message") \cup Held(stack, "expired")
    BY DEF CalledInv
  <2>1. sessions[j] # q /\ sessions[j] \in Requests
    BY DEF LifeInv, TableInv
  <2>2. called[sessions[j]] > 0
    BY <1>1, <2>1
  <2> QED
    BY <2>2 DEF LifeInv, CalledInv
<1>7. AnsweredOnce'
  BY <1>1 DEF LifeInv, AnsweredOnce
<1> QED
  BY <1>3, <1>4, <1>5, <1>6, <1>7 DEF LifeInv

-----------------------------------------------------------------------------
(* The life of a session.                                                  *)

LEMMA LifeInit == Init => LifeInv
<1> SUFFICES ASSUME Init PROVE LifeInv
  OBVIOUS
<1>1. /\ stack = <<>> /\ usid = 0 /\ accepted = {}
      /\ \A i \in Slots : sessions[i] = NoRequest
      /\ \A r \in Requests : answers[r] = 0 /\ called[r] = 0
  BY DEF Init
<1>2. StackInv(stack) /\ Publishing(stack) = {} /\ \A fn : Held(stack, fn) = {}
  BY <1>1, BottomStack
<1>3. TableInv
  <2>1. \A i \in Slots : sessions[i] < usid
    BY <1>1 DEF NoRequest
  <2> QED
    BY <1>1, <2>1 DEF TableInv
<1>4. KeptInv /\ CalledInv
  BY <1>1, <1>2 DEF KeptInv, CalledInv
<1>5. HeldInv
  BY <1>2 DEF HeldInv
<1>6. AnsweredOnce
  BY <1>1 DEF AnsweredOnce
<1> QED
  BY <1>2, <1>3, <1>4, <1>5, <1>6 DEF LifeInv

\* Frames that are pushed do what callers may do.
LEMMA SafeFrames ==
  ASSUME SafeCallers
  PROVE  /\ FrameSafe(Yield) /\ \A i : FrameSafe(Scan(i)) /\ FrameSafe(Message(i)) /\ FrameSafe(Expired(i))
         /\ \A kind, i, r : kind # "report" => FrameSafe(Publish(kind, i, r))
         /\ \A r : FrameSafe(Callback(r, r, OnAnswer)) /\ FrameSafe(Callback(r, NoRequest, OnTimeout))
         /\ FrameSafe(Callback(NoRequest, NoRequest, OnPush))
  BY DEF SafeCallers, FrameSafe, Yield, Scan, Message, Expired, Publish, Callback, Frame

\* What they hold and publish.
LEMMA FramesHold ==
  /\ \A fn \in {"message", "expired"} :
       /\ HeldBy(Yield, fn) = {} /\ \A i : HeldBy(Scan(i), fn) = {}
       /\ \A kind, i, r : HeldBy(Publish(kind, i, r), fn) = {}
       /\ \A r, from, can : HeldBy(Callback(r, from, can), fn) = {}
  /\ \A i : /\ HeldBy(Message(i), "message") = {i} /\ HeldBy(Message(i), "expired") = {}
            /\ HeldBy(Expired(i), "message") = {} /\ HeldBy(Expired(i), "expired") = {i}
            /\ PublishedBy(Message(i)) = {} /\ PublishedBy(Expired(i)) = {} /\ PublishedBy(Scan(i)) = {}
  /\ PublishedBy(Yield) = {} /\ \A r, from, can : PublishedBy(Callback(r, from, can)) = {}
  /\ \A i, r : PublishedBy(Publish("plain", i, r)) = {}
  /\ \A kind, i, r : PublishedBy(Publish(kind, i, r)) \subseteq {r}
  BY DEF HeldBy, PublishedBy, Yield, Scan, Message, Expired, Publish, Callback, Frame

\* A caller that requests something is not above a scan.
LEMMA RequestingOpen ==
  ASSUME TypeInv, LifeInv, NEW kind \in Kinds, Requesting(kind)
  PROVE  Open(stack)
<1>1. stack # <<>> => Top.fn = "callback" /\ Top.can # {}
  BY DEF Requesting, In
<1> QED
  BY <1>1, OpenBelow DEF TypeInv, TypeOK, LifeInv, Top

\* Nor is a call that receives.
LEMMA ReceivingOpen ==
  ASSUME TypeInv, LifeInv, Receiving
  PROVE  Open(stack)
  BY OpenBelow DEF TypeInv, TypeOK, LifeInv, Receiving, In, Top

\* Reports are not requested.
LEMMA NothingReported ==
  ASSUME SafeCallers, TypeInv, LifeInv, NEW kind \in Kinds, Requesting(kind)
  PROVE  kind # "report"
<1>1. CASE stack = <<>> /\ kind \in MainCalls
  BY <1>1 DEF SafeCallers
<1>2. CASE In("callback") /\ kind \in Top.can
  <2>1. FrameSafe(Top)
    BY <1>2, PopStack DEF TypeInv, TypeOK, LifeInv, In, Top
  <2> QED
    BY <1>2, <2>1 DEF FrameSafe, In
<1> QED
  BY <1>1, <1>2 DEF Requesting

\* A session is taken and its request published.
LEMMA RequestBeginsStep ==
  ASSUME SafeCallers, TypeInv, TypeInv', LifeInv, RequestBegins
  PROVE  LifeInv'
<1> USE DEF TypeInv, TypeOK
<1>1. PICK kind \in Kinds, copies \in {0, MaxCopies} :
        /\ WithSession(kind) /\ usid < MaxRequests /\ Empty # {}
        /\ sessions' = [sessions EXCEPT ![First(Empty)] = usid]
        /\ stack' = <<Publish(kind, First(Empty), usid)>> \o stack
        /\ answers' = [answers EXCEPT ![usid] = copies]
        /\ usid' = usid + 1 /\ UNCHANGED <<accepted, called>>
  BY DEF RequestBegins
<1> DEFINE i == First(Empty)
           e == Publish(kind, i, usid)
<1>2. i \in Slots /\ sessions[i] = NoRequest /\ usid \in Requests
  BY <1>1, SlotsFound, Sizes DEF Requests
<1>3. e \in Frames /\ FrameSafe(e) /\ e.fn = "publish"
  <2>1. kind # "report"
    BY <1>1, NothingReported DEF WithSession
  <2> QED
    BY <1>2, <2>1, FrameType, SafeFrames DEF Publish, Frame
<1>4. StackInv(stack')
  BY <1>1, <1>3, RequestingOpen, PushStack DEF WithSession, Holds, LifeInv
<1>5. /\ Held(stack', "message") = Held(stack, "message")
      /\ Held(stack', "expired") = Held(stack, "expired")
      /\ Publishing(stack') \subseteq Publishing(stack) \cup {usid}
  <2>1. HeldBy(e, "message") = {} /\ HeldBy(e, "expired") = {} /\ PublishedBy(e) \subseteq {usid}
    BY FramesHold
  <2>2. /\ Held(stack', "message") = Held(stack, "message") \cup HeldBy(e, "message")
        /\ Held(stack', "expired") = Held(stack, "expired") \cup HeldBy(e, "expired")
        /\ Publishing(stack') = Publishing(stack) \cup PublishedBy(e)
    BY <1>1, <1>3, PushSets
  <2> QED
    BY <2>1, <2>2
<1> HIDE DEF e, i
<1>6. /\ sessions'[i] = usid /\ \A j \in Slots : j # i => sessions'[j] = sessions[j]
      /\ \A r \in Requests : r # usid => answers'[r] = answers[r]
  BY <1>1, <1>2 DEF i
<1>7. \A j \in Slots : sessions[j] # usid /\ sessions[j] < usid
  BY Sizes DEF LifeInv, TableInv, Requests, NoRequest
<1>8. TableInv'
  <2>1. ASSUME NEW j \in Slots PROVE sessions'[j] < usid'
    <3>1. sessions[j] \in Int /\ usid \in Int
      BY Sizes DEF Requests, NoRequest
    <3>2. sessions[j] < usid' /\ usid < usid'
      BY <1>1, <1>7, <3>1
    <3> QED
      BY <1>6, <3>2
  <2>2. \A j, k \in Slots : sessions'[j] = sessions'[k] /\ sessions'[j] # NoRequest => j = k
    BY <1>6, <1>7 DEF LifeInv, TableInv
  <2>3. \A r \in Requests : r >= usid' => answers'[r] = 0 /\ called'[r] = 0
    <3>1. \A r \in Requests : r >= usid' => r >= usid /\ r # usid
      BY <1>1, Sizes DEF Requests
    <3> QED
      BY <1>1, <1>6, <3>1 DEF LifeInv, TableInv
  <2> QED
    BY <2>1, <2>2, <2>3 DEF TableInv
<1>9. KeptInv'
  <2> SUFFICES ASSUME NEW r \in accepted \cup Publishing(stack)
               PROVE  r < usid' /\ (called[r] > 0 \/ \E j \in Slots : sessions'[j] = r)
    <3>1. usid < usid' /\ \E j \in Slots : sessions'[j] = usid
      BY <1>1, <1>2, <1>6, Sizes
    <3> QED
      BY <1>1, <1>5, <3>1 DEF KeptInv
  <2>1. r < usid /\ (called[r] > 0 \/ \E j \in Slots : sessions[j] = r)
    BY DEF LifeInv, KeptInv
  <2>2. r \in Requests
    BY DEF Publishing, StackKeeps, FrameKeeps
  <2>3. r # NoRequest /\ r < usid'
    BY <1>1, <2>1, <2>2, Sizes DEF Requests, NoRequest
  <2> QED
    BY <1>2, <1>6, <2>1, <2>3
<1>10. ASSUME NEW j \in Held(stack, "message") \cup Held(stack, "expired")
       PROVE  j \in Slots /\ j # i /\ sessions'[j] = sessions[j] /\ sessions[j] \in Requests
  <2>1. j \in Slots /\ sessions[j] # NoRequest
    BY HeldSlots DEF LifeInv, HeldInv
  <2> QED
    BY <1>2, <1>6, <2>1
<1>11. HeldInv'
  <2>1. ASSUME NEW j \in Held(stack, "message") \cup Held(stack, "expired")
        PROVE  sessions'[j] # NoRequest /\ called'[sessions'[j]] > 0
    BY <1>1, <1>10 DEF LifeInv, HeldInv
  <2>2. ASSUME NEW j \in Held(stack, "message") PROVE answers'[sessions'[j]] = 0
    BY <1>6, <1>7, <1>10 DEF LifeInv, HeldInv
  <2> QED
    BY <1>5, <2>1, <2>2 DEF HeldInv
<1>12. CalledInv'
  <2>1. called'[usid] = 0
    BY <1>1, <1>2, Sizes DEF LifeInv, TableInv, Requests
  <2> SUFFICES ASSUME NEW j \in Slots, sessions'[j] # NoRequest, called'[sessions'[j]] > 0
               PROVE  j \in Held(stack, "message") \cup Held(stack, "expired")
    BY <1>5 DEF CalledInv
  <2>2. j # i
    BY <1>6, <2>1
  <2> QED
    BY <1>1, <1>6, <2>2 DEF LifeInv, CalledInv
<1>13. AnsweredOnce'
  BY <1>1 DEF LifeInv, AnsweredOnce
<1> QED
  BY <1>4, <1>8, <1>9, <1>11, <1>12, <1>13 DEF LifeInv

\* The other steps of a request.
LEMMA RequestLife ==
  ASSUME SafeCallers, TypeInv, TypeInv', LifeInv, RequestStep
  PROVE  LifeInv'
<1> USE DEF TypeInv, TypeOK
<1>1. CASE RequestBegins
  BY <1>1, RequestBeginsStep
<1>2. CASE RequestPlain
  <2> DEFINE e == Publish("plain", NoSlot, NoRequest)
  <2>1. e \in Frames /\ FrameSafe(e) /\ e.fn = "publish"
    BY FrameType, SafeFrames DEF Publish, Frame
  <2>2. Open(stack)
    BY <1>2, RequestingOpen DEF RequestPlain, Kinds
  <2>3. StackInv(stack')
    BY <1>2, <2>1, <2>2, PushStack DEF RequestPlain, Holds, LifeInv
  <2>4. /\ Held(stack', "message") = Held(stack, "message")
        /\ Held(stack', "expired") = Held(stack, "expired")
        /\ Publishing(stack') = Publishing(stack)
    <3>1. HeldBy(e, "message") = {} /\ HeldBy(e, "expired") = {} /\ PublishedBy(e) = {}
      BY FramesHold
    <3>2. /\ Held(stack', "message") = Held(stack, "message") \cup HeldBy(e, "message")
          /\ Held(stack', "expired") = Held(stack, "expired") \cup HeldBy(e, "expired")
          /\ Publishing(stack') = Publishing(stack) \cup PublishedBy(e)
      BY <1>2, <2>1, PushSets DEF RequestPlain
    <3> QED
      BY <3>1, <3>2
  <2>5. \A r \in Requests : answers'[r] <= answers[r]
    BY <1>2, Sizes DEF RequestPlain
  <2> QED
    BY <1>2, <2>3, <2>4, <2>5, QuietStep DEF RequestPlain
<1>3. CASE RequestAborted
  <2>1. \A r \in Requests : answers'[r] <= answers[r]
    BY <1>3, Sizes DEF RequestAborted
  <2> QED
    BY <1>3, <2>1, QuietStep DEF RequestAborted, LifeInv
<1>4. ASSUME In("publish") PROVE /\ StackInv(Tail(stack)) /\ Top.kind # "report"
                                 /\ Held(stack, "message") = Held(Tail(stack), "message")
                                 /\ Held(stack, "expired") = Held(Tail(stack), "expired")
                                 /\ Publishing(stack) = Publishing(Tail(stack)) \cup PublishedBy(Top)
  <2>1. StackInv(Tail(stack)) /\ FrameSafe(Top)
    BY <1>4, PopStack DEF LifeInv, In, Top
  <2>2. /\ \A fn : Held(stack, fn) = Held(Tail(stack), fn) \cup HeldBy(Top, fn)
        /\ Publishing(stack) = Publishing(Tail(stack)) \cup PublishedBy(Top)
    BY <1>4, PopSets DEF In, Top
  <2> QED
    BY <1>4, <2>1, <2>2 DEF In, HeldBy, FrameSafe
<1>5. ASSUME PublishSucceeds \/ PublishFails PROVE LifeInv'
  <2>1. In("publish") /\ stack' = Tail(stack)
    BY <1>5 DEF PublishSucceeds, PublishFails
  <2>2. UNCHANGED <<sessions, called, usid, answers>>
    BY <1>4, <1>5, <2>1 DEF PublishSucceeds, PublishFails
  <2>3. accepted' \cup Publishing(stack') \subseteq accepted \cup Publishing(stack)
    BY <1>4, <1>5, <2>1 DEF PublishSucceeds, PublishFails, PublishedBy, In
  <2>4. \A r \in Requests : answers'[r] <= answers[r]
    BY <2>2, Sizes
  <2> QED
    BY <1>4, <2>1, <2>2, <2>3, <2>4, QuietStep
<1> QED
  BY <1>1, <1>2, <1>3, <1>5 DEF RequestStep

\* The steps of a receive.
LEMMA ReceiveLife ==
  ASSUME SafeCallers, IdsDiffer, TypeInv, TypeInv', LifeInv, ReceiveStep
  PROVE  LifeInv'
<1> USE DEF TypeInv, TypeOK
<1>1. ASSUME NEW r \in Requests, Receiving, answers[r] > 0, Found(r) # {},
             stack' = <<Callback(sessions[First(Found(r))], r, OnAnswer), Message(First(Found(r)))>> \o stack,
             called' = [called EXCEPT ![sessions[First(Found(r))]] = @ + 1],
             answers' = [answers EXCEPT ![r] = @ - 1],
             UNCHANGED <<sessions, running, usid, accepted>>
      PROVE  LifeInv'
  <2> DEFINE i == First(Found(r))
             m == Message(i)
             c == Callback(r, r, OnAnswer)
  <2>1. i \in Slots /\ sessions[i] = r /\ OnAnswer \in SUBSET Kinds
    <3>1. i \in Slots /\ sessions[i] # NoRequest /\ Begins(Id(r), Id(sessions[i]))
      BY <1>1, SlotsFound DEF Matches
    <3>2. sessions[i] \in Requests
      BY <3>1
    <3> QED
      BY <3>1, <3>2, KindsAssumption DEF IdsDiffer
  <2>2. m \in Frames /\ FrameSafe(m) /\ m.fn = "message" /\ m.slot = i
    BY <2>1, FrameType, SafeFrames DEF Message, Frame
  <2>3. c \in Frames /\ FrameSafe(c) /\ c.fn = "callback"
    BY <2>1, FrameType, SafeFrames DEF Callback
  <2>4. /\ HeldBy(m, "message") = {i} /\ HeldBy(m, "expired") = {} /\ PublishedBy(m) = {}
        /\ HeldBy(c, "message") = {} /\ HeldBy(c, "expired") = {} /\ PublishedBy(c) = {}
    BY FramesHold
  <2>5. stack' = <<c>> \o (<<m>> \o stack)
    <3>1. stack' = <<c, m>> \o stack
      BY <1>1, <2>1
    <3> QED
      BY <2>2, <2>3, <3>1, PushTwo
  <2>6. called' = [called EXCEPT ![sessions[i]] = @ + 1]
    BY <1>1
  <2> HIDE DEF i, m, c
  <2>7. i \notin Held(stack, "message")
    BY <1>1, <2>1 DEF LifeInv, HeldInv
  <2>8. Open(stack)
    BY <1>1, ReceivingOpen
  <2>9. i \notin Held(stack, "expired")
    BY <2>8 DEF Open, Held
  <2>10. called[sessions[i]] = 0
    <3>1. sessions[i] \in Requests /\ sessions[i] # NoRequest
      BY <2>1, Sizes DEF Requests, NoRequest
    <3>2. ~(called[sessions[i]] > 0) /\ called[sessions[i]] \in Nat
      BY <2>1, <2>7, <2>9, <3>1 DEF LifeInv, CalledInv
    <3> QED
      BY <3>2
  <2>11. <<m>> \o stack \in Seq(Frames)
    BY <2>2, PushType
  <2>12. StackInv(<<m>> \o stack) /\ Open(<<m>> \o stack)
    BY <2>2, <2>7, <2>8, PushStack DEF LifeInv
  <2>13. StackInv(stack')
    BY <2>3, <2>5, <2>11, <2>12, PushStack DEF Holds
  <2>14. /\ Held(stack', "message") = Held(stack, "message") \cup {i}
         /\ Held(stack', "expired") = Held(stack, "expired")
         /\ Publishing(stack') = Publishing(stack)
    <3> DEFINE t == <<m>> \o stack
    <3>1. /\ Held(t, "message") = Held(stack, "message") \cup HeldBy(m, "message")
          /\ Held(t, "expired") = Held(stack, "expired") \cup HeldBy(m, "expired")
          /\ Publishing(t) = Publishing(stack) \cup PublishedBy(m)
      BY <2>2, PushSets
    <3>2. t \in Seq(Frames) /\ stack' = <<c>> \o t
      BY <2>5, <2>11
    <3> HIDE DEF t
    <3>3. /\ Held(stack', "message") = Held(t, "message") \cup HeldBy(c, "message")
          /\ Held(stack', "expired") = Held(t, "expired") \cup HeldBy(c, "expired")
          /\ Publishing(stack') = Publishing(t) \cup PublishedBy(c)
      BY <2>3, <3>2, PushSets
    <3> QED
      BY <2>4, <3>1, <3>3
  <2>15. \A q \in Requests : answers'[q] <= answers[q]
    BY <1>1, Sizes
  <2>16. answers'[sessions[i]] = 0
    <3>1. answers[r] = 1
      BY <1>1, Sizes DEF SafeCallers
    <3> QED
      BY <1>1, <2>1, <3>1
  <2>17. sessions[i] # NoRequest
    BY <2>1, Sizes DEF Requests, NoRequest
  <2> QED
    <3>1. \A j \in Held(stack', "message") :
            j \in Held(stack, "message") \/ (j = i /\ answers'[sessions[i]] = 0)
      BY <2>14, <2>16
    <3>2. Held(stack', "message") \cup Held(stack', "expired")
            = Held(stack, "message") \cup Held(stack, "expired") \cup {i}
      BY <2>14
    <3> QED
      BY <1>1, <2>1, <2>6, <2>10, <2>13, <2>14, <2>15, <2>17, <3>1, <3>2, CallStep
<1>2. CASE PushReceived
  <2> DEFINE c == Callback(NoRequest, NoRequest, OnPush)
  <2>1. c \in Frames /\ FrameSafe(c) /\ c.fn = "callback"
    BY FrameType, SafeFrames, KindsAssumption DEF Callback
  <2>2. Open(stack) /\ stack' = <<c>> \o stack
    BY <1>2, ReceivingOpen DEF PushReceived
  <2>3. HeldBy(c, "message") = {} /\ HeldBy(c, "expired") = {} /\ PublishedBy(c) = {}
    BY FramesHold
  <2> HIDE DEF c
  <2>4. StackInv(stack')
    BY <2>1, <2>2, PushStack DEF Holds, LifeInv
  <2>5. /\ Held(stack', "message") = Held(stack, "message") \cup HeldBy(c, "message")
        /\ Held(stack', "expired") = Held(stack, "expired") \cup HeldBy(c, "expired")
        /\ Publishing(stack') = Publishing(stack) \cup PublishedBy(c)
    BY <2>1, <2>2, PushSets
  <2>6. \A q \in Requests : answers'[q] <= answers[q]
    <3>1. CASE UNCHANGED answers
      BY <3>1, Sizes
    <3>2. ASSUME NEW r \in Requests, answers' = [answers EXCEPT ![r] = @ - 1]
          PROVE  \A q \in Requests : answers'[q] <= answers[q]
      BY <3>2, Sizes
    <3> QED
      BY <1>2, <3>1, <3>2 DEF PushReceived
  <2> QED
    BY <1>2, <2>3, <2>4, <2>5, <2>6, QuietStep DEF PushReceived
<1>3. ASSUME stack # <<>>
      PROVE  /\ StackInv(Tail(stack))
             /\ \A fn : Held(stack, fn) = Held(Tail(stack), fn) \cup HeldBy(Top, fn)
             /\ Publishing(stack) = Publishing(Tail(stack)) \cup PublishedBy(Top)
  BY <1>3, PopStack, PopSets DEF LifeInv, Top
<1>4. CASE CallbackReturns
  <2>1. stack # <<>> /\ Top.fn = "callback" /\ stack' = Tail(stack)
    BY <1>4 DEF CallbackReturns, In
  <2>2. /\ Held(stack', "message") = Held(stack, "message")
        /\ Held(stack', "expired") = Held(stack, "expired")
        /\ Publishing(stack') = Publishing(stack)
    BY <1>3, <2>1 DEF HeldBy, PublishedBy
  <2>3. \A q \in Requests : answers'[q] <= answers[q]
    BY <1>4, Sizes DEF CallbackReturns
  <2> QED
    BY <1>3, <1>4, <2>1, <2>2, <2>3, QuietStep DEF CallbackReturns
<1>5. CASE AnswerDone
  <2>1. stack # <<>> /\ Holds(Top) /\ stack' = Tail(stack)
    BY <1>5 DEF AnswerDone, In, Holds
  <2> QED
    BY <1>3, <1>5, <2>1, ReleaseStep DEF AnswerDone
<1> QED
  BY <1>1, <1>2, <1>4, <1>5 DEF ReceiveStep, AnswerReceived

\* The main loop's call is the whole stack.
LEMMA MainCall ==
  ASSUME TypeInv, LifeInv, In("yield") \/ In("scan")
  PROVE  Tail(stack) = <<>>
<1>1. stack \in Seq(Frames) /\ stack # <<>> /\ Top.fn \in {"yield", "scan"}
  BY DEF TypeInv, TypeOK, In
<1>2. Len(stack) \in Nat \ {0} /\ Top = stack[1]
  BY <1>1, PopType DEF Top
<1>3. 1 \in 1..Len(stack) /\ stack[1].fn \in {"yield", "scan"}
  BY <1>1, <1>2
<1>4. Len(stack) = 1
  BY <1>3 DEF LifeInv, StackInv, BottomInv
<1> QED
  BY <1>1, <1>4, PopLast

\* The steps of a yield.
LEMMA YieldLife ==
  ASSUME SafeCallers, TypeInv, TypeInv', LifeInv, YieldStep
  PROVE  LifeInv'
<1> USE DEF TypeInv, TypeOK
<1>1. ASSUME stack # <<>>
      PROVE  /\ StackInv(Tail(stack)) /\ Tail(stack) \in Seq(Frames)
             /\ \A fn : Held(stack, fn) = Held(Tail(stack), fn) \cup HeldBy(Top, fn)
             /\ Publishing(stack) = Publishing(Tail(stack)) \cup PublishedBy(Top)
  BY <1>1, PopType, PopStack, PopSets DEF LifeInv, Top
<1>2. ASSUME NEW e \in Frames, FrameSafe(e), stack' = <<e>> \o <<>>,
             HeldBy(e, "message") = {}, HeldBy(e, "expired") = {}, PublishedBy(e) = {}
      PROVE  /\ StackInv(stack') /\ Publishing(stack') = {}
             /\ Held(stack', "message") = {} /\ Held(stack', "expired") = {}
  <2>1. StackInv(stack')
    BY <1>2, BottomStack
  <2>2. <<>> \in Seq(Frames)
    BY EmptySeq
  <2>3. /\ Held(stack', "message") = Held(<<>>, "message") \cup HeldBy(e, "message")
        /\ Held(stack', "expired") = Held(<<>>, "expired") \cup HeldBy(e, "expired")
        /\ Publishing(stack') = Publishing(<<>>) \cup PublishedBy(e)
    BY <1>2, <2>2, PushSets
  <2> QED
    BY <1>2, <2>1, <2>3, BottomStack
<1>3. ASSUME UNCHANGED answers PROVE \A r \in Requests : answers'[r] <= answers[r]
  BY <1>3, Sizes
<1>4. CASE YieldBegins
  <2>1. Yield \in Frames /\ FrameSafe(Yield) /\ stack' = <<Yield>> \o <<>>
    BY <1>4, FrameType, SafeFrames DEF YieldBegins
  <2>2. HeldBy(Yield, "message") = {} /\ HeldBy(Yield, "expired") = {} /\ PublishedBy(Yield) = {}
    BY FramesHold
  <2>3. Held(stack, "message") = {} /\ Held(stack, "expired") = {} /\ Publishing(stack) = {}
    BY <1>4, BottomStack DEF YieldBegins
  <2> QED
    BY <1>2, <1>3, <1>4, <2>1, <2>2, <2>3, QuietStep DEF YieldBegins
<1>5. ASSUME In("yield") \/ In("scan")
      PROVE  /\ Tail(stack) = <<>> /\ Publishing(stack) = {}
             /\ Held(stack, "message") = {} /\ Held(stack, "expired") = {}
  <2>1. stack # <<>> /\ Top.fn \in {"yield", "scan"} /\ Tail(stack) = <<>>
    BY <1>5, MainCall DEF In
  <2>2. HeldBy(Top, "message") = {} /\ HeldBy(Top, "expired") = {} /\ PublishedBy(Top) = {}
    BY <2>1 DEF HeldBy, PublishedBy
  <2> QED
    BY <1>1, <2>1, <2>2, BottomStack
<1>6. CASE YieldScans
  <2>1. Scan(1) \in Frames /\ FrameSafe(Scan(1)) /\ stack' = <<Scan(1)>> \o <<>>
    <3>1. 1 \in 1..(NumSessions + 1)
      BY Sizes
    <3> QED
      BY <1>5, <1>6, <3>1, FrameType, SafeFrames DEF YieldScans
  <2>2. HeldBy(Scan(1), "message") = {} /\ HeldBy(Scan(1), "expired") = {} /\ PublishedBy(Scan(1)) = {}
    BY FramesHold
  <2> QED
    BY <1>2, <1>3, <1>5, <1>6, <2>1, <2>2, QuietStep DEF YieldScans
<1>7. CASE YieldReturns
  <2>1. stack' = <<>>
    BY <1>5, <1>7 DEF YieldReturns
  <2> QED
    BY <1>3, <1>5, <1>7, <2>1, BottomStack, QuietStep DEF YieldReturns
<1>8. CASE SessionExpires
  <2> DEFINE i == First(Overdue(Top.slot))
             e == Expired(i)
             c == Callback(sessions[i], NoRequest, OnTimeout)
  <2>1. Top.slot \in 1..(NumSessions + 1)
    <3>1. stack # <<>> /\ Top.fn = "scan" /\ Top = stack[1] /\ 1 \in 1..Len(stack)
      BY <1>8, PopType DEF SessionExpires, In, Top
    <3> QED
      BY <3>1 DEF StackKeeps, FrameKeeps
  <2>2. i \in Slots /\ sessions[i] # NoRequest /\ sessions[i] \in Requests
    BY <1>8, <2>1, SlotsFound DEF SessionExpires
  <2>3. e \in Frames /\ FrameSafe(e) /\ e.fn = "expired"
    BY <2>2, FrameType, SafeFrames DEF Expired, Frame
  <2>4. c \in Frames /\ FrameSafe(c) /\ c.fn = "callback" /\ c.can = {}
    BY <2>2, FrameType, SafeFrames, KindsAssumption DEF Callback, SafeCallers
  <2>5. stack' = <<c>> \o (<<e>> \o <<>>)
    <3>1. stack' = <<c, e>> \o <<>>
      BY <1>5, <1>8 DEF SessionExpires
    <3> QED
      BY <2>3, <2>4, <3>1, PushTwo, EmptySeq
  <2>6. /\ HeldBy(e, "message") = {} /\ HeldBy(e, "expired") = {i} /\ PublishedBy(e) = {}
        /\ HeldBy(c, "message") = {} /\ HeldBy(c, "expired") = {} /\ PublishedBy(c) = {}
    BY FramesHold
  <2>7. called' = [called EXCEPT ![sessions[i]] = @ + 1] /\ UNCHANGED <<sessions, usid, accepted, answers>>
    BY <1>8 DEF SessionExpires
  <2> HIDE DEF i, e, c
  <2>8. StackInv(stack')
    BY <2>3, <2>4, <2>5, ExpiringStack
  <2>9. Held(stack', "message") = {} /\ Held(stack', "expired") = {i} /\ Publishing(stack') = {}
    <3> DEFINE t == <<e>> \o <<>>
    <3>1. <<>> \in Seq(Frames)
      BY EmptySeq
    <3>2. /\ Held(t, "message") = Held(<<>>, "message") \cup HeldBy(e, "message")
          /\ Held(t, "expired") = Held(<<>>, "expired") \cup HeldBy(e, "expired")
          /\ Publishing(t) = Publishing(<<>>) \cup PublishedBy(e)
      BY <2>3, <3>1, PushSets
    <3>3. t \in Seq(Frames) /\ stack' = <<c>> \o t
      BY <2>3, <2>5, <3>1, PushType
    <3> HIDE DEF t
    <3>4. /\ Held(stack', "message") = Held(t, "message") \cup HeldBy(c, "message")
          /\ Held(stack', "expired") = Held(t, "expired") \cup HeldBy(c, "expired")
          /\ Publishing(stack') = Publishing(t) \cup PublishedBy(c)
      BY <2>4, <3>3, PushSets
    <3> QED
      BY <2>6, <3>2, <3>4, BottomStack
  <2>10. Held(stack, "message") = {} /\ Held(stack, "expired") = {} /\ Publishing(stack) = {}
    BY <1>5, <1>8 DEF SessionExpires
  <2>11. called[sessions[i]] = 0
    <3>1. ~(called[sessions[i]] > 0) /\ called[sessions[i]] \in Nat
      BY <2>2, <2>10 DEF LifeInv, CalledInv
    <3> QED
      BY <3>1
  <2> QED
    BY <1>3, <2>2, <2>7, <2>8, <2>9, <2>10, <2>11, CallStep
<1>9. CASE ExpiryDone
  <2>1. stack # <<>> /\ Top.fn = "expired" /\ Holds(Top) /\ Top = stack[1] /\ Len(stack) \in Nat \ {0}
    BY <1>9, PopType DEF ExpiryDone, In, Top, Holds
  <2>2. Tail(stack) = <<>>
    <3>1. 1 \in 1..Len(stack) /\ stack[1].fn = "expired"
      BY <2>1
    <3>2. Len(stack) = 1
      BY <3>1 DEF LifeInv, StackInv, BottomInv
    <3> QED
      BY <2>1, <3>2, PopLast
  <2>3. Top.slot + 1 \in 1..(NumSessions + 1)
    <3>1. Top.slot \in Slots
      BY <2>1 DEF StackKeeps, FrameKeeps
    <3> QED
      BY <3>1, Sizes DEF Slots
  <2> DEFINE e == Scan(Top.slot + 1)
  <2>4. e \in Frames /\ FrameSafe(e) /\ stack' = <<e>> \o <<>>
    BY <1>9, <2>2, <2>3, FrameType, SafeFrames DEF ExpiryDone
  <2>5. HeldBy(e, "message") = {} /\ HeldBy(e, "expired") = {} /\ PublishedBy(e) = {}
    BY FramesHold
  <2> HIDE DEF e
  <2>6. /\ StackInv(stack') /\ Publishing(stack') = {}
        /\ Held(stack', "message") = {} /\ Held(stack', "expired") = {}
    BY <1>2, <2>4, <2>5
  <2>7. /\ Publishing(Tail(stack)) = {}
        /\ Held(Tail(stack), "message") = {} /\ Held(Tail(stack), "expired") = {}
    BY <2>2, BottomStack
  <2> QED
    BY <1>9, <2>1, <2>6, <2>7, ReleaseStep DEF ExpiryDone
<1> QED
  BY <1>4, <1>6, <1>7, <1>8, <1>9 DEF YieldStep

LEMMA LifeStep ==
  ASSUME SafeCallers, IdsDiffer
  PROVE  TypeInv /\ LifeInv /\ [Next]_vars => LifeInv'
<1> SUFFICES ASSUME TypeInv, LifeInv, [Next]_vars PROVE LifeInv'
  OBVIOUS
<1>1. TypeInv'
  BY TypeStep
<1>2. CASE RequestStep
  BY <1>1, <1>2, RequestLife
<1>3. CASE ReceiveStep
  BY <1>1, <1>3, ReceiveLife
<1>4. CASE YieldStep
  BY <1>1, <1>4, YieldLife
<1>5. ASSUME UNCHANGED <<sessions, usid, stack, answers, accepted, called>> PROVE LifeInv'
  <2>1. \A r \in Requests : answers'[r] <= answers[r]
    BY <1>5, Sizes DEF TypeInv, TypeOK
  <2> QED
    BY <1>1, <1>5, <2>1, QuietStep DEF LifeInv
<1> QED
  BY <1>2, <1>3, <1>4, <1>5 DEF Next, Tick, vars

\* When no callback reports, timeouts request nothing and the server answers once, every
\* accepted request keeps its session until its callback is called, for every size of the
\* table and however answers, pushes and failures fall into requests.
THEOREM NoneLost ==
  ASSUME SafeCallers, IdsDiffer
  PROVE  Spec => []NoRequestLost
<1>1. LifeInv => NoRequestLost
  BY DEF LifeInv, KeptInv, NoRequestLost
<1> QED
  BY TypeInit, TypeStep, LifeInit, LifeStep, <1>1, PTL DEF Spec

\* Under the same assumptions no callback is called twice, neither for an answer read while
\* the callback runs nor for an answer after the timeout.
THEOREM CallbackOnce ==
  ASSUME SafeCallers, IdsDiffer
  PROVE  Spec => []AnsweredOnce
<1>1. LifeInv => AnsweredOnce
  BY DEF LifeInv
<1> QED
  BY TypeInit, TypeStep, LifeInit, LifeStep, <1>1, PTL DEF Spec

\* Under the same assumptions a callback is given the answer to its own request only.
THEOREM OwnAnswer ==
  ASSUME SafeCallers, IdsDiffer
  PROVE  Spec => []AnswerIsMine
<1>1. TypeInv /\ LifeInv => AnswerIsMine
  BY DEF TypeInv, TypeOK, LifeInv, StackInv, FrameSafe, AnswerIsMine
<1> QED
  BY TypeInit, TypeStep, LifeInit, LifeStep, <1>1, PTL DEF Spec
=============================================================================
