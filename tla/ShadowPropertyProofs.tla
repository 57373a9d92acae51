------------------------- MODULE ShadowPropertyProofs -------------------------
(***************************************************************************)
(* Invariants of ShadowProperty for every number of properties, every set  *)
(* of values and every bound, and the proof that it implements Wishes.     *)
(* What is said about values holds when every property can be stored:      *)
(* tc_iot_shadow_save_to_cached writes nothing for those of type INT.      *)
(***************************************************************************)
EXTENDS ShadowProperty, FiniteSetTheorems, Lemmas

-----------------------------------------------------------------------------
(* Types.                                                                  *)

\* Frames of the calls.
LEMMA FrameType ==
  /\ NoData \in Data
  /\ \A kind \in Kinds, confirms \in BOOLEAN, fn \in {"init", "publish", "pack"} :
       /\ Frame(fn, kind, confirms) \in Frames
       /\ Frame(fn, kind, confirms).fn = fn /\ Frame(fn, kind, confirms).kind = kind
  /\ \A kind \in Kinds, confirms \in BOOLEAN :
       Pack(kind, confirms) \in Frames /\ Pack(kind, confirms).fn = "pack"
  /\ \A data \in Data : /\ Sync(data) \in Frames
                        /\ Sync(data).fn = "sync" /\ Sync(data).todo = data /\ Sync(data).prop = 0
<1>1. NoData \in Data
  BY DEF NoData, Data
<1> QED
  BY <1>1 DEF Frame, Pack, Sync, Frames, Kinds

\* Below the call that runs are those that wait for a receive.
Waiting == {"init", "publish"}
StackInv == \A i \in 2..Len(stack) : stack[i].fn \in Waiting

\* A call that ends, goes on as another frame, or receives a document.
LEMMA StackStep ==
  ASSUME stack \in Seq(Frames), StackInv
  PROVE  /\ stack # <<>> /\ stack' = Tail(stack)
              => stack' \in Seq(Frames) /\ StackInv' /\ (stack' # <<>> => Head(stack').fn \in Waiting)
         /\ \A e \in Frames : stack # <<>> /\ stack' = <<e>> \o Tail(stack)
              => stack' \in Seq(Frames) /\ StackInv' /\ stack' # <<>> /\ Head(stack') = e
         /\ \A e \in Frames : stack' = <<e>> \o stack /\ (stack = <<>> \/ Head(stack).fn \in Waiting)
              => stack' \in Seq(Frames) /\ StackInv' /\ stack' # <<>> /\ Head(stack') = e
<1>1. stack # <<>> /\ stack' = Tail(stack)
        => stack' \in Seq(Frames) /\ StackInv' /\ (stack' # <<>> => Head(stack').fn \in Waiting)
  BY DEF StackInv
<1>2. ASSUME NEW e \in Frames, stack # <<>>, stack' = <<e>> \o Tail(stack)
      PROVE  stack' \in Seq(Frames) /\ StackInv' /\ stack' # <<>> /\ Head(stack') = e
  <2>1. Tail(stack) \in Seq(Frames) /\ Len(Tail(stack)) = Len(stack) - 1
        /\ \A i \in 1..(Len(stack) - 1) : Tail(stack)[i] = stack[i + 1]
    BY <1>2, StackType
  <2>2. \A i \in 2..Len(stack') : stack'[i] = stack[i]
    BY <1>2, <2>1, StackType
  <2>3. Len(stack') = Len(stack)
    BY <1>2, <2>1, StackType
  <2> QED
    BY <1>2, <2>1, <2>2, <2>3, StackType DEF StackInv
<1>3. ASSUME NEW e \in Frames, stack' = <<e>> \o stack, stack = <<>> \/ Head(stack).fn \in Waiting
      PROVE  stack' \in Seq(Frames) /\ StackInv' /\ stack' # <<>> /\ Head(stack') = e
  <2>1. Len(stack') = Len(stack) + 1 /\ \A i \in 2..Len(stack') : stack'[i] = stack[i - 1]
    BY <1>3, StackType
  <2>2. \A i \in 1..Len(stack) : stack[i].fn \in Waiting
    BY <1>3 DEF StackInv
  <2> QED
    BY <1>3, <2>1, <2>2, StackType DEF StackInv
<1> QED
  BY <1>1, <1>2, <1>3

\* What a packing call does to the stack and to the documents under way.
LEMMA EmitsStep ==
  ASSUME TypeOK, StackInv, In("pack"), NEW kind \in Kinds, NEW props \in SUBSET Props,
         NEW room, NEW data \in Data, Emits(kind, props, room, data)
  PROVE  /\ stack' \in Seq(Frames) /\ StackInv'
         /\ stack' # <<>> => Head(stack').fn \in Waiting \cup {"pack"}
         /\ lost' \subseteq Kinds \X Props
         /\ uplink' = uplink \/ uplink' = Append(uplink, [kind |-> kind, seq |-> seq, data |-> data])
         /\ uplink' \in Seq(Documents)
<1> DEFINE doc == [kind |-> kind, seq |-> seq, data |-> data]
<1>1. stack \in Seq(Frames) /\ stack # <<>> /\ Top \in Frames /\ Top.confirms \in BOOLEAN
  <2>1. stack \in Seq(Frames) /\ stack # <<>>
    BY DEF TypeOK, In
  <2>2. Top \in Frames
    BY <2>1 DEF Top
  <2> QED
    BY <2>1, <2>2 DEF Frames
<1>2. doc \in Documents
  BY DEF TypeOK, Documents
<1>3. Append(uplink, doc) \in Seq(Documents)
  BY <1>2, AppendType DEF TypeOK
<1>4. lost \subseteq Kinds \X Props /\ uplink \in Seq(Documents)
  BY DEF TypeOK
<1>5. {kind} \X Present(data) \subseteq Kinds \X Props
  BY DEF Present
<1>6. CASE Skips
  <2>1. Pack("confirm", FALSE) \in Frames /\ Pack("confirm", FALSE).fn = "pack"
    BY FrameType DEF Kinds
  <2>2. stack' = Tail(stack) \/ stack' = <<Pack("confirm", FALSE)>> \o Tail(stack)
    <3>1. Tail(stack) \in Seq(Frames)
      BY <1>1, StackType
    <3>2. <<>> \o Tail(stack) = Tail(stack)
      BY <3>1
    <3> QED
      BY <1>6, <3>2 DEF Skips
  <2>3. stack' \in Seq(Frames) /\ StackInv' /\ (stack' # <<>> => Head(stack').fn \in Waiting \cup {"pack"})
    BY <1>1, <2>1, <2>2, StackStep
  <2> QED
    BY <1>4, <1>6, <2>3 DEF Skips
<1>7. ASSUME NEW gone \in SUBSET Props, GivesUp(kind, gone)
      PROVE  /\ stack' \in Seq(Frames) /\ StackInv' /\ (stack' # <<>> => Head(stack').fn \in Waiting)
             /\ lost' \subseteq Kinds \X Props /\ uplink' = uplink
  <2>1. stack' = Tail(stack) /\ lost' = lost \cup ({kind} \X gone) /\ uplink' = uplink
    BY <1>7 DEF GivesUp
  <2> QED
    BY <1>1, <1>4, <2>1, StackStep
<1>8. CASE Publish(kind, data, Top.confirms)
  <2>1. Frame("publish", kind, Top.confirms) \in Frames /\ Frame("publish", kind, Top.confirms).fn = "publish"
    BY <1>1, FrameType
  <2>2. stack' \in Seq(Frames) /\ StackInv' /\ Head(stack').fn = "publish"
    BY <1>1, <1>8, <2>1, StackStep DEF Publish
  <2>3. lost' \subseteq Kinds \X Props
    BY <1>4, <1>5, <1>8 DEF Publish
  <2> QED
    BY <1>3, <1>4, <1>8, <2>2, <2>3 DEF Publish, Waiting
<1>9. Reached(props, room) \subseteq Props /\ Written(props, room) \subseteq Props
  BY DEF Reached, Written
<1> QED
  BY <1>4, <1>6, <1>7, <1>8, <1>9 DEF Emits

\* What packs is of a kind, and about properties.
LEMMA PackType ==
  ASSUME TypeOK
  PROVE  /\ ToReport \subseteq Props /\ ToConfirm \subseteq Props
         /\ [p \in Props |-> IF p \in ToReport THEN local[p] ELSE None] \in Data
         /\ [p \in Props |-> IF p \in ToConfirm THEN desired[p] ELSE None] \in Data
  BY DEF TypeOK, ToReport, ToConfirm, Data

\* A callback runs for a value.
ControlInv == In("control") => Top.prop \in Props /\ Top.todo[Top.prop] # None

TypeInv == TypeOK /\ StackInv /\ ControlInv

LEMMA TypeInit == Init => TypeInv
<1> SUFFICES ASSUME Init PROVE TypeInv
  OBVIOUS
<1>1. stack \in Seq(Frames) /\ Len(stack) = 1 /\ Head(stack).fn = "init"
  <2>1. Frame("init", "get", FALSE) \in Frames /\ Frame("init", "get", FALSE).fn = "init"
    BY FrameType DEF Kinds
  <2> HIDE DEF Frame
  <2> QED
    BY <2>1, OneFrame DEF Init
<1>2. {local, reported, desired} \subseteq [Props -> Values] /\ view \in Data
  BY ValuesAssumption, FrameType DEF Init
<1>3. 0 \in 0..MaxChanges /\ srvSeq \in 0..MaxChanges
  BY BoundsAssumption DEF Init
<1>4. StackInv
  BY <1>1 DEF StackInv
<1>7. ControlInv
  BY <1>1 DEF ControlInv, In, Top
<1>5. /\ reportedBits \subseteq Props /\ desiredBits \subseteq Props /\ wish \in Data
      /\ met \subseteq Props /\ lost \subseteq Kinds \X Props
  BY DEF Init, Fulfilled
<1>6. /\ seq \in 0..MaxChanges /\ changes \in 0..MaxChanges
      /\ uplink \in Seq(Documents) /\ downlink \in Seq([seq : 0..MaxChanges, data : Data])
  BY <1>3 DEF Init
<1> QED
  BY <1>1, <1>2, <1>3, <1>4, <1>5, <1>6, <1>7 DEF TypeInv, TypeOK

LEMMA TypeStep == TypeInv /\ [Next]_vars => TypeInv'
<1> SUFFICES ASSUME TypeInv, [Next]_vars PROVE TypeInv'
  OBVIOUS
<1> USE DEF TypeInv
<1> DEFINE typed == stack' \in Seq(Frames) /\ StackInv' /\ ControlInv'
<1> HIDE DEF typed
<1>a. ASSUME stack' \in Seq(Frames), StackInv', stack' # <<>> => Head(stack').fn # "control" PROVE typed
  BY <1>a DEF typed, ControlInv, In, Top
<1>b. ASSUME stack' = stack PROVE typed
  BY <1>b DEF typed, TypeOK, StackInv, ControlInv, In, Top
<1>0. stack \in Seq(Frames) /\ StackInv /\ (stack # <<>> => Top \in Frames)
  BY DEF TypeOK, Top
<1>1. CASE PackReport
  <2>1. /\ typed /\ lost' \subseteq Kinds \X Props /\ uplink' \in Seq(Documents)
    BY <1>1, <1>a, EmitsStep, PackType DEF PackReport, Kinds, Waiting
  <2>2. reported' \in [Props -> Values]
    BY <1>1 DEF PackReport, TypeOK
  <2>3. reportedBits' \subseteq Props
    BY <1>1, PackType DEF PackReport, TypeOK, Written
  <2> QED
    BY <1>1, <2>1, <2>2, <2>3 DEF PackReport, TypeOK, server, typed
<1>2. CASE PackConfirm
  <2>1. /\ typed /\ lost' \subseteq Kinds \X Props /\ uplink' \in Seq(Documents)
    BY <1>2, <1>a, EmitsStep, PackType DEF PackConfirm, Kinds, Waiting
  <2>2. desiredBits' \subseteq Props
    BY <1>2 DEF PackConfirm, TypeOK
  <2> QED
    BY <1>2, <2>1, <2>2 DEF PackConfirm, TypeOK, server, typed
<1>3. CASE PackRefused
  <2>1. typed
    BY <1>0, <1>3, <1>a, StackStep DEF PackRefused, In, Waiting
  <2> QED
    BY <1>3, <2>1 DEF PackRefused, TypeOK, server, typed
<1>4. ASSUME NEW ok \in BOOLEAN, PublishReturns(ok) PROVE TypeInv'
  <2>1. typed
    <3>1. stack # <<>> /\ Tail(stack) \in Seq(Frames)
      BY <1>0, <1>4, StackType DEF PublishReturns, In
    <3>2. \A kind \in {"report", "confirm"} : Pack(kind, FALSE) \in Frames /\ Pack(kind, FALSE).fn = "pack"
      BY FrameType DEF Kinds
    <3>3. stack' = Tail(stack) \/ \E e \in Frames : e.fn = "pack" /\ stack' = <<e>> \o Tail(stack)
      BY <1>4, <3>1, <3>2, StackType DEF PublishReturns, After
    <3> QED
      BY <1>0, <1>a, <3>1, <3>3, StackStep DEF Waiting
  <2> QED
    BY <1>4, <2>1 DEF PublishReturns, TypeOK, server, typed
<1>5. ASSUME NEW i \in 1..Window, Receive(i) PROVE TypeInv'
  <2> DEFINE Controls == [seq : 0..MaxChanges, data : Data]
  <2>1. downlink \in Seq(Controls) /\ i \in DOMAIN downlink /\ downlink[i] \in Controls
    <3>1. downlink \in Seq(Controls) /\ i \in DOMAIN downlink
      BY <1>5 DEF Receive, TypeOK
    <3> HIDE DEF Controls
    <3> QED
      BY <3>1
  <2>2. downlink' \in Seq(Controls)
    <3>1. downlink' = Without(downlink, i)
      BY <1>5 DEF Receive, Without
    <3> HIDE DEF Controls
    <3> QED
      BY <2>1, <3>1, RemovalType
  <2>3. typed
    <3>1. Sync(downlink[i].data) \in Frames /\ Sync(downlink[i].data).fn = "sync"
      BY <2>1, FrameType
    <3>2. stack = <<>> \/ Head(stack).fn \in Waiting
      BY <1>5 DEF Receive, Receives, In, Top, Waiting
    <3> QED
      BY <1>0, <1>5, <1>a, <3>1, <3>2, StackStep DEF Receive
  <2>4. seq' \in 0..MaxChanges
    BY <1>5, <2>1 DEF Receive, SeqAfter, TypeOK
  <2> QED
    BY <1>5, <2>2, <2>3, <2>4 DEF Receive, TypeOK, server, typed
<1>6. ASSUME NEW p \in Props, ControlBegins(p) PROVE TypeInv'
  <2>1. stack # <<>> /\ Top.todo \in Data /\ Top.todo[p] \in Values
    BY <1>0, <1>6 DEF ControlBegins, In, Frames, Present, Data
  <2>2. [Top EXCEPT !.fn = "control", !.prop = p] \in Frames
    BY <1>0, <2>1 DEF Frames
  <2>3. typed
    <3>1. stack' \in Seq(Frames) /\ StackInv' /\ Head(stack') = [Top EXCEPT !.fn = "control", !.prop = p]
      BY <1>0, <1>6, <2>1, <2>2, StackStep DEF ControlBegins
    <3>2. Top'.prop = p /\ Top'.todo = Top.todo
      BY <1>0, <2>1, <3>1 DEF Top, Frames
    <3> QED
      BY <2>1, <3>1, <3>2, ValuesAssumption DEF typed, ControlInv
  <2>4. desired' \in [Props -> Values]
    BY <1>6, <2>1 DEF ControlBegins, TypeOK
  <2> QED
    BY <1>6, <2>3, <2>4 DEF ControlBegins, TypeOK, server, typed
<1>7. ASSUME NEW ok \in BOOLEAN, NEW wrote \in BOOLEAN, ControlReturns(ok, wrote) PROVE TypeInv'
  <2>1. stack # <<>> /\ Top.todo \in Data
    BY <1>0, <1>7 DEF ControlReturns, In, Frames
  <2>2. [Top.todo EXCEPT ![Top.prop] = None] \in Data
    BY <2>1 DEF Data
  <2>3. typed
    <3> DEFINE frame == Sync([Top.todo EXCEPT ![Top.prop] = None])
    <3>1. stack' = <<frame>> \o Tail(stack)
      BY <1>7 DEF ControlReturns
    <3>2. frame \in Frames /\ frame.fn = "sync"
      BY <2>2, FrameType
    <3> HIDE DEF frame
    <3>3. stack' \in Seq(Frames) /\ StackInv' /\ Head(stack') = frame
      BY <1>0, <2>1, <3>1, <3>2, StackStep
    <3> QED
      BY <1>a, <3>2, <3>3
  <2>4. PICK data : /\ local' = data /\ met' = met \cup Fulfilled(data, wish)
                    /\ data = local \/ data = [local EXCEPT ![Top.prop] = Top.todo[Top.prop]]
    BY <1>7 DEF ControlReturns, Becomes
  <2>5. local' \in [Props -> Values]
    <3>1. Top.prop \in Props /\ Top.todo[Top.prop] \in Values
      BY <1>7, <2>1 DEF ControlInv, ControlReturns, Data
    <3> QED
      BY <2>1, <2>4, <3>1 DEF Data, TypeOK
  <2>6. met' \subseteq Props
    BY <2>4 DEF Fulfilled, TypeOK
  <2> QED
    BY <1>7, <2>3, <2>5, <2>6 DEF ControlReturns, TypeOK, server, typed
<1>8. CASE SyncDone
  <2>1. stack # <<>> /\ Pack("report", TRUE) \in Frames /\ Pack("report", TRUE).fn = "pack"
    BY <1>8, FrameType DEF SyncDone, In, Kinds
  <2>2. typed
    BY <1>0, <1>8, <1>a, <2>1, StackStep DEF SyncDone
  <2> QED
    BY <1>8, <2>2 DEF SyncDone, TypeOK, server, typed
<1>9. CASE PublishGet
  <2>1. stack # <<>> /\ Frame("publish", "get", FALSE) \in Frames /\ Frame("publish", "get", FALSE).fn = "publish"
    BY <1>9, FrameType DEF PublishGet, In, Kinds
  <2>2. typed
    BY <1>0, <1>9, <1>a, <2>1, StackStep DEF PublishGet, Publish
  <2>3. [kind |-> "get", seq |-> seq, data |-> NoData] \in Documents
    BY FrameType DEF TypeOK, Documents, Kinds
  <2>4. uplink' \in Seq(Documents) /\ lost' \subseteq Kinds \X Props
    <3>1. uplink \in Seq(Documents) /\ lost \subseteq Kinds \X Props /\ {"get"} \X Present(NoData) \subseteq Kinds \X Props
      BY DEF TypeOK, Present, Kinds
    <3>2. Append(uplink, [kind |-> "get", seq |-> seq, data |-> NoData]) \in Seq(Documents)
      BY <2>3, <3>1, AppendType
    <3> QED
      BY <1>9, <3>1, <3>2 DEF PublishGet, Publish
  <2> QED
    BY <1>9, <2>2, <2>4 DEF PublishGet, TypeOK, server, typed
<1>10. ASSUME NEW p \in Props, NEW v \in Values, AppChange(p, v) PROVE TypeInv'
  <2>1. local' \in [Props -> Values] /\ met' \subseteq Props
    BY <1>10 DEF AppChange, Becomes, Fulfilled, TypeOK
  <2>2. changes' \in 0..MaxChanges
    BY <1>10, BoundsAssumption DEF AppChange, TypeOK
  <2>3. typed
    BY <1>10, <1>b DEF AppChange
  <2> QED
    BY <1>10, <2>1, <2>2, <2>3 DEF AppChange, TypeOK, server, typed
<1>11. ASSUME NEW confirms \in BOOLEAN, AppReports(confirms) PROVE TypeInv'
  <2>1. Pack("report", confirms) \in Frames /\ Pack("report", confirms).fn = "pack"
    BY FrameType DEF Kinds
  <2>2. typed
    <3> HIDE DEF Pack
    <3>1. stack' \in Seq(Frames) /\ Len(stack') = 1 /\ Head(stack') = Pack("report", confirms)
      BY <1>11, <2>1 DEF AppReports
    <3> QED
      BY <1>a, <2>1, <3>1 DEF StackInv
  <2> QED
    BY <1>11, <2>2 DEF AppReports, TypeOK, server, typed
<1>12. ASSUME NEW p \in Props, NEW v \in Values, Wish(p, v) PROVE TypeInv'
  <2> DEFINE Controls == [seq : 0..MaxChanges, data : Data]
  <2>1. wish' \in Data /\ met' \subseteq Props
    BY <1>12 DEF Wish, TypeOK, Data
  <2>2. srvSeq' \in 0..MaxChanges
    BY <1>12, BoundsAssumption DEF Wish, TypeOK
  <2>3. [seq |-> srvSeq', data |-> wish'] \in Controls
    BY <2>1, <2>2
  <2>4. downlink \in Seq(Controls) /\ downlink' = Append(downlink, [seq |-> srvSeq', data |-> wish'])
    BY <1>12 DEF Wish, TypeOK
  <2>5. downlink' \in Seq(Controls)
    <3> HIDE DEF Controls
    <3> QED
      BY <2>3, <2>4, AppendType
  <2>6. typed
    BY <1>12, <1>b DEF Wish, device
  <2> QED
    BY <1>12, <2>1, <2>2, <2>5, <2>6 DEF Wish, TypeOK, device, typed
<1>13. CASE ServerReceives
  <2> DEFINE Controls == [seq : 0..MaxChanges, data : Data]
             doc == Head(uplink)
  <2>1. uplink' \in Seq(Documents) /\ doc \in Documents
    BY <1>13, TailType DEF ServerReceives, TypeOK
  <2>2. view' \in Data
    BY <1>13, <2>1 DEF ServerReceives, TypeOK, Data, Documents
  <2>3. wish' \in Data
    BY <1>13 DEF ServerReceives, TypeOK, Data
  <2>4. [seq |-> srvSeq, data |-> wish] \in Controls /\ downlink \in Seq(Controls)
    BY DEF TypeOK
  <2>5. downlink' = downlink \/ downlink' = Append(downlink, [seq |-> srvSeq, data |-> wish])
    BY <1>13 DEF ServerReceives
  <2>6. downlink' \in Seq(Controls)
    <3> HIDE DEF Controls
    <3> QED
      BY <2>4, <2>5, AppendType
  <2>7. typed
    BY <1>13, <1>b DEF ServerReceives, device
  <2> QED
    BY <1>13, <2>1, <2>2, <2>3, <2>6, <2>7 DEF ServerReceives, TypeOK, device, typed
<1>14. CASE UNCHANGED vars
  BY <1>14, <1>b DEF vars, device, server, TypeOK, typed
<1> QED
  BY <1>1, <1>2, <1>3, <1>4, <1>5, <1>6, <1>7, <1>8, <1>9, <1>10, <1>11, <1>12, <1>13, <1>14
  DEF Next

\* Every variable keeps its type, however calls nest and whatever is refused, reordered or
\* lost: copies hold values, what is packed and told to the server is about properties.
THEOREM TypeCorrect == Spec => []TypeOK
<1>1. TypeInv => TypeOK
  BY DEF TypeInv
<1> QED
  BY <1>1, TypeInit, TypeStep, PTL DEF Spec

-----------------------------------------------------------------------------
(* What the copies, numbers and documents of control instructions have to  *)
(* do with each other.                                                     *)

\* Numbers only grow, and a document from the server has one.
SeqInv ==
  /\ seq <= srvSeq
  /\ Present(wish) # {} => srvSeq >= 1
  /\ \A i \in DOMAIN uplink : uplink[i].seq <= srvSeq
  /\ \A i \in DOMAIN downlink : downlink[i].seq \in 1..srvSeq

\* A wish the device fulfils was met.
MetInv == Fulfilled(local, wish) \subseteq met

\* A document with the present number has the present wishes, and perhaps some that were
\* taken back.
OrderInv == \A i \in DOMAIN downlink :
  downlink[i].seq = srvSeq => \A p \in Present(wish) : downlink[i].data[p] = wish[p]

Processing == In("sync") \/ In("control")

\* So has what is still to be processed of it.
TodoInv == seq = srvSeq /\ Processing =>
  \A p \in Present(wish) : Top.todo[p] # None => Top.todo[p] = wish[p]

\* The value that comes is still to be processed.
Expected(p) == Processing /\ Top.prop # p /\ Top.todo[p] = wish[p]

\* The desired copy of what is to be confirmed is what the server wishes, or will be.
BitInv == seq = srvSeq =>
  \A p \in desiredBits \cap Present(wish) : desired[p] = wish[p] \/ Expected(p)

\* A confirmation that counts is of wishes that were met.
ConfirmInv == \A i \in DOMAIN uplink :
  uplink[i].kind = "confirm" /\ uplink[i].seq = srvSeq
    => \A p \in Present(wish) : uplink[i].data[p] # None => p \in met

WishInv == SeqInv /\ MetInv /\ OrderInv /\ TodoInv /\ BitInv /\ ConfirmInv

LEMMA WishInit == Init => WishInv
<1> SUFFICES ASSUME Init PROVE WishInv
  OBVIOUS
<1>1. stack # <<>> /\ Top.fn = "init"
  <2>1. Frame("init", "get", FALSE) \in Frames /\ Frame("init", "get", FALSE).fn = "init"
    BY FrameType DEF Kinds
  <2> HIDE DEF Frame
  <2> QED
    BY <2>1, OneFrame DEF Init, Top
<1>2. ~Processing
  BY <1>1 DEF Processing, In
<1>3. seq <= srvSeq /\ (Present(wish) # {} => srvSeq >= 1)
  BY DEF Init, Present, NoData
<1> QED
  BY <1>2, <1>3
  DEF Init, WishInv, SeqInv, MetInv, OrderInv, TodoInv, BitInv, ConfirmInv

\* Steps that leave the server alone and send nothing: what the device must keep.
LEMMA DeviceStep ==
  ASSUME TypeInv, WishInv, UNCHANGED <<wish, srvSeq, uplink>>,
         \A i \in DOMAIN downlink' : \E j \in DOMAIN downlink : downlink'[i] = downlink[j],
         met \subseteq met', MetInv', seq' <= srvSeq, TodoInv', BitInv'
  PROVE  WishInv'
<1>1. SeqInv'
  BY DEF WishInv, SeqInv, Present
<1>2. OrderInv'
  BY DEF WishInv, OrderInv, Present
<1>3. ConfirmInv'
  BY DEF WishInv, ConfirmInv, Present
<1> QED
  BY <1>1, <1>2, <1>3 DEF WishInv

\* Calls that neither process a control document nor begin to, and may send a document.
LEMMA SendStep ==
  ASSUME TypeInv, WishInv, ~Processing, ~Processing', desiredBits' \subseteq desiredBits,
         UNCHANGED <<local, desired, wish, srvSeq, seq, downlink, met>>,
         NEW doc \in Documents, doc.seq = seq, uplink' = uplink \/ uplink' = Append(uplink, doc),
         doc.kind = "confirm" /\ seq = srvSeq
           => \A p \in Present(wish) : doc.data[p] # None => p \in met
  PROVE  WishInv'
<1>1. TodoInv' /\ BitInv'
  BY DEF WishInv, TodoInv, BitInv, Expected, Present
<1>2. MetInv' /\ OrderInv'
  BY DEF WishInv, MetInv, OrderInv, Fulfilled, Present
<1>3. uplink \in Seq(Documents)
  BY DEF TypeInv, TypeOK
<1>4. \A i \in DOMAIN uplink' : uplink'[i] = doc \/ \E j \in DOMAIN uplink : uplink'[i] = uplink[j]
  <2>1. CASE uplink' = uplink
    BY <2>1
  <2>2. CASE uplink' = Append(uplink, doc)
    BY <1>3, <2>2, AppendType
  <2> QED
    BY <2>1, <2>2
<1>5. SeqInv'
  BY <1>4 DEF WishInv, SeqInv, Present
<1>6. ConfirmInv'
  BY <1>4 DEF WishInv, ConfirmInv, Present
<1> QED
  BY <1>1, <1>2, <1>5, <1>6 DEF WishInv

\* The calls of SendStep other than the two that pack.
LEMMA QuietStep ==
  ASSUME TypeInv,
         \/ PackRefused \/ PublishGet
         \/ \E ok \in BOOLEAN : PublishReturns(ok)
         \/ \E confirms \in BOOLEAN : AppReports(confirms)
  PROVE  ~Processing /\ ~Processing'
<1>0. stack \in Seq(Frames) /\ StackInv
  BY DEF TypeInv, TypeOK
<1> SUFFICES ~Processing /\ stack' # <<>> => Head(stack').fn \in {"init", "publish", "pack"}
  BY DEF Processing, In, Top, PackRefused, PublishGet, PublishReturns, AppReports
<1>1. CASE PackRefused
  BY <1>0, <1>1, StackStep DEF PackRefused, In, Waiting, Processing
<1>2. CASE PublishGet
  <2>1. Frame("publish", "get", FALSE) \in Frames /\ Frame("publish", "get", FALSE).fn = "publish"
    BY FrameType DEF Kinds
  <2> QED
    BY <1>0, <1>2, <2>1, StackStep DEF PublishGet, Publish, In, Processing
<1>3. ASSUME NEW ok \in BOOLEAN, PublishReturns(ok)
      PROVE  ~Processing /\ stack' # <<>> => Head(stack').fn \in {"init", "publish", "pack"}
  <2>1. stack # <<>> /\ Tail(stack) \in Seq(Frames)
    BY <1>0, <1>3, StackType DEF PublishReturns, In
  <2>2. \A kind \in {"report", "confirm"} : Pack(kind, FALSE) \in Frames /\ Pack(kind, FALSE).fn = "pack"
    BY FrameType DEF Kinds
  <2>3. stack' = Tail(stack) \/ \E e \in Frames : e.fn = "pack" /\ stack' = <<e>> \o Tail(stack)
    BY <1>3, <2>1, <2>2, StackType DEF PublishReturns, After
  <2> QED
    BY <1>0, <2>1, <2>3, StackStep DEF Waiting
<1>4. ASSUME NEW confirms \in BOOLEAN, AppReports(confirms)
      PROVE  ~Processing /\ stack' # <<>> => Head(stack').fn \in {"init", "publish", "pack"}
  <2>1. Pack("report", confirms) \in Frames /\ Pack("report", confirms).fn = "pack"
    BY FrameType DEF Kinds
  <2> HIDE DEF Pack
  <2> QED
    BY <1>4, <2>1, OneFrame DEF AppReports
<1> QED
  BY <1>1, <1>2, <1>3, <1>4

LEMMA WishStep ==
  ASSUME Unstorable = {}, TypeInv, WishInv, [Next]_vars
  PROVE  WishInv'
<1>0. stack \in Seq(Frames) /\ StackInv /\ (stack # <<>> => Top \in Frames)
  BY DEF TypeInv, TypeOK, Top
<1>1. CASE PackReport
  <2> DEFINE data == [p \in Props |-> IF p \in ToReport THEN local[p] ELSE None]
             doc == [kind |-> "report", seq |-> seq, data |-> data]
  <2>1. data \in Data /\ "report" \in Kinds
    BY PackType DEF TypeInv, Kinds
  <2>2. doc \in Documents
    BY <2>1 DEF TypeInv, TypeOK, Documents
  <2>3. /\ stack' # <<>> => Head(stack').fn \in Waiting \cup {"pack"}
        /\ uplink' = uplink \/ uplink' = Append(uplink, doc)
    <3> HIDE DEF data
    <3>1. PICK room \in Rooms : Emits("report", ToReport, room, data)
      BY <1>1 DEF PackReport, data
    <3> QED
      BY <1>1, <2>1, <3>1, PackType, EmitsStep DEF PackReport, TypeInv
  <2>4. ~Processing /\ ~Processing'
    BY <1>1, <2>3 DEF PackReport, Processing, In, Top, Waiting
  <2> HIDE DEF data
  <2> QED
    BY <1>1, <2>2, <2>3, <2>4, SendStep DEF PackReport, server
<1>2. CASE PackConfirm
  <2> DEFINE data == [p \in Props |-> IF p \in ToConfirm THEN desired[p] ELSE None]
             doc == [kind |-> "confirm", seq |-> seq, data |-> data]
  <2>1. data \in Data /\ "confirm" \in Kinds
    BY PackType DEF TypeInv, Kinds
  <2>2. doc \in Documents
    BY <2>1 DEF TypeInv, TypeOK, Documents
  <2>3. /\ stack' # <<>> => Head(stack').fn \in Waiting \cup {"pack"}
        /\ uplink' = uplink \/ uplink' = Append(uplink, doc)
    <3> HIDE DEF data
    <3>1. PICK room \in Rooms : Emits("confirm", ToConfirm, room, data)
      BY <1>2 DEF PackConfirm, data
    <3> QED
      BY <1>2, <2>1, <3>1, PackType, EmitsStep DEF PackConfirm, TypeInv
  <2>4. ~Processing /\ ~Processing'
    BY <1>2, <2>3 DEF PackConfirm, Processing, In, Top, Waiting
  <2>5. ASSUME seq = srvSeq, NEW p \in Present(wish), data[p] # None PROVE p \in met
    <3>1. p \in ToConfirm /\ p \in Props
      BY <2>5 DEF Present
    <3>2. desired[p] = local[p] /\ desired[p] = wish[p]
      BY <2>4, <2>5, <3>1 DEF ToConfirm, WishInv, BitInv, Expected
    <3> QED
      BY <3>1, <3>2 DEF WishInv, MetInv, Fulfilled
  <2>6. desiredBits' \subseteq desiredBits
    BY <1>2 DEF PackConfirm
  <2> HIDE DEF data
  <2> QED
    BY <1>2, <2>2, <2>3, <2>4, <2>5, <2>6, SendStep DEF PackConfirm, server
<1>3. CASE \/ PackRefused \/ PublishGet
           \/ \E ok \in BOOLEAN : PublishReturns(ok)
           \/ \E confirms \in BOOLEAN : AppReports(confirms)
  <2> DEFINE doc == [kind |-> "get", seq |-> seq, data |-> NoData]
  <2>1. doc \in Documents
    BY FrameType DEF TypeInv, TypeOK, Documents, Kinds
  <2>2. uplink' = uplink \/ uplink' = Append(uplink, doc)
    BY <1>3 DEF PackRefused, PublishGet, PublishReturns, AppReports, Publish
  <2>3. ~Processing /\ ~Processing'
    BY <1>3, QuietStep
  <2>4. UNCHANGED <<local, desired, wish, srvSeq, seq, downlink, met, desiredBits>>
    BY <1>3 DEF PackRefused, PublishGet, PublishReturns, AppReports, server
  <2> QED
    BY <2>1, <2>2, <2>3, <2>4, SendStep
<1>5. ASSUME NEW i \in 1..Window, Receive(i) PROVE WishInv'
  <2> DEFINE Controls == [seq : 0..MaxChanges, data : Data]
  <2>1. downlink \in Seq(Controls) /\ i \in DOMAIN downlink
    BY <1>5 DEF Receive, TypeInv, TypeOK
  <2>2. downlink[i] \in Controls
    <3> HIDE DEF Controls
    <3> QED
      BY <2>1
  <2>3. \A j \in DOMAIN downlink' : \E k \in DOMAIN downlink : downlink'[j] = downlink[k]
    <3>1. downlink' = Without(downlink, i)
      BY <1>5 DEF Receive, Without
    <3> HIDE DEF Controls
    <3> QED
      BY <2>1, <3>1, RemovalType
  <2>4. seq' = downlink[i].seq /\ downlink[i].seq <= srvSeq
    BY <1>5, <2>1 DEF Receive, SeqAfter, WishInv, SeqInv
  <2>5. Top'.fn = "sync" /\ Top'.todo = downlink[i].data /\ Top'.prop = 0 /\ stack' # <<>>
    <3>1. Sync(downlink[i].data) \in Frames /\ Sync(downlink[i].data).fn = "sync"
          /\ Sync(downlink[i].data).todo = downlink[i].data /\ Sync(downlink[i].data).prop = 0
      BY <2>2, FrameType
    <3> HIDE DEF Sync
    <3> QED
      BY <1>0, <1>5, <3>1, StackType DEF Receive, Top
  <2>6. seq' = srvSeq => \A p \in Present(wish) : Top'.todo[p] = wish[p]
    BY <2>1, <2>4, <2>5 DEF WishInv, OrderInv
  <2>7. TodoInv' /\ BitInv'
    <3>1. UNCHANGED <<wish, srvSeq>>
      BY <1>5 DEF Receive, server
    <3> QED
      BY <2>5, <2>6, <3>1 DEF TodoInv, BitInv, Processing, In, Expected, Present, Props
  <2>8. MetInv'
    BY <1>5 DEF Receive, server, WishInv, MetInv, Fulfilled
  <2> QED
    BY <1>5, <2>3, <2>4, <2>7, <2>8, DeviceStep DEF Receive, server
<1>6. ASSUME NEW p \in Props, ControlBegins(p) PROVE WishInv'
  <2>1. stack # <<>> /\ Top \in Frames /\ Top.fn = "sync" /\ Top.todo[p] # None
    BY <1>0, <1>6 DEF ControlBegins, In, Present
  <2>2. Top'.fn = "control" /\ Top'.todo = Top.todo /\ Top'.prop = p /\ stack' # <<>>
    <3>1. [Top EXCEPT !.fn = "control", !.prop = p] \in Frames
      BY <2>1 DEF Frames
    <3>2. Head(stack') = [Top EXCEPT !.fn = "control", !.prop = p] /\ stack' # <<>>
      BY <1>0, <1>6, <2>1, <3>1, StackStep DEF ControlBegins
    <3> QED
      BY <2>1, <3>2 DEF Top, Frames
  <2>3. UNCHANGED <<local, seq, wish, srvSeq, uplink, downlink, met>>
    BY <1>6 DEF ControlBegins, server
  <2>4. desired' = [desired EXCEPT ![p] = Top.todo[p]] /\ desiredBits' = desiredBits \cup {p}
    BY <1>6, Unstorable = {} DEF ControlBegins
  <2>5. TodoInv'
    BY <2>1, <2>2, <2>3 DEF WishInv, TodoInv, Processing, In, Present
  <2>6. ASSUME seq' = srvSeq', NEW q \in (desiredBits \cap Present(wish))'
        PROVE  (desired[q] = wish[q] \/ Expected(q))'
    <3>1. q \in Present(wish) /\ q \in Props /\ seq = srvSeq /\ desired \in [Props -> Values]
      BY <2>3, <2>6 DEF Present, TypeInv, TypeOK
    <3>2. CASE q = p
      BY <2>1, <2>3, <2>4, <3>1, <3>2 DEF WishInv, TodoInv, Processing, In
    <3>3. CASE q # p
      <4>1. desired[q] = wish[q] \/ Top.todo[q] = wish[q]
        BY <2>4, <2>6, <3>1, <3>3 DEF WishInv, BitInv, Expected
      <4> QED
        BY <2>2, <2>3, <2>4, <3>1, <3>3, <4>1 DEF Expected, Processing, In
    <3> QED
      BY <3>2, <3>3
  <2>7. BitInv'
    BY <2>6 DEF BitInv
  <2>8. MetInv'
    BY <2>3 DEF WishInv, MetInv, Fulfilled
  <2> QED
    BY <2>3, <2>5, <2>7, <2>8, DeviceStep DEF WishInv, SeqInv
<1>7. ASSUME NEW ok \in BOOLEAN, NEW wrote \in BOOLEAN, ControlReturns(ok, wrote) PROVE WishInv'
  <2> DEFINE p == Top.prop
             rest == [Top.todo EXCEPT ![p] = None]
  <2>1. stack # <<>> /\ Top.fn = "control" /\ Top.todo \in Data /\ Processing
    BY <1>0, <1>7 DEF ControlReturns, In, Frames, Processing
  <2>2. rest \in Data
    BY <2>1 DEF Data
  <2>3. Top'.fn = "sync" /\ Top'.todo = rest /\ Top'.prop = 0 /\ stack' # <<>>
    <3>1. Sync(rest) \in Frames /\ Sync(rest).fn = "sync" /\ Sync(rest).todo = rest /\ Sync(rest).prop = 0
      BY <2>2, FrameType
    <3>2. stack' = <<Sync(rest)>> \o Tail(stack)
      BY <1>7 DEF ControlReturns
    <3> HIDE DEF Sync, rest
    <3> QED
      BY <1>0, <2>1, <3>1, <3>2, StackStep DEF Top
  <2>4. UNCHANGED <<seq, wish, srvSeq, uplink, downlink, desired, desiredBits>>
    BY <1>7 DEF ControlReturns, server
  <2>5. \A q \in Props : rest[q] # None => rest[q] = Top.todo[q]
    BY <2>1 DEF Data
  <2>6. \A q \in Props : q # p => rest[q] = Top.todo[q]
    BY <2>1 DEF Data
  <2> HIDE DEF rest
  <2>7. TodoInv'
    BY <2>1, <2>3, <2>4, <2>5 DEF WishInv, TodoInv, Present
  <2>8. BitInv'
    BY <2>1, <2>3, <2>4, <2>6 DEF WishInv, BitInv, Expected, Processing, In, Present, Props
  <2>9. MetInv' /\ met \subseteq met'
    BY <1>7, <2>4 DEF ControlReturns, Becomes, MetInv, Fulfilled
  <2> QED
    BY <2>4, <2>7, <2>8, <2>9, DeviceStep DEF WishInv, SeqInv
<1>8. CASE SyncDone
  <2>1. stack # <<>> /\ Pack("report", TRUE) \in Frames /\ Pack("report", TRUE).fn = "pack"
    BY <1>8, FrameType DEF SyncDone, In, Kinds
  <2>2. ~Processing'
    BY <1>0, <1>8, <2>1, StackStep DEF SyncDone, Processing, In, Top
  <2>3. UNCHANGED <<local, seq, wish, srvSeq, uplink, downlink, desired, desiredBits, met>>
    BY <1>8 DEF SyncDone, server
  <2>4. BitInv' /\ TodoInv'
    BY <1>8, <2>2, <2>3 DEF SyncDone, WishInv, BitInv, TodoInv, Expected, Present
  <2>5. MetInv'
    BY <2>3 DEF WishInv, MetInv, Fulfilled
  <2> QED
    BY <2>3, <2>4, <2>5, DeviceStep DEF WishInv, SeqInv
<1>10. ASSUME NEW p \in Props, NEW v \in Values, AppChange(p, v) PROVE WishInv'
  <2>1. UNCHANGED <<seq, wish, srvSeq, uplink, downlink, desired, desiredBits, stack>>
    BY <1>10 DEF AppChange, server
  <2>2. MetInv' /\ met \subseteq met'
    BY <1>10, <2>1 DEF AppChange, Becomes, MetInv, Fulfilled
  <2>3. TodoInv' /\ BitInv'
    BY <2>1 DEF WishInv, TodoInv, BitInv, Expected, Processing, In, Top, Present
  <2> QED
    BY <2>1, <2>2, <2>3, DeviceStep DEF WishInv, SeqInv
<1>12. ASSUME NEW p \in Props, NEW v \in Values, Wish(p, v) PROVE WishInv'
  <2> DEFINE Controls == [seq : 0..MaxChanges, data : Data]
             doc == [seq |-> srvSeq', data |-> wish']
  <2>1. /\ wish' = [wish EXCEPT ![p] = v] /\ srvSeq' = srvSeq + 1 /\ srvSeq \in Nat /\ seq \in Nat
        /\ met' = IF local[p] = v THEN met \cup {p} ELSE met \ {p}
        /\ UNCHANGED <<device, uplink>>
    BY <1>12 DEF Wish, TypeInv, TypeOK
  <2>2. downlink \in Seq(Controls) /\ downlink' = Append(downlink, doc)
    BY <1>12 DEF Wish, TypeInv, TypeOK
  <2>3. \A i \in DOMAIN downlink' : downlink'[i] = doc \/ \E j \in DOMAIN downlink : downlink'[i] = downlink[j]
    <3>1. doc \in Controls
      BY <1>12, TypeStep DEF TypeInv, TypeOK, Next, Wish, vars
    <3> HIDE DEF Controls, doc
    <3> QED
      BY <2>2, <3>1, AppendType
  <2>4. /\ seq <= srvSeq' /\ seq # srvSeq'
        /\ \A i \in DOMAIN uplink : uplink[i].seq <= srvSeq' /\ uplink[i].seq # srvSeq'
    <3>1. \A i \in DOMAIN uplink : uplink[i].seq \in Nat
      <4>1. \A i \in DOMAIN uplink : uplink[i] \in Documents
        BY DEF TypeInv, TypeOK
      <4> QED
        BY <4>1 DEF Documents
    <3> QED
      BY <2>1, <3>1 DEF WishInv, SeqInv
  <2>5. SeqInv'
    <3>1. seq' <= srvSeq' /\ srvSeq' >= 1 /\ \A i \in DOMAIN uplink' : uplink'[i].seq <= srvSeq'
      BY <2>1, <2>4 DEF WishInv, SeqInv, device
    <3>2. \A i \in DOMAIN downlink : downlink[i].seq \in 1..srvSeq
      BY DEF WishInv, SeqInv
    <3>3. \A i \in DOMAIN downlink' : downlink'[i].seq \in 1..srvSeq'
      BY <2>1, <2>3, <3>2
    <3> QED
      BY <3>1, <3>3 DEF SeqInv
  <2>6. MetInv'
    BY <2>1 DEF WishInv, MetInv, Fulfilled, device, TypeInv, TypeOK, Data
  <2>7. OrderInv'
    <3>1. \A i \in DOMAIN downlink : downlink[i].seq # srvSeq'
      BY <2>1 DEF WishInv, SeqInv
    <3>2. \A i \in DOMAIN downlink' : downlink'[i].seq = srvSeq' => downlink'[i].data = wish'
      BY <2>3, <3>1
    <3> QED
      BY <3>2 DEF OrderInv
  <2>8. TodoInv' /\ BitInv' /\ ConfirmInv'
    BY <2>1, <2>4 DEF TodoInv, BitInv, ConfirmInv, device
  <2> QED
    BY <2>5, <2>6, <2>7, <2>8 DEF WishInv
<1>13. CASE ServerReceives
  <2> DEFINE Controls == [seq : 0..MaxChanges, data : Data]
             doc == [seq |-> srvSeq, data |-> wish]
  <2>1. UNCHANGED <<device, srvSeq, met>>
    BY <1>13 DEF ServerReceives
  <2>2. wish \in Data /\ \A p \in Props : wish'[p] = wish[p] \/ wish'[p] = None
    BY <1>13 DEF ServerReceives, TypeInv, TypeOK
  <2>3. \A p \in Present(wish)' : p \in Present(wish) /\ wish'[p] = wish[p]
    BY <2>2 DEF Present
  <2>4. \A i \in DOMAIN uplink' : \E j \in DOMAIN uplink : uplink'[i] = uplink[j]
    BY <1>13, TailType DEF ServerReceives, TypeInv, TypeOK
  <2>5. \A i \in DOMAIN downlink' : \/ downlink'[i] = doc /\ Present(wish) # {}
                                    \/ \E j \in DOMAIN downlink : downlink'[i] = downlink[j]
    <3>1. doc \in Controls /\ downlink \in Seq(Controls)
      BY DEF TypeInv, TypeOK
    <3>2. downlink' = downlink \/ (downlink' = Append(downlink, doc) /\ Present(wish) # {})
      BY <1>13 DEF ServerReceives
    <3> HIDE DEF Controls, doc
    <3> QED
      BY <3>1, <3>2, AppendType
  <2>6. SeqInv'
    <3>1. srvSeq \in Nat
      BY DEF TypeInv, TypeOK
    <3> QED
      BY <2>1, <2>3, <2>4, <2>5, <3>1 DEF WishInv, SeqInv, device
  <2>7. MetInv'
    BY <2>1, <2>2, ValuesAssumption DEF WishInv, MetInv, Fulfilled, device, TypeInv, TypeOK
  <2>8. OrderInv'
    BY <2>1, <2>3, <2>5 DEF WishInv, OrderInv
  <2>9. TodoInv' /\ BitInv'
    BY <2>1, <2>3 DEF WishInv, TodoInv, BitInv, Expected, Processing, In, Top, device
  <2>10. ConfirmInv'
    BY <2>1, <2>3, <2>4 DEF WishInv, ConfirmInv
  <2> QED
    BY <2>6, <2>7, <2>8, <2>9, <2>10 DEF WishInv
<1>14. CASE UNCHANGED vars
  BY <1>14 DEF vars, device, server, WishInv, SeqInv, MetInv, OrderInv, TodoInv, BitInv,
               ConfirmInv, Expected, Processing, In, Top, Present, Fulfilled
<1> QED
  BY <1>1, <1>2, <1>3, <1>5, <1>6, <1>7, <1>8, <1>10, <1>12, <1>13, <1>14 DEF Next

-----------------------------------------------------------------------------
(* ShadowProperty implements Wishes.                                       *)

\* A confirmation that counts takes back wishes that were met.
LEMMA ClearedWereMet ==
  ASSUME TypeInv, WishInv, uplink # <<>>
  PROVE  Confirmed(Head(uplink)) \subseteq met
<1>1. uplink \in Seq(Documents) /\ 1 \in DOMAIN uplink /\ Head(uplink) = uplink[1]
  BY TailType DEF TypeInv, TypeOK
<1> QED
  BY <1>1 DEF Confirmed, WishInv, ConfirmInv, Present

LEMMA RefinementInit == Init => Abstract!Init
<1> SUFFICES ASSUME Init PROVE Abstract!Init
  OBVIOUS
<1>1. local \in [Props -> Values] /\ wish \in Data
  BY ValuesAssumption DEF Init
<1> QED
  BY <1>1 DEF Init, Fulfilled, Data, Abstract!Init, Abstract!Fulfilled

LEMMA RefinementStep ==
  ASSUME TypeInv, TypeInv', WishInv, [Next]_vars
  PROVE  [Abstract!Next]_(Abstract!vars)
<1> USE DEF Abstract!vars
<1>1. ASSUME UNCHANGED <<local, wish, met>> PROVE [Abstract!Next]_(Abstract!vars)
  BY <1>1
<1>2. ASSUME NEW data, Becomes(data), UNCHANGED wish PROVE [Abstract!Next]_(Abstract!vars)
  <2>1. local' \in [Props -> Values]
    BY DEF TypeInv, TypeOK
  <2> QED
    BY <1>2, <2>1 DEF Becomes, Fulfilled, Abstract!Next, Abstract!Change, Abstract!Fulfilled
<1>3. ASSUME NEW ok \in BOOLEAN, NEW wrote \in BOOLEAN, ControlReturns(ok, wrote)
      PROVE  [Abstract!Next]_(Abstract!vars)
  BY <1>2, <1>3 DEF ControlReturns, server
<1>4. ASSUME NEW p \in Props, NEW v \in Values, AppChange(p, v) PROVE [Abstract!Next]_(Abstract!vars)
  BY <1>2, <1>4 DEF AppChange, server
<1>5. ASSUME NEW p \in Props, NEW v \in Values, Wish(p, v) PROVE [Abstract!Next]_(Abstract!vars)
  BY <1>5 DEF Wish, device, Abstract!Next, Abstract!Make
<1>6. CASE ServerReceives
  <2> DEFINE props == Confirmed(Head(uplink))
  <2>1. props \subseteq met /\ props \in SUBSET Props
    BY <1>6, ClearedWereMet DEF ServerReceives, Confirmed, Present
  <2>2. wish' = [p \in Props |-> IF p \in props THEN None ELSE wish[p]] /\ UNCHANGED <<local, met>>
    BY <1>6 DEF ServerReceives, device
  <2>3. Abstract!Clear(props)
    BY <2>1, <2>2 DEF Abstract!Clear
  <2> QED
    BY <2>1, <2>3 DEF Abstract!Next
<1>7. CASE PackReport \/ PackConfirm \/ PackRefused \/ (\E ok \in BOOLEAN : PublishReturns(ok))
  BY <1>1, <1>7 DEF PackReport, PackConfirm, PackRefused, PublishReturns, server
<1>8. CASE (\E i \in 1..Window : Receive(i)) \/ (\E p \in Props : ControlBegins(p)) \/ SyncDone
  BY <1>1, <1>8 DEF Receive, ControlBegins, SyncDone, server
<1>9. CASE PublishGet \/ (\E confirms \in BOOLEAN : AppReports(confirms)) \/ UNCHANGED vars
  BY <1>1, <1>9 DEF PublishGet, AppReports, vars, device, server
<1> QED
  BY <1>3, <1>4, <1>5, <1>6, <1>7, <1>8, <1>9 DEF Next

\* The server takes a wish back only after the device has had the value wished for, whatever
\* is refused, reordered, nested or lost, as long as every property can be stored.
THEOREM WishesImplemented == ASSUME Unstorable = {} PROVE Spec => ImplementsWishes
<1> DEFINE Inv == TypeInv /\ WishInv
<1>1. Init => Inv /\ Abstract!Init
  BY TypeInit, WishInit, RefinementInit
<1>2. Inv /\ [Next]_vars => Inv'
  BY Unstorable = {}, TypeStep, WishStep
<1>3. Inv /\ Inv' /\ [Next]_vars => [Abstract!Next]_(Abstract!vars)
  BY RefinementStep
<1> HIDE DEF Inv
<1> QED
  BY <1>1, <1>2, <1>3, PTL DEF Spec, ImplementsWishes, Abstract!Spec

-----------------------------------------------------------------------------
(* What the server knows of the properties that were reported.             *)

Reports(i, p) == uplink[i].kind = "report" /\ uplink[i].data[p] # None

\* The server has the reported copy, or will have it when what is under way has arrived.
Told(p) ==
  /\ \A i \in DOMAIN uplink :
       Reports(i, p) /\ (\A j \in DOMAIN uplink : j > i => ~Reports(j, p))
         => uplink[i].data[p] = reported[p]
  /\ (\A i \in DOMAIN uplink : ~Reports(i, p)) => view[p] = reported[p]

ReportInv == \A p \in reportedBits : <<"report", p>> \in lost \/ Told(p)

\* A document that does not report a property says nothing of it.
LEMMA AppendKeeps ==
  ASSUME TypeOK, NEW p \in Props, Told(p), NEW doc \in Documents,
         doc.kind # "report" \/ doc.data[p] = None,
         uplink' = uplink \/ uplink' = Append(uplink, doc),
         reported'[p] = reported[p], view'[p] = view[p]
  PROVE  Told(p)'
<1>1. uplink \in Seq(Documents)
  BY DEF TypeOK
<1>2. CASE uplink' = uplink
  BY <1>2 DEF Told, Reports
<1>3. CASE uplink' = Append(uplink, doc)
  <2>1. /\ DOMAIN uplink' = 1..(Len(uplink) + 1) /\ DOMAIN uplink = 1..Len(uplink) /\ Len(uplink) \in Nat
        /\ uplink'[Len(uplink) + 1] = doc /\ \A i \in DOMAIN uplink : uplink'[i] = uplink[i]
    BY <1>1, <1>3, AppendType
  <2>2. PICK last \in Nat : last = Len(uplink) + 1
    BY <2>1
  <2>3. ~Reports(last, p)' /\ \A i \in DOMAIN uplink : Reports(i, p)' = Reports(i, p)
    BY <2>1, <2>2 DEF Reports
  <2>4. ASSUME NEW i \in DOMAIN uplink', Reports(i, p)',
               \A j \in DOMAIN uplink' : j > i => ~Reports(j, p)'
        PROVE  uplink'[i].data[p] = reported'[p]
    <3>1. i # last
      BY <2>3, <2>4
    <3>2. i \in DOMAIN uplink
      BY <2>1, <2>2, <3>1
    <3>3. \A j \in DOMAIN uplink : j \in DOMAIN uplink'
      BY <2>1
    <3>4. Reports(i, p) /\ \A j \in DOMAIN uplink : j > i => ~Reports(j, p)
      BY <2>3, <2>4, <3>2, <3>3
    <3> QED
      BY <2>1, <3>2, <3>4 DEF Told
  <2>5. (\A i \in DOMAIN uplink' : ~Reports(i, p)') => view'[p] = reported'[p]
    <3>1. \A j \in DOMAIN uplink : j \in DOMAIN uplink'
      BY <2>1
    <3> QED
      BY <2>3, <3>1 DEF Told
  <2> QED
    BY <2>4, <2>5 DEF Told
<1> QED
  BY <1>2, <1>3

\* A document that reports a property as it is now known to be is the last one to do so.
LEMMA AppendTells ==
  ASSUME TypeOK, NEW p \in Props, NEW doc \in Documents, doc.kind = "report",
         doc.data[p] # None, doc.data[p] = reported'[p], uplink' = Append(uplink, doc)
  PROVE  Told(p)'
<1>1. uplink \in Seq(Documents)
  BY DEF TypeOK
<1>2. /\ DOMAIN uplink' = 1..(Len(uplink) + 1) /\ Len(uplink) \in Nat
      /\ uplink'[Len(uplink) + 1] = doc
  BY <1>1, AppendType
<1>3. PICK last \in Nat : last = Len(uplink) + 1
  BY <1>2
<1>4. last \in DOMAIN uplink' /\ Reports(last, p)'
  BY <1>2, <1>3 DEF Reports
<1>5. ASSUME NEW i \in DOMAIN uplink', \A j \in DOMAIN uplink' : j > i => ~Reports(j, p)'
      PROVE  uplink'[i].data[p] = reported'[p]
  <2>1. ~(last > i)
    BY <1>4, <1>5
  <2>2. i = last
    BY <1>2, <1>3, <2>1
  <2> QED
    BY <1>2, <1>3, <2>2
<1> QED
  BY <1>4, <1>5 DEF Told

\* The server takes the first document.
LEMMA ArrivalTells ==
  ASSUME TypeOK, NEW p \in Props, Told(p), ServerReceives
  PROVE  Told(p)'
<1> DEFINE doc == Head(uplink)
<1>1. uplink \in Seq(Documents) /\ uplink # <<>> /\ uplink' = Tail(uplink) /\ reported' = reported
  BY DEF TypeOK, ServerReceives, device
<1>2. doc = uplink[1] /\ 1 \in DOMAIN uplink
  BY <1>1, TailType
<1>3. \A i \in DOMAIN uplink' : i + 1 \in DOMAIN uplink /\ uplink'[i] = uplink[i + 1]
  BY <1>1, TailType
<1>4. \A i \in DOMAIN uplink : i # 1 => i - 1 \in DOMAIN uplink' /\ uplink'[i - 1] = uplink[i]
  BY <1>1, TailType
<1>5. DOMAIN uplink \subseteq Nat /\ DOMAIN uplink' \subseteq Nat
  BY <1>1
<1>6. \A i \in DOMAIN uplink' : Reports(i, p)' = Reports(i + 1, p)
  BY <1>3 DEF Reports
<1>7. view'[p] = IF Reports(1, p) THEN uplink[1].data[p] ELSE view[p]
  BY <1>2 DEF ServerReceives, Reports
<1>8. ASSUME NEW i \in DOMAIN uplink', Reports(i, p)',
             \A j \in DOMAIN uplink' : j > i => ~Reports(j, p)'
      PROVE  uplink'[i].data[p] = reported'[p]
  <2>1. i + 1 \in DOMAIN uplink /\ Reports(i + 1, p)
    BY <1>3, <1>6, <1>8
  <2>2. ASSUME NEW j \in DOMAIN uplink, j > i + 1 PROVE ~Reports(j, p)
    <3>1. j # 1 /\ j - 1 > i /\ (j - 1) + 1 = j
      BY <1>5, <2>2
    <3>2. j - 1 \in DOMAIN uplink'
      BY <1>4, <3>1
    <3>3. ~Reports(j - 1, p)'
      BY <1>8, <3>1, <3>2
    <3> QED
      BY <1>6, <3>1, <3>2, <3>3
  <2>3. uplink[i + 1].data[p] = reported[p]
    BY <2>1, <2>2 DEF Told
  <2> QED
    BY <1>1, <1>3, <2>3
<1>9. ASSUME \A i \in DOMAIN uplink' : ~Reports(i, p)' PROVE view'[p] = reported'[p]
  <2>1. ASSUME NEW j \in DOMAIN uplink, j # 1 PROVE ~Reports(j, p)
    <3>1. j - 1 \in DOMAIN uplink' /\ (j - 1) + 1 = j
      BY <1>4, <1>5, <2>1
    <3> QED
      BY <1>6, <1>9, <3>1
  <2>2. CASE Reports(1, p)
    <3>1. uplink[1].data[p] = reported[p]
      <4>1. \A j \in DOMAIN uplink : j > 1 => ~Reports(j, p)
        BY <1>5, <2>1
      <4> QED
        BY <1>2, <2>2, <4>1 DEF Told
    <3> QED
      BY <1>1, <1>7, <2>2, <3>1
  <2>3. CASE ~Reports(1, p)
    <3>1. \A j \in DOMAIN uplink : ~Reports(j, p)
      BY <2>1, <2>3
    <3> QED
      BY <1>1, <1>7, <2>3, <3>1 DEF Told
  <2> QED
    BY <2>2, <2>3
<1> QED
  BY <1>8, <1>9 DEF Told

\* What was written was reached.
LEMMA WrittenWasReached ==
  ASSUME NEW props \in SUBSET Props, NEW room \in Rooms
  PROVE  Written(props, room) \subseteq Reached(props, room)
<1>1. ASSUME NEW p \in props PROVE Cardinality({q \in props : q <= p}) \in Nat
  <2>1. IsFiniteSet(Props)
    BY PropsAssumption, FS_Interval DEF Props
  <2>2. IsFiniteSet({q \in props : q <= p})
    BY <2>1, FS_Subset
  <2> QED
    BY <2>2, FS_CardinalityType
<1>2. room \in Nat
  BY RoomsAssumption
<1> QED
  BY <1>1, <1>2 DEF Written, Reached

LEMMA ReportInit == Init => ReportInv
  BY DEF Init, ReportInv

\* Steps that leave the copies and bits of reports alone, and send no report.
LEMMA OtherDocument ==
  ASSUME TypeInv, ReportInv, UNCHANGED <<reported, reportedBits, view>>,
         NEW doc \in Documents, doc.kind # "report", uplink' = uplink \/ uplink' = Append(uplink, doc),
         \A p \in Props : <<"report", p>> \in lost => <<"report", p>> \in lost'
  PROVE  ReportInv'
<1>1. TypeOK /\ reportedBits \subseteq Props
  BY DEF TypeInv, TypeOK
<1>2. ASSUME NEW p \in reportedBits PROVE <<"report", p>> \in lost' \/ Told(p)'
  <2>1. CASE <<"report", p>> \in lost
    BY <1>1, <2>1
  <2>2. CASE Told(p)
    BY <1>1, <2>2, AppendKeeps
  <2> QED
    BY <2>1, <2>2 DEF ReportInv
<1> QED
  BY <1>2 DEF ReportInv

\* Documents are sent or lost with what they report; copies and bits follow.
LEMMA PackReportStep ==
  ASSUME Unstorable = {}, TypeInv, ReportInv, PackReport
  PROVE  ReportInv'
<1> DEFINE data == [p \in Props |-> IF p \in ToReport THEN local[p] ELSE None]
           doc == [kind |-> "report", seq |-> seq, data |-> data]
<1>1. PICK room \in Rooms :
        /\ Emits("report", ToReport, room, data)
        /\ reported' = [p \in Props |->
             IF p \in Reached(ToReport, room) \ Unstorable THEN local[p] ELSE reported[p]]
        /\ reportedBits' = reportedBits \cup Written(ToReport, room)
  BY DEF PackReport
<1>2. TypeOK /\ data \in Data /\ ToReport \in SUBSET Props /\ view' = view
  BY PackType DEF TypeInv, PackReport, server
<1>3. doc \in Documents
  BY <1>2 DEF TypeOK, Documents, Kinds
<1>4. \A p \in Props : p \in ToReport => data[p] = local[p] /\ data[p] # None
  BY <1>2, ValuesAssumption DEF TypeOK
<1>5. \A p \in Props : p \notin ToReport => data[p] = None
  OBVIOUS
<1> HIDE DEF data
<1>6. Written(ToReport, room) \subseteq Reached(ToReport, room) /\ Reached(ToReport, room) \subseteq ToReport
  BY <1>2, WrittenWasReached DEF Reached
<1>7. ASSUME NEW p \in reportedBits' PROVE <<"report", p>> \in lost' \/ Told(p)'
  <2>1. p \in Props /\ (p \in reportedBits \/ p \in Written(ToReport, room))
    BY <1>1, <1>2, <1>6, <1>7 DEF TypeOK
  <2>2. CASE Written(ToReport, room) # ToReport
    <3>1. GivesUp("report", Reached(ToReport, room))
      BY <1>1, <1>2, <2>2 DEF Emits, Written
    <3>2. lost' = lost \cup ({"report"} \X Reached(ToReport, room)) /\ uplink' = uplink
      BY <3>1 DEF GivesUp
    <3>3. CASE p \in Reached(ToReport, room)
      BY <3>2, <3>3
    <3>4. CASE p \notin Reached(ToReport, room)
      <4>1. p \in reportedBits /\ reported'[p] = reported[p]
        BY <1>1, <1>6, <2>1, <3>4
      <4>2. Told(p) => Told(p)'
        BY <3>2, <4>1, <1>2 DEF Told, Reports
      <4> QED
        BY <3>2, <4>1, <4>2 DEF ReportInv
    <3> QED
      BY <3>3, <3>4
  <2>3. CASE ToReport = {}
    <3>1. uplink' = uplink /\ lost' = lost
      BY <1>1, <2>3 DEF Emits, Skips
    <3>2. p \in reportedBits /\ reported'[p] = reported[p]
      BY <1>1, <1>6, <2>1, <2>3
    <3>3. Told(p) => Told(p)'
      BY <1>2, <3>1, <3>2 DEF Told, Reports
    <3> QED
      BY <3>1, <3>2, <3>3 DEF ReportInv
  <2>4. CASE ToReport # {} /\ Written(ToReport, room) = ToReport
    <3>1. Publish("report", data, Top.confirms)
      BY <1>1, <2>4 DEF Emits
    <3>2. CASE uplink' = Append(uplink, doc) /\ lost' = lost \ ({"report"} \X Present(data))
      <4>1. CASE p \in ToReport
        <5>1. reported'[p] = local[p]
          BY <1>1, <1>6, <2>1, <2>4, <4>1
        <5> QED
          BY <1>2, <1>3, <1>4, <2>1, <3>2, <4>1, <5>1, AppendTells
      <4>2. CASE p \notin ToReport
        <5>1. p \in reportedBits /\ reported'[p] = reported[p] /\ p \notin Present(data)
          BY <1>1, <1>5, <1>6, <2>1, <4>2 DEF Present
        <5>2. Told(p) => Told(p)'
          BY <1>2, <1>3, <1>5, <2>1, <3>2, <4>2, <5>1, AppendKeeps
        <5> QED
          BY <3>2, <5>1, <5>2 DEF ReportInv
      <4> QED
        BY <4>1, <4>2
    <3>3. CASE uplink' = uplink /\ lost' = lost \cup ({"report"} \X Present(data))
      <4>1. CASE p \in ToReport
        BY <1>4, <2>1, <3>3, <4>1 DEF Present
      <4>2. CASE p \notin ToReport
        <5>1. p \in reportedBits /\ reported'[p] = reported[p]
          BY <1>1, <1>6, <2>1, <4>2
        <5>2. Told(p) => Told(p)'
          BY <1>2, <3>3, <5>1 DEF Told, Reports
        <5> QED
          BY <3>3, <5>1, <5>2 DEF ReportInv
      <4> QED
        BY <4>1, <4>2
    <3> QED
      BY <3>1, <3>2, <3>3 DEF Publish
  <2> QED
    BY <2>2, <2>3, <2>4
<1> QED
  BY <1>7 DEF ReportInv

LEMMA ReportStep ==
  ASSUME Unstorable = {}, TypeInv, ReportInv, [Next]_vars
  PROVE  ReportInv'
<1>0. TypeOK
  BY DEF TypeInv
<1>1. CASE PackReport
  BY <1>1, Unstorable = {}, PackReportStep
<1>2. CASE PackConfirm
  <2> DEFINE data == [p \in Props |-> IF p \in ToConfirm THEN desired[p] ELSE None]
             doc == [kind |-> "confirm", seq |-> seq, data |-> data]
  <2>1. data \in Data
    BY <1>0, PackType
  <2>2. doc \in Documents
    BY <1>0, <2>1 DEF TypeOK, Documents, Kinds
  <2> HIDE DEF data
  <2>3. PICK room \in Rooms : Emits("confirm", ToConfirm, room, data)
    BY <1>2 DEF PackConfirm, data
  <2>4. /\ uplink' = uplink \/ uplink' = Append(uplink, doc)
        /\ \A p \in Props : <<"report", p>> \in lost => <<"report", p>> \in lost'
    BY <2>3 DEF Emits, Skips, GivesUp, Publish
  <2> QED
    BY <1>2, <2>2, <2>4, OtherDocument DEF PackConfirm, server
<1>3. CASE \/ PackRefused \/ SyncDone \/ (\E ok \in BOOLEAN : PublishReturns(ok))
           \/ (\E i \in 1..Window : Receive(i)) \/ (\E p \in Props : ControlBegins(p))
           \/ (\E ok, wrote \in BOOLEAN : ControlReturns(ok, wrote))
           \/ (\E p \in Props, v \in Values : AppChange(p, v))
           \/ (\E confirms \in BOOLEAN : AppReports(confirms))
           \/ (\E p \in Props, v \in Values : Wish(p, v)) \/ UNCHANGED vars
  <2>1. UNCHANGED <<reported, reportedBits, view, uplink, lost>>
    BY <1>3 DEF PackRefused, SyncDone, PublishReturns, Receive, ControlBegins, ControlReturns,
                AppChange, AppReports, Wish, vars, device, server
  <2>2. ASSUME NEW p, Told(p) PROVE Told(p)'
    BY <2>1, <2>2 DEF Told, Reports
  <2> QED
    BY <2>1, <2>2 DEF ReportInv
<1>4. CASE PublishGet
  <2> DEFINE doc == [kind |-> "get", seq |-> seq, data |-> NoData]
  <2>1. doc \in Documents
    BY <1>0, FrameType DEF TypeOK, Documents, Kinds
  <2>2. /\ uplink' = uplink \/ uplink' = Append(uplink, doc)
        /\ \A p \in Props : <<"report", p>> \in lost => <<"report", p>> \in lost'
        /\ UNCHANGED <<reported, reportedBits, view>>
    BY <1>4 DEF PublishGet, Publish, server
  <2> QED
    BY <2>1, <2>2, OtherDocument
<1>5. CASE ServerReceives
  <2>1. UNCHANGED <<reportedBits, lost>> /\ reportedBits \subseteq Props
    BY <1>0, <1>5 DEF ServerReceives, device, TypeOK
  <2>2. \A p \in Props : Told(p) => Told(p)'
    BY <1>0, <1>5, ArrivalTells
  <2> QED
    BY <2>1, <2>2 DEF ReportInv
<1> QED
  BY <1>1, <1>2, <1>3, <1>4, <1>5 DEF Next

\* A property that will not be reported again is known to the server as it is, or will be
\* when what is under way arrives, unless the document it was packed into was lost, as long
\* as every property can be stored.
THEOREM ReportsKept == ASSUME Unstorable = {} PROVE Spec => []LostOrReported
<1> DEFINE Inv == TypeInv /\ ReportInv
<1>1. Init => Inv
  BY TypeInit, ReportInit
<1>2. Inv /\ [Next]_vars => Inv'
  BY Unstorable = {}, TypeStep, ReportStep
<1>3. Inv => LostOrReported
  <2> SUFFICES ASSUME Inv, NEW p \in Props, p \notin ToReport, ~Reporting(p), view[p] # local[p]
               PROVE  <<"report", p>> \in lost
    BY DEF LostOrReported
  <2>1. p \in reportedBits /\ reported[p] = local[p]
    BY DEF ToReport
  <2>2. ~Told(p)
    BY <2>1 DEF Told, Reports, Reporting
  <2> QED
    BY <2>1, <2>2 DEF ReportInv
<1> HIDE DEF Inv
<1> QED
  BY <1>1, <1>2, <1>3, PTL DEF Spec

-----------------------------------------------------------------------------
(* What the device still has to confirm.                                   *)

\* The numbers and orders of the documents need no value of the device.
LEMMA NumberStep ==
  ASSUME TypeInv, SeqInv, OrderInv, [Next]_vars
  PROVE  SeqInv' /\ OrderInv'
<1> DEFINE Controls == [seq : 0..MaxChanges, data : Data]
<1>0. /\ downlink \in Seq(Controls) /\ uplink \in Seq(Documents) /\ wish \in Data
      /\ srvSeq \in Nat /\ seq \in Nat
  BY DEF TypeInv, TypeOK
<1>a. \A doc \in Controls : downlink' = Append(downlink, doc)
        => \A i \in DOMAIN downlink' : downlink'[i] = doc \/ \E j \in DOMAIN downlink : downlink'[i] = downlink[j]
  <2> HIDE DEF Controls
  <2> QED
    BY <1>0, AppendType
<1>b. \A doc \in Documents : uplink' = Append(uplink, doc)
        => \A i \in DOMAIN uplink' : uplink'[i] = doc \/ \E j \in DOMAIN uplink : uplink'[i] = uplink[j]
  BY <1>0, AppendType
<1>1. ASSUME NEW doc \in Documents, doc.seq = seq, uplink' = uplink \/ uplink' = Append(uplink, doc),
             UNCHANGED <<seq, wish, srvSeq, downlink>>
      PROVE  SeqInv' /\ OrderInv'
  BY <1>1, <1>b DEF SeqInv, OrderInv, Present
<1>2. CASE PackReport
  <2> DEFINE data == [p \in Props |-> IF p \in ToReport THEN local[p] ELSE None]
             doc == [kind |-> "report", seq |-> seq, data |-> data]
  <2>1. data \in Data
    BY PackType DEF TypeInv
  <2>2. doc \in Documents
    BY <2>1 DEF TypeInv, TypeOK, Documents, Kinds
  <2> HIDE DEF data
  <2>3. PICK room \in Rooms : Emits("report", ToReport, room, data)
    BY <1>2 DEF PackReport, data
  <2>4. uplink' = uplink \/ uplink' = Append(uplink, doc)
    BY <2>3 DEF Emits, Skips, GivesUp, Publish
  <2> QED
    BY <1>1, <1>2, <2>2, <2>4 DEF PackReport, server
<1>3. CASE PackConfirm
  <2> DEFINE data == [p \in Props |-> IF p \in ToConfirm THEN desired[p] ELSE None]
             doc == [kind |-> "confirm", seq |-> seq, data |-> data]
  <2>1. data \in Data
    BY PackType DEF TypeInv
  <2>2. doc \in Documents
    BY <2>1 DEF TypeInv, TypeOK, Documents, Kinds
  <2> HIDE DEF data
  <2>3. PICK room \in Rooms : Emits("confirm", ToConfirm, room, data)
    BY <1>3 DEF PackConfirm, data
  <2>4. uplink' = uplink \/ uplink' = Append(uplink, doc)
    BY <2>3 DEF Emits, Skips, GivesUp, Publish
  <2> QED
    BY <1>1, <1>3, <2>2, <2>4 DEF PackConfirm, server
<1>4. CASE PublishGet
  <2> DEFINE doc == [kind |-> "get", seq |-> seq, data |-> NoData]
  <2>1. doc \in Documents
    BY FrameType DEF TypeInv, TypeOK, Documents, Kinds
  <2> QED
    BY <1>1, <1>4, <2>1 DEF PublishGet, Publish, server
<1>5. CASE \/ PackRefused \/ SyncDone \/ (\E ok \in BOOLEAN : PublishReturns(ok))
           \/ (\E p \in Props : ControlBegins(p))
           \/ (\E ok, wrote \in BOOLEAN : ControlReturns(ok, wrote))
           \/ (\E p \in Props, v \in Values : AppChange(p, v))
           \/ (\E confirms \in BOOLEAN : AppReports(confirms)) \/ UNCHANGED vars
  <2>1. UNCHANGED <<seq, wish, srvSeq, uplink, downlink>>
    BY <1>5 DEF PackRefused, SyncDone, PublishReturns, ControlBegins, ControlReturns,
                AppChange, AppReports, vars, device, server
  <2> QED
    BY <2>1 DEF SeqInv, OrderInv, Present
<1>6. ASSUME NEW i \in 1..Window, Receive(i) PROVE SeqInv' /\ OrderInv'
  <2>1. \A j \in DOMAIN downlink' : \E k \in DOMAIN downlink : downlink'[j] = downlink[k]
    <3>1. downlink' = Without(downlink, i) /\ i \in DOMAIN downlink
      BY <1>6 DEF Receive, Without
    <3> HIDE DEF Controls
    <3> QED
      BY <1>0, <3>1, RemovalType
  <2>2. seq' <= srvSeq
    BY <1>6 DEF Receive, SeqAfter, SeqInv
  <2>3. UNCHANGED <<wish, srvSeq, uplink>>
    BY <1>6 DEF Receive, server
  <2>4. SeqInv'
    BY <2>1, <2>2, <2>3 DEF SeqInv, Present
  <2>5. OrderInv'
    BY <2>1, <2>3 DEF OrderInv, Present
  <2> QED
    BY <2>4, <2>5
<1>7. ASSUME NEW p \in Props, NEW v \in Values, Wish(p, v) PROVE SeqInv' /\ OrderInv'
  <2> DEFINE doc == [seq |-> srvSeq', data |-> wish']
  <2>1. doc \in Controls
    BY <1>7, TypeStep DEF TypeInv, TypeOK, Next, Wish, vars
  <2>2. srvSeq' = srvSeq + 1 /\ UNCHANGED <<seq, uplink>> /\ downlink' = Append(downlink, doc)
    BY <1>7 DEF Wish, device
  <2>3. \A i \in DOMAIN downlink' : downlink'[i] = doc \/ \E j \in DOMAIN downlink : downlink'[i] = downlink[j]
    <3> HIDE DEF Controls, doc
    <3> QED
      BY <1>a, <2>1, <2>2
  <2>4. \A i \in DOMAIN downlink : downlink[i].seq \in 1..srvSeq
    BY DEF SeqInv
  <2>5. \A i \in DOMAIN uplink : uplink[i].seq \in Nat
    <3>1. \A i \in DOMAIN uplink : uplink[i] \in Documents
      BY <1>0
    <3> QED
      BY <3>1 DEF Documents
  <2>6. SeqInv'
    <3>1. \A i \in DOMAIN downlink' : downlink'[i].seq \in 1..srvSeq'
      BY <1>0, <2>2, <2>3, <2>4
    <3>2. seq' <= srvSeq' /\ srvSeq' >= 1 /\ \A i \in DOMAIN uplink' : uplink'[i].seq <= srvSeq'
      BY <1>0, <2>2, <2>5 DEF SeqInv
    <3> QED
      BY <3>1, <3>2 DEF SeqInv
  <2>7. \A i \in DOMAIN downlink' : downlink'[i].seq = srvSeq' => downlink'[i].data = wish'
    <3>1. \A i \in DOMAIN downlink : downlink[i].seq # srvSeq'
      BY <1>0, <2>2, <2>4
    <3> QED
      BY <2>3, <3>1
  <2> QED
    BY <2>6, <2>7 DEF OrderInv
<1>8. CASE ServerReceives
  <2> DEFINE doc == [seq |-> srvSeq, data |-> wish]
  <2>1. UNCHANGED <<seq, srvSeq>>
    BY <1>8 DEF ServerReceives, device
  <2>2. \A p \in Present(wish)' : p \in Present(wish) /\ wish'[p] = wish[p]
    BY <1>8 DEF ServerReceives, Present
  <2>3. \A i \in DOMAIN uplink' : \E j \in DOMAIN uplink : uplink'[i] = uplink[j]
    BY <1>0, <1>8, TailType DEF ServerReceives
  <2>4. \A i \in DOMAIN downlink' : \/ downlink'[i] = doc /\ Present(wish) # {}
                                    \/ \E j \in DOMAIN downlink : downlink'[i] = downlink[j]
    <3>1. doc \in Controls
      BY DEF TypeInv, TypeOK
    <3>2. downlink' = downlink \/ (downlink' = Append(downlink, doc) /\ Present(wish) # {})
      BY <1>8 DEF ServerReceives
    <3> HIDE DEF Controls, doc
    <3> QED
      BY <1>a, <3>1, <3>2
  <2>5. SeqInv'
    BY <1>0, <2>1, <2>2, <2>3, <2>4 DEF SeqInv
  <2>6. OrderInv'
    BY <2>1, <2>2, <2>4 DEF OrderInv
  <2> QED
    BY <2>5, <2>6
<1> QED
  BY <1>2, <1>3, <1>4, <1>5, <1>6, <1>7, <1>8 DEF Next

\* The instruction of the callback that runs has its bit.
BusyInv == In("control") => Top.prop \in desiredBits

\* What the device owes the server for a wish, once it knows it.
Owed(p) ==
  \/ p \in desiredBits \/ (Processing /\ Top.todo[p] # None)
  \/ Confirming(p) \/ <<"confirm", p>> \in lost

OweInv == seq = srvSeq => \A p \in Present(wish) : Owed(p)

KnownInv == SeqInv /\ OrderInv /\ BusyInv /\ OweInv

LEMMA OweInit == Init => KnownInv
<1> SUFFICES ASSUME Init PROVE KnownInv
  OBVIOUS
<1>1. WishInv
  BY WishInit
<1>2. Top.fn = "init"
  <2>1. Frame("init", "get", FALSE) \in Frames /\ Frame("init", "get", FALSE).fn = "init"
    BY FrameType DEF Kinds
  <2> HIDE DEF Frame
  <2> QED
    BY <2>1, OneFrame DEF Init, Top
<1>3. seq = srvSeq => Present(wish) = {}
  BY DEF Init, Present, NoData
<1> QED
  BY <1>1, <1>2, <1>3 DEF WishInv, KnownInv, BusyInv, OweInv, In

\* A document is sent, and nothing is processed: what it does not confirm stays owed.
LEMMA SendOwed ==
  ASSUME TypeInv, OweInv, ~Processing, UNCHANGED <<seq, wish, srvSeq>>,
         NEW doc \in Documents, uplink' = uplink \/ uplink' = Append(uplink, doc),
         \A p \in Props : seq = srvSeq /\ p \in desiredBits /\ p \notin desiredBits'
           => <<"confirm", p>> \in lost' \/ Confirming(p)',
         \A p \in Props : seq = srvSeq /\ <<"confirm", p>> \in lost
           => <<"confirm", p>> \in lost' \/ Confirming(p)'
  PROVE  OweInv'
<1>1. uplink \in Seq(Documents)
  BY DEF TypeInv, TypeOK
<1>2. \A i \in DOMAIN uplink : i \in DOMAIN uplink' /\ uplink'[i] = uplink[i]
  BY <1>1, AppendType
<1>3. \A p \in Props : Confirming(p) => Confirming(p)'
  BY <1>2 DEF Confirming
<1> QED
  BY <1>3 DEF OweInv, Owed, Present

LEMMA OweStep ==
  ASSUME TypeInv, KnownInv, [Next]_vars
  PROVE  KnownInv'
<1> USE DEF KnownInv
<1>0. stack \in Seq(Frames) /\ StackInv /\ (stack # <<>> => Top \in Frames)
  BY DEF TypeInv, TypeOK, Top
<1>s. SeqInv' /\ OrderInv'
  BY NumberStep
<1>1. CASE PackReport
  <2> DEFINE data == [p \in Props |-> IF p \in ToReport THEN local[p] ELSE None]
             doc == [kind |-> "report", seq |-> seq, data |-> data]
  <2>1. data \in Data /\ "report" \in Kinds
    BY PackType DEF TypeInv, Kinds
  <2>2. doc \in Documents
    BY <2>1 DEF TypeInv, TypeOK, Documents
  <2> HIDE DEF data
  <2>3. PICK room \in Rooms : Emits("report", ToReport, room, data)
    BY <1>1 DEF PackReport, data
  <2>4. /\ stack' # <<>> => Head(stack').fn \in Waiting \cup {"pack"}
        /\ uplink' = uplink \/ uplink' = Append(uplink, doc)
    BY <1>1, <2>1, <2>3, PackType, EmitsStep DEF PackReport, TypeInv
  <2>5. \A p \in Props : <<"confirm", p>> \in lost => <<"confirm", p>> \in lost'
    BY <2>3 DEF Emits, Skips, GivesUp, Publish
  <2>6. UNCHANGED <<seq, wish, srvSeq, desiredBits>> /\ ~Processing
    BY <1>1 DEF PackReport, server, Processing, In
  <2>7. BusyInv'
    BY <2>4 DEF BusyInv, In, Top, Waiting
  <2> QED
    BY <1>s, <2>2, <2>4, <2>5, <2>6, <2>7, SendOwed
<1>2. CASE PackConfirm
  <2> DEFINE data == [p \in Props |-> IF p \in ToConfirm THEN desired[p] ELSE None]
             doc == [kind |-> "confirm", seq |-> seq, data |-> data]
  <2>1. data \in Data /\ "confirm" \in Kinds
    BY PackType DEF TypeInv, Kinds
  <2>2. doc \in Documents
    BY <2>1 DEF TypeInv, TypeOK, Documents
  <2>3. Present(data) = ToConfirm
    BY ValuesAssumption, PackType DEF TypeInv, TypeOK, Present
  <2>4. \A p \in ToConfirm : data[p] # None
    BY <2>3 DEF Present
  <2> HIDE DEF data
  <2>5. PICK room \in Rooms : /\ Emits("confirm", ToConfirm, room, data)
                              /\ desiredBits' = desiredBits \ Written(ToConfirm, room)
    BY <1>2 DEF PackConfirm, data
  <2>6. /\ stack' # <<>> => Head(stack').fn \in Waiting \cup {"pack"}
        /\ uplink' = uplink \/ uplink' = Append(uplink, doc)
    BY <1>2, <2>1, <2>5, PackType, EmitsStep DEF PackConfirm, TypeInv
  <2>7. UNCHANGED <<seq, wish, srvSeq>> /\ ~Processing
    BY <1>2 DEF PackConfirm, server, Processing, In
  <2>8. BusyInv'
    BY <2>6 DEF BusyInv, In, Top, Waiting
  <2>9. Written(ToConfirm, room) \subseteq ToConfirm
    BY DEF Written
  <2>10. ASSUME uplink' = Append(uplink, doc), seq = srvSeq, NEW p \in ToConfirm PROVE Confirming(p)'
    <3>1. Len(uplink) + 1 \in DOMAIN uplink' /\ uplink'[Len(uplink) + 1] = doc
      BY <2>2, <2>10, AppendType DEF TypeInv, TypeOK
    <3> QED
      BY <2>4, <2>7, <2>10, <3>1 DEF Confirming
  <2>11. \/ Written(ToConfirm, room) = {} /\ lost' = lost
         \/ lost' = lost \cup ({"confirm"} \X Written(ToConfirm, room))
         \/ uplink' = Append(uplink, doc) /\ lost' = lost \ ({"confirm"} \X ToConfirm)
         \/ lost' = lost \cup ({"confirm"} \X ToConfirm)
    BY <2>3, <2>5, <2>9 DEF Emits, Skips, GivesUp, Publish
  <2>12. \A p \in Props : seq = srvSeq /\ p \in desiredBits /\ p \notin desiredBits'
           => <<"confirm", p>> \in lost' \/ Confirming(p)'
    BY <2>5, <2>9, <2>10, <2>11
  <2>13. \A p \in Props : seq = srvSeq /\ <<"confirm", p>> \in lost
           => <<"confirm", p>> \in lost' \/ Confirming(p)'
    BY <2>10, <2>11
  <2> QED
    BY <1>s, <2>2, <2>6, <2>7, <2>8, <2>12, <2>13, SendOwed
<1>3. CASE \/ PackRefused \/ PublishGet
           \/ \E ok \in BOOLEAN : PublishReturns(ok)
           \/ \E confirms \in BOOLEAN : AppReports(confirms)
  <2> DEFINE doc == [kind |-> "get", seq |-> seq, data |-> NoData]
  <2>1. doc \in Documents
    BY FrameType DEF TypeInv, TypeOK, Documents, Kinds
  <2>2. uplink' = uplink \/ uplink' = Append(uplink, doc)
    BY <1>3 DEF PackRefused, PublishGet, PublishReturns, AppReports, Publish
  <2>3. ~Processing /\ ~Processing'
    BY <1>3, QuietStep
  <2>4. UNCHANGED <<wish, srvSeq, seq, desiredBits>>
    BY <1>3 DEF PackRefused, PublishGet, PublishReturns, AppReports, server
  <2>5. \A p \in Props : <<"confirm", p>> \in lost => <<"confirm", p>> \in lost'
    BY <1>3 DEF PackRefused, PublishGet, PublishReturns, AppReports, Publish
  <2>6. BusyInv'
    BY <2>3 DEF BusyInv, Processing
  <2> QED
    BY <1>s, <2>1, <2>2, <2>3, <2>4, <2>5, <2>6, SendOwed
<1>5. ASSUME NEW i \in 1..Window, Receive(i) PROVE KnownInv'
  <2> DEFINE Controls == [seq : 0..MaxChanges, data : Data]
  <2>1. downlink \in Seq(Controls) /\ i \in DOMAIN downlink
    BY <1>5 DEF Receive, TypeInv, TypeOK
  <2>2. downlink[i] \in Controls
    <3> HIDE DEF Controls
    <3> QED
      BY <2>1
  <2>3. seq' = downlink[i].seq
    BY <1>5, <2>1 DEF Receive, SeqAfter, SeqInv
  <2>4. Top'.fn = "sync" /\ Top'.todo = downlink[i].data /\ stack' # <<>>
    <3>1. Sync(downlink[i].data) \in Frames /\ Sync(downlink[i].data).fn = "sync"
          /\ Sync(downlink[i].data).todo = downlink[i].data
      BY <2>2, FrameType
    <3> HIDE DEF Sync
    <3> QED
      BY <1>0, <1>5, <3>1, StackType DEF Receive, Top
  <2>5. seq' = srvSeq => \A p \in Present(wish) : Top'.todo[p] = wish[p]
    BY <2>1, <2>3, <2>4 DEF OrderInv
  <2>6. UNCHANGED <<wish, srvSeq>>
    BY <1>5 DEF Receive, server
  <2>7. OweInv'
    BY <2>4, <2>5, <2>6 DEF OweInv, Owed, Processing, In, Present
  <2> QED
    BY <1>s, <2>4, <2>7 DEF BusyInv, In
<1>6. ASSUME NEW p \in Props, ControlBegins(p) PROVE KnownInv'
  <2>1. stack # <<>> /\ Top \in Frames /\ Top.fn = "sync"
    BY <1>0, <1>6 DEF ControlBegins, In
  <2>2. Top'.fn = "control" /\ Top'.todo = Top.todo /\ Top'.prop = p /\ stack' # <<>>
    <3>1. [Top EXCEPT !.fn = "control", !.prop = p] \in Frames
      BY <2>1 DEF Frames
    <3>2. Head(stack') = [Top EXCEPT !.fn = "control", !.prop = p] /\ stack' # <<>>
      BY <1>0, <1>6, <2>1, <3>1, StackStep DEF ControlBegins
    <3> QED
      BY <2>1, <3>2 DEF Top, Frames
  <2>3. UNCHANGED <<seq, wish, srvSeq, uplink, lost>> /\ desiredBits' = desiredBits \cup {p}
    BY <1>6 DEF ControlBegins, server
  <2>4. OweInv'
    BY <2>2, <2>3 DEF OweInv, Owed, Processing, In, Confirming, Present
  <2> QED
    BY <1>s, <2>2, <2>3, <2>4 DEF BusyInv
<1>7. ASSUME NEW ok \in BOOLEAN, NEW wrote \in BOOLEAN, ControlReturns(ok, wrote) PROVE KnownInv'
  <2> DEFINE p == Top.prop
             rest == [Top.todo EXCEPT ![p] = None]
  <2>1. stack # <<>> /\ Top.fn = "control" /\ Top.todo \in Data /\ p \in desiredBits
    BY <1>0, <1>7 DEF ControlReturns, In, Frames, BusyInv
  <2>2. rest \in Data
    BY <2>1 DEF Data
  <2>3. Top'.fn = "sync" /\ Top'.todo = rest /\ stack' # <<>>
    <3>1. Sync(rest) \in Frames /\ Sync(rest).fn = "sync" /\ Sync(rest).todo = rest
      BY <2>2, FrameType
    <3>2. stack' = <<Sync(rest)>> \o Tail(stack)
      BY <1>7 DEF ControlReturns
    <3> HIDE DEF Sync, rest
    <3> QED
      BY <1>0, <2>1, <3>1, <3>2, StackStep DEF Top
  <2>4. UNCHANGED <<seq, wish, srvSeq, uplink, lost, desiredBits>>
    BY <1>7 DEF ControlReturns, server
  <2>5. \A q \in Props : q # p => rest[q] = Top.todo[q]
    BY <2>1 DEF Data
  <2> HIDE DEF rest
  <2>6. OweInv'
    BY <2>1, <2>3, <2>4, <2>5 DEF OweInv, Owed, Processing, In, Confirming, Present
  <2> QED
    BY <1>s, <2>3, <2>6 DEF BusyInv, In
<1>8. CASE SyncDone
  <2>1. stack # <<>> /\ Pack("report", TRUE) \in Frames /\ Pack("report", TRUE).fn = "pack"
    BY <1>8, FrameType DEF SyncDone, In, Kinds
  <2>2. Top'.fn = "pack"
    BY <1>0, <1>8, <2>1, StackStep DEF SyncDone, Top
  <2>3. UNCHANGED <<seq, wish, srvSeq, uplink, lost, desiredBits>> /\ \A p \in Props : Top.todo[p] = None
    BY <1>8 DEF SyncDone, server, Present
  <2>4. OweInv'
    BY <2>3 DEF OweInv, Owed, Confirming, Present
  <2> QED
    BY <1>s, <2>2, <2>4 DEF BusyInv, In
<1>9. ASSUME NEW p \in Props, NEW v \in Values, Wish(p, v) PROVE KnownInv'
  <2>1. srvSeq' = srvSeq + 1 /\ UNCHANGED device /\ srvSeq \in Nat /\ seq \in Nat
    BY <1>9 DEF Wish, TypeInv, TypeOK
  <2>2. seq' # srvSeq'
    BY <2>1 DEF SeqInv, device
  <2> QED
    BY <1>s, <2>1, <2>2 DEF OweInv, BusyInv, In, Top, device
<1>10. CASE ServerReceives
  <2> DEFINE doc == Head(uplink)
  <2>1. UNCHANGED <<device, srvSeq, lost>>
    BY <1>10 DEF ServerReceives
  <2>2. /\ 1 \in DOMAIN uplink /\ doc = uplink[1]
        /\ \A i \in DOMAIN uplink : i # 1 => i - 1 \in DOMAIN uplink' /\ uplink'[i - 1] = uplink[i]
    BY <1>10, TailType DEF ServerReceives, TypeInv, TypeOK
  <2>3. \A p \in Present(wish)' : p \in Present(wish) /\ p \notin Confirmed(doc)
    BY <1>10 DEF ServerReceives, Present
  <2>4. ASSUME NEW p \in Present(wish)', Confirming(p) PROVE Confirming(p)'
    <3>1. PICK i \in DOMAIN uplink :
            uplink[i].kind = "confirm" /\ uplink[i].seq = srvSeq /\ uplink[i].data[p] # None
      BY <2>4 DEF Confirming
    <3>2. i # 1
      BY <2>2, <2>3, <3>1 DEF Confirmed, Present
    <3> QED
      BY <2>1, <2>2, <3>1, <3>2 DEF Confirming
  <2>5. OweInv'
    BY <2>1, <2>3, <2>4 DEF OweInv, Owed, Processing, In, Top, device
  <2> QED
    BY <1>s, <2>1, <2>5 DEF BusyInv, In, Top, device
<1>11. CASE (\E p \in Props, v \in Values : AppChange(p, v)) \/ UNCHANGED vars
  <2>1. UNCHANGED <<seq, stack, wish, srvSeq, uplink, lost, desiredBits>>
    BY <1>11 DEF AppChange, server, vars, device
  <2> QED
    BY <1>s, <2>1 DEF OweInv, Owed, BusyInv, Processing, In, Top, Confirming, Present
<1> QED
  BY <1>1, <1>2, <1>3, <1>5, <1>6, <1>7, <1>8, <1>9, <1>10, <1>11 DEF Next

\* When the device is idle and knows the present wish for a property it has followed, it
\* still has to confirm it, or the confirmation is under way or was lost.
THEOREM ConfirmationsOwed == Spec => []ConfirmOwed
<1> DEFINE Inv == TypeInv /\ KnownInv
<1>1. Init => Inv
  BY TypeInit, OweInit
<1>2. Inv /\ [Next]_vars => Inv'
  BY TypeStep, OweStep
<1>3. Inv => ConfirmOwed
  <2> SUFFICES ASSUME Inv, NEW p \in Props, stack = <<>>, seq = srvSeq, wish[p] = desired[p]
               PROVE  Owed(p) /\ ~Processing
    BY DEF ConfirmOwed, Owed
  <2>1. p \in Present(wish)
    BY ValuesAssumption DEF TypeInv, TypeOK, Present
  <2> QED
    BY <2>1 DEF KnownInv, OweInv, Processing, In
<1> HIDE DEF Inv
<1> QED
  BY <1>1, <1>2, <1>3, PTL DEF Spec
=============================================================================
