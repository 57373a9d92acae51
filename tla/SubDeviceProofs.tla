--------------------------- MODULE SubDeviceProofs ---------------------------
(***************************************************************************)
(* What a reader finds in a report or a confirmation of sub-devices, for   *)
(* every number of devices, products and properties and every room: the    *)
(* points it is about, the numbers of their devices, and nothing else that *)
(* could be taken for one.  Then invariants of SubDevice, for every set of *)
(* values and every bound too, and the proof that it implements Wishes.    *)
(* What is said about wishes holds when no value is longer than the buffer *)
(* it is copied to: such a value ends the processing of a document whose   *)
(* number is stored already.                                               *)
(***************************************************************************)
EXTENDS SubDevice, Lemmas

-----------------------------------------------------------------------------
(* Documents.                                                              *)

\* Names in a document.
Words == {"root", "sub_dev", "product", "device_list", "dev_name", "sequence", "state",
          "reported", "desired", "passthrough", "sid"}
Names == STRING \cup Words \cup {ToString(n) : n \in Nat}

Calls == [depth : Nat, path : Seq(Names), isContainer : BOOLEAN]

Docs == [open : Seq(Names), facts : SUBSET Seq(Names), calls : Seq(Calls), left : Nat, ok : BOOLEAN]

\* Adding an entry to a document.
LEMMA AddType ==
  ASSUME NEW doc \in Docs, NEW depth \in Nat, NEW name \in Seq(Names), NEW isContainer \in BOOLEAN
  PROVE  Add(doc, depth, name, isContainer) \in Docs
<1> DEFINE d == Depth(doc, depth)
           inside == SubSeq(doc.open, 1, d)
           call == [depth |-> depth, path |-> inside \o name, isContainer |-> isContainer]
<1>1. doc.open \in Seq(Names) /\ doc.facts \subseteq Seq(Names) /\ doc.calls \in Seq(Calls)
      /\ doc.left \in Nat /\ d \in Nat
  BY DEF Docs, Depth
<1>2. CASE ~doc.ok \/ d > Len(doc.open) \/ d > MAX_DEPTH
  <2>1. Add(doc, depth, name, isContainer) = doc
    BY <1>2 DEF Add
  <2> QED
    BY <2>1
<1>3. CASE ~(~doc.ok \/ d > Len(doc.open) \/ d > MAX_DEPTH) /\ doc.left = 0
  <2>1. Add(doc, depth, name, isContainer) = [doc EXCEPT !.ok = FALSE]
    BY <1>3 DEF Add
  <2> QED
    BY <2>1 DEF Docs
<1>4. CASE ~(~doc.ok \/ d > Len(doc.open) \/ d > MAX_DEPTH) /\ doc.left # 0
  <2>1. inside \in Seq(Names)
    BY <1>1, <1>4
  <2>2. inside \o name \in Seq(Names)
    BY <2>1
  <2>3. call \in Calls
    BY <2>2 DEF Calls
  <2> HIDE DEF call, inside, d
  <2>4. Append(doc.calls, call) \in Seq(Calls)
    BY <1>1, <2>3
  <2>5. doc.left - 1 \in Nat
    BY <1>1, <1>4
  <2>6. Add(doc, depth, name, isContainer) =
          [open |-> IF isContainer THEN inside \o name ELSE inside,
           facts |-> IF isContainer THEN doc.facts ELSE doc.facts \cup {inside \o name},
           calls |-> Append(doc.calls, call), left |-> doc.left - 1, ok |-> TRUE]
    BY <1>4 DEF Add, call, inside, d
  <2>7. CASE isContainer
    BY <1>1, <2>2, <2>4, <2>5, <2>6, <2>7 DEF Docs
  <2>8. CASE ~isContainer
    <3> DEFINE facts == doc.facts \cup {inside \o name}
    <3>1. facts \in SUBSET Seq(Names)
      BY <1>1, <2>2
    <3> HIDE DEF facts
    <3>2. [open |-> inside, facts |-> facts, calls |-> Append(doc.calls, call),
           left |-> doc.left - 1, ok |-> TRUE] \in Docs
      BY <2>1, <2>4, <2>5, <3>1 DEF Docs
    <3> QED
      BY <2>6, <2>8, <3>2 DEF facts
  <2> QED
    BY <2>7, <2>8
<1> QED
  BY <1>2, <1>3, <1>4

\* An object or array, opened at a depth that is there.
LEMMA AddOpens ==
  ASSUME NEW doc \in Docs, NEW depth \in Nat, NEW name,
         doc.ok => Depth(doc, depth) <= Len(doc.open) /\ Depth(doc, depth) <= MAX_DEPTH,
         Add(doc, depth, name, TRUE).ok
  PROVE  LET new == Add(doc, depth, name, TRUE)
         IN  /\ doc.ok /\ new.facts = doc.facts
             /\ new.open = SubSeq(doc.open, 1, Depth(doc, depth)) \o name
<1>1. doc.ok
  BY DEF Add
<1>2. Depth(doc, depth) \in Nat /\ Len(doc.open) \in Nat
  BY DEF Depth, Docs
<1>3. ~(Depth(doc, depth) > Len(doc.open) \/ Depth(doc, depth) > MAX_DEPTH)
  BY <1>1, <1>2 DEF MAX_DEPTH
<1>4. doc.left # 0
  BY <1>1, <1>3 DEF Add, Docs
<1> QED
  BY <1>1, <1>3, <1>4 DEF Add

\* A member of the innermost object.
LEMMA AddTells ==
  ASSUME NEW doc \in Docs, NEW name, doc.ok => Len(doc.open) <= MAX_DEPTH,
         Add(doc, 0, name, FALSE).ok
  PROVE  LET new == Add(doc, 0, name, FALSE)
         IN  doc.ok /\ new.open = doc.open /\ new.facts = doc.facts \cup {doc.open \o name}
<1>1. doc.ok /\ doc.open \in Seq(Names)
  BY DEF Add, Docs
<1>2. Depth(doc, 0) = Len(doc.open) /\ SubSeq(doc.open, 1, Len(doc.open)) = doc.open
  BY <1>1 DEF Depth
<1>3. ~(Depth(doc, 0) > Len(doc.open) \/ Depth(doc, 0) > MAX_DEPTH)
  BY <1>1, <1>2 DEF MAX_DEPTH
<1>4. doc.left # 0
  BY <1>1, <1>3 DEF Add, Docs
<1> QED
  BY <1>1, <1>2, <1>3, <1>4 DEF Add

-----------------------------------------------------------------------------
(* The entries of a device.                                                *)

Root == <<"root", "sub_dev">>
ListOf(product) == (Root \o <<product>>) \o <<"device_list">>
StateOf(d, holder) == (DevicePath(d) \o <<"state">>) \o <<holder>>
ProductFact(product) == (Root \o <<product>>) \o <<"product">>

\* What is said of a device, with the number n, before its points, and with them.
NameFacts(d, n) ==
  {DevicePath(d) \o <<"dev_name">>}
  \cup IF n = 0 THEN {} ELSE {DevicePath(d) \o <<"sequence", ToString(n)>>}
FactsOf(d, bits, holder, n) ==
  NameFacts(d, n) \cup {PointPath(d, holder, p) : p \in {q \in 1..NumProps : <<d, q>> \in bits}}

\* Texts are names.
LEMMA NameType ==
  /\ \A n \in Nat : ToString(n) \in Names
  /\ \A d \in Devices : d \in Nat \ {0} /\ Product[d] \in Names
  /\ Words \subseteq Names
  BY ProductAssumption DEF Names, Devices

\* The paths of the containers, and what is left of them at the depths that are opened again.
LEMMA PathType ==
  ASSUME NEW product \in Names
  PROVE  /\ Root \in Seq(Names) /\ Len(Root) = 2 /\ SubSeq(Root, 1, 2) = Root
         /\ Root \o <<product>> \in Seq(Names) /\ Len(Root \o <<product>>) = 3
         /\ ListOf(product) \in Seq(Names) /\ Len(ListOf(product)) = 4
         /\ SubSeq(ListOf(product), 1, 2) = Root /\ SubSeq(ListOf(product), 1, 4) = ListOf(product)
<1>1. Root \in Seq(Names) /\ Len(Root) = 2
  BY NameType DEF Root, Words
<1>2. SubSeq(Root, 1, Len(Root)) = Root
  BY <1>1, SubSeqFull
<1>3. Root \o <<product>> \in Seq(Names) /\ Len(Root \o <<product>>) = Len(Root) + 1
      /\ \A k \in 1..Len(Root) : SubSeq(Root \o <<product>>, 1, k) = SubSeq(Root, 1, k)
  BY <1>1, OneMore
<1>4. ListOf(product) \in Seq(Names) /\ Len(ListOf(product)) = Len(Root \o <<product>>) + 1
      /\ \A k \in 1..Len(Root \o <<product>>) :
           SubSeq(ListOf(product), 1, k) = SubSeq(Root \o <<product>>, 1, k)
  BY <1>3, NameType, OneMore DEF ListOf, Words
<1>5. SubSeq(ListOf(product), 1, Len(ListOf(product))) = ListOf(product)
  BY <1>4, SubSeqFull
<1> QED
  BY <1>1, <1>2, <1>3, <1>4, <1>5

LEMMA DevicePathType ==
  ASSUME NEW d \in Devices, NEW holder \in Names
  PROVE  /\ DevicePath(d) = ListOf(Product[d]) \o <<ToString(d)>>
         /\ DevicePath(d) \in Seq(Names) /\ Len(DevicePath(d)) = 5
         /\ LET inner == DevicePath(d) \o <<"state">>
            IN  inner \in Seq(Names) /\ Len(inner) = 6 /\ SubSeq(inner, 1, 6) = inner
         /\ StateOf(d, holder) \in Seq(Names) /\ Len(StateOf(d, holder)) = 7
         /\ SubSeq(StateOf(d, holder), 1, 2) = Root
         /\ SubSeq(StateOf(d, holder), 1, 4) = ListOf(Product[d])
<1> DEFINE list == ListOf(Product[d])
           inner == DevicePath(d) \o <<"state">>
<1>1. ToString(d) \in Names /\ Product[d] \in Names
  BY NameType
<1>2. DevicePath(d) = list \o <<ToString(d)>>
  <2>1. <<"root", "sub_dev">> \o <<Product[d]>> = <<"root", "sub_dev", Product[d]>>
    BY <1>1, NameType, PathOf3 DEF Words
  <2>2. <<"root", "sub_dev", Product[d]>> \o <<"device_list">>
        = <<"root", "sub_dev", Product[d], "device_list">>
    BY <1>1, NameType, PathOf4 DEF Words
  <2>3. <<"root", "sub_dev", Product[d], "device_list">> \o <<ToString(d)>>
        = <<"root", "sub_dev", Product[d], "device_list", ToString(d)>>
    BY <1>1, NameType, PathOf5 DEF Words
  <2> QED
    BY <2>1, <2>2, <2>3, Zenon DEF DevicePath, ListOf, Root
<1>3. list \in Seq(Names) /\ Len(list) = 4 /\ SubSeq(list, 1, 2) = Root /\ SubSeq(list, 1, 4) = list
  BY <1>1, PathType
<1> HIDE DEF list
<1>4. DevicePath(d) \in Seq(Names) /\ Len(DevicePath(d)) = Len(list) + 1
      /\ \A k \in 1..Len(list) : SubSeq(DevicePath(d), 1, k) = SubSeq(list, 1, k)
  <2>1. list \o <<ToString(d)>> \in Seq(Names) /\ Len(list \o <<ToString(d)>>) = Len(list) + 1
        /\ \A k \in 1..Len(list) : SubSeq(list \o <<ToString(d)>>, 1, k) = SubSeq(list, 1, k)
    BY <1>1, <1>3, OneMore
  <2> QED
    BY <1>2, <2>1, Zenon
<1>5. inner \in Seq(Names) /\ Len(inner) = Len(DevicePath(d)) + 1
      /\ \A k \in 1..Len(DevicePath(d)) : SubSeq(inner, 1, k) = SubSeq(DevicePath(d), 1, k)
  BY <1>4, NameType, OneMore DEF Words
<1>6. StateOf(d, holder) \in Seq(Names) /\ Len(StateOf(d, holder)) = Len(inner) + 1
      /\ \A k \in 1..Len(inner) : SubSeq(StateOf(d, holder), 1, k) = SubSeq(inner, 1, k)
  BY <1>5, OneMore DEF StateOf
<1>7. SubSeq(inner, 1, Len(inner)) = inner
  BY <1>5, SubSeqFull
<1> HIDE DEF inner
<1>8. Len(inner) = 6 /\ Len(StateOf(d, holder)) = 7 /\ Len(DevicePath(d)) = 5
  BY <1>3, <1>4, <1>5, <1>6
<1>9. \A k \in 1..4 : SubSeq(StateOf(d, holder), 1, k) = SubSeq(list, 1, k)
  <2> SUFFICES ASSUME NEW k \in 1..4 PROVE SubSeq(StateOf(d, holder), 1, k) = SubSeq(list, 1, k)
    OBVIOUS
  <2>1. k \in 1..Len(list) /\ k \in 1..Len(DevicePath(d)) /\ k \in 1..Len(inner)
    BY <1>3, <1>8
  <2> QED
    BY <1>4, <1>5, <1>6, <2>1
<1>10. SubSeq(StateOf(d, holder), 1, 2) = Root /\ SubSeq(StateOf(d, holder), 1, 4) = list
  BY <1>3, <1>9
<1> QED
  BY <1>2, <1>4, <1>5, <1>6, <1>7, <1>8, <1>10, Zenon DEF list, inner

\* A product is opened.
LEMMA ProductOpens ==
  ASSUME NEW doc \in Docs, NEW product \in Names,
         doc.ok => Len(doc.open) >= 2 /\ SubSeq(doc.open, 1, 2) = Root
  PROVE  LET new == AddProduct(doc, product)
         IN  /\ new \in Docs
             /\ new.ok => /\ doc.ok /\ new.open = ListOf(product)
                          /\ new.facts = doc.facts \cup {ProductFact(product)}
<1> DEFINE object == Add(doc, PRODUCT_DEPTH, <<product>>, TRUE)
           named == Add(object, 0, <<"product">>, FALSE)
           new == Add(named, 0, <<"device_list">>, TRUE)
<1>1. object \in Docs /\ named \in Docs /\ new \in Docs
  <2>1. <<product>> \in Seq(Names) /\ <<"product">> \in Seq(Names) /\ <<"device_list">> \in Seq(Names)
    BY NameType DEF Words
  <2>2. object \in Docs
    BY <2>1, AddType DEF PRODUCT_DEPTH
  <2> HIDE DEF object
  <2>3. named \in Docs
    BY <2>1, <2>2, AddType
  <2> HIDE DEF named
  <2> QED
    BY <2>1, <2>2, <2>3, AddType
<1> DEFINE inner == Root \o <<product>>
<1>2. inner \in Seq(Names) /\ Len(inner) = 3
  BY PathType
<1>3. object.ok => doc.ok /\ object.open = inner /\ object.facts = doc.facts
  <2>1. Depth(doc, PRODUCT_DEPTH) = 2
    BY DEF Depth, PRODUCT_DEPTH
  <2>2. doc.ok => 2 <= Len(doc.open) /\ 2 <= MAX_DEPTH
    BY DEF MAX_DEPTH, Docs
  <2>3. object.ok => doc.ok /\ object.open = SubSeq(doc.open, 1, 2) \o <<product>>
                     /\ object.facts = doc.facts
    <3>1. PRODUCT_DEPTH \in Nat
      BY DEF PRODUCT_DEPTH
    <3>2. doc.ok => /\ Depth(doc, PRODUCT_DEPTH) <= Len(doc.open)
                    /\ Depth(doc, PRODUCT_DEPTH) <= MAX_DEPTH
      BY <2>1, <2>2
    <3> QED
      BY <2>1, <3>1, <3>2, AddOpens
  <2> QED
    BY <2>3
<1> HIDE DEF object
<1>4. named.ok => /\ object.ok /\ named.open = inner
                  /\ named.facts = object.facts \cup {ProductFact(product)}
  <2>1. object.ok => Len(object.open) <= MAX_DEPTH
    BY <1>2, <1>3 DEF MAX_DEPTH
  <2>2. named.ok => /\ object.ok /\ named.open = object.open
                    /\ named.facts = object.facts \cup {object.open \o <<"product">>}
    BY <1>1, <2>1, AddTells
  <2> QED
    BY <1>3, <2>2 DEF ProductFact
<1> HIDE DEF named
<1>5. new.ok => named.ok /\ new.open = ListOf(product) /\ new.facts = named.facts
  <2>1. named.ok => Depth(named, 0) = 3 /\ Len(named.open) = 3
    BY <1>2, <1>4 DEF Depth
  <2>2. named.ok => Depth(named, 0) <= Len(named.open) /\ Depth(named, 0) <= MAX_DEPTH
    <3> SUFFICES ASSUME named.ok PROVE Depth(named, 0) <= Len(named.open) /\ Depth(named, 0) <= MAX_DEPTH
      OBVIOUS
    <3>1. Depth(named, 0) = 3 /\ Len(named.open) = 3
      BY <2>1
    <3>2. 3 <= MAX_DEPTH
      BY DEF MAX_DEPTH
    <3> QED
      BY <3>1, <3>2
  <2>3. new.ok => /\ named.ok /\ new.facts = named.facts
                  /\ new.open = SubSeq(named.open, 1, Depth(named, 0)) \o <<"device_list">>
    <3>1. SUFFICES ASSUME Add(named, 0, <<"device_list">>, TRUE).ok
                   PROVE  LET next == Add(named, 0, <<"device_list">>, TRUE)
                          IN  /\ named.ok /\ next.facts = named.facts
                              /\ next.open = SubSeq(named.open, 1, Depth(named, 0)) \o <<"device_list">>
      OBVIOUS
    <3> HIDE DEF new
    <3>2. 0 \in Nat
      OBVIOUS
    <3> QED
      BY <1>1, <2>2, <3>1, <3>2, AddOpens, Zenon
  <2>4. SubSeq(inner, 1, 3) = inner
    BY <1>2, SubSeqFull
  <2> QED
    BY <1>4, <2>1, <2>3, <2>4 DEF ListOf
<1> HIDE DEF new, inner
<1>6. AddProduct(doc, product) = new
  BY DEF AddProduct, new, named, object
<1> QED
  BY <1>1, <1>3, <1>4, <1>5, <1>6

\* A device is opened.
LEMMA DeviceOpens ==
  ASSUME NEW doc \in Docs, NEW d \in Devices, NEW n \in Nat,
         doc.ok => Len(doc.open) >= 4 /\ SubSeq(doc.open, 1, 4) = ListOf(Product[d])
  PROVE  LET new == AddDevice(doc, d, n)
         IN  /\ new \in Docs
             /\ new.ok => /\ doc.ok /\ new.open = DevicePath(d)
                          /\ new.facts = doc.facts \cup NameFacts(d, n)
<1> DEFINE object == Add(doc, DEVICE_DEPTH, <<ToString(d)>>, TRUE)
           named == Add(object, 0, <<"dev_name">>, FALSE)
           numbered == Add(named, 0, <<"sequence", ToString(n)>>, FALSE)
<1>1. object \in Docs /\ named \in Docs /\ numbered \in Docs
  <2>1. /\ <<ToString(d)>> \in Seq(Names) /\ <<"dev_name">> \in Seq(Names)
        /\ <<"sequence", ToString(n)>> \in Seq(Names)
    <3>1. ToString(d) \in Names /\ ToString(n) \in Names /\ "sequence" \in Names /\ "dev_name" \in Names
      BY NameType DEF Words
    <3> QED
      BY <3>1
  <2>2. object \in Docs
    BY <2>1, AddType DEF DEVICE_DEPTH
  <2> HIDE DEF object
  <2>3. named \in Docs
    BY <2>1, <2>2, AddType
  <2> HIDE DEF named
  <2> QED
    BY <2>1, <2>2, <2>3, AddType
<1>2. DevicePath(d) = ListOf(Product[d]) \o <<ToString(d)>> /\ Len(DevicePath(d)) = 5
  BY NameType, DevicePathType DEF Words
<1>3. object.ok => doc.ok /\ object.open = DevicePath(d) /\ object.facts = doc.facts
  <2>1. Depth(doc, DEVICE_DEPTH) = 4 /\ DEVICE_DEPTH \in Nat
    BY DEF Depth, DEVICE_DEPTH
  <2>2. doc.ok => 4 <= Len(doc.open) /\ 4 <= MAX_DEPTH
    BY DEF MAX_DEPTH, Docs
  <2>3. object.ok => doc.ok /\ object.open = SubSeq(doc.open, 1, 4) \o <<ToString(d)>>
                     /\ object.facts = doc.facts
    <3>1. doc.ok => /\ Depth(doc, DEVICE_DEPTH) <= Len(doc.open)
                    /\ Depth(doc, DEVICE_DEPTH) <= MAX_DEPTH
      BY <2>1, <2>2
    <3> SUFFICES ASSUME object.ok
                 PROVE  doc.ok /\ object.open = SubSeq(doc.open, 1, 4) \o <<ToString(d)>>
                        /\ object.facts = doc.facts
      OBVIOUS
    <3> DEFINE name == <<ToString(d)>>
    <3>2. object = Add(doc, DEVICE_DEPTH, name, TRUE)
      OBVIOUS
    <3> HIDE DEF object, name
    <3>3. Add(doc, DEVICE_DEPTH, name, TRUE).ok
      BY <3>2
    <3>4. doc.ok /\ object.facts = doc.facts /\ object.open = SubSeq(doc.open, 1, 4) \o name
      <4> DEFINE depth == DEVICE_DEPTH
      <4>1. depth \in Nat /\ Depth(doc, depth) = 4 /\ object = Add(doc, depth, name, TRUE)
            /\ Add(doc, depth, name, TRUE).ok
            /\ (doc.ok => Depth(doc, depth) <= Len(doc.open) /\ Depth(doc, depth) <= MAX_DEPTH)
        BY <2>1, <3>1, <3>2, <3>3
      <4> HIDE DEF depth
      <4>2. /\ doc.ok /\ Add(doc, depth, name, TRUE).facts = doc.facts
            /\ Add(doc, depth, name, TRUE).open = SubSeq(doc.open, 1, Depth(doc, depth)) \o name
        BY <4>1, AddOpens, Zenon
      <4> QED
        BY <4>1, <4>2
    <3> QED
      BY <3>4 DEF name
  <2> QED
    BY <1>2, <2>3
<1> HIDE DEF object
<1>4. named.ok => /\ object.ok /\ named.open = DevicePath(d)
                  /\ named.facts = object.facts \cup {DevicePath(d) \o <<"dev_name">>}
  <2>1. object.ok => Len(object.open) <= MAX_DEPTH
    BY <1>2, <1>3 DEF MAX_DEPTH
  <2> SUFFICES ASSUME named.ok
               PROVE  /\ object.ok /\ named.open = DevicePath(d)
                      /\ named.facts = object.facts \cup {DevicePath(d) \o <<"dev_name">>}
    OBVIOUS
  <2> DEFINE name == <<"dev_name">>
  <2>2. named = Add(object, 0, name, FALSE)
    OBVIOUS
  <2> HIDE DEF named, name
  <2>3. object.ok /\ named.open = object.open /\ named.facts = object.facts \cup {object.open \o name}
    BY <1>1, <2>1, <2>2, AddTells
  <2> QED
    BY <1>3, <2>3 DEF name
<1> HIDE DEF named
<1>5. numbered.ok => /\ named.ok /\ numbered.open = DevicePath(d)
                     /\ numbered.facts = named.facts
                          \cup {DevicePath(d) \o <<"sequence", ToString(n)>>}
  <2>1. named.ok => Len(named.open) <= MAX_DEPTH
    BY <1>2, <1>4 DEF MAX_DEPTH
  <2> SUFFICES ASSUME numbered.ok
               PROVE  /\ named.ok /\ numbered.open = DevicePath(d)
                      /\ numbered.facts = named.facts
                           \cup {DevicePath(d) \o <<"sequence", ToString(n)>>}
    OBVIOUS
  <2> DEFINE name == <<"sequence", ToString(n)>>
  <2>2. numbered = Add(named, 0, name, FALSE)
    OBVIOUS
  <2> HIDE DEF numbered, name
  <2>3. named.ok /\ numbered.open = named.open /\ numbered.facts = named.facts \cup {named.open \o name}
    BY <1>1, <2>1, <2>2, AddTells
  <2> QED
    BY <1>4, <2>3 DEF name
<1> HIDE DEF numbered
<1>6. AddDevice(doc, d, n) = IF n > 0 THEN numbered ELSE named
  BY DEF AddDevice, numbered, named, object
<1>7. CASE n > 0
  <2>1. NameFacts(d, n) = {DevicePath(d) \o <<"dev_name">>}
                                \cup {DevicePath(d) \o <<"sequence", ToString(n)>>}
    <3>1. n # 0
      BY <1>7
    <3> QED
      BY <3>1, Zenon DEF NameFacts
  <2> QED
    BY <1>1, <1>3, <1>4, <1>5, <1>6, <1>7, <2>1
<1>8. CASE ~(n > 0)
  <2>1. NameFacts(d, n) = {DevicePath(d) \o <<"dev_name">>}
    <3>1. n = 0
      BY <1>8
    <3> DEFINE path == DevicePath(d) \o <<"dev_name">>
    <3>2. NameFacts(d, n) = {path} \cup {}
      BY <3>1, Zenon DEF NameFacts
    <3> HIDE DEF path
    <3>3. NameFacts(d, n) = {path}
      BY <3>2
    <3> QED
      BY <3>3 DEF path
  <2> QED
    BY <1>1, <1>3, <1>4, <1>6, <1>8, <2>1
<1> QED
  BY <1>7, <1>8

\* The state of a device is opened.
LEMMA StateOpens ==
  ASSUME NEW doc \in Docs, NEW d \in Devices, NEW holder \in Names,
         doc.ok => doc.open = DevicePath(d)
  PROVE  LET new == AddState(doc, holder)
         IN  /\ new \in Docs
             /\ new.ok => doc.ok /\ new.open = StateOf(d, holder) /\ new.facts = doc.facts
<1> DEFINE inner == DevicePath(d) \o <<"state">>
           state == Add(doc, 0, <<"state">>, TRUE)
           new == Add(state, STATE_DEPTH, <<holder>>, TRUE)
<1>1. state \in Docs /\ new \in Docs
  <2>1. <<"state">> \in Seq(Names) /\ <<holder>> \in Seq(Names) /\ STATE_DEPTH \in Nat
    BY NameType DEF Words, STATE_DEPTH
  <2>2. state \in Docs
    BY <2>1, AddType
  <2> HIDE DEF state
  <2> QED
    BY <2>1, <2>2, AddType
<1>2. /\ DevicePath(d) \in Seq(Names) /\ Len(DevicePath(d)) = 5
      /\ Len(inner) = 6 /\ SubSeq(inner, 1, 6) = inner
  BY DevicePathType
<1>3. StateOf(d, holder) = inner \o <<holder>>
  BY DEF StateOf
<1> HIDE DEF inner
<1>4. state.ok => doc.ok /\ state.open = inner /\ state.facts = doc.facts
  <2>1. doc.ok => Depth(doc, 0) = 5 /\ Len(doc.open) = 5
    BY <1>2 DEF Depth
  <2>2. doc.ok => Depth(doc, 0) <= Len(doc.open) /\ Depth(doc, 0) <= MAX_DEPTH
    <3> SUFFICES ASSUME doc.ok PROVE Depth(doc, 0) <= Len(doc.open) /\ Depth(doc, 0) <= MAX_DEPTH
      OBVIOUS
    <3>1. Depth(doc, 0) = 5 /\ Len(doc.open) = 5
      BY <2>1
    <3> QED
      BY <3>1 DEF MAX_DEPTH
  <2>3. SubSeq(DevicePath(d), 1, 5) = DevicePath(d)
    BY <1>2, SubSeqFull
  <2>4. state.ok => /\ doc.ok /\ state.facts = doc.facts
                    /\ state.open = SubSeq(doc.open, 1, Depth(doc, 0)) \o <<"state">>
    <3> SUFFICES ASSUME state.ok
                 PROVE  /\ doc.ok /\ state.facts = doc.facts
                        /\ state.open = SubSeq(doc.open, 1, Depth(doc, 0)) \o <<"state">>
      OBVIOUS
    <3>1. 0 \in Nat
      OBVIOUS
    <3> QED
      BY <2>2, <3>1, AddOpens, Zenon
  <2> QED
    BY <2>1, <2>3, <2>4 DEF inner
<1> HIDE DEF state
<1>5. new.ok => state.ok /\ new.open = StateOf(d, holder) /\ new.facts = state.facts
  <2>1. Depth(state, STATE_DEPTH) = 6 /\ STATE_DEPTH \in Nat
    BY DEF Depth, STATE_DEPTH
  <2>2. state.ok => 6 <= Len(state.open) /\ 6 <= MAX_DEPTH
    <3> SUFFICES ASSUME state.ok PROVE 6 <= Len(state.open) /\ 6 <= MAX_DEPTH
      OBVIOUS
    <3>1. Len(state.open) = 6
      BY <1>2, <1>4 DEF inner
    <3> QED
      BY <3>1 DEF MAX_DEPTH
  <2>3. state.ok => /\ Depth(state, STATE_DEPTH) <= Len(state.open)
                    /\ Depth(state, STATE_DEPTH) <= MAX_DEPTH
    BY <2>1, <2>2
  <2>4. new.ok => /\ state.ok /\ new.facts = state.facts
                  /\ new.open = SubSeq(state.open, 1, 6) \o <<holder>>
    <3> SUFFICES ASSUME new.ok
                 PROVE  /\ state.ok /\ new.facts = state.facts
                        /\ new.open = SubSeq(state.open, 1, Depth(state, STATE_DEPTH)) \o <<holder>>
      BY <2>1
    <3> QED
      BY <1>1, <2>1, <2>3, AddOpens, Zenon
  <2> QED
    BY <1>2, <1>3, <1>4, <2>4 DEF inner
<1> HIDE DEF new
<1>6. AddState(doc, holder) = new
  BY DEF AddState, new, state
<1> QED
  BY <1>1, <1>4, <1>5, <1>6

\* The points of a device among bits, up to number i.
PointFacts(d, bits, holder, i) ==
  {PointPath(d, holder, p) : p \in {q \in 1..i : <<d, q>> \in bits}}

LEMMA PointInState ==
  ASSUME NEW d \in Devices, NEW holder \in Names, NEW p \in Nat
  PROVE  StateOf(d, holder) \o <<ToString(p)>> = PointPath(d, holder, p)
<1>1. DevicePath(d) \in Seq(Names) /\ ToString(p) \in Names /\ "state" \in Names
  BY DevicePathType, NameType DEF Words
<1> DEFINE path == DevicePath(d)
<1>2. path \in Seq(Names)
  BY <1>1
<1> HIDE DEF path
<1> DEFINE first == "state"
           last == ToString(p)
<1>3. first \in Names /\ last \in Names
  BY <1>1
<1> HIDE DEF first, last
<1>4. SameAtOnce(path, first, holder, last)
  BY <1>2, <1>3, ThreeMore
<1> QED
  BY <1>4, Zenon DEF SameAtOnce, StateOf, PointPath, path, first, last

\* The loop over the properties, from a document in which the state of the device is open.
AfterPoints(doc, d, bits) ==
  LET after[p \in 0..NumProps] ==
        IF p = 0 THEN doc
        ELSE IF <<d, p>> \in bits THEN Add(after[p - 1], 0, <<ToString(p)>>, FALSE)
        ELSE after[p - 1]
  IN  after[NumProps]

\* It adds those with a bit.
LEMMA PointsTold ==
  ASSUME NEW doc \in Docs, NEW d \in Devices, NEW holder \in Names, NEW bits,
         doc.ok => doc.open = StateOf(d, holder)
  PROVE  LET new == AfterPoints(doc, d, bits)
         IN  /\ new \in Docs
             /\ new.ok => /\ doc.ok /\ new.open = StateOf(d, holder)
                          /\ new.facts = doc.facts \cup PointFacts(d, bits, holder, NumProps)
<1> DEFINE Pass(p, a) == IF <<d, p>> \in bits THEN Add(a, 0, <<ToString(p)>>, FALSE) ELSE a
           Loop(g) == g = [p \in 0..NumProps |-> IF p = 0 THEN doc ELSE Pass(p, g[p - 1])]
           f == CHOOSE g : Loop(g)
<1>1. NumProps \in Nat
  BY ProductAssumption
<1>2. \A p \in Nat, a \in Docs : Pass(p, a) \in Docs
  <2> SUFFICES ASSUME NEW p \in Nat, NEW a \in Docs PROVE Pass(p, a) \in Docs
    OBVIOUS
  <2>1. <<ToString(p)>> \in Seq(Names)
    BY NameType
  <2> QED
    BY <2>1, AddType
<1> HIDE DEF Pass
<1>3. \E g : Loop(g)
  <2> DEFINE step == [x \in Nat \X Docs |-> Pass(x[1], x[2])]
  <2>1. step \in [Nat \X Docs -> Docs]
    BY <1>2
  <2>2. PICK g \in [0..NumProps -> Docs] :
          g[0] = doc /\ \A i \in 1..NumProps : g[i] = step[<<i, g[i - 1]>>]
    <3> HIDE DEF step
    <3>1. Loops(Docs, doc, step, NumProps)
      BY <1>1, <2>1, LoopExists
    <3> QED
      BY <3>1 DEF Loops
  <2>3. ASSUME NEW i \in 1..NumProps PROVE g[i] = Pass(i, g[i - 1])
    <3>1. i - 1 \in 0..NumProps /\ i \in Nat
      BY <1>1
    <3>2. g[i - 1] \in Docs
      BY <2>2, <3>1
    <3> QED
      BY <2>2, <3>1, <3>2
  <2>4. Loop(g)
    <3>1. ASSUME NEW p \in 0..NumProps PROVE g[p] = IF p = 0 THEN doc ELSE Pass(p, g[p - 1])
      BY <1>1, <2>2, <2>3
    <3>2. g = [p \in 0..NumProps |-> g[p]]
      BY <2>2
    <3> QED
      BY <3>1, <3>2
  <2> QED
    BY <2>4
<1>4. f = [p \in 0..NumProps |-> IF p = 0 THEN doc ELSE Pass(p, f[p - 1])]
  BY <1>3
<1>5. f[0] = doc /\ \A i \in 1..NumProps : f[i] = Pass(i, f[i - 1])
  <2>1. 0 \in 0..NumProps /\ \A i \in 1..NumProps : i \in 0..NumProps /\ i # 0
    BY <1>1
  <2> HIDE DEF f
  <2> QED
    BY <1>4, <2>1
<1> DEFINE new == f[NumProps]
<1>6. /\ new \in Docs
      /\ new.ok => /\ doc.ok /\ new.open = StateOf(d, holder)
                   /\ new.facts = doc.facts \cup PointFacts(d, bits, holder, NumProps)
  <2> DEFINE Kept(i, a) == a.ok => /\ doc.ok /\ a.open = StateOf(d, holder)
                                   /\ a.facts = doc.facts \cup PointFacts(d, bits, holder, i)
             R == {x \in Nat \X Docs : Kept(x[1], x[2])}
  <2> HIDE DEF f
  <2>1. <<0, f[0]>> \in R
    <3>1. PointFacts(d, bits, holder, 0) = {}
      BY DEF PointFacts
    <3>2. Kept(0, doc)
      BY <3>1
    <3> QED
      BY <1>5, <3>2
  <2>2. ASSUME NEW i \in 1..NumProps, <<i - 1, f[i - 1]>> \in R PROVE <<i, f[i]>> \in R
    <3> DEFINE a == f[i - 1]
    <3>1. a \in Docs /\ Kept(i - 1, a) /\ i \in Nat /\ i - 1 \in Nat
      BY <1>1, <2>2
    <3>2. f[i] = Pass(i, a) /\ f[i] \in Docs
      BY <1>2, <1>5, <3>1
    <3>3. CASE <<d, i>> \in bits
      <4>1. f[i] = Add(a, 0, <<ToString(i)>>, FALSE)
        BY <3>2, <3>3 DEF Pass
      <4>2. PointFacts(d, bits, holder, i) =
              PointFacts(d, bits, holder, i - 1) \cup {PointPath(d, holder, i)}
        <5>1. {q \in 1..i : <<d, q>> \in bits} = {q \in 1..(i - 1) : <<d, q>> \in bits} \cup {i}
          BY <3>1, <3>3
        <5> QED
          BY <5>1 DEF PointFacts
      <4> HIDE DEF a
      <4>3. a.ok => Len(a.open) <= MAX_DEPTH
        <5> SUFFICES ASSUME a.ok PROVE Len(a.open) <= MAX_DEPTH
          OBVIOUS
        <5>1. Len(StateOf(d, holder)) = 7
          BY DevicePathType
        <5>2. a.open = StateOf(d, holder)
          BY <3>1
        <5>3. Len(a.open) = 7
          BY <5>1, <5>2, Zenon
        <5> QED
          BY <5>3 DEF MAX_DEPTH
      <4>4. f[i].ok => /\ a.ok /\ f[i].open = a.open
                       /\ f[i].facts = a.facts \cup {a.open \o <<ToString(i)>>}
        <5> DEFINE told == Add(a, 0, <<ToString(i)>>, FALSE)
        <5> SUFFICES ASSUME told.ok
                     PROVE  /\ a.ok /\ told.open = a.open
                            /\ told.facts = a.facts \cup {a.open \o <<ToString(i)>>}
          BY <4>1
        <5>1. a \in Docs
          BY <3>1
        <5> QED
          BY <4>3, <5>1, AddTells, Zenon
      <4>5. StateOf(d, holder) \o <<ToString(i)>> = PointPath(d, holder, i)
        BY <3>1, PointInState
      <4>6. Kept(i, f[i])
        <5> SUFFICES ASSUME f[i].ok
                     PROVE  /\ doc.ok /\ f[i].open = StateOf(d, holder)
                            /\ f[i].facts = doc.facts \cup PointFacts(d, bits, holder, i)
          OBVIOUS
        <5> QED
          BY <3>1, <4>2, <4>4, <4>5
      <4> QED
        BY <3>1, <3>2, <4>6
    <3>4. CASE <<d, i>> \notin bits
      <4>1. f[i] = a
        BY <3>2, <3>4 DEF Pass
      <4>2. PointFacts(d, bits, holder, i) = PointFacts(d, bits, holder, i - 1)
        <5>1. {q \in 1..i : <<d, q>> \in bits} = {q \in 1..(i - 1) : <<d, q>> \in bits}
          BY <3>1, <3>4
        <5> QED
          BY <5>1 DEF PointFacts
      <4>3. Kept(i, f[i])
        BY <3>1, <4>1, <4>2
      <4> QED
        BY <3>1, <3>2, <4>3
    <3> QED
      BY <3>3, <3>4
  <2>3. \A i \in 0..NumProps : <<i, f[i]>> \in R
    <3> HIDE DEF R
    <3> QED
      BY <1>1, <2>1, <2>2, LoopKeeps
  <2>4. <<NumProps, f[NumProps]>> \in R
    BY <1>1, <2>3
  <2> QED
    BY <2>4
<1> HIDE DEF f
<1>7. AfterPoints(doc, d, bits) = new
  BY DEF AfterPoints, f, Pass
<1> QED
  BY <1>6, <1>7

-----------------------------------------------------------------------------
(* The loop over the devices.                                              *)

LEMMA MaxIs ==
  ASSUME NEW S, S \subseteq Nat, S # {}, NEW n \in Nat, \A x \in S : x <= n
  PROVE  Max(S) \in S /\ \A x \in S : x <= Max(S)
<1> DEFINE T == {k \in Nat : \E x \in S : k = n - x}
<1>1. T \subseteq Nat /\ T # {}
  <2>1. PICK x \in S : TRUE
    OBVIOUS
  <2>2. x \in Nat /\ x <= n
    BY <2>1
  <2>3. n - x \in T
    BY <2>1, <2>2
  <2> QED
    BY <2>3
<1>2. PICK k \in T : \A j \in T : k <= j
  <2> HIDE DEF T
  <2> QED
    BY <1>1, Least
<1>3. PICK m \in S : k = n - m
  BY <1>2
<1>4. ASSUME NEW x \in S PROVE m >= x
  <2>1. x \in Nat /\ x <= n /\ m \in Nat /\ m <= n
    BY <1>3
  <2>2. n - x \in T
    BY <2>1
  <2> QED
    BY <1>2, <1>3, <2>1, <2>2
<1>5. Max(S) \in S /\ \A x \in S : Max(S) >= x
  BY <1>3, <1>4 DEF Max
<1> QED
  BY <1>5

\* What a reader may find of the devices with a bit, up to number i.
Upto(bits, i) == {e \in WithBits(bits) : e <= i}

LEMMA UptoType ==
  ASSUME NEW bits, NEW i \in Nat
  PROVE  /\ Upto(bits, i) \subseteq Devices /\ Devices = 1..Len(Product)
         /\ Upto(bits, i) # {} => /\ Max(Upto(bits, i)) \in Upto(bits, i)
                                  /\ \A e \in Upto(bits, i) : e <= Max(Upto(bits, i))
<1>1. Upto(bits, i) \subseteq Devices /\ Devices = 1..Len(Product) /\ Len(Product) \in Nat
  BY ProductAssumption DEF Upto, WithBits, Devices
<1>2. Upto(bits, i) \subseteq Nat /\ \A e \in Upto(bits, i) : e <= i
  BY <1>1 DEF Upto
<1> QED
  BY <1>1, <1>2, MaxIs

\* Where the document stands when the devices up to i are in it.
OpenAfter(bits, holder, i) ==
  IF Upto(bits, i) = {} THEN Root ELSE StateOf(Max(Upto(bits, i)), holder)

\* The facts are between what is said of the points of a device, and that and its product.
Tells(new, old, d, bits, holder, n) ==
  /\ old \subseteq new /\ FactsOf(d, bits, holder, n) \subseteq new
  /\ new \subseteq old \cup FactsOf(d, bits, holder, n) \cup {ProductFact(Product[d])}

\* A pass of the loop over the devices.
Grows(new, doc, d, bits, holder, n) ==
  /\ new \in Docs
  /\ new.ok => /\ doc.ok /\ new.open = StateOf(d, holder)
               /\ Tells(new.facts, doc.facts, d, bits, holder, n)

LEMMA DeviceTold ==
  ASSUME NEW doc \in Docs, NEW d \in Devices, NEW bits, NEW holder \in Names, NEW n \in Nat,
         doc.ok => doc.open = OpenAfter(bits, holder, d - 1)
  PROVE  Grows(AddPoints(doc, d, bits, holder, n), doc, d, bits, holder, n)
<1> DEFINE l == Max(Upto(bits, d - 1))
           opened == IF NewProduct(d, bits) THEN AddProduct(doc, Product[d]) ELSE doc
           device == AddDevice(opened, d, n)
           state == AddState(device, holder)
           new == AfterPoints(state, d, bits)
<1>1. d \in Nat \ {0} /\ d - 1 \in Nat /\ Product[d] \in Names
  BY NameType
<1>2. Before(d, bits) = Upto(bits, d - 1)
  <2>1. \A e \in WithBits(bits) : e \in Nat
    BY NameType DEF WithBits
  <2>2. \A e \in WithBits(bits) : e < d <=> e <= d - 1
    BY <1>1, <2>1
  <2> QED
    BY <2>2 DEF Before, Upto
<1>3. Before(d, bits) # {} => l \in Devices
  BY <1>1, <1>2, UptoType
<1>4. doc.ok => IF Before(d, bits) = {} THEN doc.open = Root ELSE doc.open = StateOf(l, holder)
  BY <1>2 DEF OpenAfter
<1>5. /\ opened \in Docs
      /\ opened.ok => /\ doc.ok /\ Len(opened.open) >= 4
                      /\ SubSeq(opened.open, 1, 4) = ListOf(Product[d])
                      /\ doc.facts \subseteq opened.facts
                      /\ opened.facts \subseteq doc.facts \cup {ProductFact(Product[d])}
  <2> HIDE DEF l
  <2>1. CASE NewProduct(d, bits)
    <3>1. doc.ok => Len(doc.open) >= 2 /\ SubSeq(doc.open, 1, 2) = Root
      <4>1. Len(Root) = 2 /\ SubSeq(Root, 1, 2) = Root
        BY <1>1, PathType
      <4>2. Before(d, bits) # {} => /\ Len(StateOf(l, holder)) = 7
                                    /\ SubSeq(StateOf(l, holder), 1, 2) = Root
        BY <1>3, DevicePathType
      <4> SUFFICES ASSUME doc.ok PROVE Len(doc.open) >= 2 /\ SubSeq(doc.open, 1, 2) = Root
        OBVIOUS
      <4>3. CASE Before(d, bits) = {}
        <5>1. doc.open = Root
          BY <1>4, <4>3
        <5>2. Len(doc.open) = 2 /\ SubSeq(doc.open, 1, 2) = Root
          BY <4>1, <5>1, Zenon
        <5> QED
          BY <5>2
      <4>4. CASE Before(d, bits) # {}
        <5>1. doc.open = StateOf(l, holder)
          BY <1>4, <4>4
        <5>2. Len(doc.open) = 7 /\ SubSeq(doc.open, 1, 2) = Root
          BY <4>2, <4>4, <5>1
        <5> QED
          BY <5>2
      <4> QED
        BY <4>3, <4>4
    <3>2. opened = AddProduct(doc, Product[d])
      BY <2>1
    <3> HIDE DEF opened
    <3>3. /\ opened \in Docs
          /\ opened.ok => /\ doc.ok /\ opened.open = ListOf(Product[d])
                          /\ opened.facts = doc.facts \cup {ProductFact(Product[d])}
      BY <1>1, <3>1, <3>2, ProductOpens
    <3>4. Len(ListOf(Product[d])) = 4 /\ SubSeq(ListOf(Product[d]), 1, 4) = ListOf(Product[d])
      BY <1>1, PathType
    <3> QED
      BY <3>3, <3>4
  <2>2. CASE ~NewProduct(d, bits)
    <3>1. Before(d, bits) # {} /\ Product[l] = Product[d]
      BY <1>2, <2>2 DEF NewProduct, l
    <3>2. /\ Len(StateOf(l, holder)) = 7
          /\ SubSeq(StateOf(l, holder), 1, 4) = ListOf(Product[d])
      BY <1>3, <3>1, DevicePathType
    <3>3. opened = doc
      BY <2>2
    <3> HIDE DEF opened
    <3> SUFFICES ASSUME doc.ok
                 PROVE  Len(doc.open) >= 4 /\ SubSeq(doc.open, 1, 4) = ListOf(Product[d])
      BY <3>3
    <3>4. doc.open = StateOf(l, holder)
      BY <1>4, <3>1
    <3>5. Len(doc.open) = 7 /\ SubSeq(doc.open, 1, 4) = ListOf(Product[d])
      BY <3>2, <3>4, Zenon
    <3> QED
      BY <3>5
  <2> QED
    BY <2>1, <2>2
<1> HIDE DEF opened, l
<1>6. /\ device \in Docs
      /\ device.ok => /\ opened.ok /\ device.open = DevicePath(d)
                      /\ device.facts = opened.facts \cup NameFacts(d, n)
  BY <1>5, DeviceOpens
<1> HIDE DEF device
<1>7. /\ state \in Docs
      /\ state.ok => device.ok /\ state.open = StateOf(d, holder) /\ state.facts = device.facts
  BY <1>6, StateOpens
<1> HIDE DEF state
<1>8. /\ new \in Docs
      /\ new.ok => /\ state.ok /\ new.open = StateOf(d, holder)
                   /\ new.facts = state.facts \cup PointFacts(d, bits, holder, NumProps)
  BY <1>7, PointsTold
<1>9. AddPoints(doc, d, bits, holder, n) = new
  BY DEF AddPoints, AfterPoints, state, device, opened
<1> HIDE DEF new
<1>10. new.ok => Tells(new.facts, doc.facts, d, bits, holder, n)
  <2> SUFFICES ASSUME new.ok PROVE Tells(new.facts, doc.facts, d, bits, holder, n)
    OBVIOUS
  <2>1. FactsOf(d, bits, holder, n) = NameFacts(d, n) \cup PointFacts(d, bits, holder, NumProps)
    BY DEF FactsOf, PointFacts
  <2>2. new.facts = opened.facts \cup NameFacts(d, n) \cup PointFacts(d, bits, holder, NumProps)
    BY <1>6, <1>7, <1>8
  <2>3. /\ doc.facts \subseteq opened.facts
        /\ opened.facts \subseteq doc.facts \cup {ProductFact(Product[d])}
    BY <1>5, <1>6, <1>7, <1>8
  <2> QED
    BY <2>1, <2>2, <2>3 DEF Tells
<1> QED
  BY <1>5, <1>6, <1>7, <1>8, <1>9, <1>10 DEF Grows

\* What the loop over the devices has kept after device i.
BodyIs(a, i, bits, holder, seqs) ==
  /\ a.open = OpenAfter(bits, holder, i)
  /\ \A e \in Upto(bits, i) : FactsOf(e, bits, holder, seqs[e]) \subseteq a.facts
  /\ \A fact \in a.facts : \E e \in Upto(bits, i) :
       fact \in FactsOf(e, bits, holder, seqs[e]) \cup {ProductFact(Product[e])}

LEMMA BodyTold ==
  ASSUME NEW bits, NEW holder \in Names, NEW seqs \in [Devices -> Nat], NEW room \in Nat
  PROVE  LET body == StateBody(bits, holder, seqs, room)
         IN  /\ body \in Docs
             /\ body.ok => BodyIs(body, Len(Product), bits, holder, seqs)
<1> DEFINE N == Len(Product)
           Pass(d, a) == IF d \in WithBits(bits) THEN AddPoints(a, d, bits, holder, seqs[d]) ELSE a
           Loop(g) == g = [d \in 0..N |-> IF d = 0 THEN Empty(room) ELSE Pass(d, g[d - 1])]
           f == CHOOSE g : Loop(g)
<1>1. N \in Nat /\ Devices = 1..N
  BY ProductAssumption DEF Devices
<1>2. Empty(room) \in Docs
  <2>1. Root \in Seq(Names)
    BY NameType DEF Root, Words
  <2> QED
    BY <2>1 DEF Empty, Docs, Root
<1> DEFINE Kept(i, a) == a.ok => BodyIs(a, i, bits, holder, seqs)
<1>3. ASSUME NEW i \in 1..N, NEW a \in Docs, Kept(i - 1, a)
      PROVE  Pass(i, a) \in Docs /\ Kept(i, Pass(i, a))
  <2> DEFINE new == Pass(i, a)
  <2>1. i \in Devices /\ i \in Nat /\ i - 1 \in Nat /\ seqs[i] \in Nat
    BY <1>1
  <2>2. CASE i \in WithBits(bits)
    <3>1. a.ok => a.open = OpenAfter(bits, holder, i - 1)
      BY <1>3 DEF BodyIs
    <3>2. new = AddPoints(a, i, bits, holder, seqs[i])
      BY <2>2
    <3> HIDE DEF new
    <3>3. /\ new \in Docs
          /\ new.ok => /\ a.ok /\ new.open = StateOf(i, holder)
                       /\ Tells(new.facts, a.facts, i, bits, holder, seqs[i])
      <4> DEFINE n == seqs[i]
      <4>1. n \in Nat /\ new = AddPoints(a, i, bits, holder, n)
        BY <2>1, <3>2
      <4> HIDE DEF n
      <4>2. Grows(AddPoints(a, i, bits, holder, n), a, i, bits, holder, n)
        BY <2>1, <3>1, <4>1, DeviceTold
      <4> QED
        BY <4>1, <4>2 DEF n, Grows
    <3>4. Upto(bits, i) = Upto(bits, i - 1) \cup {i}
      <4>1. \A e \in WithBits(bits) : e \in Nat
        BY NameType DEF WithBits
      <4>2. \A e \in WithBits(bits) : e <= i <=> e <= i - 1 \/ e = i
        BY <2>1, <4>1
      <4>3. i <= i
        BY <2>1
      <4> QED
        BY <2>2, <4>2, <4>3 DEF Upto
    <3>5. Max(Upto(bits, i)) = i
      <4>1. i \in Upto(bits, i) /\ \A e \in Upto(bits, i) : e <= i
        BY <3>4 DEF Upto
      <4>2. Max(Upto(bits, i)) \in Upto(bits, i) /\ i <= Max(Upto(bits, i))
        BY <2>1, <4>1, UptoType
      <4>3. Max(Upto(bits, i)) \in Nat
        BY <1>1, <2>1, <4>2, UptoType
      <4> QED
        BY <2>1, <4>1, <4>2, <4>3
    <3>6. Kept(i, new)
      <4> SUFFICES ASSUME new.ok PROVE BodyIs(new, i, bits, holder, seqs)
        OBVIOUS
      <4>1. new.open = OpenAfter(bits, holder, i)
        BY <3>3, <3>4, <3>5 DEF OpenAfter
      <4>2. BodyIs(a, i - 1, bits, holder, seqs) /\ Tells(new.facts, a.facts, i, bits, holder, seqs[i])
        BY <1>3, <3>3
      <4>3. \A e \in Upto(bits, i) : FactsOf(e, bits, holder, seqs[e]) \subseteq new.facts
        BY <3>4, <4>2 DEF BodyIs, Tells
      <4>4. \A fact \in new.facts : \E e \in Upto(bits, i) :
              fact \in FactsOf(e, bits, holder, seqs[e]) \cup {ProductFact(Product[e])}
        BY <3>4, <4>2 DEF BodyIs, Tells
      <4> QED
        BY <4>1, <4>3, <4>4 DEF BodyIs
    <3> QED
      BY <3>3, <3>6 DEF new
  <2>3. CASE i \notin WithBits(bits)
    <3>1. new = a
      BY <2>3
    <3>2. Upto(bits, i) = Upto(bits, i - 1)
      <4>1. \A e \in WithBits(bits) : e \in Nat
        BY NameType DEF WithBits
      <4>2. \A e \in WithBits(bits) : e # i /\ (e <= i <=> e <= i - 1)
        BY <2>1, <2>3, <4>1
      <4> QED
        BY <4>2 DEF Upto
    <3>3. Kept(i, a)
      BY <1>3, <3>2 DEF BodyIs, OpenAfter
    <3> QED
      BY <3>1, <3>3
  <2> QED
    BY <2>2, <2>3
<1>4. Kept(0, Empty(room))
  <2>1. \A e \in WithBits(bits) : ~(e <= 0)
    BY NameType DEF WithBits
  <2>2. Upto(bits, 0) = {}
    BY <2>1 DEF Upto
  <2> QED
    BY <2>2 DEF BodyIs, OpenAfter, Empty, Root
<1> HIDE DEF Pass, Kept
<1> DEFINE R == {x \in Nat \X Docs : Kept(x[1], x[2])}
<1>5. \A g : (g[0] = Empty(room) /\ \A i \in 1..N : <<i - 1, g[i - 1]>> \in R => g[i] = Pass(i, g[i - 1]))
               => \A i \in 0..N : <<i, g[i]>> \in R
  <2> SUFFICES ASSUME NEW g, g[0] = Empty(room),
                      \A i \in 1..N : <<i - 1, g[i - 1]>> \in R => g[i] = Pass(i, g[i - 1])
               PROVE  \A i \in 0..N : <<i, g[i]>> \in R
    OBVIOUS
  <2>1. <<0, g[0]>> \in R
    BY <1>2, <1>4
  <2>2. ASSUME NEW i \in 1..N, <<i - 1, g[i - 1]>> \in R PROVE <<i, g[i]>> \in R
    <3>1. g[i - 1] \in Docs /\ Kept(i - 1, g[i - 1]) /\ g[i] = Pass(i, g[i - 1]) /\ i \in Nat
      BY <1>1, <2>2
    <3>2. g[i] \in Docs /\ Kept(i, g[i])
      BY <1>3, <3>1
    <3> QED
      BY <3>1, <3>2
  <2> HIDE DEF R
  <2> QED
    BY <1>1, <2>1, <2>2, LoopKeeps
<1>6. \E g : Loop(g)
  <2> DEFINE Total(d, a) == IF Pass(d, a) \in Docs THEN Pass(d, a) ELSE Empty(room)
             step == [x \in Nat \X Docs |-> Total(x[1], x[2])]
  <2>1. step \in [Nat \X Docs -> Docs]
    BY <1>2
  <2>2. PICK g \in [0..N -> Docs] :
          g[0] = Empty(room) /\ \A i \in 1..N : g[i] = step[<<i, g[i - 1]>>]
    <3> HIDE DEF step
    <3>1. Loops(Docs, Empty(room), step, N)
      BY <1>1, <1>2, <2>1, LoopExists
    <3> QED
      BY <3>1 DEF Loops
  <2>3. ASSUME NEW i \in 1..N PROVE g[i] = Total(i, g[i - 1])
    <3>1. i - 1 \in 0..N /\ i \in Nat
      BY <1>1
    <3>2. g[i - 1] \in Docs
      BY <2>2, <3>1
    <3> QED
      BY <2>2, <3>1, <3>2
  <2>4. ASSUME NEW i \in 1..N, <<i - 1, g[i - 1]>> \in R PROVE g[i] = Pass(i, g[i - 1])
    <3>1. g[i - 1] \in Docs /\ Kept(i - 1, g[i - 1])
      BY <2>4
    <3>2. Pass(i, g[i - 1]) \in Docs
      BY <1>3, <3>1
    <3> QED
      BY <2>3, <3>2
  <2>5. \A i \in 0..N : <<i, g[i]>> \in R
    <3> HIDE DEF R
    <3> QED
      BY <1>5, <2>2, <2>4
  <2>6. ASSUME NEW i \in 1..N PROVE g[i] = Pass(i, g[i - 1])
    <3>1. i - 1 \in 0..N
      BY <1>1
    <3> QED
      BY <2>4, <2>5, <3>1
  <2>7. Loop(g)
    <3>1. ASSUME NEW p \in 0..N PROVE g[p] = IF p = 0 THEN Empty(room) ELSE Pass(p, g[p - 1])
      BY <1>1, <2>2, <2>6
    <3>2. g = [p \in 0..N |-> g[p]]
      BY <2>2
    <3> QED
      BY <3>1, <3>2
  <2> QED
    BY <2>7
<1>7. f = [d \in 0..N |-> IF d = 0 THEN Empty(room) ELSE Pass(d, f[d - 1])]
  BY <1>6
<1>8. f[0] = Empty(room) /\ \A i \in 1..N : f[i] = Pass(i, f[i - 1])
  <2>1. 0 \in 0..N /\ \A i \in 1..N : i \in 0..N /\ i # 0
    BY <1>1
  <2> HIDE DEF f
  <2> QED
    BY <1>7, <2>1
<1> DEFINE body == f[N]
<1> HIDE DEF f
<1>9. <<N, body>> \in R
  <2>1. N \in 0..N
    BY <1>1
  <2> HIDE DEF R
  <2> QED
    BY <1>5, <1>8, <2>1
<1>10. body \in Docs /\ (body.ok => BodyIs(body, Len(Product), bits, holder, seqs))
  BY <1>9 DEF Kept
<1> HIDE DEF body
<1>11. StateBody(bits, holder, seqs, room) = body
  BY DEF StateBody, body, f, Pass
<1> QED
  BY <1>10, <1>11

-----------------------------------------------------------------------------
(* Reading a document.                                                     *)

\* What is said of a device: its name, its number, its points.
NumberPath(d, n) == DevicePath(d) \o <<"sequence", ToString(n)>>

LEMMA FactLengths ==
  ASSUME NEW d \in Devices, NEW holder \in Names, NEW n \in Nat, NEW p \in Nat
  PROVE  /\ DevicePath(d) \in Seq(Names) /\ Len(DevicePath(d)) = 5
         /\ Len(DevicePath(d) \o <<"dev_name">>) = 6
         /\ Len(NumberPath(d, n)) = 7 /\ Len(PointPath(d, holder, p)) = 8
         /\ Len(ProductFact(Product[d])) = 4
         /\ {DevicePath(d) \o <<"dev_name">>, NumberPath(d, n), PointPath(d, holder, p),
             ProductFact(Product[d])} \subseteq Seq(Names)
<1>1. DevicePath(d) \in Seq(Names) /\ Len(DevicePath(d)) = 5
  BY DevicePathType
<1>2. \A u \in Seq(Names) : /\ DevicePath(d) \o u \in Seq(Names)
                            /\ Len(DevicePath(d) \o u) = Len(DevicePath(d)) + Len(u)
  BY <1>1, ConcatProperties
<1>3. /\ <<"dev_name">> \in Seq(Names) /\ Len(<<"dev_name">>) = 1
      /\ <<"sequence", ToString(n)>> \in Seq(Names) /\ Len(<<"sequence", ToString(n)>>) = 2
      /\ <<"state", holder, ToString(p)>> \in Seq(Names) /\ Len(<<"state", holder, ToString(p)>>) = 3
  <2>1. {"dev_name", "sequence", "state", ToString(n), ToString(p)} \subseteq Names
    BY NameType DEF Words
  <2> QED
    BY <2>1
<1>4. ProductFact(Product[d]) \in Seq(Names) /\ Len(ProductFact(Product[d])) = 4
  <2> DEFINE inner == Root \o <<Product[d]>>
  <2>1. inner \in Seq(Names) /\ Len(inner) = 3
    BY NameType, PathType
  <2>2. "product" \in Names
    BY NameType DEF Words
  <2> HIDE DEF inner
  <2>3. inner \o <<"product">> \in Seq(Names) /\ Len(inner \o <<"product">>) = Len(inner) + 1
    BY <2>1, <2>2, OneMore
  <2>4. inner \o <<"product">> = ProductFact(Product[d])
    BY DEF ProductFact, inner
  <2>5. Len(inner \o <<"product">>) = 4
    BY <2>1, <2>3
  <2> QED
    BY <2>3, <2>4, <2>5, Zenon
<1>5. /\ Len(DevicePath(d) \o <<"dev_name">>) = 5 + 1
      /\ Len(NumberPath(d, n)) = 5 + 2 /\ Len(PointPath(d, holder, p)) = 5 + 3
  BY <1>1, <1>2, <1>3 DEF NumberPath, PointPath
<1>6. /\ DevicePath(d) \o <<"dev_name">> \in Seq(Names) /\ NumberPath(d, n) \in Seq(Names)
      /\ PointPath(d, holder, p) \in Seq(Names)
  BY <1>2, <1>3 DEF NumberPath, PointPath
<1> QED
  BY <1>1, <1>4, <1>5, <1>6

\* Devices, points and numbers are told apart by their paths.
LEMMA PathsDiffer ==
  ASSUME NEW d \in Devices, NEW e \in Devices, NEW holder \in Names
  PROVE  /\ \A p, q \in 1..NumProps :
              PointPath(d, holder, p) = PointPath(e, holder, q) => d = e /\ p = q
         /\ \A m, n \in Nat : NumberPath(d, m) = NumberPath(e, n) => d = e /\ ToString(m) = ToString(n)
<1>1. /\ DevicePath(d) \in Seq(Names) /\ Len(DevicePath(d)) = 5
      /\ DevicePath(e) \in Seq(Names) /\ Len(DevicePath(e)) = 5
  BY DevicePathType
<1>2. DevicePath(d) = DevicePath(e) => d = e
  <2>1. DevicePath(d)[5] = ToString(d) /\ DevicePath(e)[5] = ToString(e)
    BY DEF DevicePath
  <2>2. DevicePath(d) = DevicePath(e) => ToString(d) = ToString(e)
    BY <2>1, Zenon
  <2> QED
    BY <2>2, NamesDiffer
<1>3. ASSUME NEW p \in 1..NumProps, NEW q \in 1..NumProps,
             PointPath(d, holder, p) = PointPath(e, holder, q)
      PROVE  d = e /\ p = q
  <2> DEFINE u == <<"state", holder, ToString(p)>>
             v == <<"state", holder, ToString(q)>>
  <2>1. u \in Seq(Names) /\ v \in Seq(Names) /\ u[3] = ToString(p) /\ v[3] = ToString(q)
    <3>1. "state" \in Names /\ ToString(p) \in Names /\ ToString(q) \in Names
      BY NameType, ProductAssumption DEF Words
    <3> QED
      BY <3>1
  <2>2. DevicePath(d) \o u = DevicePath(e) \o v
    BY <1>3 DEF PointPath
  <2> HIDE DEF u, v
  <2>3. DevicePath(d) = DevicePath(e) /\ u = v
    BY <1>1, <2>1, <2>2, PartsEqual
  <2>4. ToString(p) = ToString(q)
    BY <2>1, <2>3
  <2> QED
    BY <1>2, <2>3, <2>4, NamesDiffer
<1>4. ASSUME NEW m \in Nat, NEW n \in Nat, NumberPath(d, m) = NumberPath(e, n)
      PROVE  d = e /\ ToString(m) = ToString(n)
  <2> DEFINE u == <<"sequence", ToString(m)>>
             v == <<"sequence", ToString(n)>>
  <2>1. u \in Seq(Names) /\ v \in Seq(Names) /\ u[2] = ToString(m) /\ v[2] = ToString(n)
    <3>1. "sequence" \in Names /\ ToString(m) \in Names /\ ToString(n) \in Names
      BY NameType DEF Words
    <3> QED
      BY <3>1
  <2>2. DevicePath(d) \o u = DevicePath(e) \o v
    BY <1>4 DEF NumberPath
  <2> HIDE DEF u, v
  <2>3. DevicePath(d) = DevicePath(e) /\ u = v
    BY <1>1, <2>1, <2>2, PartsEqual
  <2> QED
    BY <1>2, <2>1, <2>3
<1> QED
  BY <1>3, <1>4

\* The session id is told last, further out.
LEMMA DocumentTold ==
  ASSUME NEW bits, NEW holder \in Names, NEW seqs \in [Devices -> Nat], NEW room \in Nat,
         StateDocument(bits, holder, seqs, room).ok
  PROVE  LET doc == StateDocument(bits, holder, seqs, room)
             body == StateBody(bits, holder, seqs, room)
         IN  /\ body.ok /\ body.facts \subseteq doc.facts
             /\ \A fact \in doc.facts : fact \in body.facts \/ Len(fact) = 3
<1> DEFINE doc == StateDocument(bits, holder, seqs, room)
           body == StateBody(bits, holder, seqs, room)
           passed == Add(body, 1, <<"passthrough">>, TRUE)
           inside == SubSeq(passed.open, 1, 2)
<1>1. body \in Docs /\ (body.ok => body.open = OpenAfter(bits, holder, Len(Product)))
  BY BodyTold DEF BodyIs
<1>2. Len(Product) \in Nat
  BY ProductAssumption
<1>3. body.ok => body.open \in Seq(Names) /\ Len(body.open) >= 2
  <2>1. CASE Upto(bits, Len(Product)) = {}
    <3>1. Root \in Seq(Names) /\ Len(Root) = 2
      BY NameType DEF Root, Words
    <3> SUFFICES ASSUME body.ok PROVE body.open \in Seq(Names) /\ Len(body.open) >= 2
      OBVIOUS
    <3>2. body.open = Root
      BY <1>1, <2>1 DEF OpenAfter
    <3>3. body.open \in Seq(Names) /\ Len(body.open) = 2
      BY <3>1, <3>2, Zenon
    <3> QED
      BY <3>3
  <2>2. CASE Upto(bits, Len(Product)) # {}
    <3> DEFINE l == Max(Upto(bits, Len(Product)))
    <3>1. l \in Devices
      BY <1>2, <2>2, UptoType
    <3> HIDE DEF l
    <3>2. StateOf(l, holder) \in Seq(Names) /\ Len(StateOf(l, holder)) = 7
      BY <3>1, DevicePathType
    <3> SUFFICES ASSUME body.ok PROVE body.open \in Seq(Names) /\ Len(body.open) >= 2
      OBVIOUS
    <3>3. body.open = StateOf(l, holder)
      BY <1>1, <2>2 DEF OpenAfter, l
    <3>4. body.open \in Seq(Names) /\ Len(body.open) = 7
      BY <3>2, <3>3, Zenon
    <3> QED
      BY <3>4
  <2> QED
    BY <2>1, <2>2
<1>4. doc = Add(passed, 2, <<"sid">>, FALSE)
  BY DEF StateDocument
<1>5. passed.ok
  BY <1>4 DEF Add
<1> HIDE DEF doc, body
<1>6. /\ body.ok /\ passed.facts = body.facts
      /\ passed.open = SubSeq(body.open, 1, 1) \o <<"passthrough">>
  <2>1. Depth(body, 1) = 1 /\ 1 \in Nat /\ 1 <= MAX_DEPTH
    BY DEF Depth, MAX_DEPTH
  <2>2. body.ok => Depth(body, 1) <= Len(body.open) /\ Depth(body, 1) <= MAX_DEPTH
    <3> SUFFICES ASSUME body.ok
                 PROVE  Depth(body, 1) <= Len(body.open) /\ Depth(body, 1) <= MAX_DEPTH
      OBVIOUS
    <3>1. Len(body.open) \in Nat /\ Len(body.open) >= 2
      BY <1>3
    <3> QED
      BY <2>1, <3>1
  <2>3. LET new == Add(body, 1, <<"passthrough">>, TRUE)
        IN  /\ body.ok /\ new.facts = body.facts
            /\ new.open = SubSeq(body.open, 1, Depth(body, 1)) \o <<"passthrough">>
    BY <1>1, <1>5, <2>1, <2>2, AddOpens, Zenon
  <2> QED
    BY <2>1, <2>3
<1>7. passed \in Docs
  <2>1. <<"passthrough">> \in Seq(Names) /\ 1 \in Nat
    BY NameType DEF Words
  <2> QED
    BY <1>1, <2>1, AddType
<1>8. passed.open \in Seq(Names) /\ Len(passed.open) = 2
  <2> DEFINE outer == SubSeq(body.open, 1, 1)
  <2>1. outer \in Seq(Names) /\ Len(outer) = 1
    BY <1>3, <1>6
  <2>2. "passthrough" \in Names
    BY NameType DEF Words
  <2>3. passed.open = outer \o <<"passthrough">>
    BY <1>6
  <2> HIDE DEF outer, passed
  <2>4. outer \o <<"passthrough">> \in Seq(Names) /\ Len(outer \o <<"passthrough">>) = Len(outer) + 1
    BY <2>1, <2>2, OneMore
  <2>5. Len(outer \o <<"passthrough">>) = 2
    BY <2>1, <2>4
  <2> QED
    BY <2>3, <2>4, <2>5, Zenon
<1> HIDE DEF passed
<1>9. inside \in Seq(Names) /\ Len(inside) = 2
  BY <1>8
<1> HIDE DEF inside
<1>10. Len(inside \o <<"sid">>) = 3
  <2>1. "sid" \in Names
    BY NameType DEF Words
  <2>2. Len(inside \o <<"sid">>) = Len(inside) + 1
    BY <1>9, <2>1, OneMore
  <2> QED
    BY <1>9, <2>2
<1>11. doc.facts = passed.facts \/ doc.facts = passed.facts \cup {inside \o <<"sid">>}
  <2>1. Depth(passed, 2) = 2
    BY DEF Depth
  <2> DEFINE told == Add(passed, 2, <<"sid">>, FALSE)
  <2>2. CASE ~passed.ok \/ 2 > Len(passed.open) \/ 2 > MAX_DEPTH
    <3>1. told = passed
      BY <2>1, <2>2 DEF Add
    <3> QED
      BY <1>4, <3>1
  <2>3. CASE ~(~passed.ok \/ 2 > Len(passed.open) \/ 2 > MAX_DEPTH) /\ passed.left = 0
    <3>1. told = [passed EXCEPT !.ok = FALSE]
      BY <2>1, <2>3 DEF Add
    <3>2. [passed EXCEPT !.ok = FALSE].facts = passed.facts
      BY <1>7 DEF Docs
    <3> QED
      BY <1>4, <3>1, <3>2
  <2>4. CASE ~(~passed.ok \/ 2 > Len(passed.open) \/ 2 > MAX_DEPTH) /\ passed.left # 0
    <3>1. told.facts = passed.facts \cup {inside \o <<"sid">>}
      BY <2>1, <2>4 DEF Add, inside
    <3> QED
      BY <1>4, <3>1
  <2> QED
    BY <2>2, <2>3, <2>4
<1> QED
  BY <1>6, <1>10, <1>11 DEF doc, body

\* A reader finds the points the document is about, each under its device and product, and
\* for each device with a point the number that was packed, if there was one; no other point
\* and no other number.
THEOREM DocumentReads ==
  ASSUME NEW bits \in SUBSET Points, NEW holder \in Names, NEW seqs \in [Devices -> Nat],
         NEW room \in Nat, StateDocument(bits, holder, seqs, room).ok
  PROVE  LET facts == StateDocument(bits, holder, seqs, room).facts
         IN  /\ \A x \in Points : PointPath(x[1], holder, x[2]) \in facts <=> x \in bits
             /\ \A d \in Devices, n \in Nat : NumberPath(d, n) \in facts =>
                  d \in WithBits(bits) /\ seqs[d] > 0 /\ ToString(n) = ToString(seqs[d])
             /\ \A d \in WithBits(bits) : seqs[d] > 0 => NumberPath(d, seqs[d]) \in facts
<1> DEFINE facts == StateDocument(bits, holder, seqs, room).facts
           body == StateBody(bits, holder, seqs, room)
           N == Len(Product)
<1>1. /\ body.facts \subseteq facts
      /\ \A fact \in facts : fact \in body.facts \/ Len(fact) = 3
      /\ BodyIs(body, N, bits, holder, seqs)
  BY BodyTold, DocumentTold
<1> HIDE DEF facts, body
<1>2. Upto(bits, N) = WithBits(bits) /\ WithBits(bits) \subseteq Devices
  <2>1. WithBits(bits) \subseteq Devices /\ \A e \in Devices : e <= N
    BY ProductAssumption DEF WithBits, Devices
  <2> QED
    BY <2>1 DEF Upto
<1>3. \A e \in WithBits(bits) : FactsOf(e, bits, holder, seqs[e]) \subseteq facts
  BY <1>1, <1>2 DEF BodyIs
<1>4. ASSUME NEW fact \in facts, Len(fact) \notin {3, 4, 6}
      PROVE  \E e \in WithBits(bits) :
               \/ seqs[e] > 0 /\ fact = NumberPath(e, seqs[e])
               \/ \E q \in 1..NumProps : <<e, q>> \in bits /\ fact = PointPath(e, holder, q)
  <2>1. fact \in body.facts
    BY <1>1, <1>4
  <2>2. PICK e \in WithBits(bits) :
          fact \in FactsOf(e, bits, holder, seqs[e]) \cup {ProductFact(Product[e])}
    BY <1>1, <1>2, <2>1 DEF BodyIs
  <2>3. e \in Devices /\ seqs[e] \in Nat
    BY <1>2
  <2>4. Len(ProductFact(Product[e])) = 4 /\ Len(DevicePath(e) \o <<"dev_name">>) = 6
    BY <2>3, FactLengths
  <2>5. fact # ProductFact(Product[e]) /\ fact # DevicePath(e) \o <<"dev_name">>
    BY <1>4, <2>4
  <2>6. CASE seqs[e] # 0 /\ fact = NumberPath(e, seqs[e])
    BY <2>3, <2>6
  <2>7. CASE fact \in {PointPath(e, holder, p) : p \in {q \in 1..NumProps : <<e, q>> \in bits}}
    BY <2>7
  <2> QED
    BY <2>2, <2>5, <2>6, <2>7 DEF FactsOf, NameFacts, NumberPath
<1>5. ASSUME NEW x \in Points PROVE PointPath(x[1], holder, x[2]) \in facts <=> x \in bits
  <2> DEFINE path == PointPath(x[1], holder, x[2])
  <2>1. x[1] \in Devices /\ x[2] \in 1..NumProps /\ x = <<x[1], x[2]>> /\ x[2] \in Nat
    BY ProductAssumption DEF Points
  <2>2. Len(path) = 8
    BY <2>1, FactLengths
  <2>3. ASSUME path \in facts PROVE x \in bits
    <3>1. Len(path) \notin {3, 4, 6}
      BY <2>2
    <3>2. PICK e \in WithBits(bits) :
            \/ seqs[e] > 0 /\ path = NumberPath(e, seqs[e])
            \/ \E q \in 1..NumProps : <<e, q>> \in bits /\ path = PointPath(e, holder, q)
      BY <1>4, <2>3, <3>1
    <3>3. e \in Devices /\ seqs[e] \in Nat
      BY <1>2
    <3>4. Len(NumberPath(e, seqs[e])) = 7
      BY <2>1, <3>3, FactLengths
    <3>5. path # NumberPath(e, seqs[e])
      BY <2>2, <3>4
    <3>6. PICK q \in 1..NumProps : <<e, q>> \in bits /\ path = PointPath(e, holder, q)
      BY <3>2, <3>5
    <3>7. x[1] = e /\ x[2] = q
      BY <2>1, <3>3, <3>6, PathsDiffer
    <3> QED
      BY <2>1, <3>6, <3>7
  <2>4. ASSUME x \in bits PROVE path \in facts
    <3>1. x[1] \in WithBits(bits)
      BY <2>1, <2>4 DEF WithBits
    <3>2. path \in FactsOf(x[1], bits, holder, seqs[x[1]])
      BY <2>1, <2>4 DEF FactsOf
    <3> QED
      BY <1>3, <3>1, <3>2
  <2> QED
    BY <2>3, <2>4
<1>6. ASSUME NEW d \in Devices, NEW n \in Nat, NumberPath(d, n) \in facts
      PROVE  d \in WithBits(bits) /\ seqs[d] > 0 /\ ToString(n) = ToString(seqs[d])
  <2>1. Len(NumberPath(d, n)) = 7 /\ Len(NumberPath(d, n)) \notin {3, 4, 6}
    <3>1. Len(NumberPath(d, n)) = 7
      BY FactLengths
    <3> QED
      BY <3>1
  <2>2. PICK e \in WithBits(bits) :
          \/ seqs[e] > 0 /\ NumberPath(d, n) = NumberPath(e, seqs[e])
          \/ \E q \in 1..NumProps : <<e, q>> \in bits /\ NumberPath(d, n) = PointPath(e, holder, q)
    BY <1>4, <1>6, <2>1
  <2>3. e \in Devices /\ seqs[e] \in Nat
    BY <1>2
  <2>4. \A q \in 1..NumProps : NumberPath(d, n) # PointPath(e, holder, q)
    <3> SUFFICES ASSUME NEW q \in 1..NumProps PROVE NumberPath(d, n) # PointPath(e, holder, q)
      OBVIOUS
    <3>1. q \in Nat
      BY ProductAssumption
    <3>2. Len(PointPath(e, holder, q)) = 8
      BY <2>3, <3>1, FactLengths
    <3> QED
      BY <2>1, <3>2
  <2>5. seqs[e] > 0 /\ NumberPath(d, n) = NumberPath(e, seqs[e])
    BY <2>2, <2>4
  <2> QED
    BY <2>3, <2>5, PathsDiffer
<1>7. ASSUME NEW d \in WithBits(bits), seqs[d] > 0 PROVE NumberPath(d, seqs[d]) \in facts
  <2>1. d \in Devices /\ seqs[d] \in Nat /\ seqs[d] # 0
    BY <1>2, <1>7
  <2>2. NumberPath(d, seqs[d]) \in FactsOf(d, bits, holder, seqs[d])
    BY <2>1 DEF FactsOf, NameFacts, NumberPath
  <2> QED
    BY <1>3, <2>2
<1> QED
  BY <1>5, <1>6, <1>7 DEF facts

-----------------------------------------------------------------------------
(* Types.                                                                  *)

\* What the server may find in a document.
Contents == {Build(kind, bits, seqs, room).facts : kind \in Kinds, bits \in SUBSET Points,
                                                   seqs \in [Devices -> 0..MaxChanges], room \in Rooms}
Messages == [kind : Kinds, facts : Contents, data : [Points -> Values], slot : Slots]
Orders == [slot : Slots \cup {NoSlot}, doc : Controls]

\* A number is used up by every wish.
Numbered == \A d \in Devices : srvSeq[d] <= changes

TypeInv == TypeOK /\ uplink \in Seq(Messages) /\ Numbered

LEMMA PointType ==
  /\ Registered \subseteq Devices /\ Known \subseteq Points
  /\ \A x \in Points : x[1] \in Devices /\ x[2] \in 1..NumProps /\ x = <<x[1], x[2]>>
  /\ \A d \in Devices, p \in 1..NumProps : <<d, p>> \in Points
  /\ MaxChanges \in Nat /\ NumSessions \in Nat
  BY ConstantsAssumption, BoundsAssumption DEF Registered, Known, Points

LEMMA FrameType ==
  /\ \A kind \in Kinds : Call(kind) \in Frames
  /\ \A e \in Frames : e.kind \in Kinds
  /\ \A e \in Frames, i \in Slots : [e EXCEPT !.fn = "publish", !.slot = i] \in Frames
  /\ \A i \in Slots : [fn |-> "answer", kind |-> "get", slot |-> i] \in Frames
  /\ \A e \in Frames : e.fn = "answer" => e.slot \in Slots
  BY DEF Frames, Call, Kinds

\* The document a request makes is the one for its bits and numbers.
LEMMA DocumentType ==
  ASSUME TypeOK, NEW kind \in Kinds, NEW room \in Rooms
  PROVE  /\ Bits(kind) \subseteq Known /\ Bits(kind) \in SUBSET Points
         /\ Document(kind, room) = Build(kind, Bits(kind), sequence, room)
         /\ Document(kind, room).facts \in Contents
<1>1. Bits(kind) \subseteq Known /\ Bits(kind) \in SUBSET Points
  BY PointType DEF Bits, TypeOK
<1>2. sequence \in [Devices -> 0..MaxChanges]
  BY DEF TypeOK
<1> DEFINE All == Kinds \X (SUBSET Points) \X [Devices -> 0..MaxChanges] \X Rooms
           table0 == [of \in All |-> Build(of[1], of[2], of[3], of[4])]
           this == <<kind, Bits(kind), sequence, room>>
<1>3. Built = table0
  BY DEF Built
<1>4. this \in All /\ this[1] = kind /\ this[2] = Bits(kind) /\ this[3] = sequence /\ this[4] = room
  BY <1>1, <1>2
<1>5. table0[this] = Build(kind, Bits(kind), sequence, room)
  <2> HIDE DEF this, All
  <2> QED
    BY <1>4
<1>7. Document(kind, room) = Build(kind, Bits(kind), sequence, room)
  <2> HIDE DEF table0
  <2> QED
    BY <1>3, <1>5 DEF Document
<1>6. Build(kind, Bits(kind), sequence, room).facts \in Contents
  BY <1>1, <1>2 DEF Contents
<1> QED
  BY <1>1, <1>6, <1>7, Zenon

\* What is desired, as a document for the gateway.
LEMMA DesiredType ==
  ASSUME NEW w \in [Points -> Values \cup {None}], NEW seqs \in [Devices -> 0..MaxChanges], NEW devices
  PROVE  Desired(w, seqs, devices) \in Controls
<1>1. 0 \in 0..MaxChanges
  BY PointType
<1> QED
  BY <1>1, PointType DEF Desired, Controls

\* What the processing of a document leaves.
LEMMA ProcessType ==
  ASSUME TypeOK, NEW doc \in Controls, Process(doc)
  PROVE  /\ sequence' \in [Devices -> 0..MaxChanges] /\ data' \in [Points -> Values]
         /\ met' \subseteq Points /\ reportBits' \subseteq Known /\ desiredBits' \subseteq Known
<1>1. sequence' \in [Devices -> 0..MaxChanges]
  BY DEF Process, Controls, TypeOK
<1>2. \A x \in Taken(doc) : x \in Known /\ x \in Points /\ doc[x[1]].values[x[2]] \in Values
  BY PointType DEF Taken, Ordered, Controls
<1>3. data' \in [Points -> Values]
  BY <1>2 DEF Process, Becomes, TypeOK
<1>4. met' \subseteq Points
  BY DEF Process, Becomes, Fulfilled, TypeOK
<1> QED
  BY <1>1, <1>2, <1>3, <1>4 DEF Process, TypeOK

LEMMA TypeInit == Init => TypeInv
<1> SUFFICES ASSUME Init PROVE TypeInv
  OBVIOUS
<1>1. stack \in Seq(Frames)
  <2>1. Call("online") \in Frames
    BY FrameType DEF Kinds
  <2> QED
    BY <2>1 DEF Init
<1>2. 0 \in 0..MaxChanges
  BY PointType
<1>3. data \in [Points -> Values] /\ wish \in [Points -> Values \cup {None}]
      /\ view \in [Points -> Values \cup {None}]
  BY ConstantsAssumption DEF Init
<1>4. sequence \in [Devices -> 0..MaxChanges] /\ srvSeq \in [Devices -> 0..MaxChanges] /\ Numbered
  BY <1>2 DEF Init, Numbered
<1>5. sessions \in [Slots -> Kinds \cup {"free", "leaked"}]
  BY DEF Init
<1> QED
  BY <1>1, <1>2, <1>3, <1>4, <1>5 DEF Init, TypeInv, TypeOK

\* What a call does to the call stack and to the documents under way.
LEMMA CallType ==
  ASSUME TypeInv, stack # <<>>
  PROVE  /\ Tail(stack) \in Seq(Frames) /\ Top \in Frames /\ Top.kind \in Kinds
         /\ \A e \in Frames : <<e>> \o Tail(stack) \in Seq(Frames)
         /\ lost \subseteq Kinds \X Points
         /\ \A kind \in Kinds : {kind} \X Bits(kind) \subseteq Kinds \X Points
<1>1. stack \in Seq(Frames)
  BY DEF TypeInv, TypeOK
<1>2. Tail(stack) \in Seq(Frames) /\ Top \in Frames
  BY <1>1, StackType DEF Top
<1>3. \A e \in Frames : <<e>> \o Tail(stack) \in Seq(Frames)
  BY <1>2, StackType
<1>4. \A kind \in Kinds : Bits(kind) \subseteq Points
  BY PointType DEF Bits, TypeInv, TypeOK
<1> QED
  BY <1>2, <1>3, <1>4, FrameType DEF TypeInv, TypeOK

LEMMA ClearType ==
  ASSUME TypeInv, NEW kind, ClearBits(kind)
  PROVE  reportBits' \subseteq Known /\ desiredBits' \subseteq Known
  BY DEF ClearBits, TypeInv, TypeOK

LEMMA TypeStep == TypeInv /\ [Next]_vars => TypeInv'
<1> SUFFICES ASSUME TypeInv, [Next]_vars PROVE TypeInv'
  OBVIOUS
<1> USE DEF table, server
<1>1. CASE RequestSkipped
  <2>1. stack' \in Seq(Frames)
    BY <1>1, CallType DEF RequestSkipped, In
  <2> QED
    BY <1>1, <2>1 DEF RequestSkipped, TypeInv, TypeOK, Numbered
<1>2. CASE RequestRefused
  <2>1. stack' \in Seq(Frames) /\ lost' \subseteq Kinds \X Points
    BY <1>2, CallType DEF RequestRefused, In, Forgets
  <2>2. reportBits' \subseteq Known /\ desiredBits' \subseteq Known
    BY <1>2, ClearType DEF RequestRefused
  <2> QED
    BY <1>2, <2>1, <2>2 DEF RequestRefused, TypeInv, TypeOK, Numbered
<1>3. CASE RequestFails
  <2>1. stack' \in Seq(Frames) /\ lost' \subseteq Kinds \X Points
    BY <1>3, CallType DEF RequestFails, In, Loses, Forgets
  <2>2. reportBits' \subseteq Known /\ desiredBits' \subseteq Known
    BY <1>3, ClearType DEF RequestFails
  <2>3. sessions' \in [Slots -> Kinds \cup {"free", "leaked"}]
    BY <1>3 DEF RequestFails, TypeInv, TypeOK
  <2> QED
    BY <1>3, <2>1, <2>2, <2>3 DEF RequestFails, TypeInv, TypeOK, Numbered
<1>4. CASE RequestPublished
  <2> DEFINE kind == Top.kind
  <2>1. stack # <<>> /\ Top \in Frames /\ kind \in Kinds
    BY <1>4, CallType DEF RequestPublished, In
  <2>2. PICK i \in Slots, room \in Rooms :
          /\ sessions' = [sessions EXCEPT ![i] = kind]
          /\ stack' = <<[Top EXCEPT !.fn = "publish", !.slot = i]>> \o Tail(stack)
          /\ Publish(kind, Document(kind, room), i)
    BY <1>4 DEF RequestPublished
  <2> HIDE DEF kind
  <2>3. stack' \in Seq(Frames)
    BY <2>1, <2>2, CallType, FrameType
  <2>4. sessions' \in [Slots -> Kinds \cup {"free", "leaked"}]
    BY <2>1, <2>2 DEF TypeInv, TypeOK
  <2>5. Message(kind, Document(kind, room), i) \in Messages
    BY <2>1, DocumentType DEF Message, Messages, TypeInv, TypeOK
  <2>6. uplink' \in Seq(Messages)
    BY <2>2, <2>5, AppendType DEF Publish, TypeInv
  <2>7. lost' \subseteq Kinds \X Points
    BY <2>1, <2>2, CallType DEF Publish, Loses, Forgets
  <2>8. reportBits' \subseteq Known /\ desiredBits' \subseteq Known
    BY <1>4, ClearType DEF RequestPublished
  <2> QED
    BY <1>4, <2>3, <2>4, <2>6, <2>7, <2>8 DEF RequestPublished, TypeInv, TypeOK, Numbered
<1>5. CASE PublishReturns
  <2>1. stack' \in Seq(Frames)
    BY <1>5, CallType DEF PublishReturns, In
  <2> QED
    BY <1>5, <2>1 DEF PublishReturns, TypeInv, TypeOK, Numbered
<1>6. CASE AnswerDone
  <2>1. stack' \in Seq(Frames)
    BY <1>6, CallType DEF AnswerDone, In
  <2>2. sessions' \in [Slots -> Kinds \cup {"free", "leaked"}]
    BY <1>6 DEF AnswerDone, TypeInv, TypeOK
  <2> QED
    BY <1>6, <2>1, <2>2 DEF AnswerDone, TypeInv, TypeOK, Numbered
<1>7. ASSUME NEW i, Receive(i) PROVE TypeInv'
  <2> DEFINE doc == downlink[i].doc
  <2>1. downlink \in Seq(Orders) /\ i \in DOMAIN downlink
    BY <1>7 DEF Receive, TypeInv, TypeOK, Orders
  <2>2. downlink[i] \in Orders /\ doc \in Controls /\ downlink[i].slot \in Slots \cup {NoSlot}
    <3>1. downlink[i] \in Orders
      BY <2>1
    <3> QED
      BY <3>1 DEF Orders
  <2>3. downlink' \in Seq(Orders)
    BY <1>7, <2>1, RemovalType DEF Receive, Without
  <2> HIDE DEF doc
  <2>4. stack' \in Seq(Frames)
    <3>1. Event(doc) \in Seq(Frames)
      <4>1. Call("report") \in Frames /\ Call("confirm") \in Frames
        BY FrameType DEF Kinds
      <4>2. <<Call("report"), Call("confirm")>> \in Seq(Frames) /\ <<>> \in Seq(Frames)
        BY <4>1
      <4> QED
        BY <4>2 DEF Event
    <3>2. Answers(downlink[i]) \in Seq(Frames)
      <4> DEFINE frame == [fn |-> "answer", kind |-> "get", slot |-> downlink[i].slot]
      <4>1. downlink[i].slot \in Slots => frame \in Frames
        BY FrameType
      <4> HIDE DEF frame
      <4>2. frame \in Frames => <<frame>> \in Seq(Frames)
        OBVIOUS
      <4>3. <<>> \in Seq(Frames)
        OBVIOUS
      <4>4. Answers(downlink[i]) = <<>>
            \/ (downlink[i].slot \in Slots /\ Answers(downlink[i]) = <<frame>>)
        BY DEF Answers, frame
      <4> QED
        BY <4>1, <4>2, <4>3, <4>4
    <3>3. stack \in Seq(Frames)
      BY DEF TypeInv, TypeOK
    <3>4. Event(doc) \o Answers(downlink[i]) \in Seq(Frames)
      BY <3>1, <3>2
    <3>5. (Event(doc) \o Answers(downlink[i])) \o stack \in Seq(Frames)
      BY <3>3, <3>4
    <3> QED
      BY <1>7, <3>5 DEF Receive, doc
  <2>5. /\ sequence' \in [Devices -> 0..MaxChanges] /\ data' \in [Points -> Values]
        /\ met' \subseteq Points /\ reportBits' \subseteq Known /\ desiredBits' \subseteq Known
    BY <1>7, <2>2, ProcessType DEF Receive, TypeInv, doc
  <2> QED
    BY <1>7, <2>3, <2>4, <2>5 DEF Receive, TypeInv, TypeOK, Numbered, Orders
<1>8. ASSUME NEW i \in Slots, Acknowledged(i) \/ Expire(i) PROVE TypeInv'
  <2>1. sessions' \in [Slots -> Kinds \cup {"free", "leaked"}]
    BY <1>8 DEF Acknowledged, Expire, TypeInv, TypeOK
  <2> QED
    BY <1>8, <2>1 DEF Acknowledged, Expire, TypeInv, TypeOK, Numbered
<1>9. CASE MainGoesOn
  <2>1. main' \in {"get", "loop", "offline", "drain"}
    BY <1>9 DEF MainGoesOn, Follows
  <2>2. stack' \in Seq(Frames)
    <3>1. main' \in Kinds => <<Call(main')>> \in Seq(Frames)
      <4>1. main' \in Kinds => Call(main') \in Frames
        BY FrameType
      <4> QED
        BY <4>1, OneFrame
    <3>2. <<>> \in Seq(Frames)
      OBVIOUS
    <3> QED
      BY <1>9, <3>1, <3>2 DEF MainGoesOn
  <2> QED
    BY <1>9, <2>1, <2>2 DEF MainGoesOn, TypeInv, TypeOK, Numbered
<1>10. CASE Drained
  BY <1>10 DEF Drained, TypeInv, TypeOK, Numbered
<1>11. ASSUME NEW x \in Known, NEW v \in Values, AppReports(x, v) PROVE TypeInv'
  <2>1. stack' \in Seq(Frames)
    <3>1. Call("report") \in Frames
      BY FrameType DEF Kinds
    <3> QED
      BY <1>11, <3>1 DEF AppReports
  <2>2. data' \in [Points -> Values] /\ met' \subseteq Points
    BY <1>11, PointType DEF AppReports, Becomes, Fulfilled, TypeInv, TypeOK
  <2>3. changes' \in 0..MaxChanges /\ changes' >= changes
    BY <1>11, PointType DEF AppReports, TypeInv, TypeOK
  <2>4. Numbered'
    BY <1>11, <2>3 DEF AppReports, Numbered, TypeInv, TypeOK
  <2> QED
    BY <1>11, <2>1, <2>2, <2>3, <2>4 DEF AppReports, TypeInv, TypeOK
<1>12. ASSUME NEW x \in Points, NEW v \in Values, Wish(x, v) PROVE TypeInv'
  <2>1. x[1] \in Devices /\ changes' = changes + 1 /\ changes' \in 0..MaxChanges
    BY <1>12, PointType DEF Wish, TypeInv, TypeOK
  <2>2. srvSeq' \in [Devices -> 0..MaxChanges] /\ Numbered'
    <3>1. srvSeq' = [srvSeq EXCEPT ![x[1]] = @ + 1]
      BY <1>12 DEF Wish
    <3>2. \A d \in Devices : srvSeq[d] \in 0..MaxChanges /\ srvSeq[d] <= changes /\ changes \in 0..MaxChanges
      BY DEF TypeInv, TypeOK, Numbered
    <3>3. \A d \in Devices : srvSeq'[d] \in 0..MaxChanges /\ srvSeq'[d] <= changes'
      <4> SUFFICES ASSUME NEW d \in Devices PROVE srvSeq'[d] \in 0..MaxChanges /\ srvSeq'[d] <= changes'
        OBVIOUS
      <4>1. srvSeq'[d] = srvSeq[d] \/ srvSeq'[d] = srvSeq[d] + 1
        BY <2>1, <3>1 DEF TypeInv, TypeOK
      <4> QED
        BY <2>1, <3>2, <4>1, PointType
    <3> QED
      BY <3>1, <3>3 DEF TypeInv, TypeOK, Numbered
  <2>3. wish' \in [Points -> Values \cup {None}] /\ met' \subseteq Points
    BY <1>12 DEF Wish, TypeInv, TypeOK
  <2>4. downlink' \in Seq(Orders)
    <3> DEFINE order == [slot |-> NoSlot, doc |-> Desired(wish', srvSeq', {x[1]})]
    <3>1. order \in Orders
      BY <2>2, <2>3, DesiredType DEF Orders
    <3>2. downlink \in Seq(Orders) /\ downlink' = Append(downlink, order)
      BY <1>12 DEF Wish, TypeInv, TypeOK, Orders
    <3> HIDE DEF order
    <3> QED
      BY <3>1, <3>2, AppendType
  <2> QED
    BY <1>12, <2>1, <2>2, <2>3, <2>4 DEF Wish, TypeInv, TypeOK, Orders
<1>13. CASE ServerReceives
  <2> DEFINE m == Head(uplink)
  <2>1. m \in Messages /\ uplink' \in Seq(Messages)
    BY <1>13, TailType DEF ServerReceives, TypeInv
  <2>2. /\ view' = [x \in Points |-> IF x \in Reported(m) THEN m.data[x] ELSE view[x]]
        /\ wish' = [x \in Points |-> IF x \in Confirmed(m) THEN None ELSE wish[x]]
        /\ \/ downlink' = downlink
           \/ downlink' = Append(downlink, [slot |-> m.slot, doc |-> Desired(wish, srvSeq, Asked(m))])
    BY <1>13 DEF ServerReceives
  <2> HIDE DEF m
  <2>3. m.data \in [Points -> Values] /\ m.slot \in Slots
    BY <2>1 DEF Messages
  <2>4. view' \in [Points -> Values \cup {None}] /\ wish' \in [Points -> Values \cup {None}]
    BY <2>2, <2>3 DEF TypeInv, TypeOK
  <2>5. downlink' \in Seq(Orders)
    <3> DEFINE order == [slot |-> m.slot, doc |-> Desired(wish, srvSeq, Asked(m))]
    <3>1. Desired(wish, srvSeq, Asked(m)) \in Controls
      BY DesiredType DEF TypeInv, TypeOK
    <3>2. order \in Orders /\ downlink \in Seq(Orders)
      BY <2>3, <3>1 DEF Orders, TypeInv, TypeOK
    <3>3. downlink' = downlink \/ downlink' = Append(downlink, order)
      BY <2>2
    <3> HIDE DEF order
    <3> QED
      BY <3>2, <3>3, AppendType
  <2> QED
    BY <1>13, <2>1, <2>4, <2>5 DEF ServerReceives, TypeInv, TypeOK, Numbered, Orders
<1>14. CASE UNCHANGED vars
  BY <1>14 DEF vars, TypeInv, TypeOK, Numbered
<1> QED
  BY <1>1, <1>2, <1>3, <1>4, <1>5, <1>6, <1>7, <1>8, <1>9, <1>10, <1>11, <1>12, <1>13, <1>14
     DEF Next, Requests

LEMMA TypeInvariant == Spec => []TypeInv
  BY TypeInit, TypeStep, PTL DEF Spec

\* The types of all variables are right in every reachable state: no number is beyond what the
\* server has given out, no bit is set for a device that is not in the table, no document is
\* made from anything else.
THEOREM TypeCorrect == Spec => []TypeOK
<1>1. TypeInv => TypeOK
  BY DEF TypeInv
<1> QED
  BY <1>1, TypeInvariant, PTL

-----------------------------------------------------------------------------
(* What a published document says.                                         *)

\* A report is about the points with a bit, a confirmation likewise, with the number that the
\* gateway has of the device and no other.
LEMMA MessageReads ==
  ASSUME TypeOK, NEW kind \in Kinds, NEW room \in Rooms, NEW i, Document(kind, room).ok
  PROVE  LET m == Message(kind, Document(kind, room), i)
         IN  /\ m.kind = kind /\ m.data = data
             /\ Reported(m) = IF kind = "report" THEN reportBits ELSE {}
             /\ kind = "confirm" =>
                  /\ PointsIn(m, "desired") = desiredBits
                  /\ \A d \in Devices, n \in Nat : NumberPath(d, n) \in m.facts
                       => sequence[d] > 0 /\ ToString(n) = ToString(sequence[d])
                  /\ \A x \in desiredBits : sequence[x[1]] > 0
                       => NumberPath(x[1], sequence[x[1]]) \in m.facts
<1> DEFINE m == Message(kind, Document(kind, room), i)
           doc == Document(kind, room)
<1>1. m.kind = kind /\ m.data = data /\ m.facts = doc.facts
  BY DEF Message
<1>2. doc = Build(kind, Bits(kind), sequence, room) /\ Bits(kind) \in SUBSET Points
  BY DocumentType
<1>3. room \in Nat /\ "reported" \in Names /\ "desired" \in Names
  BY ConstantsAssumption, NameType DEF Words
<1>4. sequence \in [Devices -> Nat] /\ MaxChanges \in Nat
  BY PointType DEF TypeOK
<1>5. doc.ok
  OBVIOUS
<1> HIDE DEF m, doc
<1>6. ASSUME kind = "report" PROVE Reported(m) = reportBits
  <2> DEFINE none == [d \in Devices |-> 0]
  <2>1. Bits(kind) = reportBits
    BY <1>6 DEF Bits
  <2>2. doc = StateDocument(reportBits, "reported", none, room)
    BY <1>2, <1>6, <2>1 DEF Build
  <2>3. none \in [Devices -> Nat]
    OBVIOUS
  <2> HIDE DEF none
  <2>4. \A x \in Points : PointPath(x[1], "reported", x[2]) \in doc.facts <=> x \in reportBits
    BY <1>2, <1>3, <1>5, <2>1, <2>2, <2>3, DocumentReads
  <2>5. PointsIn(m, "reported") = reportBits
    BY <1>1, <1>2, <2>1, <2>4 DEF PointsIn
  <2> QED
    BY <1>1, <1>6, <2>5 DEF Reported
<1>7. ASSUME kind = "confirm"
      PROVE  /\ PointsIn(m, "desired") = desiredBits
             /\ \A d \in Devices, n \in Nat : NumberPath(d, n) \in m.facts
                  => sequence[d] > 0 /\ ToString(n) = ToString(sequence[d])
             /\ \A x \in desiredBits : sequence[x[1]] > 0
                  => NumberPath(x[1], sequence[x[1]]) \in m.facts
  <2>1. Bits(kind) = desiredBits
    BY <1>7 DEF Bits
  <2>2. doc = StateDocument(desiredBits, "desired", sequence, room)
    BY <1>2, <1>7, <2>1 DEF Build
  <2>3. /\ \A x \in Points : PointPath(x[1], "desired", x[2]) \in doc.facts <=> x \in desiredBits
        /\ \A d \in Devices, n \in Nat : NumberPath(d, n) \in doc.facts =>
             d \in WithBits(desiredBits) /\ sequence[d] > 0 /\ ToString(n) = ToString(sequence[d])
        /\ \A d \in WithBits(desiredBits) : sequence[d] > 0 => NumberPath(d, sequence[d]) \in doc.facts
    BY <1>2, <1>3, <1>4, <1>5, <2>1, <2>2, DocumentReads
  <2>4. PointsIn(m, "desired") = desiredBits
    BY <1>1, <1>2, <2>1, <2>3 DEF PointsIn
  <2>5. \A x \in desiredBits : x[1] \in WithBits(desiredBits)
    BY <1>2, <2>1, PointType DEF WithBits
  <2> QED
    BY <1>1, <2>3, <2>4, <2>5
<1>8. ASSUME kind # "report" PROVE Reported(m) = {}
  BY <1>1, <1>8 DEF Reported
<1> QED
  BY <1>1, <1>6, <1>7, <1>8 DEF m

-----------------------------------------------------------------------------
(* Reports.                                                                *)

\* The last report of a point that is under way tells its value.
LastReport(x, i) ==
  /\ i \in DOMAIN uplink /\ x \in Reported(uplink[i]) /\ uplink[i].data[x] = data[x]
  /\ \A j \in DOMAIN uplink : j > i => x \notin Reported(uplink[j])

\* The server knows the value, and nothing under way tells another.
Settled(x) == ~Reporting(x) /\ (view[x] = data[x] \/ (view[x] = None /\ data[x] = Default))

\* A value will be reported, or was given up, or the last report under way tells it.
Told(x) ==
  \/ x \in reportBits \/ <<"report", x>> \in lost
  \/ \E i \in DOMAIN uplink : LastReport(x, i)
  \/ Settled(x)

ReportInv == \A x \in Known : Told(x)

LEMMA ReportInit == Init => ReportInv
  BY DEF Init, ReportInv, Told, Settled, Reporting, Known

\* Steps that change no value and no document, and forget nothing.
LEMMA QuietReports ==
  ASSUME ReportInv, UNCHANGED <<data, view, uplink>>,
         \A x \in Known : x \in reportBits \/ <<"report", x>> \in lost
                            => x \in reportBits' \/ <<"report", x>> \in lost'
  PROVE  ReportInv'
<1> SUFFICES ASSUME NEW x \in Known PROVE Told(x)'
  BY DEF ReportInv, Known
<1>1. Told(x)
  BY DEF ReportInv
<1>2. UNCHANGED <<Settled(x), \E i \in DOMAIN uplink : LastReport(x, i)>>
  BY DEF Settled, Reporting, LastReport
<1> QED
  BY <1>1, <1>2 DEF Told

\* A document that is appended to those under way.
LEMMA AppendedReport ==
  ASSUME TypeInv, ReportInv, NEW m \in Messages, uplink' = Append(uplink, m),
         UNCHANGED <<data, view>>, m.data = data, NEW bits, Reported(m) = bits,
         \A x \in Known : x \notin bits =>
           /\ x \in reportBits => x \in reportBits'
           /\ <<"report", x>> \in lost => <<"report", x>> \in lost'
  PROVE  ReportInv'
<1> SUFFICES ASSUME NEW x \in Known PROVE Told(x)'
  BY DEF ReportInv, Known
<1>0. PICK n : n = Len(uplink) + 1
  OBVIOUS
<1>1. /\ uplink \in Seq(Messages) /\ DOMAIN uplink = 1..Len(uplink) /\ Len(uplink) \in Nat
      /\ n = Len(uplink) + 1 /\ DOMAIN uplink' = 1..n /\ uplink'[n] = m
      /\ \A i \in DOMAIN uplink : uplink'[i] = uplink[i]
  <2>1. uplink \in Seq(Messages)
    BY DEF TypeInv
  <2> QED
    BY <1>0, <2>1, AppendType
<1>2. CASE x \in bits
  <2>1. LastReport(x, n)'
    <3>1. n \in DOMAIN uplink' /\ x \in Reported(uplink'[n]) /\ uplink'[n].data[x] = data'[x]
      BY <1>1, <1>2
    <3>2. \A j \in DOMAIN uplink' : ~(j > n)
      BY <1>1
    <3> QED
      BY <3>1, <3>2 DEF LastReport
  <2> QED
    BY <1>1, <2>1 DEF Told
<1>3. CASE x \notin bits
  <2>1. Told(x)
    BY DEF ReportInv
  <2>2. ASSUME NEW i \in DOMAIN uplink, LastReport(x, i) PROVE LastReport(x, i)' /\ i \in DOMAIN uplink'
    <3>1. i \in DOMAIN uplink' /\ uplink'[i] = uplink[i]
      BY <1>1, <2>2
    <3>2. x \in Reported(uplink'[i]) /\ uplink'[i].data[x] = data'[x]
      BY <2>2, <3>1 DEF LastReport
    <3>3. \A j \in DOMAIN uplink' : j > i => x \notin Reported(uplink'[j])
      <4> SUFFICES ASSUME NEW j \in DOMAIN uplink', j > i PROVE x \notin Reported(uplink'[j])
        OBVIOUS
      <4>1. CASE j = n
        BY <1>1, <1>3, <4>1
      <4>2. CASE j # n
        <5>1. j \in DOMAIN uplink
          BY <1>1, <4>2
        <5> QED
          BY <1>1, <2>2, <5>1 DEF LastReport
      <4> QED
        BY <4>1, <4>2
    <3> QED
      BY <3>1, <3>2, <3>3 DEF LastReport
  <2>3. ASSUME Settled(x) PROVE Settled(x)'
    <3>1. \A j \in DOMAIN uplink' : x \notin Reported(uplink'[j])
      <4> SUFFICES ASSUME NEW j \in DOMAIN uplink' PROVE x \notin Reported(uplink'[j])
        OBVIOUS
      <4>1. j = n \/ j \in DOMAIN uplink
        BY <1>1
      <4> QED
        BY <1>1, <1>3, <2>3, <4>1 DEF Settled, Reporting
    <3> QED
      BY <2>3, <3>1 DEF Settled, Reporting
  <2> QED
    BY <1>3, <2>1, <2>2, <2>3 DEF Told
<1> QED
  BY <1>2, <1>3

\* The server takes the first document.
LEMMA ArrivedReport ==
  ASSUME TypeInv, ReportInv, ServerReceives
  PROVE  ReportInv'
<1> SUFFICES ASSUME NEW x \in Known PROVE Told(x)'
  BY DEF ReportInv, Known
<1> DEFINE m == Head(uplink)
<1>1. /\ uplink \in Seq(Messages) /\ uplink # <<>> /\ uplink' = Tail(uplink) /\ UNCHANGED table /\ UNCHANGED lost
      /\ view' = [y \in Points |-> IF y \in Reported(m) THEN m.data[y] ELSE view[y]]
  BY DEF ServerReceives, TypeInv
<1>2. /\ m = uplink[1] /\ 1 \in DOMAIN uplink
      /\ \A i \in DOMAIN uplink' : i + 1 \in DOMAIN uplink /\ uplink'[i] = uplink[i + 1]
      /\ \A i \in DOMAIN uplink : i # 1 => i - 1 \in DOMAIN uplink' /\ uplink'[i - 1] = uplink[i]
  BY <1>1, TailType
<1>3. DOMAIN uplink = 1..Len(uplink) /\ DOMAIN uplink' \subseteq Int
  <2>1. Tail(uplink) \in Seq(Messages)
    BY <1>1, TailType
  <2> QED
    BY <1>1, <2>1
<1>4. x \in Points /\ data' = data /\ reportBits' = reportBits /\ lost' = lost
  BY <1>1, PointType DEF table
<1> HIDE DEF m
<1>5. CASE \E i \in DOMAIN uplink : LastReport(x, i)
  <2>1. PICK i \in DOMAIN uplink : LastReport(x, i)
    BY <1>5
  <2>2. \A j \in DOMAIN uplink' : j + 1 > i => x \notin Reported(uplink'[j])
    BY <1>2, <2>1 DEF LastReport
  <2>3. CASE i = 1
    <3>1. ~Reporting(x)'
      <4>1. \A j \in DOMAIN uplink' : j + 1 > 1
        BY <1>2, <1>3
      <4> QED
        BY <2>2, <2>3, <4>1 DEF Reporting
    <3>2. view'[x] = data'[x]
      BY <1>1, <1>2, <1>4, <2>1, <2>3 DEF LastReport
    <3> QED
      BY <3>1, <3>2 DEF Told, Settled
  <2>4. CASE i # 1
    <3>1. i - 1 \in DOMAIN uplink' /\ uplink'[i - 1] = uplink[i] /\ i \in Int
      BY <1>2, <1>3, <2>1, <2>4
    <3>2. \A j \in DOMAIN uplink' : j > i - 1 => x \notin Reported(uplink'[j])
      BY <1>3, <2>2, <3>1
    <3>3. LastReport(x, i - 1)'
      BY <1>4, <2>1, <3>1, <3>2 DEF LastReport
    <3> QED
      BY <3>1, <3>3 DEF Told
  <2> QED
    BY <2>3, <2>4
<1>6. CASE Settled(x)
  <2>1. \A i \in DOMAIN uplink : x \notin Reported(uplink[i])
    BY <1>6 DEF Settled, Reporting
  <2>2. ~Reporting(x)' /\ x \notin Reported(m)
    BY <1>2, <2>1 DEF Reporting
  <2>3. view'[x] = view[x]
    BY <1>1, <1>4, <2>2
  <2> QED
    BY <1>4, <1>6, <2>2, <2>3 DEF Told, Settled
<1>7. CASE x \in reportBits \/ <<"report", x>> \in lost
  BY <1>4, <1>7 DEF Told
<1> QED
  BY <1>5, <1>6, <1>7 DEF ReportInv, Told

\* A value that is changed is marked.
LEMMA MarkedReport ==
  ASSUME ReportInv, UNCHANGED <<view, uplink, lost>>, reportBits \subseteq reportBits',
         \A x \in Known : data'[x] = data[x] \/ x \in reportBits'
  PROVE  ReportInv'
<1> SUFFICES ASSUME NEW x \in Known PROVE Told(x)'
  BY DEF ReportInv, Known
<1>1. Told(x)
  BY DEF ReportInv
<1>2. CASE x \in reportBits'
  BY <1>2 DEF Told
<1>3. CASE data'[x] = data[x]
  <2>1. UNCHANGED <<Settled(x), \E i \in DOMAIN uplink : LastReport(x, i)>>
    BY <1>3 DEF Settled, Reporting, LastReport
  <2> QED
    BY <1>1, <2>1 DEF Told
<1> QED
  BY <1>2, <1>3

LEMMA ReportStep == TypeInv /\ ReportInv /\ [Next]_vars => ReportInv'
<1> SUFFICES ASSUME TypeInv, ReportInv, [Next]_vars PROVE ReportInv'
  OBVIOUS
<1> USE DEF table, server
<1>1. CASE RequestSkipped
  BY <1>1, QuietReports DEF RequestSkipped
<1>2. CASE RequestRefused
  <2>1. \A x \in Known : x \in reportBits \/ <<"report", x>> \in lost
                           => x \in reportBits' \/ <<"report", x>> \in lost'
    BY <1>2 DEF RequestRefused, ClearBits, Forgets, Bits
  <2> QED
    BY <1>2, <2>1, QuietReports DEF RequestRefused
<1>3. CASE RequestFails
  <2>1. \A x \in Known : x \in reportBits \/ <<"report", x>> \in lost
                           => x \in reportBits' \/ <<"report", x>> \in lost'
    BY <1>3 DEF RequestFails, ClearBits, Loses, Forgets, Bits
  <2> QED
    BY <1>3, <2>1, QuietReports DEF RequestFails
<1>4. CASE RequestPublished
  <2> DEFINE kind == Top.kind
  <2>1. kind \in Kinds
    BY <1>4, CallType DEF RequestPublished, In
  <2>2. PICK i \in Slots, room \in Rooms : Publish(kind, Document(kind, room), i)
    BY <1>4 DEF RequestPublished
  <2>3. ClearBits(kind) /\ UNCHANGED <<data, view>>
    BY <1>4 DEF RequestPublished
  <2> HIDE DEF kind
  <2> DEFINE doc == Document(kind, room)
             m == Message(kind, doc, i)
  <2>4. CASE Loses(kind) /\ UNCHANGED uplink
    <3>1. \A x \in Known : x \in reportBits \/ <<"report", x>> \in lost
                             => x \in reportBits' \/ <<"report", x>> \in lost'
      BY <2>3, <2>4 DEF ClearBits, Loses, Forgets, Bits
    <3> QED
      BY <2>3, <2>4, <3>1, QuietReports
  <2>5. CASE doc.ok /\ uplink' = Append(uplink, m) /\ lost' = lost \ ({kind} \X Bits(kind))
    <3> DEFINE bits == IF kind = "report" THEN reportBits ELSE {}
    <3>1. m \in Messages
      BY <2>1, DocumentType DEF Message, Messages, TypeInv, TypeOK
    <3>2. m.data = data /\ Reported(m) = bits
      BY <2>1, <2>5, MessageReads DEF TypeInv
    <3>3. \A x \in Known : x \notin bits =>
            /\ x \in reportBits => x \in reportBits'
            /\ <<"report", x>> \in lost => <<"report", x>> \in lost'
      BY <2>3, <2>5 DEF ClearBits, Bits
    <3> HIDE DEF bits, m
    <3> QED
      BY <2>3, <2>5, <3>1, <3>2, <3>3, AppendedReport
  <2> QED
    BY <2>2, <2>4, <2>5 DEF Publish
<1>5. CASE PublishReturns \/ AnswerDone \/ MainGoesOn \/ Drained
  BY <1>5, QuietReports DEF PublishReturns, AnswerDone, MainGoesOn, Drained
<1>6. ASSUME NEW i, Acknowledged(i) \/ Expire(i) PROVE ReportInv'
  BY <1>6, QuietReports DEF Acknowledged, Expire
<1>7. ASSUME NEW i, Receive(i) PROVE ReportInv'
  <2> DEFINE doc == downlink[i].doc
  <2>1. Process(doc) /\ UNCHANGED <<view, uplink, lost>>
    BY <1>7 DEF Receive
  <2> HIDE DEF doc
  <2>2. \A x \in Known : data'[x] = data[x] \/ x \in reportBits'
    BY <2>1, PointType DEF Process, Becomes
  <2> QED
    BY <2>1, <2>2, MarkedReport DEF Process
<1>8. ASSUME NEW x \in Known, NEW v \in Values, AppReports(x, v) PROVE ReportInv'
  <2>1. reportBits' = Known /\ reportBits \subseteq Known /\ UNCHANGED <<view, uplink, lost>>
    BY <1>8 DEF AppReports, TypeInv, TypeOK
  <2> QED
    BY <2>1, MarkedReport
<1>9. ASSUME NEW x, NEW v, Wish(x, v) PROVE ReportInv'
  BY <1>9, QuietReports DEF Wish
<1>10. CASE ServerReceives
  BY <1>10, ArrivedReport
<1>11. CASE UNCHANGED vars
  BY <1>11, QuietReports DEF vars
<1> QED
  BY <1>1, <1>2, <1>3, <1>4, <1>5, <1>6, <1>7, <1>8, <1>9, <1>10, <1>11 DEF Next, Requests

\* The server knows every value of a sub-device, or a report of it is owed or under way under
\* the right device and product, or was given up: no call of tc_iot_sub_device_report clears a
\* bit for anything else, whatever is received while it publishes.
THEOREM ReportsKept == Spec => []LostOrReported
<1>1. ReportInv => LostOrReported
  BY DEF ReportInv, LostOrReported, Told, Settled, LastReport, Reporting
<1>2. TypeInv /\ ReportInv /\ [Next]_vars => ReportInv'
  BY ReportStep
<1> QED
  BY <1>1, <1>2, ReportInit, TypeInvariant, PTL DEF Spec

-----------------------------------------------------------------------------
(* Wishes.                                                                 *)

\* The server counts its wishes; nobody else makes numbers up.
NumberInv ==
  /\ \A d \in Devices : sequence[d] <= srvSeq[d]
  /\ \A i \in DOMAIN downlink, d \in Devices : downlink[i].doc[d].seq <= srvSeq[d]
  /\ \A x \in Points : wish[x] # None => srvSeq[x[1]] > 0
  /\ \A i \in DOMAIN uplink, d \in Devices, n \in 0..MaxChanges :
       uplink[i].kind = "confirm" /\ NumberPath(d, n) \in uplink[i].facts => n <= srvSeq[d]

\* A control document with the present number tells the present wishes.
OrderInv == \A i \in DOMAIN downlink, x \in Points :
  LET order == downlink[i].doc[x[1]]
  IN  order.seq = srvSeq[x[1]] /\ wish[x] # None => order.values[x[2]] = wish[x]

\* The gateway has processed the present wish for a point.
Processed(x) == sequence[x[1]] = srvSeq[x[1]] /\ wish[x] # None

\* Then the sub-device has had the value.
KnownInv == \A x \in Known : Processed(x) => x \in met

\* A document confirms a point: it would take back the wish, with these numbers.
Confirms(m, x, wishes, numbers) ==
  /\ m.kind = "confirm" /\ x \in PointsIn(m, "desired") /\ wishes[x] # None
  /\ NumberPath(x[1], numbers[x[1]]) \in m.facts

LEMMA ConfirmedIs ==
  /\ \A m : Confirmed(m) = {x \in Points : Confirms(m, x, wish, srvSeq)}
  /\ \A x \in Points : Confirming(x) <=> \E i \in DOMAIN uplink : Confirms(uplink[i], x, wish, srvSeq)
<1>1. \A m : Confirmed(m) = {x \in Points : Confirms(m, x, wish, srvSeq)}
  BY DEF Confirmed, Confirms, NumberPath, PointsIn
<1> QED
  BY <1>1 DEF Confirming

\* A confirmation that would take a wish back is about a value the sub-device has had.
ConfirmInv == \A i \in DOMAIN uplink, x \in Points : Confirms(uplink[i], x, wish, srvSeq) => x \in met

\* The confirmation is owed, under way or given up.
Owed(x) ==
  \/ x \in desiredBits \/ <<"confirm", x>> \in lost
  \/ \E i \in DOMAIN uplink : Confirms(uplink[i], x, wish, srvSeq)
OweInv == \A x \in Known : Processed(x) => Owed(x)

WishInv == NumberInv /\ OrderInv /\ KnownInv /\ ConfirmInv /\ OweInv

LEMMA WishInit == Init => WishInv
<1> SUFFICES ASSUME Init PROVE WishInv
  OBVIOUS
<1>1. DOMAIN uplink = {} /\ DOMAIN downlink = {} /\ \A x \in Points : wish[x] = None
  BY DEF Init
<1>2. \A d \in Devices : sequence[d] <= srvSeq[d]
  BY DEF Init
<1> QED
  BY <1>1, <1>2, PointType
     DEF WishInv, NumberInv, OrderInv, KnownInv, ConfirmInv, OweInv, Processed

\* Steps of the gateway that receive nothing and publish nothing, and forget nothing that they
\* do not record.
LEMMA QuietWishes ==
  ASSUME WishInv, UNCHANGED <<sequence, wish, srvSeq, uplink, downlink>>, met \subseteq met',
         \A x \in Known : x \in desiredBits \/ <<"confirm", x>> \in lost
                            => x \in desiredBits' \/ <<"confirm", x>> \in lost'
  PROVE  WishInv'
<1>1. \A x \in Points : UNCHANGED <<Processed(x), \E i \in DOMAIN uplink : Confirms(uplink[i], x, wish, srvSeq)>>
  BY DEF Processed
<1>2. NumberInv' /\ OrderInv'
  BY DEF WishInv, NumberInv, OrderInv
<1>3. KnownInv'
  BY <1>1, PointType DEF WishInv, KnownInv, Known
<1>4. ConfirmInv'
  BY DEF WishInv, ConfirmInv
<1>5. OweInv'
  BY <1>1, PointType DEF WishInv, OweInv, Owed, Known
<1> QED
  BY <1>2, <1>3, <1>4, <1>5 DEF WishInv

\* A number in a confirmation is the one the gateway has.
LEMMA NumberKnown ==
  ASSUME TypeInv, NEW room \in Rooms, NEW i, Document("confirm", room).ok,
         NEW d \in Devices, NEW n \in 0..MaxChanges,
         NumberPath(d, n) \in Message("confirm", Document("confirm", room), i).facts
  PROVE  n = sequence[d]
<1>1. "confirm" \in Kinds /\ n \in Nat /\ TypeOK /\ sequence[d] \in 0..MaxChanges
  <2>1. "confirm" \in Kinds
    BY DEF Kinds
  <2>2. n \in Nat
    BY PointType
  <2>3. TypeOK /\ sequence[d] \in 0..MaxChanges
    BY DEF TypeInv, TypeOK
  <2> QED
    BY <2>1, <2>2, <2>3
<1>2. ToString(n) = ToString(sequence[d])
  BY <1>1, MessageReads
<1> QED
  BY <1>1, <1>2, NumbersDiffer

\* A document is published.
LEMMA PublishWishes ==
  ASSUME TypeInv, WishInv, NEW kind \in Kinds, NEW room \in Rooms, NEW s \in Slots,
         Document(kind, room).ok, ClearBits(kind),
         uplink' = Append(uplink, Message(kind, Document(kind, room), s)),
         lost' = lost \ ({kind} \X Bits(kind)),
         UNCHANGED <<sequence, wish, srvSeq, downlink, met>>
  PROVE  WishInv'
<1> DEFINE m == Message(kind, Document(kind, room), s)
<1>1. PICK n : n = Len(uplink) + 1
  OBVIOUS
<1>2. /\ uplink \in Seq(Messages) /\ DOMAIN uplink = 1..Len(uplink) /\ Len(uplink) \in Nat
      /\ n = Len(uplink) + 1 /\ DOMAIN uplink' = 1..n /\ uplink'[n] = m
      /\ \A i \in DOMAIN uplink : uplink'[i] = uplink[i]
  <2>1. uplink \in Seq(Messages)
    BY DEF TypeInv
  <2>2. m \in Messages
    BY DocumentType DEF Message, Messages, TypeInv, TypeOK
  <2> HIDE DEF m
  <2>3. uplink' = Append(uplink, m)
    BY DEF m
  <2> QED
    BY <1>1, <2>1, <2>2, <2>3, AppendType
<1>3. /\ m.kind = kind
      /\ kind = "confirm" =>
           /\ PointsIn(m, "desired") = desiredBits
           /\ \A x \in desiredBits : sequence[x[1]] > 0 => NumberPath(x[1], sequence[x[1]]) \in m.facts
  BY MessageReads DEF TypeInv
<1>4. \A d \in Devices, k \in 0..MaxChanges :
        kind = "confirm" /\ NumberPath(d, k) \in m.facts => k = sequence[d]
  BY NumberKnown
<1> HIDE DEF m
<1>5. desiredBits \subseteq Known /\ sequence \in [Devices -> 0..MaxChanges]
      /\ srvSeq \in [Devices -> 0..MaxChanges]
  BY DEF TypeInv, TypeOK
<1>6. \A i \in DOMAIN uplink' : i = n \/ i \in DOMAIN uplink
  BY <1>2
<1>7. NumberInv'
  <2>1. \A d \in Devices, k \in 0..MaxChanges :
          uplink'[n].kind = "confirm" /\ NumberPath(d, k) \in uplink'[n].facts => k <= srvSeq'[d]
    BY <1>2, <1>3, <1>4, <1>5 DEF WishInv, NumberInv
  <2>2. \A i \in DOMAIN uplink, d \in Devices, k \in 0..MaxChanges :
          uplink'[i].kind = "confirm" /\ NumberPath(d, k) \in uplink'[i].facts => k <= srvSeq'[d]
    BY <1>2 DEF WishInv, NumberInv
  <2>3. \A i \in DOMAIN uplink', d \in Devices, k \in 0..MaxChanges :
          uplink'[i].kind = "confirm" /\ NumberPath(d, k) \in uplink'[i].facts => k <= srvSeq'[d]
    BY <1>6, <2>1, <2>2
  <2> QED
    BY <2>3 DEF WishInv, NumberInv
<1>8. OrderInv' /\ KnownInv'
  BY DEF WishInv, OrderInv, KnownInv, Processed, Known
<1>9. \A x \in Points : Confirms(uplink'[n], x, wish', srvSeq') <=>
        /\ kind = "confirm" /\ x \in PointsIn(m, "desired") /\ wish[x] # None
        /\ NumberPath(x[1], srvSeq[x[1]]) \in m.facts
  BY <1>2, <1>3 DEF Confirms
<1>10. \A i \in DOMAIN uplink, x \in Points :
         Confirms(uplink'[i], x, wish', srvSeq') <=> Confirms(uplink[i], x, wish, srvSeq)
  BY <1>2
<1>11. ConfirmInv'
  <2>1. ASSUME NEW x \in Points, Confirms(uplink'[n], x, wish', srvSeq') PROVE x \in met
    <3>1. x \in desiredBits /\ wish[x] # None /\ srvSeq[x[1]] = sequence[x[1]]
      BY <1>3, <1>4, <1>5, <1>9, <2>1, PointType
    <3> QED
      BY <1>5, <3>1 DEF WishInv, KnownInv, Processed
  <2> QED
    BY <1>6, <1>10, <2>1 DEF WishInv, ConfirmInv
<1>12. OweInv'
  <2> SUFFICES ASSUME NEW x \in Known, Processed(x)' PROVE Owed(x)'
    BY DEF OweInv, Known
  <2>1. Processed(x) /\ Owed(x) /\ x \in Points /\ x[1] \in Devices
    BY PointType DEF Processed, WishInv, OweInv
  <2>2. \A i \in DOMAIN uplink :
          Confirms(uplink[i], x, wish, srvSeq) => i \in DOMAIN uplink' /\ Confirms(uplink'[i], x, wish', srvSeq')
    BY <1>2, <1>10, <2>1
  <2>3. CASE kind = "confirm" /\ x \in desiredBits
    <3>1. sequence[x[1]] > 0 /\ sequence[x[1]] = srvSeq[x[1]] /\ wish[x] # None
      BY <2>1 DEF Processed, WishInv, NumberInv
    <3>2. Confirms(uplink'[n], x, wish', srvSeq')
      BY <1>3, <1>9, <2>1, <2>3, <3>1
    <3>3. n \in DOMAIN uplink'
      BY <1>2
    <3> QED
      BY <3>2, <3>3 DEF Owed
  <2>4. CASE ~(kind = "confirm" /\ x \in desiredBits)
    <3>1. x \in desiredBits => x \in desiredBits'
      BY <2>4 DEF ClearBits
    <3>2. <<"confirm", x>> \in lost => <<"confirm", x>> \in lost'
      BY <2>4 DEF Bits
    <3> QED
      BY <2>1, <2>2, <3>1, <3>2 DEF Owed
  <2> QED
    BY <2>3, <2>4
<1> QED
  BY <1>7, <1>8, <1>11, <1>12 DEF WishInv

\* When no value is too long, all that a document orders is done.
LEMMA AllReached ==
  ASSUME Oversized = {}, NEW doc
  PROVE  /\ Reached(doc) = {d \in Devices : doc[d].seq > 0}
         /\ Ordered(doc) = {x \in Points : doc[x[1]].seq > 0 /\ doc[x[1]].values[x[2]] # None}
<1>1. Reached(doc) = {d \in Devices : doc[d].seq > 0}
  BY DEF Reached, Fails
<1> QED
  BY <1>1, PointType DEF Ordered

\* A document is taken from those under way and processed.
LEMMA ReceiveWishes ==
  ASSUME Oversized = {}, TypeInv, WishInv, NEW k, Receive(k)
  PROVE  WishInv'
<1> DEFINE doc == downlink[k].doc
<1>1. downlink \in Seq(Orders) /\ k \in DOMAIN downlink /\ downlink' = Without(downlink, k)
  BY DEF Receive, Without, TypeInv, TypeOK, Orders
<1>2. doc \in Controls
  <2>1. downlink[k] \in Orders
    BY <1>1
  <2> QED
    BY <2>1 DEF Orders
<1>3. \A i \in DOMAIN downlink' : \E j \in DOMAIN downlink : downlink'[i] = downlink[j]
  BY <1>1, RemovalType
<1>4. Process(doc) /\ UNCHANGED <<wish, srvSeq, uplink, lost>>
  BY DEF Receive, server
<1>5. /\ \A d \in Devices : doc[d].seq <= srvSeq[d]
      /\ \A x \in Points : doc[x[1]].seq = srvSeq[x[1]] /\ wish[x] # None => doc[x[1]].values[x[2]] = wish[x]
  BY <1>1 DEF WishInv, NumberInv, OrderInv
<1> HIDE DEF doc
<1>6. /\ \A d \in Devices : sequence'[d] = IF d \in Reached(doc) \cap Registered THEN doc[d].seq ELSE sequence[d]
      /\ \A x \in Points : data'[x] = IF x \in Taken(doc) THEN doc[x[1]].values[x[2]] ELSE data[x]
      /\ met \subseteq met' /\ \A x \in Points : data'[x] = wish[x] => x \in met'
      /\ desiredBits' = desiredBits \cup Taken(doc)
  BY <1>4 DEF Process, Becomes, Fulfilled
<1>7. NumberInv'
  <2>1. \A d \in Devices : sequence'[d] <= srvSeq'[d]
    BY <1>4, <1>5, <1>6 DEF WishInv, NumberInv
  <2> QED
    BY <1>3, <1>4, <2>1 DEF WishInv, NumberInv
<1>8. OrderInv'
  BY <1>3, <1>4 DEF WishInv, OrderInv
<1>9. ASSUME NEW x \in Known, Processed(x)' PROVE x \in Taken(doc) \/ Processed(x)
  <2>1. x \in Points /\ x[1] \in Registered /\ x[1] \in Devices /\ sequence'[x[1]] = srvSeq[x[1]] /\ wish[x] # None
    BY <1>4, <1>9, PointType DEF Processed, Known
  <2>2. CASE x[1] \in Reached(doc)
    <3>1. doc[x[1]].seq = srvSeq[x[1]] /\ doc[x[1]].seq > 0
      BY <1>6, <2>1, <2>2, AllReached
    <3>2. doc[x[1]].values[x[2]] = wish[x]
      BY <1>5, <2>1, <3>1
    <3>3. x \in Ordered(doc)
      BY <2>1, <3>1, <3>2, AllReached
    <3> QED
      BY <3>3 DEF Taken
  <2>3. CASE x[1] \notin Reached(doc)
    BY <1>6, <2>1, <2>3 DEF Processed
  <2> QED
    BY <2>2, <2>3
<1>10. KnownInv'
  <2> SUFFICES ASSUME NEW x \in Known, Processed(x)' PROVE x \in met'
    BY DEF KnownInv, Known
  <2>1. x \in Points /\ x[1] \in Registered /\ x[1] \in Devices /\ sequence'[x[1]] = srvSeq[x[1]] /\ wish[x] # None
    BY <1>4, PointType DEF Processed, Known
  <2>2. CASE x \in Taken(doc)
    <3>1. x[1] \in Reached(doc)
      BY <2>2 DEF Taken, Ordered
    <3>2. doc[x[1]].seq = srvSeq[x[1]]
      BY <1>6, <2>1, <3>1
    <3>3. data'[x] = wish[x]
      BY <1>5, <1>6, <2>1, <2>2, <3>2
    <3> QED
      BY <1>6, <2>1, <3>3
  <2>3. CASE Processed(x)
    BY <1>6, <2>3 DEF WishInv, KnownInv
  <2> QED
    BY <1>9, <2>2, <2>3
<1>11. ConfirmInv'
  BY <1>4, <1>6 DEF WishInv, ConfirmInv
<1>12. OweInv'
  <2> SUFFICES ASSUME NEW x \in Known, Processed(x)' PROVE Owed(x)'
    BY DEF OweInv, Known
  <2>1. CASE x \in Taken(doc)
    BY <1>6, <2>1 DEF Owed
  <2>2. CASE Processed(x)
    BY <1>4, <1>6, <2>2 DEF WishInv, OweInv, Owed
  <2> QED
    BY <1>9, <2>1, <2>2
<1> QED
  BY <1>7, <1>8, <1>10, <1>11, <1>12 DEF WishInv

\* The server wishes something: its number is one nobody knows yet.
LEMMA MadeWishes ==
  ASSUME TypeInv, TypeInv', WishInv, NEW x \in Points, NEW v \in Values, Wish(x, v)
  PROVE  WishInv'
<1> DEFINE order == [slot |-> NoSlot, doc |-> Desired(wish', srvSeq', {x[1]})]
<1>1. /\ UNCHANGED <<sequence, desiredBits, uplink, lost>> /\ x[1] \in Devices
      /\ downlink \in Seq(Orders) /\ downlink' = Append(downlink, order)
      /\ wish' = [wish EXCEPT ![x] = v] /\ srvSeq' = [srvSeq EXCEPT ![x[1]] = @ + 1]
      /\ v # None
  BY PointType, ConstantsAssumption DEF Wish, table, TypeInv, TypeOK, Orders
<1>2. /\ \A d \in Devices : srvSeq[d] \in Nat /\ sequence[d] \in Nat /\ srvSeq'[d] \in 0..MaxChanges
      /\ srvSeq'[x[1]] = srvSeq[x[1]] + 1 /\ \A d \in Devices \ {x[1]} : srvSeq'[d] = srvSeq[d]
  BY <1>1, PointType DEF TypeInv, TypeOK
<1>3. \A y \in Points : y[1] # x[1] => y # x /\ wish'[y] = wish[y]
  BY <1>1 DEF TypeInv, TypeOK
<1>4. order \in Orders
  BY DesiredType DEF TypeInv, TypeOK, Orders
<1>5. PICK n : n = Len(downlink) + 1
  OBVIOUS
<1>6. /\ \A i \in DOMAIN downlink' : i = n \/ (i \in DOMAIN downlink /\ downlink'[i] = downlink[i])
      /\ downlink'[n] = order
  <2> HIDE DEF order
  <2>1. /\ downlink' = Append(downlink, order) /\ DOMAIN Append(downlink, order) = 1..(Len(downlink) + 1)
        /\ Append(downlink, order)[Len(downlink) + 1] = order /\ DOMAIN downlink = 1..Len(downlink)
        /\ \A i \in DOMAIN downlink : Append(downlink, order)[i] = downlink[i]
    BY <1>1, <1>4, AppendType
  <2>2. Len(downlink) \in Nat
    BY <1>1
  <2> QED
    BY <1>5, <2>1, <2>2
<1>7. \A d \in Devices, p \in 1..NumProps :
        /\ order.doc[d].seq = IF d = x[1] THEN srvSeq'[d] ELSE 0
        /\ order.doc[d].values[p] = wish'[<<d, p>>]
  BY DEF Desired
<1> HIDE DEF order
<1>8. \A d \in Devices : sequence[d] <= srvSeq[d] /\ srvSeq[d] <= srvSeq'[d]
  BY <1>2 DEF WishInv, NumberInv
<1>9. \A y \in Points : wish'[y] # None => srvSeq'[y[1]] > 0 /\ (y[1] # x[1] => srvSeq[y[1]] > 0)
  BY <1>2, <1>3, PointType DEF WishInv, NumberInv
<1>10. NumberInv'
  <2>1. \A d \in Devices : sequence'[d] <= srvSeq'[d]
    BY <1>1, <1>2, <1>8
  <2>2. ASSUME NEW i \in DOMAIN downlink', NEW d \in Devices PROVE downlink'[i].doc[d].seq <= srvSeq'[d]
    <3>1. CASE i = n
      <4>1. 1 \in Nat /\ 0 <= srvSeq'[d] /\ srvSeq'[d] <= srvSeq'[d]
        BY <1>2
      <4>2. downlink'[i].doc[d].seq = 0 \/ downlink'[i].doc[d].seq = srvSeq'[d]
        <5>1. order.doc[d].seq = IF d = x[1] THEN srvSeq'[d] ELSE 0
          BY <1>4, DesiredType, PointType DEF Desired, order
        <5> QED
          BY <1>6, <3>1, <5>1
      <4> QED
        BY <4>1, <4>2
    <3>2. CASE i # n
      <4>1. i \in DOMAIN downlink /\ downlink'[i] = downlink[i]
        BY <1>6, <3>2
      <4>2. downlink[i] \in Orders
        BY <1>1, <4>1
      <4>3. downlink[i].doc[d].seq \in Nat
        BY <4>2, PointType DEF Orders, Controls
      <4> QED
        BY <1>2, <1>8, <4>1, <4>3 DEF WishInv, NumberInv
    <3> QED
      BY <3>1, <3>2
  <2>3. ASSUME NEW i \in DOMAIN uplink', NEW d \in Devices, NEW k \in 0..MaxChanges,
               uplink'[i].kind = "confirm", NumberPath(d, k) \in uplink'[i].facts
        PROVE  k <= srvSeq'[d]
    <3>1. k <= srvSeq[d]
      BY <1>1, <2>3 DEF WishInv, NumberInv
    <3> QED
      BY <1>2, <1>8, <3>1, PointType
  <2> QED
    BY <1>9, <2>1, <2>2, <2>3 DEF NumberInv
<1>11. OrderInv'
  <2> SUFFICES ASSUME NEW i \in DOMAIN downlink', NEW y \in Points,
                      downlink'[i].doc[y[1]].seq = srvSeq'[y[1]], wish'[y] # None
               PROVE  downlink'[i].doc[y[1]].values[y[2]] = wish'[y]
    BY DEF OrderInv
  <2>0. y[1] \in Devices /\ y[2] \in 1..NumProps /\ y = <<y[1], y[2]>>
    BY PointType
  <2>1. CASE i = n
    BY <1>6, <1>7, <2>0, <2>1
  <2>2. CASE i # n
    <3>1. i \in DOMAIN downlink /\ downlink'[i] = downlink[i]
      BY <1>6, <2>2
    <3>2. downlink[i].doc[y[1]].seq <= srvSeq[y[1]]
      BY <2>0, <3>1 DEF WishInv, NumberInv
    <3>3. y[1] # x[1]
      BY <1>2, <2>0, <3>1, <3>2
    <3> QED
      BY <1>2, <1>3, <2>0, <3>1, <3>3 DEF WishInv, OrderInv
  <2> QED
    BY <2>1, <2>2
<1>12. \A y \in Points : Processed(y)' => y[1] # x[1] /\ Processed(y)
  BY <1>1, <1>2, <1>3, <1>8, PointType DEF Processed
<1>13. \A y \in Points : y # x => (y \in met' <=> y \in met)
  BY DEF Wish
<1>14. KnownInv'
  BY <1>3, <1>12, <1>13, PointType DEF WishInv, KnownInv, Known
<1>15. \A i \in DOMAIN uplink, y \in Points :
         y[1] # x[1] => (Confirms(uplink[i], y, wish', srvSeq') <=> Confirms(uplink[i], y, wish, srvSeq))
  BY <1>2, <1>3, PointType DEF Confirms
<1>16. ConfirmInv'
  <2> SUFFICES ASSUME NEW i \in DOMAIN uplink, NEW y \in Points, Confirms(uplink[i], y, wish', srvSeq')
               PROVE  y \in met'
    BY <1>1 DEF ConfirmInv
  <2>1. y[1] # x[1]
    <3> SUFFICES ASSUME y[1] = x[1] PROVE FALSE
      OBVIOUS
    <3>1. srvSeq'[x[1]] <= srvSeq[x[1]]
      BY <1>1, <1>2 DEF Confirms, WishInv, NumberInv
    <3> QED
      BY <1>1, <1>2, <3>1
  <2> QED
    BY <1>3, <1>13, <1>15, <2>1 DEF WishInv, ConfirmInv
<1>17. OweInv'
  BY <1>1, <1>12, <1>15, PointType DEF WishInv, OweInv, Owed, Known
<1> QED
  BY <1>10, <1>11, <1>14, <1>16, <1>17 DEF WishInv

\* The server gets a document: it takes wishes back, and answers with wishes and their numbers.
LEMMA ServedWishes ==
  ASSUME TypeInv, WishInv, ServerReceives
  PROVE  WishInv'
<1> DEFINE m == Head(uplink)
           order == [slot |-> m.slot, doc |-> Desired(wish, srvSeq, Asked(m))]
<1>1. /\ UNCHANGED <<sequence, srvSeq, desiredBits, met, lost>>
      /\ uplink # <<>> /\ uplink' = Tail(uplink) /\ uplink \in Seq(Messages) /\ downlink \in Seq(Orders)
      /\ downlink' = downlink \/ downlink' = Append(downlink, order)
      /\ wish' = [x \in Points |-> IF x \in Confirmed(m) THEN None ELSE wish[x]]
  BY DEF ServerReceives, table, TypeInv, TypeOK, Orders
<1>2. /\ m \in Messages /\ m = uplink[1] /\ 1 \in DOMAIN uplink
      /\ \A i \in DOMAIN uplink' : i + 1 \in DOMAIN uplink /\ uplink'[i] = uplink[i + 1]
      /\ \A i \in DOMAIN uplink : i # 1 => i - 1 \in DOMAIN uplink' /\ uplink'[i - 1] = uplink[i]
  BY <1>1, TailType
<1>3. order \in Orders
  <2>1. Desired(wish, srvSeq, Asked(m)) \in Controls
    BY DesiredType DEF TypeInv, TypeOK
  <2> QED
    BY <1>2, <2>1 DEF Orders, Messages
<1>4. \A x \in Points : order.doc[x[1]].seq \in {0, srvSeq[x[1]]} /\ order.doc[x[1]].values[x[2]] = wish[x]
  BY PointType DEF Desired
<1> HIDE DEF m, order
<1>5. \A x \in Points : wish'[x] = wish[x] \/ (wish'[x] = None /\ x \in Confirmed(m))
  BY <1>1
<1>6. \A x \in Points : wish'[x] # None => wish'[x] = wish[x] /\ ~Confirms(m, x, wish, srvSeq)
  BY <1>1, ConfirmedIs
<1>7. PICK n : n = Len(downlink) + 1
  OBVIOUS
<1>8. \A i \in DOMAIN downlink' : \/ i = n /\ downlink'[i] = order
                                  \/ i \in DOMAIN downlink /\ downlink'[i] = downlink[i]
  <2>1. CASE downlink' = downlink
    BY <2>1
  <2>2. CASE downlink' = Append(downlink, order)
    <3>1. /\ DOMAIN downlink' = 1..(Len(downlink) + 1) /\ downlink'[Len(downlink) + 1] = order
          /\ DOMAIN downlink = 1..Len(downlink) /\ Len(downlink) \in Nat
          /\ \A i \in DOMAIN downlink : downlink'[i] = downlink[i]
      BY <1>1, <1>3, <2>2, AppendType
    <3> QED
      BY <1>7, <3>1
  <2> QED
    BY <1>1, <2>1, <2>2
<1>9. \A d \in Devices : srvSeq[d] \in Nat
  BY PointType DEF TypeInv, TypeOK
<1>10. NumberInv'
  <2>1. ASSUME NEW i \in DOMAIN downlink', NEW d \in Devices PROVE downlink'[i].doc[d].seq <= srvSeq'[d]
    <3>1. CASE downlink'[i] = order
      <4>1. order.doc[d].seq = 0 \/ order.doc[d].seq = srvSeq[d]
        BY DesiredType DEF order, Desired
      <4> QED
        BY <1>1, <1>9, <3>1, <4>1
    <3>2. CASE i \in DOMAIN downlink /\ downlink'[i] = downlink[i]
      BY <1>1, <3>2 DEF WishInv, NumberInv
    <3> QED
      BY <1>8, <3>1, <3>2
  <2>2. \A i \in DOMAIN uplink', d \in Devices, k \in 0..MaxChanges :
          uplink'[i].kind = "confirm" /\ NumberPath(d, k) \in uplink'[i].facts => k <= srvSeq'[d]
    BY <1>1, <1>2 DEF WishInv, NumberInv
  <2> QED
    BY <1>1, <1>6, <2>1, <2>2 DEF WishInv, NumberInv
<1>11. OrderInv'
  <2> SUFFICES ASSUME NEW i \in DOMAIN downlink', NEW x \in Points,
                      downlink'[i].doc[x[1]].seq = srvSeq'[x[1]], wish'[x] # None
               PROVE  downlink'[i].doc[x[1]].values[x[2]] = wish'[x]
    BY DEF OrderInv
  <2>0. wish'[x] = wish[x] /\ wish[x] # None
    BY <1>6
  <2>1. CASE downlink'[i] = order
    BY <1>4, <2>0, <2>1
  <2>2. CASE i \in DOMAIN downlink /\ downlink'[i] = downlink[i]
    BY <1>1, <2>0, <2>2 DEF WishInv, OrderInv
  <2> QED
    BY <1>8, <2>1, <2>2
<1>12. \A x \in Points : Processed(x)' => Processed(x)
  BY <1>1, <1>6 DEF Processed
<1>13. KnownInv'
  BY <1>1, <1>12, PointType DEF WishInv, KnownInv, Known
<1>14. \A i \in DOMAIN uplink', x \in Points :
         Confirms(uplink'[i], x, wish', srvSeq') => Confirms(uplink[i + 1], x, wish, srvSeq)
  BY <1>1, <1>2, <1>6 DEF Confirms
<1>15. ConfirmInv'
  BY <1>1, <1>2, <1>14 DEF WishInv, ConfirmInv
<1>16. OweInv'
  <2> SUFFICES ASSUME NEW x \in Known, Processed(x)' PROVE Owed(x)'
    BY DEF OweInv, Known
  <2>1. Processed(x) /\ Owed(x) /\ x \in Points /\ wish'[x] # None
    BY <1>12, PointType DEF Processed, WishInv, OweInv
  <2>2. ASSUME NEW i \in DOMAIN uplink, Confirms(uplink[i], x, wish, srvSeq) PROVE Owed(x)'
    <3>1. i # 1
      BY <1>2, <1>6, <2>1, <2>2
    <3>2. i - 1 \in DOMAIN uplink' /\ uplink'[i - 1] = uplink[i]
      BY <1>2, <3>1
    <3>3. Confirms(uplink'[i - 1], x, wish', srvSeq')
      BY <1>1, <1>6, <2>1, <2>2, <3>2 DEF Confirms
    <3> QED
      BY <3>2, <3>3 DEF Owed
  <2> QED
    BY <1>1, <2>1, <2>2 DEF Owed
<1> QED
  BY <1>10, <1>11, <1>13, <1>15, <1>16 DEF WishInv

LEMMA WishStep ==
  ASSUME Oversized = {}
  PROVE  TypeInv /\ TypeInv' /\ WishInv /\ [Next]_vars => WishInv'
<1> SUFFICES ASSUME TypeInv, TypeInv', WishInv, [Next]_vars PROVE WishInv'
  OBVIOUS
<1> USE DEF table, server
<1>1. CASE RequestSkipped \/ PublishReturns \/ AnswerDone \/ MainGoesOn \/ Drained
  BY <1>1, QuietWishes DEF RequestSkipped, PublishReturns, AnswerDone, MainGoesOn, Drained
<1>2. CASE RequestRefused
  <2>1. \A x \in Known : x \in desiredBits \/ <<"confirm", x>> \in lost
                           => x \in desiredBits' \/ <<"confirm", x>> \in lost'
    BY <1>2 DEF RequestRefused, ClearBits, Forgets, Bits
  <2> QED
    BY <1>2, <2>1, QuietWishes DEF RequestRefused
<1>3. CASE RequestFails
  <2>1. \A x \in Known : x \in desiredBits \/ <<"confirm", x>> \in lost
                           => x \in desiredBits' \/ <<"confirm", x>> \in lost'
    BY <1>3 DEF RequestFails, ClearBits, Loses, Forgets, Bits
  <2> QED
    BY <1>3, <2>1, QuietWishes DEF RequestFails
<1>4. CASE RequestPublished
  <2> DEFINE kind == Top.kind
  <2>1. kind \in Kinds
    BY <1>4, CallType DEF RequestPublished, In
  <2>2. PICK i \in Slots, room \in Rooms : Publish(kind, Document(kind, room), i)
    BY <1>4 DEF RequestPublished
  <2>3. ClearBits(kind) /\ UNCHANGED <<sequence, wish, srvSeq, downlink, met>>
    BY <1>4 DEF RequestPublished
  <2> HIDE DEF kind
  <2>4. CASE Loses(kind) /\ UNCHANGED uplink
    <3>1. \A x \in Known : x \in desiredBits \/ <<"confirm", x>> \in lost
                             => x \in desiredBits' \/ <<"confirm", x>> \in lost'
      BY <2>3, <2>4 DEF ClearBits, Loses, Forgets, Bits
    <3> QED
      BY <2>3, <2>4, <3>1, QuietWishes
  <2>5. CASE /\ Document(kind, room).ok
             /\ uplink' = Append(uplink, Message(kind, Document(kind, room), i))
             /\ lost' = lost \ ({kind} \X Bits(kind))
    BY <2>1, <2>3, <2>5, PublishWishes
  <2> QED
    BY <2>2, <2>4, <2>5 DEF Publish
<1>5. ASSUME NEW i, Acknowledged(i) \/ Expire(i) PROVE WishInv'
  BY <1>5, QuietWishes DEF Acknowledged, Expire
<1>6. ASSUME NEW i, Receive(i) PROVE WishInv'
  BY Oversized = {}, <1>6, ReceiveWishes
<1>7. ASSUME NEW x \in Known, NEW v \in Values, AppReports(x, v) PROVE WishInv'
  BY <1>7, QuietWishes DEF AppReports, Becomes
<1>8. ASSUME NEW x \in Points, NEW v \in Values, Wish(x, v) PROVE WishInv'
  BY <1>8, MadeWishes
<1>9. CASE ServerReceives
  BY <1>9, ServedWishes
<1>10. CASE UNCHANGED vars
  BY <1>10, QuietWishes DEF vars
<1> QED
  BY <1>1, <1>2, <1>3, <1>4, <1>5, <1>6, <1>7, <1>8, <1>9, <1>10 DEF Next, Requests

\* The present desired state of a device, once processed, is confirmed or still to be
\* confirmed, with its own number, unless a value too long ended the processing.
THEOREM ConfirmationsOwed ==
  ASSUME Oversized = {}
  PROVE  Spec => []ConfirmOwed
<1>1. WishInv => ConfirmOwed
  BY ConfirmedIs DEF WishInv, OweInv, Owed, Processed, ConfirmOwed, Known
<1>2. TypeInv /\ TypeInv' /\ WishInv /\ [Next]_vars => WishInv'
  BY Oversized = {}, WishStep
<1> QED
  BY <1>1, <1>2, WishInit, TypeInvariant, PTL DEF Spec

-----------------------------------------------------------------------------
(* The refinement of Wishes.                                               *)

LEMMA RefinementInit == Init => Abstract!Init
<1> SUFFICES ASSUME Init PROVE Abstract!Init
  OBVIOUS
<1>1. data \in [Points -> Values] /\ wish \in [Points -> Values \cup {None}]
  BY ConstantsAssumption DEF Init
<1>2. \A x \in Points : data[x] # wish[x]
  BY ConstantsAssumption DEF Init
<1>3. met = {}
  BY DEF Init
<1> QED
  BY <1>1, <1>2, <1>3 DEF Abstract!Init, Abstract!Fulfilled

LEMMA RefinementStep ==
  TypeInv /\ TypeInv' /\ WishInv /\ [Next]_vars => [Abstract!Next]_(Abstract!vars)
<1> SUFFICES ASSUME TypeInv, TypeInv', WishInv, [Next]_vars
             PROVE  Abstract!Next \/ UNCHANGED <<data, wish, met>>
  BY DEF Abstract!vars
<1> USE DEF table, server
<1>1. CASE Requests \/ PublishReturns \/ AnswerDone \/ MainGoesOn \/ Drained
  BY <1>1 DEF Requests, RequestSkipped, RequestRefused, RequestFails, RequestPublished,
              PublishReturns, AnswerDone, MainGoesOn, Drained
<1>2. ASSUME NEW i, Acknowledged(i) \/ Expire(i) PROVE UNCHANGED <<data, wish, met>>
  BY <1>2 DEF Acknowledged, Expire
<1>3. ASSUME NEW d, Becomes(d), UNCHANGED wish PROVE Abstract!Change
  BY <1>3 DEF Becomes, Fulfilled, Abstract!Change, Abstract!Fulfilled, TypeInv, TypeOK
<1>4. ASSUME NEW i, Receive(i) PROVE Abstract!Next
  BY <1>3, <1>4 DEF Receive, Process, Abstract!Next
<1>5. ASSUME NEW x \in Known, NEW v \in Values, AppReports(x, v) PROVE Abstract!Next
  BY <1>3, <1>5 DEF AppReports, Abstract!Next
<1>6. ASSUME NEW x \in Points, NEW v \in Values, Wish(x, v) PROVE Abstract!Next
  BY <1>6 DEF Wish, Abstract!Next, Abstract!Make
<1>7. CASE ServerReceives
  <2> DEFINE m == Head(uplink)
  <2>1. m = uplink[1] /\ 1 \in DOMAIN uplink
    BY <1>7, TailType DEF ServerReceives, TypeInv
  <2>2. wish' = [x \in Points |-> IF x \in Confirmed(m) THEN None ELSE wish[x]] /\ UNCHANGED <<data, met>>
    BY <1>7 DEF ServerReceives
  <2> HIDE DEF m
  <2>3. Confirmed(m) \subseteq Points /\ Confirmed(m) \subseteq met
    BY <2>1, ConfirmedIs DEF WishInv, ConfirmInv
  <2>4. Abstract!Clear(Confirmed(m))
    BY <2>2, <2>3 DEF Abstract!Clear
  <2> QED
    BY <2>3, <2>4 DEF Abstract!Next
<1>8. CASE UNCHANGED vars
  BY <1>8 DEF vars
<1> QED
  BY <1>1, <1>2, <1>4, <1>5, <1>6, <1>7, <1>8 DEF Next

\* The gateway implements Wishes: a confirmation takes back a wish for a value of a sub-device
\* only after that sub-device has had it, however documents overtake each other, whatever the
\* publications receive and whatever is lost, unless a value too long ended the processing of
\* a document.
THEOREM WishesImplemented ==
  ASSUME Oversized = {}
  PROVE  Spec => ImplementsWishes
<1>1. TypeInv /\ TypeInv' /\ WishInv /\ [Next]_vars => WishInv'
  BY Oversized = {}, WishStep
<1> QED
  BY <1>1, WishInit, RefinementInit, RefinementStep, TypeInvariant, PTL
     DEF Spec, ImplementsWishes, Abstract!Spec
=============================================================================
