---------------------------- MODULE GroupDocument ----------------------------
(***************************************************************************)
(* The documents about sub-devices that tc_iot_sub_device.c builds in a    *)
(* text buffer: every call of tc_iot_sub_device_group_doc_add_data opens   *)
(* the closing brackets at the end of the text again, to a depth counted   *)
(* from the root, appends one entry and closes them.  `open' is what those *)
(* brackets close, from the root inwards; `facts' is what a reader of the  *)
(* document finds, each with the containers around it; `calls' is what was *)
(* added so far; `ok' is false once an entry did not fit, the text then    *)
(* ends in the middle of something.  `left' is how many entries still fit. *)
(***************************************************************************)
EXTENDS Integers, Sequences, FiniteSets, SequencesExt

CONSTANTS
  Product,    \* product of each sub-device, in the order of the table
  NumProps    \* properties of a sub-device

Devices == DOMAIN Product
Points == Devices \X (1..NumProps)

ASSUME ProductAssumption == NumProps \in Nat /\ Product \in Seq(STRING)
\* Devices and properties are known by their names, here the texts of their indices.
ASSUME NamesDiffer == \A i, j \in Devices \cup 1..NumProps : ToString(i) = ToString(j) => i = j

PRODUCT_DEPTH == 2    \* TC_IOT_GROUP_DOC_PRODUCT_DEPTH
DEVICE_DEPTH == 4     \* TC_IOT_GROUP_DOC_DEVICE_DEPTH
STATE_DEPTH == 6      \* tc_iot_sub_device_group_doc_add_state_holder
MAX_DEPTH == 15       \* sizeof(backward_quotes) - 1

\* tc_iot_sub_device_group_doc_init.
Empty(room) ==
  [open |-> <<"root", "sub_dev">>, facts |-> {}, calls |-> <<>>, left |-> room, ok |-> TRUE]

\* How many brackets are opened again: depth 0 means all there are.
Depth(doc, depth) == IF depth = 0 THEN Len(doc.open) ELSE depth

\* tc_iot_sub_device_group_doc_add_data: opens the entry if it is a container, adds its
\* path to the facts otherwise.  An invalid depth changes nothing.
Add(doc, depth, name, isContainer) ==
  LET d == Depth(doc, depth)
      inside == SubSeq(doc.open, 1, d)
  IN  IF ~doc.ok \/ d > Len(doc.open) \/ d > MAX_DEPTH THEN doc
      ELSE IF doc.left = 0 THEN [doc EXCEPT !.ok = FALSE]
      ELSE [open |-> IF isContainer THEN inside \o name ELSE inside,
            facts |-> IF isContainer THEN doc.facts ELSE doc.facts \cup {inside \o name},
            calls |-> Append(doc.calls, [depth |-> depth, path |-> inside \o name,
                                         isContainer |-> isContainer]),
            left |-> doc.left - 1, ok |-> TRUE]

\* tc_iot_sub_device_group_doc_add_product: an object, its name, its list.  The object is
\* known by its name, here as in the document.
AddProduct(doc, product) ==
  LET object == Add(doc, PRODUCT_DEPTH, <<product>>, TRUE)
  IN  Add(Add(object, 0, <<"product">>, FALSE), 0, <<"device_list">>, TRUE)

\* tc_iot_sub_device_group_doc_add_device: an object, its name, and the number of the last
\* control document if there was one.
AddDevice(doc, device, number) ==
  LET named == Add(Add(doc, DEVICE_DEPTH, <<ToString(device)>>, TRUE), 0, <<"dev_name">>, FALSE)
  IN  IF number > 0 THEN Add(named, 0, <<"sequence", ToString(number)>>, FALSE) ELSE named

\* Mutant: the holder is opened beside the state of the device.
AddStateBeside(doc, holder) == Add(Add(doc, 0, <<"state">>, TRUE), STATE_DEPTH - 1, <<holder>>, TRUE)

\* "state", then tc_iot_sub_device_group_doc_add_state_holder.
AddState(doc, holder) == Add(Add(doc, 0, <<"state">>, TRUE), STATE_DEPTH, <<holder>>, TRUE)

\* Devices with a bit set; a product is opened when it is not the one before.
WithBits(bits) == {d \in Devices : \E p \in 1..NumProps : <<d, p>> \in bits}
Before(d, bits) == {e \in WithBits(bits) : e < d}
NewProduct(d, bits) == \/ Before(d, bits) = {}
                       \/ Product[Max(Before(d, bits))] # Product[d]

\* The body of the loop over the devices of tc_iot_sub_device_report and
\* tc_iot_sub_device_confirm, with the loop over the properties; devices and properties
\* without a bit are passed over.
AddPoints(doc, d, bits, holder, number) ==
  LET opened == IF NewProduct(d, bits) THEN AddProduct(doc, Product[d]) ELSE doc
      after[p \in 0..NumProps] ==
        IF p = 0 THEN AddState(AddDevice(opened, d, number), holder)
        ELSE IF <<d, p>> \in bits THEN Add(after[p - 1], 0, <<ToString(p)>>, FALSE)
        ELSE after[p - 1]
  IN  after[NumProps]

\* The loop over the devices, from an empty document.
StateBody(bits, holder, seqs, room) ==
  LET after[d \in 0..Len(Product)] ==
        IF d = 0 THEN Empty(room)
        ELSE IF d \in WithBits(bits) THEN AddPoints(after[d - 1], d, bits, holder, seqs[d])
        ELSE after[d - 1]
  IN  after[Len(Product)]

\* A report or a confirmation of the points in bits, with the session id that
\* tc_iot_sub_device_group_doc_pub appends.
StateDocument(bits, holder, seqs, room) ==
  Add(Add(StateBody(bits, holder, seqs, room), 1, <<"passthrough">>, TRUE), 2, <<"sid">>, FALSE)

\* The loop body of tc_iot_sub_device_onoffline, and of the group_get of the example.
AddListed(doc, d, signed) ==
  LET opened == IF d = 1 \/ Product[d - 1] # Product[d] THEN AddProduct(doc, Product[d]) ELSE doc
      device == AddDevice(opened, d, 0)
  IN  IF signed THEN Add(device, 0, <<"sign">>, FALSE) ELSE device

\* A document about every device of the table.
ListDocument(devices, signed, stamps, room) ==
  LET body == FoldLeft(LAMBDA acc, d : AddListed(acc, d, signed),
                       Empty(room), SetToSortSeq(devices, <))
      stamped == FoldLeft(LAMBDA acc, stamp : Add(acc, 1, <<stamp>>, FALSE), body, stamps)
  IN  Add(Add(stamped, 1, <<"passthrough">>, TRUE), 2, <<"sid">>, FALSE)

\* Where a reader of the document looks for a device, and for one of its properties.
DevicePath(d) == <<"root", "sub_dev", Product[d], "device_list", ToString(d)>>
PointPath(d, holder, p) == DevicePath(d) \o <<"state", holder, ToString(p)>>
=============================================================================
