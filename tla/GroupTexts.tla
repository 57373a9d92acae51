------------------------------ MODULE GroupTexts ------------------------------
(***************************************************************************)
(* The texts of the documents of SubDevice and GroupDocument: what         *)
(* tc_iot_sub_device_group_doc_add_data, which opens the brackets at the   *)
(* end of a text again, leaves in a buffer of any length, and what         *)
(* tc_iot_group_doc_parse finds in the text of a control document.  Long   *)
(* names are shortened.                                                    *)
(***************************************************************************)
EXTENDS SubDevice, Json

CONSTANTS
  TextOf,      \* the text of every name, product, device and property
  ValueTexts,  \* texts the values may have
  Lengths,     \* sizes of the buffer a document is written to
  MaxField,    \* TC_IOT_SHADOW_MAX_FIELD_LEN
  MaxTokens    \* TC_IOT_MAX_JSON_TOKEN_COUNT

ASSUME TextAssumption ==
  \A texts \in ValueTexts, v \in Values : v \in Oversized <=> Len(texts[v]) >= MaxField

NULL == <<110, 117, 108, 108>>
Method == [online |-> <<111, 110>>, offline |-> <<111, 102>>, get |-> <<103, 103>>,
           report |-> <<103, 117>>, confirm |-> <<103, 100>>]
CONTROL == <<103, 99>>

-----------------------------------------------------------------------------
(* Writing.                                                                *)

\* The name of an entry, and what a member says: in a state the value of the property, or
\* null to confirm it; the name of the object around it; a number.
Around(path) == path[Len(path) - 1]
NameOf(path) == IF Around(path) = "sequence" THEN "sequence" ELSE Last(path)
Said(path, values, texts) ==
  CASE Around(path) = "desired" -> [bytes |-> NULL, string |-> FALSE]
    [] Around(path) = "reported" ->
         [bytes |-> texts[values[CHOOSE x \in Points : PointPath(x[1], "reported", x[2]) = path]],
          string |-> TRUE]
    [] Last(path) \in {"product", "dev_name"} -> [bytes |-> TextOf[Around(path)], string |-> TRUE]
    [] Last(path) \in {"sid", "sign"} -> [bytes |-> TextOf[Last(path)], string |-> TRUE]
    [] OTHER -> [bytes |-> TextOf[Last(path)], string |-> FALSE]

\* tc_iot_sub_device_group_doc_init.
EmptyText(method, len) ==
  Buffer(Close(End(Begin(String(Open(len), TextOf["method"], method), TextOf["sub_dev"], LBracket), RBracket)))

\* Mutant: the brackets of arrays are not counted.
BracketsOfObjects(text) ==
  LET others == {k \in Max({Len(text) - MAX_DEPTH, 1})..Len(text) : text[k] # RBrace}
  IN  IF others = {} THEN Min({Len(text), MAX_DEPTH + 1}) ELSE Len(text) - Max(others)

\* How many brackets there are at the end of a text, one more than MAX_DEPTH at most.
Brackets(text) ==
  LET others == {k \in Max({Len(text) - MAX_DEPTH, 1})..Len(text) : text[k] \notin {RBrace, RBracket}}
  IN  IF others = {} THEN Min({Len(text), MAX_DEPTH + 1}) ELSE Len(text) - Max(others)

\* What tc_iot_sub_device_group_doc_add_data has the writer write: an object without a name,
\* an object or array, or a member.
Write(w, call, values, texts) ==
  LET name == TextOf[NameOf(call.path)]
      said == Said(call.path, values, texts)
      empty == IF Last(call.path) = "device_list" THEN <<LBracket, RBracket>> ELSE <<LBrace, RBrace>>
  IN  IF call.isContainer /\ call.depth \in {PRODUCT_DEPTH, DEVICE_DEPTH} THEN Element(w, <<Raw(empty)>>)
      ELSE IF call.isContainer THEN Value(w, name, empty)
      ELSE IF said.string THEN String(w, name, said.bytes)
      ELSE Value(w, name, said.bytes)

\* tc_iot_sub_device_group_doc_add_data: the entry is written over the brackets, all of them
\* if depth is 0, and they behind it, whatever became of the entry.  It fails when they are
\* not there, or end exactly with the buffer.
AddText(text, len, call, values, texts) ==
  LET depth == IF call.depth = 0 THEN Brackets(text) ELSE call.depth
      before == SubSeq(text, 1, Len(text) - depth)
      out == Write(Load(before, len), call, values, texts).out \o SubSeq(text, Len(before) + 1, Len(text))
  IN  IF Len(text) < 2 * depth \/ depth > MAX_DEPTH \/ Brackets(text) < depth
      THEN [text |-> text, failed |-> TRUE]
      ELSE [text |-> Buffer(Load(out, len)), failed |-> depth = 0 \/ Len(out) = len]

\* The callers look at no result but before these entries, which are left out then.
Chained == {"product", "device_list", "dev_name", "sequence", "sid"}

\* The text of a document, a set of one, or none when the session id was not added.
Texts(message, texts, len) ==
  LET done == Through(LAMBDA acc, call :
                        IF acc.failed /\ NameOf(call.path) \in Chained THEN acc
                        ELSE AddText(acc.text, len, call, message.data, texts),
                      [text |-> EmptyText(Method[message.kind], len), failed |-> FALSE],
                      message.calls)
  IN  IF done.failed THEN {} ELSE {done.text}

-----------------------------------------------------------------------------
(* What a server finds in a text that was published.                       *)

Has(text, tokens, k, name, value) ==
  LET j == FindChild(text, tokens, k, TextOf[name]) IN j # NoToken /\ Found(text, tokens[j]) = value

\* The product or device of this name in a list, the member of this name in an object.
Inside(text, tokens, k, name) ==
  LET named == {j \in Children(tokens, k) :
                  \E field \in {"product", "dev_name"} : Has(text, tokens, j, field, TextOf[name])}
  IN  IF k = NoToken THEN NoToken
      ELSE IF tokens[k].type = "array" THEN (IF named = {} THEN NoToken ELSE Min(named))
      ELSE FindChild(text, tokens, k, TextOf[name])

\* A fact, where it should be.
Finds(text, tokens, fact, values, texts) ==
  LET names == IF Around(fact) = "sequence" THEN Front(Tail(fact)) ELSE Tail(fact)
      k == Through(LAMBDA at, name : Inside(text, tokens, at, name), 1, names)
  IN  k # NoToken /\ Found(text, tokens[k]) = Said(fact, values, texts).bytes

\* Every fact, and no others beside the method.
ReadsBack(text, message, texts) ==
  \A tokens \in Parse(text, Len(text)) :
    /\ \A fact \in message.facts : Finds(text, tokens, fact, message.data, texts)
    /\ Has(text, tokens, 1, "method", Method[message.kind])
    /\ Cardinality({k \in DOMAIN tokens : tokens[k].size = 0 /\ tokens[k].type \in {"string", "primitive"}})
         = Cardinality(message.facts) + 1

-----------------------------------------------------------------------------
(* Control documents.                                                      *)

\* As the server writes one: the devices of a product in its list, the reported state of
\* each, for which the values of another document serve, before the desired one.
InOrder(set) == SetToSortSeq(set, <)
StateText(values, texts) ==
  LET present == InOrder({p \in 1..NumProps : values[p] # None})
  IN  Braced([i \in DOMAIN present |->
                Pair(TextOf[ToString(present[i])], Quoted(texts[values[present[i]]]))])
DeviceText(d, doc, other, texts) ==
  Braced(<<Pair(TextOf["dev_name"], Quoted(TextOf[ToString(d)])),
           Pair(TextOf["sequence"], TextOf[ToString(doc[d].seq)]),
           Pair(TextOf["state"],
                Braced(<<Pair(TextOf["reported"], StateText(other[d].values, texts)),
                         Pair(TextOf["desired"], StateText(doc[d].values, texts))>>))>>)
ControlText(doc, other, texts) ==
  LET devices(product) == InOrder({d \in Devices : doc[d].seq > 0 /\ Product[d] = product})
      products == SetToSeq({Product[d] : d \in {e \in Devices : doc[e].seq > 0}})
      list(product) == Bracketed([i \in DOMAIN devices(product) |->
                                    DeviceText(devices(product)[i], doc, other, texts)])
  IN  Braced(<<Pair(TextOf["method"], Quoted(CONTROL)),
               Pair(TextOf["sub_dev"],
                    Bracketed([i \in DOMAIN products |->
                      Braced(<<Pair(TextOf["product"], Quoted(TextOf[products[i]])),
                               Pair(TextOf["device_list"], list(products[i]))>>)]))>>)

\* The loop over a device in tc_iot_group_control_process: its number, then every value of
\* the desired state, up to one that is too long.
DeviceEvents(text, tokens, product, k) ==
  LET child(name) == FindChild(text, tokens, k, TextOf[name])
      desired == FindChild(text, tokens, child("state"), TextOf["desired"])
      event(name, value) == <<product, Found(text, tokens[child("dev_name")]), name, value>>
      name(n) == NthChild(tokens, desired, n)
      value(n) == NthChildValue(text, tokens, name(n), 0)
      fit == {n \in 0..(tokens[desired].size - 1) : \A m \in 0..n : Len(value(m)) < MaxField}
  IN  [events |-> {event(TextOf["sequence"], Found(text, tokens[child("sequence")]))}
                  \cup {event(Span(text, tokens[name(n)]), value(n)) : n \in fit},
       ok |-> Cardinality(fit) = tokens[desired].size]

\* tc_iot_group_control_process: the devices of a product, up to one that fails.
ProductEvents(text, tokens, k) ==
  LET product == Found(text, tokens[FindChild(text, tokens, k, TextOf["product"])])
      list == FindChild(text, tokens, k, TextOf["device_list"])
      next(acc, j) ==
        LET device == DeviceEvents(text, tokens, product, NthChild(tokens, list, j - 1))
        IN  IF acc.ok THEN [device EXCEPT !.events = @ \cup acc.events] ELSE acc
  IN  Through(next, [events |-> {}, ok |-> TRUE], [j \in 1..tokens[list].size |-> j]).events

\* tc_iot_device_on_group_message_received, tc_iot_group_doc_parse: what the event handler
\* is called with.
Events(text) ==
  UNION {LET list == FindChild(text, tokens, 1, TextOf["sub_dev"])
         IN  IF ~Has(text, tokens, 1, "method", CONTROL) \/ list = NoToken THEN {}
             ELSE UNION {ProductEvents(text, tokens, NthChild(tokens, list, i)) :
                           i \in 0..(tokens[list].size - 1)} :
           tokens \in Parse(text, MaxTokens)}

\* What SubDevice takes it for.
Meant(doc, texts) ==
  {<<TextOf[Product[d]], TextOf[ToString(d)], TextOf["sequence"], TextOf[ToString(doc[d].seq)]>> :
     d \in Reached(doc)}
  \cup {<<TextOf[Product[x[1]]], TextOf[ToString(x[1])], TextOf[ToString(x[2])],
          texts[doc[x[1]].values[x[2]]]>> : x \in Ordered(doc)}

-----------------------------------------------------------------------------
(* Properties.                                                             *)

\* The documents there may be, with the values of the properties in a report.
Whole ==
  {LET built == Built[<<kind, bits, seqs, Max(Rooms)>>]
   IN  [kind |-> kind, facts |-> built.facts, calls |-> built.calls,
        data |-> [x \in {y \in bits : kind = "report"} |-> values[x]]] :
     kind \in Kinds, bits \in SUBSET Known, seqs \in [Devices -> 0..MaxChanges],
     values \in [Known -> Values]}

\* Those some text of which does not say what it is to say, though it is whole, or of which
\* none is published though there is room.
Garbled ==
  {m \in Whole : \E texts \in ValueTexts :
     \/ \E len \in Lengths : \E text \in Texts(m, texts, len) : ~ReadsBack(text, m, texts)
     \/ \A text \in Texts(m, texts, Max(Lengths)) : Parse(text, Len(text)) = {}}

\* Values are handed on as they are, so nothing in one may need a backslash.  (The map in
\* Misread makes TLC fill the set once.)
Plain(texts) == \A v \in Values : Escape(texts[v], 99) = texts[v]
Misread ==
  {doc \in {d : d \in Controls} : \E texts \in {t \in ValueTexts : Plain(t)} :
     Events(ControlText(doc, [d \in Devices |-> doc[1]], texts)) # Meant(doc, texts)}

\* Every document about sub-devices that is published says in its text what was put into it,
\* under the right device and product, or is no object at all, however large the buffer was
\* and whatever the calls before returned; and in every control document under way the
\* gateway finds the number and the desired values of each device.  About
\* tc_iot_sub_device_group_doc_add_data, whose results nobody looks at, and
\* tc_iot_group_control_process.
GroupTextsReadBack ==
  /\ \A m \in Garbled, i \in DOMAIN uplink :
       ~ /\ uplink[i].kind = m.kind /\ uplink[i].facts = m.facts
         /\ \A x \in DOMAIN m.data : uplink[i].data[x] = m.data[x]
  /\ \A i \in DOMAIN downlink : downlink[i].doc \notin Misread
=============================================================================
