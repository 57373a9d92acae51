--------------------------- MODULE ShadowDocuments ---------------------------
(***************************************************************************)
(* The texts of the documents of ShadowProperty: what the calls that       *)
(* tc_iot_shadow.c makes of the writer leave in the buffer that is         *)
(* published, and what tc_iot_shadow_property.c finds in the text of a     *)
(* control document.  Long names are shortened.                            *)
(***************************************************************************)
EXTENDS ShadowProperty, Json

CONSTANTS
  Name,        \* the name of each property
  ValueTexts,  \* texts the values may have
  Method,      \* a method, in characters: the server may write any as \u and a number
  Lengths,     \* sizes of the buffer a document is written to
  MaxTokens    \* TC_IOT_MAX_JSON_TOKEN_COUNT

\* "method", "passthrough", "sid", "sequence", "state", "reported", "desired", "payload"
METHOD == <<109, 101>>
PASS == <<112, 116>>
SID == <<115, 105>>
SEQUENCE == <<115, 113>>
STATE_FIELD == <<115, 116>>
REPORTED == <<114, 101>>
DESIRED == <<100, 101>>
PAYLOAD == <<112, 97>>
METADATA == <<109, 100>>
GET == <<103>>
UPDATE == <<117>>
DELETE == <<100>>
TRUE_TEXT == <<116>>
FALSE_TEXT == <<102>>
NULL == <<110, 117, 108, 108>>
Sid == <<49, 102>>
Digits(n) == <<48 + n>>

-----------------------------------------------------------------------------
(* Writing.                                                                *)

\* The method and the session id, which every document begins with.
Header(method, len) ==
  End(String(Begin(String(Open(len), METHOD, method), PASS, LBrace), SID, Sid), RBrace)

\* tc_iot_shadow_doc_pack_for_get_with_sid: nothing is published when the last call fails.
GetTexts(len) ==
  LET w == Close(Value(Value(Header(GET, len), METADATA, FALSE_TEXT), REPORTED, TRUE_TEXT))
  IN  IF w.ok THEN {Buffer(w)} ELSE {}

\* tc_iot_shadow_report_property, tc_iot_shadow_confirm_change: one property, and how much
\* it took.
WriteProperty(acc, kind, p, text) ==
  LET w == IF kind = "report" THEN String(acc.w, Name[p], text) ELSE Value(acc.w, Name[p], NULL)
  IN  [w |-> w, took |-> Len(w.out) - Len(acc.w.out)]

\* Mutant: the object the properties are in is not closed.
EndsUnbalanced(w) == End(End(w, RBrace), RBrace)

\* The ends of "reported" or "desired", of "state" and of the document; nobody looks
\* whether they fit.
Ends(w) == End(End(End(w, RBrace), RBrace), RBrace)

\* tc_iot_shadow_check_and_report: it gives up when a property does not fit, or when the
\* last one alone is longer than the buffer.
StateTexts(doc, texts, len) ==
  LET head == IF doc.kind = "report" THEN Header(UPDATE, len)
              ELSE Value(Header(DELETE, len), SEQUENCE, Digits(doc.seq))
      state == Begin(Begin(head, STATE_FIELD, LBrace), IF doc.kind = "report" THEN REPORTED ELSE DESIRED, LBrace)
      written == Through(LAMBDA acc, p : WriteProperty(acc, doc.kind, p, texts[doc.data[p]]),
                          [w |-> state, took |-> 0], SetToSortSeq(Present(doc.data), <))
  IN  IF ~written.w.ok \/ written.took >= len THEN {} ELSE {Buffer(Ends(written.w))}

Texts(doc, texts, len) == IF doc.kind = "get" THEN GetTexts(len) ELSE StateTexts(doc, texts, len)

-----------------------------------------------------------------------------
(* Reading.                                                                *)

ValueAt(text, tokens, path) ==
  LET k == FindToken(text, tokens, path)
  IN  IF k = NoToken THEN <<>> ELSE Found(text, tokens[k])

\* The document in a text that the device published, for a server that reads as the device
\* does: a set of one, or none when the text is no whole object.
MethodOf(kind) == CASE kind = "get" -> GET [] kind = "report" -> UPDATE [] kind = "confirm" -> DELETE
Holder(kind) == IF kind = "report" THEN REPORTED ELSE DESIRED
Published(doc, text) ==
  {[method |-> ValueAt(text, tokens, <<METHOD>>),
    sid |-> ValueAt(text, tokens, <<PASS, SID>>),
    sequence |-> ValueAt(text, tokens, <<SEQUENCE>>),
    state |-> [p \in Props |-> ValueAt(text, tokens, <<STATE_FIELD, Holder(doc.kind), Name[p]>>)]] :
     tokens \in Parse(text, Len(text))}

\* What it is to say: a confirmation takes the desired values away.
Meant(doc, texts) ==
  [method |-> MethodOf(doc.kind), sid |-> Sid,
   sequence |-> IF doc.kind = "confirm" THEN Digits(doc.seq) ELSE <<>>,
   state |-> [p \in Props |-> IF doc.data[p] = None \/ doc.kind = "get" THEN <<>>
                              ELSE IF doc.kind = "report" THEN texts[doc.data[p]] ELSE NULL]]

\* tc_iot_shadow_doc_parse cuts the desired state out of the text and parses it again;
\* in _tc_iot_sync_shadow_property names and values alternate behind the first token, are
\* handed on as they are, and what "null" begins with is taken for null.
Desired(object, tokens, p) ==
  {value \in {Span(object, tokens[2 * i + 1]) :
               i \in {j \in 1..(Len(tokens) \div 2) : Span(object, tokens[2 * j]) = Name[p]}} :
     value = <<>> \/ ~IsPrefix(value, NULL)}
DesiredObject(text, tokens) ==
  LET at == FindToken(text, tokens, <<PAYLOAD, STATE_FIELD, DESIRED>>)
  IN  IF at = NoToken THEN <<>> ELSE Span(text, tokens[at])
Received(text) ==
  UNION {{[method |-> ValueAt(text, tokens, <<METHOD>>),
           sequence |-> ValueAt(text, tokens, <<SEQUENCE>>),
           state |-> [p \in Props |-> Desired(DesiredObject(text, tokens), inner, p)]] :
            inner \in Parse(DesiredObject(text, tokens), MaxTokens)} : tokens \in Parse(text, MaxTokens)}

-----------------------------------------------------------------------------
(* A control document as the server writes it: the sequence number, and in *)
(* the payload the reported state before the desired one.                  *)

HexOf(n) == IF n < 10 THEN 48 + n ELSE 87 + n
Numbered(code) == <<Backslash, 117, HexOf(code \div 4096), HexOf((code \div 256) % 16),
                    HexOf((code \div 16) % 16), HexOf(code % 16)>>
StateOf(data, texts) ==
  Braced([p \in Props |-> Pair(Name[p], IF data[p] = None THEN NULL ELSE Quoted(texts[data[p]]))])
ControlText(doc, other, texts) ==
  Braced(<<Pair(METHOD, Quoted(FlattenSeq([i \in 1..Len(Method) |-> Numbered(Method[i])]))),
           Pair(PAYLOAD, Braced(<<Pair(STATE_FIELD, Braced(<<Pair(REPORTED, StateOf(other, texts)),
                                                       Pair(DESIRED, StateOf(doc.data, texts))>>))>>)),
           Pair(SEQUENCE, Digits(doc.seq))>>)
Ordered(doc, texts) ==
  [method |-> FlattenSeq([i \in 1..Len(Method) |-> Utf8(Method[i])]),
   sequence |-> Digits(doc.seq),
   state |-> [p \in Props |-> IF doc.data[p] = None THEN {} ELSE {texts[doc.data[p]]}]]

-----------------------------------------------------------------------------
(* Properties.                                                             *)

\* The server writes a value as the device would, and reads it raw, only when nothing in
\* it needs a backslash; and a value that "null" begins with cannot be ordered.
Plain(texts) ==
  \A v \in Values : Escape(texts[v], 99) = texts[v] /\ (texts[v] = <<>> \/ ~IsPrefix(texts[v], NULL))

\* What of a document its text depends on.
Essence(doc) == [doc EXCEPT !.seq = IF doc.kind = "confirm" THEN @ ELSE 0,
                            !.data = IF doc.kind = "get" THEN [p \in Props |-> None] ELSE @]

\* The documents some text of which does not say what it is to say, though it is whole, and
\* those of which none is published though there is room.
Garbled ==
  {doc \in {Essence(d) : d \in {e \in Documents : e.kind = "get" \/ Present(e.data) # {}}} :
     \E texts \in ValueTexts :
       \/ \E len \in Lengths : \E text \in Texts(doc, texts, len) :
            ~ (Published(doc, text) \subseteq {Meant(doc, texts)})
       \/ \A text \in Texts(doc, texts, Max(Lengths)) : Published(doc, text) # {Meant(doc, texts)}}

\* The control documents, with the reported state beside the desired one, that are read wrong.
Misread ==
  {control \in {[doc |-> doc, other |-> other] :
                  doc \in [seq : 0..MaxChanges, data : Data], other \in Data} :
     \E texts \in {t \in ValueTexts : Plain(t)} :
       Received(ControlText(control.doc, control.other, texts)) # {Ordered(control.doc, texts)}}

\* Whatever the device has published, the server reads what was meant or no object at all,
\* however large the buffer was: commas, quotes and brackets are right also where a call
\* of the writer failed and nobody looked.  About tc_iot_json_writer.c, its calls in
\* tc_iot_shadow.c, and the names looked up by tc_iot_json_find_token.
ReportsReadBack == \A i \in DOMAIN uplink : Essence(uplink[i]) \notin Garbled

\* Whatever control document is under way, the device finds in its text the sequence number
\* and the desired values, not the reported ones before them nor those of another name.
\* About tc_iot_json_find_token, tc_iot_shadow_doc_parse and _tc_iot_sync_shadow_property.
OrdersReadBack == \A i \in DOMAIN downlink : [doc |-> downlink[i], other |-> view] \notin Misread
=============================================================================
