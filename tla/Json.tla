--------------------------------- MODULE Json ---------------------------------
(***************************************************************************)
(* JSON as the device writes and reads it: tc_iot_json_writer.c, which     *)
(* appends to a buffer and looks at its last character to know whether a   *)
(* comma is due, tc_iot_json.c, which looks names up among the tokens of a *)
(* text, and the tokenizer external/jsmn they rely on.                     *)
(*                                                                         *)
(* A text is a sequence of bytes, numbers in 0..255.                       *)
(***************************************************************************)
EXTENDS Integers, Sequences, FiniteSets, SequencesExt

\* FoldLeft of the community modules; TLC has the value of each step before the next.
Through(op(_, _), base, items) ==
  LET upTo[i \in 0..Len(items)] ==
        IF i = 0 THEN base ELSE CHOOSE r \in {op(x, items[i]) : x \in {upTo[i - 1]}} : TRUE
  IN  upTo[Len(items)]

Quote == 34
Comma == 44
Slash == 47
Colon == 58
Backslash == 92
LBracket == 91
RBracket == 93
LBrace == 123
RBrace == 125
Space == {9, 10, 13, 32}

\* The letter behind a backslash, and the control character it stands for.
Letters == [b |-> <<98, 8>>, f |-> <<102, 12>>, n |-> <<110, 10>>, r |-> <<114, 13>>, t |-> <<116, 9>>]
ControlCharacters == {Letters[x] : x \in DOMAIN Letters}

-----------------------------------------------------------------------------
(* Characters.                                                             *)

\* One character in tc_iot_json_escape.
Escaped(c) ==
  IF c \in {Quote, Backslash, Slash} THEN <<Backslash, c>>
  ELSE IF \E x \in ControlCharacters : x[2] = c
       THEN <<Backslash, (CHOOSE x \in ControlCharacters : x[2] = c)[1]>>
  ELSE <<c>>

\* tc_iot_json_escape stops when the room is used up, and may go past it by one.
Escape(text, room) ==
  Through(LAMBDA acc, c : IF Len(acc) >= room THEN acc ELSE acc \o Escaped(c), <<>>, text)

\* tc_iot_unicode_to_utf8, for the codes four digits can say.
Utf8(code) ==
  CASE code <= 127 -> <<code>>
    [] code \in 128..2047 -> <<192 + code \div 64, 128 + (code % 64)>>
    [] OTHER -> <<224 + code \div 4096, 128 + ((code \div 64) % 64), 128 + (code % 64)>>

\* _unicode_char_to_long: the number of each hexadecimal digit.
Hex(c) == CASE c \in 48..57 -> c - 48 [] c \in 97..102 -> c - 87 [] c \in 65..70 -> c - 55
            [] OTHER -> 16
Code(digits) == Through(LAMBDA n, c : 16 * n + Hex(c), 0, digits)

\* What a backslash and what follows it stand for, and how many characters that is: an
\* escape that is none is left as it is; a \u with less than five characters behind the
\* backslash disappears.
Unescaped(text) ==
  LET c == text[2]
      digits == SubSeq(text, 3, 6)
  IN  CASE Len(text) = 1 -> <<<<>>, 1>>
        [] Len(text) > 1 /\ c \in {Quote, Backslash, Slash} -> <<<<c>>, 2>>
        [] Len(text) > 1 /\ (\E x \in ControlCharacters : x[1] = c) ->
             <<<<(CHOOSE x \in ControlCharacters : x[1] = c)[2]>>, 2>>
        [] Len(text) > 1 /\ c = 117 /\ Len(text) < 5 -> <<<<>>, 1>>
        [] Len(text) > 5 /\ c = 117 /\ (\A i \in 1..4 : Hex(digits[i]) < 16) -> <<Utf8(Code(digits)), 6>>
        [] OTHER -> <<<<Backslash>>, 1>>

\* tc_iot_json_unescape.
Unescape(text) ==
  LET rest[i \in 1..(Len(text) + 1)] ==
        IF i > Len(text) THEN <<>>
        ELSE IF text[i] # Backslash THEN <<text[i]>> \o rest[i + 1]
        ELSE LET read == Unescaped(SubSeq(text, i, Len(text))) IN read[1] \o rest[i + read[2]]
  IN  rest[1]

-----------------------------------------------------------------------------
(* The writer: what was put into the buffer so far, the buffer's length,   *)
(* and whether the last call succeeded.  Its position is Len(out).  A      *)
(* position that is exactly the length is noticed at once, one beyond it   *)
(* by the next call only.                                                  *)

\* tc_iot_json_writer_load: the writer begins behind the text before it.
Load(before, len) == [out |-> before, len |-> len, ok |-> TRUE]
Open(len) == Load(<<LBrace>>, len)

NoRoom(w) == w.len < Len(w.out) + 1
Refuse(w) == [w EXCEPT !.ok = FALSE]

\* One write of a call, unless the one before filled the buffer.
Put(w, piece) ==
  LET bytes == IF piece.escaped THEN Escape(piece.bytes, w.len - Len(w.out)) ELSE piece.bytes
      out == w.out \o bytes
  IN  IF w.ok THEN [w EXCEPT !.out = out, !.ok = Len(out) # w.len] ELSE w

Raw(bytes) == [bytes |-> bytes, escaped |-> FALSE]
Text(bytes) == [bytes |-> bytes, escaped |-> TRUE]

\* The comma before a member; there is no test of the position behind it.
CommaBefore(w) == IF Last(w.out) \in {LBrace, LBracket} THEN <<>> ELSE <<Comma>>

\* tc_iot_json_writer_format_data: a member with this name.
Member(w, name, value) ==
  IF NoRoom(w) THEN Refuse(w)
  ELSE Through(Put, [w EXCEPT !.out = @ \o CommaBefore(w), !.ok = TRUE],
                <<Raw(<<Quote>>), Text(name), Raw(<<Quote, Colon>>)>> \o value)

\* An element without a name, in an array.
Element(w, value) ==
  IF NoRoom(w) THEN Refuse(w)
  ELSE Through(Put, [w EXCEPT !.out = @ \o CommaBefore(w), !.ok = TRUE], value)

\* tc_iot_json_writer_string, and the calls that write a value as it is: _raw_data, _bool,
\* _null, _int, _uint and _decimal, object_begin and array_begin.
String(w, name, value) == Member(w, name, <<Raw(<<Quote>>), Text(value), Raw(<<Quote>>)>>)
Value(w, name, value) == Member(w, name, <<Raw(value)>>)
Begin(w, name, bracket) == Value(w, name, <<bracket>>)

\* object_end, array_end and _close.
End(w, bracket) == IF NoRoom(w) THEN Refuse(w) ELSE Put([w EXCEPT !.ok = TRUE], Raw(<<bracket>>))
Close(w) == End(w, RBrace)

\* The string in the buffer: snprintf cuts what does not fit.  (An escaped text that ends
\* exactly with the buffer leaves no NUL; what lies behind it in memory is left out.)
Buffer(w) == SubSeq(w.out, 1, Min({Len(w.out), w.len - 1}))

-----------------------------------------------------------------------------
(* The tokenizer: jsmn_parse with JSMN_PARENT_LINKS.  A token is what a    *)
(* value spans in the text, how many values it holds and the token it is   *)
(* in; the value of a member is in its name.  end = 0: still open.         *)

Start == [tokens |-> <<>>, super |-> 0, mode |-> "out", start |-> 0, ok |-> TRUE]

\* jsmn_alloc_token, jsmn_fill_token.
AddToken(s, type, start, end) ==
  LET counted == [k \in DOMAIN s.tokens |->
                    IF k = s.super THEN [s.tokens[k] EXCEPT !.size = @ + 1] ELSE s.tokens[k]]
  IN  [s EXCEPT !.tokens = Append(counted, [type |-> type, start |-> start, end |-> end,
                                            size |-> 0, parent |-> s.super]),
                !.mode = "out"]

OpenToken(s, type, i) ==
  LET added == AddToken(s, type, i, 0) IN [added EXCEPT !.super = Len(added.tokens)]

\* A closing bracket ends the innermost token that is open.
EndToken(s, type, i) ==
  LET open == {k \in DOMAIN s.tokens : s.tokens[k].end = 0}
      k == Max(open)
  IN  IF open = {} \/ s.tokens[k].type # type THEN Refuse(s)
      ELSE [s EXCEPT !.tokens[k].end = i, !.super = s.tokens[k].parent]

\* Behind a comma the next name is in the object again, not in the name before.
NextMember(s) ==
  IF s.super = 0 \/ s.tokens[s.super].type \in {"object", "array"} THEN s
  ELSE [s EXCEPT !.super = s.tokens[s.super].parent]

Outside(s, c, i) ==
  CASE c = LBrace -> OpenToken(s, "object", i)
    [] c = LBracket -> OpenToken(s, "array", i)
    [] c = RBrace -> EndToken(s, "object", i)
    [] c = RBracket -> EndToken(s, "array", i)
    [] c = Quote -> [s EXCEPT !.mode = "string", !.start = i + 1]
    [] c = Colon -> [s EXCEPT !.super = Len(s.tokens)]
    [] c = Comma -> NextMember(s)
    [] c \in Space -> s
    [] OTHER -> [s EXCEPT !.mode = "primitive", !.start = i]

\* jsmn_parse_string: behind a backslash only what is allowed there.
Escapes(text, i) ==
  \/ text[i] \in {Quote, Slash, Backslash} \cup {x[1] : x \in ControlCharacters}
  \/ text[i] = 117 /\ \A j \in (i + 1)..Min({i + 4, Len(text)}) : Hex(text[j]) < 16

Step(text, s, i) ==
  LET c == text[i] IN
  CASE s.mode = "out" -> Outside(s, c, i)
    [] s.mode = "string" ->
         IF c = Quote THEN AddToken(s, "string", s.start, i - 1)
         ELSE IF c = Backslash THEN [s EXCEPT !.mode = "escape"] ELSE s
    [] s.mode = "escape" -> IF Escapes(text, i) THEN [s EXCEPT !.mode = "string"] ELSE Refuse(s)
    [] s.mode = "primitive" ->
         IF c \in Space \cup {Colon, Comma, RBracket, RBrace}
         THEN Outside(AddToken(s, "primitive", s.start, i - 1), c, i)
         ELSE IF c \in 32..126 THEN s ELSE Refuse(s)

\* jsmn_parse.
Scan(text) ==
  Through(LAMBDA s, i : IF s.ok THEN Step(text, s, i) ELSE s, Start, [i \in DOMAIN text |-> i])

\* tc_iot_json_parse, tc_iot_json_tokenizer_load: the tokens of a text, a set of one
\* sequence, or none when it is no object, is cut off or has too many.
Parse(text, room) ==
  {s.tokens : s \in {t \in {Scan(text)} :
     /\ t.ok /\ t.mode = "out" /\ Len(t.tokens) \in 1..room
     /\ t.tokens[1].type = "object" /\ \A k \in DOMAIN t.tokens : t.tokens[k].end # 0}}

-----------------------------------------------------------------------------
(* The reader.                                                             *)

NoToken == 0
Span(text, t) == SubSeq(text, t.start, t.end)
Children(tokens, k) == {j \in DOMAIN tokens : j > k /\ tokens[j].parent = k}

\* Mutant: whatever string in or below the object has the name.
NamedAnywhere(text, tokens, k, name) ==
  {j \in DOMAIN tokens : j > k /\ tokens[j].type = "string" /\ Span(text, tokens[j]) = name}

\* tc_iot_jsoneq_len on the names of an object.
Named(text, tokens, k, name) ==
  {j \in Children(tokens, k) : tokens[j].type = "string" /\ Span(text, tokens[j]) = name}

\* tc_iot_json_tokenizer_find_child: the token behind the first such name.
FindChild(text, tokens, k, name) ==
  IF tokens[k].type # "object" \/ Named(text, tokens, k, name) = {} THEN NoToken
  ELSE Min(Named(text, tokens, k, name)) + 1

\* tc_iot_json_find_token: a path of names from the first token on.
FindToken(text, tokens, path) ==
  Through(LAMBDA k, name : IF k = NoToken THEN NoToken ELSE FindChild(text, tokens, k, name), 1, path)

\* tc_iot_json_find_nth_child, tc_iot_json_tokenizer_nth_child, counted from 0.
NthChild(tokens, k, n) ==
  LET inOrder == SetToSortSeq(Children(tokens, k), <)
  IN  IF n < tokens[k].size /\ n < Len(inOrder) THEN inOrder[n + 1] ELSE NoToken

\* The value of a token as these two hand it out: one unescapes it, one does not.
Found(text, t) == Unescape(Span(text, t))
NthChildValue(text, tokens, k, n) == Span(text, tokens[NthChild(tokens, k, n)])

-----------------------------------------------------------------------------
(* A text as the server writes it.                                         *)

Listed(items) ==
  Through(LAMBDA acc, x : IF acc = <<>> THEN x ELSE acc \o <<Comma>> \o x, <<>>, items)
Braced(members) == <<LBrace>> \o Listed(members) \o <<RBrace>>
Bracketed(elements) == <<LBracket>> \o Listed(elements) \o <<RBracket>>
Pair(name, value) == <<Quote>> \o name \o <<Quote, Colon>> \o value
Quoted(text) == <<Quote>> \o text \o <<Quote>>
=============================================================================
