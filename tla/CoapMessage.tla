----------------------------- MODULE CoapMessage -----------------------------
(***************************************************************************)
(* The messages of src/src/coap/tc_iot_coap.c: how the client builds them, *)
(* writes them into a datagram and reads them back out of one.             *)
(*                                                                         *)
(* A byte is a number in 0..255.  The buffer of a datagram ends where its  *)
(* bytes end; what the reader finds beyond is the zero that                *)
(* tc_iot_coap_yield puts there.                                           *)
(***************************************************************************)
EXTENDS Integers, Sequences, SequencesExt

CONSTANTS
  Requests,     \* requests: their options in the order they are added, their payload
  SendBufSize   \* TC_IOT_COAP_SEND_BUF_SIZE (1152)

Ver == 1
MaxOptions == 16
PayloadMarker == 255
UriPath == 11
UriQuery == 15

-----------------------------------------------------------------------------
(* Building a message.                                                     *)

\* tc_iot_coap_message_init, _set_message_id, _set_type and _set_code.  The
\* token is the id in hexadecimal digits.
HexDigit(n) == IF n < 10 THEN 48 + n ELSE 87 + n
Token(id) == <<HexDigit((id \div 4096) % 16), HexDigit((id \div 256) % 16),
               HexDigit((id \div 16) % 16), HexDigit(id % 16)>>
NewMessage(id, type, code) ==
  [type |-> type, code |-> code, message_id |-> id, token |-> Token(id),
   options |-> <<>>, payload |-> <<>>]

Option(number, value) == [number |-> number, value |-> value]

\* How many options, from the first on, stay before one with this number.
Before(options, number) ==
  LET stay == {i \in 1..Len(options) : options[i].number <= number}
  IN  IF stay = {} THEN 0 ELSE CHOOSE i \in stay : \A j \in stay : j <= i

\* Mutant: the option goes to the end.
AddOptionLast(message, number, value) ==
  IF Len(message.options) >= MaxOptions THEN message
  ELSE [message EXCEPT !.options = Append(@, Option(number, value))]

\* tc_iot_coap_message_add_option.  The memmove makes room for the option by
\* moving one element only: of several that follow, the others are left where
\* they are and the last one's place is read as it was, empty.
AddOption(message, number, value) ==
  LET options == message.options
      i == Before(options, number)
      moved == IF i = Len(options) THEN Append(options, Option(number, value))
               ELSE [j \in 1..(Len(options) + 1) |->
                       CASE j = i + 1 -> Option(number, value)
                         [] j = i + 2 -> options[i + 1]
                         [] j = Len(options) + 1 /\ j # i + 2 -> Option(0, <<>>)
                         [] OTHER -> options[j]]
  IN  IF Len(options) >= MaxOptions THEN message ELSE [message EXCEPT !.options = moved]

SetPayload(message, payload) == [message EXCEPT !.payload = payload]

WithOptions(message, added) ==
  LET built[i \in 0..Len(added)] ==
        IF i = 0 THEN message ELSE AddOption(built[i - 1], added[i].number, added[i].value)
  IN  built[Len(added)]

\* The options the client's own requests are built with: tc_iot_coap_auth,
\* _publish and _rpc.
AuthOptions(path) == <<Option(UriPath, path)>>
PublishOptions(path, token, topic) ==
  AuthOptions(path) \o <<Option(UriQuery, token), Option(UriQuery, topic)>>
RpcOptions(path, token, topic, reply) ==
  PublishOptions(path, token, topic) \o <<Option(UriQuery, reply)>>

-----------------------------------------------------------------------------
(* Writing.                                                                *)

Short(n) == <<(n \div 256) % 256, n % 256>>

\* tc_iot_coap_extendable_number_base: the four bits that stand for a number.
\* The difference of two options out of order is a huge unsigned number.
Base(n) == CASE 0 <= n /\ n < 13 -> n
             [] 13 <= n /\ n < 269 -> 13
             [] 269 <= n /\ n < 65550 -> 14
             [] OTHER -> 0

\* The bytes that extend them: _extra_len and _extra_data.
Extra(n) == CASE 13 <= n /\ n < 269 -> <<n - 13>>
              [] 269 <= n /\ n < 65550 -> Short(n - 269)
              [] OTHER -> <<>>

\* tc_iot_coap_write_option.
OptionBytes(delta, value) ==
  <<Base(delta) * 16 + Base(Len(value))>> \o Extra(delta) \o Extra(Len(value)) \o value

\* No byte: the overflow the writers report.
Overflow == <<-1>>

\* tc_iot_coap_write_char, _short and _bytes as tc_iot_coap_serialize calls them:
\* the room they are given grows with what is written, so that a part that is too
\* long is refused only when it is longer than the buffer and all that went before.
Put(size, written, bytes) ==
  IF written = Overflow \/ Len(bytes) > size + Len(written) THEN Overflow
  ELSE written \o bytes

\* The options alone are given the room that is left.
PutOption(size, written, delta, value) ==
  IF written = Overflow \/ Len(OptionBytes(delta, value)) > size - Len(written) THEN Overflow
  ELSE written \o OptionBytes(delta, value)

Delta(options, i) ==
  options[i].number - (IF i = 1 THEN 0 ELSE options[i - 1].number)

\* tc_iot_coap_serialize.
Head4(message) == <<Ver * 64 + message.type * 16 + Len(message.token), message.code>> \o Short(message.message_id)

Serialize(message, size) ==
  LET written[i \in 0..Len(message.options)] ==
        IF i = 0 THEN Put(size, <<>>, Head4(message) \o message.token)
        ELSE PutOption(size, written[i - 1], Delta(message.options, i), message.options[i].value)
      options == written[Len(message.options)]
  IN  IF message.payload = <<>> THEN options
      ELSE Put(size, Put(size, options, <<PayloadMarker>>), message.payload)

\* tc_iot_coap_send_message sends nothing that fills its buffer.
Datagram(message, size) ==
  LET written == Serialize(message, size)
  IN  IF written = Overflow \/ Len(written) >= size THEN <<>> ELSE written

-----------------------------------------------------------------------------
(* Reading: tc_iot_coap_deserialize.                                       *)

\* What is read: a set of one message, or none.
Refused == {}
ByteAt(buffer, pos) == IF pos < Len(buffer) THEN buffer[pos + 1] ELSE 0
Bytes(buffer, pos, n) == [i \in 1..n |-> ByteAt(buffer, pos + i - 1)]

\* A number of an option whose four bits are `base': what it is and how many
\* bytes extend it.  The two-byte form adds 14, not the 269 it was written with.
Extended(buffer, pos, base) ==
  CASE base = 13 -> [number |-> 13 + ByteAt(buffer, pos), extra |-> 1]
    [] base = 14 -> [number |-> 14 + 256 * ByteAt(buffer, pos) + ByteAt(buffer, pos + 1), extra |-> 2]
    [] OTHER -> [number |-> base, extra |-> 0]

\* Where the reader is: the options read, the number of the last one and the next byte.
At(options, sum, pos, loop) == [options |-> options, sum |-> sum, pos |-> pos, loop |-> loop]

\* A pass of the loop over the options.
OptionTurn(buffer, at) ==
  IF at.loop = "left" THEN at
  ELSE IF at.pos >= Len(buffer) THEN At(at.options, at.sum, at.pos, "left")
  ELSE IF ByteAt(buffer, at.pos) = PayloadMarker THEN At(at.options, at.sum, at.pos + 1, "left")
  ELSE LET base == ByteAt(buffer, at.pos)
           delta == Extended(buffer, at.pos + 1, base \div 16)
           length == Extended(buffer, at.pos + 1 + delta.extra, base % 16)
           start == at.pos + 1 + delta.extra + length.extra
           next == start + length.number
           read == Option(at.sum + delta.number, Bytes(buffer, start, length.number))
       IN  IF base \div 16 = 15 \/ base % 16 = 15 \/ next > Len(buffer)
           THEN At(at.options, at.sum, Len(buffer) + 1, "left")
           ELSE At(IF Len(at.options) < MaxOptions THEN Append(at.options, read) ELSE at.options,
                   read.number, next, "on")

\* Those read and where it stops, behind the marker or at the end; an option that goes past
\* the end is refused.
OptionsFrom(buffer, pos) ==
  LET passes[k \in 0..Len(buffer)] ==
        IF k = 0 THEN At(<<>>, 0, pos, "on")
        ELSE OptionTurn(buffer, passes[k - 1])
  IN  passes[CHOOSE k \in 0..Len(buffer) : passes[k].loop = "left"]

\* What is read, with these options and this payload.
Received(buffer, token_len, options, payload) ==
  [type |-> (buffer[1] \div 16) % 4, code |-> buffer[2], message_id |-> 256 * buffer[3] + buffer[4],
   token |-> Bytes(buffer, 4, token_len), options |-> options, payload |-> payload]

Deserialize(buffer) ==
  LET token_len == buffer[1] % 16
      rest == OptionsFrom(buffer, 4 + token_len)
      payload == SubSeq(buffer, rest.pos + 1, Len(buffer))
  IN  CASE Len(buffer) < 4 -> Refused
        [] Len(buffer) >= 4 /\ 4 + token_len >= Len(buffer) -> {Received(buffer, token_len, <<>>, <<>>)}
        [] OTHER -> IF rest.pos > Len(buffer) THEN Refused
                    ELSE {Received(buffer, token_len, rest.options, payload)}

-----------------------------------------------------------------------------
(* Properties.                                                             *)

\* tc_iot_coap_publish and the other requests: a confirmable POST.
Request(id, request) ==
  SetPayload(WithOptions(NewMessage(id, 0, 2), request.options), request.payload)

\* Options whose number and length fit into four bits and one byte more.
ShortValues == {value \in Seq(0..255) : Len(value) <= 268}
ShortOptions == [number : 0..268, value : ShortValues]

\* Requests with such options, and no more of them than a message has room for.
RequestsAreShort ==
  \A request \in Requests :
    request.options \in Seq(ShortOptions) /\ Len(request.options) <= MaxOptions /\ request.payload \in Seq(0..255)

\* No option is added before more than one that is there: a second one would be
\* lost (AddOption).
AddedInOrder(options) ==
  \A i \in DOMAIN options : \A j, k \in 1..(i - 1) :
    options[j].number > options[i].number /\ options[k].number > options[i].number => j = k

\* The requests whose options are added in such an order.
OrderedRequests == {request \in Requests : AddedInOrder(request.options)}

\* The options that were added, the lower numbers first, those with one number as added.
InOrder(options, added) ==
  /\ Len(options) = Len(added)
  /\ \E place \in [DOMAIN added -> DOMAIN added] :
       /\ \A i \in DOMAIN added : options[place[i]] = added[i]
       /\ \A i, j \in DOMAIN added :
            i < j => IF added[j].number < added[i].number THEN place[j] < place[i] ELSE place[i] < place[j]

\* A datagram that arrives cut short is refused, or read as the same request with
\* fewer options or a shorter payload; never as a request for something else.
CutIsPrefix(message, read) ==
  /\ read.message_id = message.message_id /\ read.code = message.code
  /\ IsPrefix(read.options, message.options) /\ IsPrefix(read.payload, message.payload)

\* The request under this message id has every option its caller added, and one
\* that reads as tc_iot_coap_deserialize does gets it back; cut short, a part.
Survives(id, request) ==
  LET message == Request(id, request)
      sent == Datagram(message, SendBufSize)
  IN  sent # <<>> =>
        /\ InOrder(message.options, request.options)
        /\ Deserialize(sent) = {message}
        /\ \A cut \in 0..(Len(sent) - 1) :
             \A read \in Deserialize(SubSeq(sent, 1, cut)) : CutIsPrefix(message, read)
=============================================================================
