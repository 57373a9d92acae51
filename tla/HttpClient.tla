------------------------------ MODULE HttpClient ------------------------------
(***************************************************************************)
(* One exchange of src/common/tc_iot_http_client.c over the sockets of     *)
(* src/platform/linux/tc_iot_hal_net.c and tc_iot_hal_tls.c: the request   *)
(* is written, the response parsed as it arrives in pieces, and its body   *)
(* collected in the buffer of the request, taken out of its chunks, or     *)
(* handed to a callback piece by piece.                                    *)
(*                                                                         *)
(* A response is a sequence of tokens, each a word of the header, a CR, an *)
(* LF or a piece of the body; the buffer holds a number of them and keeps  *)
(* what was in it.  An exchange is a frame of the call stack of the        *)
(* modules that extend this one; the operators here give the frames that   *)
(* may follow a step.                                                      *)
(***************************************************************************)
EXTENDS Transport, SequencesExt

CONSTANT
  MaxNumber         \* bound: the numbers of a response

ASSUME NumberAssumption ==
  /\ MaxNumber \in Nat
  \* The texts of numbers differ, and none of them ends a line.
  /\ \A m, n \in 0..MaxNumber : ToString(m) = ToString(n) => m = n
  /\ \A n \in 0..MaxNumber : ToString(n) # "CR"

REQUEST_FAILED == -1005
INVALID_CHUNK_FORMAT == -1016

\* The tokens that are numbers.
Numbers == [t \in {ToString(n) : n \in 0..MaxNumber} |-> CHOOSE n \in 0..MaxNumber : ToString(n) = t]
IsNumber(token) == token \in DOMAIN Numbers
Number(token) == IF IsNumber(token) THEN Numbers[token] ELSE 0

Statuses == {"200", "206", "404", "500"}

Only(singleton) == CHOOSE x \in singleton : TRUE

-----------------------------------------------------------------------------
(* tc_iot_http_parser_analysis.                                            *)

\* tc_iot_http_parser_init; `sound' is no longer so when a header was read from beyond
\* the end of the buffer.
NewParser == [state |-> "start", status |-> "none", length |-> 0, chunked |-> FALSE, sound |-> TRUE]

\* Where a token is found after a position of the buffer, 0 if it is not.
Find(buf, token, from) ==
  IF \E i \in from..Len(buf) : buf[i] = token
  THEN CHOOSE i \in from..Len(buf) : buf[i] = token /\ \A j \in from..(i - 1) : buf[j] # token
  ELSE 0

\* Headers that count only when their line is complete.
LineHeaders == {"Content-Length", "Location", "Transfer-Encoding"}

Header(parser, name, value, sound) ==
  LET p == [parser EXCEPT !.state = "ignore", !.sound = @ /\ sound]
  IN  IF name = "Content-Length" THEN [p EXCEPT !.length = Number(value)]
      ELSE IF name = "Transfer-Encoding" /\ value \in {"chunked", "identity"}
      THEN [p EXCEPT !.chunked = (value = "chunked")]
      ELSE p

\* tc_iot_http_has_line_ended looks for a CR up to the next NUL; `after' is what follows the
\* tokens received: a NUL, unless they fill the buffer.
LineEnded(buf, from, after) == Find(buf, "CR", from) > 0 \/ after = "CR"

Stop(a) == [a EXCEPT !.run = FALSE]
Fail(a) == [a EXCEPT !.run = FALSE, !.ok = FALSE]
Goto(a, state, parsed) == [a EXCEPT !.parser.state = state, !.parsed = parsed]

AtStart(a, buf) ==
  IF Len(buf) < 3 THEN Stop(a)
  ELSE IF buf[1] # "HTTP" \/ buf[2] \notin Statuses THEN Fail(a)
  ELSE [Goto(a, "ignore", 2) EXCEPT !.parser.status = buf[2]]

AtIgnore(a, buf) ==
  LET cr == Find(buf, "CR", a.parsed + 1)
  IN  IF cr = 0 THEN Stop(Goto(a, "ignore", Len(buf))) ELSE Goto(a, "newline", cr)

AtHeader(a, buf, after) ==
  LET colon == Find(buf, ":", a.parsed + 1)
      name == buf[a.parsed + 1]
      value == IF colon < Len(buf) THEN buf[colon + 1] ELSE "NUL"
  IN  IF buf[a.parsed + 1] = "CR" THEN Goto(a, "body", a.parsed + 1)
      ELSE IF colon = 0 THEN Stop(a)
      ELSE IF colon = a.parsed + 2 /\ name \in LineHeaders THEN
        IF LineEnded(buf, colon + 1, after)
        THEN [a EXCEPT !.parsed = colon,
                       !.parser = Header(a.parser, name, value, colon < Len(buf))]
        ELSE Stop(a)
      ELSE Goto(a, "ignore", colon)

\* One turn of `goto start'.
Turn(a, buf, after) ==
  CASE a.parser.state = "start" -> AtStart(a, buf)
    [] a.parser.state = "ignore" -> AtIgnore(a, buf)
    [] a.parser.state = "newline" -> IF buf[a.parsed + 1] # "LF" THEN Fail(a)
                                     ELSE Goto(a, "header", a.parsed + 1)
    [] a.parser.state = "header" -> AtHeader(a, buf, after)
    [] a.parser.state = "body" -> IF buf[a.parsed + 1] # "LF" THEN Fail(a)
                                  ELSE Stop(Goto(a, "end", a.parsed + 1))
    [] a.parser.state = "end" -> Stop(Goto(a, "end", Len(buf)))

\* The parser, how much of the buffer it has parsed, and whether it went well.
Analysis(parser, buffer, after) ==
  LET parse(p, buf) ==
        LET loop[n \in 0..(2 * Len(buf) + 4)] ==
              IF n = 0 THEN [parser |-> p, parsed |-> 0, run |-> TRUE, ok |-> TRUE]
              ELSE Only({IF a.run /\ a.parsed < Len(buf) THEN Turn(a, buf, after) ELSE a :
                           a \in {loop[n - 1]}})
        IN  loop[2 * Len(buf) + 4]
  IN  Only({parse(p, buf) : p \in {parser}, buf \in {buffer}})

-----------------------------------------------------------------------------
(* Chunks: <<size, "CR", "LF">> \o data \o <<"CR", "LF">>, a last one of   *)
(* size 0.  Positions count from 0, as in the code; the buffer may be      *)
(* looked at beyond what was received.                                     *)

At(buf, pos, beyond) == IF pos < Len(buf) THEN buf[pos + 1] ELSE beyond
SizeLen(token) == IF IsNumber(token) THEN 1 ELSE 0

\* tc_iot_http_is_complete_chunk, which does not count the size itself.
IsCompleteChunk(buffer, len, beyond) ==
  \E buf \in {buffer} :
    LET from[pos \in 0..(3 * Len(buf))] ==
          LET token == At(buf, pos, beyond)
              size == Number(token)
          IN  pos <= len /\ (token = "0" \/ (~(len < pos + size + 2)
                                            /\ from[pos + SizeLen(token) + 2 + size + 2]))
    IN  from[0]

\* tc_iot_http_merge_chunk: where it ended, whether at the last chunk, and the body.
MergeChunk(buf, len, beyond) ==
  LET from[pos \in 0..(3 * Len(buf))] ==
        LET token == At(buf, pos, beyond)
            data == pos + SizeLen(token) + 2
            next == data + Number(token) + 2
        IN  IF pos > len THEN [pos |-> pos, ended |-> FALSE, body |-> <<>>]
            ELSE IF token = "0" THEN [pos |-> data + 2, ended |-> TRUE, body |-> <<>>]
            ELSE IF len < next THEN [pos |-> data, ended |-> FALSE, body |-> <<>>]
            ELSE [from[next] EXCEPT !.body = SubSeq(buf, data + 1, next - 2) \o @]
  IN  from[0]

-----------------------------------------------------------------------------
(* tc_iot_http_client_internal_perform.                                    *)

\* buffer[at..] = tokens.
Put(buf, at, tokens) ==
  [i \in DOMAIN buf |-> IF i \in (at + 1)..(at + Len(tokens)) THEN tokens[i - at] ELSE buf[i]]
PutNul(buf, at) == IF at < Len(buf) THEN [buf EXCEPT ![at + 1] = "NUL"] ELSE buf

\* The request in a buffer of `size' and the network prepared for it.  connect: the result of
\* do_connect; link: what became of the connection; wire: what the server still sends of the
\* whole response; given: what the callback was given last,
\* later: by its loop.
\* History: disturbed, cuts (where reads ended early).
Perform(request, callback, response, size) ==
  [fn |-> "perform", pc |-> "connect", method |-> request.method, secured |-> request.secured,
   request |-> request, net |-> Prepared(request.secured), connect |-> TC_IOT_SUCCESS,
   callback |-> callback, wire |-> response, whole |-> response, link |-> "down",
   buffer |-> [i \in 1..size |-> "request"], left |-> 0, parser |-> NewParser,
   received |-> 0, expired |-> FALSE, given |-> <<>>, later |-> FALSE,
   disturbed |-> FALSE, cuts |-> {}]
Size(f) == Len(f.buffer)

\* The return: result, whether do_disconnect was called, and what the caller sees of the
\* parser, the buffer and the callback.
Return(f, result, disconnects) ==
  [f EXCEPT !.fn = "returned", !.pc = "returned", !.received = result,
            !.net = IF disconnects THEN Disconnected(@) ELSE @,
            !.link = IF disconnects THEN "closed" ELSE @]

\* do_connect: whatever its result, the request is written to what is there.
Connected(f, c) ==
  [f EXCEPT !.pc = "write", !.net = c.net, !.connect = c.rc, !.disturbed = c.net.session # "up"]

\* do_write: a request that is not written completely leaves the connection as it is.
Written(f, net) ==
  LET g == [f EXCEPT !.net = net, !.request = <<>>]
  IN  IF net.session = "up" THEN [g EXCEPT !.pc = "header", !.link = "up"]
      ELSE Return(g, SEND_PACK_FAILED, FALSE)

\* do_read of len tokens (tc_iot_hal_net_read, tc_iot_hal_tls_read): as many as come in time;
\* a connection closed by the server is an error on a socket, and a length of 0 over TLS.
\* early: whether less than what the server sent may have come.
Reads(f, len, early) ==
  IF len = 0 THEN {NOTHING_READ}
  ELSE IF f.wire # <<>> THEN
    LET most == IF len < Len(f.wire) THEN len ELSE Len(f.wire)
    IN  {n \in 1..most : n = most \/ early}
  ELSE CASE f.link = "up" -> {NOTHING_READ}
         [] f.link = "closing" -> {IF f.secured THEN 0 ELSE READ_ERROR}
         [] f.link = "dead" -> {READ_ERROR}

\* The frame after n tokens were read to a place of the buffer.
Took(f, n, at, len) ==
  [f EXCEPT !.buffer = Put(@, at, SubSeq(f.wire, 1, n)),
            !.wire = SubSeq(@, n + 1, Len(@)),
            !.cuts = IF n < len /\ n < Len(f.wire)
                     THEN @ \cup {Len(f.whole) - Len(f.wire) + n} ELSE @]

\* Mutant: the callback is given the buffer to its end.
BodyBeginsWithBuffer(f) ==
  LET g == [f EXCEPT !.received = f.left]
  IN  IF f.method = "HEAD" THEN Return(g, TC_IOT_SUCCESS, FALSE)
      ELSE IF f.parser.length > Size(f) /\ f.callback
      THEN [g EXCEPT !.pc = "called", !.given = f.buffer]
      ELSE [g EXCEPT !.pc = IF f.parser.chunked THEN "chunk" ELSE "identity"]

\* The header is complete: a HEAD request returns with the connection open, a body larger
\* than the buffer goes to the callback, others are collected.
BodyBegins(f) ==
  LET g == [f EXCEPT !.received = f.left]
  IN  IF f.method = "HEAD" THEN Return(g, TC_IOT_SUCCESS, FALSE)
      ELSE IF f.parser.length > Size(f) THEN
        IF ~f.callback THEN Return(g, BUFFER_OVERFLOW, TRUE)
        ELSE [g EXCEPT !.pc = "called", !.given = SubSeq(f.buffer, 1, f.left)]
      ELSE [g EXCEPT !.pc = IF f.parser.chunked THEN "chunk" ELSE "identity"]

\* Mutant: what was not parsed stays where it is.
HeaderParsedInPlace(f, a, read) ==
  LET h == [f EXCEPT !.parser = a.parser, !.left = read - a.parsed]
  IN  IF ~a.ok THEN Return(f, TC_IOT_FAILURE, TRUE)
      ELSE IF a.parser.status \notin {"200", "206"} THEN Return(h, REQUEST_FAILED, TRUE)
      ELSE IF a.parser.state = "end" THEN BodyBegins(h)
      ELSE IF f.expired THEN Return(h, read, TRUE)
      ELSE h

\* The buffer was parsed: what was not parsed moves to its front.
HeaderParsed(f, a, read) ==
  LET left == read - a.parsed
      moved == IF left = 0 THEN f.buffer
               ELSE PutNul(Put(f.buffer, 0, SubSeq(f.buffer, a.parsed + 1, read)), left)
      h == [f EXCEPT !.parser = a.parser, !.left = left, !.buffer = moved]
  IN  IF ~a.ok THEN Return(f, TC_IOT_FAILURE, TRUE)
      ELSE IF a.parser.status \notin {"200", "206"} THEN Return(h, REQUEST_FAILED, TRUE)
      ELSE IF a.parser.state = "end" THEN BodyBegins(h)
      ELSE IF f.expired THEN Return(h, read, TRUE)
      ELSE h

ParseHeader(f, n, beyond) ==
  LET read == n + f.left
      after == IF read < Size(f) THEN "NUL" ELSE beyond
  IN  Only({HeaderParsed([g EXCEPT !.buffer = PutNul(@, read)], a, read) :
              g \in {Took(f, n, f.left, Size(f) - f.left)},
              a \in {Analysis(f.parser, SubSeq(f.buffer, 1, f.left) \o SubSeq(f.wire, 1, n), after)}})

\* Mutant: the timer is looked at only when something was read.
ReadHeaderUntimed(f, n, beyond) ==
  IF n > 0 THEN ParseHeader(f, n, beyond)
  ELSE IF n = NOTHING_READ THEN f ELSE Return(f, n, TRUE)

\* The header loop: the timer is looked at after each read, also when nothing came.
ReadHeader(f, n, beyond) ==
  IF n > 0 THEN ParseHeader(f, n, beyond)
  ELSE IF n = NOTHING_READ THEN IF f.expired THEN Return(f, n, TRUE) ELSE f
  ELSE Return(f, n, TRUE)

\* Mutant: the connection is left to the caller.
CallbackReturnsConnected(f) ==
  LET received == f.received + (IF f.later THEN f.connect ELSE 0)
  IN  IF received < f.parser.length THEN [f EXCEPT !.pc = "callback", !.received = received]
      ELSE Return(f, IF f.later THEN TC_IOT_SUCCESS ELSE received, FALSE)

\* After the callback, the result of do_connect is added to what was received; the last piece
\* ends the download with TC_IOT_SUCCESS.
CallbackReturns(f) ==
  LET received == f.received + (IF f.later THEN f.connect ELSE 0)
  IN  IF received < f.parser.length THEN [f EXCEPT !.pc = "callback", !.received = received]
      ELSE Return(f, IF f.later THEN TC_IOT_SUCCESS ELSE received, TRUE)

\* The loop that hands the body to the callback, one token of the buffer kept for the NUL.
ReadForCallback(f, n) ==
  IF n > 0 THEN [Took(f, n, 0, Size(f) - 1) EXCEPT
    !.buffer = f.buffer, !.pc = "called", !.received = @ + n, !.given = SubSeq(f.wire, 1, n),
    !.later = TRUE]
  ELSE IF n = NOTHING_READ THEN f ELSE Return(f, n, TRUE)

IdentityEnds(f) == IF f.received < f.parser.length THEN f ELSE Return(f, f.received, TRUE)

\* The loop that collects a body of known length.
ReadIdentity(f, n) ==
  IF n > 0 THEN IdentityEnds([Took(f, n, f.received, Size(f) - f.received) EXCEPT !.received = @ + n])
  ELSE IF n = NOTHING_READ THEN f ELSE Return(f, n, TRUE)

\* Mutant: the body is not moved over the sizes of its chunks.
ChunksEndUnmerged(f, beyond) ==
  IF ~IsCompleteChunk(f.buffer, f.received, beyond) THEN f
  ELSE LET m == MergeChunk(f.buffer, f.received, beyond)
       IN  Return(f, IF m.ended THEN f.received ELSE INVALID_CHUNK_FORMAT, TRUE)

\* Complete chunks are merged in place; the length returned is that of the chunks.
ChunksEnd(f, beyond) ==
  IF ~IsCompleteChunk(f.buffer, f.received, beyond) THEN f
  ELSE Only({IF m.pos # f.received \/ m.body = <<>> \/ ~m.ended
             THEN Return(f, INVALID_CHUNK_FORMAT, TRUE)
             ELSE Return([f EXCEPT !.buffer = PutNul(Put(@, 0, m.body), Len(m.body))], f.received, TRUE) :
               m \in {MergeChunk(f.buffer, f.received, beyond)}})

\* The loop that collects chunks.
ReadChunk(f, n, beyond) ==
  IF n > 0 THEN ChunksEnd([Took(f, n, f.received, Size(f) - f.received) EXCEPT !.received = @ + n], beyond)
  ELSE IF n = NOTHING_READ THEN f ELSE Return(f, n, TRUE)

\* What may follow a full buffer in memory, as far as the parsers tell it apart.
Memory == {"NUL", "CR", "0"}
Beyond(f, received) == IF received < Size(f) THEN {"NUL"} ELSE Memory

\* Frames that may follow a read.
AfterRead(frame, early) == UNION {
  CASE f.pc = "header" ->
         UNION {{ReadHeader(f, n, b) : b \in Beyond(f, n + f.left)} : n \in Reads(f, Size(f) - f.left, early)}
    [] f.pc = "callback" -> {ReadForCallback(f, n) : n \in Reads(f, Size(f) - 1, early)}
    [] f.pc = "identity" -> IF f.received >= f.parser.length THEN {IdentityEnds(f)}
         ELSE {ReadIdentity(f, n) : n \in Reads(f, Size(f) - f.received, early)}
    [] f.pc = "chunk" ->
         {ChunksEnd(f, b) : b \in {x \in Beyond(f, f.received) : IsCompleteChunk(f.buffer, f.received, x)}}
           \cup IF \A b \in Beyond(f, f.received) : IsCompleteChunk(f.buffer, f.received, b) THEN {}
                ELSE UNION {{ReadChunk(f, n, b) : b \in Beyond(f, f.received + n)} :
                              n \in Reads(f, Size(f) - f.received, early)}
  : f \in {frame}}

Reading(f) == f.fn = "perform" /\ f.pc \in {"header", "callback", "identity", "chunk"}

\* The server closes the connection, or it breaks, after any part of the response,
\* or it stays up and the rest never comes: `link' says which.
Broken(f, link, k) == [f EXCEPT !.link = link, !.wire = SubSeq(@, 1, k), !.disturbed = TRUE]
=============================================================================
